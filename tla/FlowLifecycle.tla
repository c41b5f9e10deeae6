---------------------------- MODULE FlowLifecycle ----------------------------
(***************************************************************************)
(* What the add-on's schema promises about one sign-in flow, with no       *)
(* tables, no clock and no module instances: a flow is opened once, its    *)
(* contents are handed to at most one callback, only while it is open, and *)
(* a flow that has been closed (it expired, or the request that claimed it *)
(* failed) is never open again.  FlowStore implements this.                *)
(***************************************************************************)

CONSTANT Handles

VARIABLE status

Statuses == {"unopened", "open", "taken", "closed"}

TypeOK == status \in [Handles -> Statuses]

Init == status = [h \in Handles |-> "unopened"]

(* /start or /link saved a flow under a fresh handle. *)
Open(h) ==
    /\ status[h] = "unopened"
    /\ status' = [status EXCEPT ![h] = "open"]

(* One callback was handed the flow's state, nonce and verifier. *)
Take(h) ==
    /\ status[h] = "open"
    /\ status' = [status EXCEPT ![h] = "taken"]

(* Flows nobody will finish: a tick of the clock may close several. *)
Close(S) ==
    /\ \A h \in S : status[h] \in {"unopened", "open"}
    /\ status' = [h \in Handles |-> IF h \in S THEN "closed" ELSE status[h]]

Next ==
    \/ \E h \in Handles : Open(h) \/ Take(h)
    \/ \E S \in SUBSET Handles : Close(S)

Spec == Init /\ [][Next]_status
==============================================================================
