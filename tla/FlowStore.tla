------------------------------ MODULE FlowStore ------------------------------
(***************************************************************************)
(* The add-on's Postgres schema while sign-ins run against it              *)
(* (oidc/store.go, and the calls Begin and callback make into it).         *)
(*                                                                         *)
(* The host makes a module instance per request, several at a time, and    *)
(* an instance keeps nothing between requests, so everything that decides  *)
(* who may finish a flow is in two tables: flows, and spent, the record of *)
(* the handles that have been claimed.  One storage call is one            *)
(* autocommitted statement, so an instance takes one step per statement    *)
(* and other instances, the clock and the route deadline come in between.  *)
(*                                                                         *)
(* Every statement has three outcomes: it ran and the module was told so,  *)
(* it did not run and the module was told of an error, or it ran and the   *)
(* module was told of an error (the reply was lost).  An instance may also *)
(* be stopped between two statements, by a trap or the route deadline.     *)
(*                                                                         *)
(* A row is reduced to its key and its time: what else a flow holds is     *)
(* carried unread from the insert to the select.  Times are in any unit;   *)
(* now() is the database's clock, which does not run backwards.            *)
(***************************************************************************)
EXTENDS Naturals

CONSTANTS
    Instances,  \* module instances the host may run at the same time
    Handles,    \* the handles Random can draw
    Strays,     \* cookie values this schema never issued
    NoHandle,   \* an instance that carries no handle
    FlowTTL,    \* the lifetime of a flow (600 seconds)
    SpentKeep,  \* how long a spent handle is kept (3600 seconds)
    MaxTime     \* bound on the clock

ASSUME CookieAssumption ==
    /\ Handles \cap Strays = {}
    /\ NoHandle \notin Handles \cup Strays

ASSUME TimeAssumption == {FlowTTL, SpentKeep, MaxTime} \subseteq Nat

(* A spent handle is kept at least as long as a flow lives. *)
ASSUME KeepAssumption == FlowTTL <= SpentKeep

VARIABLES
    now,     \* the database's clock
    flows,   \* the rows of flows
    spent,   \* the rows of spent
    inst,    \* per instance: the statement it is at and the handle it carries
    drawn,   \* the handles Random has answered so far
    given,   \* the handles a browser has been given in a cookie
    opened,  \* history: every row that has been written to flows
    reads    \* history: how often a flow's contents were handed to a callback

history == <<opened, reads>>
vars == <<now, flows, spent, inst, drawn, given, opened, reads>>

Cookies == Handles \cup Strays

Places == {"idle", "sweepFlows", "sweepSpent", "draw", "insert", "redirect",
           "claim", "select", "delete"}

FlowRows  == [handle : Cookies, expires_at : Nat]
SpentRows == [handle : Cookies, spent_at : Nat]

TypeOK ==
    /\ now \in 0 .. MaxTime
    /\ flows \subseteq FlowRows
    /\ spent \subseteq SpentRows
    /\ inst \in [Instances -> [at : Places, handle : Cookies \cup {NoHandle}]]
    /\ drawn \subseteq Handles
    /\ given \subseteq Handles
    /\ opened \subseteq FlowRows
    /\ reads \in [Handles -> Nat]

Idle == [at |-> "idle", handle |-> NoHandle]

Init ==
    /\ now = 0
    /\ flows = {}
    /\ spent = {}
    /\ inst = [i \in Instances |-> Idle]
    /\ drawn = {}
    /\ given = {}
    /\ opened = {}
    /\ reads = [h \in Handles |-> 0]

-----------------------------------------------------------------------------
(* The statements, as what they select from or leave in a table. *)

Has(table, h) == \E row \in table : row.handle = h

(* WHERE expires_at > now() *)
Live(row) == row.expires_at > now

(* sqlSelectFlow *)
SelectFlow(h) == {f \in flows : f.handle = h /\ Live(f)}

(* Mutants of DeadFlow: expiry mistaken for the start of a life, and claimed
   flows tidied away with the dead ones. *)
DeadFlowEarly(f)   == f.expires_at < now + FlowTTL
DeadFlowClaimed(f) == f.expires_at < now \/ Has(spent, f.handle)

(* sqlSweepFlows: WHERE expires_at < now() *)
DeadFlow(f) == f.expires_at < now

(* Mutant of DeadSpent: the hour of grace is left out. *)
DeadSpentAtOnce(s) == s.spent_at < now

(* sqlSweepSpent: WHERE spent_at < now() - interval '1 hour' *)
DeadSpent(s) == s.spent_at + SpentKeep < now

Goto(i, place, h) == inst' = [inst EXCEPT ![i] = [at |-> place, handle |-> h]]

(* The instance answers its request, with a page of failure or not, and ends. *)
End(i) == inst' = [inst EXCEPT ![i] = Idle]

-----------------------------------------------------------------------------
(* Begin, from the sweep on: discovery and the key set have been read. *)

Start(i) ==
    /\ inst[i].at = "idle"
    /\ Goto(i, "sweepFlows", NoHandle)
    /\ UNCHANGED <<now, flows, spent, drawn, given, history>>

(* Mutant of SweepFlows: Sweep returns after its first statement. *)
SweepFlowsOnly(i) ==
    /\ inst[i].at = "sweepFlows"
    /\ flows' = {f \in flows : ~DeadFlow(f)} \/ flows' = flows
    /\ Goto(i, "draw", NoHandle)
    /\ UNCHANGED <<now, spent, drawn, given, history>>

(* The first statement of Sweep.  If it fails Sweep returns, and Begin logs
   that and goes on. *)
SweepFlows(i) ==
    /\ inst[i].at = "sweepFlows"
    /\ \/ /\ flows' = {f \in flows : ~DeadFlow(f)}
          /\ \/ Goto(i, "sweepSpent", NoHandle)
             \/ Goto(i, "draw", NoHandle)
       \/ /\ flows' = flows
          /\ Goto(i, "draw", NoHandle)
    /\ UNCHANGED <<now, spent, drawn, given, history>>

SweepSpent(i) ==
    /\ inst[i].at = "sweepSpent"
    /\ spent' = {s \in spent : ~DeadSpent(s)} \/ spent' = spent
    /\ Goto(i, "draw", NoHandle)
    /\ UNCHANGED <<now, flows, drawn, given, history>>

(* Mutant of Draw: the error of Random is dropped. *)
DrawRegardless(i) ==
    /\ inst[i].at = "draw"
    /\ \/ \E h \in Handles \ drawn :
            /\ drawn' = drawn \cup {h}
            /\ Goto(i, "insert", h)
       \/ drawn' = drawn /\ Goto(i, "insert", inst[i].handle)
    /\ UNCHANGED <<now, flows, spent, given, history>>

(* Random draws a handle nobody has seen, or the host has no bytes to give. *)
Draw(i) ==
    /\ inst[i].at = "draw"
    /\ \/ \E h \in Handles \ drawn :
            /\ drawn' = drawn \cup {h}
            /\ Goto(i, "insert", h)
       \/ drawn' = drawn /\ End(i)
    /\ UNCHANGED <<now, flows, spent, given, history>>

(* SaveFlow.  Told of an error, Begin answers a failure and no cookie, whether
   or not the row was written. *)
InsertFlow(i) ==
    LET h   == inst[i].handle
        row == [handle |-> h, expires_at |-> now + FlowTTL] IN
    /\ inst[i].at = "insert"
    /\ \/ /\ ~Has(flows, h)
          /\ flows' = flows \cup {row}
          /\ opened' = opened \cup {row}
          /\ Goto(i, "redirect", h) \/ End(i)
       \/ UNCHANGED <<flows, opened>> /\ End(i)
    /\ UNCHANGED <<now, spent, drawn, given, reads>>

(* The response reaches the browser: it holds the cookie and is on its way to
   the provider. *)
Redirect(i) ==
    /\ inst[i].at = "redirect"
    /\ given' = given \cup {inst[i].handle}
    /\ End(i)
    /\ UNCHANGED <<now, flows, spent, drawn, history>>

-----------------------------------------------------------------------------
(* A callback, up to the end of ClaimFlow. *)

(* A browser comes back with a cookie, any number of times and on any number of
   connections; or with a cookie left from another life of the schema. *)
Callback(i) ==
    /\ inst[i].at = "idle"
    /\ \E h \in given \cup Strays : Goto(i, "claim", h)
    /\ UNCHANGED <<now, flows, spent, drawn, given, history>>

(* Mutant of Claim: an error is read as the claim having gone through. *)
ClaimHoping(i) ==
    LET h == inst[i].handle IN
    /\ inst[i].at = "claim"
    /\ \/ ~Has(spent, h) /\ spent' = spent \cup {[handle |-> h, spent_at |-> now]}
       \/ spent' = spent
    /\ Goto(i, "select", h) \/ End(i)
    /\ UNCHANGED <<now, flows, drawn, given, history>>

(* sqlClaimFlow: the primary key of spent lets one INSERT of a handle through.
   Every error is read as somebody else having it. *)
Claim(i) ==
    LET h == inst[i].handle IN
    /\ inst[i].at = "claim"
    /\ \/ /\ ~Has(spent, h)
          /\ spent' = spent \cup {[handle |-> h, spent_at |-> now]}
          /\ Goto(i, "select", h) \/ End(i)
       \/ spent' = spent /\ End(i)
    /\ UNCHANGED <<now, flows, drawn, given, history>>

(* sqlSelectFlow, and the test for exactly one row. *)
Select(i) ==
    LET h == inst[i].handle IN
    /\ inst[i].at = "select"
    /\ \/ /\ \E f \in flows : SelectFlow(h) = {f}
          /\ reads' = [reads EXCEPT ![h] = @ + 1]
          /\ Goto(i, "delete", h)
       \/ reads' = reads /\ End(i)
    /\ UNCHANGED <<now, flows, spent, drawn, given, opened>>

(* sqlDeleteFlow, whose failure is ignored. *)
Delete(i) ==
    /\ inst[i].at = "delete"
    /\ flows' = {f \in flows : f.handle # inst[i].handle} \/ flows' = flows
    /\ End(i)
    /\ UNCHANGED <<now, spent, drawn, given, history>>

-----------------------------------------------------------------------------
(* The instance is stopped between two statements. *)
Stop(i) ==
    /\ inst[i].at # "idle"
    /\ End(i)
    /\ UNCHANGED <<now, flows, spent, drawn, given, history>>

Tick ==
    /\ now < MaxTime
    /\ now' = now + 1
    /\ UNCHANGED <<flows, spent, inst, drawn, given, history>>

BeginStep(i) ==
    \/ SweepFlows(i) \/ SweepSpent(i) \/ Draw(i) \/ InsertFlow(i) \/ Redirect(i)

ClaimStep(i) == Claim(i) \/ Select(i) \/ Delete(i)

Next ==
    \/ \E i \in Instances :
         Start(i) \/ Callback(i) \/ BeginStep(i) \/ ClaimStep(i) \/ Stop(i)
    \/ Tick

Spec == Init /\ [][Next]_vars

-----------------------------------------------------------------------------
(* Safety. *)

(* A flow's state, nonce and verifier are handed to at most one callback, over
   all instances and for as long as the add-on runs, whatever is swept,
   stopped or lost on the way (ClaimFlow, store.go:206-248). *)
SingleUse == \A h \in Handles : reads[h] <= 1

(* While a flow could still be selected, the record that it has been claimed is
   not swept: a flow that was read, and whose row the best-effort DELETE left
   behind, still meets its spent handle (Sweep, store.go:259-262). *)
SpentOutlivesFlow ==
    \A f \in flows : Live(f) /\ reads[f.handle] > 0 => Has(spent, f.handle)

(* No sweep and no other callback takes a flow away from the visitor who is
   still at the provider: until it is read or expires, its row is there. *)
UnreadFlowIsKept ==
    \A f \in opened : Live(f) /\ reads[f.handle] = 0 => f \in flows

(* The claim decides: a callback whose INSERT into spent went through is not
   refused by the SELECT that follows unless the flow has expired. *)
ClaimantFindsFlow ==
    \A i \in Instances, f \in opened :
      inst[i] = [at |-> "select", handle |-> f.handle] /\ Live(f)
        => SelectFlow(f.handle) = {f}

-----------------------------------------------------------------------------
(* The inductive invariant the four rest on (FlowStoreProofs). *)

At(i, place, h) == inst[i].at = place /\ inst[i].handle = h

(* A handle is drawn once, so it keys one row ever written; only a row that was
   written is in the table, and only its handle is in a cookie. *)
HandlesAreFresh ==
    /\ flows \subseteq opened
    /\ \A f \in opened : f.handle \in drawn
    /\ \A f, g \in opened : f.handle = g.handle => f = g
    /\ \A h \in given : Has(opened, h)
    /\ \A h \in Handles : reads[h] > 0 => h \in given
    /\ \A s \in spent : s.handle \in given \cup Strays

(* What an instance carries from one statement to the next. *)
InstancesCarry ==
    /\ \A i \in Instances :
         /\ inst[i].at = "insert" =>
              inst[i].handle \in drawn /\ ~Has(opened, inst[i].handle)
         /\ inst[i].at = "redirect" =>
              inst[i].handle \in Handles /\ Has(opened, inst[i].handle)
         /\ inst[i].at \in {"claim", "select", "delete"} =>
              inst[i].handle \in given \cup Strays
         /\ inst[i].at = "delete" /\ inst[i].handle \in Handles =>
              reads[inst[i].handle] > 0
    /\ \A i, j \in Instances :
         inst[i].at = "insert" /\ At(j, "insert", inst[i].handle) => i = j

(* A flow is claimed no earlier than it was written, so the record of its claim
   goes no earlier than the flow does. *)
ClaimsOutlast ==
    /\ \A f \in opened : f.expires_at <= now + FlowTTL
    /\ \A f \in opened, s \in spent :
         f.handle = s.handle => f.expires_at <= s.spent_at + FlowTTL

(* While a flow is live: whoever has read it or is about to has left a record
   of the claim, and nobody is about to read what was read. *)
LiveClaimsAreRecorded ==
    \A f \in opened : Live(f) =>
      /\ reads[f.handle] > 0 => Has(spent, f.handle)
      /\ \A i \in Instances :
           At(i, "select", f.handle) =>
             /\ Has(spent, f.handle)
             /\ reads[f.handle] = 0
             /\ \A j \in Instances : At(j, "select", f.handle) => i = j

(* The conjunction that every step preserves. *)
Inductive ==
    /\ TypeOK
    /\ HandlesAreFresh
    /\ InstancesCarry
    /\ ClaimsOutlast
    /\ LiveClaimsAreRecorded
    /\ UnreadFlowIsKept
    /\ SingleUse

-----------------------------------------------------------------------------
(* What the two tables implement. *)

Claimed(h) == Has(spent, h) /\ \A i \in Instances : inst[i] # [at |-> "select", handle |-> h]

(* The state of a flow, read off the tables: it is open while its row is live
   and either nobody has claimed it or the one who has is about to read it. *)
Status(h) ==
    IF reads[h] > 0 THEN "taken"
    ELSE IF ~Has(opened, h) THEN "unopened"
    ELSE IF SelectFlow(h) # {} /\ ~Claimed(h) THEN "open"
    ELSE "closed"

Lifecycle == INSTANCE FlowLifecycle WITH status <- [h \in Handles |-> Status(h)]

(* The tables keep the promise of FlowLifecycle. *)
ImplementsLifecycle == Lifecycle!Spec

-----------------------------------------------------------------------------
(* Liveness. The host runs every instance it has made to its end.  That dead
   rows go away needs more than the code: visitors who keep starting sign-ins,
   for there is no timer, and a database that does not fail every sweep from
   some moment on. *)

SweepFlowsRuns(i) == SweepFlows(i) /\ inst'[i].at = "sweepSpent"

SweepSpentRuns(i) == SweepSpent(i) /\ \A s \in spent' : ~DeadSpent(s)

Fairness ==
    \A i \in Instances :
      /\ WF_vars(BeginStep(i) \/ ClaimStep(i))
      /\ SF_vars(Start(i))
      /\ SF_vars(SweepFlowsRuns(i))
      /\ SF_vars(SweepSpentRuns(i))

FairSpec == Spec /\ Fairness

(* Neither table keeps a row past its life for ever (Sweep, store.go:250-254). *)
DeadRowsAreSwept ==
    \A h \in Cookies :
      /\ (\E f \in flows : f.handle = h /\ DeadFlow(f)) ~> ~Has(flows, h)
      /\ (\E s \in spent : s.handle = h /\ DeadSpent(s))
           ~> ~(\E s \in spent : s.handle = h /\ DeadSpent(s))
==============================================================================
