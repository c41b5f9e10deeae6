--------------------------- MODULE FlowStoreProofs ---------------------------
(***************************************************************************)
(* Proofs about FlowStore for every number of instances, every set of      *)
(* handles and every pair of lifetimes with FlowTTL <= SpentKeep.          *)
(*                                                                         *)
(* There is one lemma per conjunct of Inductive, saying that a step that   *)
(* starts in Inductive ends in the conjunct.  Each lemma has a step for    *)
(* every action that writes what the conjunct reads and one step for all   *)
(* the others.                                                             *)
(***************************************************************************)
EXTENDS FlowStore, TLAPS

LEMMA InitInductive == Init => Inductive
BY TimeAssumption
   DEF Init, Inductive, TypeOK, HandlesAreFresh, InstancesCarry, ClaimsOutlast,
       LiveClaimsAreRecorded, UnreadFlowIsKept, SingleUse, Has, At, Idle,
       Cookies, Places, FlowRows, SpentRows

(* The handle an instance carries into an INSERT is one the column can hold. *)
LEMMA TypeStep == Inductive /\ [Next]_vars => TypeOK'
<1> SUFFICES ASSUME Inductive, [Next]_vars PROVE TypeOK'
    OBVIOUS
<1> USE TimeAssumption
    DEF Inductive, TypeOK, Cookies, FlowRows, SpentRows, Places, history,
        Goto, End, Idle
<1>1. ASSUME NEW i \in Instances,
             Start(i) \/ Callback(i) \/ Stop(i) \/ Redirect(i)
      PROVE  TypeOK'
  BY <1>1 DEF Start, Callback, Stop, Redirect, InstancesCarry
<1>2. ASSUME NEW i \in Instances, SweepFlows(i) \/ SweepSpent(i) \/ Draw(i)
      PROVE  TypeOK'
  BY <1>2 DEF SweepFlows, SweepSpent, Draw
<1>3. ASSUME NEW i \in Instances, InsertFlow(i) PROVE TypeOK'
  BY <1>3 DEF InsertFlow, InstancesCarry
<1>4. ASSUME NEW i \in Instances, Claim(i) PROVE TypeOK'
  BY <1>4 DEF Claim, InstancesCarry
<1>5. ASSUME NEW i \in Instances, Select(i) \/ Delete(i) PROVE TypeOK'
  BY <1>5 DEF Select, Delete
<1>6. CASE Tick
  BY <1>6 DEF Tick
<1>7. CASE UNCHANGED vars
  BY <1>7 DEF vars
<1> QED
  BY <1>1, <1>2, <1>3, <1>4, <1>5, <1>6, <1>7 DEF Next, BeginStep, ClaimStep

(* Random never repeats itself and only Redirect hands a handle out, so a
   handle keys one row. *)
LEMMA FreshStep == Inductive /\ [Next]_vars => HandlesAreFresh'
<1> SUFFICES ASSUME Inductive, [Next]_vars PROVE HandlesAreFresh'
    OBVIOUS
<1> USE DEF Inductive, TypeOK, HandlesAreFresh, Has, Goto, End, history
<1>1. ASSUME NEW i \in Instances, SweepFlows(i) \/ SweepSpent(i) \/ Delete(i)
      PROVE  HandlesAreFresh'
  BY <1>1 DEF SweepFlows, SweepSpent, Delete
<1>2. ASSUME NEW i \in Instances, Draw(i) PROVE HandlesAreFresh'
  BY <1>2 DEF Draw
<1>3. ASSUME NEW i \in Instances, InsertFlow(i) PROVE HandlesAreFresh'
  BY <1>3 DEF InsertFlow, InstancesCarry
<1>4. ASSUME NEW i \in Instances, Redirect(i) PROVE HandlesAreFresh'
  BY <1>4 DEF Redirect, InstancesCarry
<1>5. ASSUME NEW i \in Instances, Claim(i) PROVE HandlesAreFresh'
  BY <1>5 DEF Claim, InstancesCarry
<1>6. ASSUME NEW i \in Instances, Select(i) PROVE HandlesAreFresh'
  BY <1>6, CookieAssumption DEF Select, InstancesCarry, SelectFlow
<1>7. CASE UNCHANGED <<flows, spent, drawn, given, history>>
  BY <1>7
<1> QED
  BY <1>1, <1>2, <1>3, <1>4, <1>5, <1>6, <1>7
     DEF Next, BeginStep, ClaimStep, Start, Callback, Stop, Tick, vars

LEMMA CarryStep == Inductive /\ [Next]_vars => InstancesCarry'
<1> SUFFICES ASSUME Inductive, [Next]_vars PROVE InstancesCarry'
    OBVIOUS
<1> USE DEF Inductive, TypeOK, InstancesCarry, Has, At, Goto, End, Idle, history
<1>1. ASSUME NEW i \in Instances, Start(i) \/ Callback(i) \/ Stop(i)
      PROVE  InstancesCarry'
  BY <1>1 DEF Start, Callback, Stop
<1>2. ASSUME NEW i \in Instances, SweepFlows(i) \/ SweepSpent(i)
      PROVE  InstancesCarry'
  BY <1>2 DEF SweepFlows, SweepSpent
<1>3. ASSUME NEW i \in Instances, Draw(i) PROVE InstancesCarry'
  BY <1>3 DEF Draw, HandlesAreFresh
<1>4. ASSUME NEW i \in Instances, InsertFlow(i) PROVE InstancesCarry'
  <2> DEFINE h   == inst[i].handle
             row == [handle |-> h, expires_at |-> now + FlowTTL]
  <2>1. UNCHANGED <<drawn, given, reads>>
    BY <1>4 DEF InsertFlow
  <2>2. CASE opened' = opened /\ End(i)
    BY <2>1, <2>2
  <2>3. CASE opened' = opened \cup {row} /\ (Goto(i, "redirect", h) \/ End(i))
    <3>1. h \in Handles /\ row \in opened' /\ opened \subseteq opened'
      BY <1>4, <2>3 DEF InsertFlow
    <3>2. \A j \in Instances :
            j # i /\ inst[j].at = "insert" => ~Has(opened', inst[j].handle)
      BY <1>4, <2>3 DEF InsertFlow
    <3>3. /\ \A j \in Instances : j # i => inst'[j] = inst[j]
          /\ inst'[i] \in {Idle, [at |-> "redirect", handle |-> h]}
      BY <2>3
    <3>4. Has(opened', h)
      BY <3>1
    <3> QED
      BY <2>1, <3>1, <3>2, <3>3, <3>4
  <2> QED
    BY <1>4, <2>2, <2>3 DEF InsertFlow
<1>5. ASSUME NEW i \in Instances, Redirect(i) PROVE InstancesCarry'
  BY <1>5 DEF Redirect
<1>6. ASSUME NEW i \in Instances, Claim(i) PROVE InstancesCarry'
  BY <1>6 DEF Claim
<1>7. ASSUME NEW i \in Instances, Select(i) PROVE InstancesCarry'
  BY <1>7 DEF Select
<1>8. ASSUME NEW i \in Instances, Delete(i) PROVE InstancesCarry'
  BY <1>8 DEF Delete
<1>9. CASE UNCHANGED <<inst, drawn, given, history>>
  BY <1>9
<1> QED
  BY <1>1, <1>2, <1>3, <1>4, <1>5, <1>6, <1>7, <1>8, <1>9
     DEF Next, BeginStep, ClaimStep, Tick, vars

(* A handle that has no row has not been given out, so nobody has claimed it:
   when a row is written there is no older claim of its handle. *)
LEMMA OutlastStep == Inductive /\ [Next]_vars => ClaimsOutlast'
<1> SUFFICES ASSUME Inductive, [Next]_vars PROVE ClaimsOutlast'
    OBVIOUS
<1> USE TimeAssumption
    DEF Inductive, TypeOK, Cookies, FlowRows, SpentRows, ClaimsOutlast, history
<1>1. ASSUME NEW i \in Instances, SweepSpent(i) PROVE ClaimsOutlast'
  BY <1>1 DEF SweepSpent
<1>2. ASSUME NEW i \in Instances, InsertFlow(i) PROVE ClaimsOutlast'
  BY <1>2, CookieAssumption
     DEF InsertFlow, InstancesCarry, HandlesAreFresh, Has
<1>3. ASSUME NEW i \in Instances, Claim(i) PROVE ClaimsOutlast'
  BY <1>3 DEF Claim
<1>4. CASE Tick
  BY <1>4 DEF Tick
<1>5. CASE UNCHANGED <<now, opened, spent>>
  BY <1>5
<1> QED
  BY <1>1, <1>2, <1>3, <1>4, <1>5
     DEF Next, BeginStep, ClaimStep, Start, Callback, Stop, SweepFlows, Draw,
         Redirect, Select, Delete, vars

(* The one place the two lifetimes meet: a claim old enough to be swept is of a
   flow that has expired. *)
LEMMA DeadClaimDeadFlow ==
    ASSUME Inductive, NEW f \in opened, NEW s \in spent,
           f.handle = s.handle, DeadSpent(s)
    PROVE  ~Live(f)
BY TimeAssumption, KeepAssumption
   DEF Inductive, TypeOK, Cookies, FlowRows, SpentRows, ClaimsOutlast,
       DeadSpent, Live

LEMMA RecordedStep == Inductive /\ [Next]_vars => LiveClaimsAreRecorded'
<1> SUFFICES ASSUME Inductive, [Next]_vars PROVE LiveClaimsAreRecorded'
    OBVIOUS
<1> USE TimeAssumption
    DEF Inductive, TypeOK, Cookies, FlowRows, SpentRows, LiveClaimsAreRecorded,
        Has, Live, At, Goto, End, Idle, history
<1>1. ASSUME NEW i \in Instances, Start(i) \/ Callback(i) \/ Stop(i)
      PROVE  LiveClaimsAreRecorded'
  BY <1>1 DEF Start, Callback, Stop
<1>2. ASSUME NEW i \in Instances, SweepFlows(i) \/ Draw(i) \/ Redirect(i)
      PROVE  LiveClaimsAreRecorded'
  BY <1>2 DEF SweepFlows, Draw, Redirect
<1>3. ASSUME NEW i \in Instances, SweepSpent(i) PROVE LiveClaimsAreRecorded'
  BY <1>3, DeadClaimDeadFlow DEF SweepSpent
<1>4. ASSUME NEW i \in Instances, InsertFlow(i) PROVE LiveClaimsAreRecorded'
  BY <1>4, CookieAssumption DEF InsertFlow, InstancesCarry, HandlesAreFresh
<1>5. ASSUME NEW i \in Instances, Claim(i) PROVE LiveClaimsAreRecorded'
  <2> DEFINE h == inst[i].handle
  <2>1. UNCHANGED <<now, opened, reads>>
    BY <1>5 DEF Claim
  <2>2. CASE End(i) /\ spent \subseteq spent'
    BY <2>1, <2>2
  <2>3. CASE /\ ~Has(spent, h)
             /\ spent' = spent \cup {[handle |-> h, spent_at |-> now]}
             /\ Goto(i, "select", h)
    <3>1. \A f \in opened : Live(f) /\ f.handle = h
            => reads[h] = 0 /\ \A j \in Instances : ~At(j, "select", h)
      BY <2>3 DEF HandlesAreFresh
    <3>2. /\ At(i, "select", h)'
          /\ \A j \in Instances : j # i => inst'[j] = inst[j]
      BY <2>3
    <3>3. [handle |-> h, spent_at |-> now] \in spent' /\ spent \subseteq spent'
      BY <2>3
    <3>4. Has(spent', h)
      BY <3>3
    <3> QED
      BY <2>1, <2>3, <3>1, <3>2, <3>3, <3>4
  <2> QED
    BY <1>5, <2>2, <2>3 DEF Claim
<1>6. ASSUME NEW i \in Instances, Select(i) PROVE LiveClaimsAreRecorded'
  BY <1>6 DEF Select, HandlesAreFresh
<1>7. ASSUME NEW i \in Instances, Delete(i) PROVE LiveClaimsAreRecorded'
  BY <1>7 DEF Delete
<1>8. CASE Tick
  BY <1>8 DEF Tick
<1>9. CASE UNCHANGED vars
  BY <1>9 DEF vars
<1> QED
  BY <1>1, <1>2, <1>3, <1>4, <1>5, <1>6, <1>7, <1>8, <1>9
     DEF Next, BeginStep, ClaimStep

(* A row leaves flows when it is dead, or when the callback that read it
   deletes it. *)
LEMMA KeptStep == Inductive /\ [Next]_vars => UnreadFlowIsKept'
<1> SUFFICES ASSUME Inductive, [Next]_vars PROVE UnreadFlowIsKept'
    OBVIOUS
<1> USE TimeAssumption
    DEF Inductive, TypeOK, Cookies, FlowRows, UnreadFlowIsKept, Live, history
<1>1. ASSUME NEW i \in Instances, SweepFlows(i) PROVE UnreadFlowIsKept'
  BY <1>1 DEF SweepFlows, DeadFlow
<1>2. ASSUME NEW i \in Instances, InsertFlow(i) PROVE UnreadFlowIsKept'
  BY <1>2 DEF InsertFlow
<1>3. ASSUME NEW i \in Instances, Select(i) PROVE UnreadFlowIsKept'
  BY <1>3 DEF Select, HandlesAreFresh
<1>4. ASSUME NEW i \in Instances, Delete(i) PROVE UnreadFlowIsKept'
  BY <1>4 DEF Delete, InstancesCarry, HandlesAreFresh
<1>5. CASE Tick
  BY <1>5 DEF Tick
<1>6. CASE UNCHANGED <<now, flows, history>>
  BY <1>6
<1> QED
  BY <1>1, <1>2, <1>3, <1>4, <1>5, <1>6
     DEF Next, BeginStep, ClaimStep, Start, Callback, Stop, SweepSpent, Draw,
         Redirect, Claim, vars

(* Whoever selects a live row is the one whose claim is recorded, and a claim
   is recorded once. *)
LEMMA SingleUseStep == Inductive /\ [Next]_vars => SingleUse'
<1> SUFFICES ASSUME Inductive, [Next]_vars PROVE SingleUse'
    OBVIOUS
<1> USE DEF Inductive, TypeOK, SingleUse, history
<1>1. ASSUME NEW i \in Instances, Select(i) PROVE SingleUse'
  BY <1>1
     DEF Select, SelectFlow, LiveClaimsAreRecorded, HandlesAreFresh, At
<1>2. CASE UNCHANGED reads
  BY <1>2
<1> QED
  BY <1>1, <1>2
     DEF Next, BeginStep, ClaimStep, Start, Callback, Stop, SweepFlows,
         SweepSpent, Draw, InsertFlow, Redirect, Claim, Delete, Tick, vars

(* The strengthened invariant holds for ever: of what the module's tables,
   clock and instances can reach, nothing leaves it. *)
THEOREM InductiveInvariance == Spec => []Inductive
<1>1. Init => Inductive
  BY InitInductive
<1>2. Inductive /\ [Next]_vars => Inductive'
  BY TypeStep, FreshStep, CarryStep, OutlastStep, RecordedStep, KeptStep,
     SingleUseStep DEF Inductive
<1> QED
  BY <1>1, <1>2, PTL DEF Spec

(* Every row written to the two tables has a key and a time of its column's
   type, and every instance is at a statement of Begin or of ClaimFlow. *)
THEOREM TypeCorrect == Spec => []TypeOK
<1>1. Inductive => TypeOK
  BY DEF Inductive
<1> QED
  BY <1>1, InductiveInvariance, PTL

(* ClaimFlow hands a flow out at most once, for any number of concurrent
   callbacks, statements that fail or whose reply is lost, stopped instances
   and sweeps (store.go:206-263). *)
THEOREM FlowsAreSingleUse == Spec => []SingleUse
<1>1. Inductive => SingleUse
  BY DEF Inductive
<1> QED
  BY <1>1, InductiveInvariance, PTL

(* The hour a spent handle is kept covers every moment its flow could still be
   selected (store.go:259-262). *)
THEOREM SpentOutlives == Spec => []SpentOutlivesFlow
<1>1. Inductive => SpentOutlivesFlow
  BY DEF Inductive, SpentOutlivesFlow, LiveClaimsAreRecorded, HandlesAreFresh
<1> QED
  BY <1>1, InductiveInvariance, PTL

(* A visitor still at the provider does not lose the flow to a sweep or to
   somebody else's callback. *)
THEOREM UnreadFlowsAreKept == Spec => []UnreadFlowIsKept
<1>1. Inductive => UnreadFlowIsKept
  BY DEF Inductive
<1> QED
  BY <1>1, InductiveInvariance, PTL

(* The INSERT into spent decides who owns a flow: the SELECT behind it finds
   the row unless the flow has expired. *)
THEOREM ClaimantsFindTheirFlow == Spec => []ClaimantFindsFlow
<1>1. Inductive => ClaimantFindsFlow
  BY DEF Inductive, ClaimantFindsFlow, LiveClaimsAreRecorded, UnreadFlowIsKept,
         HandlesAreFresh, SelectFlow, At
<1> QED
  BY <1>1, InductiveInvariance, PTL
==============================================================================
