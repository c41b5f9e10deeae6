------------------------- MODULE FlowStoreRefinement -------------------------
(***************************************************************************)
(* FlowStore implements FlowLifecycle: the two tables, swept and raced as  *)
(* they are, behave like a flow that opens once and is taken at most once. *)
(* A step of FlowStore opens one flow, takes one flow, or closes some.     *)
(***************************************************************************)
EXTENDS FlowStoreProofs

(* A step after which every flow is as it was or newly closed. *)
OnlyCloses ==
    \A h \in Handles :
      \/ Status(h)' = Status(h)
      \/ Status(h) \in {"unopened", "open"} /\ Status(h)' = "closed"

LEMMA ClosingStep ==
    ASSUME OnlyCloses
    PROVE  Lifecycle!Close({h \in Handles : Status(h)' # Status(h)})
BY DEF OnlyCloses, Lifecycle!Close

(* What Status is read from, apart from the instances at a select. *)
LEMMA SameTables ==
    ASSUME UNCHANGED <<now, flows, spent, history>>,
           \A h \in Handles, i \in Instances :
             (inst[i] = [at |-> "select", handle |-> h])
               <=> (inst'[i] = [at |-> "select", handle |-> h])
    PROVE  \A h \in Handles : Status(h)' = Status(h)
BY DEF Status, Claimed, SelectFlow, Has, Live, history

LEMMA InitRefines == Init => Lifecycle!Init
BY DEF Init, Lifecycle!Init, Status, Claimed, SelectFlow, Live, Has

LEMMA QuietSteps ==
    ASSUME Inductive, NEW i \in Instances,
           Start(i) \/ Callback(i) \/ Draw(i) \/ Redirect(i)
    PROVE  OnlyCloses
<1>1. UNCHANGED <<now, flows, spent, history>>
  BY DEF Start, Callback, Draw, Redirect
<1>2. /\ \A j \in Instances \ {i} : inst'[j] = inst[j]
      /\ inst[i].at # "select" /\ inst'[i].at # "select"
  BY DEF Start, Callback, Draw, Redirect, Goto, End, Idle, Inductive, TypeOK
<1> QED
  BY <1>1, <1>2, SameTables DEF OnlyCloses

(* Stop, and a select that fails, may leave a claimed flow nobody will read. *)
LEMMA AbandoningSteps ==
    ASSUME Inductive, NEW i \in Instances, End(i),
           UNCHANGED <<now, flows, spent, history>>
    PROVE  OnlyCloses
BY DEF OnlyCloses, Status, Claimed, SelectFlow, Has, Live, history, End, Idle,
       Inductive, TypeOK

LEMMA ClockSteps == ASSUME Inductive, Tick PROVE OnlyCloses
BY DEF Tick, OnlyCloses, Status, Claimed, SelectFlow, Has, Live, history,
       Inductive, TypeOK, FlowRows

(* A sweep of flows takes nothing that could still be selected. *)
LEMMA SweepFlowsSteps ==
    ASSUME Inductive, NEW i \in Instances, SweepFlows(i) PROVE OnlyCloses
<1>1. \A h : SelectFlow(h)' = SelectFlow(h)
  BY DEF SweepFlows, SelectFlow, Live, DeadFlow, Inductive, TypeOK, FlowRows
<1>2. /\ \A j \in Instances \ {i} : inst'[j] = inst[j]
      /\ inst[i].at # "select" /\ inst'[i].at # "select"
  BY DEF SweepFlows, Goto, Inductive, TypeOK
<1>3. UNCHANGED <<spent, history>>
  BY DEF SweepFlows
<1> QED
  BY <1>1, <1>2, <1>3 DEF OnlyCloses, Status, Claimed, SelectFlow, Live, Has, history

(* A sweep of spent forgets only claims of flows that have expired. *)
LEMMA SweepSpentSteps ==
    ASSUME Inductive, NEW i \in Instances, SweepSpent(i) PROVE OnlyCloses
<1>1. \A f \in flows : Live(f) => (Has(spent, f.handle) <=> Has(spent', f.handle))
  BY DeadClaimDeadFlow DEF SweepSpent, Has, Inductive, HandlesAreFresh
<1>2. /\ \A j \in Instances \ {i} : inst'[j] = inst[j]
      /\ inst[i].at # "select" /\ inst'[i].at # "select"
  BY DEF SweepSpent, Goto, Inductive, TypeOK
<1>3. UNCHANGED <<now, flows, history>>
  BY DEF SweepSpent
<1> QED
  BY <1>1, <1>2, <1>3 DEF OnlyCloses, Status, Claimed, SelectFlow, Live, Has, history

(* A row left behind by a callback that read it belongs to a flow that was
   taken, and stays so when it is deleted. *)
LEMMA DeleteSteps ==
    ASSUME Inductive, NEW i \in Instances, Delete(i) PROVE OnlyCloses
<1> DEFINE d == inst[i].handle
<1>1. UNCHANGED <<now, spent, history>> /\ d \in Cookies
  BY CookieAssumption DEF Delete, Inductive, TypeOK, InstancesCarry, Cookies
<1>2. d \in Handles => reads[d] > 0
  BY DEF Delete, Inductive, InstancesCarry
<1>3. /\ \A j \in Instances \ {i} : inst'[j] = inst[j]
      /\ inst[i].at # "select" /\ inst'[i].at # "select"
  BY DEF Delete, End, Idle, Inductive, TypeOK
<1>4. \A h : h # d => {f \in flows' : f.handle = h} = {f \in flows : f.handle = h}
  BY DEF Delete
<1> QED
  BY <1>1, <1>2, <1>3, <1>4
     DEF OnlyCloses, Status, Claimed, SelectFlow, Live, Has, history

(* Writing a row opens one flow; with a lifetime of zero it closes at once. *)
LEMMA InsertSteps ==
    ASSUME Inductive, NEW i \in Instances, InsertFlow(i)
    PROVE  OnlyCloses \/ \E h \in Handles : Lifecycle!Open(h)
<1>1. PICK h0 \in Handles : inst[i].handle = h0
  BY DEF InsertFlow, Inductive, TypeOK, InstancesCarry
<1>2. Status(h0) = "unopened" /\ Status(h0)' \in {"unopened", "open", "closed"}
  BY <1>1
     DEF InsertFlow, Inductive, TypeOK, InstancesCarry, HandlesAreFresh,
         Status, Has, Claimed, SelectFlow, Live
<1>3. \A h \in Handles \ {h0} : Status(h)' = Status(h)
  BY <1>1
     DEF InsertFlow, Inductive, TypeOK, Goto, End, Idle, Status, Has, Claimed,
         SelectFlow, Live
<1>4. CASE Status(h0)' = "open"
  BY <1>2, <1>3, <1>4 DEF Lifecycle!Open
<1>5. CASE Status(h0)' # "open"
  BY <1>2, <1>3, <1>5 DEF OnlyCloses
<1> QED
  BY <1>4, <1>5

(* The INSERT into spent leaves the flow open for the claimant alone; if the
   reply is lost, for nobody. *)
LEMMA ClaimSteps ==
    ASSUME Inductive, NEW i \in Instances, Claim(i) PROVE OnlyCloses
<1>1. PICK h0 \in Cookies : inst[i].handle = h0
  BY CookieAssumption DEF Claim, Inductive, TypeOK, InstancesCarry, Cookies
<1>2. /\ UNCHANGED <<now, flows, history>>
      /\ \A h \in Handles \ {h0} : Has(spent', h) <=> Has(spent, h)
      /\ \A j \in Instances \ {i} : inst'[j] = inst[j]
  BY <1>1 DEF Claim, Has, Goto, End, Idle, Inductive, TypeOK
<1>3. inst[i].at = "claim" /\ inst'[i].handle \in {h0, NoHandle}
  BY <1>1 DEF Claim, Goto, End, Idle, Inductive, TypeOK
<1>4. \A h \in Handles \ {h0} : Status(h)' = Status(h)
  BY <1>2, <1>3, CookieAssumption
     DEF Status, Claimed, SelectFlow, Live, Has, history
<1>5. ASSUME h0 \in Handles
      PROVE  \/ Status(h0)' = Status(h0)
             \/ Status(h0) = "open" /\ Status(h0)' = "closed"
  <2>1. CASE ~Has(spent, h0)
    BY <1>1, <1>2, <2>1 DEF Status, Claimed, SelectFlow, Live, Has, history
  <2>2. CASE Has(spent, h0)
    BY <1>1, <1>2, <2>2
       DEF Claim, End, Idle, Status, Claimed, SelectFlow, Live, Has, history,
           Inductive, TypeOK
  <2> QED
    BY <2>1, <2>2
<1> QED
  BY <1>4, <1>5 DEF OnlyCloses

(* Reading takes the flow; any other end of the select abandons it. *)
LEMMA SelectSteps ==
    ASSUME Inductive, NEW i \in Instances, Select(i)
    PROVE  OnlyCloses \/ \E h \in Handles : Lifecycle!Take(h)
<1>1. CASE reads' = reads /\ End(i)
  BY <1>1, AbandoningSteps DEF Select, history
<1>2. CASE /\ \E f \in flows : SelectFlow(inst[i].handle) = {f}
           /\ reads' = [reads EXCEPT ![inst[i].handle] = @ + 1]
           /\ Goto(i, "delete", inst[i].handle)
  <2>1. PICK h0 \in Handles : inst[i].handle = h0
    BY <1>2 DEF SelectFlow, Inductive, TypeOK, HandlesAreFresh
  <2>2. UNCHANGED <<now, flows, spent, opened>>
    BY DEF Select
  <2>3. \A h \in Handles \ {h0} : Status(h)' = Status(h)
    BY <1>2, <2>1, <2>2
       DEF Status, Claimed, SelectFlow, Live, Has, Goto, Inductive, TypeOK
  <2>4. Status(h0) = "open" /\ Status(h0)' = "taken"
    <3>1. PICK f \in flows : SelectFlow(h0) = {f}
      BY <1>2, <2>1
    <3>2. f \in opened /\ f.handle = h0 /\ Live(f)
      BY <3>1 DEF SelectFlow, Inductive, HandlesAreFresh
    <3>3. reads[h0] = 0 /\ inst[i] = [at |-> "select", handle |-> h0]
      BY <2>1, <3>2
         DEF Select, Inductive, TypeOK, LiveClaimsAreRecorded, At
    <3>4. reads'[h0] > 0
      BY <1>2, <2>1, <3>3 DEF Inductive, TypeOK
    <3> QED
      BY <3>1, <3>2, <3>3, <3>4 DEF Status, Claimed, SelectFlow, Live, Has
  <2> QED
    BY <2>3, <2>4 DEF Lifecycle!Take
<1> QED
  BY <1>1, <1>2 DEF Select

(* Every step of FlowStore is a step of FlowLifecycle on the mapped status, or
   leaves it alone. *)
LEMMA StepRefines ==
    Inductive /\ [Next]_vars => [Lifecycle!Next]_([h \in Handles |-> Status(h)])
<1> SUFFICES ASSUME Inductive, [Next]_vars
             PROVE  [Lifecycle!Next]_([h \in Handles |-> Status(h)])
    OBVIOUS
<1>1. OnlyCloses => \E S \in SUBSET Handles : Lifecycle!Close(S)
  BY ClosingStep
<1>2. \/ OnlyCloses
      \/ \E h \in Handles : Lifecycle!Open(h) \/ Lifecycle!Take(h)
  <2>1. ASSUME NEW i \in Instances,
               Start(i) \/ Callback(i) \/ Draw(i) \/ Redirect(i)
        PROVE  OnlyCloses
    BY <2>1, QuietSteps
  <2>2. ASSUME NEW i \in Instances, Stop(i) PROVE OnlyCloses
    BY <2>2, AbandoningSteps DEF Stop
  <2>3. ASSUME NEW i \in Instances,
               SweepFlows(i) \/ SweepSpent(i) \/ Claim(i) \/ Delete(i)
        PROVE  OnlyCloses
    BY <2>3, SweepFlowsSteps, SweepSpentSteps, ClaimSteps, DeleteSteps
  <2>4. CASE UNCHANGED vars
    BY <2>4, SameTables DEF vars, OnlyCloses, history
  <2> QED
    BY <2>1, <2>2, <2>3, <2>4, ClockSteps, InsertSteps, SelectSteps
       DEF Next, BeginStep, ClaimStep
<1> QED
  BY <1>1, <1>2 DEF Lifecycle!Next

(* The two tables implement the lifecycle: whatever order the statements of
   concurrent callbacks, sweeps and sign-ins take, and whichever of them fail,
   a flow is opened once, taken at most once and never reopened. *)
THEOREM ImplementsFlowLifecycle == Spec => ImplementsLifecycle
<1>1. Init => Lifecycle!Init
  BY InitRefines
<1>2. Inductive /\ [Next]_vars
        => [Lifecycle!Next]_([h \in Handles |-> Status(h)])
  BY StepRefines
<1> QED
  BY <1>1, <1>2, InductiveInvariance, PTL
     DEF Spec, ImplementsLifecycle, Lifecycle!Spec
==============================================================================
