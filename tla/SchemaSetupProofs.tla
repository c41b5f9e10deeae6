-------------------------- MODULE SchemaSetupProofs --------------------------
(***************************************************************************)
(* Proofs about SchemaSetup for any number of instances.                   *)
(*                                                                         *)
(* That only a fault halves the schema is a matter of who is still at      *)
(* work: behind every table that is there, unless the DDL was cut, comes   *)
(* the next one or the instance that is about to create it (Carried).      *)
(***************************************************************************)
EXTENDS SchemaSetup, TLAPS

(* What a request holds while it is at work. *)
Working ==
    \A i \in Instances :
      /\ inst[i].at # "idle" => inst[i].request \in Requests
      /\ inst[i].at = "create" => inst[i].ddl \in 1 .. 3

(* A request in ensure's loop is past tables that are there. *)
CreatedSoFar ==
    \A i \in Instances : inst[i].at = "create" =>
      \A m \in 1 .. 3 : m < inst[i].ddl => schema[m] \in tables

(* The next table is there, or somebody is about to create it, unless the DDL
   was cut. *)
Carried ==
    ~cut => \A n \in 1 .. 2 : schema[n] \in tables =>
      \/ schema[n + 1] \in tables
      \/ \E i \in Instances : inst[i].at = "create" /\ inst[i].ddl = n + 1

Inductive == TypeOK /\ Working /\ CreatedSoFar /\ TablesInOrder /\ Carried

-----------------------------------------------------------------------------
(* The DDL has three statements, and no request has more than four. *)
LEMMA Schema ==
  /\ DOMAIN schema = 1 .. 3 /\ Len(schema) = 3
  /\ schema[1] = "flows" /\ schema[2] = "spent" /\ schema[3] = "documents"
  /\ Tables = {"flows", "spent", "documents"}
<1>1. /\ DOMAIN schema = 1 .. 3 /\ Len(schema) = 3
      /\ schema[1] = "flows" /\ schema[2] = "spent" /\ schema[3] = "documents"
  BY DEF schema
<1>2. 1 .. 3 = {1, 2, 3}
  OBVIOUS
<1> QED
  BY <1>1, <1>2 DEF Tables

(* The three kinds of request, and how many statements one has at most. *)
LEMMA Statements ==
  /\ Requests = {"begin", "callback", "index"}
  /\ \A request \in Requests : DOMAIN statements[request] \subseteq 1 .. 4
BY DEF Requests, statements

(* No table, no request. *)
LEMMA InitInductive == Init => Inductive
<1> SUFFICES ASSUME Init PROVE Inductive
    OBVIOUS
<1> USE Schema DEF Init, Idle, Records
<1>1. TypeOK
  <2>1. Idle \in Records
    OBVIOUS
  <2>2. redirected \in BOOLEAN /\ cut \in BOOLEAN
    OBVIOUS
  <2> QED
    BY <2>1, <2>2 DEF TypeOK
<1>2. Working /\ CreatedSoFar
  BY DEF Working, CreatedSoFar
<1>3. TablesInOrder /\ Carried
  BY DEF TablesInOrder, Carried
<1> QED
  BY <1>1, <1>2, <1>3 DEF Inductive

-----------------------------------------------------------------------------
(* One request takes a step and the others stay. *)
Becomes(i, r) ==
    /\ inst' \in [Instances -> Records]
    /\ inst'[i] = r
    /\ \A j \in Instances : j # i => inst'[j] = inst[j]

(* A step that changes fields of one record replaces the whole record. *)
LEMMA WholeRecord ==
  ASSUME TypeOK, NEW i \in Instances, NEW r \in Records, inst' = [inst EXCEPT ![i] = r]
  PROVE  Becomes(i, r)
BY DEF TypeOK, Becomes

(* A step out of ensure's loop, or that does not enter it. *)
Leaves(i) ==
    \E r \in Records :
      /\ Becomes(i, r)
      /\ r.at # "create"
      /\ r.at # "idle" => r.request \in Requests

(* The request is over. *)
LEMMA EndLeaves == ASSUME TypeOK, NEW i \in Instances, End(i) PROVE Leaves(i)
<1>1. Idle \in Records /\ Idle.at = "idle"
  BY DEF Idle, Records
<1> QED
  BY <1>1, WholeRecord DEF End, Leaves

(* The statement runs that ensure has held up. *)
LEMMA CheckedLeaves ==
  ASSUME TypeOK, NEW i \in Instances, inst[i].request \in Requests, Checked(i)
  PROVE  Leaves(i)
<1> DEFINE r == [inst[i] EXCEPT !.at = "run", !.ddl = 0]
<1>1. inst[i] \in Records /\ 0 \in 0 .. Len(schema)
  BY Schema DEF TypeOK
<1>2. r \in Records /\ r.at = "run" /\ r.request = inst[i].request
  BY <1>1 DEF Records
<1>3. inst' = [inst EXCEPT ![i] = r]
  BY DEF Checked, TypeOK, Records
<1> HIDE DEF r
<1> QED
  BY <1>2, <1>3, WholeRecord DEF Leaves

(* The request goes on, or it was at its last statement. *)
LEMMA ProceedLeaves ==
  ASSUME TypeOK, NEW i \in Instances, inst[i].request \in Requests, NEW m, Proceed(i, m)
  PROVE  Leaves(i)
<1>1. CASE End(i)
  BY <1>1, EndLeaves
<1>2. CASE /\ m \in DOMAIN statements[inst[i].request]
           /\ inst' = [inst EXCEPT ![i].at = "run", ![i].ddl = 0, ![i].stmt = m]
  <2> DEFINE r == [inst[i] EXCEPT !.at = "run", !.ddl = 0, !.stmt = m]
  <2>1. m \in 0 .. 4
    BY <1>2, Statements
  <2>2. inst[i] \in Records /\ 0 \in 0 .. Len(schema)
    BY Schema DEF TypeOK
  <2>3. r \in Records /\ r.at = "run" /\ r.request = inst[i].request
    BY <2>1, <2>2 DEF Records
  <2>4. inst' = [inst EXCEPT ![i] = r]
    BY <1>2 DEF TypeOK, Records
  <2> HIDE DEF r
  <2> QED
    BY <2>3, <2>4, WholeRecord DEF Leaves
<1> QED
  BY <1>1, <1>2 DEF Proceed

(* An error sends the request on to another statement, or ends it. *)
LEMMA FailLeaves ==
  ASSUME TypeOK, NEW i \in Instances, inst[i].request \in Requests, Fail(i)
  PROVE  Leaves(i)
BY EndLeaves, ProceedLeaves DEF Fail

(* Both say whether a visitor was sent away. *)
LEMMA Redirection ==
  ASSUME TypeOK, NEW i \in Instances,
         Fail(i) \/ (\E m \in Nat : Proceed(i, m)) \/ UNCHANGED redirected
  PROVE  redirected' \in BOOLEAN
BY DEF TypeOK, Fail, Proceed

(* A request that is not in the loop, or leaves it where nothing is missing that
   it was about to create, takes nothing from the others. *)
LEMMA Outside ==
  ASSUME Inductive, NEW i \in Instances, Leaves(i), redirected' \in BOOLEAN,
         cut' \in BOOLEAN, cut => cut', tables' \subseteq Tables, tables \subseteq tables',
         TablesInOrder',
         cut' \/ \A n \in 1 .. 2 : schema[n] \in tables' => schema[n] \in tables,
         cut' \/ (inst[i].at = "create" => schema[inst[i].ddl] \in tables')
  PROVE  Inductive'
<1> USE DEF Inductive
<1>1. PICK r \in Records : /\ Becomes(i, r)
                           /\ r.at # "create"
                           /\ r.at # "idle" => r.request \in Requests
  BY DEF Leaves
<1>2. TypeOK'
  BY <1>1 DEF TypeOK, Becomes
<1>3. Working' /\ CreatedSoFar'
  BY <1>1 DEF Working, CreatedSoFar, Becomes
<1>4. Carried'
  <2> SUFFICES ASSUME ~cut', NEW n \in 1 .. 2, schema[n] \in tables', schema[n + 1] \notin tables'
               PROVE  \E j \in Instances : inst'[j].at = "create" /\ inst'[j].ddl = n + 1
    BY DEF Carried
  <2>1. PICK j \in Instances : inst[j].at = "create" /\ inst[j].ddl = n + 1
    BY DEF Carried, TypeOK
  <2>2. j # i
    BY <2>1
  <2> QED
    BY <1>1, <2>1, <2>2 DEF Becomes
<1> QED
  BY <1>2, <1>3, <1>4

(* A statement of the DDL is at its place, and so are those before it. *)
LEMMA OrderKept ==
  ASSUME Inductive, NEW i \in Instances, inst[i].at = "create",
         tables' = tables \cup {schema[inst[i].ddl]}
  PROVE  TablesInOrder' /\ tables' \subseteq Tables
<1>1. inst[i].ddl \in 1 .. 3
  BY DEF Inductive, Working
<1>2. schema[inst[i].ddl] \in Tables
  BY <1>1, Schema
<1>3. ASSUME NEW m \in 1 .. 3, NEW n \in 1 .. 3, m < n, schema[n] \in tables'
      PROVE  schema[m] \in tables'
  <2>1. CASE schema[n] \in tables
    BY <1>3, <2>1, Schema DEF Inductive, TablesInOrder
  <2>2. CASE schema[n] = schema[inst[i].ddl]
    <3>1. n = inst[i].ddl
      BY <1>1, <2>2, Schema
    <3> QED
      BY <1>3, <3>1 DEF Inductive, CreatedSoFar
  <2> QED
    BY <1>3, <2>1, <2>2
<1> QED
  BY <1>2, <1>3, Schema DEF Inductive, TypeOK, TablesInOrder

-----------------------------------------------------------------------------
(* A request comes in; its probe finds the tables, or starts the DDL. *)
LEMMA ArriveStep == \A i \in Instances : Inductive /\ Arrive(i) => Inductive'
<1> SUFFICES ASSUME NEW i \in Instances, Inductive, Arrive(i) PROVE Inductive'
    OBVIOUS
<1> USE DEF Inductive
<1>1. PICK request \in Requests, first \in 1 .. 2 :
        inst' = [inst EXCEPT ![i] = [at |-> "probe", request |-> request,
                                     stmt |-> first, ddl |-> 0]]
  BY DEF Arrive
<1> DEFINE r == [at |-> "probe", request |-> request, stmt |-> first, ddl |-> 0]
<1>2. r \in Records /\ r.at = "probe" /\ r.request \in Requests
  BY Schema DEF Records
<1> HIDE DEF r
<1>3. Leaves(i)
  BY <1>1, <1>2, WholeRecord DEF Leaves, r
<1>4. UNCHANGED <<tables, redirected, cut>> /\ inst[i].at = "idle"
  BY DEF Arrive, At
<1> QED
  BY <1>3, <1>4, Outside DEF TypeOK, TablesInOrder

(* The probe answers which tables are missing, or fails: what is there is in order,
   so a request that starts the DDL is about to create what comes next. *)
LEMMA ProbeStep == \A i \in Instances : Inductive /\ Probe(i) => Inductive'
<1> SUFFICES ASSUME NEW i \in Instances, Inductive, Probe(i) PROVE Inductive'
    OBVIOUS
<1> USE DEF Inductive
<1>1. /\ UNCHANGED <<tables, redirected, cut>>
      /\ inst[i].at = "probe" /\ inst[i].request \in Requests
  BY DEF Probe, At, Working
<1>2. CASE Checked(i)
  <2>1. Leaves(i)
    BY <1>1, <1>2, CheckedLeaves
  <2> QED
    BY <1>1, <2>1, Outside DEF TypeOK, TablesInOrder
<1>3. CASE inst' = [inst EXCEPT ![i].at = "create", ![i].ddl = 1]
  <2> DEFINE r == [inst[i] EXCEPT !.at = "create", !.ddl = 1]
  <2>1. inst[i] \in Records /\ 1 \in 0 .. Len(schema)
    BY Schema DEF TypeOK
  <2>2. /\ r \in Records /\ r.at = "create" /\ r.ddl = 1
        /\ r.request = inst[i].request
    BY <2>1 DEF Records
  <2>3. inst' = [inst EXCEPT ![i] = r]
    BY <1>3, <2>1 DEF TypeOK, Records
  <2> HIDE DEF r
  <2>4. Becomes(i, r)
    BY <2>2, <2>3, WholeRecord
  <2>5. TypeOK'
    BY <1>1, <2>4 DEF TypeOK, Becomes
  <2>6. Working' /\ CreatedSoFar'
    BY <1>1, <2>2, <2>4 DEF Working, CreatedSoFar, Becomes
  <2>7. Carried'
    <3>1. \A j \in Instances : inst[j].at = "create" => inst'[j] = inst[j]
      BY <1>1, <2>4 DEF Becomes
    <3> QED
      BY <1>1, <3>1 DEF Carried
  <2>8. TablesInOrder'
    BY <1>1 DEF TablesInOrder
  <2> QED
    BY <2>5, <2>6, <2>7, <2>8
<1> QED
  BY <1>2, <1>3 DEF Probe

(* A statement of the DDL: it creates its table and the loop goes on, or the
   loop is over; it is refused where the table is there; or it is a fault. *)
LEMMA CreateStep == \A i \in Instances : Inductive /\ Create(i) => Inductive'
<1> SUFFICES ASSUME NEW i \in Instances, Inductive, Create(i) PROVE Inductive'
    OBVIOUS
<1> USE DEF Inductive
<1> DEFINE t == schema[inst[i].ddl]
<1>1. /\ inst[i].at = "create" /\ inst[i].ddl \in 1 .. 3
      /\ inst[i].request \in Requests
  BY DEF Create, At, Working
<1>2. CASE /\ tables' = tables \cup {t} /\ UNCHANGED <<redirected, cut>>
           /\ inst[i].ddl < Len(schema) /\ inst' = [inst EXCEPT ![i].ddl = @ + 1]
  <2> DEFINE r == [inst[i] EXCEPT !.ddl = @ + 1]
  <2>1. inst[i] \in Records /\ inst[i].ddl + 1 \in 0 .. Len(schema) /\ inst[i].ddl \in 1 .. 2
    BY <1>1, <1>2, Schema DEF TypeOK
  <2>2. /\ r \in Records /\ r.at = "create" /\ r.ddl = inst[i].ddl + 1
        /\ r.request = inst[i].request
    BY <1>1, <2>1 DEF Records
  <2>3. inst' = [inst EXCEPT ![i] = r]
    BY <1>2, <2>1 DEF TypeOK, Records
  <2> HIDE DEF r
  <2>4. Becomes(i, r)
    BY <2>2, <2>3, WholeRecord
  <2>5. TablesInOrder' /\ tables' \subseteq Tables
    BY <1>1, <1>2, OrderKept
  <2>6. TypeOK'
    BY <1>2, <2>4, <2>5 DEF TypeOK, Becomes
  <2>7. Working'
    BY <1>1, <2>1, <2>2, <2>4 DEF Working, Becomes
  <2>8. CreatedSoFar'
    <3>1. \A m \in 1 .. 3 : m < r.ddl => schema[m] \in tables'
      BY <1>1, <1>2, <2>2 DEF CreatedSoFar
    <3> QED
      BY <1>2, <2>2, <2>4, <3>1 DEF CreatedSoFar, Becomes
  <2>9. Carried'
    <3> SUFFICES ASSUME ~cut, NEW n \in 1 .. 2, schema[n] \in tables', schema[n + 1] \notin tables'
                 PROVE  \E j \in Instances : inst'[j].at = "create" /\ inst'[j].ddl = n + 1
      BY <1>2 DEF Carried
    <3>1. CASE schema[n] = t
      <4>1. n = inst[i].ddl
        BY <1>1, <3>1, Schema
      <4> QED
        BY <2>2, <2>4, <4>1 DEF Becomes
    <3>2. CASE schema[n] # t
      <4>1. schema[n] \in tables /\ schema[n + 1] \notin tables /\ schema[n + 1] # t
        BY <1>2, <3>2
      <4>2. PICK j \in Instances : inst[j].at = "create" /\ inst[j].ddl = n + 1
        BY <4>1 DEF Carried
      <4>3. j # i
        BY <4>1, <4>2
      <4> QED
        BY <2>4, <4>2, <4>3 DEF Becomes
    <3> QED
      BY <3>1, <3>2
  <2> QED
    BY <2>5, <2>6, <2>7, <2>8, <2>9
<1>3. CASE /\ tables' = tables \cup {t} /\ UNCHANGED <<redirected, cut>>
           /\ inst[i].ddl = Len(schema) /\ Checked(i)
  <2>1. Leaves(i)
    BY <1>1, <1>3, CheckedLeaves
  <2>2. TablesInOrder' /\ tables' \subseteq Tables
    BY <1>1, <1>3, OrderKept
  <2>3. \A n \in 1 .. 2 : schema[n] \in tables' => schema[n] \in tables
    BY <1>3, Schema
  <2> QED
    BY <1>3, <2>1, <2>2, <2>3, Outside DEF TypeOK
<1>4. CASE t \in tables /\ Fail(i) /\ UNCHANGED <<tables, cut>>
  <2>1. Leaves(i)
    BY <1>1, <1>4, FailLeaves
  <2>2. redirected' \in BOOLEAN
    BY <1>4, Redirection
  <2> QED
    BY <1>4, <2>1, <2>2, Outside DEF TypeOK, TablesInOrder
<1>5. CASE tables' \in {tables, tables \cup {t}} /\ Fail(i) /\ cut' = TRUE
  <2>1. Leaves(i)
    BY <1>1, <1>5, FailLeaves
  <2>2. redirected' \in BOOLEAN
    BY <1>5, Redirection
  <2>3. TablesInOrder' /\ tables' \subseteq Tables
    BY <1>1, <1>5, OrderKept DEF TablesInOrder, TypeOK
  <2> QED
    BY <1>5, <2>1, <2>2, <2>3, Outside
<1> QED
  BY <1>2, <1>3, <1>4, <1>5 DEF Create

(* A statement of a request creates nothing. *)
LEMMA RunStep == \A i \in Instances : Inductive /\ Run(i) => Inductive'
<1> SUFFICES ASSUME NEW i \in Instances, Inductive, Run(i) PROVE Inductive'
    OBVIOUS
<1> USE DEF Inductive
<1>1. /\ UNCHANGED <<tables, cut>> /\ inst[i].at = "run" /\ inst[i].request \in Requests
  BY DEF Run, At, Working
<1>2. Leaves(i)
  BY <1>1, FailLeaves, ProceedLeaves DEF Run
<1>3. redirected' \in BOOLEAN
  <2>1. CASE Fail(i)
    BY <2>1, Redirection
  <2>2. CASE Proceed(i, inst[i].stmt + 1)
    <3>1. inst[i].stmt + 1 \in Nat
      BY DEF TypeOK, Records
    <3> QED
      BY <2>2, <3>1, Redirection
  <2> QED
    BY <2>1, <2>2 DEF Run
<1> QED
  BY <1>1, <1>2, <1>3, Outside DEF TypeOK, TablesInOrder

(* A request that is cut short in the loop cuts the DDL. *)
LEMMA StopStep == \A i \in Instances : Inductive /\ Stop(i) => Inductive'
<1> SUFFICES ASSUME NEW i \in Instances, Inductive, Stop(i) PROVE Inductive'
    OBVIOUS
<1> USE DEF Inductive
<1>1. Leaves(i)
  BY EndLeaves DEF Stop
<1>2. /\ UNCHANGED <<tables, redirected>> /\ cut' \in BOOLEAN /\ (cut => cut')
      /\ cut' \/ inst[i].at # "create"
  BY DEF Stop, At, TypeOK
<1> QED
  BY <1>1, <1>2, Outside DEF TypeOK, TablesInOrder

(* Every behaviour stays in the invariant. *)
LEMMA AlwaysInductive == Spec => []Inductive
<1>1. Inductive /\ UNCHANGED vars => Inductive'
  BY DEF vars, Inductive, TypeOK, Working, CreatedSoFar, TablesInOrder, Carried
<1>2. Inductive /\ [Next]_vars => Inductive'
  BY <1>1, ArriveStep, ProbeStep, CreateStep, RunStep, StopStep DEF Next
<1> QED
  BY InitInductive, <1>2, PTL DEF Spec

-----------------------------------------------------------------------------
(* Requests and tables are of their kind. *)
THEOREM TypeCorrect == Spec => []TypeOK
BY AlwaysInductive, PTL DEF Inductive

(* Whatever fails and however requests race, the tables that are there are the
   first ones of the DDL. *)
THEOREM TablesComeInOrder == Spec => []TablesInOrder
BY AlwaysInductive, PTL DEF Inductive

(* A schema stays half-made only where a fault has cut the DDL short: neither the
   race of requests for it nor anything that fails elsewhere does it. *)
THEOREM OnlyCutsHalve == Spec => []OnlyACutHalvesTheSchema
<1>1. Inductive => OnlyACutHalvesTheSchema
  <2> SUFFICES ASSUME Inductive, ~cut, \A i \in Instances : inst[i].at = "idle",
                      schema[1] \in tables
               PROVE  tables = Tables
    BY Schema DEF OnlyACutHalvesTheSchema, NoHalfSchemaAtRest, At
  <2>1. \A n \in 1 .. 2 : schema[n] \in tables => schema[n + 1] \in tables
    BY DEF Inductive, Carried
  <2>2. schema[2] \in tables /\ schema[3] \in tables
    BY <2>1
  <2> QED
    BY <2>2, Schema DEF Inductive, TypeOK
<1> QED
  BY <1>1, AlwaysInductive, PTL
==============================================================================
