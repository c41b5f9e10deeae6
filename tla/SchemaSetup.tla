----------------------------- MODULE SchemaSetup -----------------------------
(***************************************************************************)
(* How the add-on's three tables come to be (Store.ensure in               *)
(* oidc/store.go).  There is no load-time hook, so every instance probes   *)
(* for the tables ahead of its first statement and creates them, one       *)
(* statement at a time, when the probe fails.  Requests that arrive on a   *)
(* fresh install do so side by side.                                       *)
(*                                                                         *)
(* An instance is a request that starts a flow or finishes one, reduced to *)
(* the table each of its statements needs and to what an error of the      *)
(* statement does to the request.                                          *)
(***************************************************************************)
EXTENDS Naturals, Sequences

CONSTANT Instances  \* module instances the host may run at the same time

VARIABLES
    tables,     \* the tables that exist
    inst,       \* per instance: what it is doing, for which request and statement
    redirected, \* some visitor has been sent to the provider with a flow
    cut         \* history: a request was kept from the end of the DDL by a fault

vars == <<tables, inst, redirected, cut>>

(* The DDL, in the order of the code. *)
schema == <<"flows", "spent", "documents">>

Tables == {schema[n] : n \in DOMAIN schema}

(* The statements of the requests: the table a statement needs, and the
   statement that follows an error of it, 0 for the failure page.

   Begin reads and writes cached documents, and carries on without them; it
   sweeps, and carries on if that fails, without the second sweep if the first
   failed; it writes the flow.  A callback claims, selects and deletes.  The
   status page reads a document. *)
statements == [
    begin    |-> << [needs |-> "documents", onError |-> 2],
                    [needs |-> "flows",     onError |-> 4],
                    [needs |-> "spent",     onError |-> 4],
                    [needs |-> "flows",     onError |-> 0] >>,
    callback |-> << [needs |-> "spent",     onError |-> 0],
                    [needs |-> "flows",     onError |-> 0],
                    [needs |-> "flows",     onError |-> 4] >>,
    index    |-> << [needs |-> "documents", onError |-> 2] >> ]

Requests == DOMAIN statements

Idle == [at |-> "idle", request |-> "none", stmt |-> 0, ddl |-> 0]

Records == [at : {"idle", "probe", "create", "run"}, request : Requests \cup {"none"},
            stmt : 0 .. 4, ddl : 0 .. Len(schema)]

(* "probe": at its first statement, and ensure has not run.  "create": in
   ensure's loop, at schema[ddl].  "run": at statement stmt, checked. *)
TypeOK ==
    /\ tables \subseteq Tables
    /\ inst \in [Instances -> Records]
    /\ redirected \in BOOLEAN
    /\ cut \in BOOLEAN

Init ==
    /\ tables = {}
    /\ inst = [i \in Instances |-> Idle]
    /\ redirected = FALSE
    /\ cut = FALSE

At(i, place) == inst[i].at = place

End(i) == inst' = [inst EXCEPT ![i] = Idle]

(* ensure has said yes: the statement it held up is issued. *)
Checked(i) == inst' = [inst EXCEPT ![i].at = "run", ![i].ddl = 0]

(* The request goes on at statement m; past its last one it is answered, and
   Begin's answer sends the visitor to the provider. *)
Proceed(i, m) ==
    LET request == inst[i].request IN
    \/ /\ m \in DOMAIN statements[request]
       /\ inst' = [inst EXCEPT ![i].at = "run", ![i].ddl = 0, ![i].stmt = m]
       /\ UNCHANGED redirected
    \/ /\ m \notin DOMAIN statements[request]
       /\ End(i)
       /\ redirected' = (redirected \/ request = "begin")

(* The statement answered an error to the request. *)
Fail(i) ==
    LET onward == statements[inst[i].request][inst[i].stmt].onError IN
    \/ onward # 0 /\ Proceed(i, onward)
    \/ onward = 0 /\ End(i) /\ UNCHANGED redirected

-----------------------------------------------------------------------------
(* With a discovery_ttl of zero Begin asks for no cached document, and its
   first statement is the sweep. *)
Arrive(i) ==
    /\ At(i, "idle")
    /\ \E request \in Requests, first \in 1 .. 2 :
         /\ request = "callback" => redirected
         /\ first = 2 => request = "begin"
         /\ inst' = [inst EXCEPT ![i] = [at |-> "probe", request |-> request,
                                         stmt |-> first, ddl |-> 0]]
    /\ UNCHANGED <<tables, redirected, cut>>

(* SELECT 1 FROM flows LIMIT 1.  Any error of it starts the DDL, and whatever
   comes of that the instance does not ask again. *)
Probe(i) ==
    /\ At(i, "probe")
    /\ \/ "flows" \in tables /\ Checked(i)
       \/ inst' = [inst EXCEPT ![i].at = "create", ![i].ddl = 1]
    /\ UNCHANGED <<tables, redirected, cut>>

(* Mutants of Create: the loop ends after one statement; it runs one too far; it
   goes on after an error. *)
CreateOneTable(i) ==
    /\ At(i, "create")
    /\ tables' = tables \cup {schema[inst[i].ddl]}
    /\ Checked(i)
    /\ UNCHANGED <<redirected, cut>>

CreatePastEnd(i) ==
    /\ At(i, "create")
    /\ tables' = tables \cup {schema[inst[i].ddl]}
    /\ inst' = [inst EXCEPT ![i].ddl = @ + 1]
    /\ UNCHANGED <<redirected, cut>>

CreateRegardless(i) ==
    /\ At(i, "create")
    /\ tables' \in {tables, tables \cup {schema[inst[i].ddl]}}
    /\ \/ inst[i].ddl < Len(schema) /\ inst' = [inst EXCEPT ![i].ddl = @ + 1]
       \/ inst[i].ddl = Len(schema) /\ Checked(i)
    /\ UNCHANGED <<redirected, cut>>

(* CREATE TABLE IF NOT EXISTS.  Of two requests that create the same table at
   the same time Postgres may refuse one with a duplicate key of its own
   catalog, so an error is possible where the table turns out to be there; any
   other error, or a reply that is lost, is a fault. *)
Create(i) ==
    LET t == schema[inst[i].ddl] IN
    /\ At(i, "create")
    /\ \/ /\ tables' = tables \cup {t}
          /\ \/ inst[i].ddl < Len(schema) /\ inst' = [inst EXCEPT ![i].ddl = @ + 1]
             \/ inst[i].ddl = Len(schema) /\ Checked(i)
          /\ UNCHANGED <<redirected, cut>>
       \/ /\ t \in tables
          /\ Fail(i)
          /\ UNCHANGED <<tables, cut>>
       \/ /\ tables' \in {tables, tables \cup {t}}
          /\ Fail(i)
          /\ cut' = TRUE

(* The statement itself, which fails where its table is missing, and may fail
   where it is not. *)
Run(i) ==
    /\ At(i, "run")
    /\ \/ /\ statements[inst[i].request][inst[i].stmt].needs \in tables
          /\ Proceed(i, inst[i].stmt + 1)
       \/ Fail(i)
    /\ UNCHANGED <<tables, cut>>

(* A trap, or the route deadline. *)
Stop(i) ==
    /\ ~At(i, "idle")
    /\ End(i)
    /\ cut' = (cut \/ At(i, "create"))
    /\ UNCHANGED <<tables, redirected>>

Next ==
    \E i \in Instances : Arrive(i) \/ Probe(i) \/ Create(i) \/ Run(i) \/ Stop(i)

Fairness ==
    \A i \in Instances : WF_vars(Probe(i) \/ Create(i) \/ Run(i))

Spec == Init /\ [][Next]_vars /\ Fairness

-----------------------------------------------------------------------------
(* ensure creates what is missing: when no request is at work, the tables are
   all there or the next request's probe will say that they are not
   (store.go:89-91, 119). *)
NoHalfSchemaAtRest ==
    (\A i \in Instances : At(i, "idle")) /\ "flows" \in tables => tables = Tables

(* Requests racing through the DDL, some of them refused half-way by one another,
   and statements that fail before and after it, leave no table uncreated: only
   a fault in the DDL itself does (store.go:127-143, 160-172). *)
OnlyACutHalvesTheSchema == ~cut => NoHalfSchemaAtRest

(* A visitor who has been sent to the provider comes back to a schema in which
   the flow can be claimed, or will be able to, although the table the claim
   needs may still have been missing when the visitor left; unless the DDL was
   cut (store.go:127-143, 219). *)
RedirectedCanBeClaimed == redirected ~> "spent" \in tables \/ cut

(* Whatever fails and however the requests race, no table is there before the
   ones ahead of it in the DDL: a probe that finds no flows is right that the
   whole schema is missing, and only the opposite answer can be wrong. *)
TablesInOrder ==
    \A m, n \in DOMAIN schema : m < n /\ schema[n] \in tables => schema[m] \in tables
==============================================================================
