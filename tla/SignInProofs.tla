---------------------------- MODULE SignInProofs ----------------------------
(***************************************************************************)
(* Proofs about SignIn for every number of instances, browsers, flows and  *)
(* saves, and every set of settings.                                       *)
(*                                                                         *)
(* What is asserted is right because of what a request holds when it gets  *)
(* there: a flow it has taken itself, with nobody else, and whose row,     *)
(* code and cookie it has compared.  Accepted says so; Known and Owned say *)
(* why there is something to compare with: names are of flows that were    *)
(* begun, and a cookie is in the jar of the browser that began its flow.   *)
(* There is one lemma per action, with one step per conjunct; Quiet is     *)
(* what they share where a request ends and tells the host nothing.        *)
(* Traced follows the issuer and the client_id a request has read back to  *)
(* the saves they are of: the four reads of a sign-in, two when it begins  *)
(* and two when it comes back, are of saves no earlier than the one before. *)
(***************************************************************************)
EXTENDS SignIn, TLAPS

(* The requests that have been handed a flow and not yet answered. *)
Holds(i) == inst[i].at \in {"exchange", "assert"}

(* A flow that was not begun is named nowhere; and a code is of a visitor who
   was sent away with a client of the provider's. *)
Known ==
    /\ \A h \in away : status[h] # "unopened" /\ Registered(h)
    /\ \A i \in Instances : inst[i].at \in {"claim", "exchange", "assert"} =>
         inst[i].code \in away

(* Cookies, in a jar, a request or a response, are of the browser's own flow. *)
Owned ==
    /\ \A b \in Browsers : jar[b] \in Handles =>
         status[jar[b]] # "unopened" /\ flow[jar[b]].browser = b
    /\ \A i \in Instances : \A h \in Handles : h \in {inst[i].cookie, inst[i].set} =>
         status[h] # "unopened" /\ flow[h].browser = inst[i].browser
    /\ \A i \in Instances : inst[i].at # "idle" => inst[i].browser \in Browsers

(* A request that holds a flow is the only one, and has compared what it has
   with the flow's row: the code's state, and the issuer it read. *)
Accepted ==
    /\ \A i \in Instances : Holds(i) =>
         /\ inst[i].code = inst[i].cookie
         /\ status[inst[i].cookie] = "taken"
         /\ assertions[inst[i].cookie] = <<>>
         /\ inst[i].cfg = flow[inst[i].cookie].issuer
         /\ inst[i].at = "assert" => inst[i].client = flow[inst[i].cookie].client
    /\ \A i, j \in Instances :
         Holds(i) /\ Holds(j) /\ inst[i].cookie = inst[j].cookie => i = j

(* What the host was told of a flow. *)
Told ==
    \A h \in Handles : assertions[h] # <<>> =>
      /\ status[h] = "taken"
      /\ Len(assertions[h]) = 1
      /\ assertions[h][1] = [provider |-> flow[h].issuer, client |-> flow[h].client,
                             browser |-> flow[h].browser, kind |-> flow[h].mode]
      /\ Registered(h)

Inductive == TypeOK /\ Known /\ Owned /\ Accepted /\ Told

-----------------------------------------------------------------------------
(* Nothing has begun. *)
LEMMA InitInductive == Init => Inductive
<1> SUFFICES ASSUME Init PROVE Inductive
    OBVIOUS
<1> USE SettingsAssumption, NoneAssumption DEF Init, Flows!Init, NoFlow, Idle
<1>1. TypeOK
  BY DEF TypeOK, Flows!TypeOK, Flows!Statuses, Modes, Places, Rows, Requests
<1>2. Known /\ Owned /\ Accepted /\ Told
  BY DEF Known, Owned, Accepted, Told, Holds
<1> QED
  BY <1>1, <1>2 DEF Inductive

(* The two settings are of the sets they are chosen from. *)
LEMMA SettingsTyped ==
  TypeOK => issuer \in Issuers /\ client \in Clients /\ Len(saves) \in DOMAIN saves
<1> SUFFICES ASSUME TypeOK
             PROVE  issuer \in Issuers /\ client \in Clients /\ Len(saves) \in DOMAIN saves
  OBVIOUS
<1>1. saves \in Seq(Settings) /\ saves # <<>>
  BY DEF TypeOK
<1>2. Len(saves) \in DOMAIN saves /\ settings \in Settings
  BY <1>1 DEF settings
<1> QED
  BY <1>2, SettingsAssumption DEF issuer, client

(* A request that is about to assert has values of the right kind to assert:
   its flow was sent away, so its pair is one the provider knows. *)
LEMMA AssertedTyped ==
  ASSUME Inductive, NEW i \in Instances, At(i, "assert"), NEW s
  PROVE  [provider |-> inst[i].cfg, client |-> inst[i].client,
          browser |-> inst[i].browser, kind |-> KindOf(i, s)] \in Asserted
<1> DEFINE h == inst[i].cookie
<1>1. h \in Handles /\ inst[i].code = h /\ h \in away
  BY DEF Inductive, TypeOK, Known, Accepted, Holds, At, Requests
<1>2. inst[i].cfg = flow[h].issuer /\ inst[i].client = flow[h].client
  BY DEF Inductive, Accepted, Holds, At
<1>3. <<flow[h].issuer, flow[h].client>> \in Settings
  BY <1>1 DEF Inductive, Known, Registered
<1>4. flow[h].issuer \in Issuers /\ flow[h].client \in Clients
  BY <1>3, SettingsAssumption
<1>5. inst[i].browser \in Browsers
  BY DEF Inductive, Owned, At
<1>6. flow[h].mode \in Modes
  BY <1>1 DEF Inductive, TypeOK, Rows
<1> QED
  BY <1>2, <1>4, <1>5, <1>6 DEF Asserted, KindOf

-----------------------------------------------------------------------------
(* Steps of one request: it becomes r, and all others stay. *)
Becomes(i, r) ==
    /\ inst' \in [Instances -> Requests]
    /\ inst'[i] = r
    /\ \A j \in Instances : j # i => inst'[j] = inst[j]

(* How a step that writes the whole record is read. *)
LEMMA WholeRecord ==
  ASSUME TypeOK, NEW i \in Instances, NEW r \in Requests, inst' = [inst EXCEPT ![i] = r]
  PROVE  Becomes(i, r)
BY DEF TypeOK, Becomes

(* A response, and the request that is over, are of the same type as any. *)
LEMMA EndsTyped ==
  ASSUME TypeOK, NEW i \in Instances, NEW set \in Handles \cup {None}
  PROVE  /\ Idle \in Requests
         /\ Respond(i, set) =>
              Becomes(i, [Idle EXCEPT !.at = "answer", !.browser = inst[i].browser,
                                      !.cookie = inst[i].cookie, !.set = set])
<1>1. Idle \in Requests
  BY DEF Requests, Idle, Places, Modes
<1> DEFINE r == [Idle EXCEPT !.at = "answer", !.browser = inst[i].browser,
                             !.cookie = inst[i].cookie, !.set = set]
<1>2. r \in Requests
  BY DEF TypeOK, Requests, Idle, Places, Modes
<1>3. Respond(i, set) => Becomes(i, r)
  <2> HIDE DEF r
  <2> QED BY <1>2, WholeRecord DEF Respond, r
<1> QED
  BY <1>1, <1>3

(* What becomes of flows that were begun: nothing that happened is undone. *)
Later ==
    /\ Flows!TypeOK'
    /\ \A h \in Handles :
         /\ status'[h] = "unopened" <=> status[h] = "unopened"
         /\ status[h] = "taken" => status'[h] = "taken"

(* Taking and closing are later. *)
LEMMA Moves ==
  ASSUME TypeOK, NEW h \in Handles,
         Flows!Take(h) \/ (status[h] = "open" /\ Flows!Close({h})) \/ status' = status
  PROVE  Later
<1> USE DEF TypeOK, Flows!TypeOK, Flows!Statuses, Later
<1>1. CASE Flows!Take(h)
  BY <1>1 DEF Flows!Take
<1>2. CASE status[h] = "open" /\ Flows!Close({h})
  BY <1>2 DEF Flows!Close
<1>3. CASE status' = status
  BY <1>3
<1> QED
  BY <1>1, <1>2, <1>3

(* A request that carries at most the cookie it had, and no code. *)
Resigns(j) ==
    /\ inst'[j].at \in {"idle", "begin", "answer"}
    /\ inst'[j].at # "idle" => inst'[j].browser \in Browsers
    /\ inst'[j].at = "begin" => inst'[j].cfg # None
    /\ inst'[j].set = None
    /\ inst'[j].cookie # None =>
         inst'[j].cookie = inst[j].cookie /\ inst'[j].browser = inst[j].browser

(* Requests that fail or are cut short, and flows that expire, leave the rest
   as it is. *)
LEMMA Quiet ==
  ASSUME Inductive, Later, inst' \in [Instances -> Requests],
         \A j \in Instances : inst'[j] = inst[j] \/ Resigns(j),
         UNCHANGED <<flow, jar, env, assertions>>, lost' \subseteq Handles
  PROVE  Inductive'
<1> USE NoneAssumption DEF Inductive, env, Resigns
<1>1. TypeOK'
  <2>1. \A j \in Instances :
          /\ inst'[j].at = "begin" => inst'[j].cfg # None
          /\ inst'[j].at \in {"claim", "exchange", "assert"} =>
               inst'[j].cookie # None /\ inst'[j].code # None
    BY DEF TypeOK
  <2>2. \A h \in Handles : status'[h] # "unopened" => flow'[h].issuer # None
    BY DEF TypeOK, Later, Flows!TypeOK, Flows!Statuses
  <2> QED
    BY <2>1, <2>2 DEF TypeOK, Later
<1>2. Known'
  BY DEF Known, Registered, Later, TypeOK
<1>3. Owned'
  <2>1. \A j \in Instances, h \in Handles : h \in {inst'[j].cookie, inst'[j].set} =>
          h \in {inst[j].cookie, inst[j].set} /\ inst'[j].browser = inst[j].browser
    OBVIOUS
  <2>2. \A b \in Browsers : jar'[b] \in Handles =>
          status'[jar'[b]] # "unopened" /\ flow'[jar'[b]].browser = b
    BY DEF Owned, Later
  <2>3. \A j \in Instances : inst'[j].at # "idle" => inst'[j].browser \in Browsers
    BY DEF Owned
  <2> QED
    BY <2>1, <2>2, <2>3 DEF Owned, Later
<1>4. Accepted'
  <2>1. \A j \in Instances :
          Holds(j)' => Holds(j) /\ inst'[j] = inst[j] /\ inst[j].cookie \in Handles
    BY DEF Holds, TypeOK, Requests
  <2> QED
    BY <2>1 DEF Accepted, Later
<1>5. Told'
  BY DEF Told, Registered, TypeOK, Later
<1> QED
  BY <1>1, <1>2, <1>3, <1>4, <1>5

-----------------------------------------------------------------------------
(* The record of a request that /start or /link has just brought. *)
LEMMA BeginStep == \A i \in Instances : Inductive /\ Begin(i) => Inductive'
<1> SUFFICES ASSUME NEW i \in Instances, Inductive, Begin(i) PROVE Inductive'
    OBVIOUS
<1>1. PICK b \in Browsers, mode \in Modes :
        inst' = [inst EXCEPT ![i] = [Idle EXCEPT !.at = "begin", !.mode = mode,
                                                 !.browser = b, !.cfg = issuer]]
  BY DEF Begin
<1> DEFINE r == [Idle EXCEPT !.at = "begin", !.mode = mode, !.browser = b, !.cfg = issuer]
<1>2. r \in Requests
  BY SettingsTyped DEF Inductive, Requests, Idle, Places, Modes
<1>3. /\ r.at = "begin" /\ r.browser \in Browsers /\ r.cfg # None
      /\ r.set = None /\ r.cookie = None
  BY SettingsTyped, NoneAssumption DEF Inductive, Idle
<1> HIDE DEF r
<1>4. Becomes(i, r)
  BY <1>1, <1>2, WholeRecord DEF Inductive, r
<1>5. Later
  BY Moves DEF Inductive, TypeOK, Begin, Later, Flows!TypeOK
<1>6. inst' \in [Instances -> Requests] /\ \A j \in Instances : inst'[j] = inst[j] \/ Resigns(j)
  BY <1>3, <1>4 DEF Becomes, Resigns
<1> QED
  BY <1>5, <1>6, Quiet DEF Inductive, TypeOK, Begin, env

(* Every step that ends a request without telling the host anything. *)
LEMMA EndStep ==
  ASSUME NEW i \in Instances, Inductive, Later, UNCHANGED <<flow, jar, env, assertions>>,
         lost' \subseteq Handles, ~At(i, "idle"),
         FailBegin(i) \/ FailCallback(i)
  PROVE  Inductive'
<1>1. CASE FailBegin(i)
  <2>1. Becomes(i, Idle)
    BY <1>1, EndsTyped, WholeRecord DEF FailBegin, Inductive
  <2>2. \A j \in Instances : inst'[j] = inst[j] \/ Resigns(j)
    BY <2>1 DEF Becomes, Resigns, Idle
  <2> QED
    BY <2>1, <2>2, Quiet DEF Becomes
<1>2. CASE FailCallback(i)
  <2> DEFINE r == [Idle EXCEPT !.at = "answer", !.browser = inst[i].browser,
                               !.cookie = inst[i].cookie, !.set = None]
  <2>1. Becomes(i, r)
    BY <1>2, EndsTyped DEF FailCallback, Inductive
  <2>2. /\ r.at = "answer" /\ r.set = None
        /\ r.browser = inst[i].browser /\ r.cookie = inst[i].cookie
    BY DEF Idle
  <2> HIDE DEF r
  <2>3. inst[i].browser \in Browsers
    BY DEF Inductive, Owned, At
  <2>4. \A j \in Instances : inst'[j] = inst[j] \/ Resigns(j)
    BY <2>1, <2>2, <2>3 DEF Becomes, Resigns
  <2> QED
    BY <2>1, <2>4, Quiet DEF Becomes
<1> QED
  BY <1>1, <1>2

(* A flow that is begun is written to a row that nothing names yet. *)
LEMMA SaveFlowStep == \A i \in Instances : Inductive /\ SaveFlow(i) => Inductive'
<1> SUFFICES ASSUME NEW i \in Instances, Inductive, SaveFlow(i) PROVE Inductive'
    OBVIOUS
<1>1. CASE FailBegin(i) /\ UNCHANGED <<status, flow>>
  <2>1. Later
    BY <1>1 DEF Inductive, TypeOK, Later, Flows!TypeOK
  <2> QED
    BY <1>1, <2>1, EndStep DEF SaveFlow, At, Inductive, TypeOK
<1>2. ASSUME NEW h \in Handles, Flows!Open(h),
             flow' = [flow EXCEPT ![h] = [mode   |-> inst[i].mode,
                                          issuer |-> inst[i].cfg,
                                          client |-> client,
                                          browser |-> inst[i].browser]],
             Respond(i, h) \/ FailBegin(i)
      PROVE  Inductive'
  <2> USE DEF Inductive
  <2>1. PICK r \in Requests :
          /\ Becomes(i, r)
          /\ r.at \in {"idle", "answer"}
          /\ r.at # "idle" => r.browser = inst[i].browser
          /\ r.set # None => r.set = h /\ r.browser = inst[i].browser
          /\ r.cookie # None => r.cookie = inst[i].cookie /\ r.browser = inst[i].browser
    <3>1. CASE Respond(i, h)
      <4> DEFINE r == [Idle EXCEPT !.at = "answer", !.browser = inst[i].browser,
                                   !.cookie = inst[i].cookie, !.set = h]
      <4>1. Becomes(i, r)
        BY <3>1, EndsTyped
      <4>2. r \in Requests
        BY <4>1 DEF Becomes
      <4>3. /\ r.at = "answer" /\ r.set = h
            /\ r.browser = inst[i].browser /\ r.cookie = inst[i].cookie
        BY DEF Idle
      <4> HIDE DEF r
      <4> QED
        BY <4>1, <4>2, <4>3
    <3>2. CASE FailBegin(i)
      <4>1. Becomes(i, Idle) /\ Idle \in Requests
        BY <3>2, EndsTyped, WholeRecord DEF FailBegin
      <4>2. Idle.at = "idle" /\ Idle.set = None /\ Idle.cookie = None
        BY DEF Idle
      <4> QED
        BY <4>1, <4>2
    <3> QED
      BY <1>2, <3>1, <3>2
  <2>2. inst[i].browser \in Browsers /\ inst[i].cfg \in Issuers /\ inst[i].mode \in Modes
    BY DEF SaveFlow, Owned, TypeOK, At, Requests
  <2>3. /\ Flows!TypeOK' /\ status[h] = "unopened" /\ status'[h] = "open"
        /\ \A k \in Handles : k # h => status'[k] = status[k] /\ flow'[k] = flow[k]
    BY <1>2 DEF TypeOK, Flows!Open, Flows!TypeOK, Flows!Statuses
  <2>4. /\ flow' \in [Handles -> Rows]
        /\ flow'[h].browser = inst[i].browser /\ flow'[h].issuer = inst[i].cfg
    BY <1>2, <2>2, SettingsTyped DEF TypeOK, Rows
  <2>5. UNCHANGED <<saves, away, jar, assertions, lost>>
    BY DEF SaveFlow, env
  <2>6. \A k \in Handles : status'[k] # "unopened" => flow'[k].issuer # None
    <3> SUFFICES ASSUME NEW k \in Handles, status'[k] # "unopened"
                 PROVE  flow'[k].issuer # None
      OBVIOUS
    <3>1. CASE k = h
      BY <2>2, <2>4, <3>1, NoneAssumption
    <3>2. CASE k # h
      BY <2>3, <3>2 DEF TypeOK
    <3> QED
      BY <3>1, <3>2
  <2>7. \A k \in away' : status'[k] # "unopened" /\ Registered(k)'
    <3>1. \A k \in away : k \in Handles /\ k # h /\ status[k] # "unopened" /\ Registered(k)
      BY <2>3 DEF Known, TypeOK
    <3> QED
      BY <2>3, <2>5, <3>1 DEF Registered
  <2> USE NoneAssumption, <2>1, <2>2, <2>3, <2>4, <2>5 DEF Becomes
  <2>8. TypeOK'
    <3>1. \A j \in Instances :
            /\ inst'[j].at = "begin" => inst'[j].cfg # None
            /\ inst'[j].at \in {"claim", "exchange", "assert"} =>
                 inst'[j].cookie # None /\ inst'[j].code # None
      BY DEF TypeOK
    <3> QED
      BY <2>6, <3>1 DEF TypeOK
  <2>9. Known'
    <3>1. \A j \in Instances : inst'[j].at \in {"claim", "exchange", "assert"} =>
            inst'[j].code \in away'
      BY DEF Known
    <3> QED
      BY <2>7, <3>1 DEF Known
  <2>10. Owned'
    BY DEF Owned
  <2>11. Accepted'
    <3>1. \A j \in Instances :
            Holds(j)' => Holds(j) /\ inst'[j] = inst[j] /\ inst[j].cookie \in Handles
      BY DEF Holds, TypeOK, Requests
    <3> QED
      BY <3>1 DEF Accepted
  <2>12. Told'
    <3>1. \A k \in Handles : assertions[k] # <<>> => k # h
      BY DEF Told
    <3> QED
      BY <3>1 DEF Told, Registered
  <2> QED
    BY <2>8, <2>9, <2>10, <2>11, <2>12
<1> QED
  BY <1>1, <1>2 DEF SaveFlow

(* A callback brings the code of a visitor who was sent away, and the cookie of
   its own browser. *)
LEMMA CallbackStep == \A i \in Instances : Inductive /\ Callback(i) => Inductive'
<1> SUFFICES ASSUME NEW i \in Instances, Inductive, Callback(i) PROVE Inductive'
    OBVIOUS
<1> USE DEF env
<1>1. Later /\ UNCHANGED <<flow, jar, env, assertions, lost>>
  BY DEF Callback, Inductive, TypeOK, Later, Flows!TypeOK
<1>2. ASSUME NEW b \in Browsers, inst' = [inst EXCEPT ![i] = [Idle EXCEPT !.at = "answer", !.browser = b]]
      PROVE  Inductive'
  <2> DEFINE r == [Idle EXCEPT !.at = "answer", !.browser = b]
  <2>1. r \in Requests /\ r.at = "answer" /\ r.browser = b /\ r.cookie = None /\ r.set = None
    BY DEF Requests, Idle, Places, Modes
  <2> HIDE DEF r
  <2>2. Becomes(i, r)
    BY <1>2, <2>1, WholeRecord DEF Inductive, r
  <2>3. \A j \in Instances : inst'[j] = inst[j] \/ Resigns(j)
    BY <2>1, <2>2 DEF Becomes, Resigns
  <2> QED
    BY <1>1, <2>2, <2>3, Quiet DEF Becomes, Inductive, TypeOK
<1>3. ASSUME NEW b \in Browsers, NEW h \in away, jar[b] # None,
             inst' = [inst EXCEPT ![i] = [Idle EXCEPT !.at = "claim", !.browser = b, !.cfg = issuer,
                                                      !.cookie = jar[b], !.code = h]]
      PROVE  Inductive'
  <2> USE DEF Inductive
  <2> DEFINE r == [Idle EXCEPT !.at = "claim", !.browser = b, !.cfg = issuer,
                               !.cookie = jar[b], !.code = h]
  <2>1. r \in Requests
    BY SettingsTyped DEF TypeOK, Requests, Idle, Places, Modes
  <2>2. /\ r.at = "claim" /\ r.browser = b /\ r.set = None
        /\ r.cookie = jar[b] /\ r.cookie \in Handles /\ r.code = h /\ h \in Handles
    BY <1>3 DEF TypeOK, Idle
  <2> HIDE DEF r
  <2>3. Becomes(i, r)
    BY <1>3, <2>1, WholeRecord DEF r
  <2> USE NoneAssumption, <1>1, <2>2, <2>3 DEF Becomes
  <2>4. TypeOK'
    <3>1. \A k \in Handles : status'[k] # "unopened" => flow'[k].issuer # None
      BY DEF TypeOK, Later
    <3>2. \A j \in Instances :
            /\ inst'[j].at = "begin" => inst'[j].cfg # None
            /\ inst'[j].at \in {"claim", "exchange", "assert"} =>
                 inst'[j].cookie # None /\ inst'[j].code # None
      BY DEF TypeOK
    <3> QED
      BY <3>1, <3>2 DEF TypeOK, Later
  <2>5. Known'
    <3>1. \A j \in Instances : j # i /\ inst'[j].at \in {"claim", "exchange", "assert"} =>
            inst'[j].code \in away'
      BY DEF Known
    <3>2. \A k \in away' : status'[k] # "unopened" /\ Registered(k)'
      BY DEF Known, Registered, Later, TypeOK
    <3> QED
      BY <3>1, <3>2 DEF Known
  <2>6. Owned'
    BY DEF Owned, Later
  <2>7. Accepted'
    <3>1. \A j \in Instances :
            Holds(j)' => Holds(j) /\ inst'[j] = inst[j] /\ inst[j].cookie \in Handles
      BY DEF Holds, TypeOK, Requests
    <3> QED
      BY <3>1 DEF Accepted, Later
  <2>8. Told'
    BY DEF Told, Registered, Later
  <2> QED
    BY <2>4, <2>5, <2>6, <2>7, <2>8
<1> QED
  BY <1>2, <1>3 DEF Callback

(* A request may go on with the flow in its cookie when no other one holds that
   flow, nothing was said of it, and all that is compared agrees with its row. *)
LEMMA GoesOn ==
  ASSUME NEW i \in Instances, NEW r \in Requests, Inductive, Later, Becomes(i, r),
         UNCHANGED <<flow, jar, env, assertions, lost>>,
         inst[i].at \in {"claim", "exchange"}, r.at \in {"exchange", "assert"},
         r.browser = inst[i].browser, r.cookie = inst[i].cookie, r.set = inst[i].set,
         r.code = inst[i].code, r.code = r.cookie,
         status'[r.cookie] = "taken", assertions[r.cookie] = <<>>,
         r.cfg = flow[r.cookie].issuer,
         r.at = "assert" => r.client = flow[r.cookie].client,
         \A j \in Instances : j # i /\ Holds(j) => inst[j].cookie # r.cookie
  PROVE  Inductive'
<1> USE NoneAssumption DEF Inductive, env, Becomes
<1>1. r.cookie \in Handles /\ r.cookie \in away
  BY DEF TypeOK, Known, Requests
<1>2. TypeOK'
  <2>1. \A k \in Handles : status'[k] # "unopened" => flow'[k].issuer # None
    BY DEF TypeOK, Later
  <2>2. \A j \in Instances :
          /\ inst'[j].at = "begin" => inst'[j].cfg # None
          /\ inst'[j].at \in {"claim", "exchange", "assert"} =>
               inst'[j].cookie # None /\ inst'[j].code # None
    <3>1. \A j \in Instances : j # i => inst'[j] = inst[j]
      OBVIOUS
    <3>2. inst'[i] = r /\ r.cookie # None /\ r.code # None
      BY <1>1
    <3> QED
      BY <3>1, <3>2 DEF TypeOK
  <2> QED
    BY <2>1, <2>2 DEF TypeOK, Later
<1>3. Known'
  <2>1. \A j \in Instances : inst'[j].at \in {"claim", "exchange", "assert"} =>
          inst'[j].code \in away'
    BY <1>1 DEF Known
  <2>2. \A k \in away' : status'[k] # "unopened" /\ Registered(k)'
    BY DEF Known, Registered, Later, TypeOK
  <2> QED
    BY <2>1, <2>2 DEF Known
<1>4. Owned'
  <2>1. \A j \in Instances : inst'[j].cookie = inst[j].cookie /\ inst'[j].set = inst[j].set
                               /\ inst'[j].browser = inst[j].browser
    OBVIOUS
  <2>2. \A j \in Instances : inst'[j].at # "idle" => inst'[j].browser \in Browsers
    BY DEF Owned
  <2> QED
    BY <2>1, <2>2 DEF Owned, Later
<1>5. Accepted'
  <2>1. \A j \in Instances : j # i /\ Holds(j)' =>
          /\ Holds(j) /\ inst'[j] = inst[j]
          /\ inst[j].cookie \in Handles /\ inst[j].cookie # r.cookie
    BY DEF Holds, TypeOK, Requests
  <2>2. \A j \in Instances : Holds(j)' =>
          /\ inst'[j].code = inst'[j].cookie
          /\ status'[inst'[j].cookie] = "taken"
          /\ assertions'[inst'[j].cookie] = <<>>
          /\ inst'[j].cfg = flow'[inst'[j].cookie].issuer
          /\ inst'[j].at = "assert" => inst'[j].client = flow'[inst'[j].cookie].client
    BY <2>1 DEF Accepted, Later
  <2>3. \A j, k \in Instances :
          Holds(j)' /\ Holds(k)' /\ inst'[j].cookie = inst'[k].cookie => j = k
    BY <2>1 DEF Accepted
  <2> QED
    BY <2>2, <2>3 DEF Accepted
<1>6. Told'
  BY DEF Told, Registered, Later, TypeOK
<1> QED
  BY <1>2, <1>3, <1>4, <1>5, <1>6

(* ClaimFlow hands a flow to one request: whoever holds another flow, holds one
   that was taken before. *)
LEMMA ClaimStep == \A i \in Instances : Inductive /\ Claim(i) => Inductive'
<1> SUFFICES ASSUME NEW i \in Instances, Inductive, Claim(i) PROVE Inductive'
    OBVIOUS
<1> DEFINE h == inst[i].cookie
<1>1. h \in Handles /\ inst[i].at = "claim" /\ lost \subseteq Handles
  BY NoneAssumption DEF Inductive, TypeOK, Requests, Claim, At
<1>2. UNCHANGED <<flow, jar, env, assertions, lost>>
  BY DEF Claim
<1>3. CASE FailCallback(i) /\ (\/ Flows!Take(h)
                               \/ status[h] = "open" /\ Flows!Close({h})
                               \/ status' = status)
  <2>1. Later
    BY <1>1, <1>3, Moves DEF Inductive
  <2> QED
    BY <1>1, <1>2, <1>3, <2>1, EndStep DEF At
<1>4. CASE Flows!Take(h) /\ StateChecked(i) /\ IssuerChecked(i) /\ Proceed(i)
  <2> DEFINE r == [inst[i] EXCEPT !.at = "exchange", !.client = client]
  <2>1. r \in Requests
    BY SettingsTyped DEF Inductive, TypeOK, Requests, Places
  <2>2. /\ r.at = "exchange" /\ r.browser = inst[i].browser /\ r.set = inst[i].set
        /\ r.cookie = h /\ r.code = inst[i].code /\ r.cfg = inst[i].cfg
    BY DEF Inductive, TypeOK, Requests
  <2>3. inst' = [inst EXCEPT ![i] = r]
    BY <1>4 DEF Proceed, Inductive, TypeOK, Requests
  <2> HIDE DEF r
  <2>4. Becomes(i, r)
    BY <2>1, <2>3, WholeRecord DEF Inductive
  <2>5. status[h] = "open" /\ status'[h] = "taken"
    BY <1>1, <1>4 DEF Flows!Take, Inductive, TypeOK, Flows!TypeOK
  <2>6. assertions[h] = <<>>
    BY <1>1, <2>5 DEF Inductive, Told
  <2>7. \A j \in Instances : Holds(j) => inst[j].cookie # h
    BY <2>5 DEF Inductive, Accepted
  <2>8. r.code = h /\ r.cfg = flow[h].issuer
    BY <1>4, <2>2 DEF StateChecked, IssuerChecked
  <2>9. Later
    BY <1>1, <1>4, Moves DEF Inductive
  <2> QED
    BY <1>1, <1>2, <2>1, <2>2, <2>4, <2>5, <2>6, <2>7, <2>8, <2>9, GoesOn
<1> QED
  BY <1>3, <1>4 DEF Claim

(* A token for the client of the flow is all that was missing. *)
LEMMA ExchangeStep == \A i \in Instances : Inductive /\ Exchange(i) => Inductive'
<1> SUFFICES ASSUME NEW i \in Instances, Inductive, Exchange(i) PROVE Inductive'
    OBVIOUS
<1> DEFINE h == inst[i].cookie
<1>1. h \in Handles /\ inst[i].at = "exchange" /\ lost \subseteq Handles
  BY NoneAssumption DEF Inductive, TypeOK, Requests, Exchange, At
<1>2. UNCHANGED <<status, flow, jar, env, assertions, lost>>
  BY DEF Exchange
<1>3. Later
  BY <1>1, <1>2, Moves DEF Inductive
<1>4. CASE FailCallback(i)
  BY <1>1, <1>2, <1>3, <1>4, EndStep DEF At
<1>5. CASE AudienceChecked(i) /\ Goto(i, "assert")
  <2> DEFINE r == [inst[i] EXCEPT !.at = "assert"]
  <2>1. r \in Requests
    BY DEF Inductive, TypeOK, Requests, Places
  <2>2. /\ r.at = "assert" /\ r.browser = inst[i].browser /\ r.set = inst[i].set
        /\ r.cookie = h /\ r.code = inst[i].code /\ r.cfg = inst[i].cfg
        /\ r.client = inst[i].client
    BY DEF Inductive, TypeOK, Requests
  <2>3. inst' = [inst EXCEPT ![i] = r]
    BY <1>5 DEF Goto, Inductive, TypeOK, Requests
  <2> HIDE DEF r
  <2>4. Becomes(i, r)
    BY <2>1, <2>3, WholeRecord DEF Inductive
  <2>5. Holds(i)
    BY <1>1 DEF Holds
  <2>6. /\ inst[i].code = h /\ status[h] = "taken" /\ assertions[h] = <<>>
        /\ inst[i].cfg = flow[h].issuer
    BY <2>5 DEF Inductive, Accepted
  <2>7. \A j \in Instances : j # i /\ Holds(j) => inst[j].cookie # h
    BY <2>5 DEF Inductive, Accepted
  <2>8. inst[i].client = flow[h].client
    BY <1>5, <2>6 DEF AudienceChecked
  <2> QED
    BY <1>1, <1>2, <1>3, <2>1, <2>2, <2>4, <2>6, <2>7, <2>8, GoesOn
<1> QED
  BY <1>4, <1>5 DEF Exchange

(* The host is told of the flow the request holds, for the first time, and the
   request holds it no longer. *)
LEMMA AssertStep == \A i \in Instances : Inductive /\ Assert(i) => Inductive'
<1> SUFFICES ASSUME NEW i \in Instances, Inductive, Assert(i) PROVE Inductive'
    OBVIOUS
<1> DEFINE h == inst[i].cookie
<1>1. h \in Handles /\ inst[i].at = "assert" /\ lost \subseteq Handles
  BY NoneAssumption DEF Inductive, TypeOK, Requests, Assert, At
<1>2. UNCHANGED <<status, flow, jar, env, lost>>
  BY DEF Assert
<1>3. Later
  BY <1>1, <1>2, Moves DEF Inductive
<1>4. CASE FailCallback(i) /\ UNCHANGED assertions
  BY <1>1, <1>2, <1>3, <1>4, EndStep DEF At
<1>5. ASSUME NEW session \in BOOLEAN, Respond(i, None),
             assertions' = [assertions EXCEPT ![inst[i].code] = Append(@,
               [provider |-> inst[i].cfg, client |-> inst[i].client,
                browser |-> inst[i].browser, kind |-> KindOf(i, session)])]
      PROVE  Inductive'
  <2> DEFINE told == [provider |-> inst[i].cfg, client |-> inst[i].client,
                      browser |-> inst[i].browser, kind |-> KindOf(i, session)]
  <2>1. told \in Asserted
    BY <1>1, AssertedTyped DEF At
  <2>2. /\ inst[i].code = h /\ status[h] = "taken" /\ assertions[h] = <<>>
        /\ inst[i].cfg = flow[h].issuer /\ inst[i].client = flow[h].client
        /\ \A j \in Instances : j # i /\ Holds(j) => inst[j].cookie # h
    BY <1>1 DEF Inductive, Accepted, Holds
  <2>3. inst[i].browser \in Browsers /\ flow[h].browser = inst[i].browser
    BY <1>1 DEF Inductive, Owned
  <2>4. told = [provider |-> flow[h].issuer, client |-> flow[h].client,
                browser |-> flow[h].browser, kind |-> flow[h].mode]
    BY <2>2, <2>3 DEF KindOf
  <2>5. h \in away /\ Registered(h)
    BY <1>1, <2>2 DEF Inductive, Known
  <2> DEFINE r == [Idle EXCEPT !.at = "answer", !.browser = inst[i].browser,
                               !.cookie = inst[i].cookie, !.set = None]
  <2>6. Becomes(i, r)
    BY <1>5, EndsTyped DEF Inductive
  <2>7. /\ r.at = "answer" /\ r.set = None
        /\ r.browser = inst[i].browser /\ r.cookie = inst[i].cookie
    BY DEF Idle
  <2> HIDE DEF r, told
  <2>8. \A j \in Instances : inst'[j] = inst[j] \/ Resigns(j)
    BY <2>3, <2>6, <2>7 DEF Becomes, Resigns
  <2>9. /\ assertions' \in [Handles -> Seq(Asserted)]
        /\ assertions'[h] = <<told>>
        /\ \A k \in Handles : k # h => assertions'[k] = assertions[k]
    BY <1>1, <1>5, <2>1, <2>2 DEF Inductive, TypeOK, told
  <2> USE DEF Inductive
  <2>10. TypeOK'
    <3>1. \A k \in Handles : status'[k] # "unopened" => flow'[k].issuer # None
      BY <1>2 DEF TypeOK
    <3>2. \A j \in Instances :
            /\ inst'[j].at = "begin" => inst'[j].cfg # None
            /\ inst'[j].at \in {"claim", "exchange", "assert"} =>
                 inst'[j].cookie # None /\ inst'[j].code # None
      BY <2>8 DEF TypeOK, Resigns
    <3> QED
      BY <1>2, <1>3, <2>6, <2>9, <3>1, <3>2 DEF TypeOK, Later, Becomes, env
  <2>11. Known'
    BY <1>2, <1>3, <2>8 DEF Known, Registered, Resigns, env
  <2>12. Owned'
    BY <1>2, <1>3, <2>8, NoneAssumption DEF Owned, Resigns, env
  <2>13. Accepted'
    <3>1. \A j \in Instances : Holds(j)' =>
            /\ Holds(j) /\ inst'[j] = inst[j]
            /\ inst[j].cookie \in Handles /\ inst[j].cookie # h
      BY <2>2, <2>6, <2>7 DEF Holds, TypeOK, Requests, Becomes
    <3> QED
      BY <1>2, <2>9, <3>1 DEF Accepted
  <2>14. Told'
    <3>1. Len(assertions'[h]) = 1 /\ assertions'[h][1] = told
      BY <2>9
    <3> QED
      BY <1>2, <2>2, <2>4, <2>5, <2>9, <3>1 DEF Told, Registered
  <2> QED
    BY <2>10, <2>11, <2>12, <2>13, <2>14
<1> QED
  BY <1>4, <1>5 DEF Assert

(* A handle that arrives is of a flow the browser has begun, and the provider
   knows the pair its visitor is sent away with. *)
LEMMA ReceiveStep == \A i \in Instances : Inductive /\ Receive(i) => Inductive'
<1> SUFFICES ASSUME NEW i \in Instances, Inductive, Receive(i) PROVE Inductive'
    OBVIOUS
<1> USE DEF Inductive
<1> DEFINE b == inst[i].browser
<1>1. b \in Browsers /\ inst[i].set \in Handles \cup {None}
  BY DEF Receive, At, Owned, TypeOK, Requests
<1>2. Becomes(i, Idle) /\ Idle.at = "idle" /\ Idle.cookie = None /\ Idle.set = None
  BY EndsTyped, WholeRecord DEF Receive, Idle
<1>3. UNCHANGED <<status, flow, saves, assertions, lost>>
  BY DEF Receive
<1>4. /\ jar' \in [Browsers -> Handles \cup {None}]
      /\ jar'[b] = inst[i].set
      /\ \A c \in Browsers : c # b => jar'[c] = jar[c]
  BY <1>1 DEF Receive, TypeOK
<1>5. /\ away' \subseteq Handles /\ away \subseteq away'
      /\ \A h \in away' : h \in away \/ (h \in Handles /\ h = inst[i].set /\ Registered(h))
  BY DEF Receive, TypeOK
<1>6. \A j \in Instances : inst'[j] = inst[j] \/ Resigns(j)
  BY <1>2 DEF Becomes, Resigns
<1>7. TypeOK'
  BY <1>2, <1>3, <1>4, <1>5, <1>6 DEF TypeOK, Flows!TypeOK, Resigns, Becomes
<1>8. Known'
  BY <1>3, <1>5, <1>6 DEF Known, Owned, Registered, Resigns
<1>9. Owned'
  BY <1>1, <1>3, <1>4, <1>6, NoneAssumption DEF Owned, Resigns
<1>10. Accepted'
  <2>1. \A j \in Instances :
          Holds(j)' => Holds(j) /\ inst'[j] = inst[j] /\ inst[j].cookie \in Handles
    BY <1>6, NoneAssumption DEF Holds, Resigns, TypeOK, Requests
  <2> QED
    BY <1>3, <2>1 DEF Accepted
<1>11. Told'
  BY <1>3 DEF Told, Registered
<1> QED
  BY <1>7, <1>8, <1>9, <1>10, <1>11

(* A request that is cut short is simply gone. *)
LEMMA StopStep == \A i \in Instances : Inductive /\ Stop(i) => Inductive'
<1> SUFFICES ASSUME NEW i \in Instances, Inductive, Stop(i) PROVE Inductive'
    OBVIOUS
<1>1. Later
  BY DEF Stop, Inductive, TypeOK, Later, Flows!TypeOK
<1>2. lost' \subseteq Handles
  BY DEF Stop, Inductive, TypeOK
<1> QED
  BY <1>1, <1>2, EndStep DEF Stop, FailBegin

(* Flows and cookies may go at any time, and a save touches neither. *)
LEMMA WorldStep == Inductive /\ World => Inductive'
<1> SUFFICES ASSUME Inductive, World PROVE Inductive'
    OBVIOUS
<1> USE DEF Inductive
<1>1. CASE FlowExpires
  <2>1. Later
    BY <1>1, Moves DEF FlowExpires
  <2> QED
    BY <1>1, <2>1, Quiet DEF FlowExpires, TypeOK
<1>2. CASE CookieExpires
  <2>1. /\ jar' \in [Browsers -> Handles \cup {None}]
        /\ \A b \in Browsers : jar'[b] \in {jar[b], None}
    BY <1>2 DEF CookieExpires, TypeOK
  <2>2. UNCHANGED <<status, flow, saves, away, inst, assertions, lost>>
    BY <1>2 DEF CookieExpires, env
  <2> QED
    BY <2>1, <2>2, NoneAssumption
       DEF TypeOK, Flows!TypeOK, Known, Owned, Accepted, Told, Registered, Holds
<1>3. CASE Repoint
  <2>1. saves' \in Seq(Settings) \ {<<>>}
    BY <1>3 DEF Repoint, TypeOK
  <2>2. UNCHANGED <<status, flow, jar, away, inst, assertions, lost>>
    BY <1>3 DEF Repoint
  <2> QED
    BY <2>1, <2>2
       DEF TypeOK, Flows!TypeOK, Known, Owned, Accepted, Told, Registered, Holds
<1> QED
  BY <1>1, <1>2, <1>3 DEF World

(* Every step of the model keeps the invariant. *)
LEMMA NextInductive == Inductive /\ [Next]_vars => Inductive'
<1>1. Inductive /\ UNCHANGED vars => Inductive'
  BY DEF vars, env, Inductive, TypeOK, Flows!TypeOK, Known, Owned, Accepted, Told,
         Registered, Holds
<1> QED
  BY <1>1, BeginStep, SaveFlowStep, CallbackStep, ClaimStep, ExchangeStep, AssertStep,
     ReceiveStep, StopStep, WorldStep
     DEF Next, BeginSteps, CallbackSteps

-----------------------------------------------------------------------------
(* Every behaviour stays in the invariant. *)
LEMMA AlwaysInductive == Spec => []Inductive
BY InitInductive, NextInductive, PTL DEF Spec

(* Requests, rows and cookies hold values of their kind. *)
THEOREM TypeCorrect == Spec => []TypeOK
BY AlwaysInductive, PTL DEF Inductive

(* The host is told once at most of what a provider vouched for, whatever tabs,
   browsers and requests take part. *)
THEOREM OneAssertion == Spec => []AssertedOnce
<1>1. Inductive => AssertedOnce
  <2> SUFFICES ASSUME Inductive, NEW h \in Handles PROVE Len(assertions[h]) <= 1
    BY DEF AssertedOnce
  <2>1. CASE assertions[h] = <<>>
    BY <2>1
  <2>2. CASE assertions[h] # <<>>
    <3>1. Len(assertions[h]) = 1
      BY <2>2 DEF Inductive, Told
    <3> QED
      BY <3>1
  <2> QED
    BY <2>1, <2>2
<1> QED
  BY <1>1, AlwaysInductive, PTL

(* There is one entry, and it is the flow's own row. *)
LEMMA OneEntry ==
  ASSUME Inductive, NEW h \in Handles, NEW n \in DOMAIN assertions[h]
  PROVE  /\ assertions[h][n] = [provider |-> flow[h].issuer, client |-> flow[h].client,
                                browser |-> flow[h].browser, kind |-> flow[h].mode]
         /\ Registered(h)
<1>1. assertions[h] \in Seq(Asserted)
  BY DEF Inductive, TypeOK
<1>2. assertions[h] # <<>>
  OBVIOUS
<1>3. Len(assertions[h]) = 1
  BY <1>2 DEF Inductive, Told
<1>4. n = 1
  BY <1>1, <1>3
<1> QED
  BY <1>2, <1>4 DEF Inductive, Told

(* A browser is signed in or linked as the visitor who went away, at the provider
   it went to, and for what it went. *)
THEOREM WhatBeganIsAsserted == Spec => []AssertsWhatBegan
<1>1. Inductive => AssertsWhatBegan
  <2> SUFFICES ASSUME Inductive, NEW h \in Handles, NEW n \in DOMAIN assertions[h]
               PROVE  /\ assertions[h][n].browser = flow[h].browser
                      /\ assertions[h][n].provider = flow[h].issuer
                      /\ assertions[h][n].kind = flow[h].mode
    BY DEF AssertsWhatBegan
  <2>1. assertions[h][n] = [provider |-> flow[h].issuer, client |-> flow[h].client,
                            browser |-> flow[h].browser, kind |-> flow[h].mode]
    BY OneEntry
  <2> QED
    BY <2>1
<1> QED
  BY <1>1, AlwaysInductive, PTL

(* A code goes to the token endpoint of the provider its visitor was sent to. *)
THEOREM CodeGoesHome == Spec => []CodeStaysWithItsProvider
<1>1. Inductive => CodeStaysWithItsProvider
  BY DEF Inductive, Accepted, Holds, At, CodeStaysWithItsProvider
<1> QED
  BY <1>1, AlwaysInductive, PTL

-----------------------------------------------------------------------------
(* A handle that is in a response for the jar is nowhere else yet: the flow
   cannot have been used, and no jar, request or other response has it. *)
Unsent ==
    \A i \in Instances, h \in Handles : inst[i].set = h =>
      /\ status[h] # "taken"
      /\ \A b \in Browsers : jar[b] # h
      /\ \A j \in Instances : inst[j].cookie # h /\ (j # i => inst[j].set # h)

Others(i) == \A j \in Instances : j # i => inst'[j] = inst[j]

(* The fields of a response, and of a request that is over. *)
LEMMA Responds ==
  ASSUME NEW i \in Instances, TypeOK, NEW set \in Handles \cup {None}
  PROVE  /\ Respond(i, set) =>
              /\ Others(i)
              /\ inst'[i].at = "answer" /\ inst'[i].browser = inst[i].browser
              /\ inst'[i].cookie = inst[i].cookie /\ inst'[i].set = set
         /\ inst' = [inst EXCEPT ![i] = Idle] =>
              /\ Others(i)
              /\ inst'[i].at = "idle" /\ inst'[i].cookie = None /\ inst'[i].set = None
<1>1. ASSUME inst' = [inst EXCEPT ![i] = Idle]
      PROVE  /\ Others(i)
             /\ inst'[i].at = "idle" /\ inst'[i].cookie = None /\ inst'[i].set = None
  BY <1>1 DEF TypeOK, Idle, Others
<1>2. ASSUME Respond(i, set)
      PROVE  /\ Others(i)
             /\ inst'[i].at = "answer" /\ inst'[i].browser = inst[i].browser
             /\ inst'[i].cookie = inst[i].cookie /\ inst'[i].set = set
  <2> DEFINE r == [Idle EXCEPT !.at = "answer", !.browser = inst[i].browser,
                               !.cookie = inst[i].cookie, !.set = set]
  <2>1. /\ r.at = "answer" /\ r.browser = inst[i].browser
        /\ r.cookie = inst[i].cookie /\ r.set = set
    BY DEF Idle
  <2> HIDE DEF r
  <2> QED
    BY <1>2, <2>1 DEF TypeOK, Respond, Others, r
<1> QED
  BY <1>1, <1>2

(* The fields of a request that goes on. *)
LEMMA Proceeds ==
  ASSUME NEW i \in Instances, TypeOK, Goto(i, "assert") \/ Proceed(i)
  PROVE  /\ Others(i)
         /\ inst'[i].at \in {"exchange", "assert"} /\ inst'[i].browser = inst[i].browser
         /\ inst'[i].cookie = inst[i].cookie /\ inst'[i].set = inst[i].set
<1>1. CASE Goto(i, "assert")
  <2> DEFINE r == [inst[i] EXCEPT !.at = "assert"]
  <2>1. inst' = [inst EXCEPT ![i] = r]
    BY <1>1 DEF Goto, TypeOK
  <2>2. /\ r.at = "assert" /\ r.browser = inst[i].browser
        /\ r.cookie = inst[i].cookie /\ r.set = inst[i].set
    BY DEF TypeOK, Requests
  <2> HIDE DEF r
  <2> QED
    BY <2>1, <2>2 DEF TypeOK, Others
<1>2. CASE Proceed(i)
  <2> DEFINE r == [inst[i] EXCEPT !.at = "exchange", !.client = client]
  <2>1. inst' = [inst EXCEPT ![i] = r]
    BY <1>2 DEF Proceed, TypeOK, Requests
  <2>2. /\ r.at = "exchange" /\ r.browser = inst[i].browser
        /\ r.cookie = inst[i].cookie /\ r.set = inst[i].set
    BY DEF TypeOK, Requests
  <2> HIDE DEF r
  <2> QED
    BY <2>1, <2>2 DEF TypeOK, Others
<1> QED
  BY <1>1, <1>2

(* The steps after a claim keep the cookie and the browser; so does the claim. *)
LEMMA CallbackKeeps ==
  ASSUME NEW i \in Instances, TypeOK, Claim(i) \/ Exchange(i) \/ Assert(i)
  PROVE  /\ Others(i)
         /\ inst'[i].at \in {"exchange", "assert", "answer"}
         /\ inst'[i].browser = inst[i].browser /\ inst'[i].cookie = inst[i].cookie
         /\ inst'[i].set \in {None, inst[i].set}
<1>1. Respond(i, None) \/ Goto(i, "assert") \/ Proceed(i)
  BY DEF Claim, Exchange, Assert, FailCallback
<1> QED
  BY <1>1, Responds, Proceeds

(* A request that comes in to begin a sign-in, or that is over, has no cookie. *)
LEMMA BeginCarries ==
  ASSUME NEW i \in Instances, TypeOK, Begin(i) \/ Receive(i) \/ Stop(i)
  PROVE  /\ Others(i)
         /\ inst'[i].set = None /\ inst'[i].cookie = None
<1>1. CASE Begin(i)
  <2>1. PICK b \in Browsers, mode \in Modes :
          inst' = [inst EXCEPT ![i] = [Idle EXCEPT !.at = "begin", !.mode = mode,
                                                   !.browser = b, !.cfg = issuer]]
    BY <1>1 DEF Begin
  <2> DEFINE r == [Idle EXCEPT !.at = "begin", !.mode = mode, !.browser = b, !.cfg = issuer]
  <2>2. r.set = None /\ r.cookie = None
    BY DEF Idle
  <2> HIDE DEF r
  <2> QED
    BY <2>1, <2>2 DEF TypeOK, Others, r
<1>2. CASE Receive(i) \/ Stop(i)
  BY <1>2, Responds DEF Receive, Stop
<1> QED
  BY <1>1, <1>2

(* A callback's request has the cookie it found in the jar, or none. *)
LEMMA CallbackCarries ==
  ASSUME NEW i \in Instances, TypeOK, Callback(i)
  PROVE  /\ Others(i)
         /\ inst'[i].set = None
         /\ \E b \in Browsers : inst'[i].cookie \in {None, jar[b]}
<1>1. ASSUME NEW b \in Browsers, NEW h \in away,
             inst' = [inst EXCEPT ![i] = [Idle EXCEPT !.at = "claim", !.browser = b,
                                            !.cfg = issuer, !.cookie = jar[b], !.code = h]]
      PROVE  Others(i) /\ inst'[i].set = None /\ inst'[i].cookie = jar[b]
  <2> DEFINE r == [Idle EXCEPT !.at = "claim", !.browser = b, !.cfg = issuer,
                               !.cookie = jar[b], !.code = h]
  <2>1. r.set = None /\ r.cookie = jar[b]
    BY DEF Idle
  <2> HIDE DEF r
  <2> QED
    BY <1>1, <2>1 DEF TypeOK, Others, r
<1>2. ASSUME NEW b \in Browsers,
             inst' = [inst EXCEPT ![i] = [Idle EXCEPT !.at = "answer", !.browser = b]]
      PROVE  Others(i) /\ inst'[i].set = None /\ inst'[i].cookie = None
  BY <1>2 DEF TypeOK, Others, Idle
<1> QED
  BY <1>1, <1>2 DEF Callback

(* A saved flow's request had no use for a cookie, and its response may have the
   handle of the flow, which was unopened. *)
LEMMA SaveFlowCarries ==
  ASSUME NEW i \in Instances, TypeOK, SaveFlow(i)
  PROVE  /\ Others(i)
         /\ inst'[i].cookie \in {None, inst[i].cookie}
         /\ \/ inst'[i].set = None
            \/ inst'[i].set \in Handles /\ status[inst'[i].set] = "unopened"
         /\ \A h \in Handles : status'[h] = "taken" => status[h] = "taken"
<1>1. ASSUME NEW h \in Handles, Flows!Open(h), Respond(i, h) \/ FailBegin(i)
      PROVE  /\ Others(i)
             /\ inst'[i].cookie \in {None, inst[i].cookie}
             /\ inst'[i].set \in {None, h} /\ status[h] = "unopened"
             /\ \A k \in Handles : status'[k] = "taken" => status[k] = "taken"
  <2>1. \A k \in Handles : status'[k] = "taken" => status[k] = "taken"
    BY <1>1 DEF Flows!Open, TypeOK, Flows!TypeOK
  <2>2. status[h] = "unopened"
    BY <1>1 DEF Flows!Open
  <2> QED
    BY <1>1, <2>1, <2>2, Responds DEF FailBegin
<1>2. CASE FailBegin(i) /\ UNCHANGED status
  BY <1>2, Responds DEF FailBegin
<1> QED
  BY <1>1, <1>2 DEF SaveFlow

(* One response carries a handle, and it is received before anybody uses it. *)
LEMMA UnsentStep == Inductive /\ Unsent /\ [Next]_vars => Unsent'
<1> SUFFICES ASSUME Inductive, Unsent, [Next]_vars PROVE Unsent'
    OBVIOUS
<1> USE NoneAssumption DEF Inductive, Others
<1>1. ASSUME NEW i \in Instances, Begin(i) \/ Exchange(i) \/ Assert(i) \/ Stop(i)
      PROVE  Unsent'
  <2>1. UNCHANGED <<status, jar>>
    BY <1>1 DEF Begin, Exchange, Assert, Stop
  <2>2. \A j \in Instances : /\ inst'[j].set \in {None, inst[j].set}
                             /\ inst'[j].cookie \in {None, inst[j].cookie}
    BY <1>1, BeginCarries, CallbackKeeps
  <2> QED
    BY <2>1, <2>2 DEF Unsent
<1>2. ASSUME NEW i \in Instances, Claim(i) PROVE Unsent'
  <2>1. jar' = jar
    BY <1>2 DEF Claim
  <2>2. \A h \in Handles : status'[h] = "taken" => status[h] = "taken" \/ h = inst[i].cookie
    BY <1>2 DEF Claim, Flows!Take, Flows!Close, Inductive, TypeOK, Flows!TypeOK
  <2>3. \A j \in Instances : /\ inst'[j].set \in {None, inst[j].set}
                             /\ inst'[j].cookie = inst[j].cookie
    BY <1>2, CallbackKeeps
  <2> QED
    BY <1>2, <2>1, <2>2, <2>3 DEF Unsent
<1>3. ASSUME NEW i \in Instances, Callback(i) PROVE Unsent'
  <2>1. UNCHANGED <<status, jar>>
    BY <1>3 DEF Callback
  <2> QED
    BY <1>3, <2>1, CallbackCarries DEF Unsent
<1>4. ASSUME NEW i \in Instances, SaveFlow(i) PROVE Unsent'
  <2>1. jar' = jar
    BY <1>4 DEF SaveFlow
  <2>2. ASSUME NEW h \in Handles, status[h] = "unopened"
        PROVE  /\ \A b \in Browsers : jar[b] # h
               /\ \A j \in Instances : inst[j].cookie # h /\ inst[j].set # h
    BY <2>2 DEF Inductive, Owned
  <2> QED
    BY <1>4, <2>1, <2>2, SaveFlowCarries DEF Unsent
<1>5. ASSUME NEW i \in Instances, Receive(i) PROVE Unsent'
  <2>1. \A b \in Browsers : jar'[b] \in {jar[b], inst[i].set}
    BY <1>5 DEF Receive, Inductive, TypeOK
  <2>2. status' = status
    BY <1>5 DEF Receive
  <2> QED
    BY <1>5, <2>1, <2>2, BeginCarries DEF Unsent
<1>6. CASE World
  <2>1. /\ inst' = inst
        /\ \A b \in Browsers : jar'[b] \in {jar[b], None}
        /\ \A h \in Handles : status'[h] = "taken" => status[h] = "taken"
    BY <1>6 DEF World, FlowExpires, CookieExpires, Repoint, Flows!Close,
                Inductive, TypeOK, Flows!TypeOK
  <2> QED
    BY <2>1 DEF Unsent
<1>7. CASE UNCHANGED vars
  BY <1>7 DEF vars, Unsent
<1> QED
  BY <1>1, <1>2, <1>3, <1>4, <1>5, <1>6, <1>7 DEF Next, BeginSteps, CallbackSteps

(* The request on whose way the deletion of a used cookie is. *)
Deletes(i, b) ==
    /\ inst[i].browser = b /\ inst[i].cookie = jar[b]
    /\ inst[i].at \in {"exchange", "assert", "answer"}

(* The request that takes a flow has its cookie, and is of the flow's browser:
   it is the one whose response deletes the cookie, unless it is lost. *)
LEMMA UsedStep ==
  Inductive /\ Unsent /\ UsedCookieIsOnItsWayOut /\ [Next]_vars
    => UsedCookieIsOnItsWayOut'
<1> SUFFICES ASSUME Inductive, Unsent, UsedCookieIsOnItsWayOut, [Next]_vars,
                    NEW b \in Browsers, jar'[b] \in Handles \ lost',
                    status'[jar'[b]] = "taken"
             PROVE  \E i \in Instances : Deletes(i, b)'
  BY DEF UsedCookieIsOnItsWayOut, Deletes
<1> DEFINE h == jar[b]
<1> USE NoneAssumption DEF Inductive, Others
<1>1. jar[b] \in Handles \ lost /\ status[jar[b]] = "taken" =>
        \E i \in Instances : Deletes(i, b)
  BY DEF UsedCookieIsOnItsWayOut, Deletes
<1>2. ASSUME NEW i \in Instances, Begin(i) \/ Callback(i) \/ SaveFlow(i)
      PROVE  \E j \in Instances : Deletes(j, b)'
  <2>1. UNCHANGED <<jar, lost>> /\ inst[i].at \in {"idle", "begin"}
    BY <1>2 DEF Begin, Callback, SaveFlow, At
  <2>2. status[h] = "taken"
    BY <1>2, <2>1, SaveFlowCarries DEF Begin, Callback
  <2>3. PICK j \in Instances : Deletes(j, b)
    BY <1>1, <2>1, <2>2
  <2>4. inst'[j] = inst[j]
    BY <1>2, <2>1, <2>3, BeginCarries, CallbackCarries, SaveFlowCarries DEF Deletes
  <2> QED
    BY <2>1, <2>3, <2>4 DEF Deletes
<1>3. ASSUME NEW i \in Instances, Claim(i) \/ Exchange(i) \/ Assert(i)
      PROVE  \E j \in Instances : Deletes(j, b)'
  <2>1. UNCHANGED <<jar, lost>>
    BY <1>3 DEF Claim, Exchange, Assert
  <2>2. CASE status[h] = "taken"
    <3>1. PICK j \in Instances : Deletes(j, b)
      BY <1>1, <2>1, <2>2
    <3>2. Deletes(j, b)'
      BY <1>3, <2>1, <3>1, CallbackKeeps DEF Deletes
    <3> QED
      BY <3>2
  <2>3. CASE status[h] # "taken"
    <3>1. Claim(i) /\ h \in Handles
      BY <1>3, <2>1, <2>3 DEF Exchange, Assert
    <3>2. h = inst[i].cookie
      BY <2>1, <2>3, <3>1 DEF Claim, Flows!Take, Flows!Close, TypeOK, Flows!TypeOK
    <3>3. inst[i].browser = b
      BY <3>1, <3>2 DEF Owned
    <3>4. Deletes(i, b)'
      BY <1>3, <2>1, <3>2, <3>3, CallbackKeeps DEF Deletes
    <3> QED
      BY <3>4
  <2> QED
    BY <2>2, <2>3
<1>4. ASSUME NEW i \in Instances, Receive(i)
      PROVE  \E j \in Instances : Deletes(j, b)'
  <2>1. UNCHANGED <<status, lost>>
    BY <1>4 DEF Receive
  <2>2. inst[i].browser = b => jar'[b] = inst[i].set
    BY <1>4 DEF Receive, TypeOK
  <2>3. inst[i].browser # b /\ jar'[b] = jar[b]
    BY <1>4, <2>1, <2>2 DEF Receive, TypeOK, Unsent
  <2>4. PICK j \in Instances : Deletes(j, b)
    BY <1>1, <2>1, <2>3
  <2>5. inst'[j] = inst[j]
    BY <1>4, <2>3, <2>4, BeginCarries DEF Deletes
  <2> QED
    BY <2>3, <2>4, <2>5 DEF Deletes
<1>5. ASSUME NEW i \in Instances, Stop(i)
      PROVE  \E j \in Instances : Deletes(j, b)'
  <2>1. UNCHANGED <<status, jar>> /\ lost \subseteq lost'
    BY <1>5 DEF Stop
  <2>2. PICK j \in Instances : Deletes(j, b)
    BY <1>1, <2>1
  <2>3. j # i
    BY <1>5, <2>1, <2>2 DEF Stop, Deletes
  <2> QED
    BY <1>5, <2>1, <2>2, <2>3, BeginCarries DEF Deletes
<1>6. CASE World
  <2>1. UNCHANGED <<inst, lost>> /\ jar'[b] = jar[b]
    BY <1>6 DEF World, FlowExpires, CookieExpires, Repoint, TypeOK
  <2>2. \A k \in Handles : status'[k] = "taken" => status[k] = "taken"
    BY <1>6 DEF World, FlowExpires, CookieExpires, Repoint, Flows!Close,
                TypeOK, Flows!TypeOK
  <2> QED
    BY <1>1, <2>1, <2>2 DEF Deletes
<1>7. CASE UNCHANGED vars
  BY <1>1, <1>7 DEF vars, Deletes
<1> QED
  BY <1>2, <1>3, <1>4, <1>5, <1>6, <1>7 DEF Next, BeginSteps, CallbackSteps

(* A used cookie stays in a jar only while the response that deletes it is still
   to come, or because it was lost. *)
THEOREM UsedCookieLeaves == Spec => []UsedCookieIsOnItsWayOut
<1>1. Init => Unsent /\ UsedCookieIsOnItsWayOut
  BY NoneAssumption DEF Init, Idle, Unsent, UsedCookieIsOnItsWayOut
<1> QED
  BY <1>1, AlwaysInductive, UnsentStep, UsedStep, PTL DEF Spec

-----------------------------------------------------------------------------
(* A flow was begun under saves s with provider p and client c: p is of one save
   and c of the same or a later one.  Its callback found provider q no earlier
   than that, and client d no earlier than q. *)
BegunUnder(s, p, c) ==
    \E m, n \in DOMAIN s : m <= n /\ s[m][1] = p /\ s[n][2] = c

BackUnder(s, p, c, q) ==
    \E m, n, o \in DOMAIN s : m <= n /\ n <= o /\ s[m][1] = p /\ s[n][2] = c /\ s[o][1] = q

HeldUnder(s, p, c, q, d) ==
    \E m, n, o, r \in DOMAIN s :
      /\ m <= n /\ n <= o /\ o <= r
      /\ s[m][1] = p /\ s[n][2] = c /\ s[o][1] = q /\ s[r][2] = d

(* What a request or a row has of the settings it has of saves, in their order. *)
TracedRow(h) == status[h] # "unopened" => BegunUnder(saves, flow[h].issuer, flow[h].client)

TracedRequest(i) ==
    LET row == flow[inst[i].cookie] IN
    /\ At(i, "begin") => \E m \in DOMAIN saves : saves[m][1] = inst[i].cfg
    /\ At(i, "claim") => BackUnder(saves, row.issuer, row.client, inst[i].cfg)
    /\ Holds(i) => HeldUnder(saves, row.issuer, row.client, inst[i].cfg, inst[i].client)

TracedAssertion(h) ==
    assertions[h] # <<>> =>
      HeldUnder(saves, flow[h].issuer, flow[h].client, flow[h].issuer, flow[h].client)

Traced ==
    /\ \A i \in Instances : TracedRequest(i)
    /\ \A h \in Handles : TracedRow(h) /\ TracedAssertion(h)

(* Saves are only added, and what is traced stays so. *)
Extends(s, t) == \A k \in DOMAIN s : k \in DOMAIN t /\ t[k] = s[k]

LEMMA TracesStay ==
  ASSUME NEW s, NEW t, Extends(s, t), NEW p, NEW c, NEW q, NEW d
  PROVE  /\ (\E m \in DOMAIN s : s[m][1] = p) => \E m \in DOMAIN t : t[m][1] = p
         /\ BegunUnder(s, p, c) => BegunUnder(t, p, c)
         /\ BackUnder(s, p, c, q) => BackUnder(t, p, c, q)
         /\ HeldUnder(s, p, c, q, d) => HeldUnder(t, p, c, q, d)
<1>1. (\E m \in DOMAIN s : s[m][1] = p) => \E m \in DOMAIN t : t[m][1] = p
  BY DEF Extends
<1>2. BegunUnder(s, p, c) => BegunUnder(t, p, c)
  BY DEF BegunUnder, Extends
<1>3. BackUnder(s, p, c, q) => BackUnder(t, p, c, q)
  BY DEF BackUnder, Extends
<1>4. HeldUnder(s, p, c, q, d) => HeldUnder(t, p, c, q, d)
  BY DEF HeldUnder, Extends
<1> QED
  BY <1>1, <1>2, <1>3, <1>4

(* The last save is the one that is read: what is read comes after all else. *)
LEMMA ReadsTheLast ==
  ASSUME TypeOK, NEW p, NEW c, NEW q
  PROVE  /\ \E m \in DOMAIN saves : saves[m][1] = issuer
         /\ (\E m \in DOMAIN saves : saves[m][1] = p) => BegunUnder(saves, p, client)
         /\ BegunUnder(saves, p, c) => BackUnder(saves, p, c, issuer)
         /\ BackUnder(saves, p, c, q) => HeldUnder(saves, p, c, q, client)
<1> DEFINE last == Len(saves)
<1>1. saves \in Seq(Settings) /\ saves # <<>>
  BY DEF TypeOK
<1>2. last \in DOMAIN saves /\ \A k \in DOMAIN saves : k <= last
  BY <1>1
<1>3. saves[last][1] = issuer /\ saves[last][2] = client
  BY DEF issuer, client, settings
<1> HIDE DEF last
<1>4. (\E m \in DOMAIN saves : saves[m][1] = p) => BegunUnder(saves, p, client)
  BY <1>2, <1>3 DEF BegunUnder
<1>5. BegunUnder(saves, p, c) => BackUnder(saves, p, c, issuer)
  BY <1>2, <1>3 DEF BegunUnder, BackUnder
<1>6. BackUnder(saves, p, c, q) => HeldUnder(saves, p, c, q, client)
  BY <1>2, <1>3 DEF BackUnder, HeldUnder
<1> QED
  BY <1>2, <1>3, <1>4, <1>5, <1>6

(* A step keeps what was traced, when it traces what it adds: the row of a flow
   that was begun is not written again. *)
LEMMA TracedStays ==
  ASSUME Inductive, Traced, Extends(saves, saves'),
         \A h \in Handles : status[h] # "unopened" => flow'[h] = flow[h],
         \A h \in Handles :
           (status[h] # "unopened" <=> status'[h] # "unopened") \/ TracedRow(h)',
         \A h \in Handles : assertions'[h] = assertions[h] \/ TracedAssertion(h)',
         \A j \in Instances : inst'[j] = inst[j] \/ TracedRequest(j)'
  PROVE  Traced'
<1> USE DEF Inductive
<1>1. ASSUME NEW h \in Handles PROVE TracedRow(h)'
  BY TracesStay DEF Traced, TracedRow
<1>2. ASSUME NEW h \in Handles PROVE TracedAssertion(h)'
  <2>1. CASE assertions'[h] = assertions[h] /\ assertions[h] # <<>>
    <3>1. flow'[h] = flow[h]
      BY <2>1 DEF Told
    <3>2. HeldUnder(saves, flow[h].issuer, flow[h].client, flow[h].issuer, flow[h].client)
      BY <2>1 DEF Traced, TracedAssertion
    <3>3. HeldUnder(saves', flow[h].issuer, flow[h].client, flow[h].issuer, flow[h].client)
      BY <3>2, TracesStay
    <3> QED
      BY <3>1, <3>3 DEF TracedAssertion
  <2> QED
    BY <2>1 DEF TracedAssertion
<1>3. ASSUME NEW j \in Instances, inst'[j] = inst[j] PROVE TracedRequest(j)'
  <2> DEFINE row == flow[inst[j].cookie]
  <2>1. TracedRequest(j)
    BY DEF Traced
  <2>2. At(j, "begin") => \E m \in DOMAIN saves' : saves'[m][1] = inst[j].cfg
    <3>1. At(j, "begin") => \E m \in DOMAIN saves : saves[m][1] = inst[j].cfg
      BY <2>1 DEF TracedRequest
    <3> QED
      BY <3>1, TracesStay
  <2>3. At(j, "claim") \/ Holds(j) => flow'[inst[j].cookie] = row
    BY NoneAssumption DEF TypeOK, Requests, Owned, At, Holds
  <2>4. At(j, "claim") => BackUnder(saves', row.issuer, row.client, inst[j].cfg)
    <3>1. At(j, "claim") => BackUnder(saves, row.issuer, row.client, inst[j].cfg)
      BY <2>1 DEF TracedRequest
    <3> QED
      BY <3>1, TracesStay
  <2>5. Holds(j) => HeldUnder(saves', row.issuer, row.client, inst[j].cfg, inst[j].client)
    <3>1. Holds(j) => HeldUnder(saves, row.issuer, row.client, inst[j].cfg, inst[j].client)
      BY <2>1 DEF TracedRequest
    <3> QED
      BY <3>1, TracesStay
  <2> QED
    BY <1>3, <2>2, <2>3, <2>4, <2>5 DEF TracedRequest, At, Holds
<1> QED
  BY <1>1, <1>2, <1>3 DEF Traced

(* A request that is at none of the places traced needs no trace. *)
LEMMA NothingToTrace ==
  ASSUME NEW i \in Instances, inst'[i].at \in {"idle", "answer"}
  PROVE  TracedRequest(i)'
BY DEF TracedRequest, At, Holds

(* What begins, reads the issuer. *)
LEMMA BeginTraced == \A i \in Instances : Inductive /\ Traced /\ Begin(i) => Traced'
<1> SUFFICES ASSUME NEW i \in Instances, Inductive, Traced, Begin(i) PROVE Traced'
  OBVIOUS
<1> USE DEF Inductive
<1>1. UNCHANGED <<status, flow, saves, assertions>>
  BY DEF Begin, env
<1>2. PICK b \in Browsers, mode \in Modes :
        inst' = [inst EXCEPT ![i] = [Idle EXCEPT !.at = "begin", !.mode = mode,
                                                 !.browser = b, !.cfg = issuer]]
  BY DEF Begin
<1> DEFINE r == [Idle EXCEPT !.at = "begin", !.mode = mode, !.browser = b, !.cfg = issuer]
<1>3. r.at = "begin" /\ r.cfg = issuer
  BY DEF Idle
<1> HIDE DEF r
<1>4. Others(i) /\ inst'[i] = r
  BY <1>2 DEF TypeOK, Others, r
<1>5. TracedRequest(i)'
  BY <1>1, <1>3, <1>4, ReadsTheLast DEF TracedRequest, At, Holds
<1> QED
  BY <1>1, <1>4, <1>5, TracedStays DEF Others, Extends

(* What is saved of the settings is the issuer that was read and the client_id
   of now. *)
LEMMA SaveFlowTraced == \A i \in Instances : Inductive /\ Traced /\ SaveFlow(i) => Traced'
<1> SUFFICES ASSUME NEW i \in Instances, Inductive, Traced, SaveFlow(i) PROVE Traced'
  OBVIOUS
<1> USE DEF Inductive
<1>1. UNCHANGED <<saves, assertions>> /\ Extends(saves, saves')
  BY DEF SaveFlow, env, Extends
<1>2. Others(i) /\ TracedRequest(i)'
  <2>1. \A h \in Handles : Respond(i, h) => inst'[i].at = "answer"
    BY Responds
  <2>2. FailBegin(i) => inst'[i].at = "idle"
    BY Responds DEF FailBegin
  <2>3. inst'[i].at \in {"idle", "answer"}
    BY <2>1, <2>2 DEF SaveFlow
  <2> QED
    BY <2>3, SaveFlowCarries, NothingToTrace
<1>3. ASSUME NEW h \in Handles, Flows!Open(h),
             flow' = [flow EXCEPT ![h] = [mode   |-> inst[i].mode,
                                          issuer |-> inst[i].cfg,
                                          client |-> client,
                                          browser |-> inst[i].browser]]
      PROVE  Traced'
  <2>1. /\ status[h] = "unopened"
        /\ \A k \in Handles : k # h => status'[k] = status[k] /\ flow'[k] = flow[k]
    BY <1>3 DEF TypeOK, Flows!Open, Flows!TypeOK
  <2>2. flow'[h].issuer = inst[i].cfg /\ flow'[h].client = client
    BY <1>3 DEF TypeOK
  <2>3. \E m \in DOMAIN saves : saves[m][1] = inst[i].cfg
    BY DEF Traced, TracedRequest, SaveFlow
  <2>4. BegunUnder(saves', flow'[h].issuer, flow'[h].client)
    BY <1>1, <2>2, <2>3, ReadsTheLast
  <2>5. TracedRow(h)'
    BY <2>4 DEF TracedRow
  <2> QED
    BY <1>1, <1>2, <2>1, <2>5, TracedStays DEF Others
<1>4. CASE UNCHANGED <<status, flow>>
  BY <1>1, <1>2, <1>4, TracedStays DEF Others
<1> QED
  BY <1>3, <1>4 DEF SaveFlow

(* A callback reads the issuer after its flow was begun. *)
LEMMA CallbackTraced == \A i \in Instances : Inductive /\ Traced /\ Callback(i) => Traced'
<1> SUFFICES ASSUME NEW i \in Instances, Inductive, Traced, Callback(i) PROVE Traced'
  OBVIOUS
<1> USE DEF Inductive
<1>1. UNCHANGED <<status, flow, saves, assertions>>
  BY DEF Callback, env
<1>2. ASSUME NEW b \in Browsers, NEW h \in away, jar[b] # None,
             inst' = [inst EXCEPT ![i] = [Idle EXCEPT !.at = "claim", !.browser = b, !.cfg = issuer,
                                                      !.cookie = jar[b], !.code = h]]
      PROVE  Others(i) /\ TracedRequest(i)'
  <2> DEFINE r == [Idle EXCEPT !.at = "claim", !.browser = b, !.cfg = issuer,
                               !.cookie = jar[b], !.code = h]
  <2>1. r.at = "claim" /\ r.cfg = issuer /\ r.cookie = jar[b]
    BY DEF Idle
  <2> HIDE DEF r
  <2>2. Others(i) /\ inst'[i] = r
    BY <1>2 DEF TypeOK, Others, r
  <2>3. jar[b] \in Handles /\ status[jar[b]] # "unopened"
    BY <1>2 DEF TypeOK, Owned
  <2>4. BegunUnder(saves, flow[jar[b]].issuer, flow[jar[b]].client)
    BY <2>3 DEF Traced, TracedRow
  <2>5. BackUnder(saves, flow[jar[b]].issuer, flow[jar[b]].client, issuer)
    BY <2>4, ReadsTheLast
  <2> QED
    BY <1>1, <2>1, <2>2, <2>5 DEF TracedRequest, At, Holds
<1>3. ASSUME NEW b \in Browsers, inst' = [inst EXCEPT ![i] = [Idle EXCEPT !.at = "answer", !.browser = b]]
      PROVE  Others(i) /\ TracedRequest(i)'
  <2>1. Others(i) /\ inst'[i].at = "answer"
    BY <1>3 DEF TypeOK, Others, Idle
  <2> QED
    BY <2>1, NothingToTrace
<1>4. Others(i) /\ TracedRequest(i)'
  BY <1>2, <1>3 DEF Callback
<1> QED
  BY <1>1, <1>4, TracedStays DEF Others, Extends

(* Between the claim and the assertion only the client_id is read. *)
LEMMA GoesOnTraced ==
  ASSUME NEW i \in Instances, Inductive, Traced, Claim(i) \/ Exchange(i) \/ Assert(i)
  PROVE  Others(i) /\ TracedRequest(i)'
<1> USE DEF Inductive
<1> DEFINE row == flow[inst[i].cookie]
<1>1. UNCHANGED <<flow, saves>>
  BY DEF Claim, Exchange, Assert, env
<1>2. CASE Respond(i, None)
  BY <1>2, Responds, NothingToTrace
<1>3. CASE Claim(i) /\ Proceed(i)
  <2>1. /\ inst'[i].at = "exchange" /\ inst'[i].cookie = inst[i].cookie
        /\ inst'[i].cfg = inst[i].cfg /\ inst'[i].client = client
    BY <1>3 DEF Proceed, TypeOK, Requests
  <2>2. BackUnder(saves, row.issuer, row.client, inst[i].cfg)
    BY <1>3 DEF Traced, TracedRequest, Claim
  <2>3. HeldUnder(saves, row.issuer, row.client, inst[i].cfg, client)
    BY <2>2, ReadsTheLast
  <2> QED
    BY <1>1, <1>3, <2>1, <2>3, Proceeds DEF TracedRequest, At, Holds
<1>4. CASE Exchange(i) /\ Goto(i, "assert")
  <2>1. /\ inst'[i].at = "assert" /\ inst'[i].cookie = inst[i].cookie
        /\ inst'[i].cfg = inst[i].cfg /\ inst'[i].client = inst[i].client
    BY <1>4 DEF Goto, TypeOK, Requests
  <2>2. HeldUnder(saves, row.issuer, row.client, inst[i].cfg, inst[i].client)
    BY <1>4 DEF Traced, TracedRequest, Exchange, At, Holds
  <2> QED
    BY <1>1, <1>4, <2>1, <2>2, Proceeds DEF TracedRequest, At, Holds
<1> QED
  BY <1>2, <1>3, <1>4 DEF Claim, Exchange, Assert, FailCallback

(* What is asserted of a flow was held of it. *)
LEMMA CallbackStepsTraced ==
  \A i \in Instances :
    Inductive /\ Traced /\ (Claim(i) \/ Exchange(i) \/ Assert(i)) => Traced'
<1> SUFFICES ASSUME NEW i \in Instances, Inductive, Traced, Claim(i) \/ Exchange(i) \/ Assert(i)
             PROVE  Traced'
  OBVIOUS
<1> USE DEF Inductive
<1>1. UNCHANGED <<flow, saves>> /\ Extends(saves, saves')
  BY DEF Claim, Exchange, Assert, env, Extends
<1>2. PICK h \in Handles : h = inst[i].cookie
  BY NoneAssumption DEF Claim, Exchange, Assert, At, TypeOK, Requests
<1>3. \A k \in Handles : status[k] # "unopened" <=> status'[k] # "unopened"
  <2>1. CASE Exchange(i) \/ Assert(i)
    BY <2>1 DEF Exchange, Assert
  <2>2. CASE Claim(i)
    <3>1. Flows!Take(h) \/ (status[h] = "open" /\ Flows!Close({h})) \/ status' = status
      BY <1>2, <2>2 DEF Claim
    <3>2. Later
      BY <1>2, <3>1, Moves
    <3> QED
      BY <3>2 DEF Later
  <2> QED
    BY <2>1, <2>2
<1>4. \A k \in Handles : assertions'[k] = assertions[k] \/ TracedAssertion(k)'
  <2>1. CASE Claim(i) \/ Exchange(i) \/ UNCHANGED assertions
    BY <2>1 DEF Claim, Exchange
  <2>2. CASE Assert(i)
    <3>1. Holds(i) /\ At(i, "assert")
      BY <2>2 DEF Assert, At, Holds
    <3>2. inst[i].code = h /\ inst[i].cfg = flow[h].issuer /\ inst[i].client = flow[h].client
      BY <1>2, <3>1 DEF Accepted, At
    <3>3. HeldUnder(saves, flow[h].issuer, flow[h].client, flow[h].issuer, flow[h].client)
      BY <1>2, <3>1, <3>2 DEF Traced, TracedRequest
    <3>4. TracedAssertion(h)'
      BY <1>1, <3>3 DEF TracedAssertion
    <3>5. \A k \in Handles : k # h => assertions'[k] = assertions[k]
      BY <2>2, <3>2 DEF Assert, TypeOK
    <3> QED
      BY <3>4, <3>5
  <2> QED
    BY <2>1, <2>2
<1>5. Others(i) /\ TracedRequest(i)'
  BY GoesOnTraced
<1> QED
  BY <1>1, <1>3, <1>4, <1>5, TracedStays DEF Others

(* All other steps read no settings, and a save is added to those before it. *)
LEMMA TracedStep == Inductive /\ Traced /\ [Next]_vars => Traced'
<1> SUFFICES ASSUME Inductive, Traced, [Next]_vars PROVE Traced'
  OBVIOUS
<1> USE DEF Inductive
<1>1. ASSUME NEW i \in Instances, Receive(i) \/ Stop(i) PROVE Traced'
  <2>1. UNCHANGED <<status, flow, saves, assertions>> /\ Extends(saves, saves')
    BY <1>1 DEF Receive, Stop, env, Extends
  <2>2. Others(i) /\ inst'[i].at = "idle"
    BY <1>1, Responds DEF Receive, Stop
  <2> QED
    BY <2>1, <2>2, NothingToTrace, TracedStays DEF Others
<1>2. CASE World \/ UNCHANGED vars
  <2>1. UNCHANGED <<flow, inst, assertions>>
    BY <1>2 DEF World, FlowExpires, CookieExpires, Repoint, vars
  <2>2. Extends(saves, saves')
    <3>1. CASE UNCHANGED saves
      BY <3>1 DEF Extends
    <3>2. CASE Repoint
      <4>1. saves \in Seq(Settings)
        BY DEF TypeOK
      <4> QED
        BY <3>2, <4>1 DEF Repoint, Extends
    <3> QED
      BY <1>2, <3>1, <3>2 DEF World, FlowExpires, CookieExpires, env, vars
  <2>3. \A h \in Handles : status[h] # "unopened" <=> status'[h] # "unopened"
    <3>1. CASE FlowExpires
      BY <3>1, Moves DEF FlowExpires, Later
    <3>2. CASE UNCHANGED status
      BY <3>2
    <3> QED
      BY <1>2, <3>1, <3>2 DEF World, CookieExpires, Repoint, vars
  <2> QED
    BY <2>1, <2>2, <2>3, TracedStays
<1> QED
  BY <1>1, <1>2, BeginTraced, SaveFlowTraced, CallbackTraced, CallbackStepsTraced
     DEF Next, BeginSteps, CallbackSteps

(* Four reads in the order of the saves: two of them in a row are of one save, or
   the saves alternated. *)
LEMMA OnePairOrAlternated ==
  ASSUME TypeOK, NEW p, NEW c, HeldUnder(saves, p, c, p, c)
  PROVE  (\E k \in DOMAIN saves : saves[k] = <<p, c>>) \/ Alternated(p, c)
<1>1. PICK m, n, o, r \in DOMAIN saves :
        /\ m <= n /\ n <= o /\ o <= r
        /\ saves[m][1] = p /\ saves[n][2] = c /\ saves[o][1] = p /\ saves[r][2] = c
  BY DEF HeldUnder
<1>2. DOMAIN saves \subseteq Nat /\ \A k \in DOMAIN saves : saves[k] \in Issuers \X Clients
  BY SettingsAssumption DEF TypeOK
<1>3. \A k \in DOMAIN saves : saves[k] = <<saves[k][1], saves[k][2]>>
  BY <1>2
<1>4. CASE m = n \/ n = o \/ o = r
  BY <1>1, <1>3, <1>4
<1>5. CASE m # n /\ n # o /\ o # r
  <2>1. m < n /\ n < o /\ o < r
    BY <1>1, <1>2, <1>5
  <2> QED
    BY <1>1, <2>1 DEF Alternated
<1> QED
  BY <1>4, <1>5

(* What the host is told was vouched for to the client the visitor was sent away
   with; and the operator did save that client and the provider as one pair, or
   went from the provider to the client and did so again, which takes three saves
   after the first. *)
THEOREM ConfiguredPairIsAsserted == Spec => []AssertedAsConfigured
<1>1. Init => Traced
  BY DEF Init, Flows!Init, Idle, Traced, TracedRequest, TracedRow, TracedAssertion, At, Holds
<1>2. Inductive /\ Traced => AssertedAsConfigured
  <2> SUFFICES ASSUME Inductive, Traced, NEW h \in Handles, NEW n \in DOMAIN assertions[h]
               PROVE  LET asserted == assertions[h][n] IN
                      /\ asserted.client = flow[h].client
                      /\ \/ \E k \in DOMAIN saves :
                              saves[k] = <<asserted.provider, asserted.client>>
                         \/ Alternated(asserted.provider, asserted.client)
    BY DEF AssertedAsConfigured
  <2>1. assertions[h][n] = [provider |-> flow[h].issuer, client |-> flow[h].client,
                            browser |-> flow[h].browser, kind |-> flow[h].mode]
    BY OneEntry
  <2>2. assertions[h][n].provider = flow[h].issuer /\ assertions[h][n].client = flow[h].client
    BY <2>1
  <2>3. assertions[h] # <<>>
    OBVIOUS
  <2>4. HeldUnder(saves, flow[h].issuer, flow[h].client, flow[h].issuer, flow[h].client)
    BY <2>3 DEF Traced, TracedAssertion
  <2> QED
    BY <2>2, <2>4, OnePairOrAlternated DEF Inductive
<1> QED
  BY <1>1, <1>2, TracedStep, AlwaysInductive, PTL DEF Spec

-----------------------------------------------------------------------------
(* A sign-in does nothing to a flow but what FlowLifecycle allows, and FlowStore
   is proved to implement FlowLifecycle: the two models agree on the schema. *)
THEOREM FlowsFollowLifecycle == Spec => Flows!Spec
<1>1. Init => Flows!Init
  BY DEF Init
<1>2. Inductive /\ [Next]_vars => [Flows!Next]_status
  <2> SUFFICES ASSUME Inductive, [Next]_vars PROVE Flows!Next \/ UNCHANGED status
    OBVIOUS
  <2>1. ASSUME NEW i \in Instances,
               Begin(i) \/ Callback(i) \/ Exchange(i) \/ Assert(i) \/ Receive(i) \/ Stop(i)
        PROVE  UNCHANGED status
    BY <2>1 DEF Begin, Callback, Exchange, Assert, Receive, Stop
  <2>2. ASSUME NEW i \in Instances, SaveFlow(i) PROVE Flows!Next \/ UNCHANGED status
    BY <2>2 DEF SaveFlow, Flows!Next
  <2>3. ASSUME NEW i \in Instances, Claim(i) PROVE Flows!Next \/ UNCHANGED status
    <3> DEFINE h == inst[i].cookie
    <3>1. h \in Handles
      BY <2>3, NoneAssumption DEF Inductive, TypeOK, Requests, Claim, At
    <3>2. {h} \in SUBSET Handles
      BY <3>1
    <3> QED
      BY <2>3, <3>1, <3>2 DEF Claim, Flows!Next
  <2>4. CASE World
    <3>1. \A h \in Handles : {h} \in SUBSET Handles
      OBVIOUS
    <3> QED
      BY <2>4, <3>1 DEF World, FlowExpires, CookieExpires, Repoint, Flows!Next
  <2> QED
    BY <2>1, <2>2, <2>3, <2>4 DEF Next, BeginSteps, CallbackSteps, vars
<1> QED
  BY <1>1, <1>2, AlwaysInductive, PTL DEF Spec, Flows!Spec
=============================================================================
