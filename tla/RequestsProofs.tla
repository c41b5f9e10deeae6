--------------------------- MODULE RequestsProofs ---------------------------
(***************************************************************************)
(* What is proved of one request: why it is answered once, only for what   *)
(* it could not do without, and with the page of that.                     *)
(*                                                                         *)
(* The invariant is about the steps that are left.  A request is on its    *)
(* way to one of six steps that either end it or decide what comes next,   *)
(* and Shaped says what may still lie ahead of that step.  The rest is     *)
(* about the moment an answer is built: until then nothing that is needed  *)
(* was refused, so the page is that of one failure, and nothing was made   *)
(* but by the last step before it (Committed, where that step succeeded).  *)
(***************************************************************************)
EXTENDS Requests, SequenceTheorems, TLAPS

(* The steps a list of steps can end in, by the request's path. *)
Ends(p) ==
    CASE p = "unread"            -> {"read"}
      [] p \in {"start", "link"} -> {"load", "who", "saveFlow"}
      [] p = "index"             -> {"load", "who", "show"}
      [] p = "callback"          -> {"load", "assert"}
      [] OTHER                   -> {}

AllEnds == {"read", "load", "who", "show", "saveFlow", "assert"}

Documents == {"cachedDiscovery", "forgetDiscovery", "fetchDiscovery", "cacheDiscovery"}
KeySets   == {"cachedKeys", "forgetKeys", "fetchKeys", "cacheKeys"}

Steps == AllEnds \cup Documents \cup KeySets \cup
         {"required", "optional", "responseMode", "sweepFlows", "sweepSpent", "random",
          "query", "claim", "select", "deleteFlow", "flow", "redeem", "token", "time",
          "verify", "verifyAgain", "email"}

(* What may lie ahead of the last step. *)
Ahead(last) ==
    CASE last = "load"      -> {"required", "optional"}
      [] last = "show"      -> Documents
      [] last = "saveFlow" -> Documents \cup KeySets \cup
                               {"responseMode", "sweepFlows", "sweepSpent", "random"}
      [] last = "assert"    -> Documents \cup KeySets \cup
                               {"query", "claim", "select", "deleteFlow", "flow", "redeem",
                                "token", "time", "verify", "verifyAgain", "email"}
      [] OTHER              -> {}

LastOf(t) == t[Len(t)]

(* A list of steps a request may have left: it leads to one of the path's ends, a
   sweep of flows is followed by one of spent handles, and an assertion by a flow
   whose mode is not known yet is behind the read of that flow. *)
Shaped(t, p, m) ==
    /\ t \in Seq(Steps) /\ t # <<>>
    /\ LastOf(t) \in Ends(p)
    /\ \A k \in 1 .. Len(t) - 1 : t[k] \in Ahead(LastOf(t))
    /\ \A k \in 1 .. Len(t) - 1 : t[k] = "sweepFlows" => t[k + 1] = "sweepSpent"
    /\ m = "none" /\ LastOf(t) = "assert" => \E k \in 1 .. Len(t) - 1 : t[k] = "select"

(* What has been refused on the way is what the request does without; the one
   exception is the status page, which is there to tell of its settings. *)
Tolerated ==
    LET told == path = "index" /\ LastOf(todo) = "who" /\ configErr # "none"
    IN  NeededFailures = IF told THEN {[at |-> "load", why |-> configErr]} ELSE {}

Running ==
    /\ page = NoPage /\ result = 1 /\ made = <<>> /\ writes = <<>>
    /\ Shaped(todo, path, mode)
    /\ Tolerated

(* Nothing was read, so there is nothing to answer. *)
Unread == page = NoPage /\ result = -1 /\ made = <<>> /\ writes = <<>> /\ todo = <<>>

(* What the host is asked to bring about, by the request's path and mode. *)
Deeds(p, m) ==
    CASE p \in {"start", "link"}            -> {"flow"}
      [] p = "callback" /\ m = "link"       -> {"link"}
      [] p = "callback" /\ m = "signin"     -> {"signin"}
      [] OTHER                              -> {}

(* The host has done what it was asked, and has said so. *)
Committed ==
    /\ page = NoPage /\ result = 1 /\ writes = <<>> /\ todo = <<"respond">>
    /\ path \in {"start", "link", "callback"}
    /\ \E what \in Deeds(path, mode) : made = <<what>>
    /\ NeededFailures = {}

(* The page that was built is the right one, and is written once. *)
PageIsRight ==
    /\ page \in [status : Statuses, location : {"none", "provider", "dashboard", "linked"},
                 advice : {"none", "fetch", "settings", "storage", "host"}, clears : BOOLEAN]
    /\ page # NoPage
    /\ OnlyNeededStepsFail /\ ToldWhatTheHostDid /\ PageFitsTheFailure

Answering == PageIsRight /\ todo = <<"write">> /\ result = 1 /\ writes = <<>>

Written ==
    /\ PageIsRight /\ todo = <<>> /\ Len(writes) = 1
    /\ result \in {-1, 0} /\ (result = 0 <=> writes[1] = "ok")

(* What reading the settings can end in. *)
ConfigErrors == Refusals \cup {"missing", "words", "none"}

Inductive ==
    /\ path \in Paths \cup {"unread"}
    /\ mode \in Modes \cup {"none"}
    /\ configErr \in ConfigErrors
    /\ Running \/ Committed \/ Unread \/ Answering \/ Written

-----------------------------------------------------------------------------
(* LISTS OF STEPS *)

(* What comes next, put in front of what was left after the first step. *)
LEMMA Splicing ==
    ASSUME NEW t \in Seq(Steps), t # <<>>, NEW s \in Seq(Steps)
    PROVE  /\ Len(t) \in Nat \ {0} /\ Len(s) \in Nat
           /\ Head(t) = t[1]
           /\ s \o Tail(t) \in Seq(Steps)
           /\ Len(s \o Tail(t)) = Len(s) + Len(t) - 1
           /\ \A k \in 1 .. Len(s) : (s \o Tail(t))[k] = s[k]
           /\ \A k \in Len(s) + 1 .. Len(s) + Len(t) - 1 :
                  (s \o Tail(t))[k] = t[k - Len(s) + 1]
<1>1. Len(t) \in Nat \ {0} /\ Len(s) \in Nat /\ Head(t) = t[1]
  BY LenProperties, EmptySeq
<1>2. /\ Tail(t) \in Seq(Steps)
      /\ Len(Tail(t)) = Len(t) - 1
      /\ \A i \in 1 .. Len(Tail(t)) : Tail(t)[i] = t[i + 1]
  BY HeadTailProperties
<1>3. /\ s \o Tail(t) \in Seq(Steps)
      /\ Len(s \o Tail(t)) = Len(s) + Len(Tail(t))
      /\ \A i \in 1 .. Len(s) + Len(Tail(t)) :
            (s \o Tail(t))[i] = IF i <= Len(s) THEN s[i] ELSE Tail(t)[i - Len(s)]
  BY <1>2, ConcatProperties
<1>4. ASSUME NEW k \in Len(s) + 1 .. Len(s) + Len(t) - 1
      PROVE  (s \o Tail(t))[k] = t[k - Len(s) + 1]
  <2>1. k - Len(s) \in 1 .. Len(Tail(t)) /\ k \in 1 .. Len(s) + Len(Tail(t)) /\ ~(k <= Len(s))
    BY <1>1, <1>2
  <2>2. (s \o Tail(t))[k] = Tail(t)[k - Len(s)]
    BY <1>3, <2>1
  <2> QED  BY <1>2, <2>1, <2>2
<1>5. ASSUME NEW k \in 1 .. Len(s)
      PROVE  (s \o Tail(t))[k] = s[k]
  BY <1>1, <1>2, <1>3
<1> QED  BY <1>1, <1>2, <1>3, <1>4, <1>5

(* No end has another end ahead of it. *)
LEMMA EndsAreLast ==
    ASSUME NEW last
    PROVE  Ahead(last) \cap AllEnds = {}
  BY DEF Ahead, AllEnds, Documents, KeySets

LEMMA EndsAmongAll ==
    ASSUME NEW p
    PROVE  Ends(p) \subseteq AllEnds
  BY DEF Ends, AllEnds

(* A step that is no end has its end still ahead. *)
LEMMA NotTheLast ==
    ASSUME NEW t \in Seq(Steps), NEW p, NEW m, Shaped(t, p, m), Head(t) \notin AllEnds
    PROVE  /\ Len(t) \in Nat /\ Len(t) >= 2
           /\ Head(t) = t[1] /\ t[1] \in Ahead(LastOf(t))
<1>1. t \in Seq(Steps) /\ t # <<>> /\ LastOf(t) \in Ends(p)
      /\ \A k \in 1 .. Len(t) - 1 : t[k] \in Ahead(LastOf(t))
  BY DEF Shaped
<1>2. Len(t) \in Nat \ {0} /\ Head(t) = t[1]
  BY <1>1, LenProperties, EmptySeq
<1>3. Len(t) # 1
  BY <1>1, <1>2, EndsAmongAll DEF LastOf
<1>4. \A n \in Nat \ {0} : n # 1 => n \in Nat /\ n >= 2 /\ 1 \in 1 .. n - 1
  OBVIOUS
<1> QED  BY <1>1, <1>2, <1>3, <1>4, Zenon

(* An end has nothing behind it: what comes next is all that is left. *)
LEMMA TheLast ==
    ASSUME NEW t \in Seq(Steps), NEW p, NEW m, Shaped(t, p, m), Head(t) \in AllEnds
    PROVE  /\ Len(t) = 1 /\ LastOf(t) = Head(t) /\ Head(t) \in Ends(p)
           /\ Tail(t) = <<>>
<1>1. t \in Seq(Steps) /\ t # <<>> /\ LastOf(t) \in Ends(p)
      /\ \A k \in 1 .. Len(t) - 1 : t[k] \in Ahead(LastOf(t))
  BY DEF Shaped
<1>2. Len(t) \in Nat \ {0} /\ Head(t) = t[1]
  BY <1>1, LenProperties, EmptySeq
<1>3. Len(t) = 1
  <2>1. SUFFICES ASSUME Len(t) # 1 PROVE FALSE
    OBVIOUS
  <2>2. \A n \in Nat \ {0} : n # 1 => 1 \in 1 .. n - 1
    OBVIOUS
  <2>3. 1 \in 1 .. Len(t) - 1
    BY <1>2, <2>1, <2>2, Zenon
  <2> QED  BY <1>1, <1>2, <2>3, EndsAreLast
<1>4. Tail(t) \in Seq(Steps) /\ Len(Tail(t)) = 0
  BY <1>1, <1>3, HeadTailProperties
<1> QED  BY <1>1, <1>2, <1>3, <1>4, EmptySeq DEF LastOf

(* Where the steps of a list of c are found, of which a were put in front of a list
   of b instead of its first. *)
Spliced(a, b, c) ==
    /\ c \in a + 1 .. c /\ c - a + 1 = b /\ c # 0
    /\ \A k \in 1 .. c - 1 :
         \/ k \in 1 .. a
         \/ /\ k \in a + 1 .. c /\ k + 1 \in a + 1 .. c
            /\ k - a + 1 \in 1 .. b - 1
            /\ (k + 1) - a + 1 = (k - a + 1) + 1
    /\ \A j \in 1 .. b - 1 :
         j # 1 => /\ j + a - 1 \in 1 .. c - 1
                  /\ j + a - 1 \in a + 1 .. c
                  /\ (j + a - 1) - a + 1 = j

LEMMA Positions ==
    \A a, b \in Nat : \A c : b >= 2 /\ c = a + b - 1 => Spliced(a, b, c)
  BY DEF Spliced

(* The step is behind it and others come first: the request is still on its way to
   the same end. *)
LEMMA Onward ==
    ASSUME NEW t \in Seq(Steps), NEW p, NEW m, NEW m2, NEW s \in Seq(Steps),
           Shaped(t, p, m), Head(t) \notin AllEnds,
           \A k \in 1 .. Len(s) : s[k] \in Ahead(LastOf(t)) /\ s[k] # "sweepFlows",
           m2 = "none" => m = "none" /\ Head(t) # "select"
    PROVE  Shaped(s \o Tail(t), p, m2) /\ LastOf(s \o Tail(t)) = LastOf(t)
<1>1. /\ t \in Seq(Steps) /\ t # <<>> /\ LastOf(t) \in Ends(p)
      /\ \A k \in 1 .. Len(t) - 1 : t[k] \in Ahead(LastOf(t))
      /\ \A k \in 1 .. Len(t) - 1 : t[k] = "sweepFlows" => t[k + 1] = "sweepSpent"
      /\ m = "none" /\ LastOf(t) = "assert" => \E k \in 1 .. Len(t) - 1 : t[k] = "select"
  BY DEF Shaped
<1>2. Len(t) \in Nat /\ Len(t) >= 2 /\ Head(t) = t[1]
  BY NotTheLast
<1> DEFINE u == s \o Tail(t)
           a == Len(s)
           b == Len(t)
           c == Len(u)
<1>3. /\ a \in Nat /\ b \in Nat /\ b >= 2
      /\ u \in Seq(Steps)
      /\ c = a + b - 1
      /\ \A k \in 1 .. a : u[k] = s[k]
      /\ \A k \in a + 1 .. a + b - 1 : u[k] = t[k - a + 1]
  BY <1>1, <1>2, Splicing, Zenon
<1>4. /\ \A k \in 1 .. a : s[k] \in Ahead(t[b]) /\ s[k] # "sweepFlows"
      /\ \A k \in 1 .. b - 1 : t[k] \in Ahead(t[b])
      /\ \A k \in 1 .. b - 1 : t[k] = "sweepFlows" => t[k + 1] = "sweepSpent"
      /\ m2 = "none" /\ t[b] = "assert" => \E k \in 1 .. b - 1 : t[k] = "select" /\ k # 1
  BY <1>1, <1>2, Zenon DEF LastOf
<1>5. \A k \in a + 1 .. c : u[k] = t[k - a + 1]
  BY <1>3, Zenon
<1> HIDE DEF u, a, b, c
<1>. Spliced(a, b, c)
  BY <1>3, Positions, Zenon
<1>6. u # <<>> /\ u[c] = t[b]
  <2>1. c \in a + 1 .. c /\ c - a + 1 = b /\ c # 0
    BY Zenon DEF Spliced
  <2>2. u[c] = t[b]
    BY <1>5, <2>1, Zenon
  <2> QED  BY <2>1, <2>2, EmptySeq, Zenon DEF c
<1>7. ASSUME NEW k \in 1 .. c - 1
      PROVE  u[k] \in Ahead(t[b]) /\ (u[k] = "sweepFlows" => u[k + 1] = "sweepSpent")
  <2>1. CASE k \in 1 .. a
    BY <1>3, <1>4, <2>1, Zenon
  <2>2. CASE /\ k \in a + 1 .. c /\ k + 1 \in a + 1 .. c
             /\ k - a + 1 \in 1 .. b - 1
             /\ (k + 1) - a + 1 = (k - a + 1) + 1
    <3>1. u[k] = t[k - a + 1] /\ u[k + 1] = t[(k - a + 1) + 1]
      BY <1>5, <2>2, Zenon
    <3> QED  BY <1>4, <2>2, <3>1, Zenon
  <2>3. \A i \in 1 .. c - 1 :
          \/ i \in 1 .. a
          \/ /\ i \in a + 1 .. c /\ i + 1 \in a + 1 .. c
             /\ i - a + 1 \in 1 .. b - 1
             /\ (i + 1) - a + 1 = (i - a + 1) + 1
    BY Zenon DEF Spliced
  <2> QED  BY <2>1, <2>2, <2>3, Zenon
<1>8. ASSUME m2 = "none", t[b] = "assert"
      PROVE  \E k \in 1 .. c - 1 : u[k] = "select"
  <2>1. PICK j \in 1 .. b - 1 : t[j] = "select" /\ j # 1
    BY <1>4, <1>8
  <2>2. \A i \in 1 .. b - 1 :
          i # 1 => /\ i + a - 1 \in 1 .. c - 1
                   /\ i + a - 1 \in a + 1 .. c
                   /\ (i + a - 1) - a + 1 = i
    BY Zenon DEF Spliced
  <2>3. u[j + a - 1] = "select"
    BY <1>5, <2>1, <2>2, Zenon
  <2> QED  BY <2>1, <2>2, <2>3, Zenon
<1>9. LastOf(u) = t[b] /\ LastOf(t) = t[b]
  BY <1>6 DEF LastOf, b, c
<1>10. Shaped(u, p, m2)
  BY <1>1, <1>3, <1>6, <1>7, <1>8, <1>9, Zenon DEF Shaped, c
<1> QED  BY <1>9, <1>10 DEF u

(* A request is left with an end alone. *)
LEMMA OneStep ==
    ASSUME NEW e \in Steps, NEW p, NEW m, e \in Ends(p), e # "assert"
    PROVE  Shaped(<<e>>, p, m) /\ LastOf(<<e>>) = e
<1>1. <<e>> \in Seq(Steps) /\ <<e>> # <<>> /\ Len(<<e>>) = 1
  OBVIOUS
<1> QED  BY <1>1 DEF Shaped, LastOf

(* The steps of the four lists the code is made of. *)
LEMMA Lists ==
    /\ \A p \in {"index", "start", "link", "callback"}, m \in Modes \cup {"none"} :
         Shaped(LoadSteps, p, m) /\ LastOf(LoadSteps) = "load"
    /\ \A m \in Modes \cup {"none"} :
         Shaped(IndexSteps, "index", m) /\ LastOf(IndexSteps) = "show"
    /\ \A p \in {"start", "link"}, m \in Modes \cup {"none"} :
         Shaped(BeginSteps, p, m) /\ LastOf(BeginSteps) = "saveFlow"
    /\ \A m \in Modes \cup {"none"} :
         Shaped(CallbackSteps, "callback", m) /\ LastOf(CallbackSteps) = "assert"
<1>1. LoadSteps \in Seq(Steps) /\ Len(LoadSteps) = 11 /\ LoadSteps # <<>>
  BY DEF LoadSteps, Steps, AllEnds
<1>2. IndexSteps \in Seq(Steps) /\ Len(IndexSteps) = 2 /\ IndexSteps # <<>>
  BY DEF IndexSteps, Steps, AllEnds, Documents
<1>3. BeginSteps \in Seq(Steps) /\ Len(BeginSteps) = 10 /\ BeginSteps # <<>>
  BY DEF BeginSteps, Steps, AllEnds, Documents, KeySets
<1>4. CallbackSteps \in Seq(Steps) /\ Len(CallbackSteps) = 13 /\ CallbackSteps # <<>>
  BY DEF CallbackSteps, Steps, AllEnds, Documents, KeySets
<1>5. /\ LoadSteps[11] = "load" /\ IndexSteps[2] = "show" /\ BeginSteps[10] = "saveFlow"
      /\ CallbackSteps[13] = "assert"
  BY DEF LoadSteps, IndexSteps, BeginSteps, CallbackSteps
<1>6. /\ LastOf(LoadSteps) = "load" /\ LastOf(IndexSteps) = "show"
      /\ LastOf(BeginSteps) = "saveFlow" /\ LastOf(CallbackSteps) = "assert"
  BY <1>1, <1>2, <1>3, <1>4, <1>5, Zenon DEF LastOf
<1>7. \A k \in 1 .. 11 - 1 :
        LoadSteps[k] \in Ahead("load") /\ LoadSteps[k] # "sweepFlows"
  <2>1. \A k \in 1 .. 11 - 1 : k \in {1, 2, 3, 4, 5, 6, 7, 8, 9, 10}
    OBVIOUS
  <2>2. /\ LoadSteps[1] = "required" /\ LoadSteps[2] = "required"
        /\ LoadSteps[3] = "required" /\ LoadSteps[4] = "required"
        /\ LoadSteps[5] = "optional" /\ LoadSteps[6] = "optional"
        /\ LoadSteps[7] = "optional" /\ LoadSteps[8] = "optional"
        /\ LoadSteps[9] = "optional" /\ LoadSteps[10] = "optional"
    BY DEF LoadSteps
  <2>3. \A k \in {1, 2, 3, 4, 5, 6, 7, 8, 9, 10} :
          LoadSteps[k] \in Ahead("load") /\ LoadSteps[k] # "sweepFlows"
    BY <2>2 DEF Ahead
  <2> QED  BY <2>1, <2>3, Zenon
<1>8. \A k \in 1 .. 2 - 1 :
        IndexSteps[k] \in Ahead("show") /\ IndexSteps[k] # "sweepFlows"
  <2>1. \A k \in 1 .. 2 - 1 : k = 1
    OBVIOUS
  <2>2. IndexSteps[1] \in Ahead("show") /\ IndexSteps[1] # "sweepFlows"
    BY DEF IndexSteps, Ahead, Documents
  <2> QED  BY <2>1, <2>2, Zenon
<1>9. \A k \in 1 .. 10 - 1 :
        /\ BeginSteps[k] \in Ahead("saveFlow")
        /\ BeginSteps[k] = "sweepFlows" => BeginSteps[k + 1] = "sweepSpent"
  <2>1. \A k \in 1 .. 10 - 1 : k \in {1, 2, 3, 4, 5, 6, 7, 8, 9}
    OBVIOUS
  <2>2. /\ BeginSteps[1] = "cachedDiscovery" /\ BeginSteps[2] = "responseMode"
        /\ BeginSteps[3] = "cachedKeys" /\ BeginSteps[4] = "sweepFlows"
        /\ BeginSteps[5] = "sweepSpent" /\ BeginSteps[6] = "random"
        /\ BeginSteps[7] = "random" /\ BeginSteps[8] = "random"
        /\ BeginSteps[9] = "random"
    BY DEF BeginSteps
  <2>3. \A k \in {1, 2, 3, 4, 5, 6, 7, 8, 9} :
          /\ BeginSteps[k] \in Ahead("saveFlow")
          /\ BeginSteps[k] = "sweepFlows" => k = 4
    BY <2>2 DEF Ahead, Documents, KeySets
  <2>4. BeginSteps[4 + 1] = "sweepSpent"
    BY DEF BeginSteps
  <2> QED  BY <2>1, <2>3, <2>4, Zenon
<1>10. \A k \in 1 .. 13 - 1 :
        CallbackSteps[k] \in Ahead("assert") /\ CallbackSteps[k] # "sweepFlows"
  <2>1. \A k \in 1 .. 13 - 1 : k \in {1, 2, 3, 4, 5, 6, 7, 8, 9, 10, 11, 12}
    OBVIOUS
  <2>2. /\ CallbackSteps[1] = "query" /\ CallbackSteps[2] = "claim"
        /\ CallbackSteps[3] = "select" /\ CallbackSteps[4] = "deleteFlow"
        /\ CallbackSteps[5] = "flow" /\ CallbackSteps[6] = "cachedDiscovery"
        /\ CallbackSteps[7] = "redeem" /\ CallbackSteps[8] = "token"
        /\ CallbackSteps[9] = "time" /\ CallbackSteps[10] = "cachedKeys"
        /\ CallbackSteps[11] = "verify" /\ CallbackSteps[12] = "email"
    BY DEF CallbackSteps
  <2>3. \A k \in {1, 2, 3, 4, 5, 6, 7, 8, 9, 10, 11, 12} :
          CallbackSteps[k] \in Ahead("assert") /\ CallbackSteps[k] # "sweepFlows"
    BY <2>2 DEF Ahead, Documents, KeySets
  <2> QED  BY <2>1, <2>3, Zenon
<1>11. 3 \in 1 .. 13 - 1 /\ CallbackSteps[3] = "select"
  BY DEF CallbackSteps
<1> QED
  BY <1>1, <1>2, <1>3, <1>4, <1>6, <1>7, <1>8, <1>9, <1>10, <1>11 DEF Shaped, Ends

-----------------------------------------------------------------------------
(* WHERE A REQUEST IS *)

(* With anything but the answer to write, the request is under way. *)
LEMMA UnderWay ==
    ASSUME Inductive, todo # <<>>, Head(todo) \notin {"write", "respond"}
    PROVE  Running
<1>1. ~Unread /\ ~Written
  BY DEF Unread, Written
<1>2. Head(<<"write">>) = "write" /\ Head(<<"respond">>) = "respond"
  OBVIOUS
<1> QED  BY <1>1, <1>2 DEF Inductive, Answering, Committed

(* A step that is no end is refused, if at all, where nothing that is needed was. *)
LEMMA OnTheWay ==
    ASSUME Inductive, Running, Head(todo) \notin AllEnds
    PROVE  /\ NeededFailures = {}
           /\ todo \in Seq(Steps) /\ LastOf(todo) # "who"
           /\ Head(todo) \in Ahead(LastOf(todo)) /\ LastOf(todo) \in Ends(path)
           /\ path \in Paths \ {"elsewhere"}
<1>1. /\ todo \in Seq(Steps) /\ Shaped(todo, path, mode) /\ LastOf(todo) \in Ends(path)
  BY DEF Running, Shaped
<1>2. Head(todo) \in Ahead(LastOf(todo))
  BY <1>1, NotTheLast
<1>3. LastOf(todo) \notin {"who", "read"}
  BY <1>2 DEF Ahead
<1>4. NeededFailures = {}
  BY <1>3 DEF Running, Tolerated
<1>5. path \in Paths \ {"elsewhere"}
  BY <1>1, <1>3 DEF Inductive, Ends, Paths
<1> QED  BY <1>1, <1>2, <1>3, <1>4, <1>5

LEMMA AtTheEnd ==
    ASSUME Inductive, Running, Head(todo) \in AllEnds
    PROVE  /\ todo # <<>> /\ Tail(todo) = <<>>
           /\ LastOf(todo) = Head(todo) /\ Head(todo) \in Ends(path)
           /\ Head(todo) = "assert" => mode \in Modes
<1>1. /\ todo \in Seq(Steps) /\ todo # <<>> /\ Shaped(todo, path, mode)
  BY DEF Running, Shaped
<1>2. /\ Len(todo) = 1 /\ LastOf(todo) = Head(todo) /\ Head(todo) \in Ends(path)
      /\ Tail(todo) = <<>>
  BY <1>1, TheLast
<1>3. ASSUME Head(todo) = "assert" PROVE mode \in Modes
  <2>1. mode = "none" => \E k \in 1 .. Len(todo) - 1 : todo[k] = "select"
    BY <1>1, <1>2, <1>3 DEF Shaped
  <2>2. \A k \in 1 .. 1 - 1 : FALSE
    OBVIOUS
  <2>3. mode # "none"
    BY <1>2, <2>1, <2>2, Zenon
  <2> QED  BY <2>3 DEF Inductive
<1> QED  BY <1>1, <1>2, <1>3

-----------------------------------------------------------------------------
(* WHAT IS REFUSED *)

(* Refused, what the request does without counts for nothing. *)
LEMMA Tolerable ==
    ASSUME NEW step \in BestEffort, NEW why, Refused(step, why)
    PROVE  NeededFailures' = NeededFailures
  BY DEF Refused, NeededFailures

LEMMA NothingRefused ==
    ASSUME UNCHANGED failed
    PROVE  NeededFailures' = NeededFailures
  BY DEF NeededFailures

LEMMA NeededRefused ==
    ASSUME NEW step, step \notin BestEffort, NEW why, Refused(step, why)
    PROVE  NeededFailures' = NeededFailures \cup {[at |-> step, why |-> why]}
  BY DEF Refused, NeededFailures

(* A page that tells of nothing the host did. *)
LEMMA NothingToTell ==
    ASSUME made' = <<>>, page'.location = "none"
    PROVE  ToldWhatTheHostDid'
  BY DEF ToldWhatTheHostDid

(* The page of a step that failed tells of what that very step has made, if anything. *)
LEMMA NothingMoreToTell ==
    ASSUME NEW step, NEW e, Fail(step, e), NEW what,
           \/ made' = <<>>
           \/ /\ made' = <<what>> /\ step \in FailedAfter(what)
              /\ what # "flow" => path = "callback"
    PROVE  ToldWhatTheHostDid'
<1>1. page' = PageOf(e, path)
  BY DEF Fail, Answer
<1>2. page'.location = "none" /\ page'.clears = (path = "callback")
  BY <1>1 DEF PageOf, failure
<1>3. CASE made' = <<>>
  BY <1>2, <1>3, NothingToTell
<1>4. CASE /\ made' = <<what>> /\ step \in FailedAfter(what)
           /\ what # "flow" => path = "callback"
  <2>1. [at |-> step, why |-> e] \in failed' /\ [at |-> step, why |-> e].at = step
    BY DEF Fail, Refused
  <2>2. /\ Len(made') = 1 /\ made'[1] = what /\ made' # <<>>
        /\ made' # <<"flow">> => what # "flow"
    BY <1>4
  <2>3. \E f \in failed' : f.at \in FailedAfter(made'[1])
    BY <1>4, <2>1, <2>2
  <2>4. made' # <<"flow">> => page'.clears
    BY <1>2, <1>4, <2>2
  <2> QED  BY <1>2, <2>2, <2>3, <2>4 DEF ToldWhatTheHostDid
<1> QED  BY <1>3, <1>4

(* failure tells the kinds of error apart, by the status and by the advice. *)
LEMMA KindsOfError ==
    ASSUME NEW e \in Errors
    PROVE  /\ StatusOf(e) \in {400, 404, 500, 502, 503}
           /\ StatusOf(e) = 503 => e = "missing"
           /\ StatusOf(e) = 502 => e \in FetchErrors
           /\ StatusOf(e) = 404 => e = "path"
           /\ StatusOf(e) = 500 => e = "internal"
           /\ StatusOf(e) = 400 => e \notin FetchErrors \cup {"missing", "internal"}
           /\ explain(e) \in {"none", "fetch", "settings", "storage", "host"}
           /\ explain(e) = "fetch" <=> e \in Advised
           /\ e = "denied" => explain(e) = "storage"
<1>1. CASE e \in FetchErrors
  <2>1. StatusOf(e) = 502
    BY <1>1 DEF StatusOf, FetchErrors, Advised
  <2>2. explain(e) = IF e \in Advised THEN "fetch" ELSE "none"
    BY <1>1 DEF explain, FetchErrors, Advised
  <2> QED  BY <1>1, <2>1, <2>2 DEF FetchErrors, Advised
<1>2. CASE e \in Refusals
  BY <1>2 DEF StatusOf, explain, Refusals, FetchErrors, Advised
<1>3. CASE e \in {"missing", "path", "words"}
  BY <1>3 DEF StatusOf, explain, FetchErrors, Advised
<1> QED  BY <1>1, <1>2, <1>3 DEF Errors

(* The page of the one error that the request ends in. *)
LEMMA PageOfTheError ==
    ASSUME NEW step, step \notin BestEffort, NEW e \in Errors, NEW p \in Paths,
           p = path', p = "index" => step = "fetchDiscovery",
           NeededFailures' = {[at |-> step, why |-> e]},
           page' = PageOf(e, p), ToldWhatTheHostDid'
    PROVE  PageIsRight'
<1> DEFINE f == [at |-> step, why |-> e]
<1>1. page' = [status   |-> IF p = "index" THEN 502 ELSE StatusOf(e),
               location |-> "none",
               advice   |-> explain(e),
               clears   |-> p = "callback"]
  BY DEF PageOf, failure
<1>2. /\ page'.location = "none" /\ page'.advice = explain(e)
      /\ page'.status = IF p = "index" THEN 502 ELSE StatusOf(e)
  BY <1>1
<1>3. /\ StatusOf(e) \in {400, 404, 500, 502, 503}
      /\ StatusOf(e) = 503 => e = "missing"
      /\ StatusOf(e) = 502 => e \in FetchErrors
      /\ StatusOf(e) = 404 => e = "path"
      /\ StatusOf(e) = 500 => e = "internal"
      /\ StatusOf(e) = 400 => e \notin FetchErrors \cup {"missing", "internal"}
      /\ explain(e) \in {"none", "fetch", "settings", "storage", "host"}
      /\ explain(e) = "fetch" <=> e \in Advised
      /\ e = "denied" => explain(e) = "storage"
  BY KindsOfError
<1>4. page' \in [status : Statuses, location : {"none", "provider", "dashboard", "linked"},
                 advice : {"none", "fetch", "settings", "storage", "host"},
                 clears : BOOLEAN]
  <2>1. (IF p = "index" THEN 502 ELSE StatusOf(e)) \in Statuses
    BY <1>3 DEF Statuses
  <2>2. (p = "callback") \in BOOLEAN
    OBVIOUS
  <2> QED  BY <1>1, <1>3, <2>1, <2>2
<1>5. page' # NoPage
  <2>1. page'.status # 0
    BY <1>2, <1>3
  <2>2. NoPage.status = 0
    BY DEF NoPage
  <2> QED  BY <2>1, <2>2, Zenon
<1>6. f.at = step /\ f.why = e /\ f \in NeededFailures' /\ \A g \in NeededFailures' : g = f
  OBVIOUS
<1>7. OnlyNeededStepsFail'
  BY <1>6, Zenon DEF OnlyNeededStepsFail
<1> HIDE DEF f
<1>8. PageFitsTheFailure'
  <2>1. ASSUME page'.status \in {404, 500, 502, 503}
        PROVE  CASE page'.status = 404 -> f.why = "path"
                 [] page'.status = 500 -> f.why = "internal" \/ (path' = "index" /\ f.at = "who")
                 [] page'.status = 502 -> f.why \in FetchErrors
                                         \/ (path' = "index" /\ f.at = "fetchDiscovery")
                 [] page'.status = 503 -> f.why = "missing" \/ (path' = "index" /\ f.at = "load")
    <3>1. CASE p = "index"
      BY <1>2, <1>6, <3>1
    <3>2. CASE p # "index"
      <4>1. page'.status = StatusOf(e)
        BY <1>2, <3>2
      <4>2. /\ page'.status = 404 => f.why = "path"
            /\ page'.status = 500 => f.why = "internal"
            /\ page'.status = 502 => f.why \in FetchErrors
            /\ page'.status = 503 => f.why = "missing"
        BY <1>3, <1>6, <4>1
      <4>3. CASE page'.status = 404
        BY <4>2, <4>3
      <4>4. CASE page'.status = 500
        BY <4>2, <4>4
      <4>5. CASE page'.status = 502
        BY <4>2, <4>5
      <4>6. CASE page'.status = 503
        BY <4>2, <4>6
      <4> QED  BY <2>1, <4>3, <4>4, <4>5, <4>6
    <3> QED  BY <3>1, <3>2
  <2>2. page'.status = 400 => e \notin FetchErrors \cup {"missing", "internal"}
    BY <1>2, <1>3
  <2>3. /\ e \in Advised => page'.advice = "fetch"
        /\ e = "denied" => page'.advice = "storage"
        /\ page'.advice = "fetch" => e \in Advised
    <3>1. page'.advice = explain(e)
      BY <1>2
    <3> QED  BY <1>3, <3>1
  <2>4. \A g \in NeededFailures' : g.why = e
    BY <1>6, Zenon
  <2>5. page'.status \in {404, 500, 502, 503} =>
           \E g \in NeededFailures' :
             CASE page'.status = 404 -> g.why = "path"
               [] page'.status = 500 -> g.why = "internal" \/ (path' = "index" /\ g.at = "who")
               [] page'.status = 502 -> g.why \in FetchErrors
                                       \/ (path' = "index" /\ g.at = "fetchDiscovery")
               [] page'.status = 503 -> g.why = "missing" \/ (path' = "index" /\ g.at = "load")
    BY <1>6, <2>1, Zenon
  <2>6. page'.status = 400 =>
           \A g \in NeededFailures' \ [at : {"claim"}, why : Refusals] :
             g.why \notin FetchErrors \cup {"missing", "internal"}
    BY <2>2, <2>4
  <2>7. /\ \A g \in NeededFailures' :
             /\ g.why \in Advised => page'.advice = "fetch"
             /\ g.why = "denied" /\ g.at \in {"select", "saveFlow"} => page'.advice = "storage"
        /\ page'.advice = "fetch" => \E g \in NeededFailures' : g.why \in Advised
    BY <1>6, <2>3, <2>4, Zenon
  <2> QED  BY <2>5, <2>6, <2>7, Zenon DEF PageFitsTheFailure
<1> QED  BY <1>4, <1>5, <1>7, <1>8 DEF PageIsRight

-----------------------------------------------------------------------------
(* THE WAYS A STEP CAN GO *)

(* It goes on: the request stays under way. *)
LEMMA GoesOn ==
    ASSUME Running, Shaped(todo', path', mode'), Tolerated',
           path' \in Paths, mode' \in Modes \cup {"none"}, configErr' \in ConfigErrors,
           UNCHANGED <<page, result, writes, made>>
    PROVE  Inductive'
<1>1. page' = NoPage /\ result' = 1 /\ made' = <<>> /\ writes' = <<>>
  BY DEF Running
<1>2. Running'
  BY <1>1 DEF Running
<1> QED  BY <1>2 DEF Inductive

(* A step on the way is followed by the steps given. *)
LEMMA IsFollowed ==
    ASSUME Inductive, Running, Head(todo) \notin AllEnds,
           NEW s \in Seq(Steps), Then(s), NeededFailures' = {},
           \A k \in 1 .. Len(s) : s[k] \in Ahead(LastOf(todo)) /\ s[k] # "sweepFlows",
           mode' \in Modes \cup {"none"},
           mode' = "none" => mode = "none" /\ Head(todo) # "select",
           configErr' \in ConfigErrors,
           UNCHANGED <<path, result, writes, made>>
    PROVE  Inductive'
<1>1. /\ todo \in Seq(Steps) /\ LastOf(todo) # "who" /\ path \in Paths
      /\ Shaped(todo, path, mode)
  BY OnTheWay DEF Running
<1>2. todo' = s \o Tail(todo) /\ page' = page
  BY DEF Then
<1>3. Shaped(s \o Tail(todo), path, mode') /\ LastOf(s \o Tail(todo)) = LastOf(todo)
  BY <1>1, Onward
<1>4. Shaped(todo', path', mode') /\ LastOf(todo') # "who"
  BY <1>1, <1>2, <1>3
<1>5. Tolerated'
  <2>1. LastOf(todo)' # "who"
    BY <1>4 DEF LastOf
  <2> QED  BY <2>1 DEF Tolerated
<1> QED  BY <1>1, <1>2, <1>4, <1>5, GoesOn

(* A step on the way is done, and that is all. *)
LEMMA IsDone ==
    ASSUME Inductive, Running, Head(todo) \notin AllEnds, Head(todo) # "select",
           Then(<<>>), NeededFailures' = {}, configErr' \in ConfigErrors,
           UNCHANGED <<path, mode, result, writes, made>>
    PROVE  Inductive'
<1>1. <<>> \in Seq(Steps) /\ Len(<<>>) = 0
  BY EmptySeq
<1>2. \A k \in 1 .. 0 : FALSE
  OBVIOUS
<1>3. \A k \in 1 .. Len(<<>>) :
         <<>>[k] \in Ahead(LastOf(todo)) /\ <<>>[k] # "sweepFlows"
  BY <1>1, <1>2, Zenon
<1>4. /\ mode' \in Modes \cup {"none"}
      /\ mode' = "none" => mode = "none" /\ Head(todo) # "select"
  BY DEF Inductive
<1> QED  BY <1>1, <1>3, <1>4, IsFollowed

(* The answer is built. *)
LEMMA IsAnswered ==
    ASSUME Inductive, Running \/ Committed, PageIsRight', todo' = <<"write">>,
           path' \in Paths, mode' \in Modes \cup {"none"}, configErr' \in ConfigErrors,
           UNCHANGED <<result, writes>>
    PROVE  Inductive'
<1>1. Answering'
  BY DEF Answering, Running, Committed
<1> QED  BY <1>1 DEF Inductive

(* A step that is needed fails, and nothing that is needed failed before it. *)
LEMMA IsTold ==
    ASSUME Inductive, Running \/ Committed, NeededFailures = {}, path \in Paths,
           NEW step, step \notin BestEffort, NEW e \in Errors,
           path = "index" => step = "fetchDiscovery",
           Fail(step, e), ToldWhatTheHostDid', configErr' \in ConfigErrors,
           UNCHANGED <<path, mode, result, writes>>
    PROVE  Inductive'
<1>1. NeededFailures' = {[at |-> step, why |-> e]}
  BY NeededRefused DEF Fail
<1>2. page' = PageOf(e, path) /\ todo' = <<"write">> /\ path' = path
  BY DEF Fail, Answer
<1>3. PageIsRight'
  BY <1>1, <1>2, PageOfTheError
<1>4. mode' \in Modes \cup {"none"}
  BY DEF Inductive
<1> QED  BY <1>2, <1>3, <1>4, IsAnswered

(* It fails, and the host has made nothing. *)
LEMMA IsFailed ==
    ASSUME Inductive, Running, NeededFailures = {}, path \in Paths,
           NEW step, step \notin BestEffort, NEW e \in Errors,
           path = "index" => step = "fetchDiscovery",
           Fail(step, e), configErr' \in ConfigErrors,
           UNCHANGED <<path, mode, result, writes, made>>
    PROVE  Inductive'
<1>1. made' = <<>>
  BY DEF Running
<1>2. ToldWhatTheHostDid'
  BY <1>1, NothingMoreToTell
<1> QED  BY <1>2, IsTold

(* A step on the way fails. *)
LEMMA FailsOnTheWay ==
    ASSUME Inductive, Running, Head(todo) \notin AllEnds, Head(todo) \notin BestEffort,
           NEW e \in Errors,
           Head(todo) \notin {"required", "optional"},
           Fail(Head(todo), e),
           UNCHANGED <<path, configErr, mode, result, writes, made>>
    PROVE  Inductive'
<1>1. /\ NeededFailures = {} /\ path \in Paths
      /\ Head(todo) \in Ahead(LastOf(todo)) /\ LastOf(todo) \in Ends(path)
  BY OnTheWay
<1>2. ASSUME path = "index" PROVE Head(todo) = "fetchDiscovery"
  BY <1>1, <1>2 DEF Ends, Ahead, Documents, BestEffort
<1>3. configErr' \in ConfigErrors
  BY DEF Inductive
<1> QED  BY <1>1, <1>2, <1>3, IsFailed

(* An end is followed by the steps given, and nothing else. *)
LEMMA IsReplaced ==
    ASSUME Inductive, Running, Head(todo) \in AllEnds, NEW s \in Seq(Steps), Then(s)
    PROVE  todo' = s /\ page' = page
<1>1. Tail(todo) = <<>>
  BY AtTheEnd
<1> QED  BY <1>1, ConcatEmptySeq DEF Then

-----------------------------------------------------------------------------
(* READING, SETTINGS, SESSION *)

LEMMA ReadInductive ==
    ASSUME Inductive, Read
    PROVE  Inductive'
<1>1. todo # <<>> /\ Head(todo) = "read"
  BY DEF Read, At
<1>2. Running
  BY <1>1, UnderWay
<1>3. path = "unread" /\ LastOf(todo) = "read" /\ Head(todo) \in AllEnds
  BY <1>1, <1>2, AtTheEnd DEF AllEnds, Ends
<1>4. NeededFailures = {}
  BY <1>2, <1>3 DEF Running, Tolerated
<1>5. /\ configErr' \in ConfigErrors /\ mode' \in Modes \cup {"none"}
      /\ mode' = mode
      /\ UNCHANGED <<writes, made>>
  BY DEF Inductive, Read
<1>6. CASE Refused("read", "words") /\ result' = -1 /\ todo' = <<>> /\ UNCHANGED <<path, page>>
  <2>1. Unread'
    BY <1>2, <1>5, <1>6 DEF Unread, Running
  <2>2. path' \in Paths \cup {"unread"}
    BY <1>3, <1>6
  <2> QED  BY <1>5, <2>1, <2>2 DEF Inductive
<1>7. ASSUME /\ path' = "elsewhere" /\ Refused("read", "path")
             /\ Answer(failure("path", path')) /\ UNCHANGED result
      PROVE  Inductive'
  <2>1. "read" \notin BestEffort /\ "path" \in Errors /\ path' \in Paths
    BY <1>7 DEF BestEffort, Errors, Paths
  <2>2. NeededFailures' = {[at |-> "read", why |-> "path"]}
    BY <1>4, <1>7, <2>1, NeededRefused
  <2>3. page' = PageOf("path", path') /\ todo' = <<"write">> /\ made' = <<>>
    BY <1>2, <1>5, <1>7 DEF Answer, PageOf, Running
  <2>4. path' # "index"
    BY <1>7
  <2>5. page'.location = "none"
    BY <1>7 DEF Answer, failure
  <2>6. PageIsRight'
    BY <2>1, <2>2, <2>3, <2>4, <2>5, NothingToTell, PageOfTheError
  <2> QED  BY <1>2, <1>5, <1>7, <2>1, <2>3, <2>6, IsAnswered
<1>8. ASSUME /\ path' \in Paths \ {"elsewhere"} /\ Then(LoadSteps) /\ UNCHANGED <<failed, result>>
      PROVE  Inductive'
  <2>1. path' \in {"index", "start", "link", "callback"} /\ path' \in Paths
    BY <1>8 DEF Paths
  <2>2. LoadSteps \in Seq(Steps) /\ Shaped(LoadSteps, path', mode') /\ LastOf(LoadSteps) = "load"
    BY <1>5, <2>1, Lists DEF Shaped
  <2>3. todo' = LoadSteps /\ page' = page
    BY <1>2, <1>3, <1>8, <2>2, IsReplaced
  <2>4. NeededFailures' = {}
    BY <1>4, <1>8, NothingRefused
  <2>5. LastOf(todo)' # "who"
    BY <2>2, <2>3 DEF LastOf
  <2>6. Tolerated'
    BY <2>4, <2>5 DEF Tolerated
  <2>7. Shaped(todo', path', mode')
    BY <2>2, <2>3
  <2> QED  BY <1>2, <1>5, <1>8, <2>1, <2>3, <2>6, <2>7, GoesOn
<1>9. \/ Refused("read", "words") /\ result' = -1 /\ todo' = <<>> /\ UNCHANGED <<path, page>>
      \/ /\ path' = "elsewhere" /\ Refused("read", "path")
         /\ Answer(failure("path", path')) /\ UNCHANGED result
      \/ /\ path' \in Paths \ {"elsewhere"} /\ Then(LoadSteps) /\ UNCHANGED <<failed, result>>
  BY DEF Read
<1> QED  BY <1>6, <1>7, <1>8, <1>9

LEMMA SettingInductive ==
    ASSUME Inductive, Setting
    PROVE  Inductive'
<1>1. /\ todo # <<>> /\ Head(todo) \in {"required", "optional"}
      /\ UNCHANGED <<path, mode, result, writes, failed, made>>
      /\ Then(<<>>) \/ (todo' = <<"load">> /\ UNCHANGED page)
  BY DEF Setting, At
<1>2. configErr' \in ConfigErrors
  BY DEF Setting, Inductive, ConfigErrors
<1>3. Running /\ Head(todo) \notin AllEnds /\ Head(todo) # "select"
  BY <1>1, UnderWay DEF AllEnds
<1>4. /\ NeededFailures = {} /\ path \in Paths
      /\ Head(todo) \in Ahead(LastOf(todo)) /\ LastOf(todo) \in Ends(path)
  BY <1>3, OnTheWay
<1>5. NeededFailures' = {}
  BY <1>1, <1>4, NothingRefused
<1>6. CASE Then(<<>>)
  BY <1>1, <1>2, <1>3, <1>5, <1>6, IsDone
<1>7. CASE todo' = <<"load">> /\ UNCHANGED page
  <2>1. LastOf(todo) = "load"
    BY <1>1, <1>4 DEF Ahead, Documents, KeySets
  <2>2. "load" \in Ends(path') /\ "load" \in Steps
    BY <1>1, <1>4, <2>1 DEF Steps, AllEnds
  <2>3. Shaped(<<"load">>, path', mode') /\ LastOf(<<"load">>) = "load"
    BY <2>2, OneStep
  <2>4. LastOf(todo)' # "who" /\ Shaped(todo', path', mode')
    BY <1>7, <2>3 DEF LastOf
  <2>5. Tolerated'
    BY <1>5, <2>4 DEF Tolerated
  <2>6. path' \in Paths /\ mode' \in Modes \cup {"none"}
    BY <1>1, <1>4 DEF Inductive
  <2> QED  BY <1>1, <1>2, <1>3, <1>7, <2>4, <2>5, <2>6, GoesOn
<1> QED  BY <1>1, <1>6, <1>7

LEMMA LoadConfigInductive ==
    ASSUME Inductive, LoadConfig
    PROVE  Inductive'
<1>1. /\ todo # <<>> /\ Head(todo) = "load"
      /\ UNCHANGED <<path, mode, result, writes, made>>
      /\ \/ configErr' = "none" /\ Then(RouteSteps(path)) /\ UNCHANGED failed
         \/ /\ configErr' # "none" /\ path = "index"
            /\ Then(RouteSteps(path)) /\ Refused("load", configErr')
         \/ configErr' # "none" /\ path # "index" /\ Fail("load", configErr')
  BY DEF LoadConfig, At
<1>2. configErr' \in ConfigErrors /\ mode' \in Modes \cup {"none"}
  BY DEF LoadConfig, Inductive, ConfigErrors
<1>3. Running /\ Head(todo) \in AllEnds
  BY <1>1, UnderWay DEF AllEnds
<1>4. LastOf(todo) = "load" /\ "load" \in Ends(path)
  BY <1>1, <1>3, AtTheEnd
<1>5. NeededFailures = {} /\ path \in {"index", "start", "link", "callback"} /\ path \in Paths
  BY <1>3, <1>4 DEF Running, Tolerated, Inductive, Ends, Paths
<1>6. ASSUME Then(RouteSteps(path)),
             NeededFailures' = IF path = "index" /\ configErr' # "none"
                               THEN {[at |-> "load", why |-> configErr']} ELSE {}
      PROVE  Inductive'
  <2>1. /\ RouteSteps(path) \in Seq(Steps) /\ Shaped(RouteSteps(path), path, mode')
        /\ LastOf(RouteSteps(path)) = IF path = "callback" THEN "assert" ELSE "who"
    <3>1. CASE path = "callback"
      BY <1>2, <3>1, Lists DEF RouteSteps, Shaped
    <3>2. CASE path # "callback"
      <4>1. "who" \in Steps /\ "who" \in Ends(path)
        BY <1>5, <3>2 DEF Steps, AllEnds, Ends
      <4> QED  BY <3>2, <4>1, OneStep DEF RouteSteps, Shaped
    <3> QED  BY <3>1, <3>2
  <2>2. todo' = RouteSteps(path) /\ page' = page
    BY <1>3, <1>6, <2>1, IsReplaced
  <2>3. LastOf(todo)' = "who" \/ path' # "index"
    BY <1>1, <2>1, <2>2 DEF LastOf
  <2>4. Tolerated'
    <3>1. CASE path = "index"
      BY <1>1, <1>6, <2>3, <3>1 DEF Tolerated
    <3>2. CASE path # "index"
      BY <1>1, <1>6, <3>2 DEF Tolerated
    <3> QED  BY <3>1, <3>2
  <2>5. Shaped(todo', path', mode')
    BY <1>1, <2>1, <2>2
  <2> QED  BY <1>1, <1>2, <1>3, <1>5, <2>2, <2>4, <2>5, GoesOn
<1>7. CASE configErr' = "none" /\ Then(RouteSteps(path)) /\ UNCHANGED failed
  <2>1. NeededFailures' = {}
    BY <1>5, <1>7, NothingRefused
  <2> QED  BY <1>6, <1>7, <2>1
<1>8. CASE /\ configErr' # "none" /\ path = "index"
           /\ Then(RouteSteps(path)) /\ Refused("load", configErr')
  <2>1. "load" \notin BestEffort
    BY DEF BestEffort
  <2>2. NeededFailures' = {[at |-> "load", why |-> configErr']}
    BY <1>5, <1>8, <2>1, NeededRefused
  <2> QED  BY <1>6, <1>8, <2>2
<1>9. CASE configErr' # "none" /\ path # "index" /\ Fail("load", configErr')
  <2>1. "load" \notin BestEffort /\ configErr' \in Errors
    BY <1>2, <1>9 DEF BestEffort, ConfigErrors, Errors
  <2> QED  BY <1>1, <1>2, <1>3, <1>5, <1>9, <2>1, IsFailed
<1> QED  BY <1>1, <1>7, <1>8, <1>9

(* The pages of the index, where nobody is told of anything but the two parts that
   may have failed: the settings and the session. *)
LEMMA PagesOfTheIndex ==
    ASSUME path' = "index", made' = <<>>,
           NEW status \in {200, 500, 503}, NEW advice \in {"none", "settings"},
           page' = [status |-> status, location |-> "none", advice |-> advice, clears |-> FALSE],
           \A f \in NeededFailures' :
              f.why \notin Advised /\ f.at \notin {"select", "saveFlow"},
           status = 500 => \E f \in NeededFailures' : f.at = "who",
           status = 503 => \E f \in NeededFailures' : f.at = "load"
    PROVE  PageIsRight'
<1>1. /\ page'.status = status /\ page'.location = "none" /\ page'.advice = advice
  OBVIOUS
<1>2. page' \in [status : Statuses, location : {"none", "provider", "dashboard", "linked"},
                 advice : {"none", "fetch", "settings", "storage", "host"},
                 clears : BOOLEAN]
  BY DEF Statuses
<1>3. page' # NoPage
  BY <1>1 DEF NoPage
<1>4. OnlyNeededStepsFail'
  <2>1. CASE status = 200
    BY <1>1, <2>1 DEF OnlyNeededStepsFail
  <2>2. CASE status # 200
    <3>1. NeededFailures' # {}
      BY <2>2
    <3> QED  BY <3>1, Zenon DEF OnlyNeededStepsFail
  <2> QED  BY <2>1, <2>2
<1>5. PageFitsTheFailure'
  <2>1. CASE status = 200
    BY <1>1, <2>1 DEF PageFitsTheFailure
  <2>2. CASE status = 500
    BY <1>1, <2>2 DEF PageFitsTheFailure
  <2>3. CASE status = 503
    BY <1>1, <2>3 DEF PageFitsTheFailure
  <2> QED  BY <2>1, <2>2, <2>3
<1> QED  BY <1>1, <1>2, <1>3, <1>4, <1>5, NothingToTell DEF PageIsRight

LEMMA PlainPage ==
    ASSUME NEW status
    PROVE  Page("none", status) =
             [status |-> status, location |-> "none", advice |-> "none", clears |-> FALSE]
<1>1. ("none" \in {"dashboard", "linked"}) = FALSE
  OBVIOUS
<1> QED  BY <1>1, Zenon DEF Page

LEMMA WhoAmIInductive ==
    ASSUME Inductive, WhoAmI
    PROVE  Inductive'
<1>1. /\ todo # <<>> /\ Head(todo) = "who"
      /\ UNCHANGED <<path, configErr, mode, result, writes, made>>
  BY DEF WhoAmI, At
<1>2. configErr' \in ConfigErrors /\ mode' \in Modes \cup {"none"}
  BY <1>1 DEF Inductive
<1>3. Running /\ Head(todo) \in AllEnds
  BY <1>1, UnderWay DEF AllEnds
<1>4. LastOf(todo) = "who" /\ "who" \in Ends(path)
  BY <1>1, <1>3, AtTheEnd
<1>5. path \in {"index", "start", "link"} /\ path \in Paths
  BY <1>4 DEF Inductive, Ends, Paths
<1>6. NeededFailures = IF path = "index" /\ configErr # "none"
                       THEN {[at |-> "load", why |-> configErr]} ELSE {}
  BY <1>3, <1>4 DEF Running, Tolerated
<1>7. \A f \in NeededFailures :
         f.why \notin Advised /\ f.at \notin {"select", "saveFlow"}
  <2>1. configErr \notin Advised
    BY DEF Inductive, ConfigErrors, Refusals, Advised
  <2> QED  BY <1>6, <2>1
<1>8. made' = <<>>
  BY <1>1, <1>3 DEF Running
<1>9. ASSUME PageIsRight', todo' = <<"write">>
      PROVE  Inductive'
  BY <1>1, <1>2, <1>3, <1>5, <1>9, IsAnswered
<1>10. ASSUME path = "index", NEW e \in Refusals \cup {"words"},
              Refused("who", e), Answer(Page("none", 500))
       PROVE  Inductive'
  <2>1. "who" \notin BestEffort
    BY DEF BestEffort
  <2>2. NeededFailures' = NeededFailures \cup {[at |-> "who", why |-> e]}
    BY <1>10, <2>1, NeededRefused
  <2>3. e \notin Advised
    BY DEF Refusals, Advised
  <2>4. /\ \A f \in NeededFailures' :
              f.why \notin Advised /\ f.at \notin {"select", "saveFlow"}
        /\ \E f \in NeededFailures' : f.at = "who"
    <3> DEFINE g == [at |-> "who", why |-> e]
    <3>1. g.at = "who" /\ g.why = e
      OBVIOUS
    <3>2. g \in NeededFailures' /\ \A f \in NeededFailures' : f \in NeededFailures \/ f = g
      BY <2>2
    <3> HIDE DEF g
    <3>3. g.at \notin {"select", "saveFlow"}
      BY <3>1
    <3> QED  BY <1>7, <2>3, <3>1, <3>2, <3>3, Zenon
  <2>5. /\ page' = [status |-> 500, location |-> "none", advice |-> "none", clears |-> FALSE]
        /\ todo' = <<"write">>
    BY <1>10, PlainPage, Zenon DEF Answer
  <2>6. PageIsRight'
    BY <1>1, <1>8, <1>10, <2>4, <2>5, PagesOfTheIndex
  <2> QED  BY <1>9, <2>5, <2>6
<1>11. ASSUME path # "index", NEW e \in Refusals \cup {"words"}, Fail("who", e)
       PROVE  Inductive'
  <2>1. "who" \notin BestEffort /\ e \in Errors
    BY DEF BestEffort, Errors
  <2>2. NeededFailures = {}
    BY <1>6, <1>11
  <2> QED  BY <1>1, <1>2, <1>3, <1>5, <1>11, <2>1, <2>2, IsFailed
<1>12. ASSUME path = "index", Answer(Page("none", 200)), UNCHANGED failed
       PROVE  Inductive'
  <2>1. \A f \in NeededFailures' :
           f.why \notin Advised /\ f.at \notin {"select", "saveFlow"}
    BY <1>7, <1>12, NothingRefused
  <2>2. /\ page' = [status |-> 200, location |-> "none", advice |-> "none", clears |-> FALSE]
        /\ todo' = <<"write">>
    BY <1>12, PlainPage, Zenon DEF Answer
  <2>3. PageIsRight'
    BY <1>1, <1>8, <1>12, <2>1, <2>2, PagesOfTheIndex
  <2> QED  BY <1>9, <2>2, <2>3
<1>13. ASSUME path = "index", configErr # "none", UNCHANGED failed,
              Answer([Page("none", 503) EXCEPT !.advice = "settings"])
       PROVE  Inductive'
  <2>1. NeededFailures' = NeededFailures
    BY <1>13, NothingRefused
  <2>2. /\ \A f \in NeededFailures' :
              f.why \notin Advised /\ f.at \notin {"select", "saveFlow"}
        /\ \E f \in NeededFailures' : f.at = "load"
    BY <1>6, <1>7, <1>13, <2>1
  <2>3. /\ page' = [status |-> 503, location |-> "none", advice |-> "settings", clears |-> FALSE]
        /\ todo' = <<"write">>
    <3>1. PICK c : /\ c = FALSE
                   /\ Page("none", 503) = [status |-> 503, location |-> "none",
                                           advice |-> "none", clears |-> c]
      BY PlainPage
    <3>2. [[status |-> 503, location |-> "none", advice |-> "none", clears |-> c]
             EXCEPT !.advice = "settings"]
          = [status |-> 503, location |-> "none", advice |-> "settings", clears |-> c]
      OBVIOUS
    <3>3. /\ page' = [Page("none", 503) EXCEPT !.advice = "settings"]
          /\ todo' = <<"write">>
      BY <1>13, Zenon DEF Answer
    <3> QED  BY <3>1, <3>2, <3>3, Zenon
  <2>4. PageIsRight'
    BY <1>1, <1>8, <1>13, <2>2, <2>3, PagesOfTheIndex
  <2> QED  BY <1>9, <2>3, <2>4
<1>14. ASSUME NEW s \in Seq(Steps), Shaped(s, path, mode), LastOf(s) # "who",
              Then(s), UNCHANGED failed, NeededFailures = {}
       PROVE  Inductive'
  <2>1. todo' = s /\ page' = page
    BY <1>3, <1>14, IsReplaced
  <2>2. NeededFailures' = {} /\ LastOf(todo)' # "who"
    BY <1>14, <2>1, NothingRefused DEF LastOf
  <2>3. Tolerated'
    BY <2>2 DEF Tolerated
  <2>4. Shaped(todo', path', mode')
    BY <1>1, <1>14, <2>1
  <2> QED  BY <1>1, <1>2, <1>3, <1>5, <2>1, <2>3, <2>4, GoesOn
<1>15. ASSUME path = "index", configErr = "none", Then(IndexSteps), UNCHANGED failed
       PROVE  Inductive'
  <2>1. /\ IndexSteps \in Seq(Steps) /\ Shaped(IndexSteps, path, mode)
        /\ LastOf(IndexSteps) # "who"
    BY <1>1, <1>2, <1>15, Lists DEF Shaped
  <2> QED  BY <1>6, <1>14, <1>15, <2>1
<1>16. ASSUME path # "index", Then(BeginSteps), UNCHANGED failed
       PROVE  Inductive'
  <2>1. /\ BeginSteps \in Seq(Steps) /\ Shaped(BeginSteps, path, mode)
        /\ LastOf(BeginSteps) # "who"
    BY <1>1, <1>2, <1>5, <1>16, Lists DEF Shaped
  <2> QED  BY <1>6, <1>14, <1>16, <2>1
<1>17. CASE \E e \in Refusals \cup {"words"} :
               IF path = "index"
               THEN Refused("who", e) /\ Answer(Page("none", 500))
               ELSE Fail("who", e)
  BY <1>10, <1>11, <1>17
<1>18. ASSUME NEW signedIn \in BOOLEAN,
              CASE path = "index" /\ ~signedIn ->
                      Answer(Page("none", 200)) /\ UNCHANGED failed
                [] path = "index" /\ signedIn /\ configErr # "none" ->
                      /\ Answer([Page("none", 503) EXCEPT !.advice = "settings"])
                      /\ UNCHANGED failed
                [] path = "index" /\ signedIn /\ configErr = "none" ->
                      Then(IndexSteps) /\ UNCHANGED failed
                [] path # "index" /\ signedIn = (path = "link") ->
                      Then(BeginSteps) /\ UNCHANGED failed
                [] OTHER -> Fail("who", "words")
       PROVE  Inductive'
  <2>1. CASE path = "index" /\ ~signedIn
    <3>1. Answer(Page("none", 200)) /\ UNCHANGED failed
      BY <1>18, <2>1
    <3> QED  BY <1>12, <2>1, <3>1
  <2>2. CASE path = "index" /\ signedIn /\ configErr # "none"
    <3>1. /\ Answer([Page("none", 503) EXCEPT !.advice = "settings"])
          /\ UNCHANGED failed
      BY <1>18, <2>2
    <3> QED  BY <1>13, <2>2, <3>1
  <2>3. CASE path = "index" /\ signedIn /\ configErr = "none"
    <3>1. Then(IndexSteps) /\ UNCHANGED failed
      BY <1>18, <2>3
    <3> QED  BY <1>15, <2>3, <3>1
  <2>4. CASE path # "index" /\ signedIn = (path = "link")
    <3>1. Then(BeginSteps) /\ UNCHANGED failed
      BY <1>18, <2>4
    <3> QED  BY <1>16, <2>4, <3>1
  <2>5. CASE path # "index" /\ ~(signedIn = (path = "link"))
    <3>1. Fail("who", "words")
      BY <1>18, <2>5
    <3> QED  BY <1>11, <2>5, <3>1
  <2> QED  BY <2>1, <2>2, <2>3, <2>4, <2>5
<1> QED  BY <1>17, <1>18 DEF WhoAmI

-----------------------------------------------------------------------------
(* THE STEPS ON THE WAY *)

LEMMA NeededInductive ==
    ASSUME Inductive, Needed
    PROVE  Inductive'
<1>1. PICK step \in Fetches \cup {"random", "query", "flow", "responseMode", "token", "email"} :
        /\ At(step)
        /\ \/ Then(<<>>) /\ UNCHANGED failed
           \/ \E e \in MayEndIn(step) : Fail(step, e)
        /\ UNCHANGED <<path, configErr, mode, result, writes, made>>
  BY DEF Needed
<1>2. /\ todo # <<>> /\ Head(todo) = step
      /\ step \notin AllEnds /\ step \notin BestEffort
      /\ step \notin {"select", "required", "optional", "write", "respond"}
  BY <1>1 DEF At, Fetches, AllEnds, BestEffort
<1>3. Running
  BY <1>2, UnderWay
<1>4. configErr' \in ConfigErrors
  BY <1>1 DEF Inductive
<1>5. CASE Then(<<>>) /\ UNCHANGED failed
  <2>1. NeededFailures' = {}
    BY <1>2, <1>3, <1>5, OnTheWay, NothingRefused
  <2> QED  BY <1>1, <1>2, <1>3, <1>4, <1>5, <2>1, IsDone
<1>6. ASSUME NEW e \in MayEndIn(step), Fail(step, e)
      PROVE  Inductive'
  <2>1. e \in Errors
    BY DEF MayEndIn, Fetches, Errors
  <2> QED  BY <1>1, <1>2, <1>3, <1>6, <2>1, FailsOnTheWay
<1> QED  BY <1>1, <1>5, <1>6

LEMMA TidyInductive ==
    ASSUME Inductive, Tidy
    PROVE  Inductive'
<1>1. PICK step \in Tidying :
        /\ At(step)
        /\ Then(<<>>)
        /\ UNCHANGED failed \/ Refused(step, "dropped")
        /\ UNCHANGED <<path, configErr, mode, result, writes, made>>
  BY DEF Tidy
<1>2. /\ todo # <<>> /\ Head(todo) = step /\ step \in BestEffort
      /\ step \notin AllEnds /\ step \notin {"select", "write", "respond"}
  BY <1>1 DEF At, Tidying, AllEnds, BestEffort
<1>3. Running
  BY <1>2, UnderWay
<1>4. configErr' \in ConfigErrors
  BY <1>1 DEF Inductive
<1>5. NeededFailures' = {}
  BY <1>1, <1>2, <1>3, OnTheWay, NothingRefused, Tolerable
<1> QED  BY <1>1, <1>2, <1>3, <1>4, <1>5, IsDone

(* The lists that Discovery, Keys and the refresh put in front. *)
LEMMA FetchLists ==
    /\ FetchSteps("cachedDiscovery") \in Seq(Documents)
    /\ <<"forgetDiscovery">> \o FetchSteps("cachedDiscovery") \in Seq(Documents)
    /\ FetchSteps("cachedKeys") \in Seq(KeySets)
    /\ <<"forgetKeys", "fetchKeys", "cacheKeys", "verifyAgain">>
           \in Seq(KeySets \cup {"verifyAgain"})
<1>1. FetchSteps("cachedDiscovery") \in Seq(Documents)
  BY DEF FetchSteps, Documents
<1>2. <<"forgetDiscovery">> \in Seq(Documents)
  BY DEF Documents
<1>3. <<"forgetDiscovery">> \o FetchSteps("cachedDiscovery") \in Seq(Documents)
  BY <1>1, <1>2, ConcatProperties
<1>4. FetchSteps("cachedKeys") \in Seq(KeySets)
  BY DEF FetchSteps, KeySets
<1>5. <<"forgetKeys", "fetchKeys", "cacheKeys", "verifyAgain">> \in Seq(KeySets \cup {"verifyAgain"})
  BY DEF KeySets
<1> QED  BY <1>1, <1>3, <1>4, <1>5

(* A list of steps that may all lie ahead is followed as it is. *)
LEMMA MayLieAhead ==
    ASSUME NEW S, S \subseteq Steps, NEW last, S \subseteq Ahead(last), "sweepFlows" \notin S,
           NEW s \in Seq(S)
    PROVE  /\ s \in Seq(Steps)
           /\ \A k \in 1 .. Len(s) : s[k] \in Ahead(last) /\ s[k] # "sweepFlows"
<1>1. s \in Seq(Steps)
  BY SeqMonotonic
<1>2. \A k \in 1 .. Len(s) : s[k] \in S
  BY ElementOfSeq
<1> QED  BY <1>1, <1>2

LEMMA CachedInductive ==
    ASSUME Inductive, Cached
    PROVE  Inductive'
<1>1. PICK step \in {"cachedDiscovery", "cachedKeys"} :
        /\ At(step)
        /\ \/ Then(<<>>) /\ UNCHANGED failed
           \/ Then(FetchSteps(step)) /\ UNCHANGED failed
           \/ Then(FetchSteps(step)) /\ Refused(step, "dropped")
           \/ /\ step = "cachedDiscovery"
              /\ Then(<<"forgetDiscovery">> \o FetchSteps(step))
              /\ UNCHANGED failed
        /\ UNCHANGED <<path, configErr, mode, result, writes, made>>
  BY DEF Cached
<1>2. /\ todo # <<>> /\ Head(todo) = step /\ step \in BestEffort
      /\ step \notin AllEnds /\ step \notin {"select", "write", "respond"}
  BY <1>1 DEF At, AllEnds, BestEffort
<1>3. Running
  BY <1>2, UnderWay
<1>4. /\ configErr' \in ConfigErrors /\ mode' \in Modes \cup {"none"}
      /\ mode' = "none" => mode = "none" /\ Head(todo) # "select"
  BY <1>1, <1>2 DEF Inductive
<1>5. NeededFailures' = {}
  BY <1>1, <1>2, <1>3, OnTheWay, NothingRefused, Tolerable
<1>6. LastOf(todo) \in IF step = "cachedKeys" THEN {"saveFlow", "assert"}
                                           ELSE {"show", "saveFlow", "assert"}
  <2>1. step \in Ahead(LastOf(todo))
    BY <1>2, <1>3, OnTheWay
  <2> QED  BY <1>1, <2>1 DEF Ahead, Documents, KeySets
<1>7. ASSUME NEW S, S \subseteq Steps, S \subseteq Ahead(LastOf(todo)), "sweepFlows" \notin S,
             NEW s \in Seq(S), Then(s)
      PROVE  Inductive'
  <2>1. /\ s \in Seq(Steps)
        /\ \A k \in 1 .. Len(s) : s[k] \in Ahead(LastOf(todo)) /\ s[k] # "sweepFlows"
    BY <1>7, MayLieAhead
  <2> QED  BY <1>1, <1>2, <1>3, <1>4, <1>5, <1>7, <2>1, IsFollowed
<1>8. CASE Then(<<>>)
  BY <1>1, <1>2, <1>3, <1>4, <1>5, <1>8, IsDone
<1>9. CASE step = "cachedDiscovery"
  <2>1. /\ Documents \subseteq Steps /\ Documents \subseteq Ahead(LastOf(todo))
        /\ "sweepFlows" \notin Documents
    BY <1>6, <1>9 DEF Steps, Ahead, Documents
  <2> QED  BY <1>1, <1>7, <1>8, <1>9, <2>1, FetchLists
<1>10. CASE step = "cachedKeys"
  <2>1. /\ KeySets \subseteq Steps /\ KeySets \subseteq Ahead(LastOf(todo))
        /\ "sweepFlows" \notin KeySets
    BY <1>6, <1>10 DEF Steps, Ahead, KeySets
  <2> QED  BY <1>1, <1>7, <1>8, <1>10, <2>1, FetchLists
<1> QED  BY <1>1, <1>9, <1>10

LEMMA VerifyInductive ==
    ASSUME Inductive, Verify
    PROVE  Inductive'
<1>1. /\ todo # <<>> /\ Head(todo) \in {"verify", "verifyAgain"}
      /\ \/ Then(<<>>) /\ UNCHANGED failed
         \/ Fail(Head(todo), "words")
         \/ /\ Then(<<"forgetKeys", "fetchKeys", "cacheKeys", "verifyAgain">>)
            /\ UNCHANGED failed
      /\ UNCHANGED <<path, configErr, mode, result, writes, made>>
  BY DEF Verify, At
<1>2. /\ Head(todo) \notin AllEnds /\ Head(todo) \notin BestEffort
      /\ Head(todo) \notin {"select", "required", "optional", "write"}
  BY <1>1 DEF AllEnds, BestEffort
<1>3. Running
  BY <1>1, <1>2, UnderWay
<1>4. /\ configErr' \in ConfigErrors /\ mode' \in Modes \cup {"none"}
      /\ mode' = "none" => mode = "none" /\ Head(todo) # "select"
  BY <1>1, <1>2 DEF Inductive
<1>5. ASSUME UNCHANGED failed PROVE NeededFailures' = {}
  BY <1>2, <1>3, <1>5, OnTheWay, NothingRefused
<1>6. CASE Then(<<>>) /\ UNCHANGED failed
  BY <1>1, <1>2, <1>3, <1>4, <1>5, <1>6, IsDone
<1>7. CASE Fail(Head(todo), "words")
  <2>1. "words" \in Errors
    BY DEF Errors
  <2> QED  BY <1>1, <1>2, <1>3, <1>7, <2>1, FailsOnTheWay
<1>8. CASE /\ Then(<<"forgetKeys", "fetchKeys", "cacheKeys", "verifyAgain">>)
           /\ UNCHANGED failed
  <2> DEFINE S == KeySets \cup {"verifyAgain"}
             s == <<"forgetKeys", "fetchKeys", "cacheKeys", "verifyAgain">>
  <2>1. Head(todo) \in Ahead(LastOf(todo))
    BY <1>2, <1>3, OnTheWay
  <2>2. LastOf(todo) = "assert"
    BY <1>1, <2>1 DEF Ahead, Documents, KeySets
  <2>3. S \subseteq Steps /\ S \subseteq Ahead(LastOf(todo)) /\ "sweepFlows" \notin S
    BY <2>2 DEF Steps, Ahead, KeySets
  <2>4. s \in Seq(S)
    BY FetchLists
  <2> HIDE DEF s, S
  <2>5. /\ s \in Seq(Steps)
        /\ \A k \in 1 .. Len(s) : s[k] \in Ahead(LastOf(todo)) /\ s[k] # "sweepFlows"
    BY <2>3, <2>4, MayLieAhead
  <2>6. Then(s)
    BY <1>8 DEF s
  <2> QED  BY <1>1, <1>2, <1>3, <1>4, <1>5, <1>8, <2>5, <2>6, IsFollowed
<1> QED  BY <1>1, <1>6, <1>7, <1>8

LEMMA SelectInductive ==
    ASSUME Inductive, Select
    PROVE  Inductive'
<1>1. /\ todo # <<>> /\ Head(todo) = "select"
      /\ \/ Then(<<>>) /\ mode' \in Modes /\ UNCHANGED failed
         \/ UNCHANGED mode /\ \E e \in Refusals \cup {"words"} : Fail("select", e)
      /\ UNCHANGED <<path, configErr, result, writes, made>>
  BY DEF Select, At
<1>2. Head(todo) \notin AllEnds /\ Head(todo) \notin BestEffort
  BY <1>1 DEF AllEnds, BestEffort
<1>3. Running /\ configErr' \in ConfigErrors
  BY <1>1, UnderWay DEF Inductive
<1>4. CASE Then(<<>>) /\ mode' \in Modes /\ UNCHANGED failed
  <2>1. {} \subseteq Steps /\ {} \subseteq Ahead(LastOf(todo)) /\ "sweepFlows" \notin {}
    OBVIOUS
  <2>2. <<>> \in Seq({})
    BY EmptySeq
  <2>3. /\ <<>> \in Seq(Steps)
        /\ \A k \in 1 .. Len(<<>>) :
              <<>>[k] \in Ahead(LastOf(todo)) /\ <<>>[k] # "sweepFlows"
    BY <2>1, <2>2, MayLieAhead
  <2>4. NeededFailures' = {}
    BY <1>2, <1>3, <1>4, OnTheWay, NothingRefused
  <2>5. mode' \in Modes \cup {"none"} /\ mode' # "none"
    BY <1>4 DEF Modes
  <2> QED  BY <1>1, <1>2, <1>3, <1>4, <2>3, <2>4, <2>5, IsFollowed
<1>5. ASSUME UNCHANGED mode, NEW e \in Refusals \cup {"words"}, Fail("select", e)
      PROVE  Inductive'
  <2>1. e \in Errors /\ Fail(Head(todo), e) /\ Head(todo) \notin {"required", "optional"}
    BY <1>1, <1>5 DEF Errors
  <2> QED  BY <1>1, <1>2, <1>3, <1>5, <2>1, FailsOnTheWay
<1> QED  BY <1>1, <1>4, <1>5

(* A page with a status that says nothing of the failure fits failures that say
   nothing either. *)
LEMMA PlainFits ==
    ASSUME page'.status \in {200, 400}, page'.advice # "fetch",
           \A f \in NeededFailures' :
              f.why \notin Advised /\ f.at \notin {"select", "saveFlow"},
           \A f \in NeededFailures' \ [at : {"claim"}, why : Refusals] : f.why = "words"
    PROVE  PageFitsTheFailure'
<1>1. page'.status \notin {404, 500, 502, 503}
  OBVIOUS
<1>2. "words" \notin FetchErrors \cup {"missing", "internal"}
  BY DEF FetchErrors, Advised
<1>3. \A f \in NeededFailures' \ [at : {"claim"}, why : Refusals] :
         f.why \notin FetchErrors \cup {"missing", "internal"}
  BY <1>2
<1>4. /\ \A f \in NeededFailures' :
            /\ f.why \in Advised => page'.advice = "fetch"
            /\ f.why = "denied" /\ f.at \in {"select", "saveFlow"} => page'.advice = "storage"
      /\ page'.advice = "fetch" => \E f \in NeededFailures' : f.why \in Advised
  OBVIOUS
<1> QED  BY <1>1, <1>3, <1>4, Zenon DEF PageFitsTheFailure

(* What is left when both sweeps are behind. *)
LEMMA SweepsSkipped ==
    ASSUME NEW t \in Seq(Steps), NEW p, NEW m, Shaped(t, p, m), Head(t) = "sweepFlows"
    PROVE  /\ Shaped(SubSeq(t, 3, Len(t)), p, m)
           /\ LastOf(SubSeq(t, 3, Len(t))) = LastOf(t)
<1> DEFINE n == Len(t)
           u == SubSeq(t, 3, n)
<1>1. /\ LastOf(t) \in Ends(p)
      /\ \A k \in 1 .. n - 1 : t[k] \in Ahead(t[n])
      /\ \A k \in 1 .. n - 1 : t[k] = "sweepFlows" => t[k + 1] = "sweepSpent"
  BY DEF Shaped, LastOf
<1>2. n \in Nat /\ n >= 2 /\ t[1] = "sweepFlows" /\ t[1] \in Ahead(t[n])
  BY NotTheLast DEF AllEnds, LastOf
<1>3. \A k \in 1 .. n : t[k] \in Steps
  BY ElementOfSeq
<1>4. t[n] = "saveFlow"
  BY <1>2 DEF Ahead, Documents, KeySets
<1>5. LastOf(t) = t[n]
  BY DEF LastOf
<1> HIDE DEF n
<1>6. n >= 3
  <2>1. 1 \in 1 .. n - 1 /\ 1 + 1 = 2
    BY <1>2
  <2>2. t[2] = "sweepSpent"
    BY <1>1, <1>2, <2>1
  <2>3. n # 2
    BY <1>4, <2>2
  <2> QED  BY <1>2, <2>3
<1>7. /\ u \in Seq(Steps)
      /\ Len(u) = n - 3 + 1
      /\ \A k \in 1 .. n - 3 + 1 : u[k] = t[3 + k - 1]
  <2>1. 3 \in Int /\ n \in Int /\ 3 <= n /\ \A k \in 3 .. n : t[k] \in Steps
    BY <1>2, <1>3, <1>6
  <2> QED  BY <2>1, SubSeqProperties
<1>8. /\ n - 3 + 1 \in 1 .. n - 3 + 1 /\ 3 + (n - 3 + 1) - 1 = n /\ n - 3 + 1 # 0
      /\ \A k \in 1 .. n - 3 + 1 - 1 :
            /\ k \in 1 .. n - 3 + 1 /\ k + 1 \in 1 .. n - 3 + 1
            /\ 3 + k - 1 \in 1 .. n - 1
            /\ 3 + (k + 1) - 1 = (3 + k - 1) + 1
  BY <1>2, <1>6
<1> DEFINE c == Len(u)
<1>9. c = n - 3 + 1
  BY <1>7
<1> HIDE DEF u, c
<1>10. u[c] = t[n] /\ c # 0
  BY <1>7, <1>8, <1>9
<1>11. ASSUME NEW k \in 1 .. c - 1
       PROVE  u[k] \in Ahead(t[n]) /\ (u[k] = "sweepFlows" => u[k + 1] = "sweepSpent")
  <2>1. /\ k \in 1 .. n - 3 + 1 /\ k + 1 \in 1 .. n - 3 + 1 /\ 3 + k - 1 \in 1 .. n - 1
        /\ 3 + (k + 1) - 1 = (3 + k - 1) + 1
    BY <1>8, <1>9
  <2>2. u[k] = t[3 + k - 1] /\ u[k + 1] = t[(3 + k - 1) + 1]
    BY <1>7, <2>1
  <2> QED  BY <1>1, <2>1, <2>2
<1>12. u # <<>>
  BY <1>10, EmptySeq DEF c
<1>13. LastOf(u) = t[n]
  BY <1>10 DEF LastOf, c
<1>14. t[n] # "assert"
  BY <1>4
<1>15. Shaped(u, p, m)
  BY <1>1, <1>5, <1>7, <1>11, <1>12, <1>13, <1>14, Zenon DEF Shaped, c
<1> QED  BY <1>5, <1>13, <1>15 DEF u, n

LEMMA SweepInductive ==
    ASSUME Inductive, Sweep
    PROVE  Inductive'
<1>1. /\ todo # <<>> /\ Head(todo) = "sweepFlows"
      /\ \/ Then(<<>>) /\ UNCHANGED failed
         \/ /\ todo' = SubSeq(todo, 3, Len(todo))
            /\ Refused("sweepFlows", "dropped")
            /\ UNCHANGED page
      /\ UNCHANGED <<path, configErr, mode, result, writes, made>>
  BY DEF Sweep, At
<1>2. Head(todo) \notin AllEnds /\ Head(todo) # "select" /\ "sweepFlows" \in BestEffort
  BY <1>1 DEF AllEnds, BestEffort
<1>3. Running
  BY <1>1, UnderWay
<1>4. configErr' \in ConfigErrors /\ mode' \in Modes \cup {"none"}
  BY <1>1 DEF Inductive
<1>5. NeededFailures' = {}
  BY <1>1, <1>2, <1>3, OnTheWay, NothingRefused, Tolerable
<1>6. CASE Then(<<>>)
  BY <1>1, <1>2, <1>3, <1>4, <1>5, <1>6, IsDone
<1>7. CASE todo' = SubSeq(todo, 3, Len(todo)) /\ UNCHANGED page
  <2>1. /\ todo \in Seq(Steps) /\ Shaped(todo, path, mode) /\ path \in Paths
        /\ LastOf(todo) # "who"
    BY <1>2, <1>3, OnTheWay DEF Running
  <2>2. Shaped(todo', path', mode') /\ LastOf(todo') # "who"
    BY <1>1, <1>7, <2>1, SweepsSkipped
  <2>3. LastOf(todo)' # "who"
    BY <2>2 DEF LastOf
  <2>4. Tolerated'
    BY <1>5, <2>3 DEF Tolerated
  <2> QED  BY <1>1, <1>3, <1>4, <1>7, <2>1, <2>2, <2>4, GoesOn
<1> QED  BY <1>1, <1>6, <1>7

LEMMA ClaimInductive ==
    ASSUME Inductive, Claim
    PROVE  Inductive'
<1>1. /\ todo # <<>> /\ Head(todo) = "claim"
      /\ \/ Then(<<>>) /\ UNCHANGED failed
         \/ \E why \in Refusals \cup {"words"} :
              Refused("claim", why) /\ Answer(failure("words", path))
      /\ UNCHANGED <<path, configErr, mode, result, writes, made>>
  BY DEF Claim, At
<1>2. Head(todo) \notin AllEnds /\ Head(todo) # "select" /\ "claim" \notin BestEffort
  BY <1>1 DEF AllEnds, BestEffort
<1>3. Running
  BY <1>1, UnderWay
<1>4. configErr' \in ConfigErrors /\ mode' \in Modes \cup {"none"}
  BY <1>1 DEF Inductive
<1>5. NeededFailures = {} /\ path \in Paths
  BY <1>2, <1>3, OnTheWay
<1>6. CASE Then(<<>>) /\ UNCHANGED failed
  <2>1. NeededFailures' = {}
    BY <1>5, <1>6, NothingRefused
  <2> QED  BY <1>1, <1>2, <1>3, <1>4, <1>6, <2>1, IsDone
<1>7. ASSUME NEW why \in Refusals \cup {"words"},
             Refused("claim", why), Answer(failure("words", path))
      PROVE  Inductive'
  <2> DEFINE f == [at |-> "claim", why |-> why]
  <2>1. NeededFailures' = {f}
    BY <1>2, <1>5, <1>7, NeededRefused
  <2>2. f.at = "claim" /\ f.why = why
    OBVIOUS
  <2>3. f \in [at : {"claim"}, why : Refusals] \/ why = "words"
    OBVIOUS
  <2> HIDE DEF f
  <2>4. StatusOf("words") = 400 /\ explain("words") = "none"
    BY DEF StatusOf, explain, FetchErrors, Advised
  <2>5. page' = [status |-> 400, location |-> "none", advice |-> "none",
                 clears |-> path = "callback"]
    BY <1>7, <2>4, Zenon DEF Answer, failure
  <2>6. page'.status = 400 /\ page'.location = "none" /\ page'.advice = "none"
    BY <2>5
  <2>7. page' \in [status : Statuses, location : {"none", "provider", "dashboard", "linked"},
                   advice : {"none", "fetch", "settings", "storage", "host"},
                   clears : BOOLEAN]
    BY <2>5 DEF Statuses
  <2>8. page' # NoPage
    BY <2>6 DEF NoPage
  <2>9. OnlyNeededStepsFail'
    BY <2>1 DEF OnlyNeededStepsFail
  <2>10. why \notin Advised
    BY DEF Refusals, Advised
  <2>11. /\ \A g \in NeededFailures' : g.why \notin Advised /\ g.at \notin {"select", "saveFlow"}
         /\ \A g \in NeededFailures' \ [at : {"claim"}, why : Refusals] : g.why = "words"
    BY <2>1, <2>2, <2>3, <2>10
  <2>12. PageFitsTheFailure'
    BY <2>6, <2>11, PlainFits
  <2>13. ToldWhatTheHostDid'
    BY <1>1, <1>3, <2>6, NothingToTell DEF Running
  <2>14. PageIsRight'
    BY <2>7, <2>8, <2>9, <2>12, <2>13 DEF PageIsRight
  <2>15. todo' = <<"write">>
    BY <1>7 DEF Answer
  <2> QED  BY <1>1, <1>3, <1>4, <1>5, <2>14, <2>15, IsAnswered
<1> QED  BY <1>1, <1>6, <1>7

-----------------------------------------------------------------------------
(* THE ENDS, AND THE ANSWER *)

(* The page of a request that went through. *)
LEMMA PagesOfSuccess ==
    ASSUME NEW location \in {"provider", "dashboard", "linked"},
           page' = Page(location, 200), NeededFailures' = {},
           \/ location = "provider" /\ made' = <<"flow">>
           \/ location = "linked" /\ made' = <<"link">>
           \/ location = "dashboard" /\ made' = <<"signin">>
    PROVE  PageIsRight'
<1> DEFINE c == location \in {"dashboard", "linked"}
<1>1. /\ c \in BOOLEAN /\ (location \in {"dashboard", "linked"} => c)
      /\ page' = [status |-> 200, location |-> location, advice |-> "none", clears |-> c]
  <2>1. c \in BOOLEAN
    OBVIOUS
  <2>2. page' = [status |-> 200, location |-> location, advice |-> "none", clears |-> c]
    BY Zenon DEF Page
  <2> QED  BY <2>1, <2>2, Zenon
<1> HIDE DEF c
<1>2. /\ page'.status = 200 /\ page'.location = location /\ page'.advice = "none"
      /\ page'.clears = c
  BY <1>1
<1>3. page' \in [status : Statuses, location : {"none", "provider", "dashboard", "linked"},
                 advice : {"none", "fetch", "settings", "storage", "host"},
                 clears : BOOLEAN]
  BY <1>1 DEF Statuses
<1>4. page' # NoPage
  BY <1>2 DEF NoPage
<1>5. OnlyNeededStepsFail'
  BY <1>2 DEF OnlyNeededStepsFail
<1>6. PageFitsTheFailure'
  BY <1>2, PlainFits
<1>7. ToldWhatTheHostDid'
  <2>1. <<"flow">> # <<>> /\ <<"link">> # <<>> /\ <<"signin">> # <<>>
    OBVIOUS
  <2>2. /\ <<"link">> # <<"flow">> /\ <<"signin">> # <<"flow">> /\ <<"signin">> # <<"link">>
    OBVIOUS
  <2>3. CASE location = "provider" /\ made' = <<"flow">>
    BY <1>2, <2>1, <2>2, <2>3 DEF ToldWhatTheHostDid
  <2>4. CASE location = "linked" /\ made' = <<"link">>
    <3>1. page'.clears
      BY <1>1, <1>2, <2>4
    <3> QED  BY <1>2, <2>1, <2>2, <2>4, <3>1 DEF ToldWhatTheHostDid
  <2>5. CASE location = "dashboard" /\ made' = <<"signin">>
    <3>1. page'.clears
      BY <1>1, <1>2, <2>5
    <3> QED  BY <1>2, <2>1, <2>2, <2>5, <3>1 DEF ToldWhatTheHostDid
  <2> QED  BY <2>3, <2>4, <2>5
<1> QED  BY <1>3, <1>4, <1>5, <1>6, <1>7 DEF PageIsRight

LEMMA ShowInductive ==
    ASSUME Inductive, Show
    PROVE  Inductive'
<1>1. /\ todo # <<>> /\ Head(todo) = "show"
      /\ Answer(Page("none", 200))
      /\ UNCHANGED <<path, configErr, mode, result, writes, failed, made>>
  BY DEF Show, At
<1>2. Running /\ Head(todo) \in AllEnds
  BY <1>1, UnderWay DEF AllEnds
<1>3. LastOf(todo) = "show" /\ "show" \in Ends(path)
  BY <1>1, <1>2, AtTheEnd
<1>4. path = "index" /\ path \in Paths /\ NeededFailures = {} /\ made' = <<>>
  BY <1>1, <1>2, <1>3 DEF Ends, Running, Tolerated, Paths
<1>5. NeededFailures' = {}
  BY <1>1, <1>4, NothingRefused
<1>6. /\ page' = [status |-> 200, location |-> "none", advice |-> "none", clears |-> FALSE]
      /\ todo' = <<"write">>
  BY <1>1, PlainPage, Zenon DEF Answer
<1>7. PageIsRight'
  BY <1>1, <1>4, <1>5, <1>6, PagesOfTheIndex
<1>8. configErr' \in ConfigErrors /\ mode' \in Modes \cup {"none"}
  BY <1>1 DEF Inductive
<1> QED  BY <1>1, <1>2, <1>4, <1>6, <1>7, <1>8, IsAnswered

(* A request under way has no answer to build or to write yet. *)
LEMMA NotWriting ==
    ASSUME Running
    PROVE  Head(todo) \notin {"write", "respond"}
<1>1. SUFFICES ASSUME Head(todo) \in {"write", "respond"} PROVE FALSE
  OBVIOUS
<1>2. \A step \in {"write", "respond"} : step \notin AllEnds /\ \A last : step \notin Ahead(last)
  BY DEF AllEnds, Ahead, Documents, KeySets
<1>3. todo \in Seq(Steps) /\ Shaped(todo, path, mode)
  BY DEF Running, Shaped
<1>4. todo[1] \in {"write", "respond"} /\ todo[1] \in Ahead(LastOf(todo))
  BY <1>1, <1>2, <1>3, NotTheLast
<1> QED  BY <1>2, <1>4

(* A last step but one is done, and has made what the request is for; or it fails,
   whether it has made that or not. *)
LEMMA DeedInductive ==
    ASSUME Inductive, Running, Head(todo) \in AllEnds, NEW step, NEW what,
           step \notin BestEffort, path \in {"start", "link", "callback"},
           NeededFailures = {}, what \in Deeds(path, mode), step \in FailedAfter(what),
           Deed(step, what), UNCHANGED <<path, configErr, mode, result, writes>>
    PROVE  Inductive'
<1>1. page = NoPage /\ result = 1 /\ writes = <<>> /\ made = <<>> /\ path \in Paths
  BY DEF Running, Paths
<1>2. Append(made, what) = <<what>>
  BY <1>1
<1>3. /\ path' \in Paths \cup {"unread"} /\ mode' \in Modes \cup {"none"}
      /\ configErr' \in ConfigErrors
  BY DEF Inductive
<1>4. CASE made' = Append(made, what) /\ Then(<<"respond">>) /\ UNCHANGED failed
  <2>1. NeededFailures' = {}
    BY <1>4, NothingRefused
  <2>2. todo' = <<"respond">> /\ page' = page
    <3>1. todo' = <<"respond">> \o <<>> /\ page' = page
      BY <1>4, AtTheEnd DEF Then
    <3>2. <<"respond">> \in Seq({"respond"})
      OBVIOUS
    <3> QED  BY <3>1, <3>2, ConcatEmptySeq
  <2>3. Committed'
    BY <1>1, <1>2, <1>4, <2>1, <2>2 DEF Committed
  <2> QED  BY <1>3, <2>3 DEF Inductive
<1>5. ASSUME made' \in {made, Append(made, what)}, NEW e \in Refusals, Fail(step, e)
      PROVE  Inductive'
  <2>1. made' = <<>> \/ made' = <<what>>
    BY <1>1, <1>2, <1>5
  <2>2. what # "flow" => path = "callback"
    BY DEF Deeds
  <2>3. ToldWhatTheHostDid'
    BY <1>5, <2>1, <2>2, NothingMoreToTell
  <2>4. e \in Errors /\ path # "index"
    BY DEF Errors
  <2> QED  BY <1>1, <1>3, <1>5, <2>3, <2>4, IsTold
<1> QED  BY <1>4, <1>5 DEF Deed

LEMMA SaveFlowInductive ==
    ASSUME Inductive, SaveFlow
    PROVE  Inductive'
<1>1. /\ todo # <<>> /\ Head(todo) = "saveFlow" /\ Deed("saveFlow", "flow")
      /\ UNCHANGED <<path, configErr, mode, result, writes>>
  BY DEF SaveFlow, At
<1>2. Running /\ Head(todo) \in AllEnds
  BY <1>1, UnderWay DEF AllEnds
<1>3. LastOf(todo) = "saveFlow" /\ "saveFlow" \in Ends(path)
  BY <1>1, <1>2, AtTheEnd
<1>4. path \in {"start", "link"} /\ NeededFailures = {}
  BY <1>2, <1>3 DEF Inductive, Ends, Running, Tolerated, Paths
<1>5. /\ "flow" \in Deeds(path, mode) /\ "saveFlow" \in FailedAfter("flow")
      /\ "saveFlow" \notin BestEffort
  BY <1>4 DEF Deeds, FailedAfter, BestEffort
<1> QED  BY <1>1, <1>2, <1>4, <1>5, DeedInductive

LEMMA AssertInductive ==
    ASSUME Inductive, Assert
    PROVE  Inductive'
<1>1. /\ todo # <<>> /\ Head(todo) = "assert" /\ Deed("assert", mode)
      /\ UNCHANGED <<path, configErr, mode, result, writes>>
  BY DEF Assert, At
<1>2. Running /\ Head(todo) \in AllEnds
  BY <1>1, UnderWay DEF AllEnds
<1>3. LastOf(todo) = "assert" /\ "assert" \in Ends(path) /\ mode \in {"signin", "link"}
  BY <1>1, <1>2, AtTheEnd DEF Modes
<1>4. path = "callback" /\ NeededFailures = {}
  BY <1>2, <1>3 DEF Inductive, Ends, Running, Tolerated, Paths
<1>5. mode \in Deeds(path, mode) /\ "assert" \in FailedAfter(mode) /\ "assert" \notin BestEffort
  BY <1>3, <1>4 DEF Deeds, FailedAfter, BestEffort
<1> QED  BY <1>1, <1>2, <1>4, <1>5, DeedInductive

(* Only the answer is left to build, and a session's record to read. *)
LEMMA RespondInductive ==
    ASSUME Inductive, Respond
    PROVE  Inductive'
<1>1. /\ todo # <<>> /\ Head(todo) = "respond"
      /\ UNCHANGED <<path, configErr, mode, result, writes, made>>
  BY DEF Respond, At
<1>2. Committed
  BY <1>1, NotWriting DEF Inductive, Unread, Answering, Written
<1>3. /\ path \in {"start", "link", "callback"} /\ path \in Paths /\ NeededFailures = {}
      /\ path' = path /\ mode' = mode
  BY <1>1, <1>2 DEF Committed, Paths
<1>4. configErr' \in ConfigErrors /\ mode' \in Modes \cup {"none"}
  BY <1>1 DEF Inductive
<1>5. PICK what \in Deeds(path, mode) : made = <<what>>
  BY <1>2 DEF Committed
<1>6. \/ path # "callback" /\ what = "flow"
      \/ path = "callback" /\ mode = "link" /\ what = "link"
      \/ path = "callback" /\ mode = "signin" /\ what = "signin"
  BY <1>3, <1>5 DEF Deeds
<1>7. made' = <<what>>
  BY <1>1, <1>5
<1>8. ASSUME NEW location \in {"provider", "dashboard", "linked"},
             Answer(Page(location, 200)), UNCHANGED failed,
             \/ path # "callback" /\ location = "provider"
             \/ /\ path = "callback"
                /\ location = IF mode = "link" THEN "linked" ELSE "dashboard"
      PROVE  Inductive'
  <2>1. NeededFailures' = {}
    BY <1>3, <1>8, NothingRefused
  <2>2. page' = Page(location, 200) /\ todo' = <<"write">>
    BY <1>8 DEF Answer
  <2>3. \/ location = "provider" /\ made' = <<"flow">>
        \/ location = "linked" /\ made' = <<"link">>
        \/ location = "dashboard" /\ made' = <<"signin">>
    BY <1>6, <1>7, <1>8
  <2>4. PageIsRight'
    BY <2>1, <2>2, <2>3, PagesOfSuccess
  <2> QED  BY <1>1, <1>2, <1>3, <1>4, <2>2, <2>4, IsAnswered
<1>9. CASE path = "callback" /\ mode = "signin" /\ Fail("minted", "words")
  <2>1. "minted" \in FailedAfter(what)
    BY <1>6, <1>9 DEF FailedAfter
  <2>2. ToldWhatTheHostDid'
    BY <1>7, <1>9, <2>1, NothingMoreToTell
  <2>3. "minted" \notin BestEffort /\ "words" \in Errors /\ path # "index"
    BY <1>9 DEF BestEffort, Errors
  <2> QED  BY <1>1, <1>2, <1>3, <1>4, <1>9, <2>2, <2>3, IsTold
<1> QED  BY <1>8, <1>9 DEF Respond

(* A page stays right while nothing that it tells of changes. *)
LEMMA StillRight ==
    ASSUME PageIsRight, UNCHANGED <<path, page, failed, made>>
    PROVE  PageIsRight'
<1>1. /\ NeededFailures' = NeededFailures
      /\ path' = path /\ page' = page /\ failed' = failed /\ made' = made
  BY NothingRefused
<1>2. OnlyNeededStepsFail'
  BY <1>1, Zenon DEF PageIsRight, OnlyNeededStepsFail
<1>3. ToldWhatTheHostDid'
  BY <1>1, Zenon DEF PageIsRight, ToldWhatTheHostDid
<1>4. PageFitsTheFailure'
  <2> DEFINE Fits(f, status, p) ==
               CASE status = 404 -> f.why = "path"
                 [] status = 500 -> f.why = "internal" \/ (p = "index" /\ f.at = "who")
                 [] status = 502 -> f.why \in FetchErrors
                                   \/ (p = "index" /\ f.at = "fetchDiscovery")
                 [] status = 503 -> f.why = "missing" \/ (p = "index" /\ f.at = "load")
  <2>1. page # NoPage /\ PageFitsTheFailure
    BY DEF PageIsRight
  <2>2. page.status \in {404, 500, 502, 503} =>
           \E f \in NeededFailures : Fits(f, page.status, path)
    BY <2>1, Zenon DEF PageFitsTheFailure
  <2>3. page'.status \in {404, 500, 502, 503} =>
           \E f \in NeededFailures' : Fits(f, page'.status, path')
    <3> HIDE DEF Fits
    <3> QED  BY <1>1, <2>2
  <2>4. /\ page'.status = 400 =>
              \A f \in NeededFailures' \ [at : {"claim"}, why : Refusals] :
                f.why \notin FetchErrors \cup {"missing", "internal"}
        /\ \A f \in NeededFailures' :
              /\ f.why \in Advised => page'.advice = "fetch"
              /\ f.why = "denied" /\ f.at \in {"select", "saveFlow"} => page'.advice = "storage"
        /\ page'.advice = "fetch" => \E f \in NeededFailures' : f.why \in Advised
    <3>1. /\ page.status = 400 =>
                \A f \in NeededFailures \ [at : {"claim"}, why : Refusals] :
                  f.why \notin FetchErrors \cup {"missing", "internal"}
          /\ \A f \in NeededFailures :
                /\ f.why \in Advised => page.advice = "fetch"
                /\ f.why = "denied" /\ f.at \in {"select", "saveFlow"} => page.advice = "storage"
          /\ page.advice = "fetch" => \E f \in NeededFailures : f.why \in Advised
      BY <2>1, Zenon DEF PageFitsTheFailure
    <3> QED  BY <1>1, <3>1
  <2> QED  BY <2>3, <2>4, Zenon DEF PageFitsTheFailure
<1>5. page' # NoPage
  BY <1>1 DEF PageIsRight
<1> QED  BY <1>1, <1>2, <1>3, <1>4, <1>5, Zenon DEF PageIsRight

LEMMA WriteInductive ==
    ASSUME Inductive, Write
    PROVE  Inductive'
<1>1. PICK answer \in Refusals \cup {"ok"} :
        /\ writes' = Append(writes, answer)
        /\ result' = IF answer = "ok" THEN 0 ELSE -1
  BY DEF Write
<1>2. /\ todo # <<>> /\ Head(todo) = "write" /\ todo' = <<>>
      /\ UNCHANGED <<path, configErr, mode, page, failed, made>>
  BY DEF Write, At
<1>3. Answering
  BY <1>2, NotWriting DEF Inductive, Committed, Unread, Written
<1>4. PageIsRight'
  BY <1>2, <1>3, StillRight DEF Answering
<1>5. writes' = <<answer>> /\ Len(writes') = 1 /\ writes'[1] = answer
  BY <1>1, <1>3 DEF Answering
<1>6. result' \in {-1, 0} /\ (result' = 0 <=> writes'[1] = "ok")
  BY <1>1, <1>5
<1>7. Written'
  BY <1>2, <1>4, <1>5, <1>6 DEF Written
<1> QED  BY <1>2, <1>7 DEF Inductive

-----------------------------------------------------------------------------
(* THE INVARIANT, AND WHAT FOLLOWS *)

LEMMA StutterInductive ==
    ASSUME Inductive, UNCHANGED vars
    PROVE  Inductive'
<1>1. /\ todo' = todo /\ path' = path /\ configErr' = configErr /\ mode' = mode /\ page' = page
      /\ result' = result /\ writes' = writes /\ failed' = failed /\ made' = made
      /\ NeededFailures' = NeededFailures
  BY NothingRefused DEF vars
<1>2. CASE Running
  <2>1. Running'
    BY <1>1, <1>2, Zenon DEF Running, Tolerated, LastOf
  <2> QED  BY <1>1, <2>1 DEF Inductive
<1>3. CASE Unread
  BY <1>1, <1>3 DEF Inductive, Unread
<1>4. CASE Answering
  BY <1>1, <1>4, StillRight DEF Inductive, Answering
<1>5. CASE Written
  BY <1>1, <1>5, StillRight DEF Inductive, Written
<1>6. CASE Committed
  BY <1>1, <1>6 DEF Inductive, Committed
<1> QED  BY <1>2, <1>3, <1>4, <1>5, <1>6 DEF Inductive

LEMMA InitInductive ==
    ASSUME Init
    PROVE  Inductive
<1>1. "read" \in Steps /\ "read" \in Ends("unread")
  BY DEF Steps, AllEnds, Ends
<1>2. Shaped(<<"read">>, "unread", "none") /\ LastOf(<<"read">>) = "read"
  BY <1>1, OneStep
<1>3. NeededFailures = {}
  BY DEF Init, NeededFailures
<1>4. Tolerated
  BY <1>3 DEF Init, Tolerated
<1>5. Running
  BY <1>2, <1>4 DEF Init, Running
<1> QED  BY <1>5 DEF Init, Inductive, ConfigErrors

(* What holds of every request, wherever it is. *)
THEOREM AlwaysInductive == Spec => []Inductive
<1>1. Init => Inductive
  BY InitInductive
<1>2. Inductive /\ [Next]_vars => Inductive'
  <2> SUFFICES ASSUME Inductive, [Next]_vars PROVE Inductive'
    OBVIOUS
  <2>1. CASE Read BY <2>1, ReadInductive
  <2>2. CASE Setting BY <2>2, SettingInductive
  <2>3. CASE LoadConfig BY <2>3, LoadConfigInductive
  <2>4. CASE WhoAmI BY <2>4, WhoAmIInductive
  <2>5. CASE Needed BY <2>5, NeededInductive
  <2>6. CASE Show BY <2>6, ShowInductive
  <2>7. CASE Tidy BY <2>7, TidyInductive
  <2>8. CASE Sweep BY <2>8, SweepInductive
  <2>9. CASE Cached BY <2>9, CachedInductive
  <2>10. CASE SaveFlow BY <2>10, SaveFlowInductive
  <2>11. CASE Claim BY <2>11, ClaimInductive
  <2>12. CASE Select BY <2>12, SelectInductive
  <2>13. CASE Verify BY <2>13, VerifyInductive
  <2>14. CASE Assert BY <2>14, AssertInductive
  <2>15. CASE Respond BY <2>15, RespondInductive
  <2>16. CASE Write BY <2>16, WriteInductive
  <2>17. CASE UNCHANGED vars BY <2>17, StutterInductive
  <2> QED
    BY <2>1, <2>2, <2>3, <2>4, <2>5, <2>6, <2>7, <2>8, <2>9, <2>10, <2>11, <2>12, <2>13,
       <2>14, <2>15, <2>16, <2>17 DEF Next
<1> QED  BY <1>1, <1>2, PTL DEF Spec

(* A page that was built is right, and so is that there is none yet. *)
LEMMA NoneOrRight ==
    ASSUME Inductive
    PROVE  page = NoPage \/ PageIsRight
  BY DEF Inductive, Running, Committed, Unread, Answering, Written

(* Every variable stays in its type, and an assertion knows the flow's mode: the read
   of the flow was on the way to it (ClaimFlow, store.go:219-246; callback,
   handler.go:176-199). *)
THEOREM TypeCorrect == Spec => []TypeOK
<1>1. Inductive => TypeOK
  <2> SUFFICES ASSUME Inductive PROVE TypeOK
    OBVIOUS
  <2>1. /\ path \in Paths \cup {"unread"} /\ mode \in Modes \cup {"none"}
        /\ configErr \in Errors \cup {"none"}
    BY DEF Inductive, ConfigErrors, Errors
  <2>2. result \in {-1, 0, 1}
    BY DEF Inductive, Running, Committed, Unread, Answering, Written
  <2>3. page = NoPage \/ page \in [status   : Statuses,
                                   location : {"none", "provider", "dashboard", "linked"},
                                   advice   : {"none", "fetch", "settings", "storage", "host"},
                                   clears   : BOOLEAN]
    BY NoneOrRight DEF PageIsRight
  <2>4. ASSUME todo # <<>>, Head(todo) = "assert"
        PROVE  mode \in Modes
    <3>1. Running /\ Head(todo) \in AllEnds
      BY <2>4, UnderWay DEF AllEnds
    <3> QED  BY <2>4, <3>1, AtTheEnd
  <2> QED  BY <2>1, <2>2, <2>3, <2>4 DEF TypeOK
<1> QED  BY <1>1, AlwaysInductive, PTL

(* A cache that cannot be read or written, a sweep, a deletion or a clock that is
   refused fails no request: provider.go:150-176, flow.go:93-99, store.go:240-242. *)
THEOREM NeededStepsOnly == Spec => []OnlyNeededStepsFail
<1>1. Inductive => OnlyNeededStepsFail
  <2> SUFFICES ASSUME Inductive PROVE OnlyNeededStepsFail
    OBVIOUS
  <2>1. CASE page = NoPage
    BY <2>1 DEF NoPage, OnlyNeededStepsFail
  <2> QED  BY <2>1, NoneOrRight DEF PageIsRight
<1> QED  BY <1>1, AlwaysInductive, PTL

(* No visitor is told of more than the host did for the request, and of less only by
   the page of the step that did it (SaveFlow, flow.go:115-145; Assert,
   flow.go:281-310). *)
THEOREM ToldTruly == Spec => []ToldWhatTheHostDid
<1>1. Inductive => ToldWhatTheHostDid
  BY NoneOrRight, Zenon DEF PageIsRight, ToldWhatTheHostDid
<1> QED  BY <1>1, AlwaysInductive, PTL

(* The status and the advice of a page are those of the step that failed, through
   every wrapping (failure and explain, handler.go:326-389). *)
THEOREM PageFits == Spec => []PageFitsTheFailure
<1>1. Inductive => PageFitsTheFailure
  BY NoneOrRight, Zenon DEF PageIsRight, PageFitsTheFailure
<1> QED  BY <1>1, AlwaysInductive, PTL

(* A request that could be read is answered with one response, offered to the host
   once (handler.go:26-31, 52-59). *)
THEOREM OneAnswer == Spec => []AnsweredOnce
<1>1. Inductive => AnsweredOnce
  <2> SUFFICES ASSUME Inductive, todo = <<>>
               PROVE  \/ page = NoPage /\ writes = <<>> /\ result = -1
                      \/ page # NoPage /\ Len(writes) = 1 /\ (result = 0 <=> writes[1] = "ok")
    BY DEF AnsweredOnce
  <2>1. ~Running /\ ~Committed /\ ~Answering
    BY DEF Running, Committed, Shaped, Answering
  <2>2. Unread \/ Written
    BY <2>1 DEF Inductive
  <2> QED  BY <2>2 DEF Unread, Written, PageIsRight
<1> QED  BY <1>1, AlwaysInductive, PTL
=============================================================================
