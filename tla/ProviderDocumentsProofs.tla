---------------------- MODULE ProviderDocumentsProofs ----------------------
(***************************************************************************)
(* What is proved of the cached documents: for any number of requests at a *)
(* time, any providers, any documents they publish in turn, any number of  *)
(* keys under any names.                                                   *)
(*                                                                         *)
(* The invariant follows one request.  Discovers says that the document in *)
(* hand is one of the provider's that was configured when the request came *)
(* in; Holds, that a key set which was fetched was fetched after the       *)
(* token, so that the token's key is in it or retired; Counts, how many    *)
(* fetches lead to a place, and that the fourth has a key behind it that   *)
(* is retired or not for the token.  No part speaks of two requests: they  *)
(* meet in the caches only, and of those it is enough to know that what is *)
(* cached is something that some provider has published.                   *)
(*                                                                         *)
(* A field that a document leaves out keeps the value another provider's   *)
(* cached document gave it, in the same Go struct.  So three theorems say  *)
(* of the documents what they need of them: EndpointsStay that they list   *)
(* their endpoints, RefusedOnItsOwnModes that they list their response     *)
(* modes, NoVerdictChanges both.  The others hold of any documents.        *)
(***************************************************************************)
EXTENDS ProviderDocuments, TLAPS

(* Every document lists its endpoints. *)
ListsEndpoints ==
    \A p \in Issuers : \A n \in DOMAIN Published[p] : Published[p][n].endpoints = p

(* Every document says which response modes there are. *)
ListsModes ==
    \A p \in Issuers : \A n \in DOMAIN Published[p] : Published[p][n].modes # Absent

(* Where a request has the configured provider's document, and where it is after
   the key set. *)
KeyPlaces == {"readKeys", "fetchKeys", "saveKeys", "forgetKeys"}
Past      == KeyPlaces \cup {"saveDiscovery", "exchange"}

(* The discovery documents a provider has published so far, and the keys of all. *)
Own(p, rev) == {Published[p][n] : n \in 1 .. rev[p]}
SoFar(gen)  == {k \in Keys : k[2] <= gen[k[1]]}

(* The document in hand is the configured provider's: all of it that decides
   anything, if the provider leaves nothing out that another one's document in
   the same struct would supply. *)
Discovers(r, rev) ==
    /\ r.at # "idle" => r.cfg \in Issuers
    /\ r.at = "saveDiscovery" =>
         r.body \in Own(r.cfg, rev) /\ (ListsModes => r.d.modes = r.body.modes)
    /\ r.at \in Past =>
         r.d.endpoints \in Issuers /\ (ListsEndpoints => r.d.endpoints = r.cfg)
    /\ r.at \in KeyPlaces /\ r.kind = "callback" => r.d.endpoints = r.cfg
    /\ r.at = "done" /\ r.verdict = "form_post" /\ ListsModes =>
         \E b \in Own(r.cfg, rev) : ~CheckResponseMode(b)

(* A token's key has been retired since, or its use or alg are not the token's. *)
Old(r, old)  == r.token.key[2] < old[r.cfg]
Lost(r, old) == Old(r, old) \/ ~Answers(r.token.key, r.token)

(* The token is of the configured provider. *)
OfProvider(r) == r.token \in Tokens /\ r.token.key[1] = r.cfg

(* What a callback has of keys. *)
Holds(r, gen, old) ==
    /\ r.at \in KeyPlaces /\ r.kind = "callback" =>
         /\ OfProvider(r)
         /\ r.token.key[2] <= gen[r.cfg]
         /\ r.keys # {} => r.token.key \in r.keys \/ Old(r, old)
    /\ r.keys \subseteq SoFar(gen)
    /\ r.at = "saveKeys" => r.keys # {}
    /\ r.at \notin {"saveKeys", "done"} => r.keys = {}
    /\ r.at = "forgetKeys" => ~r.refreshed /\ r.kind = "callback"
    /\ r.at = "done" /\ r.verdict = "rejected" =>
         /\ OfProvider(r)
         /\ Lost(r, old) \/ \E k \in r.keys \ {r.token.key} : Answers(k, r.token)

(* How many fetches a request has made by the time it is at a place, and that the
   fourth is due to a key that is lost. *)
Counts(r, old) ==
    /\ r.at \in {"idle", "readDiscovery", "forgetDiscovery", "fetchDiscovery", "done"} =>
         r.fetches = 0
    /\ r.at \in {"saveDiscovery", "exchange"} => r.fetches <= 1
    /\ r.at = "readKeys" => r.fetches <= 2
    /\ r.at = "fetchKeys" => r.fetches <= IF r.refreshed THEN 3 ELSE 2
    /\ r.at = "saveKeys" => r.fetches <= IF r.refreshed THEN 4 ELSE 3
    /\ r.at = "forgetKeys" => r.fetches <= 3
    /\ r.at \notin {"fetchKeys", "saveKeys"} => ~r.refreshed
    /\ r.refreshed => r.kind = "callback"
    /\ r.at \in {"forgetKeys", "fetchKeys"} /\ r.fetches = 3 => Lost(r, old)
    /\ r.fetches = 4 => OfProvider(r) /\ Lost(r, old)

Sound(r, gen, old, rev) == Discovers(r, rev) /\ Holds(r, gen, old) /\ Counts(r, old)

SoundNow(r) == Sound(r, generation, oldest, revision)

Inductive ==
    /\ TypeOK
    /\ discovery = Absent \/ \E p \in Issuers : discovery \in Own(p, revision)
    /\ jwks \subseteq SoFar(generation)
    /\ \A i \in Instances : SoundNow(inst[i])

-----------------------------------------------------------------------------
(* A key is its provider and its number. *)
LEMMA KeyFields ==
  /\ \A p \in Issuers : \A g \in 0 .. Rotations[p] : <<p, g>> \in Keys
  /\ \A k \in Keys : /\ k = <<k[1], k[2]>>
                     /\ k[1] \in Issuers /\ k[2] \in 0 .. Rotations[k[1]] /\ k[2] \in Nat
BY KeysAssumption DEF Keys

(* The key set of a provider. *)
LEMMA KeySetFields ==
  ASSUME TypeOK, NEW p \in Issuers
  PROVE  /\ KeySet(p) # {} /\ KeySet(p) \subseteq SoFar(generation)
         /\ \A k \in Keys : k[1] = p /\ oldest[p] <= k[2] /\ k[2] <= generation[p]
                              => k \in KeySet(p)
         /\ \A k \in KeySet(p) : oldest[p] <= k[2]
<1>1. /\ oldest[p] \in Nat /\ generation[p] \in Nat /\ Rotations[p] \in Nat
      /\ oldest[p] <= generation[p] /\ generation[p] <= Rotations[p]
  BY KeysAssumption DEF TypeOK
<1>2. <<p, generation[p]>> \in KeySet(p)
  BY <1>1 DEF KeySet
<1>3. ASSUME NEW k \in KeySet(p)
      PROVE  k \in SoFar(generation) /\ oldest[p] <= k[2]
  <2>1. PICK g \in oldest[p] .. generation[p] : k = <<p, g>>
    BY DEF KeySet
  <2>2. g \in 0 .. Rotations[p] /\ g <= generation[p] /\ oldest[p] <= g
    BY <1>1
  <2> QED
    BY <2>1, <2>2, KeyFields DEF SoFar
<1>4. ASSUME NEW k \in Keys, k[1] = p, oldest[p] <= k[2], k[2] <= generation[p]
      PROVE  k \in KeySet(p)
  <2>1. k = <<p, k[2]>> /\ k[2] \in Nat
    BY <1>4, KeyFields
  <2>2. k[2] \in oldest[p] .. generation[p]
    BY <1>1, <1>4, <2>1
  <2> QED
    BY <2>1, <2>2 DEF KeySet
<1> QED
  BY <1>2, <1>3, <1>4

(* What find makes of a set.  If nothing fits, the token's own key is missing or is
   not for it; if something fits and the token's key is not what is picked, another
   key fits. *)
LEMMA NothingFits ==
  ASSUME NEW token, NEW keys, UnknownKid(token, keys), token.key \in keys
  PROVE  ~Answers(token.key, token)
BY DEF UnknownKid, Candidates

LEMMA AnotherFits ==
  ASSUME NEW token, NEW keys, ~UnknownKid(token, keys), Found(token, keys) # {token.key}
  PROVE  \E k \in keys \ {token.key} : Answers(k, token)
<1>1. SUFFICES ASSUME \A k \in Candidates(token, keys) : k = token.key PROVE FALSE
  BY DEF Candidates
<1>2. Candidates(token, keys) = {token.key}
  BY <1>1 DEF UnknownKid
<1>3. Found(token, keys) = {token.key}
  BY <1>2 DEF Found
<1> QED
  BY <1>3

(* What is read into a struct, field by field. *)
LEMMA UnmarshalFields ==
  ASSUME NEW d \in Documents, NEW body \in Documents
  PROVE  LET u == Unmarshal(d, body) IN
         /\ u \in Documents
         /\ u.issuer = IF body.issuer = Absent THEN d.issuer ELSE body.issuer
         /\ u.endpoints = IF body.endpoints = Absent THEN d.endpoints ELSE body.endpoints
         /\ u.modes = IF body.modes = Absent THEN d.modes ELSE body.modes
         /\ u.methods = IF body.methods = Absent THEN d.methods ELSE body.methods
<1> DEFINE u == Unmarshal(d, body)
<1>1. DOMAIN d = {"issuer", "endpoints", "methods", "modes"}
  BY DEF Documents
<1>2. /\ u.issuer = IF body.issuer = Absent THEN d.issuer ELSE body.issuer
      /\ u.endpoints = IF body.endpoints = Absent THEN d.endpoints ELSE body.endpoints
      /\ u.modes = IF body.modes = Absent THEN d.modes ELSE body.modes
      /\ u.methods = IF body.methods = Absent THEN d.methods ELSE body.methods
  BY <1>1 DEF Unmarshal
<1>3. u = [issuer |-> u.issuer, endpoints |-> u.endpoints, methods |-> u.methods, modes |-> u.modes]
  BY <1>1 DEF Unmarshal
<1>4. u \in Documents
  BY <1>2, <1>3 DEF Documents
<1> QED
  BY <1>2, <1>4

(* A provider's documents name the provider. *)
LEMMA OwnDocument ==
  ASSUME TypeOK, NEW p \in Issuers, NEW b \in Own(p, revision)
  PROVE  /\ b \in Documents /\ b.issuer = p
         /\ ListsEndpoints => b.endpoints = p
         /\ ListsModes => b.modes # Absent
<1>1. PICK n \in 1 .. revision[p] : b = Published[p][n]
  BY DEF Own
<1>2. Published[p] \in Seq(Documents) /\ revision[p] \in DOMAIN Published[p]
  BY PublishedAssumption DEF TypeOK
<1>3. n \in DOMAIN Published[p]
  BY <1>2
<1>4. Published[p][n] \in Documents
  BY <1>2, <1>3
<1> QED
  BY <1>1, <1>3, <1>4, PublishedAssumption DEF ListsEndpoints, ListsModes

(* The document a provider publishes now is one of them. *)
LEMMA NowOwn ==
  ASSUME TypeOK, NEW p \in Issuers
  PROVE  Discovery(p) \in Own(p, revision)
<1>1. Published[p] \in Seq(Documents) /\ revision[p] \in DOMAIN Published[p]
  BY PublishedAssumption DEF TypeOK
<1>2. revision[p] \in 1 .. revision[p]
  BY <1>1
<1> QED
  BY <1>2 DEF Own, Discovery

(* The document that is read into an empty struct. *)
LEMMA EmptyDocument == Empty \in Documents
BY DEF Empty, Documents

(* A request that has not come in. *)
LEMMA IdleSound == Idle \in Requests /\ \A gen, old, rev : Sound(Idle, gen, old, rev)
<1>1. Idle \in Requests
  BY EmptyDocument DEF Idle, Requests, Places, Kinds, Verdicts
<1>2. /\ Idle.at = "idle" /\ Idle.keys = {} /\ Idle.fetches = 0 /\ Idle.refreshed = FALSE
  BY DEF Idle
<1>3. \A gen, old, rev : Discovers(Idle, rev) /\ Holds(Idle, gen, old) /\ Counts(Idle, old)
  BY <1>2 DEF Discovers, Holds, Counts, Past, KeyPlaces
<1> QED
  BY <1>1, <1>3 DEF Sound

(* Nothing is cached and no request has come in. *)
LEMMA InitInductive == Init => Inductive
<1> SUFFICES ASSUME Init PROVE Inductive
    OBVIOUS
<1>1. inst \in [Instances -> Requests] /\ \A i \in Instances : SoundNow(inst[i])
  BY IdleSound DEF Init, SoundNow
<1>2. \A p \in Issuers : 1 \in DOMAIN Published[p]
  <2> SUFFICES ASSUME NEW p \in Issuers PROVE 1 \in DOMAIN Published[p]
      OBVIOUS
  <2>1. Published[p] \in Seq(Documents) /\ Published[p] # <<>>
    BY PublishedAssumption
  <2> QED
    BY <2>1
<1>3. TypeOK
  BY <1>1, <1>2, KeysAssumption DEF Init, TypeOK
<1> QED
  BY <1>1, <1>3 DEF Init, Inductive

-----------------------------------------------------------------------------
(* A step of one request, which becomes r, and of nothing else but the caches. *)
LEMMA OneRequest ==
  ASSUME Inductive, NEW i \in Instances, NEW r \in Requests,
         inst' = [inst EXCEPT ![i] = r], SoundNow(r),
         UNCHANGED <<issuer, providers>>, jwks' \subseteq SoFar(generation),
         discovery' = Absent \/ \E p \in Issuers : discovery' \in Own(p, revision)
  PROVE  Inductive'
<1> USE DEF Inductive, providers
<1>1. inst' \in [Instances -> Requests]
  BY DEF TypeOK
<1>2. \A j \in Instances : inst'[j] = IF j = i THEN r ELSE inst[j]
  BY DEF TypeOK
<1>3. \A j \in Instances : Sound(inst'[j], generation', oldest', revision')
  BY <1>2 DEF SoundNow
<1>4. discovery' \in Documents \cup {Absent}
  BY OwnDocument
<1>5. jwks' \subseteq Keys
  BY DEF SoFar
<1>6. TypeOK'
  BY <1>1, <1>4, <1>5 DEF TypeOK
<1>7. \A j \in Instances : SoundNow(inst[j])'
  BY <1>3 DEF SoundNow
<1> QED
  BY <1>6, <1>7

(* A request that is answered, with the verdicts that say something apart. *)
LEMMA AnswerSound ==
  ASSUME NEW i \in Instances, Inductive, NEW verdict \in Verdicts,
         NEW keys \in SUBSET Keys, AnswerOn(i, verdict, keys),
         ~At(i, "idle"), keys \subseteq SoFar(generation),
         verdict = "form_post" /\ ListsModes =>
           \E b \in Own(inst[i].cfg, revision) : ~CheckResponseMode(b),
         verdict = "rejected" =>
           /\ OfProvider(inst[i])
           /\ \/ Lost(inst[i], oldest)
              \/ \E k \in keys \ {inst[i].token.key} : Answers(k, inst[i].token)
  PROVE  \E r \in Requests : inst' = [inst EXCEPT ![i] = r] /\ SoundNow(r)
<1> DEFINE r == Done(inst[i], verdict, keys)
<1>1. inst[i] \in Requests /\ inst[i].at # "idle" /\ inst[i].cfg \in Issuers
  BY DEF Inductive, TypeOK, At, SoundNow, Sound, Discovers
<1>2. inst[i].kind \in Kinds /\ inst[i].token \in Tokens \cup {Absent}
  BY <1>1 DEF Requests
<1>3. r \in Requests
  BY <1>1, <1>2, EmptyDocument DEF Done, Requests, Places
<1>4. /\ r.at = "done" /\ r.verdict = verdict
      /\ r.cfg = inst[i].cfg /\ r.token = inst[i].token /\ r.keys = keys
      /\ r.fetches = 0 /\ r.refreshed = FALSE
  BY DEF Done
<1>5. inst' = [inst EXCEPT ![i] = r]
  BY DEF AnswerOn, Inductive, TypeOK
<1> HIDE DEF r
<1>6. Discovers(r, revision)
  BY <1>1, <1>4 DEF Discovers, Past, KeyPlaces
<1>7. Holds(r, generation, oldest)
  BY <1>4 DEF Holds, KeyPlaces, OfProvider, Lost, Old
<1>8. Counts(r, oldest)
  BY <1>4 DEF Counts
<1> QED
  BY <1>3, <1>5, <1>6, <1>7, <1>8 DEF SoundNow, Sound

(* An answer that rests on no key set. *)
LEMMA PlainAnswerSound ==
  ASSUME NEW i \in Instances, Inductive, NEW verdict \in Verdicts, Answer(i, verdict),
         ~At(i, "idle"), verdict # "rejected",
         verdict = "form_post" /\ ListsModes =>
           \E b \in Own(inst[i].cfg, revision) : ~CheckResponseMode(b)
  PROVE  \E r \in Requests : inst' = [inst EXCEPT ![i] = r] /\ SoundNow(r)
BY AnswerSound DEF Answer

(* The caller of Discovery goes on with a document that was checked. *)
LEMMA DiscoveredSound ==
  ASSUME NEW i \in Instances, Inductive, NEW d \in Documents, Discovered(i, d),
         inst[i].at \in {"readDiscovery", "saveDiscovery"},
         d.endpoints \in Issuers,
         ListsEndpoints => d.endpoints = inst[i].cfg,
         ListsModes => \E b \in Own(inst[i].cfg, revision) : d.modes = b.modes
  PROVE  \E r \in Requests : inst' = [inst EXCEPT ![i] = r] /\ SoundNow(r)
<1>1. inst[i] \in Requests /\ Sound(inst[i], generation, oldest, revision)
  BY DEF Inductive, TypeOK, SoundNow
<1>2. CASE Answer(i, "shown")
  BY <1>2, PlainAnswerSound DEF Verdicts, At
<1>3. CASE ~CheckResponseMode(d) /\ Answer(i, "form_post")
  BY <1>3, PlainAnswerSound DEF Verdicts, At, CheckResponseMode
<1>4. ASSUME NEW place \in {"readKeys", "exchange"},
             place = IF inst[i].kind = "begin" THEN "readKeys" ELSE "exchange",
             GoOn(i, place, d)
      PROVE  \E r \in Requests : inst' = [inst EXCEPT ![i] = r] /\ SoundNow(r)
  <2> DEFINE held == [Empty EXCEPT !.endpoints = d.endpoints]
             r    == [inst[i] EXCEPT !.at = place, !.body = Absent, !.d = held]
  <2>1. held \in Documents /\ held.endpoints = d.endpoints
    BY EmptyDocument DEF Empty, Documents
  <2>2. inst' = [inst EXCEPT ![i] = r]
    BY <1>1, <1>4 DEF GoOn, Inductive, TypeOK, Requests
  <2> HIDE DEF held
  <2>3. /\ r \in Requests /\ r.at = place /\ r.d = held /\ r.kind = inst[i].kind
        /\ r.cfg = inst[i].cfg /\ r.token = inst[i].token /\ r.keys = inst[i].keys
        /\ r.fetches = inst[i].fetches /\ r.refreshed = inst[i].refreshed
    BY <1>1, <2>1 DEF Requests, Places
  <2> HIDE DEF r
  <2>4. Discovers(r, revision)
    BY <1>1, <1>4, <2>1, <2>3 DEF Sound, Discovers, Past, KeyPlaces
  <2>5. Holds(r, generation, oldest)
    BY <1>1, <1>4, <2>3 DEF Sound, Holds, KeyPlaces
  <2>6. inst[i].fetches <= 1 /\ ~inst[i].refreshed /\ inst[i].fetches \in 0 .. 4
    BY <1>1 DEF Sound, Counts, Requests
  <2>7. Counts(r, oldest)
    BY <2>3, <2>6 DEF Counts
  <2> QED
    BY <2>2, <2>3, <2>4, <2>5, <2>7 DEF SoundNow, Sound
<1> QED
  BY <1>2, <1>3, <1>4 DEF Discovered

(* The caller of Keys goes on with a set from the cache, or with one it fetched. *)
LEMMA GotKeysSound ==
  ASSUME NEW i \in Instances, Inductive, NEW keys \in SUBSET SoFar(generation),
         GotKeys(i, keys),
         \/ inst[i].at = "readKeys"
         \/ inst[i].at = "saveKeys" /\ keys = inst[i].keys
  PROVE  \E r \in Requests : inst' = [inst EXCEPT ![i] = r] /\ SoundNow(r)
<1> DEFINE token == inst[i].token
<1>1. /\ inst[i] \in Requests /\ Sound(inst[i], generation, oldest, revision)
      /\ keys \in SUBSET Keys
  BY DEF Inductive, TypeOK, SoundNow, SoFar
<1>2. CASE Answer(i, "redirect") \/ Answer(i, "verified")
  BY <1>2, PlainAnswerSound DEF Verdicts, At
<1>3. inst[i].kind = "callback" => OfProvider(inst[i])
  BY <1>1 DEF Sound, Holds, KeyPlaces
<1>4. ASSUME inst[i].kind = "callback", inst[i].at = "saveKeys", UnknownKid(token, keys)
      PROVE  Lost(inst[i], oldest)
  <2>1. token.key \in keys \/ Old(inst[i], oldest)
    BY <1>1, <1>4 DEF Sound, Holds, KeyPlaces
  <2> QED
    BY <1>4, <2>1, NothingFits DEF Lost
<1>5. ASSUME inst[i].kind = "callback", Rejected(i, keys),
             ~UnknownKid(token, keys) \/ inst[i].refreshed
      PROVE  \E r \in Requests : inst' = [inst EXCEPT ![i] = r] /\ SoundNow(r)
  <2>1. CASE UnknownKid(token, keys)
    <3>1. inst[i].at = "saveKeys"
      BY <1>1, <1>5, <2>1 DEF Sound, Counts
    <3>2. Lost(inst[i], oldest)
      BY <1>4, <1>5, <2>1, <3>1
    <3> QED
      BY <1>1, <1>3, <1>5, <3>2, AnswerSound DEF Rejected, Verdicts, At
  <2>2. CASE ~UnknownKid(token, keys)
    <3>1. \E k \in keys \ {token.key} : Answers(k, token)
      BY <1>5, <2>2, AnotherFits DEF Rejected
    <3> QED
      BY <1>1, <1>3, <1>5, <3>1, AnswerSound DEF Rejected, Verdicts, At
  <2> QED
    BY <2>1, <2>2
<1>6. ASSUME inst[i].kind = "callback", UnknownKid(token, keys), ~inst[i].refreshed,
             Refresh(i)
      PROVE  \E r \in Requests : inst' = [inst EXCEPT ![i] = r] /\ SoundNow(r)
  <2> DEFINE r == [inst[i] EXCEPT !.at = "forgetKeys", !.keys = {}]
  <2>1. /\ r \in Requests /\ r.at = "forgetKeys" /\ r.d = inst[i].d /\ r.kind = inst[i].kind
        /\ r.cfg = inst[i].cfg /\ r.token = inst[i].token /\ r.keys = {}
        /\ r.fetches = inst[i].fetches /\ r.refreshed = inst[i].refreshed
    BY <1>1 DEF Requests, Places
  <2>2. inst' = [inst EXCEPT ![i] = r]
    BY <1>1, <1>6 DEF Refresh, Inductive, TypeOK, Requests
  <2> HIDE DEF r
  <2>3. Discovers(r, revision)
    BY <1>1, <2>1 DEF Sound, Discovers, Past, KeyPlaces
  <2>4. Holds(r, generation, oldest)
    BY <1>1, <1>6, <2>1 DEF Sound, Holds, KeyPlaces, OfProvider
  <2>5. /\ inst[i].fetches \in 0 .. 4 /\ inst[i].fetches <= 3
        /\ inst[i].fetches = 3 => Lost(inst[i], oldest)
    BY <1>1, <1>4, <1>6 DEF Sound, Counts, Requests
  <2>6. Counts(r, oldest)
    BY <1>6, <2>1, <2>5 DEF Counts, Lost, Old
  <2> QED
    BY <2>1, <2>2, <2>3, <2>4, <2>6 DEF SoundNow, Sound
<1> QED
  BY <1>2, <1>5, <1>6 DEF GotKeys, Redirected, Verified

-----------------------------------------------------------------------------
(* A request comes in with the issuer configured at that moment. *)
LEMMA ArriveStep == \A i \in Instances : Inductive /\ Arrive(i) => Inductive'
<1> SUFFICES ASSUME NEW i \in Instances, Inductive, Arrive(i) PROVE Inductive'
    OBVIOUS
<1>1. PICK kind \in Kinds :
        inst' = [inst EXCEPT ![i] = [Idle EXCEPT !.at = "readDiscovery",
                                                 !.kind = kind, !.cfg = issuer]]
  BY DEF Arrive
<1> DEFINE r == [Idle EXCEPT !.at = "readDiscovery", !.kind = kind, !.cfg = issuer]
<1>2. issuer \in Issuers /\ Idle \in Requests
  BY IdleSound DEF Inductive, TypeOK
<1>3. /\ r \in Requests /\ r.at = "readDiscovery" /\ r.cfg = issuer /\ r.keys = {}
      /\ r.fetches = 0 /\ r.refreshed = FALSE
  BY <1>2, EmptyDocument DEF Idle, Requests, Places, Kinds, Verdicts
<1>4. inst' = [inst EXCEPT ![i] = r]
  BY <1>1
<1> HIDE DEF r
<1>5. SoundNow(r)
  BY <1>2, <1>3 DEF SoundNow, Sound, Discovers, Holds, Counts, Past, KeyPlaces
<1> QED
  BY <1>3, <1>4, <1>5, OneRequest DEF Arrive, Inductive

(* A move of a request to the fetch of the document, or to the dropping of the
   cached one. *)
LEMMA MoveSound ==
  ASSUME NEW i \in Instances, Inductive, NEW d \in Documents,
         inst[i].at \in {"readDiscovery", "forgetDiscovery"},
         NEW place \in {"forgetDiscovery", "fetchDiscovery"},
         inst' = [inst EXCEPT ![i] = [inst[i] EXCEPT !.at = place, !.d = d]]
  PROVE  \E r \in Requests : inst' = [inst EXCEPT ![i] = r] /\ SoundNow(r)
<1> DEFINE r == [inst[i] EXCEPT !.at = place, !.d = d]
<1>1. inst[i] \in Requests /\ Sound(inst[i], generation, oldest, revision)
  BY DEF Inductive, TypeOK, SoundNow
<1>2. /\ r \in Requests /\ r.at = place /\ r.cfg = inst[i].cfg /\ r.keys = inst[i].keys
      /\ r.fetches = inst[i].fetches /\ r.refreshed = inst[i].refreshed
  BY <1>1 DEF Requests, Places
<1> HIDE DEF r
<1>3. Discovers(r, revision)
  BY <1>1, <1>2 DEF Sound, Discovers, Past, KeyPlaces
<1>4. Holds(r, generation, oldest) /\ Counts(r, oldest)
  BY <1>1, <1>2 DEF Sound, Holds, Counts, KeyPlaces
<1> QED
  BY <1>2, <1>3, <1>4 DEF SoundNow, Sound, r

(* The cached document is one that was published: if it names the configured
   provider it is that provider's. *)
LEMMA ReadDiscoveryStep ==
  \A i \in Instances : Inductive /\ ReadDiscovery(i) => Inductive'
<1> SUFFICES ASSUME NEW i \in Instances, Inductive, ReadDiscovery(i) PROVE Inductive'
    OBVIOUS
<1> DEFINE d == Unmarshal(Empty, discovery)
<1>1. inst[i] \in Requests /\ inst[i].at = "readDiscovery" /\ inst[i].cfg \in Issuers
  BY DEF ReadDiscovery, At, Inductive, TypeOK, SoundNow, Sound, Discovers
<1>2. UNCHANGED <<issuer, providers, discovery, jwks>>
  BY DEF ReadDiscovery
<1>3. SUFFICES \E r \in Requests : inst' = [inst EXCEPT ![i] = r] /\ SoundNow(r)
  BY <1>2, OneRequest DEF Inductive
<1>4. CASE inst' = [inst EXCEPT ![i].at = "fetchDiscovery"]
  <2>1. inst' = [inst EXCEPT ![i] = [inst[i] EXCEPT !.at = "fetchDiscovery", !.d = inst[i].d]]
    BY <1>1, <1>4 DEF Inductive, TypeOK, Requests
  <2>2. inst[i].d \in Documents
    BY <1>1 DEF Requests
  <2> QED
    BY <1>1, <2>1, <2>2, MoveSound
<1>5. ASSUME discovery # Absent
      PROVE  /\ d \in Documents
             /\ d.issuer = inst[i].cfg =>
                  /\ ListsEndpoints => d.endpoints = inst[i].cfg
                  /\ ListsModes => \E b \in Own(inst[i].cfg, revision) : d.modes = b.modes
  <2>1. PICK p \in Issuers : discovery \in Own(p, revision)
    BY <1>5 DEF Inductive
  <2>2. /\ discovery \in Documents /\ discovery.issuer = p
        /\ ListsEndpoints => discovery.endpoints = p
        /\ ListsModes => discovery.modes # Absent
    BY <2>1, OwnDocument DEF Inductive
  <2>3. /\ d \in Documents
        /\ d.issuer = p /\ (ListsEndpoints => d.endpoints = p)
        /\ ListsModes => d.modes = discovery.modes
    BY <2>2, EmptyDocument, UnmarshalFields, AbsentAssumption
  <2> HIDE DEF d
  <2> QED
    BY <2>1, <2>3
<1>6. CASE discovery # Absent /\ checkDiscovery(d, inst[i].cfg) /\ Discovered(i, d)
  <2>1. d \in Documents /\ d.issuer = inst[i].cfg /\ d.endpoints # Absent
    BY <1>5, <1>6 DEF checkDiscovery
  <2>2. d.endpoints \in Issuers
    BY <2>1 DEF Documents
  <2> QED
    BY <1>1, <1>5, <1>6, <2>1, <2>2, DiscoveredSound
<1>7. CASE discovery # Absent /\ inst' = [inst EXCEPT ![i].at = "forgetDiscovery", ![i].d = d]
  <2>1. d \in Documents
    BY <1>5, <1>7
  <2> HIDE DEF d
  <2>2. inst' = [inst EXCEPT ![i] = [inst[i] EXCEPT !.at = "forgetDiscovery", !.d = d]]
    BY <1>1, <1>7 DEF Inductive, TypeOK, Requests
  <2> QED
    BY <1>1, <2>1, <2>2, MoveSound
<1> QED
  BY <1>4, <1>6, <1>7 DEF ReadDiscovery

(* The stale document is dropped and stays in the struct. *)
LEMMA ForgetDiscoveryStep ==
  \A i \in Instances : Inductive /\ ForgetDiscovery(i) => Inductive'
<1> SUFFICES ASSUME NEW i \in Instances, Inductive, ForgetDiscovery(i) PROVE Inductive'
    OBVIOUS
<1>1. inst[i] \in Requests /\ inst[i].at = "forgetDiscovery" /\ inst[i].d \in Documents
  BY DEF ForgetDiscovery, At, Inductive, TypeOK, Requests
<1>2. inst' = [inst EXCEPT ![i] = [inst[i] EXCEPT !.at = "fetchDiscovery", !.d = inst[i].d]]
  BY <1>1 DEF ForgetDiscovery, Inductive, TypeOK, Requests
<1>3. \E r \in Requests : inst' = [inst EXCEPT ![i] = r] /\ SoundNow(r)
  BY <1>1, <1>2, MoveSound
<1> QED
  BY <1>3, OneRequest DEF ForgetDiscovery, Inductive

(* A fetched document is the configured provider's in whatever struct it is read
   into, its endpoints and modes if it lists them. *)
LEMMA FetchDiscoveryStep ==
  \A i \in Instances : Inductive /\ FetchDiscovery(i) => Inductive'
<1> SUFFICES ASSUME NEW i \in Instances, Inductive, FetchDiscovery(i) PROVE Inductive'
    OBVIOUS
<1> DEFINE body == Discovery(inst[i].cfg)
           d    == Unmarshal(inst[i].d, body)
<1>1. inst[i] \in Requests /\ inst[i].at = "fetchDiscovery" /\ inst[i].cfg \in Issuers
  BY DEF FetchDiscovery, At, Inductive, TypeOK, SoundNow, Sound, Discovers
<1>2. UNCHANGED <<issuer, providers, discovery, jwks>>
  BY DEF FetchDiscovery
<1>3. SUFFICES \E r \in Requests : inst' = [inst EXCEPT ![i] = r] /\ SoundNow(r)
  BY <1>2, OneRequest DEF Inductive
<1>4. CASE Answer(i, "failed")
  BY <1>1, <1>4, PlainAnswerSound DEF Verdicts, At
<1>5. CASE /\ checkDiscovery(d, inst[i].cfg)
           /\ inst' = [inst EXCEPT ![i].at = "saveDiscovery", ![i].d = d,
                                   ![i].body = body, ![i].fetches = @ + 1]
  <2>1. body \in Own(inst[i].cfg, revision)
    BY <1>1, NowOwn DEF Inductive
  <2>2. inst[i].d \in Documents /\ body \in Documents /\ body.issuer = inst[i].cfg
        /\ (ListsEndpoints => body.endpoints = inst[i].cfg)
        /\ (ListsModes => body.modes # Absent)
    BY <1>1, <2>1, OwnDocument DEF Inductive, Requests
  <2> HIDE DEF body
  <2>3. /\ d \in Documents
        /\ ListsEndpoints => d.endpoints = inst[i].cfg
        /\ ListsModes => d.modes = body.modes
    BY <1>1, <2>2, UnmarshalFields, AbsentAssumption
  <2>4. d.endpoints \in Issuers
    BY <1>5, <2>3 DEF checkDiscovery, Documents
  <2> HIDE DEF d
  <2>5. inst[i].fetches = 0 /\ ~inst[i].refreshed /\ inst[i].keys = {}
    BY <1>1 DEF Inductive, SoundNow, Sound, Counts, Holds
  <2> DEFINE count == inst[i].fetches + 1
             r == [inst[i] EXCEPT !.at = "saveDiscovery", !.d = d, !.body = body,
                                  !.fetches = count]
  <2>6. inst' = [inst EXCEPT ![i] = r]
    BY <1>1, <1>5 DEF Inductive, TypeOK, Requests
  <2>7. count = 1 /\ count \in 0 .. 4
    BY <2>5
  <2> HIDE DEF count
  <2>8. /\ r \in Requests /\ r.at = "saveDiscovery" /\ r.d = d /\ r.body = body
        /\ r.cfg = inst[i].cfg /\ r.keys = inst[i].keys /\ r.fetches = count
        /\ r.refreshed = inst[i].refreshed
    BY <1>1, <2>2, <2>3, <2>7 DEF Requests, Places
  <2> HIDE DEF r
  <2>9. Discovers(r, revision)
    BY <1>1, <2>1, <2>3, <2>4, <2>8 DEF Discovers, KeyPlaces
  <2>10. Holds(r, generation, oldest) /\ Counts(r, oldest)
    BY <2>5, <2>7, <2>8 DEF Holds, Counts, KeyPlaces
  <2> QED
    BY <2>6, <2>8, <2>9, <2>10 DEF SoundNow, Sound
<1> QED
  BY <1>4, <1>5 DEF FetchDiscovery

(* What is cached is the body, which is the provider's own. *)
LEMMA SaveDiscoveryStep == \A i \in Instances : Inductive /\ SaveDiscovery(i) => Inductive'
<1> SUFFICES ASSUME NEW i \in Instances, Inductive, SaveDiscovery(i) PROVE Inductive'
    OBVIOUS
<1>1. /\ inst[i] \in Requests /\ inst[i].at = "saveDiscovery" /\ inst[i].d \in Documents
      /\ Discovers(inst[i], revision)
  BY DEF SaveDiscovery, At, Inductive, TypeOK, Requests, SoundNow, Sound
<1>2. /\ inst[i].cfg \in Issuers /\ inst[i].d.endpoints \in Issuers
      /\ inst[i].body \in Own(inst[i].cfg, revision)
      /\ ListsEndpoints => inst[i].d.endpoints = inst[i].cfg
      /\ ListsModes => inst[i].d.modes = inst[i].body.modes
  BY <1>1 DEF Discovers, Past
<1>3. \E r \in Requests : inst' = [inst EXCEPT ![i] = r] /\ SoundNow(r)
  BY <1>1, <1>2, DiscoveredSound DEF SaveDiscovery
<1>4. discovery' = Absent \/ \E p \in Issuers : discovery' \in Own(p, revision)
  BY <1>2 DEF SaveDiscovery, Inductive
<1> QED
  BY <1>3, <1>4, OneRequest DEF SaveDiscovery, Inductive

(* The token is the configured provider's, signed with a key it publishes. *)
LEMMA ExchangeStep == \A i \in Instances : Inductive /\ Exchange(i) => Inductive'
<1> SUFFICES ASSUME NEW i \in Instances, Inductive, Exchange(i) PROVE Inductive'
    OBVIOUS
<1>1. /\ inst[i] \in Requests /\ inst[i].at = "exchange"
      /\ Sound(inst[i], generation, oldest, revision)
  BY DEF Exchange, At, Inductive, TypeOK, SoundNow
<1>2. SUFFICES \E r \in Requests : inst' = [inst EXCEPT ![i] = r] /\ SoundNow(r)
  BY OneRequest DEF Exchange, Inductive
<1>3. CASE Answer(i, "failed")
  BY <1>1, <1>3, PlainAnswerSound DEF Verdicts, At
<1>4. ASSUME NEW key \in KeySet(inst[i].cfg), NEW kid \in {Absent, Kid[key]},
             inst[i].d.endpoints = inst[i].cfg,
             inst' = [inst EXCEPT ![i].at = "readKeys", ![i].fetches = @ + 1,
                                  ![i].token = [key |-> key, kid |-> kid]]
      PROVE  \E r \in Requests : inst' = [inst EXCEPT ![i] = r] /\ SoundNow(r)
  <2> DEFINE token == [key |-> key, kid |-> kid]
             count == inst[i].fetches + 1
             r     == [inst[i] EXCEPT !.at = "readKeys", !.fetches = count, !.token = token]
  <2>1. /\ inst[i].cfg \in Issuers /\ inst[i].fetches <= 1 /\ inst[i].fetches \in 0 .. 4
        /\ ~inst[i].refreshed /\ inst[i].keys = {}
    BY <1>1 DEF Sound, Discovers, Holds, Counts, Requests
  <2>2. key \in Keys /\ key[1] = inst[i].cfg /\ key[2] <= generation[inst[i].cfg]
    BY <2>1, KeySetFields DEF Inductive, KeySet, SoFar
  <2>3. /\ token \in Tokens /\ token.key[1] = inst[i].cfg
        /\ token.key[2] <= generation[inst[i].cfg]
    BY <2>2 DEF Tokens
  <2>4. count \in 0 .. 4 /\ count <= 2
    BY <2>1
  <2>5. inst' = [inst EXCEPT ![i] = r]
    BY <1>1, <1>4 DEF Inductive, TypeOK, Requests
  <2> HIDE DEF token, count
  <2>6. /\ r \in Requests /\ r.at = "readKeys" /\ r.d = inst[i].d /\ r.kind = inst[i].kind
        /\ r.cfg = inst[i].cfg /\ r.token = token /\ r.keys = {} /\ r.fetches = count
        /\ r.refreshed = inst[i].refreshed
    BY <1>1, <2>1, <2>3, <2>4 DEF Requests, Places
  <2> HIDE DEF r
  <2>7. Discovers(r, revision)
    BY <1>1, <1>4, <2>6 DEF Sound, Discovers, Past, KeyPlaces
  <2>8. Holds(r, generation, oldest)
    BY <2>3, <2>6 DEF Holds, KeyPlaces, OfProvider
  <2>9. Counts(r, oldest)
    BY <2>1, <2>4, <2>6 DEF Counts
  <2> QED
    BY <2>5, <2>6, <2>7, <2>8, <2>9 DEF SoundNow, Sound
<1> QED
  BY <1>3, <1>4 DEF Exchange

(* A move of a request to the fetch of the key set: with no row in the cache, or
   for the refresh. *)
LEMMA ToFetchKeysSound ==
  ASSUME NEW i \in Instances, Inductive, NEW refreshed \in BOOLEAN,
         \/ inst[i].at = "readKeys" /\ ~refreshed
         \/ inst[i].at = "forgetKeys" /\ refreshed,
         inst' = [inst EXCEPT ![i] =
                    [inst[i] EXCEPT !.at = "fetchKeys", !.refreshed = refreshed]]
  PROVE  \E r \in Requests : inst' = [inst EXCEPT ![i] = r] /\ SoundNow(r)
<1> DEFINE r == [inst[i] EXCEPT !.at = "fetchKeys", !.refreshed = refreshed]
<1>1. inst[i] \in Requests /\ Sound(inst[i], generation, oldest, revision)
  BY DEF Inductive, TypeOK, SoundNow
<1>2. /\ r \in Requests /\ r.at = "fetchKeys" /\ r.d = inst[i].d /\ r.kind = inst[i].kind
      /\ r.cfg = inst[i].cfg /\ r.token = inst[i].token /\ r.keys = inst[i].keys
      /\ r.fetches = inst[i].fetches /\ r.refreshed = refreshed
  BY <1>1 DEF Requests, Places
<1>3. inst' = [inst EXCEPT ![i] = r]
  OBVIOUS
<1> HIDE DEF r
<1>4. Discovers(r, revision)
  BY <1>1, <1>2 DEF Sound, Discovers, Past, KeyPlaces
<1>5. Holds(r, generation, oldest)
  BY <1>1, <1>2 DEF Sound, Holds, KeyPlaces, OfProvider
<1>6. /\ inst[i].at = "readKeys" => inst[i].fetches <= 2
      /\ inst[i].at = "forgetKeys" =>
           /\ inst[i].fetches <= 3 /\ inst[i].kind = "callback"
           /\ inst[i].fetches = 3 => Lost(inst[i], oldest)
      /\ inst[i].fetches \in 0 .. 4
  BY <1>1 DEF Sound, Holds, Counts, Requests
<1>7. Counts(r, oldest)
  BY <1>2, <1>6 DEF Counts, Lost, Old
<1> QED
  BY <1>2, <1>3, <1>4, <1>5, <1>7 DEF SoundNow, Sound

(* The first read of the key set. *)
LEMMA ReadKeysStep == \A i \in Instances : Inductive /\ ReadKeys(i) => Inductive'
<1> SUFFICES ASSUME NEW i \in Instances, Inductive, ReadKeys(i) PROVE Inductive'
    OBVIOUS
<1>1. /\ inst[i] \in Requests /\ inst[i].at = "readKeys" /\ ~inst[i].refreshed
      /\ jwks \in SUBSET SoFar(generation)
  BY DEF ReadKeys, At, Inductive, TypeOK, SoundNow, Sound, Counts
<1>2. SUFFICES \E r \in Requests : inst' = [inst EXCEPT ![i] = r] /\ SoundNow(r)
  BY OneRequest DEF ReadKeys, Inductive
<1>3. CASE inst' = [inst EXCEPT ![i].at = "fetchKeys"]
  <2>1. inst[i].refreshed = FALSE
    BY <1>1 DEF Requests
  <2>2. inst' = [inst EXCEPT ![i] =
                   [inst[i] EXCEPT !.at = "fetchKeys", !.refreshed = FALSE]]
    BY <1>1, <1>3, <2>1 DEF Inductive, TypeOK, Requests
  <2> QED
    BY <1>1, <2>2, ToFetchKeysSound
<1>4. CASE GotKeys(i, jwks)
  BY <1>1, <1>4, GotKeysSound
<1> QED
  BY <1>3, <1>4 DEF ReadKeys

(* The refresh. *)
LEMMA ForgetKeysStep == \A i \in Instances : Inductive /\ ForgetKeys(i) => Inductive'
<1> SUFFICES ASSUME NEW i \in Instances, Inductive, ForgetKeys(i) PROVE Inductive'
    OBVIOUS
<1>1. inst[i] \in Requests /\ inst[i].at = "forgetKeys"
  BY DEF ForgetKeys, At, Inductive, TypeOK
<1>2. inst' = [inst EXCEPT ![i] =
                 [inst[i] EXCEPT !.at = "fetchKeys", !.refreshed = TRUE]]
  BY <1>1 DEF ForgetKeys, Inductive, TypeOK, Requests
<1>3. \E r \in Requests : inst' = [inst EXCEPT ![i] = r] /\ SoundNow(r)
  BY <1>1, <1>2, ToFetchKeysSound
<1> QED
  BY <1>3, OneRequest DEF ForgetKeys, Inductive

(* A set that is fetched is of the provider whose endpoints are in hand; a callback's
   is the configured provider's, and is without the token's key only if that key has
   been retired since the token was issued. *)
LEMMA FetchKeysStep == \A i \in Instances : Inductive /\ FetchKeys(i) => Inductive'
<1> SUFFICES ASSUME NEW i \in Instances, Inductive, FetchKeys(i) PROVE Inductive'
    OBVIOUS
<1>1. /\ inst[i] \in Requests /\ inst[i].at = "fetchKeys"
      /\ Sound(inst[i], generation, oldest, revision)
  BY DEF FetchKeys, At, Inductive, TypeOK, SoundNow
<1>2. SUFFICES \E r \in Requests : inst' = [inst EXCEPT ![i] = r] /\ SoundNow(r)
  BY OneRequest DEF FetchKeys, Inductive
<1>3. CASE Answer(i, "failed")
  BY <1>1, <1>3, PlainAnswerSound DEF Verdicts, At
<1>4. CASE inst' = [inst EXCEPT ![i].at = "saveKeys", ![i].fetches = @ + 1,
                                ![i].keys = KeySet(inst[i].d.endpoints)]
  <2> DEFINE keys  == KeySet(inst[i].d.endpoints)
             count == inst[i].fetches + 1
             r     == [inst[i] EXCEPT !.at = "saveKeys", !.fetches = count, !.keys = keys]
  <2>1. /\ inst[i].cfg \in Issuers /\ inst[i].d.endpoints \in Issuers
        /\ inst[i].kind = "callback" => inst[i].d.endpoints = inst[i].cfg
    BY <1>1 DEF Sound, Discovers, Past, KeyPlaces
  <2>2. keys # {} /\ keys \subseteq SoFar(generation) /\ keys \subseteq Keys
    BY <2>1, KeySetFields DEF Inductive, SoFar
  <2>3. inst[i].kind = "callback" =>
          /\ OfProvider(inst[i]) /\ inst[i].token.key[2] <= generation[inst[i].cfg]
    BY <1>1 DEF Sound, Holds, KeyPlaces
  <2>4. inst[i].kind = "callback" =>
          inst[i].token.key \in keys \/ Old(inst[i], oldest)
    <3> SUFFICES ASSUME inst[i].kind = "callback", ~Old(inst[i], oldest)
                 PROVE  inst[i].token.key \in keys
        OBVIOUS
    <3> DEFINE key == inst[i].token.key
    <3>1. key \in Keys /\ key[1] = inst[i].cfg /\ key[2] <= generation[inst[i].cfg]
      BY <2>3 DEF OfProvider, Tokens
    <3>2. key[2] \in Nat /\ oldest[inst[i].cfg] \in Nat
      BY <2>1, <3>1, KeyFields DEF Inductive, TypeOK
    <3>3. oldest[inst[i].cfg] <= key[2]
      BY <3>2 DEF Old
    <3> QED
      BY <2>1, <3>1, <3>3, KeySetFields DEF Inductive
  <2>5. /\ inst[i].fetches <= IF inst[i].refreshed THEN 3 ELSE 2
        /\ inst[i].fetches \in 0 .. 4 /\ inst[i].refreshed \in BOOLEAN
        /\ inst[i].refreshed => inst[i].kind = "callback"
        /\ inst[i].fetches = 3 => Lost(inst[i], oldest)
    BY <1>1 DEF Sound, Counts, Requests
  <2>6. /\ count \in 0 .. 4
        /\ count <= IF inst[i].refreshed THEN 4 ELSE 3
        /\ count = 4 => inst[i].refreshed /\ Lost(inst[i], oldest)
    BY <2>5
  <2>7. inst' = [inst EXCEPT ![i] = r]
    BY <1>1, <1>4 DEF Inductive, TypeOK, Requests
  <2> HIDE DEF keys, count
  <2>8. /\ r \in Requests /\ r.at = "saveKeys" /\ r.d = inst[i].d /\ r.kind = inst[i].kind
        /\ r.cfg = inst[i].cfg /\ r.token = inst[i].token /\ r.keys = keys
        /\ r.fetches = count /\ r.refreshed = inst[i].refreshed
    BY <1>1, <2>2, <2>6 DEF Requests, Places
  <2> HIDE DEF r
  <2>9. Discovers(r, revision)
    BY <1>1, <2>8 DEF Sound, Discovers, Past, KeyPlaces
  <2>10. Holds(r, generation, oldest)
    BY <2>2, <2>3, <2>4, <2>8 DEF Holds, KeyPlaces, OfProvider, Old
  <2>11. Counts(r, oldest)
    BY <2>3, <2>5, <2>6, <2>8 DEF Counts, OfProvider, Lost, Old
  <2> QED
    BY <2>7, <2>8, <2>9, <2>10, <2>11 DEF SoundNow, Sound
<1> QED
  BY <1>3, <1>4 DEF FetchKeys

(* The set goes to the cache and to the caller. *)
LEMMA SaveKeysStep == \A i \in Instances : Inductive /\ SaveKeys(i) => Inductive'
<1> SUFFICES ASSUME NEW i \in Instances, Inductive, SaveKeys(i) PROVE Inductive'
    OBVIOUS
<1>1. inst[i].at = "saveKeys" /\ inst[i].keys \in SUBSET SoFar(generation)
  BY DEF SaveKeys, At, Inductive, SoundNow, Sound, Holds
<1>2. \E r \in Requests : inst' = [inst EXCEPT ![i] = r] /\ SoundNow(r)
  BY <1>1, GotKeysSound DEF SaveKeys
<1> QED
  BY <1>1, <1>2, OneRequest DEF SaveKeys, Inductive

(* The instance is gone. *)
LEMMA EndStep == \A i \in Instances : Inductive /\ End(i) => Inductive'
BY IdleSound, OneRequest DEF End, Inductive, SoundNow

-----------------------------------------------------------------------------
(* What is sound stays sound while keys and documents are only added and keys only
   retired. *)
LEMMA ProvidersGrow ==
  ASSUME NEW r \in Requests,
         NEW gen \in [Issuers -> Nat], NEW gen2 \in [Issuers -> Nat],
         NEW old \in [Issuers -> Nat], NEW old2 \in [Issuers -> Nat],
         NEW rev \in [Issuers -> Nat], NEW rev2 \in [Issuers -> Nat],
         \A p \in Issuers : gen[p] <= gen2[p] /\ old[p] <= old2[p] /\ rev[p] <= rev2[p],
         Sound(r, gen, old, rev)
  PROVE  Sound(r, gen2, old2, rev2)
<1>1. \A p \in Issuers : Own(p, rev) \subseteq Own(p, rev2)
  BY DEF Own
<1>2. SoFar(gen) \subseteq SoFar(gen2)
  BY KeyFields DEF SoFar
<1>3. ASSUME OfProvider(r), r.cfg \in Issuers
      PROVE  /\ r.token.key[2] <= gen[r.cfg] => r.token.key[2] <= gen2[r.cfg]
             /\ Old(r, old) => Old(r, old2)
             /\ Lost(r, old) => Lost(r, old2)
  <2>1. r.token.key[2] \in Nat
    BY <1>3, KeyFields DEF OfProvider, Tokens
  <2>2. /\ gen[r.cfg] \in Nat /\ gen2[r.cfg] \in Nat /\ gen[r.cfg] <= gen2[r.cfg]
        /\ old[r.cfg] \in Nat /\ old2[r.cfg] \in Nat /\ old[r.cfg] <= old2[r.cfg]
    BY <1>3
  <2> QED
    BY <2>1, <2>2 DEF Old, Lost
<1>4. r.at # "idle" => r.cfg \in Issuers
  BY DEF Sound, Discovers
<1>5. Discovers(r, rev2)
  BY <1>1, <1>4 DEF Sound, Discovers, Past, KeyPlaces
<1>6. Holds(r, gen2, old2)
  BY <1>2, <1>3, <1>4 DEF Sound, Holds, KeyPlaces
<1>7. r.at \in {"forgetKeys", "fetchKeys"} /\ r.fetches = 3 => OfProvider(r)
  BY DEF Sound, Holds, Counts, KeyPlaces
<1>8. Counts(r, old2)
  BY <1>3, <1>4, <1>7 DEF Sound, Counts
<1> QED
  BY <1>5, <1>6, <1>8 DEF Sound

(* A step of the providers, after which they have published what they had before
   and maybe more. *)
LEMMA GrowStep ==
  ASSUME Inductive, UNCHANGED <<issuer, discovery, jwks, inst>>,
         generation' \in [Issuers -> Nat], oldest' \in [Issuers -> Nat],
         revision' \in [Issuers -> Nat],
         \A p \in Issuers :
           /\ generation[p] <= generation'[p] /\ oldest[p] <= oldest'[p]
           /\ revision[p] <= revision'[p]
           /\ oldest'[p] <= generation'[p] /\ generation'[p] <= Rotations[p]
           /\ revision'[p] \in DOMAIN Published[p]
  PROVE  Inductive'
<1>1. /\ generation \in [Issuers -> Nat] /\ oldest \in [Issuers -> Nat]
      /\ revision \in [Issuers -> Nat]
  BY DEF Inductive, TypeOK
<1>2. TypeOK'
  BY DEF Inductive, TypeOK
<1>3. \A i \in Instances : SoundNow(inst[i])'
  <2> SUFFICES ASSUME NEW i \in Instances
               PROVE  Sound(inst[i], generation', oldest', revision')
      BY DEF SoundNow
  <2>1. inst[i] \in Requests /\ Sound(inst[i], generation, oldest, revision)
    BY DEF Inductive, TypeOK, SoundNow
  <2> QED
    BY <1>1, <2>1, ProvidersGrow
<1>4. \A p \in Issuers : Own(p, revision) \subseteq Own(p, revision')
  BY <1>1 DEF Own
<1>5. jwks \subseteq SoFar(generation')
  BY <1>1, KeyFields DEF Inductive, SoFar
<1> QED
  BY <1>2, <1>3, <1>4, <1>5 DEF Inductive

(* A provider adds a key, drops one, or changes its document. *)
LEMMA ProviderStep == Inductive /\ (Rotate \/ Retire \/ Revise) => Inductive'
<1> SUFFICES ASSUME Inductive, Rotate \/ Retire \/ Revise PROVE Inductive'
    OBVIOUS
<1>1. /\ generation \in [Issuers -> Nat] /\ oldest \in [Issuers -> Nat]
      /\ revision \in [Issuers -> Nat]
      /\ \A p \in Issuers : /\ oldest[p] <= generation[p] /\ generation[p] <= Rotations[p]
                            /\ revision[p] \in DOMAIN Published[p]
      /\ Rotations \in [Issuers -> Nat]
  BY KeysAssumption DEF Inductive, TypeOK
<1>2. CASE Rotate
  <2>1. PICK p \in Issuers : /\ generation[p] < Rotations[p]
                             /\ generation' = [generation EXCEPT ![p] = @ + 1]
    BY <1>2 DEF Rotate
  <2>2. UNCHANGED <<issuer, oldest, revision, discovery, jwks, inst>>
    BY <1>2 DEF Rotate
  <2>3. generation' \in [Issuers -> Nat]
    BY <1>1, <2>1
  <2>4. \A q \in Issuers : generation[q] <= generation'[q] /\ generation'[q] <= Rotations[q]
    BY <1>1, <2>1
  <2> QED
    BY <1>1, <2>2, <2>3, <2>4, GrowStep
<1>3. CASE Retire
  <2>1. PICK p \in Issuers : /\ oldest[p] < generation[p]
                             /\ oldest' = [oldest EXCEPT ![p] = @ + 1]
    BY <1>3 DEF Retire
  <2>2. UNCHANGED <<issuer, generation, revision, discovery, jwks, inst>>
    BY <1>3 DEF Retire
  <2>3. oldest' \in [Issuers -> Nat]
    BY <1>1, <2>1
  <2>4. \A q \in Issuers : oldest[q] <= oldest'[q] /\ oldest'[q] <= generation[q]
    BY <1>1, <2>1
  <2> QED
    BY <1>1, <2>2, <2>3, <2>4, GrowStep
<1>4. CASE Revise
  <2>1. PICK p \in Issuers : /\ revision[p] < Len(Published[p])
                             /\ revision' = [revision EXCEPT ![p] = @ + 1]
    BY <1>4 DEF Revise
  <2>2. UNCHANGED <<issuer, generation, oldest, discovery, jwks, inst>>
    BY <1>4 DEF Revise
  <2>3. revision' \in [Issuers -> Nat]
    BY <1>1, <2>1
  <2>4. \A q \in Issuers : Published[q] \in Seq(Documents)
    BY PublishedAssumption
  <2>5. \A q \in Issuers : revision[q] <= revision'[q] /\ revision'[q] \in DOMAIN Published[q]
    BY <1>1, <2>1, <2>4
  <2> QED
    BY <1>1, <2>2, <2>3, <2>5, GrowStep
<1> QED
  BY <1>2, <1>3, <1>4

(* The operator and the clock. *)
LEMMA OutsideStep == Inductive /\ (Repoint \/ Expire \/ UNCHANGED vars) => Inductive'
<1>1. ASSUME Inductive, UNCHANGED <<providers, inst>>, issuer' \in Issuers,
             discovery' \in {Absent, discovery}, jwks' \in {{}, jwks}
      PROVE  Inductive'
  BY <1>1 DEF Inductive, TypeOK, SoundNow, providers
<1>2. Inductive /\ Repoint => Inductive'
  BY <1>1 DEF Repoint
<1>3. Inductive /\ Expire => Inductive'
  BY <1>1 DEF Inductive, TypeOK, Expire
<1>4. Inductive /\ UNCHANGED vars => Inductive'
  BY <1>1 DEF Inductive, TypeOK, vars, providers
<1> QED
  BY <1>2, <1>3, <1>4

(* The invariant holds initially and every step keeps it. *)
LEMMA AlwaysInductive == Spec => []Inductive
<1>1. Inductive /\ [Next]_vars => Inductive'
  BY ArriveStep, ReadDiscoveryStep, ForgetDiscoveryStep, FetchDiscoveryStep,
     SaveDiscoveryStep, ExchangeStep, ReadKeysStep, ForgetKeysStep, FetchKeysStep,
     SaveKeysStep, EndStep, ProviderStep, OutsideStep
     DEF Next, Step
<1> QED
  BY <1>1, InitInductive, PTL DEF Spec

-----------------------------------------------------------------------------
(* Every request, cached row and setting has its type, however many requests run;
   in particular no request makes a fifth fetch. *)
THEOREM TypeCorrect == Spec => []TypeOK
<1>1. Inductive => TypeOK
  BY DEF Inductive
<1> QED
  BY <1>1, AlwaysInductive, PTL

(* Whatever the operator configures while requests run, a request talks to the
   provider that was configured when it came in (checkDiscovery). *)
THEOREM EndpointsStay == ASSUME ListsEndpoints PROVE Spec => []EndpointsAreTheProviders
<1>1. Inductive => EndpointsAreTheProviders
  BY DEF Inductive, EndpointsAreTheProviders, SoundNow, Sound, Discovers, Past, KeyPlaces
<1> QED
  BY <1>1, AlwaysInductive, PTL

(* A lost key is one that what the provider publishes now does not verify with. *)
LEMMA LostIsLost ==
  ASSUME TypeOK, NEW r \in Requests, r.cfg \in Issuers, OfProvider(r), Lost(r, oldest)
  PROVE  r.token.key \notin Candidates(r.token, KeySet(r.cfg))
<1>1. CASE Old(r, oldest)
  <2>1. r.token.key[2] \in Nat /\ oldest[r.cfg] \in Nat
    BY KeyFields DEF OfProvider, Tokens, TypeOK
  <2>2. r.token.key \notin KeySet(r.cfg)
    BY <1>1, <2>1, KeySetFields DEF Old
  <2> QED
    BY <2>2 DEF Candidates
<1>2. CASE ~Answers(r.token.key, r.token)
  BY <1>2 DEF Candidates
<1> QED
  BY <1>1, <1>2 DEF Lost

(* A refused token would be refused with the provider's key set of now, or was
   judged on a set in which another key answered to its header (Exchange's one
   refresh is enough for the rest). *)
THEOREM RefusalsAreFinal == Spec => []RefusalIsFinal
<1>1. Inductive => RefusalIsFinal
  <2> SUFFICES ASSUME Inductive, NEW i \in Instances, Answered(i, "rejected"),
                      ~\E k \in inst[i].keys \ {inst[i].token.key} : Answers(k, inst[i].token)
               PROVE  ~Verifies(inst[i].token, KeySet(inst[i].cfg))
      BY DEF RefusalIsFinal
  <2>1. /\ inst[i].at = "done" /\ inst[i].verdict = "rejected" /\ inst[i] \in Requests
        /\ Sound(inst[i], generation, oldest, revision)
    BY DEF Answered, At, Inductive, TypeOK, SoundNow
  <2>2. inst[i].cfg \in Issuers /\ OfProvider(inst[i]) /\ Lost(inst[i], oldest)
    BY <2>1 DEF Sound, Discovers, Holds
  <2>3. inst[i].token.key \notin Candidates(inst[i].token, KeySet(inst[i].cfg))
    BY <2>1, <2>2, LostIsLost DEF Inductive
  <2> QED
    BY <2>3 DEF Verifies
<1> QED
  BY <1>1, AlwaysInductive, PTL

(* Three fetches suffice unless the token's key is retired meanwhile, or was never
   published for such a token. *)
THEOREM FetchesSuffice == Spec => []ThreeFetchesSuffice
<1>1. Inductive => ThreeFetchesSuffice
  <2> SUFFICES ASSUME Inductive, NEW i \in Instances, inst[i].fetches = 4
               PROVE  inst[i].token.key
                        \notin Candidates(inst[i].token, KeySet(inst[i].cfg))
      BY DEF ThreeFetchesSuffice
  <2>1. inst[i] \in Requests /\ Sound(inst[i], generation, oldest, revision)
    BY DEF Inductive, TypeOK, SoundNow
  <2>2. OfProvider(inst[i]) /\ Lost(inst[i], oldest) /\ inst[i].at # "idle"
    BY <2>1 DEF Sound, Counts
  <2>3. inst[i].cfg \in Issuers
    BY <2>1, <2>2 DEF Sound, Discovers
  <2> QED
    BY <2>1, <2>2, <2>3, LostIsLost DEF Inductive
<1> QED
  BY <1>1, AlwaysInductive, PTL

(* A provider whose documents say which response modes there are is refused on one
   of those documents only, never on another provider's (CheckResponseMode). *)
THEOREM RefusedOnItsOwnModes ==
  ASSUME ListsModes PROVE Spec => []RefusedOnlyWhenAdvertised
<1>1. Inductive => RefusedOnlyWhenAdvertised
  BY DEF Inductive, RefusedOnlyWhenAdvertised, Answered, At, SoundNow, Sound, Discovers,
         Own
<1> QED
  BY <1>1, AlwaysInductive, PTL

-----------------------------------------------------------------------------
(* The refinement.  Besides what is sound of a request there is only to know that
   it has no token before the exchange, and is where its kind and a document of its
   own provider let it be. *)
Numbered(p, rev) == {<<p, n>> : n \in 1 .. rev[p]}

Judged(r, rev) ==
    /\ r.at = "idle" => r = Idle
    /\ r.at \notin KeyPlaces \cup {"done"} => r.token = Absent
    /\ r.at = "exchange" => r.kind = "callback" /\ Numbered(r.cfg, rev) \cap Usable # {}
    /\ r.at = "saveDiscovery" => checkDiscovery(r.body, r.cfg)
    /\ r.at \in KeyPlaces /\ r.kind = "begin" =>
         (Numbered(r.cfg, rev) \cap Usable) \ FormPostOnly # {}

AllJudged == \A i \in Instances : Judged(inst[i], revision)

Mapped == [i \in Instances |-> Asked(inst[i])]

(* Of what the requests are told apart, nothing changes. *)
Surroundings == UNCHANGED <<issuer, generation, oldest, revision>>

(* A step of one request that is a step of the same request without a cache, or
   one it does not notice. *)
Follows(i) ==
    \/ UNCHANGED Mapped
    \/ Uncached!Ask(i) \/ Uncached!Issue(i) \/ Uncached!Decide(i) \/ Uncached!Leave(i)

(* A document a provider has published stands for its number. *)
LEMMA OwnNumber ==
  ASSUME TypeOK, NEW p \in Issuers, NEW b \in Own(p, revision)
  PROVE  \E v \in Numbered(p, revision) :
           /\ v \in Usable <=> checkDiscovery(b, p)
           /\ v \in FormPostOnly <=> ~CheckResponseMode(b)
<1>1. PICK n \in 1 .. revision[p] : b = Published[p][n]
  BY DEF Own
<1>2. Published[p] \in Seq(Documents) /\ revision[p] \in DOMAIN Published[p]
  BY PublishedAssumption DEF TypeOK
<1>3. n \in DOMAIN Published[p]
  BY <1>2
<1> DEFINE v == <<p, n>>
<1>4. v \in Revisions /\ v[1] = p /\ v[2] = n
  BY <1>3 DEF Revisions
<1> HIDE DEF v
<1>5. /\ v \in Usable <=> checkDiscovery(b, p)
      /\ v \in FormPostOnly <=> ~CheckResponseMode(b)
  BY <1>1, <1>4 DEF Usable, FormPostOnly
<1>6. v \in Numbered(p, revision)
  BY DEF v, Numbered
<1> QED
  BY <1>5, <1>6

(* What becomes of one request is all that becomes of the requests. *)
LEMMA MappedOne ==
  ASSUME TypeOK, NEW i \in Instances, NEW r, inst' = [inst EXCEPT ![i] = r]
  PROVE  Mapped' = [Mapped EXCEPT ![i] = Asked(r)]
<1>1. \A j \in Instances : inst'[j] = IF j = i THEN r ELSE inst[j]
  BY DEF TypeOK
<1> QED
  BY <1>1 DEF Mapped, Asked

LEMMA JudgedOne ==
  ASSUME TypeOK, AllJudged, NEW i \in Instances, NEW r, inst' = [inst EXCEPT ![i] = r],
         Surroundings, Judged(r, revision)
  PROVE  AllJudged'
<1>1. \A j \in Instances : inst'[j] = IF j = i THEN r ELSE inst[j]
  BY DEF TypeOK
<1>2. \A j \in Instances : Judged(inst'[j], revision')
  BY <1>1 DEF AllJudged, Surroundings
<1> QED
  BY <1>2 DEF AllJudged

(* A move that leaves the kind, the provider and the token alone is not noticed. *)
LEMMA QuietMove ==
  ASSUME TypeOK, AllJudged, NEW i \in Instances, NEW r, inst' = [inst EXCEPT ![i] = r],
         inst[i].at # "done", r.at # "done",
         r.kind = inst[i].kind, r.cfg = inst[i].cfg, r.token = inst[i].token,
         Surroundings, Judged(r, revision)
  PROVE  Follows(i) /\ AllJudged'
<1>1. Asked(r) = Asked(inst[i])
  BY DEF Asked
<1>2. Mapped' = [Mapped EXCEPT ![i] = Asked(inst[i])]
  BY <1>1, MappedOne
<1>3. Mapped' = Mapped
  BY <1>2 DEF Mapped
<1> QED
  BY <1>3, JudgedOne DEF Follows

(* An answer that is justified is a decision, and leaves nothing to be judged. *)
LEMMA AnswerFollows ==
  ASSUME TypeOK, AllJudged, NEW i \in Instances, NEW verdict \in Verdicts, NEW keys,
         AnswerOn(i, verdict, keys), Surroundings, inst[i].at # "done",
         inst[i].cfg \in Issuers, Uncached!Justified(Asked(inst[i]), verdict)
  PROVE  Follows(i) /\ AllJudged'
<1> DEFINE r == Done(inst[i], verdict, keys)
<1>1. inst' = [inst EXCEPT ![i] = r]
  BY DEF AnswerOn, TypeOK
<1>2. /\ r.at = "done" /\ r.verdict = verdict
      /\ r.kind = inst[i].kind /\ r.cfg = inst[i].cfg /\ r.token = inst[i].token
  BY DEF Done
<1> HIDE DEF r
<1>3. AllJudged'
  <2>1. Judged(r, revision)
    BY <1>2 DEF Judged, KeyPlaces
  <2> QED
    BY <1>1, <2>1, JudgedOne
<1>4. Mapped' = [Mapped EXCEPT ![i] = Asked(r)]
  BY <1>1, MappedOne
<1>5. Asked(r) = [Asked(inst[i]) EXCEPT !.verdict = verdict]
  BY <1>2 DEF Asked
<1>6. Mapped[i] = Asked(inst[i])
  BY DEF Mapped
<1>7. Mapped' = [Mapped EXCEPT ![i].verdict = verdict]
  <2>1. Asked(r) = [Mapped[i] EXCEPT !.verdict = verdict]
    BY <1>5, <1>6
  <2> QED
    BY <1>4, <2>1
<1>8. Mapped[i].cfg # Absent /\ Mapped[i].verdict = "open"
  BY <1>6, AbsentAssumption DEF Asked
<1>9. Uncached!Decide(i)
  BY <1>6, <1>7, <1>8
     DEF Uncached!Decide, Uncached!Open, Uncached!world, Mapped, Surroundings, Verdicts
<1> QED
  BY <1>3, <1>9 DEF Follows

(* A request comes in. *)
LEMMA ArriveFollows ==
  ASSUME TypeOK, AllJudged, NEW i \in Instances, Arrive(i)
  PROVE  Follows(i) /\ AllJudged'
<1>1. PICK kind \in Kinds :
        inst' = [inst EXCEPT ![i] = [Idle EXCEPT !.at = "readDiscovery",
                                                 !.kind = kind, !.cfg = issuer]]
  BY DEF Arrive
<1> DEFINE r == [Idle EXCEPT !.at = "readDiscovery", !.kind = kind, !.cfg = issuer]
<1>2. /\ r.at = "readDiscovery" /\ r.token = Absent
      /\ Asked(r) = [kind |-> kind, cfg |-> issuer, token |-> Absent, verdict |-> "open"]
  BY DEF Idle, Asked
<1>3. inst' = [inst EXCEPT ![i] = r]
  BY <1>1
<1>4. Surroundings
  BY DEF Arrive, Surroundings, providers
<1> HIDE DEF r
<1>5. AllJudged'
  <2>1. Judged(r, revision)
    BY <1>2 DEF Judged, KeyPlaces
  <2> QED
    BY <1>3, <1>4, <2>1, JudgedOne
<1>6. Mapped[i] = Uncached!Nobody
  BY DEF Mapped, Asked, AllJudged, Judged, Arrive, At, Idle, Uncached!Nobody,
     Uncached!Request
<1>7. Mapped' = [Mapped EXCEPT ![i] = Uncached!Request(kind, issuer)]
  BY <1>2, <1>3, MappedOne DEF Uncached!Request
<1>8. Uncached!Ask(i)
  BY <1>4, <1>6, <1>7 DEF Uncached!Ask, Uncached!world, Mapped, Surroundings, Kinds
<1> QED
  BY <1>5, <1>8 DEF Follows

(* The instance is gone. *)
LEMMA EndFollows ==
  ASSUME TypeOK, AllJudged, NEW i \in Instances, End(i)
  PROVE  Follows(i) /\ AllJudged'
<1>1. inst' = [inst EXCEPT ![i] = Idle] /\ Surroundings
  BY DEF End, Surroundings, providers
<1>2. AllJudged'
  <2>1. Judged(Idle, revision)
    BY DEF Idle, Judged, KeyPlaces
  <2> QED
    BY <1>1, <2>1, JudgedOne
<1>3. Mapped' = [Mapped EXCEPT ![i] = Uncached!Nobody]
  <2>1. Asked(Idle) = Uncached!Nobody
    BY DEF Idle, Asked, Uncached!Nobody, Uncached!Request
  <2> QED
    BY <1>1, <2>1, MappedOne
<1>4. Uncached!Leave(i)
  BY <1>1, <1>3 DEF Uncached!Leave, Uncached!world, Mapped, Surroundings
<1> QED
  BY <1>2, <1>4 DEF Follows

(* The caller of Discovery does what a document of its provider asks for. *)
LEMMA DiscoveredFollows ==
  ASSUME Inductive, AllJudged, NEW i \in Instances, NEW d \in Documents, Discovered(i, d),
         Surroundings, inst[i].at \in {"readDiscovery", "saveDiscovery"},
         NEW b \in Own(inst[i].cfg, revision), checkDiscovery(b, inst[i].cfg),
         d.modes = b.modes
  PROVE  Follows(i) /\ AllJudged'
<1>1. /\ inst[i] \in Requests /\ Judged(inst[i], revision) /\ inst[i].cfg \in Issuers
      /\ TypeOK /\ inst[i].token = Absent
  BY DEF Inductive, TypeOK, AllJudged, Judged, KeyPlaces, SoundNow, Sound, Discovers
<1>2. PICK v \in Numbered(inst[i].cfg, revision) :
        v \in Usable /\ (v \in FormPostOnly <=> ~CheckResponseMode(d))
  BY <1>1, OwnNumber DEF CheckResponseMode
<1>3. v \in Uncached!Read(Asked(inst[i])) /\ Asked(inst[i]).kind = inst[i].kind
  BY <1>2 DEF Numbered, Uncached!Read, Asked
<1>4. CASE inst[i].kind = "index" /\ Answer(i, "shown")
  <2>1. Uncached!Justified(Asked(inst[i]), "shown")
    BY <1>2, <1>3, <1>4 DEF Uncached!Justified
  <2> QED
    BY <1>1, <1>4, <2>1, AnswerFollows DEF Answer, Verdicts
<1>5. CASE inst[i].kind = "begin" /\ ~CheckResponseMode(d) /\ Answer(i, "form_post")
  <2>1. Uncached!Justified(Asked(inst[i]), "form_post")
    BY <1>2, <1>3, <1>5 DEF Uncached!Justified
  <2> QED
    BY <1>1, <1>5, <2>1, AnswerFollows DEF Answer, Verdicts
<1>6. ASSUME NEW place \in {"readKeys", "exchange"},
             \/ inst[i].kind = "begin" /\ place = "readKeys" /\ CheckResponseMode(d)
             \/ inst[i].kind = "callback" /\ place = "exchange",
             GoOn(i, place, d)
      PROVE  Follows(i) /\ AllJudged'
  <2> DEFINE r == [inst[i] EXCEPT !.at = place, !.body = Absent,
                                  !.d = [Empty EXCEPT !.endpoints = d.endpoints]]
  <2>1. /\ r.at = place /\ r.kind = inst[i].kind
        /\ r.cfg = inst[i].cfg /\ r.token = inst[i].token
    BY <1>1 DEF Requests
  <2>2. inst' = [inst EXCEPT ![i] = r]
    BY <1>1, <1>6 DEF GoOn, TypeOK, Requests
  <2> HIDE DEF r
  <2>3. Judged(r, revision)
    BY <1>1, <1>2, <1>6, <2>1 DEF Judged, KeyPlaces
  <2> QED
    BY <1>1, <1>6, <2>1, <2>2, <2>3, QuietMove
<1> QED
  BY <1>4, <1>5, <1>6 DEF Discovered

(* A move towards the fetch of the discovery document. *)
LEMMA MoveFollows ==
  ASSUME TypeOK, AllJudged, NEW i \in Instances, NEW d \in Documents, Surroundings,
         inst[i].at \in {"readDiscovery", "forgetDiscovery"},
         NEW place \in {"forgetDiscovery", "fetchDiscovery"},
         inst' = [inst EXCEPT ![i] = [inst[i] EXCEPT !.at = place, !.d = d]]
  PROVE  Follows(i) /\ AllJudged'
<1> DEFINE r == [inst[i] EXCEPT !.at = place, !.d = d]
<1>1. inst[i] \in Requests /\ Judged(inst[i], revision)
  BY DEF TypeOK, AllJudged
<1>2. r.at = place /\ r.kind = inst[i].kind /\ r.cfg = inst[i].cfg /\ r.token = inst[i].token
  BY <1>1 DEF Requests
<1>3. inst' = [inst EXCEPT ![i] = r]
  OBVIOUS
<1> HIDE DEF r
<1>4. Judged(r, revision)
  BY <1>1, <1>2 DEF Judged, KeyPlaces
<1> QED
  BY <1>2, <1>3, <1>4, QuietMove

(* A document that passes in a struct where its own lists count is usable. *)
LEMMA CheckedIsUsable ==
  ASSUME ListsEndpoints, TypeOK, NEW p \in Issuers, NEW b \in Own(p, revision),
         NEW d \in Documents, checkDiscovery(d, p),
         b.methods # Absent => d.methods = b.methods
  PROVE  checkDiscovery(b, p)
<1>1. b.issuer = p /\ b.endpoints = p
  BY OwnDocument
<1>2. b.methods \in {Absent, "S256"}
  BY DEF checkDiscovery
<1> QED
  BY <1>1, <1>2, AbsentAssumption DEF checkDiscovery

(* A cached document that passes is the configured provider's own. *)
LEMMA ReadDiscoveryFollows ==
  ASSUME ListsEndpoints, ListsModes, Inductive, AllJudged,
         NEW i \in Instances, ReadDiscovery(i)
  PROVE  Follows(i) /\ AllJudged'
<1> DEFINE d == Unmarshal(Empty, discovery)
<1>1. /\ inst[i] \in Requests /\ inst[i].at = "readDiscovery" /\ inst[i].cfg \in Issuers
      /\ TypeOK /\ Surroundings
  BY DEF ReadDiscovery, At, Inductive, TypeOK, SoundNow, Sound, Discovers, Surroundings,
         providers
<1>2. CASE inst' = [inst EXCEPT ![i].at = "fetchDiscovery"]
  <2>1. inst' = [inst EXCEPT ![i] = [inst[i] EXCEPT !.at = "fetchDiscovery", !.d = inst[i].d]]
    BY <1>1, <1>2 DEF TypeOK, Requests
  <2>2. inst[i].d \in Documents
    BY <1>1 DEF Requests
  <2> QED
    BY <1>1, <2>1, <2>2, MoveFollows
<1>3. CASE discovery # Absent /\ checkDiscovery(d, inst[i].cfg) /\ Discovered(i, d)
  <2>1. PICK p \in Issuers : discovery \in Own(p, revision)
    BY <1>3 DEF Inductive
  <2>2. /\ discovery \in Documents /\ discovery.issuer = p
        /\ discovery.modes # Absent
    BY <1>1, <2>1, OwnDocument
  <2>3. /\ d \in Documents /\ d.issuer = p /\ d.modes = discovery.modes
        /\ discovery.methods # Absent => d.methods = discovery.methods
    BY <2>2, EmptyDocument, UnmarshalFields, AbsentAssumption
  <2> HIDE DEF d
  <2>4. p = inst[i].cfg
    BY <1>3, <2>3 DEF checkDiscovery
  <2>5. discovery \in Own(inst[i].cfg, revision) /\ checkDiscovery(discovery, inst[i].cfg)
    BY <1>1, <1>3, <2>1, <2>3, <2>4, CheckedIsUsable
  <2> QED
    BY <1>1, <1>3, <2>3, <2>5, DiscoveredFollows
<1>4. CASE discovery # Absent /\ inst' = [inst EXCEPT ![i].at = "forgetDiscovery", ![i].d = d]
  <2>1. d \in Documents
    BY <1>1, <1>4, EmptyDocument, UnmarshalFields DEF TypeOK
  <2> HIDE DEF d
  <2>2. inst' = [inst EXCEPT ![i] = [inst[i] EXCEPT !.at = "forgetDiscovery", !.d = d]]
    BY <1>1, <1>4 DEF TypeOK, Requests
  <2> QED
    BY <1>1, <2>1, <2>2, MoveFollows
<1> QED
  BY <1>2, <1>3, <1>4 DEF ReadDiscovery

(* A fetched document decides by its own lists, whatever was in the struct. *)
LEMMA FetchDiscoveryFollows ==
  ASSUME ListsEndpoints, Inductive, AllJudged, NEW i \in Instances, FetchDiscovery(i)
  PROVE  Follows(i) /\ AllJudged'
<1> DEFINE body == Discovery(inst[i].cfg)
           d    == Unmarshal(inst[i].d, body)
<1>1. /\ inst[i] \in Requests /\ inst[i].at = "fetchDiscovery" /\ inst[i].cfg \in Issuers
      /\ TypeOK /\ Surroundings /\ Judged(inst[i], revision)
  BY DEF FetchDiscovery, At, Inductive, TypeOK, SoundNow, Sound, Discovers, Surroundings,
         AllJudged, providers
<1>2. CASE Answer(i, "failed")
  <2>1. Uncached!Justified(Asked(inst[i]), "failed")
    BY DEF Uncached!Justified
  <2> QED
    BY <1>1, <1>2, <2>1, AnswerFollows DEF Answer, Verdicts
<1>3. CASE /\ checkDiscovery(d, inst[i].cfg)
           /\ inst' = [inst EXCEPT ![i].at = "saveDiscovery", ![i].d = d,
                                   ![i].body = body, ![i].fetches = @ + 1]
  <2>1. body \in Own(inst[i].cfg, revision)
    BY <1>1, NowOwn
  <2>2. inst[i].d \in Documents /\ body \in Documents
    BY <1>1, <2>1, OwnDocument DEF Requests
  <2> HIDE DEF body
  <2>3. d \in Documents /\ (body.methods # Absent => d.methods = body.methods)
    BY <2>2, UnmarshalFields
  <2> HIDE DEF d
  <2>4. checkDiscovery(body, inst[i].cfg)
    BY <1>1, <1>3, <2>1, <2>3, CheckedIsUsable
  <2> DEFINE r == [inst[i] EXCEPT !.at = "saveDiscovery", !.d = d, !.body = body,
                                  !.fetches = @ + 1]
  <2>5. /\ r.at = "saveDiscovery" /\ r.kind = inst[i].kind /\ r.body = body
        /\ r.cfg = inst[i].cfg /\ r.token = inst[i].token
    BY <1>1 DEF Requests
  <2>6. inst' = [inst EXCEPT ![i] = r]
    BY <1>1, <1>3 DEF TypeOK, Requests
  <2> HIDE DEF r
  <2>7. Judged(r, revision)
    BY <1>1, <2>4, <2>5 DEF Judged, KeyPlaces
  <2> QED
    BY <1>1, <2>5, <2>6, <2>7, QuietMove
<1> QED
  BY <1>2, <1>3 DEF FetchDiscovery

(* A stale document is dropped, a new one is kept: nobody is told. *)
LEMMA ForgetDiscoveryFollows ==
  ASSUME Inductive, AllJudged, NEW i \in Instances, ForgetDiscovery(i)
  PROVE  Follows(i) /\ AllJudged'
<1>1. /\ inst[i] \in Requests /\ inst[i].at = "forgetDiscovery" /\ TypeOK
      /\ inst[i].d \in Documents /\ Surroundings
  BY DEF ForgetDiscovery, At, Inductive, TypeOK, Requests, Surroundings, providers
<1>2. inst' = [inst EXCEPT ![i] = [inst[i] EXCEPT !.at = "fetchDiscovery", !.d = inst[i].d]]
  BY <1>1 DEF ForgetDiscovery, TypeOK, Requests
<1> QED
  BY <1>1, <1>2, MoveFollows

LEMMA SaveDiscoveryFollows ==
  ASSUME ListsModes, Inductive, AllJudged, NEW i \in Instances, SaveDiscovery(i)
  PROVE  Follows(i) /\ AllJudged'
<1>1. /\ inst[i].at = "saveDiscovery" /\ inst[i].d \in Documents /\ Surroundings
      /\ Discovers(inst[i], revision) /\ Judged(inst[i], revision)
  BY DEF SaveDiscovery, At, Inductive, TypeOK, Requests, SoundNow, Sound, AllJudged,
         Surroundings, providers
<1>2. /\ inst[i].body \in Own(inst[i].cfg, revision)
      /\ checkDiscovery(inst[i].body, inst[i].cfg)
      /\ inst[i].d.modes = inst[i].body.modes
  BY <1>1 DEF Discovers, Judged
<1> QED
  BY <1>1, <1>2, DiscoveredFollows DEF SaveDiscovery

(* The exchange is the one step in which the provider is met and may not be
   remembered. *)
LEMMA ExchangeFollows ==
  ASSUME Inductive, AllJudged, NEW i \in Instances, Exchange(i)
  PROVE  Follows(i) /\ AllJudged'
<1>1. /\ inst[i] \in Requests /\ inst[i].at = "exchange" /\ inst[i].cfg \in Issuers
      /\ TypeOK /\ Surroundings /\ inst[i].kind = "callback" /\ inst[i].token = Absent
      /\ Numbered(inst[i].cfg, revision) \cap Usable # {}
  BY DEF Exchange, At, Inductive, TypeOK, SoundNow, Sound, Discovers, Surroundings,
         AllJudged, Judged, KeyPlaces, providers
<1>2. CASE Answer(i, "failed")
  <2>1. Uncached!Justified(Asked(inst[i]), "failed")
    BY DEF Uncached!Justified
  <2> QED
    BY <1>1, <1>2, <2>1, AnswerFollows DEF Answer, Verdicts
<1>3. ASSUME NEW key \in KeySet(inst[i].cfg), NEW kid \in {Absent, Kid[key]},
             inst' = [inst EXCEPT ![i].at = "readKeys", ![i].fetches = @ + 1,
                                  ![i].token = [key |-> key, kid |-> kid]]
      PROVE  Follows(i) /\ AllJudged'
  <2> DEFINE token == [key |-> key, kid |-> kid]
             r     == [inst[i] EXCEPT !.at = "readKeys", !.fetches = @ + 1, !.token = token]
  <2>1. inst' = [inst EXCEPT ![i] = r]
    BY <1>1, <1>3 DEF TypeOK, Requests
  <2> HIDE DEF token
  <2>2. /\ r.at = "readKeys" /\ r.kind = "callback" /\ r.cfg = inst[i].cfg /\ r.token = token
    BY <1>1 DEF Requests
  <2> HIDE DEF r
  <2>3. AllJudged'
    <3>1. Judged(r, revision)
      BY <2>2 DEF Judged, KeyPlaces
    <3> QED
      BY <1>1, <2>1, <3>1, JudgedOne
  <2>4. Mapped[i] = [kind |-> "callback", cfg |-> inst[i].cfg, token |-> Absent, verdict |-> "open"]
    BY <1>1 DEF Mapped, Asked
  <2>5. Asked(r) = [Mapped[i] EXCEPT !.token = token]
    BY <2>2, <2>4 DEF Asked
  <2>6. Mapped' = [Mapped EXCEPT ![i].token = token]
    BY <1>1, <2>1, <2>5, MappedOne
  <2>7. /\ Mapped[i].cfg = inst[i].cfg /\ Mapped[i].verdict = "open"
        /\ Mapped[i].kind = "callback" /\ Mapped[i].token = Absent
    BY <2>4
  <2>8. /\ Mapped[i].cfg # Absent
        /\ Uncached!Read(Mapped[i]) \cap Usable # {}
        /\ key \in Uncached!KeysOf(Mapped[i].cfg)
    BY <1>1, <2>7, AbsentAssumption DEF Uncached!Read, Numbered, Uncached!KeysOf, KeySet
  <2>9. \E k \in Uncached!KeysOf(Mapped[i].cfg) : \E n \in {Absent, Kid[k]} :
          Mapped' = [Mapped EXCEPT ![i].token = [key |-> k, kid |-> n]]
    BY <2>6, <2>8 DEF token
  <2>10. Uncached!Issue(i)
    BY <1>1, <2>7, <2>8, <2>9, Zenon
       DEF Uncached!Issue, Uncached!Open, Uncached!world, Mapped, Surroundings
  <2> QED
    BY <2>3, <2>10 DEF Follows
<1> QED
  BY <1>3, <1>2 DEF Exchange

(* What the invariant says of a refused token is what a refusal takes. *)
LEMMA RefusedIsRefusable ==
  ASSUME TypeOK, NEW r \in Requests, r.cfg \in Issuers,
         r.at = "done", r.verdict = "rejected", Holds(r, generation, oldest)
  PROVE  Uncached!Refusable(r.token)
<1>1. OfProvider(r) /\ r.keys \subseteq SoFar(generation)
  BY DEF Holds
<1>2. CASE Old(r, oldest)
  <2>1. r.token.key[2] \in Nat /\ oldest[r.cfg] \in Nat
    BY <1>1, KeyFields DEF OfProvider, Tokens, TypeOK
  <2>2. r.token.key \notin KeySet(r.cfg)
    BY <1>2, <2>1, KeySetFields DEF Old
  <2>3. r.token.key \notin Uncached!KeysOf(r.token.key[1])
    BY <1>1, <2>2 DEF OfProvider, KeySet, Uncached!KeysOf
  <2> QED
    BY <2>3 DEF Uncached!Refusable
<1>3. CASE ~Answers(r.token.key, r.token)
  BY <1>3 DEF Answers, Uncached!Fits, Uncached!Refusable
<1>4. ASSUME NEW k \in r.keys \ {r.token.key}, Answers(k, r.token)
      PROVE  Uncached!Refusable(r.token)
  <2>1. k \in Keys /\ k[2] <= generation[k[1]]
    BY <1>1, <1>4 DEF SoFar
  <2>2. k = <<k[1], k[2]>> /\ k[1] \in Issuers /\ k[2] \in 0 .. generation[k[1]]
    BY <2>1, KeyFields DEF TypeOK
  <2>3. k \in Uncached!KeysSoFar
    BY <2>2 DEF Uncached!KeysSoFar
  <2> QED
    BY <1>4, <2>3 DEF Answers, Uncached!Fits, Uncached!Refusable
<1> QED
  BY <1>2, <1>3, <1>4 DEF Holds, Lost

(* What becomes of a request with a key set is what its token, or the document it
   has read, asks for. *)
LEMMA GotKeysFollows ==
  ASSUME Inductive, Inductive', AllJudged, NEW i \in Instances,
         NEW keys \in SUBSET Keys, GotKeys(i, keys), Surroundings,
         inst[i].at \in {"readKeys", "saveKeys"}
  PROVE  Follows(i) /\ AllJudged'
<1> DEFINE token == inst[i].token
<1>1. /\ inst[i] \in Requests /\ Judged(inst[i], revision) /\ TypeOK
      /\ inst[i].cfg \in Issuers
  BY DEF Inductive, TypeOK, SoundNow, Sound, Discovers, AllJudged
<1>2. /\ Asked(inst[i]).kind = inst[i].kind /\ Asked(inst[i]).cfg = inst[i].cfg
      /\ Asked(inst[i]).token = token
  BY DEF Asked
<1>3. inst[i].kind = "callback" => token # Absent
  <2>1. inst[i].kind = "callback" => token \in Tokens
    BY DEF Inductive, SoundNow, Sound, Holds, KeyPlaces, OfProvider
  <2> QED
    BY <2>1, AbsentAssumption
<1>4. CASE inst[i].kind = "begin" /\ Answer(i, "redirect")
  <2>1. (Uncached!Read(Asked(inst[i])) \cap Usable) \ FormPostOnly # {}
    BY <1>1, <1>2, <1>4 DEF Judged, KeyPlaces, Numbered, Uncached!Read
  <2>2. Uncached!Justified(Asked(inst[i]), "redirect")
    BY <1>2, <1>4, <2>1 DEF Uncached!Justified
  <2> QED
    BY <1>1, <1>4, <2>2, AnswerFollows DEF Answer, Verdicts
<1>5. CASE inst[i].kind = "callback" /\ Verified(i, keys)
  <2>1. Uncached!Fits(token.key, token)
    BY <1>5 DEF Verified, Found, Candidates, Answers, Uncached!Fits
  <2>2. Uncached!Justified(Asked(inst[i]), "verified")
    BY <1>2, <1>3, <1>5, <2>1 DEF Uncached!Justified
  <2> QED
    BY <1>1, <1>5, <2>2, AnswerFollows DEF Verified, Answer, Verdicts
<1>6. CASE inst[i].kind = "callback" /\ Rejected(i, keys)
  <2> DEFINE r == inst'[i]
  <2>1. r = Done(inst[i], "rejected", keys)
    BY <1>1, <1>6 DEF Rejected, AnswerOn, TypeOK
  <2>2. r.at = "done" /\ r.verdict = "rejected" /\ r.cfg = inst[i].cfg /\ r.token = token
    BY <2>1 DEF Done
  <2>3. r \in Requests /\ Holds(r, generation, oldest)
    BY DEF Inductive, TypeOK, SoundNow, Sound, Surroundings
  <2> HIDE DEF r
  <2>4. Uncached!Refusable(token)
    BY <1>1, <2>2, <2>3, RefusedIsRefusable
  <2>5. Uncached!Justified(Asked(inst[i]), "rejected")
    BY <1>2, <1>3, <1>6, <2>4 DEF Uncached!Justified
  <2> QED
    BY <1>1, <1>6, <2>5, AnswerFollows DEF Rejected, Verdicts
<1>7. CASE inst[i].kind = "callback" /\ Refresh(i)
  <2> DEFINE r == [inst[i] EXCEPT !.at = "forgetKeys", !.keys = {}]
  <2>1. /\ r.at = "forgetKeys" /\ r.kind = inst[i].kind
        /\ r.cfg = inst[i].cfg /\ r.token = inst[i].token
    BY <1>1 DEF Requests
  <2>2. inst' = [inst EXCEPT ![i] = r]
    BY <1>1, <1>7 DEF Refresh, TypeOK, Requests
  <2> HIDE DEF r
  <2>3. Judged(r, revision)
    BY <1>1, <1>7, <2>1 DEF Judged, KeyPlaces
  <2> QED
    BY <1>1, <2>1, <2>2, <2>3, QuietMove
<1> QED
  BY <1>4, <1>5, <1>6, <1>7 DEF GotKeys, Redirected

(* A move from one place after discovery to another. *)
LEMMA KeyMoveFollows ==
  ASSUME TypeOK, AllJudged, NEW i \in Instances, NEW r \in Requests, Surroundings,
         inst[i].at \in KeyPlaces, r.at \in KeyPlaces,
         r.kind = inst[i].kind, r.cfg = inst[i].cfg, r.token = inst[i].token,
         inst' = [inst EXCEPT ![i] = r]
  PROVE  Follows(i) /\ AllJudged'
<1>1. Judged(inst[i], revision)
  BY DEF AllJudged
<1>2. Judged(r, revision)
  BY <1>1 DEF Judged, KeyPlaces
<1> QED
  BY <1>2, QuietMove DEF KeyPlaces

LEMMA ReadKeysFollows ==
  ASSUME Inductive, Inductive', AllJudged, NEW i \in Instances, ReadKeys(i)
  PROVE  Follows(i) /\ AllJudged'
<1>1. /\ inst[i] \in Requests /\ inst[i].at = "readKeys" /\ TypeOK /\ Surroundings
      /\ jwks \in SUBSET Keys
  BY DEF ReadKeys, At, Inductive, TypeOK, Surroundings, providers
<1>2. CASE inst' = [inst EXCEPT ![i].at = "fetchKeys"]
  <2> DEFINE r == [inst[i] EXCEPT !.at = "fetchKeys"]
  <2>1. /\ r \in Requests /\ r.at = "fetchKeys" /\ r.kind = inst[i].kind
        /\ r.cfg = inst[i].cfg /\ r.token = inst[i].token
    BY <1>1 DEF Requests, Places
  <2>2. inst' = [inst EXCEPT ![i] = r]
    BY <1>1, <1>2 DEF TypeOK, Requests
  <2> HIDE DEF r
  <2> QED
    BY <1>1, <2>1, <2>2, KeyMoveFollows DEF KeyPlaces
<1>3. CASE GotKeys(i, jwks)
  BY <1>1, <1>3, GotKeysFollows
<1> QED
  BY <1>2, <1>3 DEF ReadKeys

LEMMA ForgetKeysFollows ==
  ASSUME Inductive, AllJudged, NEW i \in Instances, ForgetKeys(i)
  PROVE  Follows(i) /\ AllJudged'
<1> DEFINE r == [inst[i] EXCEPT !.at = "fetchKeys", !.refreshed = TRUE]
<1>1. inst[i] \in Requests /\ inst[i].at = "forgetKeys" /\ TypeOK /\ Surroundings
  BY DEF ForgetKeys, At, Inductive, TypeOK, Surroundings, providers
<1>2. /\ r \in Requests /\ r.at = "fetchKeys" /\ r.kind = inst[i].kind
      /\ r.cfg = inst[i].cfg /\ r.token = inst[i].token
  BY <1>1 DEF Requests, Places
<1>3. inst' = [inst EXCEPT ![i] = r]
  BY <1>1 DEF ForgetKeys, TypeOK, Requests
<1> HIDE DEF r
<1> QED
  BY <1>1, <1>2, <1>3, KeyMoveFollows DEF KeyPlaces

LEMMA FetchKeysFollows ==
  ASSUME Inductive, Inductive', AllJudged, NEW i \in Instances, FetchKeys(i)
  PROVE  Follows(i) /\ AllJudged'
<1>1. /\ inst[i] \in Requests /\ inst[i].at = "fetchKeys" /\ TypeOK /\ Surroundings
      /\ inst[i].cfg \in Issuers
  BY DEF FetchKeys, At, Inductive, TypeOK, Surroundings, SoundNow, Sound, Discovers,
         providers
<1>2. CASE Answer(i, "failed")
  <2>1. Uncached!Justified(Asked(inst[i]), "failed")
    BY DEF Uncached!Justified
  <2> QED
    BY <1>1, <1>2, <2>1, AnswerFollows DEF Answer, Verdicts
<1>3. CASE inst' = [inst EXCEPT ![i].at = "saveKeys", ![i].fetches = @ + 1,
                                ![i].keys = KeySet(inst[i].d.endpoints)]
  <2> DEFINE r == [inst[i] EXCEPT !.at = "saveKeys", !.fetches = @ + 1,
                                  !.keys = KeySet(inst[i].d.endpoints)]
  <2>1. /\ r.at = "saveKeys" /\ r.kind = inst[i].kind
        /\ r.cfg = inst[i].cfg /\ r.token = inst[i].token
    BY <1>1 DEF Requests
  <2>2. inst' = [inst EXCEPT ![i] = r]
    BY <1>1, <1>3 DEF TypeOK, Requests
  <2> HIDE DEF r
  <2>3. r \in Requests
    BY <2>2 DEF Inductive, TypeOK
  <2> QED
    BY <1>1, <2>1, <2>2, <2>3, KeyMoveFollows DEF KeyPlaces
<1> QED
  BY <1>2, <1>3 DEF FetchKeys

LEMMA SaveKeysFollows ==
  ASSUME Inductive, Inductive', AllJudged, NEW i \in Instances, SaveKeys(i)
  PROVE  Follows(i) /\ AllJudged'
<1>1. inst[i].at = "saveKeys" /\ inst[i].keys \in SUBSET Keys /\ Surroundings
  BY DEF SaveKeys, At, Inductive, TypeOK, Requests, Surroundings, providers
<1> QED
  BY <1>1, GotKeysFollows DEF SaveKeys

(* What the requests may be judged on only grows. *)
LEMMA JudgedGrows ==
  ASSUME TypeOK, AllJudged, Inductive, UNCHANGED inst,
         \A p \in Issuers : revision'[p] \in Nat /\ revision[p] <= revision'[p]
  PROVE  AllJudged' /\ UNCHANGED Mapped
<1>1. UNCHANGED Mapped
  BY DEF Mapped, Asked
<1>2. ASSUME NEW i \in Instances
      PROVE  Judged(inst[i], revision')
  <2>1. Judged(inst[i], revision) /\ (inst[i].at # "idle" => inst[i].cfg \in Issuers)
    BY DEF AllJudged, Inductive, SoundNow, Sound, Discovers
  <2>2. inst[i].at # "idle" =>
          Numbered(inst[i].cfg, revision) \subseteq Numbered(inst[i].cfg, revision')
    BY <2>1 DEF Numbered, TypeOK
  <2> QED
    BY <2>1, <2>2 DEF Judged, KeyPlaces
<1> QED
  BY <1>1, <1>2 DEF AllJudged

(* Every step is one of the same requests without a cache, or goes unnoticed. *)
LEMMA StepFollows ==
  ASSUME ListsEndpoints, ListsModes, Inductive, Inductive', AllJudged, [Next]_vars
  PROVE  AllJudged' /\ [Uncached!Next]_(Uncached!vars)
<1>1. ASSUME NEW i \in Instances, Step(i)
      PROVE  AllJudged' /\ [Uncached!Next]_(Uncached!vars)
  <2>1. TypeOK
    BY DEF Inductive
  <2>2. Follows(i) /\ AllJudged'
    BY <1>1, <2>1, ArriveFollows, EndFollows, ReadDiscoveryFollows, ForgetDiscoveryFollows,
       FetchDiscoveryFollows, SaveDiscoveryFollows, ExchangeFollows, ReadKeysFollows,
       ForgetKeysFollows, FetchKeysFollows, SaveKeysFollows
       DEF Step
  <2>3. UNCHANGED <<issuer, generation, oldest, revision>>
    BY <1>1 DEF Step, Arrive, End, ReadDiscovery, ForgetDiscovery, FetchDiscovery,
       SaveDiscovery, Exchange, ReadKeys, ForgetKeys, FetchKeys, SaveKeys, providers
  <2>4. CASE UNCHANGED Mapped
    BY <2>2, <2>3, <2>4 DEF Uncached!vars, Mapped
  <2>5. CASE ~UNCHANGED Mapped
    <3>1. Uncached!Ask(i) \/ Uncached!Issue(i) \/ Uncached!Decide(i) \/ Uncached!Leave(i)
      BY <2>2, <2>5 DEF Follows
    <3>2. \A j \in Instances \ {i} : Mapped'[j] = Mapped[j]
      BY <3>1 DEF Uncached!Ask, Uncached!Issue, Uncached!Decide, Uncached!Leave, Mapped
    <3>3. Mapped'[i] # Mapped[i]
      BY <2>5, <3>2 DEF Mapped
    <3>4. Uncached!Next
      BY <3>1, <3>3 DEF Uncached!Next, Mapped
    <3> QED
      BY <2>2, <3>4
  <2> QED
    BY <2>4, <2>5
<1>2. CASE UNCHANGED inst
  <2>1. \A p \in Issuers : revision[p] \in Nat /\ revision'[p] \in Nat
    BY DEF Inductive, TypeOK
  <2>2. UNCHANGED revision => AllJudged' /\ UNCHANGED Mapped
    BY <1>2, <2>1, JudgedGrows DEF Inductive
  <2>3. CASE Rotate
    BY <2>2, <2>3 DEF Rotate, Uncached!Rotate, Uncached!Next, Uncached!world,
       Uncached!vars, Mapped
  <2>4. CASE Retire
    BY <2>2, <2>4 DEF Retire, Uncached!Retire, Uncached!Next, Uncached!world,
       Uncached!vars, Mapped
  <2>5. CASE Revise
    <3>1. PICK p \in Issuers : /\ revision[p] < Len(Published[p])
                               /\ revision' = [revision EXCEPT ![p] = @ + 1]
      BY <2>5 DEF Revise
    <3>2. \A q \in Issuers : revision[q] <= revision'[q]
      <4>1. revision \in [Issuers -> Nat]
        BY DEF Inductive, TypeOK
      <4>2. revision' = [revision EXCEPT ![p] = @ + 1]
        BY <3>1, Zenon
      <4> QED
        BY <4>1, <4>2
    <3>3. AllJudged' /\ UNCHANGED Mapped
      BY <1>2, <2>1, <3>2, JudgedGrows DEF Inductive
    <3>4. revision[p] < [q \in Issuers |-> Len(Published[q])][p]
      BY <3>1
    <3>5. UNCHANGED <<issuer, generation, oldest, Mapped>>
      BY <2>5, <3>3 DEF Revise
    <3>6. Uncached!Revise
      BY <3>1, <3>4, <3>5, Zenon DEF Uncached!Revise, Mapped
    <3> QED
      BY <3>3, <3>5, <3>6 DEF Uncached!Next, Uncached!world, Uncached!vars, Mapped
  <2>6. CASE Repoint
    BY <2>2, <2>6 DEF Repoint, Uncached!Repoint, Uncached!Next, Uncached!world,
       Uncached!vars, Mapped, providers
  <2>7. CASE Expire \/ UNCHANGED vars
    BY <2>2, <2>7 DEF Expire, vars, Uncached!vars, Mapped, providers
  <2>8. CASE \E i \in Instances : Step(i)
    BY <1>1, <2>8
  <2> QED
    BY <2>3, <2>4, <2>5, <2>6, <2>7, <2>8 DEF Next
<1> QED
  BY <1>1, <1>2 DEF Next, Rotate, Retire, Revise, Repoint, Expire, vars

(* Caching brings no verdict but on what the configured provider has itself
   published, in the present or an earlier revision, and a token is refused only for
   a key that is retired or mislabelled, or for another one its header fits
   (Discovery, Keys, Exchange). *)
THEOREM NoVerdictChanges ==
  ASSUME ListsEndpoints, ListsModes PROVE Spec => CachingChangesNoVerdict
<1>1. Init => AllJudged /\ Uncached!Init
  BY DEF Init, AllJudged, Judged, Idle, KeyPlaces, Asked, Uncached!Init,
     Uncached!Nobody, Uncached!Request
<1>2. Inductive /\ Inductive' /\ AllJudged /\ [Next]_vars
        => AllJudged' /\ [Uncached!Next]_(Uncached!vars)
  BY StepFollows
<1> QED
  BY <1>1, <1>2, AlwaysInductive, PTL DEF Spec, CachingChangesNoVerdict, Uncached!Spec

==============================================================================
