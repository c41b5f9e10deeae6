-------------------------- MODULE ProviderDocuments --------------------------
(***************************************************************************)
(* The identity provider's two documents, cached in the add-on's schema    *)
(* (oidc/provider.go, and the parts of Begin and Exchange that use it).    *)
(*                                                                         *)
(* Requests run side by side against one table of cached documents, keyed  *)
(* by kind and not by provider.  Meanwhile a provider adds signing keys    *)
(* and retires old ones, revises its discovery document, the operator      *)
(* points the add-on at another provider, and cached rows pass their       *)
(* expiry.  Every fetch may fail; every storage call may fail, and a write *)
(* whose reply is lost has still been made.  A discovery_ttl_seconds of 0  *)
(* is the case in which every read is a miss and no write is made.         *)
(*                                                                         *)
(* A key is <<provider, generation>>.  Its name, the kid, is another       *)
(* thing: two keys of one provider or of two may bear the same one, or     *)
(* none, and a verifier compares names.                                    *)
(***************************************************************************)
EXTENDS Naturals, Sequences

CONSTANTS
    Instances, \* module instances the host may run at the same time
    Issuers,   \* the providers an operator may configure
    Published, \* per provider: the discovery documents it publishes, in turn
    Rotations, \* per provider: bound on the keys it adds to its first one
    Kid,       \* per key: its name in the key set, or Absent
    Skipped,   \* pairs <<k, l>>: k's use or alg is not that of a token signed with l
    Absent     \* a field a document does not have, a row that is not there

(* A discovery document: who it names, whose endpoints it lists (the three are
   served together), and the two optional lists, each by the entry that counts.
   Endpoints keep their owner through every revision: one that has moved either
   answers as the owner's or fails, as any fetch may. *)
Documents == [issuer    : Issuers \cup {Absent},
              endpoints : Issuers \cup {Absent},
              methods   : {"S256", "plain", Absent},
              modes     : {"query", "form_post", Absent}]

Keys == UNION {{p} \X (0 .. Rotations[p]) : p \in Issuers}

ASSUME PublishedAssumption ==
    /\ Published \in [Issuers -> Seq(Documents) \ {<<>>}]
    /\ \A p \in Issuers : \A n \in DOMAIN Published[p] : Published[p][n].issuer = p

ASSUME KeysAssumption ==
    /\ Rotations \in [Issuers -> Nat]
    /\ DOMAIN Kid = Keys
    /\ Skipped \subseteq Keys \X Keys

VARIABLES
    issuer,     \* the operator's setting
    generation, \* per provider: its newest key
    oldest,     \* per provider: the oldest key it still publishes
    revision,   \* per provider: which discovery document it publishes
    discovery,  \* the cached discovery document, or Absent
    jwks,       \* the cached key set, {} when there is no fresh row
    inst        \* per instance: a request, where it is and what it holds

providers == <<generation, oldest, revision>>

vars == <<issuer, generation, oldest, revision, discovery, jwks, inst>>

(* The documents a provider answers now. *)
KeySet(p)    == {<<p, g>> : g \in oldest[p] .. generation[p]}
Discovery(p) == Published[p][revision[p]]

(* An ID token: the key it is signed with, and the kid in its header. *)
Tokens == [key : Keys, kid : {Kid[k] : k \in Keys} \cup {Absent}]

ASSUME AbsentAssumption == Absent \notin Issuers \cup Tokens

Kinds == {"index", "begin", "callback"}

Verdicts == {"shown", "form_post", "redirect", "verified", "rejected", "failed"}

Places == {"idle", "readDiscovery", "forgetDiscovery", "fetchDiscovery",
           "saveDiscovery", "exchange", "readKeys", "fetchKeys", "saveKeys",
           "forgetKeys", "done"}

(* The document a Go struct holds before anything is read into it. *)
Empty == [issuer |-> Absent, endpoints |-> Absent, methods |-> Absent,
          modes |-> Absent]

Idle == [at |-> "idle", kind |-> "index", cfg |-> Absent, d |-> Empty,
         body |-> Absent, token |-> Absent, keys |-> {}, refreshed |-> FALSE, fetches |-> 0,
         verdict |-> "shown"]

Requests ==
    [at : Places, kind : Kinds, cfg : Issuers \cup {Absent}, d : Documents,
     body : Documents \cup {Absent}, token : Tokens \cup {Absent}, keys : SUBSET Keys, refreshed : BOOLEAN,
     fetches : 0 .. 4, verdict : Verdicts]

TypeOK ==
    /\ issuer \in Issuers
    /\ generation \in [Issuers -> Nat] /\ oldest \in [Issuers -> Nat]
    /\ revision \in [Issuers -> Nat]
    /\ \A p \in Issuers : /\ oldest[p] <= generation[p] /\ generation[p] <= Rotations[p]
                         /\ revision[p] \in DOMAIN Published[p]
    /\ discovery \in Documents \cup {Absent}
    /\ jwks \subseteq Keys
    /\ inst \in [Instances -> Requests]

Init ==
    /\ issuer \in Issuers
    /\ generation = [p \in Issuers |-> 0]
    /\ oldest = [p \in Issuers |-> 0]
    /\ revision = [p \in Issuers |-> 1]
    /\ discovery = Absent
    /\ jwks = {}
    /\ inst = [i \in Instances |-> Idle]

-----------------------------------------------------------------------------
(* json.Unmarshal into a struct: a field the document lacks keeps its value. *)
Unmarshal(d, body) ==
    [f \in DOMAIN d |-> IF body[f] = Absent THEN d[f] ELSE body[f]]

(* Mutant of checkDiscovery: the document may name any issuer. *)
checkDiscoveryAnyIssuer(d, cfg) ==
    d.endpoints # Absent /\ d.methods \in {Absent, "S256"}

(* checkDiscovery: the document names the configured issuer, carries the three
   endpoints, and if it lists challenge methods S256 is one. *)
checkDiscovery(d, cfg) ==
    /\ d.issuer = cfg
    /\ d.endpoints # Absent
    /\ d.methods \in {Absent, "S256"}

(* CheckResponseMode: refused when modes are advertised and query is not one. *)
CheckResponseMode(d) == d.modes \in {Absent, "query"}

(* find: the keys of a set that a token's header fits.  A key whose use or alg is
   another one is skipped; a kid is compared as a string. *)
Answers(k, token) ==
    <<k, token.key>> \notin Skipped /\ token.kid \in {Absent, Kid[k]}

Candidates(token, keys) == {k \in keys : Answers(k, token)}

(* errUnknownKid: nothing in the set fits. *)
UnknownKid(token, keys) == Candidates(token, keys) = {}

(* The keys find may pick: the first in the document of those that bear the kid; a
   token without one wants a single candidate, and gets none of several. *)
Found(token, keys) ==
    {k \in Candidates(token, keys) :
       token.kid = Absent => \A l \in Candidates(token, keys) : l = k}

(* The set verifies the token, in whatever order it lists its keys. *)
Verifies(token, keys) == Candidates(token, keys) = {token.key}

-----------------------------------------------------------------------------
At(i, place) == inst[i].at = place

(* A request is answered, with a key set its verdict rests on.  The rest of what
   it held is gone with it. *)
Done(r, verdict, keys) ==
    [at |-> "done", kind |-> r.kind, cfg |-> r.cfg, d |-> Empty, body |-> Absent,
     token |-> r.token, keys |-> keys, refreshed |-> FALSE, fetches |-> 0,
     verdict |-> verdict]

AnswerOn(i, verdict, keys) == inst' = [inst EXCEPT ![i] = Done(@, verdict, keys)]

Answer(i, verdict) == AnswerOn(i, verdict, {})

(* A request reads its settings once and begins with the cached document. *)
Arrive(i) ==
    /\ At(i, "idle")
    /\ \E kind \in Kinds :
         inst' = [inst EXCEPT ![i] = [Idle EXCEPT !.at = "readDiscovery",
                                                  !.kind = kind, !.cfg = issuer]]
    /\ UNCHANGED <<issuer, providers, discovery, jwks>>

(* The request goes on: of the document it will use the endpoints. *)
GoOn(i, place, d) ==
    inst' = [inst EXCEPT ![i].at = place, ![i].body = Absent,
                         ![i].d = [Empty EXCEPT !.endpoints = d.endpoints]]

(* Mutant of Discovered: the response modes are nobody's concern. *)
DiscoveredAnyMode(i, d) ==
    \/ inst[i].kind = "index"    /\ Answer(i, "shown")
    \/ inst[i].kind = "begin"    /\ GoOn(i, "readKeys", d)
    \/ inst[i].kind = "callback" /\ GoOn(i, "exchange", d)

(* What the caller of Discovery does with the document. *)
Discovered(i, d) ==
    \/ inst[i].kind = "index" /\ Answer(i, "shown")
    \/ inst[i].kind = "begin" /\ ~CheckResponseMode(d) /\ Answer(i, "form_post")
    \/ inst[i].kind = "begin" /\ CheckResponseMode(d) /\ GoOn(i, "readKeys", d)
    \/ inst[i].kind = "callback" /\ GoOn(i, "exchange", d)

(* cached(docDiscovery): a storage error is a miss. *)
ReadDiscovery(i) ==
    LET d == Unmarshal(Empty, discovery) IN
    /\ At(i, "readDiscovery")
    /\ \/ inst' = [inst EXCEPT ![i].at = "fetchDiscovery"]
       \/ /\ discovery # Absent
          /\ \/ checkDiscovery(d, inst[i].cfg) /\ Discovered(i, d)
             \/ /\ ~checkDiscovery(d, inst[i].cfg)
                /\ inst' = [inst EXCEPT ![i].at = "forgetDiscovery", ![i].d = d]
    /\ UNCHANGED <<issuer, providers, discovery, jwks>>

(* The cached document no longer agrees with the settings. *)
ForgetDiscovery(i) ==
    /\ At(i, "forgetDiscovery")
    /\ discovery' \in {Absent, discovery}
    /\ inst' = [inst EXCEPT ![i].at = "fetchDiscovery"]
    /\ UNCHANGED <<issuer, providers, jwks>>

(* The document is read into the same struct the cached one was read into. *)
FetchDiscovery(i) ==
    LET d == Unmarshal(inst[i].d, Discovery(inst[i].cfg)) IN
    /\ At(i, "fetchDiscovery")
    /\ \/ Answer(i, "failed")
       \/ /\ checkDiscovery(d, inst[i].cfg)
          /\ inst' = [inst EXCEPT ![i].at = "saveDiscovery", ![i].d = d,
                                  ![i].body = Discovery(inst[i].cfg),
                                  ![i].fetches = @ + 1]
    /\ UNCHANGED <<issuer, providers, discovery, jwks>>

(* The body goes to the cache, not the struct. *)
SaveDiscovery(i) ==
    /\ At(i, "saveDiscovery")
    /\ discovery' \in {discovery, inst[i].body}
    /\ Discovered(i, inst[i].d)
    /\ UNCHANGED <<issuer, providers, jwks>>

(* The token endpoint answers a token signed with a key the provider publishes,
   and names the key or does not; an endpoint of another provider knows nothing of
   the code. *)
Exchange(i) ==
    /\ At(i, "exchange")
    /\ \/ Answer(i, "failed")
       \/ /\ inst[i].d.endpoints = inst[i].cfg
          /\ \E key \in KeySet(inst[i].cfg) : \E kid \in {Absent, Kid[key]} :
               inst' = [inst EXCEPT ![i].at = "readKeys", ![i].fetches = @ + 1,
                                    ![i].token = [key |-> key, kid |-> kid]]
    /\ UNCHANGED <<issuer, providers, discovery, jwks>>

(* Begin wanted the key set read and does nothing with it. *)
Redirected(i) ==
    /\ inst[i].kind = "begin"
    /\ Answer(i, "redirect")

(* VerifyIDToken as far as it depends on the key set: the key that is picked, then
   the signature. *)
Verified(i, keys) ==
    /\ inst[i].token.key \in Found(inst[i].token, keys)
    /\ Answer(i, "verified")

Rejected(i, keys) ==
    /\ Found(inst[i].token, keys) # {inst[i].token.key}
    /\ AnswerOn(i, "rejected", keys)

Refresh(i) == inst' = [inst EXCEPT ![i].at = "forgetKeys", ![i].keys = {}]

(* Mutants of GotKeys, for a callback: no refresh, a refresh for as long as the
   key is unknown, and a refresh ahead of every verification. *)
GotKeysOnce(i, keys) ==
    \/ Redirected(i)
    \/ inst[i].kind = "callback" /\ (Verified(i, keys) \/ Rejected(i, keys))

GotKeysRetrying(i, keys) ==
    \/ Redirected(i)
    \/ /\ inst[i].kind = "callback"
       /\ \/ Verified(i, keys)
          \/ UnknownKid(inst[i].token, keys) /\ Refresh(i)

GotKeysAlwaysFresh(i, keys) ==
    \/ Redirected(i)
    \/ /\ inst[i].kind = "callback"
       /\ \/ ~inst[i].refreshed /\ Refresh(i)
          \/ inst[i].refreshed /\ (Verified(i, keys) \/ Rejected(i, keys))

(* What the caller of Keys does with the set: one refresh, and only for a token
   that no key of the set fits. *)
GotKeys(i, keys) ==
    LET again == UnknownKid(inst[i].token, keys) /\ ~inst[i].refreshed IN
    \/ Redirected(i)
    \/ /\ inst[i].kind = "callback"
       /\ \/ again /\ Refresh(i)
          \/ ~again /\ Verified(i, keys)
          \/ ~again /\ Rejected(i, keys)

(* Keys(d, false) *)
ReadKeys(i) ==
    /\ At(i, "readKeys")
    /\ \/ inst' = [inst EXCEPT ![i].at = "fetchKeys"]
       \/ jwks # {} /\ GotKeys(i, jwks)
    /\ UNCHANGED <<issuer, providers, discovery, jwks>>

ForgetKeys(i) ==
    /\ At(i, "forgetKeys")
    /\ jwks' \in {{}, jwks}
    /\ inst' = [inst EXCEPT ![i].at = "fetchKeys", ![i].refreshed = TRUE]
    /\ UNCHANGED <<issuer, providers, discovery>>

FetchKeys(i) ==
    /\ At(i, "fetchKeys")
    /\ \/ Answer(i, "failed")
       \/ inst' = [inst EXCEPT ![i].at = "saveKeys", ![i].fetches = @ + 1,
                               ![i].keys = KeySet(inst[i].d.endpoints)]
    /\ UNCHANGED <<issuer, providers, discovery, jwks>>

SaveKeys(i) ==
    /\ At(i, "saveKeys")
    /\ jwks' \in {jwks, inst[i].keys}
    /\ GotKeys(i, inst[i].keys)
    /\ UNCHANGED <<issuer, providers, discovery>>

(* The answer is written and the instance is gone; or it is stopped. *)
End(i) ==
    /\ ~At(i, "idle")
    /\ inst' = [inst EXCEPT ![i] = Idle]
    /\ UNCHANGED <<issuer, providers, discovery, jwks>>

-----------------------------------------------------------------------------
(* The surroundings. *)

(* A provider publishes another key next to those it has, or drops the oldest; a
   rotation without overlap is one after the other. *)
Rotate ==
    /\ \E p \in Issuers :
         /\ generation[p] < Rotations[p]
         /\ generation' = [generation EXCEPT ![p] = @ + 1]
    /\ UNCHANGED <<issuer, oldest, revision, discovery, jwks, inst>>

Retire ==
    /\ \E p \in Issuers :
         /\ oldest[p] < generation[p]
         /\ oldest' = [oldest EXCEPT ![p] = @ + 1]
    /\ UNCHANGED <<issuer, generation, revision, discovery, jwks, inst>>

(* A provider changes its discovery document. *)
Revise ==
    /\ \E p \in Issuers :
         /\ revision[p] < Len(Published[p])
         /\ revision' = [revision EXCEPT ![p] = @ + 1]
    /\ UNCHANGED <<issuer, generation, oldest, discovery, jwks, inst>>

Repoint ==
    /\ issuer' \in Issuers \ {issuer}
    /\ UNCHANGED <<providers, discovery, jwks, inst>>

(* A cached row passes its expiry: the SELECT no longer answers it. *)
Expire ==
    /\ \/ discovery' = Absent /\ jwks' = jwks
       \/ jwks' = {} /\ discovery' = discovery
    /\ UNCHANGED <<issuer, providers, inst>>

Step(i) ==
    \/ Arrive(i)
    \/ ReadDiscovery(i) \/ ForgetDiscovery(i) \/ FetchDiscovery(i) \/ SaveDiscovery(i)
    \/ Exchange(i)
    \/ ReadKeys(i) \/ ForgetKeys(i) \/ FetchKeys(i) \/ SaveKeys(i)
    \/ End(i)

Next == (\E i \in Instances : Step(i)) \/ Rotate \/ Retire \/ Revise \/ Repoint \/ Expire

Spec == Init /\ [][Next]_vars

-----------------------------------------------------------------------------
(* Properties. *)

Answered(i, verdict) == At(i, "done") /\ inst[i].verdict = verdict

(* A provider is refused for its response modes only on what a document of its own
   says of them, the present one or one before it: a document that lists none is
   taken at the default (CheckResponseMode, provider.go:202-215). *)
RefusedOnlyWhenAdvertised ==
    \A i \in Instances :
      Answered(i, "form_post") =>
        \E n \in 1 .. revision[inst[i].cfg] : ~CheckResponseMode(Published[inst[i].cfg][n])

(* A request that goes on past discovery does so with the configured provider's
   endpoints, also while the operator re-points the add-on and a request that
   began before still writes the old provider's document to the cache
   (Discovery and checkDiscovery, provider.go:53-117). *)
EndpointsAreTheProviders ==
    \A i \in Instances :
      inst[i].at \in {"exchange", "readKeys", "fetchKeys", "saveKeys", "forgetKeys"}
        => inst[i].d.endpoints = inst[i].cfg

(* A token that is refused would be refused with the key set the provider publishes
   now: nothing would be gained by another fetch (Exchange, flow.go:235-251).  The
   exception is a token whose header another key of the set it was judged on fits:
   one of the same name, or for a token without a name one that is as usable.  That
   key's failed signature, or the choice of several, is no missing key to the code,
   and it fetches no newer set, be the set ever so stale or another provider's. *)
RefusalIsFinal ==
    \A i \in Instances :
      Answered(i, "rejected") =>
        \/ ~Verifies(inst[i].token, KeySet(inst[i].cfg))
        \/ \E k \in inst[i].keys \ {inst[i].token.key} : Answers(k, inst[i].token)

(* A callback makes a fourth fetch only if the provider retires the token's key
   while the callback runs, or never published it as one for such a token; in every
   other order of caches, expiries and other requests three are enough
   (provider.go:37-41, 121-125). *)
ThreeFetchesSuffice ==
    \A i \in Instances :
      inst[i].fetches = 4 =>
        inst[i].token.key \notin Candidates(inst[i].token, KeySet(inst[i].cfg))

(* A request without the places it passes, the document and the keys it holds. *)
Asked(r) ==
    [kind |-> r.kind, cfg |-> r.cfg, token |-> r.token,
     verdict |-> IF r.at = "done" THEN r.verdict ELSE "open"]

(* What the providers' own documents come to, each by its provider and number. *)
Revisions    == UNION {{p} \X DOMAIN Published[p] : p \in Issuers}
Usable       == {v \in Revisions : checkDiscovery(Published[v[1]][v[2]], v[1])}
FormPostOnly == {v \in Revisions : ~CheckResponseMode(Published[v[1]][v[2]])}

Uncached == INSTANCE ProviderVerdicts WITH
    Last  <- [p \in Issuers |-> Len(Published[p])],
    Sound <- Usable,
    None  <- Absent,
    asked <- [i \in Instances |-> Asked(inst[i])]

(* Whatever is cached, stale or raced for, each request is told once what its own
   provider's document comes to, in the present revision or one before, and a token
   is refused only if its key has been retired or mislabelled, or if its header fits
   another key that some provider has published (Discovery, Keys and Exchange,
   provider.go:53-148, flow.go:192-251). *)
CachingChangesNoVerdict == Uncached!Spec
==============================================================================
