--------------------------- MODULE ProviderVerdicts ---------------------------
(***************************************************************************)
(* What a request learns of its provider, with no cache, no fetches and no *)
(* Go structs: it asks about the provider that is configured when it comes *)
(* in, and is answered once, on what that provider has published.          *)
(* ProviderDocuments implements this: what is cached may be old, and it is *)
(* never another provider's document; but a token may be taken for one     *)
(* that another key of the same name has signed.                           *)
(***************************************************************************)
EXTENDS Naturals

CONSTANTS
    Instances,    \* module instances the host may run at the same time
    Issuers,      \* the providers an operator may configure
    Last,         \* per provider: how many discovery documents it publishes, in turn
    Sound,        \* <<provider, number>> of the documents that can be used
    FormPostOnly, \* and of those that list no mode LinkCtrl can use
    Rotations,    \* per provider: bound on the keys it adds to its first one
    Kid,          \* per key <<provider, generation>>: its name, or None
    Skipped,      \* pairs <<k, l>>: k is not for tokens like those signed with l
    None          \* a field that holds nothing yet

VARIABLES
    issuer,     \* the operator's setting
    generation, \* per provider: its newest key
    oldest,     \* per provider: the oldest key it still publishes
    revision,   \* per provider: which discovery document it publishes
    asked       \* per instance: a request, what it has been given and told

vars == <<issuer, generation, oldest, revision, asked>>

world == <<issuer, generation, oldest, revision>>

(* A request that has just come in. *)
Request(kind, cfg) == [kind |-> kind, cfg |-> cfg, token |-> None, verdict |-> "open"]

Nobody == Request("index", None)

(* The keys a provider publishes at this moment, and all it has published. *)
KeysOf(p)   == {<<p, g>> : g \in oldest[p] .. generation[p]}
KeysSoFar   == UNION {{p} \X (0 .. generation[p]) : p \in Issuers}

(* A token's header fits a key. *)
Fits(k, token) == <<k, token.key>> \notin Skipped /\ token.kid \in {None, Kid[k]}

Init ==
    /\ issuer \in Issuers
    /\ generation = [p \in Issuers |-> 0]
    /\ oldest = [p \in Issuers |-> 0]
    /\ revision = [p \in Issuers |-> 1]
    /\ asked = [i \in Instances |-> Nobody]

-----------------------------------------------------------------------------
Open(i) == asked[i].cfg # None /\ asked[i].verdict = "open"

Ask(i) ==
    /\ asked[i] = Nobody
    /\ \E kind \in {"index", "begin", "callback"} :
         asked' = [asked EXCEPT ![i] = Request(kind, issuer)]
    /\ UNCHANGED world

(* The documents a request may be judged on: its own provider's, so far. *)
Read(a) == {<<a.cfg, n>> : n \in 1 .. revision[a.cfg]}

(* The provider issues a token for the code a callback brought. *)
Issue(i) ==
    /\ Open(i)
    /\ asked[i].kind = "callback" /\ Read(asked[i]) \cap Sound # {} /\ asked[i].token = None
    /\ \E key \in KeysOf(asked[i].cfg) : \E kid \in {None, Kid[key]} :
         asked' = [asked EXCEPT ![i].token = [key |-> key, kid |-> kid]]
    /\ UNCHANGED world

(* A token may be refused: its own key is no longer published or is not one for it,
   or its header fits another key as well. *)
Refusable(token) ==
    \/ token.key \notin KeysOf(token.key[1])
    \/ ~Fits(token.key, token)
    \/ \E k \in KeysSoFar \ {token.key} : Fits(k, token)

(* What each verdict takes; a fetch may always fail. *)
Justified(a, verdict) ==
    \/ verdict = "failed"
    \/ verdict = "shown"     /\ a.kind = "index" /\ Read(a) \cap Sound # {}
    \/ verdict = "form_post" /\ a.kind = "begin" /\ Read(a) \cap Sound \cap FormPostOnly # {}
    \/ verdict = "redirect"  /\ a.kind = "begin" /\ (Read(a) \cap Sound) \ FormPostOnly # {}
    \/ verdict = "verified"  /\ a.token # None /\ Fits(a.token.key, a.token)
    \/ verdict = "rejected"  /\ a.token # None /\ Refusable(a.token)

Decide(i) ==
    /\ Open(i)
    /\ \E verdict \in {"failed", "shown", "form_post", "redirect", "verified", "rejected"} :
         /\ asked' = [asked EXCEPT ![i].verdict = verdict]
         /\ Justified(asked[i], verdict)
    /\ UNCHANGED world

Leave(i) ==
    /\ asked' = [asked EXCEPT ![i] = Nobody]
    /\ UNCHANGED world

Rotate ==
    /\ \E p \in Issuers :
         /\ generation[p] < Rotations[p]
         /\ generation' = [generation EXCEPT ![p] = @ + 1]
    /\ UNCHANGED <<issuer, oldest, revision, asked>>

Retire ==
    /\ \E p \in Issuers :
         /\ oldest[p] < generation[p]
         /\ oldest' = [oldest EXCEPT ![p] = @ + 1]
    /\ UNCHANGED <<issuer, generation, revision, asked>>

Revise ==
    /\ \E p \in Issuers :
         /\ revision[p] < Last[p]
         /\ revision' = [revision EXCEPT ![p] = @ + 1]
    /\ UNCHANGED <<issuer, generation, oldest, asked>>

Repoint ==
    /\ issuer' \in Issuers \ {issuer}
    /\ UNCHANGED <<generation, oldest, revision, asked>>

Next ==
    \/ \E i \in Instances :
         /\ asked'[i] # asked[i] \* or it is no step
         /\ Ask(i) \/ Issue(i) \/ Decide(i) \/ Leave(i)
    \/ /\ world' # world       \* likewise
       /\ Rotate \/ Retire \/ Revise \/ Repoint

Spec == Init /\ [][Next]_vars
==============================================================================
