-------------------------------- MODULE Jose --------------------------------
(***************************************************************************)
(* The JWS verifier (oidc/jose.go): whether a token can be read, which key *)
(* of a provider's key set it is verified with, and what is said of it.    *)
(* There is no state here; IDToken applies these operators.                *)
(*                                                                         *)
(* A key is the entry of the set with a name for its material; a token is  *)
(* the two header fields and the name of the key whose owner signed it.    *)
(* Signatures are perfect: one verifies with the signer's key, under the   *)
(* algorithm the header names if that is one for keys of its type, and     *)
(* with nothing else.                                                      *)
(***************************************************************************)
EXTENDS Naturals, Sequences, SequencesExt

CONSTANT KeyPool  \* the keys a set may be made of

(* material: the key's numbers decode, to sizes and on a curve that are known. *)
JWK == [id : Nat \ {0}, kty : {"RSA", "EC", "OKP"}, kid : STRING,
        use : {"", "sig", "enc"}, alg : STRING, material : BOOLEAN]

ASSUME PoolAssumption ==
    /\ KeyPool \subseteq JWK
    /\ \A k, l \in KeyPool : k.id = l.id => k = l

Kids == {k.kid : k \in KeyPool} \cup {""}

(* hashFor and the switch in verify: the algorithms that are verified at all,
   and the type of key each wants.  Neither none nor an HMAC is one. *)
KeyType == [RS256 |-> "RSA", RS384 |-> "RSA", RS512 |-> "RSA",
            PS256 |-> "RSA", PS384 |-> "RSA", PS512 |-> "RSA",
            ES256 |-> "EC",  ES384 |-> "EC",  ES512 |-> "EC"]

(* A compact serialization.  parses: it is three parts of base64url and the
   first is a header.  signer is 0 for a signature no key of the pool made. *)
jws == [parses : BOOLEAN, alg : DOMAIN KeyType \cup {"HS256", "none"},
        kid : Kids, signer : {k.id : k \in KeyPool} \cup {0}]

(* Mutant of KeySets: a set with no keys in it is a key set. *)
KeySetsOrNone(max) ==
    {s \in UNION {[1 .. n -> KeyPool] : n \in 0 .. max} :
       \A m, n \in DOMAIN s : s[m] = s[n] => m = n}

(* The key sets a provider may serve.  Keys refuses one with no keys in it. *)
KeySets(max) ==
    {s \in UNION {[1 .. n -> KeyPool] : n \in 1 .. max} :
       \A m, n \in DOMAIN s : s[m] = s[n] => m = n}

-----------------------------------------------------------------------------
(* Mutant of Fits: a key is taken whatever it is published for. *)
FitsAnyUse(k, t) == k.alg \in {"", t.alg}

(* A key that is for signatures and, if it says for which, for this one. *)
Fits(k, t) == k.use \in {"", "sig"} /\ k.alg \in {"", t.alg}

(* find: where in the set the keys are that a token may mean. *)
Candidates(t, s) ==
    {n \in DOMAIN s : Fits(s[n], t) /\ (t.kid # "" => s[n].kid = t.kid)}

(* Mutant of UnknownKid: the choice among several keys counts as a missing key. *)
UnknownKidOrSeveral(t, s) == Cardinality(Candidates(t, s)) # 1

UnknownKid(t, s) == Candidates(t, s) = {}

(* Mutant of Several: the keys are not counted, the first one is tried. *)
SeveralAllowed(t, s) == FALSE

Several(t, s) == t.kid = "" /\ \E m, n \in Candidates(t, s) : m # n

(* publicKey: RSA and EC keys, when their numbers can be used. *)
publicKey(k) == k.kty \in {"RSA", "EC"} /\ k.material

SignedBy(t, k) == k.kty = KeyType[t.alg] /\ k.id = t.signer

(* What parseJWS and verify check, in their order, each with what fails it.
   A check that follows find is about the first key a token may mean. *)
SignatureChecks(t, s) ==
    LET known == t.alg \in DOMAIN KeyType /\ ~UnknownKid(t, s)
        key   == s[Min(Candidates(t, s))] IN
    << [name |-> "malformed",  fails |-> ~t.parses],
       [name |-> "alg",        fails |-> t.alg \notin DOMAIN KeyType],
       [name |-> "unknownKid", fails |-> UnknownKid(t, s)],
       [name |-> "several",    fails |-> Several(t, s)],
       [name |-> "key",        fails |-> known /\ ~publicKey(key)],
       [name |-> "signature",  fails |-> known /\ ~SignedBy(t, key)] >>

(* The first check that fails decides. *)
Judge(checks) ==
    LET failed == {n \in DOMAIN checks : checks[n].fails} IN
    IF failed = {} THEN "ok" ELSE checks[Min(failed)].name

verify(t, s) == Judge(SignatureChecks(t, s))
=============================================================================
