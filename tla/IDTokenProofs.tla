---------------------------- MODULE IDTokenProofs ----------------------------
(***************************************************************************)
(* What is proved of Jose and IDToken: for any pool of keys, any key set,  *)
(* any token, any width of integers, any epoch and any skew; so for 64     *)
(* bits and Go's epoch as well as for the few of the model-checked ones.   *)
(*                                                                         *)
(* The invariant is that a verdict is VerifyIDToken's of what is there;    *)
(* what follows is about the operators.  A verdict names the first check   *)
(* that fails (Verdict), so every check in front of it did not.            *)
(***************************************************************************)
EXTENDS IDToken, SequenceTheorems, WellFoundedInduction, TLAPS

Inductive ==
    /\ TypeOK
    /\ now \in Nat \ {0} /\ now + Epoch + Skew <= MaxSec
    /\ verdict # "pending" => verdict = VerifyIDToken(header, claims, set, now)

-----------------------------------------------------------------------------
(* Some numbers have a least one among them. *)
LEMMA Least ==
  ASSUME NEW S \in SUBSET Nat, S # {}
  PROVE  Min(S) \in S /\ \A n \in S : Min(S) <= n
<1>1. PICK m \in S : \A n \in S : <<n, m>> \notin OpToRel(<, Nat)
  BY WFMin, NatLessThanWellFounded
<1>2. \A n \in S : ~(n < m)
  BY <1>1 DEF OpToRel
<1>3. \E l \in S : \A n \in S : l <= n
  BY <1>2
<1> QED
  BY <1>3 DEF Min

(* Judge goes by the first check that fails. *)
LEMMA Judged ==
  ASSUME NEW checks, DOMAIN checks \in SUBSET Nat
  PROVE  /\ (\A n \in DOMAIN checks : ~checks[n].fails) => Judge(checks) = "ok"
         /\ (\E n \in DOMAIN checks : checks[n].fails) =>
              \E n \in DOMAIN checks :
                /\ checks[n].fails
                /\ \A m \in DOMAIN checks : m < n => ~checks[m].fails
                /\ Judge(checks) = checks[n].name
<1> DEFINE failed == {n \in DOMAIN checks : checks[n].fails}
<1> DEFINE least == Min(failed)
<1>1. Judge(checks) = IF failed = {} THEN "ok" ELSE checks[least].name
  BY DEF Judge
<1>2. failed \in SUBSET Nat
  OBVIOUS
<1>3. ASSUME failed # {} PROVE least \in failed /\ \A n \in failed : least <= n
  <2> HIDE DEF failed
  <2> QED
    BY <1>2, <1>3, Least
<1> HIDE DEF least
<1>4. (\A n \in DOMAIN checks : ~checks[n].fails) => Judge(checks) = "ok"
  BY <1>1
<1>5. ASSUME NEW n \in DOMAIN checks, checks[n].fails
      PROVE  \E l \in DOMAIN checks :
                /\ checks[l].fails
                /\ \A m \in DOMAIN checks : m < l => ~checks[m].fails
                /\ Judge(checks) = checks[l].name
  <2>1. failed # {}
    BY <1>5
  <2>2. least \in DOMAIN checks /\ checks[least].fails /\ least \in Nat
    BY <1>3, <2>1
  <2>3. \A m \in DOMAIN checks : m < least => ~checks[m].fails
    BY <1>3, <2>1, <2>2
  <2> QED
    BY <1>1, <2>1, <2>2, <2>3
<1> QED
  BY <1>4, <1>5

(* The first check that fails, wherever it is known to stand. *)
LEMMA JudgedBy ==
  ASSUME NEW checks, DOMAIN checks \in SUBSET Nat, NEW l \in DOMAIN checks,
         checks[l].fails, \A m \in DOMAIN checks : m < l => ~checks[m].fails
  PROVE  Judge(checks) = checks[l].name
<1>1. PICK n \in DOMAIN checks :
        /\ checks[n].fails
        /\ \A m \in DOMAIN checks : m < n => ~checks[m].fails
        /\ Judge(checks) = checks[n].name
  BY Judged
<1>2. n = l
  BY <1>1
<1> QED
  BY <1>1, <1>2

Passes(checks) == \A n \in DOMAIN checks : ~checks[n].fails

(* Checks that are made after others. *)
LEMMA JudgedInTurn ==
  ASSUME NEW S, NEW a \in Seq(S), NEW b \in Seq(S)
  PROVE  Judge(a \o b) = IF Passes(a) THEN Judge(b) ELSE Judge(a)
<1> DEFINE c == a \o b
<1>1. /\ DOMAIN a = 1 .. Len(a) /\ DOMAIN b = 1 .. Len(b) /\ DOMAIN c = 1 .. (Len(a) + Len(b))
      /\ Len(a) \in Nat /\ Len(b) \in Nat
      /\ DOMAIN a \in SUBSET Nat /\ DOMAIN b \in SUBSET Nat /\ DOMAIN c \in SUBSET Nat
      /\ \A n \in 1 .. Len(a) : c[n] = a[n]
      /\ \A n \in 1 .. Len(b) : c[Len(a) + n] = b[n]
  OBVIOUS
<1>2. \A n \in DOMAIN c : n \in DOMAIN a \/ \E m \in DOMAIN b : n = Len(a) + m
  <2> SUFFICES ASSUME NEW n \in 1 .. (Len(a) + Len(b)), n \notin 1 .. Len(a)
               PROVE  \E m \in 1 .. Len(b) : n = Len(a) + m
      BY <1>1
  <2>1. n - Len(a) \in 1 .. Len(b) /\ n = Len(a) + (n - Len(a))
    BY <1>1
  <2> QED
    BY <2>1
<1> HIDE DEF c
<1>3. CASE ~Passes(a)
  <2>1. PICK l \in DOMAIN a :
          /\ a[l].fails
          /\ \A m \in DOMAIN a : m < l => ~a[m].fails
          /\ Judge(a) = a[l].name
    BY <1>1, <1>3, Judged DEF Passes
  <2>2. l \in DOMAIN c /\ c[l].fails /\ \A m \in DOMAIN c : m < l => ~c[m].fails
    BY <1>1, <2>1
  <2>3. Judge(c) = c[l].name
    BY <1>1, <2>2, JudgedBy
  <2> QED
    BY <1>1, <1>3, <2>1, <2>3 DEF c
<1>4. CASE Passes(a) /\ ~Passes(b)
  <2>1. PICK l \in DOMAIN b :
          /\ b[l].fails
          /\ \A m \in DOMAIN b : m < l => ~b[m].fails
          /\ Judge(b) = b[l].name
    BY <1>1, <1>4, Judged DEF Passes
  <2>2. Len(a) + l \in DOMAIN c /\ c[Len(a) + l] = b[l]
    BY <1>1
  <2>3. ASSUME NEW m \in DOMAIN c, m < Len(a) + l PROVE ~c[m].fails
    <3>1. CASE m \in DOMAIN a
      BY <1>1, <1>4, <3>1 DEF Passes
    <3>2. CASE \E k \in DOMAIN b : m = Len(a) + k
      BY <1>1, <2>1, <2>3, <3>2
    <3> QED
      BY <1>2, <3>1, <3>2
  <2>4. Judge(c) = c[Len(a) + l].name
    BY <1>1, <2>1, <2>2, <2>3, JudgedBy
  <2> QED
    BY <1>4, <2>1, <2>2, <2>4 DEF c
<1>5. CASE Passes(a) /\ Passes(b)
  <2>1. \A n \in DOMAIN c : ~c[n].fails
    BY <1>1, <1>2, <1>5 DEF Passes
  <2>2. Judge(c) = "ok" /\ Judge(b) = "ok"
    BY <1>1, <1>5, <2>1, Judged DEF Passes
  <2> QED
    BY <1>5, <2>2 DEF c
<1> QED
  BY <1>3, <1>4, <1>5

-----------------------------------------------------------------------------
(* The key a token is verified with. *)
Found(t, s) == s[Min(Candidates(t, s))]

(* What verify says, check by check. *)
LEMMA SignatureVerdict ==
  ASSUME NEW t, NEW s
  PROVE  /\ verify(t, s) =
              IF ~t.parses                    THEN "malformed"
              ELSE IF t.alg \notin DOMAIN KeyType THEN "alg"
              ELSE IF UnknownKid(t, s)        THEN "unknownKid"
              ELSE IF Several(t, s)           THEN "several"
              ELSE IF ~publicKey(Found(t, s)) THEN "key"
              ELSE IF ~SignedBy(t, Found(t, s)) THEN "signature" ELSE "ok"
         /\ \A S : (\A n \in 1 .. 6 : SignatureChecks(t, s)[n] \in S)
                     => SignatureChecks(t, s) \in Seq(S)
         /\ Passes(SignatureChecks(t, s)) <=> verify(t, s) = "ok"
<1> DEFINE checks == SignatureChecks(t, s)
           key    == Found(t, s)
<1>1. DOMAIN checks = 1 .. 6
  BY DEF SignatureChecks
<1>2. checks[1].name = "malformed"  /\ (checks[1].fails <=> ~t.parses)
  BY DEF SignatureChecks
<1>3. checks[2].name = "alg"        /\ (checks[2].fails <=> t.alg \notin DOMAIN KeyType)
  BY DEF SignatureChecks
<1>4. checks[3].name = "unknownKid" /\ (checks[3].fails <=> UnknownKid(t, s))
  BY DEF SignatureChecks
<1>5. checks[4].name = "several"    /\ (checks[4].fails <=> Several(t, s))
  BY DEF SignatureChecks
<1>6. /\ checks[5].name = "key"
      /\ checks[5].fails <=> t.alg \in DOMAIN KeyType /\ ~UnknownKid(t, s) /\ ~publicKey(key)
  BY DEF SignatureChecks, Found
<1>7. /\ checks[6].name = "signature"
      /\ checks[6].fails <=> t.alg \in DOMAIN KeyType /\ ~UnknownKid(t, s) /\ ~SignedBy(t, key)
  BY DEF SignatureChecks, Found
<1>8. \A S : (\A n \in 1 .. 6 : checks[n] \in S) => checks \in Seq(S)
  <2>1. Len(checks) = 6 /\ checks = [n \in 1 .. 6 |-> checks[n]]
    BY DEF SignatureChecks
  <2> QED
    BY <2>1
<1>9. verify(t, s) = Judge(checks)
  BY DEF verify
<1> HIDE DEF checks, key
<1>10. Passes(checks) => Judge(checks) = "ok"
  BY <1>1, Judged DEF Passes
<1>11. \A l \in 1 .. 6 : checks[l].fails /\ (\A m \in 1 .. 6 : m < l => ~checks[m].fails)
                           => Judge(checks) = checks[l].name
  BY <1>1, JudgedBy
<1>12. Judge(checks) =
         IF checks[1].fails THEN "malformed" ELSE IF checks[2].fails THEN "alg"
         ELSE IF checks[3].fails THEN "unknownKid" ELSE IF checks[4].fails THEN "several"
         ELSE IF checks[5].fails THEN "key" ELSE IF checks[6].fails THEN "signature" ELSE "ok"
  BY <1>1, <1>2, <1>3, <1>4, <1>5, <1>6, <1>7, <1>10, <1>11 DEF Passes
<1>13. Passes(checks) <=> Judge(checks) = "ok"
  BY <1>1, <1>10, <1>12 DEF Passes
<1> QED
  BY <1>2, <1>3, <1>4, <1>5, <1>6, <1>7, <1>8, <1>9, <1>12, <1>13 DEF checks, key

(* What is said of the claims, check by check. *)
LEMMA ClaimVerdict ==
  ASSUME NEW c, NEW n
  PROVE  /\ Judge(ClaimChecks(c, n)) =
              IF ~Readable(c)               THEN "payload"
              ELSE IF ~c.issuer             THEN "iss"
              ELSE IF ~has(c.aud, Us)       THEN "aud"
              ELSE IF WrongParty(c)         THEN "azp"
              ELSE IF Expired(c, n)         THEN "exp"
              ELSE IF FromTheFuture(c, n)   THEN "iat"
              ELSE IF ~c.nonce              THEN "nonce"
              ELSE IF ~c.sub                THEN "sub" ELSE "ok"
         /\ \A S : (\A m \in 1 .. 8 : ClaimChecks(c, n)[m] \in S)
                     => ClaimChecks(c, n) \in Seq(S)
<1> DEFINE checks == ClaimChecks(c, n)
<1>1. DOMAIN checks = 1 .. 8
  BY DEF ClaimChecks
<1>2. /\ checks[1].name = "payload" /\ (checks[1].fails <=> ~Readable(c))
      /\ checks[2].name = "iss"     /\ (checks[2].fails <=> ~c.issuer)
  BY DEF ClaimChecks
<1>3. /\ checks[3].name = "aud"     /\ (checks[3].fails <=> ~has(c.aud, Us))
      /\ checks[4].name = "azp"     /\ (checks[4].fails <=> WrongParty(c))
  BY DEF ClaimChecks
<1>4. /\ checks[5].name = "exp"     /\ (checks[5].fails <=> Expired(c, n))
      /\ checks[6].name = "iat"     /\ (checks[6].fails <=> FromTheFuture(c, n))
  BY DEF ClaimChecks
<1>5. /\ checks[7].name = "nonce"   /\ (checks[7].fails <=> ~c.nonce)
      /\ checks[8].name = "sub"     /\ (checks[8].fails <=> ~c.sub)
  BY DEF ClaimChecks
<1>6. \A S : (\A m \in 1 .. 8 : checks[m] \in S) => checks \in Seq(S)
  <2>1. Len(checks) = 8 /\ checks = [m \in 1 .. 8 |-> checks[m]]
    BY DEF ClaimChecks
  <2> QED
    BY <2>1
<1> HIDE DEF checks
<1>7. Passes(checks) => Judge(checks) = "ok"
  BY <1>1, Judged DEF Passes
<1>8. \A l \in 1 .. 8 : checks[l].fails /\ (\A m \in 1 .. 8 : m < l => ~checks[m].fails)
                          => Judge(checks) = checks[l].name
  BY <1>1, JudgedBy
<1>9. Judge(checks) =
        IF checks[1].fails THEN "payload" ELSE IF checks[2].fails THEN "iss"
        ELSE IF checks[3].fails THEN "aud" ELSE IF checks[4].fails THEN "azp"
        ELSE IF checks[5].fails THEN "exp" ELSE IF checks[6].fails THEN "iat"
        ELSE IF checks[7].fails THEN "nonce" ELSE IF checks[8].fails THEN "sub" ELSE "ok"
  BY <1>1, <1>2, <1>3, <1>4, <1>5, <1>7, <1>8 DEF Passes
<1> QED
  BY <1>2, <1>3, <1>4, <1>5, <1>6, <1>9 DEF checks

(* The claims are looked at behind the signature. *)
LEMMA TokenVerdict ==
  ASSUME NEW t, NEW c, NEW s, NEW n
  PROVE  VerifyIDToken(t, c, s, n) =
           IF verify(t, s) = "ok" THEN Judge(ClaimChecks(c, n)) ELSE verify(t, s)
<1> DEFINE a == SignatureChecks(t, s)
           b == ClaimChecks(c, n)
           S == {a[m] : m \in 1 .. 6} \cup {b[m] : m \in 1 .. 8}
<1>1. a \in Seq(S) /\ b \in Seq(S)
  BY SignatureVerdict, ClaimVerdict
<1>2. Judge(a \o b) = IF Passes(a) THEN Judge(b) ELSE Judge(a)
  <2> HIDE DEF a, b, S
  <2> QED
    BY <1>1, JudgedInTurn
<1>3. Passes(a) <=> verify(t, s) = "ok"
  BY SignatureVerdict
<1> QED
  BY <1>2, <1>3 DEF VerifyIDToken, verify

(* What a verdict of VerifyIDToken says of the token. *)
LEMMA VerdictMeans ==
  ASSUME NEW t, NEW c, NEW s, NEW n, NEW v, v = VerifyIDToken(t, c, s, n)
  PROVE  /\ v \in SignatureVerdicts \cup ClaimVerdicts
         /\ v \in ClaimVerdicts => verify(t, s) = "ok"
         /\ v = "unknownKid" => verify(t, s) = "unknownKid"
         /\ v = "ok" => /\ has(c.aud, Us) /\ ~WrongParty(c)
                        /\ ~Expired(c, n) /\ ~FromTheFuture(c, n)
         /\ v = "exp" => Expired(c, n)
         /\ v = "iat" => FromTheFuture(c, n)
<1>1. v = IF verify(t, s) = "ok" THEN Judge(ClaimChecks(c, n)) ELSE verify(t, s)
  BY TokenVerdict
<1>2. verify(t, s) \in SignatureVerdicts \cup {"ok"}
  BY SignatureVerdict DEF SignatureVerdicts
<1> QED
  BY <1>1, <1>2, ClaimVerdict DEF SignatureVerdicts, ClaimVerdicts

-----------------------------------------------------------------------------
(* A shift to Go's epoch, short of the end of the integers and past it. *)
LEMMA Shifted ==
  ASSUME NEW sec \in MinSec .. MaxSec
  PROVE  Unix(sec) = IF Shifts(sec) THEN sec + Epoch ELSE sec + Epoch - 2 * Half
<1>1. sec \in Int /\ -Half <= sec /\ sec < Half /\ Epoch < Half
  BY TimesAssumption DEF MinSec, MaxSec
<1>2. ASSUME sec + Epoch < Half PROVE Unix(sec) = sec + Epoch
  <2>1. (sec + Epoch + Half) % (2 * Half) = sec + Epoch + Half
    BY <1>1, <1>2, TimesAssumption
  <2> QED
    BY <1>1, <2>1, TimesAssumption DEF Unix, Wrap
<1>3. ASSUME Half <= sec + Epoch PROVE Unix(sec) = sec + Epoch - 2 * Half
  <2>1. (sec + Epoch + Half) % (2 * Half) = sec + Epoch + Half - 2 * Half
    BY <1>1, <1>3, TimesAssumption
  <2> QED
    BY <1>1, <2>1, TimesAssumption DEF Unix, Wrap
<1> QED
  BY <1>1, <1>2, <1>3, TimesAssumption DEF Shifts, MaxSec

(* What the comparisons of VerifyIDToken come to in integers that do not wrap. *)
LEMMA Compared ==
  ASSUME NEW c \in Claims, NEW n \in Nat, n + Epoch + Skew <= MaxSec
  PROVE  /\ ~Expired(c, n) => c.exp # 0 /\ n <= c.exp + Skew
         /\ Expired(c, n) => c.exp = 0 \/ n > c.exp + Skew \/ ~Shifts(c.exp)
         /\ ~FromTheFuture(c, n) /\ Shifts(c.iat) => n >= c.iat - Skew
         /\ FromTheFuture(c, n) => c.iat = 0 \/ n < c.iat - Skew
<1>1. c.exp \in MinSec .. MaxSec /\ c.iat \in MinSec .. MaxSec
  BY DEF Claims
<1>2. n \in MinSec .. MaxSec /\ Shifts(n)
  BY TimesAssumption DEF Shifts, MinSec, MaxSec
<1>3. /\ Unix(n) = n + Epoch
      /\ Unix(c.exp) = IF Shifts(c.exp) THEN c.exp + Epoch ELSE c.exp + Epoch - 2 * Half
      /\ Unix(c.iat) = IF Shifts(c.iat) THEN c.iat + Epoch ELSE c.iat + Epoch - 2 * Half
  BY <1>1, <1>2, Shifted
<1>4. Add(Unix(n), Skew) = n + Epoch + Skew
  BY <1>3, TimesAssumption DEF Add, MaxSec
<1>5. /\ ~Expired(c, n) => c.exp # 0 /\ n <= c.exp + Skew
      /\ Expired(c, n) => c.exp = 0 \/ n > c.exp + Skew \/ ~Shifts(c.exp)
  BY <1>1, <1>3, TimesAssumption DEF Expired, After, Add, Shifts, MinSec, MaxSec
<1>6. /\ ~FromTheFuture(c, n) /\ Shifts(c.iat) => n >= c.iat - Skew
      /\ FromTheFuture(c, n) => c.iat = 0 \/ n < c.iat - Skew
  BY <1>1, <1>3, <1>4, TimesAssumption DEF FromTheFuture, After, Shifts, MinSec, MaxSec
<1> QED
  BY <1>5, <1>6

-----------------------------------------------------------------------------
(* The key a token is verified with is the first of those it may mean. *)
LEMMA FoundIsCandidate ==
  ASSUME NEW t, NEW s, DOMAIN s \in SUBSET Nat, ~UnknownKid(t, s)
  PROVE  Min(Candidates(t, s)) \in Candidates(t, s)
<1>1. Candidates(t, s) \in SUBSET Nat /\ Candidates(t, s) # {}
  BY DEF Candidates, UnknownKid
<1> QED
  BY <1>1, Least

(* A token whose signature is good is vouched for by one published key. *)
LEMMA VouchedFor ==
  ASSUME NEW t, NEW s, DOMAIN s \in SUBSET Nat, verify(t, s) = "ok"
  PROVE  \E k \in Entries(s) :
           /\ k.id = t.signer
           /\ k.use # "enc" /\ k.alg \in {"", t.alg}
           /\ t.kid # "" => k.kid = t.kid
           /\ t.kid = "" => \A l \in Entries(s) \ {k} : ~Fits(l, t)
<1> DEFINE m == Min(Candidates(t, s))
<1>1. ~UnknownKid(t, s) /\ ~Several(t, s) /\ SignedBy(t, s[m])
  BY SignatureVerdict DEF Found
<1>2. m \in Candidates(t, s)
  BY <1>1, FoundIsCandidate
<1> HIDE DEF m
<1>3. s[m] \in Entries(s) /\ Fits(s[m], t) /\ (t.kid # "" => s[m].kid = t.kid)
  BY <1>2 DEF Candidates, Entries
<1>4. ASSUME t.kid = "", NEW l \in Entries(s), l # s[m], Fits(l, t) PROVE FALSE
  <2>1. PICK n \in DOMAIN s : l = s[n]
    BY <1>4 DEF Entries
  <2>2. n \in Candidates(t, s) /\ n # m
    BY <1>4, <2>1 DEF Candidates
  <2> QED
    BY <1>1, <1>2, <1>4, <2>2 DEF Several
<1> QED
  BY <1>1, <1>3, <1>4 DEF SignedBy, Fits

(* A sequence u that is s and k after it. *)
LongerBy(u, s, k) ==
    /\ DOMAIN u \in SUBSET Nat
    /\ \E last \in DOMAIN u :
         /\ u[last] = k
         /\ \A n \in DOMAIN u : n # last => n \in DOMAIN s /\ u[n] = s[n]

(* Append does that. *)
LEMMA Appended ==
  ASSUME NEW S, NEW s \in Seq(S), NEW k \in S
  PROVE  LongerBy(Append(s, k), s, k)
<1> DEFINE u == Append(s, k)
           size == Len(s)
<1>1. size \in Nat /\ DOMAIN s = 1 .. size
  OBVIOUS
<1>2. u \in Seq(S) /\ Len(u) = size + 1
  BY AppendProperties
<1>3. u[size + 1] = k /\ \A n \in 1 .. size : u[n] = s[n]
  BY AppendProperties
<1>4. DOMAIN u = 1 .. (size + 1)
  BY <1>2
<1> HIDE DEF u, size
<1>5. /\ DOMAIN u \in SUBSET Nat /\ size + 1 \in DOMAIN u /\ u[size + 1] = k
      /\ \A n \in DOMAIN u : n # size + 1 => n \in DOMAIN s /\ u[n] = s[n]
  BY <1>1, <1>3, <1>4
<1> QED
  BY <1>5 DEF LongerBy, u

(* A sequence of one entry or none. *)
LEMMA NoMoreThanOne ==
  ASSUME NEW S, NEW a \in Seq(S), ~(Len(a) > 1)
  PROVE  \A m, n \in DOMAIN a : m = n
OBVIOUS

(* A key that is added to a set no key of which the token may mean. *)
LEMMA Cured ==
  ASSUME NEW t, NEW s, NEW k, verify(t, s) = "unknownKid", NEW u, LongerBy(u, s, k),
         publicKey(k), SignedBy(t, k), Fits(k, t), t.kid \in {"", k.kid}
  PROVE  verify(t, u) = "ok"
<1>1. t.parses /\ t.alg \in DOMAIN KeyType /\ UnknownKid(t, s)
  BY SignatureVerdict
<1>2. PICK last \in DOMAIN u :
        /\ DOMAIN u \in SUBSET Nat /\ u[last] = k
        /\ \A n \in DOMAIN u : n # last => n \in DOMAIN s /\ u[n] = s[n]
  BY DEF LongerBy
<1>3. Candidates(t, u) = {last}
  <2>1. last \in Candidates(t, u)
    BY <1>2 DEF Candidates
  <2>2. \A n \in Candidates(t, u) : n = last
    BY <1>1, <1>2 DEF Candidates, UnknownKid
  <2> QED
    BY <2>1, <2>2
<1>4. ~UnknownKid(t, u) /\ ~Several(t, u)
  BY <1>3 DEF UnknownKid, Several
<1>5. Found(t, u) = k
  <2>1. Min(Candidates(t, u)) = last
    BY <1>2, <1>3, <1>4, FoundIsCandidate
  <2> QED
    BY <1>2, <2>1 DEF Found
<1> QED
  BY <1>1, <1>4, <1>5, SignatureVerdict

(* The keys of a set in the opposite order, when a kid is of one key. *)
LEMMA Reversed ==
  ASSUME NEW t, NEW s \in Seq(KeyPool),
         \A k, l \in Entries(s) : k.kid = l.kid => k = l
  PROVE  verify(t, s) = verify(t, Reverse(s))
<1> DEFINE r     == Reverse(s)
           to(n) == Len(s) - n + 1
<1>1. /\ DOMAIN r = DOMAIN s /\ DOMAIN s = 1 .. Len(s) /\ Len(s) \in Nat
      /\ \A n \in DOMAIN s : to(n) \in DOMAIN s /\ r[n] = s[to(n)] /\ to(to(n)) = n
      /\ \A m, n \in DOMAIN s : m # n => to(m) # to(n)
  BY DEF Reverse
<1>2. /\ \A n \in DOMAIN s : n \in Candidates(t, r) <=> to(n) \in Candidates(t, s)
      /\ Candidates(t, r) \subseteq DOMAIN s /\ Candidates(t, s) \subseteq DOMAIN s
  BY <1>1 DEF Candidates
<1> HIDE DEF r, to
<1> HIDE DEF Candidates
<1>3. UnknownKid(t, s) <=> UnknownKid(t, r)
  <2>1. (\E n \in Candidates(t, r) : TRUE) => \E n \in Candidates(t, s) : TRUE
    BY <1>2
  <2>2. ASSUME NEW n \in Candidates(t, s) PROVE to(n) \in Candidates(t, r)
    BY <1>1, <1>2
  <2> QED
    BY <2>1, <2>2 DEF UnknownKid
<1>4. Several(t, s) <=> Several(t, r)
  <2>1. ASSUME NEW m \in Candidates(t, r), NEW n \in Candidates(t, r), m # n
        PROVE  to(m) \in Candidates(t, s) /\ to(n) \in Candidates(t, s) /\ to(m) # to(n)
    BY <1>1, <1>2, <2>1
  <2>2. ASSUME NEW m \in Candidates(t, s), NEW n \in Candidates(t, s), m # n
        PROVE  to(m) \in Candidates(t, r) /\ to(n) \in Candidates(t, r) /\ to(m) # to(n)
    BY <1>1, <1>2, <2>2
  <2> QED
    BY <2>1, <2>2 DEF Several
<1>5. ASSUME ~UnknownKid(t, s), ~Several(t, s) PROVE Found(t, s) = Found(t, r)
  <2> DEFINE m == Min(Candidates(t, s))
             n == Min(Candidates(t, r))
  <2>1. m \in Candidates(t, s) /\ n \in Candidates(t, r)
    BY <1>1, <1>3, <1>5, FoundIsCandidate
  <2> HIDE DEF m, n
  <2>2. n \in DOMAIN s /\ to(n) \in Candidates(t, s) /\ r[n] = s[to(n)]
    BY <1>1, <1>2, <2>1 DEF Candidates
  <2>3. CASE t.kid = ""
    BY <1>5, <2>1, <2>2, <2>3 DEF Several, Found, m, n
  <2>4. CASE t.kid # ""
    <3>1. s[m].kid = s[to(n)].kid /\ s[m] \in Entries(s) /\ s[to(n)] \in Entries(s)
      BY <2>1, <2>2, <2>4 DEF Candidates, Entries
    <3>2. s[m] = s[to(n)]
      BY <3>1
    <3> QED
      BY <2>2, <3>2 DEF Found, m, n
  <2> QED
    BY <2>3, <2>4
<1> QED
  BY <1>3, <1>4, <1>5, SignatureVerdict DEF r

-----------------------------------------------------------------------------
(* A key set is a sequence of keys, at least one and not too many. *)
LEMMA KeySetsAre ==
  \A s \in KeySets(MaxKeys) : s \in Seq(KeyPool) /\ Len(s) \in 1 .. MaxKeys
<1> SUFFICES ASSUME NEW s \in KeySets(MaxKeys)
             PROVE  s \in Seq(KeyPool) /\ Len(s) \in 1 .. MaxKeys
    OBVIOUS
<1>1. PICK n \in 1 .. MaxKeys : s \in [1 .. n -> KeyPool]
  BY DEF KeySets
<1>2. n \in Nat
  BY TimesAssumption
<1> QED
  BY <1>1, <1>2

(* The inputs are of their kind and nothing has been judged. *)
LEMMA InitInductive == Init => Inductive
<1> SUFFICES ASSUME Init PROVE Inductive
    OBVIOUS
<1>1. PICK s \in Slices : header \in s.headers /\ claims \in s.claims
                          /\ set \in s.sets /\ now \in s.nows
  BY DEF Init
<1>2. /\ header \in jws /\ claims \in Claims /\ set \in KeySets(MaxKeys)
      /\ now \in Nat \ {0} /\ now + Epoch + Skew <= MaxSec
  BY <1>1, SlicesAssumption
<1>3. set \in Seq(KeyPool) /\ Len(set) \in 1 .. MaxKeys
  BY <1>2, KeySetsAre
<1> QED
  BY <1>2, <1>3 DEF Init, Inductive, TypeOK

(* The verdict is given. *)
LEMMA VerifyStep == Inductive /\ Verify => Inductive'
<1> SUFFICES ASSUME Inductive, Verify PROVE Inductive'
    OBVIOUS
<1>1. verdict' \in SignatureVerdicts \cup ClaimVerdicts
  BY VerdictMeans DEF Verify
<1> QED
  BY <1>1 DEF Verify, Inductive, TypeOK

(* Another set is fetched and the verdict is taken back. *)
LEMMA RefreshStep == Inductive /\ Refresh => Inductive'
<1> SUFFICES ASSUME Inductive, Refresh PROVE Inductive'
    OBVIOUS
<1>1. set' \in Seq(KeyPool) /\ Len(set') \in 1 .. MaxKeys
  BY KeySetsAre DEF Refresh
<1> QED
  BY <1>1 DEF Refresh, Inductive, TypeOK

(* The invariant holds initially and both steps keep it. *)
LEMMA AlwaysInductive == Spec => []Inductive
<1>1. Inductive /\ UNCHANGED vars => Inductive'
  BY DEF Inductive, TypeOK, vars
<1>2. Inductive /\ [Next]_vars => Inductive'
  BY <1>1, VerifyStep, RefreshStep DEF Next
<1> QED
  BY <1>2, InitInductive, PTL DEF Spec

-----------------------------------------------------------------------------
(* Every verdict is one of the program's, whatever the token, the set and the
   clock. *)
THEOREM TypeCorrect == Spec => []TypeOK
<1>1. Inductive => TypeOK
  BY DEF Inductive
<1> QED
  BY <1>1, AlwaysInductive, PTL

(* Claims are acted on only on the word of the one published signature key the
   token can mean, for any token and key set (VerifyIDToken, find). *)
THEOREM ClaimsAreVouchedFor == Spec => []ReadOnlyWhatIsVouchedFor
<1>1. Inductive => ReadOnlyWhatIsVouchedFor
  <2> SUFFICES ASSUME Inductive, verdict \in ClaimVerdicts
               PROVE  ReadOnlyWhatIsVouchedFor
      BY DEF ReadOnlyWhatIsVouchedFor
  <2>1. verdict = VerifyIDToken(header, claims, set, now)
    BY DEF Inductive, ClaimVerdicts
  <2>2. verify(header, set) = "ok"
    BY <2>1, VerdictMeans
  <2>3. DOMAIN set \in SUBSET Nat
    BY DEF Inductive, TypeOK
  <2> QED
    BY <2>2, <2>3, VouchedFor DEF ReadOnlyWhatIsVouchedFor
<1> QED
  BY <1>1, AlwaysInductive, PTL

(* The order in which a provider lists its keys decides nothing (find). *)
THEOREM OrderDecidesNothing == Spec => []OrderIsIrrelevant
<1>1. Inductive => OrderIsIrrelevant
  BY Reversed DEF Inductive, TypeOK, OrderIsIrrelevant
<1> QED
  BY <1>1, AlwaysInductive, PTL

(* A verdict of an unknown key is cured by the signer's key (errUnknownKid). *)
THEOREM FetchCuresUnknownKid == Spec => []UnknownKidIsCurable
<1>1. Inductive => UnknownKidIsCurable
  <2> SUFFICES ASSUME Inductive, verdict = "unknownKid" PROVE UnknownKidIsCurable
      BY DEF UnknownKidIsCurable
  <2>1. verdict = VerifyIDToken(header, claims, set, now) /\ set \in Seq(KeyPool)
    BY DEF Inductive, TypeOK
  <2>2. verify(header, set) = "unknownKid"
    BY <2>1, VerdictMeans
  <2> QED
    BY <2>1, <2>2, Cured, Appended DEF UnknownKidIsCurable
<1> QED
  BY <1>1, AlwaysInductive, PTL

(* No token is accepted past its expiry and the skew, or for another client, also
   where the integers of its times wrap. *)
THEOREM InTimeAndForUs == Spec => []AcceptedInTime
<1>1. Inductive => AcceptedInTime
  <2> SUFFICES ASSUME Inductive, verdict = "ok" PROVE AcceptedInTime
      BY DEF AcceptedInTime
  <2>1. /\ verdict = VerifyIDToken(header, claims, set, now) /\ claims \in Claims
        /\ now \in Nat /\ now + Epoch + Skew <= MaxSec
    BY DEF Inductive, TypeOK
  <2>2. has(claims.aud, Us) /\ ~WrongParty(claims) /\ ~Expired(claims, now)
    BY <2>1, VerdictMeans
  <2>3. claims.exp # 0 /\ now <= claims.exp + Skew
    BY <2>1, <2>2, Compared
  <2>4. \/ claims.azp = Us
        \/ claims.azp = "" /\ \A m \in DOMAIN claims.aud : claims.aud[m] = Us
    <3>1. CASE claims.azp = Us
      BY <3>1
    <3>2. CASE claims.azp # Us
      <4>1. claims.azp = "" /\ ~(Len(claims.aud) > 1)
        BY <2>2, <3>2 DEF WrongParty
      <4>2. claims.aud \in Seq({Us, Them})
        BY <2>1 DEF Claims
      <4>3. \A m, n \in DOMAIN claims.aud : m = n
        BY <4>1, <4>2, NoMoreThanOne
      <4>4. \A m \in DOMAIN claims.aud : claims.aud[m] = Us
        BY <2>2, <4>3 DEF has
      <4> QED
        BY <4>1, <4>4
    <3> QED
      BY <3>1, <3>2
  <2> QED
    BY <2>2, <2>3, <2>4 DEF AcceptedInTime, Expires
<1> QED
  BY <1>1, AlwaysInductive, PTL

(* A refusal for its times is one the times justify, but for an expiry that
   wraps. *)
THEOREM RefusedForReason == Spec => []RefusedForItsTimes
<1>1. Inductive => RefusedForItsTimes
  <2> SUFFICES ASSUME Inductive, verdict \in {"exp", "iat"} PROVE RefusedForItsTimes
      BY DEF RefusedForItsTimes
  <2>1. /\ verdict = VerifyIDToken(header, claims, set, now) /\ claims \in Claims
        /\ now \in Nat /\ now + Epoch + Skew <= MaxSec
    BY DEF Inductive, TypeOK
  <2>2. /\ verdict = "exp" => Expired(claims, now)
        /\ verdict = "iat" => FromTheFuture(claims, now)
    BY <2>1, VerdictMeans
  <2> QED
    BY <2>1, <2>2, Compared DEF RefusedForItsTimes, Expires, Begins
<1> QED
  BY <1>1, AlwaysInductive, PTL

(* No token from the future is accepted, but for one whose iat wraps. *)
THEOREM NoneFromTheFuture == Spec => []NotFromTheFuture
<1>1. Inductive => NotFromTheFuture
  <2> SUFFICES ASSUME Inductive, verdict = "ok", Shifts(claims.iat)
               PROVE  NotFromTheFuture
      BY DEF NotFromTheFuture
  <2>1. /\ verdict = VerifyIDToken(header, claims, set, now) /\ claims \in Claims
        /\ now \in Nat /\ now + Epoch + Skew <= MaxSec
    BY DEF Inductive, TypeOK
  <2>2. ~FromTheFuture(claims, now)
    BY <2>1, VerdictMeans
  <2> QED
    BY <2>1, <2>2, Compared DEF NotFromTheFuture, Begins
<1> QED
  BY <1>1, AlwaysInductive, PTL
==============================================================================
