------------------------------- MODULE IDToken -------------------------------
(***************************************************************************)
(* VerifyIDToken (oidc/idtoken.go): the signature, then the claims; and    *)
(* the one refresh of the key set that Exchange allows itself              *)
(* (oidc/flow.go).                                                         *)
(*                                                                         *)
(* Times are what the code computes with: exp and iat are signed integers  *)
(* of a fixed width, time.Unix shifts one to Go's own epoch and wraps when *)
(* that leaves the width, and Time.Add stops at the ends of it.  Half is   *)
(* 2^63 and the epoch 62135596800 in the program.                          *)
(***************************************************************************)
EXTENDS Integers, Jose

CONSTANTS
    Half,    \* an integer of the program is in -Half .. Half - 1
    Epoch,   \* seconds from the start of Go's time to 1970 (unixToInternal)
    Skew,    \* the clock_skew_seconds setting
    MaxKeys, \* bound on the length of a key set
    Slices   \* the inputs: sets of headers, claims, key sets and clocks, to be combined

MaxSec == Half - 1
MinSec == -Half

ASSUME TimesAssumption ==
    /\ Half \in Nat \ {0} /\ Epoch \in Nat /\ Skew \in Nat /\ MaxKeys \in Nat
    /\ Epoch < Half

VARIABLES
    header,     \* the token but for its claims
    claims,     \* the token's payload
    set,        \* the key set, cached or fetched
    now,        \* the verifier's clock, read once
    refreshed,  \* whether the set has been fetched again
    verdict     \* the check that refused the token, "ok", or "pending"

vars == <<header, claims, set, now, refreshed, verdict>>

Us == "client"  \* the configured client_id
Them == "other"

(* The claims as the provider wrote them.  issuer and nonce: whether the claim
   is the one expected.  aud and email_verified come in several forms of JSON;
   a time of 0 is one that is not there. *)
Claims == [issuer : BOOLEAN, form : {"string", "array", "other"}, aud : Seq({Us, Them}),
           azp : {"", Us, Them}, exp : MinSec .. MaxSec, iat : MinSec .. MaxSec,
           nonce : BOOLEAN, sub : BOOLEAN, email_verified : {"boolean", "string", "other"}]

ASSUME SlicesAssumption ==
    \A s \in Slices :
      /\ s.headers \subseteq jws /\ s.claims \subseteq Claims
      /\ s.sets \subseteq KeySets(MaxKeys)
      /\ \A n \in s.nows : n \in Nat \ {0} /\ n + Epoch + Skew <= MaxSec

SignatureVerdicts == {"malformed", "alg", "unknownKid", "several", "key", "signature"}

ClaimVerdicts == {"payload", "iss", "aud", "azp", "exp", "iat", "nonce", "sub", "ok"}

TypeOK ==
    /\ header \in jws
    /\ claims \in Claims
    /\ set \in Seq(KeyPool) /\ Len(set) \in 1 .. MaxKeys
    /\ refreshed \in BOOLEAN
    /\ verdict \in SignatureVerdicts \cup ClaimVerdicts \cup {"pending"}

Init ==
    /\ \E s \in Slices :
         /\ header \in s.headers /\ claims \in s.claims
         /\ set \in s.sets /\ now \in s.nows
    /\ refreshed = FALSE
    /\ verdict = "pending"

-----------------------------------------------------------------------------
(* time.Unix, Time.Add and Time.After. *)
Wrap(n) == ((n + Half) % (2 * Half)) - Half

Unix(sec) == Wrap(sec + Epoch)

Add(t, d) == IF t + d > MaxSec THEN MaxSec ELSE t + d

After(t, u) == t > u

(* json.Unmarshal into an IDToken: aud is a string or an array of them,
   email_verified a boolean or a string. *)
Readable(c) == c.form # "other" /\ c.email_verified # "other"

has(aud, who) == \E m \in DOMAIN aud : aud[m] = who

(* Mutant of Expired: the skew is taken off, not added. *)
ExpiredEarly(c, n) == c.exp = 0 \/ After(Add(Unix(n), Skew), Unix(c.exp))

Expired(c, n) == c.exp = 0 \/ After(Unix(n), Add(Unix(c.exp), Skew))

(* Mutant of FromTheFuture: iat has only to be there. *)
FromTheFutureUnchecked(c, n) == c.iat = 0

FromTheFuture(c, n) == c.iat = 0 \/ After(Unix(c.iat), Add(Unix(n), Skew))

(* Mutant of WrongParty: azp is looked at only where it is required. *)
WrongPartyIfRequired(c) == Len(c.aud) > 1 /\ c.azp # Us

(* azp is required with several audiences, and is this client where there is
   one. *)
WrongParty(c) ==
    \/ Len(c.aud) > 1 /\ c.azp # Us
    \/ c.azp # "" /\ c.azp # Us

(* What VerifyIDToken checks of the claims, in its order. *)
ClaimChecks(c, n) ==
    << [name |-> "payload", fails |-> ~Readable(c)],
       [name |-> "iss",     fails |-> ~c.issuer],
       [name |-> "aud",     fails |-> ~has(c.aud, Us)],
       [name |-> "azp",     fails |-> WrongParty(c)],
       [name |-> "exp",     fails |-> Expired(c, n)],
       [name |-> "iat",     fails |-> FromTheFuture(c, n)],
       [name |-> "nonce",   fails |-> ~c.nonce],
       [name |-> "sub",     fails |-> ~c.sub] >>

(* Mutant of VerifyIDToken: the claims are looked at first. *)
VerifyClaimsFirst(t, c, s, n) == Judge(ClaimChecks(c, n) \o SignatureChecks(t, s))

VerifyIDToken(t, c, s, n) == Judge(SignatureChecks(t, s) \o ClaimChecks(c, n))

-----------------------------------------------------------------------------
Verify ==
    /\ verdict = "pending"
    /\ verdict' = VerifyIDToken(header, claims, set, now)
    /\ UNCHANGED <<header, claims, set, now, refreshed>>

(* Exchange fetches the set once more.  The provider may have published any set
   in the meantime; the clock is not read again. *)
Refresh ==
    /\ verdict = "unknownKid" /\ ~refreshed
    /\ set' \in KeySets(MaxKeys)
    /\ refreshed' = TRUE
    /\ verdict' = "pending"
    /\ UNCHANGED <<header, claims, now>>

Next == Verify \/ Refresh

Spec == Init /\ [][Next]_vars

-----------------------------------------------------------------------------
(* The entries of a set, wherever they stand in it. *)
Entries(s) == {s[n] : n \in DOMAIN s}

(* No claim is acted on, to accept the token or to say what is wrong with it,
   but on the word of one published signature key: the one the token names, or
   the only one it can mean.  A key that was kept for encryption or for another
   algorithm, or that could be one of several, vouches for nothing
   (idtoken.go:93-98, jose.go:105-139, 242-307). *)
ReadOnlyWhatIsVouchedFor ==
    verdict \in ClaimVerdicts =>
      \E k \in Entries(set) :
        /\ k.id = header.signer
        /\ k.use # "enc" /\ k.alg \in {"", header.alg}
        /\ header.kid # "" => k.kid = header.kid
        /\ header.kid = "" => \A l \in Entries(set) \ {k} : ~Fits(l, header)

(* A provider may list its keys in any order: as long as no two have the same
   kid, the verdict on a token is the same (find, jose.go:107-110). *)
OrderIsIrrelevant ==
    (\A k, l \in Entries(set) : k.kid = l.kid => k = l) =>
      verify(header, set) = verify(header, Reverse(set))

(* The failure that is worth a fetch is one a fetch can fix: had the set held
   the signer's key as well, the signature of a genuine token that names it, or
   names none, would have been accepted (errUnknownKid, jose.go:99-103,
   flow.go:240-244). *)
UnknownKidIsCurable ==
    verdict = "unknownKid" =>
      \A k \in KeyPool :
        publicKey(k) /\ SignedBy(header, k) /\ Fits(k, header)
            /\ header.kid \in {"", k.kid} =>
          verify(header, Append(set, k)) = "ok"

(* The token's own times, in integers that do not wrap. *)
Expires == claims.exp + Skew
Begins  == claims.iat - Skew

(* A token is accepted in its own time and never for another client, whatever
   the signs of its times and the number of its audiences: azp, the client it
   was authorized to, is this one or is not there (idtoken.go:120-140). *)
AcceptedInTime ==
    verdict = "ok" =>
      /\ now <= Expires /\ claims.exp # 0
      /\ has(claims.aud, Us)
      /\ \/ claims.azp = Us
         \/ claims.azp = "" /\ \A m \in DOMAIN claims.aud : claims.aud[m] = Us

(* Whether time.Unix can shift a time without wrapping. *)
Shifts(sec) == sec + Epoch <= MaxSec

(* A refusal for its times is one the times justify, up to the skew, unless the
   time is one that wraps (idtoken.go:133-151). *)
RefusedForItsTimes ==
    /\ verdict = "exp" => claims.exp = 0 \/ now > Expires \/ ~Shifts(claims.exp)
    /\ verdict = "iat" => claims.iat = 0 \/ now < Begins

(* "A token issued in the future is a clock this add-on cannot reason about"
   (idtoken.go:141-142): none is accepted, except one whose time wraps into the
   past. *)
NotFromTheFuture == verdict = "ok" /\ Shifts(claims.iat) => now >= Begins
==============================================================================
