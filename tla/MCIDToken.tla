----------------------------- MODULE MCIDToken -----------------------------
(* IDToken with one key of every sort a provider publishes, and a few times
   about the verifier's clock. *)
EXTENDS IDToken

Key(id, kty, kid, use, alg, material) ==
    [id |-> id, kty |-> kty, kid |-> kid, use |-> use, alg |-> alg,
     material |-> material]

Good == Key(1, "RSA", "a", "sig", "RS256", TRUE)  \* says all there is to say

Pool == { Good,
          Key(2, "RSA", "b", "",    "",      TRUE),   \* leaves the options out
          Key(3, "EC",  "b", "sig", "ES256", TRUE),   \* shares a kid
          Key(4, "RSA", "c", "enc", "",      TRUE),   \* not for signatures
          Key(5, "OKP", "d", "sig", "",      TRUE),   \* a type that is not verified
          Key(6, "RSA", "",  "sig", "PS384", TRUE),   \* has no kid
          Key(7, "EC",  "a", "",    "",      FALSE) } \* numbers of the wrong size

(* The times about which everything changes, the first and the last whose shift
   to Go's epoch stays within the width, and the last two, whose shift does not. *)
Near == {MinSec, -1, 0, 1, 2, 3, 4, 5, 6, 7, 8, 9,
         MaxSec - Epoch, MaxSec - Epoch + 1, MaxSec}

(* What is combined with what: every header with every key set, and one header
   that verifies with every claim set, the readable ones at every clock. *)
Best == [issuer |-> TRUE, form |-> "string", aud |-> <<Us>>, azp |-> "",
         exp |-> 5, iat |-> 5, nonce |-> TRUE, sub |-> TRUE,
         email_verified |-> "boolean"]

HeaderSlice ==
    [headers |-> {t \in jws : (~t.parses => t.kid = "")
                               /\ t.alg \in {"RS256", "PS384", "ES256", "HS256"}},
     claims |-> {Best, [Best EXCEPT !.nonce = FALSE]},
     sets |-> KeySets(MaxKeys), nows |-> {5}]

Verifying == [parses |-> TRUE, alg |-> "RS256", kid |-> "a", signer |-> 1]

ClaimSlice(forms, audiences, spellings, times, nows) ==
    [headers |-> {Verifying},
     claims |-> [issuer : BOOLEAN, form : forms, aud : audiences,
                 azp : {"", Us, Them}, exp : times, iat : times,
                 nonce : BOOLEAN, sub : BOOLEAN, email_verified : spellings],
     sets |-> {<<Good>>}, nows |-> nows]

Combinations ==
    { HeaderSlice,
      ClaimSlice({"string"}, {<<Us>>, <<Them>>}, {"boolean"}, Near, {4, 5, 6}),
      ClaimSlice({"array"}, UNION {[1 .. n -> {Us, Them}] : n \in {0, 2}},
                 {"boolean"}, Near, {4, 5, 6}),
      ClaimSlice({"string", "other"}, {<<Us>>}, {"string", "other"}, {2, 5}, {5}) }
=============================================================================
