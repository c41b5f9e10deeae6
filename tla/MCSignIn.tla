------------------------------ MODULE MCSignIn ------------------------------
(* SignIn on a small instance.  TLC has an operator of its own called Assert. *)
EXTENDS SignIn

CONSTANTS p1, p2, c1, c2

T == INSTANCE TLC

(* Two providers, and at the first of them two clients one after the other. *)
Pairs == {<<p1, c1>>, <<p1, c2>>, <<p2, c2>>}

Installed == <<p1, c1>>

Symmetry == T!Permutations(Instances) \cup T!Permutations(Browsers)
              \cup T!Permutations(Handles)
=============================================================================
