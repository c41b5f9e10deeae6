------------------------ MODULE MCProviderDocuments ------------------------
(* ProviderDocuments with two providers the operator may choose between. *)
EXTENDS ProviderDocuments, TLC

CONSTANTS p1, p2, i1, i2

Providers == {p1, p2}

Document(p, methods, modes) ==
    [issuer |-> p, endpoints |-> p, methods |-> methods, modes |-> modes]

(* One provider that can be used with LinkCtrl only after it has changed its
   document, and one that always can; both list everything. *)
BothAdvertise ==
    p1 :> <<Document(p1, "S256", "form_post"), Document(p1, "S256", "query")>> @@
    p2 :> <<Document(p2, "S256", "query")>>

(* The second one leaves the optional lists out. *)
OneOmits == p1 :> <<Document(p1, "S256", "form_post")>> @@
            p2 :> <<Document(p2, Absent, Absent)>>

(* The first provider has one more key to come, of another name and for another
   algorithm than its first; the other's key bears the first one's name. *)
OneRotates == p1 :> 1 @@ p2 :> 0
Names      == <<p1, 0>> :> "a" @@ <<p1, 1>> :> "b" @@ <<p2, 0>> :> "a"
OtherAlg   == {<<<<p1, 0>>, <<p1, 1>>>>}

NoneRotates == p1 :> 0 @@ p2 :> 0
FirstNames  == <<p1, 0>> :> "a" @@ <<p2, 0>> :> "a"

Symmetry == Permutations(Instances)
=============================================================================
