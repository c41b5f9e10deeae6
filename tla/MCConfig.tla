------------------------------ MODULE MCConfig ------------------------------
(* Config with three slices of what an operator may type. *)
EXTENDS Config

https(host, slashes) == [scheme |-> "https", host |-> host, slashes |-> slashes]

Digits(n) == [digits |-> TRUE, n |-> n]
Words     == [digits |-> FALSE, n |-> 0]

Good == [issuer |-> https("idp", 0), client_id |-> "id", client_secret |-> "secret",
         redirect_uri |-> https("alias", 0), scopes |-> <<>>,
         after_sign_in |-> [slashes |-> 0, forbidden |-> FALSE],
         clock_skew |-> Words, discovery_ttl |-> Words]

(* Every issuer, over every pair of documents; and every issuer instead. *)
Issuers == [typed   |-> {[Good EXCEPT !.issuer = u] : u \in URL},
            retyped |-> {[Good EXCEPT !.issuer = u] : u \in URL},
            names   |-> [Hosts -> {https(h, n) : h \in Hosts, n \in 0 .. 2}]]

(* Each of the required settings there or not, also later. *)
Partial == {[Good EXCEPT !.issuer = i, !.client_id = id, !.client_secret = secret,
                         !.redirect_uri = u] :
              i \in {NoURL, Good.issuer}, id \in {"", "id"},
              secret \in {"", "secret"}, u \in {r \in URL : r.slashes = 0}}

Required == [typed |-> Partial, retyped |-> Partial,
             names |-> {[h \in Hosts |-> https(h, 0)]}]

(* Every combination of the optional ones. *)
Optional == [typed |->
               {[Good EXCEPT !.scopes = words, !.after_sign_in = path,
                             !.clock_skew = skew, !.discovery_ttl = ttl] :
                  words \in UNION {[1 .. n -> {"openid", "email", "groups"}] : n \in 0 .. 2},
                  path \in Path,
                  skew \in {Words} \cup {Digits(n) : n \in {-1, 0, 600, 601}},
                  ttl \in {Words} \cup {Digits(n) : n \in {-1, 0, 86400, 86401}}},
             retyped |-> {Good},
             names |-> {[h \in Hosts |-> https(h, 0)]}]

Combinations == {Issuers, Required, Optional}
=============================================================================
