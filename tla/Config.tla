------------------------------- MODULE Config -------------------------------
(***************************************************************************)
(* The settings an operator types (oidc/config.go), and what a sign-in     *)
(* makes of them: the issuer is compared with the discovery document's     *)
(* (oidc/provider.go), then with the flow's (oidc/handler.go), then with   *)
(* the token's (oidc/idtoken.go), and the operator may save again while    *)
(* the visitor is away.                                                    *)
(*                                                                         *)
(* A setting is what the code can tell apart about it: a URL is its        *)
(* scheme, its host and how many slashes it ends in, a path how many it    *)
(* begins with and whether it has a character that a Location may not      *)
(* have, scopes are words, a number is digits or not.  "" is nothing.      *)
(***************************************************************************)
EXTENDS Integers, Sequences, SequencesExt

CONSTANTS
    Slices,   \* the inputs: what is typed, what is typed later, and what the
              \* discovery documents name, to be combined
    MaxSaves  \* bound on the operator's saves while a visitor is away

URL == [scheme : {"https", "http", ""}, host : {"idp", "alias", ""}, slashes : 0 .. 2]

NoURL == [scheme |-> "", host |-> "", slashes |-> 0]

Path == [slashes : 0 .. 2, forbidden : BOOLEAN]

Number == [digits : BOOLEAN, n : Int]

(* The hosts that answer, each with the issuer its discovery document names,
   which is the issuer its tokens carry. *)
Hosts == {"idp", "alias"}

Settings == [issuer : URL, client_id : {"", "id"}, client_secret : {"", "secret"},
             redirect_uri : URL, scopes : Seq({"openid", "email", "groups"}),
             after_sign_in : Path, clock_skew : Number, discovery_ttl : Number]

ASSUME SlicesAssumption ==
    /\ MaxSaves \in Nat
    /\ \A s \in Slices :
         /\ s.typed \subseteq Settings /\ s.retyped \subseteq Settings
         /\ s.names \subseteq [Hosts -> URL]

VARIABLES
    saved,    \* the operator's settings
    later,    \* what the operator may save instead
    names,    \* per host: the issuer of its discovery document and its tokens
    saves,    \* how often the settings were saved again
    at,       \* how far the visitor is
    begun,    \* the settings as the visitor was sent away
    flow,     \* the issuer in the row of the flow
    cfg,      \* the Config of the last request that had one
    verdict   \* what became of the sign-in

vars == <<saved, later, names, saves, at, begun, flow, cfg, verdict>>

NoConfig == [issuer |-> NoURL, redirect_uri |-> NoURL, scopes |-> <<>>,
             after_sign_in |-> [slashes |-> 0, forbidden |-> FALSE],
             clock_skew |-> 0, discovery_ttl |-> 0]

Verdicts == {"pending", "unconfigured", "notHTTPS", "discovery", "otherProvider",
             "iss", "signedIn"}

TypeOK ==
    /\ saved \in Settings /\ begun \in Settings
    /\ names \in [Hosts -> URL]
    /\ saves \in 0 .. MaxSaves
    /\ at \in {"start", "away", "done"}
    /\ flow \in URL
    /\ cfg.issuer \in URL /\ cfg.issuer.slashes < 2
    /\ cfg.clock_skew \in Nat /\ cfg.discovery_ttl \in Nat
    /\ verdict \in Verdicts
    /\ at = "away" => verdict = "pending"

Init ==
    /\ \E s \in Slices :
         saved \in s.typed /\ later = s.retyped /\ names \in s.names
    /\ saves = 0
    /\ at = "start"
    /\ begun = saved
    /\ flow = NoURL
    /\ cfg = NoConfig
    /\ verdict = "pending"

-----------------------------------------------------------------------------
(* strings.TrimSuffix(..., "/"), once. *)
TrimSuffix(url) == [url EXCEPT !.slashes = IF @ = 0 THEN 0 ELSE @ - 1]

checkHTTPS(url) == url.scheme = "https" /\ url.host # ""

(* Mutant of normalizeScopes: what is typed is what is asked for. *)
ScopesAsTyped(scopes) == IF scopes = <<>> THEN <<"openid", "email">> ELSE scopes

(* openid is asked for, whatever else is.  (The default has profile too.) *)
normalizeScopes(scopes) ==
    IF scopes = <<>> THEN <<"openid", "email">>
    ELSE IF "openid" \in ToSet(scopes) THEN scopes
    ELSE <<"openid">> \o scopes

dashboard == [slashes |-> 1, forbidden |-> FALSE]

safePath(path) == IF path.slashes = 1 /\ ~path.forbidden THEN path ELSE dashboard

boundedInt(number, fallback, low, high) ==
    IF number.digits /\ number.n \in low .. high THEN number.n ELSE fallback

(* LoadConfig, which refuses settings without one of these four ... *)
Missing(s) == \/ s.issuer = NoURL       \/ s.client_id = ""
              \/ s.redirect_uri = NoURL \/ s.client_secret = ""

(* ... or with one of these two in the clear ... *)
InTheClear(s) == ~checkHTTPS(TrimSuffix(s.issuer)) \/ ~checkHTTPS(s.redirect_uri)

(* The largest of the two numbers, in seconds. *)
MaxSkew == 600
MaxTTL  == 86400

(* Mutant of Loaded: the issuer is kept as it was typed. *)
LoadedAsTyped(s) ==
    [issuer        |-> s.issuer,
     redirect_uri  |-> s.redirect_uri,
     scopes        |-> normalizeScopes(s.scopes),
     after_sign_in |-> safePath(s.after_sign_in),
     clock_skew    |-> boundedInt(s.clock_skew, 60, 0, MaxSkew),
     discovery_ttl |-> boundedInt(s.discovery_ttl, 900, 0, MaxTTL)]

(* ... and makes the best of the others.  (after_link is as after_sign_in.) *)
Loaded(s) ==
    [issuer        |-> TrimSuffix(s.issuer),
     redirect_uri  |-> s.redirect_uri,
     scopes        |-> normalizeScopes(s.scopes),
     after_sign_in |-> safePath(s.after_sign_in),
     clock_skew    |-> boundedInt(s.clock_skew, 60, 0, MaxSkew),
     discovery_ttl |-> boundedInt(s.discovery_ttl, 900, 0, MaxTTL)]

(* Mutant of LoadRefuses: a setting that is missing is found out later. *)
LoadRefusesInTheClear(s, why) == InTheClear(s) /\ why = "notHTTPS"

LoadRefuses(s, why) ==
    \/ Missing(s) /\ why = "unconfigured"
    \/ ~Missing(s) /\ InTheClear(s) /\ why = "notHTTPS"

-----------------------------------------------------------------------------
Finish(why) == at' = "done" /\ verdict' = why

(* A request that is refused its settings. *)
Unconfigured ==
    /\ at # "done"
    /\ \E why \in Verdicts : LoadRefuses(saved, why) /\ Finish(why)
    /\ UNCHANGED <<saved, later, names, saves, begun, flow, cfg>>

(* Mutant of checkDiscovery: the document may name any issuer. *)
checkDiscoveryAny(c) == TRUE

(* checkDiscovery, of the document at the issuer's well-known address. *)
checkDiscovery(c) == TrimSuffix(names[c.issuer.host]) = c.issuer

(* Begin: the visitor is sent away, or the provider is not the one configured.
   With two slashes typed, one is left in front of the well-known path, where
   a host may or may not answer. *)
Begin ==
    /\ at = "start"
    /\ ~\E why \in Verdicts : LoadRefuses(saved, why)
    /\ cfg' = Loaded(saved)
    /\ \/ /\ checkDiscovery(cfg')
          /\ at' = "away" /\ flow' = cfg'.issuer /\ verdict' = verdict
       \/ /\ ~checkDiscovery(cfg') \/ cfg'.issuer.slashes > 0
          /\ Finish("discovery") /\ flow' = flow
    /\ UNCHANGED <<saved, later, names, saves, begun>>

(* The operator saves other settings, or the same ones spelled otherwise. *)
Save ==
    /\ at = "away" /\ saves < MaxSaves
    /\ saved' \in later \ {saved}
    /\ saves' = saves + 1
    /\ UNCHANGED <<later, names, at, begun, flow, cfg, verdict>>

(* callback: the flow's issuer against the one configured now, then, in the
   token the provider at the flow's issuer answers, iss against it. *)
Callback ==
    /\ at = "away"
    /\ ~\E why \in Verdicts : LoadRefuses(saved, why)
    /\ cfg' = Loaded(saved)
    /\ \/ flow # cfg'.issuer /\ Finish("otherProvider")
       \/ flow = cfg'.issuer /\ names[flow.host] # cfg'.issuer /\ Finish("iss")
       \/ flow = cfg'.issuer /\ names[flow.host] = cfg'.issuer /\ Finish("signedIn")
    /\ UNCHANGED <<saved, later, names, saves, begun, flow>>

Next == Unconfigured \/ Begin \/ Save \/ Callback

Spec == Init /\ [][Next]_vars

-----------------------------------------------------------------------------
(* Nobody is sent to a provider, or signed in, on half a configuration or with
   a redirect_uri that would bring the code back in the clear
   (config.go:128-189, 191-196). *)
ActsOnWholeSettings ==
    at = "away" \/ verdict = "signedIn" =>
      /\ cfg.issuer.host # "" /\ cfg.issuer.scheme = "https"
      /\ cfg.redirect_uri.host # "" /\ cfg.redirect_uri.scheme = "https"
      /\ at = "away" => begun.client_id # "" /\ begun.client_secret # ""
      /\ at = "done" => saved.client_id # "" /\ saved.client_secret # ""

(* Whatever is typed in the optional settings, what a sign-in runs with asks for
   an ID token and for every scope that was typed, lands on this instance, and
   stays within the bounds of its numbers (config.go:182-187, 209-254). *)
OptionalSettingsAreHarmless ==
    at = "away" =>
      /\ "openid" \in ToSet(cfg.scopes)
      /\ begun.scopes # <<>> => IsSuffix(begun.scopes, cfg.scopes)
      /\ cfg.after_sign_in.slashes = 1 /\ ~cfg.after_sign_in.forbidden
      /\ cfg.clock_skew <= MaxSkew /\ cfg.discovery_ttl <= MaxTTL

SpellingsOf(url) == {u \in URL : TrimSuffix(u) = TrimSuffix(url)}

(* An operator who saves the same issuer with a slash at its end, or without,
   costs nobody a sign-in: a flow is refused as another provider's only if the
   two issuers differ in more than that (config.go:171-174, handler.go:187-193). *)
RespelledIssuerKeepsFlows ==
    verdict = "otherProvider" => saved.issuer \notin SpellingsOf(begun.issuer)

(* Discovery lets nobody leave for a provider whose tokens are going to be
   refused for their issuer: at the callback, after the trip, is too late to
   find out (provider.go:83-92).  The exception is an issuer that ends in a
   slash itself: discovery forgives it, the token's check does not. *)
SentAwayCanComeBack ==
    verdict = "iss" => names[flow.host].slashes > 0

(* What config.go:171-173 says of the trailing slash: normalized there, so that
   neither the comparison with iss nor the well-known path goes wrong. *)
NormalizedForBothUses == verdict # "iss"
=============================================================================
