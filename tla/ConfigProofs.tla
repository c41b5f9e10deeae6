---------------------------- MODULE ConfigProofs ----------------------------
(***************************************************************************)
(* What is proved of Config: for any settings the operator may type,       *)
(* numbers and scopes of any size and length among them, any documents,    *)
(* and any number of saves while a visitor is away.                        *)
(*                                                                         *)
(* A visitor who is away left on a whole configuration whose issuer is the *)
(* one of the discovery document (Left); what became of a sign-in says     *)
(* which of the two comparisons at its end went how (Ended).               *)
(***************************************************************************)
EXTENDS Config, SequenceTheorems, TLAPS

(* Settings LoadConfig accepts. *)
Whole(s) == ~Missing(s) /\ ~InTheClear(s)

(* What is there for good, and what any Config comes from. *)
Typed ==
    /\ saved \in Settings /\ begun \in Settings /\ later \subseteq Settings
    /\ names \in [Hosts -> URL]
    /\ saves \in 0 .. MaxSaves
    /\ at \in {"start", "away", "done"} /\ verdict \in Verdicts
    /\ at = "done" <=> verdict # "pending"
    /\ cfg = NoConfig \/ \E s \in Settings : cfg = Loaded(s)

(* Who is away left with these settings. *)
Left ==
    /\ at = "start" => begun = saved
    /\ at = "away" => Whole(begun) /\ cfg = Loaded(begun)
    /\ at = "away" \/ verdict \in {"otherProvider", "iss"} =>
         /\ flow = TrimSuffix(begun.issuer) /\ flow.host \in Hosts
         /\ TrimSuffix(names[flow.host]) = flow

(* How a sign-in ended. *)
Ended ==
    /\ verdict = "otherProvider" => flow # TrimSuffix(saved.issuer)
    /\ verdict = "iss" => names[flow.host] # flow
    /\ verdict = "signedIn" => Whole(saved) /\ cfg = Loaded(saved)

Inductive == Typed /\ flow \in URL /\ Left /\ Ended

-----------------------------------------------------------------------------
(* A slash is taken off an issuer, and nothing else is done to it. *)
LEMMA Trimmed ==
  ASSUME NEW u \in URL
  PROVE  /\ TrimSuffix(u) \in URL
         /\ TrimSuffix(u).slashes = IF u.slashes = 0 THEN 0 ELSE u.slashes - 1
         /\ TrimSuffix(u).host = u.host /\ TrimSuffix(u).scheme = u.scheme
<1>1. u.slashes \in 0 .. 2
  BY DEF URL
<1>2. (IF u.slashes = 0 THEN 0 ELSE u.slashes - 1) \in 0 .. 2
  BY <1>1
<1> QED
  BY <1>2 DEF TrimSuffix, URL

(* A URL that ends in no slash stays as it is. *)
LEMMA NothingToTrim ==
  ASSUME NEW u \in URL, u.slashes = 0
  PROVE  TrimSuffix(u) = u
<1>1. TrimSuffix(u) = [u EXCEPT !.slashes = 0]
  BY DEF TrimSuffix
<1>2. [u EXCEPT !.slashes = 0] = u
  BY DEF URL
<1> QED
  BY <1>1, <1>2

(* The settings of which LoadConfig makes a Config. *)
LEMMA Accepted ==
  ASSUME NEW s \in Settings
  PROVE  /\ (~\E why \in Verdicts : LoadRefuses(s, why)) <=> Whole(s)
         /\ Whole(s) => /\ s.client_id # "" /\ s.client_secret # ""
                        /\ s.issuer.host \in Hosts /\ s.issuer.scheme = "https"
                        /\ s.redirect_uri.host # "" /\ s.redirect_uri.scheme = "https"
<1>1. s.issuer \in URL /\ s.redirect_uri \in URL
  BY DEF Settings
<1>2. Whole(s) => checkHTTPS(TrimSuffix(s.issuer)) /\ checkHTTPS(s.redirect_uri)
  BY DEF Whole, InTheClear
<1>3. Whole(s) => s.issuer.host \in Hosts /\ s.issuer.scheme = "https"
  BY <1>1, <1>2, Trimmed DEF checkHTTPS, URL, Hosts
<1>4. (~\E why \in Verdicts : LoadRefuses(s, why)) <=> Whole(s)
  BY DEF LoadRefuses, Whole, Verdicts
<1> QED
  BY <1>2, <1>3, <1>4 DEF Whole, Missing, checkHTTPS

(* The bounds are numbers and the defaults are within them. *)
LEMMA Numbers == MaxSkew \in Nat /\ MaxTTL \in Nat /\ 60 <= MaxSkew /\ 900 <= MaxTTL
BY SMT DEF MaxSkew, MaxTTL

(* A number that is typed, or the one that stands in for it. *)
LEMMA Bounded ==
  ASSUME NEW number, NEW fallback \in Nat, NEW high \in Nat, fallback <= high
  PROVE  boundedInt(number, fallback, 0, high) \in 0 .. high
BY DEF boundedInt

(* Words behind one more are the end of what they make. *)
LEMMA Suffix ==
  ASSUME NEW S, NEW s \in Seq(S), NEW e \in S
  PROVE  IsSuffix(s, s) /\ IsSuffix(s, <<e>> \o s)
<1> DEFINE n == Len(s)
           t == <<e>> \o s
<1>1. n \in Nat /\ DOMAIN s = 1 .. n
  OBVIOUS
<1>2. Len(t) = n + 1 /\ \A m \in 1 .. n : t[m + 1] = s[m]
  OBVIOUS
<1>3. Reverse(s) \in Seq(S) /\ Len(Reverse(s)) = n /\ \A m \in 1 .. n : Reverse(s)[m] = s[n - m + 1]
  BY <1>1 DEF Reverse
<1>4. /\ Len(Reverse(t)) = n + 1
      /\ \A m \in 1 .. (n + 1) : Reverse(t)[m] = t[(n + 1) - m + 1]
  BY <1>1, <1>2 DEF Reverse
<1>5. \A m \in 1 .. n : Reverse(t)[m] = Reverse(s)[m]
  <2> SUFFICES ASSUME NEW m \in 1 .. n PROVE Reverse(t)[m] = Reverse(s)[m]
      OBVIOUS
  <2>1. Reverse(t)[m] = t[(n - m + 1) + 1] /\ n - m + 1 \in 1 .. n
    BY <1>1, <1>4
  <2> QED
    BY <1>2, <1>3, <2>1
<1> DEFINE a == Reverse(s)
           b == Reverse(t)
<1>6. SubSeq(a, 1, n) = SubSeq(b, 1, n)
  <2> HIDE DEF a, b, n
  <2>1. \A m \in 1 .. n : a[m] = b[m]
    BY <1>5 DEF a, b, n, t
  <2> QED
    BY <1>1, <2>1
<1>7. Len(a) = n /\ Len(b) = n + 1 /\ n \in Nat
  BY <1>1, <1>3, <1>4
<1>8. IsPrefix(a, b) /\ IsPrefix(a, a)
  <2> HIDE DEF a, b, n
  <2> QED
    BY <1>6, <1>7 DEF IsPrefix
<1> QED
  BY <1>8 DEF IsSuffix

(* Openid is asked for, in front of all that was typed. *)
LEMMA ScopesAreKept ==
  ASSUME NEW s \in Settings
  PROVE  /\ "openid" \in ToSet(normalizeScopes(s.scopes))
         /\ s.scopes # <<>> => IsSuffix(s.scopes, normalizeScopes(s.scopes))
<1> DEFINE Words  == {"openid", "email", "groups"}
           scopes == s.scopes
<1>1. scopes \in Seq(Words)
  BY DEF Settings
<1> HIDE DEF scopes
<1>2. CASE scopes = <<>>
  <2>1. "openid" \in ToSet(<<"openid", "email">>)
    BY DEF ToSet
  <2> QED
    BY <1>2, <2>1 DEF normalizeScopes, scopes
<1>3. CASE scopes # <<>> /\ "openid" \in ToSet(scopes)
  BY <1>1, <1>3, Suffix DEF normalizeScopes, scopes
<1>4. CASE scopes # <<>> /\ "openid" \notin ToSet(scopes)
  <2>1. IsSuffix(scopes, <<"openid">> \o scopes)
    BY <1>1, Suffix
  <2>2. 1 \in DOMAIN (<<"openid">> \o scopes) /\ (<<"openid">> \o scopes)[1] = "openid"
    BY <1>1
  <2>3. "openid" \in ToSet(<<"openid">> \o scopes)
    BY <2>2 DEF ToSet
  <2> QED
    BY <1>4, <2>1, <2>3 DEF normalizeScopes, scopes
<1> QED
  BY <1>2, <1>3, <1>4

(* What LoadConfig makes of settings, whatever they are. *)
LEMMA LoadedIsSafe ==
  ASSUME NEW s \in Settings
  PROVE  LET c == Loaded(s) IN
         /\ c.issuer = TrimSuffix(s.issuer) /\ c.issuer \in URL /\ c.issuer.slashes < 2
         /\ c.redirect_uri = s.redirect_uri
         /\ "openid" \in ToSet(c.scopes)
         /\ s.scopes # <<>> => IsSuffix(s.scopes, c.scopes)
         /\ c.after_sign_in.slashes = 1 /\ ~c.after_sign_in.forbidden
         /\ c.clock_skew \in 0 .. MaxSkew /\ c.discovery_ttl \in 0 .. MaxTTL
<1>1. s.issuer \in URL /\ s.issuer.slashes \in 0 .. 2
  BY DEF Settings, URL
<1>2. /\ TrimSuffix(s.issuer) \in URL /\ TrimSuffix(s.issuer).slashes < 2
  BY <1>1, Trimmed
<1>3. safePath(s.after_sign_in).slashes = 1 /\ ~safePath(s.after_sign_in).forbidden
  BY DEF safePath, dashboard
<1>4. /\ boundedInt(s.clock_skew, 60, 0, MaxSkew) \in 0 .. MaxSkew
      /\ boundedInt(s.discovery_ttl, 900, 0, MaxTTL) \in 0 .. MaxTTL
  BY Bounded, Numbers
<1> QED
  BY <1>2, <1>3, <1>4, ScopesAreKept DEF Loaded

-----------------------------------------------------------------------------
(* Nothing has been loaded. *)
LEMMA InitInductive == Init => Inductive
<1> SUFFICES ASSUME Init PROVE Inductive
    OBVIOUS
<1>1. PICK s \in Slices : saved \in s.typed /\ later = s.retyped /\ names \in s.names
  BY DEF Init
<1>2. saved \in Settings /\ later \subseteq Settings /\ names \in [Hosts -> URL]
  BY <1>1, SlicesAssumption
<1>3. NoURL \in URL
  BY DEF NoURL, URL
<1> QED
  BY <1>2, <1>3, SlicesAssumption DEF Init, Inductive, Typed, Left, Ended, Verdicts

(* The settings are refused. *)
LEMMA UnconfiguredStep == Inductive /\ Unconfigured => Inductive'
<1> SUFFICES ASSUME Inductive, Unconfigured PROVE Inductive'
    OBVIOUS
<1>1. PICK why \in {"unconfigured", "notHTTPS"} : at' = "done" /\ verdict' = why
  BY DEF Unconfigured, LoadRefuses, Finish
<1>2. UNCHANGED <<saved, later, names, saves, begun, flow, cfg>>
  BY DEF Unconfigured
<1> QED
  BY <1>1, <1>2 DEF Inductive, Typed, Left, Ended, Verdicts

(* The visitor is sent away behind a document that names the issuer. *)
LEMMA BeginStep == Inductive /\ Begin => Inductive'
<1> SUFFICES ASSUME Inductive, Begin PROVE Inductive'
    OBVIOUS
<1>1. /\ at = "start" /\ begun = saved /\ saved \in Settings /\ Whole(saved)
      /\ cfg' = Loaded(saved) /\ verdict = "pending"
      /\ UNCHANGED <<saved, later, names, saves, begun>>
  BY Accepted DEF Begin, Inductive, Typed, Left
<1>2. /\ cfg'.issuer = TrimSuffix(saved.issuer) /\ cfg'.issuer \in URL
      /\ cfg'.issuer.host \in Hosts
  BY <1>1, LoadedIsSafe, Accepted, Trimmed DEF Settings
<1>3. CASE checkDiscovery(cfg') /\ at' = "away" /\ flow' = cfg'.issuer /\ verdict' = verdict
  <2>1. Typed' /\ flow' \in URL
    BY <1>1, <1>2, <1>3 DEF Inductive, Typed
  <2>2. TrimSuffix(names[flow'.host]) = flow'
    BY <1>3 DEF checkDiscovery
  <2>3. Left'
    BY <1>1, <1>2, <1>3, <2>2 DEF Left
  <2>4. Ended'
    BY <1>1, <1>3 DEF Ended
  <2> QED
    BY <2>1, <2>3, <2>4 DEF Inductive
<1>4. CASE Finish("discovery") /\ flow' = flow
  BY <1>1, <1>4 DEF Finish, Inductive, Typed, Left, Ended, Verdicts
<1> QED
  BY <1>3, <1>4 DEF Begin

(* The operator saves other settings while the visitor is away. *)
LEMMA SaveStep == Inductive /\ Save => Inductive'
<1> SUFFICES ASSUME Inductive, Save PROVE Inductive'
    OBVIOUS
<1>1. saved' \in Settings /\ saves' \in 0 .. MaxSaves /\ at = "away" /\ verdict = "pending"
  BY SlicesAssumption DEF Save, Inductive, Typed
<1> QED
  BY <1>1 DEF Save, Inductive, Typed, Left, Ended

(* The visitor is back. *)
LEMMA CallbackStep == Inductive /\ Callback => Inductive'
<1> SUFFICES ASSUME Inductive, Callback PROVE Inductive'
    OBVIOUS
<1>1. /\ at = "away" /\ saved \in Settings /\ Whole(saved) /\ cfg' = Loaded(saved)
      /\ at' = "done" /\ verdict' \in {"otherProvider", "iss", "signedIn"}
      /\ UNCHANGED <<saved, later, names, saves, begun, flow>>
  BY Accepted DEF Callback, Inductive, Typed, Finish
<1>2. cfg'.issuer = TrimSuffix(saved.issuer)
  BY <1>1, LoadedIsSafe
<1>3. Typed' /\ flow' \in URL
  BY <1>1 DEF Inductive, Typed, Verdicts
<1>4. Left'
  BY <1>1 DEF Inductive, Left
<1>5. Ended'
  BY <1>1, <1>2 DEF Callback, Finish, Ended
<1> QED
  BY <1>3, <1>4, <1>5 DEF Inductive

(* The invariant holds initially and every step keeps it. *)
LEMMA AlwaysInductive == Spec => []Inductive
<1>1. Inductive /\ UNCHANGED vars => Inductive'
  BY DEF Inductive, Typed, Left, Ended, vars
<1>2. Inductive /\ [Next]_vars => Inductive'
  BY <1>1, UnconfiguredStep, BeginStep, SaveStep, CallbackStep DEF Next
<1> QED
  BY <1>2, InitInductive, PTL DEF Spec

-----------------------------------------------------------------------------
(* A Config has an issuer with at most one slash and numbers that count, from
   whatever was typed. *)
THEOREM TypeCorrect == Spec => []TypeOK
<1>1. Inductive => TypeOK
  <2> SUFFICES ASSUME Inductive PROVE TypeOK
      OBVIOUS
  <2>1. /\ cfg.issuer \in URL /\ cfg.issuer.slashes < 2
        /\ cfg.clock_skew \in Nat /\ cfg.discovery_ttl \in Nat
    <3>1. CASE cfg = NoConfig
      <4>1. NoConfig.issuer = NoURL /\ NoConfig.clock_skew = 0 /\ NoConfig.discovery_ttl = 0
        BY DEF NoConfig
      <4>2. NoURL \in URL /\ NoURL.slashes < 2
        BY DEF NoURL, URL
      <4> QED
        BY <3>1, <4>1, <4>2
    <3>2. CASE \E s \in Settings : cfg = Loaded(s)
      BY <3>2, LoadedIsSafe
    <3> QED
      BY <3>1, <3>2 DEF Inductive, Typed
  <2> QED
    BY <2>1 DEF Inductive, Typed, TypeOK
<1> QED
  BY <1>1, AlwaysInductive, PTL

(* Nobody leaves, or is signed in, on settings that are not whole (LoadConfig). *)
THEOREM WholeOrRefused == Spec => []ActsOnWholeSettings
<1>1. Inductive => ActsOnWholeSettings
  <2> SUFFICES ASSUME Inductive, at = "away" \/ verdict = "signedIn"
               PROVE  ActsOnWholeSettings
      BY DEF ActsOnWholeSettings
  <2>1. CASE at = "away"
    <3>1. begun \in Settings /\ Whole(begun) /\ cfg = Loaded(begun)
      BY <2>1 DEF Inductive, Typed, Left
    <3> QED
      BY <2>1, <3>1, Accepted, LoadedIsSafe, Trimmed DEF ActsOnWholeSettings, Settings, Hosts
  <2>2. CASE at = "done" /\ verdict = "signedIn"
    <3>1. saved \in Settings /\ Whole(saved) /\ cfg = Loaded(saved)
      BY <2>2 DEF Inductive, Typed, Ended
    <3> QED
      BY <2>2, <3>1, Accepted, LoadedIsSafe, Trimmed DEF ActsOnWholeSettings, Settings, Hosts
  <2> QED
    BY <2>1, <2>2 DEF Inductive, Typed
<1> QED
  BY <1>1, AlwaysInductive, PTL

(* Numbers of any size, any words and any path come to nothing worse than the
   defaults (normalizeScopes, safePath, boundedInt). *)
THEOREM OptionalIsHarmless == Spec => []OptionalSettingsAreHarmless
<1>1. Inductive => OptionalSettingsAreHarmless
  <2> SUFFICES ASSUME Inductive, at = "away" PROVE OptionalSettingsAreHarmless
      BY DEF OptionalSettingsAreHarmless
  <2>1. begun \in Settings /\ cfg = Loaded(begun)
    BY DEF Inductive, Typed, Left
  <2> QED
    BY <2>1, LoadedIsSafe DEF OptionalSettingsAreHarmless
<1> QED
  BY <1>1, AlwaysInductive, PTL

(* However often the issuer is saved again, a flow is refused as another
   provider's only for more than its slash (LoadConfig, callback). *)
THEOREM SpellingIsForgiven == Spec => []RespelledIssuerKeepsFlows
<1>1. Inductive => RespelledIssuerKeepsFlows
  BY DEF Inductive, Left, Ended, RespelledIssuerKeepsFlows, SpellingsOf
<1> QED
  BY <1>1, AlwaysInductive, PTL

(* Who was sent away is refused for the token's issuer only where that ends in a
   slash (checkDiscovery, VerifyIDToken). *)
THEOREM WhoLeftMayReturn == Spec => []SentAwayCanComeBack
<1>1. Inductive => SentAwayCanComeBack
  <2> SUFFICES ASSUME Inductive, verdict = "iss" PROVE names[flow.host].slashes > 0
      BY DEF SentAwayCanComeBack
  <2> DEFINE named == names[flow.host]
  <2>1. named \in URL /\ TrimSuffix(named) = flow /\ named # flow
    BY DEF Inductive, Typed, Left, Ended
  <2> HIDE DEF named
  <2>2. named.slashes \in 0 .. 2
    BY <2>1 DEF URL
  <2>3. named.slashes # 0
    BY <2>1, NothingToTrim
  <2> QED
    BY <2>2, <2>3 DEF named
<1> QED
  BY <1>1, AlwaysInductive, PTL
=============================================================================
