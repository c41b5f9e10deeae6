------------------------------- MODULE SignIn -------------------------------
(***************************************************************************)
(* A sign-in from the visitor's side (oidc/handler.go, and Begin, Exchange *)
(* and Assert of oidc/flow.go): browsers with one cookie jar and several   *)
(* tabs, an operator who saves other settings, and the requests in between, *)
(* running side by side.  Sessions begin and end at any time, by password   *)
(* or second factor, so a request may find either whenever it asks.         *)
(*                                                                         *)
(* The schema appears as FlowLifecycle, which FlowStore implements: saving *)
(* a flow opens it, ClaimFlow takes it, everything else that happens to a  *)
(* row closes it.  A handle stands for the flow's handle, state, nonce and *)
(* verifier together, all drawn at once and unique to the flow.  So the    *)
(* provider's answer, which carries the state and a code for an ID token   *)
(* that will carry the nonce, is named by the flow it answers.             *)
(*                                                                         *)
(* LoadConfig reads the settings one at a time (oidc/config.go), so a save *)
(* may fall between the issuer and the client_id and a request go on with  *)
(* a pair the operator never chose.                                        *)
(***************************************************************************)
EXTENDS Naturals, Sequences

CONSTANTS
    Instances,  \* module instances the host may run at the same time
    Browsers,
    Handles,    \* the flows that can be begun
    Issuers,    \* the providers an operator may configure
    Clients,    \* the client_ids they have issued
    Settings,   \* the pairs of the two that an operator may save
    First,      \* the pair that was saved first
    MaxSaves,   \* bound on the operator's later saves
    None        \* no cookie, no flow

ASSUME SettingsAssumption ==
    Settings \subseteq Issuers \X Clients /\ First \in Settings /\ MaxSaves \in Nat

ASSUME NoneAssumption == None \notin Handles \cup Issuers \cup Clients \cup Browsers

VARIABLES
    status,     \* the schema: what has become of each flow
    flow,       \* what was saved under each handle, and what the visitor left with
    saves,      \* the operator's issuer and client_id, as saved one time after the other
    jar,        \* per browser: the value of the oidc_flow cookie
    away,       \* the flows whose visitor has been sent to the provider
    inst,       \* per instance: the request it answers and how far it is
    assertions, \* history, per flow: what the host did on its provider's word
    lost        \* history: the flows used by callbacks that were never answered

env  == <<saves, away>>
vars == <<status, flow, saves, jar, away, inst, assertions, lost>>

settings == saves[Len(saves)]
issuer   == settings[1]
client   == settings[2]

Flows == INSTANCE FlowLifecycle

Modes == {"signin", "link"}

(* mode and issuer are in the row; client is in the address the visitor was
   sent to, and browser is the visitor. *)
NoFlow == [mode |-> "signin", issuer |-> None, client |-> None, browser |-> None]

(* cfg, client and cookie are what the request has read of the settings and of
   the jar, code is the flow whose code it brought.  set is what its response
   does to the jar: put a handle there, or delete it (None). *)
Idle == [at |-> "idle", mode |-> "signin", browser |-> None, cfg |-> None, client |-> None,
         cookie |-> None, code |-> None, set |-> None]

Places == {"idle", "begin", "claim", "exchange", "assert", "answer"}

Rows == [mode : Modes, issuer : Issuers \cup {None}, client : Clients \cup {None},
         browser : Browsers \cup {None}]

Requests == [at : Places, mode : Modes, browser : Browsers \cup {None},
             cfg : Issuers \cup {None}, client : Clients \cup {None},
             cookie : Handles \cup {None}, code : Handles \cup {None},
             set : Handles \cup {None}]

Asserted == [provider : Issuers, client : Clients, browser : Browsers, kind : Modes]

TypeOK ==
    /\ Flows!TypeOK
    /\ flow \in [Handles -> Rows]
    /\ \A h \in Handles : status[h] # "unopened" => flow[h].issuer # None
    /\ saves \in Seq(Settings) \ {<<>>}
    /\ jar \in [Browsers -> Handles \cup {None}]
    /\ away \subseteq Handles
    /\ inst \in [Instances -> Requests]
    /\ \A i \in Instances :
         /\ inst[i].at = "begin" => inst[i].cfg # None
         /\ inst[i].at \in {"claim", "exchange", "assert"} =>
              inst[i].cookie # None /\ inst[i].code # None
    /\ assertions \in [Handles -> Seq(Asserted)]
    /\ lost \subseteq Handles

Init ==
    /\ Flows!Init
    /\ flow = [h \in Handles |-> NoFlow]
    /\ saves = <<First>>
    /\ jar = [b \in Browsers |-> None]
    /\ away = {}
    /\ inst = [i \in Instances |-> Idle]
    /\ assertions = [h \in Handles |-> <<>>]
    /\ lost = {}

-----------------------------------------------------------------------------
At(i, place) == inst[i].at = place

Goto(i, place) == inst' = [inst EXCEPT ![i].at = place]

(* The one response of a request, and what it does to the jar. *)
Respond(i, set) ==
    inst' = [inst EXCEPT ![i] =
      [Idle EXCEPT !.at = "answer", !.browser = inst[i].browser,
                   !.cookie = inst[i].cookie, !.set = set]]

(* Mutant of FailCallback: the failure page leaves the cookie alone. *)
FailCallbackKeeping(i) == inst' = [inst EXCEPT ![i] = Idle]

(* The page that says this sign-in did not complete.  On the callback path it
   deletes the cookie, whatever the failure was; elsewhere it does nothing. *)
FailBegin(i)    == inst' = [inst EXCEPT ![i] = Idle]
FailCallback(i) == Respond(i, None)

-----------------------------------------------------------------------------
(* /start and /link come in, and the first of the settings is read. *)
Begin(i) ==
    /\ At(i, "idle")
    /\ \E b \in Browsers, mode \in Modes :
         inst' = [inst EXCEPT ![i] = [Idle EXCEPT !.at = "begin", !.mode = mode,
                                                  !.browser = b, !.cfg = issuer]]
    /\ UNCHANGED <<status, flow, jar, env, assertions, lost>>

(* start and session_mint are for a browser without a session, link and
   identity_link for one with. *)
SessionFits(mode, session) == session <=> mode = "link"

(* The other settings are read, the host is asked who the visitor is (start
   refuses one who is signed in and link one who is not), and Begin runs.  Its
   one lasting effect is the flow.  Settings, session, discovery, the key set,
   the draw or the INSERT may fail, and the INSERT may have gone through all the
   same.  The reads are this late because no step between them and the INSERT
   sees them. *)
SaveFlow(i) ==
    LET b == inst[i].browser IN
    /\ At(i, "begin")
    /\ \/ \E h \in Handles :
            /\ \E session \in BOOLEAN : SessionFits(inst[i].mode, session)
            /\ Flows!Open(h)
            /\ flow' = [flow EXCEPT ![h] = [mode   |-> inst[i].mode,
                                            issuer |-> inst[i].cfg,
                                            client |-> client,
                                            browser |-> b]]
            /\ Respond(i, h) \/ FailBegin(i)
       \/ FailBegin(i) /\ UNCHANGED <<status, flow>>
    /\ UNCHANGED <<jar, env, assertions, lost>>

-----------------------------------------------------------------------------
(* Mutant of Callback: a request without the cookie goes on. *)
CallbackWithoutCookie(i) ==
    /\ At(i, "idle")
    /\ \E b \in Browsers, h \in away :
         inst' = [inst EXCEPT ![i] =
           [Idle EXCEPT !.at = "claim", !.browser = b, !.cfg = issuer,
                        !.cookie = jar[b], !.code = h]]
    /\ UNCHANGED <<status, flow, jar, env, assertions, lost>>

(* /callback, up to the claim: from any tab, with whatever cookie the browser
   has by then; and from another browser, where a visitor carried the address
   over.  It fails at once without settings; where the provider refused, or the
   visitor typed the address and there is no code; and without a cookie. *)
Callback(i) ==
    /\ At(i, "idle")
    /\ \E b \in Browsers :
         \/ /\ jar[b] # None
            /\ \E h \in away :
                 inst' = [inst EXCEPT ![i] =
                   [Idle EXCEPT !.at = "claim", !.browser = b, !.cfg = issuer,
                                !.cookie = jar[b], !.code = h]]
         \/ inst' = [inst EXCEPT ![i] = [Idle EXCEPT !.at = "answer", !.browser = b]]
    /\ UNCHANGED <<status, flow, jar, env, assertions, lost>>

(* Mutant of IssuerChecked: the comparison is left out. *)
IssuerUnchecked(i) == TRUE

(* The code came from the flow that was claimed, and that flow was begun
   against the provider configured now. *)
StateChecked(i) == inst[i].code = inst[i].cookie
IssuerChecked(i) == flow[inst[i].cookie].issuer = inst[i].cfg

(* On to Exchange.  The client_id was read some time ago, and no step since then
   has seen it. *)
Proceed(i) == inst' = [inst EXCEPT ![i].at = "exchange", ![i].client = client]

(* Mutant of Claim: the flow is read and not used up. *)
ClaimReading(i) ==
    /\ At(i, "claim")
    /\ \/ /\ status[inst[i].cookie] = "open" /\ StateChecked(i) /\ IssuerChecked(i)
          /\ Proceed(i)
       \/ FailCallback(i)
    /\ UNCHANGED <<status, flow, jar, env, assertions, lost>>

(* ClaimFlow hands the flow out, and then its state and its issuer are compared;
   or it does not, having used the flow up or not. *)
Claim(i) ==
    LET h == inst[i].cookie IN
    /\ At(i, "claim")
    /\ \/ /\ Flows!Take(h)
          /\ \/ StateChecked(i) /\ IssuerChecked(i) /\ Proceed(i)
             \/ ~(StateChecked(i) /\ IssuerChecked(i)) /\ FailCallback(i)
       \/ /\ status[h] = "open" /\ Flows!Close({h})
          /\ FailCallback(i)
       \/ status' = status /\ FailCallback(i)
    /\ UNCHANGED <<flow, jar, env, assertions, lost>>

(* The token endpoint of cfg's provider.  It knows the codes it issued itself;
   whether it holds the visitor to the code challenge, and the client to the one
   the code was issued to, is its own affair. *)
TokenFor(cfg, h) == flow[h].issuer = cfg

(* Mutant of AudienceChecked: the aud claim is not looked at. *)
AudienceUnchecked(i) == TRUE

(* The token is for the client that the visitor was sent away with. *)
AudienceChecked(i) == flow[inst[i].code].client = inst[i].client

(* Exchange: there is a token, and VerifyIDToken finds the flow's nonce and the
   configured client in it. *)
Exchange(i) ==
    /\ At(i, "exchange")
    /\ \/ /\ TokenFor(inst[i].cfg, inst[i].code)
          /\ inst[i].code = inst[i].cookie
          /\ AudienceChecked(i)
          /\ Goto(i, "assert")
       \/ FailCallback(i)
    /\ UNCHANGED <<status, flow, jar, env, assertions, lost>>

(* Mutant of KindOf: what is asked for follows from the session of the moment. *)
KindOfTheMoment(i, session) == IF session THEN "link" ELSE "signin"

(* What the flow was started for, whatever session there is by now. *)
KindOf(i, session) == flow[inst[i].cookie].mode

(* Assert asks for what the flow was started for.  An address the provider did
   not verify, or the host, may stop it.  The answer that says so may be
   unreadable, which is one more failure page. *)
Assert(i) ==
    /\ At(i, "assert")
    /\ \/ \E session \in BOOLEAN :
            LET kind == KindOf(i, session) IN
            /\ SessionFits(kind, session)
            /\ assertions' = [assertions EXCEPT ![inst[i].code] = Append(@,
                 [provider |-> inst[i].cfg, client |-> inst[i].client,
                  browser |-> inst[i].browser, kind |-> kind])]
            /\ Respond(i, None)
       \/ FailCallback(i) /\ UNCHANGED assertions
    /\ UNCHANGED <<status, flow, jar, env, lost>>

-----------------------------------------------------------------------------
(* A provider knows the clients it issued itself. *)
Registered(h) == <<flow[h].issuer, flow[h].client>> \in Settings

(* The browser has the response.  One that set a handle also sent it to the
   provider, from where it may come back with a code at any time. *)
Receive(i) ==
    LET b == inst[i].browser IN
    /\ At(i, "answer")
    /\ jar' = [jar EXCEPT ![b] = inst[i].set]
    /\ away' = away \cup {h \in Handles : h = inst[i].set /\ Registered(h)}
    /\ inst' = [inst EXCEPT ![i] = Idle]
    /\ UNCHANGED <<status, flow, saves, assertions, lost>>

(* A trap, the route deadline, or a connection that broke. *)
Stop(i) ==
    /\ ~At(i, "idle")
    /\ inst' = [inst EXCEPT ![i] = Idle]
    /\ lost' = lost \cup {h \in Handles : h = inst[i].cookie /\ status[h] = "taken"}
    /\ UNCHANGED <<status, flow, jar, env, assertions>>

(* The ten minutes of a flow are over, in the schema; the browser's own count
   of them may be a little ahead or behind. *)
FlowExpires ==
    /\ \E h \in Handles : status[h] = "open" /\ Flows!Close({h})
    /\ UNCHANGED <<flow, jar, env, inst, assertions, lost>>

CookieExpires ==
    /\ \E b \in Browsers : jar[b] # None /\ jar' = [jar EXCEPT ![b] = None]
    /\ UNCHANGED <<status, flow, env, inst, assertions, lost>>

(* The operator saves another issuer, another client_id, or both. *)
Repoint ==
    /\ Len(saves) <= MaxSaves
    /\ \E pair \in Settings \ {settings} : saves' = Append(saves, pair)
    /\ UNCHANGED <<status, flow, jar, away, inst, assertions, lost>>

BeginSteps(i) == Begin(i) \/ SaveFlow(i)

CallbackSteps(i) == Callback(i) \/ Claim(i) \/ Exchange(i) \/ Assert(i)

World == FlowExpires \/ CookieExpires \/ Repoint

Next ==
    \/ \E i \in Instances : BeginSteps(i) \/ CallbackSteps(i) \/ Receive(i) \/ Stop(i)
    \/ World

Spec == Init /\ [][Next]_vars

-----------------------------------------------------------------------------
(* What a provider vouched for once is asserted to the host once, however many
   tabs, retries and copies of a callback there are (handler.go:171-178,
   store.go:206-212). *)
AssertedOnce == \A h \in Handles : Len(assertions[h]) <= 1

(* The identity a browser is signed in with or linked to is the one its own
   visitor went away to prove, at the provider the visitor was sent to; and a
   sign-in stays a sign-in and a link a link although sessions began or ended
   in between (handler.go:179-182, store.go:184-187). *)
AssertsWhatBegan ==
    \A h \in Handles : \A n \in DOMAIN assertions[h] :
      LET asserted == assertions[h][n] IN
      /\ asserted.browser = flow[h].browser
      /\ asserted.provider = flow[h].issuer
      /\ asserted.kind = flow[h].mode

(* The operator went from the provider to the client and from there, by the way of
   the provider again, to the client once more. *)
Alternated(provider, clientID) ==
    \E a, b, c, d \in DOMAIN saves :
      /\ a < b /\ b < c /\ c < d
      /\ saves[a][1] = provider /\ saves[c][1] = provider
      /\ saves[b][2] = clientID /\ saves[d][2] = clientID

(* What is asserted was vouched for to the client the visitor was sent away with,
   and the operator has saved that client and the provider as one pair: neither a
   save in the middle of a flow nor one in the middle of reading the settings mixes
   two configurations in one sign-in (config.go:118-138, flow.go:222-228,
   idtoken.go:120-124).  The exception takes three saves: the beginning of the flow
   and its callback are each split by one, at the same pair of values. *)
AssertedAsConfigured ==
    \A h \in Handles : \A n \in DOMAIN assertions[h] :
      LET asserted == assertions[h][n] IN
      /\ asserted.client = flow[h].client
      /\ \/ \E k \in DOMAIN saves : saves[k] = <<asserted.provider, asserted.client>>
         \/ Alternated(asserted.provider, asserted.client)

(* A code is not sent to another provider's token endpoint, although the
   operator may re-point the add-on at any moment of the flow
   (handler.go:187-193). *)
CodeStaysWithItsProvider ==
    \A i \in Instances :
      At(i, "exchange") => inst[i].cfg = flow[inst[i].code].issuer

(* A browser does not keep the cookie of a flow that a callback has used up:
   while it has one, the response that deletes it is on its way or was lost
   (handler.go:355-357, flow.go:301-305). *)
UsedCookieIsOnItsWayOut ==
    \A b \in Browsers :
      jar[b] \in Handles \ lost /\ status[jar[b]] = "taken" =>
        \E i \in Instances :
          /\ inst[i].browser = b /\ inst[i].cookie = jar[b]
          /\ inst[i].at \in {"exchange", "assert", "answer"}
==============================================================================
