------------------------------ MODULE Requests ------------------------------
(***************************************************************************)
(* One request from end to end (oidc/handler.go, oidc/fetch.go, and the    *)
(* error paths of flow.go, provider.go, store.go and config.go).           *)
(*                                                                         *)
(* A request is a list of steps still to take; each is a call of the host, *)
(* or a check of the add-on's own, and any of them may be refused.  What   *)
(* is modelled is what becomes of a refusal: swallowed, or an error that   *)
(* travels up through its wrappings to the page with its status and its    *)
(* advice.  An error is named by what errors.As and errors.Is find in it.  *)
(*                                                                         *)
(* What the steps read and write is left to the other modules.  A call of  *)
(* the storage stands for the probe and the DDL in front of it as well.    *)
(***************************************************************************)
EXTENDS Integers, Sequences

(* The SDK's sentinels. *)
Refusals == {"denied", "notFound", "invalid", "notAvailable", "internal"}

(* A FetchError: the host's outcome where it is not ok, two of those with
   advice and one without, or an ok outcome whose status is no success. *)
Advised     == {"unconfigured", "origin_refused"}
FetchErrors == Advised \cup {"other_outcome", "not_2xx"}

(* ErrUnconfigured, notFound, and any error that is only a sentence. *)
Errors == Refusals \cup FetchErrors \cup {"missing", "path", "words"}

Paths == {"index", "start", "link", "callback", "elsewhere"}
Modes == {"signin", "link"}
Statuses == {200, 400, 404, 500, 502, 503}  \* 200 stands for one left out

VARIABLES
    todo,      \* the steps still to take
    path,      \* the request's, or "unread"
    configErr, \* what LoadConfig answered, or "none"
    mode,      \* the mode of the flow that was read, or "none"
    page,      \* the Response, or NoPage
    result,    \* what Handle returns, 1 while it runs
    writes,    \* history: the host's answers to http_response_write
    failed,    \* history: the steps that were refused, and with what
    made       \* history: what the request brought about, in order

vars == <<todo, path, configErr, mode, page, result, writes, failed, made>>

NoPage == [status |-> 0, location |-> "none", advice |-> "none", clears |-> FALSE]

-----------------------------------------------------------------------------
(* The steps, in the order of the code. *)

LoadSteps == <<"required", "required", "required", "required", "optional",
               "optional", "optional", "optional", "optional", "optional",
               "load">>

IndexSteps == <<"cachedDiscovery", "show">>

BeginSteps == <<"cachedDiscovery", "responseMode", "cachedKeys",
                "sweepFlows", "sweepSpent", "random", "random", "random",
                "random", "saveFlow">>

CallbackSteps == <<"query", "claim", "select", "deleteFlow", "flow",
                   "cachedDiscovery", "redeem", "token", "time", "cachedKeys",
                   "verify", "email", "assert">>

(* route: the callback never asks who is signed in, the host decides that. *)
RouteSteps(p) == IF p = "callback" THEN CallbackSteps ELSE <<"who">>

(* What Discovery and Keys do where the cache does not have the document. *)
FetchSteps(step) ==
    IF step = "cachedDiscovery" THEN <<"fetchDiscovery", "cacheDiscovery">>
                                 ELSE <<"fetchKeys", "cacheKeys">>

(* The steps whose refusal the code swallows. *)
BestEffort == {"cachedDiscovery", "forgetDiscovery", "cacheDiscovery",
               "cachedKeys", "forgetKeys", "cacheKeys", "sweepFlows",
               "sweepSpent", "deleteFlow", "time"}

Tidying == BestEffort \ {"cachedDiscovery", "cachedKeys", "sweepFlows"}

Fetches == {"fetchDiscovery", "fetchKeys", "redeem"}

(* The errors a step that is needed can end in: a call's own, wrapped with %w,
   or a sentence of the add-on's about what it was given. *)
MayEndIn(step) ==
    CASE step \in Fetches               -> Refusals \cup FetchErrors \cup {"words"}
      [] step = "random"                -> Refusals \cup {"words"}
      [] step \in {"query", "flow", "responseMode", "token", "email"} -> {"words"}

TypeOK ==
    /\ path \in Paths \cup {"unread"}
    /\ configErr \in Errors \cup {"none"}
    /\ mode \in Modes \cup {"none"}
    /\ page = NoPage \/ page \in [status   : Statuses,
                                  location : {"none", "provider", "dashboard", "linked"},
                                  advice   : {"none", "fetch", "settings", "storage", "host"},
                                  clears   : BOOLEAN]
    /\ result \in {-1, 0, 1}
    /\ todo # <<>> /\ Head(todo) = "assert" => mode \in Modes

Init ==
    /\ todo = <<"read">>
    /\ path = "unread"
    /\ configErr = "none"
    /\ mode = "none"
    /\ page = NoPage
    /\ result = 1
    /\ writes = <<>>
    /\ failed = {}
    /\ made = <<>>

-----------------------------------------------------------------------------
(* explain: what can be done about an error, where that is known. *)
explain(e) ==
    CASE e \in Advised      -> "fetch"
      [] e = "missing"      -> "settings"
      [] e = "denied"       -> "storage"
      [] e = "notAvailable" -> "host"
      [] OTHER              -> "none"

(* The status failure picks from the kind of error. *)
StatusOf(e) ==
    CASE e = "missing"      -> 503
      [] e \in FetchErrors  -> 502
      [] e = "path"         -> 404
      [] e = "internal"     -> 500
      [] OTHER              -> 400

(* Mutant of failure: an origin that answered is quoted with its own status. *)
failureQuoting(e, p) ==
    [status |-> IF e = "not_2xx" THEN 401 ELSE StatusOf(e), location |-> "none",
     advice |-> explain(e), clears |-> p = "callback"]

(* Mutant of failure: whatever a call of the host failed with is internal. *)
failureHostFirst(e, p) ==
    [status |-> IF e \in Refusals \cup FetchErrors THEN 500 ELSE StatusOf(e),
     location |-> "none", advice |-> explain(e), clears |-> p = "callback"]

(* failure: the page of an error; a callback's takes the flow's cookie along. *)
failure(e, p) ==
    [status |-> StatusOf(e), location |-> "none", advice |-> explain(e),
     clears |-> p = "callback"]

(* index answers its own pages: 502 for anything about the discovery document. *)
PageOf(e, p) ==
    IF p = "index" THEN [failure(e, p) EXCEPT !.status = 502] ELSE failure(e, p)

At(step) == todo # <<>> /\ Head(todo) = step

(* The step is taken and the steps given come next. *)
Then(steps) ==
    /\ todo' = steps \o Tail(todo)
    /\ UNCHANGED page

(* The request's answer is built, and only has to be written. *)
Answer(res) ==
    /\ page' = res
    /\ todo' = <<"write">>

Refused(step, why) == failed' = failed \cup {[at |-> step, why |-> why]}

(* A step that is needed fails: route returns the error. *)
Fail(step, e) ==
    /\ Refused(step, e)
    /\ Answer(PageOf(e, path))

Page(location, status) ==
    [status |-> status, location |-> location, advice |-> "none",
     clears |-> location \in {"dashboard", "linked"}]

-----------------------------------------------------------------------------
(* Handle reads the request; without one it has nothing to answer. *)
Read ==
    /\ At("read")
    /\ \/ /\ Refused("read", "words")
          /\ result' = -1
          /\ todo' = <<>>
          /\ UNCHANGED <<path, page>>
       \/ \E p \in Paths :
            /\ path' = p
            /\ IF p = "elsewhere"
               THEN /\ Refused("read", "path")
                    /\ Answer(failure("path", p))
               ELSE /\ Then(LoadSteps)
                    /\ UNCHANGED failed
            /\ UNCHANGED result
    /\ UNCHANGED <<configErr, mode, writes, made>>

(* setting: one of the ten reads.  ErrNotFound is an empty setting, of which
   the required ones are missed later; an error skips the reads after it. *)
Setting ==
    \E step \in {"required", "optional"}, answer \in Refusals \cup {"ok"} :
      /\ At(step)
      /\ configErr' = CASE answer \notin {"ok", "notFound"}            -> answer
                        [] answer = "notFound" /\ step = "required"    -> "missing"
                        [] OTHER                                       -> configErr
      /\ IF answer \in {"ok", "notFound"}
         THEN Then(<<>>)
         ELSE /\ todo' = <<"load">>
              /\ UNCHANGED page
      /\ UNCHANGED <<path, mode, result, writes, failed, made>>

(* LoadConfig returns: a URL that is not https is refused only where nothing is
   missing.  Whatever the error, the status page goes on to say so. *)
LoadConfig ==
    /\ At("load")
    /\ configErr' \in IF configErr = "none" THEN {"none", "words"} ELSE {configErr}
    /\ CASE configErr' = "none" -> Then(RouteSteps(path)) /\ UNCHANGED failed
         [] configErr' # "none" /\ path = "index" ->
                Then(RouteSteps(path)) /\ Refused("load", configErr')
         [] OTHER -> Fail("load", configErr')
    /\ UNCHANGED <<path, mode, result, writes, made>>

(* whoami, and what start, link and index make of it.  start and link want
   opposite sessions; index shows an anonymous visitor nothing. *)
WhoAmI ==
    /\ At("who")
    /\ \/ \E e \in Refusals \cup {"words"} :
            IF path = "index"
            THEN Refused("who", e) /\ Answer(Page("none", 500))
            ELSE Fail("who", e)
       \/ \E signedIn \in BOOLEAN :
            CASE path = "index" /\ ~signedIn ->
                    Answer(Page("none", 200)) /\ UNCHANGED failed
              [] path = "index" /\ signedIn /\ configErr # "none" ->
                    /\ Answer([Page("none", 503) EXCEPT !.advice = "settings"])
                    /\ UNCHANGED failed
              [] path = "index" /\ signedIn /\ configErr = "none" ->
                    Then(IndexSteps) /\ UNCHANGED failed
              [] path # "index" /\ signedIn = (path = "link") ->
                    Then(BeginSteps) /\ UNCHANGED failed
              [] OTHER -> Fail("who", "words")
    /\ UNCHANGED <<path, configErr, mode, result, writes, made>>

(* The steps that must succeed and have nothing else to them: the fetches, the
   random bytes, and the checks of the add-on's own. *)
Needed ==
    \E step \in Fetches \cup {"random", "query", "flow", "responseMode", "token", "email"} :
      /\ At(step)
      /\ \/ Then(<<>>) /\ UNCHANGED failed
         \/ \E e \in MayEndIn(step) : Fail(step, e)
      /\ UNCHANGED <<path, configErr, mode, result, writes, made>>

(* The index page of a provider that answered. *)
Show ==
    /\ At("show")
    /\ Answer(Page("none", 200))
    /\ UNCHANGED <<path, configErr, mode, result, writes, failed, made>>

(* Mutant of Tidy: the error is returned like any other. *)
TidyOrFail ==
    \E step \in Tidying :
      /\ At(step)
      /\ \/ Then(<<>>) /\ UNCHANGED failed
         \/ Fail(step, "invalid")
      /\ UNCHANGED <<path, configErr, mode, result, writes, made>>

(* The calls whose error is logged or dropped: a document that is cached or
   forgotten, a used flow that is deleted, the clock. *)
Tidy ==
    \E step \in Tidying :
      /\ At(step)
      /\ Then(<<>>)
      /\ UNCHANGED failed \/ Refused(step, "dropped")
      /\ UNCHANGED <<path, configErr, mode, result, writes, made>>

(* Sweep: the second statement is not tried when the first is refused. *)
Sweep ==
    /\ At("sweepFlows")
    /\ \/ Then(<<>>) /\ UNCHANGED failed
       \/ /\ todo' = SubSeq(todo, 3, Len(todo))
          /\ Refused("sweepFlows", "dropped")
          /\ UNCHANGED page
    /\ UNCHANGED <<path, configErr, mode, result, writes, made>>

(* Discovery and Keys: a document from the cache, or from the provider, which
   also covers a read that is refused and a cache that is off.  A discovery
   document that disagrees with the settings is forgotten first. *)
Cached ==
    \E step \in {"cachedDiscovery", "cachedKeys"} :
      /\ At(step)
      /\ \/ Then(<<>>) /\ UNCHANGED failed
         \/ Then(FetchSteps(step)) /\ UNCHANGED failed
         \/ Then(FetchSteps(step)) /\ Refused(step, "dropped")
         \/ /\ step = "cachedDiscovery"
            /\ Then(<<"forgetDiscovery">> \o FetchSteps(step))
            /\ UNCHANGED failed
      /\ UNCHANGED <<path, configErr, mode, result, writes, made>>

(* A call of the host that brings something about: done and answered, refused, or
   done with its answer lost, which the module cannot tell from a refusal. *)
Deed(step, what) ==
    \/ made' = Append(made, what) /\ Then(<<"respond">>) /\ UNCHANGED failed
    \/ made' \in {made, Append(made, what)} /\ \E e \in Refusals : Fail(step, e)

(* SaveFlow, the last thing that can fail before the visitor is sent away. *)
SaveFlow ==
    /\ At("saveFlow")
    /\ Deed("saveFlow", "flow")
    /\ UNCHANGED <<path, configErr, mode, result, writes>>

(* ClaimFlow's INSERT: any failure is ErrFlowGone, and so is no cookie. *)
Claim ==
    /\ At("claim")
    /\ \/ Then(<<>>) /\ UNCHANGED failed
       \/ \E why \in Refusals \cup {"words"} :
            Refused("claim", why) /\ Answer(failure("words", path))
    /\ UNCHANGED <<path, configErr, mode, result, writes, made>>

(* ClaimFlow's SELECT: one row, or a sentence, or the storage's own error. *)
Select ==
    /\ At("select")
    /\ \/ Then(<<>>) /\ mode' \in Modes /\ UNCHANGED failed
       \/ UNCHANGED mode /\ \E e \in Refusals \cup {"words"} : Fail("select", e)
    /\ UNCHANGED <<path, configErr, result, writes, made>>

(* VerifyIDToken, and the one refresh a key that is not there is worth. *)
Verify ==
    /\ At("verify") \/ At("verifyAgain")
    /\ \/ Then(<<>>) /\ UNCHANGED failed
       \/ Fail(Head(todo), "words")
       \/ /\ At("verify")
          /\ Then(<<"forgetKeys", "fetchKeys", "cacheKeys", "verifyAgain">>)
          /\ UNCHANGED failed
    /\ UNCHANGED <<path, configErr, mode, result, writes, made>>

(* Mutant of Assert: the visitor is sent on whatever the host answers. *)
AssertHoping ==
    /\ At("assert")
    /\ made' \in {made, Append(made, mode)}
    /\ Then(<<"respond">>)
    /\ UNCHANGED <<path, configErr, mode, result, writes, failed>>

(* Assert: the host links or mints. *)
Assert ==
    /\ At("assert")
    /\ Deed("assert", mode)
    /\ UNCHANGED <<path, configErr, mode, result, writes>>

(* Begin and Assert answer for what the host did; a session whose record the
   add-on cannot read is a session all the same, and an error. *)
Respond ==
    /\ At("respond")
    /\ \/ path # "callback" /\ Answer(Page("provider", 200)) /\ UNCHANGED failed
       \/ /\ path = "callback"
          /\ Answer(Page(IF mode = "link" THEN "linked" ELSE "dashboard", 200))
          /\ UNCHANGED failed
       \/ path = "callback" /\ mode = "signin" /\ Fail("minted", "words")
    /\ UNCHANGED <<path, configErr, mode, result, writes, made>>

(* Mutant of Write: a response the host refuses is tried again, smaller. *)
WriteAgain ==
    /\ At("write")
    /\ \E answer \in {"ok", "invalid"} :
         /\ writes' = Append(writes, answer)
         /\ IF answer = "invalid" /\ Len(writes) = 0
            THEN UNCHANGED <<todo, result>>
            ELSE todo' = <<>> /\ result' = IF answer = "ok" THEN 0 ELSE -1
    /\ UNCHANGED <<path, configErr, mode, page, failed, made>>

(* Handle writes the response, once. *)
Write ==
    /\ At("write")
    /\ todo' = <<>>
    /\ \E answer \in Refusals \cup {"ok"} :
         /\ writes' = Append(writes, answer)
         /\ result' = IF answer = "ok" THEN 0 ELSE -1
    /\ UNCHANGED <<path, configErr, mode, page, failed, made>>

Next ==
    \/ Read \/ Setting \/ LoadConfig \/ WhoAmI
    \/ Needed \/ Show \/ Tidy \/ Sweep \/ Cached \/ SaveFlow
    \/ Claim \/ Select \/ Verify \/ Assert \/ Respond \/ Write

Spec == Init /\ [][Next]_vars

-----------------------------------------------------------------------------
(* PROPERTIES *)

NeededFailures == {f \in failed : f.at \notin BestEffort}

(* provider.go:150-176, flow.go:93-99, store.go:240-242: a cache that cannot be
   read or written, a sweep, a deletion or a clock that is refused never fails
   a request, in any number and combination: behind every page of a failure is
   a step the request could not do without. *)
OnlyNeededStepsFail == page.status >= 400 => NeededFailures # {}

(* The steps that fail with something made all the same. *)
FailedAfter(what) ==
    CASE what = "flow"   -> {"saveFlow"}
      [] what = "link"   -> {"assert"}
      [] what = "signin" -> {"assert", "minted"}

(* Nobody is told more than the host did: whoever is sent to the provider has a
   flow saved, whoever is sent on was linked or has a session, once, and the used
   flow's cookie goes with the answer.  Someone may be told less: what was made
   under a page of a failure is what the very step that failed had made, its reply
   lost or, of a session, its record unreadable (flow.go:115-145, 281-310). *)
ToldWhatTheHostDid ==
    page # NoPage =>
      /\ Len(made) <= 1
      /\ page.location = "provider"  => made = <<"flow">>
      /\ page.location = "linked"    => made = <<"link">>
      /\ page.location = "dashboard" => made = <<"signin">>
      /\ page.location = "none" /\ made # <<>> =>
           \E f \in failed : f.at \in FailedAfter(made[1])
      /\ made \notin {<<>>, <<"flow">>} => page.clears

(* handler.go:324-341, 365-389: through every wrapping the page's status and
   advice are those of the step that failed; the two pages of index that
   differ are 502 and 503 for all that can go wrong in their part.  The claim
   answers one error for everything (store.go:201-218). *)
PageFitsTheFailure ==
    page # NoPage =>
      /\ page.status \in {404, 500, 502, 503} =>
           \E f \in NeededFailures :
             CASE page.status = 404 -> f.why = "path"
               [] page.status = 500 -> f.why = "internal" \/ (path = "index" /\ f.at = "who")
               [] page.status = 502 -> f.why \in FetchErrors
                                       \/ (path = "index" /\ f.at = "fetchDiscovery")
               [] page.status = 503 -> f.why = "missing" \/ (path = "index" /\ f.at = "load")
      /\ page.status = 400 =>
           \A f \in NeededFailures \ [at : {"claim"}, why : Refusals] :
             f.why \notin FetchErrors \cup {"missing", "internal"}
      /\ \A f \in NeededFailures :
           /\ f.why \in Advised => page.advice = "fetch"
           /\ f.why = "denied" /\ f.at \in {"select", "saveFlow"} => page.advice = "storage"
      /\ page.advice = "fetch" => \E f \in NeededFailures : f.why \in Advised

(* handler.go:26-31, 52-59: a request that could be read is answered with one
   response, offered to the host once; Handle reports success exactly when the
   host took it. *)
AnsweredOnce ==
    todo = <<>> =>
      \/ page = NoPage /\ writes = <<>> /\ result = -1
      \/ page # NoPage /\ Len(writes) = 1 /\ (result = 0 <=> writes[1] = "ok")

(* store.go:295-297, handler.go:379-381: the advice that the host refused
   storage.own_schema is given where a call of the storage was refused. *)
StorageAdviceIsAboutStorage ==
    page.advice = "storage" =>
      \E f \in failed :
        f.at \in (BestEffort \ {"time"}) \cup {"claim", "select", "saveFlow"}
=============================================================================
