# LinkCtrl-OIDC in TLA+

LinkCtrl-OIDC signs visitors into LinkCtrl with an external OpenID Connect
provider. It is a WebAssembly module of which the host makes an instance per
request, several at a time; an instance keeps nothing, so whatever has to hold
from one request to the next holds in the add-on's Postgres schema, in one
cookie, or at the provider. These modules model that, TLC checks them on small
instances, and TLAPS proves the core for every instance.

Paths below are relative to `src/oidc/`.

## The system

| Component | State | Operations | What makes it correct |
| --- | --- | --- | --- |
| Flow store (`store.go`) | tables `flows` (key handle, expiry) and `spent` (key handle, time) | `SaveFlow`, `ClaimFlow`, `Sweep` | a flow is handed out once, only while it is live; no sweep takes a flow from its visitor or reopens one; dead rows go |
| Schema set-up (`store.go`) | which tables exist; `checked` per instance | `ensure` ahead of the first statement | the schema is whole or known not to be |
| Provider documents (`provider.go`, `fetch.go`) | table `documents`: discovery document and key set, by kind | `Discovery`, `Keys`, `ForgetKeys` | what is used belongs to the configured provider; what caching can change of a verdict is known |
| Flow and routes (`flow.go`, `handler.go`) | the `oidc_flow` cookie; the settings, read once per request | `/start`, `/link`, `/callback`, `/` (`Begin`, `Exchange`, `Assert`, `failure`) | what is asserted to the host is what this browser went away to prove, once, in the direction it was started for |
| JOSE verifier (`jose.go`) | none | `find`, `verify` | one published signature key vouches for a token |
| ID token (`idtoken.go`) | none | `VerifyIDToken` | the claims are this client's, this flow's and of this time |
| Configuration (`config.go`) | none | `LoadConfig` | no half configuration is acted on |
| Requests (`handler.go`, `fetch.go` and every error path) | none | `Handle`, `answer`, `route`, `failure`, `explain`, `fetch` | one response to every request; only what is needed fails it; the page says who is to blame |
| Host ABI (`abi.go`, `main.go`) | none | forwarding | - |

They meet in three places. `Begin` and `callback` call the store and the
provider documents, both of which issue single autocommitted statements through
`ensure`. The browser carries the handle from `Begin` to `callback`, and the
provider carries the `state`. The host decides at `session_mint` and
`identity_link` by the session the browser has at that moment.

What is hard: requests interleave between any two statements; a statement may
fail, or go through and its reply be lost; an instance may trap or reach the
route deadline anywhere; responses reach a browser late and out of order, and
its tabs share one cookie; the provider rotates keys, the operator changes the
issuer and sessions begin and end between the two requests of a flow; there is
no timer. `PROJECT.json` lists the hazards by line with the properties aimed
at each, or with the reason why there is nothing to hold the code to.

## Modules

| Module | Models | Abstracts |
| --- | --- | --- |
| `FlowLifecycle` | the promise of the flow store: `Open`, `Take`, `Close` | everything else |
| `FlowStore` | `store.go` under `Begin` and `callback`, one action per statement | a row to its key and its time; the rest of a flow is carried unread |
| `FlowStoreProofs`, `FlowStoreRefinement`, `SignInProofs`, `SchemaSetupProofs`, `ProviderDocumentsProofs`, `IDTokenProofs`, `ConfigProofs`, `RequestsProofs` | theorems about the modules they are named after | |
| `SignIn` | `handler.go` and `flow.go` from the browser's side, on top of `FlowLifecycle` | handle, state, nonce, verifier and code are one name, the flow's; provider documents are a failure or a success; of the settings, the issuer and the client_id |
| `SchemaSetup` | `ensure` and the statements behind it | a statement to the table it needs and what its error does |
| `ProviderVerdicts` | what a request is told of its provider: `Ask`, `Issue`, `Decide`, `Leave` | every fetch and every cache |
| `ProviderDocuments` | `provider.go` and the two users of it in `flow.go` | an endpoint to the provider it belongs to, a key to its provider and number, with its kid, use and alg as constants; lists to the entry that counts |
| `Jose` | `jose.go`, as operators without a state | a signature to its signer, a key to whether its numbers are usable |
| `IDToken` | `VerifyIDToken`, which applies them, and the refresh in `Exchange` | strings to equal or not; the range of an integer is a constant |
| `Config` | `config.go`, and the comparisons of the issuer along a sign-in | a setting to what the code tells apart about it |
| `Requests` | one request from end to end: every call it makes, every way one is refused, and the page that comes of it | what the calls read and write, which is in the other modules; an error to what `errors.As` and `errors.Is` find in it |

`MC*` modules give the constants of the runs their values and symmetry.
Definitions keep the names of the code where it has one. Operators whose
comment starts with "Mutant" are what a slip in the code would make of the
definition after them, and are used by nothing else here: `PROJECT.json` names
the property that notices each.

`FlowStore` corresponds to the code as follows: `Start`, `SweepFlows`,
`SweepSpent`, `Draw`, `InsertFlow`, `Redirect` are the end of `Begin`;
`Callback`, `Claim`, `Select`, `Delete` are `ClaimFlow`. Each statement runs and
is reported, runs and is reported as an error, or does not run. `Stop` is the
host ending an instance, `Tick` the database's clock. `reads` and `opened` are
history.

`SignIn` puts the visitor around that. Where `FlowStore` has claim, select and
delete, it has `FlowLifecycle`'s `Take`, which is sound because `FlowStore`
implements `FlowLifecycle` (checked and proved). `Receive` is the browser
getting a response, so anything may happen between the writing of a response
and its effect on the cookie, and from then on the provider may answer with a
code. `LoadConfig` reads one setting after another, so `SignIn` reads the issuer
when a request arrives and the client_id later, with room for a save in between;
each read is put off to the step that needs its value, before which no step sees
it. `saves` is the history of what the operator saved, and the last of it is
what is read. A provider answers for the clients it has issued (`Settings`), so a
visitor sent away with any other pair does not come back; a torn pair may well be
one of these although nobody has saved it, which is what `AssertedAsConfigured`
is about. `Stop` loses the response
of a request; `lost` remembers the used flows whose cookie therefore stays. A
visitor may open a callback address in another browser than the one that was
sent away. There is no variable for sessions: they begin and end at any time
without the add-on, so a request finds either whenever it asks, and what the
host does with it is `SessionFits`.

`Jose` and `IDToken` state each check of the code as a record of its name and of
what fails it, in the order of the code; `Judge` is the first that fails. So
the order in which the code looks at a token is part of the model, and
`ReadOnlyWhatIsVouchedFor` is about it.

In `ProviderDocuments` a key and its name are two things. A token is signed with a
key and has that key's kid in its header or none; `find` compares names, so
`Candidates` are the keys of a set that fit the header, by kid, use and alg.
`UnknownKid` is that there are none; `Found` is what may be picked: one that bears
the kid, or for a token without one the only candidate. Providers publish several
keys at a time: `Rotate` adds one, `Retire` drops the oldest, and a rotation
without overlap is one after the other. `Revise` is a provider changing its
discovery document while an older one is cached.

`ProviderVerdicts` is what caching may come to. There a request asks about the
provider that is configured when it comes in, is issued a token by that provider
if it is a callback, and is told one verdict, which that provider's own documents
and keys justify (`Justified`). `Asked`, in `ProviderDocuments`, is the mapping: it
keeps what a request is about, the token and the verdict, and drops the place it
has reached, the document and the key set it holds and the number of its fetches.
Three things need a word. A fetch may always fail, so "failed" is always
justified. A document may be one the provider has revised since (`Read`), which is
what a cache is for. And a token may be refused although its provider publishes
its key, where its header fits another published key too (`Refusable`): the code
takes the failed signature of a key of the same name, or an unnamed token with
several keys, for the token's fault and fetches nothing. A token that names a key
whose kid no other key bears is refused only if the key is retired or mislabelled.
And no request is told anything on another provider's document.

`Config` follows one sign-in from the typed settings to the comparison of `iss`.
`Requests` keeps the steps a request still has to take as a sequence: `BeginSteps`
and `CallbackSteps` list the calls of `Begin` and `callback` in their order, a
miss of a cache and the one refresh put theirs in front, and an error that is
returned leaves the writing of its page alone. `MayEndIn` is how a step can
fail, `BestEffort` the steps whose failure the code swallows; `failed`, `made`
and `writes` are history. A call that brings something about, the INSERT of a flow,
a link or a mint, is done and answered, refused, or done with an error for an
answer (`Deed`); the page is built in a step of its own (`Respond`).

## Runs

| Run | Instance | Shows |
| --- | --- | --- |
| `flow_store` | 2 instances, 2 handles, 1 stray cookie, FlowTTL 2, SpentKeep 2, clock to 4 | single use, spent outlives flow, nothing unread is lost, the winner of a claim finds the flow, the inductive invariant, and that `FlowStore` implements `FlowLifecycle` |
| `flow_store_live` | 2 instances, 1 handle, lifetimes 1, clock to 3 | dead rows are swept |
| `sign_in` | 2 instances, 2 browsers, 2 flows, 2 issuers, 2 clients in 3 pairs, 2 saves after the first | an identity is asserted once, as it was begun, to whom it was meant for and of a pair that was saved; a code stays with its provider; used cookies are deleted |
| `schema_setup` | 3 instances, any error and any stop | only a fault in the DDL halves the schema; the tables are created in order; who was sent away can come back |
| `provider` | 2 instances, 2 providers; the first with 2 keys in turn or together and 2 discovery documents, the second with a key of the same `kid`; tokens with and without a `kid` | endpoints, refusals and fetches, and that `ProviderDocuments` implements `ProviderVerdicts` |
| `id_token` | sets of 1 to 3 keys of a pool that has every reason to be refused, every algorithm, all refreshes; 15 times for `exp` and for `iat`, 3 clocks, up to 2 audiences | key selection, the order of the checks, claims and times |
| `config` | 2 hosts, 0 to 2 slashes at the end of every URL, 1 save; in slices for the issuer, the required and the optional settings | what is typed never stops or bends a sign-in |
| `requests` | one request of each kind, every call refused in every way | one answer, for the right reason |

The bounds. Single use needs two claimants of one handle and a sweep: two
instances take turns at these roles, and with two flows an instance can be busy
with one while the other expires. SpentKeep equals FlowTTL, the least the proof
allows; the code has 3600 against 600. A clock to 4 lets a flow be begun late,
expire, and its spent record be swept. Two tabs and two flows are what it takes
for one cookie to displace another, and two browsers for one to finish what the
other began. Two providers are what a re-point needs, and the second client of
the first one is what a torn or changed client_id needs; one save may fall between
two reads or between two requests, which are the two places it can do harm, and
a second may take it back behind the back of a request that saw it. The exception
of `AssertedAsConfigured` takes a third and is covered by the theorem, which has
no bound. Three
instances are needed in `schema_setup` for two to race the DDL while a third runs into what
they have not made yet; `cut` remembers whether a fault, rather than the race,
kept a request from the end of it. One rotation during a
callback is the most a refresh has to survive; with a second it is the
provider's pace and not the cache that fails a token. The first provider's second
key has another kid and another alg, so a set of both has a key to skip; the
second provider's kid is the first's, which is the stale key that is not noticed.
Both providers of `provider` list everything, as the refinement asks of them; the
first advertises modes LinkCtrl cannot use until it revises its document. A
provider that leaves lists out is the instance of `provider_omits`, and one
without S256, or one that reuses a kid itself, is in the theorems only. Refining `ProviderVerdicts` includes
`RefusedOnlyWhenAdvertised` for such providers (`form_post` is justified by the
provider's own documents), so `provider` does not state it again. Three keys in a set are
one usable, one to be confused with it and one to be skipped. The range of an
integer and Go's epoch are small, so that the times that wrap are among those
tried. Two slashes are one more than `TrimSuffix` takes off. The slices of
`id_token` and `config` combine everything within a slice, and a slice varies
what one group of checks looks at while the rest is valid. A request of
`requests` is alone: what it shares with others is in the other modules. It has
no bound, as a request has no loop. Instances,
handles, browsers and issuers are interchangeable and symmetric where a
run has no liveness property and names none of them. A `discovery_ttl_seconds`
of 0 needs no run of its own: it is the case in which every read of the cache
misses and no write is made, and both may happen to every request.

Four facts come out as violations, each a run of its own on an instance that
shows it and a finding in `PROJECT.json`:

* `schema_setup_half`: the probe asks for the first of three tables created one
  at a time. A fault in between leaves a schema no request will complete
  (`store.go:127-143`); the operator's only sign is that every callback fails.
* `provider_omits`: the fetched discovery document is read into the struct that
  the stale one was read into, and inherits what it leaves out
  (`provider.go:55-72`).
* `config_slash`: a trailing slash is forgiven in the discovery document's
  issuer (`provider.go:93`) and not in the token's (`idtoken.go:116`), so a
  provider that has one is left for and never come back from.
* `requests_denied`: `explain` takes every `ErrDenied` for a refused storage
  grant (`handler.go:379`), that of a setting, a session or a mint included.

Others are stated by the properties as exceptions, or noted here:

* `time.Unix` wraps for times within 62135596800 of the largest 64-bit integer,
  so an `iat` there counts as long past and an `exp` there as long over
  (`idtoken.go:137-147`; `Shifts` in `IDToken`).
* A stale cached key, of this provider or of the one before a re-point, that bears
  the token's `kid` is picked and fails the signature, not the lookup; so does the
  only key of a stale set for a token without a `kid`, and a set of several refuses
  such a token at once. The refresh that could cure it is not made, although the
  comment has it that nothing else "is going to be different after another fetch"
  (`jose.go:122-139`, `provider.go:129`, `flow.go:237-244`; the exception of
  `RefusalIsFinal`).
* A re-point and back, or back and forth, in the middle of reading the settings, at
  the beginning of a flow and again at its callback, has an identity asserted for a
  pair that was never saved (`config.go:138-139`; `Alternated`). It takes three
  saves, each between two reads, and a provider that knows the client.
* The cached key set does not know whose it is, so after a re-point a visitor is
  sent away on the old provider's (`provider.go:126-134`, `flow.go:84-91`). No
  token is accepted on it: the endpoints, and the issuer, are the new one's.
* A callback that fails before its claim deletes the cookie of a flow that could
  still be finished (`handler.go:355-361`; `UsedCookieIsOnItsWayOut` is the
  half that holds).
* A session that was minted with an answer that cannot be read, and a link, a
  session or a flow whose call went through but came back as an error, is told as a
  failure (`flow.go:118-123, 281-295`; `FailedAfter`).
* The flow of another tab is used up by a callback that has its cookie and its own
  code (`handler.go:175-186`). Nothing promises otherwise, so no property does.
* A callback with a cold cache and a rotation in the middle makes four fetches
  (`provider.go:37-41`; `ThreeFetchesSuffice`).
* `flow.go:196-205` says the body of a token endpoint's 400 is worth reading and
  reads it on neither branch; the model has the code's one branch.

## Fairness

Safety runs have none. `FairSpec` of `FlowStore` assumes that the host runs
every instance it has made (weak fairness of an instance's next statement; it
is a synchronous call in the code). Sweeping depends on more, and says so: that
visitors keep starting sign-ins, since a sweep has no other occasion
(`flow.go:93-96`), and that the database does not fail, and the host does not
stop, every sweep from some moment on. These are strong fairness conditions,
because other requests may occupy an instance in between.
`SchemaSetup` has weak fairness of an instance's steps and nothing else.

## Proofs

`FlowStoreProofs` proves, for any sets of instances and handles and any times,
from the three assumptions `FlowStore` names (`NoHandle` and the strays are no
handles; the times are natural numbers; `FlowTTL <= SpentKeep`):
`TypeOK`, `SingleUse`, `SpentOutlivesFlow`, `UnreadFlowIsKept` and
`ClaimantFindsFlow`.

`SingleUse` is not inductive. A second read needs a second claim, so the spent
record has to be there for as long as the row could be selected; the sweep
removes spent records by age, so the record has to be young while the flow is
live, and that follows from its being written no earlier than the flow:

* `HandlesAreFresh`: a handle keys one row ever written, and only written rows'
  handles are in cookies;
* `InstancesCarry`: what an instance holds between two statements (it inserts
  a handle nobody else has; it claims one that was given out);
* `ClaimsOutlast`: `expires_at <= spent_at + FlowTTL`, hence with
  `FlowTTL <= SpentKeep` a spent record that is swept belongs to a dead flow
  (`DeadClaimDeadFlow`). This is the one place the assumption on the times is
  used, and without it `SingleUse` is false;
* `LiveClaimsAreRecorded`: while a flow is live, whoever has read it or is
  about to has left a record, and only one is about to.

Each conjunct has a lemma that every step keeps it, with one case per action.
`FlowStoreRefinement` proves `Spec => ImplementsLifecycle` from the invariant:
`Select` is `Take`, `InsertFlow` is `Open`, a claim whose reply is lost, a
sweep, a stop between claim and select and a tick of the clock are `Close` of
the flows concerned, and the other steps leave the status alone.

`SignInProofs` proves all six invariants of `SignIn`, for any sets of instances,
browsers, flows and settings and any number of saves, from its two assumptions
(a saved pair is of the issuers and clients there are; `None` is none of the
other values). What is asserted is right because of what a request has compared
by the time it asserts, so the invariant is about requests rather than about
assertions:

* `Known`: who comes back from a provider was sent there, with a client that
  provider has issued;
* `Owned`: a handle in a jar, a request or a response is of a flow that was begun
  by that browser. Without it the right visitor at the callback would not be
  known to be the one who left;
* `Accepted`: a request that was handed a flow is the only one, nothing has been
  said of the flow yet, and the code, the issuer and, after `Exchange`, the
  client agree with the flow's row. This is where the comparisons of `callback`
  and of `VerifyIDToken` enter;
* `Told`: what has been said of a flow is one entry, and it is the flow's row.

There is one lemma per action, with a step per conjunct; `Quiet` is what the
actions share in which a request ends and tells the host nothing.

`AssertedAsConfigured` needs to know where a request has its settings from:
`Traced` says that the issuer and the client_id of a flow's row, and then the issuer
and the client_id its callback has read, are of four saves each no earlier than the
one before (`BegunUnder`, `BackUnder`, `HeldUnder`). Where `Accepted` makes the two
issuers and the two clients agree, two neighbours of the four are one save, which
is the pair, or all four differ, which is `Alternated`.

`UsedCookieIsOnItsWayOut` needs `Unsent` besides: a handle that is on its way to a
jar is nowhere else, so no response that arrives late puts back the cookie of a
flow that has been used. `FlowsFollowLifecycle` proves that `SignIn` does to a
flow only what `FlowLifecycle` allows, which is what `FlowStore` implements.

`SchemaSetupProofs` proves the three invariants of `SchemaSetup` for any number of
instances. That only a fault leaves half a schema is a matter of who is still at
work: `Carried` says that behind every table that is there, unless the DDL was cut,
comes the next one or the instance that is about to create it, and `CreatedSoFar`
that an instance in the loop is past tables that are there. An instance whose
`CREATE TABLE` is refused hands the work to nobody, and need not: the table is
there, so `Carried` already has somebody behind it.

`ProviderDocumentsProofs` proves the five invariants of `ProviderDocuments` for
any number of requests, providers, documents and keys, and any names of keys, from
its three assumptions (a document names its provider; every key has a name or none,
and the bound is a number; `Absent` is nothing else). The invariant speaks of one
request at a time: requests meet in the caches, and of those it is enough that what
is cached is a document, or are keys, some provider has published so far.

* `Discovers`: past discovery a request holds a document, old or new, of the
  provider that was configured when it came in;
* `Holds`: a key set that was fetched was fetched after the token and is no
  older, so a token missing from it has a retired key; and behind a refusal is such
  a key, one that is not for the token, or another key that fits the token's header;
* `Counts`: how many fetches lead to a place, and that a fourth has a key behind it
  that is retired or not for the token (`Lost`).

Two of these, and the refinement below, have a hypothesis about the documents,
because a field that a document leaves out keeps what another provider's cached
document put into the same struct:

* `EndpointsStay`: every document lists its endpoints (`ListsEndpoints`);
* `RefusedOnItsOwnModes`: every document lists its response modes (`ListsModes`),
  without which the property is false, which is the finding of `provider_omits`;
* `NoVerdictChanges`: both.

`TypeCorrect`, `RefusalsAreFinal` and `FetchesSuffice` hold of any documents. A
callback needs no hypothesis, since a token endpoint that does not know the code
answers no token.

`NoVerdictChanges` is the refinement, `Spec => CachingChangesNoVerdict`. Each
action has a lemma that it is a step of `ProviderVerdicts` for that request or one
it does not notice (`Follows`): `Arrive` is `Ask`, `Exchange` is `Issue`, what
writes a verdict is `Decide` and `End` is `Leave`; a cache read, filled, dropped or
expired is a stutter. Beyond the invariant above it needs `Judged`: a request has
no token before its exchange, is past discovery only if one of its provider's own
documents so far can be used, and is on to the keys of a `begin` only if that one's
modes can. A rotation, a retirement and a revision are the same step in both.

`IDTokenProofs` proves the seven invariants of `IDToken`, for any pool of keys,
key set and token, and any range of integers, epoch and skew: for Go's 64 bits
and year 1 as for the small ones of the run. They rest on `PoolAssumption` (a key
has one name), `TimesAssumption` (the epoch is within the range of an integer) and
`SlicesAssumption` (inputs have their types; clock, epoch and skew together do not
overflow, which they will not for 290 thousand million years). The
invariant only says that a verdict is `VerifyIDToken`'s; the work is in the lemmas
about operators:

* `JudgedInTurn`, `SignatureVerdict`, `ClaimVerdict`: which check a verdict names,
  and that a verdict on the claims is behind all checks of the signature;
* `Shifted` and `Compared`: what the shift to Go's epoch and the comparisons come
  to in integers that do not wrap;
* `VouchedFor`, `Cured` and `Reversed`: what `find` finds, after one key is added
  and in a set listed the other way round.

`ConfigProofs` proves the five invariants of `Config` for any settings, with
numbers of any size and scopes of any length, and any number of saves, from
`SlicesAssumption`. `Left` says that a visitor who is away left on whole settings
and that the flow's issuer is the one of the discovery document but for a slash;
`Ended` says which comparison went how. `SentAwayCanComeBack` follows from the
two: a name that differs from what trimming makes of it ends in a slash.

`RequestsProofs` proves the five invariants of `Requests`, which has no constants
and so no assumptions. TLC visits every state of it; what the proof adds is why.
The invariant says what a request may still have ahead of it, in five phases:

* `Running`: nothing is made, written or told yet. `Shaped` says that the steps
  left end in one of the steps that decide (read, load, who, show, save the flow,
  assert) and that only steps of that route are ahead of it, the read of the flow
  among them while the flow's mode is not known. `Tolerated` says that what has
  been refused is what the code does without; the status page, which is there to
  tell of a setting that could not be read, is its one exception;
* `Committed`: the host has done what it was asked and said so, and the page is
  still to be built;
* `Unread`: the request could not be read, and there is nothing to answer;
* `Answering`: a page is built and is the right one (`PageIsRight`), and its
  writing is the one step left;
* `Written`: it was offered to the host once.

A page is built in one step, so `PageIsRight` is about that step alone: until then
the failures that count are none, and with it they are the one whose page it is
(`PageOfTheError`). What was made under a page of a failure was therefore made by
the step that failed, which is what `ToldWhatTheHostDid` says of it. `Splicing` and `Onward` are about lists of steps, what becomes of `Shaped`
when the first step is done and others are put in its place.

Only model-checked: liveness (`DeadRowsAreSwept`, `RedirectedCanBeClaimed`), which
is beyond the prover.

## Plan

Done, in this order: `FlowLifecycle`, `FlowStore` and its proofs, `SchemaSetup`,
`ProviderDocuments`, `SignIn`, `Jose`, `IDToken`; then the client_id and torn
reads in `SignIn`, tokens that name no key in `ProviderDocuments`, the whole of
`verify` under `IDToken`, `Config`, `Requests` and the proofs of `SignIn`,
`SchemaSetup`, `ProviderDocuments`, `IDToken` and `Config`; then `ProviderVerdicts`
with the proof that `ProviderDocuments` implements it, and the proofs of `Requests`.

What is left: `Requests` takes the verdicts of `SignIn`'s and `IDToken`'s checks as
ways a step may fail; an abstract specification of a request's answer would tie
them together.

## Not modelled

The wording of pages and log lines; the status, the advice and the cookie of a
page are. Base64, JSON syntax, big integers, curves and the cryptography, which
are Go's library; a signature verifies with the signer's key and with no other.
The entropy of `Random`: a handle is one nobody has drawn. HTTP below the host's
outcome of a fetch. `redirect_uri` across a flow: it is read again at the
callback as the client_id is, but it is compared by the token endpoint and by
nothing in the code. A response that cannot be encoded (`handler.go:47-51`): its
fields are strings and integers, which always can. The build, CI and the
sabotage script.
