# Formal models of Daraja Local

Daraja Local is an emulator of Safaricom's Daraja payment API. An integration
under development sends it the requests it would send to Safaricom; its
developer then decides, over a second set of routes, how each payment ends, and
the emulator posts the callback Safaricom would post. This directory holds
TLA+ models of that program, the TLC configurations that check them on small
instances, and proofs that hold for instances of any size.

All paths below are relative to the root of the repository.

## The system

| Component | State | Operations | Talks to |
|---|---|---|---|
| State machine, `src/modules/transactions/transaction-state-machine.ts` | none | `assertCanTransition` | called by the transaction service |
| Transaction service, `src/modules/transactions/transaction.service.ts` | none of its own; the snapshot a transition holds between two awaits | create (STK, async), get by checkout or tracking id, transition (STK, business, C2B), record a callback attempt, list | repository, across an `await` each time |
| Repository, `src/storage/memory/memory-transaction.repository.ts` | the `Map` of transactions | create, compare-and-swap of the status, append an attempt, lookups, list | nobody |
| STK service, `src/modules/stk` | none | push, query | transaction service |
| Business payment service, `src/modules/business-payments` | none | B2C, B2B, account top-up | transaction service |
| Simulator routes, `src/server/simulator.routes.ts` | none | list, show, approve, fail, timeout and replay, for two families of transactions | transaction service, then callback service |
| Callback service and payload factory, `src/modules/callbacks` | the snapshot it builds the payload from | STK callback, payment result, payment timeout | dispatcher, then transaction service |
| Callback dispatcher, `src/modules/callbacks/callback-dispatcher.ts` | one `AbortController` and one timer per exchange | dispatch | the integration's URLs |
| C2B service, `src/modules/c2b` | the `Map` of URL registrations by short code | register, simulate | dispatcher and transaction service, in turns |
| Access tokens, OAuth, `src/modules/oauth` | the `Map` of token expiry times | issue, validate (deletes what it rejects) | the `onRequest` hook of `src/server/create-server.ts` |
| Configuration, ids, errors, `src/shared` | none | load and validate; draw ids; map errors to statuses | everyone |
| Command line, `src/cli` | none | one HTTP request per command | the routes |

The program is one Node process. What runs between two `await`s runs alone, so
the behaviours that are hard are those of handlers interleaving at their
`await`s, and of the callback exchange with a party nobody controls:

- a transition reads the status, checks it, and writes it after an `await`;
- callback attempts are recorded by rebuilding the whole record;
- a callback is built from a snapshot and may be delivered long afterwards, or
  never, or after its exchange was aborted;
- the outcome is stored before it is announced, and the announcement may fail;
- an integration may query from inside its callback handler;
- a replay reads whatever is there.

Nothing is persisted: a restart loses every transaction, registration and token.
The one thing that survives it is what a client holds, its token, and module
`Tokens` restarts for that reason; elsewhere a restart is a new initial state.

What makes each component correct:

- *transaction service and repository*: a transaction is settled once, by one
  caller, and everybody is told the same; attempts accumulate; calls look atomic;
- *simulator, callback and STK services*: the winning decision, and only it, is
  announced, truthfully and to the right URL; nobody who has seen the outcome is
  later told it is still open; every exchange leaves one truthful attempt, and
  whoever caused it is answered with the record that holds it;
- *dispatcher*: every exchange ends, in an attempt, whatever the URL does;
- *C2B*: validation decides, the fallback applies only when it gives no
  decision, and confirmation follows acceptance only;
- *tokens*: a token is good from issue to expiry and never after a rejection.

## Modules

| Module | What it is | Composed with |
|---|---|---|
| `TransactionTypes` | statuses, kinds, the transition table, result details, records, service calls and replies | extended by the next five |
| `TransactionLedger` | abstract specification: a service whose calls take effect one at a time | implemented by `TransactionService` |
| `TransactionService` | service and repository, one action per stretch between awaits | instantiated by `Simulator`, `C2B` |
| `Payment` | abstract specification: what an integration may rely on about each payment | implemented by `Simulator`, `C2B` |
| `Simulator` | HTTP handlers, callback service, payloads, STK and business services | `TransactionService`, `CallbackExchange` |
| `C2B` | registrations and simulations | `TransactionService`, `CallbackExchange` |
| `CallbackExchange` | abstract specification of `dispatch` | implemented by `Dispatcher` |
| `Dispatcher` | timer, fetch, body and the ways out of `dispatch` | |
| `Tokens` | token service, OAuth route, `onRequest` hook, clock, restarts | |
| `Listing` | the order of `list()` | |
| `Requests` | schemas of the payment requests and what is stored of them | extends `TransactionTypes` |
| `Configuration` | options, environment, defaults, validation, `listen` | |

`MC*` modules hold the instances for TLC, `*Proofs` modules the theorems. A
definition whose comment starts with "Mutant of" is a plausible wrong version of
the next one; it is used by no specification and shows what a property is
sensitive to.

### TransactionService

`Calls` has one element for every call made of the service; `op` is the method
and its arguments, `pc` how far the call is, `seen` the transaction a transition
read, `reply` what the promise was settled with. `transactions` is the
repository's `Map`, keyed by tracking id, with `NoTransaction` where there is no
entry. The random `id`, `trackingId` and `checkoutRequestId` of the source are
drawn together and never change, so one identifier stands for all three. The
freshness of random ids is the guard `IdIsFresh` of `Invoke`; that a create
therefore never overwrites an entry is proved, not assumed.

| Action | Code |
|---|---|
| `Create` | `createFromStkRequest`, `createAsyncRequest`, `repository.create` |
| `Get`, `ReplyNotFound` | `getByTrackingId`, `getByCheckoutRequestId`, the missing cases of every method |
| `RejectKind`, `RejectTransition`, `ReadForTransition` | the first half of `transition`: read, kind check, `assertCanTransition` |
| `SwapStatus`, `MissSwap` | `repository.transition`, its compare-and-swap |
| `ExplainConflict` | the second read and the error it leads to |
| `AddCallbackAttempt` | `addCallbackAttempt`, `repository.appendCallbackAttempt` |

The checks after the first read are part of the step that reads, since they look
at the snapshot only; what matters is that the swap is a later step. The
repository is an interface (`ServerDependencies.repository`), and the model holds
for any implementation whose methods are atomic, not only the one in memory.

### Simulator

Each element of `Requests` is one HTTP request. Its handler makes at most two
service calls, `First(r)` and `Record(r)`, so `Calls` is
`Requests \X {"first", "record"}`. `Receive` starts the handler and its first
call; `ServiceStep` is any step of the service on its behalf; then the handler
fails (`Fail`), acknowledges, is refused by the kind check of `CallbackService`
(`RejectKind`), or sends a callback (`SendCallback`, an `Exchange!Start`).
`Deliver` is the network: it may never happen and may happen after the exchange
has ended. `EndDispatch` ends the exchange and starts the recording; `Finish`
answers. `published` is a history variable: the transactions whose outcome
somebody outside had already seen when the request arrived.

Create requests carry the tracking id the service will draw; a client does not
choose it, the model does. Requests the schemas refuse change nothing and are not
received here; what the schemas let through is module `Requests`, whose property
`CallbacksFindTheirUrls` is why the three missing-URL errors of
`CallbackService` are no actions. Two more branches cannot be reached and are left
out: `STK_IDENTIFIERS_MISSING` (`callback.service.ts`, lines 59 to 65), as every
record of kind STK is created with both identifiers, and the text a timeout
payload falls back to (`callback-payload.factory.ts`, line 79), as only the timeout
route builds one, from a record it has just settled. A receipt is compared, never spelled: an STK
receipt is a function of the checkout request id, a payment receipt is drawn anew
for each payload.

### C2B

A simulation makes four service calls, `First(r)` (create), one per recorded
exchange, and `Settlement(r)`, and up to two exchanges, named by the request and
their role. `handler` follows `simulate` from await to await; `registration[r]`
is the local variable that holds what was found in the `Map` at the start.

| Action | Code |
|---|---|
| `RegisterUrl` | `registerUrl` |
| `RefuseSimulation`, `Simulate` | `simulate` up to the create |
| `SendValidation`, `EndValidation` | validation exchange, and the call that records it |
| `Reject`, `SendConfirmation` | the two sides of `getValidationFailure` |
| `EndConfirmation`, `Complete` | confirmation exchange, its record, and the settlement |
| `Acknowledge`, `Fail` | the answer; an error thrown by any service call |
| `Act`, `Finish` | a simulator route that reaches for the transaction: its first service call |

The integration learns the transaction's id from the validation, so other routes
may act on it from then on; `Act` lets them try at any time.

### CallbackExchange and Dispatcher

`CallbackExchange` is what the services assume of `CallbackDispatcherPort`: a POST
that arrives at most once, maybe never, maybe late, and a call that always
returns, ok only if the POST arrived. `Dispatcher` has the code: `Dispatch` arms
the timer, `Headers` is the resolution of `fetch`, `ReadBody` that of
`response.text()` with the parse after it, `NetworkError` and `AbortError` are the
rejections, `Return` holds the `finally`. Time is counted in milliseconds up to
the timeout, `Delay` is what Node's `setTimeout` makes of a delay too wide for it.
`Texts` are the answers that are not empty and `ParsedAs` is `JSON.parse`, a
function on some of them; `Bodies`, what they are read as, instantiates the
`Bodies` of `CallbackExchange`. `C2B` reads bodies and instantiates it with those it
tells apart; `Simulator` reads `ok` alone and instantiates it with none.

### Tokens

One step per request, since nothing in it awaits: `Generate` for the OAuth route,
`Accept`, `Refuse` and `RefuseUnnamed` for the hook. `now` is `Date.now()`, which
`SetClock` moves anywhere; `time`, `steady`, `issuedAt` and `dead` are history
variables the properties compare with. Credentials are sequences of characters,
because the splitting at the colon is what matters about them.

### Listing, Requests, Configuration

`Listing` keeps the `Map` as a sequence, because its iteration order counts:
`Update` stands for every transition and recorded attempt, all of them a
`Map.set`. `list` is a stable sort by a creation time in milliseconds: an entry's
place is the number of entries that are `AtOrBefore` it.

In `Requests` a value is the field it was given in and whether its schema takes
it; `Parses` and `Parsed` are `safeParse`, for the three zod behaviours the schemas
use: required and optional fields, stripping, and `.strict()`.

`Configuration` runs `daraja-local start` to `app.listen`: `ParseArguments` is
Commander with its defaults, `LoadConfig` and `RefuseConfig` are `loadConfig`,
`Listen` is `startServer`. The texts are constants, and so are the two functions
that read them: `Numerals` says which number a text is, `Trimmed` what is left of
one with spaces at its ends. A text that is no numeral is no integer, and a text
without such spaces stays as it is.

## Runs

| Run | Instance | Checks |
|---|---|---|
| `service` | 5 calls of any method, 1 id, kinds STK, B2B, C2B, 2 attempts | `TypeOK`, `OneWinner`, `NoUpdateConflict`, `AttemptsAccounted`, `AnswersStayTrue`, `OutcomeIsFinal`, `ImplementsLedger` |
| `simulator_stk` | 4 requests, 1 STK payment, a route of the wrong family | `TypeOK`, `AttemptsTellTheTruth`, `OneAnnouncement`, `NoStepBack`, `AnswersShowTheRecord`, `ImplementsPayment` |
| `simulator_payments` | 3 requests, 1 B2C payment, fair | `AnnouncementsAreTrue`, `EveryRequestIsAnswered`, `OutcomeIsRecorded` |
| `dispatcher` | 2 exchanges, a timeout of 2 ms or one too wide for `setTimeout`, 2 texts, fair | `TypeOK`, `OutcomeIsTrue`, `NoTimerLeaks`, `ImplementsExchange` |
| `c2b` | 3 requests, 1 short code, 2 registrations, 3 answers, fair | `TypeOK`, `SettledAsDecided`, `OneRegistrationPerPayment`, `OutcomeAfterAttempts`, `NeverRefused`, `ImplementsPayment`, `EverySimulationSettles` |
| `tokens` | 2 tokens, a lifetime of 2 ms, 3 ms of time, 2 configurations | `TypeOK`, `DeadStaysDead`, `LifetimeKept`, `ConfiguredCredentialsOpen` |
| `listing` | 3 transactions, 1 update each, 2 ms, the last 2 listings | `TypeOK`, `OrderIsKept`, `NewestFirst` |
| `requests` | every kind with one deviating field; B2C and B2B with two | `TypeOK`, `CallbacksFindTheirUrls`, `OneReceiver`, `NothingDroppedFromB2C` |
| `configuration` | every combination of options and variables | `TypeOK`, `NoSilentDefault` |
| `replay_terminal`, `replay_url`, `listing_order` | as above | a sentence of the API description each, violated |

What the properties say is in the comment above each of them, in the module.

Why the bounds are enough:

- *One id.* Operations on different transactions touch disjoint records. The
  proofs below do without this and the following bounds.
- *`service`.* A lost swap needs a create and two transitions; the fourth and fifth
  call add a third contender, and recordings around and between them.
- *`simulator_*`.* Four requests are a create, two decisions that race, and one
  observer (query or replay). For the fair run three are enough to lose a swap.
- *`c2b`.* A registration, a simulation, and one request that interferes: another
  registration, a decision through either family, or a look.
- *`dispatcher`.* Exchanges share nothing; the second shows that no timer or answer
  leaks to the other. Two milliseconds separate before, at and after the timeout;
  the other timeout is above `LongestDelay`, and its timer fires after the first
  millisecond. One text is JSON and one is not.
- *`tokens`.* Two tokens, one of which outlives a refusal of the other; times
  before, at and after the expiry, and clocks set to either side of everything.
  Credentials with, without and with several colons.
- *`listing`.* Three transactions over two milliseconds give every pattern of equal
  and different times. Two listings are compared.
- *`requests`.* A deviation in one field cannot repair another one; only the two
  spellings and the strict schema relate fields, hence two deviations for these.
- *`configuration`.* The integers at both ends of each range and beyond them, a
  fraction, the empty text, and hosts with, without and of nothing but spaces.

Calls, attempts, requests and tokens are interchangeable in the runs that declare
symmetry; a run that checks liveness declares none. The runs stop when every call,
request or exchange has been used, which is legitimate, so deadlock is not checked;
that nothing gets stuck before that is what the liveness properties say.

Fairness. `Simulator!FairSpec` and `C2B!FairSpec` are weakly fair to every
handler: the event loop runs each continuation that is ready, and `dispatch`
returns. That it does, is not assumed on the side: `Dispatcher` implements the
fairness of `CallbackExchange` from fair time, timers and promise rejections
alone, with no assumption on the network or the endpoint. Arrival of requests and
delivery of callbacks are nowhere fair: neither has to happen.

## Where description and code differ

Three runs exhibit a difference. `openapi/daraja-local.openapi.yaml`, line 296,
says of replaying a payment's callback: "Replays the current terminal callback;
timeout callbacks are delivered to QueueTimeOutURL and other results to
ResultURL."

- `replay_url`: the timeout of a payment is announced to its QueueTimeOutURL, and a
  replay that tells of the timeout goes to its ResultURL, as a result. The property
  looks at such replays only; those of a pending payment are the other run's;
- `replay_terminal`: a pending payment is replayed too, with code 9999.

Line 231 of the same file promises "Transactions in creation order."

- `listing_order`: they are listed newest first, and in creation order only within
  one millisecond.

Other limits met on the way, about which the repository says nothing and which
therefore have no run:

- a replayed payment draws a new receipt (`callback-payload.factory.ts`, line 38),
  so a receiver that recognises duplicates by `TransactionID` does not;
- a `callbackTimeoutMs` above 2^31 - 1 is not counted by `setTimeout` and aborts
  every callback after one millisecond; the `dispatcher` run has such a timeout, under
  which attempts stay true and every exchange still ends;
- `how-to/b2c.md`, lines 22 to 26, sums up every decision as a post to the ResultURL;
  the API description and the tests tell the QueueTimeOutURL of timeouts apart, as
  the code does, and so do `AnnouncementsAreTrue` and its theorem;
- a consumer key with a colon can be configured but not presented, as the first
  colon ends the key; `ConfiguredCredentialsOpen` is run and proved for others;
- `startServer` listens on the host as it was given, not as it was validated and
  trimmed; `Listen` does so, too;
- a token that is never presented again stays in the `Map`.

## Proofs

All theorems hold for any sets of ids, calls, requests, URLs and so on, without
the bounds of the runs.

| Module | Theorems (property) | Inductive invariant |
|---|---|---|
| `TransactionServiceProofs` | `TypeCorrect`, `ConflictNeverReported`, `OutcomesAreFinal`, `AnswersAreStable`, `OneWinnerAlways`, `AttemptsAreAccounted`, `KindsAreKept`, `CallsEndInFourSteps`, `Refinement` (`ImplementsLedger`) | `IInv` |
| `SimulatorProofs` | `HandlersUseTheService`, `HandlersShareALedger`, `HandlersUseTheExchange`, `SimulatorTyped`, `OneAnnouncementAlways`, `AnnouncementsTrue`, `AttemptsTruthful`, `AnswersComplete` (`AnswersShowTheRecord`), `NobodyLedBack` (`NoStepBack`), `PaymentPromised` (`ImplementsPayment`), `OneOutcomeIsHeard`, `DecisionsReachDispatch`, `HandlersEnd`, `NobodyHangs` | `SInv`, `AInv`, `RInv`, `PInv`, `WInv` |
| `C2BProofs` | `HandlersUseTheService`, `HandlersShareALedger`, `HandlersUseTheExchange`, `C2BTyped`, `RegistrationsHold`, `SimulationsSucceed` (`NeverRefused`), `DecisionsHold` (`SettledAsDecided`), `OutcomesFollowAttempts`, `PaymentPromised` (`ImplementsPayment`), `OneOutcomeIsHeard`, `HandlersEnd`, `NobodyHangs` | `CInv` |
| `DispatcherProofs` | `DispatcherTyped`, `AttemptsAreTrue`, `TimersAreCleared`, `DispatcherRefines` (the safety part of `ImplementsExchange`), `DispatcherRefinesBodiless` | `DispatchInv` |
| `TokensProofs` | `TokensTyped`, `RefusedForEver`, `LifetimeIsKept`, `CredentialsDecide` | `TokensInv`, `CheckInv` |
| `RequestsProofs` | `RequestsTyped`, `UrlsAreKept`, `RightSpellingWins`, `B2CStoredWhole` | `RequestsInv` |
| `ListingProofs` | `ListingTyped`, `OrderKept` (`OrderIsKept`), `NewestComeFirst` (`NewestFirst`) | `ListingInv` |
| `ConfigurationProofs` | `ConfigurationTyped`, `NoDefaultIsSilent` (`NoSilentDefault`), `DefaultsAccepted` | `ConfigurationInv` |

Assumptions: `OfferedAssumption` and `ClientRequestsAssumption` (callers call
methods, and clients routes, that exist; bodies consist of known values),
`ReceiptsAssumption` (the word that stands for an absent receipt is no id),
`DelayAssumption`, `TokensAssumption` (types of the constants, keys and secrets
not empty), `ListingAssumption` (the bounds are numbers), `TextsAssumption` (in
`Configuration`: what is not given is no text, and the defaults are not empty; in
`Dispatcher`: no text is read as `undefined`), `NumeralsAssumption`
(`Number("")` is 0 and the default numerals read as what they are),
`TrimmedAssumption` (a trimmed text has nothing left to trim). One theorem states
one more: `CredentialsDecide` needs keys without a colon.

*The service.* Types alone are not inductive: the swap builds a record from a
stored one, so one must know that a call about to swap is a transition of a known
transaction. `TransitionUnderWay` says this and that the snapshot was pending and
the kind right, hence that a swap can only miss because the transaction has been
settled, which makes the conflict error unreachable. `CreatesAreFresh` and
`CreateUnderWay` carry the freshness of ids to the moment of the create. One lemma
per way of ending a call (`AnswerKeepsInvariant`, `StoreKeepsInvariant`) and per
silent step does the work; `StoreKeepsInvariant` needs only that the stored record
`Extends` the former one, which also gives `OutcomesAreFinal`. `AnswersAreStable`
follows because `Extends` is transitive, `OneWinnerAlways` because only a swap
settles and it finds its transaction pending. For the refinement, reading and
missing a swap are stutters and every other step performs its call in the ledger.

*The handlers.* Every step of `Simulator` is a step or a stutter of the instance
of `TransactionService` it is composed with (`HandlersUseTheService`), so the
service's theorems hold of it and are cited through the instance `Proved`. `SInv`
adds what ties a callback to the reply it was built from (`CallbackSent`) and its
attempt to the callback (`CallbackRecorded`). `OneAnnouncement` is then `OneWinner`
seen through the handlers, `AnnouncementsAreTrue` is `AnswersStayTrue`. `AInv` adds
one attempt per answered sender. `RInv` adds what the request's second service call
returned: a record that ends with its attempt (`RecordShown`) and extends the
one the callback was built from, hence has the outcome of the decision; that is
what it is answered (`AnsweredWithRecord`). `PInv` adds `Informed`: what was published
before a request arrived is settled, so its first call reads an outcome.

*Composition.* Since the handlers take the service's steps only, they share a
ledger whose calls take effect one at a time (`HandlersShareALedger`): the
refinement proved of the service alone, cited through the instance. They take the
steps of `CallbackExchange` only, too (`HandlersUseTheExchange`), which `Dispatcher`
implements: with the bodies of any set of texts (`DispatcherRefines`), which is the
exchange of `C2B` when those texts are read as its bodies, and with all bodies
forgotten (`DispatcherRefinesBodiless`), which is the exchange of `Simulator`. On the
side of the integration, `Payment` is small enough to show two things of all its
behaviours, `ToldTheVerdict` and `DecidedForGood`; with `PaymentPromised` they
become `OneOutcomeIsHeard`, in each module for its own payments: a statement about
callbacks, replays and queries together that names none of them.

*C2B.* `C2BProofs` is built the same way. `SimulationInv` says, for each place
`simulate` can be in, which of its calls and exchanges are over and with which
arguments; `OnlyC2B` and `OthersSettleNothing` say that the kind check keeps the
other routes' decisions out, `NothingThrown` that no call of the simulation
failed, and `AttemptsOfSimulation` what the record holds. With `OneWinner` the
settlement is the simulation's own, which gives `DecisionsHold` and
`OutcomesFollowAttempts`. For `PaymentPromised` the invariant is joined by
`ArrivedStarted`: a confirmation arrives only after it was sent, which is when
the refinement mapping counts the payment as decided.

*Termination.* That every request is answered rests on three facts, two of which
need no fairness and are proved. Every step of a call lowers `StepsLeft`, and no
other call raises it (`CallsEndInFourSteps`): a swap that loses is explained, never
tried again. With the stages of the handler this gives `WorkLeft`, which every step
of a request lowers and no other request raises (`HandlersEnd`: at most 12 steps,
and 23 of a simulation). And until it has answered, a request satisfies `CanGoOn`,
which writes out the conditions of the steps in its `Proceed`, all of them about
its own calls and exchanges (`NobodyHangs`): nobody waits for anybody, and no
handler is left between two states. `WInv` says that what a handler waits for was
started. The third fact, that what can always go on does, is the fairness, and
stays with TLC.

A handler could also end in the wrong way. `CallbackService` checks the kind again
after a decision has settled the payment, and a refusal there would be an error
answered for a payment that is settled and announced to nobody. `RejectKind` of
`Simulator` allows it; `DecisionsReachDispatch` says it never happens to a decision,
because the service, by `KindsAreKept`, had refused the foreign kind before.

*Listing.* `ListingInv` says of each listing that it is a sorted permutation of the
entries there were when it was made, which are the oldest ones now: the `Map` only
grows at its end, and an update changes neither id nor creation time, nor the
place. That `list` is such a permutation is `ListSorts`. `AtOrBefore` is a total
order, so the entries at or before two different ones are different in number, and
as there are as many places as entries every place is taken (`PlacesTaken`, by the
pigeonhole principle). `OrderKept` then compares two permutations that are sorted
in the same order; `NewestComeFirst` adds `InOrderOfTime`, that on a clock nobody
sets the entries' times never decrease.

*Configuration.* `ConfigurationInv` says at each stage what the variables are in
terms of `env` and `args`, which never change. The two merges agree because the
first leaves nothing undefined for the second to replace.

*Dispatcher, tokens, requests.* `TimerFollows` and `AnswerFollows` relate timer
and answer to the place in `dispatch`. `TokensInv` says that dead tokens are not
in the `Map`, and that on a clock nobody set the `Map` holds exactly the living
ones. `RequestsInv` says that what was stored is what was parsed; the rest are
facts about the schemas.

## Only model-checked

Every invariant and action property of the passing runs is proved, and so is the
safety of every refinement. What is left needs fairness, which the prover cannot
treat: `EveryRequestIsAnswered`, `OutcomeIsRecorded`, `EverySimulationSettles` and
the liveness of `ImplementsExchange`. Of the first and the third, the measure
and the absence of waiting are proved (*Termination*), the step from them to
"eventually" is not. The three violated sentences have their
counterexamples only.

## Not modelled

- The error handler (`shared/errors.ts`): a function from an error to an HTTP
  status and body, on which nothing else depends. Error codes are in the models.
- The rest of the server's wiring, CORS, the metadata routes (constant), and
  Fastify's own checks, such as that of the `grant_type` query parameter.
- The commands of the command line other than `start`: each is one HTTP request,
  and the requests are those of `Simulator` and `Listing`.
- `repository.findById`, which has no caller.
- The text of identifiers, tokens, timestamps, receipts and messages. Random values
  are drawn fresh; that they are is an assumption on their entropy.
