------------------------------- MODULE Simulator -------------------------------
(***************************************************************************)
(* The HTTP handlers that act on STK and business-payment transactions,    *)
(* with the services they call: StkService and BusinessPaymentService for  *)
(* the requests of an integration, the simulator routes and                *)
(* CallbackService for those of its developer, and the callbacks sent to   *)
(* the integration's URLs.  Handlers of different requests interleave at   *)
(* every `await`: a call of TransactionService, and the callback exchange. *)
(*                                                                         *)
(* A handler calls TransactionService at most twice, first to create, read *)
(* or settle a transaction, then to record the callback attempt it made.   *)
(***************************************************************************)
EXTENDS TransactionTypes, FiniteSets

CONSTANTS
  TrackingIds,     \* the tracking ids transactions can be given
  Requests,        \* one element for every HTTP request
  ClientRequests   \* what the requests ask for

ClientRequest ==
  [name : {"push", "query", "show"}, id : TrackingIds]
  \cup [name : {"pay"}, id : TrackingIds, kind : BusinessKinds]
  \cup [name : {"decide"}, family : {"stk", "payments"}, id : TrackingIds,
        to : TerminalStatus]
  \cup [name : {"replay"}, family : {"stk", "payments"}, id : TrackingIds]

ASSUME ClientRequestsAssumption == ClientRequests \subseteq ClientRequest

(* Neither is mistaken for the word that stands for an absent receipt.     *)
ASSUME ReceiptsAssumption == "none" \notin TrackingIds \cup Requests

NoRequest == [name |-> "none"]

Calls == Requests \X {"first", "record"}

First(r) == << r, "first" >>

Record(r) == << r, "record" >>

-------------------------------------------------------------------------------
(***************************************************************************)
(* Callbacks.  A receipt is "none", or the id of the transaction for STK,  *)
(* whose receipt is computed from the checkoutRequestId, or the request    *)
(* that sent the callback for a business payment, whose receipt is drawn   *)
(* anew each time.  A callback attempt has a random id: the request.       *)
(***************************************************************************)
PendingResult == [code |-> "9999", desc |-> "being processed"]

Payload ==
  [id      : TrackingIds,
   result  : Result \cup {PendingResult},
   receipt : TrackingIds \cup Requests \cup {"none"}]

Callback ==
  [role    : {"STK_RESULT", "BUSINESS_RESULT", "BUSINESS_TIMEOUT"},
   url     : {"CallBackURL", "ResultURL", "QueueTimeOutURL"},
   payload : Payload]

NoCallback == [role |-> "none"]

Attempt == [id : Requests, callback : Callback, ok : BOOLEAN]

(* resultCode and resultDesc as a callback or a query shows them.          *)
ShownResult(t) == IF t.result = NoResult THEN PendingResult ELSE t.result

createStkCallbackPayload(t) ==
  [id      |-> t.trackingId,
   result  |-> ShownResult(t),
   receipt |-> IF t.status = "SUCCESS" THEN t.trackingId ELSE "none"]

createBusinessPaymentResultPayload(r, t) ==
  [id      |-> t.trackingId,
   result  |-> ShownResult(t),
   receipt |-> IF t.status = "SUCCESS" THEN r ELSE "none"]

createBusinessPaymentTimeoutPayload(t) ==
  [id |-> t.trackingId, result |-> ShownResult(t), receipt |-> "none"]

(* The kinds CallbackService accepts for the callbacks of a route family.  *)
CallbackKinds(family) == IF family = "stk" THEN {"STK"} ELSE BusinessKinds

(* Mutant of CallbackFor: a timed-out payment is reported to its ResultURL.*)
CallbackToResultUrl(r, q, t) ==
  IF q.family = "stk"
  THEN [role |-> "STK_RESULT", url |-> "CallBackURL",
        payload |-> createStkCallbackPayload(t)]
  ELSE [role |-> "BUSINESS_RESULT", url |-> "ResultURL",
        payload |-> createBusinessPaymentResultPayload(r, t)]

(* The callback request r sends about the transaction t it holds.  Only    *)
(* the timeout route reaches sendBusinessPaymentTimeout; a replay never.   *)
CallbackFor(r, q, t) ==
  IF q.family = "stk"
  THEN [role |-> "STK_RESULT", url |-> "CallBackURL",
        payload |-> createStkCallbackPayload(t)]
  ELSE IF q.name = "decide" /\ q.to = "TIMEOUT"
  THEN [role |-> "BUSINESS_TIMEOUT", url |-> "QueueTimeOutURL",
        payload |-> createBusinessPaymentTimeoutPayload(t)]
  ELSE [role |-> "BUSINESS_RESULT", url |-> "ResultURL",
        payload |-> createBusinessPaymentResultPayload(r, t)]

-------------------------------------------------------------------------------
VARIABLES
  transactions, op, pc, seen, reply,   \* the state of TransactionService
  request,     \* what each HTTP request asks for
  handler,     \* where its handler is
  sent,        \* the callback it sent, if any
  phase, arrived, outcome,   \* the state of the callback exchanges
  answer,      \* the HTTP answer it got
  published    \* the transactions with a published outcome when it arrived

serviceVars == << transactions, op, pc, seen, reply >>

exchangeVars == << phase, arrived, outcome >>

httpVars == << request, handler, sent, exchangeVars, answer, published >>

vars == << transactions, op, pc, seen, reply,
           request, handler, sent, phase, arrived, outcome, answer, published >>

Service ==
  INSTANCE TransactionService WITH
    Attempts <- Attempt, Offered <- ServiceCall(TrackingIds, Attempt)

(* A request makes one exchange at most, and only its `ok` matters here.   *)
Exchange == INSTANCE CallbackExchange WITH Exchanges <- Requests, Bodies <- {}

HandlerState == {"idle", "calling", "dispatching", "recording", "answered"}

(* What a client is shown: an error, ids, a query result, a transaction.   *)
Answer ==
  [error : ErrorCode, body : {"none"}]
  \cup [error : {"none"},
        body  : TrackingIds
                \cup Result \cup {PendingResult}
                \cup Transaction(TrackingIds, Attempt)]

NoAnswer == [error |-> "no answer", body |-> "none"]

TypeOK ==
  /\ Service!TypeOK
  /\ request \in [Requests -> ClientRequest \cup {NoRequest}]
  /\ handler \in [Requests -> HandlerState]
  /\ sent \in [Requests -> Callback \cup {NoCallback}]
  /\ Exchange!TypeOK
  /\ answer \in [Requests -> Answer \cup {NoAnswer}]
  /\ published \in [Requests -> SUBSET TrackingIds]

Init ==
  /\ Service!Init
  /\ request = [r \in Requests |-> NoRequest]
  /\ handler = [r \in Requests |-> "idle"]
  /\ sent = [r \in Requests |-> NoCallback]
  /\ Exchange!Init
  /\ answer = [r \in Requests |-> NoAnswer]
  /\ published = [r \in Requests |-> {}]

-------------------------------------------------------------------------------
(* The call of TransactionService a handler begins with.                   *)
transition == [stk |-> "transitionStk", payments |-> "transitionBusinessPayment"]

FirstCall(q) ==
  CASE q.name = "push"  -> [name |-> "create", id |-> q.id, kind |-> "STK"]
    [] q.name = "pay"   -> [name |-> "create", id |-> q.id, kind |-> q.kind]
    [] q.name = "query" -> [name |-> "getByCheckoutRequestId", id |-> q.id]
    [] q.name \in {"show", "replay"} ->
         [name |-> "getByTrackingId", id |-> q.id]
    [] q.name = "decide" ->
         [name |-> transition[q.family], id |-> q.id, to |-> q.to,
          result |-> NoResult]

(* The outcomes somebody outside the server has already seen: in the       *)
(* answer to a decision or a query, or in a callback.                      *)
Published ==
  {id \in TrackingIds :
     \/ \E r \in arrived :
          /\ sent[r].payload.id = id
          /\ sent[r].payload.result # PendingResult
     \/ \E r \in Requests :
          /\ answer[r].error = "none"
          /\ request[r].id = id
          /\ \/ request[r].name = "decide"
             \/ request[r].name = "query" /\ answer[r].body # PendingResult}

Receive(r, q) ==
  /\ handler[r] = "idle"
  /\ Service!Invoke(First(r), FirstCall(q))
  /\ request' = [request EXCEPT ![r] = q]
  /\ handler' = [handler EXCEPT ![r] = "calling"]
  /\ published' = [published EXCEPT ![r] = Published]
  /\ UNCHANGED << sent, exchangeVars, answer >>

ServiceStep(r) ==
  /\ Service!Step(First(r)) \/ Service!Step(Record(r))
  /\ UNCHANGED httpVars

(* The handler of r goes on once its service call is over.                 *)
Resumes(r, state, call) == handler[r] = state /\ pc[call] = "replied"

(* The HTTP answer to r.                                                   *)
Respond(r, a) ==
  /\ handler' = [handler EXCEPT ![r] = "answered"]
  /\ answer' = [answer EXCEPT ![r] = a]
  /\ UNCHANGED << serviceVars, request, sent, exchangeVars, published >>

(* Mutant of mapTransactionToQueryResponse: only approval ends a query's   *)
(* wait.                                                                   *)
QueryAwaitsSuccess(t) ==
  IF t.status # "SUCCESS" THEN PendingResult ELSE t.result

(* A query shows resultCode as a string, and 9999 while PENDING.           *)
mapTransactionToQueryResponse(t) ==
  IF t.status = "PENDING" THEN PendingResult ELSE t.result

Body(q, t) ==
  CASE q.name \in {"push", "pay"} -> t.trackingId
    [] q.name = "query"           -> mapTransactionToQueryResponse(t)
    [] OTHER                      -> t

(* An error thrown by the first service call, or by the kind check that    *)
(* CallbackService makes before it sends a callback or a replay of one.    *)
Fail(r) ==
  LET first == reply[First(r)]
  IN  /\ Resumes(r, "calling", First(r))
      /\ first.error # "none"
      /\ Respond(r, [error |-> first.error, body |-> "none"])

RejectKind(r) ==
  LET first == reply[First(r)]
  IN  /\ Resumes(r, "calling", First(r))
      /\ first.error = "none"
      /\ request[r].name \in {"decide", "replay"}
      /\ first.transaction.kind \notin CallbackKinds(request[r].family)
      /\ Respond(r, [error |-> "INVALID_TRANSACTION_KIND", body |-> "none"])

Acknowledge(r) ==
  LET first == reply[First(r)]
  IN  /\ Resumes(r, "calling", First(r))
      /\ first.error = "none"
      /\ request[r].name \in {"push", "pay", "query", "show"}
      /\ Respond(r, [error |-> "none",
                     body  |-> Body(request[r], first.transaction)])

(* dispatch: the timer is started and the POST is on its way.              *)
SendCallback(r) ==
  LET first == reply[First(r)]
  IN  /\ Resumes(r, "calling", First(r))
      /\ first.error = "none"
      /\ request[r].name \in {"decide", "replay"}
      /\ first.transaction.kind \in CallbackKinds(request[r].family)
      /\ sent' = [sent EXCEPT
                    ![r] = CallbackFor(r, request[r], first.transaction)]
      /\ handler' = [handler EXCEPT ![r] = "dispatching"]
      /\ Exchange!Start(r)
      /\ UNCHANGED << serviceVars, request, answer, published >>

(* The callback reaches its URL: perhaps never, perhaps after the          *)
(* dispatcher has given up on it, at most once.                            *)
Deliver(r) ==
  /\ Exchange!Arrive(r)
  /\ UNCHANGED << serviceVars, request, handler, sent, answer, published >>

(* Mutant of AttemptOf: whatever was sent counts as delivered. *)
AttemptTakenForOk(r, o) == [id |-> r, callback |-> sent[r], ok |-> TRUE]

AttemptOf(r, o) == [id |-> r, callback |-> sent[r], ok |-> o.ok]

(* Record the attempt o the exchange of r ended with. *)
RecordAttempt(r, o) ==
  /\ Service!Invoke(Record(r),
       [name    |-> "addCallbackAttempt",
        id      |-> sent[r].payload.id,
        attempt |-> AttemptOf(r, o)])
  /\ handler' = [handler EXCEPT ![r] = "recording"]
  /\ UNCHANGED << request, sent, answer, published >>

(* Mutant of EndDispatch: a handler only awaits exchanges that arrive. *)
EndDispatchArrived(r, o) ==
  /\ handler[r] = "dispatching"
  /\ r \in arrived
  /\ Exchange!End(r, o)
  /\ RecordAttempt(r, o)

(* Mutant of EndDispatch: a failed exchange throws and is not recorded. *)
EndDispatchThrowing(r, o) ==
  /\ handler[r] = "dispatching"
  /\ Exchange!End(r, o)
  /\ IF o.ok
     THEN RecordAttempt(r, o)
     ELSE /\ handler' = [handler EXCEPT ![r] = "answered"]
          /\ answer' = [answer EXCEPT ![r] = [error |-> "INTERNAL_ERROR",
                                              body  |-> "none"]]
          /\ UNCHANGED << serviceVars, request, sent, published >>

(* The exchange ends, with a 2xx answer to what was delivered, or with     *)
(* another answer, a network error or the timer: dispatch never throws,    *)
(* and the attempt is recorded in every case.                              *)
EndDispatch(r, o) ==
  /\ handler[r] = "dispatching"
  /\ Exchange!End(r, o)
  /\ RecordAttempt(r, o)

(* Mutant of Finish: the answer is what the handler's first call returned. *)
FinishWithSnapshot(r) ==
  /\ Resumes(r, "recording", Record(r))
  /\ Respond(r, [error |-> "none", body |-> reply[First(r)].transaction])

Finish(r) ==
  LET record == reply[Record(r)]
  IN  /\ Resumes(r, "recording", Record(r))
      /\ Respond(r, IF record.error = "none"
                    THEN [error |-> "none", body |-> record.transaction]
                    ELSE [error |-> record.error, body |-> "none"])

Proceed(r) ==
  \/ ServiceStep(r)
  \/ Fail(r)
  \/ RejectKind(r)
  \/ Acknowledge(r)
  \/ SendCallback(r)
  \/ \E o \in Exchange!Outcome : EndDispatch(r, o)
  \/ Finish(r)

Next ==
  \E r \in Requests :
    \/ \E q \in ClientRequests : Receive(r, q)
    \/ Proceed(r)
    \/ Deliver(r)

Spec == Init /\ [][Next]_vars

(* Every handler is run to its end: by the event loop, and through the     *)
(* exchange by the AbortController's timer, whatever the URL does.         *)
FairSpec == Spec /\ \A r \in Requests : WF_vars(Proceed(r))

-------------------------------------------------------------------------------
Sent(r) == sent[r] # NoCallback

(* The requests that decided the outcome of the transaction id.            *)
Deciders(id) ==
  {r \in Requests :
     request[r].name = "decide" /\ request[r].id = id /\ Sent(r)}

(* Each transaction's outcome is announced by one callback only, replays   *)
(* aside, and nobody whose decision was refused announced anything:        *)
(* of the requests that race to approve, fail and time out one payment,    *)
(* one sends a callback and the others get an error.                       *)
OneAnnouncement ==
  /\ \A id \in TrackingIds : \A r, s \in Deciders(id) : r = s
  /\ \A r \in Requests : answer[r].error \in ErrorCode => ~ Sent(r)

(* A callback announces the outcome the ledger holds, then and from then   *)
(* on, and goes where that outcome belongs: it was built from a snapshot   *)
(* taken before the callback left and may arrive much later.               *)
Announces(cb, t) ==
  /\ t # NoTransaction
  /\ t.status # "PENDING"
  /\ cb.payload.result = t.result
  /\ cb.payload.receipt # "none" <=> t.status = "SUCCESS"
  /\ cb.url = IF t.kind = "STK" THEN "CallBackURL"
              ELSE IF t.status = "TIMEOUT" THEN "QueueTimeOutURL"
              ELSE "ResultURL"

AnnouncementsAreTrue ==
  \A id \in TrackingIds : \A r \in Deciders(id) :
    Announces(sent[r], transactions[id])

(* Nobody who has seen an outcome can be told later that the payment is    *)
(* still being processed, or be allowed to decide it again: requests that  *)
(* arrive after the outcome was published see it.                          *)
NoStepBack ==
  \A r \in Requests :
    request[r] # NoRequest /\ request[r].id \in published[r] =>
      /\ request[r].name = "query" /\ answer[r].error = "none" =>
           answer[r].body # PendingResult
      /\ request[r].name = "decide" => ~ Sent(r)
      /\ Sent(r) => sent[r].payload.result # PendingResult

(* The ledger's attempts are the exchanges that happened: each request     *)
(* that sent a callback and was answered left one attempt, with what it    *)
(* sent, a successful one only if the callback arrived; nothing else did.  *)
AttemptsTellTheTruth ==
  \A id \in TrackingIds : transactions[id] # NoTransaction =>
    LET attempts == transactions[id].callbackAttempts
        recorders == {attempts[i].id : i \in DOMAIN attempts}
    IN  /\ Len(attempts) = Cardinality(recorders)
        /\ {r \in Requests : /\ Sent(r)
                             /\ request[r].id = id
                             /\ handler[r] = "answered"} \subseteq recorders
        /\ \A i \in DOMAIN attempts :
             /\ attempts[i].callback = sent[attempts[i].id]
             /\ attempts[i].ok => attempts[i].id \in arrived

(* The answer to a decision or a replay is the transaction as it was the   *)
(* moment the attempt it made was recorded, whatever was recorded or       *)
(* decided while its callback was on its way: that attempt is the last one *)
(* shown, the earlier ones are those the ledger keeps, and a decision is   *)
(* answered with the outcome it made and not with another's.               *)
AnswersShowTheRecord ==
  \A r \in Requests :
    Sent(r) /\ answer[r].error = "none" =>
      LET shown    == answer[r].body
          attempts == shown.callbackAttempts
      IN  /\ Service!Extends(transactions[request[r].id], shown)
          /\ attempts # << >> /\ attempts[Len(attempts)].id = r
          /\ request[r].name = "decide" => shown.status = request[r].to

(* Every request is answered, whatever its callback URL does.              *)
EveryRequestIsAnswered ==
  \A r \in Requests : handler[r] = "calling" ~> handler[r] = "answered"

(* A settled transaction always ends up with the attempt to announce it.   *)
OutcomeIsRecorded ==
  \A id \in TrackingIds :
    /\ transactions[id] # NoTransaction
    /\ transactions[id].status # "PENDING"
    ~> \E r \in Deciders(id) :
         \E i \in DOMAIN transactions[id].callbackAttempts :
           transactions[id].callbackAttempts[i].id = r

-------------------------------------------------------------------------------
(* What the answers to queries and the callbacks that arrived have said of *)
(* the outcome of the transaction id; "being processed" says nothing.      *)
Said(id) ==
  {sent[r].payload.result : r \in {s \in arrived : sent[s].payload.id = id}}
  \cup {answer[r].body : r \in {s \in Requests : /\ request[s].name = "query"
                                                 /\ request[s].id = id
                                                 /\ answer[s].error = "none"}}

PaymentPromise ==
  INSTANCE Payment WITH
    verdict <- [id \in TrackingIds |->
                  IF transactions[id] = NoTransaction THEN "none"
                  ELSE IF transactions[id].status = "PENDING" THEN "open"
                  ELSE transactions[id].status],
    told    <- [id \in TrackingIds |->
                  {o \in TerminalStatus : resultDetails[o] \in Said(id)}]

(* Whatever decisions, queries, replays and late callbacks overlap, a      *)
(* payment is decided once and its integration only ever hears that.       *)
ImplementsPayment == PaymentPromise!Spec

-------------------------------------------------------------------------------
(* The two claims of the API description that the code does not keep.      *)

Replays(id) ==
  {r \in Requests :
     request[r].name = "replay" /\ request[r].id = id /\ Sent(r)}

(* "Replays the current terminal callback": what a payment replay sends is *)
(* the callback of an outcome.                                             *)
ReplayIsTerminal ==
  \A id \in TrackingIds : \A r \in Replays(id) :
    sent[r].payload.result # PendingResult

(* "timeout callbacks are delivered to QueueTimeOutURL": a replay that     *)
(* tells of a timeout goes where the timeout was announced.                *)
ReplayGoesWhereAnnounced ==
  \A id \in TrackingIds : \A r \in Replays(id), s \in Deciders(id) :
    sent[r].payload.result = resultDetails["TIMEOUT"] =>
      sent[r].url = sent[s].url

===============================================================================
