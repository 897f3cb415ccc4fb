--------------------------- MODULE SimulatorProofs ----------------------------
(***************************************************************************)
(* Proofs about Simulator, for any sets of tracking ids and requests.      *)
(*                                                                         *)
(* The handlers' calls are shown to be a behaviour of TransactionService,  *)
(* so that what TransactionServiceProofs establishes of every caller holds *)
(* of these; the properties of callbacks then follow from an invariant     *)
(* that ties each callback to the service call whose answer it was built   *)
(* from, and from OneWinner.  Then come the attempts each transaction      *)
(* keeps, the promise of Payment, and what follows from it.                *)
(***************************************************************************)
EXTENDS Simulator, FiniteSetTheorems, TLAPS

Proved ==
  INSTANCE TransactionServiceProofs WITH
    Attempts <- Attempt, Offered <- ServiceCall(TrackingIds, Attempt)

-------------------------------------------------------------------------------
(* Service and Proved are two instances of one module: the operators of    *)
(* one are those of the other.                                             *)
LEMMA SameCalls ==
  ServiceCall(TrackingIds, Attempt) =
    Proved!ServiceCall(TrackingIds, Attempt)
BY DEF Proved!ServiceCall, ServiceCall, Proved!CreateCall, CreateCall,
       Proved!GetCall, GetCall, Proved!TransitionCall, TransitionCall,
       Proved!AttemptCall, AttemptCall, Proved!TransactionKind,
       TransactionKind, Proved!BusinessKinds, BusinessKinds,
       Proved!TerminalStatus, TerminalStatus, Proved!TransactionStatus,
       TransactionStatus, Proved!Result, Result, Proved!NoResult, NoResult

LEMMA OfferedHolds == Proved!OfferedAssumption
BY SameCalls DEF Proved!OfferedAssumption

LEMMA SameInit == Service!Init => Proved!Init
BY DEF Service!Init, Proved!Init, Service!NoTransaction,
       Proved!NoTransaction, Service!NoCall, Proved!NoCall,
       Service!NoReply, Proved!NoReply

LEMMA SameInvoke ==
  ASSUME NEW c, NEW o, Service!Invoke(c, o)
  PROVE  Proved!Invoke(c, o)
BY DEF Service!Invoke, Proved!Invoke, Service!IdIsFresh, Proved!IdIsFresh

LEMMA SameStep ==
  ASSUME NEW c, Service!Step(c)
  PROVE  Proved!Step(c)
<1> USE DEF Service!NoTransaction, Proved!NoTransaction,
            Service!Current, Proved!Current,
            Service!Respond, Proved!Respond,
            Service!Store, Proved!Store,
            Service!Returned, Proved!Returned,
            Service!Thrown, Proved!Thrown,
            Service!Found, Proved!Found,
            Service!TransitionNames, Proved!TransitionNames,
            Service!expectedKinds, Proved!expectedKinds,
            Service!KindExpected, Proved!KindExpected,
            Service!BusinessKinds, Proved!BusinessKinds
<1>1. Service!Create(c) => Proved!Create(c)
  BY DEF Service!Create, Proved!Create, Service!NewTransaction,
         Proved!NewTransaction, Service!NoResult, Proved!NoResult
<1>2. Service!ReplyNotFound(c) => Proved!ReplyNotFound(c)
  BY DEF Service!ReplyNotFound, Proved!ReplyNotFound
<1>3. Service!Get(c) => Proved!Get(c)
  BY DEF Service!Get, Proved!Get
<1>4. Service!RejectKind(c) => Proved!RejectKind(c)
  BY DEF Service!RejectKind, Proved!RejectKind
<1>5. \A from, to :
        Service!CanTransition(from, to) <=> Proved!CanTransition(from, to)
  BY DEF Service!CanTransition, Proved!CanTransition,
         Service!allowedTransitions, Proved!allowedTransitions,
         Service!TransactionStatus, Proved!TransactionStatus,
         Service!TerminalStatus, Proved!TerminalStatus
<1>6. Service!RejectTransition(c) => Proved!RejectTransition(c)
  BY <1>5 DEF Service!RejectTransition, Proved!RejectTransition
<1>7. Service!ReadForTransition(c) => Proved!ReadForTransition(c)
  BY <1>5 DEF Service!ReadForTransition, Proved!ReadForTransition
<1>8. Service!SwapStatus(c) => Proved!SwapStatus(c)
  BY DEF Service!SwapStatus, Proved!SwapStatus,
         Service!StatusMatches, Proved!StatusMatches,
         Service!Base, Proved!Base, Service!Settle, Proved!Settle,
         Service!Details, Proved!Details, Service!NoResult, Proved!NoResult,
         Service!resultDetails, Proved!resultDetails
<1>9. Service!MissSwap(c) => Proved!MissSwap(c)
  BY DEF Service!MissSwap, Proved!MissSwap,
         Service!StatusMatches, Proved!StatusMatches
<1>10. Service!ExplainConflict(c) => Proved!ExplainConflict(c)
  BY <1>5 DEF Service!ExplainConflict, Proved!ExplainConflict,
              Service!ConflictError, Proved!ConflictError
<1>11. Service!AddCallbackAttempt(c) => Proved!AddCallbackAttempt(c)
  BY DEF Service!AddCallbackAttempt, Proved!AddCallbackAttempt,
         Service!WithAttempt, Proved!WithAttempt
<1> QED
  BY <1>1, <1>2, <1>3, <1>4, <1>6, <1>7, <1>8, <1>9, <1>10, <1>11
     DEF Service!Step, Proved!Step

LEMMA SameRecords ==
  /\ Transaction(TrackingIds, Attempt) =
       Proved!Transaction(TrackingIds, Attempt)
  /\ ErrorCode = Proved!ErrorCode
  /\ NoTransaction = Proved!NoTransaction
BY DEF Transaction, Proved!Transaction, TransactionKind,
       Proved!TransactionKind, BusinessKinds, Proved!BusinessKinds,
       TransactionStatus, Proved!TransactionStatus, Result, Proved!Result,
       NoResult, Proved!NoResult, ErrorCode, Proved!ErrorCode,
       NoTransaction, Proved!NoTransaction

(* The fields of a transaction.                                            *)
LEMMA TransactionFields ==
  ASSUME NEW t \in Transaction(TrackingIds, Attempt)
  PROVE  /\ t.trackingId \in TrackingIds
         /\ t.kind \in TransactionKind
         /\ t.status \in TransactionStatus
         /\ t.result \in Result \cup {NoResult}
         /\ t.status = "PENDING" <=> t.result = NoResult
BY DEF Transaction

(* What the requests ask for, and the service call each begins with.       *)
LEMMA FirstCallType ==
  ASSUME NEW q \in ClientRequest
  PROVE  /\ q # NoRequest
         /\ q.id \in TrackingIds
         /\ FirstCall(q) \in ServiceCall(TrackingIds, Attempt)
         /\ FirstCall(q).id = q.id
         /\ q.name \in {"push", "pay", "query", "show", "decide", "replay"}
         /\ q.name = "decide" =>
              /\ FirstCall(q).name \in TransitionNames
              /\ FirstCall(q).to = q.to
              /\ Details(FirstCall(q)) = resultDetails[q.to]
              /\ q.to \in TerminalStatus
<1>1. q # NoRequest /\ q.id \in TrackingIds
  BY DEF ClientRequest, NoRequest
<1>2. CASE q \in [name : {"push", "query", "show"}, id : TrackingIds]
  BY <1>1, <1>2
     DEF FirstCall, ServiceCall, CreateCall, GetCall, TransactionKind
<1>3. CASE q \in [name : {"pay"}, id : TrackingIds, kind : BusinessKinds]
  BY <1>1, <1>3
     DEF FirstCall, ServiceCall, CreateCall, TransactionKind
<1>4. CASE q \in [name : {"decide"}, family : {"stk", "payments"},
                  id : TrackingIds, to : TerminalStatus]
  BY <1>1, <1>4
     DEF FirstCall, ServiceCall, TransitionCall, transition, Details,
         TransitionNames, expectedKinds
<1>5. CASE q \in [name : {"replay"}, family : {"stk", "payments"},
                  id : TrackingIds]
  BY <1>1, <1>5 DEF FirstCall, ServiceCall, GetCall
<1> QED
  BY <1>2, <1>3, <1>4, <1>5 DEF ClientRequest

(* The callbacks handlers send.                                            *)
LEMMA CallbackType ==
  ASSUME NEW r \in Requests, NEW q,
         NEW t \in Transaction(TrackingIds, Attempt)
  PROVE  /\ CallbackFor(r, q, t) \in Callback
         /\ CallbackFor(r, q, t) # NoCallback
         /\ CallbackFor(r, q, t).payload.id = t.trackingId
         /\ CallbackFor(r, q, t).payload.result = ShownResult(t)
<1>1. ShownResult(t) \in Result \cup {PendingResult}
  BY TransactionFields DEF ShownResult
<1>2. /\ createStkCallbackPayload(t) \in Payload
      /\ createBusinessPaymentResultPayload(r, t) \in Payload
      /\ createBusinessPaymentTimeoutPayload(t) \in Payload
  BY <1>1, TransactionFields
     DEF createStkCallbackPayload, createBusinessPaymentResultPayload,
         createBusinessPaymentTimeoutPayload, Payload
<1>3. CallbackFor(r, q, t) \in Callback
  BY <1>2 DEF CallbackFor, Callback
<1>4. CallbackFor(r, q, t) # NoCallback
  BY DEF CallbackFor, NoCallback
<1> QED
  BY <1>3, <1>4
     DEF CallbackFor, createStkCallbackPayload,
         createBusinessPaymentResultPayload,
         createBusinessPaymentTimeoutPayload

(* No two requests share a service call.                                   *)
LEMMA CallsDistinct ==
  \A r, s \in Requests :
    /\ First(r) \in Calls
    /\ Record(r) \in Calls
    /\ First(r) # Record(s)
    /\ First(r) = First(s) => r = s
    /\ Record(r) = Record(s) => r = s
BY DEF First, Record, Calls

-------------------------------------------------------------------------------
(* The inductive invariant of the handlers.                                *)
HandlersTyped ==
  /\ request \in [Requests -> ClientRequest \cup {NoRequest}]
  /\ handler \in [Requests -> HandlerState]
  /\ sent \in [Requests -> Callback \cup {NoCallback}]
  /\ Exchange!TypeOK
  /\ answer \in [Requests -> Answer \cup {NoAnswer}]
  /\ published \in [Requests -> SUBSET TrackingIds]

(* The callback of r was built from what its first service call returned.  *)
CallbackSent(r) ==
  /\ request[r].name \in {"decide", "replay"}
  /\ pc[First(r)] = "replied"
  /\ reply[First(r)].error = "none"
  /\ reply[First(r)].transaction.kind \in CallbackKinds(request[r].family)
  /\ sent[r] = CallbackFor(r, request[r], reply[First(r)].transaction)

(* What is recorded is the attempt to send it, and recording cannot fail.  *)
CallbackRecorded(r) ==
  /\ op[Record(r)] # NoCall =>
       /\ Sent(r)
       /\ handler[r] \in {"recording", "answered"}
       /\ op[Record(r)].name = "addCallbackAttempt"
       /\ op[Record(r)].id = sent[r].payload.id
  /\ reply[Record(r)].error \notin ErrorCode

HandlerInv(r) ==
  /\ handler[r] = "idle" <=> request[r] = NoRequest
  /\ op[First(r)] =
       IF request[r] = NoRequest THEN NoCall ELSE FirstCall(request[r])
  /\ handler[r] \in {"idle", "calling"} => ~ Sent(r)
  /\ handler[r] \in {"dispatching", "recording"} => Sent(r)
  /\ Sent(r) => CallbackSent(r)
  /\ CallbackRecorded(r)
  /\ handler[r] # "answered" => answer[r] = NoAnswer
  /\ answer[r].error \in ErrorCode => ~ Sent(r)

SInv ==
  /\ Proved!IInv
  /\ Proved!AnswersStayTrue
  /\ Proved!OutcomeShown
  /\ HandlersTyped
  /\ \A r \in Requests : HandlerInv(r)

(* What a step of the service leaves to the handlers.                     *)
LEMMA InvokeFrame ==
  ASSUME Proved!IInv, NEW c \in Calls,
         NEW o \in ServiceCall(TrackingIds, Attempt), Service!Invoke(c, o)
  PROVE  /\ [Proved!Next]_(Proved!vars)
         /\ pc[c] = "idle"
         /\ op'[c] = o
         /\ pc'[c] = "invoked"
         /\ \A d \in Calls \ {c} : op'[d] = op[d] /\ pc'[d] = pc[d]
         /\ reply' = reply
<1>1. Proved!Invoke(c, o)
  BY SameInvoke
<1>2. [Proved!Next]_(Proved!vars)
  BY <1>1 DEF Proved!Next
<1> QED
  BY <1>1, <1>2 DEF Proved!Invoke, Proved!IInv, Proved!TypeOK

LEMMA StepFrame ==
  ASSUME Proved!IInv, NEW c \in Calls, Service!Step(c)
  PROVE  /\ [Proved!Next]_(Proved!vars)
         /\ pc[c] \notin {"idle", "replied"}
         /\ op' = op
         /\ \A d \in Calls \ {c} : pc'[d] = pc[d] /\ reply'[d] = reply[d]
<1>1. Proved!Step(c)
  BY SameStep
<1>2. [Proved!Next]_(Proved!vars)
  BY <1>1 DEF Proved!Next
<1> QED
  BY <1>1, <1>2, OfferedHolds, Proved!StepReplies

(* The invariants of the service, along any step of it.                    *)
LEMMA ServiceKept ==
  ASSUME Proved!IInv, Proved!AnswersStayTrue, Proved!OutcomeShown,
         [Proved!Next]_(Proved!vars)
  PROVE  Proved!IInv' /\ Proved!AnswersStayTrue' /\ Proved!OutcomeShown'
<1>1. Proved!IInv'
  BY OfferedHolds, Proved!NextKeepsInvariant
<1>2. Proved!AnswersStayTrue'
  BY OfferedHolds, Proved!AnswersInductive
<1>3. Proved!OutcomeShown'
  BY OfferedHolds, Proved!OutcomeShownInductive
<1> QED
  BY <1>1, <1>2, <1>3

(* A call that succeeded stays as it is.                                   *)
LEMMA SucceededStays ==
  ASSUME Proved!IInv, [Proved!Next]_(Proved!vars), NEW d \in Calls,
         Proved!Succeeded(d)
  PROVE  Proved!Succeeded(d)' /\ op'[d] = op[d] /\ reply'[d] = reply[d]
<1>1. CASE UNCHANGED Proved!vars
  BY <1>1 DEF Proved!vars, Proved!Succeeded
<1>2. ASSUME NEW c \in Calls, NEW o, Proved!Invoke(c, o)
      PROVE  Proved!Succeeded(d)' /\ op'[d] = op[d] /\ reply'[d] = reply[d]
  BY <1>2 DEF Proved!Invoke, Proved!IInv, Proved!TypeOK, Proved!Succeeded
<1>3. ASSUME NEW c \in Calls, Proved!Step(c)
      PROVE  Proved!Succeeded(d)' /\ op'[d] = op[d] /\ reply'[d] = reply[d]
  <2>1. /\ pc[c] \notin {"idle", "replied"}
        /\ op' = op
        /\ \A e \in Calls \ {c} : pc'[e] = pc[e] /\ reply'[e] = reply[e]
    BY <1>3, OfferedHolds, Proved!StepReplies
  <2> QED
    BY <2>1 DEF Proved!Succeeded
<1> QED
  BY <1>1, <1>2, <1>3 DEF Proved!Next

(* What a call that succeeded returned.                                    *)
LEMMA ReplyShape ==
  ASSUME Proved!IInv, NEW c \in Calls, reply[c].error = "none"
  PROVE  reply[c].transaction \in Transaction(TrackingIds, Attempt)
<1>1. reply[c] \in Proved!Reply(TrackingIds, Attempt) \cup {Proved!NoReply}
  BY DEF Proved!IInv, Proved!TypeOK
<1>2. reply[c] \notin [error : Proved!ErrorCode,
                       transaction : {Proved!NoTransaction}]
  BY DEF Proved!ErrorCode
<1>3. reply[c] # Proved!NoReply
  <2>1. Proved!NoReply.error = "no reply"
    BY DEF Proved!NoReply
  <2> QED
    BY <2>1
<1>4. reply[c] \in [error : {"none"},
                    transaction : Proved!Transaction(TrackingIds, Attempt)]
  BY <1>1, <1>2, <1>3 DEF Proved!Reply
<1> QED
  BY <1>4, SameRecords

-------------------------------------------------------------------------------
(* A handler whose own state a step leaves alone keeps its invariant.      *)
LEMMA Unmoved ==
  ASSUME SInv, NEW r \in Requests,
         request'[r] = request[r], handler'[r] = handler[r],
         sent'[r] = sent[r], answer'[r] = answer[r],
         op'[First(r)] = op[First(r)], op'[Record(r)] = op[Record(r)],
         pc[First(r)] = "replied" =>
           pc'[First(r)] = "replied" /\ reply'[First(r)] = reply[First(r)],
         reply'[Record(r)].error \notin ErrorCode
  PROVE  HandlerInv(r)'
<1>1. HandlerInv(r)
  BY DEF SInv
<1>2. Sent(r)' <=> Sent(r)
  BY DEF Sent
<1>3. CallbackSent(r) => CallbackSent(r)'
  BY DEF CallbackSent
<1>4. CallbackRecorded(r)'
  BY <1>1, <1>2 DEF HandlerInv, CallbackRecorded
<1> QED
  BY <1>1, <1>2, <1>3, <1>4 DEF HandlerInv

(* The steps, one by one.                                                  *)
LEMMA ReceiveKept ==
  ASSUME SInv, NEW s \in Requests, NEW q \in ClientRequests, Receive(s, q)
  PROVE  /\ [Proved!Next]_(Proved!vars)
         /\ HandlersTyped'
         /\ \A r \in Requests : HandlerInv(r)'
<1>1. q \in ClientRequest /\ q # NoRequest
      /\ FirstCall(q) \in ServiceCall(TrackingIds, Attempt)
  BY ClientRequestsAssumption, FirstCallType
<1>2. /\ [Proved!Next]_(Proved!vars)
      /\ op'[First(s)] = FirstCall(q)
      /\ \A d \in Calls \ {First(s)} : op'[d] = op[d] /\ pc'[d] = pc[d]
      /\ pc[First(s)] = "idle"
      /\ reply' = reply
  BY <1>1, CallsDistinct, InvokeFrame DEF Receive, SInv
<1>3. /\ handler[s] = "idle"
      /\ request' = [request EXCEPT ![s] = q]
      /\ handler' = [handler EXCEPT ![s] = "calling"]
      /\ UNCHANGED << sent, phase, arrived, outcome, answer >>
      /\ published' = [published EXCEPT ![s] = Published]
  BY DEF Receive, exchangeVars
<1>4. HandlersTyped'
  <2>1. Exchange!TypeOK'
    BY <1>3 DEF SInv, HandlersTyped, Exchange!TypeOK
  <2>2. Published \in SUBSET TrackingIds
    BY DEF Published
  <2> QED
    BY <1>1, <1>3, <2>1, <2>2 DEF SInv, HandlersTyped, HandlerState
<1>5. ASSUME NEW r \in Requests \ {s}
      PROVE  HandlerInv(r)'
  <2>1. /\ First(r) \in Calls \ {First(s)}
        /\ Record(r) \in Calls \ {First(s)}
    BY CallsDistinct
  <2>2. reply[Record(r)].error \notin ErrorCode
    BY DEF SInv, HandlerInv, CallbackRecorded
  <2> QED
    BY <1>2, <1>3, <2>1, <2>2, Unmoved DEF SInv, HandlersTyped
<1>6. HandlerInv(s)'
  <2>1. /\ request'[s] = q
        /\ handler'[s] = "calling"
        /\ sent'[s] = sent[s]
        /\ answer'[s] = answer[s]
    BY <1>3 DEF SInv, HandlersTyped
  <2>2. /\ ~ Sent(s)
        /\ op[Record(s)] = NoCall
        /\ reply[Record(s)].error \notin ErrorCode
        /\ answer[s] = NoAnswer
    BY <1>3 DEF SInv, HandlerInv, CallbackRecorded
  <2>3. op'[Record(s)] = NoCall
    BY <1>2, <2>2, CallsDistinct
  <2> QED
    BY <1>1, <1>2, <2>1, <2>2, <2>3
       DEF HandlerInv, CallbackRecorded, Sent
<1> QED
  BY <1>2, <1>4, <1>5, <1>6

(* A callback is about the transaction its first call was about.           *)
LEMMA CallbackAbout ==
  ASSUME SInv, NEW r \in Requests, Sent(r)
  PROVE  /\ request[r] \in ClientRequest
         /\ reply[First(r)].transaction \in Transaction(TrackingIds, Attempt)
         /\ Proved!Succeeded(First(r))
         /\ op[First(r)] = FirstCall(request[r])
         /\ sent[r].payload.id = request[r].id
         /\ transactions[request[r].id] # NoTransaction
         /\ reply[First(r)].transaction.trackingId = request[r].id
         /\ Proved!Extends(transactions[request[r].id],
                           reply[First(r)].transaction)
<1> DEFINE t == reply[First(r)].transaction
<1>1. CallbackSent(r) /\ HandlerInv(r)
  BY DEF SInv, HandlerInv
<1>2. t \in Transaction(TrackingIds, Attempt) /\ First(r) \in Calls
  BY <1>1, CallsDistinct, ReplyShape DEF SInv, CallbackSent
<1>3. request[r] # NoRequest
  BY <1>1 DEF CallbackSent, NoRequest
<1>4. request[r] \in ClientRequest /\ op[First(r)] = FirstCall(request[r])
  BY <1>1, <1>3 DEF SInv, HandlersTyped, HandlerInv
<1>5. request[r].id \in TrackingIds /\ op[First(r)].id = request[r].id
  BY <1>4, FirstCallType
<1>6. Proved!Succeeded(First(r))
  BY <1>1 DEF CallbackSent, Proved!Succeeded
<1>7. Proved!Extends(transactions[request[r].id], t)
  BY <1>2, <1>5, <1>6 DEF SInv, Proved!AnswersStayTrue
<1>8. /\ transactions[request[r].id] # NoTransaction
      /\ t.trackingId = request[r].id
  BY <1>5, <1>7, SameRecords
     DEF Proved!Extends, SInv, Proved!IInv, Proved!CreatesAreFresh
<1> QED
  BY <1>1, <1>2, <1>4, <1>6, <1>7, <1>8, CallbackType DEF CallbackSent

LEMMA ServiceStepKept ==
  ASSUME SInv, NEW s \in Requests, ServiceStep(s)
  PROVE  /\ [Proved!Next]_(Proved!vars)
         /\ HandlersTyped'
         /\ \A r \in Requests : HandlerInv(r)'
<1>1. PICK c \in {First(s), Record(s)} : Service!Step(c)
  BY DEF ServiceStep
<1>2. c \in Calls
  BY CallsDistinct
<1>3. /\ [Proved!Next]_(Proved!vars)
      /\ pc[c] \notin {"idle", "replied"}
      /\ op' = op
      /\ \A d \in Calls \ {c} : pc'[d] = pc[d] /\ reply'[d] = reply[d]
  BY <1>1, <1>2, StepFrame DEF SInv
<1>4. /\ UNCHANGED << request, handler, sent, answer, published >>
      /\ UNCHANGED << phase, arrived, outcome >>
  BY DEF ServiceStep, httpVars, exchangeVars
<1>5. HandlersTyped'
  BY <1>4 DEF SInv, HandlersTyped, Exchange!TypeOK
<1>6. ASSUME NEW r \in Requests
      PROVE  HandlerInv(r)'
  <2>1. First(r) \in Calls /\ Record(r) \in Calls
    BY CallsDistinct
  <2>2. reply'[Record(r)].error \notin ErrorCode
    <3>1. CASE Record(r) # c
      BY <1>3, <2>1, <3>1 DEF SInv, HandlerInv, CallbackRecorded
    <3>2. CASE Record(r) = c
      <4>1. op[c] # NoCall
        BY <1>2, <1>3, SameRecords
           DEF SInv, Proved!IInv, NoCall, Proved!NoCall
      <4>2. /\ Sent(r)
            /\ op[c].name = "addCallbackAttempt"
            /\ op[c].id = sent[r].payload.id
        BY <3>2, <4>1 DEF SInv, HandlerInv, CallbackRecorded
      <4>3. transactions[op[c].id] # Proved!NoTransaction
        BY <4>2, CallbackAbout, SameRecords
      <4>4. reply'[c].error = "none"
        BY <1>1, <1>2, <4>2, <4>3, OfferedHolds, SameStep,
           Proved!AppendSucceeds
           DEF SInv, Proved!Current
      <4> QED
        BY <3>2, <4>4 DEF ErrorCode
    <3> QED
      BY <3>1, <3>2
  <2> QED
    BY <1>3, <1>4, <2>1, <2>2, Unmoved
<1> QED
  BY <1>3, <1>5, <1>6

(* A step that leaves the service alone stutters there.                    *)
LEMMA ServiceUntouched ==
  ASSUME UNCHANGED serviceVars
  PROVE  /\ [Proved!Next]_(Proved!vars)
         /\ UNCHANGED << transactions, op, pc, seen, reply >>
BY DEF serviceVars, Proved!vars

LEMMA RespondKept ==
  ASSUME SInv, NEW s \in Requests, NEW a \in Answer, Respond(s, a),
         handler[s] \notin {"idle", "answered"},
         a.error \in ErrorCode => ~ Sent(s)
  PROVE  /\ [Proved!Next]_(Proved!vars)
         /\ HandlersTyped'
         /\ \A r \in Requests : HandlerInv(r)'
<1>1. /\ [Proved!Next]_(Proved!vars)
      /\ UNCHANGED << transactions, op, pc, seen, reply >>
  BY ServiceUntouched DEF Respond
<1>2. /\ handler' = [handler EXCEPT ![s] = "answered"]
      /\ answer' = [answer EXCEPT ![s] = a]
      /\ UNCHANGED << request, sent, published, phase, arrived, outcome >>
  BY DEF Respond, exchangeVars
<1>3. HandlersTyped'
  <2>1. Exchange!TypeOK'
    BY <1>2 DEF SInv, HandlersTyped, Exchange!TypeOK
  <2> QED
    BY <1>2, <2>1 DEF SInv, HandlersTyped, HandlerState
<1>4. ASSUME NEW r \in Requests
      PROVE  reply'[Record(r)].error \notin ErrorCode
  BY <1>1 DEF SInv, HandlerInv, CallbackRecorded
<1>5. ASSUME NEW r \in Requests \ {s}
      PROVE  HandlerInv(r)'
  <2>1. handler'[r] = handler[r] /\ answer'[r] = answer[r]
    BY <1>2 DEF SInv, HandlersTyped
  <2> QED
    BY <1>1, <1>2, <1>4, <2>1, Unmoved
<1>6. HandlerInv(s)'
  <2>1. handler'[s] = "answered" /\ answer'[s] = a
    BY <1>2 DEF SInv, HandlersTyped
  <2>2. /\ Sent(s)' <=> Sent(s)
        /\ CallbackSent(s)' <=> CallbackSent(s)
    BY <1>1, <1>2 DEF Sent, CallbackSent
  <2>3. HandlerInv(s)
    BY DEF SInv
  <2>4. CallbackRecorded(s)'
    BY <1>1, <1>2, <1>4, <2>1, <2>2, <2>3 DEF HandlerInv, CallbackRecorded
  <2> QED
    BY <1>1, <1>2, <2>1, <2>2, <2>3, <2>4 DEF HandlerInv
<1> QED
  BY <1>1, <1>3, <1>5, <1>6

(* The answers handlers give.                                              *)
LEMMA BodyType ==
  ASSUME NEW q \in ClientRequest, NEW t \in Transaction(TrackingIds, Attempt)
  PROVE  [error |-> "none", body |-> Body(q, t)] \in Answer
<1>1. mapTransactionToQueryResponse(t) \in Result \cup {PendingResult}
  BY TransactionFields DEF mapTransactionToQueryResponse
<1>2. q.name = "query" => q.name \notin {"push", "pay"}
  OBVIOUS
<1>3. Body(q, t) \in TrackingIds \cup Result \cup {PendingResult}
                     \cup Transaction(TrackingIds, Attempt)
  BY <1>1, <1>2, TransactionFields DEF Body
<1> QED
  BY <1>3 DEF Answer

(* A call that is over without success threw one of the errors.            *)
LEMMA FailureShape ==
  ASSUME SInv, NEW c \in Calls, pc[c] = "replied", reply[c].error # "none"
  PROVE  reply[c].error \in ErrorCode
<1>1. reply[c] \in Proved!Reply(TrackingIds, Attempt) \cup {Proved!NoReply}
  BY DEF SInv, Proved!IInv, Proved!TypeOK
<1>2. reply[c] # Proved!NoReply
  <2>1. Proved!NoReply.error = "no reply"
    BY DEF Proved!NoReply
  <2> QED
    BY <2>1 DEF SInv, Proved!OutcomeShown
<1>3. reply[c] \in [error : Proved!ErrorCode,
                    transaction : {Proved!NoTransaction}]
  BY <1>1, <1>2 DEF Proved!Reply
<1> QED
  BY <1>3, SameRecords

LEMMA AnswerKept ==
  ASSUME SInv, NEW s \in Requests,
         Fail(s) \/ RejectKind(s) \/ Acknowledge(s) \/ Finish(s)
  PROVE  /\ [Proved!Next]_(Proved!vars)
         /\ HandlersTyped'
         /\ \A r \in Requests : HandlerInv(r)'
<1>1. /\ First(s) \in Calls
      /\ Record(s) \in Calls
      /\ HandlerInv(s)
  BY CallsDistinct DEF SInv
<1>2. ASSUME NEW c \in Calls, pc[c] = "replied", reply[c].error # "none"
      PROVE  reply[c].error \in ErrorCode
  BY <1>2, FailureShape
<1>3. ASSUME NEW e \in ErrorCode
      PROVE  [error |-> e, body |-> "none"] \in Answer
  BY DEF Answer
<1>4. ~ (\E e \in ErrorCode : e = "none")
  BY DEF ErrorCode
<1>5. CASE Fail(s)
  <2>1. /\ handler[s] = "calling"
        /\ reply[First(s)].error \in ErrorCode
        /\ Respond(s, [error |-> reply[First(s)].error, body |-> "none"])
    BY <1>1, <1>2, <1>5 DEF Fail, Resumes
  <2>2. ~ Sent(s)
    BY <1>1, <2>1 DEF HandlerInv
  <2> QED
    BY <1>3, <2>1, <2>2, RespondKept
<1>6. CASE RejectKind(s)
  <2>1. /\ handler[s] = "calling"
        /\ Respond(s, [error |-> "INVALID_TRANSACTION_KIND",
                       body  |-> "none"])
    BY <1>6 DEF RejectKind, Resumes
  <2>2. ~ Sent(s)
    BY <1>1, <2>1 DEF HandlerInv
  <2>3. "INVALID_TRANSACTION_KIND" \in ErrorCode
    BY DEF ErrorCode
  <2> QED
    BY <1>3, <2>1, <2>2, <2>3, RespondKept
<1>7. CASE Acknowledge(s)
  <2> DEFINE t == reply[First(s)].transaction
             a == [error |-> "none", body |-> Body(request[s], t)]
  <2>1. /\ handler[s] = "calling"
        /\ reply[First(s)].error = "none"
        /\ Respond(s, a)
    BY <1>7 DEF Acknowledge, Resumes
  <2>2. t \in Transaction(TrackingIds, Attempt)
    BY <1>1, <2>1, ReplyShape DEF SInv
  <2>3. request[s] \in ClientRequest
    BY <1>1, <2>1 DEF HandlerInv, SInv, HandlersTyped
  <2>4. a \in Answer /\ a.error = "none"
    BY <2>2, <2>3, BodyType
  <2> QED
    BY <1>4, <2>1, <2>4, RespondKept
<1>8. CASE Finish(s)
  <2> DEFINE record == reply[Record(s)]
             a == [error |-> "none", body |-> record.transaction]
  <2>1. /\ handler[s] = "recording"
        /\ pc[Record(s)] = "replied"
        /\ Respond(s, IF record.error = "none" THEN a
                      ELSE [error |-> record.error, body |-> "none"])
    BY <1>8 DEF Finish, Resumes
  <2>2. record.error = "none"
    BY <1>1, <1>2, <2>1 DEF HandlerInv, CallbackRecorded
  <2>3. a \in Answer /\ a.error = "none"
    BY <1>1, <2>2, ReplyShape DEF SInv, Answer
  <2>4. Respond(s, a)
    BY <2>1, <2>2
  <2> QED
    BY <1>4, <2>1, <2>3, <2>4, RespondKept
<1> QED
  BY <1>5, <1>6, <1>7, <1>8

LEMMA SendCallbackKept ==
  ASSUME SInv, NEW s \in Requests, SendCallback(s)
  PROVE  /\ [Proved!Next]_(Proved!vars)
         /\ HandlersTyped'
         /\ \A r \in Requests : HandlerInv(r)'
<1> DEFINE t == reply[First(s)].transaction
           cb == CallbackFor(s, request[s], t)
<1>1. /\ [Proved!Next]_(Proved!vars)
      /\ UNCHANGED << transactions, op, pc, seen, reply >>
  BY ServiceUntouched DEF SendCallback
<1>2. /\ handler[s] = "calling"
      /\ pc[First(s)] = "replied"
      /\ reply[First(s)].error = "none"
      /\ request[s].name \in {"decide", "replay"}
      /\ t.kind \in CallbackKinds(request[s].family)
      /\ sent' = [sent EXCEPT ![s] = cb]
      /\ handler' = [handler EXCEPT ![s] = "dispatching"]
      /\ Exchange!Start(s)
      /\ UNCHANGED << request, answer, published >>
  BY DEF SendCallback, Resumes
<1>3. HandlerInv(s)
  BY DEF SInv
<1>4. t \in Transaction(TrackingIds, Attempt)
  BY <1>2, CallsDistinct, ReplyShape DEF SInv
<1>5. cb \in Callback /\ cb # NoCallback
  BY <1>4, CallbackType
<1>6. HandlersTyped'
  <2>1. Exchange!TypeOK'
    BY <1>2 DEF SInv, HandlersTyped, Exchange!TypeOK, Exchange!Start
  <2> HIDE DEF cb
  <2> QED
    BY <1>2, <1>5, <2>1 DEF SInv, HandlersTyped, HandlerState
<1>7. ASSUME NEW r \in Requests
      PROVE  reply'[Record(r)].error \notin ErrorCode
  BY <1>1 DEF SInv, HandlerInv, CallbackRecorded
<1>8. ASSUME NEW r \in Requests \ {s}
      PROVE  HandlerInv(r)'
  <2>1. handler'[r] = handler[r] /\ sent'[r] = sent[r]
    BY <1>2 DEF SInv, HandlersTyped
  <2> QED
    BY <1>1, <1>2, <1>7, <2>1, Unmoved
<1>9. HandlerInv(s)'
  <2>1. handler'[s] = "dispatching" /\ sent'[s] = cb
    BY <1>2 DEF SInv, HandlersTyped
  <2>2. answer'[s].error \notin ErrorCode
    <3>1. answer'[s] = NoAnswer
      BY <1>2, <1>3 DEF HandlerInv
    <3>2. NoAnswer.error = "no answer"
      BY DEF NoAnswer
    <3> QED
      BY <3>1, <3>2 DEF ErrorCode
  <2>3. Sent(s)'
    BY <1>5, <2>1 DEF Sent
  <2>4. CallbackSent(s)'
    BY <1>1, <1>2, <2>1 DEF CallbackSent
  <2>5. op[Record(s)] = NoCall
    BY <1>2, <1>3 DEF HandlerInv, CallbackRecorded
  <2>6. CallbackRecorded(s)'
    BY <1>1, <1>7, <2>5 DEF CallbackRecorded
  <2> QED
    BY <1>1, <1>2, <1>3, <2>1, <2>2, <2>3, <2>4, <2>6 DEF HandlerInv
<1> QED
  BY <1>1, <1>6, <1>8, <1>9

LEMMA DeliverKept ==
  ASSUME SInv, NEW s \in Requests, Deliver(s)
  PROVE  /\ [Proved!Next]_(Proved!vars)
         /\ HandlersTyped'
         /\ \A r \in Requests : HandlerInv(r)'
<1>1. /\ [Proved!Next]_(Proved!vars)
      /\ UNCHANGED << transactions, op, pc, seen, reply >>
      /\ UNCHANGED << request, handler, sent, answer, published >>
  BY ServiceUntouched DEF Deliver
<1>2. HandlersTyped'
  BY <1>1 DEF SInv, HandlersTyped, Exchange!TypeOK, Deliver, Exchange!Arrive
<1>3. ASSUME NEW r \in Requests
      PROVE  HandlerInv(r)'
  <2>1. reply'[Record(r)].error \notin ErrorCode
    BY <1>1 DEF SInv, HandlerInv, CallbackRecorded
  <2> QED
    BY <1>1, <2>1, Unmoved
<1> QED
  BY <1>1, <1>2, <1>3

LEMMA EndDispatchKept ==
  ASSUME SInv, NEW s \in Requests, NEW o \in Exchange!Outcome,
         EndDispatch(s, o)
  PROVE  /\ [Proved!Next]_(Proved!vars)
         /\ HandlersTyped'
         /\ \A r \in Requests : HandlerInv(r)'
<1> DEFINE call == [name    |-> "addCallbackAttempt",
                    id      |-> sent[s].payload.id,
                    attempt |-> AttemptOf(s, o)]
<1>1. /\ handler[s] = "dispatching"
      /\ Exchange!End(s, o)
      /\ Service!Invoke(Record(s), call)
      /\ handler' = [handler EXCEPT ![s] = "recording"]
      /\ UNCHANGED << request, sent, answer, published >>
  BY DEF EndDispatch, RecordAttempt
<1>2. HandlerInv(s) /\ Sent(s)
  BY <1>1 DEF SInv, HandlerInv
<1>3. sent[s] \in Callback
  BY <1>2 DEF SInv, HandlersTyped, Sent
<1>4. call \in ServiceCall(TrackingIds, Attempt)
  <2>1. sent[s].payload.id \in TrackingIds
    BY <1>3 DEF Callback, Payload
  <2>2. AttemptOf(s, o) \in Attempt
    BY <1>3 DEF AttemptOf, Attempt, Exchange!Outcome
  <2> QED
    BY <2>1, <2>2 DEF ServiceCall, AttemptCall
<1>5. /\ call.name = "addCallbackAttempt"
      /\ call.id = sent[s].payload.id
  OBVIOUS
<1> HIDE DEF call
<1>6. /\ [Proved!Next]_(Proved!vars)
      /\ pc[Record(s)] = "idle"
      /\ op'[Record(s)] = call
      /\ \A d \in Calls \ {Record(s)} : op'[d] = op[d] /\ pc'[d] = pc[d]
      /\ reply' = reply
  BY <1>1, <1>4, CallsDistinct, InvokeFrame DEF SInv
<1>7. HandlersTyped'
  <2>1. Exchange!TypeOK'
    BY <1>1 DEF SInv, HandlersTyped, Exchange!TypeOK, Exchange!End
  <2> QED
    BY <1>1, <2>1 DEF SInv, HandlersTyped, HandlerState
<1>8. ASSUME NEW r \in Requests
      PROVE  reply'[Record(r)].error \notin ErrorCode
  BY <1>6 DEF SInv, HandlerInv, CallbackRecorded
<1>9. ASSUME NEW r \in Requests \ {s}
      PROVE  HandlerInv(r)'
  <2>1. handler'[r] = handler[r]
    BY <1>1 DEF SInv, HandlersTyped
  <2>2. /\ First(r) \in Calls \ {Record(s)}
        /\ Record(r) \in Calls \ {Record(s)}
    BY CallsDistinct
  <2> QED
    BY <1>1, <1>6, <1>8, <2>1, <2>2, Unmoved
<1>10. HandlerInv(s)'
  <2>1. handler'[s] = "recording"
    BY <1>1 DEF SInv, HandlersTyped
  <2>2. First(s) \in Calls \ {Record(s)}
    BY CallsDistinct
  <2>3. Sent(s)' /\ CallbackSent(s)'
    BY <1>1, <1>2, <1>6, <2>2 DEF Sent, HandlerInv, CallbackSent
  <2>4. CallbackRecorded(s)'
    BY <1>1, <1>5, <1>6, <1>8, <2>1, <2>3 DEF CallbackRecorded
  <2> QED
    BY <1>1, <1>2, <1>6, <2>1, <2>2, <2>3, <2>4 DEF HandlerInv
<1> QED
  BY <1>6, <1>7, <1>9, <1>10

-------------------------------------------------------------------------------
LEMMA InitSInv == Init => SInv
<1> SUFFICES ASSUME Init PROVE SInv
  OBVIOUS
<1>1. Proved!Init
  BY SameInit DEF Init
<1>2. Proved!IInv
  BY <1>1, OfferedHolds, Proved!InitInvariant
<1>3. /\ \A c \in Calls : pc[c] = "idle"
      /\ op = [c \in Calls |-> Proved!NoCall]
      /\ reply = [c \in Calls |-> Proved!NoReply]
  BY <1>1 DEF Proved!Init
<1>4. Proved!AnswersStayTrue /\ Proved!OutcomeShown
  BY <1>3 DEF Proved!AnswersStayTrue, Proved!OutcomeShown, Proved!Succeeded
<1>5. HandlersTyped
  BY DEF Init, HandlersTyped, HandlerState, Exchange!Init, Exchange!TypeOK,
         Exchange!Outcome, Exchange!Failed
<1>6. ASSUME NEW r \in Requests
      PROVE  HandlerInv(r)
  <2>1. op[First(r)] = NoCall /\ op[Record(r)] = NoCall
    BY <1>3, CallsDistinct DEF Proved!NoCall, NoCall
  <2>2. reply[Record(r)].error \notin ErrorCode
    <3>1. reply[Record(r)].error = "no reply"
      BY <1>3, CallsDistinct DEF Proved!NoReply
    <3> QED
      BY <3>1 DEF ErrorCode
  <2>3. /\ request[r] = NoRequest
        /\ handler[r] = "idle"
        /\ ~ Sent(r)
        /\ answer[r] = NoAnswer
    BY DEF Init, Sent
  <2> QED
    BY <2>1, <2>2, <2>3 DEF HandlerInv, CallbackRecorded
<1> QED
  BY <1>2, <1>4, <1>5, <1>6 DEF SInv

(* A step keeps the invariant, and is a step or a stutter of the service.  *)
LEMMA NextKept ==
  ASSUME SInv, [Next]_vars
  PROVE  SInv' /\ [Proved!Next]_(Proved!vars)
<1> DEFINE Kept == /\ [Proved!Next]_(Proved!vars)
                   /\ HandlersTyped'
                   /\ \A r \in Requests : HandlerInv(r)'
<1>1. ASSUME UNCHANGED vars PROVE Kept
  <2>1. /\ UNCHANGED << transactions, op, pc, seen, reply >>
        /\ UNCHANGED << request, handler, sent, answer, published >>
        /\ UNCHANGED << phase, arrived, outcome >>
    BY <1>1 DEF vars
  <2>2. [Proved!Next]_(Proved!vars)
    BY <2>1 DEF Proved!vars
  <2>3. HandlersTyped'
    BY <2>1 DEF SInv, HandlersTyped, Exchange!TypeOK
  <2>4. \A r \in Requests : reply'[Record(r)].error \notin ErrorCode
    BY <2>1 DEF SInv, HandlerInv, CallbackRecorded
  <2>5. \A r \in Requests : HandlerInv(r)'
    BY <2>1, <2>4, Unmoved
  <2> QED
    BY <2>2, <2>3, <2>5
<1>2. ASSUME Next PROVE Kept
  <2>1. PICK s \in Requests : \/ \E q \in ClientRequests : Receive(s, q)
                             \/ Proceed(s)
                             \/ Deliver(s)
    BY <1>2 DEF Next
  <2>2. CASE \E q \in ClientRequests : Receive(s, q)
    BY <2>2, ReceiveKept
  <2>3. CASE Proceed(s)
    BY <2>3, ServiceStepKept, AnswerKept, SendCallbackKept, EndDispatchKept
       DEF Proceed
  <2>4. CASE Deliver(s)
    BY <2>4, DeliverKept
  <2> QED
    BY <2>1, <2>2, <2>3, <2>4
<1>3. Kept
  BY <1>1, <1>2
<1> QED
  BY <1>3, ServiceKept DEF SInv

(* Every handler that got as far as a callback holds the answer of a       *)
(* successful service call, and its attempt, once sent, will be recorded.  *)
THEOREM HandlersInvariant == Spec => []SInv
<1>1. SInv /\ [Next]_vars => SInv'
  BY NextKept
<1> QED
  BY <1>1, InitSInv, PTL DEF Spec

(* Whatever requests arrive, their handlers use TransactionService as its  *)
(* specification says, so everything proved of the service holds here.     *)
THEOREM HandlersUseTheService == Spec => Proved!Spec
<1>1. Init => Proved!Init
  BY SameInit DEF Init
<1>2. SInv /\ [Next]_vars => [Proved!Next]_(Proved!vars)
  BY NextKept
<1> QED
  BY <1>1, <1>2, HandlersInvariant, PTL DEF Spec, Proved!Spec

(* The transactions the handlers share are a ledger whose calls take       *)
(* effect one at a time, whatever requests interleave.                     *)
THEOREM HandlersShareALedger == Spec => Proved!ImplementsLedger
BY HandlersUseTheService, Proved!Refinement, OfferedHolds

(* The handlers use dispatch as CallbackExchange says, one exchange for    *)
(* each request, of whose answer they see `ok` only; Dispatcher implements *)
(* that exchange, too (DispatcherProofs, DispatcherRefinesBodiless).       *)
THEOREM HandlersUseTheExchange == Spec => Exchange!Spec
<1>1. Init => Exchange!Init
  BY DEF Init
<1>2. [Next]_vars => [Exchange!Next]_(Exchange!vars)
  <2> SUFFICES ASSUME [Next]_vars
               PROVE  Exchange!Next \/ UNCHANGED exchangeVars
    BY DEF exchangeVars, Exchange!vars
  <2>1. CASE UNCHANGED vars
    BY <2>1 DEF vars, exchangeVars
  <2>2. ASSUME NEW r \in Requests,
               (\E q \in ClientRequests : Receive(r, q)) \/ ServiceStep(r)
        PROVE  UNCHANGED exchangeVars
    BY <2>2 DEF Receive, ServiceStep, httpVars, exchangeVars
  <2>3. ASSUME NEW r \in Requests,
               Fail(r) \/ RejectKind(r) \/ Acknowledge(r) \/ Finish(r)
        PROVE  UNCHANGED exchangeVars
    BY <2>3 DEF Fail, RejectKind, Acknowledge, Finish, Respond, exchangeVars
  <2>4. ASSUME NEW r \in Requests, SendCallback(r)
        PROVE  Exchange!Next
    BY <2>4 DEF SendCallback, Exchange!Next
  <2>5. ASSUME NEW r \in Requests, NEW o \in Exchange!Outcome, EndDispatch(r, o)
        PROVE  Exchange!Next
    BY <2>5 DEF EndDispatch, Exchange!Next, Exchange!EndSomehow
  <2>6. ASSUME NEW r \in Requests, Deliver(r)
        PROVE  Exchange!Next
    BY <2>6 DEF Deliver, Exchange!Next
  <2> QED
    BY <2>1, <2>2, <2>3, <2>4, <2>5, <2>6 DEF Next, Proceed
<1> QED
  BY <1>1, <1>2, PTL DEF Spec, Exchange!Spec

(* Results.                                                                *)
LEMMA SameTypes == Proved!TypeOK => Service!TypeOK
BY DEF Proved!TypeOK, Service!TypeOK, Proved!Stage, Service!Stage,
       Proved!StoredTransaction, Service!StoredTransaction,
       Proved!Transaction, Service!Transaction, Proved!TransactionKind,
       Service!TransactionKind, Proved!BusinessKinds, Service!BusinessKinds,
       Proved!TransactionStatus, Service!TransactionStatus, Proved!Result,
       Service!Result, Proved!NoResult, Service!NoResult,
       Proved!NoTransaction, Service!NoTransaction, Proved!ServiceCall,
       Service!ServiceCall, Proved!CreateCall, Service!CreateCall,
       Proved!GetCall, Service!GetCall, Proved!TransitionCall,
       Service!TransitionCall, Proved!TerminalStatus, Service!TerminalStatus,
       Proved!AttemptCall, Service!AttemptCall, Proved!NoCall,
       Service!NoCall, Proved!Reply, Service!Reply, Proved!ErrorCode,
       Service!ErrorCode, Proved!NoReply, Service!NoReply

(* Every variable of the handlers, the exchanges and the service keeps     *)
(* its type: each HTTP answer is an error, ids, a result or a transaction. *)
THEOREM SimulatorTyped == Spec => []TypeOK
<1>1. SInv => TypeOK
  BY SameTypes DEF SInv, HandlersTyped, TypeOK, Proved!IInv
<1> QED
  BY <1>1, HandlersInvariant, PTL

(* A request that announced an outcome is the call that decided it.        *)
LEMMA DecidersWin ==
  ASSUME SInv, Proved!OneWinner, NEW id \in TrackingIds,
         NEW r \in Deciders(id)
  PROVE  /\ r \in Requests
         /\ request[r].to \in TerminalStatus
         /\ First(r) \in Proved!Winners(id)
         /\ transactions[id] # NoTransaction
         /\ transactions[id].status = request[r].to
         /\ transactions[id].result = resultDetails[request[r].to]
         /\ reply[First(r)].transaction.status = request[r].to
<1>1. /\ r \in Requests
      /\ Sent(r)
      /\ request[r].name = "decide"
      /\ request[r].id = id
  BY DEF Deciders
<1>2. /\ request[r] \in ClientRequest
      /\ Proved!Succeeded(First(r))
      /\ op[First(r)] = FirstCall(request[r])
      /\ First(r) \in Calls
  BY <1>1, CallbackAbout, CallsDistinct
<1>3. /\ FirstCall(request[r]).id = id
      /\ FirstCall(request[r]).name \in TransitionNames
      /\ FirstCall(request[r]).to = request[r].to
      /\ Details(FirstCall(request[r])) = resultDetails[request[r].to]
      /\ request[r].to \in TerminalStatus
  BY <1>1, <1>2, FirstCallType
<1>4. /\ TransitionNames = Proved!TransitionNames
      /\ Proved!NoTransaction = NoTransaction
  BY DEF TransitionNames, Proved!TransitionNames, expectedKinds,
         Proved!expectedKinds, NoTransaction, Proved!NoTransaction
<1>5. \A o : Details(o) = Proved!Details(o)
  BY DEF Details, Proved!Details, NoResult, Proved!NoResult, resultDetails,
         Proved!resultDetails
<1>6. First(r) \in Proved!Winners(id)
  BY <1>2, <1>3, <1>4 DEF Proved!Winners
<1>7. /\ transactions[id] # NoTransaction
      /\ transactions[id].status = op[First(r)].to
      /\ transactions[id].result = Proved!Details(op[First(r)])
  BY <1>4, <1>6 DEF Proved!OneWinner
<1>8. reply[First(r)].transaction.status = request[r].to
  BY <1>2, <1>3, <1>4 DEF SInv, Proved!OutcomeShown
<1> QED
  BY <1>1, <1>2, <1>3, <1>5, <1>6, <1>7, <1>8

(* However many requests race to approve, fail and time out a payment, one *)
(* callback announces its outcome, and none that was refused sent any.     *)
THEOREM OneAnnouncementAlways == Spec => []OneAnnouncement
<1>1. ASSUME SInv, Proved!OneWinner
      PROVE  OneAnnouncement
  <2>1. ASSUME NEW id \in TrackingIds,
               NEW r \in Deciders(id), NEW s \in Deciders(id)
        PROVE  r = s
    <3>1. /\ r \in Requests /\ First(r) \in Proved!Winners(id)
          /\ s \in Requests /\ First(s) \in Proved!Winners(id)
      BY <1>1, <2>1, DecidersWin
    <3>2. First(r) = First(s)
      BY <1>1, <3>1 DEF Proved!OneWinner
    <3> QED
      BY <3>1, <3>2, CallsDistinct
  <2> QED
    BY <1>1, <2>1 DEF OneAnnouncement, SInv, HandlerInv
<1>2. Proved!Spec => []Proved!OneWinner
  BY OfferedHolds, Proved!OneWinnerAlways
<1> QED
  BY <1>1, <1>2, HandlersInvariant, HandlersUseTheService, PTL

(* Each announcement says the outcome the ledger holds, then and for ever, *)
(* and goes to the URL of that outcome.                                    *)
THEOREM AnnouncementsTrue == Spec => []AnnouncementsAreTrue
<1>1. ASSUME SInv, Proved!OneWinner
      PROVE  AnnouncementsAreTrue
  <2> SUFFICES ASSUME NEW id \in TrackingIds, NEW r \in Deciders(id)
               PROVE  Announces(sent[r], transactions[id])
    BY DEF AnnouncementsAreTrue
  <2> DEFINE t == reply[First(r)].transaction
             q == request[r]
  <2>1. /\ r \in Requests
        /\ q.to \in TerminalStatus
        /\ transactions[id] # NoTransaction
        /\ transactions[id].status = q.to
        /\ transactions[id].result = resultDetails[q.to]
        /\ t.status = q.to
    BY <1>1, DecidersWin
  <2>2. Sent(r) /\ q.name = "decide" /\ q.id = id
    BY DEF Deciders
  <2>3. /\ t \in Transaction(TrackingIds, Attempt)
        /\ t.trackingId = id
        /\ Proved!Extends(transactions[id], t)
        /\ q \in ClientRequest
    BY <1>1, <2>1, <2>2, CallbackAbout
  <2>4. /\ transactions[id].kind = t.kind
        /\ transactions[id].result = t.result
        /\ t.status # "PENDING"
    BY <2>1, <2>3 DEF Proved!Extends, TerminalStatus
  <2>5. /\ t.kind \in CallbackKinds(q.family)
        /\ sent[r] = CallbackFor(r, q, t)
    BY <1>1, <2>1, <2>2 DEF SInv, HandlerInv, CallbackSent
  <2>6. ShownResult(t) = t.result
    BY <2>3, <2>4, TransactionFields DEF ShownResult
  <2>7. sent[r].payload.result = t.result
    BY <2>1, <2>3, <2>5, <2>6, CallbackType
  <2>8. id # "none" /\ r # "none"
    BY <2>1, ReceiptsAssumption
  <2>9. q.family \in {"stk", "payments"}
    BY <2>2, <2>3 DEF ClientRequest
  <2>10. sent[r].payload.receipt # "none" <=> t.status = "SUCCESS"
    BY <2>1, <2>2, <2>3, <2>5, <2>8
       DEF CallbackFor, createStkCallbackPayload,
           createBusinessPaymentResultPayload,
           createBusinessPaymentTimeoutPayload
  <2>11. sent[r].url = IF t.kind = "STK" THEN "CallBackURL"
                       ELSE IF t.status = "TIMEOUT" THEN "QueueTimeOutURL"
                       ELSE "ResultURL"
    BY <2>1, <2>2, <2>5, <2>9 DEF CallbackFor, CallbackKinds, BusinessKinds
  <2> QED
    BY <2>1, <2>4, <2>7, <2>10, <2>11 DEF Announces
<1>2. Proved!Spec => []Proved!OneWinner
  BY OfferedHolds, Proved!OneWinnerAlways
<1> QED
  BY <1>1, <1>2, HandlersInvariant, HandlersUseTheService, PTL

-------------------------------------------------------------------------------
(* The callback attempts a transaction keeps are the exchanges its         *)
(* handlers made.                                                          *)

(* The second service call of r records what r sent and how that ended.    *)
RecordIsTrue(r) ==
  op[Record(r)] # NoCall =>
    /\ op[Record(r)].attempt.id = r
    /\ op[Record(r)].attempt.callback = sent[r]
    /\ op[Record(r)].attempt.ok => r \in arrived

AnsweredRecorded(r) ==
  handler[r] = "answered" /\ Sent(r) => Proved!Succeeded(Record(r))

(* Each attempt of the transaction id is that of one request's call.       *)
RecordedOnce(id) ==
  transactions[id] # NoTransaction =>
    LET a == transactions[id].callbackAttempts
    IN  /\ \A i \in 1..Len(a) :
             /\ a[i].id \in Requests
             /\ Proved!Succeeded(Record(a[i].id))
             /\ op[Record(a[i].id)].name = "addCallbackAttempt"
             /\ op[Record(a[i].id)].attempt = a[i]
        /\ \A i, j \in 1..Len(a) : a[i].id = a[j].id => i = j

AInv ==
  /\ SInv
  /\ \A r \in Requests : RecordIsTrue(r) /\ AnsweredRecorded(r)
  /\ \A id \in TrackingIds : RecordedOnce(id)

-------------------------------------------------------------------------------
(* An attempt is only recorded by the second call of a handler.            *)
LEMMA RecordersAreRecords ==
  ASSUME SInv, NEW c \in Calls, op[c].name = "addCallbackAttempt"
  PROVE  \E r \in Requests : c = Record(r) /\ op[Record(r)] # NoCall
<1>1. PICK r \in Requests : c = First(r) \/ c = Record(r)
  BY DEF Calls, First, Record
<1>2. c # First(r)
  <2> SUFFICES ASSUME c = First(r) PROVE FALSE
    OBVIOUS
  <2>1. HandlerInv(r)
    BY DEF SInv
  <2>2. NoCall.name = "none"
    BY DEF NoCall
  <2>3. request[r] # NoRequest /\ op[c] = FirstCall(request[r])
    BY <2>1, <2>2 DEF HandlerInv
  <2>4. request[r] \in ClientRequest
    BY <2>3 DEF SInv, HandlersTyped
  <2>5. request[r].name \in {"push", "pay", "query", "show", "decide",
                             "replay"}
    BY <2>4, FirstCallType
  <2>6. FirstCall(request[r]).name # "addCallbackAttempt"
    <3>1. request[r].name = "decide" =>
            FirstCall(request[r]).name \in TransitionNames
      BY <2>4, FirstCallType
    <3>2. "addCallbackAttempt" \notin TransitionNames
      BY DEF TransitionNames, expectedKinds
    <3> QED
      BY <2>5, <3>1, <3>2 DEF FirstCall
  <2> QED
    BY <2>3, <2>6
<1>3. NoCall.name # "addCallbackAttempt"
  BY DEF NoCall
<1> QED
  BY <1>1, <1>2, <1>3

(* What holds of the attempts of a transaction whatever the service does.  *)
LEMMA RecordedOnceInductive ==
  ASSUME AInv, [Proved!Next]_(Proved!vars)
  PROVE  \A id \in TrackingIds : RecordedOnce(id)'
<1>0. /\ Proved!IInv
      /\ SInv
      /\ NoTransaction = Proved!NoTransaction
  BY SameRecords DEF AInv, SInv
<1>1. ASSUME NEW id \in TrackingIds,
             transactions'[id] # NoTransaction =>
               IF transactions[id] = NoTransaction
               THEN transactions'[id].callbackAttempts = << >>
               ELSE transactions'[id].callbackAttempts =
                      transactions[id].callbackAttempts
      PROVE  RecordedOnce(id)'
  <2>1. CASE transactions[id] = NoTransaction
    BY <1>1, <2>1 DEF RecordedOnce
  <2>2. CASE transactions[id] # NoTransaction
    <3>1. RecordedOnce(id)
      BY DEF AInv
    <3> QED
      BY <1>0, <1>1, <2>2, <3>1, CallsDistinct, SucceededStays
         DEF RecordedOnce
  <2> QED
    BY <2>1, <2>2
<1>2. CASE UNCHANGED Proved!vars
  <2>1. UNCHANGED << transactions, op, pc, reply >>
    BY <1>2 DEF Proved!vars
  <2> QED
    BY <1>1, <2>1
<1>3. ASSUME NEW c \in Calls, NEW o, Proved!Invoke(c, o)
      PROVE  \A id \in TrackingIds : RecordedOnce(id)'
  BY <1>1, <1>3 DEF Proved!Invoke
<1>4. ASSUME NEW c \in Calls, Proved!Step(c)
      PROVE  \A id \in TrackingIds : RecordedOnce(id)'
  <2>1. op' = op
    BY <1>0, <1>4, OfferedHolds, Proved!StepReplies
  <2>2. \A d \in Calls : Proved!Succeeded(d) =>
          Proved!Succeeded(d)' /\ op'[d] = op[d]
    BY <1>0, SucceededStays
  <2>3. CASE ~ Proved!AddCallbackAttempt(c)
    BY <1>0, <1>1, <1>4, <2>3, OfferedHolds, Proved!OnlyAppendsRecord
  <2>4. CASE Proved!AddCallbackAttempt(c)
    <3>1. PICK i \in TrackingIds :
            /\ i = op[c].id
            /\ op[c].name = "addCallbackAttempt"
            /\ op[c].attempt \in Attempt
            /\ transactions[i] # NoTransaction
            /\ transactions[i].callbackAttempts \in Seq(Attempt)
            /\ transactions'[i].callbackAttempts =
                 Append(transactions[i].callbackAttempts, op[c].attempt)
            /\ \A id \in TrackingIds \ {i} : transactions'[id] = transactions[id]
            /\ ~ Proved!Succeeded(c)
            /\ Proved!Succeeded(c)'
      BY <1>0, <2>4, OfferedHolds, Proved!AppendRecords
    <3>2. PICK r \in Requests : c = Record(r) /\ op[c] # NoCall
      BY <1>0, <3>1, RecordersAreRecords
    <3>3. op[c].attempt.id = r
      BY <3>2 DEF AInv, RecordIsTrue
    <3>4. \A id \in TrackingIds \ {i} : RecordedOnce(id)'
      BY <1>1, <3>1
    <3>5. PICK a, e : /\ a = transactions[i].callbackAttempts
                      /\ e = op[c].attempt
      OBVIOUS
    <3> DEFINE b == Append(a, e)
    <3>6. /\ Len(b) = Len(a) + 1
          /\ b[Len(a) + 1] = e
          /\ \A k \in 1..Len(a) : b[k] = a[k]
          /\ Len(a) \in Nat
      BY <3>1, <3>5, OfferedHolds, Proved!AppendFacts
    <3>7. /\ \A k \in 1..Len(a) :
               /\ a[k].id \in Requests
               /\ Proved!Succeeded(Record(a[k].id))
               /\ op[Record(a[k].id)].name = "addCallbackAttempt"
               /\ op[Record(a[k].id)].attempt = a[k]
          /\ \A k, j \in 1..Len(a) : a[k].id = a[j].id => k = j
      <4>1. RecordedOnce(i) /\ transactions[i] # NoTransaction
        BY <3>1 DEF AInv
      <4>2. a = transactions[i].callbackAttempts
        BY <3>5
      <4> QED
        BY <4>1, <4>2, Zenon DEF RecordedOnce
    <3>8. \A k \in 1..Len(a) : a[k].id # r
      BY <3>1, <3>2, <3>7
    <3>9. transactions'[i].callbackAttempts = b
      BY <3>1, <3>5
    <3> HIDE DEF b
    <3>10. ASSUME NEW k \in 1..Len(b)
           PROVE  /\ b[k].id \in Requests
                  /\ Proved!Succeeded(Record(b[k].id))'
                  /\ op'[Record(b[k].id)].name = "addCallbackAttempt"
                  /\ op'[Record(b[k].id)].attempt = b[k]
      <4>1. CASE k \in 1..Len(a)
        <5>1. b[k] = a[k]
          BY <3>6, <4>1
        <5>2. Record(a[k].id) \in Calls
          BY <3>7, <4>1, CallsDistinct
        <5>3. PICK d \in Calls : d = Record(a[k].id)
          BY <5>2
        <5>4. Proved!Succeeded(d)' /\ op'[d] = op[d]
          BY <2>2, <3>7, <4>1, <5>3
        <5> QED
          BY <3>7, <4>1, <5>1, <5>3, <5>4
      <4>2. CASE k = Len(a) + 1
        <5>1. b[k] = e /\ e.id = r
          BY <3>3, <3>5, <3>6, <4>2
        <5>2. Record(b[k].id) = c
          BY <3>2, <5>1
        <5> QED
          BY <2>1, <3>1, <3>2, <3>5, <5>1, <5>2
      <4> QED
        BY <3>6, <4>1, <4>2
    <3>11. ASSUME NEW k \in 1..Len(b), NEW j \in 1..Len(b), b[k].id = b[j].id
           PROVE  k = j
      <4>1. b[Len(a) + 1].id = r
        BY <3>3, <3>5, <3>6
      <4>2. \A l \in 1..Len(b) : l \in 1..Len(a) \/ l = Len(a) + 1
        BY <3>6
      <4>3. CASE k \in 1..Len(a) /\ j \in 1..Len(a)
        BY <3>6, <3>7, <3>11, <4>3
      <4>4. CASE k \in 1..Len(a) /\ j = Len(a) + 1
        BY <3>6, <3>8, <3>11, <4>1, <4>4
      <4>5. CASE k = Len(a) + 1 /\ j \in 1..Len(a)
        BY <3>6, <3>8, <3>11, <4>1, <4>5
      <4> QED
        BY <4>2, <4>3, <4>4, <4>5
    <3>12. RecordedOnce(i)'
      BY <3>9, <3>10, <3>11 DEF RecordedOnce
    <3> QED
      BY <3>4, <3>12
  <2> QED
    BY <2>3, <2>4
<1> QED
  BY <1>2, <1>3, <1>4 DEF Proved!Next

-------------------------------------------------------------------------------
LEMMA AttemptsInductive ==
  ASSUME AInv, [Next]_vars
  PROVE  AInv'
<1>1. SInv /\ SInv' /\ [Proved!Next]_(Proved!vars)
  BY NextKept DEF AInv
<1>2. \A id \in TrackingIds : RecordedOnce(id)'
  BY <1>1, RecordedOnceInductive
<1>3. ASSUME NEW r \in Requests,
             op'[Record(r)] = op[Record(r)],
             op[Record(r)] # NoCall => sent'[r] = sent[r],
             arrived \subseteq arrived'
      PROVE  RecordIsTrue(r)'
  BY <1>3 DEF AInv, RecordIsTrue
<1>4. ASSUME NEW r \in Requests,
             handler'[r] = "answered" /\ Sent(r)' =>
               \/ handler[r] = "answered" /\ Sent(r)
               \/ Proved!Succeeded(Record(r))
      PROVE  AnsweredRecorded(r)'
  <2>1. Record(r) \in Calls
    BY CallsDistinct
  <2> QED
    BY <1>1, <1>4, <2>1, SucceededStays DEF AInv, SInv, AnsweredRecorded
<1>5. ASSUME UNCHANGED vars, NEW r \in Requests
      PROVE  RecordIsTrue(r)' /\ AnsweredRecorded(r)'
  BY <1>3, <1>4, <1>5 DEF vars, Sent
<1>6. ASSUME NEW s \in Requests, NEW q \in ClientRequests, Receive(s, q),
             NEW r \in Requests
      PROVE  RecordIsTrue(r)' /\ AnsweredRecorded(r)'
  <2>1. /\ op' = [op EXCEPT ![First(s)] = FirstCall(q)]
        /\ handler' = [handler EXCEPT ![s] = "calling"]
        /\ sent' = sent
        /\ arrived' = arrived
    BY <1>6 DEF Receive, Service!Invoke, exchangeVars
  <2>2. op'[Record(r)] = op[Record(r)]
    BY <1>1, <2>1, CallsDistinct DEF SInv, Proved!IInv, Proved!TypeOK
  <2>3. handler'[r] = "answered" => handler[r] = "answered"
    BY <1>1, <2>1 DEF SInv, HandlersTyped
  <2> QED
    BY <1>3, <1>4, <2>1, <2>2, <2>3 DEF Sent
<1>7. ASSUME NEW s \in Requests, ServiceStep(s), NEW r \in Requests
      PROVE  RecordIsTrue(r)' /\ AnsweredRecorded(r)'
  <2>1. op' = op /\ handler' = handler /\ sent' = sent /\ arrived' = arrived
    BY <1>1, <1>7, StepFrame, CallsDistinct
       DEF SInv, ServiceStep, httpVars, exchangeVars
  <2> QED
    BY <1>3, <1>4, <2>1 DEF Sent
<1>8. ASSUME NEW s \in Requests, NEW a, Respond(s, a),
             Sent(s) => Proved!Succeeded(Record(s)), NEW r \in Requests
      PROVE  RecordIsTrue(r)' /\ AnsweredRecorded(r)'
  <2>1. /\ op' = op /\ sent' = sent /\ arrived' = arrived
        /\ handler' = [handler EXCEPT ![s] = "answered"]
    BY <1>8 DEF Respond, serviceVars, exchangeVars
  <2>2. r # s => handler'[r] = handler[r]
    BY <1>1, <2>1 DEF SInv, HandlersTyped
  <2> QED
    BY <1>3, <1>4, <1>8, <2>1, <2>2 DEF Sent
<1>9. ASSUME NEW s \in Requests, Fail(s) \/ RejectKind(s) \/ Acknowledge(s),
             NEW r \in Requests
      PROVE  RecordIsTrue(r)' /\ AnsweredRecorded(r)'
  <2>1. handler[s] = "calling" /\ \E a : Respond(s, a)
    BY <1>9 DEF Fail, RejectKind, Acknowledge, Resumes
  <2>2. ~ Sent(s)
    BY <1>1, <2>1 DEF SInv, HandlerInv
  <2> QED
    BY <1>8, <2>1, <2>2
<1>10. ASSUME NEW s \in Requests, Finish(s), NEW r \in Requests
       PROVE  RecordIsTrue(r)' /\ AnsweredRecorded(r)'
  <2>1. pc[Record(s)] = "replied" /\ \E a : Respond(s, a)
    BY <1>10 DEF Finish, Resumes
  <2>2. reply[Record(s)].error \notin ErrorCode
    BY <1>1 DEF SInv, HandlerInv, CallbackRecorded
  <2>3. Proved!Succeeded(Record(s))
    BY <1>1, <2>1, <2>2, FailureShape, CallsDistinct DEF Proved!Succeeded
  <2> QED
    BY <1>8, <2>1, <2>3
<1>11. ASSUME NEW s \in Requests, SendCallback(s), NEW r \in Requests
       PROVE  RecordIsTrue(r)' /\ AnsweredRecorded(r)'
  <2> DEFINE cb == CallbackFor(s, request[s], reply[First(s)].transaction)
  <2>1. /\ op' = op /\ arrived' = arrived
        /\ handler[s] = "calling"
        /\ handler' = [handler EXCEPT ![s] = "dispatching"]
        /\ sent' = [sent EXCEPT ![s] = cb]
    BY <1>11 DEF SendCallback, Resumes, serviceVars, Exchange!Start
  <2> HIDE DEF cb
  <2>2. op[Record(s)] = NoCall
    BY <1>1, <2>1 DEF SInv, HandlerInv, CallbackRecorded
  <2>3. r # s => handler'[r] = handler[r] /\ sent'[r] = sent[r]
    BY <1>1, <2>1 DEF SInv, HandlersTyped
  <2>4. handler'[s] = "dispatching"
    BY <1>1, <2>1 DEF SInv, HandlersTyped
  <2> QED
    BY <1>3, <1>4, <2>1, <2>2, <2>3, <2>4 DEF Sent
<1>12. ASSUME NEW s \in Requests, Deliver(s), NEW r \in Requests
       PROVE  RecordIsTrue(r)' /\ AnsweredRecorded(r)'
  <2>1. /\ op' = op /\ handler' = handler /\ sent' = sent
        /\ arrived \subseteq arrived'
    BY <1>12 DEF Deliver, serviceVars, Exchange!Arrive
  <2> QED
    BY <1>3, <1>4, <2>1 DEF Sent
<1>13. ASSUME NEW s \in Requests, NEW o \in Exchange!Outcome,
              EndDispatch(s, o), NEW r \in Requests
       PROVE  RecordIsTrue(r)' /\ AnsweredRecorded(r)'
  <2> DEFINE call == [name    |-> "addCallbackAttempt",
                      id      |-> sent[s].payload.id,
                      attempt |-> AttemptOf(s, o)]
  <2>1. /\ op' = [op EXCEPT ![Record(s)] = call]
        /\ handler' = [handler EXCEPT ![s] = "recording"]
        /\ sent' = sent
        /\ arrived' = arrived
        /\ o # Exchange!Failed => s \in arrived
    BY <1>13 DEF EndDispatch, RecordAttempt, Service!Invoke, Exchange!End
  <2>2. /\ call.attempt.id = s
        /\ call.attempt.callback = sent[s]
        /\ call.attempt.ok = o.ok
    BY DEF AttemptOf
  <2>3. o.ok => s \in arrived
    BY <2>1 DEF Exchange!Failed
  <2> HIDE DEF call
  <2>4. op'[Record(s)] = call
    BY <1>1, <2>1, CallsDistinct DEF SInv, Proved!IInv, Proved!TypeOK
  <2>5. RecordIsTrue(s)'
    BY <2>1, <2>2, <2>3, <2>4 DEF RecordIsTrue
  <2>6. r # s => op'[Record(r)] = op[Record(r)]
    BY <1>1, <2>1, CallsDistinct DEF SInv, Proved!IInv, Proved!TypeOK
  <2>7. handler'[r] = "answered" => handler[r] = "answered"
    BY <1>1, <2>1 DEF SInv, HandlersTyped
  <2> QED
    BY <1>3, <1>4, <2>1, <2>5, <2>6, <2>7 DEF Sent
<1>14. \A r \in Requests : RecordIsTrue(r)' /\ AnsweredRecorded(r)'
  BY <1>5, <1>6, <1>7, <1>9, <1>10, <1>11, <1>12, <1>13 DEF Next, Proceed
<1> QED
  BY <1>1, <1>2, <1>14 DEF AInv

LEMMA InitAInv == Init => AInv
<1> SUFFICES ASSUME Init PROVE AInv
  OBVIOUS
<1>1. SInv /\ Proved!Init
  BY InitSInv, SameInit DEF Init
<1>2. \A id \in TrackingIds : transactions[id] = NoTransaction
  BY <1>1, SameRecords DEF Proved!Init
<1>3. \A r \in Requests : handler[r] = "idle" /\ ~ Sent(r)
  BY DEF Init, Sent
<1>4. \A r \in Requests : op[Record(r)] = NoCall
  BY <1>1, <1>3 DEF SInv, HandlerInv, CallbackRecorded
<1> QED
  BY <1>1, <1>2, <1>3, <1>4
     DEF AInv, RecordIsTrue, AnsweredRecorded, RecordedOnce

(* The attempts of each transaction come from the exchanges of its own     *)
(* requests, one each: addCallbackAttempt runs once per dispatch.          *)
THEOREM AttemptsInvariant == Spec => []AInv
BY InitAInv, AttemptsInductive, PTL DEF Spec

-------------------------------------------------------------------------------
(* As many ids as positions, if no two positions hold the same.            *)
LEMMA DistinctCount ==
  ASSUME NEW n \in Nat, NEW f, DOMAIN f = 1..n,
         \A i, j \in 1..n : f[i].id = f[j].id => i = j
  PROVE  Cardinality({f[i].id : i \in 1..n}) = n
<1> DEFINE T == {f[i].id : i \in 1..n}
           g == [i \in 1..n |-> f[i].id]
<1>1. g \in Bijection(1..n, T)
  BY DEF Bijection, Injection, Surjection, IsInjective
<1>2. ExistsBijection(1..n, T)
  BY <1>1 DEF ExistsBijection
<1>3. IsFiniteSet(1..n) /\ Cardinality(1..n) = n
  BY FS_Interval
<1> HIDE DEF T
<1>4. Cardinality(T) = Cardinality(1..n)
  BY <1>2, <1>3, FS_Bijection
<1> QED
  BY <1>3, <1>4 DEF T

(* The attempts a transaction keeps are the exchanges its handlers made,   *)
(* one each, and a successful one reached its URL.                         *)
THEOREM AttemptsTruthful == Spec => []AttemptsTellTheTruth
<1>1. ASSUME AInv, Proved!AttemptsAccounted
      PROVE  AttemptsTellTheTruth
  <2> SUFFICES ASSUME NEW id \in TrackingIds,
                      transactions[id] # NoTransaction
               PROVE  LET attempts == transactions[id].callbackAttempts
                          recorders == {attempts[i].id : i \in DOMAIN attempts}
                      IN  /\ Len(attempts) = Cardinality(recorders)
                          /\ {r \in Requests :
                                 /\ Sent(r)
                                 /\ request[r].id = id
                                 /\ handler[r] = "answered"}
                               \subseteq recorders
                          /\ \A i \in DOMAIN attempts :
                               /\ attempts[i].callback = sent[attempts[i].id]
                               /\ attempts[i].ok => attempts[i].id \in arrived
    BY DEF AttemptsTellTheTruth
  <2> DEFINE attempts == transactions[id].callbackAttempts
             n == Len(attempts)
  <2>1. SInv /\ RecordedOnce(id)
    BY <1>1 DEF AInv
  <2>2. transactions[id] \in Transaction(TrackingIds, Attempt)
    BY <2>1, SameRecords
       DEF SInv, Proved!IInv, Proved!TypeOK, Proved!StoredTransaction
  <2>3. attempts \in Seq(Attempt)
    BY <2>2 DEF Transaction
  <2>4. n \in Nat /\ DOMAIN attempts = 1..n
    BY <2>3
  <2>5. /\ \A i \in 1..n :
             /\ attempts[i].id \in Requests
             /\ op[Record(attempts[i].id)].name = "addCallbackAttempt"
             /\ op[Record(attempts[i].id)].attempt = attempts[i]
        /\ \A i, j \in 1..n : attempts[i].id = attempts[j].id => i = j
    BY <2>1 DEF RecordedOnce
  <2>6. NoCall.name # "addCallbackAttempt"
    BY DEF NoCall
  <2>7. \A i \in 1..n :
          /\ attempts[i].callback = sent[attempts[i].id]
          /\ attempts[i].ok => attempts[i].id \in arrived
    BY <1>1, <2>5, <2>6 DEF AInv, RecordIsTrue
  <2>8. ASSUME NEW r \in Requests, Sent(r), request[r].id = id,
               handler[r] = "answered"
        PROVE  \E i \in 1..n : attempts[i].id = r
    <3>1. Proved!Succeeded(Record(r)) /\ Record(r) \in Calls
      BY <1>1, <2>8, CallsDistinct DEF AInv, AnsweredRecorded
    <3>2. op[Record(r)] # NoCall
      BY <2>1, <3>1 DEF SInv, Proved!IInv, Proved!Succeeded, NoCall,
                        Proved!NoCall
    <3>3. /\ op[Record(r)].name = "addCallbackAttempt"
          /\ op[Record(r)].id = sent[r].payload.id
          /\ op[Record(r)].attempt.id = r
      BY <1>1, <2>1, <3>2
         DEF AInv, RecordIsTrue, SInv, HandlerInv, CallbackRecorded
    <3>4. sent[r].payload.id = id
      BY <2>1, <2>8, CallbackAbout
    <3>5. Record(r) \in Proved!Recorders(id)
      BY <3>1, <3>3, <3>4 DEF Proved!Recorders
    <3>6. \E i \in 1..n : attempts[i] = op[Record(r)].attempt
      BY <1>1, <3>5, SameRecords DEF Proved!AttemptsAccounted
    <3> QED
      BY <3>3, <3>6
  <2> HIDE DEF attempts, n
  <2>9. Cardinality({attempts[i].id : i \in 1..n}) = n
    BY <2>4, <2>5, DistinctCount
  <2> QED
    BY <2>4, <2>7, <2>8, <2>9 DEF attempts, n
<1>2. Proved!Spec => []Proved!AttemptsAccounted
  BY OfferedHolds, Proved!AttemptsAreAccounted
<1> QED
  BY <1>1, <1>2, AttemptsInvariant, HandlersUseTheService, PTL

-------------------------------------------------------------------------------
(* What the emulator tells an integration about its payments: Simulator    *)
(* implements Payment, and nobody who has seen an outcome is led back      *)
(* before it.                                                              *)

Settled(id) ==
  transactions[id] # NoTransaction /\ transactions[id].status # "PENDING"

(* What is said of the transaction id is its outcome, or nothing yet.      *)
SaysTrue(x, id) ==
  x = PendingResult \/ (Settled(id) /\ x = transactions[id].result)

(* An answer without error comes from a first call that succeeded; that of *)
(* a decision or a replay comes after its callback.                        *)
AnswerGiven(r) ==
  answer[r].error = "none" =>
    IF request[r].name \in {"decide", "replay"}
    THEN Sent(r)
    ELSE /\ Proved!Succeeded(First(r))
         /\ answer[r].body = Body(request[r], reply[First(r)].transaction)

OnlySentArrives(r) == phase[r] # "idle" \/ r \in arrived => Sent(r)

(* The request arrived after the outcome it is about had been published.   *)
Late(r) == request[r] # NoRequest /\ request[r].id \in published[r]

LateAnswers(r) ==
  Late(r) =>
    /\ request[r].name = "decide" =>
         /\ pc[First(r)] \notin {"found", "conflicted"}
         /\ ~ Proved!Succeeded(First(r))
    /\ Proved!Succeeded(First(r)) =>
         reply[First(r)].transaction.status # "PENDING"

Informed(r) ==
  /\ AnswerGiven(r)
  /\ OnlySentArrives(r)
  /\ \A id \in published[r] : Settled(id)
  /\ LateAnswers(r)

PInv ==
  /\ SInv
  /\ Proved!OneWinner
  /\ \A r \in Requests : Informed(r)

-------------------------------------------------------------------------------
(* What the request that made an attempt is answered.                      *)

(* The answer of a handler that sent a callback is the transaction its     *)
(* second call returned: Finish.                                           *)
AnsweredWithRecord(r) ==
  handler[r] = "answered" /\ Sent(r) =>
    answer[r].body = reply[Record(r)].transaction

(* That transaction ends with the attempt of r, and extends the one the    *)
(* callback was built from.                                                *)
RecordShown(r) ==
  Proved!Succeeded(Record(r)) =>
    LET shown == reply[Record(r)].transaction
        a     == shown.callbackAttempts
    IN  /\ a # << >> /\ a[Len(a)].id = r
        /\ Proved!Extends(shown, reply[First(r)].transaction)

RInv ==
  /\ AInv
  /\ \A r \in Requests : AnsweredWithRecord(r) /\ RecordShown(r)

LEMMA RecordShownInductive ==
  ASSUME RInv, [Proved!Next]_(Proved!vars), SInv', NEW r \in Requests
  PROVE  RecordShown(r)'
<1>0. /\ SInv
      /\ Proved!IInv
      /\ First(r) \in Calls
      /\ Record(r) \in Calls
      /\ op[Record(r)] # NoCall => CallbackSent(r) /\ Sent(r)
  BY CallsDistinct DEF RInv, AInv, SInv, HandlerInv, CallbackRecorded
<1>1. ASSUME Proved!Succeeded(Record(r))
      PROVE  RecordShown(r)'
  <2>1. reply'[Record(r)] = reply[Record(r)]
    BY <1>0, <1>1, SucceededStays
  <2>2. op[Record(r)] # NoCall
    BY <1>0, <1>1, SameRecords
       DEF Proved!IInv, Proved!Succeeded, NoCall, Proved!NoCall
  <2>3. Proved!Succeeded(First(r))
    BY <1>0, <2>2, CallbackAbout
  <2>4. reply'[First(r)] = reply[First(r)]
    BY <1>0, <2>3, SucceededStays
  <2> QED
    BY <1>1, <2>1, <2>4 DEF RInv, RecordShown, Proved!Extends
<1>2. CASE UNCHANGED Proved!vars
  BY <1>1, <1>2 DEF Proved!vars, RecordShown, Proved!Succeeded
<1>3. ASSUME ~ Proved!Succeeded(Record(r)), NEW c \in Calls, NEW o,
             Proved!Invoke(c, o)
      PROVE  RecordShown(r)'
  BY <1>0, <1>3
     DEF Proved!Invoke, Proved!IInv, Proved!TypeOK, RecordShown,
         Proved!Succeeded
<1>4. ASSUME ~ Proved!Succeeded(Record(r)), Proved!Succeeded(Record(r))',
             NEW c \in Calls, Proved!Step(c)
      PROVE  RecordShown(r)'
  <2>1. /\ pc[c] \notin {"idle", "replied"}
        /\ op' = op
        /\ \A d \in Calls \ {c} : pc'[d] = pc[d] /\ reply'[d] = reply[d]
    BY <1>0, <1>4, OfferedHolds, Proved!StepReplies
  <2>2. c = Record(r)
    BY <1>0, <1>4, <2>1 DEF Proved!Succeeded
  <2>3. op[Record(r)] # NoCall
    BY <1>0, <2>1, <2>2, SameRecords
       DEF Proved!IInv, NoCall, Proved!NoCall
  <2>4. op[c].name = "addCallbackAttempt" /\ op[c].attempt.id = r
        /\ op[c].id = request[r].id
    BY <1>0, <2>2, <2>3, CallbackAbout
       DEF RInv, AInv, RecordIsTrue, SInv, HandlerInv, CallbackRecorded
  <2>5. Proved!AddCallbackAttempt(c)
    BY <1>0, <1>4, <2>2, <2>4, OfferedHolds, Proved!OnlyAppendsRecord
  <2>6. /\ transactions[op[c].id].callbackAttempts \in Seq(Attempt)
        /\ op[c].attempt \in Attempt
        /\ transactions'[op[c].id].callbackAttempts =
             Append(transactions[op[c].id].callbackAttempts, op[c].attempt)
        /\ reply'[c].transaction = transactions'[op[c].id]
    BY <1>0, <2>5, OfferedHolds, Proved!AppendRecords
  <2> DEFINE a == transactions[op[c].id].callbackAttempts
             b == Append(a, op[c].attempt)
  <2>7. Len(b) = Len(a) + 1 /\ b[Len(a) + 1] = op[c].attempt /\ Len(a) \in Nat
    BY <2>6, OfferedHolds, Proved!AppendFacts
  <2>8. /\ reply'[First(r)] = reply[First(r)]
        /\ op'[First(r)].id = request[r].id
        /\ Proved!Succeeded(First(r))'
    <3>1. /\ Proved!Succeeded(First(r))
          /\ op[First(r)] = FirstCall(request[r])
          /\ request[r] \in ClientRequest
      BY <1>0, <2>3, CallbackAbout
    <3> QED
      BY <1>0, <2>1, <3>1, SucceededStays, FirstCallType
  <2>9. Proved!Extends(transactions'[request[r].id],
                       reply'[First(r)].transaction)
    <3>1. Proved!AnswersStayTrue'
      BY DEF SInv
    <3>2. Proved!Succeeded(First(r))' =>
            Proved!Extends(transactions'[op'[First(r)].id],
                           reply'[First(r)].transaction)
      BY <1>0, <3>1 DEF Proved!AnswersStayTrue, Proved!Extends
    <3> QED
      BY <2>8, <3>2
  <2>10. b # << >> /\ b[Len(b)].id = r
    <3>1. Len(<< >>) = 0
      OBVIOUS
    <3> HIDE DEF a, b
    <3> QED
      BY <2>4, <2>7, <3>1
  <2>11. /\ reply'[Record(r)].transaction = transactions'[request[r].id]
         /\ transactions'[request[r].id].callbackAttempts = b
    BY <2>2, <2>4, <2>6
  <2> HIDE DEF a, b
  <2> QED
    BY <2>9, <2>10, <2>11 DEF RecordShown, Proved!Extends
<1> QED
  BY <1>1, <1>2, <1>3, <1>4 DEF Proved!Next, RecordShown

LEMMA RInvInductive ==
  ASSUME RInv, [Next]_vars
  PROVE  RInv'
<1>1. /\ AInv /\ AInv' /\ SInv /\ SInv'
      /\ [Proved!Next]_(Proved!vars)
  BY AttemptsInductive, NextKept DEF RInv, AInv
<1>2. \A r \in Requests : RecordShown(r)'
  BY <1>1, RecordShownInductive
<1>3. ASSUME NEW r \in Requests,
             handler'[r] = handler[r], sent'[r] = sent[r],
             answer'[r] = answer[r]
      PROVE  AnsweredWithRecord(r)'
  <2> SUFFICES ASSUME handler[r] = "answered", Sent(r)
               PROVE  answer[r].body = reply'[Record(r)].transaction
    BY <1>3 DEF AnsweredWithRecord, Sent
  <2>1. Proved!Succeeded(Record(r))
    BY <1>1 DEF AInv, AnsweredRecorded
  <2>2. reply'[Record(r)] = reply[Record(r)]
    BY <1>1, <2>1, CallsDistinct, SucceededStays DEF SInv
  <2> QED
    BY <2>2 DEF RInv, AnsweredWithRecord
<1>4. ASSUME NEW s \in Requests, handler'[s] # "answered"
      PROVE  AnsweredWithRecord(s)'
  BY <1>4 DEF AnsweredWithRecord
<1>5. ASSUME UNCHANGED vars, NEW r \in Requests
      PROVE  AnsweredWithRecord(r)'
  BY <1>3, <1>5 DEF vars
<1>6. ASSUME NEW s \in Requests, NEW q \in ClientRequests, Receive(s, q),
             NEW r \in Requests
      PROVE  AnsweredWithRecord(r)'
  <2>1. /\ handler' = [handler EXCEPT ![s] = "calling"]
        /\ sent' = sent /\ answer' = answer
    BY <1>6 DEF Receive
  <2> QED
    BY <1>1, <1>3, <1>4, <2>1 DEF SInv, HandlersTyped
<1>7. ASSUME NEW s \in Requests, ServiceStep(s) \/ Deliver(s),
             NEW r \in Requests
      PROVE  AnsweredWithRecord(r)'
  BY <1>3, <1>7 DEF ServiceStep, Deliver, httpVars
<1>8. ASSUME NEW s \in Requests, NEW a, Respond(s, a),
             Sent(s) => a.body = reply[Record(s)].transaction,
             NEW r \in Requests
      PROVE  AnsweredWithRecord(r)'
  <2>1. /\ handler' = [handler EXCEPT ![s] = "answered"]
        /\ answer' = [answer EXCEPT ![s] = a]
        /\ sent' = sent /\ reply' = reply
    BY <1>8 DEF Respond, serviceVars
  <2>2. CASE r = s
    BY <1>1, <1>8, <2>1, <2>2
       DEF AnsweredWithRecord, Sent, SInv, HandlersTyped
  <2>3. CASE r # s
    BY <1>1, <1>3, <2>1, <2>3 DEF SInv, HandlersTyped
  <2> QED
    BY <2>2, <2>3
<1>9. ASSUME NEW s \in Requests, Fail(s) \/ RejectKind(s) \/ Acknowledge(s),
             NEW r \in Requests
      PROVE  AnsweredWithRecord(r)'
  <2>1. handler[s] = "calling" /\ \E a : Respond(s, a)
    BY <1>9 DEF Fail, RejectKind, Acknowledge, Resumes
  <2>2. ~ Sent(s)
    BY <1>1, <2>1 DEF SInv, HandlerInv
  <2> QED
    BY <1>8, <2>1, <2>2
<1>10. ASSUME NEW s \in Requests, Finish(s), NEW r \in Requests
       PROVE  AnsweredWithRecord(r)'
  <2>1. pc[Record(s)] = "replied"
    BY <1>10 DEF Finish, Resumes
  <2>2. reply[Record(s)].error \notin ErrorCode
    BY <1>1 DEF SInv, HandlerInv, CallbackRecorded
  <2>3. reply[Record(s)].error = "none"
    BY <1>1, <2>1, <2>2, FailureShape, CallsDistinct
  <2>4. Respond(s, [error |-> "none", body |-> reply[Record(s)].transaction])
    BY <1>10, <2>3 DEF Finish
  <2> QED
    BY <1>8, <2>4
<1>11. ASSUME NEW s \in Requests, SendCallback(s), NEW r \in Requests
       PROVE  AnsweredWithRecord(r)'
  <2>1. /\ handler' = [handler EXCEPT ![s] = "dispatching"]
        /\ r # s => sent'[r] = sent[r]
        /\ answer' = answer
    BY <1>1, <1>11 DEF SendCallback, SInv, HandlersTyped
  <2> QED
    BY <1>1, <1>3, <1>4, <2>1 DEF SInv, HandlersTyped
<1>12. ASSUME NEW s \in Requests, NEW o \in Exchange!Outcome,
              EndDispatch(s, o), NEW r \in Requests
       PROVE  AnsweredWithRecord(r)'
  <2>1. /\ handler' = [handler EXCEPT ![s] = "recording"]
        /\ sent' = sent /\ answer' = answer
    BY <1>12 DEF EndDispatch, RecordAttempt
  <2> QED
    BY <1>1, <1>3, <1>4, <2>1 DEF SInv, HandlersTyped
<1>13. \A r \in Requests : AnsweredWithRecord(r)'
  BY <1>5, <1>6, <1>7, <1>9, <1>10, <1>11, <1>12 DEF Next, Proceed
<1> QED
  BY <1>1, <1>2, <1>13 DEF RInv

(* Whoever decides or replays is shown the transaction with its own        *)
(* attempt as the last, nothing the ledger does not keep for ever, and, in *)
(* answer to a decision, the outcome it made (transition, sendCallback and *)
(* addCallbackAttempt, with the callback's exchange in between).           *)
THEOREM AnswersComplete == Spec => []AnswersShowTheRecord
<1>1. Init => RInv
  <2> SUFFICES ASSUME Init PROVE RInv
    OBVIOUS
  <2>1. AInv
    BY InitAInv
  <2>2. ASSUME NEW r \in Requests
        PROVE  AnsweredWithRecord(r) /\ RecordShown(r)
    <3>1. handler[r] = "idle" /\ pc[Record(r)] = "idle"
      BY CallsDistinct DEF Init, Service!Init
    <3> QED
      BY <3>1 DEF AnsweredWithRecord, RecordShown, Proved!Succeeded
  <2> QED
    BY <2>1, <2>2 DEF RInv
<1>2. RInv /\ [Next]_vars => RInv'
  BY RInvInductive
<1>3. RInv => AnswersShowTheRecord
  <2> SUFFICES ASSUME RInv, NEW r \in Requests,
                      Sent(r), answer[r].error = "none"
               PROVE  LET shown    == answer[r].body
                          attempts == shown.callbackAttempts
                      IN  /\ Service!Extends(transactions[request[r].id], shown)
                          /\ attempts # << >> /\ attempts[Len(attempts)].id = r
                          /\ request[r].name = "decide" =>
                               shown.status = request[r].to
    BY DEF AnswersShowTheRecord
  <2> DEFINE t     == reply[First(r)].transaction
             shown == reply[Record(r)].transaction
  <2>1. /\ SInv /\ AnsweredWithRecord(r) /\ RecordShown(r)
        /\ AnsweredRecorded(r) /\ HandlerInv(r)
    BY DEF RInv, AInv, SInv
  <2>2. handler[r] = "answered"
    <3>1. NoAnswer.error # "none"
      BY DEF NoAnswer
    <3> QED
      BY <2>1, <3>1 DEF HandlerInv
  <2>3. answer[r].body = shown /\ Proved!Succeeded(Record(r))
    BY <2>1, <2>2 DEF AnsweredWithRecord, AnsweredRecorded
  <2>4. /\ shown.callbackAttempts # << >>
        /\ shown.callbackAttempts[Len(shown.callbackAttempts)].id = r
        /\ Proved!Extends(shown, t)
    BY <2>1, <2>3 DEF RecordShown
  <2>5. op[Record(r)].id = request[r].id /\ Record(r) \in Calls
    <3>1. op[Record(r)] # NoCall /\ Record(r) \in Calls
      BY <2>1, <2>3, CallsDistinct, SameRecords
         DEF SInv, Proved!IInv, Proved!Succeeded, NoCall, Proved!NoCall
    <3> QED
      BY <2>1, <3>1, CallbackAbout DEF HandlerInv, CallbackRecorded
  <2>6. Proved!Extends(transactions[request[r].id], shown)
    BY <2>1, <2>3, <2>5 DEF SInv, Proved!AnswersStayTrue
  <2>7. Service!Extends(transactions[request[r].id], shown)
    BY <2>6 DEF Service!Extends, Proved!Extends, Service!NoTransaction,
                Proved!NoTransaction
  <2>8. ASSUME request[r].name = "decide"
        PROVE  shown.status = request[r].to
    <3>1. /\ Proved!Succeeded(First(r)) /\ First(r) \in Calls
          /\ op[First(r)] = FirstCall(request[r])
          /\ request[r] \in ClientRequest
      BY <2>1, CallbackAbout, CallsDistinct
    <3>2. /\ op[First(r)].name \in TransitionNames
          /\ op[First(r)].to = request[r].to
          /\ request[r].to \in TerminalStatus
      BY <2>8, <3>1, FirstCallType
    <3>3. TransitionNames = Proved!TransitionNames
      BY DEF TransitionNames, Proved!TransitionNames, expectedKinds,
             Proved!expectedKinds
    <3>4. t.status = request[r].to /\ t.status # "PENDING"
      BY <2>1, <3>1, <3>2, <3>3
         DEF SInv, Proved!OutcomeShown, TerminalStatus
    <3> QED
      BY <2>4, <3>4 DEF Proved!Extends
  <2> HIDE DEF shown
  <2> QED
    BY <2>3, <2>4, <2>7, <2>8
<1> QED
  BY <1>1, <1>2, <1>3, PTL DEF Spec

-------------------------------------------------------------------------------
(* What follows from the invariant in each state.                          *)

(* What the first call of a request returned is true of its transaction.   *)
LEMMA FirstAnswerTrue ==
  ASSUME SInv, NEW r \in Requests, Proved!Succeeded(First(r))
  PROVE  /\ request[r] \in ClientRequest
         /\ request[r].id \in TrackingIds
         /\ op[First(r)] = FirstCall(request[r])
         /\ reply[First(r)].transaction \in Transaction(TrackingIds, Attempt)
         /\ reply[First(r)].transaction.status # "PENDING" =>
              /\ Settled(request[r].id)
              /\ reply[First(r)].transaction.result =
                   transactions[request[r].id].result
              /\ reply[First(r)].transaction.result \in Result
         /\ reply[First(r)].transaction.status = "PENDING" =>
              reply[First(r)].transaction.result = NoResult
<1> DEFINE t == reply[First(r)].transaction
<1>1. HandlerInv(r) /\ First(r) \in Calls
  BY CallsDistinct DEF SInv
<1>2. t \in Transaction(TrackingIds, Attempt)
  BY <1>1, ReplyShape DEF SInv, Proved!Succeeded
<1>3. op[First(r)] # NoCall
  BY <1>1 DEF SInv, Proved!IInv, Proved!Succeeded, NoCall, Proved!NoCall
<1>4. request[r] \in ClientRequest /\ op[First(r)] = FirstCall(request[r])
  BY <1>1, <1>3 DEF HandlerInv, SInv, HandlersTyped
<1>5. request[r].id \in TrackingIds /\ op[First(r)].id = request[r].id
  BY <1>4, FirstCallType
<1>6. Proved!Extends(transactions[request[r].id], t)
  BY <1>1, <1>5 DEF SInv, Proved!AnswersStayTrue
<1>7. t.status # "PENDING" => t.result \in Result
  BY <1>2, TransactionFields
<1> QED
  BY <1>2, <1>4, <1>5, <1>6, <1>7, SameRecords, TransactionFields
     DEF Proved!Extends, Settled

LEMMA ResultsDiffer ==
  /\ PendingResult \notin Result
  /\ NoResult \notin Result
  /\ \A o \in TerminalStatus : resultDetails[o] \in Result
  /\ \A o, p \in TerminalStatus : resultDetails[o] = resultDetails[p] => o = p
<1>1. /\ resultDetails["SUCCESS"] = [code |-> "0", desc |-> "processed"]
      /\ resultDetails["FAILED"] = [code |-> "1", desc |-> "insufficient"]
      /\ resultDetails["TIMEOUT"] = [code |-> "1", desc |-> "timed out"]
  BY DEF resultDetails
<1>2. TerminalStatus = {"SUCCESS", "FAILED", "TIMEOUT"}
  BY DEF TerminalStatus, TransactionStatus
<1>3. \A o \in TerminalStatus : resultDetails[o] \in Result
  <2>1. /\ [code |-> "0", desc |-> "processed"] \in Result
        /\ [code |-> "1", desc |-> "insufficient"] \in Result
        /\ [code |-> "1", desc |-> "timed out"] \in Result
    BY DEF Result
  <2> QED
    BY <1>1, <1>2, <2>1
<1>4. PendingResult \notin Result
  <2>1. PendingResult.code = "9999"
    BY DEF PendingResult
  <2> QED
    BY <2>1 DEF Result
<1>5. NoResult \notin Result
  <2>1. NoResult.code = "undefined"
    BY DEF NoResult
  <2> QED
    BY <2>1 DEF Result
<1>6. /\ resultDetails["SUCCESS"].code = "0"
      /\ resultDetails["FAILED"].code = "1"
      /\ resultDetails["TIMEOUT"].code = "1"
      /\ resultDetails["FAILED"].desc = "insufficient"
      /\ resultDetails["TIMEOUT"].desc = "timed out"
  <2>1. /\ [code |-> "0", desc |-> "processed"].code = "0"
        /\ [code |-> "1", desc |-> "insufficient"].code = "1"
        /\ [code |-> "1", desc |-> "timed out"].code = "1"
        /\ [code |-> "1", desc |-> "insufficient"].desc = "insufficient"
        /\ [code |-> "1", desc |-> "timed out"].desc = "timed out"
    OBVIOUS
  <2> QED
    BY <1>1, <2>1
<1>7. \A o, p \in TerminalStatus : resultDetails[o] = resultDetails[p] => o = p
  BY <1>2, <1>6
<1> QED
  BY <1>3, <1>4, <1>5, <1>7

LEMMA CallbacksTrue ==
  ASSUME SInv, NEW r \in Requests, Sent(r)
  PROVE  /\ sent[r].payload.id = request[r].id
         /\ sent[r].payload.result =
              ShownResult(reply[First(r)].transaction)
         /\ SaysTrue(sent[r].payload.result, request[r].id)
<1>1. /\ Proved!Succeeded(First(r))
      /\ reply[First(r)].transaction \in Transaction(TrackingIds, Attempt)
      /\ sent[r].payload.id = request[r].id
  BY CallbackAbout
<1>2. sent[r] = CallbackFor(r, request[r], reply[First(r)].transaction)
  BY DEF SInv, HandlerInv, CallbackSent
<1>3. sent[r].payload.result = ShownResult(reply[First(r)].transaction)
  BY <1>1, <1>2, CallbackType
<1> QED
  BY <1>1, <1>3, FirstAnswerTrue, ResultsDiffer DEF SaysTrue, ShownResult

LEMMA QueriesTrue ==
  ASSUME PInv, NEW r \in Requests, answer[r].error = "none",
         request[r].name = "query"
  PROVE  /\ Proved!Succeeded(First(r))
         /\ answer[r].body =
              mapTransactionToQueryResponse(reply[First(r)].transaction)
         /\ SaysTrue(answer[r].body, request[r].id)
<1>1. /\ Proved!Succeeded(First(r))
      /\ answer[r].body = Body(request[r], reply[First(r)].transaction)
  BY DEF PInv, Informed, AnswerGiven
<1>2. answer[r].body =
        mapTransactionToQueryResponse(reply[First(r)].transaction)
  BY <1>1 DEF Body
<1> QED
  BY <1>1, <1>2, FirstAnswerTrue, ResultsDiffer
     DEF PInv, SaysTrue, mapTransactionToQueryResponse

LEMMA PublishedSettled ==
  ASSUME PInv, NEW id \in Published
  PROVE  id \in TrackingIds /\ Settled(id)
<1>1. id \in TrackingIds
  BY DEF Published
<1>2. ASSUME NEW r \in arrived, sent[r].payload.id = id,
             sent[r].payload.result # PendingResult
      PROVE  Settled(id)
  <2>1. r \in Requests
    BY DEF PInv, SInv, HandlersTyped, Exchange!TypeOK
  <2>2. Sent(r)
    BY <2>1 DEF PInv, Informed, OnlySentArrives
  <2> QED
    BY <1>2, <2>1, <2>2, CallbacksTrue DEF PInv, SaysTrue
<1>3. ASSUME NEW r \in Requests, answer[r].error = "none",
             request[r].id = id, request[r].name = "decide"
      PROVE  Settled(id)
  <2>1. Sent(r)
    BY <1>3 DEF PInv, Informed, AnswerGiven
  <2>2. r \in Deciders(id)
    BY <1>3, <2>1 DEF Deciders
  <2> QED
    BY <1>1, <2>2, DecidersWin DEF PInv, Settled, TerminalStatus
<1>4. ASSUME NEW r \in Requests, answer[r].error = "none",
             request[r].id = id, request[r].name = "query",
             answer[r].body # PendingResult
      PROVE  Settled(id)
  BY <1>4, QueriesTrue DEF SaysTrue
<1> QED
  BY <1>1, <1>2, <1>3, <1>4 DEF Published

(* The outcome of a settled transaction is one of the standard ones.       *)
LEMMA StandardResult ==
  ASSUME PInv, NEW id \in TrackingIds, Settled(id)
  PROVE  /\ transactions[id].status \in TerminalStatus
         /\ transactions[id].result = resultDetails[transactions[id].status]
<1>1. PICK c \in Proved!Winners(id) : TRUE
  BY SameRecords DEF PInv, Proved!OneWinner, Settled
<1>2. /\ c \in Calls
      /\ Proved!Succeeded(c)
      /\ op[c].name \in Proved!TransitionNames
  BY DEF Proved!Winners
<1>3. PICK r \in Requests : c = First(r) \/ c = Record(r)
  BY <1>2 DEF Calls, First, Record
<1>4. c = First(r)
  <2>1. op[Record(r)] # NoCall => op[Record(r)].name = "addCallbackAttempt"
    BY DEF PInv, SInv, HandlerInv, CallbackRecorded
  <2>2. /\ NoCall.name \notin Proved!TransitionNames
        /\ "addCallbackAttempt" \notin Proved!TransitionNames
    BY DEF NoCall, Proved!TransitionNames, Proved!expectedKinds
  <2> QED
    BY <1>2, <1>3, <2>1, <2>2
<1>5. request[r] \in ClientRequest /\ op[c] = FirstCall(request[r])
  BY <1>2, <1>4, FirstAnswerTrue DEF PInv
<1>6. request[r].name = "decide"
  <2>1. request[r].name \in {"push", "pay", "query", "show", "decide",
                             "replay"}
    BY <1>5, FirstCallType
  <2> QED
    BY <1>2, <1>5, <2>1
       DEF FirstCall, Proved!TransitionNames, Proved!expectedKinds
<1>7. /\ op[c].to \in TerminalStatus
      /\ Details(op[c]) = resultDetails[op[c].to]
  BY <1>5, <1>6, FirstCallType
<1>8. Details(op[c]) = Proved!Details(op[c])
  BY DEF Details, Proved!Details, NoResult, Proved!NoResult, resultDetails,
         Proved!resultDetails
<1> QED
  BY <1>1, <1>7, <1>8 DEF PInv, Proved!OneWinner

-------------------------------------------------------------------------------
(* The invariant, step by step.                                            *)

LEMMA OutcomesStay ==
  ASSUME SInv, [Proved!Next]_(Proved!vars), NEW id \in TrackingIds, Settled(id)
  PROVE  Settled(id)' /\ transactions'[id].result = transactions[id].result
<1>1. Proved!Extends(transactions'[id], transactions[id])
  BY OfferedHolds, Proved!NextKeepsInvariant, SameRecords DEF SInv, Settled
<1> QED
  BY <1>1, SameRecords DEF Proved!Extends, Settled

(* A request that neither gets an answer nor sends anything stays informed *)
(* while its first call waits.                                             *)
LEMMA Undisturbed ==
  ASSUME PInv, [Proved!Next]_(Proved!vars), NEW r \in Requests,
         request'[r] = request[r], sent'[r] = sent[r],
         answer'[r] = answer[r], published'[r] = published[r],
         phase'[r] # "idle" \/ r \in arrived' =>
           phase[r] # "idle" \/ r \in arrived,
         pc'[First(r)] = pc[First(r)], reply'[First(r)] = reply[First(r)]
  PROVE  Informed(r)'
<1>1. Informed(r) /\ published[r] \subseteq TrackingIds
  BY DEF PInv, SInv, HandlersTyped
<1>2. Proved!Succeeded(First(r))' <=> Proved!Succeeded(First(r))
  BY DEF Proved!Succeeded
<1>3. Sent(r)' <=> Sent(r)
  BY DEF Sent
<1>4. AnswerGiven(r)'
  BY <1>1, <1>2, <1>3 DEF Informed, AnswerGiven
<1>5. OnlySentArrives(r)'
  BY <1>1, <1>3 DEF Informed, OnlySentArrives
<1>6. \A id \in published'[r] : Settled(id)'
  BY <1>1, OutcomesStay DEF PInv, Informed
<1>7. LateAnswers(r)'
  BY <1>1, <1>2 DEF Informed, LateAnswers, Late
<1> QED
  BY <1>4, <1>5, <1>6, <1>7 DEF Informed

LEMMA ReceiveInformed ==
  ASSUME PInv, NEW s \in Requests, NEW q \in ClientRequests, Receive(s, q),
         NEW r \in Requests
  PROVE  Informed(r)'
<1>1. [Proved!Next]_(Proved!vars)
  BY ReceiveKept DEF PInv
<1>2. q \in ClientRequest /\ FirstCall(q) \in ServiceCall(TrackingIds, Attempt)
  BY ClientRequestsAssumption, FirstCallType
<1>3. /\ \A d \in Calls \ {First(s)} : pc'[d] = pc[d]
      /\ pc'[First(s)] = "invoked"
      /\ reply' = reply
  BY <1>2, CallsDistinct, InvokeFrame DEF Receive, PInv, SInv
<1>4. /\ handler[s] = "idle"
      /\ request' = [request EXCEPT ![s] = q]
      /\ published' = [published EXCEPT ![s] = Published]
      /\ UNCHANGED << sent, phase, arrived, answer, transactions >>
  BY DEF Receive, exchangeVars, Service!Invoke
<1>5. CASE r # s
  <2>1. request'[r] = request[r] /\ published'[r] = published[r]
    BY <1>4, <1>5 DEF PInv, SInv, HandlersTyped
  <2>2. First(r) \in Calls \ {First(s)}
    BY <1>5, CallsDistinct
  <2> QED
    BY <1>1, <1>3, <1>4, <2>1, <2>2, Undisturbed
<1>6. CASE r = s
  <2>1. /\ ~ Sent(s)
        /\ answer[s] = NoAnswer
    BY <1>4 DEF PInv, SInv, HandlerInv
  <2>2. answer'[s].error # "none"
    <3>1. NoAnswer.error = "no answer"
      BY DEF NoAnswer
    <3> QED
      BY <1>4, <2>1, <3>1
  <2>3. AnswerGiven(s)'
    BY <2>2 DEF AnswerGiven
  <2>4. OnlySentArrives(s)'
    BY <1>4, <2>1 DEF PInv, Informed, OnlySentArrives, Sent
  <2>5. published'[s] = Published
    BY <1>4 DEF PInv, SInv, HandlersTyped
  <2>6. \A id \in published'[s] : Settled(id)'
    BY <1>4, <2>5, PublishedSettled DEF Settled
  <2>7. LateAnswers(s)'
    BY <1>3 DEF LateAnswers, Proved!Succeeded
  <2> QED
    BY <1>6, <2>3, <2>4, <2>6, <2>7 DEF Informed
<1> QED
  BY <1>5, <1>6

LEMMA ServiceStepInformed ==
  ASSUME PInv, NEW s \in Requests, ServiceStep(s), NEW r \in Requests
  PROVE  Informed(r)'
<1>1. PICK c \in {First(s), Record(s)} : Service!Step(c)
  BY DEF ServiceStep
<1>2. c \in Calls
  BY CallsDistinct
<1>3. /\ [Proved!Next]_(Proved!vars)
      /\ pc[c] \notin {"idle", "replied"}
      /\ op' = op
      /\ \A d \in Calls \ {c} : pc'[d] = pc[d] /\ reply'[d] = reply[d]
  BY <1>1, <1>2, StepFrame DEF PInv, SInv
<1>4. UNCHANGED << request, sent, answer, published, phase, arrived >>
  BY DEF ServiceStep, httpVars, exchangeVars
<1>5. CASE First(r) # c
  <2>1. First(r) \in Calls \ {c}
    BY <1>5, CallsDistinct
  <2> QED
    BY <1>3, <1>4, <2>1, Undisturbed
<1>6. CASE First(r) = c
  <2>1. Informed(r) /\ HandlerInv(r) /\ published[r] \subseteq TrackingIds
    BY DEF PInv, SInv, HandlersTyped
  <2>2. ~ Proved!Succeeded(c)
    BY <1>3 DEF Proved!Succeeded
  <2>3. AnswerGiven(r)'
    BY <1>4, <1>6, <2>1, <2>2 DEF Informed, AnswerGiven, Sent
  <2>4. OnlySentArrives(r)'
    BY <1>4, <2>1 DEF Informed, OnlySentArrives, Sent
  <2>5. \A id \in published'[r] : Settled(id)'
    BY <1>3, <1>4, <2>1, OutcomesStay DEF PInv, Informed
  <2>6. ASSUME Late(r)
        PROVE  /\ request[r].name = "decide" =>
                    /\ pc'[c] \notin {"found", "conflicted"}
                    /\ ~ Proved!Succeeded(c)'
               /\ Proved!Succeeded(c)' =>
                    reply'[c].transaction.status # "PENDING"
    <3>1. request[r] # NoRequest /\ Settled(request[r].id)
      BY <2>1, <2>6 DEF Late, Informed
    <3>2. request[r] \in ClientRequest /\ op[c] = FirstCall(request[r])
      BY <1>6, <2>1, <3>1 DEF PInv, SInv, HandlersTyped, HandlerInv
    <3>3. /\ op[c].id = request[r].id
          /\ request[r].name \in {"push", "pay", "query", "show", "decide",
                                  "replay"}
          /\ request[r].name = "decide" => op[c].name \in TransitionNames
      BY <3>2, FirstCallType
    <3>4. TransitionNames = Proved!TransitionNames
      BY DEF TransitionNames, Proved!TransitionNames, expectedKinds,
             Proved!expectedKinds
    <3>5. pc[c] \notin {"found", "conflicted"}
      <4>1. CASE request[r].name = "decide"
        BY <1>6, <2>1, <2>6, <4>1 DEF Informed, LateAnswers
      <4>2. CASE request[r].name # "decide"
        <5>1. op[c].name \notin Proved!TransitionNames
          BY <3>2, <3>3, <4>2
             DEF FirstCall, Proved!TransitionNames, Proved!expectedKinds
        <5> QED
          BY <1>2, <5>1
             DEF PInv, SInv, Proved!IInv, Proved!TransitionUnderWay
      <4> QED
        BY <4>1, <4>2
    <3>6. /\ Proved!Current(c) # Proved!NoTransaction
          /\ Proved!Current(c).status # "PENDING"
      BY <3>1, <3>3, SameRecords DEF Settled, Proved!Current
    <3>7. /\ op[c].name \in Proved!TransitionNames =>
               pc'[c] = "replied" /\ ~ Proved!Succeeded(c)'
          /\ Proved!Succeeded(c)' =>
               reply'[c].transaction.status # "PENDING"
      BY <1>1, <1>2, <3>5, <3>6, OfferedHolds, SameStep,
         Proved!SettledRefuses
         DEF PInv, SInv
    <3> QED
      BY <3>3, <3>4, <3>7
  <2>7. LateAnswers(r)'
    BY <1>4, <1>6, <2>6 DEF LateAnswers, Late
  <2> QED
    BY <2>3, <2>4, <2>5, <2>7 DEF Informed
<1> QED
  BY <1>5, <1>6

LEMMA RespondInformed ==
  ASSUME PInv, NEW s \in Requests, NEW a, Respond(s, a),
         handler[s] \notin {"idle", "answered"},
         a.error = "none" =>
           IF request[s].name \in {"decide", "replay"}
           THEN Sent(s)
           ELSE /\ Proved!Succeeded(First(s))
                /\ a.body = Body(request[s], reply[First(s)].transaction),
         NEW r \in Requests
  PROVE  Informed(r)'
<1>1. /\ [Proved!Next]_(Proved!vars)
      /\ UNCHANGED << transactions, op, pc, seen, reply >>
  BY ServiceUntouched DEF Respond
<1>2. /\ answer' = [answer EXCEPT ![s] = a]
      /\ UNCHANGED << request, sent, published, phase, arrived >>
  BY DEF Respond, exchangeVars
<1>3. CASE r # s
  <2>1. answer'[r] = answer[r]
    BY <1>2, <1>3 DEF PInv, SInv, HandlersTyped
  <2> QED
    BY <1>1, <1>2, <2>1, Undisturbed
<1>4. CASE r = s
  <2>1. answer'[s] = a
    BY <1>2 DEF PInv, SInv, HandlersTyped
  <2>2. AnswerGiven(s)'
    BY <1>1, <1>2, <2>1 DEF AnswerGiven, Sent, Proved!Succeeded
  <2>3. Informed(s)
    BY DEF PInv
  <2> QED
    BY <1>1, <1>2, <1>4, <2>2, <2>3
       DEF Informed, OnlySentArrives, Sent, Settled, LateAnswers, Late,
           Proved!Succeeded
<1> QED
  BY <1>3, <1>4

LEMMA AnswerInformed ==
  ASSUME PInv, NEW s \in Requests,
         Fail(s) \/ RejectKind(s) \/ Acknowledge(s) \/ Finish(s),
         NEW r \in Requests
  PROVE  Informed(r)'
<1>1. CASE Fail(s)
  <2>1. /\ handler[s] = "calling"
        /\ reply[First(s)].error # "none"
        /\ Respond(s, [error |-> reply[First(s)].error, body |-> "none"])
    BY <1>1 DEF Fail, Resumes
  <2> QED
    BY <2>1, RespondInformed
<1>2. CASE RejectKind(s)
  <2>1. /\ handler[s] = "calling"
        /\ Respond(s, [error |-> "INVALID_TRANSACTION_KIND",
                       body  |-> "none"])
    BY <1>2 DEF RejectKind, Resumes
  <2> QED
    BY <2>1, RespondInformed
<1>3. CASE Acknowledge(s)
  <2>1. /\ handler[s] = "calling"
        /\ Proved!Succeeded(First(s))
        /\ request[s].name \in {"push", "pay", "query", "show"}
        /\ Respond(s, [error |-> "none",
                       body  |-> Body(request[s],
                                      reply[First(s)].transaction)])
    BY <1>3 DEF Acknowledge, Resumes, Proved!Succeeded
  <2> QED
    BY <2>1, RespondInformed
<1>4. CASE Finish(s)
  <2>1. handler[s] = "recording" /\ \E a : Respond(s, a)
    BY <1>4 DEF Finish, Resumes
  <2>2. Sent(s) /\ request[s].name \in {"decide", "replay"}
    BY <2>1 DEF PInv, SInv, HandlerInv, CallbackSent
  <2> QED
    BY <2>1, <2>2, RespondInformed
<1> QED
  BY <1>1, <1>2, <1>3, <1>4

LEMMA SendCallbackInformed ==
  ASSUME PInv, NEW s \in Requests, SendCallback(s), NEW r \in Requests
  PROVE  Informed(r)'
<1> DEFINE cb == CallbackFor(s, request[s], reply[First(s)].transaction)
<1>1. /\ [Proved!Next]_(Proved!vars)
      /\ UNCHANGED << transactions, op, pc, seen, reply >>
  BY ServiceUntouched DEF SendCallback
<1>2. /\ handler[s] = "calling"
      /\ sent' = [sent EXCEPT ![s] = cb]
      /\ phase' = [phase EXCEPT ![s] = "open"]
      /\ UNCHANGED << request, answer, published, arrived >>
  BY DEF SendCallback, Resumes, Exchange!Start
<1>3. cb # NoCallback
  BY CallsDistinct, ReplyShape, CallbackType DEF SendCallback, PInv, SInv
<1> HIDE DEF cb
<1>4. CASE r # s
  <2>1. sent'[r] = sent[r] /\ phase'[r] = phase[r]
    BY <1>2, <1>4 DEF PInv, SInv, HandlersTyped, Exchange!TypeOK
  <2> QED
    BY <1>1, <1>2, <2>1, Undisturbed
<1>5. CASE r = s
  <2>1. sent'[s] = cb
    BY <1>2 DEF PInv, SInv, HandlersTyped
  <2>2. Sent(s)'
    BY <1>3, <2>1 DEF Sent
  <2>3. answer[s] = NoAnswer
    BY <1>2 DEF PInv, SInv, HandlerInv
  <2>4. answer'[s].error # "none"
    <3>1. NoAnswer.error = "no answer"
      BY DEF NoAnswer
    <3> QED
      BY <1>2, <2>3, <3>1
  <2>5. Informed(s)
    BY DEF PInv
  <2> QED
    BY <1>1, <1>2, <1>5, <2>2, <2>4, <2>5
       DEF Informed, AnswerGiven, OnlySentArrives, Settled, LateAnswers,
           Late, Proved!Succeeded
<1> QED
  BY <1>4, <1>5

LEMMA DeliverInformed ==
  ASSUME PInv, NEW s \in Requests, Deliver(s), NEW r \in Requests
  PROVE  Informed(r)'
<1>1. /\ [Proved!Next]_(Proved!vars)
      /\ UNCHANGED << transactions, op, pc, seen, reply >>
  BY ServiceUntouched DEF Deliver
<1>2. /\ phase[s] # "idle"
      /\ arrived' = arrived \cup {s}
      /\ UNCHANGED << request, sent, answer, published, phase >>
  BY DEF Deliver, Exchange!Arrive
<1> QED
  BY <1>1, <1>2, Undisturbed

LEMMA EndDispatchInformed ==
  ASSUME PInv, NEW s \in Requests, NEW o \in Exchange!Outcome,
         EndDispatch(s, o), NEW r \in Requests
  PROVE  Informed(r)'
<1>1. [Proved!Next]_(Proved!vars)
  BY EndDispatchKept DEF PInv
<1>2. /\ pc' = [pc EXCEPT ![Record(s)] = "invoked"]
      /\ phase[s] = "open"
      /\ phase' = [phase EXCEPT ![s] = "ended"]
      /\ UNCHANGED << reply, arrived, request, sent, answer, published >>
  BY DEF EndDispatch, RecordAttempt, Service!Invoke, Exchange!End
<1>3. pc'[First(r)] = pc[First(r)]
  BY <1>2, CallsDistinct DEF PInv, SInv, Proved!IInv, Proved!TypeOK
<1>4. phase'[r] # "idle" => phase[r] # "idle"
  BY <1>2 DEF PInv, SInv, HandlersTyped, Exchange!TypeOK
<1> QED
  BY <1>1, <1>2, <1>3, <1>4, Undisturbed

LEMMA PInvInductive ==
  ASSUME PInv, [Next]_vars
  PROVE  PInv' /\ [Proved!Next]_(Proved!vars)
<1>1. SInv' /\ [Proved!Next]_(Proved!vars)
  BY NextKept DEF PInv
<1>2. Proved!OneWinner'
  BY <1>1, OfferedHolds, Proved!OneWinnerInductive DEF PInv, SInv
<1>3. ASSUME UNCHANGED vars, NEW r \in Requests
      PROVE  Informed(r)'
  BY <1>1, <1>3, Undisturbed DEF vars
<1>4. ASSUME Next, NEW r \in Requests
      PROVE  Informed(r)'
  <2>1. PICK s \in Requests : \/ \E q \in ClientRequests : Receive(s, q)
                             \/ Proceed(s)
                             \/ Deliver(s)
    BY <1>4 DEF Next
  <2>2. CASE \E q \in ClientRequests : Receive(s, q)
    BY <2>2, ReceiveInformed
  <2>3. CASE Proceed(s)
    BY <2>3, ServiceStepInformed, AnswerInformed, SendCallbackInformed,
       EndDispatchInformed
       DEF Proceed
  <2>4. CASE Deliver(s)
    BY <2>4, DeliverInformed
  <2> QED
    BY <2>1, <2>2, <2>3, <2>4
<1> QED
  BY <1>1, <1>2, <1>3, <1>4 DEF PInv

(* What callbacks and query answers say of a payment is its outcome, or    *)
(* that it is pending; the latter to no request that arrived after the     *)
(* outcome had been published (CallbackService, StkService.query).         *)
THEOREM PaymentsInvariant == Spec => []PInv
<1>1. Init => PInv
  <2> SUFFICES ASSUME Init PROVE PInv
    OBVIOUS
  <2>1. SInv /\ Proved!Init
    BY InitSInv, SameInit DEF Init
  <2>2. Proved!OneWinner
    BY <2>1 DEF Proved!Init, Proved!OneWinner, Proved!Winners,
                Proved!Succeeded
  <2>3. NoAnswer.error = "no answer"
    BY DEF NoAnswer
  <2>4. ASSUME NEW r \in Requests
        PROVE  Informed(r)
    <3>1. /\ answer[r] = NoAnswer
          /\ phase[r] = "idle"
          /\ arrived = {}
          /\ published[r] = {}
      BY DEF Init, Exchange!Init
    <3> QED
      BY <2>3, <3>1
         DEF Informed, AnswerGiven, OnlySentArrives, LateAnswers, Late
  <2> QED
    BY <2>1, <2>2, <2>4 DEF PInv
<1>2. PInv /\ [Next]_vars => PInv'
  BY PInvInductive
<1> QED
  BY <1>1, <1>2, PTL DEF Spec

(* A request that arrives after an outcome was published is never told the *)
(* payment is pending, and never decides it again.                         *)
THEOREM NobodyLedBack == Spec => []NoStepBack
<1>1. ASSUME PInv
      PROVE  NoStepBack
  <2> SUFFICES ASSUME NEW r \in Requests, Late(r)
               PROVE  /\ request[r].name = "query" /\ answer[r].error = "none"
                           => answer[r].body # PendingResult
                      /\ request[r].name = "decide" => ~ Sent(r)
                      /\ Sent(r) => sent[r].payload.result # PendingResult
    BY DEF NoStepBack, Late
  <2>1. SInv /\ LateAnswers(r)
    BY <1>1 DEF PInv, Informed
  <2>2. CASE request[r].name = "query" /\ answer[r].error = "none"
    <3>1. /\ Proved!Succeeded(First(r))
          /\ answer[r].body =
               mapTransactionToQueryResponse(reply[First(r)].transaction)
      BY <1>1, <2>2, QueriesTrue
    <3>2. reply[First(r)].transaction.status # "PENDING"
      BY <2>1, <3>1 DEF LateAnswers
    <3>3. answer[r].body \in Result
      BY <2>1, <3>1, <3>2, FirstAnswerTrue DEF mapTransactionToQueryResponse
    <3>4. ~ Sent(r)
      <4>1. Sent(r) => request[r].name \in {"decide", "replay"}
        BY <2>1 DEF SInv, HandlerInv, CallbackSent
      <4> QED
        BY <2>2, <4>1
    <3> QED
      BY <2>2, <3>3, <3>4, ResultsDiffer
  <2>3. CASE Sent(r)
    <3>1. /\ Proved!Succeeded(First(r))
          /\ sent[r].payload.result =
               ShownResult(reply[First(r)].transaction)
      BY <2>1, <2>3, CallbackAbout, CallbacksTrue
    <3>2. reply[First(r)].transaction.status # "PENDING"
      BY <2>1, <3>1 DEF LateAnswers
    <3>3. sent[r].payload.result \in Result
      BY <2>1, <3>1, <3>2, FirstAnswerTrue, ResultsDiffer DEF ShownResult
    <3>4. request[r].name \in {"decide", "replay"}
      BY <2>1, <2>3 DEF SInv, HandlerInv, CallbackSent
    <3> QED
      BY <2>1, <3>1, <3>3, <3>4, ResultsDiffer DEF LateAnswers
  <2> QED
    BY <2>2, <2>3
<1> QED
  BY <1>1, PaymentsInvariant, PTL
-------------------------------------------------------------------------------
(* Simulator implements Payment.                                           *)

Verdict ==
  [id \in TrackingIds |->
     IF transactions[id] = NoTransaction THEN "none"
     ELSE IF transactions[id].status = "PENDING" THEN "open"
     ELSE transactions[id].status]

Told ==
  [id \in TrackingIds |->
     {o \in TerminalStatus : resultDetails[o] \in Said(id)}]

Answered(r, id) ==
  /\ request[r].name = "query"
  /\ request[r].id = id
  /\ answer[r].error = "none"

Heard(x, id) ==
  \/ \E r \in arrived :
       sent[r].payload.id = id /\ x = sent[r].payload.result
  \/ \E r \in Requests : Answered(r, id) /\ x = answer[r].body

PaymentMoves == [PaymentPromise!Next]_(PaymentPromise!vars)

LEMMA HeardSaid ==
  \A x, id : /\ x \in Said(id) <=> Heard(x, id)
             /\ (x \in Said(id))' <=> Heard(x, id)'
BY DEF Said, Heard, Answered

(* The four kinds of step of Payment, by the two mapped variables.         *)
LEMMA Moves ==
  /\ Verdict' = Verdict /\ Told' = Told => PaymentMoves
  /\ \A id \in TrackingIds :
       \/ /\ Verdict[id] = "none"
          /\ Verdict' = [Verdict EXCEPT ![id] = "open"]
          /\ Told' = Told
       \/ \E o \in TerminalStatus :
            /\ Verdict[id] = "open"
            /\ Verdict' = [Verdict EXCEPT ![id] = o]
            /\ Told' = Told
       \/ /\ Verdict[id] \in TerminalStatus
          /\ Told' = [Told EXCEPT ![id] = @ \cup {Verdict[id]}]
          /\ Verdict' = Verdict
       => PaymentMoves
<1>1. PaymentPromise!TerminalStatus = TerminalStatus
  BY DEF PaymentPromise!TerminalStatus, PaymentPromise!TransactionStatus,
         TerminalStatus, TransactionStatus
<1>2. Verdict' = Verdict /\ Told' = Told => PaymentMoves
  BY DEF PaymentMoves, PaymentPromise!vars, Verdict, Told
<1>3. ASSUME NEW id \in TrackingIds,
             Verdict[id] = "none",
             Verdict' = [Verdict EXCEPT ![id] = "open"], Told' = Told
      PROVE  PaymentPromise!Open(id)
  BY <1>3 DEF PaymentPromise!Open, Verdict, Told
<1>4. ASSUME NEW id \in TrackingIds, NEW o \in TerminalStatus,
             Verdict[id] = "open",
             Verdict' = [Verdict EXCEPT ![id] = o], Told' = Told
      PROVE  PaymentPromise!Decide(id, o)
  BY <1>4 DEF PaymentPromise!Decide, Verdict, Told
<1>5. ASSUME NEW id \in TrackingIds,
             Verdict[id] \in TerminalStatus,
             Told' = [Told EXCEPT ![id] = @ \cup {Verdict[id]}],
             Verdict' = Verdict
      PROVE  PaymentPromise!Tell(id)
  BY <1>1, <1>5 DEF PaymentPromise!Tell, Verdict, Told
<1>6. PaymentPromise!Next <=>
        \E id \in TrackingIds :
          \/ PaymentPromise!Open(id)
          \/ \E o \in TerminalStatus : PaymentPromise!Decide(id, o)
          \/ PaymentPromise!Tell(id)
  BY <1>1 DEF PaymentPromise!Next
<1> QED
  BY <1>2, <1>3, <1>4, <1>5, <1>6 DEF PaymentMoves

(* Nothing new is heard.                                                   *)
LEMMA ToldStays ==
  ASSUME \A x, id : Heard(x, id)' <=> Heard(x, id)
  PROVE  Told' = Told
<1>1. \A x, id : (x \in Said(id))' <=> x \in Said(id)
  BY HeardSaid
<1> QED
  BY <1>1 DEF Told

(* Something is heard of one transaction, and it is true.                  *)
LEMMA TrueTelling ==
  ASSUME PInv, UNCHANGED transactions,
         NEW id \in TrackingIds, NEW y, SaysTrue(y, id),
         \A x, i : Heard(x, i)' <=> Heard(x, i) \/ (i = id /\ x = y)
  PROVE  PaymentMoves
<1>1. Verdict' = Verdict
  BY DEF Verdict
<1>2. \A x, i : (x \in Said(i))' <=> x \in Said(i) \/ (i = id /\ x = y)
  BY HeardSaid
<1>3. CASE y = PendingResult
  <2>1. Told' = Told
    BY <1>2, <1>3, ResultsDiffer DEF Told
  <2> QED
    BY <1>1, <2>1, Moves
<1>4. CASE Settled(id) /\ y = transactions[id].result
  <2>1. /\ transactions[id].status \in TerminalStatus
        /\ y = resultDetails[transactions[id].status]
    BY <1>4, StandardResult
  <2>2. Verdict[id] = transactions[id].status
    BY <1>4 DEF Verdict, Settled
  <2>3. \A o \in TerminalStatus :
          resultDetails[o] = y <=> o = Verdict[id]
    BY <2>1, <2>2, ResultsDiffer
  <2>4. Told' = [Told EXCEPT ![id] = @ \cup {Verdict[id]}]
    <3>1. ASSUME NEW i \in TrackingIds
          PROVE  Told'[i] = IF i = id THEN Told[id] \cup {Verdict[id]}
                            ELSE Told[i]
      BY <1>2, <2>1, <2>2, <2>3 DEF Told
    <3> QED
      BY <3>1 DEF Told
  <2> QED
    BY <1>1, <2>1, <2>2, <2>4, Moves
<1> QED
  BY <1>3, <1>4 DEF SaysTrue

LEMMA ServiceStepPays ==
  ASSUME PInv, NEW s \in Requests, ServiceStep(s)
  PROVE  PaymentMoves
<1>1. PICK c \in {First(s), Record(s)} : Service!Step(c)
  BY DEF ServiceStep
<1>2. c \in Calls
  BY CallsDistinct
<1>3. UNCHANGED << request, sent, answer, arrived >>
  BY DEF ServiceStep, httpVars, exchangeVars
<1>4. Told' = Told
  BY <1>3, ToldStays DEF Heard, Answered
<1>5. \/ \A id \in TrackingIds : Proved!KeepsStatus(id)
      \/ \E i \in TrackingIds :
           /\ Proved!Opens(i) \/ Proved!Settles(i)
           /\ \A id \in TrackingIds \ {i} : Proved!KeepsStatus(id)
  BY <1>1, <1>2, OfferedHolds, SameStep, Proved!StepMoves DEF PInv, SInv
<1>6. /\ Proved!NoTransaction = NoTransaction
      /\ Proved!TerminalStatus = TerminalStatus
      /\ "PENDING" \notin TerminalStatus
  BY DEF Proved!NoTransaction, NoTransaction, Proved!TerminalStatus,
         Proved!TransactionStatus, TerminalStatus, TransactionStatus
<1>7. ASSUME NEW id \in TrackingIds, Proved!KeepsStatus(id)
      PROVE  Verdict'[id] = Verdict[id]
  BY <1>6, <1>7 DEF Proved!KeepsStatus, Verdict
<1>8. CASE \A id \in TrackingIds : Proved!KeepsStatus(id)
  <2>1. Verdict' = Verdict
    BY <1>7, <1>8 DEF Verdict
  <2> QED
    BY <1>4, <2>1, Moves
<1>9. ASSUME NEW i \in TrackingIds, Proved!Opens(i) \/ Proved!Settles(i),
             \A id \in TrackingIds \ {i} : Proved!KeepsStatus(id)
      PROVE  PaymentMoves
  <2>1. Verdict' = [Verdict EXCEPT ![i] = Verdict'[i]]
    <3>1. \A id \in TrackingIds \ {i} : Verdict'[id] = Verdict[id]
      BY <1>7, <1>9
    <3> QED
      BY <3>1 DEF Verdict
  <2>2. CASE Proved!Opens(i)
    <3>1. Verdict[i] = "none" /\ Verdict'[i] = "open"
      BY <1>6, <2>2 DEF Proved!Opens, Verdict
    <3> QED
      BY <1>4, <2>1, <3>1, Moves
  <2>3. CASE Proved!Settles(i)
    <3>1. Verdict[i] = "open" /\ Verdict'[i] \in TerminalStatus
      BY <1>6, <2>3 DEF Proved!Settles, Verdict
    <3> QED
      BY <1>4, <2>1, <3>1, Moves
  <2> QED
    BY <1>9, <2>2, <2>3
<1> QED
  BY <1>5, <1>8, <1>9

(* What answers have not said before an answer is given.                   *)
LEMMA Unanswered ==
  ASSUME SInv, NEW s \in Requests, handler[s] \in {"idle", "calling"}
  PROVE  /\ answer[s].error # "none"
         /\ \A id : ~ Answered(s, id)
<1>1. answer[s] = NoAnswer
  BY DEF SInv, HandlerInv
<1>2. NoAnswer.error = "no answer"
  BY DEF NoAnswer
<1> QED
  BY <1>1, <1>2 DEF Answered

LEMMA QuietStepPays ==
  ASSUME PInv, NEW s \in Requests,
         \/ \E q \in ClientRequests : Receive(s, q)
         \/ SendCallback(s)
         \/ \E o \in Exchange!Outcome : EndDispatch(s, o)
         \/ Fail(s)
         \/ RejectKind(s)
         \/ Finish(s)
  PROVE  PaymentMoves
<1>1. CASE \E q \in ClientRequests : Receive(s, q)
  <2>1. /\ handler[s] = "idle"
        /\ UNCHANGED << transactions, arrived, sent, answer >>
        /\ \A r \in Requests \ {s} : request'[r] = request[r]
    BY <1>1
       DEF Receive, Service!Invoke, exchangeVars, PInv, SInv, HandlersTyped
  <2>2. \A x, id : Heard(x, id)' <=> Heard(x, id)
    BY <2>1, Unanswered DEF PInv, Heard, Answered
  <2> QED
    BY <2>1, <2>2, ToldStays, Moves DEF Verdict
<1>2. CASE SendCallback(s)
  <2>1. /\ handler[s] = "calling"
        /\ UNCHANGED << transactions, arrived, answer, request >>
        /\ \A r \in Requests \ {s} : sent'[r] = sent[r]
    BY <1>2
       DEF SendCallback, Resumes, serviceVars, Exchange!Start, PInv, SInv,
           HandlersTyped
  <2>2. s \notin arrived
    BY <2>1 DEF PInv, Informed, OnlySentArrives, SInv, HandlerInv
  <2>3. arrived \subseteq Requests
    BY DEF PInv, SInv, HandlersTyped, Exchange!TypeOK
  <2>4. \A x, id : Heard(x, id)' <=> Heard(x, id)
    BY <2>1, <2>2, <2>3 DEF Heard, Answered
  <2> QED
    BY <2>1, <2>4, ToldStays, Moves DEF Verdict
<1>3. CASE \E o \in Exchange!Outcome : EndDispatch(s, o)
  <2>1. UNCHANGED << transactions, arrived, answer, request, sent >>
    BY <1>3 DEF EndDispatch, RecordAttempt, Service!Invoke, Exchange!End
  <2> QED
    BY <2>1, ToldStays, Moves DEF Verdict, Heard, Answered
<1>4. ASSUME NEW a, Respond(s, a),
             a.error = "none" => request[s].name # "query",
             answer[s].error = "none" => request[s].name # "query"
      PROVE  PaymentMoves
  <2>1. /\ UNCHANGED << transactions, arrived, request, sent >>
        /\ answer'[s] = a
        /\ \A r \in Requests \ {s} : answer'[r] = answer[r]
    BY <1>4
       DEF Respond, serviceVars, exchangeVars, PInv, SInv, HandlersTyped
  <2>2. \A x, id : Heard(x, id)' <=> Heard(x, id)
    BY <1>4, <2>1 DEF Heard, Answered
  <2> QED
    BY <2>1, <2>2, ToldStays, Moves DEF Verdict
<1>5. CASE Fail(s)
  <2>1. /\ handler[s] = "calling"
        /\ reply[First(s)].error # "none"
        /\ Respond(s, [error |-> reply[First(s)].error, body |-> "none"])
    BY <1>5 DEF Fail, Resumes
  <2> QED
    BY <1>4, <2>1, Unanswered DEF PInv
<1>6. CASE RejectKind(s)
  <2>1. /\ handler[s] = "calling"
        /\ Respond(s, [error |-> "INVALID_TRANSACTION_KIND",
                       body  |-> "none"])
    BY <1>6 DEF RejectKind, Resumes
  <2> QED
    BY <1>4, <2>1, Unanswered DEF PInv
<1>7. CASE Finish(s)
  <2>1. handler[s] = "recording" /\ \E a : Respond(s, a)
    BY <1>7 DEF Finish, Resumes
  <2>2. request[s].name # "query"
    BY <2>1 DEF PInv, SInv, HandlerInv, CallbackSent
  <2> QED
    BY <1>4, <2>1, <2>2
<1> QED
  BY <1>1, <1>2, <1>3, <1>5, <1>6, <1>7

LEMMA AcknowledgePays ==
  ASSUME PInv, NEW s \in Requests, Acknowledge(s)
  PROVE  PaymentMoves
<1> DEFINE t == reply[First(s)].transaction
<1>1. /\ handler[s] = "calling"
      /\ Proved!Succeeded(First(s))
      /\ Respond(s, [error |-> "none", body |-> Body(request[s], t)])
  BY DEF Acknowledge, Resumes, Proved!Succeeded
<1>2. /\ UNCHANGED << transactions, arrived, request, sent >>
      /\ answer'[s] = [error |-> "none", body |-> Body(request[s], t)]
      /\ \A r \in Requests \ {s} : answer'[r] = answer[r]
  BY <1>1 DEF Respond, serviceVars, exchangeVars, PInv, SInv, HandlersTyped
<1>3. answer'[s].error = "none" /\ answer'[s].body = Body(request[s], t)
  BY <1>2
<1>4. \A id : ~ Answered(s, id)
  BY <1>1, Unanswered DEF PInv
<1>5. CASE request[s].name # "query"
  <2>1. \A x, id : Heard(x, id)' <=> Heard(x, id)
    BY <1>2, <1>5 DEF Heard, Answered
  <2> QED
    BY <1>2, <2>1, ToldStays, Moves DEF Verdict
<1>6. CASE request[s].name = "query"
  <2>1. PICK y : y = mapTransactionToQueryResponse(t)
    OBVIOUS
  <2>2. PICK id \in TrackingIds : id = request[s].id
    BY <1>1, FirstAnswerTrue DEF PInv
  <2>3. SaysTrue(y, id)
    BY <1>1, <2>1, <2>2, FirstAnswerTrue
       DEF PInv, SaysTrue, mapTransactionToQueryResponse
  <2>4. answer'[s].body = y
    BY <1>3, <1>6, <2>1 DEF Body
  <2>5. \A i : Answered(s, i)' <=> i = id
    BY <1>2, <1>3, <1>6, <2>2 DEF Answered
  <2>6. \A x, i : Heard(x, i)' <=> Heard(x, i) \/ (i = id /\ x = y)
    <3>1. \A r \in Requests \ {s} : \A i : Answered(r, i)' <=> Answered(r, i)
      BY <1>2 DEF Answered
    <3> QED
      BY <1>2, <1>4, <2>4, <2>5, <3>1 DEF Heard
  <2> QED
    BY <1>2, <2>3, <2>6, TrueTelling
<1> QED
  BY <1>5, <1>6

LEMMA DeliverPays ==
  ASSUME PInv, NEW s \in Requests, Deliver(s)
  PROVE  PaymentMoves
<1>1. /\ UNCHANGED << transactions, request, sent, answer >>
      /\ phase[s] # "idle"
      /\ arrived' = arrived \cup {s}
  BY DEF Deliver, Exchange!Arrive, serviceVars
<1>2. Sent(s)
  BY <1>1 DEF PInv, Informed, OnlySentArrives
<1>3. PICK y : y = sent[s].payload.result
  OBVIOUS
<1>4. PICK id \in TrackingIds : id = sent[s].payload.id
  BY <1>2, CallbackAbout, CallbacksTrue, FirstAnswerTrue DEF PInv
<1>5. SaysTrue(y, id)
  BY <1>2, <1>3, <1>4, CallbacksTrue DEF PInv
<1>6. \A x, i : Heard(x, i)' <=> Heard(x, i) \/ (i = id /\ x = y)
  BY <1>1, <1>3, <1>4 DEF Heard, Answered
<1> QED
  BY <1>1, <1>5, <1>6, TrueTelling

(* Whatever decisions, queries, replays and late callbacks overlap, each   *)
(* step opens a payment, decides it once, tells its outcome or nothing.    *)
THEOREM PaymentPromised == Spec => ImplementsPayment
<1>1. Init => PaymentPromise!Init
  <2> SUFFICES ASSUME Init PROVE PaymentPromise!Init
    OBVIOUS
  <2>1. \A id \in TrackingIds : transactions[id] = NoTransaction
    BY DEF Init, Service!Init, Service!NoTransaction, NoTransaction
  <2>2. arrived = {} /\ \A r \in Requests : answer[r].error = "no answer"
    BY DEF Init, Exchange!Init, NoAnswer
  <2>3. \A x, id : x \notin Said(id)
    BY <2>2, HeardSaid DEF Heard, Answered
  <2> QED
    BY <2>1, <2>3 DEF PaymentPromise!Init
<1>2. PInv /\ [Next]_vars => PaymentMoves
  <2> SUFFICES ASSUME PInv, [Next]_vars PROVE PaymentMoves
    OBVIOUS
  <2>1. CASE UNCHANGED vars
    BY <2>1, ToldStays, Moves DEF vars, Verdict, Heard, Answered
  <2>2. CASE Next
    <3>1. PICK s \in Requests : \/ \E q \in ClientRequests : Receive(s, q)
                               \/ Proceed(s)
                               \/ Deliver(s)
      BY <2>2 DEF Next
    <3> QED
      BY <3>1, ServiceStepPays, QuietStepPays, AcknowledgePays, DeliverPays
         DEF Proceed
  <2> QED
    BY <2>1, <2>2
<1> QED
  BY <1>1, <1>2, PaymentsInvariant, PTL
     DEF Spec, ImplementsPayment, PaymentPromise!Spec, PaymentMoves

(* What Payment promises, in terms of the two mapped variables.            *)
LEMMA PromiseKept ==
  ASSUME PaymentMoves, \A id \in TrackingIds : \A o \in Told[id] : o = Verdict[id]
  PROVE  /\ \A id \in TrackingIds : \A o \in Told'[id] : o = Verdict'[id]
         /\ \A id \in TrackingIds :
              Verdict[id] \in TerminalStatus => Verdict'[id] = Verdict[id]
<1>1. PaymentPromise!TerminalStatus = TerminalStatus
  BY DEF PaymentPromise!TerminalStatus, PaymentPromise!TransactionStatus,
         TerminalStatus, TransactionStatus
<1>2. "none" \notin TerminalStatus /\ "open" \notin TerminalStatus
  BY DEF TerminalStatus, TransactionStatus
<1>3. DOMAIN Verdict = TrackingIds /\ DOMAIN Told = TrackingIds
  BY DEF Verdict, Told
<1>4. \A id \in TrackingIds : Told[id] \subseteq TerminalStatus
  BY DEF Told
<1>5. CASE UNCHANGED PaymentPromise!vars
  <2>1. Verdict' = Verdict /\ Told' = Told
    BY <1>5 DEF PaymentPromise!vars, Verdict, Told
  <2> QED
    BY <2>1
<1>6. ASSUME NEW id \in TrackingIds, PaymentPromise!Open(id)
      PROVE  /\ Verdict[id] = "none"
             /\ Verdict' = [Verdict EXCEPT ![id] = "open"]
             /\ Told' = Told
  BY <1>6 DEF PaymentPromise!Open, Verdict, Told
<1>7. ASSUME NEW id \in TrackingIds, NEW o \in TerminalStatus,
             PaymentPromise!Decide(id, o)
      PROVE  /\ Verdict[id] = "open"
             /\ Verdict' = [Verdict EXCEPT ![id] = o]
             /\ Told' = Told
  BY <1>7 DEF PaymentPromise!Decide, Verdict, Told
<1>8. ASSUME NEW id \in TrackingIds, PaymentPromise!Tell(id)
      PROVE  /\ Told' = [Told EXCEPT ![id] = @ \cup {Verdict[id]}]
             /\ Verdict' = Verdict
  BY <1>8 DEF PaymentPromise!Tell, Verdict, Told
<1>9. ASSUME NEW id \in TrackingIds, Verdict[id] \in {"none", "open"},
             NEW v, Verdict' = [Verdict EXCEPT ![id] = v], Told' = Told
      PROVE  /\ \A d \in TrackingIds : \A o \in Told'[d] : o = Verdict'[d]
             /\ \A d \in TrackingIds :
                  Verdict[d] \in TerminalStatus => Verdict'[d] = Verdict[d]
  BY <1>2, <1>3, <1>4, <1>9
<1>10. ASSUME NEW id \in TrackingIds, Verdict' = Verdict,
              Told' = [Told EXCEPT ![id] = @ \cup {Verdict[id]}]
       PROVE  \A d \in TrackingIds : \A o \in Told'[d] : o = Verdict'[d]
  BY <1>3, <1>10
<1>11. CASE PaymentPromise!Next
  <2>1. PICK id \in TrackingIds :
          \/ PaymentPromise!Open(id)
          \/ \E o \in TerminalStatus : PaymentPromise!Decide(id, o)
          \/ PaymentPromise!Tell(id)
    BY <1>1, <1>11 DEF PaymentPromise!Next
  <2> QED
    BY <2>1, <1>6, <1>7, <1>8, <1>9, <1>10
<1> QED
  BY <1>5, <1>11 DEF PaymentMoves

(* An integration hears one outcome of each payment only, from whatever    *)
(* callbacks, replays and queries it gets, however late; and that outcome  *)
(* is never taken back.                                                    *)
THEOREM OneOutcomeIsHeard ==
  Spec => []PaymentPromise!ToldTheVerdict /\ PaymentPromise!DecidedForGood
<1> DEFINE ToldTrue ==
             \A id \in TrackingIds : \A o \in Told[id] : o = Verdict[id]
<1>1. PaymentPromise!Init => ToldTrue
  BY DEF PaymentPromise!Init, Told
<1>2. ToldTrue /\ PaymentMoves => ToldTrue'
  BY PromiseKept
<1>3. ToldTrue => PaymentPromise!ToldTheVerdict
  BY DEF PaymentPromise!ToldTheVerdict, Verdict, Told
<1>4. PaymentPromise!TerminalStatus = TerminalStatus
  BY DEF PaymentPromise!TerminalStatus, PaymentPromise!TransactionStatus,
         TerminalStatus, TransactionStatus
<1>5. ToldTrue /\ PaymentMoves =>
        [PaymentPromise!KeepsDecisions]_(PaymentPromise!vars)
  <2> SUFFICES ASSUME ToldTrue, PaymentMoves
               PROVE  PaymentPromise!KeepsDecisions
    OBVIOUS
  <2>1. \A id \in TrackingIds :
          Verdict[id] \in TerminalStatus => Verdict'[id] = Verdict[id]
    BY PromiseKept
  <2> QED
    BY <1>4, <2>1 DEF PaymentPromise!KeepsDecisions, Verdict
<1> QED
  BY <1>1, <1>2, <1>3, <1>5, PaymentPromised, PTL
     DEF ImplementsPayment, PaymentPromise!Spec, PaymentPromise!DecidedForGood,
         PaymentMoves

-------------------------------------------------------------------------------
(* A decision the service made always passes the kind check CallbackService*)
(* makes before it dispatches: no payment is settled by a request that     *)
(* then fails to announce it.                                              *)
DecisionsAreAnnounced ==
  \A r \in Requests :
    /\ request[r].name = "decide"
    /\ pc[First(r)] = "replied"
    /\ reply[First(r)].error = "none"
    => reply[First(r)].transaction.kind \in CallbackKinds(request[r].family)

LEMMA DecisionsFit ==
  ASSUME SInv, Proved!TransitionsKeepToKinds
  PROVE  DecisionsAreAnnounced
<1> SUFFICES ASSUME NEW r \in Requests, request[r].name = "decide",
                    pc[First(r)] = "replied", reply[First(r)].error = "none"
             PROVE  reply[First(r)].transaction.kind
                      \in CallbackKinds(request[r].family)
  BY DEF DecisionsAreAnnounced
<1>1. /\ request[r] # NoRequest
      /\ op[First(r)] = FirstCall(request[r])
  <2>1. NoRequest.name # "decide"
    BY DEF NoRequest
  <2> QED
    BY <2>1 DEF SInv, HandlerInv
<1>2. request[r] \in ClientRequest
  BY <1>1 DEF SInv, HandlersTyped
<1>3. request[r].family \in {"stk", "payments"}
  BY <1>2 DEF ClientRequest
<1>4. op[First(r)].name = transition[request[r].family]
  BY <1>1 DEF FirstCall
<1>5. /\ op[First(r)].name \in Proved!TransitionNames
      /\ Proved!expectedKinds[op[First(r)].name]
           = CallbackKinds(request[r].family)
  BY <1>3, <1>4
     DEF transition, Proved!TransitionNames, Proved!expectedKinds,
         CallbackKinds, Proved!BusinessKinds, BusinessKinds
<1> QED
  BY <1>5, CallsDistinct
     DEF Proved!TransitionsKeepToKinds, Proved!Succeeded

(* After transitionStk or transitionBusinessPayment have settled a         *)
(* payment, CallbackService does not refuse its kind: the integration is   *)
(* told.                                                                   *)
THEOREM DecisionsReachDispatch == Spec => []DecisionsAreAnnounced
<1>1. SInv /\ Proved!TransitionsKeepToKinds => DecisionsAreAnnounced
  BY DecisionsFit
<1>2. Spec => []Proved!TransitionsKeepToKinds
  BY HandlersUseTheService, OfferedHolds, Proved!KindsAreKept
<1> QED
  BY <1>1, <1>2, HandlersInvariant, PTL

-------------------------------------------------------------------------------
(* How many steps the handler of r can still take, those of its service    *)
(* calls included.                                                         *)
StagesLeft(state) ==
  CASE state = "idle"        -> 4
    [] state = "calling"     -> 3
    [] state = "dispatching" -> 2
    [] state = "recording"   -> 1
    [] OTHER                 -> 0

WorkLeft(r) ==
  StagesLeft(handler[r]) + Proved!StepsLeft(pc[First(r)])
    + Proved!StepsLeft(pc[Record(r)])

(* Each step of a handler leaves it less to do, and no other request gives *)
(* it more: routes retry nothing, so with dispatch returning, as it does,  *)
(* every request is answered after at most twelve steps of its own.        *)
HandlersAdvance ==
  \A r \in Requests :
    /\ WorkLeft(r) \in 0..12
    /\ WorkLeft(r)' <= WorkLeft(r)
    /\ Proceed(r) => WorkLeft(r)' < WorkLeft(r)

LEMMA LeftTypes ==
  /\ \A state : StagesLeft(state) \in 0..4
  /\ \A place : Proved!StepsLeft(place) \in 0..4
BY DEF StagesLeft, Proved!StepsLeft

(* A step of s: what it does to s, and that it leaves the others alone.    *)
LEMMA ReceiveAdvances ==
  ASSUME SInv, NEW s \in Requests, NEW q \in ClientRequests, Receive(s, q)
  PROVE  /\ WorkLeft(s)' < WorkLeft(s)
         /\ \A r \in Requests \ {s} : WorkLeft(r)' = WorkLeft(r)
<1>1. /\ handler[s] = "idle"
      /\ handler' = [handler EXCEPT ![s] = "calling"]
      /\ Service!Invoke(First(s), FirstCall(q))
  BY DEF Receive
<1>2. /\ pc[First(s)] = "idle"
      /\ pc' = [pc EXCEPT ![First(s)] = "invoked"]
  BY <1>1 DEF Service!Invoke
<1>3. handler \in [Requests -> HandlerState] /\ DOMAIN pc = Calls
  BY DEF SInv, HandlersTyped, Proved!IInv, Proved!TypeOK
<1>4. /\ handler'[s] = "calling" /\ pc'[First(s)] = "invoked"
      /\ pc'[Record(s)] = pc[Record(s)]
  BY <1>1, <1>2, <1>3, CallsDistinct
<1>5. WorkLeft(s)' < WorkLeft(s)
  BY <1>1, <1>2, <1>4, LeftTypes DEF WorkLeft, StagesLeft, Proved!StepsLeft
<1>6. \A r \in Requests \ {s} :
        /\ handler'[r] = handler[r]
        /\ pc'[First(r)] = pc[First(r)] /\ pc'[Record(r)] = pc[Record(r)]
  BY <1>1, <1>2, <1>3, CallsDistinct
<1> QED
  BY <1>5, <1>6 DEF WorkLeft

LEMMA ServiceStepAdvances ==
  ASSUME SInv, NEW s \in Requests, ServiceStep(s)
  PROVE  /\ WorkLeft(s)' < WorkLeft(s)
         /\ \A r \in Requests \ {s} : WorkLeft(r)' = WorkLeft(r)
<1>1. handler' = handler
  BY DEF ServiceStep, httpVars
<1>2. PICK c \in {First(s), Record(s)} : Service!Step(c)
  BY DEF ServiceStep
<1>3. c \in Calls
  BY CallsDistinct
<1>4. /\ Proved!StepsLeft(pc'[c]) < Proved!StepsLeft(pc[c])
      /\ \A d \in Calls \ {c} : pc'[d] = pc[d]
  BY <1>2, <1>3, SameStep, StepFrame, OfferedHolds, Proved!StepAdvances
     DEF SInv
<1>5. WorkLeft(s)' < WorkLeft(s)
  <2>1. CASE c = First(s)
    <3>1. pc'[Record(s)] = pc[Record(s)]
      BY <1>4, <2>1, CallsDistinct
    <3> QED
      BY <1>1, <1>4, <2>1, <3>1, LeftTypes DEF WorkLeft
  <2>2. CASE c = Record(s)
    <3>1. pc'[First(s)] = pc[First(s)]
      BY <1>4, <2>2, CallsDistinct
    <3> QED
      BY <1>1, <1>4, <2>2, <3>1, LeftTypes DEF WorkLeft
  <2> QED
    BY <2>1, <2>2
<1>6. \A r \in Requests \ {s} :
        pc'[First(r)] = pc[First(r)] /\ pc'[Record(r)] = pc[Record(r)]
  BY <1>2, <1>4, CallsDistinct
<1> QED
  BY <1>1, <1>5, <1>6 DEF WorkLeft

LEMMA HandlerStepAdvances ==
  ASSUME SInv, NEW s \in Requests,
         \/ Fail(s) \/ RejectKind(s) \/ Acknowledge(s) \/ Finish(s)
         \/ SendCallback(s)
  PROVE  /\ WorkLeft(s)' < WorkLeft(s)
         /\ \A r \in Requests \ {s} : WorkLeft(r)' = WorkLeft(r)
<1>1. pc' = pc
  BY DEF Fail, RejectKind, Acknowledge, Finish, SendCallback, Respond,
         serviceVars
<1>2. PICK state \in {"answered", "dispatching"} :
        /\ handler' = [handler EXCEPT ![s] = state]
        /\ \/ handler[s] = "calling"
           \/ handler[s] = "recording" /\ state = "answered"
  BY DEF Fail, RejectKind, Acknowledge, Finish, SendCallback, Respond, Resumes
<1>3. handler \in [Requests -> HandlerState]
  BY DEF SInv, HandlersTyped
<1>4. handler'[s] = state /\ \A r \in Requests \ {s} : handler'[r] = handler[r]
  BY <1>2, <1>3
<1>5. StagesLeft(handler'[s]) < StagesLeft(handler[s])
  BY <1>2, <1>4 DEF StagesLeft
<1> QED
  BY <1>1, <1>4, <1>5, LeftTypes DEF WorkLeft

LEMMA EndDispatchAdvances ==
  ASSUME SInv, NEW s \in Requests, NEW o \in Exchange!Outcome,
         EndDispatch(s, o)
  PROVE  /\ WorkLeft(s)' < WorkLeft(s)
         /\ \A r \in Requests \ {s} : WorkLeft(r)' = WorkLeft(r)
<1>1. /\ handler[s] = "dispatching"
      /\ handler' = [handler EXCEPT ![s] = "recording"]
      /\ pc[Record(s)] = "idle"
      /\ pc' = [pc EXCEPT ![Record(s)] = "invoked"]
  BY DEF EndDispatch, RecordAttempt, Service!Invoke
<1>2. handler \in [Requests -> HandlerState] /\ DOMAIN pc = Calls
  BY DEF SInv, HandlersTyped, Proved!IInv, Proved!TypeOK
<1>3. /\ handler'[s] = "recording" /\ pc'[Record(s)] = "invoked"
      /\ pc'[First(s)] = pc[First(s)]
  BY <1>1, <1>2, CallsDistinct
<1>4. WorkLeft(s)' < WorkLeft(s)
  BY <1>1, <1>3, LeftTypes DEF WorkLeft, StagesLeft, Proved!StepsLeft
<1>5. \A r \in Requests \ {s} :
        /\ handler'[r] = handler[r]
        /\ pc'[First(r)] = pc[First(r)] /\ pc'[Record(r)] = pc[Record(r)]
  BY <1>1, <1>2, CallsDistinct
<1> QED
  BY <1>4, <1>5 DEF WorkLeft

LEMMA NextAdvances ==
  ASSUME SInv, [Next]_vars
  PROVE  HandlersAdvance
<1>1. \A r \in Requests :
        WorkLeft(r) \in 0..12 /\ WorkLeft(r)' \in 0..12
  BY LeftTypes DEF WorkLeft
<1>2. \A s \in Requests : Proceed(s) =>
        /\ WorkLeft(s)' < WorkLeft(s)
        /\ \A r \in Requests \ {s} : WorkLeft(r)' = WorkLeft(r)
  BY ServiceStepAdvances, HandlerStepAdvances, EndDispatchAdvances DEF Proceed
<1>3. ASSUME NEW r \in Requests
      PROVE  WorkLeft(r)' <= WorkLeft(r)
  <2>1. CASE UNCHANGED vars
    <3>1. WorkLeft(r)' = WorkLeft(r)
      BY <2>1 DEF vars, WorkLeft
    <3> QED
      BY <1>1, <3>1
  <2>2. ASSUME NEW s \in Requests,
               (\E q \in ClientRequests : Receive(s, q)) \/ Proceed(s)
        PROVE  WorkLeft(r)' <= WorkLeft(r)
    <3>1. /\ WorkLeft(s)' < WorkLeft(s)
          /\ \A t \in Requests \ {s} : WorkLeft(t)' = WorkLeft(t)
      BY <1>2, <2>2, ReceiveAdvances
    <3> QED
      BY <1>1, <3>1
  <2>3. ASSUME NEW s \in Requests, Deliver(s)
        PROVE  WorkLeft(r)' <= WorkLeft(r)
    <3>1. WorkLeft(r)' = WorkLeft(r)
      BY <2>3 DEF Deliver, serviceVars, WorkLeft
    <3> QED
      BY <1>1, <3>1
  <2> QED
    BY <2>1, <2>2, <2>3 DEF Next
<1> QED
  BY <1>1, <1>2, <1>3 DEF HandlersAdvance

(* The routes of the simulator come to an end: each answers within twelve  *)
(* steps of its handler and its service calls.                             *)
THEOREM HandlersEnd == Spec => [][HandlersAdvance]_vars
<1>1. SInv /\ [Next]_vars => [HandlersAdvance]_vars
  BY NextAdvances
<1> QED
  BY <1>1, HandlersInvariant, PTL DEF Spec

-------------------------------------------------------------------------------
(* Where a handler waits, what it waits for is there: its service call, or *)
(* its exchange; and what it will start next has not been started.         *)
WaitsForSomething(r) ==
  /\ handler[r] = "idle" => phase[r] = "idle" /\ pc[Record(r)] = "idle"
  /\ handler[r] = "calling" =>
       pc[First(r)] # "idle" /\ phase[r] = "idle" /\ pc[Record(r)] = "idle"
  /\ handler[r] = "dispatching" => phase[r] = "open" /\ pc[Record(r)] = "idle"
  /\ handler[r] = "recording" => pc[Record(r)] # "idle"

WInv == \A r \in Requests : WaitsForSomething(r)

LEMMA StepsWait ==
  ASSUME SInv, WInv, NEW s \in Requests,
         (\E q \in ClientRequests : Receive(s, q)) \/ Proceed(s)
  PROVE  WInv'
<1>1. /\ handler \in [Requests -> HandlerState]
      /\ phase \in [Requests -> {"idle", "open", "ended"}]
      /\ pc \in [Calls -> Proved!Stage]
  BY DEF SInv, HandlersTyped, Exchange!TypeOK, Proved!IInv, Proved!TypeOK
<1>2. WaitsForSomething(s)
  BY DEF WInv
<1>3. ASSUME NEW q \in ClientRequests, Receive(s, q)
      PROVE  WInv'
  <2>1. /\ handler[s] = "idle"
        /\ handler' = [handler EXCEPT ![s] = "calling"]
        /\ phase' = phase
        /\ pc' = [pc EXCEPT ![First(s)] = "invoked"]
    BY <1>3 DEF Receive, exchangeVars, Service!Invoke
  <2>2. WaitsForSomething(s)'
    BY <1>1, <1>2, <2>1, CallsDistinct DEF WaitsForSomething
  <2>3. ASSUME NEW r \in Requests \ {s}
        PROVE  WaitsForSomething(r)'
    BY <1>1, <2>1, CallsDistinct DEF WInv, WaitsForSomething
  <2> QED
    BY <2>2, <2>3 DEF WInv
<1>4. ASSUME ServiceStep(s)
      PROVE  WInv'
  <2>1. PICK c \in {First(s), Record(s)} : Service!Step(c)
    BY <1>4 DEF ServiceStep
  <2>2. handler' = handler /\ phase' = phase
    BY <1>4 DEF ServiceStep, httpVars, exchangeVars
  <2>3. /\ c \in Calls
        /\ pc[c] # "idle"
        /\ \A d \in Calls \ {c} : pc'[d] = pc[d]
    BY <2>1, CallsDistinct, StepFrame DEF SInv
  <2>4. pc'[c] # "idle"
    BY <2>1, <2>3, SameStep, OfferedHolds, Proved!StepAdvances
       DEF SInv, Proved!StepsLeft
  <2>5. \A d \in Calls : pc'[d] = "idle" <=> pc[d] = "idle"
    BY <2>3, <2>4
  <2> QED
    BY <2>2, <2>5, CallsDistinct DEF WInv, WaitsForSomething
<1>5. ASSUME Fail(s) \/ RejectKind(s) \/ Acknowledge(s) \/ Finish(s)
      PROVE  WInv'
  <2>1. /\ handler' = [handler EXCEPT ![s] = "answered"]
        /\ phase' = phase /\ pc' = pc
    BY <1>5 DEF Fail, RejectKind, Acknowledge, Finish, Respond, serviceVars,
                exchangeVars
  <2> QED
    BY <1>1, <2>1 DEF WInv, WaitsForSomething
<1>6. ASSUME SendCallback(s)
      PROVE  WInv'
  <2>1. /\ handler[s] = "calling"
        /\ handler' = [handler EXCEPT ![s] = "dispatching"]
        /\ phase' = [phase EXCEPT ![s] = "open"]
        /\ pc' = pc
    BY <1>6 DEF SendCallback, Resumes, Exchange!Start, serviceVars
  <2> QED
    BY <1>1, <1>2, <2>1 DEF WInv, WaitsForSomething
<1>7. ASSUME NEW o \in Exchange!Outcome, EndDispatch(s, o)
      PROVE  WInv'
  <2>1. /\ handler' = [handler EXCEPT ![s] = "recording"]
        /\ phase' = [phase EXCEPT ![s] = "ended"]
        /\ pc' = [pc EXCEPT ![Record(s)] = "invoked"]
    BY <1>7 DEF EndDispatch, RecordAttempt, Exchange!End, Service!Invoke
  <2>2. WaitsForSomething(s)'
    BY <1>1, <2>1, CallsDistinct DEF WaitsForSomething
  <2>3. ASSUME NEW r \in Requests \ {s}
        PROVE  WaitsForSomething(r)'
    BY <1>1, <2>1, CallsDistinct DEF WInv, WaitsForSomething
  <2> QED
    BY <2>2, <2>3 DEF WInv
<1> QED
  BY <1>3, <1>4, <1>5, <1>6, <1>7 DEF Proceed

LEMMA WaitingInductive ==
  ASSUME SInv, WInv, [Next]_vars
  PROVE  WInv'
<1>1. CASE UNCHANGED vars
  BY <1>1 DEF vars, WInv, WaitsForSomething
<1>2. ASSUME NEW s \in Requests, Deliver(s)
      PROVE  WInv'
  BY <1>2 DEF Deliver, Exchange!Arrive, serviceVars, WInv, WaitsForSomething
<1> QED
  BY <1>1, <1>2, StepsWait DEF Next

(* The conditions of the steps of Proceed, in their order.                 *)
CanGoOn(r) ==
  LET first == reply[First(r)]
  IN  \/ \E c \in {First(r), Record(r)} :
           pc[c] \in {"invoked", "found", "conflicted"}
      \/ /\ handler[r] = "calling"
         /\ pc[First(r)] = "replied"
         /\ \/ first.error # "none"
            \/ /\ request[r].name \in {"decide", "replay"}
               /\ first.transaction.kind \notin CallbackKinds(request[r].family)
            \/ request[r].name \in {"push", "pay", "query", "show"}
            \/ /\ request[r].name \in {"decide", "replay"}
               /\ first.transaction.kind \in CallbackKinds(request[r].family)
               /\ phase[r] = "idle"
      \/ /\ handler[r] = "dispatching"
         /\ phase[r] = "open"
         /\ pc[Record(r)] = "idle"
      \/ handler[r] = "recording" /\ pc[Record(r)] = "replied"

(* No route is left hanging: until it has answered, its handler, its       *)
(* service call or its exchange has something to do, which waits for no    *)
(* other request.                                                          *)
NobodyIsStuck ==
  \A r \in Requests :
    handler[r] \in {"idle", "answered"} \/ CanGoOn(r)

LEMMA WaitingGoesOn ==
  ASSUME SInv, WInv
  PROVE  NobodyIsStuck
<1> SUFFICES ASSUME NEW r \in Requests,
                    handler[r] \notin {"idle", "answered"}
             PROVE  CanGoOn(r)
  BY DEF NobodyIsStuck
<1>1. WaitsForSomething(r)
  BY DEF WInv
<1>2. handler[r] \in {"calling", "dispatching", "recording"}
  BY DEF SInv, HandlersTyped, HandlerState
<1>3. \A c \in {First(r), Record(r)} :
        pc[c] \in {"idle", "invoked", "found", "conflicted", "replied"}
  BY CallsDistinct DEF SInv, Proved!IInv, Proved!TypeOK, Proved!Stage
<1>4. CASE handler[r] = "calling"
  <2>1. request[r] \in ClientRequest
    BY <1>4 DEF SInv, HandlersTyped, HandlerInv
  <2>2. request[r].name \in {"push", "pay", "query", "show", "decide", "replay"}
    BY <2>1, FirstCallType
  <2> QED
    BY <1>1, <1>3, <1>4, <2>2 DEF CanGoOn, WaitsForSomething
<1>5. CASE handler[r] \in {"dispatching", "recording"}
  BY <1>1, <1>3, <1>5 DEF CanGoOn, WaitsForSomething
<1> QED
  BY <1>2, <1>4, <1>5

(* No route waits in vain: not for a call it did not make, not for a       *)
(* dispatch it did not start, not for another request.                     *)
THEOREM NobodyHangs == Spec => []NobodyIsStuck
<1>1. Init => SInv /\ WInv
  <2>1. Init => WInv
    BY CallsDistinct
       DEF Init, WInv, WaitsForSomething, Exchange!Init, Service!Init
  <2> QED
    BY <2>1, InitSInv
<1>2. SInv /\ WInv /\ [Next]_vars => WInv'
  BY WaitingInductive
<1>3. SInv /\ WInv => NobodyIsStuck
  BY WaitingGoesOn
<1> QED
  BY <1>1, <1>2, <1>3, HandlersInvariant, PTL DEF Spec

===============================================================================
