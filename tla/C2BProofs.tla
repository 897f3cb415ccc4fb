------------------------------ MODULE C2BProofs ------------------------------
(***************************************************************************)
(* Proofs about C2B, for any sets of requests, tracking ids, short codes,  *)
(* URLs and bodies.                                                        *)
(*                                                                         *)
(* As in SimulatorProofs, the handlers' calls are shown to be a behaviour  *)
(* of TransactionService.  The invariant follows a simulation through its  *)
(* four service calls and two exchanges: which of them are over at each    *)
(* point, what they were given, and that nobody else can settle or record  *)
(* on its transaction.                                                     *)
(***************************************************************************)
EXTENDS C2B, SequenceTheorems, TLAPS

Proved ==
  INSTANCE TransactionServiceProofs WITH
    Attempts <- Attempt, Offered <- ServiceCall(TrackingIds, Attempt)

-------------------------------------------------------------------------------
(* Service and Proved are two instances of one module: the operators of    *)
(* one are those of the other.                                             *)
LEMMA SameCalls ==
  ServiceCall(TrackingIds, Attempt) =
    Proved!ServiceCall(TrackingIds, Attempt)
BY DEF Proved!ServiceCall, ServiceCall, Proved!CreateCall, CreateCall,
       Proved!GetCall, GetCall, Proved!TransitionCall, TransitionCall,
       Proved!AttemptCall, AttemptCall, Proved!TransactionKind,
       TransactionKind, Proved!BusinessKinds, BusinessKinds,
       Proved!TerminalStatus, TerminalStatus, Proved!TransactionStatus,
       TransactionStatus, Proved!Result, Result, Proved!NoResult, NoResult

LEMMA OfferedHolds == Proved!OfferedAssumption
BY SameCalls DEF Proved!OfferedAssumption

LEMMA SameInit == Service!Init => Proved!Init
BY DEF Service!Init, Proved!Init, Service!NoTransaction,
       Proved!NoTransaction, Service!NoCall, Proved!NoCall,
       Service!NoReply, Proved!NoReply

LEMMA SameInvoke ==
  ASSUME NEW c, NEW o, Service!Invoke(c, o)
  PROVE  Proved!Invoke(c, o)
BY DEF Service!Invoke, Proved!Invoke, Service!IdIsFresh, Proved!IdIsFresh

LEMMA SameStep ==
  ASSUME NEW c, Service!Step(c)
  PROVE  Proved!Step(c)
<1> USE DEF Service!NoTransaction, Proved!NoTransaction,
            Service!Current, Proved!Current,
            Service!Respond, Proved!Respond,
            Service!Store, Proved!Store,
            Service!Returned, Proved!Returned,
            Service!Thrown, Proved!Thrown,
            Service!Found, Proved!Found,
            Service!TransitionNames, Proved!TransitionNames,
            Service!expectedKinds, Proved!expectedKinds,
            Service!KindExpected, Proved!KindExpected,
            Service!BusinessKinds, Proved!BusinessKinds
<1>1. Service!Create(c) => Proved!Create(c)
  BY DEF Service!Create, Proved!Create, Service!NewTransaction,
         Proved!NewTransaction, Service!NoResult, Proved!NoResult
<1>2. Service!ReplyNotFound(c) => Proved!ReplyNotFound(c)
  BY DEF Service!ReplyNotFound, Proved!ReplyNotFound
<1>3. Service!Get(c) => Proved!Get(c)
  BY DEF Service!Get, Proved!Get
<1>4. Service!RejectKind(c) => Proved!RejectKind(c)
  BY DEF Service!RejectKind, Proved!RejectKind
<1>5. \A from, to :
        Service!CanTransition(from, to) <=> Proved!CanTransition(from, to)
  BY DEF Service!CanTransition, Proved!CanTransition,
         Service!allowedTransitions, Proved!allowedTransitions,
         Service!TransactionStatus, Proved!TransactionStatus,
         Service!TerminalStatus, Proved!TerminalStatus
<1>6. Service!RejectTransition(c) => Proved!RejectTransition(c)
  BY <1>5 DEF Service!RejectTransition, Proved!RejectTransition
<1>7. Service!ReadForTransition(c) => Proved!ReadForTransition(c)
  BY <1>5 DEF Service!ReadForTransition, Proved!ReadForTransition
<1>8. Service!SwapStatus(c) => Proved!SwapStatus(c)
  BY DEF Service!SwapStatus, Proved!SwapStatus,
         Service!StatusMatches, Proved!StatusMatches,
         Service!Base, Proved!Base, Service!Settle, Proved!Settle,
         Service!Details, Proved!Details, Service!NoResult, Proved!NoResult,
         Service!resultDetails, Proved!resultDetails
<1>9. Service!MissSwap(c) => Proved!MissSwap(c)
  BY DEF Service!MissSwap, Proved!MissSwap,
         Service!StatusMatches, Proved!StatusMatches
<1>10. Service!ExplainConflict(c) => Proved!ExplainConflict(c)
  BY <1>5 DEF Service!ExplainConflict, Proved!ExplainConflict,
              Service!ConflictError, Proved!ConflictError
<1>11. Service!AddCallbackAttempt(c) => Proved!AddCallbackAttempt(c)
  BY DEF Service!AddCallbackAttempt, Proved!AddCallbackAttempt,
         Service!WithAttempt, Proved!WithAttempt
<1> QED
  BY <1>1, <1>2, <1>3, <1>4, <1>6, <1>7, <1>8, <1>9, <1>10, <1>11
     DEF Service!Step, Proved!Step

LEMMA SameRecords ==
  /\ Transaction(TrackingIds, Attempt) =
       Proved!Transaction(TrackingIds, Attempt)
  /\ ErrorCode = Proved!ErrorCode
  /\ NoTransaction = Proved!NoTransaction
BY DEF Transaction, Proved!Transaction, TransactionKind,
       Proved!TransactionKind, BusinessKinds, Proved!BusinessKinds,
       TransactionStatus, Proved!TransactionStatus, Result, Proved!Result,
       NoResult, Proved!NoResult, ErrorCode, Proved!ErrorCode,
       NoTransaction, Proved!NoTransaction

(* The fields of a transaction.                                            *)
LEMMA TransactionFields ==
  ASSUME NEW t \in Transaction(TrackingIds, Attempt)
  PROVE  /\ t.trackingId \in TrackingIds
         /\ t.kind \in TransactionKind
         /\ t.status \in TransactionStatus
         /\ t.result \in Result \cup {NoResult}
         /\ t.status = "PENDING" <=> t.result = NoResult
BY DEF Transaction

-------------------------------------------------------------------------------
CallsOf(r) == {First(r), Settlement(r), Validation(r), Confirmation(r)}

LEMMA CallsDistinct ==
  /\ \A r \in Requests :
       /\ Validation(r) \in Exchanges /\ Confirmation(r) \in Exchanges
       /\ CallsOf(r) \subseteq Calls
       /\ First(r) # Settlement(r)
       /\ First(r) # Validation(r)
       /\ First(r) # Confirmation(r)
       /\ Settlement(r) # Validation(r)
       /\ Settlement(r) # Confirmation(r)
       /\ Validation(r) # Confirmation(r)
       /\ Validation(r)[1] = r /\ Confirmation(r)[1] = r
  /\ \A r, s \in Requests : r # s => CallsOf(r) \cap CallsOf(s) = {}
  /\ \A c \in Calls : c[1] \in Requests /\ c \in CallsOf(c[1])
  /\ \A x \in Exchanges :
       x[1] \in Requests /\ x \in {Validation(x[1]), Confirmation(x[1])}
BY DEF CallsOf, First, Settlement, Validation, Confirmation, Calls, Exchanges,
       Roles

HandlersTyped ==
  /\ Exchange!TypeOK
  /\ registrations \in [ShortCodes -> Registration \cup {NoRegistration}]
  /\ request \in [Requests -> ClientRequest \cup {NoRequest}]
  /\ handler \in [Requests -> HandlerState]
  /\ registration \in [Requests -> Registration \cup {NoRegistration}]
  /\ sentTo \in [Exchanges -> Urls \cup {"nowhere"}]
  /\ answer \in [Requests -> ErrorCode \cup
                   {"none", "no answer", "C2B_URLS_NOT_REGISTERED"}]

(* The service calls of a handler. *)
CreateOf(r) == [name |-> "create", id |-> request[r].id, kind |-> "C2B"]

ActOf(q) ==
  IF q.name = "show" THEN [name |-> "getByTrackingId", id |-> q.id]
  ELSE [name |-> q.transition, id |-> q.id, to |-> q.to, result |-> NoResult]

RecordOf(r, x) ==
  [name    |-> "addCallbackAttempt",
   id      |-> request[r].id,
   attempt |-> [id |-> x, url |-> sentTo[x], outcome |-> outcome[x]]]

Rejected(r) == ValidationFailure(r) # NoResult

SettlementOf(r) ==
  [name   |-> "transitionC2B",
   id     |-> request[r].id,
   to     |-> IF Rejected(r) THEN "FAILED" ELSE "SUCCESS",
   result |-> ValidationFailure(r)]

BeforeDecision == {"calling", "validating", "recordingValidation"}

Ending == {"settling", "answered"}

(* How far a simulation is.                                                *)
SimulationInv(r) ==
  /\ handler[r] # "idle"
  /\ op[First(r)] = CreateOf(r)
  /\ handler[r] # "calling" => Proved!Succeeded(First(r))
  /\ phase[Validation(r)] = IF handler[r] = "calling" THEN "idle"
                            ELSE IF handler[r] = "validating" THEN "open"
                            ELSE "ended"
  /\ handler[r] \notin BeforeDecision => Proved!Succeeded(Validation(r))
  /\ handler[r] \in {"confirming", "recordingConfirmation"} => ~ Rejected(r)
  /\ phase[Confirmation(r)] =
       IF handler[r] \in BeforeDecision \/ Rejected(r) THEN "idle"
       ELSE IF handler[r] = "confirming" THEN "open"
       ELSE "ended"
  /\ handler[r] \in Ending /\ ~ Rejected(r) =>
       Proved!Succeeded(Confirmation(r))
  /\ \A x \in {Validation(r), Confirmation(r)} :
       op[x] = IF phase[x] = "ended" THEN RecordOf(r, x) ELSE NoCall
  /\ op[Settlement(r)] =
       IF handler[r] \in Ending THEN SettlementOf(r) ELSE NoCall
  /\ handler[r] = "answered" => Proved!Succeeded(Settlement(r))
  /\ answer[r] \in {"no answer", "none"}
  /\ sentTo[Validation(r)] =
       IF phase[Validation(r)] = "idle" THEN "nowhere"
       ELSE registration[r].ValidationURL
  /\ sentTo[Confirmation(r)] =
       IF phase[Confirmation(r)] = "idle" THEN "nowhere"
       ELSE registration[r].ConfirmationURL

(* The handlers of other requests, and those that have not started.        *)
OtherInv(r) ==
  /\ handler[r] = "idle" <=> request[r] = NoRequest
  /\ handler[r] \in {"idle", "calling", "answered"}
  /\ handler[r] = "calling" => request[r].name \in {"show", "decide"}
  /\ handler[r] = "idle" => answer[r] = "no answer"
  /\ registration[r] = NoRegistration
  /\ op[First(r)] = IF request[r].name \in {"show", "decide"}
                    THEN ActOf(request[r]) ELSE NoCall
  /\ op[Settlement(r)] = NoCall
  /\ \A x \in {Validation(r), Confirmation(r)} :
       op[x] = NoCall /\ phase[x] = "idle" /\ sentTo[x] = "nowhere"

HandlerInv(r) == IF Simulation(r) THEN SimulationInv(r) ELSE OtherInv(r)

(* Registrations are those of requests.                                    *)
Registers(s, shortCode, g) ==
  /\ request[s].name = "registerurl"
  /\ request[s].shortCode = shortCode
  /\ request[s].registration = g

RegistrationsGiven ==
  /\ \A shortCode \in ShortCodes :
       registrations[shortCode] # NoRegistration =>
         \E s \in Requests : Registers(s, shortCode, registrations[shortCode])
  /\ \A r \in Requests :
       Simulation(r) =>
         \E s \in Requests : Registers(s, request[r].shortCode, registration[r])

(* Every transaction is a simulated payment; no call of another route      *)
(* settles one, no call of a simulation throws, and the attempts are those *)
(* the simulation recorded.                                                *)
OnlyC2B ==
  \A id \in TrackingIds :
    transactions[id] # NoTransaction => transactions[id].kind = "C2B"

OthersSettleNothing ==
  \A r \in Requests :
    request[r].name = "decide" => ~ Proved!Succeeded(First(r))

NothingThrown ==
  \A r \in Requests :
    Simulation(r) => \A c \in CallsOf(r) : reply[c].error \notin ErrorCode

RepliesAtEnd ==
  \A c \in Calls : pc[c] # "replied" => reply[c].error \notin ErrorCode

RecordedBy(r) ==
  IF Proved!Succeeded(Confirmation(r))
  THEN << op[Validation(r)].attempt, op[Confirmation(r)].attempt >>
  ELSE IF Proved!Succeeded(Validation(r))
  THEN << op[Validation(r)].attempt >>
  ELSE << >>

AttemptsOfSimulation ==
  \A r \in Requests :
    Simulation(r) /\ transactions[request[r].id] # NoTransaction =>
      transactions[request[r].id].callbackAttempts = RecordedBy(r)

ServiceFacts ==
  /\ Proved!IInv
  /\ Proved!AnswersStayTrue
  /\ Proved!OneWinner
  /\ RepliesAtEnd

CInv ==
  /\ ServiceFacts
  /\ HandlersTyped
  /\ \A r \in Requests : HandlerInv(r)
  /\ RegistrationsGiven
  /\ OnlyC2B
  /\ OthersSettleNothing
  /\ NothingThrown
  /\ AttemptsOfSimulation

-------------------------------------------------------------------------------
(* What a step of the service leaves to the handlers.                      *)
LEMMA InvokeFrame ==
  ASSUME Proved!IInv, NEW c \in Calls,
         NEW o \in ServiceCall(TrackingIds, Attempt), Service!Invoke(c, o)
  PROVE  /\ [Proved!Next]_(Proved!vars)
         /\ pc[c] = "idle"
         /\ op'[c] = o
         /\ pc'[c] = "invoked"
         /\ \A d \in Calls \ {c} : op'[d] = op[d] /\ pc'[d] = pc[d]
         /\ reply' = reply
<1>1. Proved!Invoke(c, o)
  BY SameInvoke
<1>2. [Proved!Next]_(Proved!vars)
  BY <1>1 DEF Proved!Next
<1> QED
  BY <1>1, <1>2 DEF Proved!Invoke, Proved!IInv, Proved!TypeOK

LEMMA StepFrame ==
  ASSUME Proved!IInv, NEW c \in Calls, Service!Step(c)
  PROVE  /\ [Proved!Next]_(Proved!vars)
         /\ pc[c] \notin {"idle", "replied"}
         /\ op' = op
         /\ \A d \in Calls \ {c} : pc'[d] = pc[d] /\ reply'[d] = reply[d]
<1>1. Proved!Step(c)
  BY SameStep
<1>2. [Proved!Next]_(Proved!vars)
  BY <1>1 DEF Proved!Next
<1> QED
  BY <1>1, <1>2, OfferedHolds, Proved!StepReplies

(* A call that succeeded stays as it is.                                   *)
LEMMA SucceededStays ==
  ASSUME Proved!IInv, [Proved!Next]_(Proved!vars), NEW d \in Calls,
         Proved!Succeeded(d)
  PROVE  Proved!Succeeded(d)' /\ op'[d] = op[d] /\ reply'[d] = reply[d]
<1>1. CASE UNCHANGED Proved!vars
  BY <1>1 DEF Proved!vars, Proved!Succeeded
<1>2. ASSUME NEW c \in Calls, NEW o, Proved!Invoke(c, o)
      PROVE  Proved!Succeeded(d)' /\ op'[d] = op[d] /\ reply'[d] = reply[d]
  BY <1>2 DEF Proved!Invoke, Proved!IInv, Proved!TypeOK, Proved!Succeeded
<1>3. ASSUME NEW c \in Calls, Proved!Step(c)
      PROVE  Proved!Succeeded(d)' /\ op'[d] = op[d] /\ reply'[d] = reply[d]
  <2>1. /\ pc[c] \notin {"idle", "replied"}
        /\ op' = op
        /\ \A e \in Calls \ {c} : pc'[e] = pc[e] /\ reply'[e] = reply[e]
    BY <1>3, OfferedHolds, Proved!StepReplies
  <2> QED
    BY <2>1 DEF Proved!Succeeded
<1> QED
  BY <1>1, <1>2, <1>3 DEF Proved!Next

(* An invocation changes nothing but the call invoked.                     *)
Quiet ==
  /\ [Proved!Next]_(Proved!vars)
  /\ transactions' = transactions
  /\ reply' = reply
  /\ \A d \in Calls : Proved!Succeeded(d)' <=> Proved!Succeeded(d)

LEMMA InvokeQuiet ==
  ASSUME Proved!IInv, NEW c \in Calls,
         NEW o \in ServiceCall(TrackingIds, Attempt), Service!Invoke(c, o)
  PROVE  /\ Quiet
         /\ op'[c] = o
         /\ op[c] = NoCall
         /\ \A d \in Calls \ {c} : op'[d] = op[d]
<1>1. /\ [Proved!Next]_(Proved!vars)
      /\ pc[c] = "idle"
      /\ op'[c] = o
      /\ pc'[c] = "invoked"
      /\ \A d \in Calls \ {c} : op'[d] = op[d] /\ pc'[d] = pc[d]
      /\ reply' = reply
  BY InvokeFrame
<1>2. transactions' = transactions
  BY DEF Service!Invoke
<1>3. \A d \in Calls : Proved!Succeeded(d)' <=> Proved!Succeeded(d)
  BY <1>1 DEF Proved!Succeeded
<1>4. op[c] = NoCall
  BY <1>1 DEF Proved!IInv, Proved!NoCall, NoCall
<1> QED
  BY <1>1, <1>2, <1>3, <1>4 DEF Quiet

LEMMA UntouchedQuiet ==
  ASSUME UNCHANGED serviceVars
  PROVE  Quiet /\ op' = op
BY DEF serviceVars, Quiet, Proved!vars, Proved!Succeeded

LEMMA ServiceFactsKept ==
  ASSUME ServiceFacts, [Proved!Next]_(Proved!vars)
  PROVE  ServiceFacts'
<1>1. Proved!IInv'
  BY OfferedHolds, Proved!NextKeepsInvariant DEF ServiceFacts
<1>2. Proved!AnswersStayTrue'
  BY OfferedHolds, Proved!AnswersInductive DEF ServiceFacts
<1>3. Proved!OneWinner'
  BY OfferedHolds, Proved!OneWinnerInductive DEF ServiceFacts
<1>4. CASE UNCHANGED Proved!vars
  BY <1>1, <1>2, <1>3, <1>4 DEF ServiceFacts, RepliesAtEnd, Proved!vars
<1>5. ASSUME NEW c \in Calls, NEW o, Proved!Invoke(c, o)
      PROVE  RepliesAtEnd'
  <2>1. /\ reply' = reply
        /\ \A d \in Calls : pc'[d] # "replied" => pc[d] # "replied"
    BY <1>5 DEF Proved!Invoke, ServiceFacts, Proved!IInv, Proved!TypeOK
  <2> QED
    BY <2>1 DEF ServiceFacts, RepliesAtEnd
<1>6. ASSUME NEW c \in Calls, Proved!Step(c)
      PROVE  RepliesAtEnd'
  <2>1. \A d \in Calls : pc'[d] # "replied" => reply'[d] = reply[d]
    BY <1>6, OfferedHolds, Proved!OnlyReplyAtEnd DEF ServiceFacts
  <2>2. /\ pc[c] # "replied"
        /\ \A d \in Calls \ {c} : pc'[d] = pc[d]
    BY <1>6, OfferedHolds, Proved!StepReplies DEF ServiceFacts
  <2> QED
    BY <2>1, <2>2 DEF ServiceFacts, RepliesAtEnd
<1> QED
  BY <1>1, <1>2, <1>3, <1>4, <1>5, <1>6 DEF ServiceFacts, Proved!Next

-------------------------------------------------------------------------------
(* What the handlers ask the service is a service call.                    *)
LEMMA RequestFields ==
  ASSUME NEW q \in ClientRequest
  PROVE  /\ q.name \in {"registerurl", "simulate", "show", "decide"}
         /\ q # NoRequest
         /\ q.name = "registerurl" =>
              q.shortCode \in ShortCodes /\ q.registration \in Registration
         /\ q.name = "simulate" =>
              q.shortCode \in ShortCodes /\ q.id \in TrackingIds
         /\ q.name \in {"show", "decide"} =>
              /\ q.id \in TrackingIds
              /\ ActOf(q) \in ServiceCall(TrackingIds, Attempt)
              /\ ActOf(q).name # "create"
         /\ q.name = "decide" =>
              ActOf(q).name \in {"transitionStk", "transitionBusinessPayment"}
<1>1. /\ q.name \in {"registerurl", "simulate", "show", "decide"}
      /\ q.name = "registerurl" =>
           q.shortCode \in ShortCodes /\ q.registration \in Registration
      /\ q.name = "simulate" =>
           q.shortCode \in ShortCodes /\ q.id \in TrackingIds
      /\ q.name = "show" => q.id \in TrackingIds
      /\ q.name = "decide" =>
           /\ q.id \in TrackingIds
           /\ q.to \in TerminalStatus
           /\ q.transition \in {"transitionStk", "transitionBusinessPayment"}
  BY DEF ClientRequest
<1>2. q # NoRequest
  BY <1>1 DEF NoRequest
<1>3. ASSUME q.name = "show"
      PROVE  /\ ActOf(q) \in ServiceCall(TrackingIds, Attempt)
             /\ ActOf(q).name = "getByTrackingId"
  BY <1>1, <1>3 DEF ActOf, ServiceCall, GetCall
<1>4. ASSUME q.name = "decide"
      PROVE  /\ ActOf(q) \in ServiceCall(TrackingIds, Attempt)
             /\ ActOf(q).name = q.transition
  BY <1>1, <1>4 DEF ActOf, ServiceCall, TransitionCall
<1> QED
  BY <1>1, <1>2, <1>3, <1>4

LEMMA FailureType ==
  ASSUME HandlersTyped, NEW r \in Requests
  PROVE  ValidationFailure(r) \in Result \cup {NoResult}
<1>1. ValidationFailure(r) \in
        {[code |-> "reject", desc |-> "rejected"],
         [code |-> "1", desc |-> "no decision"], NoResult}
  BY DEF ValidationFailure, getValidationFailure
<1>2. /\ [code |-> "reject", desc |-> "rejected"] \in Result
      /\ [code |-> "1", desc |-> "no decision"] \in Result
  BY DEF Result
<1> QED
  BY <1>1, <1>2

LEMMA SimulationCalls ==
  ASSUME HandlersTyped, NEW r \in Requests, request[r].name = "simulate"
  PROVE  /\ request[r].id \in TrackingIds
         /\ CreateOf(r) \in ServiceCall(TrackingIds, Attempt)
         /\ SettlementOf(r) \in ServiceCall(TrackingIds, Attempt)
         /\ \A x \in Exchanges, url \in Urls, o \in Outcome :
              [name    |-> "addCallbackAttempt",
               id      |-> request[r].id,
               attempt |-> [id |-> x, url |-> url, outcome |-> o]]
                 \in ServiceCall(TrackingIds, Attempt)
<1>1. request[r] \in ClientRequest
  <2>1. request[r] \in ClientRequest \cup {NoRequest}
    BY DEF HandlersTyped
  <2>2. NoRequest.name = "none"
    BY DEF NoRequest
  <2> QED
    BY <2>1, <2>2
<1>2. request[r].id \in TrackingIds
  BY <1>1, RequestFields
<1>3. ValidationFailure(r) \in Result \cup {NoResult}
  BY FailureType
<1>4. CreateOf(r) \in ServiceCall(TrackingIds, Attempt)
  BY <1>2 DEF CreateOf, ServiceCall, CreateCall, TransactionKind
<1>5. SettlementOf(r) \in ServiceCall(TrackingIds, Attempt)
  BY <1>2, <1>3 DEF SettlementOf, ServiceCall, TransitionCall
<1> QED
  BY <1>2, <1>4, <1>5 DEF ServiceCall, AttemptCall, Attempt

-------------------------------------------------------------------------------
(* A handler that no step concerns.                                        *)
Undisturbed(s) ==
  /\ request'[s] = request[s]
  /\ handler'[s] = handler[s]
  /\ registration'[s] = registration[s]
  /\ answer'[s] = answer[s]
  /\ \A c \in CallsOf(s) :
       op'[c] = op[c] /\ (Proved!Succeeded(c) => Proved!Succeeded(c)')
  /\ \A x \in {Validation(s), Confirmation(s)} :
       /\ phase'[x] = phase[x]
       /\ outcome'[x] = outcome[x]
       /\ sentTo'[x] = sentTo[x]

LEMMA Unmoved ==
  ASSUME NEW s \in Requests, HandlerInv(s), Undisturbed(s)
  PROVE  HandlerInv(s)'
<1>1. /\ request'[s] = request[s]
      /\ handler'[s] = handler[s]
      /\ registration'[s] = registration[s]
      /\ answer'[s] = answer[s]
  BY DEF Undisturbed
<1>2. \A c \in CallsOf(s) :
        op'[c] = op[c] /\ (Proved!Succeeded(c) => Proved!Succeeded(c)')
  BY DEF Undisturbed
<1>3. \A x \in {Validation(s), Confirmation(s)} :
        /\ phase'[x] = phase[x]
        /\ outcome'[x] = outcome[x]
        /\ sentTo'[x] = sentTo[x]
  BY DEF Undisturbed
<1>4. Simulation(s)' <=> Simulation(s)
  BY <1>1 DEF Simulation
<1>5. /\ CreateOf(s)' = CreateOf(s)
      /\ SettlementOf(s)' = SettlementOf(s)
      /\ (Rejected(s)' <=> Rejected(s))
      /\ RecordOf(s, Validation(s))' = RecordOf(s, Validation(s))
      /\ RecordOf(s, Confirmation(s))' = RecordOf(s, Confirmation(s))
  <2>1. ValidationFailure(s)' = ValidationFailure(s)
    BY <1>1, <1>3 DEF ValidationFailure, getValidationFailure
  <2> QED
    BY <1>1, <1>3, <2>1 DEF CreateOf, SettlementOf, Rejected, RecordOf
<1>6. CASE Simulation(s)
  <2>1. SimulationInv(s)
    BY <1>6 DEF HandlerInv
  <2>2. SimulationInv(s)'
    BY <1>1, <1>2, <1>3, <1>5, <2>1 DEF SimulationInv, CallsOf
  <2> QED
    BY <1>4, <1>6, <2>2 DEF HandlerInv
<1>7. CASE ~ Simulation(s)
  <2>1. OtherInv(s)
    BY <1>7 DEF HandlerInv
  <2>2. OtherInv(s)'
    BY <1>1, <1>2, <1>3, <2>1 DEF OtherInv, CallsOf, ActOf
  <2> QED
    BY <1>4, <1>7, <2>2 DEF HandlerInv
<1> QED
  BY <1>6, <1>7

(* Requests are made once; until then nothing is.                          *)
LEMMA IdleRequest ==
  ASSUME NEW r \in Requests, HandlerInv(r), handler[r] = "idle"
  PROVE  /\ request[r] = NoRequest
         /\ request[r].name = "none"
         /\ ~ Simulation(r)
         /\ registration[r] = NoRegistration
         /\ answer[r] = "no answer"
         /\ \A c \in CallsOf(r) : op[c] = NoCall
         /\ \A x \in {Validation(r), Confirmation(r)} :
              phase[x] = "idle" /\ sentTo[x] = "nowhere"
<1>1. ~ Simulation(r)
  BY DEF HandlerInv, SimulationInv
<1>2. OtherInv(r)
  BY <1>1 DEF HandlerInv
<1>3. request[r] = NoRequest /\ NoRequest.name = "none"
  BY <1>2 DEF OtherInv, NoRequest
<1> QED
  BY <1>1, <1>2, <1>3 DEF OtherInv, CallsOf

(* Registrations stay those of requests as long as they stay the same.     *)
LEMMA GivenStays ==
  ASSUME RegistrationsGiven, registrations' = registrations,
         \A r \in Requests :
           request[r].name # "none" => request'[r] = request[r],
         \A r \in Requests : Simulation(r)' =>
           Simulation(r) /\ request'[r] = request[r] /\
             registration'[r] = registration[r]
  PROVE  RegistrationsGiven'
<1>1. \A s \in Requests : \A k, g : Registers(s, k, g) => Registers(s, k, g)'
  BY DEF Registers
<1>2. \A shortCode \in ShortCodes :
        registrations'[shortCode] # NoRegistration =>
          \E s \in Requests :
            Registers(s, shortCode, registrations[shortCode])'
  BY <1>1 DEF RegistrationsGiven
<1>3. \A r \in Requests :
        Simulation(r)' =>
          \E s \in Requests :
            Registers(s, request[r].shortCode, registration[r])'
  <2> TAKE r \in Requests
  <2> HAVE Simulation(r)'
  <2>1. /\ Simulation(r)
        /\ request'[r] = request[r]
        /\ registration'[r] = registration[r]
    OBVIOUS
  <2>2. PICK s \in Requests :
          Registers(s, request[r].shortCode, registration[r])
    BY <2>1 DEF RegistrationsGiven
  <2>3. Registers(s, request[r].shortCode, registration[r])'
    BY <2>1, <2>2 DEF Registers
  <2> QED
    BY <2>3
<1> QED
  BY <1>2, <1>3 DEF RegistrationsGiven

(* The confirmation is recorded after the validation, and only if that     *)
(* does not fail the payment.                                              *)
LEMMA ValidationFirst ==
  ASSUME Proved!IInv, NEW r \in Requests, Simulation(r), HandlerInv(r),
         Proved!Succeeded(Confirmation(r))
  PROVE  /\ Proved!Succeeded(Validation(r))
         /\ handler[r] \notin BeforeDecision
         /\ ~ Rejected(r)
<1>1. SimulationInv(r)
  BY DEF HandlerInv
<1>2. Confirmation(r) \in Calls
  BY CallsDistinct DEF CallsOf
<1>3. op[Confirmation(r)] # NoCall
  BY <1>2 DEF Proved!IInv, Proved!Succeeded, Proved!NoCall, NoCall
<1>4. phase[Confirmation(r)] = "ended"
  BY <1>1, <1>3 DEF SimulationInv
<1> QED
  BY <1>1, <1>4 DEF SimulationInv

(* A step of a handler is quiet: no call ends.  What is said of the calls  *)
(* that ended and of the transactions stays true.                          *)
LEMMA QuietKeeps ==
  ASSUME CInv, Quiet, HandlersTyped', RegistrationsGiven',
         \A s \in Requests : HandlerInv(s)',
         \A s \in Requests :
           \/ request'[s] = request[s] /\ (Simulation(s)' => Simulation(s))
           \/ /\ handler[s] = "idle"
              /\ Simulation(s)' =>
                   transactions[request'[s].id] = NoTransaction
  PROVE  CInv'
<1>1. /\ [Proved!Next]_(Proved!vars)
      /\ transactions' = transactions
      /\ reply' = reply
      /\ \A d \in Calls : Proved!Succeeded(d)' <=> Proved!Succeeded(d)
  BY DEF Quiet
<1>2. ServiceFacts /\ Proved!IInv /\ RepliesAtEnd
  BY DEF CInv, ServiceFacts
<1>3. ServiceFacts'
  BY <1>1, <1>2, ServiceFactsKept
<1>4. OnlyC2B'
  BY <1>1 DEF CInv, OnlyC2B
<1>5. \A d \in Calls : Proved!Succeeded(d) => op'[d] = op[d]
  BY <1>1, <1>2, SucceededStays
<1>6. ASSUME NEW s \in Requests, handler[s] = "idle"
      PROVE  \A c \in CallsOf(s) :
               ~ Proved!Succeeded(c)' /\ reply'[c].error \notin ErrorCode
  <2>1. \A c \in CallsOf(s) : op[c] = NoCall
    BY <1>6, IdleRequest DEF CInv
  <2>2. CallsOf(s) \subseteq Calls
    BY CallsDistinct
  <2>3. \A c \in CallsOf(s) : pc[c] = "idle"
    BY <1>2, <2>1, <2>2 DEF Proved!IInv, Proved!NoCall, NoCall
  <2>4. \A c \in CallsOf(s) : ~ Proved!Succeeded(c)
    BY <2>3 DEF Proved!Succeeded
  <2>5. \A c \in CallsOf(s) : reply[c].error \notin ErrorCode
    BY <1>2, <2>2, <2>3 DEF RepliesAtEnd
  <2> QED
    BY <1>1, <2>2, <2>4, <2>5
<1>7. OthersSettleNothing'
  <2> SUFFICES ASSUME NEW s \in Requests, request'[s].name = "decide"
               PROVE  ~ Proved!Succeeded(First(s))'
    BY DEF OthersSettleNothing, First
  <2>1. First(s) \in Calls /\ First(s) \in CallsOf(s)
    BY CallsDistinct DEF CallsOf
  <2>2. CASE request'[s] = request[s]
    BY <1>1, <2>1, <2>2 DEF CInv, OthersSettleNothing
  <2> QED
    BY <1>6, <2>1, <2>2
<1>8. NothingThrown'
  <2> SUFFICES ASSUME NEW s \in Requests, Simulation(s)'
               PROVE  \A c \in CallsOf(s) : reply'[c].error \notin ErrorCode
    BY DEF NothingThrown, CallsOf, First, Settlement, Validation, Confirmation
  <2>1. CASE Simulation(s)
    BY <1>1, <2>1 DEF CInv, NothingThrown
  <2> QED
    BY <1>6, <2>1
<1>9. AttemptsOfSimulation'
  <2> SUFFICES ASSUME NEW s \in Requests, Simulation(s)',
                      transactions'[request'[s].id] # NoTransaction
               PROVE  transactions'[request'[s].id].callbackAttempts =
                        RecordedBy(s)'
    BY DEF AttemptsOfSimulation
  <2>1. request'[s] = request[s] /\ Simulation(s)
    BY <1>1
  <2>2. RecordedBy(s)' = RecordedBy(s)
    <3>1. Validation(s) \in Calls /\ Confirmation(s) \in Calls
      BY CallsDistinct DEF CallsOf
    <3>2. Proved!Succeeded(Confirmation(s)) => Proved!Succeeded(Validation(s))
      BY <1>2, <2>1, ValidationFirst DEF CInv
    <3> QED
      BY <1>1, <1>5, <3>1, <3>2 DEF RecordedBy
  <2> QED
    BY <1>1, <2>1, <2>2 DEF CInv, AttemptsOfSimulation
<1> QED
  BY <1>3, <1>4, <1>7, <1>8, <1>9 DEF CInv

-------------------------------------------------------------------------------
(* The steps of a handler.                                                 *)
LEMMA OthersUndisturbed ==
  ASSUME Quiet, NEW r \in Requests,
         \A s \in Requests \ {r} :
           /\ request'[s] = request[s]
           /\ handler'[s] = handler[s]
           /\ registration'[s] = registration[s]
           /\ answer'[s] = answer[s],
         \A c \in Calls \ CallsOf(r) : op'[c] = op[c],
         \A x \in Exchanges \ {Validation(r), Confirmation(r)} :
           /\ phase'[x] = phase[x]
           /\ outcome'[x] = outcome[x]
           /\ sentTo'[x] = sentTo[x]
  PROVE  \A s \in Requests \ {r} : Undisturbed(s)
<1> TAKE s \in Requests \ {r}
<1>1. CallsOf(s) \subseteq Calls /\ CallsOf(s) \cap CallsOf(r) = {}
  BY CallsDistinct
<1>2. \A c \in CallsOf(s) :
        op'[c] = op[c] /\ (Proved!Succeeded(c) => Proved!Succeeded(c)')
  BY <1>1 DEF Quiet
<1>3. {Validation(s), Confirmation(s)} \subseteq
        Exchanges \ {Validation(r), Confirmation(r)}
  BY <1>1, CallsDistinct DEF CallsOf
<1> QED
  BY <1>2, <1>3 DEF Undisturbed

LEMMA HandlerStepKeeps ==
  ASSUME CInv, Quiet, NEW r \in Requests, HandlersTyped', HandlerInv(r)',
         UNCHANGED << registrations, request, registration >>,
         \A s \in Requests \ {r} :
           handler'[s] = handler[s] /\ answer'[s] = answer[s],
         \A c \in Calls \ CallsOf(r) : op'[c] = op[c],
         \A x \in Exchanges \ {Validation(r), Confirmation(r)} :
           /\ phase'[x] = phase[x]
           /\ outcome'[x] = outcome[x]
           /\ sentTo'[x] = sentTo[x]
  PROVE  CInv'
<1>1. \A s \in Requests \ {r} : Undisturbed(s)
  BY OthersUndisturbed
<1>2. \A s \in Requests : HandlerInv(s)'
  BY <1>1, Unmoved DEF CInv
<1>3. \A s \in Requests : Simulation(s)' <=> Simulation(s)
  BY DEF Simulation
<1>4. RegistrationsGiven'
  BY <1>3, GivenStays DEF CInv
<1> QED
  BY <1>2, <1>3, <1>4, QuietKeeps

(* A handler that has something to wait for is that of a simulation, but   *)
(* for the single calls of the other routes.                               *)
LEMMA Running ==
  ASSUME HandlersTyped, NEW r \in Requests, HandlerInv(r),
         \/ handler[r] \notin {"idle", "calling", "answered"}
         \/ handler[r] = "calling" /\ request[r].name = "simulate"
  PROVE  /\ Simulation(r)
         /\ SimulationInv(r)
         /\ registration[r] \in Registration
<1>1. Simulation(r)
  BY DEF HandlerInv, OtherInv
<1> QED
  BY <1>1 DEF HandlerInv, Simulation, HandlersTyped

LEMMA SameTerms ==
  ASSUME NEW r \in Requests, request'[r] = request[r],
         registration'[r] = registration[r]
  PROVE  /\ CreateOf(r)' = CreateOf(r)
         /\ outcome'[Validation(r)] = outcome[Validation(r)] =>
              /\ ValidationFailure(r)' = ValidationFailure(r)
              /\ (Rejected(r)' <=> Rejected(r))
              /\ SettlementOf(r)' = SettlementOf(r)
         /\ \A x : outcome'[x] = outcome[x] /\ sentTo'[x] = sentTo[x] =>
                     RecordOf(r, x)' = RecordOf(r, x)
<1>1. CreateOf(r)' = CreateOf(r)
  BY DEF CreateOf
<1>2. ASSUME outcome'[Validation(r)] = outcome[Validation(r)]
      PROVE  ValidationFailure(r)' = ValidationFailure(r)
  BY <1>2 DEF ValidationFailure, getValidationFailure
<1>3. ASSUME outcome'[Validation(r)] = outcome[Validation(r)]
      PROVE  /\ (Rejected(r)' <=> Rejected(r))
             /\ SettlementOf(r)' = SettlementOf(r)
  BY <1>2, <1>3 DEF Rejected, SettlementOf
<1>4. \A x : outcome'[x] = outcome[x] /\ sentTo'[x] = sentTo[x] =>
                RecordOf(r, x)' = RecordOf(r, x)
  BY DEF RecordOf
<1> QED
  BY <1>1, <1>2, <1>3, <1>4

LEMMA FinishKeeps ==
  ASSUME CInv, NEW r \in Requests, Finish(r)
  PROVE  CInv'
<1>1. Quiet /\ op' = op
  BY UntouchedQuiet DEF Finish
<1>2. /\ request[r].name \in {"show", "decide"}
      /\ handler' = [handler EXCEPT ![r] = "answered"]
      /\ answer' = [answer EXCEPT ![r] = "none"]
      /\ UNCHANGED << exchangeVars, registrations, request, registration,
                      sentTo >>
  BY DEF Finish, Answer, GoTo
<1>3. HandlersTyped
  BY DEF CInv
<1>4. HandlersTyped'
  BY <1>2, <1>3
     DEF HandlersTyped, HandlerState, exchangeVars, Exchange!TypeOK
<1>5. ~ Simulation(r) /\ ~ Simulation(r)'
  BY <1>2 DEF Simulation
<1>6. OtherInv(r) /\ handler[r] # "idle"
  <2>1. HandlerInv(r)
    BY DEF CInv
  <2>2. OtherInv(r)
    BY <1>5, <2>1 DEF HandlerInv
  <2>3. request[r] # NoRequest
    BY <1>2 DEF NoRequest
  <2> QED
    BY <2>2, <2>3 DEF OtherInv
<1>7. handler'[r] = "answered"
  BY <1>2, <1>3 DEF HandlersTyped
<1>8. OtherInv(r)'
  BY <1>1, <1>2, <1>6, <1>7 DEF OtherInv, exchangeVars, ActOf
<1>9. HandlerInv(r)'
  BY <1>5, <1>8 DEF HandlerInv
<1>10. \A s \in Requests \ {r} :
         handler'[s] = handler[s] /\ answer'[s] = answer[s]
  BY <1>2, <1>3 DEF HandlersTyped
<1> QED
  BY <1>1, <1>2, <1>4, <1>9, <1>10, HandlerStepKeeps DEF exchangeVars

LEMMA FailKeeps ==
  ASSUME CInv, NEW r \in Requests, Fail(r)
  PROVE  CInv'
<1>1. PICK c \in Calls :
        /\ c[1] = r
        /\ reply[c].error \in ErrorCode
        /\ Answer(r, reply[c].error)
        /\ UNCHANGED << serviceVars, exchangeVars, registrations, request,
                        registration, sentTo >>
  BY DEF Fail
<1>2. c \in CallsOf(r)
  BY <1>1, CallsDistinct
<1>3. ~ Simulation(r) /\ ~ Simulation(r)'
  BY <1>1, <1>2 DEF CInv, NothingThrown, Simulation
<1>4. op[c] # NoCall
  <2>1. pc[c] = "replied"
    BY <1>1 DEF CInv, ServiceFacts, RepliesAtEnd
  <2> QED
    BY <2>1 DEF CInv, ServiceFacts, Proved!IInv, Proved!NoCall, NoCall
<1>5. OtherInv(r) /\ handler[r] # "idle"
  <2>1. HandlerInv(r)
    BY DEF CInv
  <2>2. handler[r] # "idle"
    BY <1>2, <1>4, <2>1, IdleRequest
  <2> QED
    BY <1>3, <2>1, <2>2 DEF HandlerInv
<1>6. Quiet /\ op' = op
  BY <1>1, UntouchedQuiet
<1>7. HandlersTyped
  BY DEF CInv
<1>8. /\ handler' = [handler EXCEPT ![r] = "answered"]
      /\ answer' = [answer EXCEPT ![r] = reply[c].error]
      /\ UNCHANGED << exchangeVars, registrations, request, registration,
                      sentTo >>
  BY <1>1 DEF Answer, GoTo
<1>9. HandlersTyped'
  BY <1>1, <1>7, <1>8
     DEF HandlersTyped, HandlerState, exchangeVars, Exchange!TypeOK
<1>10. handler'[r] = "answered"
  BY <1>7, <1>8 DEF HandlersTyped
<1>11. OtherInv(r)'
  BY <1>5, <1>6, <1>8, <1>10 DEF OtherInv, exchangeVars, ActOf
<1>12. HandlerInv(r)'
  BY <1>3, <1>11 DEF HandlerInv
<1>13. \A s \in Requests \ {r} :
         handler'[s] = handler[s] /\ answer'[s] = answer[s]
  BY <1>7, <1>8 DEF HandlersTyped
<1> QED
  BY <1>6, <1>8, <1>9, <1>12, <1>13, HandlerStepKeeps DEF exchangeVars

(* A simulation sends a callback.                                          *)
LEMMA SendValidationKeeps ==
  ASSUME CInv, NEW r \in Requests, SendValidation(r)
  PROVE  CInv'
<1> DEFINE v == Validation(r)
<1> DEFINE d == Confirmation(r)
<1>1. HandlersTyped /\ HandlerInv(r)
  BY DEF CInv
<1>2. /\ handler[r] = "calling"
      /\ request[r].name = "simulate"
      /\ Proved!Succeeded(First(r))
      /\ phase[v] = "idle"
      /\ phase' = [phase EXCEPT ![v] = "open"]
      /\ sentTo' = [sentTo EXCEPT ![v] = registration[r].ValidationURL]
      /\ handler' = [handler EXCEPT ![r] = "validating"]
      /\ UNCHANGED << arrived, outcome, serviceVars, registrations, request,
                      registration, answer >>
  BY DEF SendValidation, Resumes, Dispatch, Exchange!Start, GoTo,
         Proved!Succeeded
<1>3. /\ Simulation(r)
      /\ SimulationInv(r)
      /\ registration[r] \in Registration
  BY <1>1, <1>2, Running
<1>4. Quiet /\ op' = op
  BY <1>2, UntouchedQuiet
<1>5. v \in Exchanges /\ d \in Exchanges /\ v # d
  BY CallsDistinct
<1> HIDE DEF v, d
<1>6. HandlersTyped'
  BY <1>1, <1>2, <1>3, <1>5
     DEF HandlersTyped, HandlerState, Exchange!TypeOK, Registration
<1>7. /\ handler'[r] = "validating"
      /\ phase'[v] = "open" /\ phase'[d] = phase[d]
      /\ sentTo'[v] = registration[r].ValidationURL
      /\ sentTo'[d] = sentTo[d]
  BY <1>1, <1>2, <1>5 DEF HandlersTyped, Exchange!TypeOK
<1>8. /\ CreateOf(r)' = CreateOf(r)
      /\ SettlementOf(r)' = SettlementOf(r)
      /\ Rejected(r)' <=> Rejected(r)
  BY <1>2, SameTerms
<1>9. \A c \in CallsOf(r) : Proved!Succeeded(c)' <=> Proved!Succeeded(c)
  BY <1>4, CallsDistinct DEF Quiet
<1>10. SimulationInv(r)'
  BY <1>2, <1>3, <1>4, <1>7, <1>8, <1>9
     DEF SimulationInv, CallsOf, BeforeDecision, Ending, v, d
<1>11. HandlerInv(r)'
  BY <1>2, <1>3, <1>10 DEF HandlerInv, Simulation
<1>12. \A s \in Requests \ {r} :
         handler'[s] = handler[s] /\ answer'[s] = answer[s]
  BY <1>1, <1>2 DEF HandlersTyped
<1>13. \A x \in Exchanges \ {v, d} :
         /\ phase'[x] = phase[x]
         /\ outcome'[x] = outcome[x]
         /\ sentTo'[x] = sentTo[x]
  BY <1>1, <1>2 DEF HandlersTyped, Exchange!TypeOK
<1> QED
  BY <1>2, <1>4, <1>6, <1>11, <1>12, <1>13, HandlerStepKeeps DEF v, d

LEMMA SendConfirmationKeeps ==
  ASSUME CInv, NEW r \in Requests, SendConfirmation(r)
  PROVE  CInv'
<1> DEFINE v == Validation(r)
<1> DEFINE d == Confirmation(r)
<1>1. HandlersTyped /\ HandlerInv(r)
  BY DEF CInv
<1>2. /\ handler[r] = "recordingValidation"
      /\ Proved!Succeeded(v)
      /\ ~ Rejected(r)
      /\ phase[d] = "idle"
      /\ phase' = [phase EXCEPT ![d] = "open"]
      /\ sentTo' = [sentTo EXCEPT ![d] = registration[r].ConfirmationURL]
      /\ handler' = [handler EXCEPT ![r] = "confirming"]
      /\ UNCHANGED << arrived, outcome, serviceVars, registrations, request,
                      registration, answer >>
  BY DEF SendConfirmation, Resumes, Dispatch, Exchange!Start, GoTo,
         Proved!Succeeded, ConfirmationURL, Rejected
<1>3. /\ Simulation(r)
      /\ SimulationInv(r)
      /\ registration[r] \in Registration
  BY <1>1, <1>2, Running
<1>4. Quiet /\ op' = op
  BY <1>2, UntouchedQuiet
<1>5. v \in Exchanges /\ d \in Exchanges /\ v # d
  BY CallsDistinct
<1> HIDE DEF v, d
<1>6. HandlersTyped'
  BY <1>1, <1>2, <1>3, <1>5
     DEF HandlersTyped, HandlerState, Exchange!TypeOK, Registration
<1>7. /\ handler'[r] = "confirming"
      /\ phase'[d] = "open" /\ phase'[v] = phase[v]
      /\ sentTo'[d] = registration[r].ConfirmationURL
      /\ sentTo'[v] = sentTo[v]
  BY <1>1, <1>2, <1>5 DEF HandlersTyped, Exchange!TypeOK
<1>8. /\ CreateOf(r)' = CreateOf(r)
      /\ SettlementOf(r)' = SettlementOf(r)
      /\ Rejected(r)' <=> Rejected(r)
      /\ RecordOf(r, v)' = RecordOf(r, v)
  BY <1>2, <1>7, SameTerms
<1>9. \A c \in CallsOf(r) : Proved!Succeeded(c)' <=> Proved!Succeeded(c)
  BY <1>4, CallsDistinct DEF Quiet
<1>10. SimulationInv(r)'
  BY <1>2, <1>3, <1>4, <1>7, <1>8, <1>9
     DEF SimulationInv, CallsOf, BeforeDecision, Ending, v, d
<1>11. HandlerInv(r)'
  BY <1>2, <1>3, <1>10 DEF HandlerInv, Simulation
<1>12. \A s \in Requests \ {r} :
         handler'[s] = handler[s] /\ answer'[s] = answer[s]
  BY <1>1, <1>2 DEF HandlersTyped
<1>13. \A x \in Exchanges \ {v, d} :
         /\ phase'[x] = phase[x]
         /\ outcome'[x] = outcome[x]
         /\ sentTo'[x] = sentTo[x]
  BY <1>1, <1>2 DEF HandlersTyped, Exchange!TypeOK
<1> QED
  BY <1>2, <1>4, <1>6, <1>11, <1>12, <1>13, HandlerStepKeeps DEF v, d

(* A dispatch returns, and the attempt is recorded.                        *)
LEMMA EndValidationKeeps ==
  ASSUME CInv, NEW r \in Requests, NEW o \in Outcome, EndValidation(r, o)
  PROVE  CInv'
<1> DEFINE v == Validation(r)
<1> DEFINE d == Confirmation(r)
<1> DEFINE call == [name    |-> "addCallbackAttempt",
                    id      |-> request[r].id,
                    attempt |-> [id |-> v, url |-> sentTo[v], outcome |-> o]]
<1>1. HandlersTyped /\ HandlerInv(r) /\ Proved!IInv
  BY DEF CInv, ServiceFacts
<1>2. /\ handler[r] = "validating"
      /\ phase[v] = "open"
      /\ phase' = [phase EXCEPT ![v] = "ended"]
      /\ outcome' = [outcome EXCEPT ![v] = o]
      /\ handler' = [handler EXCEPT ![r] = "recordingValidation"]
      /\ Service!Invoke(v, call)
      /\ UNCHANGED << arrived, registrations, request, registration, sentTo,
                      answer >>
  BY CallsDistinct DEF EndValidation, EndDispatch, Exchange!End, GoTo
<1>3. /\ Simulation(r)
      /\ SimulationInv(r)
      /\ registration[r] \in Registration
      /\ request[r].name = "simulate"
  BY <1>1, <1>2, Running DEF Simulation
<1>4. /\ v \in Exchanges /\ d \in Exchanges /\ v # d
      /\ v \in Calls /\ d \in Calls
      /\ First(r) # v /\ Settlement(r) # v
      /\ First(r) \in Calls /\ Settlement(r) \in Calls
  BY CallsDistinct DEF CallsOf
<1>5. sentTo[v] \in Urls
  BY <1>2, <1>3 DEF SimulationInv, Registration
<1>6. call \in ServiceCall(TrackingIds, Attempt)
  BY <1>1, <1>3, <1>4, <1>5, SimulationCalls
<1> HIDE DEF v, d, call
<1>7. /\ Quiet
      /\ op'[v] = call
      /\ \A e \in Calls \ {v} : op'[e] = op[e]
  BY <1>1, <1>2, <1>4, <1>6, InvokeQuiet
<1>8. /\ handler'[r] = "recordingValidation"
      /\ phase'[v] = "ended" /\ phase'[d] = phase[d]
      /\ outcome'[v] = o /\ outcome'[d] = outcome[d]
      /\ sentTo' = sentTo
  BY <1>1, <1>2, <1>4 DEF HandlersTyped, Exchange!TypeOK
<1>9. HandlersTyped'
  <2>1. o \in Exchange!Outcome
    BY DEF Outcome, Exchange!Outcome, Exchange!NoBody
  <2> QED
    BY <1>1, <1>2, <1>4, <2>1
       DEF HandlersTyped, HandlerState, Exchange!TypeOK
<1>10. call = RecordOf(r, v)'
  BY <1>2, <1>8 DEF RecordOf, call
<1>11. CreateOf(r)' = CreateOf(r)
  BY <1>2, SameTerms
<1>12. \A c \in CallsOf(r) : Proved!Succeeded(c)' <=> Proved!Succeeded(c)
  BY <1>7, CallsDistinct DEF Quiet
<1>13. SimulationInv(r)'
  <2>1. op'[First(r)] = op[First(r)] /\ op'[Settlement(r)] = op[Settlement(r)]
    BY <1>4, <1>7
  <2>2. op'[d] = op[d]
    BY <1>4, <1>7
  <2>3. /\ Proved!Succeeded(First(r))' <=> Proved!Succeeded(First(r))
        /\ Proved!Succeeded(v)' <=> Proved!Succeeded(v)
        /\ Proved!Succeeded(d)' <=> Proved!Succeeded(d)
    BY <1>12 DEF CallsOf, v, d
  <2> QED
    BY <1>2, <1>3, <1>7, <1>8, <1>10, <1>11, <2>1, <2>2, <2>3
       DEF SimulationInv, BeforeDecision, Ending, v, d
<1>14. HandlerInv(r)'
  BY <1>2, <1>3, <1>13 DEF HandlerInv, Simulation
<1>15. \A s \in Requests \ {r} :
         handler'[s] = handler[s] /\ answer'[s] = answer[s]
  BY <1>1, <1>2 DEF HandlersTyped
<1>16. \A e \in Exchanges \ {v, d} :
         /\ phase'[e] = phase[e]
         /\ outcome'[e] = outcome[e]
         /\ sentTo'[e] = sentTo[e]
  BY <1>1, <1>2 DEF HandlersTyped, Exchange!TypeOK
<1>17. \A c \in Calls \ CallsOf(r) : op'[c] = op[c]
  BY <1>7 DEF CallsOf, v, d
<1> QED
  BY <1>2, <1>7, <1>9, <1>14, <1>15, <1>16, <1>17, HandlerStepKeeps
     DEF v, d

LEMMA EndConfirmationKeeps ==
  ASSUME CInv, NEW r \in Requests, NEW o \in Outcome, EndConfirmation(r, o)
  PROVE  CInv'
<1> DEFINE v == Validation(r)
<1> DEFINE d == Confirmation(r)
<1> DEFINE call == [name    |-> "addCallbackAttempt",
                    id      |-> request[r].id,
                    attempt |-> [id |-> d, url |-> sentTo[d], outcome |-> o]]
<1>1. HandlersTyped /\ HandlerInv(r) /\ Proved!IInv
  BY DEF CInv, ServiceFacts
<1>2. /\ handler[r] = "confirming"
      /\ phase[d] = "open"
      /\ phase' = [phase EXCEPT ![d] = "ended"]
      /\ outcome' = [outcome EXCEPT ![d] = o]
      /\ handler' = [handler EXCEPT ![r] = "recordingConfirmation"]
      /\ Service!Invoke(d, call)
      /\ UNCHANGED << arrived, registrations, request, registration, sentTo,
                      answer >>
  BY CallsDistinct DEF EndConfirmation, EndDispatch, Exchange!End, GoTo
<1>3. /\ Simulation(r)
      /\ SimulationInv(r)
      /\ registration[r] \in Registration
      /\ request[r].name = "simulate"
  BY <1>1, <1>2, Running DEF Simulation
<1>4. /\ v \in Exchanges /\ d \in Exchanges /\ v # d
      /\ v \in Calls /\ d \in Calls
      /\ First(r) # d /\ Settlement(r) # d
      /\ First(r) \in Calls /\ Settlement(r) \in Calls
  BY CallsDistinct DEF CallsOf
<1>5. sentTo[d] \in Urls
  BY <1>2, <1>3 DEF SimulationInv, Registration
<1>6. call \in ServiceCall(TrackingIds, Attempt)
  BY <1>1, <1>3, <1>4, <1>5, SimulationCalls
<1> HIDE DEF v, d, call
<1>7. /\ Quiet
      /\ op'[d] = call
      /\ \A e \in Calls \ {d} : op'[e] = op[e]
  BY <1>1, <1>2, <1>4, <1>6, InvokeQuiet
<1>8. /\ handler'[r] = "recordingConfirmation"
      /\ phase'[d] = "ended" /\ phase'[v] = phase[v]
      /\ outcome'[d] = o /\ outcome'[v] = outcome[v]
      /\ sentTo' = sentTo
  BY <1>1, <1>2, <1>4 DEF HandlersTyped, Exchange!TypeOK
<1>9. HandlersTyped'
  <2>1. o \in Exchange!Outcome
    BY DEF Outcome, Exchange!Outcome, Exchange!NoBody
  <2> QED
    BY <1>1, <1>2, <1>4, <2>1
       DEF HandlersTyped, HandlerState, Exchange!TypeOK
<1>10. call = RecordOf(r, d)'
  BY <1>2, <1>8 DEF RecordOf, call
<1>11. CreateOf(r)' = CreateOf(r)
  BY <1>2, SameTerms
<1>12. /\ Rejected(r)' <=> Rejected(r)
       /\ RecordOf(r, v)' = RecordOf(r, v)
  BY <1>2, <1>8, SameTerms DEF v
<1>13. \A c \in CallsOf(r) : Proved!Succeeded(c)' <=> Proved!Succeeded(c)
  BY <1>7, CallsDistinct DEF Quiet
<1>14. SimulationInv(r)'
  <2>1. op'[First(r)] = op[First(r)] /\ op'[Settlement(r)] = op[Settlement(r)]
    BY <1>4, <1>7
  <2>2. op'[v] = op[v]
    BY <1>4, <1>7
  <2>3. /\ Proved!Succeeded(First(r))' <=> Proved!Succeeded(First(r))
        /\ Proved!Succeeded(v)' <=> Proved!Succeeded(v)
        /\ Proved!Succeeded(d)' <=> Proved!Succeeded(d)
    BY <1>13 DEF CallsOf, v, d
  <2> QED
    BY <1>2, <1>3, <1>7, <1>8, <1>10, <1>11, <1>12, <2>1, <2>2, <2>3,
       ZenonT(40) DEF SimulationInv, BeforeDecision, Ending, v, d
<1>15. HandlerInv(r)'
  BY <1>2, <1>3, <1>14 DEF HandlerInv, Simulation
<1>16. \A s \in Requests \ {r} :
         handler'[s] = handler[s] /\ answer'[s] = answer[s]
  BY <1>1, <1>2 DEF HandlersTyped
<1>17. \A e \in Exchanges \ {v, d} :
         /\ phase'[e] = phase[e]
         /\ outcome'[e] = outcome[e]
         /\ sentTo'[e] = sentTo[e]
  BY <1>1, <1>2 DEF HandlersTyped, Exchange!TypeOK
<1>18. \A c \in Calls \ CallsOf(r) : op'[c] = op[c]
  BY <1>7 DEF CallsOf, v, d
<1> QED
  BY <1>2, <1>7, <1>9, <1>15, <1>16, <1>17, <1>18, HandlerStepKeeps
     DEF v, d

(* A simulation settles its transaction.                                   *)
LEMMA SettleKeeps ==
  ASSUME CInv, NEW r \in Requests,
         \/ /\ handler[r] = "recordingValidation"
            /\ Rejected(r)
            /\ Proved!Succeeded(Validation(r))
         \/ /\ handler[r] = "recordingConfirmation"
            /\ Proved!Succeeded(Confirmation(r)),
         SettleAs(r, SettlementOf(r).to, SettlementOf(r).result)
  PROVE  CInv'
<1> DEFINE v == Validation(r)
<1> DEFINE d == Confirmation(r)
<1> DEFINE e == Settlement(r)
<1>1. HandlersTyped /\ HandlerInv(r) /\ Proved!IInv
  BY DEF CInv, ServiceFacts
<1>2. /\ handler' = [handler EXCEPT ![r] = "settling"]
      /\ Service!Invoke(e, SettlementOf(r))
      /\ UNCHANGED << exchangeVars, registrations, request, registration,
                      sentTo, answer >>
  BY DEF SettleAs, GoTo, SettlementOf
<1>3. /\ Simulation(r)
      /\ SimulationInv(r)
      /\ request[r].name = "simulate"
  BY <1>1, Running DEF Simulation
<1>4. /\ v \in Calls /\ d \in Calls /\ e \in Calls /\ First(r) \in Calls
      /\ First(r) # e /\ v # e /\ d # e
  BY CallsDistinct DEF CallsOf
<1>5. SettlementOf(r) \in ServiceCall(TrackingIds, Attempt)
  BY <1>1, <1>3, SimulationCalls
<1> HIDE DEF v, d, e
<1>6. /\ Quiet
      /\ op'[e] = SettlementOf(r)
      /\ \A c \in Calls \ {e} : op'[c] = op[c]
  BY <1>1, <1>2, <1>4, <1>5, InvokeQuiet
<1>7. HandlersTyped'
  BY <1>1, <1>2
     DEF HandlersTyped, HandlerState, exchangeVars, Exchange!TypeOK
<1>8. /\ handler'[r] = "settling"
      /\ phase' = phase /\ outcome' = outcome
  BY <1>1, <1>2 DEF HandlersTyped, exchangeVars
<1>9. /\ CreateOf(r)' = CreateOf(r)
      /\ SettlementOf(r)' = SettlementOf(r)
      /\ Rejected(r)' <=> Rejected(r)
      /\ RecordOf(r, v)' = RecordOf(r, v)
      /\ RecordOf(r, d)' = RecordOf(r, d)
  BY <1>2, <1>8, SameTerms
<1>10. SimulationInv(r)'
  <2>1. op'[First(r)] = op[First(r)] /\ op'[v] = op[v] /\ op'[d] = op[d]
    BY <1>4, <1>6
  <2>2. /\ Proved!Succeeded(First(r))' <=> Proved!Succeeded(First(r))
        /\ Proved!Succeeded(v)' <=> Proved!Succeeded(v)
        /\ Proved!Succeeded(d)' <=> Proved!Succeeded(d)
    BY <1>4, <1>6 DEF Quiet
  <2> QED
    BY <1>2, <1>3, <1>6, <1>8, <1>9, <2>1, <2>2
       DEF SimulationInv, BeforeDecision, Ending, v, d, e
<1>11. HandlerInv(r)'
  BY <1>2, <1>3, <1>10 DEF HandlerInv, Simulation
<1>12. \A s \in Requests \ {r} :
         handler'[s] = handler[s] /\ answer'[s] = answer[s]
  BY <1>1, <1>2 DEF HandlersTyped
<1>13. \A c \in Calls \ CallsOf(r) : op'[c] = op[c]
  BY <1>6 DEF CallsOf, e
<1> QED
  BY <1>2, <1>6, <1>7, <1>8, <1>11, <1>12, <1>13, HandlerStepKeeps

LEMMA RejectKeeps ==
  ASSUME CInv, NEW r \in Requests, Reject(r)
  PROVE  CInv'
<1>1. Rejected(r)
  BY DEF Reject, Rejected
<1>2. SettlementOf(r).to = "FAILED"
      /\ SettlementOf(r).result = ValidationFailure(r)
  BY <1>1 DEF SettlementOf
<1> QED
  BY <1>1, <1>2, SettleKeeps DEF Reject, Resumes, Proved!Succeeded

LEMMA CompleteKeeps ==
  ASSUME CInv, NEW r \in Requests, Complete(r)
  PROVE  CInv'
<1>1. HandlersTyped /\ HandlerInv(r) /\ handler[r] = "recordingConfirmation"
  BY DEF CInv, Complete, Resumes
<1>2. ~ Rejected(r)
  BY <1>1, Running DEF SimulationInv
<1>3. SettlementOf(r).to = "SUCCESS" /\ SettlementOf(r).result = NoResult
  BY <1>2 DEF SettlementOf, Rejected
<1> QED
  BY <1>3, SettleKeeps DEF Complete, Resumes, Proved!Succeeded

LEMMA AcknowledgeKeeps ==
  ASSUME CInv, NEW r \in Requests, Acknowledge(r)
  PROVE  CInv'
<1>1. HandlersTyped /\ HandlerInv(r)
  BY DEF CInv
<1>2. /\ handler[r] = "settling"
      /\ Proved!Succeeded(Settlement(r))
      /\ handler' = [handler EXCEPT ![r] = "answered"]
      /\ answer' = [answer EXCEPT ![r] = "none"]
      /\ UNCHANGED << serviceVars, exchangeVars, registrations, request,
                      registration, sentTo >>
  BY DEF Acknowledge, Resumes, Answer, GoTo, Proved!Succeeded
<1>3. Simulation(r) /\ SimulationInv(r)
  BY <1>1, <1>2, Running
<1>4. Quiet /\ op' = op
  BY <1>2, UntouchedQuiet
<1>5. HandlersTyped'
  BY <1>1, <1>2
     DEF HandlersTyped, HandlerState, exchangeVars, Exchange!TypeOK
<1>6. /\ handler'[r] = "answered"
      /\ answer'[r] = "none"
      /\ phase' = phase /\ outcome' = outcome
  BY <1>1, <1>2 DEF HandlersTyped, exchangeVars
<1>7. /\ CreateOf(r)' = CreateOf(r)
      /\ SettlementOf(r)' = SettlementOf(r)
      /\ Rejected(r)' <=> Rejected(r)
      /\ RecordOf(r, Validation(r))' = RecordOf(r, Validation(r))
      /\ RecordOf(r, Confirmation(r))' = RecordOf(r, Confirmation(r))
  BY <1>2, <1>6, SameTerms
<1>8. \A c \in CallsOf(r) : Proved!Succeeded(c)' <=> Proved!Succeeded(c)
  BY <1>4, CallsDistinct DEF Quiet
<1>9. SimulationInv(r)'
  BY <1>2, <1>3, <1>4, <1>6, <1>7, <1>8
     DEF SimulationInv, CallsOf, BeforeDecision, Ending
<1>10. HandlerInv(r)'
  BY <1>2, <1>3, <1>9 DEF HandlerInv, Simulation
<1>11. \A s \in Requests \ {r} :
         handler'[s] = handler[s] /\ answer'[s] = answer[s]
  BY <1>1, <1>2 DEF HandlersTyped
<1> QED
  BY <1>2, <1>4, <1>5, <1>6, <1>10, <1>11, HandlerStepKeeps

(* A POST that arrives changes nothing the handlers see.                   *)
LEMMA DeliverKeeps ==
  ASSUME CInv, NEW r \in Requests, Deliver(r)
  PROVE  CInv'
<1>1. HandlersTyped /\ HandlerInv(r)
  BY DEF CInv
<1>2. PICK x \in Exchanges : Exchange!Arrive(x)
  BY DEF Deliver
<1>3. /\ UNCHANGED << serviceVars, registrations, request, handler,
                      registration, sentTo, answer >>
      /\ arrived' = arrived \cup {x}
      /\ UNCHANGED << phase, outcome >>
  BY <1>2 DEF Deliver, Exchange!Arrive
<1>4. Quiet /\ op' = op
  BY <1>3, UntouchedQuiet
<1>5. HandlersTyped'
  BY <1>1, <1>3 DEF HandlersTyped, Exchange!TypeOK
<1>6. Undisturbed(r)
  BY <1>3, <1>4, CallsDistinct DEF Undisturbed, Quiet
<1>7. HandlerInv(r)'
  BY <1>1, <1>6, Unmoved
<1> QED
  BY <1>3, <1>4, <1>5, <1>7, HandlerStepKeeps

-------------------------------------------------------------------------------
(* A request arrives.                                                      *)
LEMMA RegistersStays ==
  ASSUME NEW s, NEW k, NEW g, Registers(s, k, g),
         request[s].name # "none" => request'[s] = request[s]
  PROVE  /\ request'[s].name = "registerurl"
         /\ request'[s].shortCode = k
         /\ request'[s].registration = g
BY DEF Registers

LEMMA ArrivalKeeps ==
  ASSUME CInv, Quiet, NEW r \in Requests, HandlersTyped', HandlerInv(r)',
         handler[r] = "idle", RegistrationsGiven',
         Simulation(r)' => transactions[request'[r].id] = NoTransaction,
         \A s \in Requests \ {r} :
           /\ request'[s] = request[s]
           /\ handler'[s] = handler[s]
           /\ registration'[s] = registration[s]
           /\ answer'[s] = answer[s],
         \A c \in Calls \ CallsOf(r) : op'[c] = op[c],
         UNCHANGED << exchangeVars, sentTo >>
  PROVE  CInv'
<1>1. \A s \in Requests \ {r} : Undisturbed(s)
  BY OthersUndisturbed DEF exchangeVars
<1>2. \A s \in Requests : HandlerInv(s)'
  BY <1>1, Unmoved DEF CInv
<1>3. \A s \in Requests \ {r} :
        request'[s] = request[s] /\ (Simulation(s)' => Simulation(s))
  BY DEF Simulation
<1> QED
  BY <1>2, <1>3, QuietKeeps

Arrived(r, q, state) ==
  /\ handler[r] = "idle"
  /\ request'[r] = q
  /\ handler'[r] = state
  /\ request[r].name = "none"
  /\ \A s \in Requests \ {r} :
       request'[s] = request[s] /\ handler'[s] = handler[s]
  /\ request' \in [Requests -> ClientRequest \cup {NoRequest}]
  /\ handler' \in [Requests -> HandlerState]
  /\ registration[r] = NoRegistration
  /\ answer[r] = "no answer"
  /\ \A c \in CallsOf(r) : op[c] = NoCall
  /\ \A x \in {Validation(r), Confirmation(r)} :
       phase[x] = "idle" /\ sentTo[x] = "nowhere"

LEMMA ArrivalFrame ==
  ASSUME CInv, NEW r \in Requests, NEW q \in ClientRequest, Arrives(r, q),
         NEW state \in HandlerState, GoTo(r, state)
  PROVE  Arrived(r, q, state)
<1>1. HandlersTyped /\ HandlerInv(r)
  BY DEF CInv
<1>2. handler[r] = "idle" /\ request' = [request EXCEPT ![r] = q]
  BY DEF Arrives
<1>3. handler' = [handler EXCEPT ![r] = state]
  BY DEF GoTo
<1>4. /\ request \in [Requests -> ClientRequest \cup {NoRequest}]
      /\ handler \in [Requests -> HandlerState]
  BY <1>1 DEF HandlersTyped
<1> QED
  BY <1>1, <1>2, <1>3, <1>4, IdleRequest, ZenonT(40) DEF Arrived

LEMMA RegisterUrlKeeps ==
  ASSUME CInv, NEW r \in Requests, NEW q \in ClientRequests, RegisterUrl(r, q)
  PROVE  CInv'
<1>1. /\ q \in ClientRequest
      /\ q # NoRequest
      /\ q.name = "registerurl"
      /\ q.shortCode \in ShortCodes
      /\ q.registration \in Registration
  BY ClientRequestsAssumption, RequestFields DEF RegisterUrl
<1>2. /\ Arrives(r, q)
      /\ GoTo(r, "answered")
      /\ answer' = [answer EXCEPT ![r] = "none"]
      /\ registrations' = [registrations EXCEPT ![q.shortCode] = q.registration]
      /\ UNCHANGED << serviceVars, exchangeVars, registration, sentTo >>
  BY DEF RegisterUrl, Answer
<1>3. Arrived(r, q, "answered")
  <2>1. "answered" \in HandlerState
    BY DEF HandlerState
  <2> QED
    BY <1>1, <1>2, <2>1, ArrivalFrame
<1>4. HandlersTyped
  BY DEF CInv
<1>5. Quiet /\ op' = op
  BY <1>2, UntouchedQuiet
<1>6. HandlersTyped'
  BY <1>1, <1>2, <1>3, <1>4
     DEF Arrived, HandlersTyped, exchangeVars, Exchange!TypeOK
<1>7. ~ Simulation(r)'
  BY <1>1, <1>3 DEF Arrived, Simulation
<1>8. OtherInv(r)'
  BY <1>1, <1>2, <1>3, <1>5 DEF Arrived, OtherInv, exchangeVars, CallsOf
<1>9. HandlerInv(r)'
  BY <1>7, <1>8 DEF HandlerInv
<1>10. RegistrationsGiven'
  <2>1. ASSUME NEW k \in ShortCodes, registrations'[k] # NoRegistration
        PROVE  \E s \in Requests : Registers(s, k, registrations[k])'
    <3>1. CASE k = q.shortCode
      <4>1. registrations'[k] = q.registration
        BY <1>2, <1>4, <3>1 DEF HandlersTyped
      <4> QED
        BY <1>1, <1>3, <3>1, <4>1 DEF Arrived, Registers
    <3>2. CASE k # q.shortCode
      <4>1. registrations'[k] = registrations[k]
        BY <1>2, <1>4, <3>2 DEF HandlersTyped
      <4>2. PICK s \in Requests : Registers(s, k, registrations[k])
        BY <2>1, <4>1 DEF CInv, RegistrationsGiven
      <4>3. Registers(s, k, registrations[k])'
        BY <1>3, <4>1, <4>2, RegistersStays DEF Arrived, Registers
      <4> QED
        BY <4>3
    <3> QED
      BY <3>1, <3>2
  <2>2. ASSUME NEW t \in Requests, Simulation(t)'
        PROVE  \E s \in Requests :
                 Registers(s, request[t].shortCode, registration[t])'
    <3>1. /\ Simulation(t)
          /\ request'[t] = request[t]
          /\ registration'[t] = registration[t]
      BY <1>2, <1>3, <1>7, <2>2 DEF Arrived, Simulation
    <3>2. PICK s \in Requests :
            Registers(s, request[t].shortCode, registration[t])
      BY <3>1 DEF CInv, RegistrationsGiven
    <3>3. Registers(s, request[t].shortCode, registration[t])'
      BY <1>3, <3>1, <3>2, RegistersStays DEF Arrived, Registers
    <3> QED
      BY <3>3
  <2> QED
    BY <2>1, <2>2 DEF RegistrationsGiven
<1>11. \A s \in Requests \ {r} :
         answer'[s] = answer[s] /\ registration'[s] = registration[s]
  BY <1>2, <1>4 DEF HandlersTyped
<1> QED
  BY <1>2, <1>3, <1>5, <1>6, <1>7, <1>9, <1>10, <1>11, ArrivalKeeps
     DEF Arrived

LEMMA RefuseSimulationKeeps ==
  ASSUME CInv, NEW r \in Requests, NEW q \in ClientRequests,
         RefuseSimulation(r, q)
  PROVE  CInv'
<1>1. q \in ClientRequest /\ q # NoRequest /\ q.name = "simulate"
  BY ClientRequestsAssumption, RequestFields DEF RefuseSimulation
<1>2. /\ Arrives(r, q)
      /\ GoTo(r, "answered")
      /\ answer' = [answer EXCEPT ![r] = "C2B_URLS_NOT_REGISTERED"]
      /\ UNCHANGED << serviceVars, exchangeVars, registrations, registration,
                      sentTo >>
  BY DEF RefuseSimulation, Answer
<1>3. Arrived(r, q, "answered")
  <2>1. "answered" \in HandlerState
    BY DEF HandlerState
  <2> QED
    BY <1>1, <1>2, <2>1, ArrivalFrame
<1>4. HandlersTyped
  BY DEF CInv
<1>5. Quiet /\ op' = op
  BY <1>2, UntouchedQuiet
<1>6. HandlersTyped'
  BY <1>2, <1>3, <1>4 DEF Arrived, HandlersTyped, exchangeVars, Exchange!TypeOK
<1>7. ~ Simulation(r)'
  BY <1>2, <1>3 DEF Arrived, Simulation
<1>8. OtherInv(r)'
  BY <1>1, <1>2, <1>3, <1>5 DEF Arrived, OtherInv, exchangeVars, CallsOf
<1>9. HandlerInv(r)'
  BY <1>7, <1>8 DEF HandlerInv
<1>10. RegistrationsGiven'
  <2>1. \A s \in Requests : request[s].name # "none" => request'[s] = request[s]
    BY <1>3 DEF Arrived
  <2>2. \A s \in Requests : Simulation(s)' =>
          /\ Simulation(s)
          /\ request'[s] = request[s]
          /\ registration'[s] = registration[s]
    BY <1>2, <1>3, <1>7 DEF Arrived, Simulation
  <2> QED
    BY <1>2, <2>1, <2>2, GivenStays DEF CInv
<1>11. \A s \in Requests \ {r} :
         answer'[s] = answer[s] /\ registration'[s] = registration[s]
  BY <1>2, <1>4 DEF HandlersTyped
<1> QED
  BY <1>2, <1>3, <1>5, <1>6, <1>7, <1>9, <1>10, <1>11, ArrivalKeeps
     DEF Arrived

LEMMA ActKeeps ==
  ASSUME CInv, NEW r \in Requests, NEW q \in ClientRequests, Act(r, q)
  PROVE  CInv'
<1>1. /\ q \in ClientRequest /\ q # NoRequest
      /\ q.name \in {"show", "decide"}
      /\ ActOf(q) \in ServiceCall(TrackingIds, Attempt)
  BY ClientRequestsAssumption, RequestFields DEF Act
<1>2. /\ Arrives(r, q)
      /\ GoTo(r, "calling")
      /\ Service!Invoke(First(r), ActOf(q))
      /\ UNCHANGED << exchangeVars, registrations, registration, sentTo,
                      answer >>
  BY DEF Act, ActOf
<1>3. Arrived(r, q, "calling")
  <2>1. "calling" \in HandlerState
    BY DEF HandlerState
  <2> QED
    BY <1>1, <1>2, <2>1, ArrivalFrame
<1>4. HandlersTyped /\ Proved!IInv
  BY DEF CInv, ServiceFacts
<1>5. First(r) \in Calls /\ First(r) \in CallsOf(r)
  BY CallsDistinct DEF CallsOf
<1>6. /\ Quiet
      /\ op'[First(r)] = ActOf(q)
      /\ \A c \in Calls \ {First(r)} : op'[c] = op[c]
  BY <1>1, <1>2, <1>4, <1>5, InvokeQuiet
<1>7. HandlersTyped'
  BY <1>2, <1>3, <1>4
     DEF Arrived, HandlersTyped, exchangeVars, Exchange!TypeOK
<1>8. ~ Simulation(r)'
  BY <1>1, <1>3 DEF Arrived, Simulation
<1>9. OtherInv(r)'
  <2>1. \A c \in CallsOf(r) \ {First(r)} : op'[c] = NoCall
    BY <1>3, <1>6, CallsDistinct DEF Arrived
  <2>2. /\ Settlement(r) \in CallsOf(r) \ {First(r)}
        /\ Validation(r) \in CallsOf(r) \ {First(r)}
        /\ Confirmation(r) \in CallsOf(r) \ {First(r)}
    BY CallsDistinct DEF CallsOf
  <2>3. /\ handler'[r] = "calling"
        /\ request'[r] = q
        /\ registration'[r] = NoRegistration
    BY <1>2, <1>3 DEF Arrived
  <2>4. ActOf(request[r])' = ActOf(q)
    BY <2>3 DEF ActOf
  <2>5. \A x \in {Validation(r), Confirmation(r)} :
          phase'[x] = "idle" /\ sentTo'[x] = "nowhere"
    BY <1>2, <1>3 DEF Arrived, exchangeVars
  <2> QED
    BY <1>1, <1>6, <2>1, <2>2, <2>3, <2>4, <2>5 DEF OtherInv
<1>10. HandlerInv(r)'
  BY <1>8, <1>9 DEF HandlerInv
<1>11. RegistrationsGiven'
  <2>1. \A s \in Requests : request[s].name # "none" => request'[s] = request[s]
    BY <1>3 DEF Arrived
  <2>2. \A s \in Requests : Simulation(s)' =>
          /\ Simulation(s)
          /\ request'[s] = request[s]
          /\ registration'[s] = registration[s]
    BY <1>2, <1>3, <1>8 DEF Arrived, Simulation
  <2> QED
    BY <1>2, <2>1, <2>2, GivenStays DEF CInv
<1>12. \A c \in Calls \ CallsOf(r) : op'[c] = op[c]
  BY <1>5, <1>6
<1> QED
  BY <1>2, <1>3, <1>6, <1>7, <1>8, <1>10, <1>11, <1>12, ArrivalKeeps
     DEF Arrived

(* A create draws an id no transaction has.                                *)
LEMMA CreatesFresh ==
  ASSUME Proved!IInv, NEW c \in Calls,
         NEW o \in ServiceCall(TrackingIds, Attempt), o.name = "create",
         o.id \in TrackingIds, Service!Invoke(c, o)
  PROVE  transactions[o.id] = NoTransaction
<1>1. Proved!Invoke(c, o)
  BY SameInvoke
<1>2. \A d \in Calls : op[d].name = "create" => op[d].id # o.id
  BY <1>1 DEF Proved!Invoke, Proved!IdIsFresh
<1>3. Proved!NoTransaction = NoTransaction
  BY SameRecords
<1> QED
  BY <1>2, <1>3 DEF Proved!IInv, Proved!CreatesAreFresh

LEMMA SimulateKeeps ==
  ASSUME CInv, NEW r \in Requests, NEW q \in ClientRequests, Simulate(r, q)
  PROVE  CInv'
<1> DEFINE call == [name |-> "create", id |-> q.id, kind |-> "C2B"]
<1> DEFINE g == registrations[q.shortCode]
<1>1. /\ q \in ClientRequest /\ q # NoRequest
      /\ q.name = "simulate"
      /\ q.shortCode \in ShortCodes
      /\ q.id \in TrackingIds
  BY ClientRequestsAssumption, RequestFields DEF Simulate
<1>2. /\ Arrives(r, q)
      /\ GoTo(r, "calling")
      /\ g # NoRegistration
      /\ registration' = [registration EXCEPT ![r] = g]
      /\ Service!Invoke(First(r), call)
      /\ UNCHANGED << exchangeVars, registrations, sentTo, answer >>
  BY DEF Simulate
<1>3. Arrived(r, q, "calling")
  <2>1. "calling" \in HandlerState
    BY DEF HandlerState
  <2> QED
    BY <1>1, <1>2, <2>1, ArrivalFrame
<1>4. HandlersTyped /\ Proved!IInv
  BY DEF CInv, ServiceFacts
<1>5. First(r) \in Calls /\ First(r) \in CallsOf(r)
  BY CallsDistinct DEF CallsOf
<1>6. call \in ServiceCall(TrackingIds, Attempt)
  BY <1>1 DEF ServiceCall, CreateCall, TransactionKind
<1>7. g \in Registration
  BY <1>1, <1>2, <1>4 DEF HandlersTyped
<1>8. transactions[q.id] = NoTransaction
  BY <1>1, <1>2, <1>4, <1>5, <1>6, CreatesFresh
<1> HIDE DEF call, g
<1>9. /\ Quiet
      /\ op'[First(r)] = call
      /\ \A c \in Calls \ {First(r)} : op'[c] = op[c]
  BY <1>2, <1>4, <1>5, <1>6, InvokeQuiet
<1>10. /\ registration' \in [Requests -> Registration \cup {NoRegistration}]
       /\ registration'[r] = g
       /\ \A s \in Requests \ {r} : registration'[s] = registration[s]
  BY <1>2, <1>4, <1>7 DEF HandlersTyped
<1>11. HandlersTyped'
  BY <1>2, <1>3, <1>4, <1>10
     DEF Arrived, HandlersTyped, exchangeVars, Exchange!TypeOK
<1>12. Simulation(r)' /\ request'[r] = q
  BY <1>1, <1>2, <1>3, <1>10 DEF Arrived, Simulation
<1>13. SimulationInv(r)'
  <2>1. \A c \in CallsOf(r) \ {First(r)} : op'[c] = NoCall
    BY <1>3, <1>9, CallsDistinct DEF Arrived
  <2>2. /\ Settlement(r) \in CallsOf(r) \ {First(r)}
        /\ Validation(r) \in CallsOf(r) \ {First(r)}
        /\ Confirmation(r) \in CallsOf(r) \ {First(r)}
    BY CallsDistinct DEF CallsOf
  <2>3. handler'[r] = "calling" /\ answer'[r] = "no answer"
    BY <1>2, <1>3 DEF Arrived
  <2>4. CreateOf(r)' = call
    BY <1>12 DEF CreateOf, call
  <2>5. \A x \in {Validation(r), Confirmation(r)} :
          phase'[x] = "idle" /\ sentTo'[x] = "nowhere"
    BY <1>2, <1>3 DEF Arrived, exchangeVars
  <2> QED
    BY <1>9, <2>1, <2>2, <2>3, <2>4, <2>5
       DEF SimulationInv, BeforeDecision, Ending
<1>14. HandlerInv(r)'
  BY <1>12, <1>13 DEF HandlerInv
<1>15. RegistrationsGiven'
  <2>1. ASSUME NEW k \in ShortCodes, registrations[k] # NoRegistration
        PROVE  \E s \in Requests : Registers(s, k, registrations[k])'
    <3>1. PICK s \in Requests : Registers(s, k, registrations[k])
      BY <2>1 DEF CInv, RegistrationsGiven
    <3>2. Registers(s, k, registrations[k])'
      BY <1>2, <1>3, <3>1, RegistersStays DEF Arrived, Registers
    <3> QED
      BY <3>2
  <2>2. ASSUME NEW t \in Requests, Simulation(t)'
        PROVE  \E s \in Requests :
                 Registers(s, request[t].shortCode, registration[t])'
    <3>1. CASE t = r
      <4>1. PICK s \in Requests :
              Registers(s, q.shortCode, registrations[q.shortCode])
        BY <1>1, <1>2, <2>1 DEF CInv, RegistrationsGiven, g
      <4>2. Registers(s, request[r].shortCode, registration[r])'
        BY <1>3, <1>10, <1>12, <4>1, RegistersStays DEF Arrived, Registers, g
      <4> QED
        BY <3>1, <4>2
    <3>2. CASE t # r
      <4>1. /\ Simulation(t)
            /\ request'[t] = request[t]
            /\ registration'[t] = registration[t]
        BY <1>3, <1>10, <2>2, <3>2 DEF Arrived, Simulation
      <4>2. PICK s \in Requests :
              Registers(s, request[t].shortCode, registration[t])
        BY <4>1 DEF CInv, RegistrationsGiven
      <4>3. Registers(s, request[t].shortCode, registration[t])'
        BY <1>3, <4>1, <4>2, RegistersStays DEF Arrived, Registers
      <4> QED
        BY <4>3
    <3> QED
      BY <3>1, <3>2
  <2> QED
    BY <1>2, <2>1, <2>2 DEF RegistrationsGiven
<1>16. \A c \in Calls \ CallsOf(r) : op'[c] = op[c]
  BY <1>5, <1>9
<1>17. Simulation(r)' => transactions[request'[r].id] = NoTransaction
  BY <1>8, <1>12
<1> QED
  BY <1>2, <1>3, <1>9, <1>10, <1>11, <1>14, <1>15, <1>16, <1>17, ArrivalKeeps
     DEF Arrived

-------------------------------------------------------------------------------
(* Whose calls are whose.                                                  *)
LEMMA CallOwner ==
  ASSUME NEW s \in Requests, HandlerInv(s), NEW c \in CallsOf(s),
         op[c] # NoCall
  PROVE  \/ /\ Simulation(s)
            /\ op[c].id = request[s].id
            /\ \/ c = First(s) /\ op[c] = CreateOf(s)
               \/ /\ c \in {Validation(s), Confirmation(s)}
                  /\ op[c] = RecordOf(s, c)
               \/ c = Settlement(s) /\ op[c] = SettlementOf(s)
         \/ /\ ~ Simulation(s)
            /\ c = First(s)
            /\ op[c] = ActOf(request[s])
            /\ request[s].name \in {"show", "decide"}
<1>1. c \in {First(s), Settlement(s), Validation(s), Confirmation(s)}
  BY DEF CallsOf
<1>2. CASE Simulation(s)
  <2>1. SimulationInv(s)
    BY <1>2 DEF HandlerInv
  <2>2. /\ CreateOf(s).id = request[s].id
        /\ SettlementOf(s).id = request[s].id
        /\ \A x : RecordOf(s, x).id = request[s].id
    BY DEF CreateOf, SettlementOf, RecordOf
  <2>3. /\ op[First(s)] = CreateOf(s)
        /\ op[Settlement(s)] \in {SettlementOf(s), NoCall}
        /\ op[Validation(s)] \in {RecordOf(s, Validation(s)), NoCall}
        /\ op[Confirmation(s)] \in {RecordOf(s, Confirmation(s)), NoCall}
    BY <2>1 DEF SimulationInv
  <2> QED
    BY <1>1, <1>2, <2>2, <2>3
<1>3. CASE ~ Simulation(s)
  <2>1. OtherInv(s)
    BY <1>3 DEF HandlerInv
  <2> QED
    BY <1>1, <1>3, <2>1 DEF OtherInv
<1> QED
  BY <1>2, <1>3

LEMMA CallNames ==
  ASSUME HandlersTyped, NEW s \in Requests
  PROVE  /\ CreateOf(s).name = "create" /\ CreateOf(s).kind = "C2B"
         /\ SettlementOf(s).name = "transitionC2B"
         /\ \A x : RecordOf(s, x).name = "addCallbackAttempt"
         /\ request[s].name \in {"show", "decide"} =>
              /\ request[s].id \in TrackingIds
              /\ ActOf(request[s]).id = request[s].id
              /\ ActOf(request[s]).name \in
                   {"getByTrackingId", "transitionStk",
                    "transitionBusinessPayment"}
         /\ request[s].name = "decide" =>
              ActOf(request[s]).name \in
                {"transitionStk", "transitionBusinessPayment"}
<1>1. /\ CreateOf(s).name = "create" /\ CreateOf(s).kind = "C2B"
      /\ SettlementOf(s).name = "transitionC2B"
      /\ \A x : RecordOf(s, x).name = "addCallbackAttempt"
  BY DEF CreateOf, SettlementOf, RecordOf
<1>2. request[s] \in ClientRequest \/ request[s].name = "none"
  <2>1. request[s] \in ClientRequest \cup {NoRequest}
    BY DEF HandlersTyped
  <2>2. NoRequest.name = "none"
    BY DEF NoRequest
  <2> QED
    BY <2>1, <2>2
<1>3. request[s].name = "show" =>
        ActOf(request[s]).name = "getByTrackingId"
  BY DEF ActOf
<1>4. request[s].name \in {"show", "decide"} =>
        ActOf(request[s]).id = request[s].id
  BY DEF ActOf
<1>5. request[s].name \in {"show", "decide"} => request[s].id \in TrackingIds
  BY <1>2, RequestFields
<1>6. request[s].name = "decide" =>
        ActOf(request[s]).name \in
          {"transitionStk", "transitionBusinessPayment"}
  BY <1>2, RequestFields
<1> QED
  BY <1>1, <1>3, <1>4, <1>5, <1>6

(* One simulation for each id.                                             *)
LEMMA OneSimulation ==
  ASSUME Proved!IInv, NEW r \in Requests, NEW s \in Requests,
         HandlerInv(r), HandlerInv(s), Simulation(r), Simulation(s),
         request[r].id = request[s].id
  PROVE  r = s
<1>1. op[First(r)] = CreateOf(r) /\ op[First(s)] = CreateOf(s)
  BY DEF HandlerInv, SimulationInv
<1>2. First(r) \in Calls /\ First(s) \in Calls
  BY CallsDistinct DEF CallsOf
<1>3. First(r) = First(s)
  BY <1>1, <1>2 DEF Proved!IInv, Proved!CreatesAreFresh, CreateOf
<1> QED
  BY <1>3 DEF First

(* Only a simulation settles its transaction.                              *)
LEMMA WinnerIsSettlement ==
  ASSUME CInv, NEW w \in Calls, Proved!Succeeded(w),
         op[w].name \in Proved!TransitionNames
  PROVE  \E s \in Requests :
           /\ Simulation(s)
           /\ w = Settlement(s)
           /\ op[w] = SettlementOf(s)
           /\ op[w].id = request[s].id
<1>1. PICK s \in Requests : w \in CallsOf(s)
  BY CallsDistinct
<1>2. HandlersTyped /\ HandlerInv(s) /\ Proved!IInv /\ OthersSettleNothing
  BY DEF CInv, ServiceFacts
<1>3. op[w] # NoCall
  BY <1>2 DEF Proved!IInv, Proved!Succeeded, Proved!NoCall, NoCall
<1>4. op[w].name \in
        {"transitionStk", "transitionBusinessPayment", "transitionC2B"}
  BY OfferedHolds, Proved!TransitionNamesValue
<1>5. ASSUME ~ Simulation(s)
      PROVE  FALSE
  <2>1. /\ w = First(s)
        /\ op[w] = ActOf(request[s])
        /\ request[s].name \in {"show", "decide"}
    BY <1>1, <1>2, <1>3, <1>5, CallOwner
  <2>2. request[s].name # "decide"
    BY <1>2, <2>1 DEF OthersSettleNothing
  <2>3. ActOf(request[s]).name = "getByTrackingId"
    BY <2>1, <2>2 DEF ActOf
  <2> QED
    BY <1>4, <2>1, <2>3
<1> QED
  BY <1>1, <1>2, <1>3, <1>4, <1>5, CallOwner, CallNames

(* A transaction with an outcome was settled by its simulation.            *)
LEMMA SettledBySimulation ==
  ASSUME CInv, NEW r \in Requests, Simulation(r),
         request[r].id \in TrackingIds,
         transactions[request[r].id] # NoTransaction,
         transactions[request[r].id].status # "PENDING"
  PROVE  /\ Proved!Succeeded(Settlement(r))
         /\ op[Settlement(r)] = SettlementOf(r)
         /\ transactions[request[r].id].status = SettlementOf(r).to
         /\ transactions[request[r].id].result =
              Proved!Details(SettlementOf(r))
<1> DEFINE id == request[r].id
<1>1. HandlerInv(r) /\ Proved!IInv /\ Proved!OneWinner
  BY DEF CInv, ServiceFacts
<1>2. transactions[id] # Proved!NoTransaction
  BY SameRecords
<1>3. PICK w \in Calls :
        /\ Proved!Succeeded(w)
        /\ op[w].name \in Proved!TransitionNames
        /\ op[w].id = id
        /\ transactions[id].status = op[w].to
        /\ transactions[id].result = Proved!Details(op[w])
  BY <1>1, <1>2 DEF Proved!OneWinner, Proved!Winners
<1>4. PICK s \in Requests :
        /\ Simulation(s)
        /\ w = Settlement(s)
        /\ op[w] = SettlementOf(s)
        /\ op[w].id = request[s].id
  BY <1>3, WinnerIsSettlement
<1>5. s = r
  BY <1>1, <1>3, <1>4, OneSimulation DEF CInv
<1> QED
  BY <1>3, <1>4, <1>5

-------------------------------------------------------------------------------
(* A step of the service, taken for the call c.                            *)
LEMMA StepCreatesC2B ==
  ASSUME CInv, NEW c \in Calls, Service!Step(c)
  PROVE  OnlyC2B'
<1>1. /\ Proved!IInv /\ HandlersTyped /\ OnlyC2B
      /\ \A s \in Requests : HandlerInv(s)
  BY DEF CInv, ServiceFacts
<1>2. Proved!Step(c)
  BY SameStep
<1>3. [Proved!Next]_(Proved!vars)
  BY <1>2 DEF Proved!Next
<1>4. NoTransaction = Proved!NoTransaction
  BY SameRecords
<1>5. ASSUME NEW id \in TrackingIds, transactions[id] # NoTransaction
      PROVE  transactions'[id].kind = "C2B"
  <2>1. Proved!Extends(transactions'[id], transactions[id])
    BY <1>1, <1>3, <1>4, <1>5, OfferedHolds, Proved!NextKeepsInvariant
  <2> QED
    BY <1>1, <1>5, <2>1 DEF Proved!Extends, OnlyC2B
<1>6. ASSUME NEW id \in TrackingIds, transactions[id] = NoTransaction,
             transactions'[id] # NoTransaction
      PROVE  transactions'[id].kind = "C2B"
  <2>1. /\ op[c].name = "create"
        /\ transactions'[id] = Proved!NewTransaction(id, op[c].kind)
    BY <1>1, <1>2, <1>4, <1>6, OfferedHolds, Proved!OnlyCreatesAdd
  <2>2. PICK s \in Requests : c \in CallsOf(s)
    BY CallsDistinct
  <2>3. op[c] # NoCall
    BY <2>1 DEF NoCall
  <2>4. op[c] = CreateOf(s)
    BY <1>1, <2>1, <2>2, <2>3, CallOwner, CallNames
  <2> QED
    BY <1>1, <2>1, <2>4, CallNames DEF Proved!NewTransaction
<1> QED
  BY <1>5, <1>6 DEF OnlyC2B

LEMMA StepSettlesNoOther ==
  ASSUME CInv, NEW c \in Calls, Service!Step(c)
  PROVE  \A s \in Requests :
           request[s].name = "decide" => ~ Proved!Succeeded(First(s))'
<1>1. /\ Proved!IInv /\ HandlersTyped /\ OnlyC2B /\ OthersSettleNothing
      /\ \A s \in Requests : HandlerInv(s)
  BY DEF CInv, ServiceFacts
<1>2. Proved!Step(c)
  BY SameStep
<1>3. /\ op' = op
      /\ \A d \in Calls \ {c} : pc'[d] = pc[d] /\ reply'[d] = reply[d]
  BY <1>1, StepFrame
<1> SUFFICES ASSUME NEW s \in Requests, request[s].name = "decide",
                    Proved!Succeeded(First(s))'
             PROVE  FALSE
  OBVIOUS
<1>4. First(s) \in Calls /\ First(s) \in CallsOf(s)
  BY CallsDistinct DEF CallsOf
<1>5. c = First(s)
  BY <1>1, <1>3, <1>4 DEF OthersSettleNothing, Proved!Succeeded
<1>6. ~ Simulation(s)
  BY DEF Simulation
<1>7. op[c] = ActOf(request[s])
  BY <1>1, <1>5, <1>6 DEF HandlerInv, OtherInv
<1>8. /\ op[c].name \in {"transitionStk", "transitionBusinessPayment"}
      /\ op[c].id \in TrackingIds
  BY <1>1, <1>7, CallNames
<1>9. op[c].name \in Proved!TransitionNames
  BY <1>8, OfferedHolds, Proved!TransitionNamesValue
<1>10. /\ transactions[op[c].id] # Proved!NoTransaction
       /\ transactions[op[c].id].kind \in Proved!expectedKinds[op[c].name]
  BY <1>1, <1>2, <1>5, <1>9, OfferedHolds, Proved!SettlerMatches
<1>11. transactions[op[c].id].kind = "C2B"
  BY <1>1, <1>8, <1>10, SameRecords DEF OnlyC2B
<1> QED
  BY <1>8, <1>10, <1>11 DEF Proved!expectedKinds, Proved!BusinessKinds

(* A simulation's transaction exists once its create has succeeded, and is *)
(* pending until its settlement has.                                       *)
LEMMA CreatedExists ==
  ASSUME CInv, NEW r \in Requests, Simulation(r),
         Proved!Succeeded(First(r))
  PROVE  /\ request[r].id \in TrackingIds
         /\ transactions[request[r].id] # NoTransaction
         /\ transactions[request[r].id].kind = "C2B"
         /\ ~ Proved!Succeeded(Settlement(r)) =>
              transactions[request[r].id].status = "PENDING"
<1>1. First(r) \in Calls
  BY CallsDistinct DEF CallsOf
<1>2. /\ Proved!AnswersStayTrue /\ HandlersTyped /\ OnlyC2B
      /\ SimulationInv(r)
  BY DEF CInv, ServiceFacts, HandlerInv
<1>3. op[First(r)].id = request[r].id
  <2>1. CreateOf(r).id = request[r].id
    BY DEF CreateOf
  <2>2. op[First(r)] = CreateOf(r)
    BY <1>2 DEF SimulationInv
  <2> QED
    BY <2>1, <2>2
<1>4. transactions[request[r].id] # NoTransaction
  BY <1>1, <1>2, <1>3, SameRecords
     DEF Proved!AnswersStayTrue, Proved!Extends
<1>5. request[r].id \in TrackingIds
  BY <1>2, SimulationCalls DEF Simulation
<1> QED
  BY <1>2, <1>4, <1>5, SettledBySimulation DEF OnlyC2B

LEMMA StepThrowsNothing ==
  ASSUME CInv, NEW c \in Calls, Service!Step(c), RepliesAtEnd',
         NEW r \in Requests, Simulation(r), NEW d \in CallsOf(r)
  PROVE  reply'[d].error \notin ErrorCode
<1>1. /\ Proved!IInv /\ HandlersTyped /\ NothingThrown
      /\ HandlerInv(r)
  BY DEF CInv, ServiceFacts
<1>2. Proved!Step(c)
  BY SameStep
<1>3. /\ pc[c] \notin {"idle", "replied"}
      /\ op' = op
      /\ \A e \in Calls \ {c} : pc'[e] = pc[e] /\ reply'[e] = reply[e]
  BY <1>1, StepFrame
<1>4. d \in Calls
  BY CallsDistinct
<1>5. "none" \notin ErrorCode
  BY DEF ErrorCode
<1>6. CASE d # c
  BY <1>1, <1>3, <1>4, <1>6 DEF NothingThrown
<1>7. CASE d = c
  <2>1. op[c] # NoCall
    BY <1>1, <1>3 DEF Proved!IInv, Proved!NoCall, NoCall
  <2>2. /\ op[c].id = request[r].id
        /\ \/ c = First(r) /\ op[c] = CreateOf(r)
           \/ /\ c \in {Validation(r), Confirmation(r)}
              /\ op[c] = RecordOf(r, c)
           \/ c = Settlement(r) /\ op[c] = SettlementOf(r)
    BY <1>1, <1>7, <2>1, CallOwner
  <2>3. CASE c = First(r) /\ op[c] = CreateOf(r)
    <3>1. op[c].name = "create"
      BY <1>1, <2>3, CallNames
    <3>2. reply'[c].error = "none"
      BY <1>1, <1>2, <3>1, OfferedHolds, Proved!CreateSucceeds
    <3> QED
      BY <1>5, <1>7, <3>2
  <2>4. ASSUME c # First(r)
        PROVE  Proved!Succeeded(First(r))
    <3>1. SimulationInv(r)
      BY <1>1 DEF HandlerInv
    <3>2. ASSUME handler[r] = "calling"
          PROVE  FALSE
      <4>1. /\ phase[Validation(r)] = "idle"
            /\ phase[Confirmation(r)] = "idle"
            /\ op[Settlement(r)] = NoCall
        BY <3>1, <3>2 DEF SimulationInv, BeforeDecision, Ending
      <4>2. op[Validation(r)] = NoCall /\ op[Confirmation(r)] = NoCall
        BY <3>1, <4>1 DEF SimulationInv
      <4> QED
        BY <2>1, <2>2, <2>4, <4>1, <4>2
    <3> QED
      BY <3>1, <3>2 DEF SimulationInv
  <2>5. CASE c \in {Validation(r), Confirmation(r)} /\ op[c] = RecordOf(r, c)
    <3>1. op[c].name = "addCallbackAttempt"
      BY <1>1, <2>5, CallNames
    <3>2. transactions[op[c].id] # NoTransaction
      BY <2>2, <2>4, <2>5, CallsDistinct, CreatedExists
    <3>3. reply'[c].error = "none"
      BY <1>1, <1>2, <3>1, <3>2, SameRecords, OfferedHolds,
         Proved!AppendSucceeds DEF Proved!Current
    <3> QED
      BY <1>5, <1>7, <3>3
  <2>6. CASE c = Settlement(r) /\ op[c] = SettlementOf(r)
    <3>1. op[c].name = "transitionC2B"
      BY <1>1, <2>6, CallNames
    <3>2. op[c].name \in Proved!TransitionNames
      BY <3>1, OfferedHolds, Proved!TransitionNamesValue
    <3>3. ~ Proved!Succeeded(c)
      BY <1>3 DEF Proved!Succeeded
    <3>4. /\ transactions[op[c].id] # Proved!NoTransaction
          /\ transactions[op[c].id].kind = "C2B"
          /\ transactions[op[c].id].status = "PENDING"
      BY <2>2, <2>4, <2>6, <3>3, CallsDistinct, CreatedExists, SameRecords
    <3>5. "C2B" \in Proved!expectedKinds[op[c].name]
      BY <3>1 DEF Proved!expectedKinds
    <3>6. pc'[c] = "replied" => reply'[c].error = "none"
      BY <1>1, <1>2, <3>2, <3>4, <3>5, OfferedHolds, Proved!PendingSettles
         DEF Proved!Current
    <3> QED
      BY <1>4, <1>5, <1>7, <3>6 DEF RepliesAtEnd
  <2> QED
    BY <2>2, <2>3, <2>5, <2>6
<1> QED
  BY <1>6, <1>7

LEMMA AppendTwo ==
  ASSUME NEW S, NEW a \in S, NEW b \in S
  PROVE  Append(<< a >>, b) = << a, b >>
<1> DEFINE one == << a >>
<1> DEFINE two == << a, b >>
<1>1. one \in Seq(S) /\ Len(one) = 1 /\ one[1] = a
  OBVIOUS
<1>2. two \in Seq(S) /\ Len(two) = 2 /\ two[1] = a /\ two[2] = b
  OBVIOUS
<1> HIDE DEF one, two
<1>3. /\ Append(one, b) \in Seq(S)
      /\ Len(Append(one, b)) = Len(one) + 1
      /\ \A i \in 1..Len(one) : Append(one, b)[i] = one[i]
      /\ Append(one, b)[Len(one) + 1] = b
  <2>1. \A s \in Seq(S) :
          /\ Append(s, b) \in Seq(S)
          /\ Len(Append(s, b)) = Len(s) + 1
          /\ Append(s, b)[Len(s) + 1] = b
          /\ \A i \in 1..Len(s) : Append(s, b)[i] = s[i]
    OBVIOUS
  <2> QED
    BY <1>1, <2>1
<1>4. \A i \in 1..Len(two) : Append(one, b)[i] = two[i]
  <2>1. Append(one, b)[1] = a /\ Append(one, b)[2] = b
    BY <1>1, <1>3
  <2>2. \A i \in 1..Len(two) : i = 1 \/ i = 2
    BY <1>2
  <2> QED
    BY <1>2, <2>1, <2>2
<1>5. Append(one, b) = two
  BY <1>1, <1>2, <1>3, <1>4, SeqEqual
<1> QED
  BY <1>5 DEF one, two

(* The attempts a simulation recorded are those of its transaction.        *)
LEMMA AppendOfSimulation ==
  ASSUME CInv, NEW c \in Calls, Proved!AddCallbackAttempt(c),
         Proved!Step(c),
         NEW s \in Requests, Simulation(s),
         transactions'[request[s].id] # NoTransaction
  PROVE  transactions'[request[s].id].callbackAttempts =
           IF Proved!Succeeded(Confirmation(s))'
           THEN << op[Validation(s)].attempt, op[Confirmation(s)].attempt >>
           ELSE IF Proved!Succeeded(Validation(s))'
           THEN << op[Validation(s)].attempt >>
           ELSE << >>
<1> DEFINE v == Validation(s)
<1> DEFINE d == Confirmation(s)
<1>1. /\ Proved!IInv /\ HandlersTyped /\ HandlerInv(s)
      /\ AttemptsOfSimulation
  BY DEF CInv, ServiceFacts
<1>2. /\ op[c].id \in TrackingIds
      /\ op[c].name = "addCallbackAttempt"
      /\ transactions[op[c].id] # NoTransaction
      /\ transactions'[op[c].id].callbackAttempts =
           Append(transactions[op[c].id].callbackAttempts, op[c].attempt)
      /\ \A id \in TrackingIds \ {op[c].id} :
           transactions'[id] = transactions[id]
      /\ ~ Proved!Succeeded(c)
      /\ Proved!Succeeded(c)'
  BY <1>1, OfferedHolds, Proved!AppendRecords, SameRecords
<1>3. \A e \in Calls \ {c} : pc'[e] = pc[e] /\ reply'[e] = reply[e]
  BY <1>1, OfferedHolds, Proved!StepReplies
<1>4. v \in Calls /\ d \in Calls /\ v # d
  BY CallsDistinct DEF CallsOf
<1>5. \A e \in {v, d} \ {c} : Proved!Succeeded(e)' <=> Proved!Succeeded(e)
  BY <1>3, <1>4 DEF Proved!Succeeded
<1>6. request[s].id \in TrackingIds
  BY <1>1, SimulationCalls DEF Simulation
<1>7. Proved!Succeeded(d) => Proved!Succeeded(v)
  BY <1>1, ValidationFirst
<1>8. transactions[request[s].id] # NoTransaction =>
        transactions[request[s].id].callbackAttempts = RecordedBy(s)
  BY <1>1 DEF AttemptsOfSimulation
<1>9. PICK r \in Requests : c \in CallsOf(r)
  BY CallsDistinct
<1>10. op[c] # NoCall
  BY <1>2 DEF NoCall
<1>11. /\ Simulation(r)
       /\ op[c].id = request[r].id
       /\ c \in {Validation(r), Confirmation(r)}
  BY <1>1, <1>2, <1>9, <1>10, CallOwner, CallNames DEF CInv
<1>12. CASE request[s].id # op[c].id
  <2>1. s # r
    BY <1>11, <1>12
  <2>2. c \notin {v, d}
    BY <1>9, <2>1, CallsDistinct DEF CallsOf
  <2>3. transactions'[request[s].id] = transactions[request[s].id]
    BY <1>2, <1>6, <1>12
  <2> QED
    BY <1>5, <1>8, <2>2, <2>3 DEF RecordedBy
<1>13. CASE request[s].id = op[c].id
  <2>1. s = r
    BY <1>1, <1>11, <1>13, OneSimulation DEF CInv
  <2>2. transactions'[request[s].id].callbackAttempts =
          Append(RecordedBy(s), op[c].attempt)
    BY <1>2, <1>8, <1>13
  <2>3. CASE c = v
    <3>1. ~ Proved!Succeeded(d) /\ ~ Proved!Succeeded(d)'
      BY <1>2, <1>4, <1>5, <1>7, <2>3
    <3>2. RecordedBy(s) = << >>
      BY <1>2, <2>3, <3>1 DEF RecordedBy
    <3>3. Append(<< >>, op[c].attempt) = << op[c].attempt >>
      OBVIOUS
    <3> QED
      BY <1>2, <2>2, <2>3, <3>1, <3>2, <3>3
  <2>4. CASE c = d
    <3>1. Proved!Succeeded(v)
      <4>1. SimulationInv(s)
        BY <1>1 DEF HandlerInv
      <4>2. phase[d] = "ended"
        BY <1>10, <2>4, <4>1 DEF SimulationInv
      <4>3. handler[s] \notin BeforeDecision
        BY <4>1, <4>2 DEF SimulationInv
      <4> QED
        BY <4>1, <4>3 DEF SimulationInv
    <3>2. RecordedBy(s) = << op[v].attempt >>
      BY <1>2, <2>4, <3>1 DEF RecordedBy
    <3>3. Append(<< op[v].attempt >>, op[c].attempt) =
            << op[v].attempt, op[c].attempt >>
      <4>1. op[v].attempt \in {op[v].attempt, op[c].attempt}
            /\ op[c].attempt \in {op[v].attempt, op[c].attempt}
        OBVIOUS
      <4> QED
        BY <4>1, AppendTwo
    <3> QED
      BY <1>2, <2>2, <2>4, <3>2, <3>3
  <2> QED
    BY <1>11, <2>1, <2>3, <2>4
<1> QED
  BY <1>12, <1>13

LEMMA OtherStepOfSimulation ==
  ASSUME CInv, NEW c \in Calls, ~ Proved!AddCallbackAttempt(c),
         Proved!Step(c),
         NEW s \in Requests, Simulation(s),
         transactions'[request[s].id] # NoTransaction
  PROVE  /\ transactions'[request[s].id].callbackAttempts = RecordedBy(s)
         /\ \A x \in {Validation(s), Confirmation(s)} :
              Proved!Succeeded(x)' <=> Proved!Succeeded(x)
<1> DEFINE id == request[s].id
<1>1. /\ Proved!IInv /\ HandlersTyped /\ HandlerInv(s)
      /\ AttemptsOfSimulation /\ Proved!AnswersStayTrue
  BY DEF CInv, ServiceFacts
<1>2. id \in TrackingIds
  BY <1>1, SimulationCalls DEF Simulation
<1>3. /\ Proved!Succeeded(c)' => op[c].name # "addCallbackAttempt"
      /\ IF transactions[id] = NoTransaction
         THEN transactions'[id].callbackAttempts = << >>
         ELSE transactions'[id].callbackAttempts =
                transactions[id].callbackAttempts
  BY <1>1, <1>2, OfferedHolds, Proved!OnlyAppendsRecord, SameRecords
<1>4. /\ pc[c] \notin {"idle", "replied"}
      /\ \A e \in Calls \ {c} : pc'[e] = pc[e] /\ reply'[e] = reply[e]
  BY <1>1, OfferedHolds, Proved!StepReplies
<1>5. ASSUME NEW x \in {Validation(s), Confirmation(s)}
      PROVE  Proved!Succeeded(x)' <=> Proved!Succeeded(x)
  <2>1. x \in Calls
    BY CallsDistinct DEF CallsOf
  <2>2. CASE x # c
    BY <1>4, <2>1, <2>2 DEF Proved!Succeeded
  <2>3. CASE x = c
    <3>1. op[x] # NoCall
      BY <1>1, <1>4, <2>1, <2>3 DEF Proved!IInv, Proved!NoCall, NoCall
    <3>2. x \in CallsOf(s) /\ x # First(s) /\ x # Settlement(s)
      BY CallsDistinct DEF CallsOf
    <3>3. op[x].name = "addCallbackAttempt"
      BY <1>1, <3>1, <3>2, CallOwner, CallNames
    <3> QED
      BY <1>3, <1>4, <2>3, <3>3 DEF Proved!Succeeded
  <2> QED
    BY <2>2, <2>3
<1>6. ASSUME transactions[id] = NoTransaction
      PROVE  RecordedBy(s) = << >>
  <2>1. ASSUME Proved!Succeeded(Validation(s))
        PROVE  FALSE
    <3>1. Validation(s) \in Calls /\ Validation(s) \in CallsOf(s)
      BY CallsDistinct DEF CallsOf
    <3>2. op[Validation(s)] # NoCall
      BY <1>1, <2>1, <3>1
         DEF Proved!IInv, Proved!Succeeded, Proved!NoCall, NoCall
    <3>3. op[Validation(s)].id = id
      BY <1>1, <3>1, <3>2, CallOwner
    <3> QED
      BY <1>1, <1>6, <2>1, <3>1, <3>3, SameRecords
         DEF Proved!AnswersStayTrue, Proved!Extends
  <2> QED
    BY <1>1, <2>1, ValidationFirst DEF RecordedBy
<1>7. transactions'[id].callbackAttempts = RecordedBy(s)
  BY <1>1, <1>3, <1>6 DEF AttemptsOfSimulation
<1> QED
  BY <1>5, <1>7

LEMMA ServiceStepKeeps ==
  ASSUME CInv, NEW r \in Requests, ServiceStep(r)
  PROVE  CInv'
<1>1. PICK c \in Calls : Service!Step(c)
  BY DEF ServiceStep
<1>2. UNCHANGED << exchangeVars, registrations, request, handler,
                   registration, sentTo, answer >>
  BY DEF ServiceStep
<1>3. Proved!Step(c)
  BY <1>1, SameStep
<1>4. /\ HandlersTyped /\ ServiceFacts /\ Proved!IInv
      /\ \A s \in Requests : HandlerInv(s)
  BY DEF CInv, ServiceFacts
<1>5. /\ [Proved!Next]_(Proved!vars)
      /\ op' = op
  BY <1>1, <1>4, StepFrame
<1>6. ServiceFacts'
  BY <1>4, <1>5, ServiceFactsKept
<1>7. HandlersTyped'
  BY <1>2, <1>4 DEF HandlersTyped, exchangeVars, Exchange!TypeOK
<1>8. \A s \in Requests : HandlerInv(s)'
  <2> TAKE s \in Requests
  <2>1. \A e \in CallsOf(s) : Proved!Succeeded(e) => Proved!Succeeded(e)'
    BY <1>4, <1>5, SucceededStays, CallsDistinct
  <2>2. Undisturbed(s)
    BY <1>2, <1>5, <2>1 DEF Undisturbed, exchangeVars
  <2> QED
    BY <1>4, <2>2, Unmoved
<1>9. \A s \in Requests : Simulation(s)' <=> Simulation(s)
  BY <1>2 DEF Simulation
<1>10. RegistrationsGiven'
  BY <1>2, <1>9, GivenStays DEF CInv
<1>11. OnlyC2B'
  BY <1>1, StepCreatesC2B
<1>12. OthersSettleNothing'
  BY <1>1, <1>2, StepSettlesNoOther DEF OthersSettleNothing, First
<1>13. NothingThrown'
  <2>1. \A s \in Requests :
          Simulation(s) =>
            \A e \in CallsOf(s) : reply'[e].error \notin ErrorCode
    BY <1>1, <1>6, StepThrowsNothing DEF ServiceFacts
  <2> QED
    BY <1>9, <2>1
       DEF NothingThrown, CallsOf, First, Settlement, Validation, Confirmation
<1>14. AttemptsOfSimulation'
  <2> SUFFICES ASSUME NEW s \in Requests, Simulation(s),
                      transactions'[request[s].id] # NoTransaction
               PROVE  transactions'[request[s].id].callbackAttempts =
                        RecordedBy(s)'
    BY <1>2, <1>9 DEF AttemptsOfSimulation
  <2>1. CASE Proved!AddCallbackAttempt(c)
    BY <1>3, <1>5, <2>1, AppendOfSimulation DEF RecordedBy
  <2>2. CASE ~ Proved!AddCallbackAttempt(c)
    <3>1. /\ transactions'[request[s].id].callbackAttempts = RecordedBy(s)
          /\ \A x \in {Validation(s), Confirmation(s)} :
               Proved!Succeeded(x)' <=> Proved!Succeeded(x)
      BY <1>3, <2>2, OtherStepOfSimulation
    <3> QED
      BY <1>5, <3>1 DEF RecordedBy
  <2> QED
    BY <2>1, <2>2
<1> QED
  BY <1>6, <1>7, <1>8, <1>10, <1>11, <1>12, <1>13, <1>14 DEF CInv

-------------------------------------------------------------------------------
(* The invariant holds at the start and after every step.                  *)
LEMMA InitHolds == Init => CInv
<1> SUFFICES ASSUME Init
             PROVE  CInv
  OBVIOUS
<1>1. Proved!Init
  BY SameInit DEF Init
<1>2. Proved!IInv
  BY <1>1, OfferedHolds, Proved!InitInvariant
<1>3. \A c \in Calls : pc[c] = "idle" /\ op[c] = NoCall
  BY DEF Init, Service!Init, Service!NoCall, NoCall
<1>4. \A c \in Calls : ~ Proved!Succeeded(c)
  BY <1>3 DEF Proved!Succeeded
<1>5. \A id \in TrackingIds : transactions[id] = NoTransaction
  BY DEF Init, Service!Init, Service!NoTransaction, NoTransaction
<1>6. ServiceFacts
  <2>1. Proved!AnswersStayTrue
    BY <1>4 DEF Proved!AnswersStayTrue
  <2>2. Proved!OneWinner
    BY <1>4, <1>5, SameRecords DEF Proved!OneWinner, Proved!Winners
  <2>3. RepliesAtEnd
    <3>1. \A c \in Calls : reply[c].error = "no reply"
      BY DEF Init, Service!Init, Service!NoReply
    <3> QED
      BY <3>1 DEF RepliesAtEnd, ErrorCode
  <2> QED
    BY <1>2, <2>1, <2>2, <2>3 DEF ServiceFacts
<1>7. /\ registrations = [s \in ShortCodes |-> NoRegistration]
      /\ request = [r \in Requests |-> NoRequest]
      /\ handler = [r \in Requests |-> "idle"]
      /\ registration = [r \in Requests |-> NoRegistration]
      /\ sentTo = [x \in Exchanges |-> "nowhere"]
      /\ answer = [r \in Requests |-> "no answer"]
      /\ Exchange!Init
  BY DEF Init
<1>8. HandlersTyped
  <2>1. Exchange!TypeOK
    BY <1>7 DEF Exchange!Init, Exchange!TypeOK, Exchange!Failed,
                Exchange!Outcome, Exchange!NoBody
  <2> QED
    BY <1>7, <2>1 DEF HandlersTyped, HandlerState
<1>9. \A r \in Requests : ~ Simulation(r) /\ request[r].name = "none"
  BY <1>7 DEF Simulation, NoRequest
<1>10. \A r \in Requests : HandlerInv(r)
  <2> TAKE r \in Requests
  <2>1. /\ op[First(r)] = NoCall /\ op[Settlement(r)] = NoCall
        /\ \A x \in {Validation(r), Confirmation(r)} :
             op[x] = NoCall /\ phase[x] = "idle" /\ sentTo[x] = "nowhere"
    <3>1. /\ First(r) \in Calls /\ Settlement(r) \in Calls
          /\ Validation(r) \in Calls /\ Confirmation(r) \in Calls
          /\ Validation(r) \in Exchanges /\ Confirmation(r) \in Exchanges
      BY CallsDistinct DEF CallsOf
    <3> QED
      BY <1>3, <1>7, <3>1 DEF Exchange!Init
  <2>2. OtherInv(r)
    BY <1>7, <1>9, <2>1 DEF OtherInv
  <2> QED
    BY <1>9, <2>2 DEF HandlerInv
<1>11. RegistrationsGiven
  BY <1>7, <1>9 DEF RegistrationsGiven
<1> QED
  BY <1>5, <1>6, <1>8, <1>9, <1>10, <1>11
     DEF CInv, OnlyC2B, OthersSettleNothing, NothingThrown,
         AttemptsOfSimulation

LEMMA NextKeeps ==
  ASSUME CInv, [Next]_vars
  PROVE  CInv'
<1>1. CASE UNCHANGED vars
  <2>1. UNCHANGED serviceVars /\ UNCHANGED << exchangeVars, sentTo, handler,
          answer, registrations, request, registration >>
    BY <1>1 DEF vars, serviceVars, exchangeVars
  <2>2. Quiet /\ op' = op
    BY <2>1, UntouchedQuiet
  <2>3. HandlersTyped'
    BY <2>1 DEF CInv, HandlersTyped, exchangeVars, Exchange!TypeOK
  <2>4. \A s \in Requests : HandlerInv(s)'
    <3> TAKE s \in Requests
    <3>1. Undisturbed(s)
      BY <2>1, <2>2, CallsDistinct DEF Undisturbed, Quiet, exchangeVars
    <3> QED
      BY <3>1, Unmoved DEF CInv
  <2>5. \A s \in Requests : Simulation(s)' <=> Simulation(s)
    BY <2>1 DEF Simulation
  <2>6. RegistrationsGiven'
    BY <2>1, <2>5, GivenStays DEF CInv
  <2> QED
    BY <2>1, <2>2, <2>3, <2>4, <2>5, <2>6, QuietKeeps
<1>2. ASSUME NEW r \in Requests, NEW q \in ClientRequests, Receive(r, q)
      PROVE  CInv'
  BY <1>2, RegisterUrlKeeps, RefuseSimulationKeeps, SimulateKeeps, ActKeeps
     DEF Receive
<1>3. ASSUME NEW r \in Requests, Proceed(r)
      PROVE  CInv'
  BY <1>3, ServiceStepKeeps, FailKeeps, FinishKeeps, SendValidationKeeps,
     EndValidationKeeps, EndConfirmationKeeps, RejectKeeps,
     SendConfirmationKeeps, CompleteKeeps, AcknowledgeKeeps
     DEF Proceed
<1>4. ASSUME NEW r \in Requests, Deliver(r)
      PROVE  CInv'
  BY <1>4, DeliverKeeps
<1> QED
  BY <1>1, <1>2, <1>3, <1>4 DEF Next

(* The inductive invariant.                                                *)
THEOREM C2BInvariant == Spec => []CInv
<1>1. Init => CInv
  BY InitHolds
<1>2. CInv /\ [Next]_vars => CInv'
  BY NextKeeps
<1> QED
  BY <1>1, <1>2, PTL DEF Spec

(* What a step of C2B is for TransactionService.                           *)
LEMMA ServiceMoves ==
  ASSUME CInv, [Next]_vars
  PROVE  [Proved!Next]_(Proved!vars)
<1>1. HandlersTyped /\ Proved!IInv /\ \A r \in Requests : HandlerInv(r)
  BY DEF CInv, ServiceFacts
<1>2. ASSUME UNCHANGED serviceVars
      PROVE  [Proved!Next]_(Proved!vars)
  BY <1>2, UntouchedQuiet DEF Quiet
<1>3. ASSUME NEW c \in Calls, NEW o \in ServiceCall(TrackingIds, Attempt),
             Service!Invoke(c, o)
      PROVE  [Proved!Next]_(Proved!vars)
  BY <1>1, <1>3, InvokeFrame
<1>4. CASE UNCHANGED vars
  BY <1>2, <1>4 DEF vars, serviceVars
<1>5. ASSUME NEW r \in Requests, NEW q \in ClientRequests, Receive(r, q)
      PROVE  [Proved!Next]_(Proved!vars)
  <2>1. q \in ClientRequest
    BY ClientRequestsAssumption
  <2>2. First(r) \in Calls
    BY CallsDistinct DEF CallsOf
  <2>3. CASE RegisterUrl(r, q) \/ RefuseSimulation(r, q)
    BY <1>2, <2>3 DEF RegisterUrl, RefuseSimulation
  <2>4. CASE Simulate(r, q)
    <3>1. /\ Service!Invoke(First(r),
               [name |-> "create", id |-> q.id, kind |-> "C2B"])
          /\ q.id \in TrackingIds
      BY <2>1, <2>4, RequestFields DEF Simulate
    <3>2. [name |-> "create", id |-> q.id, kind |-> "C2B"] \in
            ServiceCall(TrackingIds, Attempt)
      BY <3>1 DEF ServiceCall, CreateCall, TransactionKind
    <3> QED
      BY <1>3, <2>2, <3>1, <3>2
  <2>5. CASE Act(r, q)
    <3>1. /\ Service!Invoke(First(r), ActOf(q))
          /\ ActOf(q) \in ServiceCall(TrackingIds, Attempt)
      BY <2>1, <2>5, RequestFields DEF Act, ActOf
    <3> QED
      BY <1>3, <2>2, <3>1
  <2> QED
    BY <1>5, <2>3, <2>4, <2>5 DEF Receive
<1>6. ASSUME NEW r \in Requests, NEW o \in Outcome,
             EndValidation(r, o) \/ EndConfirmation(r, o)
      PROVE  [Proved!Next]_(Proved!vars)
  <2>1. /\ Validation(r) \in Exchanges /\ Confirmation(r) \in Exchanges
        /\ Validation(r) \in Calls /\ Confirmation(r) \in Calls
        /\ Validation(r)[1] = r /\ Confirmation(r)[1] = r
    BY CallsDistinct DEF CallsOf
  <2>2. PICK x \in {Validation(r), Confirmation(r)} :
          /\ Exchange!End(x, o)
          /\ Service!Invoke(x,
               [name    |-> "addCallbackAttempt",
                id      |-> request[r].id,
                attempt |-> [id |-> x, url |-> sentTo[x], outcome |-> o]])
    BY <1>6, <2>1 DEF EndValidation, EndConfirmation, EndDispatch
  <2>3. handler[r] \in {"validating", "confirming"}
    BY <1>6 DEF EndValidation, EndConfirmation
  <2>4. /\ SimulationInv(r)
        /\ registration[r] \in Registration
        /\ request[r].name = "simulate"
    BY <1>1, <2>3, Running DEF Simulation
  <2>5. sentTo[x] \in Urls
    BY <2>2, <2>4 DEF SimulationInv, Registration, Exchange!End
  <2>6. [name    |-> "addCallbackAttempt",
         id      |-> request[r].id,
         attempt |-> [id |-> x, url |-> sentTo[x], outcome |-> o]]
           \in ServiceCall(TrackingIds, Attempt)
    BY <1>1, <2>1, <2>4, <2>5, SimulationCalls
  <2> QED
    BY <1>3, <2>1, <2>2, <2>6
<1>7. ASSUME NEW r \in Requests, Reject(r) \/ Complete(r)
      PROVE  [Proved!Next]_(Proved!vars)
  <2>1. handler[r] \in {"recordingValidation", "recordingConfirmation"}
    BY <1>7 DEF Reject, Complete, Resumes
  <2>2. SimulationInv(r) /\ request[r].name = "simulate"
    BY <1>1, <2>1, Running DEF Simulation
  <2>3. SettlementOf(r) \in ServiceCall(TrackingIds, Attempt)
    BY <1>1, <2>2, SimulationCalls
  <2>4. Service!Invoke(Settlement(r), SettlementOf(r))
    <3>1. CASE Reject(r)
      BY <3>1 DEF Reject, SettleAs, SettlementOf, Rejected
    <3>2. CASE Complete(r)
      <4>1. ValidationFailure(r) = NoResult
        BY <2>2, <3>2 DEF Complete, Resumes, SimulationInv, Rejected
      <4> QED
        BY <3>2, <4>1 DEF Complete, SettleAs, SettlementOf, Rejected
    <3> QED
      BY <1>7, <3>1, <3>2
  <2>5. Settlement(r) \in Calls
    BY CallsDistinct DEF CallsOf
  <2> QED
    BY <1>3, <2>3, <2>4, <2>5
<1>8. ASSUME NEW r \in Requests, ServiceStep(r)
      PROVE  [Proved!Next]_(Proved!vars)
  BY <1>1, <1>8, StepFrame DEF ServiceStep
<1>9. ASSUME NEW r \in Requests,
             \/ Fail(r) \/ Finish(r) \/ Acknowledge(r)
             \/ SendValidation(r) \/ SendConfirmation(r) \/ Deliver(r)
      PROVE  [Proved!Next]_(Proved!vars)
  BY <1>2, <1>9 DEF Fail, Finish, Acknowledge, SendValidation,
                    SendConfirmation, Dispatch, Deliver
<1> QED
  BY <1>4, <1>5, <1>6, <1>7, <1>8, <1>9 DEF Next, Proceed

(* However registrations, simulations and other routes interleave, their   *)
(* handlers use TransactionService as its specification says.              *)
THEOREM HandlersUseTheService == Spec => Proved!Spec
<1>1. Init => Proved!Init
  BY SameInit DEF Init
<1>2. CInv /\ [Next]_vars => [Proved!Next]_(Proved!vars)
  BY ServiceMoves
<1> QED
  BY <1>1, <1>2, C2BInvariant, PTL DEF Spec, Proved!Spec

(* The transactions of the simulations are a ledger whose calls take       *)
(* effect one at a time.                                                   *)
THEOREM HandlersShareALedger == Spec => Proved!ImplementsLedger
BY HandlersUseTheService, Proved!Refinement, OfferedHolds

(* A simulation's two calls of dispatch are two exchanges, each started    *)
(* and ended once: C2BService.simulate uses the dispatcher as              *)
(* CallbackExchange says.                                                  *)
THEOREM HandlersUseTheExchange == Spec => Exchange!Spec
<1>1. Init => Exchange!Init
  BY DEF Init
<1>2. [Next]_vars => [Exchange!Next]_(Exchange!vars)
  <2> SUFFICES ASSUME [Next]_vars
               PROVE  Exchange!Next \/ UNCHANGED exchangeVars
    BY DEF exchangeVars, Exchange!vars
  <2>1. CASE UNCHANGED vars
    BY <2>1 DEF vars, exchangeVars
  <2>2. ASSUME NEW r \in Requests, NEW q \in ClientRequests, Receive(r, q)
        PROVE  UNCHANGED exchangeVars
    BY <2>2 DEF Receive, RegisterUrl, RefuseSimulation, Simulate, Act
  <2>3. ASSUME NEW r \in Requests,
               \/ ServiceStep(r) \/ Fail(r) \/ Finish(r)
               \/ Reject(r) \/ Complete(r) \/ Acknowledge(r)
        PROVE  UNCHANGED exchangeVars
    BY <2>3 DEF ServiceStep, Fail, Finish, Reject, Complete, SettleAs,
                Acknowledge, exchangeVars
  <2>4. ASSUME NEW r \in Requests, SendValidation(r) \/ SendConfirmation(r)
        PROVE  Exchange!Next
    <3>1. PICK x \in Exchanges : Exchange!Start(x)
      BY <2>4, CallsDistinct DEF SendValidation, SendConfirmation, Dispatch
    <3> QED
      BY <3>1 DEF Exchange!Next
  <2>5. ASSUME NEW r \in Requests, NEW o \in Outcome,
               EndValidation(r, o) \/ EndConfirmation(r, o)
        PROVE  Exchange!Next
    <3>1. PICK x \in Exchanges : Exchange!End(x, o)
      BY <2>5, CallsDistinct DEF EndValidation, EndConfirmation, EndDispatch
    <3>2. o \in Exchange!Outcome
      BY DEF Outcome, Exchange!Outcome, Exchange!NoBody
    <3> QED
      BY <3>1, <3>2 DEF Exchange!Next, Exchange!EndSomehow
  <2>6. ASSUME NEW r \in Requests, Deliver(r)
        PROVE  Exchange!Next
    BY <2>6 DEF Deliver, Exchange!Next
  <2> QED
    BY <2>1, <2>2, <2>3, <2>4, <2>5, <2>6 DEF Next, Proceed
<1> QED
  BY <1>1, <1>2, PTL DEF Spec, Exchange!Spec

LEMMA SameTypes ==
  /\ Transaction(TrackingIds, Attempt) =
       Proved!Transaction(TrackingIds, Attempt)
  /\ Proved!TypeOK => Service!TypeOK
<1>1. Proved!ServiceCall(TrackingIds, Attempt) =
        Service!ServiceCall(TrackingIds, Attempt)
  BY DEF Proved!ServiceCall, Service!ServiceCall, Proved!CreateCall,
         Service!CreateCall, Proved!GetCall, Service!GetCall,
         Proved!TransitionCall, Service!TransitionCall, Proved!AttemptCall,
         Service!AttemptCall, Proved!TransactionKind,
         Service!TransactionKind, Proved!BusinessKinds,
         Service!BusinessKinds, Proved!TerminalStatus,
         Service!TerminalStatus, Proved!TransactionStatus,
         Service!TransactionStatus, Proved!Result, Service!Result,
         Proved!NoResult, Service!NoResult
<1>2. Proved!StoredTransaction = Service!StoredTransaction
  BY DEF Proved!StoredTransaction, Service!StoredTransaction,
         Proved!Transaction, Service!Transaction, Proved!TransactionKind,
         Service!TransactionKind, Proved!BusinessKinds,
         Service!BusinessKinds, Proved!TransactionStatus,
         Service!TransactionStatus, Proved!Result, Service!Result,
         Proved!NoResult, Service!NoResult, Proved!NoTransaction,
         Service!NoTransaction
<1>3. Proved!Reply(TrackingIds, Attempt) =
        Service!Reply(TrackingIds, Attempt)
  BY DEF Proved!Reply, Service!Reply, Proved!ErrorCode, Service!ErrorCode,
         Proved!Transaction, Service!Transaction, Proved!TransactionKind,
         Service!TransactionKind, Proved!BusinessKinds,
         Service!BusinessKinds, Proved!TransactionStatus,
         Service!TransactionStatus, Proved!Result, Service!Result,
         Proved!NoResult, Service!NoResult, Proved!NoTransaction,
         Service!NoTransaction
<1>4. /\ Proved!NoCall = Service!NoCall
      /\ Proved!NoReply = Service!NoReply
      /\ Proved!Stage = Service!Stage
  BY DEF Proved!NoCall, Service!NoCall, Proved!NoReply, Service!NoReply,
         Proved!NoTransaction, Service!NoTransaction, Proved!Stage,
         Service!Stage
<1> QED
  BY <1>1, <1>2, <1>3, <1>4, SameRecords
     DEF Proved!TypeOK, Service!TypeOK

(* Every variable keeps its type, those of the service included.           *)
THEOREM C2BTyped == Spec => []TypeOK
<1>1. CInv => TypeOK
  BY SameTypes DEF CInv, ServiceFacts, Proved!IInv, HandlersTyped, TypeOK
<1> QED
  BY <1>1, C2BInvariant, PTL

(* Both callbacks of a payment go to the URLs of one registration, however *)
(* often registerUrl replaces it meanwhile (C2BService.simulate reads it   *)
(* once).                                                                  *)
THEOREM RegistrationsHold == Spec => []OneRegistrationPerPayment
<1>1. CInv => OneRegistrationPerPayment
  <2> SUFFICES ASSUME CInv, NEW r \in Requests, Simulation(r)
               PROVE  \E s \in Requests :
                        /\ request[s].name = "registerurl"
                        /\ request[s].shortCode = request[r].shortCode
                        /\ sentTo[Validation(r)] \in
                             {"nowhere", request[s].registration.ValidationURL}
                        /\ sentTo[Confirmation(r)] \in
                             {"nowhere",
                              request[s].registration.ConfirmationURL}
    BY DEF OneRegistrationPerPayment
  <2>1. SimulationInv(r)
    BY DEF CInv, HandlerInv
  <2>2. PICK s \in Requests :
          Registers(s, request[r].shortCode, registration[r])
    BY DEF CInv, RegistrationsGiven
  <2> QED
    BY <2>1, <2>2 DEF SimulationInv, Registers
<1> QED
  BY <1>1, C2BInvariant, PTL

(* None of the four service calls of a simulation fails, whatever the      *)
(* other routes try on its transaction.                                    *)
THEOREM SimulationsSucceed == Spec => []NeverRefused
<1>1. CInv => NeverRefused
  BY DEF CInv, HandlerInv, SimulationInv, NeverRefused
<1> QED
  BY <1>1, C2BInvariant, PTL

-------------------------------------------------------------------------------
(* What is left of a simulation that settled its transaction.              *)
LEMMA AfterSettlement ==
  ASSUME CInv, NEW r \in Requests, Settled(r)
  PROVE  /\ SimulationInv(r)
         /\ registration[r] \in Registration
         /\ handler[r] \in Ending
         /\ phase[Validation(r)] = "ended"
         /\ Proved!Succeeded(Validation(r))
         /\ op[Validation(r)] = RecordOf(r, Validation(r))
         /\ request[r].id \in TrackingIds
         /\ transactions[request[r].id].status =
              IF Rejected(r) THEN "FAILED" ELSE "SUCCESS"
         /\ transactions[request[r].id].result =
              Proved!Details(SettlementOf(r))
<1>1. /\ Simulation(r)
      /\ transactions[request[r].id] # NoTransaction
      /\ transactions[request[r].id].status # "PENDING"
  BY DEF Settled
<1>2. HandlersTyped /\ HandlerInv(r)
  BY DEF CInv
<1>3. SimulationInv(r) /\ registration[r] \in Registration
  BY <1>1, <1>2 DEF HandlerInv, Simulation, HandlersTyped
<1>4. request[r].id \in TrackingIds
  BY <1>1, <1>2, SimulationCalls DEF Simulation
<1>5. /\ op[Settlement(r)] = SettlementOf(r)
      /\ transactions[request[r].id].status = SettlementOf(r).to
      /\ transactions[request[r].id].result = Proved!Details(SettlementOf(r))
  BY <1>1, <1>4, SettledBySimulation
<1>6. SettlementOf(r) # NoCall
  <2>1. SettlementOf(r).name = "transitionC2B" /\ NoCall.name = "none"
    BY DEF SettlementOf, NoCall
  <2> QED
    BY <2>1
<1>7. handler[r] \in Ending
  BY <1>3, <1>5, <1>6 DEF SimulationInv
<1>8. /\ phase[Validation(r)] = "ended"
      /\ Proved!Succeeded(Validation(r))
  BY <1>3, <1>7 DEF SimulationInv, Ending, BeforeDecision
<1>9. op[Validation(r)] = RecordOf(r, Validation(r))
  BY <1>3, <1>8 DEF SimulationInv
<1>10. SettlementOf(r).to = IF Rejected(r) THEN "FAILED" ELSE "SUCCESS"
  BY DEF SettlementOf
<1> QED
  BY <1>3, <1>4, <1>5, <1>7, <1>8, <1>9, <1>10

(* When a validation fails a payment, and with which details.              *)
LEMMA WhenRejected ==
  ASSUME NEW r \in Requests, registration[r] \in Registration
  PROVE  LET said == outcome[Validation(r)]
             decided == said.ok /\ said.body \in {"accept", "reject"}
         IN  /\ decided => (Rejected(r) <=> said.body = "reject")
             /\ ~ decided =>
                  (Rejected(r) <=> registration[r].ResponseType = "Cancelled")
             /\ decided /\ said.body = "reject" =>
                  ValidationFailure(r) =
                    [code |-> "reject", desc |-> "rejected"]
             /\ registration[r].ResponseType \in {"Completed", "Cancelled"}
<1> DEFINE said == outcome[Validation(r)]
<1> DEFINE decided == said.ok /\ said.body \in {"accept", "reject"}
<1>1. registration[r].ResponseType \in {"Completed", "Cancelled"}
  BY DEF Registration
<1>2. /\ [code |-> "reject", desc |-> "rejected"] # NoResult
      /\ [code |-> "1", desc |-> "no decision"] # NoResult
  <2>1. /\ [code |-> "reject", desc |-> "rejected"].code = "reject"
        /\ [code |-> "1", desc |-> "no decision"].code = "1"
        /\ NoResult.code = "undefined"
    BY DEF NoResult
  <2> QED
    BY <2>1
<1>3. Decision(said) = IF decided THEN said.body ELSE "none"
  BY DEF Decision
<1>4. CASE decided /\ said.body = "reject"
  <2>1. ValidationFailure(r) = [code |-> "reject", desc |-> "rejected"]
    BY <1>3, <1>4 DEF ValidationFailure, getValidationFailure
  <2> QED
    BY <1>1, <1>2, <1>4, <2>1 DEF Rejected
<1>5. CASE decided /\ said.body = "accept"
  <2>1. ValidationFailure(r) = NoResult
    BY <1>3, <1>5 DEF ValidationFailure, getValidationFailure
  <2> QED
    BY <1>1, <1>5, <2>1 DEF Rejected
<1>6. CASE ~ decided
  <2>1. ValidationFailure(r) =
          IF registration[r].ResponseType = "Cancelled"
          THEN [code |-> "1", desc |-> "no decision"] ELSE NoResult
    BY <1>3, <1>6 DEF ValidationFailure, getValidationFailure
  <2> QED
    BY <1>1, <1>2, <1>6, <2>1 DEF Rejected
<1> QED
  BY <1>4, <1>5, <1>6

(* A payment is settled as its validation said, or as the ResponseType in  *)
(* force at its start says, and keeps the code of a rejection              *)
(* (getValidationFailure and the transition that follows it).              *)
THEOREM DecisionsHold == Spec => []SettledAsDecided
<1>1. CInv => SettledAsDecided
  <2> SUFFICES ASSUME CInv, NEW r \in Requests, Settled(r)
               PROVE  LET said == outcome[Validation(r)]
                          t    == transactions[request[r].id]
                          decided ==
                            said.ok /\ said.body \in {"accept", "reject"}
                      IN  /\ phase[Validation(r)] = "ended"
                          /\ t.status \in {"SUCCESS", "FAILED"}
                          /\ decided =>
                               (t.status = "SUCCESS" <=> said.body = "accept")
                          /\ decided /\ said.body = "reject" =>
                               t.result.code = "reject"
                          /\ ~ decided =>
                               (t.status = "SUCCESS" <=>
                                  registration[r].ResponseType = "Completed")
    BY DEF SettledAsDecided
  <2> DEFINE said == outcome[Validation(r)]
  <2> DEFINE t == transactions[request[r].id]
  <2> DEFINE decided == said.ok /\ said.body \in {"accept", "reject"}
  <2>1. /\ registration[r] \in Registration
        /\ phase[Validation(r)] = "ended"
        /\ t.status = IF Rejected(r) THEN "FAILED" ELSE "SUCCESS"
        /\ t.result = Proved!Details(SettlementOf(r))
    BY AfterSettlement
  <2>2. /\ decided => (Rejected(r) <=> said.body = "reject")
        /\ ~ decided =>
             (Rejected(r) <=> registration[r].ResponseType = "Cancelled")
        /\ decided /\ said.body = "reject" =>
             ValidationFailure(r) = [code |-> "reject", desc |-> "rejected"]
        /\ registration[r].ResponseType \in {"Completed", "Cancelled"}
    BY <2>1, WhenRejected
  <2>3. ASSUME decided, said.body = "reject"
        PROVE  t.result.code = "reject"
    <3>1. SettlementOf(r).result = [code |-> "reject", desc |-> "rejected"]
      BY <2>2, <2>3 DEF SettlementOf
    <3>2. SettlementOf(r).result # Proved!NoResult
      <4>1. /\ SettlementOf(r).result.code = "reject"
            /\ Proved!NoResult.code = "undefined"
        BY <3>1 DEF Proved!NoResult
      <4> QED
        BY <4>1
    <3>3. t.result = [code |-> "reject", desc |-> "rejected"]
      BY <2>1, <3>1, <3>2 DEF Proved!Details
    <3> QED
      BY <3>3
  <2> QED
    BY <2>1, <2>2, <2>3
<1> QED
  BY <1>1, C2BInvariant, PTL

(* Who sees an outcome finds the exchanges that led to it in the           *)
(* transaction, in their order (addCallbackAttempt is awaited before the   *)
(* next exchange and before the transition).                               *)
THEOREM OutcomesFollowAttempts == Spec => []OutcomeAfterAttempts
<1>1. CInv => OutcomeAfterAttempts
  <2> SUFFICES ASSUME CInv, NEW r \in Requests, Settled(r)
               PROVE  LET t == transactions[request[r].id]
                          Recorded(x) ==
                            [id |-> x, url |-> sentTo[x],
                             outcome |-> outcome[x]]
                      IN  t.callbackAttempts =
                            IF t.status = "FAILED"
                            THEN << Recorded(Validation(r)) >>
                            ELSE << Recorded(Validation(r)),
                                    Recorded(Confirmation(r)) >>
    BY DEF OutcomeAfterAttempts
  <2> DEFINE t == transactions[request[r].id]
  <2> DEFINE Recorded(x) ==
        [id |-> x, url |-> sentTo[x], outcome |-> outcome[x]]
  <2>1. /\ SimulationInv(r)
        /\ handler[r] \in Ending
        /\ Proved!Succeeded(Validation(r))
        /\ op[Validation(r)] = RecordOf(r, Validation(r))
        /\ t.status = IF Rejected(r) THEN "FAILED" ELSE "SUCCESS"
    BY AfterSettlement
  <2>2. t.callbackAttempts = RecordedBy(r)
    BY DEF CInv, AttemptsOfSimulation, Settled
  <2>3. \A x : RecordOf(r, x).attempt = Recorded(x)
    BY DEF RecordOf
  <2>4. CASE Rejected(r)
    <3>1. ~ Proved!Succeeded(Confirmation(r))
      BY <2>4, ValidationFirst DEF CInv, ServiceFacts, Settled
    <3> QED
      BY <2>1, <2>2, <2>3, <2>4, <3>1 DEF RecordedBy
  <2>5. CASE ~ Rejected(r)
    <3>1. /\ Proved!Succeeded(Confirmation(r))
          /\ phase[Confirmation(r)] = "ended"
      BY <2>1, <2>5 DEF SimulationInv, Ending, BeforeDecision
    <3>2. op[Confirmation(r)] = RecordOf(r, Confirmation(r))
      BY <2>1, <3>1 DEF SimulationInv
    <3> QED
      BY <2>1, <2>2, <2>3, <2>5, <3>1, <3>2 DEF RecordedBy
  <2> QED
    BY <2>4, <2>5
<1> QED
  BY <1>1, C2BInvariant, PTL

-------------------------------------------------------------------------------
(* Payment: what the steps of C2B are of the abstract promise.             *)
ArrivedStarted == \A x \in Exchanges \cap arrived : phase[x] # "idle"

PayInv == CInv /\ ArrivedStarted

Verdict ==
  [id \in TrackingIds |->
     IF transactions[id] = NoTransaction THEN "none"
     ELSE IF transactions[id].status # "PENDING" THEN transactions[id].status
     ELSE IF Confirmed(id) THEN "SUCCESS" ELSE "open"]

Told ==
  [id \in TrackingIds |->
     {o \in {"SUCCESS"} :
        \E r \in Requests : /\ request[r].name = "simulate"
                            /\ request[r].id = id
                            /\ Confirmation(r) \in arrived}]

PaymentMoves == [PaymentPromise!Next]_(PaymentPromise!vars)

LEMMA Moves ==
  /\ Verdict' = Verdict /\ Told' = Told => PaymentMoves
  /\ \A id \in TrackingIds :
       \/ /\ Verdict[id] = "none"
          /\ Verdict' = [Verdict EXCEPT ![id] = "open"]
          /\ Told' = Told
       \/ \E o \in TerminalStatus :
            /\ Verdict[id] = "open"
            /\ Verdict' = [Verdict EXCEPT ![id] = o]
            /\ Told' = Told
       \/ /\ Verdict[id] \in TerminalStatus
          /\ Told' = [Told EXCEPT ![id] = @ \cup {Verdict[id]}]
          /\ Verdict' = Verdict
       => PaymentMoves
<1>1. PaymentPromise!TerminalStatus = TerminalStatus
  BY DEF PaymentPromise!TerminalStatus, PaymentPromise!TransactionStatus,
         TerminalStatus, TransactionStatus
<1>2. Verdict' = Verdict /\ Told' = Told => PaymentMoves
  BY DEF PaymentMoves, PaymentPromise!vars, Verdict, Told
<1>3. ASSUME NEW id \in TrackingIds,
             Verdict[id] = "none",
             Verdict' = [Verdict EXCEPT ![id] = "open"], Told' = Told
      PROVE  PaymentPromise!Open(id)
  BY <1>3 DEF PaymentPromise!Open, Verdict, Told
<1>4. ASSUME NEW id \in TrackingIds, NEW o \in TerminalStatus,
             Verdict[id] = "open",
             Verdict' = [Verdict EXCEPT ![id] = o], Told' = Told
      PROVE  PaymentPromise!Decide(id, o)
  BY <1>4 DEF PaymentPromise!Decide, Verdict, Told
<1>5. ASSUME NEW id \in TrackingIds,
             Verdict[id] \in TerminalStatus,
             Told' = [Told EXCEPT ![id] = @ \cup {Verdict[id]}],
             Verdict' = Verdict
      PROVE  PaymentPromise!Tell(id)
  BY <1>1, <1>5 DEF PaymentPromise!Tell, Verdict, Told
<1>6. PaymentPromise!Next <=>
        \E id \in TrackingIds :
          \/ PaymentPromise!Open(id)
          \/ \E o \in TerminalStatus : PaymentPromise!Decide(id, o)
          \/ PaymentPromise!Tell(id)
  BY <1>1 DEF PaymentPromise!Next
<1> QED
  BY <1>2, <1>3, <1>4, <1>5, <1>6 DEF PaymentMoves

LEMMA TerminalValue == TerminalStatus = {"SUCCESS", "FAILED", "TIMEOUT"}
BY DEF TerminalStatus, TransactionStatus

(* The exchange of a confirmation, once started, belongs to a simulation   *)
(* whose transaction exists and can only succeed.                          *)
LEMMA ConfirmationOpen ==
  ASSUME CInv, NEW r \in Requests, phase[Confirmation(r)] # "idle"
  PROVE  /\ Simulation(r)
         /\ request[r].name = "simulate"
         /\ ~ Rejected(r)
         /\ request[r].id \in TrackingIds
         /\ transactions[request[r].id] # NoTransaction
         /\ transactions[request[r].id].status \in {"PENDING", "SUCCESS"}
<1>1. HandlersTyped /\ HandlerInv(r)
  BY DEF CInv
<1>2. Simulation(r)
  BY <1>1 DEF HandlerInv, OtherInv
<1>3. SimulationInv(r)
  BY <1>1, <1>2 DEF HandlerInv
<1>4. handler[r] \notin BeforeDecision /\ ~ Rejected(r)
  BY <1>3 DEF SimulationInv
<1>5. Proved!Succeeded(First(r))
  BY <1>3, <1>4 DEF SimulationInv, BeforeDecision
<1>6. /\ request[r].id \in TrackingIds
      /\ transactions[request[r].id] # NoTransaction
  BY <1>2, <1>5, CreatedExists
<1>7. ASSUME transactions[request[r].id].status # "PENDING"
      PROVE  transactions[request[r].id].status = "SUCCESS"
  BY <1>2, <1>4, <1>6, <1>7, AfterSettlement DEF Settled
<1> QED
  BY <1>2, <1>4, <1>6, <1>7 DEF Simulation

(* A confirmed payment has succeeded already, as far as the promise goes.  *)
LEMMA ConfirmedSucceeds ==
  CInv => \A id \in TrackingIds :
            Confirmed(id) => /\ transactions[id] # NoTransaction
                             /\ transactions[id].status \in
                                  {"PENDING", "SUCCESS"}
                             /\ Verdict[id] = "SUCCESS"
<1> SUFFICES ASSUME CInv, NEW id \in TrackingIds, Confirmed(id)
             PROVE  /\ transactions[id] # NoTransaction
                    /\ transactions[id].status \in {"PENDING", "SUCCESS"}
                    /\ Verdict[id] = "SUCCESS"
  OBVIOUS
<1>1. PICK r \in Requests :
        request[r].id = id /\ phase[Confirmation(r)] # "idle"
  BY DEF Confirmed
<1>2. /\ transactions[id] # NoTransaction
      /\ transactions[id].status \in {"PENDING", "SUCCESS"}
  BY <1>1, ConfirmationOpen
<1> QED
  BY <1>2 DEF Verdict

(* A step that starts no confirmation, delivers none and leaves the store  *)
(* alone is invisible.                                                     *)
LEMMA NothingSaid ==
  ASSUME PayInv, CInv', transactions' = transactions, arrived' = arrived,
         \A r \in Requests :
           \/ /\ request'[r] = request[r]
              /\ phase'[Confirmation(r)] = "idle" <=>
                   phase[Confirmation(r)] = "idle"
           \/ /\ phase[Confirmation(r)] = "idle"
              /\ phase'[Confirmation(r)] = "idle"
  PROVE  PaymentMoves
<1>1. \A id : Confirmed(id)' <=> Confirmed(id)
  BY DEF Confirmed
<1>2. Verdict' = Verdict
  BY <1>1 DEF Verdict
<1>3. \A r \in Requests :
        Confirmation(r) \in arrived => request'[r] = request[r]
  BY CallsDistinct DEF PayInv, ArrivedStarted
<1>4. Told' = Told
  BY <1>3 DEF Told
<1> QED
  BY <1>2, <1>4, Moves

LEMMA ServiceStepPays ==
  ASSUME PayInv, CInv', NEW r \in Requests, ServiceStep(r)
  PROVE  PaymentMoves
<1>1. PICK c \in Calls : Service!Step(c)
  BY DEF ServiceStep
<1>2. UNCHANGED << phase, arrived, request >>
  BY DEF ServiceStep, exchangeVars
<1>3. CInv /\ Proved!IInv
  BY DEF PayInv, CInv, ServiceFacts
<1>4. Told' = Told
  BY <1>2 DEF Told
<1>5. \/ \A id \in TrackingIds : Proved!KeepsStatus(id)
      \/ \E i \in TrackingIds :
           /\ Proved!Opens(i) \/ Proved!Settles(i)
           /\ \A id \in TrackingIds \ {i} : Proved!KeepsStatus(id)
  BY <1>1, <1>3, OfferedHolds, SameStep, Proved!StepMoves
<1>6. /\ Proved!NoTransaction = NoTransaction
      /\ Proved!TerminalStatus = TerminalStatus
      /\ "PENDING" \notin TerminalStatus
  BY DEF Proved!NoTransaction, NoTransaction, Proved!TerminalStatus,
         Proved!TransactionStatus, TerminalStatus, TransactionStatus
<1>7. \A id : Confirmed(id)' <=> Confirmed(id)
  BY <1>2 DEF Confirmed
<1>8. ASSUME NEW id \in TrackingIds, Proved!KeepsStatus(id)
      PROVE  Verdict'[id] = Verdict[id]
  BY <1>6, <1>7, <1>8 DEF Proved!KeepsStatus, Verdict
<1>9. CASE \A id \in TrackingIds : Proved!KeepsStatus(id)
  <2>1. Verdict' = Verdict
    BY <1>8, <1>9 DEF Verdict
  <2> QED
    BY <1>4, <2>1, Moves
<1>10. ASSUME NEW i \in TrackingIds, Proved!Opens(i) \/ Proved!Settles(i),
              \A id \in TrackingIds \ {i} : Proved!KeepsStatus(id)
       PROVE  PaymentMoves
  <2>1. Verdict' = [Verdict EXCEPT ![i] = Verdict'[i]]
    <3>1. \A id \in TrackingIds \ {i} : Verdict'[id] = Verdict[id]
      BY <1>8, <1>10
    <3>2. Verdict = [id \in TrackingIds |-> Verdict[id]]
      BY DEF Verdict
    <3>3. Verdict' = [id \in TrackingIds |-> Verdict'[id]]
      BY DEF Verdict
    <3> QED
      BY <3>1, <3>2, <3>3
  <2>2. CASE Proved!Opens(i)
    <3>1. ~ Confirmed(i)
      BY <1>3, <1>6, <2>2, ConfirmedSucceeds DEF Proved!Opens
    <3>2. Verdict[i] = "none" /\ Verdict'[i] = "open"
      BY <1>6, <1>7, <2>2, <3>1 DEF Proved!Opens, Verdict
    <3> QED
      BY <1>4, <2>1, <3>2, Moves
  <2>3. CASE Proved!Settles(i)
    <3>1. Verdict'[i] \in TerminalStatus
      BY <1>6, <2>3 DEF Proved!Settles, Verdict
    <3>2. CASE Confirmed(i)
      <4>1. Verdict[i] = "SUCCESS"
        BY <1>3, <3>2, ConfirmedSucceeds
      <4>2. (CInv => \A id \in TrackingIds :
               Confirmed(id) => /\ transactions[id] # NoTransaction
                                /\ transactions[id].status \in
                                     {"PENDING", "SUCCESS"}
                                /\ Verdict[id] = "SUCCESS")'
        BY ConfirmedSucceeds, PTL
      <4>3. Verdict'[i] = "SUCCESS"
        BY <1>7, <3>2, <4>2
      <4>4. Verdict' = Verdict
        BY <2>1, <4>1, <4>3, ZenonT(40) DEF Verdict
      <4> QED
        BY <1>4, <4>4, Moves
    <3>3. CASE ~ Confirmed(i)
      <4>1. Verdict[i] = "open"
        BY <1>6, <2>3, <3>3 DEF Proved!Settles, Verdict
      <4> QED
        BY <1>4, <2>1, <3>1, <4>1, Moves
    <3> QED
      BY <3>2, <3>3
  <2> QED
    BY <1>10, <2>2, <2>3
<1> QED
  BY <1>5, <1>9, <1>10

LEMMA SendConfirmationPays ==
  ASSUME PayInv, NEW r \in Requests, SendConfirmation(r)
  PROVE  PaymentMoves
<1> DEFINE id == request[r].id
<1>1. HandlersTyped /\ HandlerInv(r) /\ CInv
  BY DEF PayInv, CInv
<1>2. /\ handler[r] = "recordingValidation"
      /\ ~ Rejected(r)
      /\ phase[Confirmation(r)] = "idle"
      /\ phase' = [phase EXCEPT ![Confirmation(r)] = "open"]
      /\ UNCHANGED << transactions, arrived, request >>
  BY DEF SendConfirmation, Resumes, Dispatch, Exchange!Start, Rejected,
         serviceVars
<1>3. /\ Simulation(r) /\ SimulationInv(r)
      /\ request[r].name = "simulate"
  BY <1>1, <1>2, Running DEF Simulation
<1>4. Confirmation(r) \in Exchanges
  BY CallsDistinct
<1>5. \A s \in Requests : phase'[Confirmation(s)] =
        IF s = r THEN "open" ELSE phase[Confirmation(s)]
  <2>1. \A s \in Requests :
          /\ Confirmation(s) \in Exchanges
          /\ s # r => Confirmation(s) # Confirmation(r)
    BY CallsDistinct DEF Confirmation
  <2> QED
    BY <1>1, <1>2, <2>1 DEF HandlersTyped, Exchange!TypeOK
<1>6. /\ id \in TrackingIds
      /\ transactions[id] # NoTransaction
      /\ transactions[id].status = "PENDING"
  <2>1. Proved!Succeeded(First(r))
    BY <1>2, <1>3 DEF SimulationInv
  <2>2. op[Settlement(r)] = NoCall
    BY <1>2, <1>3 DEF SimulationInv, Ending
  <2>3. ~ Proved!Succeeded(Settlement(r))
    BY <1>1, <2>2, CallsDistinct
       DEF CallsOf, CInv, ServiceFacts, Proved!IInv, Proved!Succeeded,
           Proved!NoCall, NoCall
  <2> QED
    BY <1>1, <1>3, <2>1, <2>3, CreatedExists
<1>7. ~ Confirmed(id)
  <2> SUFFICES ASSUME NEW s \in Requests, request[s].id = id,
                      phase[Confirmation(s)] # "idle"
               PROVE  FALSE
    BY DEF Confirmed
  <2>1. Simulation(s)
    BY <1>1, ConfirmationOpen
  <2>2. s = r
    BY <1>1, <1>3, <2>1, OneSimulation DEF CInv, ServiceFacts
  <2> QED
    BY <1>2, <2>2
<1>8. Confirmed(id)'
  BY <1>2, <1>3, <1>5 DEF Confirmed
<1>9. \A i : i # id => (Confirmed(i)' <=> Confirmed(i))
  BY <1>2, <1>5 DEF Confirmed
<1>10. Verdict[id] = "open" /\ Verdict'[id] = "SUCCESS"
  BY <1>2, <1>6, <1>7, <1>8 DEF Verdict
<1>11. Verdict' = [Verdict EXCEPT ![id] = "SUCCESS"]
  <2>1. \A i \in TrackingIds : i # id => Verdict'[i] = Verdict[i]
    BY <1>2, <1>9 DEF Verdict
  <2> QED
    BY <1>6, <1>10, <2>1 DEF Verdict
<1>12. Told' = Told
  BY <1>2 DEF Told
<1> QED
  BY <1>6, <1>10, <1>11, <1>12, Moves, TerminalValue

LEMMA DeliverPays ==
  ASSUME PayInv, NEW r \in Requests, Deliver(r)
  PROVE  PaymentMoves
<1>1. PICK x \in Exchanges : x[1] = r /\ Exchange!Arrive(x)
  BY DEF Deliver
<1>2. /\ phase[x] # "idle"
      /\ arrived' = arrived \cup {x}
      /\ UNCHANGED << phase, transactions, request >>
  BY <1>1 DEF Exchange!Arrive, Deliver, serviceVars
<1>3. Verdict' = Verdict
  <2>1. \A id : Confirmed(id)' <=> Confirmed(id)
    BY <1>2 DEF Confirmed
  <2> QED
    BY <1>2, <2>1 DEF Verdict
<1>4. \A s \in Requests :
        /\ Confirmation(s) = x <=> s = r /\ x = Confirmation(r)
        /\ Confirmation(s) \in arrived' <=>
             Confirmation(s) \in arrived \/ Confirmation(s) = x
  BY <1>1, <1>2 DEF Confirmation
<1>5. CASE x # Confirmation(r)
  <2>1. \A s \in Requests :
          Confirmation(s) \in arrived' <=> Confirmation(s) \in arrived
    BY <1>4, <1>5
  <2>2. Told' = Told
    BY <1>2, <2>1 DEF Told
  <2> QED
    BY <1>3, <2>2, Moves
<1>6. CASE x = Confirmation(r)
  <2> DEFINE id == request[r].id
  <2>1. CInv
    BY DEF PayInv
  <2>2. request[r].name = "simulate" /\ id \in TrackingIds
    BY <1>2, <1>6, <2>1, ConfirmationOpen
  <2>3. Confirmed(id)
    BY <1>2, <1>6, <2>2 DEF Confirmed
  <2>4. Verdict[id] = "SUCCESS"
    BY <2>1, <2>2, <2>3, ConfirmedSucceeds
  <2>5. \A s \in Requests :
          Confirmation(s) \in arrived' <=> Confirmation(s) \in arrived \/ s = r
    BY <1>4, <1>6
  <2>6. \A i \in TrackingIds :
          Told'[i] = IF i = id THEN Told[i] \cup {"SUCCESS"} ELSE Told[i]
    BY <1>2, <2>2, <2>5 DEF Told
  <2>7. Told' = [Told EXCEPT ![id] = @ \cup {Verdict[id]}]
    BY <2>2, <2>4, <2>6, ZenonT(40) DEF Told
  <2> QED
    BY <1>3, <2>2, <2>4, <2>7, Moves, TerminalValue
<1> QED
  BY <1>5, <1>6

(* The other steps are invisible: each moves one handler, and starts or    *)
(* ends another exchange if any.                                           *)
LEMMA PhaseKept ==
  ASSUME CInv, NEW r \in Requests,
         \/ Exchange!Start(Validation(r))
         \/ \E x \in {Validation(r), Confirmation(r)}, o \in Outcome :
              Exchange!End(x, o)
  PROVE  /\ arrived' = arrived
         /\ \A s \in Requests :
              phase'[Confirmation(s)] = "idle" <=>
                phase[Confirmation(s)] = "idle"
         /\ \A x \in Exchanges : phase[x] # "idle" => phase'[x] # "idle"
<1>1. Exchange!TypeOK
  BY DEF CInv, HandlersTyped
<1>2. \A s \in Requests :
        Confirmation(s) \in Exchanges /\ Confirmation(s) # Validation(r)
  BY DEF Confirmation, Validation, Exchanges, Roles
<1>3. CASE Exchange!Start(Validation(r))
  BY <1>1, <1>2, <1>3 DEF Exchange!Start, Exchange!TypeOK
<1>4. ASSUME NEW x \in {Validation(r), Confirmation(r)}, NEW o \in Outcome,
             Exchange!End(x, o)
      PROVE  /\ arrived' = arrived
             /\ \A y \in Exchanges : phase'[y] = "idle" <=> phase[y] = "idle"
  BY <1>1, <1>4 DEF Exchange!End, Exchange!TypeOK
<1> QED
  BY <1>2, <1>3, <1>4

LEMMA OtherStepPays ==
  ASSUME PayInv, CInv', NEW r \in Requests,
         \/ \E q \in ClientRequests : Receive(r, q)
         \/ Fail(r) \/ Finish(r) \/ SendValidation(r) \/ Reject(r)
         \/ \E o \in Outcome : EndValidation(r, o) \/ EndConfirmation(r, o)
         \/ Complete(r) \/ Acknowledge(r)
  PROVE  PaymentMoves /\ ArrivedStarted'
<1>1. CInv /\ ArrivedStarted /\ HandlersTyped
  BY DEF PayInv, CInv
<1>2. ASSUME NEW q \in ClientRequests, Receive(r, q)
      PROVE  PaymentMoves /\ ArrivedStarted'
  <2>1. /\ UNCHANGED << transactions, phase, arrived >>
        /\ handler[r] = "idle"
        /\ request' = [request EXCEPT ![r] = q]
    BY <1>2 DEF Receive, RegisterUrl, RefuseSimulation, Simulate, Act,
                Arrives, Service!Invoke, serviceVars, exchangeVars
  <2>2. phase[Confirmation(r)] = "idle"
    BY <1>1, <2>1, IdleRequest DEF CInv
  <2>3. \A s \in Requests : s # r => request'[s] = request[s]
    BY <1>1, <2>1 DEF HandlersTyped
  <2>4. \A s \in Requests :
          \/ /\ request'[s] = request[s]
             /\ phase'[Confirmation(s)] = "idle" <=>
                  phase[Confirmation(s)] = "idle"
          \/ /\ phase[Confirmation(s)] = "idle"
             /\ phase'[Confirmation(s)] = "idle"
    BY <2>1, <2>2, <2>3
  <2>5. PaymentMoves
    BY <2>1, <2>4, NothingSaid
  <2>6. ArrivedStarted'
    BY <1>1, <2>1 DEF ArrivedStarted
  <2> QED
    BY <2>5, <2>6
<1>3. ASSUME UNCHANGED << transactions, phase, arrived, request >>
      PROVE  PaymentMoves /\ ArrivedStarted'
  <2>1. PaymentMoves
    BY <1>3, NothingSaid
  <2> QED
    BY <1>1, <1>3, <2>1 DEF ArrivedStarted
<1>4. Fail(r) \/ Finish(r) \/ Reject(r) \/ Complete(r) \/ Acknowledge(r) =>
        UNCHANGED << transactions, phase, arrived, request >>
  BY DEF Fail, Finish, Reject, Complete, Acknowledge, SettleAs,
         Service!Invoke, serviceVars, exchangeVars
<1>5. ASSUME UNCHANGED << transactions, request >>,
             \/ Exchange!Start(Validation(r))
             \/ \E x \in {Validation(r), Confirmation(r)}, o \in Outcome :
                  Exchange!End(x, o)
      PROVE  PaymentMoves /\ ArrivedStarted'
  <2>1. /\ arrived' = arrived
        /\ \A s \in Requests : phase'[Confirmation(s)] = "idle" <=>
                                 phase[Confirmation(s)] = "idle"
        /\ \A x \in Exchanges : phase[x] # "idle" => phase'[x] # "idle"
    BY <1>1, <1>5, PhaseKept
  <2>2. PaymentMoves
    BY <1>5, <2>1, NothingSaid
  <2>3. ArrivedStarted'
    BY <1>1, <2>1 DEF ArrivedStarted
  <2> QED
    BY <2>2, <2>3
<1>6. SendValidation(r) => /\ UNCHANGED << transactions, request >>
                           /\ Exchange!Start(Validation(r))
  BY DEF SendValidation, Dispatch, serviceVars
<1>7. ASSUME NEW o \in Outcome, EndValidation(r, o) \/ EndConfirmation(r, o)
      PROVE  /\ UNCHANGED << transactions, request >>
             /\ \E x \in {Validation(r), Confirmation(r)} : Exchange!End(x, o)
  BY <1>7 DEF EndValidation, EndConfirmation, EndDispatch, Service!Invoke
<1> QED
  BY <1>2, <1>3, <1>4, <1>5, <1>6, <1>7

LEMMA NextPays ==
  ASSUME PayInv, CInv', [Next]_vars
  PROVE  PaymentMoves /\ ArrivedStarted'
<1>1. HandlersTyped /\ ArrivedStarted
  BY DEF PayInv, CInv
<1>2. CASE UNCHANGED vars
  <2>1. UNCHANGED << transactions, phase, arrived, request >>
    BY <1>2 DEF vars
  <2>2. PaymentMoves
    BY <2>1, NothingSaid
  <2> QED
    BY <1>1, <2>1, <2>2 DEF ArrivedStarted
<1>3. ASSUME NEW r \in Requests, ServiceStep(r)
      PROVE  PaymentMoves /\ ArrivedStarted'
  <2>1. ArrivedStarted'
    BY <1>1, <1>3 DEF ServiceStep, exchangeVars, ArrivedStarted
  <2> QED
    BY <1>3, <2>1, ServiceStepPays
<1>4. ASSUME NEW r \in Requests, SendConfirmation(r)
      PROVE  PaymentMoves /\ ArrivedStarted'
  <2>1. /\ arrived' = arrived
        /\ phase' = [phase EXCEPT ![Confirmation(r)] = "open"]
    BY <1>4 DEF SendConfirmation, Dispatch, Exchange!Start
  <2>2. \A x \in Exchanges : phase[x] # "idle" => phase'[x] # "idle"
    BY <1>1, <2>1 DEF HandlersTyped, Exchange!TypeOK
  <2>3. ArrivedStarted'
    BY <1>1, <2>1, <2>2 DEF ArrivedStarted
  <2> QED
    BY <1>4, <2>3, SendConfirmationPays
<1>5. ASSUME NEW r \in Requests, Deliver(r)
      PROVE  PaymentMoves /\ ArrivedStarted'
  <2>1. ArrivedStarted'
    BY <1>1, <1>5 DEF Deliver, Exchange!Arrive, ArrivedStarted
  <2> QED
    BY <1>5, <2>1, DeliverPays
<1> QED
  BY <1>2, <1>3, <1>4, <1>5, OtherStepPays DEF Next, Proceed

(* An integration that was sent a confirmation can rely on it: the payment *)
(* becomes SUCCESS and nothing else, and none is confirmed that fails      *)
(* (C2BService.simulate confirms before it settles).                       *)
THEOREM PaymentPromised == Spec => ImplementsPayment
<1>1. Init => PaymentPromise!Init /\ ArrivedStarted
  <2> SUFFICES ASSUME Init
               PROVE  PaymentPromise!Init /\ ArrivedStarted
    OBVIOUS
  <2>1. /\ \A id \in TrackingIds : transactions[id] = NoTransaction
        /\ arrived = {}
    BY DEF Init, Service!Init, Service!NoTransaction, NoTransaction,
           Exchange!Init
  <2> QED
    BY <2>1 DEF PaymentPromise!Init, ArrivedStarted
<1>2. CInv /\ ArrivedStarted /\ CInv' /\ [Next]_vars =>
        PaymentMoves /\ ArrivedStarted'
  BY NextPays DEF PayInv
<1>3. Spec => []ArrivedStarted
  BY <1>1, <1>2, C2BInvariant, PTL DEF Spec
<1>4. CInv /\ ArrivedStarted /\ CInv' /\ [Next]_vars =>
        [PaymentPromise!Next]_(PaymentPromise!vars)
  BY <1>2 DEF PaymentMoves
<1> QED
  BY <1>1, <1>3, <1>4, C2BInvariant, PTL
     DEF Spec, ImplementsPayment, PaymentPromise!Spec

(* What Payment promises, in terms of the two mapped variables.            *)
LEMMA PromiseKept ==
  ASSUME PaymentMoves, \A id \in TrackingIds : \A o \in Told[id] : o = Verdict[id]
  PROVE  /\ \A id \in TrackingIds : \A o \in Told'[id] : o = Verdict'[id]
         /\ \A id \in TrackingIds :
              Verdict[id] \in TerminalStatus => Verdict'[id] = Verdict[id]
<1>1. PaymentPromise!TerminalStatus = TerminalStatus
  BY DEF PaymentPromise!TerminalStatus, PaymentPromise!TransactionStatus,
         TerminalStatus, TransactionStatus
<1>2. "none" \notin TerminalStatus /\ "open" \notin TerminalStatus
  BY DEF TerminalStatus, TransactionStatus
<1>3. DOMAIN Verdict = TrackingIds /\ DOMAIN Told = TrackingIds
  BY DEF Verdict, Told
<1>4. \A id \in TrackingIds : Told[id] \subseteq {"SUCCESS"}
  BY DEF Told
<1>5. CASE UNCHANGED PaymentPromise!vars
  <2>1. Verdict' = Verdict /\ Told' = Told
    BY <1>5 DEF PaymentPromise!vars, Verdict, Told
  <2> QED
    BY <2>1
<1>6. ASSUME NEW id \in TrackingIds, PaymentPromise!Open(id)
      PROVE  /\ Verdict[id] = "none"
             /\ Verdict' = [Verdict EXCEPT ![id] = "open"]
             /\ Told' = Told
  BY <1>6 DEF PaymentPromise!Open, Verdict, Told
<1>7. ASSUME NEW id \in TrackingIds, NEW o \in TerminalStatus,
             PaymentPromise!Decide(id, o)
      PROVE  /\ Verdict[id] = "open"
             /\ Verdict' = [Verdict EXCEPT ![id] = o]
             /\ Told' = Told
  BY <1>7 DEF PaymentPromise!Decide, Verdict, Told
<1>8. ASSUME NEW id \in TrackingIds, PaymentPromise!Tell(id)
      PROVE  /\ Told' = [Told EXCEPT ![id] = @ \cup {Verdict[id]}]
             /\ Verdict' = Verdict
  BY <1>8 DEF PaymentPromise!Tell, Verdict, Told
<1>9. ASSUME NEW id \in TrackingIds, Verdict[id] \in {"none", "open"},
             NEW v, Verdict' = [Verdict EXCEPT ![id] = v], Told' = Told
      PROVE  /\ \A d \in TrackingIds : \A o \in Told'[d] : o = Verdict'[d]
             /\ \A d \in TrackingIds :
                  Verdict[d] \in TerminalStatus => Verdict'[d] = Verdict[d]
  BY <1>2, <1>3, <1>4, <1>9
<1>10. ASSUME NEW id \in TrackingIds, Verdict' = Verdict,
              Told' = [Told EXCEPT ![id] = @ \cup {Verdict[id]}]
       PROVE  \A d \in TrackingIds : \A o \in Told'[d] : o = Verdict'[d]
  BY <1>3, <1>10
<1>11. CASE PaymentPromise!Next
  <2>1. PICK id \in TrackingIds :
          \/ PaymentPromise!Open(id)
          \/ \E o \in TerminalStatus : PaymentPromise!Decide(id, o)
          \/ PaymentPromise!Tell(id)
    BY <1>1, <1>11 DEF PaymentPromise!Next
  <2> QED
    BY <2>1, <1>6, <1>7, <1>8, <1>9, <1>10
<1> QED
  BY <1>5, <1>11 DEF PaymentMoves

(* A confirmation that arrives is never belied: the payment it confirms    *)
(* has the outcome SUCCESS then and keeps it.                              *)
THEOREM OneOutcomeIsHeard ==
  Spec => []PaymentPromise!ToldTheVerdict /\ PaymentPromise!DecidedForGood
<1> DEFINE ToldTrue ==
             \A id \in TrackingIds : \A o \in Told[id] : o = Verdict[id]
<1>1. PaymentPromise!Init => ToldTrue
  BY DEF PaymentPromise!Init, Told
<1>2. ToldTrue /\ PaymentMoves => ToldTrue'
  BY PromiseKept
<1>3. ToldTrue => PaymentPromise!ToldTheVerdict
  BY DEF PaymentPromise!ToldTheVerdict, Verdict, Told
<1>4. PaymentPromise!TerminalStatus = TerminalStatus
  BY DEF PaymentPromise!TerminalStatus, PaymentPromise!TransactionStatus,
         TerminalStatus, TransactionStatus
<1>5. ToldTrue /\ PaymentMoves =>
        [PaymentPromise!KeepsDecisions]_(PaymentPromise!vars)
  <2> SUFFICES ASSUME ToldTrue, PaymentMoves
               PROVE  PaymentPromise!KeepsDecisions
    OBVIOUS
  <2>1. \A id \in TrackingIds :
          Verdict[id] \in TerminalStatus => Verdict'[id] = Verdict[id]
    BY PromiseKept
  <2> QED
    BY <1>4, <2>1 DEF PaymentPromise!KeepsDecisions, Verdict
<1> QED
  BY <1>1, <1>2, <1>3, <1>5, PaymentPromised, PTL
     DEF ImplementsPayment, PaymentPromise!Spec, PaymentPromise!DecidedForGood,
         PaymentMoves

-------------------------------------------------------------------------------
(* How many steps the handler of r can still take, those of its service    *)
(* calls included.                                                         *)
StagesLeft(state) ==
  CASE state = "idle"                  -> 7
    [] state = "calling"               -> 6
    [] state = "validating"            -> 5
    [] state = "recordingValidation"   -> 4
    [] state = "confirming"            -> 3
    [] state = "recordingConfirmation" -> 2
    [] state = "settling"              -> 1
    [] OTHER                           -> 0

CallsLeft(r) ==
  Proved!StepsLeft(pc[First(r)]) + Proved!StepsLeft(pc[Validation(r)])
    + Proved!StepsLeft(pc[Confirmation(r)])
    + Proved!StepsLeft(pc[Settlement(r)])

WorkLeft(r) == StagesLeft(handler[r]) + CallsLeft(r)

(* Each step of a handler leaves it less to do, and no other request gives *)
(* it more, whatever it registers or decides meanwhile: simulate goes      *)
(* through its stages once, and tries neither a callback nor a call again. *)
HandlersAdvance ==
  \A r \in Requests :
    /\ WorkLeft(r) \in 0..23
    /\ WorkLeft(r)' <= WorkLeft(r)
    /\ Proceed(r) => WorkLeft(r)' < WorkLeft(r)

(* A step of s: what it does to s, and that it leaves the others alone.    *)
Shortens(s) ==
  /\ WorkLeft(s)' < WorkLeft(s)
  /\ \A r \in Requests \ {s} : WorkLeft(r)' = WorkLeft(r)

LEMMA LeftTypes ==
  /\ \A state : StagesLeft(state) \in 0..7
  /\ \A place : Proved!StepsLeft(place) \in 0..4
BY DEF StagesLeft, Proved!StepsLeft

LEMMA StageOrder ==
  /\ \A state \in HandlerState \ {"answered"} :
       StagesLeft("answered") < StagesLeft(state)
  /\ StagesLeft("calling") < StagesLeft("idle")
  /\ StagesLeft("validating") < StagesLeft("calling")
  /\ StagesLeft("recordingValidation") < StagesLeft("validating")
  /\ StagesLeft("confirming") < StagesLeft("recordingValidation")
  /\ StagesLeft("recordingConfirmation") < StagesLeft("confirming")
  /\ StagesLeft("settling") < StagesLeft("recordingValidation")
  /\ StagesLeft("settling") < StagesLeft("recordingConfirmation")
BY DEF StagesLeft, HandlerState

(* Steps that go on to a later stage, and those that also invoke a call.   *)
LEMMA StageShortens ==
  ASSUME CInv, NEW s \in Requests, NEW state \in HandlerState,
         handler' = [handler EXCEPT ![s] = state],
         StagesLeft(state) < StagesLeft(handler[s]),
         \/ pc' = pc
         \/ \E c \in CallsOf(s) :
              pc[c] = "idle" /\ pc' = [pc EXCEPT ![c] = "invoked"]
  PROVE  Shortens(s)
<1>1. handler \in [Requests -> HandlerState] /\ DOMAIN pc = Calls
  BY DEF CInv, HandlersTyped, ServiceFacts, Proved!IInv, Proved!TypeOK
<1>2. handler'[s] = state /\ \A r \in Requests \ {s} : handler'[r] = handler[r]
  BY <1>1
<1>3. \A d \in Calls :
        /\ d \notin CallsOf(s) => pc'[d] = pc[d]
        /\ Proved!StepsLeft(pc'[d]) <= Proved!StepsLeft(pc[d])
  BY <1>1, LeftTypes, CallsDistinct DEF Proved!StepsLeft
<1>4. WorkLeft(s)' < WorkLeft(s)
  <2>1. \A c \in CallsOf(s) : Proved!StepsLeft(pc'[c]) <= Proved!StepsLeft(pc[c])
    BY <1>3, CallsDistinct
  <2> QED
    BY <1>2, <2>1, LeftTypes DEF WorkLeft, CallsLeft, CallsOf
<1>5. ASSUME NEW r \in Requests \ {s}
      PROVE  WorkLeft(r)' = WorkLeft(r)
  <2>1. \A c \in CallsOf(r) : pc'[c] = pc[c]
    BY <1>3, CallsDistinct
  <2> QED
    BY <1>2, <2>1 DEF WorkLeft, CallsLeft, CallsOf
<1> QED
  BY <1>4, <1>5 DEF Shortens

LEMMA ServiceStepShortens ==
  ASSUME CInv, NEW s \in Requests, ServiceStep(s)
  PROVE  Shortens(s)
<1>1. handler' = handler
  BY DEF ServiceStep
<1>2. PICK c \in Calls : c[1] = s /\ Service!Step(c)
  BY DEF ServiceStep
<1>3. c \in CallsOf(s)
  BY <1>2, CallsDistinct
<1>4. /\ Proved!StepsLeft(pc'[c]) < Proved!StepsLeft(pc[c])
      /\ \A d \in Calls \ {c} : pc'[d] = pc[d]
  BY <1>2, SameStep, StepFrame, OfferedHolds, Proved!StepAdvances
     DEF CInv, ServiceFacts
<1>5. WorkLeft(s)' < WorkLeft(s)
  <2>1. \A d \in CallsOf(s) \ {c} : pc'[d] = pc[d]
    BY <1>4, CallsDistinct
  <2>2. CASE c = First(s)
    BY <1>1, <1>4, <2>1, <2>2, LeftTypes, CallsDistinct
       DEF WorkLeft, CallsLeft, CallsOf
  <2>3. CASE c = Validation(s)
    BY <1>1, <1>4, <2>1, <2>3, LeftTypes, CallsDistinct
       DEF WorkLeft, CallsLeft, CallsOf
  <2>4. CASE c = Confirmation(s)
    BY <1>1, <1>4, <2>1, <2>4, LeftTypes, CallsDistinct
       DEF WorkLeft, CallsLeft, CallsOf
  <2>5. CASE c = Settlement(s)
    BY <1>1, <1>4, <2>1, <2>5, LeftTypes, CallsDistinct
       DEF WorkLeft, CallsLeft, CallsOf
  <2> QED
    BY <1>3, <2>2, <2>3, <2>4, <2>5 DEF CallsOf
<1>6. ASSUME NEW r \in Requests \ {s}
      PROVE  WorkLeft(r)' = WorkLeft(r)
  <2>1. \A d \in CallsOf(r) : pc'[d] = pc[d]
    BY <1>3, <1>4, CallsDistinct
  <2> QED
    BY <1>1, <2>1 DEF WorkLeft, CallsLeft, CallsOf
<1> QED
  BY <1>5, <1>6 DEF Shortens

LEMMA ArrivalShortens ==
  ASSUME CInv, NEW s \in Requests, NEW q \in ClientRequests, Receive(s, q)
  PROVE  Shortens(s)
<1>1. First(s) \in CallsOf(s)
  BY DEF CallsOf
<1>2. CASE RegisterUrl(s, q) \/ RefuseSimulation(s, q)
  <2>1. /\ handler[s] = "idle"
        /\ handler' = [handler EXCEPT ![s] = "answered"]
        /\ pc' = pc
    BY <1>2 DEF RegisterUrl, RefuseSimulation, Arrives, Answer, GoTo,
                serviceVars
  <2> QED
    BY <2>1, StageOrder, StageShortens DEF HandlerState
<1>3. CASE Simulate(s, q) \/ Act(s, q)
  <2>1. /\ handler[s] = "idle"
        /\ handler' = [handler EXCEPT ![s] = "calling"]
        /\ pc[First(s)] = "idle"
        /\ pc' = [pc EXCEPT ![First(s)] = "invoked"]
    BY <1>3 DEF Simulate, Act, Arrives, GoTo, Service!Invoke
  <2> QED
    BY <1>1, <2>1, StageOrder, StageShortens DEF HandlerState
<1> QED
  BY <1>2, <1>3 DEF Receive

LEMMA ProceedShortens ==
  ASSUME CInv, NEW s \in Requests, Proceed(s)
  PROVE  Shortens(s)
<1>1. CASE Fail(s) \/ Finish(s) \/ Acknowledge(s)
  <2>1. /\ handler[s] # "answered"
        /\ handler' = [handler EXCEPT ![s] = "answered"]
        /\ pc' = pc
    BY <1>1 DEF Fail, Finish, Acknowledge, Resumes, Answer, GoTo, serviceVars
  <2>2. handler[s] \in HandlerState
    BY DEF CInv, HandlersTyped
  <2> QED
    BY <2>1, <2>2, StageOrder, StageShortens DEF HandlerState
<1>2. CASE SendValidation(s)
  <2>1. /\ handler[s] = "calling"
        /\ handler' = [handler EXCEPT ![s] = "validating"]
        /\ pc' = pc
    BY <1>2 DEF SendValidation, Resumes, Dispatch, GoTo, serviceVars
  <2> QED
    BY <2>1, StageOrder, StageShortens DEF HandlerState
<1>3. CASE SendConfirmation(s)
  <2>1. /\ handler[s] = "recordingValidation"
        /\ handler' = [handler EXCEPT ![s] = "confirming"]
        /\ pc' = pc
    BY <1>3 DEF SendConfirmation, Resumes, Dispatch, GoTo, serviceVars
  <2> QED
    BY <2>1, StageOrder, StageShortens DEF HandlerState
<1>4. ASSUME NEW o \in Outcome, EndValidation(s, o)
      PROVE  Shortens(s)
  <2>1. /\ handler[s] = "validating"
        /\ handler' = [handler EXCEPT ![s] = "recordingValidation"]
        /\ pc[Validation(s)] = "idle"
        /\ pc' = [pc EXCEPT ![Validation(s)] = "invoked"]
    BY <1>4 DEF EndValidation, EndDispatch, GoTo, Service!Invoke
  <2>2. Validation(s) \in CallsOf(s)
    BY DEF CallsOf
  <2> QED
    BY <2>1, <2>2, StageOrder, StageShortens DEF HandlerState
<1>5. ASSUME NEW o \in Outcome, EndConfirmation(s, o)
      PROVE  Shortens(s)
  <2>1. /\ handler[s] = "confirming"
        /\ handler' = [handler EXCEPT ![s] = "recordingConfirmation"]
        /\ pc[Confirmation(s)] = "idle"
        /\ pc' = [pc EXCEPT ![Confirmation(s)] = "invoked"]
    BY <1>5 DEF EndConfirmation, EndDispatch, GoTo, Service!Invoke
  <2>2. Confirmation(s) \in CallsOf(s)
    BY DEF CallsOf
  <2> QED
    BY <2>1, <2>2, StageOrder, StageShortens DEF HandlerState
<1>6. CASE Reject(s) \/ Complete(s)
  <2>1. /\ handler[s] \in {"recordingValidation", "recordingConfirmation"}
        /\ handler' = [handler EXCEPT ![s] = "settling"]
        /\ pc[Settlement(s)] = "idle"
        /\ pc' = [pc EXCEPT ![Settlement(s)] = "invoked"]
    BY <1>6 DEF Reject, Complete, Resumes, SettleAs, GoTo, Service!Invoke
  <2>2. Settlement(s) \in CallsOf(s)
    BY DEF CallsOf
  <2> QED
    BY <2>1, <2>2, StageOrder, StageShortens DEF HandlerState
<1> QED
  BY <1>1, <1>2, <1>3, <1>4, <1>5, <1>6, ServiceStepShortens DEF Proceed

(* C2BService.simulate and the other routes come to an end: each answers   *)
(* within twenty-three steps of its handler and its service calls.         *)
THEOREM HandlersEnd == Spec => [][HandlersAdvance]_vars
<1>1. ASSUME CInv, [Next]_vars
      PROVE  HandlersAdvance
  <2>1. \A r \in Requests : WorkLeft(r) \in 0..23 /\ WorkLeft(r)' \in 0..23
    BY LeftTypes DEF WorkLeft, CallsLeft
  <2>2. ASSUME NEW r \in Requests
        PROVE  WorkLeft(r)' <= WorkLeft(r)
    <3>1. CASE UNCHANGED << handler, pc >>
      <4>1. WorkLeft(r)' = WorkLeft(r)
        BY <3>1 DEF WorkLeft, CallsLeft
      <4> QED
        BY <2>1, <4>1
    <3>2. ASSUME NEW s \in Requests, Shortens(s)
          PROVE  WorkLeft(r)' <= WorkLeft(r)
      BY <2>1, <3>2 DEF Shortens
    <3>3. \A s \in Requests : Deliver(s) => UNCHANGED << handler, pc >>
      BY DEF Deliver, serviceVars
    <3>4. UNCHANGED vars => UNCHANGED << handler, pc >>
      BY DEF vars
    <3> QED
      BY <1>1, <3>1, <3>2, <3>3, <3>4, ArrivalShortens, ProceedShortens
         DEF Next
  <2> QED
    BY <1>1, <2>1, <2>2, ProceedShortens DEF HandlersAdvance, Shortens
<1>2. CInv /\ [Next]_vars => [HandlersAdvance]_vars
  BY <1>1
<1> QED
  BY <1>2, C2BInvariant, PTL DEF Spec

-------------------------------------------------------------------------------
(* The conditions of the steps of Proceed, in their order.                 *)
CanGoOn(r) ==
  \/ \E c \in CallsOf(r) : pc[c] \in {"invoked", "found", "conflicted"}
  \/ /\ handler[r] # "answered"
     /\ \E c \in CallsOf(r) : reply[c].error \in ErrorCode
  \/ request[r].name \in {"show", "decide"} /\ Resumes(r, "calling", First(r))
  \/ /\ request[r].name = "simulate"
     /\ Resumes(r, "calling", First(r))
     /\ phase[Validation(r)] = "idle"
  \/ /\ handler[r] = "validating"
     /\ phase[Validation(r)] = "open"
     /\ pc[Validation(r)] = "idle"
  \/ /\ handler[r] = "confirming"
     /\ phase[Confirmation(r)] = "open"
     /\ pc[Confirmation(r)] = "idle"
  \/ /\ Resumes(r, "recordingValidation", Validation(r))
     /\ ValidationFailure(r) # NoResult
     /\ pc[Settlement(r)] = "idle"
  \/ /\ Resumes(r, "recordingValidation", Validation(r))
     /\ ValidationFailure(r) = NoResult
     /\ phase[Confirmation(r)] = "idle"
  \/ /\ Resumes(r, "recordingConfirmation", Confirmation(r))
     /\ pc[Settlement(r)] = "idle"
  \/ Resumes(r, "settling", Settlement(r))

(* No simulation and no other request is left hanging: until it has        *)
(* answered, its handler, one of its calls or its exchange has something   *)
(* to do, which waits for no other request.                                *)
NobodyIsStuck ==
  \A r \in Requests :
    handler[r] \in {"idle", "answered"} \/ CanGoOn(r)

LEMMA AwaitedCall ==
  ASSUME CInv, Proved!OutcomeShown, NEW r \in Requests,
         NEW c \in CallsOf(r), op[c] # NoCall,
         handler[r] # "answered", ~ CanGoOn(r)
  PROVE  pc[c] = "replied" /\ reply[c].error = "none"
<1>1. c \in Calls
  BY CallsDistinct
<1>2. pc[c] # "idle"
  BY <1>1 DEF CInv, ServiceFacts, Proved!IInv, Proved!NoCall, NoCall
<1>3. pc[c] \in {"idle", "invoked", "found", "conflicted", "replied"}
  BY <1>1 DEF CInv, ServiceFacts, Proved!IInv, Proved!TypeOK, Proved!Stage
<1>4. pc[c] = "replied" /\ reply[c].error \notin ErrorCode
  BY <1>2, <1>3 DEF CanGoOn
<1>5. reply[c].error # "no reply"
  BY <1>1, <1>4 DEF Proved!OutcomeShown
<1>6. reply[c] \in Proved!Reply(TrackingIds, Attempt) \cup {Proved!NoReply}
  BY <1>1 DEF CInv, ServiceFacts, Proved!IInv, Proved!TypeOK
<1>7. Proved!NoReply.error = "no reply"
  BY DEF Proved!NoReply
<1>8. reply[c].error \in ErrorCode \cup {"none"}
  BY <1>5, <1>6, <1>7, SameRecords DEF Proved!Reply
<1> QED
  BY <1>4, <1>8

LEMMA WaitingGoesOn ==
  ASSUME CInv, Proved!OutcomeShown
  PROVE  NobodyIsStuck
<1> SUFFICES ASSUME NEW r \in Requests,
                    handler[r] \notin {"idle", "answered"}, ~ CanGoOn(r)
             PROVE  FALSE
  BY DEF NobodyIsStuck
<1>1. /\ HandlersTyped /\ HandlerInv(r)
      /\ \A c \in Calls : pc[c] = "idle" <=> op[c] = NoCall
  BY DEF CInv, ServiceFacts, Proved!IInv, Proved!NoCall, NoCall
<1>2. \A c \in CallsOf(r) :
        op[c] # NoCall => pc[c] = "replied" /\ reply[c].error = "none"
  BY AwaitedCall
<1>3. \A o : o.name # "none" => o # NoCall
  BY DEF NoCall
<1>4. CallsOf(r) \subseteq Calls
  BY CallsDistinct
<1>5. CASE ~ Simulation(r)
  <2>1. /\ handler[r] = "calling"
        /\ request[r] # NoRequest
        /\ request[r].name \in {"show", "decide"}
        /\ op[First(r)] = ActOf(request[r])
    BY <1>1, <1>5 DEF HandlerInv, OtherInv
  <2>2. request[r] \in ClientRequest
    BY <1>1, <2>1 DEF HandlersTyped
  <2>3. op[First(r)].name # "none"
    BY <2>1, <2>2 DEF ActOf, ClientRequest
  <2> QED
    BY <1>2, <1>3, <2>1, <2>3 DEF CallsOf, CanGoOn, Resumes
<1>6. CASE Simulation(r)
  <2>1. SimulationInv(r) /\ request[r].name = "simulate"
    BY <1>1, <1>6 DEF HandlerInv, Simulation
  <2>2. handler[r] \in HandlerState
    BY <1>1 DEF HandlersTyped
  <2>3. op[First(r)] # NoCall
    BY <1>3, <2>1 DEF SimulationInv, CreateOf
  <2>4. CASE handler[r] = "calling"
    BY <1>2, <2>1, <2>3, <2>4 DEF SimulationInv, CallsOf, CanGoOn, Resumes
  <2>5. CASE handler[r] \in {"validating", "confirming"}
    <3>1. \A x \in {Validation(r), Confirmation(r)} :
            phase[x] # "ended" => pc[x] = "idle"
      BY <1>1, <1>4, <2>1 DEF SimulationInv, CallsOf
    <3> QED
      BY <2>1, <2>5, <3>1 DEF SimulationInv, BeforeDecision, CanGoOn
  <2>6. CASE handler[r] \in {"recordingValidation", "recordingConfirmation"}
    <3>1. pc[Settlement(r)] = "idle"
      BY <1>1, <1>4, <2>1, <2>6 DEF SimulationInv, Ending, CallsOf
    <3>2. \A x : RecordOf(r, x) # NoCall
      BY <1>3 DEF RecordOf
    <3>3. \A x \in {Validation(r), Confirmation(r)} :
            phase[x] = "ended" => pc[x] = "replied" /\ reply[x].error = "none"
      BY <1>2, <2>1, <3>2 DEF SimulationInv, CallsOf
    <3> QED
      BY <2>1, <2>6, <3>1, <3>3
         DEF SimulationInv, BeforeDecision, Rejected, CanGoOn, Resumes
  <2>7. CASE handler[r] = "settling"
    <3>1. op[Settlement(r)] # NoCall
      BY <1>3, <2>1, <2>7 DEF SimulationInv, Ending, SettlementOf
    <3> QED
      BY <1>2, <2>7, <3>1 DEF CallsOf, CanGoOn, Resumes
  <2> QED
    BY <2>2, <2>4, <2>5, <2>6, <2>7 DEF HandlerState
<1> QED
  BY <1>5, <1>6

(* simulate, show and decide never wait in vain, whatever else happens to  *)
(* the transaction and the registrations meanwhile.                        *)
THEOREM NobodyHangs == Spec => []NobodyIsStuck
<1>1. Spec => []Proved!OutcomeShown
  <2>1. Proved!Init => Proved!OutcomeShown
    BY DEF Proved!Init, Proved!OutcomeShown, Proved!Succeeded
  <2>2. Init => Proved!Init
    BY SameInit DEF Init
  <2>3. CInv /\ Proved!OutcomeShown /\ [Next]_vars => Proved!OutcomeShown'
    BY ServiceMoves, OfferedHolds, Proved!OutcomeShownInductive
       DEF CInv, ServiceFacts
  <2> QED
    BY <2>1, <2>2, <2>3, C2BInvariant, PTL DEF Spec
<1>2. CInv /\ Proved!OutcomeShown => NobodyIsStuck
  BY WaitingGoesOn
<1> QED
  BY <1>1, <1>2, C2BInvariant, PTL

===============================================================================
