---------------------------------- MODULE C2B ----------------------------------
(***************************************************************************)
(* C2BService: the registrations of callback URLs by short code, and the   *)
(* simulation of a customer's payment.  A simulation creates a             *)
(* transaction, asks the ValidationURL, and either fails the transaction   *)
(* or calls the ConfirmationURL and completes it: four calls of            *)
(* TransactionService and up to two callback exchanges, in one handler.    *)
(* Between any two of them other simulations run, URLs are registered      *)
(* anew, and other routes act on the transaction, whose id the             *)
(* integration has known since its validation.                             *)
(***************************************************************************)
EXTENDS TransactionTypes, FiniteSets

CONSTANTS
  TrackingIds,     \* the tracking ids transactions can be given
  ShortCodes,      \* the short codes URLs are registered for
  Urls,            \* the URLs of integrations
  Bodies,          \* what a validation endpoint answers, see Decision
  Requests,        \* one element for every HTTP request
  ClientRequests   \* what the requests ask for

Registration ==
  [ResponseType : {"Completed", "Cancelled"},
   ValidationURL : Urls, ConfirmationURL : Urls]

NoRegistration == [ResponseType |-> "undefined"]

(* The requests of other routes that reach a C2B transaction are single    *)
(* calls of TransactionService: those a simulator route begins with.       *)
ClientRequest ==
  [name : {"registerurl"}, shortCode : ShortCodes, registration : Registration]
  \cup [name : {"simulate"}, shortCode : ShortCodes, id : TrackingIds]
  \cup [name : {"show"}, id : TrackingIds]
  \cup [name : {"decide"}, id : TrackingIds, to : TerminalStatus,
        transition : {"transitionStk", "transitionBusinessPayment"}]

ASSUME ClientRequestsAssumption == ClientRequests \subseteq ClientRequest

NoRequest == [name |-> "none"]

-------------------------------------------------------------------------------
Roles == {"C2B_VALIDATION", "C2B_CONFIRMATION"}

Exchanges == Requests \X Roles

Validation(r) == << r, "C2B_VALIDATION" >>

Confirmation(r) == << r, "C2B_CONFIRMATION" >>

(* The calls of TransactionService: one to create, read or decide, one to  *)
(* record each of the two exchanges, one to settle.                        *)
Calls == Requests \X ({"first", "settle"} \cup Roles)

First(r) == << r, "first" >>

Settlement(r) == << r, "settle" >>

Outcome == [ok : BOOLEAN, body : Bodies \cup {"undefined"}]

Attempt == [id : Exchanges, url : Urls, outcome : Outcome]

VARIABLES
  transactions, op, pc, seen, reply,   \* the state of TransactionService
  phase, arrived, outcome,             \* the state of the callback exchanges
  registrations,   \* the Map of registrations, by short code
  request,         \* what each HTTP request asks for
  handler,         \* where its handler is
  registration,    \* the registration a simulation found at its start
  sentTo,          \* the URL of each exchange, once it has started
  answer           \* how each request was answered

serviceVars == << transactions, op, pc, seen, reply >>

exchangeVars == << phase, arrived, outcome >>

vars == << transactions, op, pc, seen, reply, phase, arrived, outcome,
           registrations, request, handler, registration, sentTo, answer >>

Service ==
  INSTANCE TransactionService WITH
    Attempts <- Attempt, Offered <- ServiceCall(TrackingIds, Attempt)

Exchange == INSTANCE CallbackExchange

HandlerState ==
  {"idle", "calling", "validating", "recordingValidation", "confirming",
   "recordingConfirmation", "settling", "answered"}

TypeOK ==
  /\ Service!TypeOK
  /\ Exchange!TypeOK
  /\ registrations \in [ShortCodes -> Registration \cup {NoRegistration}]
  /\ request \in [Requests -> ClientRequest \cup {NoRequest}]
  /\ handler \in [Requests -> HandlerState]
  /\ registration \in [Requests -> Registration \cup {NoRegistration}]
  /\ sentTo \in [Exchanges -> Urls \cup {"nowhere"}]
  /\ answer \in [Requests -> ErrorCode \cup
                   {"none", "no answer", "C2B_URLS_NOT_REGISTERED"}]

Init ==
  /\ Service!Init
  /\ Exchange!Init
  /\ registrations = [s \in ShortCodes |-> NoRegistration]
  /\ request = [r \in Requests |-> NoRequest]
  /\ handler = [r \in Requests |-> "idle"]
  /\ registration = [r \in Requests |-> NoRegistration]
  /\ sentTo = [x \in Exchanges |-> "nowhere"]
  /\ answer = [r \in Requests |-> "no answer"]

-------------------------------------------------------------------------------
GoTo(r, state) == handler' = [handler EXCEPT ![r] = state]

Answer(r, error) ==
  /\ GoTo(r, "answered")
  /\ answer' = [answer EXCEPT ![r] = error]

Arrives(r, q) ==
  /\ handler[r] = "idle"
  /\ request' = [request EXCEPT ![r] = q]

(* The handler of r goes on once its service call has succeeded. *)
Resumes(r, state, call) ==
  /\ handler[r] = state
  /\ pc[call] = "replied"
  /\ reply[call].error = "none"

RegisterUrl(r, q) ==
  /\ q.name = "registerurl"
  /\ Arrives(r, q)
  /\ registrations' = [registrations EXCEPT ![q.shortCode] = q.registration]
  /\ Answer(r, "none")
  /\ UNCHANGED << serviceVars, exchangeVars, registration, sentTo >>

RefuseSimulation(r, q) ==
  /\ q.name = "simulate"
  /\ registrations[q.shortCode] = NoRegistration
  /\ Arrives(r, q)
  /\ Answer(r, "C2B_URLS_NOT_REGISTERED")
  /\ UNCHANGED << serviceVars, exchangeVars, registrations, registration, sentTo >>

Simulate(r, q) ==
  /\ q.name = "simulate"
  /\ registrations[q.shortCode] # NoRegistration
  /\ Arrives(r, q)
  /\ registration' = [registration EXCEPT ![r] = registrations[q.shortCode]]
  /\ Service!Invoke(First(r), [name |-> "create", id |-> q.id, kind |-> "C2B"])
  /\ GoTo(r, "calling")
  /\ UNCHANGED << exchangeVars, registrations, sentTo, answer >>

(* The other routes. *)
Act(r, q) ==
  /\ q.name \in {"show", "decide"}
  /\ Arrives(r, q)
  /\ Service!Invoke(First(r),
       IF q.name = "show" THEN [name |-> "getByTrackingId", id |-> q.id]
       ELSE [name |-> q.transition, id |-> q.id, to |-> q.to, result |-> NoResult])
  /\ GoTo(r, "calling")
  /\ UNCHANGED << exchangeVars, registrations, registration, sentTo, answer >>

ServiceStep(r) ==
  /\ \E c \in Calls : c[1] = r /\ Service!Step(c)
  /\ UNCHANGED << exchangeVars, registrations, request, handler, registration,
                  sentTo, answer >>

(* A service call that throws ends the handler. *)
Fail(r) ==
  \E c \in Calls :
    /\ c[1] = r
    /\ handler[r] # "answered"
    /\ reply[c].error \in ErrorCode
    /\ Answer(r, reply[c].error)
    /\ UNCHANGED << serviceVars, exchangeVars, registrations, request,
                    registration, sentTo >>

(* Another route is done when its call is. *)
Finish(r) ==
  /\ request[r].name \in {"show", "decide"}
  /\ Resumes(r, "calling", First(r))
  /\ Answer(r, "none")
  /\ UNCHANGED << serviceVars, exchangeVars, registrations, request,
                  registration, sentTo >>

-------------------------------------------------------------------------------
(* dispatch(url, payload, role): the payload is about the transaction of r.*)
Dispatch(x, url) ==
  /\ Exchange!Start(x)
  /\ sentTo' = [sentTo EXCEPT ![x] = url]
  /\ UNCHANGED << serviceVars, registrations, request, registration, answer >>

(* dispatch returns the outcome o, and the attempt is to be recorded. *)
EndDispatch(x, o) ==
  LET r == x[1]
  IN  /\ Exchange!End(x, o)
      /\ Service!Invoke(x,
           [name    |-> "addCallbackAttempt",
            id      |-> request[r].id,
            attempt |-> [id |-> x, url |-> sentTo[x], outcome |-> o]])
      /\ UNCHANGED << registrations, request, registration, sentTo, answer >>

Deliver(r) ==
  /\ \E x \in Exchanges : x[1] = r /\ Exchange!Arrive(x)
  /\ UNCHANGED << serviceVars, registrations, request, handler, registration,
                  sentTo, answer >>

SendValidation(r) ==
  /\ request[r].name = "simulate"
  /\ Resumes(r, "calling", First(r))
  /\ Dispatch(Validation(r), registration[r].ValidationURL)
  /\ GoTo(r, "validating")

EndValidation(r, o) ==
  /\ handler[r] = "validating"
  /\ EndDispatch(Validation(r), o)
  /\ GoTo(r, "recordingValidation")

(* Mutant of Decision: the status of the HTTP answer is not looked at. *)
DecisionOfBody(o) == IF o.body \in {"accept", "reject"} THEN o.body ELSE "none"

(* What the validation endpoint decided: only a 2xx answer whose body has  *)
(* a ResultCode and a ResultDesc is a decision.  "accept" stands for a     *)
(* ResultCode that reads as "0", "reject" for any other; a body may also   *)
(* be something else.                                                      *)
Decision(o) ==
  IF o.ok /\ o.body \in {"accept", "reject"} THEN o.body ELSE "none"

(* The details the transaction fails with, NoResult when it does not. *)
getValidationFailure(o, responseType) ==
  CASE Decision(o) = "reject" -> [code |-> "reject", desc |-> "rejected"]
    [] Decision(o) = "none" /\ responseType = "Cancelled" ->
         [code |-> "1", desc |-> "no decision"]
    [] OTHER -> NoResult

ValidationFailure(r) ==
  getValidationFailure(outcome[Validation(r)], registration[r].ResponseType)

(* transitionC2B: nothing but the settlement itself is left to do. *)
SettleAs(r, to, details) ==
  /\ Service!Invoke(Settlement(r),
       [name |-> "transitionC2B", id |-> request[r].id, to |-> to,
        result |-> details])
  /\ GoTo(r, "settling")
  /\ UNCHANGED << exchangeVars, registrations, request, registration, sentTo,
                  answer >>

(* Mutant of Reject: the fallback Cancelled ends nothing. *)
RejectIfAsked(r) ==
  /\ Resumes(r, "recordingValidation", Validation(r))
  /\ Decision(outcome[Validation(r)]) = "reject"
  /\ SettleAs(r, "FAILED", ValidationFailure(r))

Reject(r) ==
  /\ Resumes(r, "recordingValidation", Validation(r))
  /\ ValidationFailure(r) # NoResult
  /\ SettleAs(r, "FAILED", ValidationFailure(r))

(* Mutant of ConfirmationURL: the registration is looked up again. *)
CurrentConfirmationURL(r) == registrations[request[r].shortCode].ConfirmationURL

ConfirmationURL(r) == registration[r].ConfirmationURL

SendConfirmation(r) ==
  /\ Resumes(r, "recordingValidation", Validation(r))
  /\ ValidationFailure(r) = NoResult
  /\ Dispatch(Confirmation(r), ConfirmationURL(r))
  /\ GoTo(r, "confirming")

EndConfirmation(r, o) ==
  /\ handler[r] = "confirming"
  /\ EndDispatch(Confirmation(r), o)
  /\ GoTo(r, "recordingConfirmation")

(* Mutant of Complete: a payment whose confirmation failed fails, too. *)
CompleteIfConfirmed(r) ==
  /\ Resumes(r, "recordingConfirmation", Confirmation(r))
  /\ SettleAs(r, IF outcome[Confirmation(r)].ok THEN "SUCCESS" ELSE "FAILED",
              NoResult)

Complete(r) ==
  /\ Resumes(r, "recordingConfirmation", Confirmation(r))
  /\ SettleAs(r, "SUCCESS", NoResult)

Acknowledge(r) ==
  /\ Resumes(r, "settling", Settlement(r))
  /\ Answer(r, "none")
  /\ UNCHANGED << serviceVars, exchangeVars, registrations, request,
                  registration, sentTo >>

Proceed(r) ==
  \/ ServiceStep(r)
  \/ Fail(r)
  \/ Finish(r)
  \/ SendValidation(r)
  \/ \E o \in Outcome : EndValidation(r, o) \/ EndConfirmation(r, o)
  \/ Reject(r)
  \/ SendConfirmation(r)
  \/ Complete(r)
  \/ Acknowledge(r)

Receive(r, q) ==
  RegisterUrl(r, q) \/ RefuseSimulation(r, q) \/ Simulate(r, q) \/ Act(r, q)

Next ==
  \E r \in Requests :
    \/ \E q \in ClientRequests : Receive(r, q)
    \/ Proceed(r)
    \/ Deliver(r)

Spec == Init /\ [][Next]_vars

(* Every handler is run to its end: dispatch always returns, see           *)
(* CallbackExchange, and the event loop runs what is ready.                *)
FairSpec == Spec /\ \A r \in Requests : WF_vars(Proceed(r))

-------------------------------------------------------------------------------
Simulation(r) == request[r].name = "simulate" /\ registration[r] # NoRegistration

Settled(r) ==
  /\ Simulation(r)
  /\ transactions[request[r].id] # NoTransaction
  /\ transactions[request[r].id].status # "PENDING"

(* A payment is settled as its validation endpoint said, or, when that did *)
(* not say anything a 2xx answer with both result fields would, as the     *)
(* ResponseType in force when the payment was made; and whatever happens   *)
(* to the confirmation: registrations, decisions of other routes and the   *)
(* exchange of the confirmation in between change nothing.                 *)
SettledAsDecided ==
  \A r \in Requests : Settled(r) =>
    LET said == outcome[Validation(r)]
        t    == transactions[request[r].id]
        decided == said.ok /\ said.body \in {"accept", "reject"}
    IN  /\ phase[Validation(r)] = "ended"
        /\ t.status \in {"SUCCESS", "FAILED"}
        /\ decided => (t.status = "SUCCESS" <=> said.body = "accept")
        /\ decided /\ said.body = "reject" => t.result.code = "reject"
        /\ ~ decided => (t.status = "SUCCESS" <=>
                           registration[r].ResponseType = "Completed")

(* Both callbacks of a payment go to the URLs of one registration of its   *)
(* short code, also when another one replaced it in between.               *)
OneRegistrationPerPayment ==
  \A r \in Requests : Simulation(r) =>
    \E s \in Requests :
      /\ request[s].name = "registerurl"
      /\ request[s].shortCode = request[r].shortCode
      /\ sentTo[Validation(r)] \in
           {"nowhere", request[s].registration.ValidationURL}
      /\ sentTo[Confirmation(r)] \in
           {"nowhere", request[s].registration.ConfirmationURL}

(* Who sees a C2B outcome finds in the transaction all the exchanges that  *)
(* led to it, in their order: the validation, then, unless it failed, the  *)
(* confirmation.                                                           *)
OutcomeAfterAttempts ==
  \A r \in Requests : Settled(r) =>
    LET t == transactions[request[r].id]
        Recorded(x) == [id |-> x, url |-> sentTo[x], outcome |-> outcome[x]]
    IN  t.callbackAttempts =
          IF t.status = "FAILED" THEN << Recorded(Validation(r)) >>
          ELSE << Recorded(Validation(r)), Recorded(Confirmation(r)) >>

(* A simulation that found its URLs ends with the acknowledgement: none of *)
(* its four service calls can fail, whatever the other routes try on the   *)
(* transaction while its callbacks are under way.                          *)
NeverRefused ==
  \A r \in Requests : Simulation(r) => answer[r] \in {"no answer", "none"}

(* Every simulated payment is settled, even if neither URL ever answers.   *)
EverySimulationSettles ==
  \A r \in Requests :
    Simulation(r) ~> Settled(r) /\ handler[r] = "answered"

-------------------------------------------------------------------------------
(* A payment is decided when its confirmation is sent: at that moment the  *)
(* stored transaction is still PENDING, and the outcome is known.          *)
Confirmed(id) ==
  \E r \in Requests :
    /\ request[r].name = "simulate"
    /\ request[r].id = id
    /\ phase[Confirmation(r)] # "idle"

PaymentPromise ==
  INSTANCE Payment WITH
    verdict <- [id \in TrackingIds |->
                  IF transactions[id] = NoTransaction THEN "none"
                  ELSE IF transactions[id].status # "PENDING"
                  THEN transactions[id].status
                  ELSE IF Confirmed(id) THEN "SUCCESS" ELSE "open"],
    told    <- [id \in TrackingIds |->
                  {o \in {"SUCCESS"} :
                     \E r \in Requests : /\ request[r].name = "simulate"
                                         /\ request[r].id = id
                                         /\ Confirmation(r) \in arrived}]

(* An integration that was sent a confirmation, lost or late as it may be, *)
(* can rely on it: the payment becomes SUCCESS and nothing else, although  *)
(* it may still be looked up as PENDING for a while.                       *)
ImplementsPayment == PaymentPromise!Spec

===============================================================================
