--------------------------- MODULE TransactionTypes ---------------------------
(***************************************************************************)
(* The data every part of the emulator shares: transaction statuses and    *)
(* kinds, the state machine over statuses, result details, the record kept *)
(* for a transaction and the errors a service call can throw.              *)
(*                                                                         *)
(* Three identifiers of the source collapse into one here.  A transaction  *)
(* has a random `id`, the key of the repository's Map, and a random        *)
(* `trackingId`; for STK the trackingId is also its `checkoutRequestId`,   *)
(* for the other kinds its `conversationId`.  All are drawn once, with 48  *)
(* random bits or more, so the model takes them as distinct and keeps the  *)
(* trackingId.  Amounts, parties, timestamps and the raw request are not   *)
(* modelled: no step of the program branches on them.                      *)
(***************************************************************************)
EXTENDS Sequences

TransactionStatus == {"PENDING", "SUCCESS", "FAILED", "TIMEOUT"}

TerminalStatus == TransactionStatus \ {"PENDING"}

BusinessKinds == {"B2C", "B2B", "B2C_ACCOUNT_TOPUP"}

TransactionKind == {"STK", "C2B"} \cup BusinessKinds

(* Mutant of CanTransition: a settled payment may be failed afterwards. *)
CanTransitionToFailure(from, to) == from = "PENDING" \/ to = "FAILED"

(* The transition table: only PENDING has successors. *)
allowedTransitions ==
  [from \in TransactionStatus |->
     IF from = "PENDING" THEN TerminalStatus ELSE {}]

(* What assertCanTransition lets through. *)
CanTransition(from, to) == to \in allowedTransitions[from]

-------------------------------------------------------------------------------
(***************************************************************************)
(* Result details.  Codes are the strings an HTTP client sees.  "reject"   *)
(* stands for any non-zero ResultCode chosen by a C2B validation endpoint. *)
(* A transaction that is still PENDING has neither code nor description.   *)
(***************************************************************************)
Result ==
  [code : {"0", "1", "reject"},
   desc : {"processed", "insufficient", "timed out", "rejected", "no decision"}]

NoResult == [code |-> "undefined", desc |-> "undefined"]

resultDetails ==
  [SUCCESS |-> [code |-> "0", desc |-> "processed"],
   FAILED  |-> [code |-> "1", desc |-> "insufficient"],
   TIMEOUT |-> [code |-> "1", desc |-> "timed out"]]

-------------------------------------------------------------------------------
(* The stored record; `attempts` is the set callback attempts come from.   *)
(* resultCode and resultDesc are set exactly when PENDING is left.         *)
Transaction(ids, attempts) ==
  {t \in [trackingId       : ids,
          kind             : TransactionKind,
          status           : TransactionStatus,
          result           : Result \cup {NoResult},
          callbackAttempts : Seq(attempts)] :
     t.status = "PENDING" <=> t.result = NoResult}

(* What a lookup that finds nothing yields. *)
NoTransaction == [trackingId |-> "undefined", kind |-> "undefined"]

(* The record createFromStkRequest and createAsyncRequest build. *)
NewTransaction(id, kind) ==
  [trackingId       |-> id,
   kind             |-> kind,
   status           |-> "PENDING",
   result           |-> NoResult,
   callbackAttempts |-> << >>]

(* Mutant of Settle: the status is written without its result details. *)
SettleStatusOnly(t, to, details) == [t EXCEPT !.status = to]

(* The record with the changes TransactionService.transition asks for. *)
Settle(t, to, details) == [t EXCEPT !.status = to, !.result = details]

(* Mutant of WithAttempt: a new attempt replaces the earlier ones. *)
WithOnlyAttempt(t, attempt) == [t EXCEPT !.callbackAttempts = << attempt >>]

(* The record with one more callback attempt at the end. *)
WithAttempt(t, attempt) ==
  [t EXCEPT !.callbackAttempts = Append(@, attempt)]

-------------------------------------------------------------------------------
(***************************************************************************)
(* A call of a TransactionService method.  A create draws its random ids   *)
(* before it reaches the repository, so the id is part of the call.        *)
(* `result` is the optional argument of transitionC2B; NoResult stands for *)
(* an omitted one.                                                         *)
(***************************************************************************)
expectedKinds ==
  [transitionStk             |-> {"STK"},
   transitionBusinessPayment |-> BusinessKinds,
   transitionC2B             |-> {"C2B"}]

TransitionNames == DOMAIN expectedKinds

CreateCall(ids) == [name : {"create"}, id : ids, kind : TransactionKind]

GetCall(ids) ==
  [name : {"getByTrackingId", "getByCheckoutRequestId"}, id : ids]

TransitionCall(ids) ==
  [name : {"transitionStk", "transitionBusinessPayment"},
   id : ids, to : TerminalStatus, result : {NoResult}]
  \cup [name : {"transitionC2B"}, id : ids, to : {"SUCCESS", "FAILED"},
        result : Result \cup {NoResult}]

AttemptCall(ids, attempts) ==
  [name : {"addCallbackAttempt"}, id : ids, attempt : attempts]

ServiceCall(ids, attempts) ==
  CreateCall(ids) \cup GetCall(ids) \cup TransitionCall(ids)
    \cup AttemptCall(ids, attempts)

NoCall == [name |-> "none"]

(* The details a transition records: the caller's, or the standard ones. *)
Details(o) == IF o.result = NoResult THEN resultDetails[o.to] ELSE o.result

(* Whether a lookup may return what it found: a checkoutRequestId is only  *)
(* ever that of an STK transaction.                                        *)
Found(t, o) ==
  /\ t # NoTransaction
  /\ o.name = "getByCheckoutRequestId" => t.kind = "STK"

-------------------------------------------------------------------------------
ErrorCode ==
  {"TRANSACTION_NOT_FOUND", "INVALID_TRANSACTION_KIND",
   "INVALID_TRANSACTION_TRANSITION", "TRANSACTION_UPDATE_CONFLICT"}

(* A service call ends by throwing an error or by returning a transaction. *)
Thrown(code) == [error |-> code, transaction |-> NoTransaction]

Returned(t) == [error |-> "none", transaction |-> t]

NoReply == [error |-> "no reply", transaction |-> NoTransaction]

Reply(ids, attempts) ==
  [error : ErrorCode, transaction : {NoTransaction}]
  \cup [error : {"none"}, transaction : Transaction(ids, attempts)]

===============================================================================
