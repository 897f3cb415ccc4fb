--------------------------- MODULE TransactionLedger ---------------------------
(***************************************************************************)
(* What a caller may assume of TransactionService: a ledger whose calls    *)
(* take effect one at a time.  A call is invoked, takes effect once, in a  *)
(* single step that also fixes its reply, and is over.  Transactions are   *)
(* settled at most once, callback attempts only accumulate, and a call     *)
(* that is refused changes nothing.                                        *)
(*                                                                         *)
(* There is no conflict reply here: TRANSACTION_UPDATE_CONFLICT belongs to *)
(* the implementation, and implementing this module means never giving it. *)
(***************************************************************************)
EXTENDS TransactionTypes

CONSTANTS
  TrackingIds,   \* the tracking ids transactions can be given
  Calls,         \* one element for every call made of the service
  Attempts       \* what a recorded callback attempt can be

VARIABLES
  transactions,  \* the ledger: NoTransaction where none was created
  op,            \* the call each element of Calls stands for
  stage,         \* how far each call has come
  reply          \* how each call ended

vars == << transactions, op, stage, reply >>

TypeOK ==
  /\ transactions \in
       [TrackingIds -> Transaction(TrackingIds, Attempts) \cup {NoTransaction}]
  /\ op \in [Calls -> ServiceCall(TrackingIds, Attempts) \cup {NoCall}]
  /\ stage \in [Calls -> {"idle", "invoked", "replied"}]
  /\ reply \in [Calls -> Reply(TrackingIds, Attempts) \cup {NoReply}]

Init ==
  /\ transactions = [id \in TrackingIds |-> NoTransaction]
  /\ op = [c \in Calls |-> NoCall]
  /\ stage = [c \in Calls |-> "idle"]
  /\ reply = [c \in Calls |-> NoReply]

(* A create names an id no other create has. *)
IdIsFresh(o) ==
  o.name = "create" =>
    \A d \in Calls : op[d].name = "create" => op[d].id # o.id

Invoke(c, o) ==
  /\ stage[c] = "idle"
  /\ IdIsFresh(o)
  /\ op' = [op EXCEPT ![c] = o]
  /\ stage' = [stage EXCEPT ![c] = "invoked"]
  /\ UNCHANGED << transactions, reply >>

(* The call of c ends with r. *)
Respond(c, r) ==
  /\ stage' = [stage EXCEPT ![c] = "replied"]
  /\ reply' = [reply EXCEPT ![c] = r]
  /\ UNCHANGED op

(* The call of c makes t the transaction with its id, and returns t. *)
Store(c, t) ==
  /\ transactions' = [transactions EXCEPT ![op[c].id] = t]
  /\ Respond(c, Returned(t))

Create(c) ==
  /\ op[c].name = "create"
  /\ transactions[op[c].id] = NoTransaction
  /\ Store(c, NewTransaction(op[c].id, op[c].kind))

Get(c) ==
  /\ op[c].name \in {"getByTrackingId", "getByCheckoutRequestId"}
  /\ Found(transactions[op[c].id], op[c])
  /\ Respond(c, Returned(transactions[op[c].id]))
  /\ UNCHANGED transactions

(* Only a pending transaction of the right kind is settled. *)
Transition(c) ==
  LET t == transactions[op[c].id]
  IN  /\ op[c].name \in TransitionNames
      /\ t # NoTransaction
      /\ t.kind \in expectedKinds[op[c].name]
      /\ t.status = "PENDING"
      /\ Store(c, Settle(t, op[c].to, Details(op[c])))

AddCallbackAttempt(c) ==
  LET t == transactions[op[c].id]
  IN  /\ op[c].name = "addCallbackAttempt"
      /\ t # NoTransaction
      /\ Store(c, WithAttempt(t, op[c].attempt))

(* Why a call is refused, and the error it is refused with. *)
NotFound(c) ==
  op[c].name # "create" /\ ~ Found(transactions[op[c].id], op[c])

WrongKind(c) ==
  /\ op[c].name \in TransitionNames
  /\ Found(transactions[op[c].id], op[c])
  /\ transactions[op[c].id].kind \notin expectedKinds[op[c].name]

AlreadySettled(c) ==
  /\ op[c].name \in TransitionNames
  /\ Found(transactions[op[c].id], op[c])
  /\ transactions[op[c].id].kind \in expectedKinds[op[c].name]
  /\ transactions[op[c].id].status # "PENDING"

Refuse(c) ==
  /\ \/ NotFound(c) /\ Respond(c, Thrown("TRANSACTION_NOT_FOUND"))
     \/ WrongKind(c) /\ Respond(c, Thrown("INVALID_TRANSACTION_KIND"))
     \/ /\ AlreadySettled(c)
        /\ Respond(c, Thrown("INVALID_TRANSACTION_TRANSITION"))
  /\ UNCHANGED transactions

Perform(c) ==
  /\ stage[c] = "invoked"
  /\ \/ Create(c) \/ Get(c) \/ Transition(c) \/ AddCallbackAttempt(c)
     \/ Refuse(c)

Next ==
  \E c \in Calls :
    \/ \E o \in ServiceCall(TrackingIds, Attempts) : Invoke(c, o)
    \/ Perform(c)

Spec == Init /\ [][Next]_vars

===============================================================================
