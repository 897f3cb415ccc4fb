-------------------------- MODULE TransactionService --------------------------
(***************************************************************************)
(* TransactionService over MemoryTransactionRepository, at the granularity *)
(* the event loop gives them: a repository method runs without              *)
(* interruption, and between the `await`s of one service call the steps of *)
(* others may come.  A transition is two such steps, three when the        *)
(* compare-and-swap misses; every other call touches the store once.       *)
(***************************************************************************)
EXTENDS TransactionTypes, Integers, FiniteSets

CONSTANTS
  TrackingIds,   \* the tracking ids transactions can be given
  Calls,         \* one element for every call made of the service
  Attempts,      \* what a recorded callback attempt can be
  Offered        \* the service calls callers make

ASSUME OfferedAssumption == Offered \subseteq ServiceCall(TrackingIds, Attempts)

VARIABLES
  transactions,  \* the repository's Map, by trackingId
  op,            \* the call each element of Calls stands for
  pc,            \* where each call is
  seen,          \* the transaction a transition read before its swap
  reply          \* how each call ended

vars == << transactions, op, pc, seen, reply >>

-------------------------------------------------------------------------------
Stage == {"idle", "invoked", "found", "conflicted", "replied"}

StoredTransaction ==
  Transaction(TrackingIds, Attempts) \cup {NoTransaction}

TypeOK ==
  /\ transactions \in [TrackingIds -> StoredTransaction]
  /\ op \in [Calls -> ServiceCall(TrackingIds, Attempts) \cup {NoCall}]
  /\ pc \in [Calls -> Stage]
  /\ seen \in [Calls -> StoredTransaction]
  /\ reply \in [Calls -> Reply(TrackingIds, Attempts) \cup {NoReply}]

Init ==
  /\ transactions = [id \in TrackingIds |-> NoTransaction]
  /\ op = [c \in Calls |-> NoCall]
  /\ pc = [c \in Calls |-> "idle"]
  /\ seen = [c \in Calls |-> NoTransaction]
  /\ reply = [c \in Calls |-> NoReply]

(* The transaction the call of c is about; NoTransaction if there is none. *)
Current(c) == transactions[op[c].id]

(* randomUUID and randomBytes: no two creates draw the same ids. *)
IdIsFresh(o) ==
  o.name = "create" =>
    \A d \in Calls : op[d].name = "create" => op[d].id # o.id

Invoke(c, o) ==
  /\ pc[c] = "idle"
  /\ IdIsFresh(o)
  /\ op' = [op EXCEPT ![c] = o]
  /\ pc' = [pc EXCEPT ![c] = "invoked"]
  /\ UNCHANGED << transactions, seen, reply >>

(* The promise of c is settled with r. *)
Respond(c, r) ==
  /\ pc' = [pc EXCEPT ![c] = "replied"]
  /\ reply' = [reply EXCEPT ![c] = r]
  /\ UNCHANGED << op, seen >>

(* The Map entry is set to t, which is also what c returns. *)
Store(c, t) ==
  /\ transactions' = [transactions EXCEPT ![op[c].id] = t]
  /\ Respond(c, Returned(t))

-------------------------------------------------------------------------------
Create(c) ==
  /\ pc[c] = "invoked"
  /\ op[c].name = "create"
  /\ Store(c, NewTransaction(op[c].id, op[c].kind))

(* getByTrackingId and getByCheckoutRequestId; the former is also the      *)
(* first step of every transition, which ends here when nothing is found,  *)
(* as does addCallbackAttempt.                                             *)
ReplyNotFound(c) ==
  /\ pc[c] = "invoked"
  /\ op[c].name # "create"
  /\ ~ Found(Current(c), op[c])
  /\ Respond(c, Thrown("TRANSACTION_NOT_FOUND"))
  /\ UNCHANGED transactions

Get(c) ==
  /\ pc[c] = "invoked"
  /\ op[c].name \in {"getByTrackingId", "getByCheckoutRequestId"}
  /\ Found(Current(c), op[c])
  /\ Respond(c, Returned(Current(c)))
  /\ UNCHANGED transactions

(* Mutant of KindExpected: the kind check is dropped. *)
AnyKindExpected(c) == TRUE

(* The first of the checks between reading a transaction and writing it.   *)
KindExpected(c) == Current(c).kind \in expectedKinds[op[c].name]

RejectKind(c) ==
  /\ pc[c] = "invoked"
  /\ op[c].name \in TransitionNames
  /\ Found(Current(c), op[c])
  /\ ~ KindExpected(c)
  /\ Respond(c, Thrown("INVALID_TRANSACTION_KIND"))
  /\ UNCHANGED transactions

RejectTransition(c) ==
  /\ pc[c] = "invoked"
  /\ op[c].name \in TransitionNames
  /\ Found(Current(c), op[c])
  /\ KindExpected(c)
  /\ ~ CanTransition(Current(c).status, op[c].to)
  /\ Respond(c, Thrown("INVALID_TRANSACTION_TRANSITION"))
  /\ UNCHANGED transactions

ReadForTransition(c) ==
  /\ pc[c] = "invoked"
  /\ op[c].name \in TransitionNames
  /\ Found(Current(c), op[c])
  /\ KindExpected(c)
  /\ CanTransition(Current(c).status, op[c].to)
  /\ seen' = [seen EXCEPT ![c] = Current(c)]
  /\ pc' = [pc EXCEPT ![c] = "found"]
  /\ UNCHANGED << transactions, op, reply >>

(* Mutant of StatusMatches: the write is not conditional. *)
StatusIgnored(c) == TRUE

(* The condition of the repository's compare-and-swap. *)
StatusMatches(c) ==
  Current(c) # NoTransaction /\ Current(c).status = seen[c].status

(* Mutant of Base: the write starts from what was read before the await.   *)
StaleBase(c) == seen[c]

(* The record the repository spreads the changes over: the stored one.     *)
Base(c) == Current(c)

SwapStatus(c) ==
  /\ pc[c] = "found"
  /\ StatusMatches(c)
  /\ Store(c, Settle(Base(c), op[c].to, Details(op[c])))

(* Mutant of MissSwap: a missed swap is tried again as it was. *)
RetrySwap(c) ==
  /\ pc[c] = "found"
  /\ ~ StatusMatches(c)
  /\ UNCHANGED vars

MissSwap(c) ==
  /\ pc[c] = "found"
  /\ ~ StatusMatches(c)
  /\ pc' = [pc EXCEPT ![c] = "conflicted"]
  /\ UNCHANGED << transactions, op, seen, reply >>

(* Mutant of ConflictError: the second assertCanTransition is dropped. *)
ConflictUnexplained(c) == "TRANSACTION_UPDATE_CONFLICT"

(* What the second read finds decides which error a lost swap ends with.   *)
ConflictError(c) ==
  IF Current(c) = NoTransaction THEN "TRANSACTION_NOT_FOUND"
  ELSE IF CanTransition(Current(c).status, op[c].to)
       THEN "TRANSACTION_UPDATE_CONFLICT"
       ELSE "INVALID_TRANSACTION_TRANSITION"

ExplainConflict(c) ==
  /\ pc[c] = "conflicted"
  /\ Respond(c, Thrown(ConflictError(c)))
  /\ UNCHANGED transactions

AddCallbackAttempt(c) ==
  /\ pc[c] = "invoked"
  /\ op[c].name = "addCallbackAttempt"
  /\ Found(Current(c), op[c])
  /\ Store(c, WithAttempt(Current(c), op[c].attempt))

Step(c) ==
  \/ Create(c)
  \/ ReplyNotFound(c)
  \/ Get(c)
  \/ RejectKind(c)
  \/ RejectTransition(c)
  \/ ReadForTransition(c)
  \/ SwapStatus(c)
  \/ MissSwap(c)
  \/ ExplainConflict(c)
  \/ AddCallbackAttempt(c)

Next ==
  \E c \in Calls :
    \/ \E o \in Offered : Invoke(c, o)
    \/ Step(c)

Spec == Init /\ [][Next]_vars

-------------------------------------------------------------------------------
(* t was an earlier state of the record u. *)
Extends(u, t) ==
  /\ u # NoTransaction
  /\ u.trackingId = t.trackingId
  /\ u.kind = t.kind
  /\ t.status # "PENDING" => u.status = t.status /\ u.result = t.result
  /\ Len(t.callbackAttempts) <= Len(u.callbackAttempts)
  /\ \A i \in 1..Len(t.callbackAttempts) :
       u.callbackAttempts[i] = t.callbackAttempts[i]

(***************************************************************************)
(* The inductive invariant the proofs rest on.  A swap is only ever tried  *)
(* on a pending transaction of the right kind, so the one way to miss it   *)
(* is to lose to an outcome; a create never finds its id taken.            *)
(***************************************************************************)
TransitionUnderWay(c) ==
  pc[c] \in {"found", "conflicted"} =>
    /\ op[c].name \in TransitionNames
    /\ seen[c] # NoTransaction
    /\ seen[c].status = "PENDING"
    /\ Current(c) # NoTransaction
    /\ Current(c).kind \in expectedKinds[op[c].name]
    /\ pc[c] = "conflicted" => Current(c).status # "PENDING"

CreateUnderWay(c) ==
  pc[c] = "invoked" /\ op[c].name = "create" => Current(c) = NoTransaction

CreatesAreFresh ==
  /\ \A c, d \in Calls :
       /\ op[c].name = "create"
       /\ op[d].name = "create"
       /\ op[c].id = op[d].id
       => c = d
  /\ \A id \in TrackingIds :
       transactions[id] # NoTransaction =>
         /\ transactions[id].trackingId = id
         /\ \E c \in Calls : op[c].name = "create" /\ op[c].id = id

(* The final throw of TransactionService.transition is never reached: a    *)
(* swap that missed has lost to a terminal status, and no call ends with   *)
(* TRANSACTION_UPDATE_CONFLICT.                                            *)
NoUpdateConflict ==
  \A c \in Calls : reply[c].error # "TRANSACTION_UPDATE_CONFLICT"

IInv ==
  /\ TypeOK
  /\ \A c \in Calls : pc[c] = "idle" <=> op[c] = NoCall
  /\ \A c \in Calls : TransitionUnderWay(c)
  /\ \A c \in Calls : CreateUnderWay(c)
  /\ CreatesAreFresh
  /\ NoUpdateConflict

(* The calls that settled, or created, or recorded on the transaction id.  *)
Succeeded(c) == pc[c] = "replied" /\ reply[c].error = "none"

Winners(id) ==
  {c \in Calls : Succeeded(c) /\ op[c].name \in TransitionNames /\ op[c].id = id}

Recorders(id) ==
  {c \in Calls :
     Succeeded(c) /\ op[c].name = "addCallbackAttempt" /\ op[c].id = id}

(* A transaction that left PENDING was moved by exactly one call that      *)
(* reported success, and carries the status and the details of that call:  *)
(* of any number of overlapping approve, fail and timeout requests one     *)
(* wins (transition, its compare-and-swap, and the create that must not    *)
(* undo it).                                                               *)
OneWinner ==
  \A id \in TrackingIds :
    /\ \A c, d \in Winners(id) : c = d
    /\ \A c \in Winners(id) :
         /\ transactions[id] # NoTransaction
         /\ transactions[id].status = op[c].to
         /\ transactions[id].result = Details(op[c])
    /\ /\ transactions[id] # NoTransaction
       /\ transactions[id].status # "PENDING"
       => Winners(id) # {}

(* Every callback attempt a caller was told is recorded is in the record,  *)
(* and nothing else is: transitions and other appends that overlap never   *)
(* drop or repeat one (appendCallbackAttempt rebuilds the whole record).   *)
AttemptsAccounted ==
  \A id \in TrackingIds :
    transactions[id] # NoTransaction =>
      /\ Len(transactions[id].callbackAttempts) = Cardinality(Recorders(id))
      /\ \A c \in Recorders(id) :
           \E i \in 1..Len(transactions[id].callbackAttempts) :
             transactions[id].callbackAttempts[i] = op[c].attempt

(* What a caller was answered stays true: a snapshot that shows an outcome *)
(* shows the final one, and its attempts are a prefix of the stored ones.  *)
(* The callback payload and the HTTP answer are built from such snapshots. *)
AnswersStayTrue ==
  \A c \in Calls :
    Succeeded(c) =>
      Extends(transactions[op[c].id], reply[c].transaction)

(* A step never takes a transaction back: not from an outcome to another   *)
(* or to PENDING, not to fewer or other attempts, not out of the store.    *)
OutcomeIsFinal ==
  [][\A id \in TrackingIds :
       transactions[id] # NoTransaction =>
         Extends(transactions'[id], transactions[id])]_vars

-------------------------------------------------------------------------------
(* A call counts as not yet performed until the step that fixes its reply. *)
Ledger ==
  INSTANCE TransactionLedger WITH
    stage <- [c \in Calls |->
                IF pc[c] \in {"found", "conflicted"} THEN "invoked" ELSE pc[c]]

(* The service behaves as if each call took effect at one instant: the     *)
(* two and three step transitions implement the ledger's single step.      *)
ImplementsLedger == Ledger!Spec

===============================================================================
