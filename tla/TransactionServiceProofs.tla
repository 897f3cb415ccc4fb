----------------------- MODULE TransactionServiceProofs -----------------------
(***************************************************************************)
(* Proofs about TransactionService, for any sets of tracking ids, calls,   *)
(* attempts and offered calls.                                             *)
(***************************************************************************)
EXTENDS TransactionService, FiniteSetTheorems, TLAPS

Record == Transaction(TrackingIds, Attempts)

AnyCall == ServiceCall(TrackingIds, Attempts)

-------------------------------------------------------------------------------
(* The fields of a stored transaction, and that NoTransaction is none.     *)
LEMMA RecordFields ==
  ASSUME NEW t \in Record
  PROVE  /\ t # NoTransaction
         /\ t.trackingId \in TrackingIds
         /\ t.kind \in TransactionKind
         /\ t.status \in TransactionStatus
         /\ t.result \in Result \cup {NoResult}
         /\ t.callbackAttempts \in Seq(Attempts)
         /\ t.status = "PENDING" <=> t.result = NoResult
<1>1. NoTransaction.kind \notin TransactionKind
  BY DEF NoTransaction, TransactionKind, BusinessKinds
<1> QED
  BY <1>1 DEF Record, Transaction

(* createFromStkRequest and createAsyncRequest build a transaction.        *)
LEMMA NewTransactionType ==
  ASSUME NEW id \in TrackingIds, NEW kind \in TransactionKind
  PROVE  /\ NewTransaction(id, kind) \in Record
         /\ NewTransaction(id, kind).trackingId = id
BY DEF NewTransaction, Record, Transaction, TransactionStatus

(* Settling with an outcome and its details gives a transaction that       *)
(* differs from the old one in these two fields.                           *)
LEMMA SettleType ==
  ASSUME NEW t \in Record, NEW to \in TerminalStatus, NEW details \in Result
  PROVE  LET u == Settle(t, to, details)
         IN  /\ u \in Record
             /\ u.trackingId = t.trackingId
             /\ u.kind = t.kind
             /\ u.status = to
             /\ u.result = details
             /\ u.callbackAttempts = t.callbackAttempts
<1>1. details # NoResult
  <2>1. details.code \in {"0", "1", "reject"}
    BY DEF Result
  <2>2. NoResult.code = "undefined"
    BY DEF NoResult
  <2> QED
    BY <2>1, <2>2
<1>2. to # "PENDING" /\ to \in TransactionStatus
  BY DEF TerminalStatus
<1> QED
  BY <1>1, <1>2 DEF Settle, Record, Transaction

(* Recording an attempt gives a transaction that differs from the old one  *)
(* in its attempts only.                                                   *)
LEMMA WithAttemptType ==
  ASSUME NEW t \in Record, NEW attempt \in Attempts
  PROVE  LET u == WithAttempt(t, attempt)
         IN  /\ u \in Record
             /\ u.trackingId = t.trackingId
             /\ u.kind = t.kind
             /\ u.status = t.status
             /\ u.result = t.result
             /\ u.callbackAttempts = Append(t.callbackAttempts, attempt)
BY DEF WithAttempt, Record, Transaction

LEMMA TransitionNamesValue ==
  TransitionNames =
    {"transitionStk", "transitionBusinessPayment", "transitionC2B"}
BY DEF TransitionNames, expectedKinds

(* The parameters of each service method.                                  *)
LEMMA CallFields ==
  ASSUME NEW o \in AnyCall
  PROVE  /\ o # NoCall
         /\ o.id \in TrackingIds
         /\ o.name \notin {"none"}
         /\ o.name = "create" => o.kind \in TransactionKind
         /\ o.name = "addCallbackAttempt" => o.attempt \in Attempts
         /\ o.name \in TransitionNames =>
              o.to \in TerminalStatus /\ Details(o) \in Result
<1>1. /\ o.id \in TrackingIds
      /\ o.name # "none"
      /\ o.name = "create" => o.kind \in TransactionKind
      /\ o.name = "addCallbackAttempt" => o.attempt \in Attempts
      /\ o.name \in TransitionNames =>
           o.to \in TerminalStatus /\ o.result \in Result \cup {NoResult}
  <2>1. CASE o \in CreateCall(TrackingIds)
    BY <2>1, TransitionNamesValue DEF CreateCall
  <2>2. CASE o \in GetCall(TrackingIds)
    BY <2>2, TransitionNamesValue DEF GetCall
  <2>3. CASE o \in TransitionCall(TrackingIds)
    BY <2>3, TransitionNamesValue
       DEF TransitionCall, TerminalStatus, TransactionStatus
  <2>4. CASE o \in AttemptCall(TrackingIds, Attempts)
    BY <2>4, TransitionNamesValue DEF AttemptCall
  <2> QED
    BY <2>1, <2>2, <2>3, <2>4 DEF AnyCall, ServiceCall
<1>2. \A to \in TerminalStatus : resultDetails[to] \in Result
  <2> SUFFICES ASSUME NEW to \in TerminalStatus
               PROVE  resultDetails[to] \in Result
    OBVIOUS
  <2>1. CASE to = "SUCCESS"
    BY <2>1 DEF resultDetails, Result
  <2>2. CASE to = "FAILED"
    BY <2>2 DEF resultDetails, Result
  <2>3. CASE to = "TIMEOUT"
    BY <2>3 DEF resultDetails, Result
  <2> QED
    BY <2>1, <2>2, <2>3 DEF TerminalStatus, TransactionStatus
<1>3. o.name \in TransitionNames => Details(o) \in Result
  BY <1>1, <1>2 DEF Details
<1>4. NoCall.name = "none"
  BY DEF NoCall
<1> QED
  BY <1>1, <1>3, <1>4

(* A reply is an error or a transaction.                                   *)
LEMMA ReplyType ==
  /\ \A code \in ErrorCode : Thrown(code) \in Reply(TrackingIds, Attempts)
  /\ \A t \in Record : Returned(t) \in Reply(TrackingIds, Attempts)
BY DEF Thrown, Returned, Reply, Record

-------------------------------------------------------------------------------
(* A record extends itself, and extension is transitive.                   *)
LEMMA ExtendsReflexive ==
  ASSUME NEW t \in Record
  PROVE  Extends(t, t)
BY RecordFields DEF Extends

LEMMA ExtendsTransitive ==
  ASSUME NEW t \in Record, NEW u \in Record, NEW w \in Record,
         Extends(u, t), Extends(w, u)
  PROVE  Extends(w, t)
<1>1. /\ Len(t.callbackAttempts) \in Nat
      /\ Len(u.callbackAttempts) \in Nat
      /\ Len(w.callbackAttempts) \in Nat
  BY RecordFields
<1> QED
  BY <1>1 DEF Extends

(* Settling a pending record and recording an attempt extend it.           *)
LEMMA SettleExtends ==
  ASSUME NEW t \in Record, NEW to \in TerminalStatus, NEW details \in Result,
         t.status = "PENDING"
  PROVE  Extends(Settle(t, to, details), t)
<1>1. Len(t.callbackAttempts) \in Nat
  BY RecordFields
<1> QED
  BY <1>1, SettleType, RecordFields DEF Extends

LEMMA WithAttemptExtends ==
  ASSUME NEW t \in Record, NEW attempt \in Attempts
  PROVE  Extends(WithAttempt(t, attempt), t)
<1>1. t.callbackAttempts \in Seq(Attempts)
  BY RecordFields
<1>2. /\ Len(Append(t.callbackAttempts, attempt)) =
           Len(t.callbackAttempts) + 1
      /\ Len(t.callbackAttempts) \in Nat
      /\ \A i \in 1..Len(t.callbackAttempts) :
           Append(t.callbackAttempts, attempt)[i] = t.callbackAttempts[i]
  BY <1>1
<1>3. WithAttempt(t, attempt) # NoTransaction
  BY WithAttemptType, RecordFields
<1> QED
  BY <1>2, <1>3, WithAttemptType DEF Extends

(* Only PENDING has successors.                                            *)
LEMMA OnlyPendingMoves ==
  ASSUME NEW from \in TransactionStatus, NEW to \in TerminalStatus
  PROVE  CanTransition(from, to) <=> from = "PENDING"
BY DEF CanTransition, allowedTransitions

-------------------------------------------------------------------------------
(* The inductive invariant, step by step.                                  *)

LEMMA InitInvariant == Init => IInv
<1> SUFFICES ASSUME Init PROVE IInv
  OBVIOUS
<1>1. TypeOK
  BY DEF Init, TypeOK, StoredTransaction, Stage
<1>2. NoCall.name = "none" /\ NoReply.error = "no reply"
  BY DEF NoCall, NoReply
<1> QED
  BY <1>1, <1>2 DEF Init, IInv, TransitionUnderWay, CreateUnderWay,
                    CreatesAreFresh, NoUpdateConflict

LEMMA InvokeKeepsInvariant ==
  ASSUME IInv, NEW c \in Calls, NEW o \in Offered, Invoke(c, o)
  PROVE  IInv'
<1>1. o \in AnyCall
  BY OfferedAssumption DEF AnyCall
<1>2. TypeOK'
  BY <1>1 DEF IInv, TypeOK, Stage, Invoke, AnyCall
<1>3. /\ op'[c] = o
      /\ pc'[c] = "invoked"
      /\ \A d \in Calls \ {c} : op'[d] = op[d] /\ pc'[d] = pc[d]
  BY DEF IInv, TypeOK, Invoke
<1>4. /\ o # NoCall
      /\ o.id \in TrackingIds
      /\ op[c] = NoCall
      /\ NoCall.name = "none"
  BY <1>1, CallFields DEF IInv, Invoke, NoCall
<1>5. \A d \in Calls : pc'[d] = "idle" <=> op'[d] = NoCall
  BY <1>3, <1>4 DEF IInv
<1>6. \A d \in Calls : TransitionUnderWay(d)'
  BY <1>3 DEF IInv, Invoke, TransitionUnderWay, Current
<1>7. o.name = "create" => transactions[o.id] = NoTransaction
  BY <1>4 DEF IInv, CreatesAreFresh, Invoke, IdIsFresh
<1>8. \A d \in Calls : CreateUnderWay(d)'
  BY <1>3, <1>7 DEF IInv, Invoke, CreateUnderWay, Current
<1>9. CreatesAreFresh'
  BY <1>3, <1>4 DEF IInv, Invoke, IdIsFresh, CreatesAreFresh
<1>10. NoUpdateConflict'
  BY DEF IInv, Invoke, NoUpdateConflict
<1> QED
  BY <1>2, <1>5, <1>6, <1>8, <1>9, <1>10 DEF IInv

(* A call that ends without touching the store.                            *)
LEMMA AnswerKeepsInvariant ==
  ASSUME IInv, NEW c \in Calls, pc[c] # "idle",
         NEW r \in Reply(TrackingIds, Attempts),
         r.error # "TRANSACTION_UPDATE_CONFLICT",
         Respond(c, r), UNCHANGED transactions
  PROVE  IInv'
<1>1. TypeOK'
  BY DEF IInv, TypeOK, Stage, Respond
<1>2. /\ pc'[c] = "replied"
      /\ \A d \in Calls \ {c} : pc'[d] = pc[d]
      /\ op' = op
      /\ seen' = seen
  BY DEF IInv, TypeOK, Respond
<1>3. \A d \in Calls : pc'[d] = "idle" <=> op'[d] = NoCall
  BY <1>2 DEF IInv
<1>4. \A d \in Calls : TransitionUnderWay(d)'
  BY <1>2 DEF IInv, TransitionUnderWay, Current
<1>5. \A d \in Calls : CreateUnderWay(d)'
  BY <1>2 DEF IInv, CreateUnderWay, Current
<1>6. CreatesAreFresh'
  BY <1>2 DEF IInv, CreatesAreFresh
<1>7. NoUpdateConflict'
  BY DEF IInv, TypeOK, NoUpdateConflict, Respond
<1> QED
  BY <1>1, <1>3, <1>4, <1>5, <1>6, <1>7 DEF IInv

(* A call that ends by storing t, an extension of what is there.           *)
LEMMA StoreKeepsInvariant ==
  ASSUME IInv, NEW c \in Calls, pc[c] # "idle",
         NEW t \in Record, t.trackingId = op[c].id,
         IF Current(c) = NoTransaction THEN op[c].name = "create"
                                       ELSE Extends(t, Current(c)),
         Store(c, t)
  PROVE  /\ IInv'
         /\ \A id \in TrackingIds :
              transactions[id] # NoTransaction =>
                Extends(transactions'[id], transactions[id])
<1> DEFINE id == op[c].id
<1>1. op[c] \in AnyCall /\ id \in TrackingIds
  BY CallFields DEF IInv, TypeOK, AnyCall
<1>2. Returned(t) \in Reply(TrackingIds, Attempts) /\ Returned(t).error = "none"
  BY ReplyType DEF Returned
<1>3. TypeOK'
  BY <1>1, <1>2
     DEF IInv, TypeOK, Stage, StoredTransaction, Store, Respond, Record
<1>4. /\ transactions'[id] = t
      /\ t # NoTransaction
      /\ \A x \in TrackingIds \ {id} : transactions'[x] = transactions[x]
      /\ pc'[c] = "replied"
      /\ \A d \in Calls \ {c} : pc'[d] = pc[d]
      /\ op' = op
      /\ seen' = seen
  BY <1>1, RecordFields DEF IInv, TypeOK, Store, Respond
<1>5. \A d \in Calls : pc'[d] = "idle" <=> op'[d] = NoCall
  BY <1>4 DEF IInv
<1>6. \A d \in Calls :
        op[d] # NoCall => op[d] \in AnyCall /\ op[d].id \in TrackingIds
  BY CallFields DEF IInv, TypeOK, AnyCall
<1>7. \A d \in Calls : TransitionUnderWay(d)'
  <2> SUFFICES ASSUME NEW d \in Calls \ {c}, pc[d] \in {"found", "conflicted"}
               PROVE  TransitionUnderWay(d)'
    BY <1>4 DEF TransitionUnderWay
  <2>1. op[d] # NoCall /\ op[d].id \in TrackingIds
    BY <1>6 DEF IInv
  <2>2. TransitionUnderWay(d)
    BY DEF IInv
  <2>3. CASE op[d].id = id
    <3>1. Extends(t, Current(d))
      BY <2>2, <2>3 DEF TransitionUnderWay, Current
    <3>2. /\ t.kind = Current(d).kind
          /\ Current(d).status # "PENDING" => t.status # "PENDING"
      BY <3>1 DEF Extends
    <3> QED
      BY <1>4, <2>2, <2>3, <3>2 DEF TransitionUnderWay, Current
  <2>4. CASE op[d].id # id
    BY <1>4, <2>1, <2>2, <2>4 DEF TransitionUnderWay, Current
  <2> QED
    BY <2>3, <2>4
<1>8. \A d \in Calls : CreateUnderWay(d)'
  <2> SUFFICES ASSUME NEW d \in Calls \ {c}, pc[d] = "invoked",
                      op[d].name = "create"
               PROVE  transactions'[op[d].id] = NoTransaction
    BY <1>4 DEF CreateUnderWay, Current
  <2>1. op[d].id \in TrackingIds /\ Current(d) = NoTransaction
    BY <1>6 DEF IInv, CreateUnderWay
  <2>2. op[d].id # id
    BY <2>1 DEF IInv, CreatesAreFresh, Current
  <2> QED
    BY <1>4, <2>1, <2>2 DEF Current
<1>9. CreatesAreFresh'
  <2>1. \E d \in Calls : op[d].name = "create" /\ op[d].id = id
    BY <1>1 DEF IInv, CreatesAreFresh, Current
  <2> QED
    BY <1>4, <2>1 DEF IInv, CreatesAreFresh
<1>10. NoUpdateConflict'
  BY <1>2 DEF IInv, TypeOK, NoUpdateConflict, Store, Respond
<1>11. ASSUME NEW x \in TrackingIds, transactions[x] # NoTransaction
       PROVE  Extends(transactions'[x], transactions[x])
  <2>1. CASE x = id
    BY <1>4, <1>11, <2>1 DEF Current
  <2>2. CASE x # id
    BY <1>4, <1>11, <2>2, ExtendsReflexive
       DEF IInv, TypeOK, StoredTransaction, Record
  <2> QED
    BY <2>1, <2>2
<1> QED
  BY <1>3, <1>5, <1>7, <1>8, <1>9, <1>10, <1>11 DEF IInv

(* What a call past its invocation has to work with.                       *)
LEMMA CallUnderWay ==
  ASSUME IInv, NEW c \in Calls, pc[c] # "idle"
  PROVE  /\ op[c] \in AnyCall
         /\ op[c].id \in TrackingIds
         /\ Current(c) # NoTransaction =>
              Current(c) \in Record /\ Current(c).trackingId = op[c].id
BY CallFields
   DEF IInv, TypeOK, AnyCall, CreatesAreFresh, Current, StoredTransaction,
       Record

LEMMA ReadForTransitionKeepsInvariant ==
  ASSUME IInv, NEW c \in Calls, ReadForTransition(c)
  PROVE  IInv'
<1>1. Current(c) \in Record /\ op[c] \in AnyCall
  BY CallUnderWay DEF ReadForTransition, Found
<1>2. Current(c).status = "PENDING"
  BY <1>1, RecordFields, CallFields, OnlyPendingMoves DEF ReadForTransition
<1>3. TypeOK'
  BY <1>1
     DEF IInv, TypeOK, Stage, StoredTransaction, Record, ReadForTransition
<1>4. /\ pc'[c] = "found"
      /\ seen'[c] = Current(c)
      /\ \A d \in Calls \ {c} : pc'[d] = pc[d] /\ seen'[d] = seen[d]
      /\ op' = op
      /\ transactions' = transactions
      /\ reply' = reply
  BY DEF IInv, TypeOK, ReadForTransition
<1>5. \A d \in Calls : TransitionUnderWay(d)'
  <2>1. TransitionUnderWay(c)'
    BY <1>2, <1>4
       DEF TransitionUnderWay, ReadForTransition, Found, KindExpected, Current
  <2>2. ASSUME NEW d \in Calls \ {c} PROVE TransitionUnderWay(d)'
    BY <1>4 DEF IInv, TransitionUnderWay, Current
  <2> QED
    BY <2>1, <2>2
<1>6. \A d \in Calls : pc'[d] = "idle" <=> op'[d] = NoCall
  BY <1>4 DEF IInv, ReadForTransition
<1>7. \A d \in Calls : CreateUnderWay(d)'
  BY <1>4 DEF IInv, CreateUnderWay, Current
<1>8. CreatesAreFresh' /\ NoUpdateConflict'
  BY <1>4 DEF IInv, CreatesAreFresh, NoUpdateConflict
<1> QED
  BY <1>3, <1>5, <1>6, <1>7, <1>8 DEF IInv

LEMMA MissSwapKeepsInvariant ==
  ASSUME IInv, NEW c \in Calls, MissSwap(c)
  PROVE  IInv'
<1>1. TypeOK'
  BY DEF IInv, TypeOK, Stage, MissSwap
<1>2. /\ pc'[c] = "conflicted"
      /\ \A d \in Calls \ {c} : pc'[d] = pc[d]
      /\ UNCHANGED << transactions, op, seen, reply >>
  BY DEF IInv, TypeOK, MissSwap
<1>3. \A d \in Calls : TransitionUnderWay(d)'
  <2>1. TransitionUnderWay(c)'
    BY <1>2 DEF IInv, TransitionUnderWay, MissSwap, StatusMatches, Current
  <2>2. ASSUME NEW d \in Calls \ {c} PROVE TransitionUnderWay(d)'
    BY <1>2 DEF IInv, TransitionUnderWay, Current
  <2> QED
    BY <2>1, <2>2
<1>4. \A d \in Calls : pc'[d] = "idle" <=> op'[d] = NoCall
  BY <1>2 DEF IInv, MissSwap
<1>5. \A d \in Calls : CreateUnderWay(d)'
  BY <1>2 DEF IInv, CreateUnderWay, Current
<1>6. CreatesAreFresh' /\ NoUpdateConflict'
  BY <1>2 DEF IInv, CreatesAreFresh, NoUpdateConflict
<1> QED
  BY <1>1, <1>3, <1>4, <1>5, <1>6 DEF IInv

(* The error a missed swap ends with.                                      *)
LEMMA ConflictErrorValue ==
  ASSUME IInv, NEW c \in Calls, pc[c] = "conflicted"
  PROVE  ConflictError(c) = "INVALID_TRANSACTION_TRANSITION"
<1>1. /\ Current(c) # NoTransaction
      /\ Current(c).status # "PENDING"
      /\ op[c].name \in TransitionNames
  BY DEF IInv, TransitionUnderWay
<1>2. Current(c).status \in TransactionStatus /\ op[c].to \in TerminalStatus
  BY <1>1, CallUnderWay, RecordFields, CallFields
<1> QED
  BY <1>1, <1>2, OnlyPendingMoves DEF ConflictError

(* Every step keeps the invariant and takes no transaction back.           *)
LEMMA StepKeepsInvariant ==
  ASSUME IInv, NEW c \in Calls, Step(c)
  PROVE  /\ IInv'
         /\ \A id \in TrackingIds :
              transactions[id] # NoTransaction =>
                Extends(transactions'[id], transactions[id])
<1> DEFINE Kept == \A id \in TrackingIds :
                     transactions[id] # NoTransaction =>
                       Extends(transactions'[id], transactions[id])
<1>1. UNCHANGED transactions => Kept
  BY ExtendsReflexive DEF IInv, TypeOK, StoredTransaction, Record
<1>2. pc[c] # "idle"
  BY DEF Step, Create, ReplyNotFound, Get, RejectKind, RejectTransition,
         ReadForTransition, SwapStatus, MissSwap, ExplainConflict,
         AddCallbackAttempt
<1>3. /\ op[c] \in AnyCall
      /\ op[c].id \in TrackingIds
      /\ Current(c) # NoTransaction =>
           Current(c) \in Record /\ Current(c).trackingId = op[c].id
  BY <1>2, CallUnderWay
<1>4. CASE Create(c)
  <2> DEFINE t == NewTransaction(op[c].id, op[c].kind)
  <2>1. t \in Record /\ t.trackingId = op[c].id
    BY <1>3, <1>4, CallFields, NewTransactionType DEF Create
  <2>2. Current(c) = NoTransaction /\ op[c].name = "create" /\ Store(c, t)
    BY <1>4 DEF Create, IInv, CreateUnderWay
  <2> HIDE DEF t
  <2> QED
    BY <1>2, <2>1, <2>2, StoreKeepsInvariant
<1>5. ASSUME NEW code \in ErrorCode \ {"TRANSACTION_UPDATE_CONFLICT"},
             Respond(c, Thrown(code)), UNCHANGED transactions
      PROVE  IInv'
  <2>1. Thrown(code) \in Reply(TrackingIds, Attempts)
    BY ReplyType
  <2>2. Thrown(code).error # "TRANSACTION_UPDATE_CONFLICT"
    BY DEF Thrown
  <2> QED
    BY <1>2, <1>5, <2>1, <2>2, AnswerKeepsInvariant
<1>6. CASE ReplyNotFound(c)
  BY <1>1, <1>5, <1>6 DEF ReplyNotFound, ErrorCode
<1>7. CASE Get(c)
  <2>1. Returned(Current(c)) \in Reply(TrackingIds, Attempts)
    BY <1>3, <1>7, ReplyType DEF Get, Found
  <2>2. Returned(Current(c)).error # "TRANSACTION_UPDATE_CONFLICT"
    BY DEF Returned
  <2>3. Respond(c, Returned(Current(c))) /\ UNCHANGED transactions
    BY <1>7 DEF Get
  <2> QED
    BY <1>1, <1>2, <2>1, <2>2, <2>3, AnswerKeepsInvariant
<1>8. CASE RejectKind(c)
  BY <1>1, <1>5, <1>8 DEF RejectKind, ErrorCode
<1>9. CASE RejectTransition(c)
  BY <1>1, <1>5, <1>9 DEF RejectTransition, ErrorCode
<1>10. CASE ReadForTransition(c)
  BY <1>1, <1>10, ReadForTransitionKeepsInvariant DEF ReadForTransition
<1>11. CASE SwapStatus(c)
  <2> DEFINE t == Settle(Current(c), op[c].to, Details(op[c]))
  <2>1. /\ Current(c) # NoTransaction
        /\ Current(c).status = "PENDING"
        /\ op[c].name \in TransitionNames
    BY <1>11 DEF SwapStatus, StatusMatches, IInv, TransitionUnderWay
  <2>2. op[c].to \in TerminalStatus /\ Details(op[c]) \in Result
    BY <1>3, <2>1, CallFields
  <2>3. t \in Record /\ t.trackingId = op[c].id /\ Extends(t, Current(c))
    BY <1>3, <2>1, <2>2, SettleType, SettleExtends
  <2>4. Store(c, t)
    BY <1>11 DEF SwapStatus, Base
  <2> HIDE DEF t
  <2> QED
    BY <1>2, <2>1, <2>3, <2>4, StoreKeepsInvariant
<1>12. CASE MissSwap(c)
  BY <1>1, <1>12, MissSwapKeepsInvariant DEF MissSwap
<1>13. CASE ExplainConflict(c)
  BY <1>1, <1>5, <1>13, ConflictErrorValue DEF ExplainConflict, ErrorCode
<1>14. CASE AddCallbackAttempt(c)
  <2> DEFINE t == WithAttempt(Current(c), op[c].attempt)
  <2>1. Current(c) # NoTransaction /\ op[c].attempt \in Attempts
    BY <1>3, <1>14, CallFields DEF AddCallbackAttempt, Found
  <2>2. t \in Record /\ t.trackingId = op[c].id /\ Extends(t, Current(c))
    BY <1>3, <2>1, WithAttemptType, WithAttemptExtends
  <2>3. Store(c, t)
    BY <1>14 DEF AddCallbackAttempt
  <2> HIDE DEF t
  <2> QED
    BY <1>2, <2>1, <2>2, <2>3, StoreKeepsInvariant
<1> QED
  BY <1>4, <1>6, <1>7, <1>8, <1>9, <1>10, <1>11, <1>12, <1>13, <1>14 DEF Step

LEMMA NextKeepsInvariant ==
  ASSUME IInv, [Next]_vars
  PROVE  /\ IInv'
         /\ \A id \in TrackingIds :
              transactions[id] # NoTransaction =>
                Extends(transactions'[id], transactions[id])
<1>1. UNCHANGED transactions =>
        \A id \in TrackingIds :
          transactions[id] # NoTransaction =>
            Extends(transactions'[id], transactions[id])
  BY ExtendsReflexive DEF IInv, TypeOK, StoredTransaction, Record
<1>2. ASSUME NEW c \in Calls, NEW o \in Offered, Invoke(c, o)
      PROVE  IInv' /\ UNCHANGED transactions
  BY <1>2, InvokeKeepsInvariant DEF Invoke
<1>3. CASE UNCHANGED vars
  BY <1>1, <1>3
     DEF vars, IInv, TypeOK, TransitionUnderWay, CreateUnderWay,
         CreatesAreFresh, NoUpdateConflict, Current
<1> QED
  BY <1>1, <1>2, <1>3, StepKeepsInvariant DEF Next

-------------------------------------------------------------------------------
(* Every reachable state satisfies the inductive invariant.                *)
THEOREM Invariance == Spec => []IInv
<1>1. IInv /\ [Next]_vars => IInv'
  BY NextKeepsInvariant
<1> QED
  BY <1>1, InitInvariant, PTL DEF Spec

(* Every variable of the service keeps its type; in particular a record is *)
(* PENDING exactly when it has no result details.                          *)
THEOREM TypeCorrect == Spec => []TypeOK
<1>1. IInv => TypeOK
  BY DEF IInv
<1> QED
  BY <1>1, Invariance, PTL

(* No call ends with TRANSACTION_UPDATE_CONFLICT, however many overlap:    *)
(* the final throw of transition cannot be reached.                        *)
THEOREM ConflictNeverReported == Spec => []NoUpdateConflict
<1>1. IInv => NoUpdateConflict
  BY DEF IInv
<1> QED
  BY <1>1, Invariance, PTL

(* No step takes an outcome back or drops a callback attempt.              *)
THEOREM OutcomesAreFinal == Spec => OutcomeIsFinal
<1>1. IInv /\ [Next]_vars =>
        [\A id \in TrackingIds :
           transactions[id] # NoTransaction =>
             Extends(transactions'[id], transactions[id])]_vars
  BY NextKeepsInvariant
<1> QED
  BY <1>1, Invariance, PTL DEF Spec, OutcomeIsFinal

-------------------------------------------------------------------------------
(* What each step does to the record a call is about, and the reply given. *)
LEMMA StepReplies ==
  ASSUME IInv, NEW c \in Calls, Step(c)
  PROVE  /\ pc[c] \notin {"idle", "replied"}
         /\ op' = op
         /\ \A d \in Calls \ {c} : pc'[d] = pc[d] /\ reply'[d] = reply[d]
         /\ pc'[c] = "replied" => reply'[c].error # "no reply"
         /\ Succeeded(c)' =>
              reply'[c].transaction = transactions'[op[c].id]
<1>1. ASSUME NEW r, Respond(c, r)
      PROVE  /\ op' = op
             /\ \A d \in Calls \ {c} : pc'[d] = pc[d] /\ reply'[d] = reply[d]
             /\ reply'[c] = r
  BY <1>1 DEF IInv, TypeOK, Respond
<1>2. pc[c] \notin {"idle", "replied"}
  BY DEF Step, Create, ReplyNotFound, Get, RejectKind, RejectTransition,
         ReadForTransition, SwapStatus, MissSwap, ExplainConflict,
         AddCallbackAttempt
<1>3. CASE \E code \in ErrorCode : Respond(c, Thrown(code))
  <2>1. PICK code \in ErrorCode : Respond(c, Thrown(code))
    BY <1>3
  <2>2. reply'[c] = Thrown(code)
    BY <1>1, <2>1
  <2>3. Thrown(code).error # "none" /\ Thrown(code).error # "no reply"
    BY DEF Thrown, ErrorCode
  <2> QED
    BY <1>1, <1>2, <2>1, <2>2, <2>3 DEF Succeeded
<1>4. CASE \E t \in Record : Store(c, t)
  <2>1. PICK t \in Record : Store(c, t)
    BY <1>4
  <2>2. transactions'[op[c].id] = t /\ reply'[c] = Returned(t)
    BY <1>1, <1>2, <2>1, CallUnderWay DEF IInv, TypeOK, Store
  <2> QED
    BY <1>1, <1>2, <2>1, <2>2 DEF Store, Returned
<1>5. CASE Get(c)
  <2>1. reply'[c] = Returned(Current(c))
    BY <1>1, <1>5 DEF Get
  <2>2. Returned(Current(c)).error = "none"
    BY DEF Returned
  <2> QED
    BY <1>1, <1>2, <1>5, <2>1, <2>2 DEF Get, Returned, Current
<1>6. CASE ReadForTransition(c) \/ MissSwap(c)
  BY <1>2, <1>6
     DEF ReadForTransition, MissSwap, IInv, TypeOK, Succeeded
<1>7. /\ op[c] \in AnyCall
      /\ Current(c) # NoTransaction => Current(c) \in Record
  BY <1>2, CallUnderWay
<1>8. CASE Create(c) \/ SwapStatus(c) \/ AddCallbackAttempt(c)
  <2>1. Create(c) => NewTransaction(op[c].id, op[c].kind) \in Record
    BY <1>7, CallFields, NewTransactionType DEF Create
  <2>2. SwapStatus(c) =>
          Settle(Current(c), op[c].to, Details(op[c])) \in Record
    BY <1>7, CallFields, SettleType
       DEF SwapStatus, IInv, TransitionUnderWay
  <2>3. AddCallbackAttempt(c) =>
          WithAttempt(Current(c), op[c].attempt) \in Record
    BY <1>7, CallFields, WithAttemptType DEF AddCallbackAttempt, Found
  <2> QED
    BY <1>4, <1>8, <2>1, <2>2, <2>3
       DEF Create, SwapStatus, Base, AddCallbackAttempt
<1>9. CASE ReplyNotFound(c) \/ RejectKind(c) \/ RejectTransition(c)
             \/ ExplainConflict(c)
  <2>1. pc[c] = "conflicted" => ConflictError(c) \in ErrorCode
    BY DEF ConflictError, ErrorCode
  <2> QED
    BY <1>3, <1>9, <2>1
       DEF ReplyNotFound, RejectKind, RejectTransition, ExplainConflict,
           ErrorCode
<1> QED
  BY <1>5, <1>6, <1>8, <1>9 DEF Step

(* An answer stays true because it showed the store when it was given and  *)
(* every later record extends the earlier ones.                            *)
LEMMA AnswersInductive ==
  ASSUME IInv, AnswersStayTrue, [Next]_vars
  PROVE  AnswersStayTrue'
<1>1. IInv' /\ \A id \in TrackingIds :
                 transactions[id] # NoTransaction =>
                   Extends(transactions'[id], transactions[id])
  BY NextKeepsInvariant
<1>2. ASSUME NEW d \in Calls, Succeeded(d), op'[d] = op[d],
             reply'[d] = reply[d]
      PROVE  Extends(transactions'[op'[d].id], reply'[d].transaction)
  <2> DEFINE id == op[d].id
  <2>1. op[d] \in AnyCall /\ id \in TrackingIds
    BY <1>2, CallUnderWay DEF Succeeded
  <2>2. reply[d].transaction \in Record
    <3>1. reply[d] \in Reply(TrackingIds, Attempts) \cup {NoReply}
      BY DEF IInv, TypeOK
    <3>2. NoReply.error = "no reply"
      BY DEF NoReply
    <3> QED
      BY <1>2, <3>1, <3>2 DEF Succeeded, Reply, ErrorCode, Record
  <2>3. Extends(transactions[id], reply[d].transaction)
    BY <1>2 DEF AnswersStayTrue
  <2>4. transactions[id] # NoTransaction
    BY <2>3 DEF Extends
  <2>5. transactions[id] \in Record
    BY <2>1, <2>4 DEF IInv, TypeOK, StoredTransaction, Record
  <2>6. Extends(transactions'[id], transactions[id])
    BY <1>1, <2>1, <2>4
  <2>7. transactions'[id] \in Record
    <3>1. transactions'[id] # NoTransaction
      BY <2>6 DEF Extends
    <3> QED
      BY <1>1, <2>1, <3>1 DEF IInv, TypeOK, StoredTransaction, Record
  <2> QED
    BY <1>2, <2>2, <2>3, <2>5, <2>6, <2>7, ExtendsTransitive
<1>3. CASE UNCHANGED vars
  BY <1>3 DEF vars, AnswersStayTrue, Succeeded
<1>4. ASSUME NEW c \in Calls, NEW o \in Offered, Invoke(c, o)
      PROVE  AnswersStayTrue'
  <2>1. /\ pc'[c] = "invoked"
        /\ \A d \in Calls \ {c} : pc'[d] = pc[d] /\ op'[d] = op[d]
        /\ reply' = reply
    BY <1>4 DEF Invoke, IInv, TypeOK
  <2> QED
    BY <1>2, <2>1 DEF AnswersStayTrue, Succeeded
<1>5. ASSUME NEW c \in Calls, Step(c)
      PROVE  AnswersStayTrue'
  <2>1. /\ pc[c] \notin {"idle", "replied"}
        /\ op' = op
        /\ \A d \in Calls \ {c} : pc'[d] = pc[d] /\ reply'[d] = reply[d]
        /\ Succeeded(c)' =>
             reply'[c].transaction = transactions'[op[c].id]
    BY <1>5, StepReplies
  <2>2. Succeeded(c)' =>
          Extends(transactions'[op'[c].id], reply'[c].transaction)
    <3> SUFFICES ASSUME Succeeded(c)'
                 PROVE  Extends(transactions'[op'[c].id],
                                reply'[c].transaction)
      OBVIOUS
    <3>1. reply'[c].transaction \in Record
      <4>1. reply'[c] \in Reply(TrackingIds, Attempts) \cup {NoReply}
        BY <1>1 DEF IInv, TypeOK
      <4>2. NoReply.error = "no reply"
        BY DEF NoReply
      <4> QED
        BY <4>1, <4>2 DEF Succeeded, Reply, ErrorCode, Record
    <3> QED
      BY <2>1, <3>1, ExtendsReflexive
  <2>3. \A d \in Calls \ {c} : Succeeded(d)' => Succeeded(d)
    BY <2>1 DEF Succeeded
  <2> QED
    BY <1>2, <2>1, <2>2, <2>3 DEF AnswersStayTrue
<1> QED
  BY <1>3, <1>4, <1>5 DEF Next

(* Whatever a caller was answered remains true of the store: outcome,      *)
(* details and recorded attempts.                                          *)
THEOREM AnswersAreStable == Spec => []AnswersStayTrue
<1>1. Init => AnswersStayTrue
  BY DEF Init, AnswersStayTrue, Succeeded
<1>2. IInv /\ AnswersStayTrue /\ [Next]_vars => AnswersStayTrue'
  BY AnswersInductive
<1> QED
  BY <1>1, <1>2, Invariance, PTL DEF Spec

-------------------------------------------------------------------------------
(* Only a swap settles a transaction, and only a swap makes a winner.      *)
LEMMA OnlySwapSettles ==
  ASSUME IInv, NEW c \in Calls, Step(c), ~ SwapStatus(c)
  PROVE  /\ Succeeded(c)' => op[c].name \notin TransitionNames
         /\ \A id \in TrackingIds :
              transactions'[id] # NoTransaction =>
                \/ transactions'[id].status = "PENDING"
                \/ /\ transactions[id] # NoTransaction
                   /\ transactions[id].status = transactions'[id].status
<1>1. pc[c] # "idle"
  BY StepReplies
<1>2. /\ op[c] \in AnyCall
      /\ op[c].id \in TrackingIds
      /\ Current(c) # NoTransaction => Current(c) \in Record
  BY <1>1, CallUnderWay
<1>3. CASE Create(c)
  <2>1. op[c].name \notin TransitionNames
    BY <1>3, TransitionNamesValue DEF Create
  <2>2. NewTransaction(op[c].id, op[c].kind).status = "PENDING"
    BY DEF NewTransaction
  <2> QED
    BY <1>2, <1>3, <2>1, <2>2 DEF Create, Store, IInv, TypeOK
<1>4. CASE AddCallbackAttempt(c)
  <2>1. op[c].name \notin TransitionNames
    BY <1>4, TransitionNamesValue DEF AddCallbackAttempt
  <2>2. /\ Current(c) # NoTransaction
        /\ WithAttempt(Current(c), op[c].attempt).status = Current(c).status
    BY <1>2, <1>4, CallFields, WithAttemptType DEF AddCallbackAttempt, Found
  <2> QED
    BY <1>2, <1>4, <2>1, <2>2
       DEF AddCallbackAttempt, Store, IInv, TypeOK, Current
<1>5. CASE Get(c)
  BY <1>5, TransitionNamesValue DEF Get
<1>6. CASE ReadForTransition(c) \/ MissSwap(c)
  BY <1>6 DEF ReadForTransition, MissSwap, Succeeded, IInv, TypeOK
<1>7. ASSUME NEW code \in ErrorCode, Respond(c, Thrown(code))
      PROVE  ~ Succeeded(c)'
  BY <1>7 DEF Respond, Thrown, ErrorCode, Succeeded, IInv, TypeOK
<1>8. pc[c] = "conflicted" => ConflictError(c) \in ErrorCode
  BY DEF ConflictError, ErrorCode
<1>9. CASE ReplyNotFound(c) \/ RejectKind(c) \/ RejectTransition(c)
             \/ ExplainConflict(c)
  BY <1>7, <1>8, <1>9
     DEF ReplyNotFound, RejectKind, RejectTransition, ExplainConflict,
         ErrorCode
<1> QED
  BY <1>3, <1>4, <1>5, <1>6, <1>9 DEF Step

(* A swap finds its transaction pending and leaves it with the outcome and *)
(* the details of its call.                                                *)
LEMMA SwapSettles ==
  ASSUME IInv, NEW c \in Calls, SwapStatus(c)
  PROVE  /\ op[c].id \in TrackingIds
         /\ op[c].name \in TransitionNames
         /\ transactions[op[c].id] # NoTransaction
         /\ transactions[op[c].id].status = "PENDING"
         /\ transactions'[op[c].id] # NoTransaction
         /\ transactions'[op[c].id].status = op[c].to
         /\ transactions'[op[c].id].result = Details(op[c])
         /\ \A id \in TrackingIds \ {op[c].id} :
              transactions'[id] = transactions[id]
         /\ Succeeded(c)'
<1>1. /\ op[c].name \in TransitionNames
      /\ Current(c) # NoTransaction
      /\ Current(c).status = "PENDING"
  BY DEF SwapStatus, StatusMatches, IInv, TransitionUnderWay
<1>2. /\ op[c] \in AnyCall
      /\ op[c].id \in TrackingIds
      /\ Current(c) \in Record
  BY <1>1, CallUnderWay DEF SwapStatus
<1> DEFINE t == Settle(Current(c), op[c].to, Details(op[c]))
<1>3. t # NoTransaction /\ t.status = op[c].to /\ t.result = Details(op[c])
  BY <1>1, <1>2, CallFields, SettleType, RecordFields
<1>4. Store(c, t)
  BY DEF SwapStatus, Base
<1> HIDE DEF t
<1>5. transactions' = [transactions EXCEPT ![op[c].id] = t] /\ Succeeded(c)'
  BY <1>4 DEF Store, Respond, Returned, Succeeded, IInv, TypeOK
<1> QED
  BY <1>1, <1>2, <1>3, <1>5 DEF IInv, TypeOK, Current

LEMMA OneWinnerInductive ==
  ASSUME IInv, OneWinner, [Next]_vars
  PROVE  OneWinner'
<1>1. IInv' /\ \A id \in TrackingIds :
                 transactions[id] # NoTransaction =>
                   Extends(transactions'[id], transactions[id])
  BY NextKeepsInvariant
<1>2. ASSUME NEW c \in Calls, NEW id \in TrackingIds, c \in Winners(id)
      PROVE  /\ transactions[id] # NoTransaction
             /\ transactions[id].status # "PENDING"
             /\ transactions[id].status = op[c].to
             /\ transactions[id].result = Details(op[c])
  <2>1. op[c].to \in TerminalStatus
    BY <1>2, CallUnderWay, CallFields DEF Winners, Succeeded
  <2> QED
    BY <1>2, <2>1 DEF OneWinner, TerminalStatus
<1>3. ASSUME NEW id \in TrackingIds,
             Winners(id)' = Winners(id),
             \A c \in Winners(id) : op'[c] = op[c],
             transactions'[id] # NoTransaction =>
               \/ transactions'[id].status = "PENDING"
               \/ /\ transactions[id] # NoTransaction
                  /\ transactions[id].status = transactions'[id].status
      PROVE  /\ \A c, d \in Winners(id)' : c = d
             /\ \A c \in Winners(id)' :
                  /\ transactions'[id] # NoTransaction
                  /\ transactions'[id].status = op'[c].to
                  /\ transactions'[id].result = Details(op'[c])
             /\ /\ transactions'[id] # NoTransaction
                /\ transactions'[id].status # "PENDING"
                => Winners(id)' # {}
  <2>1. \A c, d \in Winners(id) : c = d
    BY DEF OneWinner
  <2>2. ASSUME NEW c \in Winners(id)
        PROVE  /\ transactions'[id] # NoTransaction
               /\ transactions'[id].status = op'[c].to
               /\ transactions'[id].result = Details(op'[c])
    <3>1. c \in Calls
      BY DEF Winners
    <3> QED
      BY <1>1, <1>2, <1>3, <3>1 DEF Extends
  <2>3. /\ transactions'[id] # NoTransaction
        /\ transactions'[id].status # "PENDING"
        => Winners(id) # {}
    BY <1>3 DEF OneWinner
  <2> QED
    BY <1>3, <2>1, <2>2, <2>3
<1>4. CASE UNCHANGED vars
  BY <1>4 DEF vars, OneWinner, Winners, Succeeded
<1>5. ASSUME NEW c \in Calls, NEW o \in Offered, Invoke(c, o)
      PROVE  OneWinner'
  <2>1. /\ pc[c] = "idle"
        /\ pc'[c] = "invoked"
        /\ \A d \in Calls \ {c} : pc'[d] = pc[d] /\ op'[d] = op[d]
        /\ reply' = reply
        /\ transactions' = transactions
    BY <1>5 DEF Invoke, IInv, TypeOK
  <2>2. \A id \in TrackingIds :
          /\ Winners(id)' = Winners(id)
          /\ \A d \in Winners(id) : op'[d] = op[d]
    BY <2>1 DEF Winners, Succeeded
  <2> QED
    BY <1>3, <2>1, <2>2 DEF OneWinner
<1>6. ASSUME NEW c \in Calls, Step(c)
      PROVE  OneWinner'
  <2>1. /\ pc[c] \notin {"idle", "replied"}
        /\ op' = op
        /\ \A d \in Calls \ {c} : Succeeded(d)' = Succeeded(d)
        /\ ~ Succeeded(c)
    BY <1>6, StepReplies DEF Succeeded
  <2>2. CASE ~ SwapStatus(c)
    <3>1. \A id \in TrackingIds : Winners(id)' = Winners(id)
      BY <1>6, <2>1, <2>2, OnlySwapSettles DEF Winners
    <3>2. \A id \in TrackingIds :
            transactions'[id] # NoTransaction =>
              \/ transactions'[id].status = "PENDING"
              \/ /\ transactions[id] # NoTransaction
                 /\ transactions[id].status = transactions'[id].status
      BY <1>6, <2>2, OnlySwapSettles
    <3> QED
      BY <1>3, <2>1, <3>1, <3>2 DEF OneWinner
  <2>3. CASE SwapStatus(c)
    <3> DEFINE i == op[c].id
    <3>1. /\ i \in TrackingIds
          /\ transactions[i].status = "PENDING"
          /\ transactions'[i] # NoTransaction
          /\ transactions'[i].status = op[c].to
          /\ transactions'[i].result = Details(op[c])
          /\ \A id \in TrackingIds \ {i} : transactions'[id] = transactions[id]
          /\ op[c].name \in TransitionNames
          /\ Succeeded(c)'
      BY <2>3, SwapSettles
    <3>2. Winners(i) = {}
      BY <1>2, <3>1 DEF Winners
    <3>3. Winners(i)' = {c}
      BY <2>1, <3>1, <3>2 DEF Winners
    <3>4. \A id \in TrackingIds \ {i} : Winners(id)' = Winners(id)
      BY <2>1 DEF Winners
    <3>5. \A d, e \in Winners(i)' : d = e
      BY <3>3
    <3>6. \A d \in Winners(i)' :
            /\ transactions'[i] # NoTransaction
            /\ transactions'[i].status = op'[d].to
            /\ transactions'[i].result = Details(op'[d])
      BY <2>1, <3>1, <3>3
    <3> QED
      BY <1>3, <2>1, <3>1, <3>3, <3>4, <3>5, <3>6 DEF OneWinner
  <2> QED
    BY <2>2, <2>3
<1> QED
  BY <1>4, <1>5, <1>6 DEF Next

(* Of any number of overlapping transitions exactly one settles each       *)
(* settled transaction, and the record carries that one's outcome.         *)
THEOREM OneWinnerAlways == Spec => []OneWinner
<1>1. Init => OneWinner
  BY DEF Init, OneWinner, Winners, Succeeded
<1>2. IInv /\ OneWinner /\ [Next]_vars => OneWinner'
  BY OneWinnerInductive
<1> QED
  BY <1>1, <1>2, Invariance, PTL DEF Spec

(* A call that is over has a reply, and that of a transition shows the     *)
(* status the transition was asked for.                                    *)
OutcomeShown ==
  \A c \in Calls :
    /\ pc[c] = "replied" => reply[c].error # "no reply"
    /\ Succeeded(c) /\ op[c].name \in TransitionNames =>
         reply[c].transaction.status = op[c].to

LEMMA OutcomeShownInductive ==
  ASSUME IInv, OutcomeShown, [Next]_vars
  PROVE  OutcomeShown'
<1>1. CASE UNCHANGED vars
  BY <1>1 DEF vars, OutcomeShown, Succeeded
<1>2. ASSUME NEW c \in Calls, NEW o \in Offered, Invoke(c, o)
      PROVE  OutcomeShown'
  <2>1. /\ pc'[c] = "invoked"
        /\ \A d \in Calls \ {c} : pc'[d] = pc[d] /\ op'[d] = op[d]
        /\ reply' = reply
    BY <1>2 DEF Invoke, IInv, TypeOK
  <2> QED
    BY <2>1 DEF OutcomeShown, Succeeded
<1>3. ASSUME NEW c \in Calls, Step(c)
      PROVE  OutcomeShown'
  <2>1. /\ op' = op
        /\ \A d \in Calls \ {c} : pc'[d] = pc[d] /\ reply'[d] = reply[d]
        /\ pc'[c] = "replied" => reply'[c].error # "no reply"
        /\ Succeeded(c)' =>
             reply'[c].transaction = transactions'[op[c].id]
    BY <1>3, StepReplies
  <2>2. Succeeded(c)' /\ op[c].name \in TransitionNames =>
          transactions'[op[c].id].status = op[c].to
    BY <1>3, OnlySwapSettles, SwapSettles
  <2> QED
    BY <2>1, <2>2 DEF OutcomeShown, Succeeded
<1> QED
  BY <1>1, <1>2, <1>3 DEF Next

(* An append to a transaction that exists succeeds.                        *)
LEMMA AppendSucceeds ==
  ASSUME IInv, NEW c \in Calls, Step(c),
         op[c].name = "addCallbackAttempt", Current(c) # NoTransaction
  PROVE  reply'[c].error = "none"
<1>1. op[c].name \notin TransitionNames
  BY TransitionNamesValue
<1>2. pc[c] \notin {"found", "conflicted"}
  BY <1>1 DEF IInv, TransitionUnderWay
<1>3. Found(Current(c), op[c])
  BY DEF Found
<1>4. AddCallbackAttempt(c)
  BY <1>1, <1>2, <1>3
     DEF Step, Create, ReplyNotFound, Get, RejectKind, RejectTransition,
         ReadForTransition, SwapStatus, MissSwap, ExplainConflict
<1> QED
  BY <1>4 DEF AddCallbackAttempt, Store, Respond, Returned, IInv, TypeOK

-------------------------------------------------------------------------------
(* Only an append that succeeds changes the attempts of a transaction; one *)
(* that is just created has none.                                          *)
LEMMA OnlyAppendsRecord ==
  ASSUME IInv, NEW c \in Calls, Step(c), ~ AddCallbackAttempt(c)
  PROVE  /\ Succeeded(c)' => op[c].name # "addCallbackAttempt"
         /\ \A id \in TrackingIds :
              transactions'[id] # NoTransaction =>
                IF transactions[id] = NoTransaction
                THEN transactions'[id].callbackAttempts = << >>
                ELSE transactions'[id].callbackAttempts =
                       transactions[id].callbackAttempts
<1>1. pc[c] # "idle"
  BY StepReplies
<1>2. /\ op[c] \in AnyCall
      /\ op[c].id \in TrackingIds
      /\ Current(c) # NoTransaction => Current(c) \in Record
  BY <1>1, CallUnderWay
<1>3. CASE Create(c)
  <2>1. Current(c) = NoTransaction
    BY <1>3 DEF Create, IInv, CreateUnderWay
  <2>2. NewTransaction(op[c].id, op[c].kind).callbackAttempts = << >>
    BY DEF NewTransaction
  <2> QED
    BY <1>2, <1>3, <2>1, <2>2 DEF Create, Store, IInv, TypeOK, Current
<1>4. CASE SwapStatus(c)
  <2>1. /\ op[c].name \in TransitionNames
        /\ Current(c) # NoTransaction
    BY <1>4 DEF SwapStatus, IInv, TransitionUnderWay
  <2>2. Settle(Current(c), op[c].to, Details(op[c])).callbackAttempts =
          Current(c).callbackAttempts
    BY <1>2, <2>1, CallFields, SettleType
  <2> QED
    BY <1>2, <1>4, <2>1, <2>2, TransitionNamesValue
       DEF SwapStatus, Base, Store, IInv, TypeOK, Current
<1>5. CASE Get(c)
  BY <1>5 DEF Get
<1>6. CASE ReadForTransition(c) \/ MissSwap(c)
  BY <1>6 DEF ReadForTransition, MissSwap, Succeeded, IInv, TypeOK
<1>7. ASSUME NEW code \in ErrorCode, Respond(c, Thrown(code))
      PROVE  ~ Succeeded(c)'
  BY <1>7 DEF Respond, Thrown, ErrorCode, Succeeded, IInv, TypeOK
<1>8. pc[c] = "conflicted" => ConflictError(c) \in ErrorCode
  BY DEF ConflictError, ErrorCode
<1>9. CASE ReplyNotFound(c) \/ RejectKind(c) \/ RejectTransition(c)
             \/ ExplainConflict(c)
  BY <1>7, <1>8, <1>9
     DEF ReplyNotFound, RejectKind, RejectTransition, ExplainConflict,
         ErrorCode
<1> QED
  BY <1>3, <1>4, <1>5, <1>6, <1>9 DEF Step

LEMMA AppendRecords ==
  ASSUME IInv, NEW c \in Calls, AddCallbackAttempt(c)
  PROVE  /\ op[c].id \in TrackingIds
         /\ op[c].name = "addCallbackAttempt"
         /\ op[c].attempt \in Attempts
         /\ transactions[op[c].id] # NoTransaction
         /\ transactions[op[c].id].callbackAttempts \in Seq(Attempts)
         /\ transactions'[op[c].id].callbackAttempts =
              Append(transactions[op[c].id].callbackAttempts, op[c].attempt)
         /\ reply'[c].transaction = transactions'[op[c].id]
         /\ \A id \in TrackingIds \ {op[c].id} :
              transactions'[id] = transactions[id]
         /\ ~ Succeeded(c)
         /\ Succeeded(c)'
<1>1. /\ pc[c] = "invoked"
      /\ op[c].name = "addCallbackAttempt"
      /\ Current(c) # NoTransaction
  BY DEF AddCallbackAttempt, Found
<1>2. /\ op[c].id \in TrackingIds
      /\ op[c].attempt \in Attempts
      /\ Current(c) \in Record
  BY <1>1, CallUnderWay, CallFields
<1> DEFINE t == WithAttempt(Current(c), op[c].attempt)
<1>3. /\ t.callbackAttempts =
           Append(Current(c).callbackAttempts, op[c].attempt)
      /\ Current(c).callbackAttempts \in Seq(Attempts)
  BY <1>2, WithAttemptType, RecordFields
<1>4. Store(c, t)
  BY DEF AddCallbackAttempt
<1> HIDE DEF t
<1>5. /\ transactions' = [transactions EXCEPT ![op[c].id] = t]
      /\ Succeeded(c)'
      /\ reply'[c].transaction = t
  BY <1>4 DEF Store, Respond, Returned, Succeeded, IInv, TypeOK
<1> QED
  BY <1>1, <1>2, <1>3, <1>5 DEF IInv, TypeOK, Current, Succeeded

LEMMA AppendFacts ==
  ASSUME NEW a \in Seq(Attempts), NEW e \in Attempts
  PROVE  /\ Len(Append(a, e)) = Len(a) + 1
         /\ Append(a, e)[Len(a) + 1] = e
         /\ \A k \in 1..Len(a) : Append(a, e)[k] = a[k]
         /\ Len(a) \in Nat
OBVIOUS

(* For each transaction: as many attempts as recorders, and each of theirs.*)
Accounted(id) ==
  /\ IsFiniteSet(Recorders(id))
  /\ transactions[id] # NoTransaction =>
       /\ Len(transactions[id].callbackAttempts) = Cardinality(Recorders(id))
       /\ \A c \in Recorders(id) :
            \E i \in 1..Len(transactions[id].callbackAttempts) :
              transactions[id].callbackAttempts[i] = op[c].attempt

LEMMA AccountedInductive ==
  ASSUME IInv, AnswersStayTrue, \A id \in TrackingIds : Accounted(id),
         [Next]_vars
  PROVE  \A id \in TrackingIds : Accounted(id)'
<1>1. ASSUME NEW id \in TrackingIds,
             Recorders(id)' = Recorders(id),
             \A c \in Recorders(id) : op'[c] = op[c],
             transactions'[id] # NoTransaction =>
               IF transactions[id] = NoTransaction
               THEN transactions'[id].callbackAttempts = << >>
               ELSE transactions'[id].callbackAttempts =
                      transactions[id].callbackAttempts
      PROVE  Accounted(id)'
  <2>1. CASE transactions[id] = NoTransaction
    <3>1. Recorders(id) = {}
      BY <2>1 DEF AnswersStayTrue, Recorders, Extends
    <3>2. IsFiniteSet(Recorders(id)') /\ Cardinality(Recorders(id)') = 0
      BY <1>1, <3>1, FS_EmptySet
    <3> QED
      BY <1>1, <2>1, <3>1, <3>2 DEF Accounted
  <2>2. CASE transactions[id] # NoTransaction
    BY <1>1, <2>2 DEF Accounted
  <2> QED
    BY <2>1, <2>2
<1>2. CASE UNCHANGED vars
  BY <1>2 DEF vars, Accounted, Recorders, Succeeded
<1>3. ASSUME NEW c \in Calls, NEW o \in Offered, Invoke(c, o)
      PROVE  \A id \in TrackingIds : Accounted(id)'
  <2>1. /\ pc[c] = "idle"
        /\ pc'[c] = "invoked"
        /\ \A d \in Calls \ {c} : pc'[d] = pc[d] /\ op'[d] = op[d]
        /\ reply' = reply
        /\ transactions' = transactions
    BY <1>3 DEF Invoke, IInv, TypeOK
  <2>2. \A id \in TrackingIds :
          /\ Recorders(id)' = Recorders(id)
          /\ \A d \in Recorders(id) : op'[d] = op[d]
    BY <2>1 DEF Recorders, Succeeded
  <2>3. \A id \in TrackingIds :
          transactions'[id] # NoTransaction =>
            transactions[id] # NoTransaction
    BY <2>1
  <2> QED
    BY <1>1, <2>1, <2>2, <2>3
<1>4. ASSUME NEW c \in Calls, Step(c)
      PROVE  \A id \in TrackingIds : Accounted(id)'
  <2>1. /\ pc[c] \notin {"idle", "replied"}
        /\ op' = op
        /\ \A d \in Calls \ {c} : Succeeded(d)' = Succeeded(d)
        /\ ~ Succeeded(c)
    BY <1>4, StepReplies DEF Succeeded
  <2>2. CASE ~ AddCallbackAttempt(c)
    <3>1. \A id \in TrackingIds : Recorders(id)' = Recorders(id)
      BY <1>4, <2>1, <2>2, OnlyAppendsRecord DEF Recorders
    <3> QED
      BY <1>1, <1>4, <2>1, <2>2, <3>1, OnlyAppendsRecord
  <2>3. CASE AddCallbackAttempt(c)
    <3>. PICK i \in TrackingIds : i = op[c].id
      BY <2>3, AppendRecords
    <3> DEFINE a == transactions[i].callbackAttempts
    <3>1. /\ i \in TrackingIds
          /\ op[c].name = "addCallbackAttempt"
          /\ op[c].attempt \in Attempts
          /\ transactions[i] # NoTransaction
          /\ a \in Seq(Attempts)
          /\ transactions'[i].callbackAttempts = Append(a, op[c].attempt)
          /\ \A id \in TrackingIds \ {i} : transactions'[id] = transactions[id]
          /\ Succeeded(c)'
      BY <2>3, AppendRecords
    <3>2. \A id \in TrackingIds \ {i} : Recorders(id)' = Recorders(id)
      BY <2>1 DEF Recorders
    <3>3. \A id \in TrackingIds \ {i} : Accounted(id)'
      BY <1>1, <2>1, <3>1, <3>2
    <3>4. Recorders(i)' = Recorders(i) \cup {c} /\ c \notin Recorders(i)
      BY <2>1, <3>1 DEF Recorders
    <3>5. /\ IsFiniteSet(Recorders(i)')
          /\ Cardinality(Recorders(i)') = Cardinality(Recorders(i)) + 1
      BY <3>1, <3>4, FS_AddElement DEF Accounted
    <3>6. /\ Len(Append(a, op[c].attempt)) = Len(a) + 1
          /\ Append(a, op[c].attempt)[Len(a) + 1] = op[c].attempt
          /\ \A k \in 1..Len(a) : Append(a, op[c].attempt)[k] = a[k]
          /\ Len(a) \in Nat
      BY <3>1, AppendFacts
    <3>7. /\ Len(a) = Cardinality(Recorders(i))
          /\ \A d \in Recorders(i) : \E k \in 1..Len(a) : a[k] = op[d].attempt
      BY <3>1 DEF Accounted
    <3> DEFINE b == Append(a, op[c].attempt)
    <3>8. /\ Len(b) = Cardinality(Recorders(i)')
          /\ \A d \in Recorders(i)' :
               \E k \in 1..Len(b) : b[k] = op[d].attempt
      <4>1. ASSUME NEW d \in Recorders(i)
            PROVE  \E k \in 1..Len(b) : b[k] = op[d].attempt
        <5>1. PICK k \in 1..Len(a) : a[k] = op[d].attempt
          BY <3>7
        <5>2. k \in 1..Len(b) /\ b[k] = op[d].attempt
          BY <3>6, <5>1
        <5> QED
          BY <5>2
      <4>2. Len(a) + 1 \in 1..Len(b) /\ b[Len(a) + 1] = op[c].attempt
        BY <3>6
      <4> HIDE DEF a, b
      <4> QED
        BY <3>4, <3>5, <3>6, <3>7, <4>1, <4>2 DEF b
    <3>9. Accounted(i)'
      <4>1. Accounted(i)' <=>
              /\ IsFiniteSet(Recorders(i)')
              /\ transactions'[i] # NoTransaction =>
                   /\ Len(b) = Cardinality(Recorders(i)')
                   /\ \A d \in Recorders(i)' :
                        \E k \in 1..Len(b) : b[k] = op[d].attempt
        BY <2>1, <3>1 DEF Accounted
      <4> QED
        BY <3>5, <3>8, <4>1
    <3> QED
      BY <3>3, <3>9
  <2> QED
    BY <2>2, <2>3
<1> QED
  BY <1>2, <1>3, <1>4 DEF Next

(* Whatever transitions and appends overlap, the record keeps exactly the  *)
(* attempts whose callers were told they are recorded.                     *)
THEOREM AttemptsAreAccounted == Spec => []AttemptsAccounted
<1> DEFINE All == \A id \in TrackingIds : Accounted(id)
<1>1. Init => All
  <2> SUFFICES ASSUME Init, NEW id \in TrackingIds PROVE Accounted(id)
    OBVIOUS
  <2>1. Recorders(id) = {}
    BY DEF Init, Recorders, Succeeded
  <2>2. transactions[id] = NoTransaction
    BY DEF Init
  <2> QED
    BY <2>1, <2>2, FS_EmptySet DEF Accounted
<1>2. IInv /\ AnswersStayTrue /\ All /\ [Next]_vars => All'
  BY AccountedInductive
<1>3. All => AttemptsAccounted
  BY DEF Accounted, AttemptsAccounted
<1> QED
  BY <1>1, <1>2, <1>3, Invariance, AnswersAreStable, PTL DEF Spec

-------------------------------------------------------------------------------
(* What a step can do to the statuses: open one transaction, settle one    *)
(* that is pending, or leave all as they are.                              *)
Opens(id) ==
  /\ transactions[id] = NoTransaction
  /\ transactions'[id] # NoTransaction
  /\ transactions'[id].status = "PENDING"

Settles(id) ==
  /\ transactions[id] # NoTransaction
  /\ transactions[id].status = "PENDING"
  /\ transactions'[id] # NoTransaction
  /\ transactions'[id].status \in TerminalStatus

KeepsStatus(id) ==
  /\ transactions'[id] = NoTransaction <=> transactions[id] = NoTransaction
  /\ transactions[id] # NoTransaction =>
       transactions'[id].status = transactions[id].status

LEMMA StepMoves ==
  ASSUME IInv, NEW c \in Calls, Step(c)
  PROVE  \/ \A id \in TrackingIds : KeepsStatus(id)
         \/ \E i \in TrackingIds :
              /\ Opens(i) \/ Settles(i)
              /\ \A id \in TrackingIds \ {i} : KeepsStatus(id)
<1>1. pc[c] # "idle"
  BY StepReplies
<1>2. PICK i \in TrackingIds : i = op[c].id
  BY <1>1, CallUnderWay
<1>3. op[c] \in AnyCall /\ (Current(c) # NoTransaction => Current(c) \in Record)
  BY <1>1, CallUnderWay
<1>4. ASSUME UNCHANGED transactions
      PROVE  \A id \in TrackingIds : KeepsStatus(id)
  BY <1>4 DEF KeepsStatus
<1>5. ASSUME NEW t, Store(c, t)
      PROVE  /\ transactions'[i] = t
             /\ \A id \in TrackingIds \ {i} : KeepsStatus(id)
  BY <1>2, <1>5 DEF Store, IInv, TypeOK, KeepsStatus
<1>6. CASE Create(c)
  <2> DEFINE t == NewTransaction(op[c].id, op[c].kind)
  <2>1. t \in Record /\ t.status = "PENDING"
    BY <1>3, <1>6, CallFields, NewTransactionType
       DEF Create, NewTransaction
  <2>2. t # NoTransaction
    BY <2>1, RecordFields
  <2>3. Current(c) = NoTransaction /\ Store(c, t)
    BY <1>6 DEF Create, IInv, CreateUnderWay
  <2> HIDE DEF t
  <2>4. Opens(i)
    BY <1>2, <1>5, <2>1, <2>2, <2>3 DEF Opens, Current
  <2> QED
    BY <1>5, <2>3, <2>4
<1>7. CASE SwapStatus(c)
  <2>1. Settles(i)
    BY <1>2, <1>3, <1>7, SwapSettles, CallFields DEF Settles
  <2> QED
    BY <1>5, <1>7, <2>1 DEF SwapStatus
<1>8. CASE AddCallbackAttempt(c)
  <2> DEFINE t == WithAttempt(Current(c), op[c].attempt)
  <2>1. /\ Current(c) # NoTransaction
        /\ t \in Record
        /\ t.status = Current(c).status
    BY <1>3, <1>8, CallFields, WithAttemptType DEF AddCallbackAttempt, Found
  <2>2. t # NoTransaction
    BY <2>1, RecordFields
  <2>3. Store(c, t)
    BY <1>8 DEF AddCallbackAttempt
  <2> HIDE DEF t
  <2>4. KeepsStatus(i)
    BY <1>2, <1>5, <2>1, <2>2, <2>3 DEF KeepsStatus, Current
  <2>5. \A id \in TrackingIds : KeepsStatus(id)
    BY <1>5, <2>3, <2>4
  <2> QED
    BY <2>5
<1> QED
  BY <1>4, <1>6, <1>7, <1>8
     DEF Step, ReplyNotFound, Get, RejectKind, RejectTransition,
         ReadForTransition, MissSwap, ExplainConflict

(* A call that finds an outcome is shown it, and no transition succeeds.   *)
LEMMA SettledRefuses ==
  ASSUME IInv, NEW c \in Calls, Step(c), pc[c] \notin {"found", "conflicted"},
         Current(c) # NoTransaction, Current(c).status # "PENDING"
  PROVE  /\ op[c].name \in TransitionNames =>
              pc'[c] = "replied" /\ ~ Succeeded(c)'
         /\ Succeeded(c)' => reply'[c].transaction.status # "PENDING"
<1>1. pc[c] # "idle"
  BY StepReplies
<1>2. /\ op[c] \in AnyCall
      /\ op[c].id \in TrackingIds
      /\ Current(c) \in Record
  BY <1>1, CallUnderWay
<1>3. Succeeded(c)' => reply'[c].transaction.status # "PENDING"
  <2>1. /\ transactions[op[c].id] # NoTransaction
        /\ transactions[op[c].id].status # "PENDING"
    BY DEF Current
  <2>2. Extends(transactions'[op[c].id], transactions[op[c].id])
    BY <1>2, <2>1, StepKeepsInvariant
  <2>3. transactions'[op[c].id].status # "PENDING"
    BY <2>1, <2>2 DEF Extends
  <2> QED
    BY <2>3, StepReplies
<1>4. ASSUME op[c].name \in TransitionNames
      PROVE  pc'[c] = "replied" /\ ~ Succeeded(c)'
  <2>1. /\ op[c].to \in TerminalStatus
        /\ Current(c).status \in TransactionStatus
    BY <1>2, <1>4, CallFields, RecordFields
  <2>2. ~ CanTransition(Current(c).status, op[c].to)
    BY <2>1, OnlyPendingMoves
  <2>3. RejectKind(c) \/ RejectTransition(c) \/ ReplyNotFound(c)
    BY <1>4, <2>2, TransitionNamesValue
       DEF Step, Create, Get, ReadForTransition, SwapStatus, MissSwap,
           ExplainConflict, AddCallbackAttempt
  <2>4. PICK code \in ErrorCode : Respond(c, Thrown(code))
    BY <2>3 DEF RejectKind, RejectTransition, ReplyNotFound, ErrorCode
  <2>5. Thrown(code).error # "none"
    BY DEF Thrown, ErrorCode
  <2> QED
    BY <2>4, <2>5 DEF Respond, IInv, TypeOK, Succeeded
<1> QED
  BY <1>3, <1>4

(* Which calls succeed, for those who make them in the right order.        *)
LEMMA OnlyReplyAtEnd ==
  ASSUME IInv, NEW c \in Calls, Step(c)
  PROVE  \A d \in Calls : pc'[d] # "replied" => reply'[d] = reply[d]
<1>1. \A d \in Calls \ {c} : reply'[d] = reply[d]
  BY StepReplies
<1>2. ASSUME NEW r, Respond(c, r)
      PROVE  pc'[c] = "replied"
  BY <1>2 DEF Respond, IInv, TypeOK
<1>3. pc'[c] # "replied" => reply'[c] = reply[c]
  BY <1>2
     DEF Step, Create, ReplyNotFound, Get, RejectKind, RejectTransition,
         ReadForTransition, SwapStatus, MissSwap, ExplainConflict,
         AddCallbackAttempt, Store
<1> QED
  BY <1>1, <1>3

LEMMA CreateSucceeds ==
  ASSUME IInv, NEW c \in Calls, Step(c), op[c].name = "create"
  PROVE  reply'[c].error = "none"
<1>1. op[c].name \notin TransitionNames
  BY TransitionNamesValue
<1>2. pc[c] \notin {"found", "conflicted"}
  BY <1>1 DEF IInv, TransitionUnderWay
<1>3. Create(c)
  BY <1>1, <1>2
     DEF Step, ReplyNotFound, Get, RejectKind, RejectTransition,
         ReadForTransition, SwapStatus, MissSwap, ExplainConflict,
         AddCallbackAttempt
<1> QED
  BY <1>3 DEF Create, Store, Respond, Returned, IInv, TypeOK

LEMMA PendingSettles ==
  ASSUME IInv, NEW c \in Calls, Step(c), op[c].name \in TransitionNames,
         Current(c) # NoTransaction, Current(c).status = "PENDING",
         Current(c).kind \in expectedKinds[op[c].name]
  PROVE  pc'[c] = "replied" => reply'[c].error = "none"
<1>1. op[c] \in AnyCall /\ op[c].to \in TerminalStatus
  <2>1. pc[c] # "idle"
    BY StepReplies
  <2> QED
    BY <2>1, CallUnderWay, CallFields
<1>2. CanTransition(Current(c).status, op[c].to)
  BY <1>1 DEF CanTransition, allowedTransitions, TransactionStatus
<1>3. Found(Current(c), op[c]) /\ KindExpected(c)
  BY TransitionNamesValue DEF Found, KindExpected
<1>4. pc[c] # "conflicted"
  BY DEF IInv, TransitionUnderWay
<1>5. ReadForTransition(c) \/ SwapStatus(c) \/ MissSwap(c)
  BY <1>2, <1>3, <1>4, TransitionNamesValue
     DEF Step, Create, ReplyNotFound, Get, RejectKind, RejectTransition,
         ExplainConflict, AddCallbackAttempt
<1>6. CASE SwapStatus(c)
  BY <1>6, SwapSettles DEF Succeeded
<1>7. CASE ReadForTransition(c) \/ MissSwap(c)
  BY <1>7 DEF ReadForTransition, MissSwap, IInv, TypeOK
<1> QED
  BY <1>5, <1>6, <1>7

LEMMA SettlerMatches ==
  ASSUME IInv, NEW c \in Calls, Step(c), op[c].name \in TransitionNames,
         Succeeded(c)'
  PROVE  /\ transactions[op[c].id] # NoTransaction
         /\ transactions[op[c].id].kind \in expectedKinds[op[c].name]
<1>1. SwapStatus(c)
  BY OnlySwapSettles
<1> QED
  BY <1>1 DEF SwapStatus, IInv, TransitionUnderWay, Current

(* Only a create adds a transaction.                                       *)
LEMMA OnlyCreatesAdd ==
  ASSUME IInv, NEW c \in Calls, Step(c), NEW id \in TrackingIds,
         transactions[id] = NoTransaction, transactions'[id] # NoTransaction
  PROVE  /\ op[c].name = "create"
         /\ op[c].id = id
         /\ transactions'[id] = NewTransaction(id, op[c].kind)
<1>1. CASE Create(c)
  BY <1>1 DEF Create, Store, IInv, TypeOK
<1>2. CASE SwapStatus(c)
  BY <1>2, SwapSettles
<1>3. CASE AddCallbackAttempt(c)
  BY <1>3, AppendRecords
<1> QED
  BY <1>1, <1>2, <1>3
     DEF Step, ReplyNotFound, Get, RejectKind, RejectTransition,
         ReadForTransition, MissSwap, ExplainConflict

(* A transition that succeeds returns a transaction of a kind it is meant  *)
(* for: the kind checked on the snapshot is that of the record written     *)
(* later, so callers need not check again.                                 *)
TransitionsKeepToKinds ==
  \A c \in Calls :
    Succeeded(c) /\ op[c].name \in TransitionNames =>
      reply[c].transaction.kind \in expectedKinds[op[c].name]

LEMMA KindsInductive ==
  ASSUME IInv, TransitionsKeepToKinds, [Next]_vars
  PROVE  TransitionsKeepToKinds'
<1>1. CASE UNCHANGED vars
  BY <1>1 DEF vars, TransitionsKeepToKinds, Succeeded
<1>2. ASSUME NEW c \in Calls, NEW o \in Offered, Invoke(c, o)
      PROVE  TransitionsKeepToKinds'
  <2>1. /\ pc'[c] = "invoked"
        /\ \A d \in Calls \ {c} : pc'[d] = pc[d] /\ op'[d] = op[d]
        /\ reply' = reply
    BY <1>2 DEF Invoke, IInv, TypeOK
  <2> QED
    BY <2>1 DEF TransitionsKeepToKinds, Succeeded
<1>3. ASSUME NEW c \in Calls, Step(c)
      PROVE  TransitionsKeepToKinds'
  <2>1. /\ op' = op
        /\ \A d \in Calls \ {c} : pc'[d] = pc[d] /\ reply'[d] = reply[d]
        /\ Succeeded(c)' =>
             reply'[c].transaction = transactions'[op[c].id]
    BY <1>3, StepReplies
  <2>2. ASSUME Succeeded(c)', op[c].name \in TransitionNames
        PROVE  transactions'[op[c].id].kind \in expectedKinds[op[c].name]
    <3>1. SwapStatus(c)
      BY <1>3, <2>2, OnlySwapSettles
    <3>2. /\ op[c].id \in TrackingIds
          /\ transactions[op[c].id] # NoTransaction
      BY <3>1, SwapSettles
    <3>3. transactions[op[c].id].kind \in expectedKinds[op[c].name]
      BY <1>3, <2>2, SettlerMatches
    <3>4. Extends(transactions'[op[c].id], transactions[op[c].id])
      BY <1>3, <3>2, NextKeepsInvariant DEF Next
    <3> QED
      BY <3>3, <3>4 DEF Extends
  <2> QED
    BY <2>1, <2>2 DEF TransitionsKeepToKinds, Succeeded
<1> QED
  BY <1>1, <1>2, <1>3 DEF Next

(* TransactionService.transition refuses transactions of a foreign kind:   *)
(* no decision that succeeded is about one.                                *)
THEOREM KindsAreKept == Spec => []TransitionsKeepToKinds
<1>1. Init => TransitionsKeepToKinds
  BY DEF Init, TransitionsKeepToKinds, Succeeded
<1>2. IInv /\ TransitionsKeepToKinds /\ [Next]_vars => TransitionsKeepToKinds'
  BY KindsInductive
<1> QED
  BY <1>1, <1>2, Invariance, PTL DEF Spec

-------------------------------------------------------------------------------
(* How many steps a call that has come so far can still take.              *)
StepsLeft(place) ==
  CASE place = "idle"       -> 4
    [] place = "invoked"    -> 3
    [] place = "found"      -> 2
    [] place = "conflicted" -> 1
    [] OTHER                -> 0

(* Every step of a call, its invocation included, brings it nearer to its  *)
(* reply, and no other call takes it back: a lost swap is explained, never *)
(* tried again, so four steps end every call however many contend.         *)
CallsAdvance ==
  \A c \in Calls :
    /\ StepsLeft(pc'[c]) <= StepsLeft(pc[c])
    /\ Step(c) => StepsLeft(pc'[c]) < StepsLeft(pc[c])

LEMMA StepAdvances ==
  ASSUME IInv, NEW c \in Calls, Step(c)
  PROVE  StepsLeft(pc'[c]) < StepsLeft(pc[c])
<1>1. \/ pc[c] \in {"invoked", "found", "conflicted"} /\ pc'[c] = "replied"
      \/ pc[c] = "invoked" /\ pc'[c] = "found"
      \/ pc[c] = "found" /\ pc'[c] = "conflicted"
  <2>1. pc \in [Calls -> Stage]
    BY DEF IInv, TypeOK
  <2> QED
    BY <2>1
       DEF Step, Create, ReplyNotFound, Get, RejectKind, RejectTransition,
           ReadForTransition, SwapStatus, MissSwap, ExplainConflict,
           AddCallbackAttempt, Store, Respond
<1> QED
  BY <1>1 DEF StepsLeft

LEMMA NextAdvances ==
  ASSUME IInv, [Next]_vars
  PROVE  CallsAdvance
<1>1. \A c \in Calls : Step(c) => StepsLeft(pc'[c]) < StepsLeft(pc[c])
  BY StepAdvances
<1>2. \A place : StepsLeft(place) \in 0..4
  BY DEF StepsLeft
<1>3. ASSUME NEW c \in Calls
      PROVE  StepsLeft(pc'[c]) <= StepsLeft(pc[c])
  <2>1. CASE UNCHANGED vars
    BY <1>2, <2>1 DEF vars
  <2>2. ASSUME NEW d \in Calls, NEW o \in Offered, Invoke(d, o)
        PROVE  StepsLeft(pc'[c]) <= StepsLeft(pc[c])
    <3>1. pc'[c] = pc[c] \/ (pc[c] = "idle" /\ pc'[c] = "invoked")
      BY <2>2 DEF Invoke, IInv, TypeOK
    <3> QED
      BY <1>2, <3>1 DEF StepsLeft
  <2>3. ASSUME NEW d \in Calls, Step(d)
        PROVE  StepsLeft(pc'[c]) <= StepsLeft(pc[c])
    <3>1. CASE d = c
      BY <1>1, <1>2, <2>3, <3>1
    <3>2. CASE d # c
      <4>1. pc'[c] = pc[c]
        BY <2>3, <3>2, StepReplies
      <4> QED
        BY <1>2, <4>1
    <3> QED
      BY <3>1, <3>2
  <2> QED
    BY <2>1, <2>2, <2>3 DEF Next
<1> QED
  BY <1>1, <1>3 DEF CallsAdvance

(* The methods of TransactionService come to an end: a conflict is answered*)
(* by one read, not by another attempt.                                    *)
THEOREM CallsEndInFourSteps == Spec => [][CallsAdvance]_vars
<1>1. IInv /\ [Next]_vars => [CallsAdvance]_vars
  BY NextAdvances
<1> QED
  BY <1>1, Invariance, PTL DEF Spec

-------------------------------------------------------------------------------
(* The refinement: reading before a swap and missing a swap are invisible, *)
(* every other step performs its call in the ledger.                       *)

(* The stage the refinement gives each call.                               *)
stage ==
  [d \in Calls |->
     IF pc[d] \in {"found", "conflicted"} THEN "invoked" ELSE pc[d]]

(* The ledger's data are the service's.                                    *)
LEMMA SameData ==
  /\ Ledger!NoTransaction = NoTransaction
  /\ Ledger!NoCall = NoCall
  /\ Ledger!NoReply = NoReply
  /\ Ledger!expectedKinds = expectedKinds
  /\ Ledger!TransitionNames = TransitionNames
  /\ Ledger!ServiceCall(TrackingIds, Attempts) =
       ServiceCall(TrackingIds, Attempts)
  /\ \A code : Ledger!Thrown(code) = Thrown(code)
  /\ \A t : Ledger!Returned(t) = Returned(t)
  /\ \A o : Ledger!Details(o) = Details(o)
  /\ \A t, o : Ledger!Found(t, o) <=> Found(t, o)
  /\ \A id, kind : Ledger!NewTransaction(id, kind) = NewTransaction(id, kind)
  /\ \A t, to, details : Ledger!Settle(t, to, details) = Settle(t, to, details)
  /\ \A t, a : Ledger!WithAttempt(t, a) = WithAttempt(t, a)
BY DEF Ledger!NoTransaction, NoTransaction, Ledger!NoCall, NoCall,
       Ledger!NoReply, NoReply, Ledger!expectedKinds, expectedKinds,
       Ledger!TransitionNames, TransitionNames, Ledger!ServiceCall,
       ServiceCall, Ledger!CreateCall, CreateCall, Ledger!GetCall, GetCall,
       Ledger!TransitionCall, TransitionCall, Ledger!AttemptCall, AttemptCall,
       Ledger!BusinessKinds, BusinessKinds, Ledger!TransactionKind,
       TransactionKind, Ledger!TransactionStatus, TransactionStatus,
       Ledger!TerminalStatus, TerminalStatus, Ledger!Result, Result,
       Ledger!NoResult, NoResult, Ledger!resultDetails, resultDetails,
       Ledger!Details, Details, Ledger!Found, Found, Ledger!Thrown, Thrown,
       Ledger!Returned, Returned, Ledger!NewTransaction, NewTransaction,
       Ledger!Settle, Settle, Ledger!WithAttempt, WithAttempt

(* A reply in the service is a reply in the ledger.                        *)
LEMMA RespondMaps ==
  ASSUME IInv, NEW c \in Calls, NEW r, Respond(c, r)
  PROVE  Ledger!Respond(c, r)
BY DEF Respond, Ledger!Respond, IInv, TypeOK

LEMMA StoreMaps ==
  ASSUME IInv, NEW c \in Calls, NEW t, Store(c, t)
  PROVE  Ledger!Store(c, t)
BY RespondMaps, SameData DEF Store, Ledger!Store

LEMMA StepMaps ==
  ASSUME IInv, NEW c \in Calls, Step(c)
  PROVE  Ledger!Perform(c) \/ UNCHANGED Ledger!vars
<1>1. /\ pc[c] \in {"invoked", "found", "conflicted"}
      /\ op[c] \in AnyCall
      /\ Current(c) # NoTransaction => Current(c) \in Record
  <2>1. pc[c] \notin {"idle", "replied"}
    BY StepReplies
  <2>2. pc[c] \in Stage
    BY DEF IInv, TypeOK
  <2>3. /\ op[c] \in AnyCall
        /\ Current(c) # NoTransaction => Current(c) \in Record
    BY <2>1, CallUnderWay
  <2> QED
    BY <2>1, <2>2, <2>3 DEF Stage
<1>2. CASE Create(c)
  <2>1. transactions[op[c].id] = NoTransaction
    BY <1>2 DEF Create, IInv, CreateUnderWay, Current
  <2>2. Ledger!Store(c, NewTransaction(op[c].id, op[c].kind))
    BY <1>2, StoreMaps DEF Create
  <2> QED
    BY <1>1, <1>2, <2>1, <2>2, SameData
       DEF Create, Ledger!Perform, Ledger!Create
<1>3. CASE Get(c)
  <2>1. /\ stage' = [stage EXCEPT ![c] = "replied"]
        /\ reply' = [reply EXCEPT ![c] = Returned(transactions[op[c].id])]
        /\ UNCHANGED << transactions, op >>
    BY <1>3 DEF Get, Respond, Current, stage, IInv, TypeOK
  <2>2. /\ op[c].name \in {"getByTrackingId", "getByCheckoutRequestId"}
        /\ Found(transactions[op[c].id], op[c])
    BY <1>3 DEF Get, Current
  <2>3. Ledger!Get(c)
    BY <2>1, <2>2, SameData DEF Ledger!Get, Ledger!Respond, stage
  <2> QED
    BY <1>1, <2>3 DEF Ledger!Perform
<1>4. CASE AddCallbackAttempt(c)
  BY <1>1, <1>4, StoreMaps, SameData
     DEF AddCallbackAttempt, Ledger!Perform, Ledger!AddCallbackAttempt, Found,
         Current
<1>5. CASE SwapStatus(c)
  <2>1. /\ op[c].name \in TransitionNames
        /\ Current(c) # NoTransaction
        /\ Current(c).kind \in expectedKinds[op[c].name]
        /\ Current(c).status = "PENDING"
    BY <1>5 DEF SwapStatus, StatusMatches, IInv, TransitionUnderWay
  <2>2. Ledger!Store(c, Settle(Current(c), op[c].to, Details(op[c])))
    BY <1>5, StoreMaps, SameData DEF SwapStatus, Base
  <2> QED
    BY <1>1, <2>1, <2>2, SameData DEF Ledger!Perform, Ledger!Transition, Current
<1>6. CASE ReplyNotFound(c)
  BY <1>1, <1>6, RespondMaps, SameData
     DEF ReplyNotFound, Ledger!Perform, Ledger!Refuse, Ledger!NotFound, Current
<1>7. CASE RejectKind(c)
  BY <1>1, <1>7, RespondMaps, SameData
     DEF RejectKind, KindExpected, Ledger!Perform, Ledger!Refuse,
         Ledger!WrongKind, Current
<1>8. CASE RejectTransition(c)
  <2>1. Current(c).status # "PENDING"
    BY <1>1, <1>8, RecordFields, CallFields, OnlyPendingMoves
       DEF RejectTransition, Found
  <2> QED
    BY <1>1, <1>8, <2>1, RespondMaps, SameData
       DEF RejectTransition, KindExpected, Ledger!Perform, Ledger!Refuse,
           Ledger!AlreadySettled, Current
<1>9. CASE ExplainConflict(c)
  <2>1. /\ op[c].name \in TransitionNames
        /\ Current(c) # NoTransaction
        /\ Current(c).kind \in expectedKinds[op[c].name]
        /\ Current(c).status # "PENDING"
    BY <1>9 DEF ExplainConflict, IInv, TransitionUnderWay
  <2>2. Ledger!Respond(c, Thrown("INVALID_TRANSACTION_TRANSITION"))
    BY <1>9, ConflictErrorValue, RespondMaps DEF ExplainConflict
  <2>3. Found(transactions[op[c].id], op[c])
    BY <2>1, TransitionNamesValue, SameData DEF Found, Current
  <2> QED
    BY <1>1, <1>9, <2>1, <2>2, <2>3, SameData
       DEF ExplainConflict, Ledger!Perform, Ledger!Refuse,
           Ledger!AlreadySettled, Current
<1>10. CASE ReadForTransition(c) \/ MissSwap(c)
  BY <1>1, <1>10
     DEF ReadForTransition, MissSwap, Ledger!vars, IInv, TypeOK
<1> QED
  BY <1>2, <1>3, <1>4, <1>5, <1>6, <1>7, <1>8, <1>9, <1>10 DEF Step

(* The service implements the ledger: its multi-step transitions take      *)
(* effect at one instant, and it never gives a reply the ledger would not. *)
THEOREM Refinement == Spec => ImplementsLedger
<1>1. Init => Ledger!Init
  BY SameData DEF Init, Ledger!Init
<1>2. IInv /\ [Next]_vars => [Ledger!Next]_Ledger!vars
  <2> SUFFICES ASSUME IInv, [Next]_vars
               PROVE  [Ledger!Next]_Ledger!vars
    OBVIOUS
  <2>1. ASSUME NEW c \in Calls, NEW o \in Offered, Invoke(c, o)
        PROVE  Ledger!Next
    <3>1. o \in ServiceCall(TrackingIds, Attempts)
      BY OfferedAssumption, SameData
    <3>2. Ledger!Invoke(c, o)
      BY <2>1 DEF Invoke, IdIsFresh, Ledger!Invoke, Ledger!IdIsFresh, IInv, TypeOK
    <3> QED
      BY <3>1, <3>2, SameData DEF Ledger!Next
  <2>2. ASSUME NEW c \in Calls, Step(c)
        PROVE  Ledger!Next \/ UNCHANGED Ledger!vars
    BY <2>2, StepMaps DEF Ledger!Next
  <2>3. CASE UNCHANGED vars
    BY <2>3 DEF vars, Ledger!vars
  <2> QED
    BY <2>1, <2>2, <2>3 DEF Next
<1> QED
  BY <1>1, <1>2, Invariance, PTL DEF Spec, ImplementsLedger, Ledger!Spec

===============================================================================
