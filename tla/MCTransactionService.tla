------------------------- MODULE MCTransactionService -------------------------
(***************************************************************************)
(* Instances of TransactionService for TLC: which calls are offered, and   *)
(* the symmetry of the sets of model values.                               *)
(***************************************************************************)
EXTENDS TransactionService, TLC

Rejected == [code |-> "reject", desc |-> "rejected"]

TransitionsOf(name, targets, results) ==
  [name : {name}, id : TrackingIds, to : targets, result : results]

(* Every method on transactions of three kinds, one per transition method, *)
(* and the racing decisions of one.                                        *)
EveryMethod ==
  [name : {"create"}, id : TrackingIds, kind : {"STK", "B2B", "C2B"}]
  \cup GetCall(TrackingIds)
  \cup TransitionsOf("transitionStk", {"SUCCESS", "TIMEOUT"}, {NoResult})
  \cup TransitionsOf("transitionBusinessPayment", {"FAILED"}, {NoResult})
  \cup TransitionsOf("transitionC2B", {"FAILED"}, {NoResult, Rejected})
  \cup AttemptCall(TrackingIds, Attempts)

Symmetry == Permutations(Calls) \cup Permutations(Attempts)

===============================================================================
