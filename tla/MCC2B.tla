--------------------------------- MODULE MCC2B ---------------------------------
(***************************************************************************)
(* Instances of C2B for TLC: which requests are made.                      *)
(***************************************************************************)
EXTENDS C2B

(* An integration registers a pair of URLs of its own for each fallback.   *)
CONSTANTS Validation1, Confirmation1, Validation2, Confirmation2

Registrations ==
  {[ResponseType |-> "Completed",
    ValidationURL |-> Validation1, ConfirmationURL |-> Confirmation1],
   [ResponseType |-> "Cancelled",
    ValidationURL |-> Validation2, ConfirmationURL |-> Confirmation2]}

Register ==
  [name : {"registerurl"}, shortCode : ShortCodes, registration : Registrations]

Pay == [name : {"simulate"}, shortCode : ShortCodes, id : TrackingIds]

Decide ==
  [name : {"decide"}, id : TrackingIds, to : {"TIMEOUT"},
   transition : {"transitionStk", "transitionBusinessPayment"}]

Show == [name : {"show"}, id : TrackingIds]

EveryRequest == Register \cup Pay \cup Decide \cup Show

===============================================================================
