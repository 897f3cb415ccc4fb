------------------------------- MODULE MCRequests -------------------------------
(***************************************************************************)
(* Instances of Requests for TLC: complete requests of every kind, and     *)
(* those that differ from them in up to two fields.                        *)
(***************************************************************************)
EXTENDS Requests, TLC

Given(f, as) == [given |-> f, as |-> as]

Complete(kind) == [f \in Known(kind) |-> Given(f, "valid")]

Deviations(body) ==
  {[g \in DOMAIN body \ {f} |-> body[g]] : f \in DOMAIN body}
  \cup {f :> Given(f, as) @@ body :
          f \in DOMAIN body \cup {"RecieverIdentifierType",
                                 "OriginatorConversationID"},
          as \in {"valid", "invalid", "null"}}

(* Every kind with one deviation, B2B and B2C with two. *)
FewDeviations ==
  UNION {[kind : {kind}, body : Deviations(Complete(kind))] :
           kind \in TransactionKind}
  \cup UNION {[kind : {kind}, body : UNION {Deviations(b) :
                 b \in Deviations(Complete(kind))}] : kind \in {"B2C", "B2B"}}

===============================================================================
