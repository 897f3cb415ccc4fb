------------------------------- MODULE Requests -------------------------------
(***************************************************************************)
(* How the bodies of the payment requests become transactions: the zod     *)
(* schemas of StkService, C2BService and BusinessPaymentService, the       *)
(* misspelt field B2B still takes, and the URLs createFromStkRequest and   *)
(* createAsyncRequest keep.  A value is abstracted to the field it was     *)
(* given in and to whether its schema takes it.                            *)
(***************************************************************************)
EXTENDS TransactionTypes, FiniteSets, Functions

CONSTANTS
  RequestIds,   \* one element for every payment request
  Offered       \* the bodies clients send

Parties == {"SecurityCredential", "Amount", "PartyA", "PartyB", "Remarks",
            "QueueTimeOutURL", "ResultURL"}

Required ==
  [STK |-> {"BusinessShortCode", "Password", "Timestamp", "TransactionType",
            "Amount", "PartyA", "PartyB", "PhoneNumber", "CallBackURL",
            "AccountReference", "TransactionDesc"},
   C2B |-> {"ShortCode", "CommandID", "Amount", "Msisdn"},
   B2C |-> Parties \cup {"InitiatorName", "CommandID"},
   B2B |-> Parties \cup {"Initiator", "CommandID", "SenderIdentifierType",
                         "ReceiverIdentifierType", "AccountReference"},
   B2C_ACCOUNT_TOPUP |-> Parties \cup {"InitiatorName", "CommandID"}]

Optional ==
  [STK |-> {}, C2B |-> {"BillRefNumber"}, B2C |-> {"Occasion"}, B2B |-> {},
   B2C_ACCOUNT_TOPUP |-> {"Occasion", "AccountReference"}]

Known(kind) == Required[kind] \cup Optional[kind]

(* Mutant of Strict: every schema strips what it does not know. *)
NoneStrict == {}

(* The schemas that refuse a field they do not know; the others drop it.   *)
Strict == {"B2C"}

(* "RecieverIdentifierType" is spelt so in older clients;                  *)
(* "OriginatorConversationID" stands for a field no schema knows.          *)
Field ==
  UNION {Known(kind) : kind \in TransactionKind}
    \cup {"RecieverIdentifierType", "OriginatorConversationID"}

Value == [given : Field, as : {"valid", "invalid", "null"}]

Undefined == [given |-> "undefined", as |-> "undefined"]

IsBody(body) ==
  /\ DOMAIN body \subseteq Field
  /\ body \in [DOMAIN body -> Value]
  /\ \A f \in DOMAIN body : body[f].given = f

ASSUME OfferedAssumption ==
  \A q \in Offered : q.kind \in TransactionKind /\ IsBody(q.body)

NoBody == [f \in {} |-> Undefined]

NoRequest == [kind |-> "none", body |-> NoBody]

VARIABLES
  request,   \* what each request sent
  answer,    \* how it was answered
  stored     \* the transaction it created

vars == << request, answer, stored >>

Get(body, f) == IF f \in DOMAIN body THEN body[f] ELSE Undefined

NothingStored == [kind |-> "none"]

TypeOK ==
  /\ \A r \in RequestIds :
       /\ request[r].kind \in TransactionKind \cup {"none"}
       /\ IsBody(request[r].body)
  /\ answer \in [RequestIds -> {"none", "accepted", "refused"}]
  /\ \A r \in RequestIds : answer[r] = "accepted" =>
       LET data == stored[r].rawRequest
       IN  /\ stored[r].kind = request[r].kind
           /\ Required[stored[r].kind] \subseteq DOMAIN data
           /\ DOMAIN data \subseteq Known(stored[r].kind)
           /\ \A f \in DOMAIN data : data[f] \in Value /\ data[f].as = "valid"

Init ==
  /\ request = [r \in RequestIds |-> NoRequest]
  /\ answer = [r \in RequestIds |-> "none"]
  /\ stored = [r \in RequestIds |-> NothingStored]

-------------------------------------------------------------------------------
(* Mutant of Receiver: the old spelling wins. *)
LegacyReceiver(body) == body["RecieverIdentifierType"]

(* normalized.ReceiverIdentifierType ??= normalized.RecieverIdentifierType *)
Receiver(body) ==
  IF Get(body, "ReceiverIdentifierType").as \in {"undefined", "null"}
  THEN body["RecieverIdentifierType"]
  ELSE body["ReceiverIdentifierType"]

normalizeLegacyReceiverIdentifier(body) ==
  IF "RecieverIdentifierType" \notin DOMAIN body THEN body
  ELSE [f \in (DOMAIN body \ {"RecieverIdentifierType"})
                \cup {"ReceiverIdentifierType"} |->
          IF f = "ReceiverIdentifierType" THEN Receiver(body) ELSE body[f]]

Preprocessed(q) ==
  IF q.kind = "B2B" THEN normalizeLegacyReceiverIdentifier(q.body) ELSE q.body

(* Mutant of Parses: null is taken for a field that was left out. *)
ParsesNull(q) ==
  LET body == Preprocessed(q)
  IN  /\ Required[q.kind] \subseteq DOMAIN body
      /\ \A f \in DOMAIN body \cap Known(q.kind) : body[f].as # "invalid"
      /\ q.kind \in Strict => DOMAIN body \subseteq Known(q.kind)

(* safeParse succeeds: null is no valid value of any field. *)
Parses(q) ==
  LET body == Preprocessed(q)
  IN  /\ Required[q.kind] \subseteq DOMAIN body
      /\ \A f \in DOMAIN body \cap Known(q.kind) : body[f].as = "valid"
      /\ q.kind \in Strict => DOMAIN body \subseteq Known(q.kind)

(* parsed.data *)
Parsed(q) ==
  LET body == Preprocessed(q)
  IN  Restrict(body, DOMAIN body \cap Known(q.kind))

(* Mutant of urlFields: the two URLs of a payment are swapped. *)
swappedUrlFields ==
  [STK |-> [callbackUrl |-> "CallBackURL"], C2B |-> << >>,
   B2C |-> [resultUrl |-> "QueueTimeOutURL", queueTimeoutUrl |-> "ResultURL"],
   B2B |-> [resultUrl |-> "QueueTimeOutURL", queueTimeoutUrl |-> "ResultURL"],
   B2C_ACCOUNT_TOPUP |->
     [resultUrl |-> "QueueTimeOutURL", queueTimeoutUrl |-> "ResultURL"]]

AsyncUrls == [resultUrl |-> "ResultURL", queueTimeoutUrl |-> "QueueTimeOutURL"]

(* The URLs createFromStkRequest and createAsyncRequest are given; those   *)
(* of a C2B transaction are its registration's, see C2B.                   *)
urlFields ==
  [STK |-> [callbackUrl |-> "CallBackURL"], C2B |-> << >>,
   B2C |-> AsyncUrls, B2B |-> AsyncUrls, B2C_ACCOUNT_TOPUP |-> AsyncUrls]

TransactionFrom(q) ==
  [kind       |-> q.kind,
   urls       |-> [u \in DOMAIN urlFields[q.kind] |->
                     Parsed(q)[urlFields[q.kind][u]]],
   rawRequest |-> Parsed(q)]

Receive(r, q) ==
  /\ answer[r] = "none"
  /\ request' = [request EXCEPT ![r] = q]

Accept(r, q) ==
  /\ Receive(r, q)
  /\ Parses(q)
  /\ stored' = [stored EXCEPT ![r] = TransactionFrom(q)]
  /\ answer' = [answer EXCEPT ![r] = "accepted"]

Refuse(r, q) ==
  /\ Receive(r, q)
  /\ ~ Parses(q)
  /\ answer' = [answer EXCEPT ![r] = "refused"]
  /\ UNCHANGED stored

Next == \E r \in RequestIds, q \in Offered : Accept(r, q) \/ Refuse(r, q)

Spec == Init /\ [][Next]_vars

-------------------------------------------------------------------------------
(* The URL each callback of a kind is meant for, by its documented name. *)
CallbackUrls(kind) ==
  CASE kind = "STK" -> [callbackUrl |-> "CallBackURL"]
    [] kind \in BusinessKinds -> [resultUrl       |-> "ResultURL",
                                  queueTimeoutUrl |-> "QueueTimeOutURL"]
    [] OTHER -> << >>

(* No accepted payment lacks a URL CallbackService will look for, at a     *)
(* time when nobody could supply it any more, or has it in the place of    *)
(* another; this is what lets Simulator do without CALLBACK_URL_MISSING,   *)
(* RESULT_URL_MISSING and QUEUE_TIMEOUT_URL_MISSING.                       *)
CallbacksFindTheirUrls ==
  \A r \in RequestIds : answer[r] = "accepted" =>
    \A u \in DOMAIN CallbackUrls(stored[r].kind) :
      /\ u \in DOMAIN stored[r].urls
      /\ stored[r].urls[u] =
           [given |-> CallbackUrls(stored[r].kind)[u], as |-> "valid"]

(* A B2B request that gives the receiver's identifier type in both         *)
(* spellings is judged and stored by the right one; the other only serves  *)
(* where the right one is missing or null, and is never stored as such.    *)
OneReceiver ==
  \A r \in RequestIds : request[r].kind = "B2B" =>
    LET canonical == Get(request[r].body, "ReceiverIdentifierType").as
    IN  /\ canonical = "invalid" => answer[r] = "refused"
        /\ answer[r] = "accepted" =>
             stored[r].rawRequest["ReceiverIdentifierType"].given =
               IF canonical = "valid" THEN "ReceiverIdentifierType"
               ELSE "RecieverIdentifierType"

(* A B2C payment is stored with every field of its request: one with a     *)
(* field of another product is refused, not accepted without it.           *)
NothingDroppedFromB2C ==
  \A r \in RequestIds :
    request[r].kind = "B2C" /\ answer[r] = "accepted" =>
      stored[r].rawRequest = request[r].body

===============================================================================
