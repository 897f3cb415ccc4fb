---------------------------- MODULE RequestsProofs ----------------------------
(***************************************************************************)
(* Proofs about the schemas of the payment requests, for bodies with any   *)
(* number of missing, null, invalid and unknown fields.                    *)
(***************************************************************************)
EXTENDS Requests, TLAPS

(* A request is judged once, and what it stored is what it parsed to.      *)
Judged(r) ==
  \/ /\ answer[r] = "none"
     /\ request[r] = NoRequest
     /\ stored[r] = NothingStored
  \/ /\ answer[r] = "accepted"
     /\ request[r] \in Offered
     /\ Parses(request[r])
     /\ stored[r] = TransactionFrom(request[r])
  \/ /\ answer[r] = "refused"
     /\ request[r] \in Offered
     /\ ~ Parses(request[r])

RequestsInv ==
  /\ request = [r \in RequestIds |-> request[r]]
  /\ answer = [r \in RequestIds |-> answer[r]]
  /\ stored = [r \in RequestIds |-> stored[r]]
  /\ \A r \in RequestIds : Judged(r)

LEMMA RequestsInductive ==
  /\ Init => RequestsInv
  /\ RequestsInv /\ [Next]_vars => RequestsInv'
<1>1. Init => RequestsInv
  BY DEF Init, RequestsInv, Judged
<1>2. ASSUME RequestsInv, UNCHANGED vars
      PROVE  RequestsInv'
  BY <1>2 DEF RequestsInv, Judged, vars
<1>3. ASSUME RequestsInv, NEW s \in RequestIds, NEW q \in Offered,
             Accept(s, q) \/ Refuse(s, q)
      PROVE  RequestsInv'
  <2>1. \A r \in RequestIds \ {s} :
          /\ request'[r] = request[r]
          /\ answer'[r] = answer[r]
          /\ stored'[r] = stored[r]
    BY <1>3 DEF RequestsInv, Accept, Refuse, Receive
  <2>2. Judged(s)'
    BY <1>3 DEF RequestsInv, Judged, Accept, Refuse, Receive
  <2>3. /\ request' = [r \in RequestIds |-> request'[r]]
        /\ answer' = [r \in RequestIds |-> answer'[r]]
        /\ stored' = [r \in RequestIds |-> stored'[r]]
    BY <1>3 DEF RequestsInv, Accept, Refuse, Receive
  <2> QED
    BY <1>3, <2>1, <2>2, <2>3 DEF RequestsInv, Judged
<1> QED
  BY <1>1, <1>2, <1>3 DEF Next

LEMMA RequestsAlways == Spec => []RequestsInv
BY RequestsInductive, PTL DEF Spec

-------------------------------------------------------------------------------
(* What the schemas make of a body.                                        *)

LEMMA RestrictTo ==
  ASSUME NEW b, NEW S
  PROVE  /\ DOMAIN Restrict(b, S) = S
         /\ \A f \in S : Restrict(b, S)[f] = b[f]
BY DEF Restrict

(* A body whose old spelling was renamed has fields and values as before;  *)
(* only the receiver's identifier type may come from the other spelling.   *)
LEMMA PreprocessedBody ==
  ASSUME NEW q \in Offered
  PROVE  LET b == Preprocessed(q)
         IN  /\ DOMAIN b \subseteq Field
             /\ \A f \in DOMAIN b : b[f] \in Value
             /\ \A f \in DOMAIN b \ {"ReceiverIdentifierType"} :
                  f \in DOMAIN q.body /\ b[f] = q.body[f] /\ b[f].given = f
             /\ q.kind # "B2B" => b = q.body
<1> DEFINE n == normalizeLegacyReceiverIdentifier(q.body)
<1>1. q.kind \in TransactionKind /\ IsBody(q.body)
  BY OfferedAssumption
<1>2. "ReceiverIdentifierType" \in Field
  <2>1. "ReceiverIdentifierType" \in Known("B2B")
    BY DEF Known, Required
  <2>2. "B2B" \in TransactionKind
    BY DEF TransactionKind, BusinessKinds
  <2> QED
    BY <2>1, <2>2 DEF Field
<1>3. CASE "RecieverIdentifierType" \in DOMAIN q.body
  <2>1. Receiver(q.body) \in Value
    <3>1. Undefined.as = "undefined"
      BY DEF Undefined
    <3>2. q.body["RecieverIdentifierType"] \in Value
      BY <1>1, <1>3 DEF IsBody
    <3>3. "ReceiverIdentifierType" \in DOMAIN q.body =>
            q.body["ReceiverIdentifierType"] \in Value
      BY <1>1 DEF IsBody
    <3> QED
      BY <3>1, <3>2, <3>3 DEF Receiver, Get
  <2>2. /\ DOMAIN n = (DOMAIN q.body \ {"RecieverIdentifierType"})
                        \cup {"ReceiverIdentifierType"}
        /\ \A f \in DOMAIN n :
             n[f] = IF f = "ReceiverIdentifierType" THEN Receiver(q.body)
                    ELSE q.body[f]
    BY <1>3 DEF normalizeLegacyReceiverIdentifier
  <2> HIDE DEF n
  <2>3. /\ DOMAIN n \subseteq Field
        /\ \A f \in DOMAIN n : n[f] \in Value
        /\ \A f \in DOMAIN n \ {"ReceiverIdentifierType"} :
             f \in DOMAIN q.body /\ n[f] = q.body[f] /\ n[f].given = f
    BY <1>1, <1>2, <2>1, <2>2 DEF IsBody
  <2> QED
    BY <1>1, <2>3 DEF Preprocessed, IsBody, n
<1>4. CASE "RecieverIdentifierType" \notin DOMAIN q.body
  <2>1. Preprocessed(q) = q.body
    BY <1>4 DEF Preprocessed, normalizeLegacyReceiverIdentifier
  <2> QED
    BY <1>1, <2>1 DEF IsBody
<1> QED
  BY <1>3, <1>4

(* What an accepted request parsed to.                                     *)
LEMMA ParsedBody ==
  ASSUME NEW q \in Offered, Parses(q)
  PROVE  LET d == Parsed(q)
         IN  /\ DOMAIN d = DOMAIN Preprocessed(q) \cap Known(q.kind)
             /\ Required[q.kind] \subseteq DOMAIN d
             /\ \A f \in DOMAIN d : /\ d[f] = Preprocessed(q)[f]
                                   /\ d[f] \in Value
                                   /\ d[f].as = "valid"
<1> DEFINE b == Preprocessed(q)
           S == DOMAIN b \cap Known(q.kind)
<1>1. Parsed(q) = Restrict(b, S)
  BY DEF Parsed
<1>2. DOMAIN Parsed(q) = S /\ \A f \in S : Parsed(q)[f] = b[f]
  BY <1>1, RestrictTo
<1>3. /\ Required[q.kind] \subseteq DOMAIN b
      /\ \A f \in S : b[f].as = "valid"
  BY DEF Parses
<1>4. Required[q.kind] \subseteq Known(q.kind)
  BY DEF Known
<1>5. \A f \in DOMAIN b : b[f] \in Value
  BY PreprocessedBody
<1> QED
  BY <1>2, <1>3, <1>4, <1>5

-------------------------------------------------------------------------------
(* Every stored payment has all the fields its schema requires, and only   *)
(* valid ones its schema knows.                                            *)
THEOREM RequestsTyped == Spec => []TypeOK
<1>1. ASSUME RequestsInv, NEW r \in RequestIds
      PROVE  /\ request[r].kind \in TransactionKind \cup {"none"}
             /\ IsBody(request[r].body)
             /\ answer[r] \in {"none", "accepted", "refused"}
  <2>1. Judged(r)
    BY <1>1 DEF RequestsInv
  <2>2. NoRequest.kind = "none" /\ IsBody(NoRequest.body)
    BY DEF NoRequest, NoBody, IsBody
  <2> QED
    BY <2>1, <2>2, OfferedAssumption DEF Judged
<1>2. ASSUME RequestsInv, NEW r \in RequestIds, answer[r] = "accepted"
      PROVE  LET data == stored[r].rawRequest
             IN  /\ stored[r].kind = request[r].kind
                 /\ Required[stored[r].kind] \subseteq DOMAIN data
                 /\ DOMAIN data \subseteq Known(stored[r].kind)
                 /\ \A f \in DOMAIN data :
                      data[f] \in Value /\ data[f].as = "valid"
  <2>1. /\ request[r] \in Offered
        /\ Parses(request[r])
        /\ stored[r] = TransactionFrom(request[r])
    BY <1>2 DEF RequestsInv, Judged
  <2>2. /\ stored[r].kind = request[r].kind
        /\ stored[r].rawRequest = Parsed(request[r])
    BY <2>1 DEF TransactionFrom
  <2> QED
    BY <2>1, <2>2, ParsedBody
<1>3. RequestsInv => TypeOK
  <2> SUFFICES ASSUME RequestsInv PROVE TypeOK
    OBVIOUS
  <2>1. answer \in [RequestIds -> {"none", "accepted", "refused"}]
    BY <1>1 DEF RequestsInv
  <2> QED
    BY <1>1, <1>2, <2>1 DEF TypeOK
<1> QED
  BY <1>3, RequestsAlways, PTL

(* A B2C payment is stored with all the fields of its request.             *)
THEOREM B2CStoredWhole == Spec => []NothingDroppedFromB2C
<1>1. ASSUME RequestsInv, NEW r \in RequestIds,
             request[r].kind = "B2C", answer[r] = "accepted"
      PROVE  stored[r].rawRequest = request[r].body
  <2> DEFINE q == request[r]
  <2>1. /\ q \in Offered
        /\ Parses(q)
        /\ stored[r] = TransactionFrom(q)
    BY <1>1 DEF RequestsInv, Judged
  <2>2. Preprocessed(q) = q.body
    BY <1>1 DEF Preprocessed
  <2>3. DOMAIN q.body \subseteq Known(q.kind)
    BY <1>1, <2>1, <2>2 DEF Parses, Strict
  <2>4. q.body \in [DOMAIN q.body -> Value]
    BY <2>1, OfferedAssumption DEF IsBody
  <2>5. Parsed(q) = [f \in DOMAIN q.body |-> q.body[f]]
    <3>1. DOMAIN q.body \cap Known(q.kind) = DOMAIN q.body
      BY <2>3
    <3> QED
      BY <2>2, <3>1 DEF Parsed, Restrict
  <2> QED
    BY <2>1, <2>4, <2>5 DEF TransactionFrom
<1>2. RequestsInv => NothingDroppedFromB2C
  BY <1>1 DEF NothingDroppedFromB2C
<1> QED
  BY <1>2, RequestsAlways, PTL

(* The right spelling of the receiver's identifier type wins.              *)
THEOREM RightSpellingWins == Spec => []OneReceiver
<1>1. ASSUME RequestsInv, NEW r \in RequestIds, request[r].kind = "B2B"
      PROVE  LET canonical ==
                   Get(request[r].body, "ReceiverIdentifierType").as
             IN  /\ canonical = "invalid" => answer[r] = "refused"
                 /\ answer[r] = "accepted" =>
                      stored[r].rawRequest["ReceiverIdentifierType"].given =
                        IF canonical = "valid" THEN "ReceiverIdentifierType"
                        ELSE "RecieverIdentifierType"
  <2> DEFINE q == request[r]
             f == "ReceiverIdentifierType"
             g == "RecieverIdentifierType"
             c == Get(q.body, f)
  <2>1. q \in Offered /\ answer[r] \in {"accepted", "refused"}
    <3>1. NoRequest.kind = "none"
      BY DEF NoRequest
    <3> QED
      BY <1>1, <3>1 DEF RequestsInv, Judged
  <2>2. answer[r] = "accepted" =>
          Parses(q) /\ stored[r].rawRequest = Parsed(q)
    <3>1. answer[r] = "accepted" =>
            Parses(q) /\ stored[r] = TransactionFrom(q)
      BY <1>1 DEF RequestsInv, Judged
    <3> QED
      BY <3>1 DEF TransactionFrom
  <2>3. IsBody(q.body)
    BY <2>1, OfferedAssumption
  <2>4. f \in Required[q.kind] /\ f \in Known(q.kind)
    BY <1>1 DEF Required, Known
  <2>5. Parses(q) => /\ f \in DOMAIN Preprocessed(q)
                     /\ Parsed(q)[f] = Preprocessed(q)[f]
                     /\ Preprocessed(q)[f].as = "valid"
    BY <2>1, <2>4, ParsedBody
  <2>6. /\ Undefined.as = "undefined"
        /\ f # g
    BY DEF Undefined
  <2>7. CASE g \in DOMAIN q.body
    <3>1. Preprocessed(q)[f] = Receiver(q.body)
      BY <1>1, <2>7 DEF Preprocessed, normalizeLegacyReceiverIdentifier
    <3>2. Receiver(q.body) = IF c.as \in {"undefined", "null"}
                             THEN q.body[g] ELSE q.body[f]
      BY DEF Receiver
    <3>3. q.body[g].given = g
      BY <2>3, <2>7 DEF IsBody
    <3>4. c.as \notin {"undefined", "null"} =>
            f \in DOMAIN q.body /\ c = q.body[f] /\ q.body[f].given = f
      BY <2>3, <2>6 DEF Get, IsBody
    <3>5. c.as \in {"undefined", "null", "valid", "invalid"}
      BY <2>3, <2>6 DEF Get, IsBody, Value
    <3> HIDE DEF c
    <3> QED
      BY <2>1, <2>2, <2>5, <3>1, <3>2, <3>3, <3>4, <3>5 DEF c
  <2>8. CASE g \notin DOMAIN q.body
    <3>1. Preprocessed(q) = q.body
      BY <2>8 DEF Preprocessed, normalizeLegacyReceiverIdentifier
    <3>2. f \in DOMAIN q.body => c = q.body[f] /\ q.body[f].given = f
      BY <2>3 DEF Get, IsBody
    <3>3. f \notin DOMAIN q.body => c.as = "undefined"
      BY <2>6 DEF Get
    <3> QED
      BY <2>1, <2>2, <2>5, <3>1, <3>2, <3>3
  <2> QED
    BY <2>7, <2>8
<1>2. RequestsInv => OneReceiver
  BY <1>1 DEF OneReceiver
<1> QED
  BY <1>2, RequestsAlways, PTL

LEMMA UrlFields ==
  /\ urlFields["STK"] = [callbackUrl |-> "CallBackURL"]
  /\ \A kind \in BusinessKinds :
       urlFields[kind] = [resultUrl       |-> "ResultURL",
                          queueTimeoutUrl |-> "QueueTimeOutURL"]
BY DEF urlFields, AsyncUrls, BusinessKinds

(* Every accepted payment has the URLs of its callbacks, each in its place.*)
THEOREM UrlsAreKept == Spec => []CallbacksFindTheirUrls
<1>1. ASSUME RequestsInv, NEW r \in RequestIds, answer[r] = "accepted",
             NEW u \in DOMAIN CallbackUrls(stored[r].kind)
      PROVE  /\ u \in DOMAIN stored[r].urls
             /\ stored[r].urls[u] =
                  [given |-> CallbackUrls(stored[r].kind)[u], as |-> "valid"]
  <2> DEFINE q == request[r]
  <2>1. /\ q \in Offered
        /\ Parses(q)
        /\ stored[r] = TransactionFrom(q)
    BY <1>1 DEF RequestsInv, Judged
  <2>2. /\ stored[r].kind = q.kind
        /\ stored[r].urls = [v \in DOMAIN urlFields[q.kind] |->
                               Parsed(q)[urlFields[q.kind][v]]]
    BY <2>1 DEF TransactionFrom
  <2>3. q.kind = "STK" \/ q.kind \in BusinessKinds
    <3>1. << >> = [i \in 1..0 |-> i]
      OBVIOUS
    <3> QED
      BY <1>1, <2>2, <3>1 DEF CallbackUrls
  <2>4. CallbackUrls(q.kind) = urlFields[q.kind]
    BY <2>3, UrlFields DEF CallbackUrls, BusinessKinds
  <2>5. PICK f : f = urlFields[q.kind][u]
    OBVIOUS
  <2>6. f \in Required[q.kind] /\ f # "ReceiverIdentifierType"
    <3>1. CASE q.kind = "STK"
      BY <1>1, <2>2, <2>4, <2>5, <3>1, UrlFields DEF Required
    <3>2. CASE q.kind \in BusinessKinds
      <4>1. f \in {"ResultURL", "QueueTimeOutURL"}
        BY <1>1, <2>2, <2>4, <2>5, <3>2, UrlFields
      <4> QED
        BY <3>2, <4>1 DEF Required, Parties, BusinessKinds
    <3> QED
      BY <2>3, <3>1, <3>2
  <2>7. /\ f \in DOMAIN Preprocessed(q)
        /\ Parsed(q)[f] = Preprocessed(q)[f]
        /\ Parsed(q)[f] \in Value
        /\ Parsed(q)[f].as = "valid"
    BY <2>1, <2>6, ParsedBody
  <2>8. Parsed(q)[f].given = f
    BY <2>1, <2>6, <2>7, PreprocessedBody
  <2>9. Parsed(q)[f] = [given |-> f, as |-> "valid"]
    BY <2>7, <2>8 DEF Value
  <2> QED
    BY <1>1, <2>2, <2>4, <2>5, <2>9
<1>2. RequestsInv => CallbacksFindTheirUrls
  BY <1>1 DEF CallbacksFindTheirUrls
<1> QED
  BY <1>2, RequestsAlways, PTL
===============================================================================
