------------------------------ MODULE TokensProofs ------------------------------
(***************************************************************************)
(* Proofs about Tokens, for any tokens, credentials and lifetime.          *)
(***************************************************************************)
EXTENDS Tokens, SequenceTheorems, WellFoundedInduction, TLAPS

(* What the route and the hook rely on.  On a clock that was never set an  *)
(* entry of the Map says when its token dies, and a token that is no       *)
(* longer there has died of age; only tokens that are not there are dead.  *)
TokensInv ==
  /\ TypeOK
  /\ dead \cap DOMAIN expirations = {}
  /\ steady => now = time
  /\ steady =>
       \A t \in DOMAIN issuedAt :
         IF t \in DOMAIN expirations
         THEN expirations[t] = issuedAt[t] + Lifetime
         ELSE issuedAt[t] + Lifetime <= time

(* The last answer of the hook is about a token of this run, or about one  *)
(* that is dead, and was right.                                            *)
CheckInv ==
  /\ lastCheck.token # NoToken =>
       lastCheck.token \in IF lastCheck.valid THEN DOMAIN issuedAt ELSE dead
  /\ lastCheck.token = NoToken => ~ lastCheck.valid
  /\ DeadStaysDead
  /\ LifetimeKept

-------------------------------------------------------------------------------
LEMMA LifetimeType == Lifetime \in Nat
<1>1. TokenExpiresInSeconds \in Nat /\ MsPerSecond \in Nat
  BY TokensAssumption
<1>2. \A m, n \in Nat : m * n \in Nat
  OBVIOUS
<1> QED
  BY <1>1, <1>2 DEF Lifetime

LEMMA MaxTimeType == MaxTime \in Nat
BY TokensAssumption

LEMMA NoTokenIsNone == NoToken \notin AccessTokens
BY TokensAssumption DEF NoToken

(* Whatever the header, the route has an answer. *)
LEMMA GrantType ==
  ASSUME NEW header \in Header
  PROVE  GrantOf(header) \in Grant
BY DEF Header, GrantOf, Grant

(* Generate without and with a token. *)
LEMMA GenerateCases ==
  ASSUME NEW header \in Header, Generate(header)
  PROVE  /\ \/ UNCHANGED << expirations, issuedAt >>
            \/ \E token \in AccessTokens : Issue(token)
         /\ UNCHANGED << configuration, clock, dead, lastCheck >>
BY DEF Generate

-------------------------------------------------------------------------------
LEMMA InitTokens == Init => TokensInv /\ CheckInv
<1> SUFFICES ASSUME Init PROVE TokensInv /\ CheckInv
  OBVIOUS
<1> USE DEF Init, EmptyMap, NoGrant, NoCheck
<1>1. TypeOK
  BY DEF TypeOK, Grant
<1>2. TokensInv
  BY <1>1 DEF TokensInv
<1>3. CheckInv
  BY DEF CheckInv, DeadStaysDead, LifetimeKept
<1> QED
  BY <1>2, <1>3

(* The maps after a token was issued. *)
LEMMA IssuedMaps ==
  ASSUME TypeOK, NEW token \in AccessTokens, Issue(token)
  PROVE  /\ DOMAIN expirations' = DOMAIN expirations \cup {token}
         /\ DOMAIN issuedAt' = DOMAIN issuedAt \cup {token}
         /\ \A t \in DOMAIN expirations : t # token => expirations'[t] = expirations[t]
         /\ \A t \in DOMAIN issuedAt : t # token => issuedAt'[t] = issuedAt[t]
         /\ expirations'[token] = now + Lifetime
         /\ issuedAt'[token] = time
         /\ expirations' \in [DOMAIN expirations' -> Int]
         /\ issuedAt' \in [DOMAIN issuedAt' -> Nat]
BY LifetimeType DEF Issue, TypeOK

LEMMA RefusedMap ==
  ASSUME TypeOK, NEW token \in AccessTokens, Refuse(token)
  PROVE  /\ DOMAIN expirations' = DOMAIN expirations \ {token}
         /\ \A t \in DOMAIN expirations : t # token => expirations'[t] = expirations[t]
         /\ expirations' \in [DOMAIN expirations' -> Int]
BY DEF Refuse, Forget, Restrict, TypeOK

LEMMA TypeInductive == TypeOK /\ [Next]_vars => TypeOK'
<1> SUFFICES ASSUME TypeOK, [Next]_vars PROVE TypeOK'
  OBVIOUS
<1> USE DEF configuration, clock
<1>1. ASSUME NEW header \in Header, Generate(header) PROVE TypeOK'
  <2>1. lastGrant' \in [header : Header \cup {NoHeader}, answer : Grant]
    BY <1>1, GrantType DEF Generate
  <2>2. CASE UNCHANGED << expirations, issuedAt >>
    BY <1>1, <2>1, <2>2 DEF Generate, TypeOK
  <2>3. ASSUME NEW token \in AccessTokens, Issue(token) PROVE TypeOK'
    BY <1>1, <2>1, <2>3, IssuedMaps DEF Generate, TypeOK
  <2> QED
    BY <1>1, <2>2, <2>3, GenerateCases
<1>2. ASSUME NEW token \in AccessTokens, Accept(token) PROVE TypeOK'
  BY <1>2 DEF Accept, TypeOK
<1>3. ASSUME NEW token \in AccessTokens, Refuse(token) PROVE TypeOK'
  BY <1>3, RefusedMap DEF Refuse, TypeOK
<1>4. CASE RefuseUnnamed
  BY <1>4 DEF RefuseUnnamed, TypeOK
<1>5. CASE Tick
  BY <1>5 DEF Tick, TypeOK
<1>6. ASSUME NEW t \in Clock, SetClock(t) PROVE TypeOK'
  <2>1. t \in Int
    BY MaxTimeType DEF Clock
  <2>2. now' = t /\ steady' = FALSE
    BY <1>6 DEF SetClock
  <2>3. UNCHANGED << expirations, key, secret, time, issuedAt, dead,
                     lastGrant, lastCheck >>
    BY <1>6 DEF SetClock
  <2> QED
    BY <2>1, <2>2, <2>3 DEF TypeOK
<1>7. CASE Restart
  BY <1>7 DEF Restart, EmptyMap, NoGrant, NoCheck, Grant, TypeOK
<1>8. CASE UNCHANGED vars
  BY <1>8 DEF vars, TypeOK
<1> QED
  BY <1>1, <1>2, <1>3, <1>4, <1>5, <1>6, <1>7, <1>8 DEF Next

LEMMA TokensInductive == TokensInv /\ [Next]_vars => TokensInv'
<1> SUFFICES ASSUME TokensInv, [Next]_vars PROVE TokensInv'
  OBVIOUS
<1> USE LifetimeType DEF configuration, clock
<1>0. TypeOK /\ TypeOK'
  BY TypeInductive DEF TokensInv
<1>1. ASSUME NEW header \in Header, Generate(header) PROVE TokensInv'
  <2>1. CASE UNCHANGED << expirations, issuedAt >>
    BY <1>0, <1>1, <2>1 DEF Generate, TokensInv
  <2>2. ASSUME NEW token \in AccessTokens, Issue(token) PROVE TokensInv'
    <3>1. token \notin DOMAIN issuedAt \cup dead
      BY <2>2 DEF Issue
    <3>a. token \notin DOMAIN expirations
      BY <1>0, <3>1 DEF TypeOK
    <3>2. UNCHANGED << now, time, steady, dead >>
      BY <1>1, GenerateCases
    <3>3. /\ DOMAIN expirations' = DOMAIN expirations \cup {token}
          /\ DOMAIN issuedAt' = DOMAIN issuedAt \cup {token}
          /\ \A t \in DOMAIN expirations : expirations'[t] = expirations[t]
          /\ \A t \in DOMAIN issuedAt : issuedAt'[t] = issuedAt[t]
          /\ expirations'[token] = now + Lifetime
          /\ issuedAt'[token] = time
      BY <1>0, <2>2, <3>1, <3>a, IssuedMaps
    <3>4. dead' \cap DOMAIN expirations' = {}
      BY <3>1, <3>2, <3>3 DEF TokensInv
    <3>5. ASSUME steady', NEW t \in DOMAIN issuedAt'
          PROVE  IF t \in DOMAIN expirations'
                 THEN expirations'[t] = issuedAt'[t] + Lifetime
                 ELSE issuedAt'[t] + Lifetime <= time'
      BY <3>1, <3>2, <3>3, <3>5 DEF TokensInv
    <3> QED
      BY <1>0, <3>2, <3>4, <3>5 DEF TokensInv
  <2> QED
    BY <1>1, <2>1, <2>2, GenerateCases
<1>2. ASSUME NEW token \in AccessTokens, Accept(token) PROVE TokensInv'
  BY <1>0, <1>2 DEF Accept, TokensInv
<1>3. ASSUME NEW token \in AccessTokens, Refuse(token) PROVE TokensInv'
  <2>1. steady /\ token \in DOMAIN expirations => expirations[token] <= time
    BY <1>0, <1>3 DEF Refuse, IsValid, TokensInv, TypeOK
  <2>2. UNCHANGED << now, time, steady, issuedAt >> /\ dead' = dead \cup {token}
    BY <1>3 DEF Refuse
  <2> QED
    BY <1>0, <1>3, <2>1, <2>2, RefusedMap DEF TokensInv, TypeOK
<1>4. CASE RefuseUnnamed
  BY <1>0, <1>4 DEF RefuseUnnamed, TokensInv
<1>5. CASE Tick
  BY <1>0, <1>5 DEF Tick, TokensInv, TypeOK
<1>6. ASSUME NEW t \in Clock, SetClock(t) PROVE TokensInv'
  BY <1>0, <1>6 DEF SetClock, TokensInv
<1>7. CASE Restart
  BY <1>0, <1>7 DEF Restart, EmptyMap, TokensInv
<1>8. CASE UNCHANGED vars
  BY <1>0, <1>8 DEF vars, TokensInv
<1> QED
  BY <1>1, <1>2, <1>3, <1>4, <1>5, <1>6, <1>7, <1>8 DEF Next

LEMMA CheckInductive == TokensInv /\ CheckInv /\ [Next]_vars => CheckInv'
<1> SUFFICES ASSUME TokensInv, CheckInv, [Next]_vars PROVE CheckInv'
  OBVIOUS
<1> USE LifetimeType DEF configuration, clock
<1>0. TypeOK /\ TypeOK' /\ TokensInv'
  BY TokensInductive, TypeInductive DEF TokensInv
<1>a. CheckInv <=>
        /\ lastCheck.token # NoToken =>
             lastCheck.token \in IF lastCheck.valid THEN DOMAIN issuedAt ELSE dead
        /\ lastCheck.token = NoToken => ~ lastCheck.valid
        /\ DeadStaysDead
        /\ LifetimeKept
  BY DEF CheckInv
<1> USE DEF CheckInv, DeadStaysDead, LifetimeKept
<1>1. ASSUME NEW header \in Header, Generate(header) PROVE CheckInv'
  <2>1. CASE UNCHANGED << expirations, issuedAt >>
    BY <1>1, <2>1 DEF Generate
  <2>2. ASSUME NEW token \in AccessTokens, Issue(token) PROVE CheckInv'
    <3>1. token \notin DOMAIN issuedAt \cup dead
      BY <2>2 DEF Issue
    <3>2. lastCheck.token # token
      BY <3>1, NoTokenIsNone
    <3>3. UNCHANGED << steady, dead, lastCheck >>
      BY <1>1, GenerateCases
    <3>4. /\ DOMAIN issuedAt' = DOMAIN issuedAt \cup {token}
          /\ \A t \in DOMAIN issuedAt : issuedAt'[t] = issuedAt[t]
      BY <1>0, <2>2, <3>1, IssuedMaps
    <3> QED
      BY <3>2, <3>3, <3>4
  <2> QED
    BY <1>1, <2>1, <2>2, GenerateCases
<1>2. ASSUME NEW token \in AccessTokens, Accept(token) PROVE CheckInv'
  <2>1. lastCheck'.token = token /\ lastCheck'.valid /\ lastCheck'.at = time
    BY <1>2 DEF Accept
  <2>2. token \in DOMAIN expirations /\ expirations[token] > now
    BY <1>2 DEF Accept, IsValid
  <2>3. UNCHANGED << steady, issuedAt, dead >>
    BY <1>2 DEF Accept
  <2>4. token \in DOMAIN issuedAt /\ token \notin dead
    BY <1>0, <2>2 DEF TokensInv, TypeOK
  <2>5. steady => time < issuedAt[token] + Lifetime
    BY <1>0, <2>2, <2>4 DEF TokensInv, TypeOK
  <2> QED
    BY <2>1, <2>3, <2>4, <2>5, NoTokenIsNone
<1>3. ASSUME NEW token \in AccessTokens, Refuse(token) PROVE CheckInv'
  <2>1. lastCheck'.token = token /\ ~ lastCheck'.valid /\ lastCheck'.at = time
    BY <1>3 DEF Refuse
  <2>2. UNCHANGED << steady, issuedAt >> /\ dead' = dead \cup {token}
    BY <1>3 DEF Refuse
  <2>3. ~ (token \in DOMAIN expirations /\ expirations[token] > now)
    BY <1>3 DEF Refuse, IsValid
  <2>4. steady /\ token \in DOMAIN issuedAt =>
          ~ (time < issuedAt[token] + Lifetime)
    BY <1>0, <2>3 DEF TokensInv, TypeOK
  <2> QED
    BY <2>1, <2>2, <2>4, NoTokenIsNone
<1>4. CASE RefuseUnnamed
  <2>1. NoToken \notin DOMAIN issuedAt
    BY <1>0, NoTokenIsNone DEF TypeOK
  <2> QED
    BY <1>4, <2>1 DEF RefuseUnnamed
<1>5. CASE Tick
  BY <1>5 DEF Tick
<1>6. ASSUME NEW t \in Clock, SetClock(t) PROVE CheckInv'
  BY <1>6 DEF SetClock
<1>7. CASE Restart
  BY <1>7 DEF Restart, EmptyMap, NoCheck
<1>8. CASE UNCHANGED vars
  BY <1>8 DEF vars
<1> QED
  BY <1>1, <1>2, <1>3, <1>4, <1>5, <1>6, <1>7, <1>8 DEF Next

LEMMA TokensAlways == Spec => [](TokensInv /\ CheckInv)
<1>1. TokensInv /\ CheckInv /\ [Next]_vars => (TokensInv /\ CheckInv)'
  BY TokensInductive, CheckInductive
<1> QED
  BY InitTokens, <1>1, PTL DEF Spec

(* The Map holds expirations of tokens issued in this run, and the state   *)
(* of AccessTokenService and its clients has its types.                    *)
THEOREM TokensTyped == Spec => []TypeOK
BY TokensAlways, PTL DEF TokensInv

(* A token refused once, or issued before a restart, is never accepted     *)
(* again, wherever the clock is set (isValid deletes what it refuses).     *)
THEOREM RefusedForEver == Spec => []DeadStaysDead
BY TokensAlways, PTL DEF CheckInv

(* On a clock nobody sets, isValid accepts a token exactly during the      *)
(* lifetime it was issued with.                                            *)
THEOREM LifetimeIsKept == Spec => []LifetimeKept
BY TokensAlways, PTL DEF CheckInv

-------------------------------------------------------------------------------
(* Any set of naturals that is not empty has a least element. *)
LEMMA Least ==
  ASSUME NEW S, S \subseteq Nat, S # {}
  PROVE  \E i \in S : \A j \in S : i <= j
<1> DEFINE R == {ss \in Nat \X Nat : ss[1] < ss[2]}
<1>1. IsWellFoundedOn(R, Nat)
  BY NatLessThanWellFounded DEF OpToRel
<1>2. PICK i \in S : \A j \in S : << j, i >> \notin R
  <2> HIDE DEF R
  <2> QED
    BY <1>1, WFMin
<1>3. ASSUME NEW j \in S PROVE i <= j
  <2>1. << j, i >> \in Nat \X Nat /\ << j, i >> \notin R
    BY <1>2
  <2>2. ~ (j < i)
    BY <2>1
  <2> QED
    BY <2>2
<1> QED
  BY <1>3

(* decoded.indexOf(":") is the place of the first colon. *)
LEMMA SeparatorIsFirst ==
  ASSUME NEW text \in Seq(Characters), Colons(text) # {}
  PROVE  /\ Separator(text) \in 1..Len(text)
         /\ text[Separator(text)] = ":"
         /\ \A j \in 1..Len(text) : text[j] = ":" => Separator(text) <= j
<1>1. Colons(text) \subseteq Nat
  BY DEF Colons
<1>2. \E i \in Colons(text) : \A j \in Colons(text) : i <= j
  BY <1>1, Least
<1>3. /\ Separator(text) \in Colons(text)
      /\ \A j \in Colons(text) : Separator(text) <= j
  BY <1>2 DEF Separator
<1> QED
  BY <1>3 DEF Colons

(* Only a key and a secret joined by a colon decode to this key and secret,*)
(* and they do when the key has no colon: the secret may have some.        *)
LEMMA DecodeJoined ==
  ASSUME NEW text \in Seq(Characters), NEW k \in Seq(Characters), NEW s \in Seq(Characters),
         k # << >>, s # << >>, Colons(k) = {}
  PROVE  HasCredentials(text) /\ decodeCredentials(text) = << k, s >>
           <=> text = k \o << ":" >> \o s
<1> DEFINE joined == k \o << ":" >> \o s
<1>1. /\ joined \in Seq(Characters)
      /\ Len(joined) = Len(k) + 1 + Len(s)
      /\ \A j \in 1..Len(k) : joined[j] = k[j]
      /\ joined[Len(k) + 1] = ":"
      /\ \A j \in 1..Len(s) : joined[Len(k) + 1 + j] = s[j]
  <2> DEFINE opened == k \o << ":" >>
  <2>1. /\ opened \in Seq(Characters)
        /\ Len(opened) = Len(k) + 1
        /\ \A j \in 1..Len(k) : opened[j] = k[j]
        /\ opened[Len(k) + 1] = ":"
    <3>0. ":" \in Characters
      BY TokensAssumption
    <3>1. << ":" >> \in Seq(Characters) /\ Len(<< ":" >>) = 1 /\ << ":" >>[1] = ":"
      BY <3>0
    <3>2. Len(k) \in Nat
      OBVIOUS
    <3>3. \A j \in 1..(Len(k) + 1) :
            opened[j] = IF j <= Len(k) THEN k[j] ELSE << ":" >>[j - Len(k)]
      BY <3>1, ConcatProperties
    <3>4. opened[Len(k) + 1] = << ":" >>[(Len(k) + 1) - Len(k)]
      BY <3>2, <3>3
    <3>5. (Len(k) + 1) - Len(k) = 1
      BY <3>2
    <3> QED
      BY <3>1, <3>2, <3>3, <3>4, <3>5, ConcatProperties
  <2> HIDE DEF opened
  <2>2. /\ opened \o s \in Seq(Characters)
        /\ Len(opened \o s) = Len(opened) + Len(s)
        /\ \A j \in 1..(Len(opened) + Len(s)) :
             (opened \o s)[j] =
                IF j <= Len(opened) THEN opened[j] ELSE s[j - Len(opened)]
    BY <2>1, ConcatProperties
  <2>3. Len(k) \in Nat /\ Len(s) \in Nat
    OBVIOUS
  <2>4. ASSUME NEW j \in 1..Len(s)
        PROVE  (opened \o s)[Len(k) + 1 + j] = s[j]
    <3>1. (opened \o s)[Len(k) + 1 + j] = s[(Len(k) + 1 + j) - Len(opened)]
      BY <2>1, <2>2, <2>3
    <3>2. (Len(k) + 1 + j) - Len(opened) = j
      BY <2>1, <2>3
    <3> QED
      BY <3>1, <3>2
  <2> QED
    BY <2>1, <2>2, <2>3, <2>4 DEF opened
<1>2. Len(k) \in Nat \ {0} /\ Len(s) \in Nat \ {0}
  OBVIOUS
<1> HIDE DEF joined
<1>3. ASSUME HasCredentials(text), decodeCredentials(text) = << k, s >>
      PROVE  text = joined
  <2> DEFINE i == Separator(text)
  <2>1. i \in 1..Len(text) /\ text[i] = ":"
    BY <1>3, SeparatorIsFirst DEF HasCredentials
  <2>2. SubSeq(text, 1, i - 1) = k /\ SubSeq(text, i + 1, Len(text)) = s
    BY <1>3 DEF decodeCredentials
  <2> HIDE DEF i
  <2>3. Len(k) = i - 1 /\ \A j \in 1..Len(k) : text[j] = k[j]
    <3>1. i \in Int /\ \A j \in 1..(i - 1) : text[j] \in Characters
      BY <2>1
    <3> QED
      BY <2>1, <2>2, <3>1, SubSeqProperties
  <2>4. Len(s) = Len(text) - i /\ \A j \in 1..Len(s) : text[i + j] = s[j]
    <3>1. /\ i + 1 \in Int /\ Len(text) \in Int
          /\ \A j \in (i + 1)..Len(text) : text[j] \in Characters
      BY <2>1
    <3> DEFINE rest == SubSeq(text, i + 1, Len(text))
    <3>a. /\ Len(rest) = IF i + 1 <= Len(text) THEN Len(text) - (i + 1) + 1 ELSE 0
          /\ \A j \in 1..(Len(text) - (i + 1) + 1) : rest[j] = text[(i + 1) + j - 1]
      BY ONLY <3>1, SubSeqProperties
    <3>2. /\ Len(s) = IF i + 1 <= Len(text) THEN Len(text) - (i + 1) + 1 ELSE 0
          /\ \A j \in 1..(Len(text) - (i + 1) + 1) : s[j] = text[(i + 1) + j - 1]
      BY <2>2, <3>a
    <3>3. i \in Int /\ Len(text) \in Int /\ i <= Len(text)
      BY <2>1
    <3>4. Len(s) = Len(text) - i
      BY <3>2, <3>3
    <3>5. Len(text) - (i + 1) + 1 = Len(text) - i
      BY <3>3
    <3>6. ASSUME NEW j \in 1..Len(s) PROVE text[i + j] = s[j]
      <4>1. s[j] = text[(i + 1) + j - 1]
        BY <3>2, <3>4, <3>5
      <4>2. (i + 1) + j - 1 = i + j
        BY <3>3
      <4> QED
        BY <4>1, <4>2
    <3> QED
      BY <3>4, <3>6
  <2>5. Len(text) = Len(joined)
    BY <1>1, <2>1, <2>3, <2>4
  <2>6. ASSUME NEW j \in 1..Len(text) PROVE text[j] = joined[j]
    <3>1. CASE j < i
      BY <1>1, <2>1, <2>3, <3>1
    <3>2. CASE j = i
      BY <1>1, <2>1, <2>3, <3>2
    <3>3. CASE j > i
      <4>1. j - i \in 1..Len(s)
        BY <2>1, <2>4, <3>3
      <4>2. text[i + (j - i)] = s[j - i]
        BY <2>4, <4>1
      <4>3. joined[Len(k) + 1 + (j - i)] = s[j - i]
        BY <1>1, <4>1
      <4>4. i + (j - i) = j /\ Len(k) + 1 + (j - i) = j
        BY <2>1, <2>3
      <4> QED
        BY <4>2, <4>3, <4>4
    <3> QED
      BY <2>1, <3>1, <3>2, <3>3
  <2> QED
    BY <1>1, <2>5, <2>6, SeqEqual
<1>4. ASSUME text = joined
      PROVE  HasCredentials(text) /\ decodeCredentials(text) = << k, s >>
  <2> DEFINE i == Separator(text)
  <2>1. Len(k) + 1 \in 1..Len(text)
    BY <1>1, <1>2, <1>4
  <2>2. Colons(text) # {}
    <3>1. Len(k) + 1 \in DOMAIN text
      BY <2>1
    <3>2. text[Len(k) + 1] = ":"
      BY <1>1, <1>4
    <3> QED
      BY <3>1, <3>2 DEF Colons
  <2>3. i \in 1..Len(text) /\ text[i] = ":" /\ i <= Len(k) + 1
    BY <1>1, <1>4, <2>1, <2>2, SeparatorIsFirst
  <2>4. \A j \in 1..Len(k) : k[j] # ":"
    BY DEF Colons
  <2>5. i = Len(k) + 1
    <3>1. i \in Nat /\ Len(k) \in Nat
      BY <1>2, <2>3
    <3>2. CASE i <= Len(k)
      <4>1. i \in 1..Len(k)
        BY <2>3, <3>1, <3>2
      <4>2. text[i] = k[i]
        BY <1>1, <1>4, <4>1
      <4> QED
        BY <2>3, <2>4, <4>1, <4>2
    <3> QED
      BY <2>3, <3>1, <3>2
  <2>6. HasCredentials(text)
    BY <1>1, <1>2, <1>4, <2>2, <2>5 DEF HasCredentials
  <2> HIDE DEF i
  <2>7. SubSeq(text, 1, i - 1) = k
    <3>1. SubSeq(text, 1, i - 1) \in Seq(Characters) /\ Len(SubSeq(text, 1, i - 1)) = Len(k)
      BY <2>1, <2>5
    <3>2. \A j \in 1..Len(k) : SubSeq(text, 1, i - 1)[j] = k[j]
      BY <1>1, <1>4, <2>1, <2>5
    <3> QED
      BY <3>1, <3>2, SeqEqual
  <2>8. SubSeq(text, i + 1, Len(text)) = s
    <3>1. /\ SubSeq(text, i + 1, Len(text)) \in Seq(Characters)
          /\ Len(SubSeq(text, i + 1, Len(text))) = Len(s)
      BY <1>1, <1>2, <1>4, <2>1, <2>5
    <3>2. \A j \in 1..Len(s) : SubSeq(text, i + 1, Len(text))[j] = s[j]
      BY <1>1, <1>2, <1>4, <2>1, <2>5
    <3> QED
      BY <3>1, <3>2, SeqEqual
  <2> QED
    BY <2>6, <2>7, <2>8 DEF decodeCredentials, i
<1> QED
  BY <1>3, <1>4 DEF joined

(* The answer to a request is "issued" for the configured key and secret   *)
(* and nothing else.                                                       *)
LEMMA GrantIsForConfigured ==
  ASSUME TypeOK, \A k \in Keys : Colons(k) = {}, NEW header \in Header
  PROVE  GrantOf(header) = "issued" <=>
           /\ header.form = "encoded"
           /\ header.text = key \o << ":" >> \o secret
<1>1. CASE header.form = "encoded"
  <2>1. /\ header.text \in Seq(Characters)
        /\ key \in Seq(Characters) /\ key # << >> /\ Colons(key) = {}
        /\ secret \in Seq(Characters) /\ secret # << >>
    <3>1. header.text \in Texts
      BY <1>1 DEF Header
    <3>2. key \in Keys /\ secret \in Secrets
      BY DEF TypeOK
    <3>3. Texts \cup Keys \cup Secrets \subseteq Seq(Characters)
      BY TokensAssumption
    <3>4. << >> \notin Keys \cup Secrets
      BY TokensAssumption
    <3> QED
      BY <3>1, <3>2, <3>3, <3>4
  <2>2. HasCredentials(header.text)
        /\ decodeCredentials(header.text) = << key, secret >>
          <=> header.text = key \o << ":" >> \o secret
    BY <2>1, DecodeJoined
  <2>3. GrantOf(header) = "issued" <=>
          HasCredentials(header.text)
          /\ decodeCredentials(header.text) = << key, secret >>
    BY <1>1 DEF GrantOf
  <2> QED
    BY <1>1, <2>2, <2>3
<1>2. CASE header.form # "encoded"
  <2>1. header.form \in {"no Basic", "no Base64"}
    BY <1>2 DEF Header
  <2> QED
    BY <1>2, <2>1 DEF GrantOf
<1> QED
  BY <1>1, <1>2

(* For every configuration whose keys have no colon, a token is issued to  *)
(* the configured credentials and to no others (decodeCredentials and the  *)
(* comparison of registerOAuthRoutes).                                     *)
THEOREM CredentialsDecide ==
  ASSUME \A k \in Keys : Colons(k) = {}
  PROVE  Spec => []ConfiguredCredentialsOpen
<1>1. Init => ConfiguredCredentialsOpen
  BY DEF Init, ConfiguredCredentialsOpen
<1>2. TypeOK /\ ConfiguredCredentialsOpen /\ [Next]_vars
        => ConfiguredCredentialsOpen'
  <2> SUFFICES ASSUME TypeOK, ConfiguredCredentialsOpen, [Next]_vars
               PROVE  ConfiguredCredentialsOpen'
    OBVIOUS
  <2>1. ASSUME NEW header \in Header, Generate(header)
        PROVE  ConfiguredCredentialsOpen'
    <3>1. /\ lastGrant' = [header |-> header, answer |-> GrantOf(header)]
          /\ UNCHANGED << key, secret >>
      BY <2>1 DEF Generate, configuration
    <3>2. /\ lastGrant'.header = header
          /\ lastGrant'.answer = "issued" <=>
               header.form = "encoded"
               /\ header.text = key \o << ":" >> \o secret
      BY <3>1, GrantIsForConfigured
    <3> QED
      BY <3>1, <3>2 DEF ConfiguredCredentialsOpen
  <2>2. ASSUME UNCHANGED << lastGrant, key, secret >>
        PROVE  ConfiguredCredentialsOpen'
    BY <2>2 DEF ConfiguredCredentialsOpen
  <2>3. ASSUME NEW token \in AccessTokens, Accept(token) \/ Refuse(token)
        PROVE  ConfiguredCredentialsOpen'
    BY <2>2, <2>3 DEF Accept, Refuse, configuration
  <2>4. CASE RefuseUnnamed
    BY <2>2, <2>4 DEF RefuseUnnamed, configuration
  <2>5. CASE Tick
    BY <2>2, <2>5 DEF Tick, configuration
  <2>6. ASSUME NEW t \in Clock, SetClock(t)
        PROVE  ConfiguredCredentialsOpen'
    BY <2>2, <2>6 DEF SetClock, configuration
  <2>7. CASE Restart
    BY <2>7 DEF Restart, ConfiguredCredentialsOpen
  <2>8. CASE UNCHANGED vars
    BY <2>2, <2>8 DEF vars
  <2> QED
    BY <2>1, <2>3, <2>4, <2>5, <2>6, <2>7, <2>8 DEF Next
<1> QED
  BY TokensTyped, <1>1, <1>2, PTL DEF Spec

===============================================================================
