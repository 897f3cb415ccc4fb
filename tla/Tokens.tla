-------------------------------- MODULE Tokens --------------------------------
(***************************************************************************)
(* AccessTokenService, the OAuth route that issues tokens and the          *)
(* onRequest hook that demands them on every /mpesa/ request.  All three   *)
(* run without an await, so each request is one step; what interleaves     *)
(* with them is the clock, which may be set, and restarts, which lose the  *)
(* Map of tokens.                                                          *)
(***************************************************************************)
EXTENDS Integers, Sequences, Functions

CONSTANTS
  AccessTokens,           \* the tokens that can be drawn
  Characters,             \* what texts are made of
  Texts,                  \* decoded credentials, keys and secrets
  Keys,                   \* consumer keys that can be configured
  Secrets,                \* consumer secrets that can be configured
  TokenExpiresInSeconds,
  MsPerSecond,            \* 1000 in the code
  MaxTime                 \* bound: the milliseconds a behaviour lasts

ASSUME TokensAssumption ==
  /\ TokenExpiresInSeconds \in Nat \ {0}
  /\ MsPerSecond \in Nat \ {0}
  /\ MaxTime \in Nat
  /\ ":" \in Characters
  /\ Texts \cup Keys \cup Secrets \subseteq Seq(Characters)
  /\ << >> \notin Keys \cup Secrets
  /\ "no token" \notin AccessTokens

(* The Authorization header of a request for a token. *)
Header ==
  [form : {"no Basic", "no Base64"}, text : {<< >>}]
  \cup [form : {"encoded"}, text : Texts]

NoHeader == [form |-> "none", text |-> << >>]

NoToken == "no token"

Grant == {"none", "issued", "INVALID_AUTH_HEADER", "INVALID_AUTH_FORMAT",
          "INVALID_CREDENTIALS"}

VARIABLES
  expirations,   \* the Map from tokens to the time they expire
  now,           \* what Date.now() returns
  key, secret,   \* the configured credentials
  time,          \* the time that has really passed
  steady,        \* whether the clock was never set
  issuedAt,      \* when, in real time, each token of this run was drawn
  dead,          \* the tokens once refused, or issued before a restart
  lastGrant,     \* the last request for a token and its answer
  lastCheck      \* the last token presented to the hook and its answer

configuration == << key, secret >>

clock == << now, time, steady >>

vars == << expirations, now, key, secret, time, steady, issuedAt, dead,
           lastGrant, lastCheck >>

(* The bounds of the clock: it may be set back to before it was started.   *)
Clock == -MaxTime..(2 * MaxTime)

Lifetime == TokenExpiresInSeconds * MsPerSecond

TypeOK ==
  /\ DOMAIN expirations \subseteq DOMAIN issuedAt
  /\ expirations \in [DOMAIN expirations -> Int]
  /\ now \in Int
  /\ key \in Keys
  /\ secret \in Secrets
  /\ time \in Nat
  /\ steady \in BOOLEAN
  /\ DOMAIN issuedAt \subseteq AccessTokens
  /\ issuedAt \in [DOMAIN issuedAt -> Nat]
  /\ dead \subseteq AccessTokens
  /\ lastGrant \in [header : Header \cup {NoHeader}, answer : Grant]
  /\ lastCheck \in [token : AccessTokens \cup {NoToken}, valid : BOOLEAN,
                    at : Nat]

NoGrant == [header |-> NoHeader, answer |-> "none"]

NoCheck == [token |-> NoToken, valid |-> FALSE, at |-> 0]

EmptyMap == [t \in {} |-> 0]

Init ==
  /\ expirations = EmptyMap
  /\ now = 0
  /\ key \in Keys
  /\ secret \in Secrets
  /\ time = 0
  /\ steady = TRUE
  /\ issuedAt = EmptyMap
  /\ dead = {}
  /\ lastGrant = NoGrant
  /\ lastCheck = NoCheck

-------------------------------------------------------------------------------
Colons(text) == {i \in DOMAIN text : text[i] = ":"}

(* Mutant of Separator: the last colon is taken. *)
LastSeparator(text) == CHOOSE i \in Colons(text) : \A j \in Colons(text) : j <= i

(* decoded.indexOf(":") of a text that has a colon. *)
Separator(text) == CHOOSE i \in Colons(text) : \A j \in Colons(text) : i <= j

(* Whether decodeCredentials finds a key and a secret, neither empty. *)
HasCredentials(text) ==
  Colons(text) # {} /\ Separator(text) > 1 /\ Separator(text) < Len(text)

decodeCredentials(text) ==
  << SubSeq(text, 1, Separator(text) - 1),
     SubSeq(text, Separator(text) + 1, Len(text)) >>

(* The first of the route's checks that fails, in their order. *)
GrantOf(header) ==
  CASE header.form = "no Basic"  -> "INVALID_AUTH_HEADER"
    [] header.form = "no Base64" -> "INVALID_AUTH_FORMAT"
    [] header.form = "encoded"   ->
         IF ~ HasCredentials(header.text) THEN "INVALID_AUTH_FORMAT"
         ELSE IF decodeCredentials(header.text) # << key, secret >>
         THEN "INVALID_CREDENTIALS"
         ELSE "issued"

(* tokens.issue: randomBytes never draws a token twice, nor one that was   *)
(* made up by a client.                                                    *)
Issue(token) ==
  /\ token \notin DOMAIN issuedAt \cup dead
  /\ expirations' = [t \in DOMAIN expirations \cup {token} |->
                       IF t = token THEN now + Lifetime ELSE expirations[t]]
  /\ issuedAt' = [t \in DOMAIN issuedAt \cup {token} |->
                    IF t = token THEN time ELSE issuedAt[t]]

Generate(header) ==
  /\ IF GrantOf(header) = "issued"
     THEN \E token \in AccessTokens : Issue(token)
     ELSE UNCHANGED << expirations, issuedAt >>
  /\ lastGrant' = [header |-> header, answer |-> GrantOf(header)]
  /\ UNCHANGED << configuration, clock, dead, lastCheck >>

(* Mutant of IsValid: a token lives through the millisecond it expires at. *)
IsValidToTheEnd(token) ==
  token \in DOMAIN expirations /\ expirations[token] >= now

IsValid(token) == token \in DOMAIN expirations /\ expirations[token] > now

(* Mutant of Forget: an expired token is refused but stays in the Map. *)
ForgetNothing(token) == expirations

(* The Map without the token. *)
Forget(token) == Restrict(expirations, DOMAIN expirations \ {token})

(* A request to /mpesa/ with this Bearer token: the hook lets it through   *)
(* or answers INVALID_ACCESS_TOKEN.                                        *)
Accept(token) ==
  /\ IsValid(token)
  /\ lastCheck' = [token |-> token, valid |-> TRUE, at |-> time]
  /\ UNCHANGED << expirations, configuration, clock, issuedAt, dead, lastGrant >>

Refuse(token) ==
  /\ ~ IsValid(token)
  /\ expirations' = Forget(token)
  /\ dead' = dead \cup {token}
  /\ lastCheck' = [token |-> token, valid |-> FALSE, at |-> time]
  /\ UNCHANGED << configuration, clock, issuedAt, lastGrant >>

(* Without a Bearer header the Map is not even looked at. *)
RefuseUnnamed ==
  /\ lastCheck' = [token |-> NoToken, valid |-> FALSE, at |-> time]
  /\ UNCHANGED << expirations, configuration, clock, issuedAt, dead, lastGrant >>

Tick ==
  /\ time < MaxTime
  /\ time' = time + 1
  /\ now' = now + 1
  /\ UNCHANGED << expirations, configuration, steady, issuedAt, dead,
                  lastGrant, lastCheck >>

(* Date.now() follows the system's clock wherever it is set. *)
SetClock(t) ==
  /\ now' = t
  /\ steady' = FALSE
  /\ UNCHANGED << expirations, configuration, time, issuedAt, dead,
                  lastGrant, lastCheck >>

(* Mutant of Restart: the tokens are kept. *)
RestartWithTokens ==
  /\ key' \in Keys
  /\ secret' \in Secrets
  /\ lastGrant' = NoGrant
  /\ lastCheck' = NoCheck
  /\ dead' = dead \cup DOMAIN issuedAt
  /\ issuedAt' = EmptyMap
  /\ UNCHANGED << expirations, clock >>

(* The emulator is stopped and started, perhaps with other credentials.    *)
Restart ==
  /\ expirations' = EmptyMap
  /\ key' \in Keys
  /\ secret' \in Secrets
  /\ dead' = dead \cup DOMAIN issuedAt
  /\ issuedAt' = EmptyMap
  /\ lastGrant' = NoGrant
  /\ lastCheck' = NoCheck
  /\ UNCHANGED clock

Next ==
  \/ \E header \in Header : Generate(header)
  \/ \E token \in AccessTokens : Accept(token) \/ Refuse(token)
  \/ RefuseUnnamed
  \/ Tick
  \/ \E t \in Clock : SetClock(t)
  \/ Restart

Spec == Init /\ [][Next]_vars

-------------------------------------------------------------------------------
(* A token that was refused once is refused for ever, even when the clock  *)
(* is set back to before its expiry; and so is every token issued before a *)
(* restart.                                                                *)
DeadStaysDead == lastCheck.valid => lastCheck.token \notin dead

(* While nobody sets the clock, a token is accepted from the moment it is  *)
(* issued until exactly TokenExpiresInSeconds later, and at no other time, *)
(* however often it was presented before.                                  *)
LifetimeKept ==
  steady =>
    (lastCheck.valid <=>
       /\ lastCheck.token \in DOMAIN issuedAt
       /\ lastCheck.at < issuedAt[lastCheck.token] + Lifetime)

(* Only the configured credentials open the API, and, header and encoding  *)
(* provided, they do, also when the secret contains colons.  A key that    *)
(* contains one is out of reach: the first colon ends the key.             *)
ConfiguredCredentialsOpen ==
  lastGrant # NoGrant =>
    (lastGrant.answer = "issued" <=>
       /\ lastGrant.header.form = "encoded"
       /\ lastGrant.header.text = key \o << ":" >> \o secret)

===============================================================================
