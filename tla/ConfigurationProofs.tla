-------------------------- MODULE ConfigurationProofs --------------------------
(***************************************************************************)
(* Proofs about Configuration, for whatever texts are given as options and *)
(* in the environment.  NoSilentDefault is about the end of the start, so  *)
(* the invariant says at every stage what the stages before it have made   *)
(* of the texts.                                                           *)
(***************************************************************************)
EXTENDS Configuration, TLAPS

(* What the command line makes of its options and the environment. *)
Parsed ==
  [host |-> Or(args.host, Or(env.host, "127.0.0.1")),
   port |-> NumberOf(Or(args.port, Or(env.port, "8080")))]

(* The stages that follow a successful loadConfig. *)
IsLoaded == stage \in {"loaded", "binding", "listening"}

ConfigurationInv ==
  /\ TypeOK
  /\ stage = "start" => options = NotYet
  /\ stage # "start" => options = Parsed
  /\ stage \in {"start", "parsed"} => address = NotYet
  /\ IsLoaded => IsValid(Merged) /\ config = [Merged EXCEPT !.host = Trim(@)]
  /\ stage = "loaded" => address = NotYet
  /\ address # NotYet =>
       /\ address = Parsed
       /\ config = [Merged EXCEPT !.host = Trim(@)]

-------------------------------------------------------------------------------
(* Trimming a second time changes nothing. *)
LEMMA TrimIsDone == \A text : Trim(Trim(text)) = Trim(text)
BY TrimmedAssumption DEF Trim

LEMMA NumbersAreNumbers ==
  ASSUME NEW text
  PROVE  NumberOf(text) \in Number
<1>1. CASE text \in DOMAIN Numerals
  <2>1. Numerals[text] \in Int
    BY <1>1, NumeralsAssumption
  <2> QED
    BY <1>1, <2>1 DEF NumberOf, Number, Integer
<1>2. CASE text \notin DOMAIN Numerals
  BY <1>2 DEF NumberOf, Number, NoInteger
<1> QED
  BY <1>1, <1>2

(* Or takes the first source that was given. *)
LEMMA OrIsGiven == \A a, b, c : Or(a, Or(b, c)) = Given(a, b, c)
BY DEF Or, Given

LEMMA OrAlone == \A a, c : Or(a, c) = Given(a, Undefined, c)
BY DEF Or, Given

(* What loadConfig returns can be used. *)
LEMMA LoadedIsUsable ==
  ASSUME options = Parsed, IsValid(Merged)
  PROVE  IsUsable([Merged EXCEPT !.host = Trim(@)])
<1> DEFINE c == [Merged EXCEPT !.host = Trim(@)]
<1>1. /\ c.host = Trim(Merged.host)
      /\ c.port = Merged.port
      /\ c.tokenExpiresInSeconds = Merged.tokenExpiresInSeconds
      /\ c.callbackTimeoutMs = Merged.callbackTimeoutMs
      /\ c.consumerKey = Merged.consumerKey
      /\ c.consumerSecret = Merged.consumerSecret
  BY DEF Merged
<1>2. Merged.port \in Number
  BY NumbersAreNumbers DEF Merged, Parsed
<1> HIDE DEF c
<1>3. /\ IsPositive(c.port) /\ c.port.value <= MaxPort
      /\ IsPositive(c.tokenExpiresInSeconds)
      /\ IsPositive(c.callbackTimeoutMs)
      /\ c.host # Empty /\ c.consumerKey # Empty /\ c.consumerSecret # Empty
  BY <1>1 DEF IsValid
<1>4. c.port.value \in 1..MaxPort
  <2>1. c.port.value \in Int
    BY <1>1, <1>2 DEF Number
  <2>2. MaxPort \in Int
    BY DEF MaxPort
  <2> QED
    BY <1>3, <2>1, <2>2 DEF IsPositive
<1>5. Trim(c.host) = c.host
  BY <1>1, TrimIsDone
<1>6. IsUsable(c)
  BY <1>3, <1>4, <1>5 DEF IsUsable, IsPositive
<1> QED
  BY <1>6 DEF c

(* The defaults are given where nothing else is, so the host parsed is a   *)
(* text, and app.listen is called with what was parsed.                    *)
LEMMA ParsedIsGiven ==
  /\ Parsed # NotYet
  /\ Or(Parsed.host, config.host) = Parsed.host
<1>1. Parsed.host # Undefined
  BY DEF Parsed, Or, Undefined
<1> QED
  BY <1>1 DEF NotYet, Or

-------------------------------------------------------------------------------
LEMMA ParseKeeps ==
  ASSUME ConfigurationInv, ParseArguments
  PROVE  ConfigurationInv'
<1>1. /\ stage = "start" /\ stage' = "parsed"
      /\ options' = Parsed
      /\ env' = env /\ args' = args
      /\ config' = config /\ address' = address
  BY DEF ParseArguments, Parsed
<1>2. Parsed.port \in Number /\ Parsed' = Parsed
  BY <1>1, NumbersAreNumbers DEF Parsed
<1> QED
  BY <1>1, <1>2 DEF ConfigurationInv, TypeOK, IsLoaded

LEMMA LoadKeeps ==
  ASSUME ConfigurationInv, LoadConfig
  PROVE  ConfigurationInv'
<1>1. /\ stage = "parsed" /\ stage' = "loaded"
      /\ IsValid(Merged)
      /\ config' = [Merged EXCEPT !.host = Trim(@)]
      /\ env' = env /\ args' = args
      /\ options' = options /\ address' = address
  BY DEF LoadConfig
<1>2. Parsed' = Parsed /\ Merged' = Merged
  BY <1>1 DEF Parsed, Merged
<1>3. IsUsable(config')
  BY <1>1, LoadedIsUsable DEF ConfigurationInv
<1> QED
  BY <1>1, <1>2, <1>3 DEF ConfigurationInv, TypeOK, IsLoaded

LEMMA RefuseKeeps ==
  ASSUME ConfigurationInv, RefuseConfig
  PROVE  ConfigurationInv'
<1>1. /\ stage = "parsed" /\ stage' = "failed"
      /\ env' = env /\ args' = args /\ config' = config
      /\ options' = options /\ address' = address
  BY DEF RefuseConfig
<1>2. Parsed' = Parsed
  BY <1>1 DEF Parsed
<1> QED
  BY <1>1, <1>2 DEF ConfigurationInv, TypeOK, IsLoaded

LEMMA ListenKeeps ==
  ASSUME ConfigurationInv, Listen
  PROVE  ConfigurationInv'
<1>1. /\ stage = "loaded" /\ stage' = "binding"
      /\ address' = [host |-> Or(options.host, config.host),
                     port |-> options.port]
      /\ env' = env /\ args' = args /\ config' = config
      /\ options' = options
  BY DEF Listen
<1>2. Parsed' = Parsed /\ Merged' = Merged
  BY <1>1 DEF Parsed, Merged
<1>3. address' = Parsed
  <2>1. options = Parsed
    BY <1>1 DEF ConfigurationInv
  <2>2. Parsed = [host |-> Parsed.host, port |-> Parsed.port]
    BY DEF Parsed
  <2> QED
    BY <1>1, <2>1, <2>2, ParsedIsGiven
<1> QED
  BY <1>1, <1>2, <1>3 DEF ConfigurationInv, TypeOK, IsLoaded

LEMMA EndKeeps ==
  ASSUME ConfigurationInv, NEW result \in {"listening", "failed"},
         EndListen(result)
  PROVE  ConfigurationInv'
<1>1. /\ stage = "binding" /\ stage' \in {"listening", "failed"}
      /\ env' = env /\ args' = args /\ config' = config
      /\ options' = options /\ address' = address
  BY DEF EndListen
<1>2. Parsed' = Parsed /\ Merged' = Merged
  BY <1>1 DEF Parsed, Merged
<1> QED
  BY <1>1, <1>2 DEF ConfigurationInv, TypeOK, IsLoaded

(* The invariant holds throughout. *)
THEOREM ConfigurationInvariant == Spec => []ConfigurationInv
<1>1. Init => ConfigurationInv
  BY DEF Init, ConfigurationInv, TypeOK, IsLoaded
<1>2. ConfigurationInv /\ [Next]_vars => ConfigurationInv'
  <2>1. ASSUME ConfigurationInv, UNCHANGED vars PROVE ConfigurationInv'
    <3>1. Parsed' = Parsed /\ Merged' = Merged
      BY <2>1 DEF Parsed, Merged, vars
    <3> QED
      BY <2>1, <3>1 DEF ConfigurationInv, TypeOK, IsLoaded, vars
  <2> QED
    BY <2>1, ParseKeeps, LoadKeeps, RefuseKeeps, ListenKeeps, EndKeeps DEF Next
<1> QED
  BY <1>1, <1>2, PTL DEF Spec

(* A server that listens has a configuration the rest of it can use: a     *)
(* host, a port of the range, lifetimes and timeouts that are not zero.    *)
THEOREM ConfigurationTyped == Spec => []TypeOK
BY ConfigurationInvariant, PTL DEF ConfigurationInv

(* The settings of a server that listens are those that were given, the    *)
(* option before the variable before the default; an empty one is not      *)
(* replaced by a default.                                                  *)
THEOREM NoDefaultIsSilent == Spec => []NoSilentDefault
<1>1. ASSUME ConfigurationInv PROVE NoSilentDefault
  <2> SUFFICES ASSUME address # NotYet
               PROVE  NoSilentDefault
    BY DEF NoSilentDefault
  <2>1. /\ address = Parsed
        /\ config = [Merged EXCEPT !.host = Trim(@)]
    BY <1>1 DEF ConfigurationInv
  <2>2. /\ address.port = NumberOf(Given(args.port, env.port, "8080"))
        /\ address.host = Given(args.host, env.host, "127.0.0.1")
    BY <2>1, OrIsGiven DEF Parsed
  <2>3. /\ config.tokenExpiresInSeconds = Merged.tokenExpiresInSeconds
        /\ config.callbackTimeoutMs = Merged.callbackTimeoutMs
        /\ config.consumerKey = Merged.consumerKey
        /\ config.consumerSecret = Merged.consumerSecret
    BY <2>1 DEF Merged
  <2>4. /\ config.tokenExpiresInSeconds =
             NumberOf(Given(env.tokenExpiresIn, Undefined, "3599"))
        /\ config.callbackTimeoutMs =
             NumberOf(Given(env.callbackTimeout, Undefined, "5000"))
        /\ config.consumerKey =
             Given(env.consumerKey, Undefined, "consumer_key")
        /\ config.consumerSecret =
             Given(env.consumerSecret, Undefined, "consumer_secret")
    BY <2>3, OrAlone DEF Merged
  <2> QED
    BY <2>2, <2>4 DEF NoSilentDefault
<1> QED
  BY <1>1, ConfigurationInvariant, PTL

(* Nothing is given. *)
AllDefault ==
  /\ args.host = Undefined /\ args.port = Undefined
  /\ env.host = Undefined /\ env.port = Undefined
  /\ env.tokenExpiresIn = Undefined /\ env.callbackTimeout = Undefined
  /\ env.consumerKey = Undefined /\ env.consumerSecret = Undefined

(* loadConfig accepts its own defaults: a start with nothing configured is *)
(* never refused.                                                          *)
DefaultsAreValid == AllDefault /\ stage = "parsed" => IsValid(Merged)

THEOREM DefaultsAccepted == Spec => []DefaultsAreValid
<1>1. ASSUME ConfigurationInv, AllDefault, stage = "parsed"
      PROVE  IsValid(Merged)
  <2>1. /\ Merged.host = "127.0.0.1"
        /\ Merged.port = NumberOf("8080")
        /\ Merged.tokenExpiresInSeconds = NumberOf("3599")
        /\ Merged.callbackTimeoutMs = NumberOf("5000")
        /\ Merged.consumerKey = "consumer_key"
        /\ Merged.consumerSecret = "consumer_secret"
    BY <1>1 DEF ConfigurationInv, Parsed, Merged, AllDefault, Or
  <2>2. /\ NumberOf("8080") = Integer(8080)
        /\ NumberOf("3599") = Integer(3599)
        /\ NumberOf("5000") = Integer(5000)
    BY NumeralsAssumption DEF NumberOf
  <2>3. IsPositive(Integer(8080)) /\ Integer(8080).value <= MaxPort
    BY DEF IsPositive, Integer, MaxPort
  <2>4. IsPositive(Integer(3599)) /\ IsPositive(Integer(5000))
    BY DEF IsPositive, Integer
  <2>5. Trim("127.0.0.1") # Empty
    BY TextsAssumption, TrimmedAssumption DEF Trim
  <2> QED
    BY <2>1, <2>2, <2>3, <2>4, <2>5, TextsAssumption DEF IsValid
<1>2. ConfigurationInv => DefaultsAreValid
  BY <1>1 DEF DefaultsAreValid
<1> QED
  BY <1>2, ConfigurationInvariant, PTL

===============================================================================
