----------------------------- MODULE Configuration -----------------------------
(***************************************************************************)
(* `daraja-local start`: options, environment variables and defaults are   *)
(* merged twice, by the command line and by loadConfig, validated once,    *)
(* and the server listens on what startServer makes of them.               *)
(***************************************************************************)
EXTENDS Integers

CONSTANTS
  HostTexts,      \* hosts that are given as an option or in the environment
  PortTexts,      \* ports that are given so
  DurationTexts,  \* token lifetimes and callback timeouts
  SecretTexts,    \* consumer keys and secrets
  Numerals,       \* what the texts that are integers read as
  Trimmed         \* what the texts with spaces at their ends are without them

(* An option or variable that is not given. *)
Undefined == "undefined"

(* One that is given and empty. *)
Empty == ""

(* Undefined is no text, and the defaults are not empty. *)
ASSUME TextsAssumption ==
  /\ Undefined \notin HostTexts \cup PortTexts \cup DurationTexts \cup SecretTexts
  /\ Empty \notin {"127.0.0.1", "consumer_key", "consumer_secret"}

(* Number("") is 0, and the defaults read as the numbers they are. *)
ASSUME NumeralsAssumption ==
  /\ Numerals \in [DOMAIN Numerals -> Int]
  /\ {Empty, "8080", "3599", "5000"} \subseteq DOMAIN Numerals
  /\ Numerals[Empty] = 0
  /\ Numerals["8080"] = 8080
  /\ Numerals["3599"] = 3599
  /\ Numerals["5000"] = 5000

(* What is trimmed has no spaces left to trim, and the default has none. *)
ASSUME TrimmedAssumption ==
  /\ \A text \in DOMAIN Trimmed : Trimmed[text] \notin DOMAIN Trimmed
  /\ {Empty, "127.0.0.1"} \cap DOMAIN Trimmed = {}

(* Numbers as the schemas tell them apart: NaN and fractions are no        *)
(* integers.                                                               *)
Number == [isInteger : BOOLEAN, value : Int]

Integer(n) == [isInteger |-> TRUE, value |-> n]

NoInteger == [isInteger |-> FALSE, value |-> 0]

(* Number(text); a text that is no numeral reads as NaN or as a fraction.  *)
NumberOf(text) ==
  IF text \in DOMAIN Numerals THEN Integer(Numerals[text]) ELSE NoInteger

(* zod's trim(). *)
Trim(text) == IF text \in DOMAIN Trimmed THEN Trimmed[text] ELSE text

Environment ==
  [host : HostTexts \cup {Undefined}, port : PortTexts \cup {Undefined},
   tokenExpiresIn : DurationTexts \cup {Undefined},
   callbackTimeout : DurationTexts \cup {Undefined},
   consumerKey : SecretTexts \cup {Undefined},
   consumerSecret : SecretTexts \cup {Undefined}]

Arguments ==
  [host : HostTexts \cup {Undefined}, port : PortTexts \cup {Undefined}]

VARIABLES
  env,       \* the environment variables
  args,      \* --host and --port
  stage,     \* how far the start has come
  options,   \* what the command line makes of args and env
  config,    \* what loadConfig returned
  address    \* the host and port app.listen is called with

vars == << env, args, stage, options, config, address >>

NotYet == [host |-> Undefined, port |-> NoInteger]

MaxPort == 65535

(* What the rest of the program takes for granted of its configuration. *)
IsUsable(c) ==
  /\ c.host # Empty /\ Trim(c.host) = c.host
  /\ c.port.isInteger /\ c.port.value \in 1..MaxPort
  /\ c.tokenExpiresInSeconds.isInteger /\ c.tokenExpiresInSeconds.value > 0
  /\ c.callbackTimeoutMs.isInteger /\ c.callbackTimeoutMs.value > 0
  /\ Empty \notin {c.consumerKey, c.consumerSecret}

TypeOK ==
  /\ env \in Environment
  /\ args \in Arguments
  /\ stage \in {"start", "parsed", "loaded", "binding", "listening", "failed"}
  /\ options = NotYet \/ options.port \in Number
  /\ stage \in {"loaded", "binding", "listening"} => IsUsable(config)

Init ==
  /\ env \in Environment
  /\ args \in Arguments
  /\ stage = "start"
  /\ options = NotYet
  /\ config = NotYet
  /\ address = NotYet

-------------------------------------------------------------------------------
(* Mutant of Or: `||` instead of `??`. *)
OrIfEmpty(a, b) == IF a \in {Undefined, Empty} THEN b ELSE a

(* a ?? b *)
Or(a, b) == IF a = Undefined THEN b ELSE a

(* Commander takes an option's default, the environment variable or a      *)
(* literal, when the option is not given.                                  *)
ParseArguments ==
  /\ stage = "start"
  /\ options' = [host |-> Or(args.host, Or(env.host, "127.0.0.1")),
                 port |-> NumberOf(Or(args.port, Or(env.port, "8080")))]
  /\ stage' = "parsed"
  /\ UNCHANGED << env, args, config, address >>

(* loadConfig: the overrides the command line gives are always defined,    *)
(* the other settings come from the environment.                           *)
Merged ==
  [host                  |-> options.host,
   port                  |-> options.port,
   tokenExpiresInSeconds |-> NumberOf(Or(env.tokenExpiresIn, "3599")),
   callbackTimeoutMs     |-> NumberOf(Or(env.callbackTimeout, "5000")),
   consumerKey           |-> Or(env.consumerKey, "consumer_key"),
   consumerSecret        |-> Or(env.consumerSecret, "consumer_secret")]

(* Mutant of IsPositive: zero is let through. *)
IsNatural(n) == n.isInteger /\ n.value >= 0

IsPositive(n) == n.isInteger /\ n.value > 0

(* appConfigSchema. *)
IsValid(c) ==
  /\ Trim(c.host) # Empty
  /\ IsPositive(c.port) /\ c.port.value <= MaxPort
  /\ IsPositive(c.tokenExpiresInSeconds)
  /\ IsPositive(c.callbackTimeoutMs)
  /\ c.consumerKey # Empty
  /\ c.consumerSecret # Empty

LoadConfig ==
  /\ stage = "parsed"
  /\ IsValid(Merged)
  /\ config' = [Merged EXCEPT !.host = Trim(@)]
  /\ stage' = "loaded"
  /\ UNCHANGED << env, args, options, address >>

RefuseConfig ==
  /\ stage = "parsed"
  /\ ~ IsValid(Merged)
  /\ stage' = "failed"
  /\ UNCHANGED << env, args, options, config, address >>

(* app.listen, with the options first and the validated values second.     *)
Listen ==
  /\ stage = "loaded"
  /\ address' = [host |-> Or(options.host, config.host), port |-> options.port]
  /\ stage' = "binding"
  /\ UNCHANGED << env, args, options, config >>

(* app.listen resolves, or rejects: the port is taken, or the host is not  *)
(* one of this machine's.                                                  *)
EndListen(result) ==
  /\ stage = "binding"
  /\ stage' = result
  /\ UNCHANGED << env, args, options, config, address >>

Next ==
  \/ ParseArguments
  \/ LoadConfig
  \/ RefuseConfig
  \/ Listen
  \/ \E result \in {"listening", "failed"} : EndListen(result)

Spec == Init /\ [][Next]_vars

-------------------------------------------------------------------------------
(* The value of a setting: its first source that was given at all. *)
Given(first, second, default) ==
  IF first # Undefined THEN first
  ELSE IF second # Undefined THEN second ELSE default

(* A server listens with the settings it was given, an empty variable      *)
(* included, and with a host as it was written, spaces and all: what       *)
(* cannot be used is an error, never replaced by a default nobody notices. *)
NoSilentDefault ==
  address # NotYet =>
    /\ address.port = NumberOf(Given(args.port, env.port, "8080"))
    /\ address.host = Given(args.host, env.host, "127.0.0.1")
    /\ config.tokenExpiresInSeconds =
         NumberOf(Given(env.tokenExpiresIn, Undefined, "3599"))
    /\ config.callbackTimeoutMs =
         NumberOf(Given(env.callbackTimeout, Undefined, "5000"))
    /\ config.consumerKey = Given(env.consumerKey, Undefined, "consumer_key")
    /\ config.consumerSecret =
         Given(env.consumerSecret, Undefined, "consumer_secret")

===============================================================================
