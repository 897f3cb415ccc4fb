-------------------------------- MODULE MCTokens --------------------------------
(***************************************************************************)
(* Instances of Tokens for TLC: credentials of a few characters.           *)
(***************************************************************************)
EXTENDS Tokens, TLC

PlainKeys == {<< "a" >>}

(* One character stands for all but the colon. *)
SomeSecrets == {<< "a" >>, << ":", "a", ":" >>}

(* The right credentials of both configurations, and texts without a key,  *)
(* without a secret and without a colon.                                   *)
SomeTexts ==
  {<< "a", ":", "a" >>, << "a", ":", ":", "a", ":" >>,
   << "a", ":" >>, << ":", "a" >>, << "a" >>}

Symmetry == Permutations(AccessTokens)

===============================================================================
