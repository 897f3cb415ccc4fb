--------------------------- MODULE MCConfiguration ---------------------------
(***************************************************************************)
(* The texts a start is checked with: numerals at both ends of the ranges, *)
(* one that overflows the range of ports, hosts with spaces and of spaces. *)
(***************************************************************************)
EXTENDS Configuration, TLC

MCNumerals ==
  "" :> 0 @@ "0" :> 0 @@ "1" :> 1 @@ "3599" :> 3599 @@ "5000" :> 5000
    @@ "8080" :> 8080 @@ "65535" :> 65535 @@ "65536" :> 65536

MCTrimmed == " " :> "" @@ " localhost " :> "localhost"

===============================================================================
