-------------------------------- MODULE MCEmbed --------------------------------
(* Two part names, one of them with an upper-case letter.                  *)
EXTENDS Embed

MCLowerName == [n \in {"Index", "style"} |-> IF n = "Index" THEN "index" ELSE n]

=============================================================================
