--------------------------- MODULE MCConversions ---------------------------
(***************************************************************************)
(* Conversions for TLC: widths of 1 to 4 bits.                             *)
(***************************************************************************)
EXTENDS Conversions

ScaledSizes == [w \in Widths |-> CASE w = 8 -> 2 [] w = 16 -> 4 [] w = 32 -> 8 [] w = 64 -> 16]

=============================================================================
