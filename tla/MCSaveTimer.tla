----------------------------- MODULE MCSaveTimer -----------------------------
(***************************************************************************)
(* An instance of SaveTimer for TLC, in seconds: MaxSleep is the 30 of the *)
(* code, one set has the shortest period that pvSave_CreatePvSet accepts,  *)
(* one is due between wake-ups and one less often than MaxSleep.           *)
(***************************************************************************)
EXTENDS SaveTimer, TLC

MCPeriod == (0 :> 10) @@ (1 :> 15) @@ (2 :> 45)

=============================================================================
