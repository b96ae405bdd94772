------------------------- MODULE MCCommanderFailover -------------------------
(* CommanderFailover with the timings of the code: ticks of five seconds.  *)
EXTENDS CommanderFailover

CONSTANTS central, backup, none

MCTimeout == 2      \* 10 s
MCLeaseTTL == 3     \* 15 s
MCMaxWait == 2      \* 10 s
=============================================================================
