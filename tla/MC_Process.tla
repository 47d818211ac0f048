----------------------------- MODULE MC_Process -----------------------------
(* A process with the smallest pool it can live with.  Two timers are pending  *)
(* at most, and one is remembered: three handles are enough.                   *)
EXTENDS Process, TLC
=============================================================================
