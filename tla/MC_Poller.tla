----------------------------- MODULE MC_Poller ------------------------------
(* An instance of Poller for TLC: enough handles for two chains, the one     *)
(* remembered, and one to spare.                                             *)
EXTENDS Poller, TLC
=============================================================================
