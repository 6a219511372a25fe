----------------------------- MODULE MCCpuUsage -----------------------------
(* CpuUsage with counters of two bits. *)
EXTENDS CpuUsage
=============================================================================
