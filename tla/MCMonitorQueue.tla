---------------------------- MODULE MCMonitorQueue ----------------------------
(* Small instances of MonitorQueue for TLC. *)
EXTENDS MonitorQueue

CONSTANTS t1, t2, t3, v1, v2

MCThreads == {t1, t2, t3}
MCValues == {v1, v2}
===============================================================================
