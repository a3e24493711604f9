--------------------------- MODULE MCServiceProcess ---------------------------
(***************************************************************************)
(* A small process: one job of the subscriber, one of the poller.          *)
(***************************************************************************)
EXTENDS ServiceProcess, TLC

CONSTANTS s, p, sent, attempts

\* Every key belongs to the one counter.
OneName == [k \in Key |-> attempts]

=============================================================================
