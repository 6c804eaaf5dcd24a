---------------------------- MODULE MCLeaseQueue ----------------------------
(* A small instance of LeaseQueue for TLC.                                 *)
EXTENDS LeaseQueue

CONSTANTS w1, w2, t1

TwoWorkers == {w1, w2}
OneTask == {t1}
=============================================================================
