----------------------------- MODULE MCElection -----------------------------
(* A small instance of Election for TLC. With a cutoff of 2 the processes  *)
(* get numbers below, at and beyond it.                                    *)
EXTENDS Election

CONSTANTS p1, p2, p3, p4
FourProcesses == {p1, p2, p3, p4}
=============================================================================
