---------------------------- MODULE MCWorkerPool ----------------------------
(***************************************************************************)
(* Small instances of WorkerPool for TLC.  Workers and connections are     *)
(* interchangeable; symmetry is used in the runs without temporal          *)
(* properties only.                                                        *)
(***************************************************************************)
EXTENDS WorkerPool, TLC

Symmetry == Permutations(Workers) \cup Permutations(Conns)
=============================================================================
