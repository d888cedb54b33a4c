---------------------------- MODULE MCJobService ----------------------------
(* Two clients and two workers, as model values. *)
EXTENDS JobService

CONSTANTS c1, c2, w1, w2

MCClients == {c1, c2}
MCWorkers == {w1, w2}
=============================================================================
