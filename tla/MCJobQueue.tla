----------------------------- MODULE MCJobQueue -----------------------------
(* Finite instances of the job queue and its recurring jobs for TLC. *)
EXTENDS Cron

CONSTANTS r1, r2

\* Every process has the worker, as every process has the entry.
Workers == [r \in Runners |-> Jobs]

\* One job is tried again when it fails.
Tries == [j \in Jobs |-> IF j = 1 THEN 2 ELSE 1]
=============================================================================
