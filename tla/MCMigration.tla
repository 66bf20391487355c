------------------------------ MODULE MCMigration ------------------------------
(***************************************************************************)
(* Migration on branches with up to two of the three stores, each with     *)
(* one write to come (two for a /data that starts out empty).              *)
(***************************************************************************)
EXTENDS Migration, FiniteSets

UpToTwo == {s \in SUBSET Arm : Cardinality(s) <= 2}
===============================================================================
