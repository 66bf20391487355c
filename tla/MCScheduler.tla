----------------------------- MODULE MCScheduler -----------------------------
(***************************************************************************)
(* Scheduler on a small box: one client, a few services.                   *)
(***************************************************************************)
EXTENDS Scheduler, TLC

CONSTANTS app, db, r1

\* Whom the client calls.
OneDb == r1 :> db
OneApp == r1 :> app
===============================================================================
