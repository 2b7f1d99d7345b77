---------------------------- MODULE MCMigrations ----------------------------
(* The revisions are the instance: nothing is left to bound. *)
EXTENDS Migrations
=============================================================================
