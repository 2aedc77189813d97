---------------------------- MODULE MCMigrations ----------------------------
(* Migrations for TLC: the revisions are what they are, so nothing is bounded. *)
EXTENDS Migrations
=============================================================================
