--------------------------- MODULE MCPathMigration ---------------------------
(* The TLC instance of PathMigration. *)
EXTENDS PathMigration
=============================================================================
