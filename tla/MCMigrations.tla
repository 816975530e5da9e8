---------------------------- MODULE MCMigrations ----------------------------
(* Migrations over three documents, two texts and two extractions, which is *)
(* what a group of duplicates needs to collide within itself.               *)
EXTENDS Migrations

CONSTANTS e1, e2, brief, long, anthropic, openai, default, high
=============================================================================
