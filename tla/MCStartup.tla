----------------------------- MODULE MCStartup ------------------------------
(* Two images for TLC: the old container has one migration, the new has two. *)
EXTENDS Startup

CONSTANTS old, new

MCFiles == [p \in Proc |-> IF p = old THEN 1 ELSE 2]

=============================================================================
