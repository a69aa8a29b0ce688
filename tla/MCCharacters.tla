----------------------------- MODULE MCCharacters -----------------------------
(* Characters for TLC: the servers have one world, as instances 1, 2 and 4  *)
(* of SQL/breakingpointmod.sql have.                                        *)
EXTENDS Characters
SameWorld == [s \in Server |-> "Altis"]
=============================================================================
