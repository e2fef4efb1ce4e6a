----------------------------- MODULE MCContainers -----------------------------
(* Small objects for TLC. *)
EXTENDS Containers
=============================================================================
