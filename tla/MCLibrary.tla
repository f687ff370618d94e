----------------------------- MODULE MCLibrary -----------------------------
(* Library with two threads and two providers, one after the other. *)
EXTENDS Library
============================================================================
