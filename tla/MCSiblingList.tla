--------------------------- MODULE MCSiblingList ---------------------------
(* Threads that insert into the list of one low node. *)
EXTENDS SiblingList
=============================================================================
