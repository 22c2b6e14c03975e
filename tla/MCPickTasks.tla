---------------------------- MODULE MCPickTasks ----------------------------
(* PickTasks on a small instance for TLC.                                  *)
EXTENDS PickTasks

=============================================================================
