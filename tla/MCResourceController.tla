------------------------ MODULE MCResourceController ------------------------
(* A small instance of ResourceController for TLC. *)
EXTENDS ResourceController

CONSTANTS o1, o2, absent, red

=============================================================================
