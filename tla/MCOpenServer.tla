---------------------------- MODULE MCOpenServer ----------------------------
(* Clients with user IDs of their own for OpenServer. *)
EXTENDS OpenServer

MCUid == [c \in Cli |-> c]

=============================================================================
