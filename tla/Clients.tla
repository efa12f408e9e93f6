------------------------------ MODULE Clients -------------------------------
(* The clients to serve: the vertices of the instance but for the depot. *)
CONSTANT Client
=============================================================================
