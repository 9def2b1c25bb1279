--------------------------- MODULE MCRequestGate ----------------------------
(***************************************************************************)
(* A query and a start with a relative path, on one connection.            *)
(***************************************************************************)
EXTENDS RequestGate
=============================================================================
