--------------------------- MODULE MCPetTransport ---------------------------
(***************************************************************************)
(* A few calls on two workspaces, over processes whose request ids run out *)
(* after four.                                                             *)
(***************************************************************************)
EXTENDS PetTransport
=============================================================================
