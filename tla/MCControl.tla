------------------------------ MODULE MCControl ------------------------------
(***************************************************************************)
(* Three servers, so that one can run while two others get in its way.     *)
(***************************************************************************)
EXTENDS Control
=============================================================================
