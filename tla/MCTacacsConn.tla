---------------------------- MODULE MCTacacsConn ----------------------------
(***************************************************************************)
(* Small instances of TacacsConn: two session ids, so that sessions run     *)
(* side by side and an id is used again, and three session objects, so that *)
(* the object before, the one after and a bystander are at work at once.    *)
(***************************************************************************)
EXTENDS TacacsConn
=============================================================================
