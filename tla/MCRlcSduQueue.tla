--------------------------- MODULE MCRlcSduQueue ---------------------------
(***************************************************************************)
(* The SDU queue for TLC.                                                  *)
(***************************************************************************)
EXTENDS RlcSduQueue
=============================================================================
