--------------------------- MODULE MCBootSession ---------------------------
(* One image of every kind in the menu; see BootSession.cfg for the bounds. *)
EXTENDS BootSession

MCKinds == AllKinds
=============================================================================
