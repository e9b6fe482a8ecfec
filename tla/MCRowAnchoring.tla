---------------------------- MODULE MCRowAnchoring ----------------------------
(* Small instances of RowAnchoring. *)
EXTENDS RowAnchoring

CONSTANTS v1, w1, scheduler
=============================================================================
