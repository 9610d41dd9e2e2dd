---------------------------- MODULE MCReplyRing -----------------------------
(* ReplyRing with three cells.                                             *)
EXTENDS ReplyRing
=============================================================================
