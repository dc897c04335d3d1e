---------------------------- MODULE MCFeedControl ----------------------------
(* A small instance of FeedControl for TLC.                                 *)
EXTENDS FeedControl

CONSTANTS u1, u2, a1, a2, k1, c1
=============================================================================
