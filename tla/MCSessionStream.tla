---------------------------- MODULE MCSessionStream ----------------------------
(* Instances of SessionStream for TLC. *)
EXTENDS SessionStream

CONSTANTS v1, v2

TwoViewers == {v1, v2}

(* Against marks of one and four and a ring of three: a backlog may cross   *)
(* the high-water mark by accumulation or in one chunk and land on either   *)
(* mark exactly; a chunk may be shorter than the ring, as long and longer.  *)
Lengths == {1, 2, 3, 5}
=============================================================================
