---------------------------- MODULE MCImageLease ----------------------------
(* ImageLease with three calls: an owner, the call that takes over from it *)
(* and a bystander whose late commands hit either of them.  The liveness   *)
(* properties rule out symmetry reduction.                                 *)
EXTENDS ImageLease

CONSTANTS c1, c2, c3

MCAttempts == {c1, c2, c3}
=============================================================================
