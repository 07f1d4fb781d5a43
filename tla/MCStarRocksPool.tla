-------------------------- MODULE MCStarRocksPool --------------------------
(* StarRocksPool on a small instance: three rotations, and pools of two    *)
(* for three requests, so that one of them may have to wait.               *)
EXTENDS StarRocksPool
=============================================================================
