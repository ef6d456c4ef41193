---------------------------- MODULE MCRirudServer ----------------------------
(* Instances of RirudServer for TLC: a 64 bit and a 32 bit zygote. *)
EXTENDS RirudServer

CONSTANTS z64, z32

TwoAbis == {z64, z32}
=============================================================================
