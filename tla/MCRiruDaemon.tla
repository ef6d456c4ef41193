---------------------------- MODULE MCRiruDaemon ----------------------------
(* Instances of RiruDaemon for TLC: devices with one and with two ABIs. *)
EXTENDS RiruDaemon

CONSTANTS z64, z32

OneAbi == {z64}
TwoAbis == {z64, z32}
=============================================================================
