----------------------------- MODULE MCPackets -----------------------------
(* A small instance of Packets for TLC.                                     *)
EXTENDS Packets, PacketSamples
=============================================================================
