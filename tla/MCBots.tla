------------------------------- MODULE MCBots -------------------------------
(***************************************************************************)
(* A small instance, for TLC, of the programs under bot/, and of the       *)
(* packets they exchange with the servers: the packets are one more unit.  *)
(***************************************************************************)
EXTENDS Bots, TLC

CONSTANTS b1, b2, b3, s1, s2

VARIABLES packet, sent, wire, whole, got, step
packetVars == <<packet, sent, wire, whole, got, step>>

\* bot/field/custom, bot/scenario/packets, lib/payload.
Sample == INSTANCE PacketSamples
Packet == INSTANCE Packets WITH
    Byte <- 16, Samples <- Sample!SomeSamples, kind <- packet

\* The angles along the axes, and one of 30 degrees to either side, in halves.
SomeTurns == ({24, -24} \X {0}) \union ({0} \X {24, -24})
             \union {<<21, 12>>, <<-21, -12>>}
SomeStarts == {<<-24, -24>>, <<-12, 0>>, <<0, 12>>, <<24, 6>>}

MCInit ==
    /\ unit \in Units \union {"packets"}
    /\ Begins /\ (unit # "walk" => pos = <<0, 12>>)
    /\ IF unit = "packets" THEN Packet!Init
       ELSE /\ packet = None /\ sent = None /\ wire = None /\ whole = None
            /\ got = None /\ step = None
MCNext ==
    /\ BotsNext
    /\ IF unit = "packets" THEN Packet!Next ELSE UNCHANGED packetVars
MCSpec == MCInit /\ [][MCNext]_<<botsVars, packetVars>>

Symmetry == Permutations({b1, b2})

RoundTrip == In("packets", Packet!RoundTrip)
=============================================================================
