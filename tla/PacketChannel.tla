---------------------------- MODULE PacketChannel ----------------------------
(***************************************************************************)
(* What the wire protocol (Server/protocol.h) promises its users: packets  *)
(* put in at one end come out at the other, each once, whole, in the order *)
(* they were sent, and none is held back.                                  *)
(***************************************************************************)
EXTENDS Naturals, Sequences

CONSTANTS
    Packets,     \* the packets there are
    MaxPackets   \* bound: how many are sent

VARIABLES
    sent,        \* the packets sent so far
    delivered    \* the packets handed to the receiver so far

channelVars == <<sent, delivered>>

ChannelInit == sent = <<>> /\ delivered = <<>>

Put(p) ==
    /\ Len(sent) < MaxPackets
    /\ sent' = Append(sent, p)
    /\ UNCHANGED delivered

Deliver ==
    /\ Len(delivered) < Len(sent)
    /\ delivered' = Append(delivered, sent[Len(delivered) + 1])
    /\ UNCHANGED sent

ChannelNext == (\E p \in Packets : Put(p)) \/ Deliver

ChannelSpec ==
    /\ ChannelInit
    /\ [][ChannelNext]_channelVars
    /\ WF_channelVars(Deliver)

=============================================================================
