----------------------------- MODULE PacketStream -----------------------------
(***************************************************************************)
(* One direction of a connection, byte by byte: Packet::serialize at one   *)
(* end, a socket that hands over any part of what was sent, and at the     *)
(* other end the receive loop that both programs have around               *)
(* Packet::tryParse (Server/protocol.h, Server/chatserver.cpp,             *)
(* Client/mainwindow.cpp).                                                 *)
(*                                                                         *)
(* With Damage a byte of a packet's head, payload or checksum may arrive   *)
(* changed, which is what the search for a head and the checksum are for.  *)
(***************************************************************************)
EXTENDS Payloads, SequencesExt

CONSTANTS
    Packets,      \* the packets used
    MaxPackets,   \* bound: the packets that are sent
    Pieces,       \* bound: how many bytes recv may return, if not all
    Damage        \* whether a byte may arrive changed

\* What a packet may be: a command word and a payload.
AnyPacket == [cmd : Word, payload : Seq(Byte)]

\* Payloads are below 2 GiB, so that the length field holds their lengths.
MaxPayload == 2147483640

ASSUME StreamAssumption ==
    /\ Packets \subseteq AnyPacket
    /\ \A p \in Packets : Len(p.payload) <= MaxPayload
    /\ MaxPackets \in Nat
    /\ Pieces \subseteq Nat \ {0}
    /\ Damage \in BOOLEAN

-----------------------------------------------------------------------------
(* The layout of a packet.                                                  *)

kPacketHead == 65279

HeadBytes == WordBytes(kPacketHead)

\* Mutant of Checksum: the last byte is left out.
ChecksumWithoutLast(payload) ==
    IF payload = <<>> THEN 0 ELSE FoldLeft(+, 0, Front(payload)) % 65536

\* The sum after each turn of the loop over the bytes: a Word, it wraps around.
Sums(payload) ==
    LET sum[i \in 0..Len(payload)] ==
            IF i = 0 THEN 0 ELSE (sum[i - 1] + payload[i]) % 65536
    IN  sum

Checksum(payload) == Sums(payload)[Len(payload)]

\* Length counts the command, the payload and the checksum.
Serialize(p) ==
    HeadBytes \o DWordBytes(Len(p.payload) + 4) \o WordBytes(p.cmd)
        \o p.payload \o WordBytes(Checksum(p.payload))

-----------------------------------------------------------------------------
(* tryParse.                                                                *)

\* Where the search for a packet head may stop: at a head, or at the last
\* byte, as it may be the half of one.
Stops(b) ==
    {pos \in 0..Len(b) : pos + 1 < Len(b) => WordAt(b, pos) = kPacketHead}

\* The buffer once everything before the first of these is erased.
FromHead(b) == SubSeq(b, Min(Stops(b)) + 1, Len(b))

NoPacket == [cmd |-> -1, payload |-> <<>>]

\* How many bytes the packet at the front of b takes.
Needs(b) == DWordAt(b, 2) + 6

\* What tryParse returns, and the buffer it leaves.
Parsed(rest, p) == [rest |-> rest, packet |-> p]

\* The rest of tryParse, for a buffer that begins with a packet head.
ParseAtHead(b) ==
    LET payload == SubSeq(b, 9, Needs(b) - 2)
        rest == SubSeq(b, Needs(b) + 1, Len(b))
    IN  IF Len(b) < 10 THEN Parsed(b, NoPacket)
        ELSE IF DWordAt(b, 2) < 4
        THEN Parsed(SubSeq(b, 3, Len(b)), NoPacket)
        ELSE IF Len(b) < Needs(b) THEN Parsed(b, NoPacket)
        ELSE IF Checksum(payload) # WordAt(b, Needs(b) - 2)
        THEN Parsed(rest, NoPacket)
        ELSE Parsed(rest, [cmd |-> WordAt(b, 6), payload |-> payload])

TryParse(b) == ParseAtHead(FromHead(b))

-----------------------------------------------------------------------------

VARIABLES
    sent,       \* the packets sent, in order
    intact,     \* history: those of them that arrive as they were sent
    wire,       \* the bytes on the way
    buffer,     \* the receiver's buffer
    parsing,    \* whether the receiver is in its loop around tryParse
    delivered   \* the packets handled by the receiver, in order

vars == <<sent, intact, wire, buffer, parsing, delivered>>

TypeOK ==
    /\ sent \in Seq(Packets)
    /\ intact \in Seq(Packets)
    /\ wire \in Seq(Byte)
    /\ buffer \in Seq(Byte)
    /\ parsing \in BOOLEAN
    /\ delivered \in Seq(AnyPacket)

Init ==
    /\ sent = <<>>
    /\ intact = <<>>
    /\ wire = <<>>
    /\ buffer = <<>>
    /\ parsing = FALSE
    /\ delivered = <<>>

\* sendPacket writes the bytes of one packet.
SendPacket(p) ==
    /\ Len(sent) < MaxPackets
    /\ sent' = Append(sent, p)
    /\ intact' = Append(intact, p)
    /\ wire' = wire \o Serialize(p)
    /\ UNCHANGED <<buffer, parsing, delivered>>

\* The same, and a byte of the packet, but none of its length or command,
\* arrives as another one.
SendHarmed(p) ==
    /\ Damage
    /\ Len(sent) < MaxPackets
    /\ sent' = Append(sent, p)
    /\ \E i \in {1, 2} \cup 9..Len(Serialize(p)) :
        wire' = wire \o [Serialize(p) EXCEPT ![i] = (@ + 1) % 256]
    /\ UNCHANGED <<intact, buffer, parsing, delivered>>

\* recv or readAll returns a part of what there is, or all, and it is appended.
Receive ==
    /\ ~parsing
    /\ wire # <<>>
    /\ \E k \in {k \in Pieces : k < Len(wire)} \cup {Len(wire)} :
        /\ buffer' = buffer \o SubSeq(wire, 1, k)
        /\ wire' = SubSeq(wire, k + 1, Len(wire))
    /\ parsing' = TRUE
    /\ UNCHANGED <<sent, intact, delivered>>

\* Mutant of Parse: one packet is taken for each piece received.
ParseOnce ==
    /\ parsing
    /\ \E result \in {TryParse(buffer)} :
        /\ buffer' = result.rest
        /\ delivered' = IF result.packet = NoPacket THEN delivered
                        ELSE Append(delivered, result.packet)
    /\ parsing' = FALSE
    /\ UNCHANGED <<sent, intact, wire>>

\* One turn of the loop: the packet is handled, or the loop is left.
Parse ==
    /\ parsing
    /\ \E result \in {TryParse(buffer)} :
        /\ buffer' = result.rest
        /\ \/ /\ result.packet # NoPacket
              /\ delivered' = Append(delivered, result.packet)
              /\ UNCHANGED parsing
           \/ /\ result.packet = NoPacket
              /\ parsing' = FALSE
              /\ UNCHANGED delivered
    /\ UNCHANGED <<sent, intact, wire>>

Next ==
    \/ \E p \in Packets : SendPacket(p) \/ SendHarmed(p)
    \/ Receive
    \/ Parse

\* The receiver is called as long as there are bytes to read, and its loop runs.
Fairness == WF_vars(Receive \/ Parse)

Spec == Init /\ [][Next]_vars /\ Fairness

-----------------------------------------------------------------------------
(* Properties.                                                              *)

\* Nothing in a packet looks like a packet head, but its head, not even when a
\* byte of that head is another one.
Plain(p) ==
    LET s == Serialize(p)
    IN  \A i \in 3..Len(s) :
            s[i] = HeadBytes[2] => i > 3 /\ s[i - 1] # HeadBytes[1]

\* Between two calls of the receiver, as long as nothing is harmed, its buffer
\* holds less than the next packet, and nothing behind it: no packet that has
\* come whole waits for the bytes of another one, and the bytes that were left
\* are the beginning of what is sent next.
NothingHeldBack ==
    ~parsing =>
        \/ Len(delivered) = Len(sent) /\ buffer = <<>>
        \/ /\ Len(delivered) < Len(sent)
           /\ IsStrictPrefix(buffer, Serialize(sent[Len(delivered) + 1]))

\* Harm is noticed, and costs no more than the packet harmed: what is handled
\* is a prefix of the packets that arrive as they were sent.
OnlyIntact == IsPrefix(delivered, intact)

=============================================================================
