---------------------------- MODULE MCPacketStream ----------------------------
(* A connection with a few short packets.                                   *)
EXTENDS MessageStream

\* Bytes of text: a letter and the two of a packet head.
a == <<97>>
head == <<255, 254>>

Message(cmd, body) == [cmd |-> cmd, body |-> body]

\* A message of each kind, and two chats that differ in where the sender ends;
\* a text and a chunk look like a packet head, another chunk like half of one.
Whole ==
    { Message(14, [is |-> "string", text |-> a]),
      Message(4, [is |-> "chat", sender |-> a, message |-> head]),
      Message(6, [is |-> "list", items |-> <<a, <<>>>>]),
      Message(11, [is |-> "file", name |-> a, size |-> 300]) }

ShortMessages ==
    Whole \cup
    { Message(4, [is |-> "chat", sender |-> a \o head, message |-> <<>>]),
      Message(12, [is |-> "data", bytes |-> head]),
      Message(12, [is |-> "data", bytes |-> <<255>>]) }

\* Packets with the payload cut by a byte, or with a byte too many.
Malformed ==
    {[Made(m) EXCEPT !.payload = Front(@)] : m \in Whole}
    \cup {[Made(m) EXCEPT !.payload = Append(@, 0)] : m \in Whole}

SoundAndMalformed == {Made(m) : m \in ShortMessages} \cup Malformed

\* Packets in which nothing looks like a packet head.
PlainMessages ==
    {Message(12, [is |-> "data", bytes |-> bytes]) : bytes \in {<<>>, <<255, 200>>}}
PlainPackets == {Made(m) : m \in PlainMessages}

ASSUME PlainAssumption == \A p \in PlainPackets : Plain(p)

AnyPieces == 1..36

=============================================================================
