------------------------------- MODULE Payloads -------------------------------
(***************************************************************************)
(* What the payloads of the packets say (Server/protocol.h): strings,      *)
(* chats, lists and the begin of a file, as bytes and back.  A character   *)
(* is a byte.                                                              *)
(*                                                                         *)
(* A reader of a payload walks over it with an offset.  Here it is a state *)
(* [ok, at, value]: whether all went well so far, the offset, and what was *)
(* read last.                                                              *)
(***************************************************************************)
EXTENDS Integers, Sequences

-----------------------------------------------------------------------------
(* Numbers, the lowest byte first.                                          *)

Byte == 0..255
Word == {n \in Nat : n < 65536}
DWord == {n \in Nat : n \div 65536 \in Word}
QWord == {n \in Nat : (n \div 65536) \div 65536 \in DWord}

\* appendWord, appendDWord, appendQWord: the bytes of v.
WordBytes(v) == <<v % 256, (v \div 256) % 256>>
DWordBytes(v) ==
    <<v % 256, (v \div 256) % 256,
      (v \div 65536) % 256, ((v \div 65536) \div 256) % 256>>
QWordBytes(v) == DWordBytes(v) \o DWordBytes((v \div 65536) \div 65536)

\* readWord, readDWord, readQWord: the number after the first at bytes of b.
WordAt(b, at) == b[at + 1] + 256 * b[at + 2]
DWordAt(b, at) == WordAt(b, at) + 65536 * WordAt(b, at + 2)
QWordAt(b, at) == DWordAt(b, at) + 65536 * (65536 * DWordAt(b, at + 4))

-----------------------------------------------------------------------------
(* Making payloads.                                                         *)

\* What appendString takes: the length field holds the length.
Text == {text \in Seq(Byte) : Len(text) \in DWord}

\* appendString and makeStringPayload.
StringBytes(text) == DWordBytes(Len(text)) \o text

ChatBytes(sender, message) == StringBytes(sender) \o StringBytes(message)

\* The payload after each turn of the loop over the items.
ListMade(items) ==
    LET made[i \in 0..Len(items)] ==
            IF i = 0 THEN DWordBytes(Len(items))
            ELSE made[i - 1] \o StringBytes(items[i])
    IN  made

ListBytes(items) == ListMade(items)[Len(items)]

FileBeginBytes(name, size) == StringBytes(name) \o QWordBytes(size)

-----------------------------------------------------------------------------
(* Parsing payloads.                                                        *)

Start == [ok |-> TRUE, at |-> 0, value |-> <<>>]
Failed == [ok |-> FALSE, at |-> 0, value |-> <<>>]

\* Mutant of ReadString: the bytes of the string are taken as they come.
ReadStringUnchecked(b, r) ==
    IF ~r.ok \/ r.at + 4 > Len(b) THEN Failed
    ELSE LET end == r.at + 4 + DWordAt(b, r.at)
         IN  [ok |-> TRUE, at |-> IF end < Len(b) THEN end ELSE Len(b),
              value |-> SubSeq(b, r.at + 5, end)]

\* readString, after the reads that led to r.
ReadString(b, r) ==
    IF ~r.ok \/ r.at + 4 > Len(b) THEN Failed
    ELSE LET end == r.at + 4 + DWordAt(b, r.at)
         IN  IF end > Len(b) THEN Failed
             ELSE [ok |-> TRUE, at |-> end, value |-> SubSeq(b, r.at + 5, end)]

Invalid == [is |-> "invalid"]

\* Mutant of Exactly: bytes that are left over do not matter.
AtLeast(b, r, message) == IF r.ok THEN message ELSE Invalid

\* A payload is parsed if its last read ended where it ends.
Exactly(b, r, message) == IF r.ok /\ r.at = Len(b) THEN message ELSE Invalid

ParseString(b) ==
    LET text == ReadString(b, Start)
    IN  Exactly(b, text, [is |-> "string", text |-> text.value])

ParseChat(b) ==
    LET sender == ReadString(b, Start)
        message == ReadString(b, sender)
    IN  Exactly(b, message, [is |-> "chat", sender |-> sender.value,
                             message |-> message.value])

\* The offset and the item after each turn of the loop that reads count items.
ListRead(b, count) ==
    LET read[i \in 0..count] ==
            IF i = 0 THEN [ok |-> TRUE, at |-> 4, value |-> <<>>]
            ELSE ReadString(b, read[i - 1])
    IN  read

ParseList(b) ==
    LET count == DWordAt(b, 0)
        read == ListRead(b, count)
    IN  IF Len(b) < 4 THEN Invalid
        ELSE Exactly(b, read[count],
                     [is |-> "list", items |-> [i \in 1..count |-> read[i].value]])

ParseFileBegin(b) ==
    LET name == ReadString(b, Start)
        end == name.at + 8
    IN  IF ~name.ok \/ end > Len(b) THEN Invalid
        ELSE Exactly(b, [name EXCEPT !.at = end],
                     [is |-> "file", name |-> name.value,
                      size |-> QWordAt(b, name.at)])

=============================================================================
