---------------------------- MODULE MessageStream ----------------------------
(***************************************************************************)
(* The way of a message from the server to a client: its payload is made   *)
(* (the server's protocol.h), its packet travels as PacketStream says, and *)
(* the client parses the payload (its processPacket and protocol.h).       *)
(***************************************************************************)
EXTENDS PacketStream

CONSTANT Messages   \* the messages used: a command and what Payloads parses

\* The commands by the payload they carry.
StringCommands == {2, 3, 13, 14}   \* LoginOk, SystemMessage, DownloadEnd, Error
ChatCommands == {4}                \* ChatMessage, from the server
ListCommands == {5, 6}             \* UserList, FileList
FileCommands == {11}               \* FileDownloadBegin
DataCommands == {12}               \* FileDownloadChunk: the payload itself

Commands ==
    StringCommands \cup ChatCommands \cup ListCommands \cup FileCommands \cup DataCommands

MakePayload(body) ==
    CASE body.is = "string" -> StringBytes(body.text)
      [] body.is = "chat" -> ChatBytes(body.sender, body.message)
      [] body.is = "list" -> ListBytes(body.items)
      [] body.is = "file" -> FileBeginBytes(body.name, body.size)
      [] body.is = "data" -> body.bytes

ParsePayload(cmd, b) ==
    CASE cmd \in StringCommands -> ParseString(b)
      [] cmd \in ChatCommands -> ParseChat(b)
      [] cmd \in ListCommands -> ParseList(b)
      [] cmd \in FileCommands -> ParseFileBegin(b)
      [] cmd \in DataCommands -> [is |-> "data", bytes |-> b]

\* The messages there are.
AnyMessage ==
    [cmd : StringCommands, body : [is : {"string"}, text : Text]]
    \cup [cmd : ChatCommands, body : [is : {"chat"}, sender : Text, message : Text]]
    \cup [cmd : ListCommands,
          body : [is : {"list"}, items : {items \in Seq(Text) : Len(items) \in DWord}]]
    \cup [cmd : FileCommands, body : [is : {"file"}, name : Text, size : QWord]]
    \cup [cmd : DataCommands, body : [is : {"data"}, bytes : Seq(Byte)]]

Made(m) == [cmd |-> m.cmd, payload |-> MakePayload(m.body)]
Understood(p) == [cmd |-> p.cmd, body |-> ParsePayload(p.cmd, p.payload)]

\* The packets are of these commands, and the messages in them are among Messages.
ASSUME MessageAssumption ==
    /\ Messages \subseteq AnyMessage
    /\ \A p \in Packets :
        /\ p.cmd \in Commands
        /\ Understood(p).body # Invalid => Understood(p) \in Messages

\* The message a packet was made from; a packet made from none says nothing.
Meant ==
    [p \in Packets |->
        IF \E m \in Messages : Made(m) = p
        THEN CHOOSE m \in Messages : Made(m) = p
        ELSE [cmd |-> p.cmd, body |-> Invalid]]

\* The client understands what the server meant: each message once, in order,
\* in the end all of them, and of a payload that no message has, that it is
\* none.
Conversation ==
    INSTANCE PacketChannel WITH
        Packets <- Range(Meant),
        sent <- [i \in DOMAIN sent |-> Meant[sent[i]]],
        delivered <- [i \in DOMAIN delivered |-> Understood(delivered[i])]

ConversationSpec == Conversation!ChannelSpec

=============================================================================
