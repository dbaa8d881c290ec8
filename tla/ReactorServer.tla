---------------------------- MODULE ReactorServer ----------------------------
(***************************************************************************)
(* The chat server on the reactor (Server_Reactor/chatserver.cpp): the     *)
(* sessions of ChatServer, under the descriptors and callbacks of Reactor. *)
(* A packet is a login, a chat, or one that leaves names and chats alone.  *)
(*                                                                         *)
(* The server has one thread, and sendPacket repeats a send for as long as *)
(* the send buffer of a client is full.  A callback is one step here that  *)
(* waits until there is room for all that it sends; the sends one by one   *)
(* are LoopServer's subject.                                               *)
(*                                                                         *)
(* Uploads are not modelled: at this commit handleUploadChunk declares     *)
(* `error' twice, and the file does not compile.  There are no files,      *)
(* then, and the server implements ChatServer over an empty directory.     *)
(***************************************************************************)
EXTENDS Reactor

CONSTANTS
    Users,    \* the names people log in under
    NoUser,   \* the empty std::string
    SendCap   \* how many callbacks' packets the send buffer of a connection holds

ASSUME UsersAssumption ==
    /\ NoUser \notin Users
    /\ SendCap \in Nat \ {0}

VARIABLES
    username,   \* ClientSession::username, by descriptor
    userList,   \* the last CmdUserList sent to each descriptor
    heard,      \* the senders of the chats sent to each descriptor
    outbox      \* what the send buffer of each connection holds

chatVars == <<username, userList, heard>>
serverVars == <<vars, chatVars, outbox>>

ServerInit ==
    /\ Init
    /\ username = [f \in Fds |-> NoUser]
    /\ userList = [f \in Fds |-> {}]
    /\ heard = [f \in Fds |-> <<>>]
    /\ outbox = [c \in Conns |-> 0]

-----------------------------------------------------------------------------
(* Packets to sessions.                                                     *)

\* Mutant of Room: any error of send is taken for EAGAIN.
RoomIfThere(c) == peer[c] = "open" /\ outbox[c] < SendCap

\* sendPacket on connection c comes to an end: its send buffer has room, or
\* the client is gone, which is an error that ends the loop.
Room(c) == peer[c] = "closed" \/ outbox[c] < SendCap

\* sendPacket to each of the connections in cs.
Sends(cs) ==
    /\ \A c \in cs : Room(c)
    /\ outbox' = [c \in Conns |->
                    IF c \in cs /\ peer[c] = "open" THEN outbox[c] + 1
                    ELSE outbox[c]]

\* The connections of the sessions in s.
ConnsOf(s) == {conn[f] : f \in s}

\* broadcastPacket: every descriptor in m_clients is sent x.
ToAll(view, x) == [f \in Fds |-> IF f \in sessions THEN x ELSE view[f]]

\* The users of sendUserList.
UsersOf(s, names) == {names[f] : f \in s} \ {NoUser}

-----------------------------------------------------------------------------
(* The callbacks, with what they do to the sessions.                        *)

\* handleNewConnections: m_clients gets a session without a name, which is
\* greeted.
Accept ==
    /\ AcceptOne
    /\ username' = [f \in Fds |-> IF f \in sessions THEN username[f] ELSE NoUser]
    /\ Sends({Head(backlog)})
    /\ UNCHANGED <<userList, heard>>

\* Mutant of Forget: the session stays behind.
Keep(f) ==
    /\ UNCHANGED username
    /\ heard' = [heard EXCEPT ![f] = <<>>]
    /\ userList' = [userList EXCEPT ![f] = {}]

\* The end of closeClient(f): the session is erased, and the others are sent
\* the user list if it had a name.
Forget(f) ==
    /\ username' = [username EXCEPT ![f] = NoUser]
    /\ heard' = [heard EXCEPT ![f] = <<>>]
    /\ userList' =
        LET erased == [userList EXCEPT ![f] = {}] IN
        IF username[f] = NoUser THEN erased
        ELSE [g \in Fds |->
                IF g \in sessions \ {f} THEN UsersOf(sessions \ {f}, username)
                ELSE erased[g]]

\* ... and sends it.
Tell(f) == Sends(IF username[f] = NoUser THEN {} ELSE ConnsOf(sessions \ {f}))

CloseOnError(v) == ClientError(v) /\ Forget(v.fd) /\ Tell(v.fd)
CloseAtEnd == ReadEnd /\ Forget(cur) /\ Tell(cur)

\* handleLogin; a session that has a name is renamed.
HandleLogin(u) ==
    /\ TakePacket
    /\ \A f \in sessions \ {cur} : username[f] # u
    /\ username' = [username EXCEPT ![cur] = u]
    /\ userList' = ToAll(userList, UsersOf(sessions, username'))
    /\ Sends(ConnsOf(sessions))
    /\ UNCHANGED heard

\* handleChatMessage.
HandleChatMessage ==
    /\ TakePacket
    /\ username[cur] # NoUser
    /\ heard' = [f \in Fds |-> IF f \in sessions THEN Append(heard[f], username[cur])
                               ELSE heard[f]]
    /\ Sends(ConnsOf(sessions))
    /\ UNCHANGED <<username, userList>>

\* Packets that are refused, and requests for files, of which there are none:
\* an error to the sender.
HandleOther ==
    /\ TakePacket
    /\ Sends({conn[cur]})
    /\ UNCHANGED chatVars

-----------------------------------------------------------------------------

Callback ==
    \/ Accept \/ CloseAtEnd
    \/ \E v \in batch : CloseOnError(v)
    \/ \E u \in Users : HandleLogin(u)
    \/ HandleChatMessage \/ HandleOther

\* What the dispatch does besides.
Dispatch ==
    /\ \/ Wait \/ Again \/ AcceptFails \/ AcceptsDone \/ ReadAgain
       \/ \E v \in batch : Skip(v) \/ AcceptReady(v) \/ ClientReadable(v)
    /\ UNCHANGED <<chatVars, outbox>>

\* The clients.  What a client has not read when it closes is dropped.
ClientCalls ==
    /\ \E c \in Conns :
        \/ (Connect(c) \/ Send(c)) /\ UNCHANGED outbox
        \/ Close(c) /\ outbox' = [outbox EXCEPT ![c] = 0]
    /\ UNCHANGED chatVars

Read(c) ==
    /\ outbox[c] > 0
    /\ outbox' = [outbox EXCEPT ![c] = @ - 1]
    /\ UNCHANGED <<vars, chatVars>>

ServerNext == Callback \/ Dispatch \/ ClientCalls \/ \E c \in Conns : Read(c)

\* The thread of event_loop runs, and every client reads what it is sent.  The
\* second is no promise of the code: a client that stays and does not read
\* keeps the thread in sendPacket.
Fairness ==
    /\ WF_serverVars(Callback \/ Dispatch)
    /\ \A c \in Conns : WF_serverVars(Read(c))

ServerSpec == ServerInit /\ [][ServerNext]_serverVars /\ Fairness

-----------------------------------------------------------------------------
(* Properties.                                                              *)

\* Through the reactor's tables, with descriptors that are reused and sessions
\* no event may reach, the server is still the chat server: each callback is
\* one step of ChatServer on the session of its descriptor, or none.
Chat ==
    INSTANCE ChatServer WITH
        Clients <- Fds, Names <- {}, Dirs <- {}, NoName <- None, Hole <- ListenFd,
        MaxSize <- 0, MaxChunks <- 0, DiskErrors <- FALSE, ChatCounts <- Nat,
        files <- {}, content <- <<>>, sound <- {}, finished <- {},
        abandoned <- {}, interrupted <- {},
        upload <- [f \in Fds |->
            [open |-> FALSE, fileName |-> None, fileSize |-> 0,
             receivedSize |-> 0, written |-> 0, buffered |-> 0,
             linked |-> FALSE, bad |-> FALSE]],
        running <- TRUE, connected <- sessions,
        fileList <- [f \in Fds |-> {}],
        download <- [name |-> None, size |-> 0, data |-> <<>>, ended |-> FALSE,
                     reads |-> FALSE]

ChatSpec == Chat!Spec

\* If all clients read, a connection that its client closes is closed by the
\* server, too, unless registering it failed: such a session stays for ever,
\* and its descriptor with it, which nobody checks.
EveryCloseNoticed ==
    \A c \in Conns :
        []<>(peer[c] = "closed" => c \in refused \/ ~\E f \in Fds : conn[f] = c)

\* If all clients read, no packet waits for ever on a connection that has a
\* descriptor, unless registering it failed, whoever leaves meanwhile.
EveryPacketTaken ==
    \A c \in Conns :
        []<>(unread[c] = 0 \/ c \in refused \cup Range(backlog))

=============================================================================
