----------------------------- MODULE LoopServer -----------------------------
(***************************************************************************)
(* The default server as a whole, call by call: the event loop of          *)
(* EventLoop, with what its packets do to the sessions of ChatServer.      *)
(* ChatServer takes a handler, with all it broadcasts, for one step; here  *)
(* each send is a step, and clients come, go and stop reading in between.  *)
(*                                                                         *)
(* A packet is a login, a chat, or one that is refused.  A handler's       *)
(* packets to single sessions and its system messages, which change no     *)
(* list, are left out.                                                     *)
(***************************************************************************)
EXTENDS EventLoop

CONSTANTS
    Users,    \* the names people log in under
    NoUser    \* the empty std::string

ASSUME UsersAssumption == NoUser \notin Users

VARIABLES
    username,   \* ClientSession::username, by descriptor
    news,       \* what the running broadcast sends
    userList,   \* the last user list sent to each descriptor
    heard       \* the senders of the chats sent to each descriptor

chatVars == <<username, news, userList, heard>>
loopVars == <<vars, chatVars>>

\* A broadcast is of a user list or of a chat, or of nothing that matters here.
Lists(users) == [list |-> users]
Says(u) == [chat |-> u]
Nothing == [nothing |-> TRUE]

LoopInit ==
    /\ Init
    /\ username = [f \in Fds |-> NoUser]
    /\ news = Nothing
    /\ userList = [f \in Fds |-> {}]
    /\ heard = [f \in Fds |-> <<>>]

\* The users of sendUserList.
UsersOf(s, names) == {names[f] : f \in s} \ {NoUser}

-----------------------------------------------------------------------------
(* Broadcasts.                                                              *)

\* What the descriptors in s have been sent once they are sent the news.
ListsWith(s) ==
    [f \in Fds |-> IF f \in s /\ "list" \in DOMAIN news THEN news.list
                   ELSE userList[f]]
HeardWith(s) ==
    [f \in Fds |-> IF f \in s /\ "chat" \in DOMAIN news
                   THEN Append(heard[f], news.chat) ELSE heard[f]]

\* One send of the broadcast, that arrives or is lost with its client.
SendNews ==
    /\ SendTaken \/ SendLost
    /\ userList' = ListsWith({Head(todo)})
    /\ heard' = HeardWith({Head(todo)})
    /\ UNCHANGED <<username, news>>

-----------------------------------------------------------------------------
(* Sessions.                                                                *)

\* A fresh session, that is greeted.
Accept ==
    /\ AcceptOne
    /\ username' = [f \in Fds |-> IF f \in sessions THEN username[f] ELSE NoUser]
    /\ news' = Nothing
    /\ UNCHANGED <<userList, heard>>

\* closeClient(f) erases the session; the others are sent the user list if it
\* had a name, and nothing otherwise.
Forget(f) ==
    /\ Range(todo') = IF username[f] = NoUser THEN {} ELSE sessions'
    /\ news' = Lists(UsersOf(sessions', username))
    /\ username' = [username EXCEPT ![f] = NoUser]
    /\ userList' = [userList EXCEPT ![f] = {}]
    /\ heard' = [heard EXCEPT ![f] = <<>>]

CloseAtHangup == TakeEvent /\ cur' \in sessions \ sessions' /\ Forget(cur')
CloseAtEnd == RecvEnd /\ Forget(cur)

\* handleLogin; a session that has a name is renamed.
HandleLogin(u) ==
    /\ HandlePacket
    /\ \A f \in sessions \ {cur} : username[f] # u
    /\ Range(todo') = sessions
    /\ username' = [username EXCEPT ![cur] = u]
    /\ news' = Lists(UsersOf(sessions, username'))
    /\ UNCHANGED <<userList, heard>>

\* handleChatMessage.
HandleChatMessage ==
    /\ HandlePacket
    /\ username[cur] # NoUser
    /\ Range(todo') = sessions
    /\ news' = Says(username[cur])
    /\ UNCHANGED <<username, userList, heard>>

\* A packet that is refused.
Refuse ==
    /\ HandlePacket
    /\ Range(todo') = {cur}
    /\ news' = Nothing
    /\ UNCHANGED <<username, userList, heard>>

-----------------------------------------------------------------------------

\* The steps that neither change a session nor send.
Goes ==
    /\ \/ EpollWait \/ BatchDone \/ AcceptFails \/ AcceptsDone
       \/ Recv \/ RecvAgain \/ ParseDone \/ SendsDone
       \/ TakeEvent /\ sessions' = sessions
       \/ \E c \in Conns : Connect(c) \/ Send(c) \/ Read(c) \/ Shut(c)
    /\ UNCHANGED chatVars

LoopNext ==
    \/ Goes \/ SendNews \/ Accept \/ CloseAtHangup \/ CloseAtEnd
    \/ \E u \in Users : HandleLogin(u)
    \/ HandleChatMessage \/ Refuse

LoopSpec == LoopInit /\ [][LoopNext]_loopVars

-----------------------------------------------------------------------------
(* Properties.                                                              *)

\* The loop implements ChatServer: although a broadcast is one send after
\* another, to clients that come and go meanwhile, each handler is as good as
\* one step, in which all sessions are sent what the handler has to say.
Chat ==
    INSTANCE ChatServer WITH
        Clients <- Fds, Names <- {}, Dirs <- {}, NoName <- NoConn, Hole <- ListenFd,
        MaxSize <- 0, MaxChunks <- 0, DiskErrors <- FALSE,
        ChatCounts <- Nat,
        files <- {}, content <- <<>>, sound <- {}, finished <- {},
        abandoned <- {}, interrupted <- {},
        upload <- [f \in Fds |->
            [open |-> FALSE, fileName |-> NoConn, fileSize |-> 0,
             receivedSize |-> 0, written |-> 0, buffered |-> 0,
             linked |-> FALSE, bad |-> FALSE]],
        running <- TRUE, connected <- sessions,
        userList <- ListsWith(Range(todo)), heard <- HeardWith(Range(todo)),
        fileList <- [f \in Fds |-> {}],
        download <- [name |-> NoConn, size |-> 0, data |-> <<>>,
                     ended |-> FALSE, reads |-> FALSE]

ChatSpec == Chat!Spec

=============================================================================
