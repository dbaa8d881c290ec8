---------------------------- MODULE ReactorProofs ----------------------------
(***************************************************************************)
(* Proofs about the reactor server, for any number of connections,         *)
(* descriptors, events and packets: no table of the reactor ever leads to  *)
(* a handler that is gone, and what the callbacks do to the sessions is    *)
(* what ChatServer does.                                                   *)
(***************************************************************************)
EXTENDS ReactorServer, TLAPS

\* What HandlersAlive needs to be inductive: the kernel's set and the
\* demultiplexer's table agree, so that an entry is never left behind for the
\* next connection on its descriptor, and the handler that reads is alive.
TablesAgree ==
    /\ armed = {f \in Fds : demux[f] # None}
    /\ pc = "read" => cur \in Fds /\ owned[cur] # None
    /\ \A c \in Conns : unread[c] <= sends

IInv == ReactorInv /\ TablesAgree

\* Descriptors and tables are what the step leaves, in what follows.
LEMMA FdsAreNumbers == Fds \subseteq Nat /\ ListenFd \notin Fds
BY DEF Fds, ListenFd

\* Init: there is nothing in any table.
LEMMA InitTables == Init => IInv
BY ReactorAssumption, FdsAreNumbers
   DEF Init, IInv, ReactorInv, TypeOK, HandlersAlive, SessionsReached, TablesAgree,
       NoEntries, Event, ReactorAssumption

\* closeClient takes a descriptor out of every table at once.
LEMMA CloseClientKeeps ==
    ASSUME IInv, NEW f \in Fds, CloseClient(f), peer' = peer, sends' = sends,
           backlog' = backlog, refused' = refused, batch' \subseteq batch,
           pc' = "walk", cur' \in Fds \cup {ListenFd}
    PROVE  IInv'
<1>1. TypeOK'
  <2>1. 0 \in 0..MaxSends
    BY ReactorAssumption DEF ReactorAssumption
  <2>2. unread' \in [Conns -> 0..MaxSends]
    BY <2>1 DEF IInv, ReactorInv, TypeOK, CloseClient
  <2> QED
    BY <2>2 DEF IInv, ReactorInv, TypeOK, CloseClient, Remove
<1>2. HandlersAlive'
  BY DEF IInv, ReactorInv, TypeOK, HandlersAlive, CloseClient, Remove
<1>3. TablesAgree'
  BY DEF IInv, ReactorInv, TypeOK, TablesAgree, CloseClient, Remove
<1>4. SessionsReached'
  BY DEF IInv, ReactorInv, TypeOK, SessionsReached, CloseClient, Remove
<1> QED
  BY <1>1, <1>2, <1>3, <1>4 DEF IInv, ReactorInv

\* An accepted connection takes a descriptor that no table knows.
LEMMA AcceptOneKeeps ==
    ASSUME IInv, AcceptOne
    PROVE  IInv'
<1>1. Head(backlog) \in Conns /\ Head(backlog) # None /\ Tail(backlog) \in Seq(Conns)
  BY ReactorAssumption DEF IInv, ReactorInv, TypeOK, AcceptOne, ReactorAssumption
<1>2. PICK f \in Fds :
        /\ conn[f] = None
        /\ conn' = [conn EXCEPT ![f] = Head(backlog)]
        /\ reactor' = [reactor EXCEPT ![f] = Head(backlog)]
        /\ Regist(f, Head(backlog))
        /\ owned' = [owned EXCEPT ![f] = Head(backlog)]
        /\ sessions' = sessions \cup {f}
  BY DEF AcceptOne, FreeFds
<1>3. demux[f] = None /\ f \notin armed
  BY <1>2 DEF IInv, ReactorInv, HandlersAlive, TablesAgree
<1>4. \/ /\ demux' = [demux EXCEPT ![f] = Head(backlog)]
         /\ armed' = armed \cup {f}
         /\ refused' = refused
      \/ /\ UNCHANGED <<demux, armed>>
         /\ refused' = refused \cup {Head(backlog)}
  BY <1>2, <1>3 DEF Regist, CanRegist
<1>5. TypeOK'
  <2>1. /\ demux' \in [Fds -> Conns \cup {None}]
        /\ armed' \subseteq Fds
        /\ refused' \subseteq Conns
    BY <1>1, <1>4 DEF IInv, ReactorInv, TypeOK
  <2> QED
    BY <1>1, <1>2, <2>1 DEF IInv, ReactorInv, TypeOK, AcceptOne, netVars
<1>6. HandlersAlive'
  BY <1>1, <1>2, <1>3, <1>4 DEF IInv, ReactorInv, TypeOK, HandlersAlive
<1>7. TablesAgree'
  BY <1>1, <1>2, <1>3, <1>4 DEF IInv, ReactorInv, TypeOK, TablesAgree, AcceptOne, netVars
<1>8. SessionsReached'
  <2>1. \A g \in Fds : conn'[g] = IF g = f THEN Head(backlog) ELSE conn[g]
    BY <1>2 DEF IInv, ReactorInv, TypeOK
  <2>2. SessionsReached /\ sessions \subseteq Fds
    BY DEF IInv, ReactorInv, TypeOK
  <2>3. CASE demux' = [demux EXCEPT ![f] = Head(backlog)] /\ armed' = armed \cup {f}
             /\ refused' = refused
    BY <1>2, <2>1, <2>2, <2>3 DEF IInv, ReactorInv, TypeOK, SessionsReached
  <2>4. CASE UNCHANGED <<demux, armed>> /\ refused' = refused \cup {Head(backlog)}
    BY <1>2, <2>1, <2>2, <2>4 DEF SessionsReached
  <2> QED
    BY <1>4, <2>3, <2>4
<1> QED
  BY <1>5, <1>6, <1>7, <1>8 DEF IInv, ReactorInv

\* The steps that leave the tables alone.
LEMMA TablesUntouched ==
    ASSUME IInv, UNCHANGED <<tableVars, refused>>, TypeOK',
           \/ pc' = "read" => cur' \in Fds /\ demux[cur'] # None
           \/ UNCHANGED <<pc, cur>>,
           \A c \in Conns : unread'[c] <= sends'
    PROVE  IInv'
BY DEF IInv, ReactorInv, TypeOK, HandlersAlive, SessionsReached, TablesAgree,
       tableVars

\* Every step preserves the invariant.
LEMMA StepKeeps == IInv /\ [Next]_vars => IInv'
<1> SUFFICES ASSUME IInv, [Next]_vars PROVE IInv'
  OBVIOUS
<1> USE ReactorAssumption, FdsAreNumbers DEF ReactorAssumption
<1>1. CASE Wait
  <2>1. TypeOK'
    BY <1>1 DEF Wait, IInv, ReactorInv, TypeOK, Event, ReadyFds, netVars, tableVars
  <2> QED
    BY <1>1, <2>1, TablesUntouched
       DEF Wait, IInv, TablesAgree, netVars, tableVars
<1>2. CASE Again
  <2>1. TypeOK'
    BY <1>2 DEF Again, IInv, ReactorInv, TypeOK, netVars, tableVars
  <2> QED
    BY <1>2, <2>1, TablesUntouched DEF Again, IInv, TablesAgree, netVars, tableVars
<1>3. CASE AcceptOne
  BY <1>3, AcceptOneKeeps
<1>4. CASE AcceptFails
  <2>1. TypeOK'
    BY <1>4 DEF AcceptFails, IInv, ReactorInv, TypeOK, tableVars
  <2>2. \A c \in Conns : unread'[c] <= sends'
    BY <1>4 DEF AcceptFails, IInv, ReactorInv, TypeOK, TablesAgree
  <2> QED
    BY <1>4, <2>1, <2>2, TablesUntouched DEF AcceptFails, tableVars
<1>5. CASE AcceptsDone
  <2>1. TypeOK'
    BY <1>5 DEF AcceptsDone, IInv, ReactorInv, TypeOK, netVars, tableVars
  <2> QED
    BY <1>5, <2>1, TablesUntouched DEF AcceptsDone, IInv, TablesAgree, netVars, tableVars
<1>6. CASE TakePacket
  <2>1. \A c \in Conns : unread[c] \in 0..MaxSends /\ sends \in 0..MaxSends
    BY DEF IInv, ReactorInv, TypeOK
  <2>2. PICK c \in Conns : c = conn[cur]
    BY <1>6 DEF TakePacket, IInv, ReactorInv, TypeOK, HandlersAlive, TablesAgree
  <2>3. /\ unread \in [Conns -> 0..MaxSends]
        /\ unread' = [unread EXCEPT ![c] = @ - 1]
        /\ unread[c] > 0
    BY <1>6, <2>2 DEF TakePacket, IInv, ReactorInv, TypeOK
  <2>4. unread[c] - 1 \in 0..MaxSends
    BY <2>1, <2>3
  <2>5. unread' \in [Conns -> 0..MaxSends] /\ \A d \in Conns : unread'[d] <= unread[d]
    BY <2>1, <2>3, <2>4
  <2>6. TypeOK'
    BY <1>6, <2>5 DEF TakePacket, IInv, ReactorInv, TypeOK, tableVars
  <2>7. \A d \in Conns : unread'[d] <= sends'
    BY <1>6, <2>1, <2>5 DEF TakePacket, IInv, TablesAgree
  <2> QED
    BY <1>6, <2>6, <2>7, TablesUntouched DEF TakePacket, tableVars
<1>7. CASE ReadEnd
  BY <1>7, CloseClientKeeps DEF ReadEnd, IInv, TablesAgree
<1>8. CASE ReadAgain
  <2>1. TypeOK'
    BY <1>8 DEF ReadAgain, IInv, ReactorInv, TypeOK, netVars, tableVars
  <2> QED
    BY <1>8, <2>1, TablesUntouched DEF ReadAgain, IInv, TablesAgree, netVars, tableVars
<1>9. ASSUME NEW v \in batch, Skip(v) \/ AcceptReady(v)
      PROVE  IInv'
  <2>1. TypeOK'
    BY <1>9 DEF Skip, AcceptReady, Looks, IInv, ReactorInv, TypeOK, netVars, tableVars
  <2> QED
    BY <1>9, <2>1, TablesUntouched
       DEF Skip, AcceptReady, Looks, IInv, TablesAgree, netVars, tableVars
<1>10. ASSUME NEW v \in batch, ClientError(v)
       PROVE  IInv'
  <2>1. v.fd \in Fds /\ cur \in Fds \cup {ListenFd}
    BY <1>10 DEF ClientError, IInv, ReactorInv, TypeOK, Event
  <2> QED
    BY <1>10, <2>1, CloseClientKeeps DEF ClientError, Looks
<1>11. ASSUME NEW v \in batch, ClientReadable(v)
       PROVE  IInv'
  <2>1. v.fd \in Fds
    BY <1>11 DEF ClientReadable, IInv, ReactorInv, TypeOK, Event
  <2>2. TypeOK'
    BY <1>11, <2>1
       DEF ClientReadable, Looks, IInv, ReactorInv, TypeOK, netVars, tableVars
  <2> QED
    BY <1>11, <2>1, <2>2, TablesUntouched
       DEF ClientReadable, IInv, TablesAgree, netVars, tableVars
<1>12. ASSUME NEW c \in Conns, Connect(c) \/ Send(c) \/ Close(c)
       PROVE  IInv'
  <2>1. CASE Connect(c) \/ Close(c)
    <3>1. peer' \in [Conns -> {"idle", "open", "closed"}]
      BY <2>1 DEF Connect, Close, IInv, ReactorInv, TypeOK
    <3>2. backlog' \in Seq(Conns)
      <4>1. backlog \in Seq(Conns) /\ backlog' \in {backlog, Append(backlog, c)}
        BY <2>1 DEF Connect, Close, IInv, ReactorInv, TypeOK
      <4> QED
        BY <4>1
    <3>3. UNCHANGED <<sends, unread, tableVars, pc, batch, cur, refused>>
      BY <2>1 DEF Connect, Close
    <3>4. TypeOK'
      BY <3>1, <3>2, <3>3 DEF IInv, ReactorInv, TypeOK, tableVars
    <3> QED
      BY <3>3, <3>4, TablesUntouched DEF IInv, TablesAgree
  <2>2. CASE Send(c)
    <3>1. sends \in 0..MaxSends /\ sends' = sends + 1 /\ sends' \in 0..MaxSends
      BY <2>2 DEF Send, IInv, ReactorInv, TypeOK
    <3>2. \A d \in Conns : unread[d] \in 0..sends
      BY DEF IInv, ReactorInv, TypeOK, TablesAgree
    <3>3. unread \in [Conns -> 0..MaxSends]
          /\ unread' = [unread EXCEPT ![c] = @ + 1]
      BY <2>2 DEF Send, IInv, ReactorInv, TypeOK
    <3>4. \A d \in Conns : unread'[d] \in 0..sends' /\ unread'[d] \in 0..MaxSends
      BY <3>1, <3>2, <3>3
    <3>5. TypeOK'
      BY <2>2, <3>1, <3>3, <3>4 DEF Send, IInv, ReactorInv, TypeOK, tableVars
    <3> QED
      BY <2>2, <3>1, <3>4, <3>5, TablesUntouched DEF Send, tableVars
  <2> QED
    BY <1>12, <2>1, <2>2
<1>13. CASE UNCHANGED vars
  BY <1>13 DEF vars, netVars, tableVars, IInv, ReactorInv, TypeOK, HandlersAlive,
               SessionsReached, TablesAgree
<1> QED
  BY <1>1, <1>2, <1>3, <1>4, <1>5, <1>6, <1>7, <1>8, <1>9, <1>10, <1>11, <1>12, <1>13
     DEF Next, ServerStep

\* The dispatch of the reactor: no table leads to a handler that closeClient
\* has destroyed, or to the one of an earlier connection on the descriptor.
THEOREM DispatchSound == Spec => []ReactorInv
<1>1. IInv => ReactorInv
  BY DEF IInv
<1> QED
  BY InitTables, StepKeeps, <1>1, PTL DEF Spec

\* Whatever callbacks do to the sessions, they are steps of the dispatch.
LEMMA ServerStepDispatches == [ServerNext]_serverVars => [Next]_vars
<1>1. Callback => Next
  BY DEF Callback, Accept, CloseAtEnd, CloseOnError, HandleLogin,
         HandleChatMessage, HandleOther, Next, ServerStep
<1>2. Dispatch => Next
  BY DEF Dispatch, Next, ServerStep
<1>3. ClientCalls => Next
  BY DEF ClientCalls, Next
<1>4. ASSUME NEW c \in Conns, Read(c) PROVE UNCHANGED vars
  BY <1>4 DEF Read
<1> QED
  BY <1>1, <1>2, <1>3, <1>4 DEF ServerNext, serverVars

\* The whole server (Server_Reactor/chatserver.cpp) keeps its tables sound.
THEOREM ReactorServerSound == ServerSpec => []ReactorInv
<1>1. ServerInit => Init
  BY DEF ServerInit
<1>2. IInv => ReactorInv
  BY DEF IInv
<1> QED
  BY InitTables, StepKeeps, ServerStepDispatches, <1>1, <1>2, PTL DEF ServerSpec

-----------------------------------------------------------------------------
(* The chat server on the reactor.                                          *)

ChatTyped ==
    /\ username \in [Fds -> Users \cup {NoUser}]
    /\ userList \in [Fds -> SUBSET Users]
    /\ heard \in [Fds -> Seq(Users)]

\* A descriptor without a session has no name.
NamesOfSessions == \A f \in Fds \ sessions : username[f] = NoUser

SessionInv == IInv /\ ChatTyped /\ NamesOfSessions

LEMMA InitSessions == ServerInit => SessionInv /\ Chat!Init
<1> SUFFICES ASSUME ServerInit PROVE SessionInv /\ Chat!Init
  OBVIOUS
<1>1. IInv
  BY InitTables DEF ServerInit
<1>2. <<>> \in Seq(Users)
  OBVIOUS
<1>3. ChatTyped /\ NamesOfSessions
  BY <1>2 DEF ServerInit, ChatTyped, NamesOfSessions
<1>4. Chat!FTInit
  BY DEF Chat!FTInit, Chat!NoUpload
<1>5. Chat!Init
  BY <1>4 DEF Chat!Init, Chat!NoDownload, ServerInit, Init
<1> QED
  BY <1>1, <1>3, <1>5 DEF SessionInv

\* The user lists the server sends are of users.
LEMMA UsersOfTyped ==
    ASSUME NEW s \in SUBSET Fds, NEW names \in [Fds -> Users \cup {NoUser}]
    PROVE  UsersOf(s, names) \in SUBSET Users
BY DEF UsersOf

\* The session of a new connection has no name, on whatever descriptor.
LEMMA AcceptStep ==
    ASSUME SessionInv, Accept
    PROVE  ChatTyped' /\ NamesOfSessions' /\ \E f \in Fds : Chat!Accept(f)
<1>1. PICK f \in Fds : conn[f] = None /\ sessions' = sessions \cup {f}
  BY DEF Accept, AcceptOne, FreeFds
<1>2. f \notin sessions
  BY <1>1 DEF SessionInv, IInv, ReactorInv, HandlersAlive
<1>3. UNCHANGED <<username, userList, heard>>
  BY DEF Accept, SessionInv, ChatTyped, NamesOfSessions
<1>4. Chat!Accept(f)
  BY <1>1, <1>2, <1>3 DEF Chat!Accept, Chat!NoDownload, Chat!ftVars
<1> QED
  BY <1>1, <1>3, <1>4 DEF SessionInv, ChatTyped, NamesOfSessions

\* closeClient, from either callback.
LEMMA ForgetStep ==
    ASSUME SessionInv, NEW f \in sessions, CloseClient(f), Forget(f)
    PROVE  ChatTyped' /\ NamesOfSessions' /\ Chat!CloseClient(f)
<1>1. f \in Fds /\ sessions \subseteq Fds /\ sessions' = sessions \ {f}
  BY DEF SessionInv, IInv, ReactorInv, TypeOK, CloseClient
<1> DEFINE l == UsersOf(sessions \ {f}, username)
           erased == [userList EXCEPT ![f] = {}]
<1>2. l \in SUBSET Users /\ l = Chat!UsersOf(sessions \ {f}, username)
  BY <1>1, UsersOfTyped DEF SessionInv, ChatTyped, UsersOf, Chat!UsersOf
<1>3. userList' = IF username[f] = NoUser THEN erased
                  ELSE [g \in Fds |-> IF g \in sessions \ {f} THEN l ELSE erased[g]]
  BY DEF Forget
<1>4. userList' = Chat!ListsAfter(f)
  BY <1>2, <1>3
     DEF Chat!ListsAfter, Chat!LoggedIn, Chat!SendTo, Chat!Audience
<1>5. username' = [username EXCEPT ![f] = NoUser] /\ heard' = [heard EXCEPT ![f] = <<>>]
  BY DEF Forget
<1> HIDE DEF l
<1>6. ChatTyped'
  <2>1. <<>> \in Seq(Users)
    OBVIOUS
  <2>2. erased \in [Fds -> SUBSET Users]
    BY DEF SessionInv, ChatTyped
  <2>3. userList' \in [Fds -> SUBSET Users]
    BY <1>2, <1>3, <2>2
  <2> QED
    BY <1>5, <2>1, <2>3 DEF SessionInv, ChatTyped
<1>7. NamesOfSessions'
  BY <1>1, <1>5 DEF SessionInv, ChatTyped, NamesOfSessions
<1>8. Chat!DropUpload(f)
  BY <1>1 DEF Chat!DropUpload, Chat!NoUpload, Chat!history
<1>9. Chat!CloseClient(f)
  BY <1>1, <1>4, <1>5, <1>8
     DEF Chat!CloseClient, Chat!Serving, Chat!Forget, Chat!NoDownload
<1> QED
  BY <1>6, <1>7, <1>9

\* The packet that is taken is of a session.
LEMMA ReadingSession ==
    ASSUME SessionInv, TakePacket
    PROVE  cur \in sessions /\ sessions \subseteq Fds /\ sessions' = sessions
BY DEF TakePacket, SessionInv, IInv, ReactorInv, TypeOK, HandlersAlive, TablesAgree,
       tableVars

LEMMA HandleLoginStep ==
    ASSUME SessionInv, NEW u \in Users, HandleLogin(u)
    PROVE  ChatTyped' /\ NamesOfSessions' /\ \E f \in Fds : Chat!HandleLogin(f, u)
<1>1. cur \in sessions /\ sessions \subseteq Fds /\ sessions' = sessions
  BY ReadingSession DEF HandleLogin
<1> DEFINE l == UsersOf(sessions, username')
<1>2. /\ \A f \in sessions \ {cur} : username[f] # u
      /\ username' = [username EXCEPT ![cur] = u]
      /\ userList' = [f \in Fds |-> IF f \in sessions THEN l ELSE userList[f]]
      /\ heard' = heard
  BY DEF HandleLogin, ToAll
<1>3. username' \in [Fds -> Users \cup {NoUser}]
  BY <1>2 DEF SessionInv, ChatTyped
<1>4. l \in SUBSET Users /\ l = Chat!UsersOf(sessions, username')
  BY <1>1, <1>3, UsersOfTyped DEF UsersOf, Chat!UsersOf
<1> HIDE DEF l
<1>5. ChatTyped' /\ NamesOfSessions'
  BY <1>1, <1>2, <1>3, <1>4 DEF SessionInv, ChatTyped, NamesOfSessions
<1>6. Chat!HandleLogin(cur, u)
  BY <1>1, <1>2, <1>4
     DEF Chat!HandleLogin, Chat!Serving, Chat!UsernameExists, Chat!Audience,
         Chat!SendTo, Chat!NoDownload, Chat!ftVars
<1> QED
  BY <1>1, <1>5, <1>6

LEMMA HandleChatMessageStep ==
    ASSUME SessionInv, HandleChatMessage
    PROVE  ChatTyped' /\ NamesOfSessions' /\ \E f \in Fds : Chat!HandleChatMessage(f)
<1>1. cur \in sessions /\ sessions \subseteq Fds /\ sessions' = sessions
  BY ReadingSession DEF HandleChatMessage
<1>2. /\ username[cur] # NoUser
      /\ heard' = [f \in Fds |-> IF f \in sessions THEN Append(heard[f], username[cur])
                                 ELSE heard[f]]
      /\ UNCHANGED <<username, userList>>
  BY DEF HandleChatMessage
<1>3. username[cur] \in Users
  BY <1>1, <1>2 DEF SessionInv, ChatTyped
<1>4. \A f \in Fds : heard[f] \in Seq(Users)
  BY DEF SessionInv, ChatTyped
<1>5. \A f \in Fds : Len(heard[f]) + 1 \in Nat /\ Append(heard[f], username[cur]) \in Seq(Users)
  BY <1>3, <1>4
<1>6. ChatTyped' /\ NamesOfSessions'
  BY <1>1, <1>2, <1>5 DEF SessionInv, ChatTyped, NamesOfSessions
<1>7. Chat!HandleChatMessage(cur)
  BY <1>1, <1>2, <1>5
     DEF Chat!HandleChatMessage, Chat!Serving, Chat!LoggedIn, Chat!Heard,
         Chat!Audience, Chat!NoDownload, Chat!ftVars
<1> QED
  BY <1>1, <1>6, <1>7

\* Each callback is a step of ChatServer on the session of its descriptor, and
\* what the dispatch does in between is none.
LEMMA ServerStepIsStep ==
    ASSUME SessionInv, [ServerNext]_serverVars
    PROVE  SessionInv' /\ [Chat!Next]_(Chat!vars)
<1>1. IInv'
  BY StepKeeps, ServerStepDispatches DEF SessionInv
<1>2. CASE Accept
  BY <1>1, <1>2, AcceptStep DEF Chat!Next, SessionInv
<1>3. CASE CloseAtEnd \/ \E v \in batch : CloseOnError(v)
  <2>1. PICK f \in sessions : CloseClient(f) /\ Forget(f)
    <3>1. CASE CloseAtEnd
      BY <3>1 DEF CloseAtEnd, ReadEnd, SessionInv, IInv, ReactorInv, HandlersAlive,
                  TablesAgree
    <3>2. ASSUME NEW v \in batch, CloseOnError(v)
          PROVE  v.fd \in sessions /\ CloseClient(v.fd) /\ Forget(v.fd)
      BY <3>2 DEF CloseOnError, ClientError, Event, SessionInv, IInv, ReactorInv,
                  TypeOK, HandlersAlive
    <3> QED
      BY <1>3, <3>1, <3>2
  <2>2. f \in Fds
    BY DEF SessionInv, IInv, ReactorInv, TypeOK
  <2> QED
    BY <1>1, <2>1, <2>2, ForgetStep DEF Chat!Next, SessionInv
<1>4. CASE \E u \in Users : HandleLogin(u)
  BY <1>1, <1>4, HandleLoginStep DEF Chat!Next, SessionInv
<1>5. CASE HandleChatMessage
  BY <1>1, <1>5, HandleChatMessageStep DEF Chat!Next, SessionInv
<1>6. CASE \/ HandleOther \/ Dispatch \/ ClientCalls
           \/ \E c \in Conns : Read(c)
           \/ UNCHANGED serverVars
  <2>1. UNCHANGED <<sessions, username, userList, heard>>
    BY <1>6 DEF HandleOther, TakePacket, Dispatch, Wait, Again, AcceptFails,
                AcceptsDone, ReadAgain, Skip, AcceptReady, ClientReadable,
                ClientCalls, Connect, Send, Close, Read, tableVars, serverVars,
                vars, chatVars
  <2>2. ChatTyped' /\ NamesOfSessions'
    BY <2>1 DEF SessionInv, ChatTyped, NamesOfSessions
  <2> QED
    BY <1>1, <2>1, <2>2 DEF SessionInv, Chat!vars, Chat!ftVars, Chat!serverVars
<1> QED
  BY <1>2, <1>3, <1>4, <1>5, <1>6 DEF ServerNext, Callback

\* The Reactor server (Server_Reactor/chatserver.cpp) is the chat server: what
\* its callbacks do to the sessions, through tables and reused descriptors, is
\* what ChatServer does.
THEOREM ReactorImplementsServer == ServerSpec => ChatSpec
<1>1. ServerInit => SessionInv /\ Chat!Init
  BY InitSessions
<1>2. SessionInv /\ [ServerNext]_serverVars => SessionInv' /\ [Chat!Next]_(Chat!vars)
  BY ServerStepIsStep
<1> QED
  BY <1>1, <1>2, PTL DEF ServerSpec, ChatSpec, Chat!Spec

=============================================================================
