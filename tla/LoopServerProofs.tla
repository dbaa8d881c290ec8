--------------------------- MODULE LoopServerProofs ---------------------------
(***************************************************************************)
(* The default server, call by call, implements the chat server: for any   *)
(* number of connections, descriptors, packets and users, each handler,    *)
(* with its broadcast of one send after another, is one step of ChatServer *)
(* or none.                                                                *)
(***************************************************************************)
EXTENDS EventLoopProofs

-----------------------------------------------------------------------------
(* What the sessions add to the invariant of the loop.                      *)

News == {Nothing} \cup {Lists(s) : s \in SUBSET Users} \cup {Says(u) : u \in Users}

ChatTyped ==
    /\ username \in [Fds -> Users \cup {NoUser}]
    /\ userList \in [Fds -> SUBSET Users]
    /\ heard \in [Fds -> Seq(Users)]
    /\ news \in News

\* A broadcast is to each session once, and over before the loop goes on.
BroadcastInv ==
    /\ pc # "send" => todo = <<>>
    /\ IsInjective(todo)

\* A descriptor without a session has no name.
NamesOfSessions == \A f \in Fds \ sessions : username[f] = NoUser

SessionInv ==
    /\ LoopInv
    /\ ChatTyped
    /\ BroadcastInv
    /\ NamesOfSessions

\* What the connections will have been sent when the broadcast is over.
SoonLists == ListsWith(Range(todo))
SoonHeard == HeardWith(Range(todo))

-----------------------------------------------------------------------------
(* News.                                                                    *)

LEMMA KindsOfNews ==
    /\ DOMAIN Nothing = {"nothing"}
    /\ \A s : DOMAIN Lists(s) = {"list"} /\ Lists(s).list = s
    /\ \A u : DOMAIN Says(u) = {"chat"} /\ Says(u).chat = u
BY DEF Nothing, Lists, Says

LEMMA NewsTyped ==
    ASSUME ChatTyped
    PROVE  /\ "list" \in DOMAIN news => news.list \in SUBSET Users
           /\ "chat" \in DOMAIN news => news.chat \in Users
BY KindsOfNews DEF ChatTyped, News

LEMMA EmptyTodo == Range(<<>>) = {}
BY DEF Range

\* Between broadcasts the connections have been sent what they have been sent.
LEMMA NothingSoon ==
    ASSUME ChatTyped, todo = <<>>
    PROVE  SoonLists = userList /\ SoonHeard = heard
BY EmptyTodo DEF ChatTyped, SoonLists, SoonHeard, ListsWith, HeardWith

\* A list that is about to be sent.
LEMMA ListSoon ==
    ASSUME NEW l, news' = Lists(l)
    PROVE  /\ SoonLists' = [f \in Fds |-> IF f \in Range(todo') THEN l ELSE userList'[f]]
           /\ heard' \in [Fds -> Seq(Users)] => SoonHeard' = heard'
BY KindsOfNews DEF SoonLists, SoonHeard, ListsWith, HeardWith

\* A chat that is about to be sent.
LEMMA ChatSoon ==
    ASSUME NEW u, news' = Says(u)
    PROVE  /\ SoonHeard' = [f \in Fds |-> IF f \in Range(todo')
                                          THEN Append(heard'[f], u) ELSE heard'[f]]
           /\ userList' \in [Fds -> SUBSET Users] => SoonLists' = userList'
BY KindsOfNews DEF SoonLists, SoonHeard, ListsWith, HeardWith

LEMMA NothingIsSoon ==
    ASSUME news' = Nothing, userList' \in [Fds -> SUBSET Users],
           heard' \in [Fds -> Seq(Users)]
    PROVE  SoonLists' = userList' /\ SoonHeard' = heard'
BY KindsOfNews DEF SoonLists, SoonHeard, ListsWith, HeardWith

LEMMA UsersOfTyped ==
    ASSUME NEW s, NEW names, \A f \in s : names[f] \in Users \cup {NoUser}
    PROVE  UsersOf(s, names) \in SUBSET Users
BY DEF UsersOf

\* A broadcast is a sequence of different descriptors.
LEMMA BroadcastOnce ==
    ASSUME NEW s \in SUBSET Fds, NEW q \in SetToSeqs(s)
    PROVE  IsInjective(q)
BY DEF SetToSeqs, IsInjective

\* What ChatServer sees of a step that leaves its variables alone.
LEMMA Unseen ==
    ASSUME UNCHANGED <<sessions, username, SoonLists, SoonHeard>>
    PROVE  UNCHANGED Chat!vars
BY DEF Chat!vars, Chat!ftVars, Chat!serverVars, SoonLists, SoonHeard

-----------------------------------------------------------------------------
(* The initial state.                                                       *)

LEMMA InitSessions == LoopInit => SessionInv /\ Chat!Init
<1> SUFFICES ASSUME LoopInit PROVE SessionInv /\ Chat!Init
  OBVIOUS
<1>1. LoopInv
  BY InitSound DEF LoopInit
<1>2. ChatTyped
  <2>1. <<>> \in Seq(Users)
    OBVIOUS
  <2> QED
    BY <2>1 DEF LoopInit, ChatTyped, News
<1>3. BroadcastInv
  BY DEF LoopInit, Init, BroadcastInv, IsInjective
<1>4. NamesOfSessions
  BY DEF LoopInit, NamesOfSessions
<1>5. SoonLists = [f \in Fds |-> {}] /\ SoonHeard = [f \in Fds |-> <<>>]
  BY <1>2, NothingSoon DEF LoopInit, Init
<1>6. Chat!FTInit
  BY DEF Chat!FTInit, Chat!NoUpload
<1>7. Chat!Init
  BY <1>5, <1>6 DEF Chat!Init, Chat!NoDownload, LoopInit, Init, SoonLists, SoonHeard
<1> QED
  BY <1>1, <1>2, <1>3, <1>4, <1>7 DEF SessionInv

-----------------------------------------------------------------------------
(* Broadcasts.                                                              *)

\* One send: what is still to be sent and what has been sent are together what
\* the handler said.
LEMMA SendNewsStep ==
    ASSUME SessionInv, LoopInv', SendNews
    PROVE  SessionInv' /\ UNCHANGED Chat!vars
<1>1. /\ todo # <<>> /\ todo' = Tail(todo) /\ todo \in Seq(Fds)
      /\ UNCHANGED <<pc, sessions, username, news>>
  BY DEF SessionInv, LoopInv, TypeOK, SendNews, SendTaken, SendLost
<1> DEFINE h == Head(todo)
           t == Tail(todo)
<1>2. /\ h \in Fds /\ h \notin Range(t) /\ Range(todo) = Range(t) \cup {h}
      /\ IsInjective(t)
  BY <1>1, QueueTail DEF SessionInv, BroadcastInv
<1>3. userList' = ListsWith({h}) /\ heard' = HeardWith({h})
  BY DEF SendNews
<1> HIDE DEF h, t
<1>4. ChatTyped'
  <2>1. userList' \in [Fds -> SUBSET Users]
    BY <1>3, NewsTyped DEF SessionInv, ChatTyped, ListsWith
  <2>2. heard' \in [Fds -> Seq(Users)]
    <3>1. \A f \in Fds : heard'[f] \in Seq(Users)
      <4> TAKE f \in Fds
      <4>1. heard[f] \in Seq(Users)
        BY DEF SessionInv, ChatTyped
      <4>2. CASE f \in {h} /\ "chat" \in DOMAIN news
        <5>1. heard'[f] = Append(heard[f], news.chat) /\ news.chat \in Users
          BY <1>3, <4>2, NewsTyped DEF SessionInv, HeardWith
        <5> QED
          BY <4>1, <5>1
      <4>3. CASE ~(f \in {h} /\ "chat" \in DOMAIN news)
        <5>1. heard'[f] = heard[f]
          BY <1>3, <4>3 DEF HeardWith
        <5> QED
          BY <4>1, <5>1
      <4> QED
        BY <4>2, <4>3
    <3> QED
      BY <1>3, <3>1 DEF HeardWith
  <2> QED
    BY <1>1, <2>1, <2>2 DEF SessionInv, ChatTyped
<1>5. BroadcastInv'
  BY <1>1, <1>2 DEF SessionInv, BroadcastInv, t
<1>6. NamesOfSessions'
  BY <1>1 DEF SessionInv, NamesOfSessions
<1>7. todo' = t
  BY <1>1 DEF t
<1>8. SoonLists' = SoonLists
  BY <1>1, <1>2, <1>3, <1>7 DEF SoonLists, ListsWith
<1>9. SoonHeard' = SoonHeard
  BY <1>1, <1>2, <1>3, <1>7 DEF SoonHeard, HeardWith
<1> QED
  BY <1>1, <1>4, <1>5, <1>6, <1>8, <1>9, Unseen DEF SessionInv

-----------------------------------------------------------------------------
(* Sessions.                                                                *)

\* The steps that neither change a session nor send.
LEMMA GoesStep ==
    ASSUME SessionInv, LoopInv', Goes
    PROVE  SessionInv' /\ UNCHANGED Chat!vars
<1>1. /\ todo' = todo /\ sessions' = sessions /\ (pc' = "send" => pc = "send" \/ todo = <<>>)
      /\ (pc' # "send" => todo = <<>>)
  <2>1. CASE EpollWait \/ BatchDone \/ AcceptFails \/ AcceptsDone \/ Recv \/ RecvAgain
             \/ ParseDone \/ SendsDone
    BY <2>1 DEF EpollWait, BatchDone, AcceptFails, AcceptsDone, Recv, RecvAgain,
                ParseDone, SendsDone, SessionInv, BroadcastInv, LoopInv, TypeOK
  <2>2. CASE TakeEvent /\ sessions' = sessions
    <3>1. PICK e \in batch :
            \/ UNCHANGED <<sessions, todo>> /\ pc' \in {"accept", "next", "recv"}
            \/ e.fd \in sessions /\ CloseClient(e.fd)
      BY <2>2 DEF TakeEvent
    <3>2. ~(e.fd \in sessions /\ CloseClient(e.fd))
      BY <2>2 DEF CloseClient
    <3> QED
      BY <2>2, <3>1, <3>2 DEF TakeEvent, SessionInv, BroadcastInv
  <2>3. CASE \E c \in Conns : Connect(c) \/ Send(c) \/ Read(c) \/ Shut(c)
    BY <2>3 DEF Connect, Send, Read, Shut, serverVars, SessionInv, BroadcastInv
  <2> QED
    BY <2>1, <2>2, <2>3 DEF Goes
<1>2. UNCHANGED <<username, news, userList, heard>>
  BY DEF Goes, chatVars
<1>3. SoonLists' = SoonLists /\ SoonHeard' = SoonHeard
  BY <1>1, <1>2 DEF SoonLists, SoonHeard, ListsWith, HeardWith
<1>4. ChatTyped' /\ BroadcastInv' /\ NamesOfSessions'
  BY <1>1, <1>2 DEF SessionInv, ChatTyped, BroadcastInv, NamesOfSessions
<1> QED
  BY <1>1, <1>2, <1>3, <1>4, Unseen DEF SessionInv

LEMMA AcceptStep ==
    ASSUME SessionInv, LoopInv', Accept
    PROVE  SessionInv' /\ \E f \in Fds : Chat!Accept(f)
<1>1. PICK f \in Fds : /\ conn[f] = NoConn
                       /\ sessions' = sessions \cup {f}
                       /\ SendToAll({f}, "accept")
  BY DEF Accept, AcceptOne, FreeFds
<1>2. f \notin sessions
  BY <1>1 DEF SessionInv, LoopInv, SessionsAreSockets
<1>3. todo = <<>> /\ pc' = "send" /\ IsInjective(todo')
  BY <1>1, BroadcastOnce DEF Accept, AcceptOne, SessionInv, BroadcastInv, SendToAll
<1>4. username' = username
  BY DEF Accept, SessionInv, ChatTyped, NamesOfSessions
<1>5. UNCHANGED <<userList, heard>> /\ news' = Nothing
  BY DEF Accept
<1>6. ChatTyped'
  BY <1>4, <1>5 DEF SessionInv, ChatTyped, News
<1>7. BroadcastInv' /\ NamesOfSessions'
  BY <1>1, <1>3, <1>4 DEF SessionInv, BroadcastInv, NamesOfSessions
<1>8. SoonLists' = SoonLists /\ SoonHeard' = SoonHeard
  <2>1. SoonLists = userList /\ SoonHeard = heard
    BY <1>3, NothingSoon DEF SessionInv
  <2>2. SoonLists' = userList' /\ SoonHeard' = heard'
    BY <1>5, <1>6, NothingIsSoon DEF ChatTyped
  <2> QED
    BY <1>5, <2>1, <2>2
<1>9. Chat!Accept(f)
  BY <1>1, <1>2, <1>4, <1>8
     DEF Chat!Accept, Chat!NoDownload, Chat!ftVars, SoonLists, SoonHeard
<1> QED
  BY <1>6, <1>7, <1>9 DEF SessionInv

\* closeClient, at a hangup or at the end of the data.
LEMMA ForgetStep ==
    ASSUME SessionInv, LoopInv', pc # "send", NEW f \in sessions, CloseClient(f),
           Forget(f)
    PROVE  SessionInv' /\ Chat!CloseClient(f)
<1>1. f \in Fds /\ sessions \subseteq Fds
  BY DEF SessionInv, LoopInv, TypeOK
<1>2. todo = <<>> /\ sessions' = sessions \ {f}
  BY DEF SessionInv, BroadcastInv, CloseClient
<1>3. pc' = "send" /\ IsInjective(todo')
  <2>1. PICK s \in {{}, sessions \ {f}} : SendToAll(s, "next")
    BY DEF CloseClient
  <2>2. s \in SUBSET Fds
    BY <1>1
  <2> QED
    BY <2>1, <2>2, BroadcastOnce DEF SendToAll
<1> DEFINE l == UsersOf(sessions', username)
<1>4. /\ Range(todo') = IF username[f] = NoUser THEN {} ELSE sessions'
      /\ news' = Lists(l)
      /\ username' = [username EXCEPT ![f] = NoUser]
      /\ userList' = [userList EXCEPT ![f] = {}]
      /\ heard' = [heard EXCEPT ![f] = <<>>]
  BY DEF Forget
<1>5. l \in SUBSET Users
  BY <1>1, <1>2, UsersOfTyped DEF SessionInv, ChatTyped
<1> HIDE DEF l
<1>6. ChatTyped'
  <2>1. news' \in News
    BY <1>4, <1>5 DEF News
  <2>2. heard' \in [Fds -> Seq(Users)]
    <3>1. <<>> \in Seq(Users)
      OBVIOUS
    <3> QED
      BY <1>4, <3>1 DEF SessionInv, ChatTyped
  <2> QED
    BY <1>1, <1>4, <2>1, <2>2 DEF SessionInv, ChatTyped
<1>7. BroadcastInv' /\ NamesOfSessions'
  BY <1>1, <1>2, <1>3, <1>4 DEF SessionInv, ChatTyped, BroadcastInv, NamesOfSessions
<1>8. SoonLists = userList /\ SoonHeard = heard
  BY <1>2, NothingSoon DEF SessionInv
<1>9. /\ SoonLists' = [g \in Fds |-> IF g \in Range(todo') THEN l ELSE userList'[g]]
      /\ SoonHeard' = heard'
  BY <1>4, <1>6, ListSoon DEF ChatTyped
<1>10. SoonLists' = Chat!ListsAfter(f)
  <2>1. CASE username[f] = NoUser
    BY <1>1, <1>4, <1>8, <1>9, <2>1
       DEF Chat!ListsAfter, Chat!LoggedIn, SoonLists, SessionInv, ChatTyped
  <2>2. CASE username[f] # NoUser
    <3>1. l = Chat!UsersOf(sessions \ {f}, username)
      BY <1>2 DEF l, UsersOf, Chat!UsersOf
    <3> QED
      BY <1>1, <1>2, <1>4, <1>8, <1>9, <2>2, <3>1
         DEF Chat!ListsAfter, Chat!LoggedIn, Chat!SendTo, Chat!Audience, SoonLists
  <2> QED
    BY <2>1, <2>2
<1>11. Chat!Forget(f)
  BY <1>4, <1>8, <1>9 DEF Chat!Forget, SoonHeard
<1>12. Chat!DropUpload(f)
  BY <1>1 DEF Chat!DropUpload, Chat!NoUpload, Chat!history
<1>13. Chat!CloseClient(f)
  BY <1>2, <1>4, <1>10, <1>11, <1>12
     DEF Chat!CloseClient, Chat!Serving, Chat!NoDownload, SoonLists
<1> QED
  BY <1>6, <1>7, <1>13 DEF SessionInv

LEMMA CloseAtHangupStep ==
    ASSUME SessionInv, LoopInv', CloseAtHangup
    PROVE  SessionInv' /\ \E f \in Fds : Chat!CloseClient(f)
<1>1. PICK e \in batch :
        /\ cur' = e.fd
        /\ \/ UNCHANGED sessions
           \/ e.fd \in sessions /\ CloseClient(e.fd)
  BY DEF CloseAtHangup, TakeEvent
<1>2. cur' \in sessions /\ CloseClient(cur') /\ Forget(cur')
  BY <1>1 DEF CloseAtHangup
<1>3. pc # "send"
  BY DEF CloseAtHangup, TakeEvent
<1>4. PICK f \in sessions : f = cur'
  BY <1>2
<1>5. CloseClient(f) /\ Forget(f)
  BY <1>2, <1>4
<1>6. SessionInv' /\ Chat!CloseClient(f)
  BY <1>3, <1>5, ForgetStep
<1> QED
  BY <1>6 DEF SessionInv, LoopInv, TypeOK

LEMMA CloseAtEndStep ==
    ASSUME SessionInv, LoopInv', CloseAtEnd
    PROVE  SessionInv' /\ \E f \in Fds : Chat!CloseClient(f)
<1>1. cur \in sessions /\ CloseClient(cur) /\ Forget(cur) /\ pc # "send"
  BY DEF CloseAtEnd, RecvEnd, SessionInv, LoopInv, SessionsAreSockets
<1>2. SessionInv' /\ Chat!CloseClient(cur)
  BY <1>1, ForgetStep
<1> QED
  BY <1>1, <1>2 DEF SessionInv, LoopInv, TypeOK

-----------------------------------------------------------------------------
(* Packets.                                                                 *)

\* What all handlers have in common.
LEMMA HandlerRuns ==
    ASSUME SessionInv, HandlePacket
    PROVE  /\ cur \in sessions /\ sessions \subseteq Fds
           /\ todo = <<>> /\ pc' = "send" /\ IsInjective(todo')
           /\ sessions' = sessions /\ cur' = cur
<1>1. cur \in sessions /\ sessions \subseteq Fds
  BY DEF HandlePacket, SessionInv, LoopInv, TypeOK, SessionsAreSockets
<1>2. PICK s \in {{}, {cur}, sessions \ {cur}, sessions} : SendToAll(s, "parse")
  BY DEF HandlePacket
<1>3. s \in SUBSET Fds
  BY <1>1
<1>4. pc' = "send" /\ IsInjective(todo')
  BY <1>2, <1>3, BroadcastOnce DEF SendToAll
<1> QED
  BY <1>1, <1>4 DEF HandlePacket, SessionInv, BroadcastInv

LEMMA HandleLoginStep ==
    ASSUME SessionInv, LoopInv', NEW u \in Users, HandleLogin(u)
    PROVE  SessionInv' /\ \E f \in Fds : Chat!HandleLogin(f, u)
<1>1. /\ cur \in sessions /\ sessions \subseteq Fds
      /\ todo = <<>> /\ pc' = "send" /\ IsInjective(todo') /\ sessions' = sessions
  BY HandlerRuns DEF HandleLogin
<1> DEFINE l == UsersOf(sessions, username')
<1>2. /\ \A f \in sessions \ {cur} : username[f] # u
      /\ Range(todo') = sessions
      /\ username' = [username EXCEPT ![cur] = u]
      /\ news' = Lists(l)
      /\ UNCHANGED <<userList, heard>>
  BY DEF HandleLogin
<1>3. username' \in [Fds -> Users \cup {NoUser}]
  BY <1>2 DEF SessionInv, ChatTyped
<1>4. l \in SUBSET Users
  BY <1>1, <1>3, UsersOfTyped
<1>5. l = Chat!UsersOf(sessions, username')
  BY DEF UsersOf, Chat!UsersOf
<1> HIDE DEF l
<1>6. ChatTyped'
  BY <1>2, <1>3, <1>4 DEF SessionInv, ChatTyped, News
<1>7. BroadcastInv' /\ NamesOfSessions'
  BY <1>1, <1>2 DEF SessionInv, ChatTyped, BroadcastInv, NamesOfSessions
<1>8. SoonLists = userList /\ SoonHeard = heard
  BY <1>1, NothingSoon DEF SessionInv
<1>9. /\ SoonLists' = [f \in Fds |-> IF f \in Range(todo') THEN l ELSE userList'[f]]
      /\ SoonHeard' = heard'
  BY <1>2, <1>6, ListSoon DEF ChatTyped
<1>10. SoonLists' = Chat!SendTo(sessions, SoonLists, l) /\ SoonHeard' = SoonHeard
  BY <1>2, <1>8, <1>9 DEF Chat!SendTo
<1>11. Chat!HandleLogin(cur, u)
  BY <1>1, <1>2, <1>5, <1>10
     DEF Chat!HandleLogin, Chat!Serving, Chat!UsernameExists, Chat!Audience,
         Chat!NoDownload, Chat!ftVars, SoonLists, SoonHeard
<1> QED
  BY <1>1, <1>6, <1>7, <1>11 DEF SessionInv

LEMMA HandleChatMessageStep ==
    ASSUME SessionInv, LoopInv', HandleChatMessage
    PROVE  SessionInv' /\ \E f \in Fds : Chat!HandleChatMessage(f)
<1>1. /\ cur \in sessions /\ sessions \subseteq Fds
      /\ todo = <<>> /\ pc' = "send" /\ IsInjective(todo') /\ sessions' = sessions
  BY HandlerRuns DEF HandleChatMessage
<1>2. /\ username[cur] # NoUser
      /\ Range(todo') = sessions
      /\ news' = Says(username[cur])
      /\ UNCHANGED <<username, userList, heard>>
  BY DEF HandleChatMessage
<1>3. username[cur] \in Users
  BY <1>1, <1>2 DEF SessionInv, ChatTyped
<1>4. ChatTyped'
  BY <1>2, <1>3 DEF SessionInv, ChatTyped, News
<1>5. BroadcastInv' /\ NamesOfSessions'
  BY <1>1, <1>2 DEF SessionInv, BroadcastInv, NamesOfSessions
<1>6. SoonLists = userList /\ SoonHeard = heard
  BY <1>1, NothingSoon DEF SessionInv
<1>7. /\ SoonHeard' = [f \in Fds |-> IF f \in Range(todo')
                                     THEN Append(heard'[f], username[cur])
                                     ELSE heard'[f]]
      /\ SoonLists' = userList'
  BY <1>2, <1>4, ChatSoon DEF ChatTyped
<1>8. SoonHeard' = Chat!Heard(cur) /\ SoonLists' = SoonLists
  BY <1>2, <1>6, <1>7 DEF Chat!Heard, Chat!Audience, SoonHeard
<1>9. \A f \in sessions : Len(SoonHeard[f]) + 1 \in Nat
  <2>1. \A f \in sessions : SoonHeard[f] \in Seq(Users)
    BY <1>1, <1>6 DEF SessionInv, ChatTyped
  <2> QED
    BY <2>1
<1>10. Chat!HandleChatMessage(cur)
  BY <1>1, <1>2, <1>8, <1>9
     DEF Chat!HandleChatMessage, Chat!Serving, Chat!LoggedIn, Chat!NoDownload,
         Chat!ftVars, SoonLists, SoonHeard
<1> QED
  BY <1>1, <1>4, <1>5, <1>10 DEF SessionInv

LEMMA RefuseStep ==
    ASSUME SessionInv, LoopInv', Refuse
    PROVE  SessionInv' /\ UNCHANGED Chat!vars
<1>1. todo = <<>> /\ pc' = "send" /\ IsInjective(todo') /\ sessions' = sessions
  BY HandlerRuns DEF Refuse
<1>2. UNCHANGED <<username, userList, heard>> /\ news' = Nothing
  BY DEF Refuse
<1>3. ChatTyped' /\ BroadcastInv' /\ NamesOfSessions'
  BY <1>1, <1>2 DEF SessionInv, ChatTyped, News, BroadcastInv, NamesOfSessions
<1>4. SoonLists' = SoonLists /\ SoonHeard' = SoonHeard
  <2>1. SoonLists = userList /\ SoonHeard = heard
    BY <1>1, NothingSoon DEF SessionInv
  <2>2. SoonLists' = userList' /\ SoonHeard' = heard'
    BY <1>2, <1>3, NothingIsSoon DEF ChatTyped
  <2> QED
    BY <1>2, <2>1, <2>2
<1> QED
  BY <1>1, <1>2, <1>3, <1>4, Unseen DEF SessionInv

-----------------------------------------------------------------------------
(* All steps.                                                               *)

LEMMA ServerStepIsStep ==
    ASSUME SessionInv, [LoopNext]_loopVars
    PROVE  SessionInv' /\ [Chat!Next]_(Chat!vars)
<1>1. LoopInv'
  BY StepKeeps, LoopStepIsStep DEF SessionInv
<1>2. CASE Goes
  BY <1>1, <1>2, GoesStep
<1>3. CASE SendNews
  BY <1>1, <1>3, SendNewsStep
<1>4. CASE Accept
  BY <1>1, <1>4, AcceptStep DEF Chat!Next
<1>5. CASE CloseAtHangup
  BY <1>1, <1>5, CloseAtHangupStep DEF Chat!Next
<1>6. CASE CloseAtEnd
  BY <1>1, <1>6, CloseAtEndStep DEF Chat!Next
<1>7. CASE \E u \in Users : HandleLogin(u)
  BY <1>1, <1>7, HandleLoginStep DEF Chat!Next
<1>8. CASE HandleChatMessage
  BY <1>1, <1>8, HandleChatMessageStep DEF Chat!Next
<1>9. CASE Refuse
  BY <1>1, <1>9, RefuseStep
<1>10. CASE UNCHANGED loopVars
  <2>1. UNCHANGED <<sessions, username, news, userList, heard, todo, pc>>
    BY <1>10 DEF loopVars, vars, serverVars, chatVars
  <2>2. SoonLists' = SoonLists /\ SoonHeard' = SoonHeard
    BY <2>1 DEF SoonLists, SoonHeard, ListsWith, HeardWith
  <2>3. ChatTyped' /\ BroadcastInv' /\ NamesOfSessions'
    BY <2>1 DEF SessionInv, ChatTyped, BroadcastInv, NamesOfSessions
  <2> QED
    BY <1>1, <2>1, <2>2, <2>3, Unseen DEF SessionInv
<1> QED
  BY <1>2, <1>3, <1>4, <1>5, <1>6, <1>7, <1>8, <1>9, <1>10 DEF LoopNext

-----------------------------------------------------------------------------
(* The theorems.                                                            *)

\* The inductive invariant.
THEOREM LoopSessions == LoopSpec => []SessionInv
BY InitSessions, ServerStepIsStep, PTL DEF LoopSpec

\* run() with its handlers, call by call, is the chat server: what ChatServer
\* does in one step is what the connections will have been sent at the end of
\* the broadcast, whoever comes, goes or stops reading meanwhile.
THEOREM LoopImplementsServer == LoopSpec => ChatSpec
<1>1. LoopInit => Chat!Init
  BY InitSessions
<1>2. SessionInv /\ [LoopNext]_loopVars => [Chat!Next]_(Chat!vars)
  BY ServerStepIsStep
<1> QED
  BY <1>1, <1>2, LoopSessions, PTL DEF LoopSpec, ChatSpec, Chat!Spec

=============================================================================
