------------------------------ MODULE EventLoop ------------------------------
(***************************************************************************)
(* The event loop of the default server (Server/chatserver.cpp): epoll,    *)
(* accept, recv and send on descriptors that the kernel reuses, against    *)
(* clients that connect, send, read and close whenever they like.          *)
(*                                                                         *)
(* The server is one thread; between two of its system calls the clients   *)
(* and the kernel go on.  So here a handler is not one step: each recv,    *)
(* each packet, each send is.  What the packets say is left to ChatServer, *)
(* where a packet starts and ends to PacketStream: a packet is a unit, and *)
(* handling one means sending one to a set of sessions.  That a handler    *)
(* may end the process (ChatServer's DownloadDirectory) is left out.       *)
(***************************************************************************)
EXTENDS Naturals, Sequences, FiniteSets, SequencesExt

CONSTANTS
    Conns,       \* connections clients may make, each once
    NoConn,      \* what a free descriptor refers to
    MaxFd,       \* the descriptors for connections are 1..MaxFd
    MaxEvents,   \* kMaxEvents: the most events epoll_wait returns
    MaxSent,     \* bound: the packets a client sends on a connection,
    MaxAllSent,  \* and those that all of them send
    RecvCap,     \* packets a connection's receive buffer holds
    SendCap,     \* packets a connection's send buffer holds
    Readers,     \* the connections whose client keeps reading
    SetupErrors  \* whether accept may fail though a connection waits, and
                 \* fcntl or epoll_ctl on a new socket

ASSUME LoopAssumption ==
    /\ NoConn \notin Conns
    /\ MaxFd \in Nat \ {0}
    /\ MaxEvents \in Nat \ {0}
    /\ MaxSent \in Nat
    /\ MaxAllSent \in Nat
    /\ RecvCap \in Nat \ {0}
    /\ SendCap \in Nat \ {0}
    /\ Readers \subseteq Conns
    /\ SetupErrors \in BOOLEAN

Fds == 1..MaxFd
ListenFd == 0

VARIABLES
    (* The clients and the kernel. *)
    peer,      \* each client: "idle", "open", or "closed" once it shut down
    sent,      \* packets each client has sent
    inbox,     \* packets in the receive buffer of each connection
    outbox,    \* packets in the send buffer of each connection
    backlog,   \* connections that wait to be accepted, in order
    conn,      \* the connection each descriptor refers to
    (* The server. *)
    pc,        \* the call the server is at
    batch,     \* the events of the last epoll_wait not handled yet
    cur,       \* the descriptor of the event being handled
    sessions,  \* the keys of m_clients
    buffer,    \* packets in ClientSession::buffer of each session
    todo,      \* the descriptors the running broadcast has yet to send to
    back,      \* where the server goes on after the broadcast
    handled,   \* history: packets of each connection that were handled
    refused    \* history: connections whose socket could not be set up

peerVars == <<peer, sent>>
socketVars == <<inbox, outbox, backlog, conn>>
serverVars == <<pc, batch, cur, sessions, buffer, todo, back, handled,
                refused>>
vars == <<peerVars, socketVars, serverVars>>

\* An event of epoll: hup stands for EPOLLRDHUP and EPOLLHUP.  of, the
\* connection it is about, is what the kernel meant and the server cannot see.
Event == [fd : Fds \cup {ListenFd}, hup : BOOLEAN, of : Conns \cup {NoConn}]

TypeOK ==
    /\ peer \in [Conns -> {"idle", "open", "closed"}]
    /\ sent \in [Conns -> 0..MaxSent]
    /\ inbox \in [Conns -> 0..RecvCap]
    /\ outbox \in [Conns -> 0..SendCap]
    /\ backlog \in Seq(Conns)
    /\ conn \in [Fds -> Conns \cup {NoConn}]
    /\ pc \in {"wait", "next", "accept", "recv", "parse", "send"}
    /\ batch \subseteq Event
    /\ cur \in Fds \cup {ListenFd}
    /\ sessions \subseteq Fds
    /\ buffer \in [Fds -> 0..MaxSent]
    /\ todo \in Seq(Fds)
    /\ back \in {"next", "accept", "parse"}
    /\ handled \in [Conns -> 0..MaxSent]
    /\ refused \subseteq Conns

Init ==
    /\ peer = [c \in Conns |-> "idle"]
    /\ sent = [c \in Conns |-> 0]
    /\ inbox = [c \in Conns |-> 0]
    /\ outbox = [c \in Conns |-> 0]
    /\ backlog = <<>>
    /\ conn = [f \in Fds |-> NoConn]
    /\ pc = "wait"
    /\ batch = {}
    /\ cur = ListenFd
    /\ sessions = {}
    /\ buffer = [f \in Fds |-> 0]
    /\ todo = <<>>
    /\ back = "next"
    /\ handled = [c \in Conns |-> 0]
    /\ refused = {}

-----------------------------------------------------------------------------
(* The clients.                                                             *)

\* The connections the server holds a socket for.
Held == {conn[f] : f \in Fds} \ {NoConn}

\* The kernel completes a connection and takes its data before the server
\* accepts it.
Connect(c) ==
    /\ peer[c] = "idle"
    /\ peer' = [peer EXCEPT ![c] = "open"]
    /\ backlog' = Append(backlog, c)
    /\ UNCHANGED <<sent, inbox, outbox, conn, serverVars>>

Send(c) ==
    /\ peer[c] = "open"
    /\ c \in Held \cup Range(backlog)
    /\ sent[c] < MaxSent
    /\ Cardinality({p \in Conns \X (1..MaxSent) : p[2] <= sent[p[1]]})
         < MaxAllSent
    /\ inbox[c] < RecvCap
    /\ sent' = [sent EXCEPT ![c] = @ + 1]
    /\ inbox' = [inbox EXCEPT ![c] = @ + 1]
    /\ UNCHANGED <<peer, outbox, backlog, conn, serverVars>>

Read(c) ==
    /\ outbox[c] > 0
    /\ outbox' = [outbox EXCEPT ![c] = @ - 1]
    /\ UNCHANGED <<peerVars, inbox, backlog, conn, serverVars>>

\* The client shuts its side down; what it sent before stays readable.
Shut(c) ==
    /\ peer[c] = "open"
    /\ peer' = [peer EXCEPT ![c] = "closed"]
    /\ outbox' = [outbox EXCEPT ![c] = 0]
    /\ UNCHANGED <<sent, inbox, backlog, conn, serverVars>>

-----------------------------------------------------------------------------
(* epoll, level-triggered.                                                  *)

\* The events there are for the listening socket and for descriptor f.
ListenEvents ==
    IF backlog = <<>> THEN {}
    ELSE {[fd |-> ListenFd, hup |-> FALSE, of |-> NoConn]}

EventsOf(f) ==
    LET c == conn[f] IN
    IF c # NoConn /\ (inbox[c] > 0 \/ peer[c] = "closed")
    THEN {[fd |-> f, hup |-> peer[c] = "closed", of |-> c]}
    ELSE {}

Ready == ListenEvents \cup UNION {EventsOf(f) : f \in Fds}

\* epoll_wait returns: as many of the events as fit, in any order.
EpollWait ==
    /\ pc = "wait"
    /\ Ready # {}
    /\ \E b \in SUBSET Ready :
        /\ IF Cardinality(Ready) <= MaxEvents THEN b = Ready
           ELSE Cardinality(b) = MaxEvents
        /\ batch' = b
    /\ pc' = "next"
    /\ UNCHANGED <<peerVars, socketVars, cur, sessions, buffer, todo, back,
                   handled, refused>>

-----------------------------------------------------------------------------
(* Broadcasts.                                                              *)

\* The server turns to sending to the sessions in s, in the order m_clients
\* happens to have, and then to where.
SendToAll(s, where) ==
    /\ pc' = "send"
    /\ todo' \in SetToSeqs(s)
    /\ back' = where

\* A send the kernel takes.
SendTaken ==
    LET c == conn[Head(todo)] IN
    /\ pc = "send"
    /\ todo # <<>>
    /\ peer[c] = "open"
    /\ outbox[c] < SendCap
    /\ outbox' = [outbox EXCEPT ![c] = @ + 1]
    /\ todo' = Tail(todo)
    /\ UNCHANGED <<peerVars, inbox, backlog, conn, pc, batch, cur, sessions,
                   buffer, back, handled, refused>>

\* Mutant of SendLost: a send error erases the session at once, if it is not
\* the one whose event is being handled.
SendErases ==
    /\ pc = "send"
    /\ todo # <<>>
    /\ peer[conn[Head(todo)]] = "closed"
    /\ IF Head(todo) = cur THEN UNCHANGED <<sessions, conn>>
       ELSE /\ sessions' = sessions \ {Head(todo)}
            /\ conn' = [conn EXCEPT ![Head(todo)] = NoConn]
    /\ todo' = Tail(todo)
    /\ UNCHANGED <<peerVars, inbox, outbox, backlog, pc, batch, cur, buffer,
                   back, handled, refused>>

\* Mutant of SendLost: a send error ends the broadcast.
SendLostStops ==
    /\ pc = "send"
    /\ todo # <<>>
    /\ peer[conn[Head(todo)]] = "closed"
    /\ todo' = <<>>
    /\ UNCHANGED <<peerVars, socketVars, pc, batch, cur, sessions, buffer,
                   back, handled, refused>>

\* A send to a client that is gone: an error that sendPacket ignores, or data
\* the kernel throws away.
SendLost ==
    /\ pc = "send"
    /\ todo # <<>>
    /\ peer[conn[Head(todo)]] = "closed"
    /\ todo' = Tail(todo)
    /\ UNCHANGED <<peerVars, socketVars, pc, batch, cur, sessions, buffer,
                   back, handled, refused>>

\* The broadcast is over.  While a send buffer is full and its client is there
\* sendPacket repeats its send: then the server has no step to take at all.
SendsDone ==
    /\ pc = "send"
    /\ todo = <<>>
    /\ pc' = back
    /\ UNCHANGED <<peerVars, socketVars, batch, cur, sessions, buffer, todo,
                   back, handled, refused>>

-----------------------------------------------------------------------------
(* Events.                                                                  *)

\* Mutant of CloseClient: the descriptor is closed, its session kept.
CloseKeepingSession(f) ==
    /\ conn' = [conn EXCEPT ![f] = NoConn]
    /\ inbox' = [inbox EXCEPT ![conn[f]] = 0]
    /\ outbox' = [outbox EXCEPT ![conn[f]] = 0]
    /\ SendToAll({}, "next")
    /\ UNCHANGED <<sessions, buffer>>

\* closeClient(f), from any of its callers.  The others are sent a user list
\* if the session had a name.
CloseClient(f) ==
    /\ conn' = [conn EXCEPT ![f] = NoConn]
    /\ sessions' = sessions \ {f}
    /\ buffer' = [buffer EXCEPT ![f] = 0]
    /\ inbox' = [inbox EXCEPT ![conn[f]] = 0]
    /\ outbox' = [outbox EXCEPT ![conn[f]] = 0]
    /\ \E s \in {{}, sessions \ {f}} : SendToAll(s, "next")

\* run() takes the next event of the batch: a connection to accept, a hangup
\* to close, data to receive.
TakeEvent ==
    /\ pc = "next"
    /\ \E e \in batch :
        /\ batch' = batch \ {e}
        /\ cur' = e.fd
        /\ \/ /\ e.fd = ListenFd
              /\ pc' = "accept"
              /\ UNCHANGED <<socketVars, sessions, buffer, todo, back>>
           \/ /\ e.fd # ListenFd
              /\ e.hup
              /\ IF e.fd \in sessions
                 THEN CloseClient(e.fd) /\ UNCHANGED backlog
                 ELSE pc' = "next" /\ UNCHANGED <<socketVars, sessions, buffer,
                                                  todo, back>>
           \/ /\ e.fd # ListenFd
              /\ ~e.hup
              /\ pc' = "recv"
              /\ UNCHANGED <<socketVars, sessions, buffer, todo, back>>
    /\ UNCHANGED <<peerVars, handled, refused>>

BatchDone ==
    /\ pc = "next"
    /\ batch = {}
    /\ pc' = "wait"
    /\ UNCHANGED <<peerVars, socketVars, batch, cur, sessions, buffer, todo,
                   back, handled, refused>>

\* accept: the lowest free descriptor, a fresh session, a greeting.
FreeFds == {f \in Fds : conn[f] = NoConn}

AcceptOne ==
    /\ pc = "accept"
    /\ backlog # <<>>
    /\ \E f \in FreeFds :
        /\ \A g \in FreeFds : f <= g
        /\ conn' = [conn EXCEPT ![f] = Head(backlog)]
        /\ backlog' = Tail(backlog)
        /\ sessions' = sessions \cup {f}
        /\ buffer' = [buffer EXCEPT ![f] = 0]
        /\ SendToAll({f}, "accept")
    /\ UNCHANGED <<peerVars, inbox, outbox, batch, cur, handled, refused>>

\* fcntl or epoll_ctl fails on the new socket: it is closed.
AcceptFails ==
    /\ SetupErrors
    /\ pc = "accept"
    /\ backlog # <<>>
    /\ FreeFds # {}
    /\ inbox' = [inbox EXCEPT ![Head(backlog)] = 0]
    /\ backlog' = Tail(backlog)
    /\ refused' = refused \cup {Head(backlog)}
    /\ UNCHANGED <<peerVars, outbox, conn, pc, batch, cur, sessions, buffer,
                   todo, back, handled>>

\* accept returns an error: no connection waits, no descriptor is free, or
\* another one, EINTR say.
AcceptsDone ==
    /\ pc = "accept"
    /\ backlog = <<>> \/ FreeFds = {} \/ SetupErrors
    /\ pc' = "next"
    /\ UNCHANGED <<peerVars, socketVars, batch, cur, sessions, buffer, todo,
                   back, handled, refused>>

-----------------------------------------------------------------------------
(* Data.                                                                    *)

\* Mutant of Received: what one recv returns is taken for one packet.
ReceivedAsOne(k) == buffer[cur] + 1

\* The packets of the session's buffer once k more are appended.
Received(k) == buffer[cur] + k

\* recv returns data, any part of what there is.
Recv ==
    /\ pc = "recv"
    /\ \E k \in 1..inbox[conn[cur]] :
        /\ inbox' = [inbox EXCEPT ![conn[cur]] = @ - k]
        /\ buffer' = [buffer EXCEPT ![cur] = Received(k)]
    /\ pc' = "parse"
    /\ UNCHANGED <<peerVars, outbox, backlog, conn, batch, cur, sessions, todo,
                   back, handled, refused>>

\* Mutant of RecvEnd: recv is tried again.
RecvEndRetries ==
    /\ pc = "recv"
    /\ inbox[conn[cur]] = 0
    /\ peer[conn[cur]] = "closed"
    /\ UNCHANGED vars

\* recv returns 0 or an error: the client closed after the event was reported.
RecvEnd ==
    /\ pc = "recv"
    /\ inbox[conn[cur]] = 0
    /\ peer[conn[cur]] = "closed"
    /\ CloseClient(cur)
    /\ UNCHANGED <<peerVars, backlog, batch, cur, handled, refused>>

\* Mutant of RecvAgain: EAGAIN is taken for EINTR.
RecvAgainRetries ==
    /\ pc = "recv"
    /\ inbox[conn[cur]] = 0
    /\ peer[conn[cur]] = "open"
    /\ UNCHANGED vars

\* Mutant of RecvAgain: EAGAIN closes the session.
RecvAgainCloses ==
    /\ pc = "recv"
    /\ inbox[conn[cur]] = 0
    /\ peer[conn[cur]] = "open"
    /\ CloseClient(cur)
    /\ UNCHANGED <<peerVars, backlog, batch, cur, handled, refused>>

\* recv returns EAGAIN.
RecvAgain ==
    /\ pc = "recv"
    /\ inbox[conn[cur]] = 0
    /\ peer[conn[cur]] = "open"
    /\ pc' = "next"
    /\ UNCHANGED <<peerVars, socketVars, batch, cur, sessions, buffer, todo,
                   back, handled, refused>>

\* Mutant of HandlePacket: the packet stays in the buffer.
HandlePacketKeeping ==
    /\ pc = "parse"
    /\ buffer[cur] > 0
    /\ handled' = [handled EXCEPT ![conn[cur]] = @ + 1]
    /\ \E s \in {{}, {cur}, sessions \ {cur}, sessions} : SendToAll(s, "parse")
    /\ UNCHANGED <<peerVars, socketVars, batch, cur, sessions, buffer, refused>>

\* handlePacket on the next packet of the buffer.  What it answers goes to
\* nobody, to the sender, to the others, or to all; no handler closes a
\* session, so the one that is being read is there afterwards.
HandlePacket ==
    /\ pc = "parse"
    /\ buffer[cur] > 0
    /\ buffer' = [buffer EXCEPT ![cur] = @ - 1]
    /\ handled' = [handled EXCEPT ![conn[cur]] = @ + 1]
    /\ \E s \in {{}, {cur}, sessions \ {cur}, sessions} : SendToAll(s, "parse")
    /\ UNCHANGED <<peerVars, socketVars, batch, cur, sessions, refused>>

\* Mutant of ParseDone: one packet is handled for each recv.
ParseOnce ==
    /\ pc = "parse"
    /\ pc' = "recv"
    /\ UNCHANGED <<peerVars, socketVars, batch, cur, sessions, buffer, todo,
                   back, handled, refused>>

\* No packet is left: recv again.
ParseDone ==
    /\ pc = "parse"
    /\ buffer[cur] = 0
    /\ pc' = "recv"
    /\ UNCHANGED <<peerVars, socketVars, batch, cur, sessions, buffer, todo,
                   back, handled, refused>>

-----------------------------------------------------------------------------

ServerStep ==
    \/ EpollWait \/ TakeEvent \/ BatchDone
    \/ AcceptOne \/ AcceptFails \/ AcceptsDone
    \/ Recv \/ RecvEnd \/ RecvAgain \/ HandlePacket \/ ParseDone
    \/ SendTaken \/ SendLost \/ SendsDone

Next ==
    \/ ServerStep
    \/ \E c \in Conns : Connect(c) \/ Send(c) \/ Read(c) \/ Shut(c)

\* The server's thread runs, and accept does not fail for ever; clients owe
\* nothing, except that those in Readers read what arrives.
Fairness ==
    /\ WF_vars(ServerStep)
    /\ SF_vars(AcceptOne \/ AcceptFails)
    /\ \A c \in Readers : WF_vars(Read(c))

Spec == Init /\ [][Next]_vars /\ Fairness

-----------------------------------------------------------------------------
(* Properties.                                                              *)

\* An event the server has not got to yet is still about the connection the
\* kernel reported it for, although descriptors are closed and reused while
\* the batch is worked off: an event closes no descriptor but its own.
EventsCurrent ==
    \A e \in batch :
        e.fd # ListenFd => e.fd \in sessions /\ conn[e.fd] = e.of

\* m_clients and the open descriptors are the same at every system call, so
\* that no recv or send is on a closed or foreign descriptor, and m_clients[fd]
\* never makes a session of its own.
SessionsAreSockets ==
    /\ sessions = {f \in Fds : conn[f] # NoConn}
    /\ Range(todo) \subseteq sessions
    /\ pc \in {"recv", "parse"} \/ (pc = "send" /\ back = "parse")
        => cur \in sessions

\* While a connection has its session no packet of it is lost or handled
\* twice: what was sent was handled or waits in one of the two buffers.
NothingLost ==
    \A f \in sessions :
        sent[conn[f]] = handled[conn[f]] + buffer[f] + inbox[conn[f]]

\* Only a client that leaves, or whose socket could not be set up, loses what
\* it sent: an open connection waits to be accepted or has its session, and
\* each of its packets was handled or waits.  (A hangup may cost packets that
\* arrived before it.)
OnlyLeaversLose ==
    \A c \in Conns : peer[c] = "open" /\ c \notin refused =>
        \/ c \in Range(backlog) /\ sent[c] = inbox[c]
        \/ \E f \in sessions :
              conn[f] = c /\ sent[c] = handled[c] + buffer[f] + inbox[c]

\* All descriptors are in use, and c waits for one.
NoDescriptorFor(c) == c \in Range(backlog) /\ FreeFds = {}

\* A packet sent on a connection that stays open is handled, if the clients
\* read; of one that was made when all descriptors were in use, too, once there
\* is a descriptor again.
EveryPacketHandled ==
    \A c \in Conns, k \in 1..MaxSent :
        []<>(sent[c] >= k =>
                \/ handled[c] >= k \/ peer[c] = "closed" \/ c \in refused
                \/ NoDescriptorFor(c))

\* A client that closes is noticed, and its session erased.
EveryCloseNoticed ==
    \A c \in Conns :
        []<>(peer[c] = "closed" =>
                c \notin Held \cup Range(backlog) \/ NoDescriptorFor(c))

\* The server comes back to epoll_wait, whatever one client does.
AlwaysReturns == []<>(pc = "wait")

=============================================================================
