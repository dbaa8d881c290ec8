------------------------------- MODULE Reactor -------------------------------
(***************************************************************************)
(* The dispatch of the Reactor server (Server_Reactor): the tables that    *)
(* lead from a descriptor to a handler, kept by three objects, and changed *)
(* by the callbacks that are called through them.                          *)
(*                                                                         *)
(*   EventDemultiplexer::handlers     descriptor -> EventHandler pointer   *)
(*   ReactorImplementation::handlers  descriptor -> EventHandler pointer   *)
(*   ChatServer::m_clientHandlers     descriptor -> the handler it owns    *)
(*   ChatServer::m_clients            descriptor -> session                *)
(*                                                                         *)
(* A handler is named by the connection it was made for, and is alive as   *)
(* long as m_clientHandlers owns it.  A handler that reads takes one       *)
(* packet per step; how recv cuts packets is left to EventLoop, which has  *)
(* the same loop, and what they say to ReactorServer.                      *)
(*                                                                         *)
(* The demultiplexer is EpollDemultiplexer, the one of the default build.  *)
(***************************************************************************)
EXTENDS Naturals, Sequences, FiniteSets, Functions

CONSTANTS
    Conns,        \* connections clients may make, each once
    None,         \* no connection, no handler
    MaxFd,        \* the descriptors for connections are 1..MaxFd
    MaxEvents,    \* max_event: the most events epoll_wait returns
    MaxSends,     \* bound: the packets that clients send, together
    SetupErrors   \* whether accept may fail though a connection waits, and
                  \* fcntl and epoll_ctl on a new descriptor

ASSUME ReactorAssumption ==
    /\ None \notin Conns
    /\ MaxFd \in Nat \ {0}
    /\ MaxEvents \in Nat \ {0}
    /\ MaxSends \in Nat
    /\ SetupErrors \in BOOLEAN

Fds == 1..MaxFd
ListenFd == 0

VARIABLES
    (* The clients and the kernel. *)
    peer,       \* each client: "idle", "open", or "closed"
    sends,      \* packets the clients have sent
    unread,     \* packets of each connection the server has not received
    backlog,    \* connections that wait to be accepted, in order
    conn,       \* the connection each descriptor refers to
    armed,      \* the descriptors in the epoll set
    (* The server. *)
    demux,      \* EventDemultiplexer::handlers
    reactor,    \* ReactorImplementation::handlers
    owned,      \* ChatServer::m_clientHandlers
    sessions,   \* the keys of ChatServer::m_clients
    pc,         \* "wait" for events, "walk" over them, "accept", or "read"
    batch,      \* the events wait_event has yet to look at
    cur,        \* the descriptor whose handler reads, or ListenFd
    (* History. *)
    refused     \* connections that epoll_ctl failed to add

netVars == <<peer, sends, unread>>
tableVars == <<conn, armed, demux, reactor, owned, sessions>>
vars == <<netVars, backlog, tableVars, pc, batch, cur, refused>>

\* An event: EPOLLIN, or EPOLLERR and EPOLLHUP.
Event == [fd : Fds \cup {ListenFd}, ready : {"read", "error"}]

TypeOK ==
    /\ peer \in [Conns -> {"idle", "open", "closed"}]
    /\ sends \in 0..MaxSends
    /\ unread \in [Conns -> 0..MaxSends]
    /\ backlog \in Seq(Conns)
    /\ conn \in [Fds -> Conns \cup {None}]
    /\ armed \subseteq Fds
    /\ demux \in [Fds -> Conns \cup {None}]
    /\ reactor \in [Fds -> Conns \cup {None}]
    /\ owned \in [Fds -> Conns \cup {None}]
    /\ sessions \subseteq Fds
    /\ pc \in {"wait", "walk", "accept", "read"}
    /\ batch \subseteq Event
    /\ cur \in Fds \cup {ListenFd}
    /\ refused \subseteq Conns

NoEntries == [f \in Fds |-> None]

Init ==
    /\ peer = [c \in Conns |-> "idle"]
    /\ sends = 0
    /\ unread = [c \in Conns |-> 0]
    /\ backlog = <<>>
    /\ conn = NoEntries
    /\ armed = {}
    /\ demux = NoEntries
    /\ reactor = NoEntries
    /\ owned = NoEntries
    /\ sessions = {}
    /\ pc = "wait"
    /\ batch = {}
    /\ cur = ListenFd
    /\ refused = {}

-----------------------------------------------------------------------------
(* The clients.                                                             *)

Connect(c) ==
    /\ peer[c] = "idle"
    /\ peer' = [peer EXCEPT ![c] = "open"]
    /\ backlog' = Append(backlog, c)
    /\ UNCHANGED <<sends, unread, tableVars, pc, batch, cur, refused>>

Send(c) ==
    /\ peer[c] = "open"
    /\ c \in Range(conn) \cup Range(backlog)
    /\ sends < MaxSends
    /\ sends' = sends + 1
    /\ unread' = [unread EXCEPT ![c] = @ + 1]
    /\ UNCHANGED <<peer, backlog, tableVars, pc, batch, cur, refused>>

Close(c) ==
    /\ peer[c] = "open"
    /\ peer' = [peer EXCEPT ![c] = "closed"]
    /\ UNCHANGED <<sends, unread, backlog, tableVars, pc, batch, cur, refused>>

-----------------------------------------------------------------------------
(* EventDemultiplexer.                                                      *)

\* regist(f, h): a descriptor that has an entry is modified, which the kernel
\* refuses for one that is not in its set; another one is added.
CanRegist(f) == demux[f] = None \/ f \in armed

Regist(f, h) ==
    \/ /\ CanRegist(f)
       /\ demux' = [demux EXCEPT ![f] = h]
       /\ armed' = armed \cup {f}
       /\ UNCHANGED refused
    \/ /\ ~CanRegist(f)
       /\ UNCHANGED <<demux, armed, refused>>
    \/ /\ SetupErrors
       /\ refused' = refused \cup {h}
       /\ UNCHANGED <<demux, armed>>

\* Mutant of Remove: the descriptor leaves the kernel's set only.
RemoveFromKernel(f) ==
    /\ armed' = armed \ {f}
    /\ UNCHANGED demux

Remove(f) ==
    /\ armed' = armed \ {f}
    /\ demux' = [demux EXCEPT ![f] = None]

\* What the kernel has to say about the listening socket and about f.
ListenReady == IF backlog = <<>> THEN {} ELSE {"read"}

ReadyOf(f) ==
    IF f \notin armed THEN {}
    ELSE IF peer[conn[f]] = "closed" THEN {"read", "error"}
    ELSE IF unread[conn[f]] > 0 THEN {"read"}
    ELSE {}

\* epoll_wait fills the array with the events there are, or with as many as
\* fit.
ReadyFds ==
    {f \in Fds : ReadyOf(f) # {}}
        \cup (IF ListenReady = {} THEN {} ELSE {ListenFd})

Wait ==
    /\ pc = "wait"
    /\ ReadyFds # {}
    /\ \E fs \in SUBSET ReadyFds :
        /\ IF Cardinality(ReadyFds) <= MaxEvents THEN fs = ReadyFds
           ELSE Cardinality(fs) = MaxEvents
        /\ \E event \in [fs -> {"read", "error"}] :
            /\ \A f \in fs :
                event[f] \in (IF f = ListenFd THEN ListenReady ELSE ReadyOf(f))
            /\ batch' = {[fd |-> f, ready |-> event[f]] : f \in fs}
    /\ pc' = "walk"
    /\ UNCHANGED <<netVars, backlog, tableVars, cur, refused>>

-----------------------------------------------------------------------------
(* The callbacks.                                                           *)

\* Mutant of CloseClient: the handler stays registered.
CloseClientKeepingHandler(f) ==
    /\ owned' = [owned EXCEPT ![f] = None]
    /\ conn' = [conn EXCEPT ![f] = None]
    /\ unread' = [unread EXCEPT ![conn[f]] = 0]
    /\ sessions' = sessions \ {f}
    /\ armed' = armed \ {f}
    /\ UNCHANGED <<demux, reactor>>

\* closeClient(f): the handler is taken from the tables and destroyed, the
\* descriptor closed with what it had not received, the session erased.
CloseClient(f) ==
    /\ Remove(f)
    /\ reactor' = [reactor EXCEPT ![f] = None]
    /\ owned' = [owned EXCEPT ![f] = None]
    /\ conn' = [conn EXCEPT ![f] = None]
    /\ unread' = [unread EXCEPT ![conn[f]] = 0]
    /\ sessions' = sessions \ {f}

\* wait_event comes to event v.
Looks(v) ==
    /\ pc = "walk"
    /\ v \in batch
    /\ batch' = batch \ {v}

\* An event whose descriptor has no handler any more is skipped.
Skip(v) ==
    /\ Looks(v)
    /\ v.fd # ListenFd /\ demux[v.fd] = None
    /\ UNCHANGED <<netVars, backlog, tableVars, pc, cur, refused>>

\* handle_read of the listening handler.
AcceptReady(v) ==
    /\ Looks(v)
    /\ v.fd = ListenFd
    /\ pc' = "accept"
    /\ UNCHANGED <<netVars, backlog, tableVars, cur, refused>>

\* handle_error of a client's handler.
ClientError(v) ==
    /\ Looks(v)
    /\ v.fd # ListenFd /\ v.ready = "error" /\ demux[v.fd] # None
    /\ CloseClient(v.fd)
    /\ UNCHANGED <<peer, sends, backlog, pc, cur, refused>>

\* handle_read of a client's handler.
ClientReadable(v) ==
    /\ Looks(v)
    /\ v.fd # ListenFd /\ v.ready = "read" /\ demux[v.fd] # None
    /\ pc' = "read"
    /\ cur' = v.fd
    /\ UNCHANGED <<netVars, backlog, tableVars, refused>>

\* It receives and handles the next packet.
TakePacket ==
    /\ pc = "read"
    /\ unread[conn[cur]] > 0
    /\ unread' = [unread EXCEPT ![conn[cur]] = @ - 1]
    /\ UNCHANGED <<peer, sends, backlog, tableVars, pc, batch, cur, refused>>

\* It finds the end of the connection, now or since the event.
ReadEnd ==
    /\ pc = "read"
    /\ unread[conn[cur]] = 0 /\ peer[conn[cur]] = "closed"
    /\ CloseClient(cur)
    /\ pc' = "walk"
    /\ cur' = ListenFd
    /\ UNCHANGED <<peer, sends, backlog, batch, refused>>

\* It finds nothing more to receive: EAGAIN.
ReadAgain ==
    /\ pc = "read"
    /\ unread[conn[cur]] = 0 /\ peer[conn[cur]] = "open"
    /\ pc' = "walk"
    /\ cur' = ListenFd
    /\ UNCHANGED <<netVars, backlog, tableVars, batch, refused>>

\* handleNewConnections: one more connection gets the lowest free descriptor,
\* a handler and a session, whether regist succeeded or not.
FreeFds == {f \in Fds : conn[f] = None}

AcceptOne ==
    /\ pc = "accept"
    /\ backlog # <<>>
    /\ backlog' = Tail(backlog)
    /\ \E f \in FreeFds :
        /\ \A g \in FreeFds : f <= g
        /\ conn' = [conn EXCEPT ![f] = Head(backlog)]
        /\ reactor' = [reactor EXCEPT ![f] = Head(backlog)]
        /\ Regist(f, Head(backlog))
        /\ owned' = [owned EXCEPT ![f] = Head(backlog)]
        /\ sessions' = sessions \cup {f}
    /\ UNCHANGED <<netVars, pc, batch, cur>>

\* The same, where the descriptor cannot be made non-blocking: it is closed.
AcceptFails ==
    /\ SetupErrors
    /\ pc = "accept"
    /\ backlog # <<>> /\ FreeFds # {}
    /\ backlog' = Tail(backlog)
    /\ unread' = [unread EXCEPT ![Head(backlog)] = 0]
    /\ UNCHANGED <<peer, sends, tableVars, pc, batch, cur, refused>>

AcceptsDone ==
    /\ pc = "accept"
    /\ backlog = <<>> \/ FreeFds = {} \/ SetupErrors
    /\ pc' = "walk"
    /\ UNCHANGED <<netVars, backlog, tableVars, batch, cur, refused>>

\* event_loop calls wait_event again.
Again ==
    /\ pc = "walk"
    /\ batch = {}
    /\ pc' = "wait"
    /\ UNCHANGED <<netVars, backlog, tableVars, batch, cur, refused>>

-----------------------------------------------------------------------------

ServerStep ==
    \/ Wait \/ Again \/ AcceptOne \/ AcceptFails \/ AcceptsDone
    \/ TakePacket \/ ReadEnd \/ ReadAgain
    \/ \E v \in batch :
        Skip(v) \/ AcceptReady(v) \/ ClientError(v) \/ ClientReadable(v)

Next ==
    \/ ServerStep
    \/ \E c \in Conns : Connect(c) \/ Send(c) \/ Close(c)

Spec == Init /\ [][Next]_vars

-----------------------------------------------------------------------------
(* Properties.                                                              *)

\* No table leads to a handler that was destroyed, or to the handler of a
\* connection that had the descriptor before, although callbacks destroy the
\* handlers they run on and descriptors are reused.
HandlersAlive ==
    \A f \in Fds :
        /\ demux[f] # None => demux[f] = owned[f]
        /\ reactor[f] = owned[f]
        /\ owned[f] = conn[f]
        /\ f \in sessions <=> conn[f] # None

\* Events reach every session, on a fresh descriptor or on one used before,
\* unless registering its descriptor failed.
SessionsReached ==
    \A f \in sessions : (f \in armed /\ demux[f] = conn[f]) \/ conn[f] \in refused

\* The dispatch is sound.
ReactorInv == TypeOK /\ HandlersAlive /\ SessionsReached

=============================================================================
