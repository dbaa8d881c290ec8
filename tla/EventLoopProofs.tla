--------------------------- MODULE EventLoopProofs ---------------------------
(***************************************************************************)
(* Proofs about the event loop of the default server, for any number of    *)
(* connections, descriptors, events and packets: what the loop believes of *)
(* its descriptors is true, and no packet gets lost on the way through it. *)
(***************************************************************************)
EXTENDS LoopServer, FiniteSetTheorems, TLAPS

-----------------------------------------------------------------------------
(* The inductive invariant.                                                 *)

\* Each connection is in one place: it has not been made, or waits once in the
\* backlog, or has one descriptor, or is over.
OnePlace ==
    /\ IsInjective(backlog)
    /\ \A c \in Range(backlog) :
        /\ peer[c] # "idle"
        /\ \A f \in Fds : conn[f] # c
        /\ sent[c] = inbox[c]
        /\ handled[c] = 0
    /\ \A f \in Fds : conn[f] # NoConn => peer[conn[f]] # "idle"
    /\ \A f, g \in Fds : conn[f] = conn[g] /\ conn[f] # NoConn => f = g
    /\ \A c \in Conns :
        peer[c] = "idle" => sent[c] = 0 /\ inbox[c] = 0 /\ handled[c] = 0

\* A batch has one event for each descriptor, none for the one whose data are
\* being read, and a hangup only of a client that has closed.
BatchInv ==
    /\ \A e, d \in batch : e.fd = d.fd => e = d
    /\ \A e \in batch : e.hup => e.fd # ListenFd /\ peer[e.of] = "closed"
    /\ pc \in {"recv", "parse"} \/ (pc = "send" /\ back = "parse")
        => \A e \in batch : e.fd # cur

LoopInv ==
    /\ TypeOK
    /\ EventsCurrent
    /\ SessionsAreSockets
    /\ NothingLost
    /\ OnlyLeaversLose
    /\ OnePlace
    /\ BatchInv

-----------------------------------------------------------------------------
(* The backlog is a queue, a broadcast a sequence of descriptors.           *)

LEMMA QueueAppend ==
    ASSUME NEW S, NEW q \in Seq(S), IsInjective(q), NEW x \in S, x \notin Range(q)
    PROVE  /\ Append(q, x) \in Seq(S)
           /\ IsInjective(Append(q, x))
           /\ Range(Append(q, x)) = Range(q) \cup {x}
<1> DEFINE r == Append(q, x)
<1>1. r \in Seq(S) /\ Len(r) = Len(q) + 1 /\ r[Len(q) + 1] = x
  OBVIOUS
<1>2. \A i \in 1..Len(q) : r[i] = q[i]
  OBVIOUS
<1>3. DOMAIN q = 1..Len(q) /\ DOMAIN r = 1..(Len(q) + 1) /\ Len(q) \in Nat
  BY <1>1
<1>4. \A i \in 1..(Len(q) + 1) : i \in 1..Len(q) \/ i = Len(q) + 1
  BY <1>3
<1> HIDE DEF r
<1>5. Range(r) = Range(q) \cup {x}
  <2>1. Range(q) \cup {x} \subseteq Range(r)
    BY <1>1, <1>2, <1>3 DEF Range
  <2>2. Range(r) \subseteq Range(q) \cup {x}
    BY <1>1, <1>2, <1>3, <1>4 DEF Range
  <2> QED
    BY <2>1, <2>2
<1>6. IsInjective(r)
  BY <1>1, <1>2, <1>3, <1>4 DEF IsInjective, Range
<1> QED
  BY <1>1, <1>5, <1>6 DEF r

LEMMA QueueTail ==
    ASSUME NEW S, NEW q \in Seq(S), q # <<>>
    PROVE  /\ Head(q) \in Range(q)
           /\ Head(q) \in S
           /\ Tail(q) \in Seq(S)
           /\ Range(q) = Range(Tail(q)) \cup {Head(q)}
           /\ IsInjective(q) => IsInjective(Tail(q)) /\ Head(q) \notin Range(Tail(q))
<1> DEFINE t == Tail(q)
<1>1. t \in Seq(S) /\ Len(t) = Len(q) - 1 /\ Len(q) \in Nat /\ Len(q) > 0
  OBVIOUS
<1>2. \A i \in 1..(Len(q) - 1) : t[i] = q[i + 1]
  OBVIOUS
<1>3. Head(q) = q[1] /\ DOMAIN q = 1..Len(q) /\ DOMAIN t = 1..(Len(q) - 1)
  BY <1>1
<1>4. \A i \in 1..Len(q) : i = 1 \/ (i - 1 \in 1..(Len(q) - 1) /\ q[i] = t[i - 1])
  BY <1>1, <1>2
<1>5. \A i \in 1..(Len(q) - 1) : i + 1 \in 1..Len(q) /\ i + 1 # 1
  BY <1>1
<1>6. Head(q) \in Range(q) /\ Head(q) \in S
  BY <1>1, <1>3 DEF Range
<1> HIDE DEF t
<1>7. Range(q) = Range(t) \cup {Head(q)}
  <2>1. Range(q) \subseteq Range(t) \cup {Head(q)}
    BY <1>3, <1>4 DEF Range
  <2>2. Range(t) \cup {Head(q)} \subseteq Range(q)
    BY <1>2, <1>3, <1>5, <1>6 DEF Range
  <2> QED
    BY <2>1, <2>2
<1>8. ASSUME IsInjective(q)
      PROVE  IsInjective(t) /\ Head(q) \notin Range(t)
  <2>1. \A i, j \in 1..(Len(q) - 1) : t[i] = t[j] => i = j
    BY <1>1, <1>2, <1>3, <1>5, <1>8 DEF IsInjective
  <2>2. \A i \in 1..(Len(q) - 1) : t[i] # q[1]
    BY <1>1, <1>2, <1>3, <1>5, <1>8 DEF IsInjective
  <2> QED
    BY <1>3, <2>1, <2>2 DEF IsInjective, Range
<1> QED
  BY <1>1, <1>6, <1>7, <1>8 DEF t

\* A broadcast goes to the sessions it is for and to no one else.
LEMMA BroadcastTo ==
    ASSUME NEW s \in SUBSET Fds, NEW q \in SetToSeqs(s)
    PROVE  q \in Seq(Fds) /\ Range(q) \subseteq s
<1>1. IsFiniteSet(Fds)
  BY LoopAssumption, FS_Interval DEF Fds, LoopAssumption
<1>2. Cardinality(s) \in Nat
  BY <1>1, FS_Subset, FS_CardinalityType
<1>3. q \in [1..Cardinality(s) -> s]
  BY DEF SetToSeqs
<1> QED
  BY <1>2, <1>3 DEF Range

-----------------------------------------------------------------------------
(* The steps.                                                               *)

\* Whether the server is at the data of the descriptor cur.
Reading(p, b) == p \in {"recv", "parse"} \/ (p = "send" /\ b = "parse")

LEMMA ListenFdApart == ListenFd \notin Fds /\ Fds \subseteq Nat
BY LoopAssumption DEF ListenFd, Fds, LoopAssumption

\* Steps that leave descriptors, sessions and packets alone.
LEMMA SocketsUntouched ==
    ASSUME LoopInv,
           UNCHANGED <<peer, sent, inbox, backlog, conn, sessions, buffer,
                       handled, refused>>,
           TypeOK', EventsCurrent', BatchInv', Range(todo') \subseteq sessions,
           Reading(pc', back') => cur' \in sessions
    PROVE  LoopInv'
<1>1. SessionsAreSockets'
  BY DEF LoopInv, SessionsAreSockets, Reading
<1>2. NothingLost' /\ OnlyLeaversLose'
  BY DEF LoopInv, NothingLost, OnlyLeaversLose
<1>3. OnePlace'
  BY DEF LoopInv, OnePlace
<1> QED
  BY <1>1, <1>2, <1>3 DEF LoopInv

LEMMA InitSound == Init => LoopInv
<1> SUFFICES ASSUME Init PROVE LoopInv
  OBVIOUS
<1> USE LoopAssumption, ListenFdApart DEF LoopAssumption
<1>1. TypeOK
  BY DEF Init, TypeOK
<1>2. backlog = <<>> /\ Range(backlog) = {} /\ IsInjective(backlog) /\ Range(todo) = {}
  BY DEF Init, Range, IsInjective
<1>3. EventsCurrent /\ SessionsAreSockets /\ NothingLost /\ OnlyLeaversLose
  BY <1>2 DEF Init, EventsCurrent, SessionsAreSockets, NothingLost, OnlyLeaversLose
<1>4. OnePlace /\ BatchInv
  BY <1>2 DEF Init, OnePlace, BatchInv
<1> QED
  BY <1>1, <1>3, <1>4 DEF LoopInv

LEMMA ConnectKeeps ==
    ASSUME LoopInv, NEW c \in Conns, Connect(c)
    PROVE  LoopInv'
<1>1. /\ peer[c] = "idle" /\ peer' = [peer EXCEPT ![c] = "open"]
      /\ backlog' = Append(backlog, c)
      /\ UNCHANGED <<sent, inbox, outbox, conn, pc, batch, cur, sessions, buffer,
                     todo, back, handled, refused>>
  BY DEF Connect, serverVars
<1>2. backlog \in Seq(Conns) /\ IsInjective(backlog) /\ c \notin Range(backlog)
  BY <1>1 DEF LoopInv, TypeOK, OnePlace
<1>3. /\ backlog' \in Seq(Conns) /\ IsInjective(backlog')
      /\ Range(backlog') = Range(backlog) \cup {c}
  BY <1>1, <1>2, QueueAppend
<1>4. TypeOK'
  BY <1>1, <1>3 DEF LoopInv, TypeOK
<1>5. EventsCurrent' /\ SessionsAreSockets' /\ NothingLost'
  BY <1>1 DEF LoopInv, EventsCurrent, SessionsAreSockets, NothingLost
<1>6. sent[c] = 0 /\ inbox[c] = 0 /\ handled[c] = 0 /\ \A f \in Fds : conn[f] # c
  BY <1>1, LoopAssumption DEF LoopInv, OnePlace, LoopAssumption
<1>7. OnlyLeaversLose'
  BY <1>1, <1>3, <1>6 DEF LoopInv, TypeOK, OnlyLeaversLose
<1>8. OnePlace'
  BY <1>1, <1>3, <1>6 DEF LoopInv, TypeOK, OnePlace
<1>9. BatchInv'
  <2>1. \A e \in batch : e.hup => e.of \in Conns /\ e.of # c
    BY <1>1, LoopAssumption
       DEF LoopInv, TypeOK, BatchInv, EventsCurrent, SessionsAreSockets, LoopAssumption
  <2> QED
    BY <1>1, <2>1 DEF LoopInv, TypeOK, BatchInv
<1> QED
  BY <1>4, <1>5, <1>7, <1>8, <1>9 DEF LoopInv

LEMMA SendKeeps ==
    ASSUME LoopInv, NEW c \in Conns, Send(c)
    PROVE  LoopInv'
<1>1. /\ peer[c] = "open" /\ sent[c] < MaxSent /\ inbox[c] < RecvCap
      /\ sent' = [sent EXCEPT ![c] = @ + 1] /\ inbox' = [inbox EXCEPT ![c] = @ + 1]
      /\ UNCHANGED <<peer, outbox, backlog, conn, pc, batch, cur, sessions, buffer,
                     todo, back, handled, refused>>
  BY DEF Send, serverVars
<1>2. /\ \A d \in Conns : sent[d] \in 0..MaxSent /\ inbox[d] \in 0..RecvCap
                          /\ handled[d] \in 0..MaxSent
      /\ \A f \in Fds : buffer[f] \in 0..MaxSent
      /\ \A f \in sessions : conn[f] \in Conns
  BY LoopAssumption DEF LoopInv, TypeOK, SessionsAreSockets, LoopAssumption
<1>3. /\ \A d \in Conns \ {c} : sent'[d] = sent[d] /\ inbox'[d] = inbox[d]
      /\ sent'[c] = sent[c] + 1 /\ inbox'[c] = inbox[c] + 1
  BY <1>1 DEF LoopInv, TypeOK
<1>4. TypeOK'
  <2>1. sent[c] + 1 \in 0..MaxSent /\ inbox[c] + 1 \in 0..RecvCap
    BY <1>1, <1>2, LoopAssumption DEF LoopAssumption
  <2> QED
    BY <1>1, <2>1 DEF LoopInv, TypeOK
<1>5. EventsCurrent' /\ SessionsAreSockets' /\ BatchInv'
  BY <1>1 DEF LoopInv, EventsCurrent, SessionsAreSockets, BatchInv
<1>6. NothingLost'
  BY <1>1, <1>2, <1>3 DEF LoopInv, NothingLost, TypeOK
<1>7. OnlyLeaversLose'
  BY <1>1, <1>2, <1>3 DEF LoopInv, TypeOK, OnlyLeaversLose
<1>8. OnePlace'
  BY <1>1, <1>2, <1>3 DEF LoopInv, OnePlace, TypeOK
<1> QED
  BY <1>4, <1>5, <1>6, <1>7, <1>8 DEF LoopInv

LEMMA ShutKeeps ==
    ASSUME LoopInv, NEW c \in Conns, Shut(c)
    PROVE  LoopInv'
<1>1. /\ peer[c] = "open" /\ peer' = [peer EXCEPT ![c] = "closed"]
      /\ outbox' = [outbox EXCEPT ![c] = 0]
      /\ UNCHANGED <<sent, inbox, backlog, conn, pc, batch, cur, sessions, buffer,
                     todo, back, handled, refused>>
  BY DEF Shut, serverVars
<1>2. TypeOK'
  BY <1>1, LoopAssumption DEF LoopInv, TypeOK, LoopAssumption
<1>3. \A d \in Conns : peer'[d] = IF d = c THEN "closed" ELSE peer[d]
  BY <1>1 DEF LoopInv, TypeOK
<1>4. EventsCurrent' /\ SessionsAreSockets' /\ NothingLost'
  BY <1>1 DEF LoopInv, EventsCurrent, SessionsAreSockets, NothingLost
<1>5. OnlyLeaversLose'
  BY <1>1, <1>3 DEF LoopInv, OnlyLeaversLose
<1>6. OnePlace'
  <2>1. \A f \in Fds : conn[f] # NoConn => conn[f] \in Conns
    BY DEF LoopInv, TypeOK
  <2>2. Range(backlog) \subseteq Conns
    BY DEF LoopInv, TypeOK, Range
  <2> QED
    BY <1>1, <1>3, <2>1, <2>2 DEF LoopInv, OnePlace
<1>7. BatchInv'
  <2>1. \A e \in batch : e.hup => e.of \in Conns
    BY LoopAssumption
       DEF LoopInv, TypeOK, BatchInv, EventsCurrent, SessionsAreSockets, LoopAssumption
  <2> QED
    BY <1>1, <1>3, <2>1 DEF LoopInv, BatchInv
<1> QED
  BY <1>2, <1>4, <1>5, <1>6, <1>7 DEF LoopInv

\* What NothingLost and the types say of the session that is being read.
LEMMA ReadSession ==
    ASSUME LoopInv, pc \in {"recv", "parse"}
    PROVE  /\ cur \in sessions /\ cur \in Fds /\ conn[cur] \in Conns
           /\ \A f \in sessions : f \in Fds /\ conn[f] \in Conns
           /\ \A f \in sessions \ {cur} : conn[f] # conn[cur]
           /\ \A c \in Conns : /\ sent[c] \in 0..MaxSent /\ inbox[c] \in 0..RecvCap
                               /\ handled[c] \in 0..MaxSent
           /\ \A f \in Fds : buffer[f] \in 0..MaxSent
           /\ sent[conn[cur]] = handled[conn[cur]] + buffer[cur] + inbox[conn[cur]]
           /\ conn[cur] \notin Range(backlog)
           /\ peer[conn[cur]] # "idle"
           /\ MaxSent \in Nat /\ RecvCap \in Nat
<1>1. cur \in sessions /\ sessions \subseteq Fds
  BY DEF LoopInv, TypeOK, SessionsAreSockets
<1>2. \A f \in sessions : f \in Fds /\ conn[f] \in Conns /\ conn[f] # NoConn
  BY <1>1, LoopAssumption DEF LoopInv, TypeOK, SessionsAreSockets, LoopAssumption
<1>3. \A f \in sessions \ {cur} : conn[f] # conn[cur]
  BY <1>1, <1>2 DEF LoopInv, OnePlace
<1>4. conn[cur] \notin Range(backlog) /\ peer[conn[cur]] # "idle"
  BY <1>1, <1>2 DEF LoopInv, OnePlace
<1> QED
  BY <1>1, <1>2, <1>3, <1>4, LoopAssumption
     DEF LoopInv, TypeOK, NothingLost, LoopAssumption

LEMMA RecvKeeps ==
    ASSUME LoopInv, Recv
    PROVE  LoopInv'
<1> DEFINE c == conn[cur]
<1>1. PICK k \in 1..inbox[c] :
        /\ inbox' = [inbox EXCEPT ![c] = @ - k]
        /\ buffer' = [buffer EXCEPT ![cur] = buffer[cur] + k]
  BY DEF Recv, Received
<1>2. /\ pc = "recv" /\ pc' = "parse"
      /\ UNCHANGED <<peer, sent, outbox, backlog, conn, batch, cur, sessions, todo,
                     back, handled, refused>>
  BY DEF Recv, peerVars
<1> HIDE DEF c
<1>3. /\ cur \in sessions /\ cur \in Fds /\ c \in Conns /\ c = conn[cur]
      /\ \A f \in sessions : f \in Fds /\ conn[f] \in Conns
      /\ \A f \in sessions \ {cur} : conn[f] # c
      /\ \A d \in Conns : /\ sent[d] \in 0..MaxSent /\ inbox[d] \in 0..RecvCap
                          /\ handled[d] \in 0..MaxSent
      /\ \A f \in Fds : buffer[f] \in 0..MaxSent
      /\ sent[c] = handled[c] + buffer[cur] + inbox[c]
      /\ c \notin Range(backlog) /\ peer[c] # "idle"
      /\ MaxSent \in Nat /\ RecvCap \in Nat
  BY <1>2, ReadSession DEF c
<1>4. /\ inbox[c] - k \in 0..RecvCap
      /\ buffer[cur] + k \in 0..MaxSent
      /\ sent[c] = handled[c] + (buffer[cur] + k) + (inbox[c] - k)
  BY <1>3
<1>5. /\ \A d \in Conns \ {c} : inbox'[d] = inbox[d]
      /\ inbox'[c] = inbox[c] - k
      /\ \A f \in Fds \ {cur} : buffer'[f] = buffer[f]
      /\ buffer'[cur] = buffer[cur] + k
  BY <1>1, <1>3 DEF LoopInv, TypeOK
<1>6. TypeOK'
  BY <1>1, <1>2, <1>4 DEF LoopInv, TypeOK
<1>7. EventsCurrent' /\ SessionsAreSockets'
  BY <1>2 DEF LoopInv, EventsCurrent, SessionsAreSockets
<1>8. NothingLost'
  BY <1>2, <1>3, <1>4, <1>5 DEF LoopInv, NothingLost
<1>9. OnlyLeaversLose'
  BY <1>2, <1>3, <1>4, <1>5 DEF LoopInv, OnlyLeaversLose
<1>10. OnePlace' /\ BatchInv'
  <2>1. Range(backlog) \subseteq Conns
    BY DEF LoopInv, TypeOK, Range
  <2>2. OnePlace'
    BY <1>2, <1>3, <1>5, <2>1 DEF LoopInv, OnePlace
  <2>3. BatchInv'
    BY <1>2 DEF LoopInv, BatchInv
  <2> QED
    BY <2>2, <2>3
<1> QED
  BY <1>6, <1>7, <1>8, <1>9, <1>10 DEF LoopInv

LEMMA HandlePacketKeeps ==
    ASSUME LoopInv, HandlePacket
    PROVE  LoopInv'
<1> DEFINE c == conn[cur]
<1>1. /\ pc = "parse" /\ buffer[cur] > 0
      /\ buffer' = [buffer EXCEPT ![cur] = @ - 1]
      /\ handled' = [handled EXCEPT ![c] = @ + 1]
      /\ pc' = "send" /\ back' = "parse"
      /\ UNCHANGED <<peer, sent, inbox, outbox, backlog, conn, batch, cur, sessions,
                     refused>>
  BY DEF HandlePacket, SendToAll, peerVars, socketVars
<1> HIDE DEF c
<1>2. /\ cur \in sessions /\ cur \in Fds /\ c \in Conns /\ c = conn[cur]
      /\ \A f \in sessions : f \in Fds /\ conn[f] \in Conns
      /\ \A f \in sessions \ {cur} : conn[f] # c
      /\ \A d \in Conns : /\ sent[d] \in 0..MaxSent /\ inbox[d] \in 0..RecvCap
                          /\ handled[d] \in 0..MaxSent
      /\ \A f \in Fds : buffer[f] \in 0..MaxSent
      /\ sent[c] = handled[c] + buffer[cur] + inbox[c]
      /\ c \notin Range(backlog) /\ peer[c] # "idle"
      /\ MaxSent \in Nat /\ RecvCap \in Nat
  BY <1>1, ReadSession DEF c
<1>3. todo' \in Seq(Fds) /\ Range(todo') \subseteq sessions
  <2>1. PICK s \in {{}, {cur}, sessions \ {cur}, sessions} : todo' \in SetToSeqs(s)
    BY DEF HandlePacket, SendToAll
  <2>2. s \subseteq sessions /\ s \subseteq Fds
    BY <1>2, <2>1
  <2> QED
    BY <2>1, <2>2, BroadcastTo
<1>4. /\ handled[c] + 1 \in 0..MaxSent
      /\ buffer[cur] - 1 \in 0..MaxSent
      /\ sent[c] = (handled[c] + 1) + (buffer[cur] - 1) + inbox[c]
  BY <1>1, <1>2
<1>5. /\ \A d \in Conns \ {c} : handled'[d] = handled[d]
      /\ handled'[c] = handled[c] + 1
      /\ \A f \in Fds \ {cur} : buffer'[f] = buffer[f]
      /\ buffer'[cur] = buffer[cur] - 1
  BY <1>1, <1>2 DEF LoopInv, TypeOK
<1>6. TypeOK'
  BY <1>1, <1>3, <1>4 DEF LoopInv, TypeOK
<1>7. EventsCurrent' /\ SessionsAreSockets'
  BY <1>1, <1>2, <1>3 DEF LoopInv, EventsCurrent, SessionsAreSockets
<1>8. NothingLost'
  BY <1>1, <1>2, <1>4, <1>5 DEF LoopInv, NothingLost
<1>9. OnlyLeaversLose'
  BY <1>1, <1>2, <1>4, <1>5 DEF LoopInv, OnlyLeaversLose
<1>10. OnePlace' /\ BatchInv'
  <2>1. Range(backlog) \subseteq Conns
    BY DEF LoopInv, TypeOK, Range
  <2>2. OnePlace'
    BY <1>1, <1>2, <1>5, <2>1 DEF LoopInv, OnePlace
  <2>3. BatchInv'
    BY <1>1 DEF LoopInv, BatchInv
  <2> QED
    BY <2>2, <2>3
<1> QED
  BY <1>6, <1>7, <1>8, <1>9, <1>10 DEF LoopInv

\* The connection at the head of the backlog.
LEMMA HeadOfBacklog ==
    ASSUME LoopInv, backlog # <<>>
    PROVE  /\ Head(backlog) \in Range(backlog) /\ Head(backlog) \in Conns
           /\ Tail(backlog) \in Seq(Conns) /\ IsInjective(Tail(backlog))
           /\ Range(backlog) = Range(Tail(backlog)) \cup {Head(backlog)}
           /\ Head(backlog) \notin Range(Tail(backlog))
           /\ \A f \in Fds : conn[f] # Head(backlog)
           /\ sent[Head(backlog)] = inbox[Head(backlog)]
           /\ handled[Head(backlog)] = 0
           /\ peer[Head(backlog)] # "idle"
<1>1. backlog \in Seq(Conns) /\ IsInjective(backlog)
  BY DEF LoopInv, TypeOK, OnePlace
<1>2. /\ Head(backlog) \in Range(backlog) /\ Head(backlog) \in Conns
      /\ Tail(backlog) \in Seq(Conns) /\ IsInjective(Tail(backlog))
      /\ Range(backlog) = Range(Tail(backlog)) \cup {Head(backlog)}
      /\ Head(backlog) \notin Range(Tail(backlog))
  BY <1>1, QueueTail
<1> QED
  BY <1>2 DEF LoopInv, OnePlace

LEMMA AcceptOneKeeps ==
    ASSUME LoopInv, AcceptOne
    PROVE  LoopInv'
<1> DEFINE c == Head(backlog)
           q == Tail(backlog)
<1>1. PICK f \in Fds :
        /\ conn[f] = NoConn
        /\ conn' = [conn EXCEPT ![f] = c]
        /\ backlog' = q
        /\ sessions' = sessions \cup {f}
        /\ buffer' = [buffer EXCEPT ![f] = 0]
        /\ SendToAll({f}, "accept")
  BY DEF AcceptOne, FreeFds
<1>2. /\ pc = "accept" /\ backlog # <<>>
      /\ UNCHANGED <<peer, sent, inbox, outbox, batch, cur, handled, refused>>
  BY DEF AcceptOne, peerVars
<1>3. /\ c \in Range(backlog) /\ c \in Conns /\ q \in Seq(Conns) /\ IsInjective(q)
      /\ Range(backlog) = Range(q) \cup {c} /\ c \notin Range(q)
      /\ \A g \in Fds : conn[g] # c
      /\ sent[c] = inbox[c] /\ handled[c] = 0 /\ peer[c] # "idle"
  BY <1>2, HeadOfBacklog
<1> HIDE DEF c, q
<1>4. /\ pc' = "send" /\ back' = "accept"
      /\ todo' \in Seq(Fds) /\ Range(todo') \subseteq {f}
  <2>1. todo' \in SetToSeqs({f}) /\ pc' = "send" /\ back' = "accept"
    BY <1>1 DEF SendToAll
  <2> QED
    BY <2>1, BroadcastTo
<1>5. /\ \A g \in Fds \ {f} : conn'[g] = conn[g] /\ buffer'[g] = buffer[g]
      /\ conn'[f] = c /\ buffer'[f] = 0 /\ c # NoConn
      /\ f \notin sessions /\ sessions = {g \in Fds : conn[g] # NoConn}
      /\ \A d \in Conns : inbox[d] \in Nat
  BY <1>1, <1>3, LoopAssumption
     DEF LoopInv, TypeOK, SessionsAreSockets, LoopAssumption
<1>6. TypeOK'
  BY <1>1, <1>2, <1>3, <1>4, LoopAssumption DEF LoopInv, TypeOK, LoopAssumption
<1>7. EventsCurrent'
  BY <1>1, <1>2, <1>5 DEF LoopInv, TypeOK, Event, EventsCurrent
<1>8. SessionsAreSockets'
  BY <1>1, <1>4, <1>5 DEF SessionsAreSockets
<1>9. NothingLost'
  BY <1>1, <1>2, <1>3, <1>5 DEF LoopInv, NothingLost
<1>10. OnlyLeaversLose'
  <2>1. ASSUME NEW d \in Conns, peer'[d] = "open", d \notin refused'
        PROVE  \/ d \in Range(backlog') /\ sent'[d] = inbox'[d]
               \/ \E g \in sessions' :
                    conn'[g] = d /\ sent'[d] = handled'[d] + buffer'[g] + inbox'[d]
    <3>1. CASE d = c
      BY <1>1, <1>2, <1>3, <1>5, <3>1
    <3>2. CASE d # c
      BY <1>1, <1>2, <1>3, <1>5, <2>1, <3>2 DEF LoopInv, OnlyLeaversLose
    <3> QED
      BY <3>1, <3>2
  <2> QED
    BY <2>1 DEF OnlyLeaversLose
<1>11. OnePlace'
  BY <1>1, <1>2, <1>3, <1>5 DEF LoopInv, OnePlace
<1>12. BatchInv'
  BY <1>2, <1>4 DEF LoopInv, BatchInv
<1> QED
  BY <1>6, <1>7, <1>8, <1>9, <1>10, <1>11, <1>12 DEF LoopInv

LEMMA AcceptFailsKeeps ==
    ASSUME LoopInv, AcceptFails
    PROVE  LoopInv'
<1> DEFINE c == Head(backlog)
           q == Tail(backlog)
<1>1. /\ pc = "accept" /\ backlog # <<>>
      /\ inbox' = [inbox EXCEPT ![c] = 0]
      /\ backlog' = q
      /\ refused' = refused \cup {c}
      /\ UNCHANGED <<peer, sent, outbox, conn, pc, batch, cur, sessions, buffer,
                     todo, back, handled>>
  BY DEF AcceptFails, peerVars
<1>2. /\ c \in Range(backlog) /\ c \in Conns /\ q \in Seq(Conns) /\ IsInjective(q)
      /\ Range(backlog) = Range(q) \cup {c} /\ c \notin Range(q)
      /\ \A g \in Fds : conn[g] # c
      /\ sent[c] = inbox[c] /\ handled[c] = 0 /\ peer[c] # "idle"
  BY <1>1, HeadOfBacklog
<1> HIDE DEF c, q
<1>3. \A d \in Conns \ {c} : inbox'[d] = inbox[d]
  BY <1>1 DEF LoopInv, TypeOK
<1>4. Range(q) \subseteq Conns /\ \A f \in sessions : f \in Fds /\ conn[f] \in Conns
  <2>1. Range(q) \subseteq Conns
    BY <1>2 DEF Range
  <2>2. sessions = {f \in Fds : conn[f] # NoConn} /\ conn \in [Fds -> Conns \cup {NoConn}]
    BY DEF LoopInv, TypeOK, SessionsAreSockets
  <2> QED
    BY <2>1, <2>2
<1>5. TypeOK'
  <2>1. 0 \in 0..RecvCap
    BY LoopAssumption DEF LoopAssumption
  <2>2. inbox' \in [Conns -> 0..RecvCap]
    BY <1>1, <2>1 DEF LoopInv, TypeOK
  <2> QED
    BY <1>1, <1>2, <2>2 DEF LoopInv, TypeOK
<1>6. EventsCurrent' /\ SessionsAreSockets' /\ BatchInv'
  BY <1>1 DEF LoopInv, EventsCurrent, SessionsAreSockets, BatchInv
<1>7. NothingLost'
  BY <1>1, <1>2, <1>3, <1>4 DEF LoopInv, NothingLost
<1>8. OnlyLeaversLose'
  BY <1>1, <1>2, <1>3, <1>4 DEF LoopInv, OnlyLeaversLose
<1>9. OnePlace'
  BY <1>1, <1>2, <1>3, <1>4 DEF LoopInv, OnePlace
<1> QED
  BY <1>5, <1>6, <1>7, <1>8, <1>9 DEF LoopInv

\* closeClient, called for a session whose client has closed and whose event is
\* no longer in the batch.
LEMMA CloseClientKeeps ==
    ASSUME LoopInv, NEW f \in sessions, CloseClient(f), peer[conn[f]] = "closed",
           batch' \subseteq batch, \A e \in batch' : e.fd # f,
           cur' \in Fds \cup {ListenFd},
           UNCHANGED <<peer, sent, backlog, handled, refused>>
    PROVE  LoopInv'
<1> DEFINE c == conn[f]
<1>1. /\ f \in Fds /\ c \in Conns /\ c # NoConn
      /\ sessions = {g \in Fds : conn[g] # NoConn}
      /\ \A g \in Fds : conn[g] = c => g = f
      /\ c \notin Range(backlog) /\ Range(backlog) \subseteq Conns
  <2>1. sessions = {g \in Fds : conn[g] # NoConn} /\ conn \in [Fds -> Conns \cup {NoConn}]
    BY DEF LoopInv, TypeOK, SessionsAreSockets
  <2>2. f \in Fds /\ c \in Conns /\ c # NoConn
    BY <2>1
  <2>3. (\A g \in Fds : conn[g] = c => g = f) /\ c \notin Range(backlog)
    BY <2>2 DEF LoopInv, OnePlace
  <2>4. Range(backlog) \subseteq Conns
    BY DEF LoopInv, TypeOK, Range
  <2> QED
    BY <2>1, <2>2, <2>3, <2>4
<1>2. /\ conn' = [conn EXCEPT ![f] = NoConn]
      /\ sessions' = sessions \ {f}
      /\ buffer' = [buffer EXCEPT ![f] = 0]
      /\ inbox' = [inbox EXCEPT ![c] = 0]
      /\ outbox' = [outbox EXCEPT ![c] = 0]
      /\ pc' = "send" /\ back' = "next"
  BY DEF CloseClient, SendToAll
<1>3. todo' \in Seq(Fds) /\ Range(todo') \subseteq sessions \ {f}
  <2>1. PICK s \in {{}, sessions \ {f}} : todo' \in SetToSeqs(s)
    BY DEF CloseClient, SendToAll
  <2> QED
    BY <1>1, <2>1, BroadcastTo
<1> HIDE DEF c
<1>4. /\ \A g \in Fds \ {f} : conn'[g] = conn[g] /\ buffer'[g] = buffer[g]
      /\ conn'[f] = NoConn
      /\ \A d \in Conns \ {c} : inbox'[d] = inbox[d]
      /\ conn[f] = c
  BY <1>1, <1>2 DEF LoopInv, TypeOK, c
<1>5. TypeOK'
  <2>1. 0 \in 0..RecvCap /\ 0 \in 0..SendCap /\ 0 \in 0..MaxSent
    BY LoopAssumption DEF LoopAssumption
  <2>2. inbox' \in [Conns -> 0..RecvCap] /\ outbox' \in [Conns -> 0..SendCap]
    BY <1>2, <2>1 DEF LoopInv, TypeOK
  <2>3. buffer' \in [Fds -> 0..MaxSent] /\ conn' \in [Fds -> Conns \cup {NoConn}]
    BY <1>2, <2>1 DEF LoopInv, TypeOK
  <2>4. batch' \subseteq Event /\ sessions' \subseteq Fds
    BY <1>2 DEF LoopInv, TypeOK
  <2>5. pc' \in {"wait", "next", "accept", "recv", "parse", "send"}
        /\ back' \in {"next", "accept", "parse"}
    BY <1>2
  <2> QED
    BY <1>3, <2>2, <2>3, <2>4, <2>5 DEF LoopInv, TypeOK
<1>6. EventsCurrent'
  BY <1>1, <1>2, <1>4 DEF LoopInv, EventsCurrent
<1>7. SessionsAreSockets'
  BY <1>1, <1>2, <1>3, <1>4 DEF SessionsAreSockets
<1>8. NothingLost'
  BY <1>1, <1>2, <1>4 DEF LoopInv, TypeOK, NothingLost
<1>9. OnlyLeaversLose'
  <2>1. peer[c] = "closed"
    BY <1>4
  <2> QED
    BY <1>1, <1>2, <1>4, <2>1 DEF LoopInv, OnlyLeaversLose
<1>10. OnePlace'
  <2>1. IsInjective(backlog')
    BY DEF LoopInv, OnePlace
  <2>2. \A d \in Range(backlog') :
          /\ peer'[d] # "idle" /\ \A g \in Fds : conn'[g] # d
          /\ sent'[d] = inbox'[d] /\ handled'[d] = 0
    <3>1. \A d \in Range(backlog) : d \in Conns /\ d # c /\ d # NoConn
      BY <1>1, LoopAssumption DEF LoopAssumption
    <3> QED
      BY <1>4, <3>1 DEF LoopInv, OnePlace
  <2>3. /\ \A g \in Fds : conn'[g] # NoConn => peer'[conn'[g]] # "idle"
        /\ \A g, h \in Fds : conn'[g] = conn'[h] /\ conn'[g] # NoConn => g = h
    BY <1>4 DEF LoopInv, OnePlace
  <2>4. \A d \in Conns :
          peer'[d] = "idle" => sent'[d] = 0 /\ inbox'[d] = 0 /\ handled'[d] = 0
    BY <1>4 DEF LoopInv, OnePlace
  <2> QED
    BY <2>1, <2>2, <2>3, <2>4 DEF OnePlace
<1>11. BatchInv'
  BY <1>2 DEF LoopInv, BatchInv
<1> QED
  BY <1>5, <1>6, <1>7, <1>8, <1>9, <1>10, <1>11 DEF LoopInv

\* epoll_wait reports each descriptor once, as it is.
LEMMA EpollWaitKeeps ==
    ASSUME LoopInv, EpollWait
    PROVE  LoopInv'
<1>1. /\ pc = "wait" /\ pc' = "next" /\ batch' \subseteq Ready
      /\ UNCHANGED <<peer, sent, inbox, outbox, backlog, conn, cur, sessions, buffer,
                     todo, back, handled, refused>>
  BY DEF EpollWait, peerVars, socketVars
<1>2. \A e \in Ready :
        \/ e = [fd |-> ListenFd, hup |-> FALSE, of |-> NoConn]
        \/ \E f \in Fds :
             /\ conn[f] # NoConn
             /\ e = [fd |-> f, hup |-> peer[conn[f]] = "closed", of |-> conn[f]]
  BY DEF Ready, ListenEvents, EventsOf
<1>3. ASSUME NEW e \in Ready
      PROVE  /\ e \in Event
             /\ e.fd # ListenFd => e.fd \in sessions /\ conn[e.fd] = e.of
             /\ e.hup => e.fd # ListenFd /\ peer[e.of] = "closed"
  <2>1. CASE e = [fd |-> ListenFd, hup |-> FALSE, of |-> NoConn]
    BY <2>1 DEF Event
  <2>2. ASSUME NEW f \in Fds, conn[f] # NoConn,
               e = [fd |-> f, hup |-> peer[conn[f]] = "closed", of |-> conn[f]]
        PROVE  /\ e \in Event
               /\ e.fd # ListenFd => e.fd \in sessions /\ conn[e.fd] = e.of
               /\ e.hup => e.fd # ListenFd /\ peer[e.of] = "closed"
    <3>1. conn[f] \in Conns /\ f \in sessions /\ f # ListenFd
      BY <2>2, ListenFdApart DEF LoopInv, TypeOK, SessionsAreSockets
    <3>2. e.fd = f /\ e.of = conn[f] /\ e.hup = (peer[conn[f]] = "closed")
      BY <2>2
    <3>3. e \in Event
      BY <2>2, <3>1 DEF Event
    <3> QED
      BY <3>1, <3>2, <3>3
  <2> QED
    BY <1>2, <2>1, <2>2
<1>4. ASSUME NEW e \in Ready, NEW d \in Ready, e.fd = d.fd
      PROVE  e = d
  <2>1. CASE e = [fd |-> ListenFd, hup |-> FALSE, of |-> NoConn]
    <3>1. d.fd = ListenFd
      BY <1>4, <2>1
    <3>2. \A f \in Fds : d # [fd |-> f, hup |-> peer[conn[f]] = "closed",
                              of |-> conn[f]]
      BY <3>1, ListenFdApart
    <3> QED
      BY <1>2, <2>1, <3>2
  <2>2. ASSUME NEW f \in Fds,
               e = [fd |-> f, hup |-> peer[conn[f]] = "closed", of |-> conn[f]]
        PROVE  e = d
    <3>1. d.fd = f /\ f # ListenFd
      BY <1>4, <2>2, ListenFdApart
    <3>2. d # [fd |-> ListenFd, hup |-> FALSE, of |-> NoConn]
      BY <3>1
    <3>3. PICK g \in Fds :
            d = [fd |-> g, hup |-> peer[conn[g]] = "closed", of |-> conn[g]]
      BY <1>2, <3>2
    <3>4. g = f
      BY <3>1, <3>3
    <3> QED
      BY <2>2, <3>3, <3>4
  <2> QED
    BY <1>2, <2>1, <2>2
<1>5. TypeOK'
  BY <1>1, <1>3 DEF LoopInv, TypeOK
<1>6. EventsCurrent' /\ BatchInv'
  BY <1>1, <1>3, <1>4 DEF EventsCurrent, BatchInv
<1> QED
  BY <1>1, <1>5, <1>6, SocketsUntouched
     DEF LoopInv, SessionsAreSockets, Reading

LEMMA TakeEventKeeps ==
    ASSUME LoopInv, TakeEvent
    PROVE  LoopInv'
<1>1. PICK e \in batch :
        /\ batch' = batch \ {e}
        /\ cur' = e.fd
        /\ \/ /\ e.fd = ListenFd
              /\ pc' = "accept"
              /\ UNCHANGED <<socketVars, sessions, buffer, todo, back>>
           \/ /\ e.fd # ListenFd /\ e.hup
              /\ CloseClient(e.fd) /\ UNCHANGED backlog
           \/ /\ e.fd # ListenFd /\ ~e.hup
              /\ pc' = "recv"
              /\ UNCHANGED <<socketVars, sessions, buffer, todo, back>>
  BY DEF TakeEvent, LoopInv, EventsCurrent
<1>2. pc = "next" /\ UNCHANGED <<peer, sent, handled, refused>>
  BY DEF TakeEvent, peerVars
<1>3. /\ e \in Event /\ e.fd \in Fds \cup {ListenFd}
      /\ e.fd # ListenFd => e.fd \in sessions /\ conn[e.fd] = e.of
      /\ e.hup => peer[e.of] = "closed"
      /\ \A d \in batch' : d.fd # e.fd
  BY <1>1 DEF LoopInv, TypeOK, Event, EventsCurrent, BatchInv
<1>4. CASE e.fd # ListenFd /\ e.hup /\ CloseClient(e.fd) /\ UNCHANGED backlog
  BY <1>1, <1>2, <1>3, <1>4, CloseClientKeeps
<1>5. CASE /\ pc' \in {"accept", "recv"}
           /\ pc' = "recv" => e.fd # ListenFd
           /\ UNCHANGED <<socketVars, sessions, buffer, todo, back>>
  <2>1. UNCHANGED <<inbox, outbox, backlog, conn>>
    BY <1>5 DEF socketVars
  <2>2. TypeOK'
    BY <1>1, <1>2, <1>3, <1>5, <2>1 DEF LoopInv, TypeOK
  <2>3. EventsCurrent'
    BY <1>1, <1>5, <2>1 DEF LoopInv, EventsCurrent
  <2>4. BatchInv'
    BY <1>1, <1>2, <1>3, <1>5, <2>1 DEF LoopInv, BatchInv
  <2> QED
    BY <1>1, <1>2, <1>3, <1>5, <2>1, <2>2, <2>3, <2>4, SocketsUntouched
       DEF LoopInv, SessionsAreSockets, Reading
<1> QED
  BY <1>1, <1>4, <1>5

LEMMA RecvEndKeeps ==
    ASSUME LoopInv, RecvEnd
    PROVE  LoopInv'
<1>1. /\ pc = "recv" /\ peer[conn[cur]] = "closed" /\ CloseClient(cur)
      /\ UNCHANGED <<peer, sent, backlog, batch, cur, handled, refused>>
  BY DEF RecvEnd, peerVars
<1>2. cur \in sessions /\ cur \in Fds
  BY <1>1, ReadSession
<1>3. \A e \in batch' : e.fd # cur
  BY <1>1 DEF LoopInv, BatchInv
<1> QED
  BY <1>1, <1>2, <1>3, CloseClientKeeps

\* The steps that only go on to another call.
LEMMA GoingOnKeeps ==
    ASSUME LoopInv, BatchDone \/ AcceptsDone \/ RecvAgain \/ ParseDone \/ SendsDone
    PROVE  LoopInv'
<1>1. UNCHANGED <<peer, sent, inbox, outbox, backlog, conn, batch, cur, sessions,
                  buffer, todo, back, handled, refused>>
  BY DEF BatchDone, AcceptsDone, RecvAgain, ParseDone, SendsDone, peerVars, socketVars
<1>2. Reading(pc', back') => Reading(pc, back)
  <2>1. back \in {"next", "accept", "parse"} /\ back' = back
    BY <1>1 DEF LoopInv, TypeOK
  <2>2. \/ pc' \in {"wait", "next"}
        \/ pc \in {"recv", "parse"}
        \/ pc = "send" /\ pc' = back
    BY DEF BatchDone, AcceptsDone, RecvAgain, ParseDone, SendsDone
  <2> QED
    BY <2>1, <2>2 DEF Reading
<1>3. pc' \in {"wait", "next", "accept", "recv", "parse", "send"}
  BY DEF BatchDone, AcceptsDone, RecvAgain, ParseDone, SendsDone, LoopInv, TypeOK
<1>4. TypeOK' /\ EventsCurrent'
  BY <1>1, <1>3 DEF LoopInv, TypeOK, EventsCurrent
<1>5. BatchInv'
  BY <1>1, <1>2 DEF LoopInv, BatchInv, Reading
<1> QED
  BY <1>1, <1>2, <1>4, <1>5, SocketsUntouched
     DEF LoopInv, SessionsAreSockets, Reading

LEMMA SendingKeeps ==
    ASSUME LoopInv, SendTaken \/ SendLost
    PROVE  LoopInv'
<1>1. /\ todo # <<>> /\ todo' = Tail(todo)
      /\ UNCHANGED <<peer, sent, inbox, backlog, conn, pc, batch, cur, sessions,
                     buffer, back, handled, refused>>
  BY DEF SendTaken, SendLost, peerVars, socketVars
<1>2. todo \in Seq(Fds)
  BY DEF LoopInv, TypeOK
<1>3. todo' \in Seq(Fds) /\ Range(todo') \subseteq Range(todo)
  BY <1>1, <1>2, QueueTail
<1>4. outbox' \in [Conns -> 0..SendCap]
  <2>1. CASE SendTaken
    <3> DEFINE c == conn[Head(todo)]
    <3>1. outbox[c] < SendCap /\ outbox' = [outbox EXCEPT ![c] = @ + 1]
      BY <2>1 DEF SendTaken
    <3>2. Head(todo) \in sessions
      BY <1>1, <1>2, QueueTail DEF LoopInv, SessionsAreSockets
    <3>3. c \in Conns /\ outbox \in [Conns -> 0..SendCap]
      BY <3>2, LoopAssumption DEF LoopInv, TypeOK, SessionsAreSockets, LoopAssumption
    <3> HIDE DEF c
    <3>4. outbox[c] + 1 \in 0..SendCap
      BY <3>1, <3>3, LoopAssumption DEF LoopAssumption
    <3> QED
      BY <3>1, <3>3, <3>4
  <2>2. CASE SendLost
    BY <2>2 DEF SendLost, socketVars, LoopInv, TypeOK
  <2> QED
    BY <2>1, <2>2
<1>5. TypeOK'
  BY <1>1, <1>3, <1>4 DEF LoopInv, TypeOK
<1>6. EventsCurrent' /\ BatchInv'
  BY <1>1 DEF LoopInv, EventsCurrent, BatchInv
<1> QED
  BY <1>1, <1>3, <1>5, <1>6, SocketsUntouched
     DEF LoopInv, SessionsAreSockets, Reading

LEMMA ReadKeeps ==
    ASSUME LoopInv, NEW c \in Conns, Read(c)
    PROVE  LoopInv'
<1>1. /\ outbox[c] > 0 /\ outbox' = [outbox EXCEPT ![c] = @ - 1]
      /\ UNCHANGED <<peer, sent, inbox, backlog, conn, pc, batch, cur, sessions,
                     buffer, todo, back, handled, refused>>
  BY DEF Read, peerVars, serverVars
<1>2. outbox' \in [Conns -> 0..SendCap]
  <2>1. outbox \in [Conns -> 0..SendCap] /\ outbox[c] \in 0..SendCap
    BY DEF LoopInv, TypeOK
  <2>2. outbox[c] - 1 \in 0..SendCap
    BY <1>1, <2>1, LoopAssumption DEF LoopAssumption
  <2> QED
    BY <1>1, <2>1, <2>2
<1>3. TypeOK'
  BY <1>1, <1>2 DEF LoopInv, TypeOK
<1>4. EventsCurrent' /\ BatchInv'
  BY <1>1 DEF LoopInv, EventsCurrent, BatchInv
<1> QED
  BY <1>1, <1>3, <1>4, SocketsUntouched DEF LoopInv, SessionsAreSockets, Reading

LEMMA StepKeeps == LoopInv /\ [Next]_vars => LoopInv'
<1> SUFFICES ASSUME LoopInv, [Next]_vars PROVE LoopInv'
  OBVIOUS
<1>1. CASE ServerStep
  BY <1>1, EpollWaitKeeps, TakeEventKeeps, GoingOnKeeps, AcceptOneKeeps,
     AcceptFailsKeeps, RecvKeeps, RecvEndKeeps, HandlePacketKeeps, SendingKeeps
     DEF ServerStep
<1>2. CASE \E c \in Conns : Connect(c) \/ Send(c) \/ Read(c) \/ Shut(c)
  BY <1>2, ConnectKeeps, SendKeeps, ReadKeeps, ShutKeeps
<1>3. CASE UNCHANGED vars
  BY <1>3 DEF vars, peerVars, socketVars, serverVars, LoopInv, TypeOK, EventsCurrent,
     SessionsAreSockets, NothingLost, OnlyLeaversLose, OnePlace, BatchInv
<1> QED
  BY <1>1, <1>2, <1>3 DEF Next

\* What logins, chats and disconnects do to sessions comes with steps of the loop.
LEMMA LoopStepIsStep == [LoopNext]_loopVars => [Next]_vars
<1>1. LoopNext => Next
  BY DEF LoopNext, Goes, SendNews, Accept, CloseAtHangup, CloseAtEnd, HandleLogin,
         HandleChatMessage, Refuse, Next, ServerStep
<1> QED
  BY <1>1 DEF loopVars

-----------------------------------------------------------------------------
(* The theorems.                                                            *)

\* The inductive invariant holds of the loop, with and without its sessions.
THEOREM LoopInvariant == Spec => []LoopInv
BY InitSound, StepKeeps, PTL DEF Spec

THEOREM LoopServerInvariant == LoopSpec => []LoopInv
<1>1. LoopInit => Init
  BY DEF LoopInit
<1> QED
  BY <1>1, InitSound, StepKeeps, LoopStepIsStep, PTL DEF LoopSpec

\* Type correctness.
THEOREM LoopTyped == LoopSpec => []TypeOK
<1>1. LoopInv => TypeOK
  BY DEF LoopInv
<1> QED
  BY <1>1, LoopServerInvariant, PTL

\* No event of a batch is stale when run() gets to it, however descriptors were
\* closed and reused meanwhile.
THEOREM EventsAreCurrent == LoopSpec => []EventsCurrent
<1>1. LoopInv => EventsCurrent
  BY DEF LoopInv
<1> QED
  BY <1>1, LoopServerInvariant, PTL

\* m_clients and the open descriptors agree at every system call.
THEOREM SessionsHaveSockets == LoopSpec => []SessionsAreSockets
<1>1. LoopInv => SessionsAreSockets
  BY DEF LoopInv
<1> QED
  BY <1>1, LoopServerInvariant, PTL

\* No packet of a session is lost or handled twice.
THEOREM NoPacketLost == LoopSpec => []NothingLost
<1>1. LoopInv => NothingLost
  BY DEF LoopInv
<1> QED
  BY <1>1, LoopServerInvariant, PTL

\* Only clients that leave, or were refused, lose what they sent.
THEOREM OnlyThoseWhoLeaveLose == LoopSpec => []OnlyLeaversLose
<1>1. LoopInv => OnlyLeaversLose
  BY DEF LoopInv
<1> QED
  BY <1>1, LoopServerInvariant, PTL

=============================================================================
