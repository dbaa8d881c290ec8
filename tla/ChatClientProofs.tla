--------------------------- MODULE ChatClientProofs ---------------------------
(***************************************************************************)
(* Proofs about the Qt client and its session, for any number of users,    *)
(* files, paths, connections and packets under way: what the client        *)
(* believes of its session is what the session is, or soon will be.        *)
(***************************************************************************)
EXTENDS ChatClient, TLAPS

-----------------------------------------------------------------------------
(* The inductive invariant.                                                 *)

UpPackets ==
    {Login(u) : u \in Users} \cup {Chat, UploadBegin, UploadChunk, UploadEnd}
    \cup {DownloadRequest(f) : f \in Files}

DownPackets ==
    {LoginOk(u) : u \in Users} \cup {FileList, Error}
    \cup {DownloadBegin(f) : f \in Files} \cup {DownloadEnd(f) : f \in Files}
    \cup {DownloadChunk(c) : c \in Files \X Nat}

LinkTyped ==
    /\ connected \in BOOLEAN
    /\ mUsername \in Users \cup {NoUser}
    /\ sessionName \in Users \cup {NoUser}
    /\ dialog \in Dialogs
    /\ up \in Seq(UpPackets)
    /\ down \in Seq(DownPackets)

\* Without a connection there is no session, nothing is under way, and the
\* window shows no name.
NothingWithoutConnection ==
    ~connected => /\ up = <<>> /\ down = <<>>
                  /\ mUsername = NoUser /\ sessionName = NoUser

\* A dialog that was opened with a name is open with a name, or the connection
\* is gone, and does not come back before the dialog is closed.
DialogsAreOfUsers ==
    dialog # "none" /\ connected => mUsername # NoUser

SessionInv ==
    /\ LinkTyped
    /\ NothingWithoutConnection
    /\ DialogsAreOfUsers
    /\ NamesAgree
    /\ GatedWhenLoggedIn

-----------------------------------------------------------------------------
(* What a queue of packets holds.                                           *)

LEMMA EmptyIsSeq ==
    ASSUME NEW S
    PROVE  <<>> \in Seq(S)
OBVIOUS

LEMMA RangeOfConcat ==
    ASSUME NEW S, NEW q \in Seq(S), NEW r \in Seq(S)
    PROVE  q \o r \in Seq(S) /\ Range(q \o r) = Range(q) \cup Range(r)
<1> DEFINE t == q \o r
<1>1. t \in Seq(S) /\ Len(t) = Len(q) + Len(r) /\ Len(q) \in Nat /\ Len(r) \in Nat
  OBVIOUS
<1>2. \A i \in 1..Len(q) : t[i] = q[i]
  OBVIOUS
<1>3. \A i \in 1..Len(r) : t[Len(q) + i] = r[i]
  OBVIOUS
<1>4. DOMAIN t = 1..(Len(q) + Len(r)) /\ DOMAIN q = 1..Len(q) /\ DOMAIN r = 1..Len(r)
  BY <1>1
<1>5. \A i \in 1..(Len(q) + Len(r)) :
        i \in 1..Len(q) \/ (i - Len(q) \in 1..Len(r) /\ i = Len(q) + (i - Len(q)))
  BY <1>1
<1>6. /\ \A i \in 1..Len(q) : i \in 1..(Len(q) + Len(r))
      /\ \A i \in 1..Len(r) : Len(q) + i \in 1..(Len(q) + Len(r))
  BY <1>1
<1> HIDE DEF t
<1>7. Range(t) \subseteq Range(q) \cup Range(r)
  <2>1. ASSUME NEW i \in 1..(Len(q) + Len(r))
        PROVE  t[i] \in Range(q) \cup Range(r)
    <3>1. CASE i \in 1..Len(q)
      BY <1>2, <1>4, <3>1 DEF Range
    <3>2. CASE i - Len(q) \in 1..Len(r) /\ i = Len(q) + (i - Len(q))
      <4>1. t[i] = r[i - Len(q)]
        BY <1>3, <3>2
      <4> QED
        BY <1>4, <3>2, <4>1 DEF Range
    <3> QED
      BY <1>5, <3>1, <3>2
  <2> QED
    BY <1>4, <2>1 DEF Range
<1>8. Range(q) \cup Range(r) \subseteq Range(t)
  <2>1. Range(q) \subseteq Range(t)
    BY <1>2, <1>4, <1>6 DEF Range
  <2>2. Range(r) \subseteq Range(t)
    BY <1>3, <1>4, <1>6 DEF Range
  <2> QED
    BY <2>1, <2>2
<1> QED
  BY <1>1, <1>7, <1>8 DEF t

LEMMA RangeOfTail ==
    ASSUME NEW S, NEW q \in Seq(S), q # <<>>
    PROVE  /\ Tail(q) \in Seq(S) /\ Head(q) \in S /\ Head(q) \in Range(q)
           /\ Range(Tail(q)) \subseteq Range(q)
<1>1. /\ Tail(q) \in Seq(S) /\ Len(Tail(q)) = Len(q) - 1
      /\ Len(q) \in Nat /\ Len(q) > 0 /\ Head(q) = q[1]
  OBVIOUS
<1>2. \A i \in 1..(Len(q) - 1) : Tail(q)[i] = q[i + 1] /\ i + 1 \in 1..Len(q)
  BY <1>1
<1>3. DOMAIN q = 1..Len(q) /\ DOMAIN Tail(q) = 1..(Len(q) - 1) /\ 1 \in 1..Len(q)
  BY <1>1
<1> QED
  BY <1>1, <1>2, <1>3 DEF Range

\* NamesAgree of a queue d, a name s of the session and a name m of the window.
OksOf(d) == {i \in DOMAIN d : d[i].cmd = "LoginOk"}

Agree(d, s, m) ==
    IF OksOf(d) = {} THEN s = m
    ELSE \E i \in OksOf(d) : (\A j \in OksOf(d) : j <= i) /\ s = d[i].user

LEMMA NamesAgreeIsAgree == NamesAgree <=> Agree(down, sessionName, mUsername)
BY DEF NamesAgree, Agree, OksOf

\* Replies without a LoginOk change nothing.
LEMMA OtherReplies ==
    ASSUME NEW S, NEW d \in Seq(S), NEW r \in Seq(S), NEW s, NEW m,
           \A i \in 1..Len(r) : r[i].cmd # "LoginOk",
           Agree(d, s, m)
    PROVE  Agree(d \o r, s, m)
<1> DEFINE t == d \o r
<1>1. /\ Len(t) = Len(d) + Len(r) /\ Len(d) \in Nat /\ Len(r) \in Nat
      /\ DOMAIN t = 1..(Len(d) + Len(r)) /\ DOMAIN d = 1..Len(d)
  OBVIOUS
<1>2. \A i \in 1..Len(d) : t[i] = d[i] /\ i \in 1..(Len(d) + Len(r))
  BY <1>1
<1>3. \A i \in 1..(Len(d) + Len(r)) :
        i \in 1..Len(d) \/ (i - Len(d) \in 1..Len(r) /\ t[i] = r[i - Len(d)])
  BY <1>1
<1> HIDE DEF t
<1>4. OksOf(t) = OksOf(d)
  BY <1>1, <1>2, <1>3 DEF OksOf
<1>5. \A i \in OksOf(d) : t[i] = d[i]
  BY <1>1, <1>2 DEF OksOf
<1>6. Agree(t, s, m)
  BY <1>4, <1>5 DEF Agree
<1> QED
  BY <1>6 DEF t

\* A LoginOk at the end decides.
LEMMA NewName ==
    ASSUME NEW S, NEW d \in Seq(S), NEW a \in S, NEW b \in S, NEW m,
           a.cmd = "LoginOk", b.cmd # "LoginOk"
    PROVE  Agree(d \o <<a, b>>, a.user, m)
<1> DEFINE t == d \o <<a, b>>
           n == Len(d) + 1
<1>1. /\ Len(t) = Len(d) + 2 /\ Len(d) \in Nat /\ DOMAIN t = 1..(Len(d) + 2)
      /\ t[Len(d) + 1] = a /\ t[Len(d) + 2] = b
  OBVIOUS
<1>2. \A i \in 1..(Len(d) + 2) : i <= n \/ i = Len(d) + 2
  BY <1>1
<1>3. n \in 1..(Len(d) + 2) /\ n \in Nat
  BY <1>1
<1> HIDE DEF t
<1>4. n \in OksOf(t) /\ t[n] = a
  BY <1>1, <1>3 DEF OksOf
<1>5. \A i \in OksOf(t) : i <= n
  BY <1>1, <1>2 DEF OksOf
<1>6. Agree(t, a.user, m)
  BY <1>4, <1>5 DEF Agree
<1> QED
  BY <1>6 DEF t

\* Taking the next packet.
LEMMA TakenName ==
    ASSUME NEW S, NEW d \in Seq(S), d # <<>>, NEW s, NEW m, Agree(d, s, m)
    PROVE  Agree(Tail(d), s, IF Head(d).cmd = "LoginOk" THEN Head(d).user ELSE m)
<1> DEFINE t == Tail(d)
           n == IF Head(d).cmd = "LoginOk" THEN Head(d).user ELSE m
<1>1. /\ t \in Seq(S) /\ Len(t) = Len(d) - 1 /\ Len(d) \in Nat /\ Len(d) > 0
      /\ Head(d) = d[1] /\ DOMAIN d = 1..Len(d) /\ DOMAIN t = 1..(Len(d) - 1)
  OBVIOUS
<1>2. \A i \in 1..(Len(d) - 1) : t[i] = d[i + 1] /\ i + 1 \in 1..Len(d) /\ i + 1 # 1
  BY <1>1
<1>3. \A i \in 1..Len(d) :
        i # 1 => i - 1 \in 1..(Len(d) - 1) /\ t[i - 1] = d[i] /\ (i - 1) + 1 = i
  BY <1>1, <1>2
<1> HIDE DEF t, n
<1>4. \A i \in OksOf(t) : i \in Nat /\ i + 1 \in OksOf(d) /\ i + 1 # 1 /\ d[i + 1] = t[i]
  BY <1>1, <1>2 DEF OksOf
<1>5. \A i \in OksOf(d) : i \in Nat /\ (i # 1 => i - 1 \in OksOf(t) /\ t[i - 1] = d[i])
  BY <1>1, <1>3 DEF OksOf
<1>6. 1 \in OksOf(d) <=> Head(d).cmd = "LoginOk"
  BY <1>1 DEF OksOf
<1>7. ASSUME OksOf(t) = {} PROVE Agree(t, s, n)
  <2>1. \A i \in OksOf(d) : i = 1
    BY <1>5, <1>7
  <2>2. CASE OksOf(d) = {}
    BY <1>6, <1>7, <2>2 DEF Agree, n
  <2>3. CASE OksOf(d) # {}
    <3>1. 1 \in OksOf(d) /\ s = d[1].user
      BY <2>1, <2>3 DEF Agree
    <3> QED
      BY <1>1, <1>6, <1>7, <3>1 DEF Agree, n
  <2> QED
    BY <2>2, <2>3
<1>8. ASSUME OksOf(t) # {} PROVE Agree(t, s, n)
  <2>1. OksOf(d) # {}
    BY <1>4, <1>8
  <2>2. PICK i \in OksOf(d) : (\A j \in OksOf(d) : j <= i) /\ s = d[i].user
    BY <2>1 DEF Agree
  <2>3. i # 1 /\ i \in Nat
    <3>1. PICK k \in OksOf(t) : TRUE
      BY <1>8
    <3>2. k \in Nat /\ k + 1 \in OksOf(d) /\ k + 1 # 1 /\ k + 1 <= i /\ i \in Nat
      BY <1>4, <1>5, <2>2
    <3>3. k >= 1
      BY <1>1, <3>1 DEF OksOf
    <3> QED
      BY <3>2, <3>3
  <2>4. i - 1 \in OksOf(t) /\ t[i - 1] = d[i]
    BY <1>5, <2>3
  <2>5. \A j \in OksOf(t) : j <= i - 1
    <3>1. ASSUME NEW j \in OksOf(t) PROVE j <= i - 1
      <4>1. j \in Nat /\ j + 1 <= i
        BY <1>4, <2>2
      <4> QED
        BY <2>3, <4>1
    <3> QED
      BY <3>1
  <2> QED
    BY <1>8, <2>2, <2>4, <2>5 DEF Agree
<1>9. Agree(t, s, n)
  BY <1>7, <1>8
<1> QED
  BY <1>9 DEF t, n

-----------------------------------------------------------------------------
(* The steps.                                                               *)

LEMMA PacketFacts ==
    /\ \A p \in UpPackets :
        /\ p.cmd = "Login" => p.user \in Users
        /\ p.cmd = "DownloadRequest" => p.file \in Files
    /\ \A p \in DownPackets : p.cmd = "LoginOk" => p.user \in Users
<1>1. \A p \in UpPackets : p.cmd = "Login" => p.user \in Users
  BY DEF UpPackets, Login, Chat, UploadBegin, UploadChunk, UploadEnd, DownloadRequest
<1>2. \A p \in UpPackets : p.cmd = "DownloadRequest" => p.file \in Files
  BY DEF UpPackets, Login, Chat, UploadBegin, UploadChunk, UploadEnd, DownloadRequest
<1>3. \A p \in DownPackets : p.cmd = "LoginOk" => p.user \in Users
  BY DEF DownPackets, LoginOk, FileList, Error, DownloadBegin, DownloadChunk, DownloadEnd
<1> QED
  BY <1>1, <1>2, <1>3

\* A LoginOk under way comes from a session with a name.
LEMMA OksHaveSessions ==
    ASSUME LinkTyped, NamesAgree, OksOf(down) # {}
    PROVE  sessionName \in Users /\ sessionName # NoUser
<1>1. PICK i \in OksOf(down) : sessionName = down[i].user
  BY DEF NamesAgree, OksOf
<1>2. down[i] \in DownPackets /\ down[i].cmd = "LoginOk"
  BY DEF LinkTyped, OksOf
<1> QED
  BY <1>1, <1>2, PacketFacts, ClientAssumption DEF ClientAssumption

\* A slot sends: only with a name what needs one.
LEMMA SendingKeeps ==
    ASSUME SessionInv, NEW ps \in Seq(UpPackets),
           up' = IF connected THEN up \o ps ELSE up,
           dialog' \in {"none", dialog},
           UNCHANGED <<connected, mUsername, down, sessionName>>,
           \/ \A p \in Range(ps) : ~IsGated(p)
           \/ connected => mUsername # NoUser
    PROVE  SessionInv'
<1>1. up' \in Seq(UpPackets) /\ Range(up') \subseteq Range(up) \cup Range(ps)
  BY RangeOfConcat DEF SessionInv, LinkTyped
<1>2. ~connected => up' = up
  OBVIOUS
<1>3. LinkTyped'
  BY <1>1 DEF SessionInv, LinkTyped, Dialogs
<1>4. NothingWithoutConnection' /\ DialogsAreOfUsers'
  BY <1>2 DEF SessionInv, NothingWithoutConnection, DialogsAreOfUsers
<1>5. NamesAgree'
  BY DEF SessionInv, NamesAgree
<1>6. GatedWhenLoggedIn'
  <2>1. CASE \A p \in Range(ps) : ~IsGated(p)
    BY <1>1, <2>1 DEF SessionInv, GatedWhenLoggedIn
  <2>2. CASE connected => mUsername # NoUser
    <3>1. CASE connected
      BY <2>2, <3>1 DEF SessionInv, GatedWhenLoggedIn
    <3>2. CASE ~connected
      BY <1>2, <3>2 DEF SessionInv, GatedWhenLoggedIn
    <3> QED
      BY <3>1, <3>2
  <2> QED
    BY <2>1, <2>2
<1> QED
  BY <1>3, <1>4, <1>5, <1>6 DEF SessionInv

\* A dialog is opened or closed.
LEMMA DialogKeeps ==
    ASSUME SessionInv, dialog' \in Dialogs,
           dialog' # "none" /\ connected => mUsername # NoUser,
           UNCHANGED <<connected, mUsername, up, down, sessionName>>
    PROVE  SessionInv'
BY DEF SessionInv, LinkTyped, NothingWithoutConnection, DialogsAreOfUsers, NamesAgree,
       GatedWhenLoggedIn

LEMMA ConnectKeeps ==
    ASSUME SessionInv, Connect
    PROVE  SessionInv'
<1>1. /\ ~connected /\ connected' = TRUE /\ dialog = "none" /\ down' = <<FileList>>
      /\ UNCHANGED <<mUsername, dialog, up, sessionName>>
  BY DEF Connect
<1>2. up = <<>> /\ mUsername = NoUser /\ sessionName = NoUser
  BY <1>1 DEF SessionInv, NothingWithoutConnection
<1>3. down' \in Seq(DownPackets)
  BY <1>1 DEF DownPackets
<1>4. LinkTyped'
  BY <1>1, <1>3 DEF SessionInv, LinkTyped
<1>5. NothingWithoutConnection' /\ DialogsAreOfUsers' /\ GatedWhenLoggedIn'
  BY <1>1 DEF SessionInv, NothingWithoutConnection, DialogsAreOfUsers, GatedWhenLoggedIn
<1>6. NamesAgree'
  <2>1. \A i \in DOMAIN down' : down'[i].cmd = "FileList"
    BY <1>1 DEF FileList
  <2> QED
    BY <1>1, <1>2, <2>1 DEF NamesAgree
<1> QED
  BY <1>4, <1>5, <1>6 DEF SessionInv

LEMMA DisconnectKeeps ==
    ASSUME SessionInv, Disconnect
    PROVE  SessionInv'
<1>1. /\ connected' = FALSE /\ mUsername' = NoUser /\ sessionName' = NoUser
      /\ up' = <<>> /\ down' = <<>> /\ dialog' = dialog
  BY DEF Disconnect
<1>2. LinkTyped'
  <2>1. up' \in Seq(UpPackets) /\ down' \in Seq(DownPackets)
    BY <1>1, EmptyIsSeq
  <2> QED
    BY <1>1, <2>1 DEF SessionInv, LinkTyped
<1>3. NothingWithoutConnection' /\ DialogsAreOfUsers' /\ NamesAgree'
  BY <1>1 DEF NothingWithoutConnection, DialogsAreOfUsers, NamesAgree
<1>4. GatedWhenLoggedIn'
  BY <1>1 DEF GatedWhenLoggedIn, Range
<1> QED
  BY <1>2, <1>3, <1>4 DEF SessionInv

\* What is under way says that there is a connection.
LEMMA UnderWay ==
    ASSUME SessionInv, up # <<>> \/ down # <<>>
    PROVE  connected
BY DEF SessionInv, NothingWithoutConnection

\* The server answers, but not to a login.
OtherPackets == {p \in DownPackets : p.cmd # "LoginOk"}

LEMMA AnswerKeeps ==
    ASSUME SessionInv, up # <<>>, NEW r \in Seq(OtherPackets), Answer(r),
           sessionName' = sessionName
    PROVE  SessionInv'
<1>1. /\ up' = Tail(up) /\ down' = down \o r
      /\ UNCHANGED <<connected, mUsername, dialog>>
  BY DEF Answer, windowVars
<1>2. up \in Seq(UpPackets) /\ down \in Seq(DownPackets) /\ r \in Seq(DownPackets)
  BY DEF SessionInv, LinkTyped, OtherPackets
<1>3. up' \in Seq(UpPackets) /\ Range(up') \subseteq Range(up)
  BY <1>1, <1>2, RangeOfTail
<1>4. down' \in Seq(DownPackets)
  BY <1>1, <1>2
<1>5. LinkTyped'
  BY <1>1, <1>3, <1>4 DEF SessionInv, LinkTyped
<1>6. NothingWithoutConnection' /\ DialogsAreOfUsers' /\ GatedWhenLoggedIn'
  BY <1>1, <1>3, UnderWay
     DEF SessionInv, NothingWithoutConnection, DialogsAreOfUsers, GatedWhenLoggedIn
<1>7. NamesAgree'
  <2>1. Agree(down, sessionName, mUsername)
    BY NamesAgreeIsAgree DEF SessionInv
  <2>2. \A i \in 1..Len(r) : r[i].cmd # "LoginOk"
    BY DEF OtherPackets
  <2>3. Agree(down \o r, sessionName, mUsername)
    BY <1>2, <2>1, <2>2, OtherReplies
  <2> QED
    BY <1>1, <2>3 DEF NamesAgree, Agree, OksOf
<1> QED
  BY <1>5, <1>6, <1>7 DEF SessionInv

LEMMA AnswerLoginKeeps ==
    ASSUME SessionInv, AnswerLogin
    PROVE  SessionInv'
<1> DEFINE u == Head(up).user
<1>1. up # <<>> /\ Head(up).cmd = "Login"
  BY DEF AnswerLogin
<1>2. up \in Seq(UpPackets) /\ down \in Seq(DownPackets)
  BY DEF SessionInv, LinkTyped
<1>3. u \in Users /\ u # NoUser
  <2>1. Head(up) \in UpPackets
    BY <1>1, <1>2
  <2> QED
    BY <1>1, <2>1, PacketFacts, ClientAssumption DEF ClientAssumption
<1> HIDE DEF u
<1>4. CASE sessionName' = u /\ Answer(<<LoginOk(u), FileList>>)
  <2>1. /\ up' = Tail(up) /\ down' = down \o <<LoginOk(u), FileList>>
        /\ UNCHANGED <<connected, mUsername, dialog>>
    BY <1>4 DEF Answer, windowVars
  <2>2. /\ LoginOk(u) \in DownPackets /\ FileList \in DownPackets
        /\ LoginOk(u).cmd = "LoginOk" /\ LoginOk(u).user = u
        /\ FileList.cmd # "LoginOk"
    BY <1>3 DEF DownPackets, LoginOk, FileList
  <2>3. up' \in Seq(UpPackets) /\ down' \in Seq(DownPackets)
    BY <1>1, <1>2, <2>1, <2>2
  <2>4. LinkTyped'
    BY <1>3, <1>4, <2>1, <2>3 DEF SessionInv, LinkTyped
  <2>5. NothingWithoutConnection' /\ DialogsAreOfUsers' /\ GatedWhenLoggedIn'
    BY <1>1, <1>3, <1>4, <2>1, UnderWay
       DEF SessionInv, NothingWithoutConnection, DialogsAreOfUsers, GatedWhenLoggedIn
  <2>6. NamesAgree'
    <3>1. Agree(down \o <<LoginOk(u), FileList>>, u, mUsername)
      BY <1>2, <2>2, NewName
    <3> QED
      BY <1>4, <2>1, <3>1 DEF NamesAgree, Agree, OksOf
  <2> QED
    BY <2>4, <2>5, <2>6 DEF SessionInv
<1>5. CASE UNCHANGED sessionName /\ Answer(<<Error>>)
  <2>1. <<Error>> \in Seq(OtherPackets)
    BY DEF OtherPackets, DownPackets, Error
  <2> QED
    BY <1>1, <1>5, <2>1, AnswerKeeps
<1> QED
  BY <1>4, <1>5 DEF AnswerLogin, u

LEMMA AnswerOtherKeeps ==
    ASSUME SessionInv, AnswerOther
    PROVE  SessionInv'
<1>1. PICK r \in {<<>>, <<Error>>, <<FileList>>} : Answer(r)
  BY DEF AnswerOther
<1>2. r \in Seq(OtherPackets)
  <2>1. Error \in OtherPackets /\ FileList \in OtherPackets
    BY DEF OtherPackets, DownPackets, Error, FileList
  <2>2. <<Error>> \in Seq(OtherPackets) /\ <<FileList>> \in Seq(OtherPackets)
    BY <2>1
  <2> QED
    BY <2>2, EmptyIsSeq
<1> QED
  BY <1>1, <1>2, AnswerKeeps DEF AnswerOther

LEMMA AnswerDownloadKeeps ==
    ASSUME SessionInv, AnswerDownload
    PROVE  SessionInv'
<1> DEFINE f == Head(up).file
           Data(n) == [i \in 1..n |-> DownloadChunk(Chunks(f)[i])]
           Whole(n) == <<DownloadBegin(f)>> \o Data(n) \o <<DownloadEnd(f)>>
<1>1. up # <<>> /\ Head(up).cmd = "DownloadRequest" /\ sessionName' = sessionName
  BY DEF AnswerDownload
<1>2. f \in Files /\ FileSize(f) \in Nat
  <2>1. Head(up) \in UpPackets
    BY <1>1 DEF SessionInv, LinkTyped
  <2> QED
    BY <1>1, <2>1, PacketFacts, ClientAssumption DEF ClientAssumption
<1>3. \/ Answer(<<Error>>)
      \/ Answer(<<DownloadBegin(f), Error>>)
      \/ \E n \in 0..FileSize(f) : Answer(Whole(n))
  <2>1. FileSize(f) \in 0..FileSize(f)
    BY <1>2
  <2>2. CASE Answer(Whole(FileSize(f)))
    BY <2>1, <2>2
  <2>3. CASE ~Answer(Whole(FileSize(f)))
    BY <2>3 DEF AnswerDownload, CannotOpen
  <2> QED
    BY <2>2, <2>3
<1> HIDE DEF f
<1>4. /\ Error \in OtherPackets /\ DownloadBegin(f) \in OtherPackets
      /\ DownloadEnd(f) \in OtherPackets
      /\ \A i \in Nat : DownloadChunk(<<f, i>>) \in OtherPackets
  <2>1. Error \in OtherPackets
    BY DEF OtherPackets, DownPackets, Error
  <2>2. DownloadBegin(f) \in OtherPackets
    BY <1>2 DEF OtherPackets, DownPackets, DownloadBegin
  <2>3. DownloadEnd(f) \in OtherPackets
    BY <1>2 DEF OtherPackets, DownPackets, DownloadEnd
  <2>4. ASSUME NEW i \in Nat PROVE DownloadChunk(<<f, i>>) \in OtherPackets
    <3>1. <<f, i>> \in Files \X Nat
      BY <1>2
    <3>2. DownloadChunk(<<f, i>>) \in DownPackets
      BY <3>1 DEF DownPackets
    <3> QED
      BY <3>2 DEF OtherPackets, DownloadChunk
  <2> QED
    BY <2>1, <2>2, <2>3, <2>4
<1>5. ASSUME NEW n \in 0..FileSize(f) PROVE Whole(n) \in Seq(OtherPackets)
  <2>1. n \in Nat /\ \A i \in 1..n : Chunks(f)[i] = <<f, i>>
    BY <1>2 DEF Chunks
  <2>2. Data(n) \in Seq(OtherPackets)
    <3>1. \A i \in 1..n : DownloadChunk(Chunks(f)[i]) \in OtherPackets
      BY <1>4, <2>1
    <3> QED
      BY <2>1, <3>1
  <2> HIDE DEF Data
  <2>3. <<DownloadBegin(f)>> \in Seq(OtherPackets) /\ <<DownloadEnd(f)>> \in Seq(OtherPackets)
    BY <1>4
  <2> QED
    BY <2>2, <2>3
<1>6. <<Error>> \in Seq(OtherPackets) /\ <<DownloadBegin(f), Error>> \in Seq(OtherPackets)
  BY <1>4
<1> HIDE DEF Whole
<1> QED
  BY <1>1, <1>3, <1>5, <1>6, AnswerKeeps

\* processPacket takes a packet; a LoginOk gives the window its name.
LEMMA TakeKeeps ==
    ASSUME SessionInv, down # <<>>, down' = Tail(down),
           mUsername' = IF Head(down).cmd = "LoginOk" THEN Head(down).user
                        ELSE mUsername,
           UNCHANGED <<connected, dialog, up, sessionName>>
    PROVE  SessionInv'
<1>1. down \in Seq(DownPackets) /\ down' \in Seq(DownPackets) /\ Head(down) \in DownPackets
  BY RangeOfTail DEF SessionInv, LinkTyped
<1>2. Head(down).cmd = "LoginOk" =>
        mUsername' \in Users /\ mUsername' # NoUser /\ sessionName # NoUser
  <2>1. ASSUME Head(down).cmd = "LoginOk"
        PROVE  mUsername' \in Users /\ mUsername' # NoUser /\ sessionName # NoUser
    <3>1. mUsername' \in Users /\ mUsername' # NoUser
      BY <1>1, <2>1, PacketFacts, ClientAssumption DEF ClientAssumption
    <3>2. 1 \in OksOf(down)
      BY <1>1, <2>1 DEF OksOf
    <3> QED
      BY <3>1, <3>2, OksHaveSessions DEF SessionInv
  <2> QED
    BY <2>1
<1>3. LinkTyped'
  BY <1>1, <1>2 DEF SessionInv, LinkTyped
<1>4. NothingWithoutConnection' /\ DialogsAreOfUsers'
  BY <1>2, UnderWay DEF SessionInv, NothingWithoutConnection, DialogsAreOfUsers
<1>5. GatedWhenLoggedIn'
  BY <1>2 DEF SessionInv, GatedWhenLoggedIn
<1>6. NamesAgree'
  <2>1. Agree(down, sessionName, mUsername)
    BY NamesAgreeIsAgree DEF SessionInv
  <2>2. Agree(Tail(down), sessionName, mUsername')
    BY <1>1, <2>1, TakenName
  <2> QED
    BY <2>2 DEF NamesAgree, Agree, OksOf
<1> QED
  BY <1>3, <1>4, <1>5, <1>6 DEF SessionInv

LEMMA ProcessPacketKeeps ==
    ASSUME SessionInv, ProcessPacket
    PROVE  SessionInv'
<1>1. /\ down # <<>> /\ down' = Tail(down)
      /\ UNCHANGED <<connected, dialog, up, sessionName>>
  BY DEF ProcessPacket, TakeLoginOk, TakeFileList, TakeError, TakeDownloadBegin,
         TakeDownloadChunk, TakeDownloadEnd, Takes
<1>2. mUsername' = IF Head(down).cmd = "LoginOk" THEN Head(down).user ELSE mUsername
  BY DEF ProcessPacket, TakeLoginOk, TakeFileList, TakeError, TakeDownloadBegin,
         TakeDownloadChunk, TakeDownloadEnd, Takes
<1> QED
  BY <1>1, <1>2, TakeKeeps

LEMMA SlotsKeep ==
    ASSUME SessionInv,
           \/ \E u \in Users : ClickLogin(u)
           \/ ClickSendMsg \/ ClickSendFile \/ UploadChosen \/ CancelDialog
           \/ \E f \in Files : ClickDownloadFile(f)
           \/ \E p \in Paths : SaveChosen(p) \/ SaveFails(p)
    PROVE  SessionInv'
<1> USE DEF windowVars, linkVars
<1>1. ASSUME NEW u \in Users, ClickLogin(u) PROVE SessionInv'
  <2>1. <<Login(u)>> \in Seq(UpPackets)
    BY DEF UpPackets
  <2>2. \A p \in Range(<<Login(u)>>) : ~IsGated(p)
    BY DEF Range, IsGated, Login
  <2> QED
    BY <1>1, <2>1, <2>2, SendingKeeps DEF ClickLogin, SendPackets
<1>2. CASE ClickSendMsg
  <2>1. <<Chat>> \in Seq(UpPackets)
    BY DEF UpPackets
  <2> QED
    BY <1>2, <2>1, SendingKeeps DEF ClickSendMsg, SendPackets, EnsureLoggedIn
<1>3. CASE UploadChosen
  <2>1. /\ <<UploadBegin, UploadChunk, UploadEnd>> \in Seq(UpPackets)
        /\ <<UploadBegin>> \in Seq(UpPackets)
    BY DEF UpPackets
  <2>2. connected => mUsername # NoUser
    BY <1>3 DEF UploadChosen, SessionInv, DialogsAreOfUsers
  <2> QED
    BY <1>3, <2>1, <2>2, SendingKeeps DEF UploadChosen, SendPackets
<1>4. ASSUME NEW p \in Paths, SaveChosen(p) PROVE SessionInv'
  <2>1. dialog \in Files /\ dialog # "none"
    BY <1>4, ClientAssumption DEF SaveChosen, ClientAssumption
  <2>2. <<DownloadRequest(dialog)>> \in Seq(UpPackets)
    BY <2>1 DEF UpPackets
  <2>3. connected => mUsername # NoUser
    BY <2>1 DEF SessionInv, DialogsAreOfUsers
  <2> QED
    BY <1>4, <2>2, <2>3, SendingKeeps DEF SaveChosen, SendPackets
<1>5. ASSUME NEW p \in Paths, SaveFails(p) PROVE SessionInv'
  BY <1>5, DialogKeeps DEF SaveFails, Dialogs
<1>6. CASE CancelDialog
  BY <1>6, DialogKeeps DEF CancelDialog, Dialogs
<1>7. ASSUME NEW d \in Dialogs, OpenDialog(d) PROVE SessionInv'
  BY <1>7, DialogKeeps DEF OpenDialog, EnsureLoggedIn
<1>8. CASE ClickSendFile \/ \E f \in Files : ClickDownloadFile(f)
  BY <1>7, <1>8 DEF ClickSendFile, ClickDownloadFile, Dialogs
<1> QED
  BY <1>1, <1>2, <1>3, <1>4, <1>5, <1>6, <1>8

LEMMA StepKeeps == SessionInv /\ [Next]_vars => SessionInv'
<1> SUFFICES ASSUME SessionInv, [Next]_vars PROVE SessionInv'
  OBVIOUS
<1>1. CASE Connect \/ Disconnect
  BY <1>1, ConnectKeeps, DisconnectKeeps
<1>2. CASE Serve
  BY <1>2, AnswerLoginKeeps, AnswerOtherKeeps, AnswerDownloadKeeps DEF Serve
<1>3. CASE ProcessPacket
  BY <1>3, ProcessPacketKeeps
<1>4. CASE UNCHANGED vars
  <2>1. UNCHANGED <<connected, mUsername, dialog, up, down, sessionName>>
    BY <1>4 DEF vars, windowVars, linkVars
  <2> QED
    BY <2>1, DialogKeeps DEF SessionInv, LinkTyped, DialogsAreOfUsers
<1> QED
  BY <1>1, <1>2, <1>3, <1>4, SlotsKeep DEF Next

LEMMA InitSound == Init => SessionInv
<1> SUFFICES ASSUME Init PROVE SessionInv
  OBVIOUS
<1>1. LinkTyped
  <2>1. up \in Seq(UpPackets) /\ down \in Seq(DownPackets)
    BY EmptyIsSeq DEF Init
  <2> QED
    BY <2>1 DEF Init, LinkTyped, Dialogs
<1>2. NothingWithoutConnection /\ DialogsAreOfUsers /\ NamesAgree
  BY DEF Init, NothingWithoutConnection, DialogsAreOfUsers, NamesAgree
<1>3. GatedWhenLoggedIn
  BY DEF Init, GatedWhenLoggedIn, Range
<1> QED
  BY <1>1, <1>2, <1>3 DEF SessionInv

-----------------------------------------------------------------------------
(* The theorems.                                                            *)

\* The inductive invariant.
THEOREM SessionInvariant == Spec => []SessionInv
BY InitSound, StepKeeps, PTL DEF Spec

\* ensureLoggedIn agrees with the server's checks: nothing that needs a name
\* reaches a session without one.
THEOREM OnlyUsersAreServed == Spec => []GatedWhenLoggedIn
<1>1. SessionInv => GatedWhenLoggedIn
  BY DEF SessionInv
<1> QED
  BY <1>1, SessionInvariant, PTL

\* Once the answers under way are taken, m_username is the name of the session.
THEOREM WindowNamesAgree == Spec => []NamesAgree
<1>1. SessionInv => NamesAgree
  BY DEF SessionInv
<1> QED
  BY <1>1, SessionInvariant, PTL

=============================================================================
