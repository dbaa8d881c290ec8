---------------------------- MODULE DownloadProofs ----------------------------
(***************************************************************************)
(* Proofs about the downloads of the Qt client, for any number of files    *)
(* of any length and packets under way: a download that is reported as     *)
(* complete is complete, nothing partial stays on disk unnoticed, and what *)
(* is counted is within the files.                                         *)
(***************************************************************************)
EXTENDS ChatClientProofs

-----------------------------------------------------------------------------
(* How one download looks while it is under way.                            *)

\* The first k chunks of file f.
Part(f, k) == [i \in 1..k |-> <<f, i>>]

\* No packet of a download is in queue q; exactly one is.
Without(q) == \A i \in DOMAIN q : ~IsDownload(q[i])
WithOne(q) ==
    \E i \in DOMAIN q :
        IsDownload(q[i]) /\ \A j \in DOMAIN q : IsDownload(q[j]) => j = i

\* The answer to a request for f is at b..e of queue q: a begin, chunks in
\* order from the first, an end; or a begin alone (before an error).
AnswerIn(q, f, b, e) ==
    /\ b \in DOMAIN q /\ e \in DOMAIN q /\ b <= e
    /\ q[b] = DownloadBegin(f)
    /\ \A i \in DOMAIN q : b < i /\ i < e => q[i] = DownloadChunk(<<f, i - b>>)
    /\ e > b => q[e] = DownloadEnd(f) /\ e - b - 1 <= FileSize(f)
    /\ \A i \in DOMAIN q : i < b \/ i > e => ~IsDownload(q[i])

\* The rest of an answer is at 1..e of queue q, after k chunks were taken.
RestIn(q, f, k, e) ==
    /\ e \in DOMAIN q
    /\ \A i \in DOMAIN q : i < e => q[i] = DownloadChunk(<<f, k + i>>)
    /\ q[e] = DownloadEnd(f)
    /\ k + e - 1 <= FileSize(f)
    /\ \A i \in DOMAIN q : i > e => ~IsDownload(q[i])

\* What the client has before the begin of an answer is taken, and after it
\* and k chunks.
Waiting == size = 0 /\ received = 0 /\ local[path] = <<>>
Got(f, k) ==
    /\ size = FileSize(f)
    /\ IF open THEN received = k /\ local[path] = Part(f, k)
       ELSE received = 0 /\ (FileSize(f) = 0 => local[path] = <<>>)

Quiet == Without(up) /\ Without(down) /\ (open => local[path] = <<>>)
Asked == WithOne(up) /\ Without(down) /\ Waiting
Answered ==
    /\ Without(up)
    /\ Waiting
    /\ \E f \in Files, b, e \in Nat : AnswerIn(down, f, b, e)
Receiving ==
    /\ Without(up)
    /\ \E f \in Files, k, e \in Nat : RestIn(down, f, k, e) /\ Got(f, k)

\* The inductive invariant: at most one download is under way, or the path it
\* is saved at is tainted.
OneDownload == path \notin tainted => Quiet \/ Asked \/ Answered \/ Receiving

DiskTyped ==
    /\ DOMAIN local = Paths
    /\ open \in BOOLEAN
    /\ open => path \in Paths
    /\ path \in Paths \cup {NoPath}

DownloadInv ==
    /\ SessionInv
    /\ DiskTyped
    /\ OneDownload
    /\ CompletedIsWhole
    /\ NothingPartialStays

-----------------------------------------------------------------------------
(* Queues and files.                                                        *)

LEMMA TailItems ==
    ASSUME NEW S, NEW q \in Seq(S), q # <<>>
    PROVE  /\ Len(q) \in Nat /\ Len(q) > 0
           /\ Tail(q) \in Seq(S) /\ DOMAIN q = 1..Len(q) /\ Head(q) = q[1]
           /\ DOMAIN Tail(q) = 1..(Len(q) - 1)
           /\ \A i \in 1..(Len(q) - 1) : Tail(q)[i] = q[i + 1] /\ i + 1 \in 1..Len(q)
           /\ \A i \in 1..Len(q) :
                i > 1 => i - 1 \in 1..(Len(q) - 1) /\ Tail(q)[i - 1] = q[i]
<1> DEFINE t == Tail(q)
<1>1. /\ t \in Seq(S) /\ Len(t) = Len(q) - 1 /\ Len(q) \in Nat /\ Len(q) > 0
      /\ Head(q) = q[1] /\ DOMAIN q = 1..Len(q)
  OBVIOUS
<1>2. DOMAIN t = 1..(Len(q) - 1)
  BY <1>1
<1>3. \A i \in 1..(Len(q) - 1) : t[i] = q[i + 1] /\ i + 1 \in 1..Len(q)
  BY <1>1
<1>4. \A i \in 1..Len(q) : i > 1 => i - 1 \in 1..(Len(q) - 1) /\ (i - 1) + 1 = i
  BY <1>1
<1> HIDE DEF t
<1>5. \A i \in 1..Len(q) : i > 1 => i - 1 \in 1..(Len(q) - 1) /\ t[i - 1] = q[i]
  BY <1>3, <1>4
<1> QED
  BY <1>1, <1>2, <1>3, <1>5 DEF t

LEMMA ConcatItems ==
    ASSUME NEW S, NEW q \in Seq(S), NEW r \in Seq(S)
    PROVE  /\ Len(q) \in Nat /\ Len(r) \in Nat
           /\ DOMAIN q = 1..Len(q) /\ DOMAIN r = 1..Len(r)
           /\ q \o r \in Seq(S) /\ DOMAIN (q \o r) = 1..(Len(q) + Len(r))
           /\ \A i \in 1..Len(q) : (q \o r)[i] = q[i]
           /\ \A i \in 1..(Len(q) + Len(r)) :
                i > Len(q) => i - Len(q) \in 1..Len(r) /\ (q \o r)[i] = r[i - Len(q)]
<1> DEFINE t == q \o r
<1>1. /\ t \in Seq(S) /\ Len(t) = Len(q) + Len(r) /\ Len(q) \in Nat /\ Len(r) \in Nat
      /\ DOMAIN q = 1..Len(q) /\ DOMAIN r = 1..Len(r)
  OBVIOUS
<1>2. DOMAIN t = 1..(Len(q) + Len(r))
  BY <1>1
<1>3. \A i \in 1..Len(q) : t[i] = q[i]
  OBVIOUS
<1>4. \A i \in 1..(Len(q) + Len(r)) :
        i > Len(q) => i - Len(q) \in 1..Len(r) /\ t[i] = r[i - Len(q)]
  BY <1>1
<1> QED
  BY <1>1, <1>2, <1>3, <1>4

LEMMA Parts ==
    ASSUME NEW f, NEW k \in Nat
    PROVE  /\ Part(f, 0) = <<>>
           /\ Append(Part(f, k), <<f, k + 1>>) = Part(f, k + 1)
<1>1. Part(f, 0) = <<>>
  BY DEF Part
<1> DEFINE p == Part(f, k)
           S == {f} \X Nat
           a == Append(p, <<f, k + 1>>)
<1>2. p \in Seq(S) /\ Len(p) = k /\ \A i \in 1..k : p[i] = <<f, i>>
  BY DEF Part
<1>3. <<f, k + 1>> \in S
  OBVIOUS
<1> HIDE DEF p, S
<1>4. a \in Seq(S) /\ Len(a) = k + 1 /\ a[k + 1] = <<f, k + 1>>
      /\ \A i \in 1..k : a[i] = p[i]
  BY <1>2, <1>3
<1> HIDE DEF a
<1>5. \A i \in 1..(k + 1) : a[i] = <<f, i>>
  <2>1. \A i \in 1..(k + 1) : i \in 1..k \/ i = k + 1
    OBVIOUS
  <2> QED
    BY <1>2, <1>4, <2>1
<1>6. a = [i \in 1..(k + 1) |-> <<f, i>>]
  <2>1. a = [i \in 1..Len(a) |-> a[i]]
    BY <1>4
  <2> QED
    BY <1>4, <1>5, <2>1
<1> QED
  BY <1>1, <1>6 DEF Part, a, p

\* Which packets are a download's.
LEMMA Kinds ==
    /\ \A f \in Files : /\ IsDownload(DownloadRequest(f))
                        /\ IsDownload(DownloadBegin(f)) /\ IsDownload(DownloadEnd(f))
    /\ \A c : IsDownload(DownloadChunk(c))
    /\ ~IsDownload(FileList) /\ ~IsDownload(Error)
    /\ \A u \in Users : ~IsDownload(Login(u)) /\ ~IsDownload(LoginOk(u))
    /\ ~IsDownload(Chat) /\ ~IsDownload(UploadBegin) /\ ~IsDownload(UploadChunk)
    /\ ~IsDownload(UploadEnd)
BY DEF IsDownload, DownloadRequest, DownloadBegin, DownloadEnd, DownloadChunk,
       FileList, Error, Login, LoginOk, Chat, UploadBegin, UploadChunk, UploadEnd

LEMMA WithoutConcat ==
    ASSUME NEW S, NEW q \in Seq(S), NEW r \in Seq(S), Without(r)
    PROVE  /\ Without(q) => Without(q \o r)
           /\ WithOne(q) => WithOne(q \o r)
           /\ \A f, b, e : AnswerIn(q, f, b, e) => AnswerIn(q \o r, f, b, e)
           /\ \A f, k, e : RestIn(q, f, k, e) => RestIn(q \o r, f, k, e)
<1> DEFINE t == q \o r
           n == Len(q)
           m == Len(q) + Len(r)
<1>1. /\ n \in Nat /\ m \in Nat /\ n <= m /\ DOMAIN q = 1..n /\ DOMAIN t = 1..m
      /\ \A i \in 1..n : t[i] = q[i] /\ i \in 1..m
      /\ \A i \in 1..m : i > n => ~IsDownload(t[i])
  <2>1. \A i \in 1..m : i > n => i - n \in DOMAIN r /\ t[i] = r[i - n]
    BY ConcatItems
  <2>2. \A i \in 1..m : i > n => ~IsDownload(t[i])
    BY <2>1 DEF Without
  <2> QED
    BY <2>2, ConcatItems
<1> HIDE DEF t, n, m
<1>2. \A i \in 1..m : i \in 1..n \/ i > n
  BY <1>1
<1>3. Without(q) => Without(t)
  BY <1>1, <1>2 DEF Without
<1>4. WithOne(q) => WithOne(t)
  BY <1>1, <1>2 DEF WithOne
<1>5. ASSUME NEW f, NEW b, NEW e, AnswerIn(q, f, b, e) PROVE AnswerIn(t, f, b, e)
  BY <1>1, <1>2, <1>5 DEF AnswerIn
<1>6. ASSUME NEW f, NEW k, NEW e, RestIn(q, f, k, e) PROVE RestIn(t, f, k, e)
  BY <1>1, <1>2, <1>6 DEF RestIn
<1> QED
  BY <1>3, <1>4, <1>5, <1>6 DEF t

\* The head of a queue is taken: a packet of no download, ...
LEMMA OtherTaken ==
    ASSUME NEW S, NEW q \in Seq(S), q # <<>>, ~IsDownload(Head(q))
    PROVE  /\ Without(q) => Without(Tail(q))
           /\ WithOne(q) => WithOne(Tail(q))
           /\ \A f \in Files : \A b, e \in Nat : AnswerIn(q, f, b, e) =>
                b - 1 \in Nat /\ e - 1 \in Nat /\ AnswerIn(Tail(q), f, b - 1, e - 1)
           /\ \A f \in Files : \A k, e \in Nat : ~RestIn(q, f, k, e)
<1> DEFINE t == Tail(q)
           n == Len(q)
<1>1. /\ n \in Nat /\ n > 0 /\ DOMAIN q = 1..n /\ DOMAIN t = 1..(n - 1)
      /\ Head(q) = q[1] /\ 1 \in 1..n
      /\ \A i \in 1..(n - 1) : t[i] = q[i + 1] /\ i + 1 \in 1..n
      /\ \A i \in 1..n : i > 1 => i - 1 \in 1..(n - 1) /\ t[i - 1] = q[i]
  BY TailItems
<1> HIDE DEF t, n
<1>2. \A i \in 1..n : i > 1 \/ i = 1
  BY <1>1
<1>3. Without(q) => Without(t)
  BY <1>1 DEF Without
<1>4. WithOne(q) => WithOne(t)
  <2>1. ASSUME WithOne(q) PROVE WithOne(t)
    <3>1. PICK i \in 1..n : IsDownload(q[i]) /\ \A j \in 1..n : IsDownload(q[j]) => j = i
      BY <1>1, <2>1 DEF WithOne
    <3>2. i > 1
      BY <1>1, <1>2, <3>1
    <3>3. i - 1 \in 1..(n - 1) /\ IsDownload(t[i - 1])
      BY <1>1, <3>1, <3>2
    <3>4. \A j \in 1..(n - 1) : IsDownload(t[j]) => j = i - 1
      <4>1. ASSUME NEW j \in 1..(n - 1), IsDownload(t[j]) PROVE j = i - 1
        <5>1. j + 1 \in 1..n /\ IsDownload(q[j + 1])
          BY <1>1, <4>1
        <5>2. j + 1 = i
          BY <3>1, <5>1
        <5> QED
          BY <5>2
      <4> QED
        BY <4>1
    <3> QED
      BY <1>1, <3>3, <3>4 DEF WithOne
  <2> QED
    BY <2>1
<1>5. ASSUME NEW f \in Files, NEW b \in Nat, NEW e \in Nat, AnswerIn(q, f, b, e)
      PROVE  b - 1 \in Nat /\ e - 1 \in Nat /\ AnswerIn(t, f, b - 1, e - 1)
  <2>1. b \in 1..n /\ e \in 1..n /\ b <= e /\ q[b] = DownloadBegin(f)
    BY <1>1, <1>5 DEF AnswerIn
  <2>2. b > 1 /\ e > 1
    BY <1>1, <2>1, Kinds
  <2>3. b - 1 \in 1..(n - 1) /\ e - 1 \in 1..(n - 1) /\ b - 1 <= e - 1
        /\ t[b - 1] = DownloadBegin(f) /\ t[e - 1] = q[e]
    BY <1>1, <2>1, <2>2
  <2>4. ASSUME NEW i \in 1..(n - 1), b - 1 < i, i < e - 1
        PROVE  t[i] = DownloadChunk(<<f, i - (b - 1)>>)
    <3>1. i + 1 \in 1..n /\ b < i + 1 /\ i + 1 < e /\ t[i] = q[i + 1]
          /\ (i + 1) - b = i - (b - 1)
      BY <1>1, <2>1, <2>4
    <3> QED
      BY <1>1, <1>5, <3>1 DEF AnswerIn
  <2>5. e - 1 > b - 1 => t[e - 1] = DownloadEnd(f) /\ (e - 1) - (b - 1) - 1 <= FileSize(f)
    <3>1. (e - 1) - (b - 1) - 1 = e - b - 1 /\ (e - 1 > b - 1 => e > b)
      OBVIOUS
    <3> QED
      BY <1>5, <2>3, <3>1 DEF AnswerIn
  <2>6. ASSUME NEW i \in 1..(n - 1), i < b - 1 \/ i > e - 1 PROVE ~IsDownload(t[i])
    <3>1. i + 1 \in 1..n /\ (i + 1 < b \/ i + 1 > e) /\ t[i] = q[i + 1]
      BY <1>1, <2>6
    <3> QED
      BY <1>1, <1>5, <3>1 DEF AnswerIn
  <2>7. AnswerIn(t, f, b - 1, e - 1)
    BY <1>1, <2>3, <2>4, <2>5, <2>6 DEF AnswerIn
  <2> QED
    BY <2>1, <2>2, <2>7
<1>6. ASSUME NEW f \in Files, NEW k \in Nat, NEW e \in Nat, RestIn(q, f, k, e)
      PROVE  FALSE
  <2>1. e \in 1..n /\ q[e] = DownloadEnd(f)
        /\ (1 < e => q[1] = DownloadChunk(<<f, k + 1>>))
    BY <1>1, <1>6 DEF RestIn
  <2> QED
    BY <1>1, <1>2, <2>1, Kinds
<1> QED
  BY <1>3, <1>4, <1>5, <1>6 DEF t

\* ... the request, ...
LEMMA RequestTaken ==
    ASSUME NEW S, NEW q \in Seq(S), q # <<>>, IsDownload(Head(q)), WithOne(q)
    PROVE  Without(Tail(q))
<1> DEFINE t == Tail(q)
           n == Len(q)
<1>1. /\ n \in Nat /\ n > 0 /\ DOMAIN q = 1..n /\ DOMAIN t = 1..(n - 1)
      /\ Head(q) = q[1] /\ 1 \in 1..n
      /\ \A i \in 1..(n - 1) : t[i] = q[i + 1] /\ i + 1 \in 1..n /\ i + 1 # 1
  BY TailItems
<1> HIDE DEF t, n
<1>2. \A j \in 1..n : IsDownload(q[j]) => j = 1
  BY <1>1 DEF WithOne
<1>3. Without(t)
  BY <1>1, <1>2 DEF Without
<1> QED
  BY <1>3 DEF t

\* ... the begin of an answer, ...
LEMMA BeginTaken ==
    ASSUME NEW S, NEW q \in Seq(S), q # <<>>, IsDownload(Head(q)),
           NEW f \in Files, NEW b \in Nat, NEW e \in Nat, AnswerIn(q, f, b, e)
    PROVE  /\ Head(q) = DownloadBegin(f)
           /\ \/ Without(Tail(q))
              \/ e - 1 \in Nat /\ RestIn(Tail(q), f, 0, e - 1)
<1> DEFINE t == Tail(q)
           n == Len(q)
<1>1. /\ n \in Nat /\ n > 0 /\ DOMAIN q = 1..n /\ DOMAIN t = 1..(n - 1)
      /\ Head(q) = q[1] /\ 1 \in 1..n
      /\ \A i \in 1..(n - 1) : t[i] = q[i + 1] /\ i + 1 \in 1..n /\ i + 1 > 1
      /\ \A i \in 1..n : i > 1 => i - 1 \in 1..(n - 1) /\ t[i - 1] = q[i]
  BY TailItems
<1> HIDE DEF t, n
<1>2. b \in 1..n /\ e \in 1..n /\ b <= e /\ q[b] = DownloadBegin(f)
  BY <1>1 DEF AnswerIn
<1>3. b = 1
  <2>1. ~(1 < b)
    BY <1>1 DEF AnswerIn
  <2> QED
    BY <1>2, <2>1
<1>4. CASE e = 1
  <2>1. Without(t)
    BY <1>1, <1>4 DEF Without, AnswerIn
  <2> QED
    BY <1>1, <1>2, <1>3, <2>1 DEF t
<1>5. CASE e # 1
  <2>1. e > b /\ e > 1
    BY <1>2, <1>3, <1>5
  <2>2. e - 1 \in 1..(n - 1) /\ t[e - 1] = DownloadEnd(f) /\ 0 + (e - 1) - 1 <= FileSize(f)
    <3>1. e - b - 1 = 0 + (e - 1) - 1
      BY <1>2, <1>3
    <3> QED
      BY <1>1, <1>2, <2>1, <3>1 DEF AnswerIn
  <2>3. ASSUME NEW i \in 1..(n - 1), i < e - 1 PROVE t[i] = DownloadChunk(<<f, 0 + i>>)
    <3>1. i + 1 \in 1..n /\ b < i + 1 /\ i + 1 < e /\ t[i] = q[i + 1]
          /\ (i + 1) - b = 0 + i
      BY <1>1, <1>2, <1>3, <2>3
    <3> QED
      BY <1>1, <3>1 DEF AnswerIn
  <2>4. ASSUME NEW i \in 1..(n - 1), i > e - 1 PROVE ~IsDownload(t[i])
    <3>1. i + 1 \in 1..n /\ i + 1 > e /\ t[i] = q[i + 1]
      BY <1>1, <1>2, <2>4
    <3> QED
      BY <1>1, <3>1 DEF AnswerIn
  <2>5. RestIn(t, f, 0, e - 1)
    BY <1>1, <2>2, <2>3, <2>4 DEF RestIn
  <2>6. e - 1 \in Nat
    BY <2>1
  <2> QED
    BY <1>1, <1>2, <1>3, <2>5, <2>6 DEF t
<1> QED
  BY <1>4, <1>5

\* ... its next chunk or its end.
LEMMA RestTaken ==
    ASSUME NEW S, NEW q \in Seq(S), q # <<>>,
           NEW f \in Files, NEW k \in Nat, NEW e \in Nat, RestIn(q, f, k, e),
           FileSize(f) \in Nat
    PROVE  \/ /\ Head(q) = DownloadChunk(<<f, k + 1>>)
              /\ k + 1 <= FileSize(f)
              /\ e - 1 \in Nat /\ RestIn(Tail(q), f, k + 1, e - 1)
           \/ /\ Head(q) = DownloadEnd(f)
              /\ k <= FileSize(f)
              /\ Without(Tail(q))
<1> DEFINE t == Tail(q)
           n == Len(q)
<1>1. /\ n \in Nat /\ n > 0 /\ DOMAIN q = 1..n /\ DOMAIN t = 1..(n - 1)
      /\ Head(q) = q[1] /\ 1 \in 1..n
      /\ \A i \in 1..(n - 1) : t[i] = q[i + 1] /\ i + 1 \in 1..n /\ i + 1 > 1
      /\ \A i \in 1..n : i > 1 => i - 1 \in 1..(n - 1) /\ t[i - 1] = q[i]
  BY TailItems
<1> HIDE DEF t, n
<1>2. e \in 1..n /\ q[e] = DownloadEnd(f) /\ k + e - 1 <= FileSize(f)
  BY <1>1 DEF RestIn
<1>3. CASE e = 1
  <2>1. Without(t)
    BY <1>1, <1>3 DEF Without, RestIn
  <2>2. k <= FileSize(f)
    BY <1>2, <1>3
  <2> QED
    BY <1>1, <1>2, <1>3, <2>1, <2>2 DEF t
<1>4. CASE e # 1
  <2>1. e > 1 /\ k + 1 <= FileSize(f) /\ (k + 1) + (e - 1) - 1 <= FileSize(f)
        /\ e - 1 \in Nat
    BY <1>2, <1>4
  <2>2. q[1] = DownloadChunk(<<f, k + 1>>)
    BY <1>1, <2>1 DEF RestIn
  <2>3. e - 1 \in 1..(n - 1) /\ t[e - 1] = DownloadEnd(f)
    BY <1>1, <1>2, <2>1
  <2>4. ASSUME NEW i \in 1..(n - 1), i < e - 1
        PROVE  t[i] = DownloadChunk(<<f, (k + 1) + i>>)
    <3>1. i + 1 \in 1..n /\ i + 1 < e /\ t[i] = q[i + 1] /\ k + (i + 1) = (k + 1) + i
      BY <1>1, <1>2, <2>4
    <3> QED
      BY <1>1, <3>1 DEF RestIn
  <2>5. ASSUME NEW i \in 1..(n - 1), i > e - 1 PROVE ~IsDownload(t[i])
    <3>1. i + 1 \in 1..n /\ i + 1 > e /\ t[i] = q[i + 1]
      BY <1>1, <1>2, <2>5
    <3> QED
      BY <1>1, <3>1 DEF RestIn
  <2>6. RestIn(t, f, k + 1, e - 1)
    BY <1>1, <2>1, <2>3, <2>4, <2>5 DEF RestIn
  <2> QED
    BY <1>1, <2>1, <2>2, <2>6 DEF t
<1> QED
  BY <1>3, <1>4

\* A request is put into a queue that has none.
LEMMA RequestPut ==
    ASSUME NEW S, NEW q \in Seq(S), NEW p \in S, IsDownload(p), Without(q)
    PROVE  WithOne(q \o <<p>>)
<1> DEFINE t == q \o <<p>>
           n == Len(q)
<1>1. /\ n \in Nat /\ DOMAIN q = 1..n /\ DOMAIN t = 1..(n + 1) /\ t[n + 1] = p
      /\ \A i \in 1..n : t[i] = q[i]
  OBVIOUS
<1> HIDE DEF t, n
<1>2. n + 1 \in 1..(n + 1) /\ \A i \in 1..(n + 1) : i \in 1..n \/ i = n + 1
  BY <1>1
<1>3. WithOne(t)
  BY <1>1, <1>2 DEF WithOne, Without
<1> QED
  BY <1>3 DEF t

\* An answer is put into a queue that has none.
LEMMA AnswerPut ==
    ASSUME NEW S, NEW q \in Seq(S), NEW r \in Seq(S), Without(q), NEW f \in Files,
           Len(r) > 1, r[1] = DownloadBegin(f), r[Len(r)] = DownloadEnd(f),
           Len(r) - 2 <= FileSize(f),
           \A i \in 1..Len(r) :
                1 < i /\ i < Len(r) => r[i] = DownloadChunk(<<f, i - 1>>)
    PROVE  \E b, e \in Nat : AnswerIn(q \o r, f, b, e)
<1> DEFINE t == q \o r
           n == Len(q)
           m == Len(r)
<1>1. /\ n \in Nat /\ m \in Nat /\ DOMAIN q = 1..n /\ DOMAIN t = 1..(n + m)
      /\ \A i \in 1..n : t[i] = q[i]
      /\ \A i \in 1..(n + m) : i > n => i - n \in 1..m /\ t[i] = r[i - n]
  BY ConcatItems
<1>2. /\ m > 1 /\ r[1] = DownloadBegin(f) /\ r[m] = DownloadEnd(f) /\ m - 2 <= FileSize(f)
      /\ \A i \in 1..m : 1 < i /\ i < m => r[i] = DownloadChunk(<<f, i - 1>>)
  OBVIOUS
<1> HIDE DEF t, n, m
<1>3. /\ n + 1 \in 1..(n + m) /\ n + m \in 1..(n + m) /\ n + 1 <= n + m
      /\ n + 1 > n /\ n + m > n /\ (n + m) - (n + 1) - 1 = m - 2
  BY <1>1, <1>2
<1>4. t[n + 1] = DownloadBegin(f) /\ t[n + m] = DownloadEnd(f)
  <2>1. t[n + 1] = r[(n + 1) - n]
    BY <1>1, <1>3
  <2>2. t[n + m] = r[(n + m) - n]
    BY <1>1, <1>3
  <2>3. (n + 1) - n = 1 /\ (n + m) - n = m
    BY <1>1
  <2> QED
    BY <1>2, <2>1, <2>2, <2>3
<1>5. ASSUME NEW i \in 1..(n + m), n + 1 < i, i < n + m
      PROVE  t[i] = DownloadChunk(<<f, i - (n + 1)>>)
  <2>1. i - n \in 1..m /\ 1 < i - n /\ i - n < m /\ t[i] = r[i - n]
        /\ (i - n) - 1 = i - (n + 1)
    BY <1>1, <1>5
  <2> QED
    BY <1>2, <2>1
<1>6. ASSUME NEW i \in 1..(n + m), i < n + 1 \/ i > n + m PROVE ~IsDownload(t[i])
  <2>1. i \in 1..n
    BY <1>1, <1>6
  <2> QED
    BY <1>1, <2>1 DEF Without
<1>7. AnswerIn(t, f, n + 1, n + m)
  BY <1>1, <1>2, <1>3, <1>4, <1>5, <1>6 DEF AnswerIn
<1>8. n + 1 \in Nat /\ n + m \in Nat
  BY <1>1
<1> QED
  BY <1>7, <1>8 DEF t

\* The begin of one, before an error.
LEMMA BeginPut ==
    ASSUME NEW S, NEW q \in Seq(S), NEW f \in Files, DownloadBegin(f) \in S, Error \in S,
           Without(q)
    PROVE  \E b, e \in Nat : AnswerIn(q \o <<DownloadBegin(f), Error>>, f, b, e)
<1> DEFINE t == q \o <<DownloadBegin(f), Error>>
           n == Len(q)
<1>1. /\ n \in Nat /\ DOMAIN q = 1..n /\ DOMAIN t = 1..(n + 2)
      /\ t[n + 1] = DownloadBegin(f) /\ t[n + 2] = Error
      /\ \A i \in 1..n : t[i] = q[i]
  OBVIOUS
<1> HIDE DEF t, n
<1>2. ASSUME NEW i \in 1..(n + 2), i < n + 1 \/ i > n + 1 PROVE ~IsDownload(t[i])
  <2>1. i \in 1..n \/ i = n + 2
    BY <1>1, <1>2
  <2> QED
    BY <1>1, <2>1, Kinds DEF Without
<1>3. n + 1 \in 1..(n + 2) /\ n + 1 \in Nat
  BY <1>1
<1>4. AnswerIn(t, f, n + 1, n + 1)
  BY <1>1, <1>2, <1>3 DEF AnswerIn
<1> QED
  BY <1>3, <1>4 DEF t

-----------------------------------------------------------------------------
(* The steps that leave the disk alone.                                     *)

LEMMA SameDisk ==
    ASSUME DownloadInv, SessionInv', UNCHANGED downloadVars, report' \in {report, NoReport},
           Without(up) => Without(up'),
           WithOne(up) => WithOne(up'),
           Without(down) => Without(down'),
           \A f \in Files : \A b, e \in Nat : AnswerIn(down, f, b, e) =>
                \E b1, e1 \in Nat : AnswerIn(down', f, b1, e1),
           \A f \in Files : \A k, e \in Nat : RestIn(down, f, k, e) =>
                \E e1 \in Nat : RestIn(down', f, k, e1)
    PROVE  DownloadInv'
<1>1. UNCHANGED <<path, open, size, received, local, tainted, short>>
  BY DEF downloadVars
<1>2. DiskTyped' /\ NothingPartialStays'
  BY <1>1 DEF DownloadInv, DiskTyped, NothingPartialStays
<1>3. CompletedIsWhole'
  BY <1>1 DEF DownloadInv, CompletedIsWhole
<1>4. Waiting => Waiting'
  BY <1>1 DEF Waiting
<1>5. \A f \in Files, k \in Nat : Got(f, k) => Got(f, k)'
  BY <1>1 DEF Got
<1>6. Quiet => Quiet'
  BY <1>1 DEF Quiet
<1>7. Asked => Asked'
  BY <1>4 DEF Asked
<1>8. Answered => Answered'
  BY <1>4 DEF Answered
<1>9. Receiving => Receiving'
  BY <1>5 DEF Receiving
<1>10. OneDownload'
  BY <1>1, <1>6, <1>7, <1>8, <1>9 DEF DownloadInv, OneDownload
<1> QED
  BY <1>2, <1>3, <1>10 DEF DownloadInv

LEMMA SessionTypes ==
    ASSUME DownloadInv
    PROVE  up \in Seq(UpPackets) /\ down \in Seq(DownPackets)
BY DEF DownloadInv, SessionInv, LinkTyped

\* The slots that ask for no download.
LEMMA OtherSlots ==
    ASSUME DownloadInv, SessionInv', UNCHANGED <<downloadVars, down>>, report' = NoReport,
           \/ up' = up
           \/ \E ps \in Seq(UpPackets) : Without(ps) /\ up' = up \o ps
    PROVE  DownloadInv'
<1>1. (Without(up) => Without(up')) /\ (WithOne(up) => WithOne(up'))
  BY SessionTypes, WithoutConcat
<1> QED
  BY <1>1, SameDisk

\* The answers to other packets.
LEMMA OtherAnswers ==
    ASSUME DownloadInv, SessionInv', up # <<>>, ~IsDownload(Head(up)),
           NEW r \in Seq(DownPackets), Without(r), Answer(r)
    PROVE  DownloadInv'
<1>1. up' = Tail(up) /\ down' = down \o r /\ UNCHANGED downloadVars /\ report' = report
  BY DEF Answer
<1>2. (Without(up) => Without(up')) /\ (WithOne(up) => WithOne(up'))
  BY <1>1, SessionTypes, OtherTaken
<1>3. /\ Without(down) => Without(down')
      /\ \A f, b, e : AnswerIn(down, f, b, e) => AnswerIn(down', f, b, e)
      /\ \A f, k, e : RestIn(down, f, k, e) => RestIn(down', f, k, e)
  BY <1>1, SessionTypes, WithoutConcat
<1> QED
  BY <1>1, <1>2, <1>3, SameDisk

\* The packets of no download that change nothing on the disk.
LEMMA OtherTakes ==
    ASSUME DownloadInv, SessionInv', down # <<>>, ~IsDownload(Head(down)),
           down' = Tail(down), UNCHANGED <<downloadVars, up>>, report' = NoReport
    PROVE  DownloadInv'
<1>1. /\ Without(down) => Without(down')
      /\ \A f \in Files : \A b, e \in Nat : AnswerIn(down, f, b, e) =>
           b - 1 \in Nat /\ e - 1 \in Nat /\ AnswerIn(down', f, b - 1, e - 1)
      /\ \A f \in Files : \A k, e \in Nat : ~RestIn(down, f, k, e)
  BY SessionTypes, OtherTaken
<1> QED
  BY <1>1, SameDisk

LEMMA ConnectSafe ==
    ASSUME DownloadInv, SessionInv', Connect
    PROVE  DownloadInv'
<1>1. up = <<>> /\ down = <<>>
  BY DEF Connect, DownloadInv, SessionInv, NothingWithoutConnection
<1>2. /\ UNCHANGED <<downloadVars, up>> /\ report' = NoReport /\ down' = <<FileList>>
  BY DEF Connect
<1>3. Without(down')
  BY <1>2, Kinds DEF Without
<1>4. \A i : i \notin DOMAIN down
  BY <1>1
<1>5. /\ \A f, b, e : ~AnswerIn(down, f, b, e)
      /\ \A f, k, e : ~RestIn(down, f, k, e)
  BY <1>4 DEF AnswerIn, RestIn
<1> QED
  BY <1>2, <1>3, <1>5, SameDisk

\* A request is answered.
LEMMA AnswerDownloadSafe ==
    ASSUME DownloadInv, SessionInv', AnswerDownload
    PROVE  DownloadInv'
<1> DEFINE f == Head(up).file
           Data(n) == [i \in 1..n |-> DownloadChunk(Chunks(f)[i])]
           Whole(n) == <<DownloadBegin(f)>> \o Data(n) \o <<DownloadEnd(f)>>
<1>1. up # <<>> /\ Head(up).cmd = "DownloadRequest" /\ IsDownload(Head(up))
  BY DEF AnswerDownload, IsDownload
<1>2. f \in Files /\ FileSize(f) \in Nat
  <2>1. Head(up) \in UpPackets
    BY <1>1, SessionTypes
  <2> QED
    BY <1>1, <2>1, PacketFacts, ClientAssumption DEF ClientAssumption
<1>3. \/ Answer(<<Error>>)
      \/ Answer(<<DownloadBegin(f), Error>>)
      \/ \E n \in 0..FileSize(f) : Answer(Whole(n))
  <2>1. FileSize(f) \in 0..FileSize(f)
    BY <1>2
  <2>2. CASE Answer(Whole(FileSize(f)))
    BY <2>1, <2>2
  <2>3. CASE ~Answer(Whole(FileSize(f)))
    BY <2>3 DEF AnswerDownload, CannotOpen
  <2> QED
    BY <2>2, <2>3
<1>4. PICK r : Answer(r) /\ \/ r = <<Error>>
                            \/ r = <<DownloadBegin(f), Error>>
                            \/ \E n \in 0..FileSize(f) : r = Whole(n)
  BY <1>3
<1> HIDE DEF f
<1>5. /\ up' = Tail(up) /\ down' = down \o r /\ report' = report
      /\ UNCHANGED <<path, open, size, received, local, tainted, short>>
  BY <1>4 DEF Answer, downloadVars
<1>6. DiskTyped' /\ NothingPartialStays' /\ CompletedIsWhole'
  BY <1>5 DEF DownloadInv, DiskTyped, NothingPartialStays, CompletedIsWhole
<1>7. /\ Error \in DownPackets /\ DownloadBegin(f) \in DownPackets
      /\ DownloadEnd(f) \in DownPackets
      /\ \A i \in Nat : DownloadChunk(<<f, i>>) \in DownPackets
  <2>1. \A i \in Nat : <<f, i>> \in Files \X Nat
    BY <1>2
  <2> QED
    BY <1>2, <2>1 DEF DownPackets
<1>8. ASSUME path \notin tainted
      PROVE  Quiet' \/ Answered'
  <2>1. Asked
    <3>1. ~Without(up)
      <4>1. 1 \in DOMAIN up /\ up[1] = Head(up)
        BY <1>1, SessionTypes, TailItems
      <4> QED
        BY <1>1, <4>1 DEF Without
    <3> QED
      BY <1>8, <3>1 DEF DownloadInv, OneDownload, Quiet, Answered, Receiving
  <2>2. Without(up')
    BY <1>1, <1>5, <2>1, SessionTypes, RequestTaken DEF Asked
  <2>3. Waiting /\ Waiting'
    BY <1>5, <2>1 DEF Asked, Waiting
  <2>4. CASE r = <<Error>>
    <3>1. Without(r) /\ r \in Seq(DownPackets)
      BY <1>7, <2>4, Kinds DEF Without
    <3>2. Without(down')
      BY <1>5, <2>1, <3>1, SessionTypes, WithoutConcat DEF Asked
    <3> QED
      BY <2>2, <2>3, <3>2 DEF Quiet, Waiting
  <2>5. CASE r = <<DownloadBegin(f), Error>>
    <3>1. \E b, e \in Nat : AnswerIn(down', f, b, e)
      BY <1>2, <1>5, <1>7, <2>1, <2>5, SessionTypes, BeginPut DEF Asked
    <3> QED
      BY <1>2, <2>2, <2>3, <3>1 DEF Answered
  <2>6. ASSUME NEW n \in 0..FileSize(f), r = Whole(n)
        PROVE  Answered'
    <3>1. n \in Nat /\ \A i \in 1..n : Data(n)[i] = DownloadChunk(<<f, i>>)
      BY <1>2 DEF Chunks
    <3>2. Data(n) \in Seq(DownPackets) /\ Len(Data(n)) = n
      <4>1. \A i \in 1..n : Chunks(f)[i] = <<f, i>>
        BY <1>2 DEF Chunks
      <4>2. \A i \in 1..n : DownloadChunk(Chunks(f)[i]) \in DownPackets
        <5> TAKE i \in 1..n
        <5>1. i \in Nat /\ Chunks(f)[i] = <<f, i>>
          BY <3>1, <4>1
        <5>2. DownloadChunk(<<f, i>>) \in DownPackets
          BY <1>7, <5>1
        <5> QED
          BY <5>1, <5>2
      <4> QED
        BY <3>1, <4>2
    <3> HIDE DEF Data
    <3>3. /\ r \in Seq(DownPackets) /\ Len(r) = n + 2
          /\ r[1] = DownloadBegin(f) /\ r[n + 2] = DownloadEnd(f)
          /\ \A i \in 1..(n + 2) : 1 < i /\ i < n + 2 => r[i] = Data(n)[i - 1]
      BY <1>7, <2>6, <3>1, <3>2
    <3>4. \A i \in 1..Len(r) :
            1 < i /\ i < Len(r) => r[i] = DownloadChunk(<<f, i - 1>>)
      <4>1. ASSUME NEW i \in 1..(n + 2), 1 < i, i < n + 2
            PROVE  r[i] = DownloadChunk(<<f, i - 1>>)
        <5>1. i - 1 \in 1..n
          BY <3>1, <4>1
        <5> QED
          BY <3>1, <3>3, <4>1, <5>1
      <4> QED
        BY <3>3, <4>1
    <3>5. Len(r) > 1 /\ Len(r) - 2 <= FileSize(f)
      BY <1>2, <3>3
    <3>6. \E b, e \in Nat : AnswerIn(down', f, b, e)
      BY <1>2, <1>5, <2>1, <3>3, <3>4, <3>5, SessionTypes, AnswerPut DEF Asked
    <3> QED
      BY <1>2, <2>2, <2>3, <3>6 DEF Answered
  <2> QED
    BY <1>4, <2>4, <2>5, <2>6
<1>9. OneDownload'
  BY <1>5, <1>8 DEF OneDownload
<1> QED
  BY <1>6, <1>9 DEF DownloadInv

-----------------------------------------------------------------------------
(* The steps that change the disk.                                          *)

\* What may stay on the disk.
Fine == {NoFile, <<>>} \cup {Chunks(f) : f \in Files}

\* closeTransferFiles leaves nothing partial.
LEMMA Kept ==
    ASSUME DownloadInv
    PROVE  /\ DOMAIN KeptLocal = Paths
           /\ \A p \in Paths \ (tainted \cup short) : KeptLocal[p] \in Fine
<1>1. DOMAIN KeptLocal = Paths
  BY DEF DownloadInv, DiskTyped, KeptLocal
<1>2. ASSUME NEW p \in Paths \ (tainted \cup short) PROVE KeptLocal[p] \in Fine
  <2>1. CASE ~(open /\ p = path)
    <3>1. local[p] \in Fine
      BY <1>2, <2>1 DEF DownloadInv, NothingPartialStays, Fine
    <3>2. KeptLocal[p] = local[p]
      BY <2>1 DEF DownloadInv, DiskTyped, KeptLocal, Incomplete
    <3> QED
      BY <3>1, <3>2
  <2>2. CASE open /\ p = path
    <3>1. KeptLocal[path] = IF size > 0 /\ received < size THEN NoFile ELSE local[path]
      BY <2>2 DEF DownloadInv, DiskTyped, KeptLocal, Incomplete
    <3>2. CASE Quiet \/ Asked \/ Answered
      BY <2>2, <3>1, <3>2 DEF Quiet, Asked, Answered, Waiting, Fine
    <3>3. CASE Receiving
      <4>1. PICK f \in Files, k \in Nat, e \in Nat : RestIn(down, f, k, e) /\ Got(f, k)
        BY <3>3 DEF Receiving
      <4>2. FileSize(f) \in Nat /\ k <= FileSize(f)
        <5>1. FileSize(f) \in Nat
          BY ClientAssumption DEF ClientAssumption
        <5>2. e \in 1..Len(down) /\ k + e - 1 <= FileSize(f)
          BY <4>1, SessionTypes DEF RestIn
        <5> QED
          BY <5>1, <5>2
      <4>3. size = FileSize(f) /\ received = k /\ local[path] = Part(f, k)
        BY <2>2, <4>1 DEF Got
      <4>4. CASE k < FileSize(f)
        BY <2>2, <3>1, <4>2, <4>3, <4>4 DEF Fine
      <4>5. CASE k = FileSize(f)
        <5>1. Part(f, k) = Chunks(f)
          BY <4>5 DEF Part, Chunks
        <5> QED
          BY <2>2, <3>1, <4>2, <4>3, <4>5, <5>1 DEF Fine
      <4> QED
        BY <4>2, <4>4, <4>5
    <3> QED
      BY <1>2, <2>2, <3>2, <3>3 DEF DownloadInv, OneDownload
  <2> QED
    BY <2>1, <2>2
<1> QED
  BY <1>1, <1>2

LEMMA NotDownloading ==
    ~Downloading => Without(up) /\ Without(down)
BY DEF Downloading, Without, Range

LEMMA DisconnectSafe ==
    ASSUME DownloadInv, SessionInv', Disconnect
    PROVE  DownloadInv'
<1>1. /\ open' = FALSE /\ local' = KeptLocal /\ report' = NoReport
      /\ up' = <<>> /\ down' = <<>>
      /\ UNCHANGED <<path, tainted, short>>
  BY DEF Disconnect, CloseTransferFiles
<1>2. DiskTyped'
  BY <1>1, Kept DEF DownloadInv, DiskTyped
<1>3. OneDownload'
  BY <1>1 DEF OneDownload, Quiet, Without
<1>4. CompletedIsWhole'
  BY <1>1 DEF CompletedIsWhole
<1>5. NothingPartialStays'
  BY <1>1, Kept DEF NothingPartialStays, Fine
<1> QED
  BY <1>2, <1>3, <1>4, <1>5 DEF DownloadInv

LEMMA SaveChosenSafe ==
    ASSUME DownloadInv, SessionInv', NEW p \in Paths, SaveChosen(p)
    PROVE  DownloadInv'
<1>1. /\ open' = TRUE /\ path' = p /\ local' = [KeptLocal EXCEPT ![p] = <<>>]
      /\ size' = 0 /\ received' = 0 /\ report' = NoReport /\ down' = down
      /\ tainted' = IF Downloading THEN tainted \cup {p} ELSE tainted \ {p}
      /\ short' = short \ {p}
      /\ up' = IF connected THEN up \o <<DownloadRequest(dialog)>> ELSE up
  BY DEF SaveChosen, SendPackets
<1>2. DOMAIN local' = Paths /\ local'[p] = <<>>
      /\ \A q \in Paths \ {p} : local'[q] = KeptLocal[q]
  BY <1>1, Kept
<1>3. DiskTyped'
  BY <1>1, <1>2 DEF DiskTyped
<1>4. CompletedIsWhole'
  BY <1>1 DEF CompletedIsWhole
<1>5. NothingPartialStays'
  <2>1. ASSUME NEW q \in Paths \ (tainted' \cup short'), ~(open' /\ q = path')
        PROVE  local'[q] \in Fine
    <3>1. q # p /\ q \notin tainted /\ q \notin short
      BY <1>1, <2>1
    <3> QED
      BY <1>2, <3>1, Kept
  <2> QED
    BY <2>1 DEF NothingPartialStays, Fine
<1>6. OneDownload'
  <2>1. ASSUME path' \notin tainted'
        PROVE  Quiet' \/ Asked'
    <3>1. Without(up) /\ Without(down)
      BY <1>1, <2>1, NotDownloading
    <3>2. Without(down')
      BY <1>1, <3>1
    <3>3. Waiting'
      BY <1>1, <1>2 DEF Waiting
    <3>4. CASE connected
      <4>1. DownloadRequest(dialog) \in UpPackets /\ IsDownload(DownloadRequest(dialog))
        BY Kinds DEF SaveChosen, UpPackets
      <4>2. WithOne(up')
        BY <1>1, <3>1, <3>4, <4>1, SessionTypes, RequestPut
      <4> QED
        BY <3>2, <3>3, <4>2 DEF Asked
    <3>5. CASE ~connected
      BY <1>1, <1>2, <3>1, <3>2, <3>5 DEF Quiet
    <3> QED
      BY <3>4, <3>5
  <2> QED
    BY <2>1 DEF OneDownload
<1> QED
  BY <1>3, <1>4, <1>5, <1>6 DEF DownloadInv

LEMMA SaveFailsSafe ==
    ASSUME DownloadInv, SessionInv', NEW p \in Paths, SaveFails(p)
    PROVE  DownloadInv'
<1>1. /\ open' = FALSE /\ path' = p /\ local' = KeptLocal /\ report' = NoReport
      /\ tainted' = IF Downloading THEN tainted \cup {p} ELSE tainted
      /\ UNCHANGED <<up, down, short>>
  BY DEF SaveFails, linkVars
<1>2. DiskTyped'
  BY <1>1, Kept DEF DiskTyped
<1>3. CompletedIsWhole'
  BY <1>1 DEF CompletedIsWhole
<1>4. NothingPartialStays'
  BY <1>1, Kept DEF NothingPartialStays, Fine
<1>5. OneDownload'
  <2>1. ASSUME path' \notin tainted' PROVE Quiet'
    BY <1>1, <2>1, NotDownloading DEF Quiet
  <2> QED
    BY <2>1 DEF OneDownload
<1> QED
  BY <1>2, <1>3, <1>4, <1>5 DEF DownloadInv

\* An error closes the file.
LEMMA TakeErrorSafe ==
    ASSUME DownloadInv, SessionInv', TakeError
    PROVE  DownloadInv'
<1>1. /\ down # <<>> /\ ~IsDownload(Head(down)) /\ down' = Tail(down)
      /\ up' = up /\ report' = NoReport
  BY DEF TakeError, Takes, IsDownload
<1>2. CASE ~open
  BY <1>1, <1>2, OtherTakes DEF TakeError
<1>3. CASE open
  <2>1. /\ open' = FALSE /\ local' = KeptLocal /\ size' = 0 /\ received' = 0
        /\ UNCHANGED <<path, tainted, short>>
    BY <1>3 DEF TakeError, CloseTransferFiles
  <2>2. DiskTyped'
    BY <2>1, Kept DEF DownloadInv, DiskTyped
  <2>3. CompletedIsWhole'
    BY <1>1 DEF CompletedIsWhole
  <2>4. NothingPartialStays'
    BY <2>1, Kept DEF NothingPartialStays, Fine
  <2>5. /\ Without(down) => Without(down')
        /\ \A f \in Files : \A b, e \in Nat : AnswerIn(down, f, b, e) =>
             b - 1 \in Nat /\ e - 1 \in Nat /\ AnswerIn(down', f, b - 1, e - 1)
        /\ \A f \in Files : \A k, e \in Nat : ~RestIn(down, f, k, e)
    BY <1>1, SessionTypes, OtherTaken
  <2>6. Waiting => Waiting'
    BY <2>1 DEF Waiting, KeptLocal, Incomplete
  <2>7. Quiet => Quiet'
    BY <1>1, <2>1, <2>5 DEF Quiet
  <2>8. Asked => Asked'
    BY <1>1, <2>5, <2>6 DEF Asked
  <2>9. Answered => Answered'
    BY <1>1, <2>5, <2>6 DEF Answered
  <2>10. ~Receiving
    BY <2>5 DEF Receiving
  <2>11. OneDownload'
    BY <2>1, <2>7, <2>8, <2>9, <2>10 DEF DownloadInv, OneDownload
  <2> QED
    BY <2>2, <2>3, <2>4, <2>11 DEF DownloadInv
<1> QED
  BY <1>2, <1>3 DEF DownloadInv, DiskTyped

\* The head of down tells which download it belongs to.
LEMMA HeadOfDownload ==
    ASSUME DownloadInv, down # <<>>, IsDownload(Head(down)), path \notin tainted
    PROVE  /\ Without(up)
           /\ \/ /\ Waiting
                 /\ \E f \in Files : \E b, e \in Nat : AnswerIn(down, f, b, e)
              \/ \E f \in Files : \E k, e \in Nat : RestIn(down, f, k, e) /\ Got(f, k)
<1>1. ~Without(down)
  <2>1. 1 \in DOMAIN down /\ down[1] = Head(down)
    BY SessionTypes, TailItems
  <2> QED
    BY <2>1 DEF Without
<1> QED
  BY <1>1 DEF DownloadInv, OneDownload, Quiet, Asked, Answered, Receiving

LEMMA TakeBeginSafe ==
    ASSUME DownloadInv, SessionInv', TakeDownloadBegin
    PROVE  DownloadInv'
<1>1. /\ down # <<>> /\ Head(down).cmd = "DownloadBegin" /\ IsDownload(Head(down))
      /\ down' = Tail(down) /\ size' = Head(down).size /\ received' = 0
      /\ report' = NoReport
      /\ UNCHANGED <<up, path, open, local, tainted, short>>
  BY DEF TakeDownloadBegin, Takes, IsDownload
<1>2. DiskTyped' /\ CompletedIsWhole' /\ NothingPartialStays'
  BY <1>1 DEF DownloadInv, DiskTyped, CompletedIsWhole, NothingPartialStays
<1>3. ASSUME path \notin tainted PROVE Quiet' \/ Receiving'
  <2>1. ASSUME NEW f \in Files, NEW k \in Nat, NEW e \in Nat, RestIn(down, f, k, e)
        PROVE  FALSE
    <3>1. FileSize(f) \in Nat
      BY ClientAssumption DEF ClientAssumption
    <3>2. \/ Head(down) = DownloadChunk(<<f, k + 1>>)
          \/ Head(down) = DownloadEnd(f)
      BY <1>1, <2>1, <3>1, SessionTypes, RestTaken
    <3> QED
      BY <1>1, <3>2 DEF DownloadChunk, DownloadEnd
  <2>2. Without(up) /\ Waiting /\ \E f \in Files : \E b, e \in Nat : AnswerIn(down, f, b, e)
    BY <1>1, <1>3, <2>1, HeadOfDownload
  <2>3. PICK f \in Files : \E b, e \in Nat : AnswerIn(down, f, b, e)
    BY <2>2
  <2>4. /\ Head(down) = DownloadBegin(f)
        /\ \/ Without(Tail(down))
           \/ \E e \in Nat : RestIn(Tail(down), f, 0, e)
    BY <1>1, <2>3, SessionTypes, BeginTaken
  <2>5. local'[path'] = <<>>
    BY <1>1, <2>2 DEF Waiting
  <2>6. Got(f, 0)'
    <3>1. size' = FileSize(f)
      BY <1>1, <2>4 DEF DownloadBegin
    <3>2. Part(f, 0) = <<>>
      BY Parts
    <3> QED
      BY <1>1, <2>5, <3>1, <3>2 DEF Got
  <2>7. CASE Without(Tail(down))
    BY <1>1, <2>2, <2>5, <2>7 DEF Quiet
  <2>8. CASE \E e \in Nat : RestIn(Tail(down), f, 0, e)
    <3>1. \E e \in Nat : RestIn(down', f, 0, e)
      BY <1>1, <2>8
    <3>2. Without(up')
      BY <1>1, <2>2
    <3> QED
      BY <2>6, <3>1, <3>2 DEF Receiving
  <2> QED
    BY <2>4, <2>7, <2>8
<1>4. OneDownload'
  BY <1>1, <1>3 DEF OneDownload
<1> QED
  BY <1>2, <1>4 DEF DownloadInv

\* A head that is no begin belongs to a download that has begun.
LEMMA RestOfDownload ==
    ASSUME DownloadInv, down # <<>>, IsDownload(Head(down)), path \notin tainted,
           Head(down).cmd # "DownloadBegin"
    PROVE  Without(up) /\ \E f \in Files : \E k, e \in Nat :
                RestIn(down, f, k, e) /\ Got(f, k) /\ FileSize(f) \in Nat
<1>1. ASSUME NEW f \in Files, NEW b \in Nat, NEW e \in Nat, AnswerIn(down, f, b, e)
      PROVE  FALSE
  <2>1. Head(down) = DownloadBegin(f)
    BY <1>1, SessionTypes, BeginTaken
  <2> QED
    BY <2>1 DEF DownloadBegin
<1> QED
  BY <1>1, HeadOfDownload, ClientAssumption DEF ClientAssumption

LEMMA TakeChunkSafe ==
    ASSUME DownloadInv, SessionInv', TakeDownloadChunk
    PROVE  DownloadInv'
<1>1. /\ down # <<>> /\ Head(down).cmd = "DownloadChunk" /\ IsDownload(Head(down))
      /\ down' = Tail(down) /\ report' = NoReport
      /\ received' = IF open THEN received + 1 ELSE received
      /\ UNCHANGED <<up, path, open, size, short>>
  BY DEF TakeDownloadChunk, Takes, IsDownload
<1>2. \/ /\ open /\ tainted' = tainted
         /\ local' = [local EXCEPT ![path] = Append(@, Head(down).data)]
      \/ tainted' = tainted \cup {path} /\ local' = local
      \/ ~open /\ UNCHANGED <<tainted, local>>
  BY DEF TakeDownloadChunk
<1>3. /\ DOMAIN local' = Paths
      /\ \A q \in Paths : ~(open /\ q = path) => local'[q] = local[q]
      /\ tainted \subseteq tainted'
  BY <1>2 DEF DownloadInv, DiskTyped
<1>4. DiskTyped' /\ CompletedIsWhole'
  BY <1>1, <1>3 DEF DownloadInv, DiskTyped, CompletedIsWhole
<1>5. NothingPartialStays'
  BY <1>1, <1>3 DEF DownloadInv, NothingPartialStays
<1>6. ASSUME path \notin tainted' PROVE Receiving'
  <2>1. path \notin tainted /\ tainted' = tainted
    BY <1>2, <1>6
  <2>2. Without(up) /\ \E f \in Files : \E k, e \in Nat :
                RestIn(down, f, k, e) /\ Got(f, k) /\ FileSize(f) \in Nat
    BY <1>1, <2>1, RestOfDownload
  <2>3. PICK f \in Files, k \in Nat, e \in Nat :
                RestIn(down, f, k, e) /\ Got(f, k) /\ FileSize(f) \in Nat
    BY <2>2
  <2>4. /\ Head(down) = DownloadChunk(<<f, k + 1>>)
        /\ k + 1 <= FileSize(f)
        /\ e - 1 \in Nat /\ RestIn(Tail(down), f, k + 1, e - 1)
    <3>1. Head(down) # DownloadEnd(f)
      BY <1>1 DEF DownloadEnd
    <3> QED
      BY <1>1, <2>3, <3>1, SessionTypes, RestTaken
  <2>5. Got(f, k + 1)'
    <3>1. size' = FileSize(f)
      BY <1>1, <2>3 DEF Got
    <3>2. CASE open
      <4>1. received = k /\ local[path] = Part(f, k)
        BY <2>3, <3>2 DEF Got
      <4>2. local'[path] = Append(local[path], Head(down).data)
        BY <1>2, <1>6, <3>2 DEF DownloadInv, DiskTyped
      <4>3. Head(down).data = <<f, k + 1>>
        BY <2>4 DEF DownloadChunk
      <4>4. local'[path] = Part(f, k + 1)
        BY <4>1, <4>2, <4>3, Parts
      <4> QED
        BY <1>1, <3>1, <3>2, <4>1, <4>4 DEF Got
    <3>3. CASE ~open
      <4>1. received = 0 /\ (FileSize(f) = 0 => local[path] = <<>>) /\ local' = local
        BY <1>2, <1>6, <2>3, <3>3 DEF Got
      <4> QED
        BY <1>1, <3>1, <3>3, <4>1 DEF Got
    <3> QED
      BY <3>2, <3>3 DEF DownloadInv, DiskTyped
  <2>6. RestIn(down', f, k + 1, e - 1) /\ Without(up') /\ k + 1 \in Nat
    BY <1>1, <2>2, <2>4
  <2> QED
    BY <2>4, <2>5, <2>6 DEF Receiving
<1>7. OneDownload'
  BY <1>1, <1>6 DEF OneDownload
<1> QED
  BY <1>4, <1>5, <1>7 DEF DownloadInv

LEMMA TakeEndSafe ==
    ASSUME DownloadInv, SessionInv', TakeDownloadEnd
    PROVE  DownloadInv'
<1>1. /\ down # <<>> /\ Head(down).cmd = "DownloadEnd" /\ IsDownload(Head(down))
      /\ down' = Tail(down) /\ open' = FALSE /\ UNCHANGED <<up, path, local, tainted>>
  BY DEF TakeDownloadEnd, Takes, IsDownload
<1>2. \/ Completed /\ report' = Head(down).file /\ short' = short
      \/ ~Completed /\ report' = NoReport /\ short' = short \cup ({path} \cap Paths)
  BY DEF TakeDownloadEnd, Report
<1>3. ASSUME path \notin tainted
      PROVE  /\ Without(up') /\ Without(down')
             /\ \E f \in Files : /\ Head(down).file = f
                                 /\ Completed => local[path] = Chunks(f)
  <2>1. PICK f \in Files, k \in Nat, e \in Nat :
                RestIn(down, f, k, e) /\ Got(f, k) /\ FileSize(f) \in Nat
    BY <1>1, <1>3, RestOfDownload
  <2>2. Head(down) = DownloadEnd(f) /\ k <= FileSize(f) /\ Without(Tail(down))
    <3>1. Head(down) # DownloadChunk(<<f, k + 1>>)
      BY <1>1 DEF DownloadChunk
    <3> QED
      BY <1>1, <2>1, <3>1, SessionTypes, RestTaken
  <2>3. Part(f, FileSize(f)) = Chunks(f) /\ Part(f, 0) = <<>>
    BY Parts DEF Part, Chunks
  <2>4. ASSUME Completed PROVE local[path] = Chunks(f)
    <3>1. CASE open
      <4>1. k = FileSize(f) /\ local[path] = Part(f, k)
        BY <2>1, <2>2, <2>4, <3>1 DEF Completed, Got
      <4> QED
        BY <2>3, <4>1
    <3>2. CASE ~open
      <4>1. FileSize(f) = 0 /\ local[path] = <<>>
        BY <2>1, <2>4, <3>2 DEF Completed, Got
      <4> QED
        BY <2>3, <4>1
    <3> QED
      BY <3>1, <3>2 DEF DownloadInv, DiskTyped
  <2>5. Without(up')
    BY <1>1, <1>3, RestOfDownload
  <2> QED
    BY <1>1, <2>2, <2>4, <2>5 DEF DownloadEnd
<1>4. DiskTyped'
  BY <1>1 DEF DownloadInv, DiskTyped
<1>5. CompletedIsWhole'
  BY <1>1, <1>2, <1>3 DEF CompletedIsWhole
<1>6. NothingPartialStays'
  <2>1. ASSUME NEW p \in Paths \ (tainted \cup short') PROVE local[p] \in Fine
    <3>1. CASE ~(open /\ p = path)
      BY <1>2, <2>1, <3>1 DEF DownloadInv, NothingPartialStays, Fine
    <3>2. CASE open /\ p = path
      <4>1. Completed
        BY <1>2, <2>1, <3>2
      <4> QED
        BY <1>3, <2>1, <3>2, <4>1 DEF Fine
    <3> QED
      BY <3>1, <3>2
  <2> QED
    BY <1>1, <2>1 DEF NothingPartialStays, Fine
<1>7. OneDownload'
  BY <1>1, <1>3 DEF OneDownload, Quiet
<1> QED
  BY <1>4, <1>5, <1>6, <1>7 DEF DownloadInv

-----------------------------------------------------------------------------
(* All steps.                                                               *)

LEMMA OtherTakesSafe ==
    ASSUME DownloadInv, SessionInv', TakeLoginOk \/ TakeFileList
    PROVE  DownloadInv'
<1>1. /\ down # <<>> /\ ~IsDownload(Head(down)) /\ down' = Tail(down)
      /\ UNCHANGED <<downloadVars, up>> /\ report' = NoReport
  BY DEF TakeLoginOk, TakeFileList, Takes, IsDownload
<1> QED
  BY <1>1, OtherTakes

LEMMA OtherAnswersSafe ==
    ASSUME DownloadInv, SessionInv', AnswerLogin \/ AnswerOther
    PROVE  DownloadInv'
<1>1. up # <<>> /\ ~IsDownload(Head(up))
  BY DEF AnswerLogin, AnswerOther, IsDownload
<1>2. PICK r : Answer(r) /\ \/ r \in {<<>>, <<Error>>, <<FileList>>}
                            \/ AnswerLogin /\ r = <<LoginOk(Head(up).user), FileList>>
  BY DEF AnswerLogin, AnswerOther
<1>3. Without(r) /\ r \in Seq(DownPackets)
  <2>1. FileList \in DownPackets /\ Error \in DownPackets
    BY DEF DownPackets
  <2>2. CASE r = <<>>
    BY <2>2, EmptyIsSeq DEF Without
  <2>3. CASE r = <<Error>> \/ r = <<FileList>>
    <3>1. PICK p \in {Error, FileList} : r = <<p>>
      BY <2>3
    <3>2. p \in DownPackets /\ ~IsDownload(p)
      BY <2>1, Kinds
    <3>3. r \in Seq(DownPackets) /\ DOMAIN r = {1} /\ r[1] = p
      BY <3>1, <3>2
    <3> QED
      BY <3>2, <3>3 DEF Without
  <2>4. CASE AnswerLogin /\ r = <<LoginOk(Head(up).user), FileList>>
    <3>1. Head(up) \in UpPackets /\ Head(up).cmd = "Login"
      BY <1>1, <2>4, SessionTypes DEF AnswerLogin
    <3>2. LoginOk(Head(up).user) \in DownPackets /\ ~IsDownload(LoginOk(Head(up).user))
      BY <3>1, PacketFacts, Kinds DEF DownPackets
    <3> QED
      BY <2>1, <2>4, <3>2, Kinds DEF Without
  <2> QED
    BY <1>2, <2>2, <2>3, <2>4
<1> QED
  BY <1>1, <1>2, <1>3, OtherAnswers

LEMMA OtherSlotsSafe ==
    ASSUME DownloadInv, SessionInv',
           \/ \E u \in Users : ClickLogin(u)
           \/ ClickSendMsg \/ ClickSendFile \/ UploadChosen \/ CancelDialog
           \/ \E f \in Files : ClickDownloadFile(f)
    PROVE  DownloadInv'
<1>1. UNCHANGED <<downloadVars, down>> /\ report' = NoReport
  BY DEF ClickLogin, ClickSendMsg, ClickSendFile, UploadChosen, CancelDialog,
         ClickDownloadFile, OpenDialog, linkVars
<1>2. \/ up' = up
      \/ \E u \in Users : up' = up \o <<Login(u)>>
      \/ \E ps \in {<<Chat>>, <<UploadBegin, UploadChunk, UploadEnd>>, <<UploadBegin>>} :
            up' = up \o ps
  BY DEF ClickLogin, ClickSendMsg, ClickSendFile, UploadChosen, CancelDialog,
         ClickDownloadFile, OpenDialog, linkVars, SendPackets
<1>3. \A u \in Users : <<Login(u)>> \in Seq(UpPackets) /\ Without(<<Login(u)>>)
  BY Kinds DEF Without, UpPackets
<1>4. /\ <<Chat>> \in Seq(UpPackets) /\ Without(<<Chat>>)
      /\ <<UploadBegin>> \in Seq(UpPackets) /\ Without(<<UploadBegin>>)
  BY Kinds DEF Without, UpPackets
<1>5. LET q == <<UploadBegin, UploadChunk, UploadEnd>>
      IN  q \in Seq(UpPackets) /\ Without(q)
  BY Kinds DEF Without, UpPackets
<1> QED
  BY <1>1, <1>2, <1>3, <1>4, <1>5, OtherSlots

LEMMA DownloadStep == DownloadInv /\ [Next]_vars => DownloadInv'
<1> SUFFICES ASSUME DownloadInv, [Next]_vars PROVE DownloadInv'
  OBVIOUS
<1>1. SessionInv'
  BY StepKeeps DEF DownloadInv
<1>2. CASE Connect \/ Disconnect
  BY <1>1, <1>2, ConnectSafe, DisconnectSafe
<1>3. CASE \E p \in Paths : SaveChosen(p) \/ SaveFails(p)
  BY <1>1, <1>3, SaveChosenSafe, SaveFailsSafe
<1>4. CASE Serve
  BY <1>1, <1>4, AnswerDownloadSafe, OtherAnswersSafe DEF Serve
<1>5. CASE ProcessPacket
  BY <1>1, <1>5, OtherTakesSafe, TakeErrorSafe, TakeBeginSafe, TakeChunkSafe,
     TakeEndSafe DEF ProcessPacket
<1>6. CASE UNCHANGED vars
  <2>1. UNCHANGED <<downloadVars, up, down, report>>
    BY <1>6 DEF vars, linkVars
  <2> QED
    BY <1>1, <2>1, SameDisk
<1> QED
  BY <1>1, <1>2, <1>3, <1>4, <1>5, <1>6, OtherSlotsSafe DEF Next

LEMMA DownloadInit == Init => DownloadInv
<1> SUFFICES ASSUME Init PROVE DownloadInv
  OBVIOUS
<1>1. SessionInv
  BY InitSound
<1>2. DiskTyped /\ CompletedIsWhole /\ NothingPartialStays
  BY DEF Init, DiskTyped, CompletedIsWhole, NothingPartialStays
<1>3. OneDownload
  BY DEF Init, OneDownload, Quiet, Without
<1> QED
  BY <1>1, <1>2, <1>3 DEF DownloadInv

-----------------------------------------------------------------------------
(* What the client counts.                                                  *)

Number(p) == p.data[2]

\* The chunks of queue q are within their files, each follows the begin or the
\* chunk before it, and if one is the first in q, its number is above n.
InOrder(q, n) ==
    \A i \in DOMAIN q : q[i].cmd = "DownloadChunk" =>
        /\ Number(q[i]) \in 1..FileSize(q[i].data[1])
        /\ i = 1 => n < Number(q[i])
        /\ i > 1 => \/ q[i - 1].cmd = "DownloadBegin" /\ Number(q[i]) = 1
                    \/ /\ q[i - 1].cmd = "DownloadChunk"
                       /\ Number(q[i]) = Number(q[i - 1]) + 1

\* Whatever downloads overlap, m_downloadReceived is below the number of the
\* chunk that is next.
ChunksInOrder == InOrder(down, received)

CountInv == TypeOK /\ ChunksInOrder

LEMMA PacketFields ==
    /\ \A p \in DownPackets :
        /\ p.cmd = "DownloadChunk" => p.data[1] \in Files /\ Number(p) \in Nat
        /\ p.cmd = "DownloadBegin" => \E f \in Files : p.size = FileSize(f)
        /\ p.cmd = "DownloadEnd" => p.file \in Files
    /\ \A f \in Files : FileSize(f) \in Nat
<1>1. ASSUME NEW p \in DownPackets, p.cmd = "DownloadChunk"
      PROVE  p.data[1] \in Files /\ Number(p) \in Nat
  <2>1. PICK c \in Files \X Nat : p = DownloadChunk(c)
    BY <1>1 DEF DownPackets, LoginOk, FileList, Error, DownloadBegin, DownloadEnd
  <2>2. p.data = c
    BY <2>1 DEF DownloadChunk
  <2> QED
    BY <2>2 DEF Number
<1>2. ASSUME NEW p \in DownPackets, p.cmd = "DownloadBegin"
      PROVE  \E f \in Files : p.size = FileSize(f)
  BY <1>2 DEF DownPackets, LoginOk, FileList, Error, DownloadBegin, DownloadEnd, DownloadChunk
<1>3. ASSUME NEW p \in DownPackets, p.cmd = "DownloadEnd"
      PROVE  p.file \in Files
  BY <1>3 DEF DownPackets, LoginOk, FileList, Error, DownloadBegin, DownloadEnd, DownloadChunk
<1> QED
  BY <1>1, <1>2, <1>3, ClientAssumption DEF ClientAssumption

\* Nothing received is below any chunk.
LEMMA NothingReceived ==
    ASSUME NEW q \in Seq(DownPackets), NEW n, InOrder(q, n)
    PROVE  InOrder(q, 0)
<1>1. \A i \in DOMAIN q : q[i].cmd = "DownloadChunk" =>
        Number(q[i]) \in Nat /\ FileSize(q[i].data[1]) \in Nat
  BY PacketFields
<1>2. \A i \in DOMAIN q : q[i].cmd = "DownloadChunk" => 0 < Number(q[i])
  BY <1>1 DEF InOrder
<1> QED
  BY <1>2 DEF InOrder

\* An answer is put behind what is under way.
LEMMA AnswerInOrder ==
    ASSUME NEW q \in Seq(DownPackets), NEW r \in Seq(DownPackets), NEW n,
           InOrder(q, n), InOrder(r, n),
           r # <<>> => r[1].cmd # "DownloadChunk"
    PROVE  InOrder(q \o r, n)
<1> DEFINE t == q \o r
           k == Len(q)
           m == Len(q) + Len(r)
<1>1. /\ k \in Nat /\ Len(r) \in Nat /\ DOMAIN q = 1..k /\ DOMAIN r = 1..Len(r)
      /\ DOMAIN t = 1..m
      /\ \A i \in 1..k : t[i] = q[i]
      /\ \A i \in 1..m : i > k => i - k \in 1..Len(r) /\ t[i] = r[i - k]
  BY ConcatItems
<1>2. Len(r) > 0 => r # <<>>
  OBVIOUS
<1> HIDE DEF t
<1>3. ASSUME NEW i \in 1..m, t[i].cmd = "DownloadChunk"
      PROVE  /\ Number(t[i]) \in 1..FileSize(t[i].data[1])
             /\ i = 1 => n < Number(t[i])
             /\ i > 1 => \/ t[i - 1].cmd = "DownloadBegin" /\ Number(t[i]) = 1
                         \/ /\ t[i - 1].cmd = "DownloadChunk"
                            /\ Number(t[i]) = Number(t[i - 1]) + 1
  <2>1. CASE i <= k
    <3>1. t[i] = q[i] /\ i \in 1..k /\ (i > 1 => t[i - 1] = q[i - 1])
      <4>1. i \in 1..k /\ (i > 1 => i - 1 \in 1..k)
        BY <1>1, <2>1
      <4> QED
        BY <1>1, <4>1
    <3> QED
      BY <1>1, <1>3, <3>1 DEF InOrder
  <2>2. CASE i > k
    <3> DEFINE j == i - k
    <3>1. j \in 1..Len(r) /\ t[i] = r[j] /\ i \in Nat /\ j \in Nat
      BY <1>1, <2>2
    <3>2. j # 1 /\ j > 1 /\ i # 1 /\ i - 1 > k /\ i - 1 \in 1..m /\ (i - 1) - k = j - 1
      BY <1>1, <1>2, <1>3, <3>1
    <3>3. t[i - 1] = r[j - 1]
      BY <1>1, <3>2
    <3> HIDE DEF j
    <3>4. /\ Number(r[j]) \in 1..FileSize(r[j].data[1])
          /\ \/ r[j - 1].cmd = "DownloadBegin" /\ Number(r[j]) = 1
             \/ r[j - 1].cmd = "DownloadChunk" /\ Number(r[j]) = Number(r[j - 1]) + 1
      BY <1>1, <1>3, <3>1, <3>2 DEF InOrder
    <3> QED
      BY <3>1, <3>2, <3>3, <3>4
  <2> QED
    BY <1>1, <2>1, <2>2
<1>4. InOrder(t, n)
  BY <1>1, <1>3 DEF InOrder
<1> QED
  BY <1>4 DEF t

\* The head of a queue is taken.
LEMMA RestInOrder ==
    ASSUME NEW q \in Seq(DownPackets), q # <<>>, NEW n \in Nat, InOrder(q, n), NEW m,
           \/ m \in {0, n} /\ Head(q).cmd # "DownloadChunk"
           \/ m \in {n, n + 1} /\ Head(q).cmd = "DownloadChunk"
           , Head(q).cmd = "DownloadBegin" => m = 0
    PROVE  InOrder(Tail(q), m)
<1> DEFINE t == Tail(q)
           k == Len(q)
<1>1. /\ k \in Nat /\ k > 0 /\ DOMAIN q = 1..k /\ Head(q) = q[1] /\ DOMAIN t = 1..(k - 1)
      /\ \A i \in 1..(k - 1) : t[i] = q[i + 1] /\ i + 1 \in 1..k
      /\ \A i \in 1..k : q[i] \in DownPackets
  BY TailItems
<1> HIDE DEF t, k
<1>2. ASSUME NEW i \in 1..(k - 1), t[i].cmd = "DownloadChunk"
      PROVE  /\ Number(t[i]) \in 1..FileSize(t[i].data[1])
             /\ i = 1 => m < Number(t[i])
             /\ i > 1 => \/ t[i - 1].cmd = "DownloadBegin" /\ Number(t[i]) = 1
                         \/ /\ t[i - 1].cmd = "DownloadChunk"
                            /\ Number(t[i]) = Number(t[i - 1]) + 1
  <2>1. t[i] = q[i + 1] /\ i + 1 \in 1..k /\ i + 1 > 1 /\ (i + 1) - 1 = i /\ i \in 1..k
        /\ q[i + 1].cmd = "DownloadChunk"
    BY <1>1, <1>2
  <2>2. /\ Number(t[i]) \in 1..FileSize(t[i].data[1])
        /\ \/ q[i].cmd = "DownloadBegin" /\ Number(t[i]) = 1
           \/ q[i].cmd = "DownloadChunk" /\ Number(t[i]) = Number(q[i]) + 1
    BY <1>1, <2>1 DEF InOrder
  <2>3. i = 1 => m < Number(t[i])
    <3>1. ASSUME i = 1, q[1].cmd = "DownloadChunk" PROVE m < Number(t[i])
      <4>1. n < Number(q[1]) /\ Number(q[1]) \in Nat /\ Number(t[i]) = Number(q[1]) + 1
        <5>1. 1 \in 1..k /\ q[1] \in DownPackets
          BY <1>1
        <5> QED
          BY <1>1, <2>2, <3>1, <5>1, PacketFields DEF InOrder
      <4>2. m \in {n, n + 1}
        BY <1>1, <3>1
      <4> QED
        BY <4>1, <4>2
    <3>2. ASSUME i = 1, q[1].cmd = "DownloadBegin" PROVE m < Number(t[i])
      BY <1>1, <2>2, <3>2
    <3> QED
      BY <2>2, <3>1, <3>2
  <2>4. i > 1 => t[i - 1] = q[i]
    <3>1. ASSUME i > 1 PROVE i - 1 \in 1..(k - 1) /\ (i - 1) + 1 = i
      BY <1>1, <3>1
    <3> QED
      BY <1>1, <3>1
  <2> QED
    BY <2>2, <2>3, <2>4
<1>3. InOrder(t, m)
  BY <1>1, <1>2 DEF InOrder
<1> QED
  BY <1>3 DEF t

\* What the server answers.
LEMMA Replies ==
    ASSUME DownloadInv, Serve
    PROVE  \E r \in Seq(DownPackets) :
            /\ down' = down \o r
            /\ r # <<>> => r[1].cmd # "DownloadChunk"
            /\ InOrder(r, received)
            /\ UNCHANGED <<windowVars, downloadVars, clicks, conns, report>>
<1>1. CASE AnswerLogin \/ AnswerOther
  <2>1. up # <<>>
    BY <1>1 DEF AnswerLogin, AnswerOther
  <2>2. PICK r : Answer(r) /\ \/ r \in {<<>>, <<Error>>, <<FileList>>}
                              \/ AnswerLogin /\ r = <<LoginOk(Head(up).user), FileList>>
    BY <1>1 DEF AnswerLogin, AnswerOther
  <2>3. /\ FileList \in DownPackets /\ FileList.cmd = "FileList"
        /\ Error \in DownPackets /\ Error.cmd = "Error"
    BY DEF DownPackets, FileList, Error
  <2>4. AnswerLogin => LoginOk(Head(up).user) \in DownPackets
    <3>1. ASSUME AnswerLogin PROVE Head(up) \in UpPackets /\ Head(up).cmd = "Login"
      BY <2>1, <3>1, SessionTypes DEF AnswerLogin
    <3> QED
      BY <3>1, PacketFacts DEF DownPackets
  <2>5. LoginOk(Head(up).user).cmd = "LoginOk"
    BY DEF LoginOk
  <2>6. r \in Seq(DownPackets) /\ \A i \in DOMAIN r : r[i].cmd # "DownloadChunk"
    <3>1. CASE r = <<>>
      BY <3>1, EmptyIsSeq
    <3>2. CASE r = <<Error>> \/ r = <<FileList>>
      BY <2>3, <3>2
    <3>3. CASE AnswerLogin /\ r = <<LoginOk(Head(up).user), FileList>>
      BY <2>3, <2>4, <2>5, <3>3
    <3> QED
      BY <2>2, <3>1, <3>2, <3>3
  <2>7. r # <<>> => 1 \in DOMAIN r
    BY <2>6
  <2> QED
    BY <2>2, <2>6, <2>7 DEF Answer, InOrder
<1>2. CASE AnswerDownload
  <2> DEFINE f == Head(up).file
             Data(n) == [i \in 1..n |-> DownloadChunk(Chunks(f)[i])]
             Whole(n) == <<DownloadBegin(f)>> \o Data(n) \o <<DownloadEnd(f)>>
  <2>1. f \in Files /\ FileSize(f) \in Nat
    <3>1. up # <<>> /\ Head(up).cmd = "DownloadRequest"
      BY <1>2 DEF AnswerDownload, CannotOpen
    <3>2. Head(up) \in UpPackets
      BY <3>1, SessionTypes
    <3> QED
      BY <3>1, <3>2, PacketFacts, PacketFields
  <2>2. PICK r : Answer(r) /\ \/ r = <<Error>>
                              \/ r = <<DownloadBegin(f), Error>>
                              \/ \E n \in 0..FileSize(f) : r = Whole(n)
    <3>1. FileSize(f) \in 0..FileSize(f)
      BY <2>1
    <3>2. CASE Answer(Whole(FileSize(f)))
      BY <3>1, <3>2
    <3>3. CASE ~Answer(Whole(FileSize(f)))
      BY <1>2, <3>3 DEF AnswerDownload, CannotOpen
    <3> QED
      BY <3>2, <3>3
  <2> HIDE DEF f
  <2>3. /\ Error \in DownPackets /\ Error.cmd = "Error"
        /\ DownloadBegin(f) \in DownPackets /\ DownloadBegin(f).cmd = "DownloadBegin"
        /\ DownloadEnd(f) \in DownPackets /\ DownloadEnd(f).cmd = "DownloadEnd"
    <3>1. Error \in DownPackets /\ Error.cmd = "Error"
      BY DEF DownPackets, Error
    <3>2. DownloadBegin(f) \in DownPackets /\ DownloadEnd(f) \in DownPackets
      BY <2>1 DEF DownPackets
    <3> QED
      BY <3>1, <3>2 DEF DownloadBegin, DownloadEnd
  <2>4. \A i \in Nat : LET p == DownloadChunk(<<f, i>>)
                       IN  /\ p \in DownPackets /\ p.cmd = "DownloadChunk"
                           /\ Number(p) = i /\ p.data[1] = f
    <3>1. \A i \in Nat : <<f, i>> \in Files \X Nat
      BY <2>1
    <3>2. \A i \in Nat : DownloadChunk(<<f, i>>) \in DownPackets
      BY <3>1 DEF DownPackets
    <3> QED
      BY <3>2 DEF DownloadChunk, Number
  <2>5. CASE r = <<Error>> \/ r = <<DownloadBegin(f), Error>>
    <3>1. r \in Seq(DownPackets) /\ \A i \in DOMAIN r : r[i].cmd # "DownloadChunk"
      <4>1. CASE r = <<Error>>
        BY <2>3, <4>1
      <4>2. CASE r = <<DownloadBegin(f), Error>>
        BY <2>3, <4>2
      <4> QED
        BY <2>5, <4>1, <4>2
    <3>2. r[1].cmd # "DownloadChunk"
      BY <2>3, <2>5
    <3>3. InOrder(r, received)
      BY <3>1 DEF InOrder
    <3> QED
      BY <2>2, <3>1, <3>2, <3>3 DEF Answer
  <2>6. ASSUME NEW n \in 0..FileSize(f), r = Whole(n)
        PROVE  /\ r \in Seq(DownPackets) /\ r[1].cmd # "DownloadChunk"
               /\ InOrder(r, received)
    <3>1. n \in Nat /\ n <= FileSize(f) /\ \A i \in 1..n : Chunks(f)[i] = <<f, i>>
      BY <2>1 DEF Chunks
    <3>2. \A i \in 1..n : Data(n)[i] = DownloadChunk(<<f, i>>)
      BY <3>1
    <3>3. Data(n) \in Seq(DownPackets) /\ Len(Data(n)) = n
      <4>1. \A i \in 1..n : DownloadChunk(Chunks(f)[i]) \in DownPackets
        BY <2>4, <3>1
      <4> QED
        BY <3>1, <4>1
    <3> HIDE DEF Data
    <3>4. /\ r \in Seq(DownPackets) /\ Len(r) = n + 2
          /\ r[1] = DownloadBegin(f) /\ r[n + 2] = DownloadEnd(f)
          /\ \A i \in 1..(n + 2) : 1 < i /\ i < n + 2 => r[i] = Data(n)[i - 1]
      BY <2>3, <2>6, <3>1, <3>3
    <3>5. \A i \in 1..(n + 2) :
            1 < i /\ i < n + 2 => i - 1 \in 1..n /\ r[i] = DownloadChunk(<<f, i - 1>>)
      <4>1. \A i \in 1..(n + 2) : 1 < i /\ i < n + 2 => i - 1 \in 1..n
        BY <3>1
      <4> QED
        BY <3>2, <3>4, <4>1
    <3>6. ASSUME NEW i \in 1..(n + 2), r[i].cmd = "DownloadChunk"
          PROVE  /\ i > 1 /\ Number(r[i]) = i - 1 /\ i - 1 \in 1..n
                 /\ r[i].data[1] = f
      <4>1. 1 < i /\ i < n + 2
        BY <2>3, <3>1, <3>4, <3>6
      <4>2. i - 1 \in Nat
        BY <4>1
      <4> QED
        BY <2>4, <3>5, <4>1, <4>2
    <3>7. ASSUME NEW i \in 1..(n + 2), r[i].cmd = "DownloadChunk"
          PROVE  /\ Number(r[i]) \in 1..FileSize(r[i].data[1])
                 /\ i = 1 => received < Number(r[i])
                 /\ \/ r[i - 1].cmd = "DownloadBegin" /\ Number(r[i]) = 1
                    \/ r[i - 1].cmd = "DownloadChunk" /\ Number(r[i]) = Number(r[i - 1]) + 1
      <4>1. /\ i > 1 /\ Number(r[i]) = i - 1 /\ i - 1 \in 1..n /\ r[i].data[1] = f
        BY <3>6, <3>7
      <4>2. i - 1 \in 1..FileSize(f)
        BY <2>1, <3>1, <4>1
      <4>3. CASE i = 2
        BY <2>3, <3>4, <4>1, <4>2, <4>3
      <4>4. CASE i # 2
        <5>1. /\ i - 1 \in 1..(n + 2) /\ 1 < i - 1 /\ i - 1 < n + 2
              /\ (i - 1) - 1 \in Nat /\ i - 1 = ((i - 1) - 1) + 1
          BY <3>1, <4>1, <4>4
        <5>2. r[i - 1].cmd = "DownloadChunk" /\ Number(r[i - 1]) = (i - 1) - 1
          BY <2>4, <3>5, <5>1
        <5> QED
          BY <4>1, <4>2, <5>1, <5>2
      <4> QED
        BY <4>3, <4>4
    <3> QED
      BY <2>3, <3>1, <3>4, <3>7 DEF InOrder
  <2> QED
    BY <2>2, <2>5, <2>6 DEF Answer
<1> QED
  BY <1>1, <1>2 DEF Serve

LEMMA ReceivedIsNumber ==
    ASSUME TypeOK
    PROVE  received \in Nat /\ size \in Nat
BY PacketFields DEF TypeOK

LEMMA OrderStays ==
    ASSUME DownloadInv, TypeOK, ChunksInOrder, [Next]_vars
    PROVE  ChunksInOrder'
<1>1. down \in Seq(DownPackets) /\ InOrder(down, received) /\ received \in Nat
  BY SessionTypes, ReceivedIsNumber DEF ChunksInOrder
<1>2. ASSUME down' = down, received' \in {0, received} PROVE ChunksInOrder'
  <2>1. InOrder(down, 0)
    BY <1>1, NothingReceived
  <2> QED
    BY <1>1, <1>2, <2>1 DEF ChunksInOrder, InOrder
<1>3. CASE Connect
  <2>1. down' = <<FileList>>
    BY <1>3 DEF Connect
  <2>2. \A i \in DOMAIN down' : down'[i].cmd = "FileList"
    BY <2>1 DEF FileList
  <2> QED
    BY <2>2 DEF ChunksInOrder, InOrder
<1>4. CASE Disconnect
  <2>1. down' = <<>>
    BY <1>4 DEF Disconnect
  <2> QED
    BY <2>1 DEF ChunksInOrder, InOrder
<1>5. CASE \/ \E u \in Users : ClickLogin(u)
           \/ ClickSendMsg \/ ClickSendFile \/ UploadChosen \/ CancelDialog
           \/ \E f \in Files : ClickDownloadFile(f)
  <2>1. UNCHANGED <<down, received>>
    BY <1>5 DEF ClickLogin, ClickSendMsg, ClickSendFile, UploadChosen, CancelDialog,
                ClickDownloadFile, OpenDialog, linkVars, downloadVars
  <2> QED
    BY <1>2, <2>1
<1>6. CASE \E p \in Paths : SaveChosen(p) \/ SaveFails(p)
  <2>1. down' = down /\ received' = 0
    BY <1>6 DEF SaveChosen, SaveFails, linkVars
  <2> QED
    BY <1>2, <2>1
<1>7. CASE Serve
  <2>1. PICK r \in Seq(DownPackets) :
            /\ down' = down \o r
            /\ r # <<>> => r[1].cmd # "DownloadChunk"
            /\ InOrder(r, received)
            /\ received' = received
    BY <1>7, Replies DEF downloadVars
  <2>2. InOrder(down \o r, received)
    BY <1>1, <2>1, AnswerInOrder
  <2> DEFINE t == down \o r
  <2>3. InOrder(t, received) /\ down' = t
    BY <2>1, <2>2
  <2> HIDE DEF t
  <2> QED
    BY <2>1, <2>3 DEF ChunksInOrder, InOrder
<1>8. CASE ProcessPacket
  <2>1. down # <<>> /\ down' = Tail(down)
    BY <1>8 DEF ProcessPacket, TakeLoginOk, TakeFileList, TakeError, TakeDownloadBegin,
                TakeDownloadChunk, TakeDownloadEnd, Takes
  <2>2. /\ \/ received' \in {0, received} /\ Head(down).cmd # "DownloadChunk"
           \/ received' \in {received, received + 1} /\ Head(down).cmd = "DownloadChunk"
        /\ Head(down).cmd = "DownloadBegin" => received' = 0
    <3>1. CASE TakeDownloadBegin
      BY <3>1 DEF TakeDownloadBegin, Takes
    <3>2. CASE TakeDownloadChunk
      BY <3>2 DEF TakeDownloadChunk, Takes
    <3>3. CASE TakeDownloadEnd
      BY <3>3 DEF TakeDownloadEnd, Takes
    <3>4. CASE TakeLoginOk \/ TakeFileList \/ TakeError
      BY <3>4 DEF TakeLoginOk, TakeFileList, TakeError, Takes, downloadVars,
                  CloseTransferFiles
    <3> QED
      BY <1>8, <3>1, <3>2, <3>3, <3>4 DEF ProcessPacket
  <2>3. InOrder(Tail(down), received')
    BY <1>1, <2>1, <2>2, RestInOrder
  <2> QED
    BY <2>1, <2>3 DEF ChunksInOrder, InOrder
<1>9. CASE UNCHANGED vars
  <2>1. UNCHANGED <<down, received>>
    BY <1>9 DEF vars, downloadVars, linkVars
  <2> QED
    BY <1>2, <2>1
<1> QED
  BY <1>3, <1>4, <1>5, <1>6, <1>7, <1>8, <1>9 DEF Next

\* The parts of TypeOK that are not of the session or the disk.
Counts ==
    /\ shown \subseteq Files
    /\ size = 0 \/ \E f \in Files : size \in 0..FileSize(f)
    /\ received = 0 \/ \E f \in Files : received \in 0..FileSize(f)
    /\ clicks \in 0..MaxClicks
    /\ conns \in 0..MaxConns
    /\ tainted \subseteq Paths
    /\ short \subseteq Paths
    /\ unasked \in BOOLEAN
    /\ report \in Files \cup {NoReport}

LEMMA PartsOfType ==
    ASSUME DownloadInv
    PROVE  TypeOK <=> Counts
BY DEF DownloadInv, DiskTyped, SessionInv, LinkTyped, TypeOK, Counts

\* A slot or an answer counts no more than the slot or the connection.
LEMMA SlotsCounted ==
    ASSUME DownloadInv, Counts,
           \/ Connect \/ Disconnect \/ Serve
           \/ \E u \in Users : ClickLogin(u)
           \/ ClickSendMsg \/ ClickSendFile \/ UploadChosen \/ CancelDialog
           \/ \E f \in Files : ClickDownloadFile(f)
           \/ \E p \in Paths : SaveChosen(p) \/ SaveFails(p)
    PROVE  Counts'
<1> DEFINE Clicked == clicks < MaxClicks /\ clicks' = clicks + 1
           Changed ==
             /\ clicks' = clicks \/ Clicked
             /\ conns' = conns \/ (conns < MaxConns /\ conns' = conns + 1)
             /\ shown' \in {shown, {}} /\ report' \in {report, NoReport}
             /\ size' \in {size, 0} /\ received' \in {received, 0}
             /\ short' \subseteq short /\ tainted' \subseteq tainted \cup Paths
             /\ unasked' \in BOOLEAN
<1>0. connected \in BOOLEAN
  BY DEF DownloadInv, SessionInv, LinkTyped
<1>1. ASSUME Changed PROVE Counts'
  <2>1. clicks' \in 0..MaxClicks /\ conns' \in 0..MaxConns
    BY <1>1, ClientAssumption DEF Counts, ClientAssumption
  <2> QED
    BY <1>1, <2>1 DEF Counts
<1>2. ASSUME Connect PROVE Changed
  BY <1>2 DEF Connect, downloadVars, Counts
<1>3. ASSUME Disconnect PROVE Changed
  BY <1>3 DEF Disconnect, CloseTransferFiles
<1>4. ASSUME Serve PROVE Changed
  <2>1. UNCHANGED <<windowVars, downloadVars, clicks, conns, report>>
    BY <1>4, Replies
  <2> QED
    BY <2>1 DEF windowVars, downloadVars, Counts
<1>5. ASSUME NEW u \in Users, ClickLogin(u) PROVE Changed
  BY <1>5 DEF ClickLogin, SendPackets, windowVars, downloadVars, Counts
<1>6. ASSUME ClickSendMsg PROVE Changed
  BY <1>6 DEF ClickSendMsg, SendPackets, windowVars, downloadVars, Counts
<1>7. ASSUME UploadChosen PROVE Changed
  BY <1>7 DEF UploadChosen, SendPackets, downloadVars, Counts
<1>8. ASSUME CancelDialog PROVE Changed
  BY <1>8 DEF CancelDialog, downloadVars, Counts
<1>9. ASSUME ClickSendFile \/ \E f \in Files : ClickDownloadFile(f) PROVE Changed
  BY <1>9 DEF ClickSendFile, ClickDownloadFile, OpenDialog, downloadVars, Counts
<1>10. ASSUME NEW p \in Paths, SaveChosen(p) PROVE Changed
  <2>1. UNCHANGED <<shown, conns>> /\ report' = NoReport /\ size' = 0 /\ received' = 0
        /\ short' = short \ {p} /\ tainted' \in {tainted \cup {p}, tainted \ {p}}
        /\ Clicked /\ unasked' \in BOOLEAN
    BY <1>0, <1>10 DEF SaveChosen, SendPackets
  <2> QED
    BY <2>1
<1>11. ASSUME NEW p \in Paths, SaveFails(p) PROVE Changed
  <2>1. UNCHANGED <<shown, conns, clicks, short>> /\ report' = NoReport
        /\ size' = 0 /\ received' = 0 /\ tainted' \in {tainted \cup {p}, tainted}
        /\ unasked' = FALSE
    BY <1>11 DEF SaveFails
  <2> QED
    BY <2>1
<1>12. Changed
  <2> HIDE DEF Changed
  <2> QED
    BY <1>2, <1>3, <1>4, <1>5, <1>6, <1>7, <1>8, <1>9, <1>10, <1>11
<1> QED
  BY <1>1, <1>12

\* A chunk that is taken has a number, and no more are counted.
LEMMA PacketsCounted ==
    ASSUME DownloadInv, Counts, ChunksInOrder, ProcessPacket
    PROVE  Counts'
<1>1. /\ down \in Seq(DownPackets) /\ down # <<>> /\ Head(down) \in DownPackets
      /\ 1 \in DOMAIN down /\ Head(down) = down[1]
      /\ UNCHANGED <<clicks, conns>>
  <2>1. down # <<>> /\ UNCHANGED <<clicks, conns>>
    BY DEF ProcessPacket, TakeLoginOk, TakeFileList, TakeError, TakeDownloadBegin,
           TakeDownloadChunk, TakeDownloadEnd, Takes
  <2> QED
    BY <2>1, SessionTypes
<1>2. received \in Nat
  BY PartsOfType, ReceivedIsNumber
<1>3. CASE TakeLoginOk \/ TakeFileList \/ TakeError
  <2>1. /\ shown' \in {shown, Files} /\ report' = NoReport /\ UNCHANGED <<tainted, short>>
        /\ size' \in {size, 0} /\ received' \in {received, 0}
        /\ unasked' \in {unasked, FALSE}
    BY <1>3 DEF TakeLoginOk, TakeFileList, TakeError, downloadVars, CloseTransferFiles
  <2> QED
    BY <1>1, <2>1 DEF Counts
<1>4. CASE TakeDownloadBegin
  <2>1. /\ UNCHANGED <<shown, tainted, short, unasked>> /\ report' = NoReport /\ received' = 0
        /\ size' = Head(down).size /\ Head(down).cmd = "DownloadBegin"
    BY <1>4 DEF TakeDownloadBegin, Takes
  <2>2. PICK f \in Files : size' = FileSize(f) /\ FileSize(f) \in Nat
    BY <1>1, <2>1, PacketFields
  <2>3. size' \in 0..FileSize(f)
    BY <2>2
  <2> QED
    BY <1>1, <2>1, <2>3 DEF Counts
<1>5. CASE TakeDownloadChunk
  <2>1. /\ UNCHANGED <<shown, short, size, unasked>> /\ report' = NoReport
        /\ received' \in {received, received + 1} /\ Head(down).cmd = "DownloadChunk"
        /\ \/ tainted' = tainted
           \/ open /\ tainted' = tainted \cup {path}
    BY <1>5 DEF TakeDownloadChunk, Takes
  <2>2. tainted' \subseteq Paths
    BY <2>1 DEF Counts, DownloadInv, DiskTyped
  <2>3. \E f \in Files : received' \in 0..FileSize(f)
    <3> DEFINE f == Head(down).data[1]
    <3>1. f \in Files /\ FileSize(f) \in Nat
      BY <1>1, <2>1, PacketFields
    <3>2. Number(Head(down)) \in 1..FileSize(f) /\ received < Number(Head(down))
      BY <1>1, <2>1 DEF ChunksInOrder, InOrder
    <3>3. received' \in 0..FileSize(f)
      BY <1>2, <2>1, <3>1, <3>2
    <3> QED
      BY <3>1, <3>3
  <2> QED
    BY <1>1, <2>1, <2>2, <2>3 DEF Counts
<1>6. CASE TakeDownloadEnd
  <2>1. /\ UNCHANGED <<shown, tainted>> /\ size' = 0 /\ received' = 0 /\ unasked' = FALSE
        /\ report' \in {NoReport, Head(down).file} /\ Head(down).cmd = "DownloadEnd"
        /\ short' \subseteq short \cup Paths
    BY <1>6 DEF TakeDownloadEnd, Takes, Report
  <2>2. Head(down).file \in Files
    BY <1>1, <2>1, PacketFields
  <2> QED
    BY <1>1, <2>1, <2>2 DEF Counts
<1> QED
  BY <1>3, <1>4, <1>5, <1>6 DEF ProcessPacket

LEMMA CountStep == DownloadInv /\ CountInv /\ [Next]_vars => CountInv'
<1> SUFFICES ASSUME DownloadInv, CountInv, [Next]_vars PROVE CountInv'
  OBVIOUS
<1>1. DownloadInv'
  BY DownloadStep
<1>2. TypeOK' <=> Counts'
  BY <1>1 DEF DownloadInv, DiskTyped, SessionInv, LinkTyped, TypeOK, Counts
<1>3. Counts /\ ChunksInOrder /\ ChunksInOrder'
  BY PartsOfType, OrderStays DEF CountInv
<1>4. ASSUME ProcessPacket PROVE Counts'
  BY <1>3, <1>4, PacketsCounted
<1>5. ASSUME UNCHANGED vars PROVE Counts'
  <2>1. UNCHANGED <<shown, size, received, clicks, conns, tainted, short, unasked, report>>
    BY <1>5 DEF vars, windowVars, downloadVars
  <2> QED
    BY <1>3, <2>1 DEF Counts
<1>6. Counts'
  BY <1>3, <1>4, <1>5, SlotsCounted DEF Next
<1> QED
  BY <1>2, <1>3, <1>6 DEF CountInv

LEMMA CountInit == Init => CountInv
<1> SUFFICES ASSUME Init PROVE CountInv
  OBVIOUS
<1>1. DownloadInv
  BY DownloadInit
<1>2. Counts
  <2>1. 0 \in 0..MaxClicks /\ 0 \in 0..MaxConns
    BY ClientAssumption DEF ClientAssumption
  <2>2. clicks = 0 /\ conns = 0 /\ unasked = FALSE
    BY DEF Init
  <2>3. /\ shown \subseteq Files /\ tainted \subseteq Paths /\ short \subseteq Paths
        /\ size = 0 /\ received = 0 /\ report = NoReport
    BY DEF Init
  <2> QED
    BY <2>1, <2>2, <2>3 DEF Counts
<1>3. ChunksInOrder
  BY DEF Init, ChunksInOrder, InOrder
<1> QED
  BY <1>1, <1>2, <1>3, PartsOfType DEF CountInv

-----------------------------------------------------------------------------
(* The end of a download.                                                   *)

\* What a queue has lost is its head.
LEMMA RestOfQueue ==
    ASSUME NEW S, NEW q \in Seq(S), q # <<>>, NEW p \in Range(q), p # Head(q)
    PROVE  p \in Range(Tail(q))
<1>1. /\ Tail(q) \in Seq(S) /\ Len(Tail(q)) = Len(q) - 1
      /\ Len(q) \in Nat /\ Head(q) = q[1]
      /\ \A i \in 1..(Len(q) - 1) : Tail(q)[i] = q[i + 1]
  OBVIOUS
<1>2. DOMAIN q = 1..Len(q) /\ DOMAIN Tail(q) = 1..(Len(q) - 1)
  BY <1>1
<1>3. PICK i \in 1..Len(q) : q[i] = p
  BY <1>2 DEF Range
<1>4. i - 1 \in 1..(Len(q) - 1) /\ (i - 1) + 1 = i
  BY <1>1, <1>3
<1>5. Tail(q)[i - 1] = p
  BY <1>1, <1>3, <1>4
<1> QED
  BY <1>2, <1>4, <1>5 DEF Range

\* Every answer to a request has an end.
LEMMA AnswersEnd ==
    ASSUME SessionInv, EndOnTheWay, Serve
    PROVE  EndOnTheWay'
<1>1. up \in Seq(UpPackets) /\ down \in Seq(DownPackets)
  BY DEF SessionInv, LinkTyped
<1>2. CASE AnswerLogin \/ AnswerOther
  <2>1. /\ up # <<>> /\ Head(up).cmd # "DownloadRequest"
        /\ \E r \in Seq(DownPackets) : down' = down \o r
        /\ up' = Tail(up) /\ UNCHANGED <<open, unasked>>
    <3>1. up # <<>> /\ Head(up).cmd # "DownloadRequest"
      BY <1>2 DEF AnswerLogin, AnswerOther
    <3>2. FileList \in DownPackets /\ Error \in DownPackets
      BY DEF DownPackets
    <3>3. AnswerLogin => LoginOk(Head(up).user) \in DownPackets
      <4>1. ASSUME AnswerLogin PROVE Head(up) \in UpPackets /\ Head(up).cmd = "Login"
        BY <1>1, <3>1, <4>1 DEF AnswerLogin
      <4> QED
        BY <4>1, PacketFacts DEF DownPackets
    <3>4. PICK r : Answer(r) /\ \/ r \in {<<>>, <<Error>>, <<FileList>>}
                                \/ AnswerLogin /\ r = <<LoginOk(Head(up).user), FileList>>
      <4>1. CASE AnswerOther
        BY <4>1 DEF AnswerOther
      <4>2. CASE AnswerLogin
        <5>1. Answer(<<LoginOk(Head(up).user), FileList>>) \/ Answer(<<Error>>)
          BY <4>2 DEF AnswerLogin
        <5> QED
          BY <4>2, <5>1
      <4> QED
        BY <1>2, <4>1, <4>2
    <3>5. r \in Seq(DownPackets)
      <4>1. CASE r \in {<<>>, <<Error>>, <<FileList>>}
        <5>1. /\ <<>> \in Seq(DownPackets) /\ <<Error>> \in Seq(DownPackets)
              /\ <<FileList>> \in Seq(DownPackets)
          BY <3>2, EmptyIsSeq
        <5> QED
          BY <4>1, <5>1
      <4>2. CASE AnswerLogin /\ r = <<LoginOk(Head(up).user), FileList>>
        <5>1. LoginOk(Head(up).user) \in DownPackets
          BY <3>3, <4>2
        <5> QED
          BY <3>2, <4>2, <5>1
      <4> QED
        BY <3>4, <4>1, <4>2
    <3> QED
      BY <3>1, <3>4, <3>5 DEF Answer, downloadVars
  <2>2. PICK r \in Seq(DownPackets) : down' = down \o r
    BY <2>1
  <2>3. Range(down') = Range(down) \cup Range(r)
    BY <1>1, <2>2, RangeOfConcat
  <2>4. Requested => Requested'
    BY <1>1, <2>1, RestOfQueue DEF Requested
  <2>5. Ending => Ending'
    BY <2>3 DEF Ending
  <2> QED
    BY <2>1, <2>4, <2>5 DEF EndOnTheWay
<1>3. CASE AnswerDownload
  <2> DEFINE f == Head(up).file
             Data(n) == [i \in 1..n |-> DownloadChunk(Chunks(f)[i])]
             Whole(n) == <<DownloadBegin(f)>> \o Data(n) \o <<DownloadEnd(f)>>
  <2>1. FileSize(f) \in 0..FileSize(f)
    <3>1. Head(up) \in UpPackets /\ Head(up).cmd = "DownloadRequest"
      BY <1>1, <1>3 DEF AnswerDownload
    <3> QED
      BY <3>1, PacketFacts, ClientAssumption DEF ClientAssumption
  <2>2. \/ Answer(<<Error>>)
        \/ Answer(<<DownloadBegin(f), Error>>)
        \/ \E n \in 0..FileSize(f) : Answer(Whole(n))
    <3>1. CASE Answer(Whole(FileSize(f)))
      BY <2>1, <3>1
    <3>2. CASE ~Answer(Whole(FileSize(f)))
      BY <1>3, <3>2 DEF AnswerDownload, CannotOpen
    <3> QED
      BY <3>1, <3>2
  <2>3. PICK r \in Seq(DownPackets) :
          /\ down' = down \o r
          /\ \E p \in Range(r) : p.cmd \in {"DownloadEnd", "Error"}
    <3>1. /\ Error \in DownPackets /\ Error.cmd = "Error"
          /\ DownloadEnd(f).cmd = "DownloadEnd"
      BY DEF DownPackets, Error, DownloadEnd
    <3>2. f \in Files /\ FileSize(f) \in Nat
      <4>1. Head(up) \in UpPackets /\ Head(up).cmd = "DownloadRequest"
        BY <1>1, <1>3 DEF AnswerDownload
      <4> QED
        BY <4>1, PacketFacts, ClientAssumption DEF ClientAssumption
    <3> HIDE DEF f
    <3>3. DownloadBegin(f) \in DownPackets /\ DownloadEnd(f) \in DownPackets
      BY <3>2 DEF DownPackets
    <3>4. CASE Answer(<<Error>>)
      <4>1. <<Error>> \in Seq(DownPackets) /\ Error \in Range(<<Error>>)
        BY <3>1 DEF Range
      <4> QED
        BY <3>1, <3>4, <4>1 DEF Answer
    <3>5. CASE Answer(<<DownloadBegin(f), Error>>)
      <4>1. /\ <<DownloadBegin(f), Error>> \in Seq(DownPackets)
            /\ Error \in Range(<<DownloadBegin(f), Error>>)
        <5>1. DOMAIN <<DownloadBegin(f), Error>> = 1..2 /\ 2 \in 1..2
              /\ <<DownloadBegin(f), Error>>[2] = Error
          OBVIOUS
        <5> QED
          BY <3>1, <3>3, <5>1 DEF Range
      <4> QED
        BY <3>1, <3>5, <4>1 DEF Answer
    <3>6. ASSUME NEW n \in 0..FileSize(f), Answer(Whole(n))
          PROVE  /\ Whole(n) \in Seq(DownPackets)
                 /\ DownloadEnd(f) \in Range(Whole(n))
      <4>1. Data(n) \in Seq(DownPackets)
        <5>1. n \in Nat /\ \A i \in 1..n : i \in 1..FileSize(f) /\ i \in Nat
          BY <3>2
        <5>2. ASSUME NEW i \in 1..n PROVE DownloadChunk(Chunks(f)[i]) \in DownPackets
          <6>1. Chunks(f)[i] = <<f, i>> /\ <<f, i>> \in Files \X Nat
            BY <3>2, <5>1 DEF Chunks
          <6> QED
            BY <6>1 DEF DownPackets
        <5> QED
          BY <5>1, <5>2
      <4> DEFINE first == <<DownloadBegin(f)>>
                 last == <<DownloadEnd(f)>>
                 d == Data(n)
      <4>2. first \in Seq(DownPackets) /\ last \in Seq(DownPackets)
            /\ DownloadEnd(f) \in Range(last)
        BY <3>3 DEF Range
      <4> HIDE DEF first, last, d
      <4>3. first \o d \in Seq(DownPackets)
        BY <4>1, <4>2, RangeOfConcat DEF d
      <4>4. (first \o d) \o last \in Seq(DownPackets)
            /\ Range((first \o d) \o last) = Range(first \o d) \cup Range(last)
        BY <4>2, <4>3, RangeOfConcat
      <4> QED
        BY <4>2, <4>4 DEF first, last, d
    <3>7. CASE \E n \in 0..FileSize(f) : Answer(Whole(n))
      <4>1. PICK n \in 0..FileSize(f) : Answer(Whole(n))
        BY <3>7
      <4>2. Whole(n) \in Seq(DownPackets) /\ DownloadEnd(f) \in Range(Whole(n))
        BY <3>6, <4>1
      <4> HIDE DEF Whole
      <4> QED
        BY <3>1, <4>1, <4>2 DEF Answer
    <3> QED
      BY <2>2, <3>4, <3>5, <3>7
  <2>4. Range(down') = Range(down) \cup Range(r)
    BY <1>1, <2>3, RangeOfConcat
  <2> QED
    BY <2>3, <2>4 DEF Ending, EndOnTheWay
<1> QED
  BY <1>2, <1>3 DEF Serve

\* What is taken was the end of the download, or leaves the end on the way.
LEMMA TakingEnds ==
    ASSUME SessionInv, EndOnTheWay, ProcessPacket
    PROVE  EndOnTheWay'
<1>1. /\ up \in Seq(UpPackets) /\ down \in Seq(DownPackets) /\ down # <<>>
      /\ down' = Tail(down) /\ up' = up
  BY DEF SessionInv, LinkTyped, ProcessPacket, TakeLoginOk, TakeFileList, TakeError,
         TakeDownloadBegin, TakeDownloadChunk, TakeDownloadEnd, Takes
<1>2. CASE TakeError \/ TakeDownloadEnd
  <2>1. ~open'
    BY <1>2 DEF TakeError, TakeDownloadEnd, CloseTransferFiles, downloadVars
  <2> QED
    BY <2>1 DEF EndOnTheWay
<1>3. CASE TakeLoginOk \/ TakeFileList \/ TakeDownloadBegin \/ TakeDownloadChunk
  <2>1. Head(down).cmd \notin {"DownloadEnd", "Error"} /\ UNCHANGED <<open, unasked>>
    BY <1>3 DEF TakeLoginOk, TakeFileList, TakeDownloadBegin, TakeDownloadChunk, Takes,
                downloadVars
  <2>2. Ending => Ending'
    BY <1>1, <2>1, RestOfQueue DEF Ending
  <2> QED
    BY <1>1, <2>1, <2>2 DEF EndOnTheWay, Requested
<1> QED
  BY <1>2, <1>3 DEF ProcessPacket

LEMMA EndStep == SessionInv /\ EndOnTheWay /\ [Next]_vars => EndOnTheWay'
<1> SUFFICES ASSUME SessionInv, EndOnTheWay, [Next]_vars PROVE EndOnTheWay'
  OBVIOUS
<1>1. up \in Seq(UpPackets) /\ down \in Seq(DownPackets) /\ connected \in BOOLEAN
  BY DEF SessionInv, LinkTyped
<1>2. CASE Connect
  <2>1. up = <<>> /\ down = <<>> /\ UNCHANGED <<open, unasked>>
    BY <1>2 DEF Connect, SessionInv, NothingWithoutConnection, downloadVars
  <2>2. ~Requested /\ ~Ending
    BY <2>1 DEF Requested, Ending, Range
  <2> QED
    BY <2>1, <2>2 DEF EndOnTheWay
<1>3. CASE Disconnect \/ \E p \in Paths : SaveFails(p)
  <2>1. ~open'
    BY <1>3 DEF Disconnect, CloseTransferFiles, SaveFails
  <2> QED
    BY <2>1 DEF EndOnTheWay
<1>4. ASSUME NEW p \in Paths, SaveChosen(p) PROVE EndOnTheWay'
  <2> DEFINE q == <<DownloadRequest(dialog)>>
  <2>1. unasked' = ~connected /\ (connected => up' = up \o q) /\ dialog \in Files
    BY <1>4 DEF SaveChosen, SendPackets
  <2>2. q \in Seq(UpPackets) /\ DownloadRequest(dialog) \in Range(q)
        /\ DownloadRequest(dialog).cmd = "DownloadRequest"
    BY <2>1 DEF UpPackets, DownloadRequest, Range
  <2> HIDE DEF q
  <2>3. connected => Range(up') = Range(up) \cup Range(q)
    BY <1>1, <2>1, <2>2, RangeOfConcat
  <2> QED
    BY <2>1, <2>2, <2>3 DEF EndOnTheWay, Requested
<1>5. ASSUME UNCHANGED <<open, unasked, down>>,
             up' = up \/ \E q \in Seq(UpPackets) : up' = up \o q
      PROVE  EndOnTheWay'
  <2>1. Range(up) \subseteq Range(up')
    <3>1. CASE up' = up
      BY <3>1
    <3>2. ASSUME NEW q \in Seq(UpPackets), up' = up \o q
          PROVE  Range(up) \subseteq Range(up')
      <4>1. Range(up \o q) = Range(up) \cup Range(q)
        BY <1>1, RangeOfConcat
      <4> QED
        BY <3>2, <4>1
    <3> QED
      BY <1>5, <3>1, <3>2
  <2> QED
    BY <1>5, <2>1 DEF EndOnTheWay, Requested, Ending
<1>6. ASSUME NEW u \in Users, ClickLogin(u) PROVE EndOnTheWay'
  <2>1. <<Login(u)>> \in Seq(UpPackets)
    BY DEF UpPackets
  <2> QED
    BY <1>5, <1>6, <2>1 DEF ClickLogin, SendPackets, downloadVars
<1>7. CASE ClickSendMsg \/ UploadChosen
  <2>1. /\ <<Chat>> \in Seq(UpPackets) /\ <<UploadBegin>> \in Seq(UpPackets)
        /\ <<UploadBegin, UploadChunk, UploadEnd>> \in Seq(UpPackets)
    BY DEF UpPackets
  <2> QED
    BY <1>5, <1>7, <2>1 DEF ClickSendMsg, UploadChosen, SendPackets, downloadVars
<1>8. CASE ClickSendFile \/ CancelDialog \/ \E f \in Files : ClickDownloadFile(f)
  BY <1>5, <1>8 DEF ClickSendFile, ClickDownloadFile, CancelDialog, OpenDialog,
                    linkVars, downloadVars
<1>9. CASE UNCHANGED vars
  BY <1>5, <1>9 DEF vars, linkVars, downloadVars
<1> QED
  BY <1>2, <1>3, <1>4, <1>6, <1>7, <1>8, <1>9, AnswersEnd, TakingEnds DEF Next

-----------------------------------------------------------------------------
(* The theorems.                                                            *)

\* The inductive invariant.
THEOREM DownloadInvariant == Spec => []DownloadInv
BY DownloadInit, DownloadStep, PTL DEF Spec

\* "Download completed" is true, unless the path was chosen while another
\* download was under way or the disk failed.
THEOREM CompletedDownloadsAreWhole == Spec => []CompletedIsWhole
<1>1. DownloadInv => CompletedIsWhole
  BY DEF DownloadInv
<1> QED
  BY <1>1, DownloadInvariant, PTL

\* However a download ends, nothing partial stays on disk unnoticed.
THEOREM NoPartialFiles == Spec => []NothingPartialStays
<1>1. DownloadInv => NothingPartialStays
  BY DEF DownloadInv
<1> QED
  BY <1>1, DownloadInvariant, PTL

\* A download that the server was asked for waits for the answer, or its end is
\* on the way, however downloads overlap and connections break.
THEOREM DownloadsHaveAnEnd == Spec => []EndOnTheWay
<1>1. Init => EndOnTheWay
  BY DEF Init, EndOnTheWay
<1> QED
  BY <1>1, EndStep, SessionInvariant, PTL DEF Spec

\* Type correctness, and that m_downloadReceived is at no time more than some
\* file has, however downloads overlap, break off and are begun again.
THEOREM ClientTyped == Spec => []TypeOK
<1>1. CountInv => TypeOK
  BY DEF CountInv
<1> QED
  BY <1>1, CountInit, CountStep, DownloadInvariant, PTL DEF Spec

=============================================================================
