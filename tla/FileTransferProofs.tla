------------------------- MODULE FileTransferProofs -------------------------
(***************************************************************************)
(* What holds of the upload store for all sets of sessions and names, all  *)
(* sizes and numbers of chunks, with and without disk errors: the types,   *)
(* and SoundUploadsStored by the inductive invariant StoreInv.             *)
(***************************************************************************)
EXTENDS FileTransfer, SequenceTheorems, TLAPS

-----------------------------------------------------------------------------
(* Blocks of a file.                                                        *)

\* A function on 1..n is a sequence.
LEMMA FunctionIsSeq ==
    ASSUME NEW S, NEW n \in Nat, NEW f \in [1..n -> S]
    PROVE  f \in Seq(S)
BY SeqDef

\* A write of m blocks leaves a sequence of blocks.
LEMMA PutBlocksType ==
    ASSUME NEW s \in Seq(Block), NEW pos \in Nat, NEW m \in Nat,
           NEW c \in Clients
    PROVE  PutBlocks(s, pos, m, c) \in Seq(Block)
<1>1. CASE m = 0
  BY <1>1 DEF PutBlocks
<1>2. CASE m # 0
  <2> DEFINE n == IF Len(s) > pos + m THEN Len(s) ELSE pos + m
             e(i) == IF i > pos /\ i <= pos + m THEN c
                     ELSE IF i <= Len(s) THEN s[i] ELSE Hole
  <2>1. n \in Nat
    BY LenProperties
  <2>2. \A i \in 1..n : e(i) \in Block
    BY LenProperties, ElementOfSeq DEF Block
  <2>3. [i \in 1..n |-> e(i)] \in [1..n -> Block]
    BY <2>2
  <2>4. [i \in 1..n |-> e(i)] \in Seq(Block)
    BY <2>1, <2>3, FunctionIsSeq
  <2>5. PutBlocks(s, pos, m, c) = [i \in 1..n |-> e(i)]
    BY <1>2 DEF PutBlocks
  <2> QED
    BY <2>4, <2>5
<1> QED
  BY <1>1, <1>2

\* A whole upload is a sequence of blocks.
LEMMA BlocksType ==
    ASSUME NEW c \in Clients, NEW k \in Nat
    PROVE  /\ Blocks(c, k) \in Seq(Block)
           /\ Len(Blocks(c, k)) = k
<1>1. Blocks(c, k) \in [1..k -> Block]
  BY DEF Blocks, Block
<1>2. Blocks(c, k) \in Seq(Block)
  BY <1>1, FunctionIsSeq
<1>3. DOMAIN Blocks(c, k) = 1..k /\ DOMAIN Blocks(c, k) = 1..Len(Blocks(c, k))
  BY <1>2, LenProperties DEF Blocks
<1> QED
  BY <1>2, <1>3, LenProperties

\* A session that goes on where it stopped prolongs what it wrote.
LEMMA PutBlocksAppends ==
    ASSUME NEW c \in Clients, NEW w \in Nat, NEW m \in Nat
    PROVE  PutBlocks(Blocks(c, w), w, m, c) = Blocks(c, w + m)
<1>1. Len(Blocks(c, w)) = w
  BY BlocksType
<1>2. CASE m = 0
  BY <1>2 DEF PutBlocks
<1>3. CASE m # 0
  <2>1. PutBlocks(Blocks(c, w), w, m, c) =
          [i \in 1..(w + m) |-> IF i > w /\ i <= w + m THEN c
                                ELSE IF i <= w THEN Blocks(c, w)[i] ELSE Hole]
    BY <1>1, <1>3 DEF PutBlocks
  <2> QED
    BY <2>1 DEF Blocks
<1> QED
  BY <1>2, <1>3

-----------------------------------------------------------------------------
(* The effect of writing and closing a stream.                              *)

\* A write leaves every file but the stream's own as it was, and that one too
\* when the stream is not open.
LEMMA WrittenFrame ==
    ASSUME TypeOK, NEW c \in Clients, NEW m \in Nat, NEW ok
    PROVE  /\ \A n \in Names : upload[c].open /\ n # upload[c].fileName
                                => Written(c, m, ok)[n] = content[n]
           /\ ~upload[c].open => Written(c, m, ok) = content
BY DEF Written, TypeOK

\* A write leaves well-formed files.
LEMMA WrittenType ==
    ASSUME TypeOK, LinkedPresent, NEW c \in Clients, NEW m \in Nat, NEW ok
    PROVE  Written(c, m, ok) \in [Names -> Seq(Block)]
<1> DEFINE u == upload[c]
<1>1. CASE u.open /\ u.linked /\ ~u.bad /\ ok
  <2>1. u.fileName \in Names /\ u.written \in Nat
    BY <1>1 DEF LinkedPresent, TypeOK, UploadState
  <2>2. PutBlocks(content[u.fileName], u.written, m, c) \in Seq(Block)
    BY <2>1, PutBlocksType DEF TypeOK
  <2> QED
    BY <1>1, <2>1, <2>2 DEF Written, TypeOK
<1>2. CASE ~(u.open /\ u.linked /\ ~u.bad /\ ok)
  BY <1>2 DEF Written, TypeOK
<1> QED
  BY <1>1, <1>2

\* The same of a close.
LEMMA ClosedFacts ==
    ASSUME TypeOK, LinkedPresent, NEW c \in Clients, NEW ok
    PROVE  /\ Closed(c, ok) \in [Names -> Seq(Block)]
           /\ \A n \in Names : upload[c].open /\ n # upload[c].fileName
                                => Closed(c, ok)[n] = content[n]
           /\ ~upload[c].open => Closed(c, ok) = content
<1>1. upload[c].buffered \in Nat
  BY DEF TypeOK, UploadState
<1> QED
  BY <1>1, WrittenType, WrittenFrame DEF Closed

\* A sound stream that hands over m blocks appends them.
LEMMA SoundWrite ==
    ASSUME TypeOK, LinkedPresent, SoundStreams, NEW c \in sound, NEW m \in Nat
    PROVE  Written(c, m, TRUE)[upload[c].fileName] =
               Blocks(c, upload[c].written + m)
<1>1. c \in Clients /\ upload[c].written \in Nat
  BY DEF TypeOK, UploadState
<1>2. /\ upload[c].open /\ upload[c].linked /\ ~upload[c].bad
      /\ content[upload[c].fileName] = Blocks(c, upload[c].written)
  BY DEF SoundStreams, StreamSound
<1>3. upload[c].fileName \in Names
  BY <1>1, <1>2 DEF LinkedPresent
<1>4. Written(c, m, TRUE)[upload[c].fileName] =
          PutBlocks(Blocks(c, upload[c].written), upload[c].written, m, c)
  BY <1>2, <1>3 DEF Written, TypeOK
<1> QED
  BY <1>1, <1>4, PutBlocksAppends

-----------------------------------------------------------------------------
(* Every operation preserves the invariant.                                 *)

\* The parts of the invariant a step is checked against.
LEMMA StoreInvParts ==
    StoreInv <=> /\ TypeOK /\ LinkedPresent /\ SoundStreams
                 /\ SoundPathsClosed /\ SoundUploadsStored
BY DEF StoreInv

\* beginUpload ends every record of its path and every other sound upload on
\* it, and starts a sound one only if the path was free.
LEMMA BeginUploadInv ==
    ASSUME StoreInv, NEW c \in Clients, NEW n \in Names, NEW size \in Nat,
           BeginUpload(c, n, size)
    PROVE  StoreInv'
<1> PICK ok \in DiskOutcomes :
        content' = [Closed(c, ok) EXCEPT ![n] = <<>>]
  BY DEF BeginUpload
<1>a. /\ files' = files \cup {n}
      /\ upload' = [upload EXCEPT ![c] = Opened(c, n, size)]
      /\ sound' = IF OthersOn(c, n) = {} THEN sound \cup {c}
                  ELSE sound \ ({c} \cup OthersOn(c, n))
      /\ finished' = {r \in finished : r.name # n}
      /\ abandoned' = (abandoned \cup LeftBehind(c)) \ {n}
      /\ interrupted' = interrupted \ {n}
  BY DEF BeginUpload
<1>b. TypeOK /\ LinkedPresent /\ SoundStreams /\ SoundPathsClosed
        /\ SoundUploadsStored
  BY StoreInvParts
<1>c. /\ Opened(c, n, size) \in UploadState
      /\ Opened(c, n, size).open /\ Opened(c, n, size).linked
      /\ Opened(c, n, size).fileName = n /\ ~Opened(c, n, size).bad
      /\ Opened(c, n, size).written = 0 /\ Opened(c, n, size).buffered = 0
      /\ Opened(c, n, size).receivedSize = 0
  BY DEF Opened, NoUpload, UploadState
<1>d. /\ upload'[c] = Opened(c, n, size)
      /\ \A d \in Clients \ {c} : upload'[d] = upload[d]
  BY <1>a, <1>b DEF TypeOK
<1>e. /\ content'[n] = <<>>
      /\ \A m \in Names : m # n => content'[m] = Closed(c, ok)[m]
      /\ content' \in [Names -> Seq(Block)]
  BY <1>b, ClosedFacts, EmptySeq
<1>1. TypeOK'
  <2>1. LeftBehind(c) \subseteq Names
    BY <1>b DEF LeftBehind, LinkedPresent
  <2>2. sound' \subseteq Clients
    BY <1>a, <1>b DEF TypeOK
  <2> QED
    BY <1>a, <1>b, <1>c, <1>e, <2>1, <2>2 DEF TypeOK
<1>2. LinkedPresent'
  BY <1>a, <1>b, <1>c, <1>d DEF LinkedPresent
<1>3. SoundStreams'
  <2> SUFFICES ASSUME NEW d \in sound'
               PROVE  StreamSound(d)'
    BY DEF SoundStreams
  <2>1. CASE d = c
    <3>1. OthersOn(c, n) = {}
      BY <1>a, <2>1
    <3>2. OthersOn(c, upload[c].fileName)' = {}
      BY <1>c, <1>d, <3>1 DEF OthersOn
    <3>3. Blocks(c, 0) = <<>>
      BY BlocksType, EmptySeq
    <3> QED
      BY <1>c, <1>d, <1>e, <2>1, <3>2, <3>3 DEF StreamSound
  <2>2. CASE d # c
    <3>1. d \in sound /\ d \in Clients
      BY <1>a, <1>b, <2>2 DEF TypeOK
    <3>2. upload'[d] = upload[d]
      BY <1>d, <2>2, <3>1
    <3>3. /\ upload[d].open /\ upload[d].linked /\ ~upload[d].bad
          /\ OthersOn(d, upload[d].fileName) = {}
          /\ content[upload[d].fileName] = Blocks(d, upload[d].written)
          /\ upload[d].receivedSize = upload[d].written + upload[d].buffered
      BY <1>b, <3>1 DEF SoundStreams, StreamSound
    <3>4. upload[d].fileName \in Names
      BY <1>b, <3>1, <3>3 DEF LinkedPresent
    <3>5. upload[d].fileName # n
      BY <1>a, <2>2, <3>1, <3>3 DEF OthersOn
    <3>6. upload[c].open => upload[c].fileName # upload[d].fileName
      BY <2>2, <3>3 DEF OthersOn
    <3>7. content'[upload[d].fileName] = content[upload[d].fileName]
      BY <1>b, <1>e, <3>4, <3>5, <3>6, ClosedFacts
    <3>8. OthersOn(d, upload[d].fileName)' = {}
      BY <1>c, <1>d, <3>2, <3>3, <3>5 DEF OthersOn
    <3> QED
      BY <3>2, <3>3, <3>7, <3>8 DEF StreamSound
  <2> QED
    BY <2>1, <2>2
<1>4. SoundPathsClosed'
  BY <1>a, <1>b, <1>c, <1>d DEF SoundPathsClosed
<1>5. SoundUploadsStored'
  <2> SUFFICES ASSUME NEW r \in finished', r.sound
               PROVE  r.name \in files' /\ content'[r.name] = Blocks(r.by, r.size)
    BY DEF SoundUploadsStored
  <2>1. r \in finished /\ r.name # n /\ r.name \in Names
    BY <1>a, <1>b DEF TypeOK, FinishedUpload
  <2>2. r.name \in files /\ content[r.name] = Blocks(r.by, r.size)
    BY <1>b, <2>1 DEF SoundUploadsStored
  <2>3. upload[c].open => upload[c].fileName # r.name
    BY <1>b, <2>1 DEF SoundPathsClosed
  <2> QED
    BY <1>a, <1>b, <1>e, <2>1, <2>2, <2>3, ClosedFacts
<1> QED
  BY <1>1, <1>2, <1>3, <1>4, <1>5 DEF StoreInv

\* A step that touches the stream and the file of session c alone, and opens
\* nothing, keeps what is known of the other streams and of the finished
\* uploads: neither can be on c's path.
LEMMA OwnStep ==
    ASSUME StoreInv, NEW c \in Clients,
           \A d \in Clients \ {c} : upload'[d] = upload[d],
           upload'[c].open => /\ upload[c].open
                              /\ upload'[c].fileName = upload[c].fileName
                              /\ upload'[c].linked => upload[c].linked,
           \A n \in Names : (upload[c].open => n # upload[c].fileName)
                                => content'[n] = content[n],
           files' = files
    PROVE  /\ LinkedPresent'
           /\ \A d \in sound \ {c} : StreamSound(d)'
           /\ \A r \in finished : r.sound =>
                /\ r.name \in files' /\ content'[r.name] = Blocks(r.by, r.size)
                /\ \A d \in Clients : upload'[d].open
                                        => upload'[d].fileName # r.name
<1>a. TypeOK /\ LinkedPresent /\ SoundStreams /\ SoundPathsClosed
        /\ SoundUploadsStored
  BY StoreInvParts
<1>1. LinkedPresent'
  BY <1>a DEF LinkedPresent
<1>2. ASSUME NEW d \in sound \ {c}
      PROVE  StreamSound(d)'
  <2>1. d \in Clients /\ upload'[d] = upload[d]
    BY <1>a, <1>2 DEF TypeOK
  <2>2. StreamSound(d)
    BY <1>a, <1>2 DEF SoundStreams
  <2>3. upload[d].fileName \in Names
    BY <1>a, <2>1, <2>2 DEF LinkedPresent, StreamSound
  <2>4. upload[c].open => upload[c].fileName # upload[d].fileName
    BY <1>2, <2>2 DEF OthersOn, StreamSound
  <2>5. content'[upload[d].fileName] = content[upload[d].fileName]
    BY <2>3, <2>4
  <2>6. OthersOn(d, upload[d].fileName)' = {}
    BY <2>1, <2>2 DEF OthersOn, StreamSound
  <2> QED
    BY <2>1, <2>2, <2>5, <2>6 DEF StreamSound
<1>3. ASSUME NEW r \in finished, r.sound
      PROVE  /\ r.name \in files' /\ content'[r.name] = Blocks(r.by, r.size)
             /\ \A d \in Clients : upload'[d].open
                                     => upload'[d].fileName # r.name
  <2>1. r.name \in Names
    BY <1>a DEF TypeOK, FinishedUpload
  <2>2. r.name \in files /\ content[r.name] = Blocks(r.by, r.size)
    BY <1>a, <1>3 DEF SoundUploadsStored
  <2>3. \A d \in Clients : upload[d].open => upload[d].fileName # r.name
    BY <1>a, <1>3 DEF SoundPathsClosed
  <2> QED
    BY <2>1, <2>2, <2>3
<1> QED
  BY <1>1, <1>2, <1>3

\* beginUpload with an open that fails closes a stream and opens none.
LEMMA BeginUploadFailsInv ==
    ASSUME StoreInv, NEW c \in Clients, NEW n \in Names \cup Dirs, NEW size \in Nat,
           BeginUploadFails(c, n, size)
    PROVE  StoreInv'
<1> PICK ok \in DiskOutcomes : content' = Closed(c, ok)
  BY DEF BeginUploadFails
<1>a. TypeOK /\ LinkedPresent
  BY StoreInvParts
<1> DEFINE u == [NoUpload EXCEPT !.fileName = n, !.fileSize = size]
<1>b. u \in UploadState /\ ~u.open
  BY DEF NoUpload, UploadState
<1>c. /\ upload' = [upload EXCEPT ![c] = u]
      /\ sound' = sound \ {c}
      /\ abandoned' = abandoned \cup LeftBehind(c)
      /\ files' = files /\ finished' = finished /\ interrupted' = interrupted
  BY DEF BeginUploadFails
<1> HIDE DEF u
<1>d. upload'[c] = u /\ \A d \in Clients \ {c} : upload'[d] = upload[d]
  BY <1>a, <1>c DEF TypeOK
<1>1. TypeOK'
  <2>1. LeftBehind(c) \subseteq Names
    BY <1>a DEF LeftBehind, LinkedPresent
  <2> QED
    BY <1>a, <1>b, <1>c, <2>1, ClosedFacts DEF TypeOK
<1>2. /\ LinkedPresent'
      /\ \A d \in sound \ {c} : StreamSound(d)'
      /\ \A r \in finished : r.sound =>
            /\ r.name \in files' /\ content'[r.name] = Blocks(r.by, r.size)
            /\ \A d \in Clients : upload'[d].open
                                    => upload'[d].fileName # r.name
  BY <1>a, <1>b, <1>c, <1>d, ClosedFacts, OwnStep
<1>3. SoundStreams' /\ SoundPathsClosed' /\ SoundUploadsStored'
  BY <1>2, <1>c DEF SoundStreams, SoundPathsClosed, SoundUploadsStored
<1> QED
  BY <1>1, <1>2, <1>3 DEF StoreInv

\* cleanup's close of one stream.
LEMMA CloseUploadInv ==
    ASSUME StoreInv, NEW c \in Clients, CloseUpload(c)
    PROVE  StoreInv'
<1> PICK ok \in DiskOutcomes : content' = Closed(c, ok)
  BY DEF CloseUpload
<1>a. TypeOK /\ LinkedPresent
  BY StoreInvParts
<1>b. NoUpload \in UploadState /\ ~NoUpload.open
  BY DEF NoUpload, UploadState
<1>c. /\ upload' = [upload EXCEPT ![c] = NoUpload]
      /\ sound' = sound \ {c}
      /\ interrupted' = interrupted \cup LeftBehind(c)
      /\ files' = files /\ finished' = finished /\ abandoned' = abandoned
  BY DEF CloseUpload
<1>d. upload'[c] = NoUpload /\ \A d \in Clients \ {c} : upload'[d] = upload[d]
  BY <1>a, <1>c DEF TypeOK
<1>1. TypeOK'
  <2>1. LeftBehind(c) \subseteq Names
    BY <1>a DEF LeftBehind, LinkedPresent
  <2> QED
    BY <1>a, <1>b, <1>c, <2>1, ClosedFacts DEF TypeOK
<1>2. /\ LinkedPresent'
      /\ \A d \in sound \ {c} : StreamSound(d)'
      /\ \A r \in finished : r.sound =>
            /\ r.name \in files' /\ content'[r.name] = Blocks(r.by, r.size)
            /\ \A d \in Clients : upload'[d].open
                                    => upload'[d].fileName # r.name
  BY <1>a, <1>b, <1>c, <1>d, ClosedFacts, OwnStep
<1>3. SoundStreams' /\ SoundPathsClosed' /\ SoundUploadsStored'
  BY <1>2, <1>c DEF SoundStreams, SoundPathsClosed, SoundUploadsStored
<1> QED
  BY <1>1, <1>2, <1>3 DEF StoreInv

\* The three states writeChunk may leave an upload state in.
LEMMA ChunkStates ==
    ASSUME NEW u \in UploadState
    PROVE  /\ Buffers(u) \in UploadState
           /\ HandsOver(u) \in UploadState
           /\ FailsToWrite(u) \in UploadState
           /\ Buffers(u).open = u.open /\ Buffers(u).fileName = u.fileName
           /\ Buffers(u).linked = u.linked /\ Buffers(u).bad = u.bad
           /\ Buffers(u).receivedSize = u.receivedSize + 1
           /\ Buffers(u).written = u.written
           /\ Buffers(u).buffered = u.buffered + 1
           /\ HandsOver(u).open = u.open /\ HandsOver(u).fileName = u.fileName
           /\ HandsOver(u).linked = u.linked /\ HandsOver(u).bad = u.bad
           /\ HandsOver(u).receivedSize = u.receivedSize + 1
           /\ HandsOver(u).written = u.written + u.buffered + 1
           /\ HandsOver(u).buffered = 0
           /\ FailsToWrite(u).open = u.open
           /\ FailsToWrite(u).fileName = u.fileName
           /\ FailsToWrite(u).linked = u.linked
<1>1. /\ u.receivedSize \in Nat /\ u.written \in Nat /\ u.buffered \in Nat
      /\ u.receivedSize + 1 \in Nat /\ u.buffered + 1 \in Nat
      /\ u.written + u.buffered + 1 \in Nat
  BY DEF UploadState
<1>2. Buffers(u) \in UploadState
  BY <1>1 DEF Buffers, UploadState
<1>3. HandsOver(u) \in UploadState
  BY <1>1 DEF HandsOver, UploadState
<1>4. FailsToWrite(u) \in UploadState
  BY <1>1 DEF FailsToWrite, UploadState
<1>5. /\ Buffers(u).open = u.open /\ Buffers(u).fileName = u.fileName
      /\ Buffers(u).linked = u.linked /\ Buffers(u).bad = u.bad
      /\ Buffers(u).receivedSize = u.receivedSize + 1
      /\ Buffers(u).written = u.written
      /\ Buffers(u).buffered = u.buffered + 1
  BY <1>1 DEF Buffers, UploadState
<1>6. /\ HandsOver(u).open = u.open /\ HandsOver(u).fileName = u.fileName
      /\ HandsOver(u).linked = u.linked /\ HandsOver(u).bad = u.bad
      /\ HandsOver(u).receivedSize = u.receivedSize + 1
      /\ HandsOver(u).written = u.written + u.buffered + 1
      /\ HandsOver(u).buffered = 0
  BY <1>1 DEF HandsOver, UploadState
<1>7. /\ FailsToWrite(u).open = u.open /\ FailsToWrite(u).fileName = u.fileName
      /\ FailsToWrite(u).linked = u.linked
      /\ FailsToWrite(u).receivedSize = u.receivedSize + 1
  BY <1>1 DEF FailsToWrite, UploadState
<1> QED
  BY <1>2, <1>3, <1>4, <1>5, <1>6, <1>7

\* writeChunk counts and stores, or buffers, the same number of blocks, or
\* leaves a stream that is not sound any more.
LEMMA WriteChunkInv ==
    ASSUME StoreInv, NEW c \in Clients, WriteChunk(c)
    PROVE  StoreInv'
<1> DEFINE u == upload[c]
<1>a. TypeOK /\ LinkedPresent /\ SoundStreams
  BY StoreInvParts
<1>b. /\ u \in UploadState /\ u.open
      /\ files' = files /\ finished' = finished
      /\ abandoned' = abandoned /\ interrupted' = interrupted
  BY <1>a DEF WriteChunk, TypeOK
<1>1. CASE /\ upload' = [upload EXCEPT ![c] = Buffers(u)]
           /\ content' = content /\ sound' = sound
  <2>2. /\ upload'[c] = Buffers(u)
        /\ \A d \in Clients \ {c} : upload'[d] = upload[d]
    BY <1>1, <1>a DEF TypeOK
  <2>3. upload' \in [Clients -> UploadState]
    BY <1>1, <1>a, <1>b, ChunkStates DEF TypeOK
  <2>4. TypeOK'
    BY <1>a, <1>b, <1>1, <2>3 DEF TypeOK
  <2>5. /\ upload'[c].open = u.open /\ upload'[c].fileName = u.fileName
        /\ upload'[c].linked = u.linked /\ upload'[c].bad = u.bad
        /\ upload'[c].written = u.written
        /\ upload'[c].buffered = u.buffered + 1
        /\ upload'[c].receivedSize = u.receivedSize + 1
    <3>1. /\ Buffers(u).open = u.open /\ Buffers(u).fileName = u.fileName
          /\ Buffers(u).linked = u.linked /\ Buffers(u).bad = u.bad
          /\ Buffers(u).receivedSize = u.receivedSize + 1
          /\ Buffers(u).written = u.written
          /\ Buffers(u).buffered = u.buffered + 1
      BY <1>b, ChunkStates
    <3> QED
      BY <2>2, <3>1
  <2>6. /\ LinkedPresent'
        /\ \A d \in sound \ {c} : StreamSound(d)'
        /\ \A r \in finished : r.sound =>
              /\ r.name \in files' /\ content'[r.name] = Blocks(r.by, r.size)
              /\ \A d \in Clients : upload'[d].open
                                      => upload'[d].fileName # r.name
    BY <1>b, <1>1, <2>2, <2>5, OwnStep
  <2>7. c \in sound => StreamSound(c)'
    <3> SUFFICES ASSUME c \in sound PROVE StreamSound(c)'
      OBVIOUS
    <3>1. StreamSound(c)
      BY <1>a DEF SoundStreams
    <3>2. OthersOn(c, upload[c].fileName)' = {}
      BY <2>2, <2>5, <3>1 DEF OthersOn, StreamSound
    <3>3. u.written \in Nat /\ u.buffered \in Nat /\ u.receivedSize \in Nat
      BY <1>b DEF UploadState
    <3>4. upload'[c].receivedSize = upload'[c].written + upload'[c].buffered
      BY <2>5, <3>1, <3>3 DEF StreamSound
    <3>5. content'[upload'[c].fileName] = Blocks(c, upload'[c].written)
      BY <1>1, <2>5, <3>1 DEF StreamSound
    <3>6. upload'[c].open /\ upload'[c].linked /\ ~upload'[c].bad
      BY <2>5, <3>1 DEF StreamSound
    <3> QED
      BY <3>2, <3>4, <3>5, <3>6 DEF StreamSound
  <2>8. SoundStreams' /\ SoundPathsClosed' /\ SoundUploadsStored'
    BY <1>b, <1>1, <2>6, <2>7
       DEF SoundStreams, SoundPathsClosed, SoundUploadsStored
  <2> QED
    BY <2>4, <2>6, <2>8 DEF StoreInv
<1>2. ASSUME NEW ok \in DiskOutcomes,
             content' = Written(c, u.buffered + 1, ok),
             upload' = [upload EXCEPT ![c] =
                IF ok /\ ~u.bad THEN HandsOver(u) ELSE FailsToWrite(u)],
             sound' = IF ok THEN sound ELSE sound \ {c}
      PROVE  StoreInv'
  <2>1. /\ u.written \in Nat /\ u.buffered \in Nat /\ u.receivedSize \in Nat
        /\ u.buffered + 1 \in Nat
    BY <1>b DEF UploadState
  <2>2. /\ HandsOver(u) \in UploadState /\ FailsToWrite(u) \in UploadState
        /\ HandsOver(u).open = u.open /\ FailsToWrite(u).open = u.open
        /\ HandsOver(u).fileName = u.fileName
        /\ FailsToWrite(u).fileName = u.fileName
        /\ HandsOver(u).linked = u.linked /\ FailsToWrite(u).linked = u.linked
        /\ HandsOver(u).bad = u.bad /\ HandsOver(u).buffered = 0
        /\ HandsOver(u).written = u.written + u.buffered + 1
        /\ HandsOver(u).receivedSize = u.receivedSize + 1
    BY <1>b, ChunkStates
  <2>3. /\ upload'[c] = IF ok /\ ~u.bad THEN HandsOver(u) ELSE FailsToWrite(u)
        /\ \A d \in Clients \ {c} : upload'[d] = upload[d]
        /\ upload' \in [Clients -> UploadState]
    BY <1>2, <1>a, <2>2 DEF TypeOK
  <2>4. /\ content' \in [Names -> Seq(Block)]
        /\ \A n \in Names : (u.open => n # u.fileName)
                            => content'[n] = content[n]
    BY <1>2, <1>a, <1>b, <2>1, WrittenType, WrittenFrame
  <2>5. TypeOK'
    BY <1>2, <1>a, <1>b, <2>3, <2>4 DEF TypeOK
  <2>6. /\ LinkedPresent'
        /\ \A d \in sound \ {c} : StreamSound(d)'
        /\ \A r \in finished : r.sound =>
              /\ r.name \in files' /\ content'[r.name] = Blocks(r.by, r.size)
              /\ \A d \in Clients : upload'[d].open
                                      => upload'[d].fileName # r.name
    BY <1>b, <2>2, <2>3, <2>4, OwnStep
  <2>7. c \in sound' => StreamSound(c)'
    <3> SUFFICES ASSUME c \in sound, ok PROVE StreamSound(c)'
      BY <1>2
    <3>1. StreamSound(c)
      BY <1>a DEF SoundStreams
    <3>2. upload'[c] = HandsOver(u)
      BY <2>3, <3>1 DEF StreamSound
    <3>3. OthersOn(c, upload[c].fileName)' = {}
      BY <2>2, <2>3, <3>1, <3>2 DEF OthersOn, StreamSound
    <3>4. ok = TRUE
      BY DEF DiskOutcomes
    <3>5. content'[u.fileName] = Blocks(c, u.written + (u.buffered + 1))
      BY <1>2, <1>a, <2>1, <3>4, SoundWrite
    <3>6. u.written + (u.buffered + 1) = u.written + u.buffered + 1
      BY <2>1
    <3>7. content'[upload'[c].fileName] = Blocks(c, upload'[c].written)
      BY <2>2, <3>2, <3>5, <3>6
    <3>8. upload'[c].receivedSize = upload'[c].written + upload'[c].buffered
      BY <2>1, <2>2, <3>1, <3>2 DEF StreamSound
    <3>9. upload'[c].open /\ upload'[c].linked /\ ~upload'[c].bad
      BY <2>2, <3>1, <3>2 DEF StreamSound
    <3> QED
      BY <3>3, <3>7, <3>8, <3>9 DEF StreamSound
  <2>8. SoundStreams' /\ SoundPathsClosed' /\ SoundUploadsStored'
    BY <1>2, <1>b, <2>6, <2>7
       DEF SoundStreams, SoundPathsClosed, SoundUploadsStored
  <2> QED
    BY <2>5, <2>6, <2>8 DEF StoreInv
<1> QED
  BY <1>1, <1>2 DEF WriteChunk

\* endUpload of a complete upload: what its record promises is what the
\* closed stream has left in the file.
LEMMA EndUploadAcceptsInv ==
    ASSUME StoreInv, NEW c \in Clients, EndUploadAccepts(c)
    PROVE  StoreInv'
<1> DEFINE n == upload[c].fileName
           rec(ok) == [name |-> n, by |-> c, size |-> upload[c].fileSize,
                       sound |-> c \in sound /\ ok]
<1> PICK ok \in DiskOutcomes :
        /\ content' = Closed(c, ok)
        /\ finished' = {r \in finished : r.name # n} \cup {rec(ok)}
  BY DEF EndUploadAccepts
<1>a. TypeOK /\ LinkedPresent /\ SoundStreams
  BY StoreInvParts
<1>b. NoUpload \in UploadState /\ ~NoUpload.open
  BY DEF NoUpload, UploadState
<1>c. /\ upload[c].open /\ upload[c].receivedSize = upload[c].fileSize
      /\ upload' = [upload EXCEPT ![c] = NoUpload]
      /\ sound' = sound \ {c} /\ files' = files
      /\ abandoned' = abandoned \ {n} /\ interrupted' = interrupted \ {n}
  BY DEF EndUploadAccepts, Complete
<1>d. upload'[c] = NoUpload /\ \A d \in Clients \ {c} : upload'[d] = upload[d]
  BY <1>a, <1>c DEF TypeOK
<1>e. /\ upload[c] \in UploadState /\ n \in Names
      /\ upload[c].buffered \in Nat /\ upload[c].written \in Nat
      /\ upload[c].fileSize \in Nat
  BY <1>a, <1>c DEF TypeOK, UploadState, LinkedPresent
<1>f. ok \in BOOLEAN
  BY DEF DiskOutcomes
<1>1. TypeOK'
  <2>1. rec(ok) \in FinishedUpload
    BY <1>e, <1>f DEF FinishedUpload
  <2>2. finished' \subseteq FinishedUpload
    BY <1>a, <2>1 DEF TypeOK
  <2> QED
    BY <1>a, <1>b, <1>c, <2>2, ClosedFacts DEF TypeOK
<1>2. /\ LinkedPresent'
      /\ \A d \in sound \ {c} : StreamSound(d)'
      /\ \A r \in finished : r.sound =>
            /\ r.name \in files' /\ content'[r.name] = Blocks(r.by, r.size)
            /\ \A d \in Clients : upload'[d].open
                                    => upload'[d].fileName # r.name
  BY <1>a, <1>b, <1>c, <1>d, ClosedFacts, OwnStep
<1>3. rec(ok).sound =>
        /\ n \in files' /\ content'[n] = Blocks(c, upload[c].fileSize)
        /\ \A d \in Clients : upload'[d].open => upload'[d].fileName # n
  <2> SUFFICES ASSUME c \in sound, ok
               PROVE  /\ n \in files'
                      /\ content'[n] = Blocks(c, upload[c].fileSize)
                      /\ \A d \in Clients : upload'[d].open
                                              => upload'[d].fileName # n
    OBVIOUS
  <2>1. StreamSound(c) /\ ok = TRUE
    BY <1>a, <1>f DEF SoundStreams
  <2>2. content'[n] = Blocks(c, upload[c].written + upload[c].buffered)
    BY <1>a, <1>e, <2>1, SoundWrite DEF Closed
  <2>3. upload[c].written + upload[c].buffered = upload[c].fileSize
    BY <1>c, <2>1 DEF StreamSound
  <2>4. n \in files
    BY <1>a, <2>1 DEF StreamSound, LinkedPresent
  <2>5. \A d \in Clients : upload'[d].open => upload'[d].fileName # n
    BY <1>b, <1>d, <2>1 DEF StreamSound, OthersOn
  <2> QED
    BY <1>c, <2>2, <2>3, <2>4, <2>5
<1>4. \A r \in finished' : r.sound =>
        /\ r.name \in files' /\ content'[r.name] = Blocks(r.by, r.size)
        /\ \A d \in Clients : upload'[d].open => upload'[d].fileName # r.name
  <2> TAKE r \in finished'
  <2>1. CASE r = rec(ok)
    BY <1>3, <2>1
  <2>2. CASE r \in finished
    BY <1>2, <2>2
  <2> QED
    BY <2>1, <2>2
<1>5. SoundStreams' /\ SoundPathsClosed' /\ SoundUploadsStored'
  BY <1>2, <1>4, <1>c DEF SoundStreams, SoundPathsClosed, SoundUploadsStored
<1> QED
  BY <1>1, <1>2, <1>5 DEF StoreInv

\* Removing the path of an open upload: nothing sound is on that path, apart
\* from the upload itself, which ends.
LEMMA RemovePathInv ==
    ASSUME StoreInv, NEW c \in Clients, upload[c].open, NEW ok,
           RemovePath(c, Closed(c, ok))
    PROVE  StoreInv'
<1> DEFINE n == upload[c].fileName
<1>a. TypeOK /\ LinkedPresent /\ SoundStreams /\ SoundPathsClosed
        /\ SoundUploadsStored
  BY StoreInvParts
<1>b. NoUpload \in UploadState /\ ~NoUpload.open
  BY DEF NoUpload, UploadState
<1>c. /\ files' = files \ {n}
      /\ content' = [Closed(c, ok) EXCEPT ![n] = <<>>]
      /\ upload' = UnlinkedBut(c, n)
      /\ sound' = sound \ {c} /\ finished' = finished
      /\ abandoned' = abandoned \ {n} /\ interrupted' = interrupted \ {n}
  BY DEF RemovePath
<1>d. n \in Names
  BY <1>a DEF LinkedPresent
<1>e. \A d \in Clients :
        /\ [upload[d] EXCEPT !.linked = FALSE] \in UploadState
        /\ [upload[d] EXCEPT !.linked = FALSE].open = upload[d].open
        /\ [upload[d] EXCEPT !.linked = FALSE].fileName = upload[d].fileName
        /\ [upload[d] EXCEPT !.linked = FALSE].linked = FALSE
  BY <1>a DEF TypeOK, UploadState
<1>f. /\ upload'[c] = NoUpload
      /\ \A d \in Clients \ {c} :
            /\ upload[d].fileName = n
                => upload'[d] = [upload[d] EXCEPT !.linked = FALSE]
            /\ upload[d].fileName # n => upload'[d] = upload[d]
  BY <1>c DEF UnlinkedBut
<1>g. \A d \in Clients \ {c} : /\ upload'[d].open = upload[d].open
                              /\ upload'[d].fileName = upload[d].fileName
  <2> TAKE d \in Clients \ {c}
  <2>1. CASE upload[d].fileName = n
    BY <1>e, <1>f, <2>1
  <2>2. CASE upload[d].fileName # n
    BY <1>f, <2>2
  <2> QED
    BY <2>1, <2>2
<1>h. /\ content' \in [Names -> Seq(Block)]
      /\ \A m \in Names : m # n => content'[m] = content[m]
  BY <1>a, <1>c, <1>d, ClosedFacts, EmptySeq
<1>1. TypeOK'
  <2>1. upload' \in [Clients -> UploadState]
    <3>1. \A d \in Clients : upload[d] \in UploadState
      BY <1>a DEF TypeOK
    <3> QED
      BY <1>b, <1>c, <1>e, <3>1 DEF UnlinkedBut
  <2> QED
    BY <1>a, <1>c, <1>h, <2>1 DEF TypeOK
<1>2. LinkedPresent'
  <2> SUFFICES ASSUME NEW d \in Clients, upload'[d].open
               PROVE  /\ upload'[d].fileName \in Names
                      /\ upload'[d].linked => upload'[d].fileName \in files'
    BY DEF LinkedPresent
  <2>1. d # c
    BY <1>b, <1>f
  <2>2. upload[d].open /\ upload'[d].fileName = upload[d].fileName
    BY <1>g, <2>1
  <2>3. CASE upload[d].fileName = n
    BY <1>d, <1>e, <1>f, <2>1, <2>2, <2>3
  <2>4. CASE upload[d].fileName # n
    BY <1>a, <1>c, <1>f, <2>1, <2>2, <2>4 DEF LinkedPresent
  <2> QED
    BY <2>3, <2>4
<1>3. SoundStreams'
  <2> SUFFICES ASSUME NEW d \in sound \ {c}
               PROVE  StreamSound(d)'
    BY <1>c DEF SoundStreams
  <2>1. d \in Clients /\ StreamSound(d)
    BY <1>a DEF TypeOK, SoundStreams
  <2>2. upload[d].fileName # n /\ upload[d].fileName \in Names
    BY <1>a, <2>1 DEF StreamSound, OthersOn, LinkedPresent
  <2>3. upload'[d] = upload[d]
    BY <1>f, <2>1, <2>2
  <2>4. content'[upload[d].fileName] = content[upload[d].fileName]
    BY <1>h, <2>2
  <2>5. OthersOn(d, upload[d].fileName)' = {}
    <3>1. \A e \in Clients \ {d} : ~(upload[e].open /\ upload[e].fileName = upload[d].fileName)
      BY <2>1 DEF StreamSound, OthersOn
    <3>2. \A e \in Clients \ {d} : ~(upload'[e].open /\ upload'[e].fileName = upload[d].fileName)
      BY <1>b, <1>f, <1>g, <3>1
    <3> QED
      BY <2>3, <3>2 DEF OthersOn
  <2> QED
    BY <2>1, <2>3, <2>4, <2>5 DEF StreamSound
<1>4. SoundPathsClosed'
  <2> SUFFICES ASSUME NEW r \in finished, NEW d \in Clients, r.sound,
                      upload'[d].open
               PROVE  upload'[d].fileName # r.name
    BY <1>c DEF SoundPathsClosed
  <2>1. d # c
    BY <1>b, <1>f
  <2> QED
    BY <1>a, <1>g, <2>1 DEF SoundPathsClosed
<1>5. SoundUploadsStored'
  <2> SUFFICES ASSUME NEW r \in finished, r.sound
               PROVE  r.name \in files' /\ content'[r.name] = Blocks(r.by, r.size)
    BY <1>c DEF SoundUploadsStored
  <2>1. r.name # n /\ r.name \in Names
    BY <1>a DEF SoundPathsClosed, TypeOK, FinishedUpload
  <2> QED
    BY <1>a, <1>c, <1>h, <2>1 DEF SoundUploadsStored
<1> QED
  BY <1>1, <1>2, <1>3, <1>4, <1>5 DEF StoreInv

\* endUpload of an incomplete upload.
LEMMA EndUploadRejectsInv ==
    ASSUME StoreInv, NEW c \in Clients, EndUploadRejects(c)
    PROVE  StoreInv'
BY RemovePathInv DEF EndUploadRejects

\* closeClient on an upload, open or not.
LEMMA DropUploadInv ==
    ASSUME StoreInv, NEW c \in Clients, DropUpload(c)
    PROVE  StoreInv'
<1>1. CASE upload[c].open
  BY <1>1, RemovePathInv DEF DropUpload
<1>2. CASE ~upload[c].open
  <2>a. TypeOK /\ LinkedPresent /\ SoundStreams
    BY StoreInvParts
  <2>b. NoUpload \in UploadState /\ ~NoUpload.open
    BY DEF NoUpload, UploadState
  <2>c. /\ upload' = [upload EXCEPT ![c] = NoUpload]
        /\ files' = files /\ content' = content /\ sound' = sound
        /\ finished' = finished /\ abandoned' = abandoned
        /\ interrupted' = interrupted
    BY <1>2 DEF DropUpload, history
  <2>d. upload'[c] = NoUpload /\ \A d \in Clients \ {c} : upload'[d] = upload[d]
    BY <2>a, <2>c DEF TypeOK
  <2>1. TypeOK'
    BY <2>a, <2>b, <2>c DEF TypeOK
  <2>2. /\ LinkedPresent'
        /\ \A d \in sound \ {c} : StreamSound(d)'
        /\ \A r \in finished : r.sound =>
              /\ r.name \in files' /\ content'[r.name] = Blocks(r.by, r.size)
              /\ \A d \in Clients : upload'[d].open
                                      => upload'[d].fileName # r.name
    BY <2>b, <2>c, <2>d, OwnStep
  <2>3. c \notin sound
    BY <1>2, <2>a DEF SoundStreams, StreamSound
  <2>4. SoundStreams' /\ SoundPathsClosed' /\ SoundUploadsStored'
    BY <2>2, <2>3, <2>c DEF SoundStreams, SoundPathsClosed, SoundUploadsStored
  <2> QED
    BY <2>1, <2>2, <2>4 DEF StoreInv
<1> QED
  BY <1>1, <1>2

\* The end of the process: no stream is left.
LEMMA CrashStoreInv ==
    ASSUME StoreInv, CrashStore
    PROVE  StoreInv'
<1>a. TypeOK /\ LinkedPresent /\ SoundUploadsStored
  BY StoreInvParts
<1>b. NoUpload \in UploadState /\ ~NoUpload.open
  BY DEF NoUpload, UploadState
<1>c. /\ \A c \in Clients : upload'[c] = NoUpload
      /\ upload' = [c \in Clients |-> NoUpload]
      /\ interrupted' = interrupted \cup UNION {LeftBehind(c) : c \in Clients}
      /\ sound' = {} /\ files' = files /\ content' = content
      /\ finished' = finished /\ abandoned' = abandoned
  BY DEF CrashStore
<1>1. TypeOK'
  <2>1. \A c \in Clients : LeftBehind(c) \subseteq Names
    BY <1>a DEF LeftBehind, LinkedPresent
  <2>2. upload' \in [Clients -> UploadState]
    BY <1>b, <1>c
  <2> QED
    BY <1>a, <1>c, <2>1, <2>2 DEF TypeOK
<1>2. LinkedPresent' /\ SoundPathsClosed'
  BY <1>b, <1>c DEF LinkedPresent, SoundPathsClosed
<1>3. SoundStreams'
  BY <1>c DEF SoundStreams
<1>4. SoundUploadsStored'
  BY <1>a, <1>c DEF SoundUploadsStored
<1> QED
  BY <1>1, <1>2, <1>3, <1>4 DEF StoreInv

-----------------------------------------------------------------------------
(* The store as a whole.                                                    *)

LEMMA StoreInitInv ==
    FTInit => StoreInv
<1> SUFFICES ASSUME FTInit PROVE StoreInv
  OBVIOUS
<1>1. NoUpload \in UploadState /\ ~NoUpload.open
  BY DEF NoUpload, UploadState
<1>2. /\ \A c \in Clients : upload[c] = NoUpload
      /\ files = {} /\ sound = {} /\ finished = {}
  BY DEF FTInit
<1>3. content \in [Names -> Seq(Block)]
  BY EmptySeq DEF FTInit
<1>4. TypeOK
  BY <1>1, <1>3 DEF FTInit, TypeOK
<1> QED
  BY <1>1, <1>2, <1>4
     DEF StoreInv, LinkedPresent, SoundStreams, SoundPathsClosed,
         SoundUploadsStored

\* One step of the store, by whichever session, keeps the invariant.
LEMMA StoreNextInv ==
    StoreInv /\ [FTNext]_ftVars => StoreInv'
<1> SUFFICES ASSUME StoreInv, [FTNext]_ftVars PROVE StoreInv'
  OBVIOUS
<1>a. 0..MaxSize \subseteq Nat
  BY StoreAssumption
<1>1. ASSUME NEW c \in Clients, Begin(c) PROVE StoreInv'
  BY <1>1, <1>a, BeginUploadInv DEF Begin
<1>2. ASSUME NEW c \in Clients, BeginFails(c) PROVE StoreInv'
  BY <1>2, <1>a, BeginUploadFailsInv DEF BeginFails
<1>3. ASSUME NEW c \in Clients, WriteChunk(c) PROVE StoreInv'
  BY <1>3, WriteChunkInv
<1>4. ASSUME NEW c \in Clients, EndUploadAccepts(c) PROVE StoreInv'
  BY <1>4, EndUploadAcceptsInv
<1>5. ASSUME NEW c \in Clients, EndUploadRejects(c) PROVE StoreInv'
  BY <1>5, EndUploadRejectsInv
<1>6. ASSUME NEW c \in Clients, DropUpload(c) PROVE StoreInv'
  BY <1>6, DropUploadInv
<1>7. ASSUME NEW c \in Clients, CloseUpload(c) PROVE StoreInv'
  BY <1>7, CloseUploadInv
<1>8. CASE CrashStore
  BY <1>8, CrashStoreInv
<1>9. CASE UNCHANGED ftVars
  BY <1>9 DEF ftVars, StoreInv, TypeOK, LinkedPresent, SoundStreams,
              StreamSound, OthersOn, SoundPathsClosed, SoundUploadsStored
<1> QED
  BY <1>1, <1>2, <1>3, <1>4, <1>5, <1>6, <1>7, <1>8, <1>9 DEF FTNext

\* StoreInv holds throughout, whatever the sessions ask of the store and in
\* whatever order.
THEOREM StoreInvariant ==
    FTSpec => []StoreInv
<1>1. FTInit => StoreInv
  BY StoreInitInv
<1>2. StoreInv /\ [FTNext]_ftVars => StoreInv'
  BY StoreNextInv
<1> QED
  BY <1>1, <1>2, PTL DEF FTSpec

\* The store's variables keep their types.
THEOREM StoreTyped ==
    FTSpec => []TypeOK
<1>1. StoreInv => TypeOK
  BY DEF StoreInv
<1> QED
  BY <1>1, StoreInvariant, PTL

\* A sound upload that endUpload accepted is in the directory, block for block,
\* until an upload of the same name begins.
THEOREM SoundUploadsAreStored ==
    FTSpec => []SoundUploadsStored
<1>1. StoreInv => SoundUploadsStored
  BY DEF StoreInv
<1> QED
  BY <1>1, StoreInvariant, PTL

-----------------------------------------------------------------------------
(* What is left in the directory.                                           *)

\* No operation leaves a file that is neither finished nor being written,
\* except beginUpload over an open upload and the end of the server.
LEMMA StrayFilesStep ==
    StoreInv /\ StrayFilesExplained /\ [FTNext]_ftVars => StrayFilesExplained'
<1> SUFFICES ASSUME StoreInv, StrayFilesExplained, [FTNext]_ftVars,
                    NEW n \in files'
             PROVE  \/ \E r \in finished' : r.name = n
                    \/ \E c \in Clients : upload'[c].open /\ upload'[c].linked
                                           /\ upload'[c].fileName = n
                    \/ n \in abandoned'
                    \/ n \in interrupted'
  BY DEF StrayFilesExplained
<1>a. TypeOK /\ LinkedPresent
  BY StoreInvParts
<1>b. n \in files =>
        \/ \E r \in finished : r.name = n
        \/ \E c \in Clients : upload[c].open /\ upload[c].linked
                               /\ upload[c].fileName = n
        \/ n \in abandoned
        \/ n \in interrupted
  BY DEF StrayFilesExplained
<1> DEFINE Explained == \/ \E r \in finished' : r.name = n
                        \/ \E c \in Clients : upload'[c].open
                              /\ upload'[c].linked /\ upload'[c].fileName = n
                        \/ n \in abandoned'
                        \/ n \in interrupted'
<1>1. ASSUME NEW c \in Clients, Begin(c) PROVE Explained
  <2> PICK m \in Names, size \in 0..MaxSize : BeginUpload(c, m, size)
    BY <1>1 DEF Begin
  <2>1. /\ files' = files \cup {m}
        /\ upload' = [upload EXCEPT ![c] = Opened(c, m, size)]
        /\ finished' = {r \in finished : r.name # m}
        /\ abandoned' = (abandoned \cup LeftBehind(c)) \ {m}
        /\ interrupted' = interrupted \ {m}
    BY DEF BeginUpload
  <2>2. /\ upload'[c] = Opened(c, m, size)
        /\ \A d \in Clients \ {c} : upload'[d] = upload[d]
    BY <1>a, <2>1 DEF TypeOK
  <2>3. CASE n = m
    <3>1. upload'[c].open /\ upload'[c].linked /\ upload'[c].fileName = n
      BY <2>2, <2>3 DEF Opened, NoUpload
    <3> QED
      BY <3>1
  <2>4. CASE n # m
    BY <1>b, <2>1, <2>2, <2>4 DEF LeftBehind
  <2> QED
    BY <2>3, <2>4
<1>2. ASSUME NEW c \in Clients, BeginFails(c) PROVE Explained
  <2>1. /\ files' = files /\ finished' = finished
        /\ interrupted' = interrupted
        /\ abandoned' = abandoned \cup LeftBehind(c)
        /\ \A d \in Clients \ {c} : upload'[d] = upload[d]
    BY <1>a, <1>2 DEF BeginFails, BeginUploadFails, TypeOK
  <2> QED
    BY <1>b, <2>1 DEF LeftBehind
<1>3. ASSUME NEW c \in Clients, WriteChunk(c) PROVE Explained
  <2>1. upload[c] \in UploadState
    BY <1>a DEF TypeOK
  <2>2. /\ files' = files /\ finished' = finished
        /\ interrupted' = interrupted /\ abandoned' = abandoned
    BY <1>3 DEF WriteChunk
  <2>3. \E v \in UploadState : /\ upload' = [upload EXCEPT ![c] = v]
                                /\ v.open = upload[c].open
                                /\ v.linked = upload[c].linked
                                /\ v.fileName = upload[c].fileName
    <3>1. \/ upload' = [upload EXCEPT ![c] = Buffers(upload[c])]
          \/ upload' = [upload EXCEPT ![c] = HandsOver(upload[c])]
          \/ upload' = [upload EXCEPT ![c] = FailsToWrite(upload[c])]
      BY <1>3 DEF WriteChunk
    <3> QED
      BY <2>1, <3>1, ChunkStates
  <2>4. \A d \in Clients : /\ upload'[d].open = upload[d].open
                           /\ upload'[d].linked = upload[d].linked
                           /\ upload'[d].fileName = upload[d].fileName
    BY <1>a, <2>3 DEF TypeOK
  <2> QED
    BY <1>b, <2>2, <2>4
<1>4. ASSUME NEW c \in Clients, EndUploadAccepts(c) PROVE Explained
  <2> DEFINE m == upload[c].fileName
  <2>1. /\ files' = files
        /\ abandoned' = abandoned \ {m} /\ interrupted' = interrupted \ {m}
        /\ \A d \in Clients \ {c} : upload'[d] = upload[d]
    BY <1>a, <1>4 DEF EndUploadAccepts, TypeOK
  <2>2. /\ \E r \in finished' : r.name = m
        /\ \A r \in finished : r.name # m => r \in finished'
    <3>1. \E new : /\ new.name = m
                   /\ finished' = {r \in finished : r.name # m} \cup {new}
      <4> PICK ok \in DiskOutcomes :
            finished' = {r \in finished : r.name # m} \cup
                        {[name |-> m, by |-> c, size |-> upload[c].fileSize,
                          sound |-> c \in sound /\ ok]}
        BY <1>4 DEF EndUploadAccepts
      <4> WITNESS [name |-> m, by |-> c, size |-> upload[c].fileSize,
                   sound |-> c \in sound /\ ok]
      <4> QED
        OBVIOUS
    <3> QED
      BY <3>1
  <2> QED
    BY <1>b, <2>1, <2>2
<1>5. ASSUME NEW c \in Clients, NEW ok, RemovePath(c, Closed(c, ok))
      PROVE  Explained
  <2> DEFINE m == upload[c].fileName
  <2>1. /\ n \in files /\ n # m
        /\ finished' = finished /\ upload' = UnlinkedBut(c, m)
        /\ abandoned' = abandoned \ {m} /\ interrupted' = interrupted \ {m}
    BY <1>5 DEF RemovePath
  <2>2. \A d \in Clients : upload[d].fileName = n => upload'[d] = upload[d]
    BY <2>1 DEF UnlinkedBut
  <2> QED
    BY <1>b, <2>1, <2>2
<1>6. ASSUME NEW c \in Clients, EndUploadRejects(c) PROVE Explained
  BY <1>5, <1>6 DEF EndUploadRejects
<1>7. ASSUME NEW c \in Clients, DropUpload(c) PROVE Explained
  <2>1. CASE upload[c].open
    BY <1>5, <1>7, <2>1 DEF DropUpload
  <2>2. CASE ~upload[c].open
    <3>1. /\ files' = files /\ finished' = finished
          /\ interrupted' = interrupted /\ abandoned' = abandoned
          /\ \A d \in Clients \ {c} : upload'[d] = upload[d]
      BY <1>a, <1>7, <2>2 DEF DropUpload, history, TypeOK
    <3> QED
      BY <1>b, <2>2, <3>1
  <2> QED
    BY <2>1, <2>2
<1>8. ASSUME NEW c \in Clients, CloseUpload(c) PROVE Explained
  <2>1. /\ files' = files /\ finished' = finished
        /\ abandoned' = abandoned
        /\ interrupted' = interrupted \cup LeftBehind(c)
        /\ \A d \in Clients \ {c} : upload'[d] = upload[d]
    BY <1>a, <1>8 DEF CloseUpload, TypeOK
  <2> QED
    BY <1>b, <2>1 DEF LeftBehind
<1>9. CASE CrashStore
  <2>1. /\ files' = files /\ finished' = finished /\ abandoned' = abandoned
        /\ interrupted' =
              interrupted \cup UNION {LeftBehind(c) : c \in Clients}
    BY <1>9 DEF CrashStore
  <2> QED
    BY <1>b, <2>1 DEF LeftBehind
<1>10. CASE UNCHANGED ftVars
  BY <1>b, <1>10 DEF ftVars
<1> QED
  BY <1>1, <1>2, <1>3, <1>4, <1>6, <1>7, <1>8, <1>9, <1>10 DEF FTNext

\* Every file of the directory is explained at all times.
THEOREM StrayFilesAreExplained ==
    FTSpec => []StrayFilesExplained
<1>1. FTInit => StrayFilesExplained
  BY DEF FTInit, StrayFilesExplained
<1>2. StoreInv /\ StrayFilesExplained /\ [FTNext]_ftVars => StrayFilesExplained'
  BY StrayFilesStep
<1> QED
  BY <1>1, <1>2, StoreInvariant, PTL DEF FTSpec

=============================================================================
