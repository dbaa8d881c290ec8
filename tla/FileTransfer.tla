---------------------------- MODULE FileTransfer ----------------------------
(***************************************************************************)
(* The upload store of the chat server: FileTransferService and the        *)
(* FileUploadState that every session owns (Server/filetransfer.h).        *)
(*                                                                         *)
(* All sessions share one directory, and a file is found by its name       *)
(* alone: begin truncates the path, end and disconnect may remove it,      *)
(* whoever else has it open.  The model keeps what POSIX does then: a      *)
(* stream writes at its own position, a truncated file grows a hole below  *)
(* it, and a removed file stays writable through the streams that had it   *)
(* open but is no longer in the directory.                                 *)
(*                                                                         *)
(* A file is a sequence of blocks (one block = one chunk packet) and a     *)
(* block is the session that wrote it, which is all the properties need.   *)
(***************************************************************************)
EXTENDS Naturals, Sequences

CONSTANTS
    Clients,     \* the sessions, each with one FileUploadState
    Names,       \* the file names sanitizeFileName returns, without ""
    Dirs,        \* ... and without "." and "..", which lead to directories
    NoName,      \* the empty std::string
    Hole,        \* a block nobody wrote
    MaxSize,     \* bound: the largest size, in blocks, an upload declares
    MaxChunks,   \* bound: the chunks a session sends in one upload
    DiskErrors   \* whether open, write and close of a file may fail

ASSUME StoreAssumption ==
    /\ NoName \notin Names \cup Dirs
    /\ Dirs \cap Names = {}
    /\ Hole \notin Clients
    /\ MaxSize \in Nat
    /\ MaxChunks \in Nat
    /\ DiskErrors \in BOOLEAN

VARIABLES
    files,       \* the names present in the upload directory
    content,     \* the blocks of each file
    upload,      \* the FileUploadState of each session
    (* History, read by no action: what the store has promised so far.     *)
    sound,       \* sessions whose open upload met no other one on its path
                 \* and no disk error
    finished,    \* the uploads endUpload accepted, until the path is reused
    abandoned,   \* files whose writer turned to another upload
    interrupted  \* files whose writer was stopped with the server

history == <<sound, finished, abandoned, interrupted>>
ftVars == <<files, content, upload, sound, finished, abandoned, interrupted>>

Block == Clients \cup {Hole}

UploadState ==
    [open : BOOLEAN, fileName : Names \cup Dirs \cup {NoName}, fileSize : Nat,
     receivedSize : Nat,
     written : Nat,      \* blocks the stream has handed to the system
     buffered : Nat,     \* blocks still in the stream's buffer
     linked : BOOLEAN,   \* the stream's file is the one in the directory
     bad : BOOLEAN]      \* the stream's badbit

NoUpload ==
    [open |-> FALSE, fileName |-> NoName, fileSize |-> 0, receivedSize |-> 0,
     written |-> 0, buffered |-> 0, linked |-> FALSE, bad |-> FALSE]

FinishedUpload ==
    [name : Names, by : Clients, size : Nat, sound : BOOLEAN]

TypeOK ==
    /\ files \subseteq Names
    /\ content \in [Names -> Seq(Block)]
    /\ upload \in [Clients -> UploadState]
    /\ sound \subseteq Clients
    /\ finished \subseteq FinishedUpload
    /\ abandoned \subseteq Names
    /\ interrupted \subseteq Names

FTInit ==
    /\ files = {}
    /\ content = [n \in Names |-> <<>>]
    /\ upload = [c \in Clients |-> NoUpload]
    /\ sound = {}
    /\ finished = {}
    /\ abandoned = {}
    /\ interrupted = {}

-----------------------------------------------------------------------------
(* Streams on paths.                                                        *)

\* The outcomes of a system call on a file.
DiskOutcomes == IF DiskErrors THEN BOOLEAN ELSE {TRUE}

\* The sessions other than c that have path n open.
OthersOn(c, n) ==
    {d \in Clients \ {c} : upload[d].open /\ upload[d].fileName = n}

\* File s after m blocks of session c are written at position pos.
PutBlocks(s, pos, m, c) ==
    IF m = 0
    THEN s
    ELSE [i \in 1..(IF Len(s) > pos + m THEN Len(s) ELSE pos + m) |->
            IF i > pos /\ i <= pos + m THEN c
            ELSE IF i <= Len(s) THEN s[i] ELSE Hole]

\* The directory's contents after c's stream hands over m blocks.  ok is the
\* outcome of the write; a bad stream writes nothing, and the blocks of a
\* removed file are in no file of the directory.
Written(c, m, ok) ==
    LET u == upload[c] IN
    IF u.open /\ u.linked /\ ~u.bad /\ ok
    THEN [content EXCEPT ![u.fileName] = PutBlocks(@, u.written, m, c)]
    ELSE content

\* Mutant of Closed: what a close that does not flush would leave.
ClosedUnflushed(c, ok) == content

\* The contents after c's stream is closed, which flushes its buffer.
Closed(c, ok) == Written(c, upload[c].buffered, ok)

\* The upload states once path n is unlinked and session c's state is reset.
UnlinkedBut(c, n) ==
    [d \in Clients |->
        IF d = c THEN NoUpload
        ELSE IF upload[d].fileName = n THEN [upload[d] EXCEPT !.linked = FALSE]
        ELSE upload[d]]

\* std::filesystem::remove of the path of session c, whose stream is closed
\* and whose state is reset: the name leaves the directory, with all it held.
RemovePath(c, closedContent) ==
    LET n == upload[c].fileName IN
    /\ files' = files \ {n}
    /\ content' = [closedContent EXCEPT ![n] = <<>>]
    /\ upload' = UnlinkedBut(c, n)
    /\ sound' = sound \ {c}
    /\ abandoned' = abandoned \ {n}
    /\ interrupted' = interrupted \ {n}
    /\ UNCHANGED finished

\* The file that c's stream leaves in the directory when it is closed without
\* a verdict on the upload.
LeftBehind(c) ==
    IF upload[c].open /\ upload[c].linked THEN {upload[c].fileName} ELSE {}

-----------------------------------------------------------------------------
(* The operations of FileTransferService.                                   *)

\* Mutant of Opened: the count of the previous upload is not reset.
OpenedKeepingCount(c, n, size) ==
    [NoUpload EXCEPT !.open = TRUE, !.fileName = n, !.fileSize = size,
                     !.linked = TRUE,
                     !.receivedSize = upload[c].receivedSize]

\* The upload state that beginUpload leaves once the path is open.
Opened(c, n, size) ==
    [NoUpload EXCEPT !.open = TRUE, !.fileName = n, !.fileSize = size,
                     !.linked = TRUE]

\* beginUpload, up to a successful open.  The stream the session had open is
\* closed, its file stays; the new path is created or truncated.
BeginUpload(c, n, size) ==
    \E ok \in DiskOutcomes :
        /\ files' = files \cup {n}
        /\ content' = [Closed(c, ok) EXCEPT ![n] = <<>>]
        /\ upload' = [upload EXCEPT ![c] = Opened(c, n, size)]
        /\ sound' = IF OthersOn(c, n) = {}
                    THEN sound \cup {c}
                    ELSE sound \ ({c} \cup OthersOn(c, n))
        /\ finished' = {r \in finished : r.name # n}
        /\ abandoned' = (abandoned \cup LeftBehind(c)) \ {n}
        /\ interrupted' = interrupted \ {n}

\* beginUpload when the path cannot be opened, as that of a directory never
\* can: the state already names the new file, but no stream is open.
BeginUploadFails(c, n, size) ==
    /\ DiskErrors \/ n \in Dirs
    /\ \E ok \in DiskOutcomes : content' = Closed(c, ok)
    /\ upload' = [upload EXCEPT ![c] =
                    [NoUpload EXCEPT !.fileName = n, !.fileSize = size]]
    /\ sound' = sound \ {c}
    /\ abandoned' = abandoned \cup LeftBehind(c)
    /\ UNCHANGED <<files, finished, interrupted>>

\* The upload state after a chunk that stays in the stream's buffer, ...
Buffers(u) == [u EXCEPT !.receivedSize = @ + 1, !.buffered = @ + 1]

\* ... one that makes the stream hand over all it holds, ...
HandsOver(u) ==
    [u EXCEPT !.receivedSize = @ + 1, !.written = @ + u.buffered + 1,
              !.buffered = 0]

\* ... and one whose write fails.
FailsToWrite(u) == [u EXCEPT !.receivedSize = @ + 1, !.bad = TRUE]

\* writeChunk of one block.  The stream may keep the block in its buffer or
\* hand over everything it holds; receivedSize counts the block either way,
\* also when the write fails.
WriteChunk(c) ==
    LET u == upload[c] IN
    /\ u.open
    /\ u.receivedSize < MaxChunks
    /\ \/ /\ ~u.bad
          /\ upload' = [upload EXCEPT ![c] = Buffers(u)]
          /\ UNCHANGED <<content, sound>>
       \/ \E ok \in DiskOutcomes :
          /\ content' = Written(c, u.buffered + 1, ok)
          /\ upload' = [upload EXCEPT ![c] =
                IF ok /\ ~u.bad THEN HandsOver(u) ELSE FailsToWrite(u)]
          /\ sound' = IF ok THEN sound ELSE sound \ {c}
    /\ UNCHANGED <<files, finished, abandoned, interrupted>>

\* The test endUpload makes: a count of bytes received, not of bytes stored.
Complete(c) == upload[c].receivedSize = upload[c].fileSize

\* endUpload of a complete upload.
EndUploadAccepts(c) ==
    LET n == upload[c].fileName IN
    /\ upload[c].open
    /\ Complete(c)
    /\ \E ok \in DiskOutcomes :
        /\ content' = Closed(c, ok)
        /\ finished' = {r \in finished : r.name # n} \cup
                       {[name |-> n, by |-> c, size |-> upload[c].fileSize,
                         sound |-> c \in sound /\ ok]}
    /\ upload' = [upload EXCEPT ![c] = NoUpload]
    /\ sound' = sound \ {c}
    /\ abandoned' = abandoned \ {n}
    /\ interrupted' = interrupted \ {n}
    /\ UNCHANGED files

\* endUpload of an incomplete upload: the path is removed.
EndUploadRejects(c) ==
    /\ upload[c].open
    /\ ~Complete(c)
    /\ \E ok \in DiskOutcomes : RemovePath(c, Closed(c, ok))

\* Mutant of DropUpload: the stream is closed and its file stays.
DropUploadKeepingFile(c) ==
    /\ \E ok \in DiskOutcomes : content' = Closed(c, ok)
    /\ upload' = [upload EXCEPT ![c] = NoUpload]
    /\ sound' = sound \ {c}
    /\ UNCHANGED <<files, finished, abandoned, interrupted>>

\* What closeClient does to the upload of a session it erases: an open stream
\* is closed and removeIncompleteUpload removes its path.
DropUpload(c) ==
    IF upload[c].open
    THEN \E ok \in DiskOutcomes : RemovePath(c, Closed(c, ok))
    ELSE /\ upload' = [upload EXCEPT ![c] = NoUpload]
         /\ UNCHANGED <<files, content, history>>

\* What cleanup does to the upload of one session: close, nothing else.
CloseUpload(c) ==
    /\ \E ok \in DiskOutcomes : content' = Closed(c, ok)
    /\ upload' = [upload EXCEPT ![c] = NoUpload]
    /\ sound' = sound \ {c}
    /\ interrupted' = interrupted \cup LeftBehind(c)
    /\ UNCHANGED <<files, finished, abandoned>>

\* The server process is killed: the streams' buffers are lost, the upload
\* directory is what the next start finds.
CrashStore ==
    /\ upload' = [c \in Clients |-> NoUpload]
    /\ sound' = {}
    /\ interrupted' = interrupted \cup UNION {LeftBehind(c) : c \in Clients}
    /\ UNCHANGED <<files, content, finished, abandoned>>

-----------------------------------------------------------------------------
(* The store driven by sessions in any order.                               *)

\* An upload begins under a name and a size from the packet.
Begin(c) == \E n \in Names, size \in 0..MaxSize : BeginUpload(c, n, size)

BeginFails(c) ==
    \E n \in Names \cup Dirs, size \in 0..MaxSize : BeginUploadFails(c, n, size)

FTNext ==
    \/ \E c \in Clients :
        \/ Begin(c)
        \/ BeginFails(c)
        \/ WriteChunk(c)
        \/ EndUploadAccepts(c)
        \/ EndUploadRejects(c)
        \/ DropUpload(c)
        \/ CloseUpload(c)
    \/ CrashStore

FTSpec == FTInit /\ [][FTNext]_ftVars

-----------------------------------------------------------------------------
(* Properties.                                                              *)

\* k blocks, all of them written by session c.
Blocks(c, k) == [i \in 1..k |-> c]

\* An upload that endUpload accepted is in the directory, block for block as
\* its session sent it, provided no other session had its path open in the
\* meantime and no write failed.  It stays so until a new upload of the same
\* name begins, whatever the other sessions do, and over restarts.
SoundUploadsStored ==
    \A r \in finished :
        r.sound => /\ r.name \in files
                   /\ content[r.name] = Blocks(r.by, r.size)

\* Why that is so.  A sound upload is alone on a path that its stream still
\* reaches, and all it received is in the file or in the buffer ...
StreamSound(c) ==
    /\ upload[c].open /\ upload[c].linked /\ ~upload[c].bad
    /\ OthersOn(c, upload[c].fileName) = {}
    /\ content[upload[c].fileName] = Blocks(c, upload[c].written)
    /\ upload[c].receivedSize = upload[c].written + upload[c].buffered

SoundStreams == \A c \in sound : StreamSound(c)

\* ... and nobody has the path of a sound finished upload open, who could
\* write to it or remove it: every begin on the path ends the record.
SoundPathsClosed ==
    \A r \in finished, c \in Clients :
        r.sound /\ upload[c].open => upload[c].fileName # r.name

\* An open stream has a name, and the name is in the directory unless the
\* path was removed under the stream.
LinkedPresent ==
    \A c \in Clients :
        upload[c].open => /\ upload[c].fileName \in Names
                          /\ upload[c].linked => upload[c].fileName \in files

\* The inductive invariant behind SoundUploadsStored.
StoreInv ==
    /\ TypeOK
    /\ LinkedPresent
    /\ SoundStreams
    /\ SoundPathsClosed
    /\ SoundUploadsStored

\* A file in the directory was accepted by endUpload, or is open in a session
\* that has yet to finish, or was left there by one of the two ways to leave
\* one: beginUpload while another upload is open, and the end of the server.
\* Disconnects and rejected uploads leave nothing behind.
StrayFilesExplained ==
    \A n \in files :
        \/ \E r \in finished : r.name = n
        \/ \E c \in Clients : upload[c].open /\ upload[c].linked
                               /\ upload[c].fileName = n
        \/ n \in abandoned
        \/ n \in interrupted

\* A file that endUpload accepted has the size its session declared.
FinishedIsWhole ==
    \A r \in finished : r.name \in files => Len(content[r.name]) = r.size

\* Only unfinished uploads are removed: what endUpload accepted is there
\* until its name is uploaded again.
FinishedIsPresent == \A r \in finished : r.name \in files

=============================================================================
