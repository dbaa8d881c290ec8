------------------------------ MODULE ChatClient ------------------------------
(***************************************************************************)
(* The Qt client (Client/mainwindow.cpp) and the one session it has at the *)
(* server, over a connection that may go away at any time.  The window's   *)
(* slots run one at a time, but the file dialogs of two of them run the    *)
(* event loop inside: while one is open packets still arrive and the       *)
(* connection may still be lost.                                           *)
(*                                                                         *)
(* The server is here only what the client can see of it: ChatServer says  *)
(* what its handlers do.  Of what it sends only what changes the client's  *)
(* logic is kept; chat and system lines are not.                           *)
(***************************************************************************)
EXTENDS Naturals, Sequences, SequencesExt

CONSTANTS
    Users,       \* names to log in under
    NoUser,      \* the empty name
    Files,       \* files the server has
    Paths,       \* places where the user saves downloads
    NoPath,      \* the name of a QFile that was given none
    NoFile,      \* what a path holds where there is no file
    MaxClicks,   \* bound: slots that put packets on the connection
    MaxConns,    \* bound: connections that are made
    DiskErrors,  \* whether the server may fail to open or to read a file
    LocalErrors  \* whether the client may fail to write what it receives

CONSTANT FileSize(_)   \* how many chunks each file has

ASSUME ClientAssumption ==
    /\ NoUser \notin Users
    /\ NoPath \notin Paths
    /\ {"none", "upload"} \cap Files = {}
    /\ \A f \in Files : FileSize(f) \in Nat
    /\ MaxClicks \in Nat
    /\ MaxConns \in Nat
    /\ DiskErrors \in BOOLEAN
    /\ LocalErrors \in BOOLEAN

VARIABLES
    (* MainWindow. *)
    connected,   \* whether m_socket is in ConnectedState
    mUsername,   \* m_username
    dialog,      \* the modal dialog that is open
    shown,       \* the files of listWidget_files
    path,        \* the name of m_downloadFile
    open,        \* whether it is open
    size,        \* m_downloadSize
    received,    \* m_downloadReceived
    local,       \* what the client's disk holds at each path
    (* The connection and the session at its other end. *)
    up,          \* packets on the way to the server
    down,        \* packets on the way to the client
    sessionName, \* ClientSession::username
    (* History. *)
    clicks, conns,
    tainted,     \* the paths last chosen while another download was under way,
                 \* or that a write has failed on since
    short,       \* the paths whose download was reported as incomplete
    unasked,     \* whether the file is open for a download that nobody was asked for
    report       \* the file just reported as completely downloaded

downloadVars == <<path, open, size, received, local, tainted, short, unasked>>
linkVars == <<up, down, sessionName>>
windowVars == <<connected, mUsername, dialog, shown>>
vars == <<windowVars, downloadVars, linkVars, clicks, conns, report>>

Chunks(f) == [i \in 1..FileSize(f) |-> <<f, i>>]
Dialogs == {"none", "upload"} \cup Files
NoReport == "none"

-----------------------------------------------------------------------------
(* Packets.                                                                 *)

Login(u) == [cmd |-> "Login", user |-> u]
Chat == [cmd |-> "Chat"]
UploadBegin == [cmd |-> "UploadBegin"]
UploadChunk == [cmd |-> "UploadChunk"]
UploadEnd == [cmd |-> "UploadEnd"]
DownloadRequest(f) == [cmd |-> "DownloadRequest", file |-> f]

LoginOk(u) == [cmd |-> "LoginOk", user |-> u]
FileList == [cmd |-> "FileList"]
Error == [cmd |-> "Error"]
DownloadBegin(f) == [cmd |-> "DownloadBegin", size |-> FileSize(f)]
DownloadChunk(c) == [cmd |-> "DownloadChunk", data |-> c]
DownloadEnd(f) == [cmd |-> "DownloadEnd", file |-> f]

\* The packets that the server accepts from a session with a name only.
IsGated(p) == p.cmd \in {"Chat", "UploadBegin", "DownloadRequest"}

\* Whether a request to download, or a part of its answer, is on the way.
IsDownload(p) ==
    p.cmd \in {"DownloadRequest", "DownloadBegin", "DownloadChunk", "DownloadEnd"}
Downloading == \E p \in Range(up) \cup Range(down) : IsDownload(p)

\* Whether a request waits for the server, and what ends a download, for the
\* client.
Requested == \E p \in Range(up) : p.cmd = "DownloadRequest"
Ending == \E p \in Range(down) : p.cmd \in {"DownloadEnd", "Error"}

TypeOK ==
    /\ connected \in BOOLEAN
    /\ mUsername \in Users \cup {NoUser}
    /\ dialog \in Dialogs
    /\ shown \subseteq Files
    /\ path \in Paths \cup {NoPath}
    /\ open \in BOOLEAN
    /\ size = 0 \/ \E f \in Files : size \in 0..FileSize(f)
    /\ received = 0 \/ \E f \in Files : received \in 0..FileSize(f)
    /\ DOMAIN local = Paths
    /\ sessionName \in Users \cup {NoUser}
    /\ clicks \in 0..MaxClicks
    /\ conns \in 0..MaxConns
    /\ tainted \subseteq Paths
    /\ short \subseteq Paths
    /\ unasked \in BOOLEAN
    /\ report \in Files \cup {NoReport}

Init ==
    /\ connected = FALSE
    /\ mUsername = NoUser
    /\ dialog = "none"
    /\ shown = {}
    /\ path = NoPath
    /\ open = FALSE
    /\ size = 0
    /\ received = 0
    /\ local = [p \in Paths |-> NoFile]
    /\ up = <<>>
    /\ down = <<>>
    /\ sessionName = NoUser
    /\ clicks = 0
    /\ conns = 0
    /\ tainted = {}
    /\ short = {}
    /\ unasked = FALSE
    /\ report = NoReport

-----------------------------------------------------------------------------
(* The connection.                                                          *)

\* sendPacket, for each of ps: nothing is sent when there is no connection.
SendPackets(ps) ==
    /\ clicks < MaxClicks
    /\ clicks' = clicks + 1
    /\ up' = IF connected THEN up \o ps ELSE up

\* What closeTransferFiles leaves on disk: a download that got a part of what
\* was announced is removed.
Incomplete == open /\ size > 0 /\ received < size

\* Mutant of KeptLocal: the incomplete file stays.
KeptAll == local

KeptLocal == IF Incomplete THEN [local EXCEPT ![path] = NoFile] ELSE local

CloseTransferFiles ==
    /\ open' = FALSE
    /\ local' = KeptLocal
    /\ size' = 0
    /\ received' = 0
    /\ unasked' = FALSE
    /\ UNCHANGED <<path, tainted, short>>

\* connectToHost succeeds; the server greets with its file list.
Connect ==
    /\ dialog = "none"
    /\ ~connected
    /\ conns < MaxConns
    /\ connected' = TRUE
    /\ conns' = conns + 1
    /\ down' = <<FileList>>
    /\ report' = NoReport
    /\ UNCHANGED <<mUsername, dialog, shown, downloadVars, up, sessionName,
                   clicks>>

\* Mutant of Disconnect: m_username is kept.
DisconnectKeepingName ==
    /\ connected
    /\ connected' = FALSE
    /\ shown' = {}
    /\ CloseTransferFiles
    /\ up' = <<>>
    /\ down' = <<>>
    /\ sessionName' = NoUser
    /\ report' = NoReport
    /\ UNCHANGED <<mUsername, dialog, clicks, conns>>

\* The connection is lost, with what was on the way: onDisconnected, even
\* while a dialog is open.  At the server the session is erased.
Disconnect ==
    /\ connected
    /\ connected' = FALSE
    /\ mUsername' = NoUser
    /\ shown' = {}
    /\ CloseTransferFiles
    /\ up' = <<>>
    /\ down' = <<>>
    /\ sessionName' = NoUser
    /\ report' = NoReport
    /\ UNCHANGED <<dialog, clicks, conns>>

-----------------------------------------------------------------------------
(* Slots of the buttons.                                                    *)

EnsureLoggedIn == connected /\ mUsername # NoUser

ClickLogin(u) ==
    /\ dialog = "none"
    /\ connected
    /\ SendPackets(<<Login(u)>>)
    /\ report' = NoReport
    /\ UNCHANGED <<windowVars, downloadVars, down, sessionName, conns>>

ClickSendMsg ==
    /\ dialog = "none"
    /\ EnsureLoggedIn
    /\ SendPackets(<<Chat>>)
    /\ report' = NoReport
    /\ UNCHANGED <<windowVars, downloadVars, down, sessionName, conns>>

\* A button that asks for a file; for a download the file it is for was read
\* from the list before.
OpenDialog(d) ==
    /\ dialog = "none"
    /\ EnsureLoggedIn
    /\ dialog' = d
    /\ report' = NoReport
    /\ UNCHANGED <<connected, mUsername, shown, downloadVars, linkVars, clicks,
                   conns>>

ClickSendFile == OpenDialog("upload")
ClickDownloadFile(f) == f \in shown /\ OpenDialog(f)

\* The user cancels, or the local file cannot be read.
CancelDialog ==
    /\ dialog # "none"
    /\ dialog' = "none"
    /\ report' = NoReport
    /\ UNCHANGED <<connected, mUsername, shown, downloadVars, linkVars, clicks,
                   conns>>

\* The rest of on_btn_sendFile_clicked: the whole upload is written at once,
\* up to where reading the local file fails.
UploadChosen ==
    /\ dialog = "upload"
    /\ dialog' = "none"
    /\ \/ SendPackets(<<UploadBegin, UploadChunk, UploadEnd>>)
       \/ SendPackets(<<UploadBegin>>)
    /\ report' = NoReport
    /\ UNCHANGED <<connected, mUsername, shown, downloadVars, down, sessionName,
                   conns>>

\* The rest of on_btn_downloadFile_clicked: m_downloadFile becomes the new one.
\* Where the connection went away under the dialog, the file is created all the
\* same, and sendPacket drops the request.
SaveChosen(p) ==
    /\ dialog \in Files
    /\ dialog' = "none"
    /\ path' = p
    /\ open' = TRUE
    /\ local' = [KeptLocal EXCEPT ![p] = <<>>]
    /\ size' = 0
    /\ received' = 0
    /\ tainted' = IF Downloading THEN tainted \cup {p} ELSE tainted \ {p}
    /\ short' = short \ {p}
    /\ unasked' = ~connected
    /\ SendPackets(<<DownloadRequest(dialog)>>)
    /\ report' = NoReport
    /\ UNCHANGED <<connected, mUsername, shown, down, sessionName, conns>>

\* The same, where the local file cannot be created.
SaveFails(p) ==
    /\ dialog \in Files
    /\ dialog' = "none"
    /\ path' = p
    /\ open' = FALSE
    /\ local' = KeptLocal
    /\ size' = 0
    /\ received' = 0
    /\ tainted' = IF Downloading THEN tainted \cup {p} ELSE tainted
    /\ unasked' = FALSE
    /\ report' = NoReport
    /\ UNCHANGED <<connected, mUsername, shown, linkVars, clicks, conns, short>>

-----------------------------------------------------------------------------
(* The server's answers.                                                    *)

\* The server handles the next packet and answers with replies.
Answer(replies) ==
    /\ up' = Tail(up)
    /\ down' = down \o replies
    /\ UNCHANGED <<windowVars, downloadVars, clicks, conns, report>>

\* A name that is accepted, or is not.
AnswerLogin ==
    /\ up # <<>> /\ Head(up).cmd = "Login"
    /\ \/ /\ sessionName' = Head(up).user
          /\ Answer(<<LoginOk(Head(up).user), FileList>>)
       \/ UNCHANGED sessionName /\ Answer(<<Error>>)

\* Chat and uploads are answered with an error, with a file list, or with
\* nothing the client's logic depends on.
AnswerOther ==
    /\ up # <<>> /\ Head(up).cmd \in {"Chat", "UploadBegin", "UploadChunk", "UploadEnd"}
    /\ \E replies \in {<<>>, <<Error>>, <<FileList>>} : Answer(replies)
    /\ UNCHANGED sessionName

\* Mutant of CannotOpen: nothing follows.
CannotOpenQuietly(f) == <<DownloadBegin(f)>>

\* What is sent of a file that is announced and then cannot be opened.
CannotOpen(f) == <<DownloadBegin(f), Error>>

\* A download is answered in one go, or with an error.
AnswerDownload ==
    /\ up # <<>> /\ Head(up).cmd = "DownloadRequest"
    /\ LET f == Head(up).file
           AnswerUpTo(n) ==
             Answer(<<DownloadBegin(f)>>
                    \o [i \in 1..n |-> DownloadChunk(Chunks(f)[i])]
                    \o <<DownloadEnd(f)>>)
       IN  \/ Answer(<<Error>>)
           \/ AnswerUpTo(FileSize(f))
           \/ DiskErrors /\ Answer(CannotOpen(f))
           \/ DiskErrors /\ \E n \in 0..FileSize(f) : AnswerUpTo(n)
    /\ UNCHANGED sessionName

Serve == AnswerLogin \/ AnswerOther \/ AnswerDownload

-----------------------------------------------------------------------------
(* processPacket.                                                           *)

\* The next packet of the connection is taken.
Takes(cmd) ==
    /\ down # <<>>
    /\ Head(down).cmd = cmd
    /\ down' = Tail(down)
    /\ UNCHANGED <<connected, dialog, up, sessionName, clicks, conns>>

\* Mutant of TakeLoginOk: a session that has a name keeps it.
TakeFirstLoginOk ==
    /\ Takes("LoginOk")
    /\ mUsername' = IF mUsername = NoUser THEN Head(down).user ELSE mUsername
    /\ report' = NoReport
    /\ UNCHANGED <<shown, downloadVars>>

TakeLoginOk ==
    /\ Takes("LoginOk")
    /\ mUsername' = Head(down).user
    /\ report' = NoReport
    /\ UNCHANGED <<shown, downloadVars>>

TakeFileList ==
    /\ Takes("FileList")
    /\ shown' = Files
    /\ report' = NoReport
    /\ UNCHANGED <<mUsername, downloadVars>>

TakeDownloadBegin ==
    /\ Takes("DownloadBegin")
    /\ size' = Head(down).size
    /\ received' = 0
    /\ report' = NoReport
    /\ UNCHANGED <<mUsername, shown, path, open, local, tainted, short, unasked>>

\* Mutant of TakeDownloadChunk: the chunk is counted twice.
TakeDownloadChunkTwice ==
    /\ Takes("DownloadChunk")
    /\ IF open
       THEN /\ local' = [local EXCEPT ![path] = Append(@, Head(down).data)]
            /\ received' = received + 2
       ELSE UNCHANGED <<local, received>>
    /\ report' = NoReport
    /\ UNCHANGED <<mUsername, shown, path, open, size, tainted, short, unasked>>

\* A chunk counts as received whether writing it succeeds or not.
TakeDownloadChunk ==
    /\ Takes("DownloadChunk")
    /\ received' = IF open THEN received + 1 ELSE received
    /\ \/ /\ open
          /\ local' = [local EXCEPT ![path] = Append(@, Head(down).data)]
          /\ UNCHANGED tainted
       \/ /\ open /\ LocalErrors
          /\ tainted' = tainted \cup {path}
          /\ UNCHANGED local
       \/ /\ ~open
          /\ UNCHANGED <<local, tainted>>
    /\ report' = NoReport
    /\ UNCHANGED <<mUsername, shown, path, open, size, short, unasked>>

\* Mutant of Completed: a download that got too little passes.
CompletedOrLess == size = 0 \/ received <= size

\* Whether "Download completed" is what the end of a download prints.
Completed == size = 0 \/ received = size

\* What the user is told: the file is complete, or "Download incomplete".
Report(f) ==
    IF Completed
    THEN report' = f /\ UNCHANGED short
    ELSE report' = NoReport /\ short' = short \cup ({path} \cap Paths)

\* Mutant of TakeDownloadEnd: the file stays open.
TakeDownloadEndOpen ==
    /\ Takes("DownloadEnd")
    /\ Report(Head(down).file)
    /\ size' = 0
    /\ received' = 0
    /\ UNCHANGED <<mUsername, shown, path, open, local, tainted, unasked>>

TakeDownloadEnd ==
    /\ Takes("DownloadEnd")
    /\ open' = FALSE
    /\ Report(Head(down).file)
    /\ size' = 0
    /\ received' = 0
    /\ unasked' = FALSE
    /\ UNCHANGED <<mUsername, shown, path, local, tainted>>

\* Any error of the server ends the download, whatever it is about.
TakeError ==
    /\ Takes("Error")
    /\ IF open THEN CloseTransferFiles ELSE UNCHANGED downloadVars
    /\ report' = NoReport
    /\ UNCHANGED <<mUsername, shown>>

ProcessPacket ==
    \/ TakeLoginOk \/ TakeFileList \/ TakeError
    \/ TakeDownloadBegin \/ TakeDownloadChunk \/ TakeDownloadEnd

-----------------------------------------------------------------------------

Next ==
    \/ Connect \/ Disconnect
    \/ \E u \in Users : ClickLogin(u)
    \/ ClickSendMsg \/ ClickSendFile \/ UploadChosen \/ CancelDialog
    \/ \E f \in Files : ClickDownloadFile(f)
    \/ \E p \in Paths : SaveChosen(p) \/ SaveFails(p)
    \/ Serve
    \/ ProcessPacket

\* The client's event loop runs; users, networks and the server, which another
\* client may keep from answering, do as they like.
Fairness == WF_vars(ProcessPacket)

Spec == Init /\ [][Next]_vars /\ Fairness

-----------------------------------------------------------------------------
(* Properties.                                                              *)

\* What only a logged-in user may send never reaches a session without a name,
\* across reconnections, renamings and dialogs that outlive their connection:
\* ensureLoggedIn agrees with the server's checks.
GatedWhenLoggedIn ==
    /\ mUsername # NoUser => sessionName # NoUser
    /\ (\E p \in Range(up) : IsGated(p)) => sessionName # NoUser

\* Once the client has taken the answers on the way it goes by the name the
\* server knows it by.
NamesAgree ==
    LET oks == {i \in DOMAIN down : down[i].cmd = "LoginOk"}
    IN  IF oks = {} THEN sessionName = mUsername
        ELSE \E i \in oks : (\A j \in oks : j <= i) /\ sessionName = down[i].user

\* "Download completed" is true: unless the path was chosen while another
\* download was under way, or the disk failed, it holds the whole file of the
\* server; what went wrong in a download harms no later one.
CompletedIsWhole ==
    report # NoReport /\ path \notin tainted => local[path] = Chunks(report)

\* However a download ends, by its end, an error or a lost connection, nothing
\* partial stays on disk: the file is whole, or empty, or removed, or the user
\* was told that it is incomplete.
NothingPartialStays ==
    \A p \in Paths \ (tainted \cup short) :
        ~(open /\ p = path) =>
            local[p] \in {NoFile, <<>>} \cup {Chunks(f) : f \in Files}

\* A download that the server has been asked for, on this connection, either
\* waits to be answered or has its end on the way, whatever else was asked for
\* in between.  The file of a download that was chosen in a dialog which
\* outlived its connection waits for nothing: nobody was asked for it.
EndOnTheWay == open => unasked \/ Requested \/ Ending

\* Once the server has answered, a download comes to an end, and its file is
\* closed.
DownloadEnds == open /\ ~unasked /\ ~Requested ~> ~open

=============================================================================
