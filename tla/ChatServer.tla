----------------------------- MODULE ChatServer -----------------------------
(***************************************************************************)
(* The chat server over its sessions: m_clients and the packet handlers of *)
(* Server/chatserver.cpp, with the upload store of FileTransfer under them.*)
(*                                                                         *)
(* The server is one thread, and a handler runs to its end before the next *)
(* packet is looked at, so each handler is one action.  A packet sent to a *)
(* connection is modelled by what it makes true of that connection: the    *)
(* last user list and file list sent to it (the client shows the last one  *)
(* it got), the chats sent to it in order, the last download.  Packets of  *)
(* one connection arrive in the order of the sends, so these are what the  *)
(* client shows once it has read everything.  System messages and error    *)
(* answers, which only add a line to the log, are left out: a refused      *)
(* packet is a step that changes nothing.                                  *)
(***************************************************************************)
EXTENDS FileTransfer

CONSTANTS
    Users,       \* the names people log in under
    NoUser,      \* the empty std::string: a session that has not logged in
    ChatCounts   \* bound: how many chats a connection may be sent; Nat for any

ASSUME ServerAssumption ==
    /\ NoUser \notin Users
    /\ ChatCounts \subseteq Nat

VARIABLES
    running,    \* run() is in its loop; FALSE while cleanup() is at work
    connected,  \* the keys of m_clients
    username,   \* ClientSession::username
    userList,   \* the last CmdUserList sent to each connection
    fileList,   \* the last CmdFileList sent to each connection
    heard,      \* the senders of the CmdChatMessages sent to each connection
    download    \* what the last handler, if a download, sent to the client

sessionVars == <<connected, username, userList, fileList, heard>>
serverVars == <<running, connected, username, userList, fileList, heard,
                download>>
vars == <<ftVars, serverVars>>

\* What CmdFileDownloadBegin announced, the chunks sent, whether
\* CmdFileDownloadEnd followed, and (history) whether the file could be read.
Download ==
    [name : Names \cup {NoName}, size : Nat, data : Seq(Block), ended : BOOLEAN,
     reads : BOOLEAN]

NoDownload ==
    [name |-> NoName, size |-> 0, data |-> <<>>, ended |-> FALSE,
     reads |-> FALSE]

ServerTypeOK ==
    /\ TypeOK
    /\ running \in BOOLEAN
    /\ connected \subseteq Clients
    /\ username \in [Clients -> Users \cup {NoUser}]
    /\ userList \in [Clients -> SUBSET Users]
    /\ fileList \in [Clients -> SUBSET Names]
    /\ heard \in [Clients -> Seq(Users)]
    /\ download \in Download

Init ==
    /\ FTInit
    /\ running = TRUE
    /\ connected = {}
    /\ username = [c \in Clients |-> NoUser]
    /\ userList = [c \in Clients |-> {}]
    /\ fileList = [c \in Clients |-> {}]
    /\ heard = [c \in Clients |-> <<>>]
    /\ download = NoDownload

-----------------------------------------------------------------------------
(* What the server knows and sends.                                         *)

\* A packet of session c is being handled.
Serving(c) == running /\ c \in connected

LoggedIn(c) == username[c] # NoUser

\* Mutant of UsernameExists: a rename is not checked.
UsernameExistsAtLogin(u, c) ==
    ~LoggedIn(c) /\ \E d \in connected \ {c} : username[d] = u

\* usernameExists(u, c).
UsernameExists(u, c) == \E d \in connected \ {c} : username[d] = u

\* Mutant of UsersOf: sessions that have not logged in are listed too.
UsersOfAll(s, f) == {f[c] : c \in s}

\* The users of sendUserList, from the sessions in s with the names in f.
UsersOf(s, f) == {f[c] : c \in s} \ {NoUser}

\* Mutant of Audience: only sessions that have logged in.
LoggedInAudience == {c \in connected : LoggedIn(c)}

\* The sessions broadcastPacket reaches: all of them.
Audience == connected

\* A broadcast of packet content x to the sessions in s: what each
\* connection was sent last.
SendTo(s, view, x) == [c \in Clients |-> IF c \in s THEN x ELSE view[c]]

\* What a connection was sent is forgotten with its socket.
Forget(c) ==
    /\ fileList' = [fileList EXCEPT ![c] = {}]
    /\ heard' = [heard EXCEPT ![c] = <<>>]

-----------------------------------------------------------------------------
(* Connections.                                                             *)

\* One round of handleNewConnections: a fresh session under the descriptor,
\* whatever that descriptor was used for before, and the files there are.
Accept(c) ==
    /\ running
    /\ c \notin connected
    /\ connected' = connected \cup {c}
    /\ fileList' = [fileList EXCEPT ![c] = files]
    /\ download' = NoDownload
    /\ UNCHANGED <<ftVars, running, username, userList, heard>>

\* Mutant of ListsAfter: the list is made before the session is erased.
ListsBefore(c) ==
    LET erased == [userList EXCEPT ![c] = {}] IN
    IF LoggedIn(c)
    THEN SendTo(Audience \ {c}, erased, UsersOf(connected, username))
    ELSE erased

\* The user lists once session c is gone: the others are sent one without c,
\* if c had a name.
ListsAfter(c) ==
    LET erased == [userList EXCEPT ![c] = {}] IN
    IF LoggedIn(c)
    THEN SendTo(Audience \ {c}, erased, UsersOf(connected \ {c}, username))
    ELSE erased

\* closeClient: the upload is dropped and the session erased; the others are
\* not sent a file list, whether or not a file went with it.
CloseClient(c) ==
    /\ Serving(c)
    /\ DropUpload(c)
    /\ connected' = connected \ {c}
    /\ username' = [username EXCEPT ![c] = NoUser]
    /\ userList' = ListsAfter(c)
    /\ Forget(c)
    /\ download' = NoDownload
    /\ UNCHANGED running

-----------------------------------------------------------------------------
(* Packet handlers.                                                         *)

\* handleLogin, also of a session that has a name already: a rename.
HandleLogin(c, u) ==
    /\ Serving(c)
    /\ ~UsernameExists(u, c)
    /\ username' = [username EXCEPT ![c] = u]
    /\ userList' = SendTo(Audience, userList, UsersOf(connected, username'))
    /\ fileList' = [fileList EXCEPT ![c] = files]
    /\ download' = NoDownload
    /\ UNCHANGED <<ftVars, running, connected, heard>>

\* Mutant of Heard: the sender is left out.
HeardByOthers(c) ==
    [d \in Clients |-> IF d \in Audience \ {c} THEN Append(heard[d], username[c])
                       ELSE heard[d]]

\* The chats sent once session c has sent one more.
Heard(c) ==
    [d \in Clients |-> IF d \in Audience THEN Append(heard[d], username[c])
                       ELSE heard[d]]

\* handleChatMessage: to every session, the sender's and those without a name
\* included.
HandleChatMessage(c) ==
    /\ Serving(c)
    /\ LoggedIn(c)
    /\ \A d \in connected : Len(heard[d]) + 1 \in ChatCounts
    /\ heard' = Heard(c)
    /\ download' = NoDownload
    /\ UNCHANGED <<ftVars, running, connected, username, userList, fileList>>

\* Mutant of HandleUploadBegin: no login is asked for.
HandleUploadBeginUnchecked(c) ==
    /\ Serving(c)
    /\ Begin(c) \/ BeginFails(c)
    /\ download' = NoDownload
    /\ UNCHANGED <<sessionVars, running>>

\* handleUploadBegin.
HandleUploadBegin(c) ==
    /\ Serving(c)
    /\ LoggedIn(c)
    /\ Begin(c) \/ BeginFails(c)
    /\ download' = NoDownload
    /\ UNCHANGED <<sessionVars, running>>

\* handleUploadChunk, which asks for an open upload and not for a login.
HandleUploadChunk(c) ==
    /\ Serving(c)
    /\ WriteChunk(c)
    /\ download' = NoDownload
    /\ UNCHANGED <<sessionVars, running>>

\* handleUploadEnd: only an accepted upload is announced to the others.
HandleUploadEnd(c) ==
    /\ Serving(c)
    /\ \/ /\ EndUploadAccepts(c)
          /\ fileList' = SendTo(Audience, fileList, files)
       \/ /\ EndUploadRejects(c)
          /\ UNCHANGED fileList
    /\ download' = NoDownload
    /\ UNCHANGED <<running, connected, username, userList, heard>>

\* Mutant of BlocksRead: the last read, a short one, is not sent.
BlocksReadWithoutLast(n, reads) ==
    {k \in 0..Len(content[n]) : reads => k + 1 >= Len(content[n])}

\* How many blocks of file n the read loop may get: all, unless a read fails.
BlocksRead(n, reads) ==
    {k \in 0..Len(content[n]) : reads => k = Len(content[n])}

\* handleDownloadRequest: size, chunks and end in one go.  A file that cannot
\* be opened is answered with its size and an error; a read that fails ends
\* the loop, and the end packet is sent as if the file were shorter.
HandleDownloadRequest(c, n) ==
    /\ Serving(c)
    /\ LoggedIn(c)
    /\ n \in files
    /\ \E opened \in DiskOutcomes, reads \in DiskOutcomes :
        \E k \in BlocksRead(n, reads) :
            download' =
                [name |-> n, size |-> Len(content[n]),
                 data |-> IF opened THEN SubSeq(content[n], 1, k) ELSE <<>>,
                 ended |-> opened, reads |-> opened /\ reads]
    /\ UNCHANGED <<ftVars, sessionVars, running>>

\* Packets that are answered with an error and change nothing: a login under
\* a name that is taken or empty, a chat, upload begin or download of a session
\* without a name, a chunk or end without an upload, a download of a file that
\* is not there, and, of any session, a payload that does not parse or an
\* upload of the name "".
Refuse(c) ==
    /\ Serving(c)
    /\ UNCHANGED vars

-----------------------------------------------------------------------------
(* The end of the server.                                                   *)

\* run() leaves its loop: epoll_wait failed.
Stop ==
    /\ running
    /\ running' = FALSE
    /\ download' = NoDownload
    /\ UNCHANGED <<ftVars, sessionVars>>

\* One round of cleanup's loop.
CleanupSession(c) ==
    /\ ~running
    /\ c \in connected
    /\ CloseUpload(c)
    /\ connected' = connected \ {c}
    /\ username' = [username EXCEPT ![c] = NoUser]
    /\ userList' = [userList EXCEPT ![c] = {}]
    /\ Forget(c)
    /\ UNCHANGED <<running, download>>

\* Mutant of Start: the upload directory is made anew.
StartEmpty ==
    /\ ~running
    /\ connected = {}
    /\ running' = TRUE
    /\ files' = {}
    /\ content' = [n \in Names |-> <<>>]
    /\ UNCHANGED <<upload, history, sessionVars, download>>

\* The process is started again on the upload directory it left.
Start ==
    /\ ~running
    /\ connected = {}
    /\ running' = TRUE
    /\ UNCHANGED <<ftVars, sessionVars, download>>

\* The process is killed, between two handlers, and started again.
Crash ==
    /\ CrashStore
    /\ running' = TRUE
    /\ connected' = {}
    /\ username' = [c \in Clients |-> NoUser]
    /\ userList' = [c \in Clients |-> {}]
    /\ fileList' = [c \in Clients |-> {}]
    /\ heard' = [c \in Clients |-> <<>>]
    /\ download' = NoDownload

\* handleDownloadRequest for "", "." or "..": there is a directory of that
\* path, file_size of it throws, and nobody catches that.  The process ends as
\* if it were killed.
DownloadDirectory(c) ==
    /\ Serving(c)
    /\ LoggedIn(c)
    /\ Crash

-----------------------------------------------------------------------------

Next ==
    \/ \E c \in Clients :
        \/ Accept(c)
        \/ CloseClient(c)
        \/ \E u \in Users : HandleLogin(c, u)
        \/ HandleChatMessage(c)
        \/ HandleUploadBegin(c)
        \/ HandleUploadChunk(c)
        \/ HandleUploadEnd(c)
        \/ \E n \in Names : HandleDownloadRequest(c, n)
        \/ DownloadDirectory(c)
        \/ Refuse(c)
        \/ CleanupSession(c)
    \/ Stop
    \/ Start
    \/ Crash

Spec == Init /\ [][Next]_vars

-----------------------------------------------------------------------------
(* Properties.                                                              *)

\* The names of the people logged in.
Online == UsersOf(connected, username)

\* Two sessions never hold one name, whatever logins, renames and disconnects
\* happen in between: usernameExists looks at all sessions but the asking one.
UniqueNames ==
    \A c, d \in connected : LoggedIn(c) /\ username[c] = username[d] => c = d

\* Only a logged-in session has an upload open.  The chunk and end handlers
\* do not check the login: they rely on the check of handleUploadBegin and on
\* a session keeping its name for as long as it keeps its upload.
UploadOwnerLoggedIn ==
    \A c \in Clients : upload[c].open => c \in connected /\ LoggedIn(c)

\* A descriptor without a session carries nothing over to its next one.
FreshDescriptors ==
    \A c \in Clients \ connected :
        /\ username[c] = NoUser
        /\ userList[c] = {}
        /\ heard[c] = <<>>
        /\ ~upload[c].open

\* The last user list sent to a logged-in session names exactly the people
\* logged in; a session that has not logged in was sent that list or none.
UserListCurrent ==
    running =>
        \A c \in connected :
            \/ userList[c] = Online
            \/ ~LoggedIn(c) /\ userList[c] = {}

\* Every finished file still in the directory is in the last file list sent
\* to each connection, old or new: no client misses an upload.
FileListsCover ==
    \A c \in connected, r \in finished :
        r.name \in files => r.name \in fileList[c]

\* s is a suffix of t.
IsSuffix(s, t) ==
    /\ Len(s) <= Len(t)
    /\ \A i \in 1..Len(s) : s[i] = t[Len(t) - Len(s) + i]

\* Any two connections were sent the same chats in the same order from the
\* moment both existed, and the older one the earlier ones besides.
ChatsAgree ==
    \A c, d \in connected :
        IsSuffix(heard[c], heard[d]) \/ IsSuffix(heard[d], heard[c])

\* What a client downloads under the name of a sound finished upload is what
\* that upload sent, in full, unless the server fails to open the file, which
\* the client learns, or to read it: then it is a part of it.
DownloadIsWhole ==
    \A r \in finished :
        r.sound /\ download.name = r.name =>
            /\ download.size = r.size
            /\ download.data = SubSeq(Blocks(r.by, r.size), 1,
                                      Len(download.data))
            /\ download.reads => download.ended /\ Len(download.data) = r.size

\* The inductive invariant of the sessions.
ServerInv ==
    /\ ServerTypeOK
    /\ FreshDescriptors
    /\ UniqueNames
    /\ UploadOwnerLoggedIn
    /\ UserListCurrent
    /\ FileListsCover
    /\ ChatsAgree

=============================================================================
