-------------------------- MODULE ChatServerProofs --------------------------
(***************************************************************************)
(* What holds of the chat server for all sets of sessions, users and       *)
(* files: it drives the store as FTSpec allows, so what was proved of the  *)
(* store holds in the server; names are unique, uploads belong to sessions *)
(* that are logged in, the lists and chats sent are the right ones, and a  *)
(* download of a sound upload is that upload.                              *)
(***************************************************************************)
EXTENDS ChatServer, FileTransferProofs

-----------------------------------------------------------------------------
(* The server implements the store.                                         *)

\* Every step of the server is a step of the store or leaves it alone.
LEMMA StoreStep ==
    [Next]_vars => [FTNext]_ftVars
<1> SUFFICES ASSUME [Next]_vars PROVE [FTNext]_ftVars
  OBVIOUS
<1>1. ASSUME NEW c \in Clients, Accept(c) PROVE UNCHANGED ftVars
  BY <1>1 DEF Accept
<1>2. ASSUME NEW c \in Clients, CloseClient(c) PROVE FTNext
  BY <1>2 DEF CloseClient, FTNext
<1>3. ASSUME NEW c \in Clients, NEW u \in Users, HandleLogin(c, u)
      PROVE  UNCHANGED ftVars
  BY <1>3 DEF HandleLogin
<1>4. ASSUME NEW c \in Clients, HandleChatMessage(c) PROVE UNCHANGED ftVars
  BY <1>4 DEF HandleChatMessage
<1>5. ASSUME NEW c \in Clients, HandleUploadBegin(c) PROVE FTNext
  BY <1>5 DEF HandleUploadBegin, FTNext
<1>6. ASSUME NEW c \in Clients, HandleUploadChunk(c) PROVE FTNext
  BY <1>6 DEF HandleUploadChunk, FTNext
<1>7. ASSUME NEW c \in Clients, HandleUploadEnd(c) PROVE FTNext
  BY <1>7 DEF HandleUploadEnd, FTNext
<1>8. ASSUME NEW c \in Clients, NEW n \in Names, HandleDownloadRequest(c, n)
      PROVE  UNCHANGED ftVars
  BY <1>8 DEF HandleDownloadRequest
<1>9. ASSUME NEW c \in Clients, Refuse(c) PROVE UNCHANGED ftVars
  BY <1>9 DEF Refuse, vars
<1>10. ASSUME NEW c \in Clients, CleanupSession(c) PROVE FTNext
  BY <1>10 DEF CleanupSession, FTNext
<1>11. CASE Stop
  BY <1>11 DEF Stop
<1>12. CASE Start
  BY <1>12 DEF Start
<1>13. CASE Crash
  BY <1>13 DEF Crash, FTNext
<1>14. CASE UNCHANGED vars
  BY <1>14 DEF vars
<1> QED
  BY <1>1, <1>2, <1>3, <1>4, <1>5, <1>6, <1>7, <1>8, <1>9, <1>10, <1>11,
     <1>12, <1>13, <1>14 DEF Next, DownloadDirectory

\* The server uses the upload store only through the operations of the store.
THEOREM ServerImplementsStore ==
    Spec => FTSpec
<1>1. Init => FTInit
  BY DEF Init
<1>2. [Next]_vars => [FTNext]_ftVars
  BY StoreStep
<1> QED
  BY <1>1, <1>2, PTL DEF Spec, FTSpec

\* What the store promises, the server promises: sound finished uploads stay
\* as they were sent, ...
THEOREM ServerStoresSoundUploads ==
    Spec => []SoundUploadsStored
BY ServerImplementsStore, SoundUploadsAreStored, PTL

\* ... and the directory holds nothing unexplained.
THEOREM ServerFilesAreExplained ==
    Spec => []StrayFilesExplained
BY ServerImplementsStore, StrayFilesAreExplained, PTL

-----------------------------------------------------------------------------
(* Types.                                                                   *)

LEMMA UsersOfType ==
    ASSUME NEW s, NEW f, \A c \in s : f[c] \in Users \cup {NoUser}
    PROVE  UsersOf(s, f) \subseteq Users
BY DEF UsersOf

LEMMA NoDownloadType ==
    NoDownload \in Download
BY EmptySeq DEF NoDownload, Download

\* Nothing of a session that is gone is kept.
LEMMA ForgetType ==
    ASSUME ServerTypeOK, NEW c \in Clients, Forget(c)
    PROVE  fileList' \in [Clients -> SUBSET Names] /\ heard' \in [Clients -> Seq(Users)]
<1>1. fileList' \in [Clients -> SUBSET Names]
  BY DEF ServerTypeOK, Forget
<1>2. heard' \in [Clients -> Seq(Users)]
  BY EmptySeq DEF ServerTypeOK, Forget
<1> QED
  BY <1>1, <1>2

\* The files a handler lists are file names.
LEMMA ServerTypeStep ==
    ASSUME ServerTypeOK, StoreInv, [Next]_vars
    PROVE  ServerTypeOK'
<1>a. TypeOK'
  BY StoreStep, StoreNextInv DEF StoreInv
<1>b. files \subseteq Names
  BY DEF ServerTypeOK, TypeOK
<1>1. ASSUME NEW c \in Clients, Accept(c) PROVE ServerTypeOK'
  BY <1>1, <1>a, <1>b, NoDownloadType DEF Accept, ServerTypeOK
<1>2. ASSUME NEW c \in Clients, CloseClient(c) PROVE ServerTypeOK'
  <2>1. /\ running' = running /\ connected' = connected \ {c}
        /\ username' = [username EXCEPT ![c] = NoUser]
        /\ userList' = ListsAfter(c) /\ download' = NoDownload /\ Forget(c)
    BY <1>2 DEF CloseClient
  <2>2. UsersOf(connected \ {c}, username) \subseteq Users
    BY UsersOfType DEF ServerTypeOK
  <2>3. [userList EXCEPT ![c] = {}] \in [Clients -> SUBSET Users]
    BY DEF ServerTypeOK
  <2>4. ListsAfter(c) \in [Clients -> SUBSET Users]
    <3> DEFINE erased == [userList EXCEPT ![c] = {}]
    <3>1. SendTo(Audience \ {c}, erased, UsersOf(connected \ {c}, username))
            \in [Clients -> SUBSET Users]
      BY <2>2, <2>3 DEF SendTo
    <3> QED
      BY <2>3, <3>1 DEF ListsAfter
  <2>5. /\ fileList' \in [Clients -> SUBSET Names]
        /\ heard' \in [Clients -> Seq(Users)]
    BY <2>1, ForgetType
  <2> QED
    BY <1>a, <2>1, <2>4, <2>5, NoDownloadType DEF ServerTypeOK
<1>3. ASSUME NEW c \in Clients, NEW u \in Users, HandleLogin(c, u)
      PROVE  ServerTypeOK'
  <2>1. /\ username' = [username EXCEPT ![c] = u]
        /\ userList' = SendTo(Audience, userList, UsersOf(connected, username'))
        /\ fileList' = [fileList EXCEPT ![c] = files]
        /\ download' = NoDownload
        /\ UNCHANGED <<running, connected, heard>>
    BY <1>3 DEF HandleLogin
  <2>2. username' \in [Clients -> Users \cup {NoUser}]
    BY <2>1 DEF ServerTypeOK
  <2>3. UsersOf(connected, username') \subseteq Users
    BY <2>2, UsersOfType DEF ServerTypeOK
  <2>4. userList' \in [Clients -> SUBSET Users]
    BY <2>1, <2>3 DEF ServerTypeOK, SendTo
  <2> QED
    BY <1>a, <1>b, <2>1, <2>2, <2>4, NoDownloadType DEF ServerTypeOK
<1>4. ASSUME NEW c \in Clients, HandleChatMessage(c) PROVE ServerTypeOK'
  <2>1. /\ heard' = [d \in Clients |->
                        IF d \in Audience THEN Append(heard[d], username[c])
                        ELSE heard[d]]
        /\ username[c] \in Users
        /\ download' = NoDownload
        /\ UNCHANGED <<running, connected, username, userList, fileList>>
    BY <1>4 DEF HandleChatMessage, Heard, LoggedIn, ServerTypeOK
  <2>2. \A d \in Clients : heard[d] \in Seq(Users)
                            /\ Append(heard[d], username[c]) \in Seq(Users)
    BY <2>1 DEF ServerTypeOK
  <2>3. heard' \in [Clients -> Seq(Users)]
    BY <2>1, <2>2
  <2> QED
    BY <1>a, <2>1, <2>3, NoDownloadType DEF ServerTypeOK
<1>5. ASSUME NEW c \in Clients, HandleUploadBegin(c) PROVE ServerTypeOK'
  BY <1>5, <1>a, NoDownloadType DEF HandleUploadBegin, ServerTypeOK, sessionVars
<1>6. ASSUME NEW c \in Clients, HandleUploadChunk(c) PROVE ServerTypeOK'
  BY <1>6, <1>a, NoDownloadType DEF HandleUploadChunk, ServerTypeOK, sessionVars
<1>7. ASSUME NEW c \in Clients, HandleUploadEnd(c) PROVE ServerTypeOK'
  <2>1. fileList' = SendTo(Audience, fileList, files) \/ fileList' = fileList
    BY <1>7 DEF HandleUploadEnd
  <2>2. fileList' \in [Clients -> SUBSET Names]
    BY <1>b, <2>1 DEF ServerTypeOK, SendTo
  <2> QED
    BY <1>7, <1>a, <2>2, NoDownloadType DEF HandleUploadEnd, ServerTypeOK
<1>8. ASSUME NEW c \in Clients, NEW n \in Names, HandleDownloadRequest(c, n)
      PROVE  ServerTypeOK'
  <2>1. content[n] \in Seq(Block) /\ Len(content[n]) \in Nat
    BY LenProperties DEF ServerTypeOK, TypeOK
  <2> PICK opened \in DiskOutcomes, reads \in DiskOutcomes :
        \E k \in BlocksRead(n, reads) :
            download' = [name |-> n, size |-> Len(content[n]),
                         data |-> IF opened THEN SubSeq(content[n], 1, k) ELSE <<>>,
                         ended |-> opened, reads |-> opened /\ reads]
    BY <1>8 DEF HandleDownloadRequest
  <2> PICK k \in BlocksRead(n, reads) :
        download' = [name |-> n, size |-> Len(content[n]),
                     data |-> IF opened THEN SubSeq(content[n], 1, k) ELSE <<>>,
                     ended |-> opened, reads |-> opened /\ reads]
    OBVIOUS
  <2>2. k \in Nat /\ k <= Len(content[n])
    BY <2>1 DEF BlocksRead
  <2>3. SubSeq(content[n], 1, k) \in Seq(Block)
    BY <2>1, <2>2, SubSeqProperties, ElementOfSeq
  <2>4. opened \in BOOLEAN /\ reads \in BOOLEAN
    BY DEF DiskOutcomes
  <2>5. download' \in Download
    BY <2>1, <2>3, <2>4, EmptySeq DEF Download
  <2> QED
    BY <1>8, <1>a, <2>5 DEF HandleDownloadRequest, ServerTypeOK, sessionVars
<1>9. ASSUME NEW c \in Clients, CleanupSession(c) PROVE ServerTypeOK'
  BY <1>9, <1>a, ForgetType DEF CleanupSession, ServerTypeOK
<1>10. CASE Stop
  BY <1>10, <1>a, NoDownloadType DEF Stop, ServerTypeOK, sessionVars
<1>11. CASE Start
  BY <1>11, <1>a DEF Start, ServerTypeOK, sessionVars
<1>12. CASE Crash
  BY <1>12, <1>a, NoDownloadType, EmptySeq DEF Crash, ServerTypeOK
<1>13. CASE UNCHANGED vars
  BY <1>13, <1>a DEF vars, serverVars, ServerTypeOK
<1> QED
  BY <1>1, <1>2, <1>3, <1>4, <1>5, <1>6, <1>7, <1>8, <1>9, <1>10, <1>11,
     <1>12, <1>13 DEF Next, DownloadDirectory, Refuse

-----------------------------------------------------------------------------
(* Names and the sessions that hold them.                                   *)

\* Logins are the only steps that name a session, and they check the name
\* against all the others; a session is unnamed only when it is erased.
LEMMA NamesStep ==
    ASSUME ServerInv, [Next]_vars
    PROVE  UniqueNames'
<1>a. ServerTypeOK /\ UniqueNames /\ FreshDescriptors
  BY DEF ServerInv
<1>1. ASSUME NEW c \in Clients, Accept(c) PROVE UniqueNames'
  BY <1>1, <1>a DEF Accept, UniqueNames, LoggedIn, FreshDescriptors
<1>2. ASSUME NEW c \in Clients, NEW u \in Users, HandleLogin(c, u)
      PROVE  UniqueNames'
  BY <1>2, <1>a DEF HandleLogin, UsernameExists, UniqueNames, LoggedIn,
                    ServerTypeOK
<1>3. ASSUME NEW c \in Clients, connected' = connected \ {c},
             username' = [username EXCEPT ![c] = NoUser]
      PROVE  UniqueNames'
  BY <1>3, <1>a DEF UniqueNames, LoggedIn, ServerTypeOK
<1>4. CASE connected' = {}
  BY <1>4 DEF UniqueNames
<1>5. CASE connected' = connected /\ username' = username
  BY <1>5, <1>a DEF UniqueNames, LoggedIn
<1> QED
  BY <1>1, <1>2, <1>3, <1>4, <1>5
     DEF Next, DownloadDirectory, CloseClient, CleanupSession, HandleChatMessage,
         HandleUploadBegin, HandleUploadChunk, HandleUploadEnd,
         HandleDownloadRequest, Refuse, Stop, Start, Crash, vars, serverVars,
         sessionVars

\* A session opens uploads only under a name, and loses name and upload
\* together.
LEMMA OwnersStep ==
    ASSUME ServerInv, [Next]_vars
    PROVE  UploadOwnerLoggedIn'
<1>a. ServerTypeOK /\ TypeOK /\ UploadOwnerLoggedIn
  BY DEF ServerInv, ServerTypeOK
<1>b. ~NoUpload.open
  BY DEF NoUpload
<1>c. ASSUME NEW c \in Clients, connected' = connected \ {c},
             username' = [username EXCEPT ![c] = NoUser], ~upload'[c].open,
             \A d \in Clients \ {c} : upload'[d].open => upload[d].open
      PROVE  UploadOwnerLoggedIn'
  BY <1>c, <1>a DEF UploadOwnerLoggedIn, LoggedIn, ServerTypeOK
<1>1. ASSUME NEW c \in Clients, Accept(c) PROVE UploadOwnerLoggedIn'
  BY <1>1, <1>a DEF Accept, ftVars, UploadOwnerLoggedIn, LoggedIn
<1>2. ASSUME NEW c \in Clients, CloseClient(c) PROVE UploadOwnerLoggedIn'
  <2>1. ~upload'[c].open /\ \A d \in Clients \ {c} :
                                upload'[d].open => upload[d].open
    <3>1. CASE upload[c].open
      <4>1. upload' = UnlinkedBut(c, upload[c].fileName)
        BY <1>2, <3>1 DEF CloseClient, DropUpload, RemovePath
      <4>2. \A d \in Clients : [upload[d] EXCEPT !.linked = FALSE].open
                                = upload[d].open
        BY <1>a DEF TypeOK, UploadState
      <4> QED
        BY <1>b, <4>1, <4>2 DEF UnlinkedBut
    <3>2. CASE ~upload[c].open
      BY <1>2, <1>a, <1>b, <3>2 DEF CloseClient, DropUpload, TypeOK
    <3> QED
      BY <3>1, <3>2
  <2> QED
    BY <1>2, <1>c, <2>1 DEF CloseClient
<1>3. ASSUME NEW c \in Clients, NEW u \in Users, HandleLogin(c, u)
      PROVE  UploadOwnerLoggedIn'
  BY <1>3, <1>a, ServerAssumption
     DEF HandleLogin, Serving, ftVars, UploadOwnerLoggedIn, LoggedIn, ServerTypeOK
<1>4. ASSUME NEW c \in Clients, HandleUploadBegin(c)
      PROVE  UploadOwnerLoggedIn'
  <2>1. /\ c \in connected /\ LoggedIn(c)
        /\ connected' = connected /\ username' = username
    BY <1>4 DEF HandleUploadBegin, Serving, sessionVars
  <2>2. \A d \in Clients \ {c} : upload'[d] = upload[d]
    BY <1>4, <1>a DEF HandleUploadBegin, Begin, BeginUpload, BeginFails,
                      BeginUploadFails, TypeOK
  <2> QED
    BY <1>a, <2>1, <2>2 DEF UploadOwnerLoggedIn, LoggedIn
<1>5. ASSUME NEW c \in Clients, HandleUploadChunk(c)
      PROVE  UploadOwnerLoggedIn'
  <2>1. /\ connected' = connected /\ username' = username
        /\ upload[c].open
    BY <1>5 DEF HandleUploadChunk, WriteChunk, sessionVars
  <2>2. \A d \in Clients \ {c} : upload'[d] = upload[d]
    BY <1>5, <1>a DEF HandleUploadChunk, WriteChunk, TypeOK
  <2> QED
    BY <1>a, <2>1, <2>2 DEF UploadOwnerLoggedIn, LoggedIn
<1>6. ASSUME NEW c \in Clients, HandleUploadEnd(c)
      PROVE  UploadOwnerLoggedIn'
  <2>1. /\ connected' = connected /\ username' = username
        /\ EndUploadAccepts(c) \/ EndUploadRejects(c)
    BY <1>6 DEF HandleUploadEnd
  <2>2. CASE EndUploadAccepts(c)
    BY <1>a, <1>b, <2>1, <2>2
       DEF EndUploadAccepts, UploadOwnerLoggedIn, LoggedIn, TypeOK
  <2>3. CASE EndUploadRejects(c)
    <3>1. upload' = UnlinkedBut(c, upload[c].fileName)
      BY <2>3 DEF EndUploadRejects, RemovePath
    <3>2. \A d \in Clients : [upload[d] EXCEPT !.linked = FALSE].open
                              = upload[d].open
      BY <1>a DEF TypeOK, UploadState
    <3>3. \A d \in Clients : upload'[d].open => upload[d].open
      BY <1>b, <3>1, <3>2 DEF UnlinkedBut
    <3> QED
      BY <1>a, <2>1, <3>3 DEF UploadOwnerLoggedIn, LoggedIn
  <2> QED
    BY <2>1, <2>2, <2>3
<1>7. ASSUME NEW c \in Clients, CleanupSession(c) PROVE UploadOwnerLoggedIn'
  <2>1. ~upload'[c].open /\ \A d \in Clients \ {c} : upload'[d] = upload[d]
    BY <1>7, <1>a, <1>b DEF CleanupSession, CloseUpload, TypeOK
  <2> QED
    BY <1>7, <1>c, <2>1 DEF CleanupSession
<1>8. CASE Crash
  BY <1>8, <1>b DEF Crash, CrashStore, UploadOwnerLoggedIn
<1>9. CASE upload' = upload /\ connected' = connected /\ username' = username
  BY <1>9, <1>a DEF UploadOwnerLoggedIn, LoggedIn
<1> QED
  BY <1>1, <1>2, <1>3, <1>4, <1>5, <1>6, <1>7, <1>8, <1>9
     DEF Next, DownloadDirectory, HandleChatMessage, HandleDownloadRequest, Refuse,
         Stop, Start,
         vars, serverVars, sessionVars, ftVars

\* A descriptor is emptied when its session is erased, and only sessions are
\* written to.
LEMMA FreshStep ==
    ASSUME ServerInv, [Next]_vars
    PROVE  FreshDescriptors'
<1>a. ServerTypeOK /\ FreshDescriptors
  BY DEF ServerInv
<1>b. UploadOwnerLoggedIn'
  BY OwnersStep
<1>c. \A c \in Clients \ connected' : ~upload'[c].open
  BY <1>b DEF UploadOwnerLoggedIn
<1>1. ASSUME NEW c \in Clients, Accept(c) PROVE FreshDescriptors'
  BY <1>1, <1>a, <1>c DEF Accept, FreshDescriptors
<1>2. ASSUME NEW c \in Clients, CloseClient(c) PROVE FreshDescriptors'
  <2>1. \A d \in Clients \ connected' : ListsAfter(c)[d] = {}
    BY <1>2, <1>a DEF CloseClient, ListsAfter, SendTo, Audience, FreshDescriptors,
                      ServerTypeOK
  <2> QED
    BY <1>2, <1>a, <1>c, <2>1
       DEF CloseClient, Forget, FreshDescriptors, ServerTypeOK
<1>3. ASSUME NEW c \in Clients, NEW u \in Users, HandleLogin(c, u)
      PROVE  FreshDescriptors'
  BY <1>3, <1>a, <1>c DEF HandleLogin, Serving, SendTo, Audience,
                          FreshDescriptors, ServerTypeOK
<1>4. ASSUME NEW c \in Clients, HandleChatMessage(c) PROVE FreshDescriptors'
  BY <1>4, <1>a, <1>c DEF HandleChatMessage, Heard, Audience, FreshDescriptors
<1>5. ASSUME NEW c \in Clients, CleanupSession(c) PROVE FreshDescriptors'
  BY <1>5, <1>a, <1>c DEF CleanupSession, Forget, FreshDescriptors, ServerTypeOK
<1>6. CASE Crash
  BY <1>6, <1>c DEF Crash, FreshDescriptors
<1>7. CASE UNCHANGED <<connected, username, userList, heard>>
  BY <1>7, <1>a, <1>c DEF FreshDescriptors
<1> QED
  BY <1>1, <1>2, <1>3, <1>4, <1>5, <1>6, <1>7
     DEF Next, DownloadDirectory, HandleUploadBegin, HandleUploadChunk, HandleUploadEnd,
         HandleDownloadRequest, Refuse, Stop, Start, vars, serverVars,
         sessionVars

-----------------------------------------------------------------------------
(* What the connections were sent.                                          *)

\* A login and the end of a named session change who is online, and both send
\* the new list to all; the end of an unnamed session does not change it.
LEMMA UserListStep ==
    ASSUME ServerInv, [Next]_vars
    PROVE  UserListCurrent'
<1>a. ServerTypeOK /\ FreshDescriptors /\ UserListCurrent
  BY DEF ServerInv
<1>1. ASSUME NEW c \in Clients, Accept(c) PROVE UserListCurrent'
  <2>1. Online' = Online
    BY <1>1, <1>a DEF Accept, Online, UsersOf, FreshDescriptors
  <2> QED
    BY <1>1, <1>a, <2>1 DEF Accept, UserListCurrent, FreshDescriptors, LoggedIn
<1>2. ASSUME NEW c \in Clients, CloseClient(c) PROVE UserListCurrent'
  <2>1. /\ c \in connected /\ running /\ connected' = connected \ {c}
        /\ username' = [username EXCEPT ![c] = NoUser]
        /\ userList' = ListsAfter(c)
        /\ \A d \in connected' : d \in Clients /\ username'[d] = username[d]
    BY <1>2, <1>a DEF CloseClient, Serving, ServerTypeOK
  <2>2. Online' = UsersOf(connected \ {c}, username)
    BY <2>1 DEF Online, UsersOf
  <2>3. CASE LoggedIn(c)
    <3>1. \A d \in connected' : userList'[d] = Online'
      BY <1>a, <2>1, <2>2, <2>3 DEF ListsAfter, SendTo, Audience
    <3> QED
      BY <3>1 DEF UserListCurrent
  <2>4. CASE ~LoggedIn(c)
    <3>1. Online' = Online
      BY <2>2, <2>4 DEF Online, UsersOf, LoggedIn
    <3>2. \A d \in connected' : userList'[d] = userList[d]
      BY <1>a, <2>1, <2>4 DEF ListsAfter, ServerTypeOK
    <3> QED
      BY <1>a, <2>1, <3>1, <3>2 DEF UserListCurrent, LoggedIn
  <2> QED
    BY <2>3, <2>4
<1>3. ASSUME NEW c \in Clients, NEW u \in Users, HandleLogin(c, u)
      PROVE  UserListCurrent'
  <2>1. connected' = connected
        /\ userList' = SendTo(Audience, userList, UsersOf(connected, username'))
    BY <1>3 DEF HandleLogin
  <2>2. \A d \in connected' : userList'[d] = Online'
    BY <1>a, <2>1 DEF SendTo, Audience, Online, ServerTypeOK
  <2> QED
    BY <2>2 DEF UserListCurrent
<1>4. CASE connected' = {} \/ ~running'
  BY <1>4 DEF UserListCurrent
<1>5. CASE running' = running /\ UNCHANGED <<connected, username, userList>>
  BY <1>5, <1>a DEF UserListCurrent, Online, UsersOf, LoggedIn
<1> QED
  BY <1>1, <1>2, <1>3, <1>4, <1>5
     DEF Next, DownloadDirectory, CleanupSession, HandleChatMessage, HandleUploadBegin,
         HandleUploadChunk, HandleUploadEnd, HandleDownloadRequest, Refuse,
         Stop, Start, Crash, vars, serverVars, sessionVars

\* A file becomes finished only by an accepted upload, whose handler sends all
\* connections the files there are; every other step removes files or records,
\* or sends a connection all there is.
LEMMA FileListsStep ==
    ASSUME ServerInv, StoreInv, [Next]_vars
    PROVE  FileListsCover'
<1>a. ServerTypeOK /\ TypeOK /\ FileListsCover
  BY DEF ServerInv, ServerTypeOK
<1>b. \A r \in finished : r.name \in files =>
        \A c \in connected : r.name \in fileList[c]
  BY <1>a DEF FileListsCover
<1>1. ASSUME finished' \subseteq finished,
             \A r \in finished' : r.name \in files' => r.name \in files,
             connected' \subseteq connected,
             \A c \in connected' : fileList'[c] = fileList[c] \/ fileList'[c] = files'
      PROVE  FileListsCover'
  BY <1>1, <1>b DEF FileListsCover
<1>2. ASSUME NEW c \in Clients, Accept(c) PROVE FileListsCover'
  BY <1>2, <1>a DEF Accept, ftVars, FileListsCover, ServerTypeOK
<1>3. ASSUME NEW c \in Clients, DropUpload(c)
      PROVE  finished' = finished /\ files' \subseteq files
  BY <1>3 DEF DropUpload, RemovePath, history
<1>4. ASSUME NEW c \in Clients, CloseClient(c) PROVE FileListsCover'
  BY <1>1, <1>3, <1>4, <1>a DEF CloseClient, Forget, ServerTypeOK
<1>5. ASSUME NEW c \in Clients, NEW u \in Users, HandleLogin(c, u)
      PROVE  FileListsCover'
  BY <1>1, <1>5, <1>a DEF HandleLogin, ftVars, ServerTypeOK
<1>6. ASSUME NEW c \in Clients, HandleUploadBegin(c) PROVE FileListsCover'
  <2>1. connected' = connected /\ fileList' = fileList
    BY <1>6 DEF HandleUploadBegin, sessionVars
  <2>2. CASE Begin(c)
    <3> PICK n \in Names, size \in 0..MaxSize : BeginUpload(c, n, size)
      BY <2>2 DEF Begin
    <3>1. files' = files \cup {n} /\ finished' = {r \in finished : r.name # n}
      BY DEF BeginUpload
    <3> QED
      BY <1>1, <2>1, <3>1
  <2>3. CASE BeginFails(c)
    <3>1. files' = files /\ finished' = finished
      BY <2>3 DEF BeginFails, BeginUploadFails
    <3> QED
      BY <1>1, <2>1, <3>1
  <2> QED
    BY <1>6, <2>2, <2>3 DEF HandleUploadBegin
<1>7. ASSUME NEW c \in Clients, HandleUploadChunk(c) PROVE FileListsCover'
  BY <1>1, <1>7 DEF HandleUploadChunk, WriteChunk, sessionVars
<1>8. ASSUME NEW c \in Clients, HandleUploadEnd(c) PROVE FileListsCover'
  <2>1. connected' = connected
    BY <1>8 DEF HandleUploadEnd
  <2>2. CASE EndUploadAccepts(c) /\ fileList' = SendTo(Audience, fileList, files)
    <3>1. \A d \in connected : fileList'[d] = files
      BY <1>a, <2>2 DEF SendTo, Audience, ServerTypeOK
    <3>2. files' = files
      BY <2>2 DEF EndUploadAccepts
    <3> QED
      BY <2>1, <3>1, <3>2 DEF FileListsCover
  <2>3. CASE EndUploadRejects(c) /\ fileList' = fileList
    BY <1>1, <2>1, <2>3 DEF EndUploadRejects, RemovePath
  <2> QED
    BY <1>8, <2>2, <2>3 DEF HandleUploadEnd
<1>9. ASSUME NEW c \in Clients, CleanupSession(c) PROVE FileListsCover'
  BY <1>1, <1>9, <1>a DEF CleanupSession, CloseUpload, Forget, ServerTypeOK
<1>10. CASE Crash
  BY <1>10 DEF Crash, FileListsCover
<1>11. CASE UNCHANGED <<files, finished, connected, fileList>>
  BY <1>1, <1>11
<1> QED
  BY <1>2, <1>4, <1>5, <1>6, <1>7, <1>8, <1>9, <1>10, <1>11
     DEF Next, DownloadDirectory, HandleChatMessage, HandleDownloadRequest, Refuse,
         Stop, Start,
         vars, serverVars, sessionVars, ftVars

\* A chat sent to both of two connections prolongs what they agree on.
LEMMA SuffixAppend ==
    ASSUME NEW s \in Seq(Users), NEW t \in Seq(Users), NEW x \in Users,
           IsSuffix(s, t)
    PROVE  IsSuffix(Append(s, x), Append(t, x))
<1>1. /\ Len(s) \in Nat /\ Len(t) \in Nat /\ Len(s) <= Len(t)
      /\ Len(Append(s, x)) = Len(s) + 1 /\ Len(Append(t, x)) = Len(t) + 1
      /\ \A i \in 1..Len(s) : s[i] = t[Len(t) - Len(s) + i]
  BY LenProperties DEF IsSuffix
<1>2. ASSUME NEW i \in 1..(Len(s) + 1)
      PROVE  Append(s, x)[i] = Append(t, x)[(Len(t) + 1) - (Len(s) + 1) + i]
  <2> DEFINE j == (Len(t) + 1) - (Len(s) + 1) + i
  <2>1. CASE i = Len(s) + 1
    <3>1. j = Len(t) + 1
      BY <1>1, <2>1
    <3>2. Append(s, x)[Len(s) + 1] = x /\ Append(t, x)[Len(t) + 1] = x
      OBVIOUS
    <3> QED
      BY <2>1, <3>1, <3>2
  <2>2. CASE i # Len(s) + 1
    <3>1. i \in 1..Len(s) /\ j = Len(t) - Len(s) + i /\ j \in 1..Len(t)
      BY <1>1, <2>2
    <3>2. Append(s, x)[i] = s[i] /\ Append(t, x)[j] = t[j]
      BY <1>1, <3>1
    <3> QED
      BY <1>1, <3>1, <3>2
  <2> QED
    BY <2>1, <2>2
<1> DEFINE S == Append(s, x)
           T == Append(t, x)
<1>3. Len(S) = Len(s) + 1 /\ Len(T) = Len(t) + 1
  BY <1>1
<1>4. \A i \in 1..(Len(s) + 1) : S[i] = T[(Len(t) + 1) - (Len(s) + 1) + i]
  BY <1>2
<1> HIDE DEF S, T
<1>5. Len(S) <= Len(T)
  BY <1>1, <1>3
<1>6. \A i \in 1..Len(S) : S[i] = T[Len(T) - Len(S) + i]
  BY <1>3, <1>4
<1>7. IsSuffix(S, T)
  BY <1>5, <1>6 DEF IsSuffix
<1> QED
  BY <1>7 DEF S, T

\* A chat goes to all connections in one step, and a new one starts with none.
LEMMA ChatsStep ==
    ASSUME ServerInv, [Next]_vars
    PROVE  ChatsAgree'
<1>a. ServerTypeOK /\ FreshDescriptors /\ ChatsAgree
  BY DEF ServerInv
<1>b. \A t \in Seq(Users) : IsSuffix(<<>>, t)
  BY EmptySeq, LenProperties DEF IsSuffix
<1>c. \A c \in connected : c \in Clients /\ heard[c] \in Seq(Users)
  BY <1>a DEF ServerTypeOK
<1>1. ASSUME NEW c \in Clients, Accept(c) PROVE ChatsAgree'
  <2>1. /\ heard' = heard /\ connected' = connected \cup {c}
        /\ heard[c] = <<>> /\ heard[c] \in Seq(Users)
    BY <1>1, <1>a DEF Accept, FreshDescriptors, ServerTypeOK
  <2> SUFFICES ASSUME NEW d \in connected \cup {c}, NEW e \in connected \cup {c}
               PROVE  IsSuffix(heard[d], heard[e]) \/ IsSuffix(heard[e], heard[d])
    BY <2>1 DEF ChatsAgree
  <2>2. CASE d = c \/ e = c
    BY <1>b, <1>c, <2>1, <2>2
  <2>3. CASE d \in connected /\ e \in connected
    BY <1>a, <2>3 DEF ChatsAgree
  <2> QED
    BY <2>2, <2>3
<1>2. ASSUME NEW c \in Clients, HandleChatMessage(c) PROVE ChatsAgree'
  <2>1. /\ connected' = connected /\ username[c] \in Users
        /\ \A d \in connected : heard'[d] = Append(heard[d], username[c])
    BY <1>2, <1>c, <1>a DEF HandleChatMessage, Heard, Audience, LoggedIn, ServerTypeOK
  <2> SUFFICES ASSUME NEW d \in connected, NEW e \in connected
               PROVE  IsSuffix(heard'[d], heard'[e]) \/ IsSuffix(heard'[e], heard'[d])
    BY <2>1 DEF ChatsAgree
  <2>2. IsSuffix(heard[d], heard[e]) \/ IsSuffix(heard[e], heard[d])
    BY <1>a DEF ChatsAgree
  <2> QED
    BY <1>c, <2>1, <2>2, SuffixAppend
<1>3. CASE /\ connected' \subseteq connected
           /\ \A c \in connected' : heard'[c] = heard[c]
  BY <1>3, <1>a DEF ChatsAgree
<1>4. ASSUME NEW c \in Clients, CloseClient(c) \/ CleanupSession(c)
      PROVE  ChatsAgree'
  <2>1. connected' = connected \ {c} /\ heard' = [heard EXCEPT ![c] = <<>>]
    BY <1>4 DEF CloseClient, CleanupSession, Forget
  <2> QED
    BY <1>3, <1>a, <2>1 DEF ServerTypeOK
<1>5. CASE Crash
  BY <1>5 DEF Crash, ChatsAgree
<1> QED
  BY <1>1, <1>2, <1>3, <1>4, <1>5
     DEF Next, DownloadDirectory, HandleLogin, HandleUploadBegin, HandleUploadChunk,
         HandleUploadEnd, HandleDownloadRequest, Refuse, Stop, Start, vars,
         serverVars, sessionVars

-----------------------------------------------------------------------------
(* The server as a whole.                                                   *)

LEMMA ServerInitInv ==
    Init => ServerInv
<1> SUFFICES ASSUME Init PROVE ServerInv
  OBVIOUS
<1>1. TypeOK
  BY StoreInitInv DEF Init, StoreInv
<1>2. ~NoUpload.open /\ \A c \in Clients : upload[c] = NoUpload
  BY DEF Init, FTInit, NoUpload
<1>3. ServerTypeOK
  BY <1>1, NoDownloadType, EmptySeq DEF Init, ServerTypeOK
<1> QED
  BY <1>2, <1>3
     DEF Init, ServerInv, FreshDescriptors, UniqueNames, UploadOwnerLoggedIn,
         UserListCurrent, FileListsCover, ChatsAgree

\* ServerInv holds throughout.
THEOREM ServerInvariant ==
    Spec => []ServerInv
<1>1. Init => ServerInv
  BY ServerInitInv
<1>2. ServerInv /\ StoreInv /\ [Next]_vars => ServerInv'
  <2> SUFFICES ASSUME ServerInv, StoreInv, [Next]_vars PROVE ServerInv'
    OBVIOUS
  <2>1. ServerTypeOK
    BY DEF ServerInv
  <2> QED
    BY <2>1, ServerTypeStep, NamesStep, OwnersStep, FreshStep, UserListStep,
       FileListsStep, ChatsStep DEF ServerInv
<1>3. Spec => []StoreInv
  BY ServerImplementsStore, StoreInvariant, PTL
<1> QED
  BY <1>1, <1>2, <1>3, PTL DEF Spec

\* The server's variables keep their types.
THEOREM ServerTyped ==
    Spec => []ServerTypeOK
<1>1. ServerInv => ServerTypeOK
  BY DEF ServerInv
<1> QED
  BY <1>1, ServerInvariant, PTL

\* No two sessions share a name.
THEOREM NamesAreUnique ==
    Spec => []UniqueNames
<1>1. ServerInv => UniqueNames
  BY DEF ServerInv
<1> QED
  BY <1>1, ServerInvariant, PTL

\* Whoever has an upload open is logged in.
THEOREM UploadOwnersAreLoggedIn ==
    Spec => []UploadOwnerLoggedIn
<1>1. ServerInv => UploadOwnerLoggedIn
  BY DEF ServerInv
<1> QED
  BY <1>1, ServerInvariant, PTL

\* Everybody logged in was last sent the list of exactly those logged in.
THEOREM UserListsAreCurrent ==
    Spec => []UserListCurrent
<1>1. ServerInv => UserListCurrent
  BY DEF ServerInv
<1> QED
  BY <1>1, ServerInvariant, PTL

\* No connection misses a finished upload in its file list.
THEOREM FileListsAreComplete ==
    Spec => []FileListsCover
<1>1. ServerInv => FileListsCover
  BY DEF ServerInv
<1> QED
  BY <1>1, ServerInvariant, PTL

\* All connections see one order of chats.
THEOREM ChatsAreOrdered ==
    Spec => []ChatsAgree
<1>1. ServerInv => ChatsAgree
  BY DEF ServerInv
<1> QED
  BY <1>1, ServerInvariant, PTL

-----------------------------------------------------------------------------
(* Downloads.                                                               *)

\* A handler's download is what the store holds, and that, for a sound
\* finished upload, is what was uploaded.
LEMMA DownloadStep ==
    ASSUME StoreInv, StoreInv', ServerTypeOK, DownloadIsWhole, [Next]_vars
    PROVE  DownloadIsWhole'
<1>a. /\ TypeOK /\ SoundUploadsStored
      /\ \A r \in finished : r.name \in Names /\ r.by \in Clients /\ r.size \in Nat
      /\ \A r \in finished' : r.name \in Names
  BY DEF StoreInv, TypeOK, FinishedUpload
<1>1. CASE download' = NoDownload
  <2>1. \A r \in finished' : r.name # NoDownload.name
    BY <1>a, StoreAssumption DEF NoDownload
  <2> QED
    BY <1>1, <2>1 DEF DownloadIsWhole
<1>2. CASE download' = download /\ finished' = finished
  BY <1>2 DEF DownloadIsWhole
<1>3. ASSUME NEW c \in Clients, NEW n \in Names, HandleDownloadRequest(c, n)
      PROVE  DownloadIsWhole'
  <2> PICK opened \in DiskOutcomes, reads \in DiskOutcomes :
        \E k \in BlocksRead(n, reads) :
            download' = [name |-> n, size |-> Len(content[n]),
                         data |-> IF opened THEN SubSeq(content[n], 1, k) ELSE <<>>,
                         ended |-> opened, reads |-> opened /\ reads]
    BY <1>3 DEF HandleDownloadRequest
  <2> PICK k \in BlocksRead(n, reads) :
        download' = [name |-> n, size |-> Len(content[n]),
                     data |-> IF opened THEN SubSeq(content[n], 1, k) ELSE <<>>,
                     ended |-> opened, reads |-> opened /\ reads]
    OBVIOUS
  <2>1. finished' = finished /\ n \in files
    BY <1>3 DEF HandleDownloadRequest, ftVars
  <2> SUFFICES ASSUME NEW r \in finished, r.sound, download'.name = r.name
               PROVE  /\ download'.size = r.size
                      /\ download'.data = SubSeq(Blocks(r.by, r.size), 1,
                                                 Len(download'.data))
                      /\ download'.reads
                           => download'.ended /\ Len(download'.data) = r.size
    BY <2>1 DEF DownloadIsWhole
  <2>2. n = r.name /\ content[n] = Blocks(r.by, r.size)
    BY <1>a DEF SoundUploadsStored
  <2>3. /\ content[n] \in Seq(Block) /\ Len(content[n]) = r.size
        /\ r.size \in Nat
    BY <1>a, <2>2, BlocksType
  <2>4. k \in 0..r.size
    BY <2>3 DEF BlocksRead
  <2>5. Len(SubSeq(content[n], 1, k)) = k
    BY <2>3, <2>4, SubSeqProperties, ElementOfSeq
  <2>6. SubSeq(content[n], 1, 0) = <<>> /\ Len(<<>>) = 0
    BY SubSeqEmpty, EmptySeq
  <2>7. download'.data = SubSeq(content[n], 1, Len(download'.data))
    <3>1. CASE opened
      <4>1. download'.data = SubSeq(content[n], 1, k)
        BY <3>1
      <4> QED
        BY <2>5, <4>1
    <3>2. CASE ~opened
      <4>1. download'.data = <<>>
        BY <3>2
      <4> QED
        BY <2>6, <4>1
    <3> QED
      BY <3>1, <3>2
  <2>8. download'.reads => download'.ended /\ Len(download'.data) = r.size
    <3> SUFFICES ASSUME opened, reads
                 PROVE  Len(download'.data) = r.size
      BY DEF DiskOutcomes
    <3>1. k = r.size
      BY <2>3 DEF BlocksRead
    <3> QED
      BY <2>5, <3>1
  <2> QED
    BY <2>2, <2>3, <2>7, <2>8
<1>4. ASSUME NEW c \in Clients, CleanupSession(c)
      PROVE  download' = download /\ finished' = finished
  BY <1>4 DEF CleanupSession, CloseUpload
<1> QED
  BY <1>1, <1>2, <1>3, <1>4
     DEF Next, DownloadDirectory, Accept, CloseClient, HandleLogin, HandleChatMessage,
         HandleUploadBegin, HandleUploadChunk, HandleUploadEnd, Refuse, Stop,
         Start, Crash, vars, serverVars, ftVars

\* From one client to another: a download of a sound finished upload is that
\* upload, whatever happened between the two.
THEOREM DownloadsAreWhole ==
    Spec => []DownloadIsWhole
<1>1. Init => DownloadIsWhole
  BY DEF Init, FTInit, DownloadIsWhole
<1>2. StoreInv /\ StoreInv' /\ ServerTypeOK /\ DownloadIsWhole /\ [Next]_vars
        => DownloadIsWhole'
  BY DownloadStep
<1>3. Spec => []StoreInv
  BY ServerImplementsStore, StoreInvariant, PTL
<1> QED
  BY <1>1, <1>2, <1>3, ServerTyped, PTL DEF Spec

=============================================================================
