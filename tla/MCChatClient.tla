----------------------------- MODULE MCChatClient -----------------------------
(* A client, two files at the server and two places to save them at.        *)
EXTENDS ChatClient

CONSTANTS f1, f2

\* One file takes two chunks, the other is empty.
SizeOf(f) == IF f = f1 THEN 2 ELSE 0

=============================================================================
