---------------------------- MODULE MCChatServer ----------------------------
(* The chat server on small sets of sessions, users and files.              *)
EXTENDS ChatServer, TLC

\* Sessions and users are interchangeable: no action or invariant singles one
\* out.
PeopleSymmetry == Permutations(Clients) \cup Permutations(Users)

=============================================================================
