---------------------------- MODULE MCChatServer ----------------------------
(* ChatServer on small sets of users, names and channel objects. *)
EXTENDS ChatServer, TLC

\* Users, well-formed names and channel slots are interchangeable.
Symmetry == Permutations(Users) \cup Permutations(WellFormed) \cup Permutations(Slots)

=============================================================================
