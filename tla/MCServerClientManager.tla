------------------------ MODULE MCServerClientManager ------------------------
(* Instance of ServerClientManager for TLC. *)
EXTENDS ServerClientManager, TLC

CONSTANTS c1, c2, c3, ann, an, bob, p, q

TwoSockets == {c1, c2}
ThreeSockets == {c1, c2, c3}
MCLogins == {ann, bob}
MCPasswords == {p, q}

\* The users' names of which one is the beginning of another.
TwoLengths == {ann, an}
NoBeginnings == [l \in Logins |-> {}]
AnBeginsAnn == [NoBeginnings EXCEPT ![ann] = {an}]
MCSymmetry == Permutations(ThreeSockets) \cup Permutations(MCLogins)
                \cup Permutations(MCPasswords)
=============================================================================
