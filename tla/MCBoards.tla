------------------------------- MODULE MCBoards -------------------------------
(* Model values and bounds for Boards.                                     *)
EXTENDS Boards, TLC

\* calls, servers, users and slugs are interchangeable
BoardsSymmetry ==
    Permutations(Calls) \cup Permutations(Servers) \cup Permutations(Users) \cup Permutations(Slugs)

===============================================================================
