---------------------------- MODULE MCPostComments ----------------------------
(* Small instances of PostComments: comments, members and requests are         *)
(* interchangeable, apart from the member that wrote the post.                 *)
EXTENDS PostComments, TLC

Symmetry == Permutations(Comments) \union Permutations(Requests)

=============================================================================
