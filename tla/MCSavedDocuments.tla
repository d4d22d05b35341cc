-------------------------- MODULE MCSavedDocuments --------------------------
(* Small instances of SavedDocuments for TLC.                              *)
EXTENDS SavedDocuments, TLC

CONSTANTS t1, t2, r1, d1, x, y, a, b

SomeDrafts  == {[title |-> x, blocks |-> <<a>>]}
SomeUpdates == {[title |-> y, blocks |-> <<b>>], [title |-> x, blocks |-> None]}
SomePatches == {<<[op |-> "append_section", value |-> b], [op |-> "remove_section", value |-> 0]>>,
                <<[op |-> "remove_section", value |-> 0], [op |-> "replace_title", value |-> y]>>}

ThreadSymmetry == Permutations(Threads)
=============================================================================
