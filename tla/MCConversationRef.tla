-------------------------- MODULE MCConversationRef --------------------------
(* ConversationRef on small instances. *)
EXTENDS ConversationRef, TLC
CONSTANTS main, r1, r2, r3, none, hello, bye

OneRef       == {main}
ThreeRunners == {r1, r2, r3}
TwoMsgs      == {hello, bye}
Symmetry     == Permutations(ThreeRunners) \cup Permutations(TwoMsgs)
=============================================================================
