----------------------------- MODULE MCMemoryPage -----------------------------
(* Memories, time stamps and calls of the model-checking runs. *)
EXTENDS MemoryPage

CONSTANTS c1, c2

TwoMemories == 1 .. 2
ThreeMemories == 1 .. 3
TwoStamps == 1 .. 2
TwoCalls == {c1, c2}
AllChanges == {"write", "retrieval"}
WritesOnly == {"write"}
CallSymmetry == Permutations(TwoCalls)
===============================================================================
