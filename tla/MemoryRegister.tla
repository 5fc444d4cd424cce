---------------------------- MODULE MemoryRegister ----------------------------
(***************************************************************************)
(* What agent_memories promises its clients: a table of memories in which  *)
(* no two active ones say the same thing, and each memory is a register    *)
(* that is only written by compare-and-set on its version.  A deleted      *)
(* memory stays as it was deleted.                                         *)
(***************************************************************************)
EXTENDS Naturals

CONSTANTS Ids, Identities, NoRow

VARIABLE store   \* store[i]: [ident, version, deleted], or NoRow

Present(i) == store[i] # NoRow /\ ~ store[i].deleted

Free(i, ident) == \A j \in Ids \ {i} : Present(j) => store[j].ident # ident

Init == store = [i \in Ids |-> NoRow]

Add(i, ident) ==
  /\ store[i] = NoRow
  /\ Free(i, ident)
  /\ store' = [store EXCEPT ![i] = [ident |-> ident, version |-> 1, deleted |-> FALSE]]

Change(i, ident) ==
  /\ Present(i)
  /\ Free(i, ident)
  /\ store' = [store EXCEPT ![i] =
                 [ident |-> ident, version |-> @.version + 1, deleted |-> FALSE]]

Remove(i) ==
  /\ Present(i)
  /\ store' = [store EXCEPT ![i] =
                 [ident |-> @.ident, version |-> @.version + 1, deleted |-> TRUE]]

Next == \E i \in Ids :
          \/ Remove(i)
          \/ \E ident \in Identities : Add(i, ident) \/ Change(i, ident)

Spec == Init /\ [][Next]_store
==============================================================================
