------------------------------ MODULE Snapshot ------------------------------
(***************************************************************************)
(* What internal/left_right promises: a list that readers look at through  *)
(* guards, and that one writer at a time replaces. A guard shows the list  *)
(* of the moment it was taken for as long as it is held, and a             *)
(* modification returns only when no guard shows an older list.            *)
(***************************************************************************)
CONSTANTS Readers, Members

NoGuard == [shows |-> {}, held |-> FALSE]
Guard(v) == [shows |-> v, held |-> TRUE]

VARIABLES list,         \* what a new guard shows: a set of members
          guards,       \* the guard of each reader
          stale,        \* the readers whose guard shows an older list
          busy          \* a modification is published and has not returned

snapshot == <<list, guards, stale, busy>>

Init == list = {} /\ guards = [r \in Readers |-> NoGuard] /\ stale = {} /\ busy = FALSE

Enter(r) ==
  /\ ~guards[r].held
  /\ guards' = [guards EXCEPT ![r] = Guard(list)]
  /\ UNCHANGED <<list, stale, busy>>

Leave(r) ==
  /\ guards[r].held
  /\ guards' = [guards EXCEPT ![r] = NoGuard]
  /\ stale' = stale \ {r}
  /\ UNCHANGED <<list, busy>>

Publish(v) ==
  /\ ~busy /\ busy' = TRUE
  /\ list' = v
  /\ stale' = {r \in Readers : guards[r].held}
  /\ UNCHANGED guards

Return ==
  /\ busy /\ stale = {} /\ busy' = FALSE
  /\ UNCHANGED <<list, guards, stale>>

Next ==
  \/ \E r \in Readers : Enter(r) \/ Leave(r)
  \/ \E v \in SUBSET Members : Publish(v)
  \/ Return

Spec == Init /\ [][Next]_snapshot
=============================================================================
