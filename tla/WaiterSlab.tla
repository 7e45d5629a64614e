----------------------------- MODULE WaiterSlab -----------------------------
(***************************************************************************)
(* The waiter queue of mpmc_exp (vyukov/core.rs, WaiterSlab): entries in a *)
(* vector, threaded by a doubly linked list in order of arrival and by a   *)
(* free list. A handle is an index and a generation, and outlives its      *)
(* entry: a waiter that was woken gives its handle back all the same.      *)
(***************************************************************************)
EXTENDS Naturals, Sequences, TLC

CONSTANTS Waiters,
          MaxGen      \* how often a slot is freed at most; 2^32 in the code

NIL == 0              \* indices count from 1 here

VARIABLES entries, free_head, head, tail,
          id,         \* the handle a waiter holds, or none
          order       \* what the queue is meant to hold

vars == <<entries, free_head, head, tail, id, order>>
None == << >>
Nobody == "nobody"

Init ==
  /\ entries = << >> /\ free_head = NIL /\ head = NIL /\ tail = NIL
  /\ id = [w \in Waiters |-> None]
  /\ order = << >>

(* the slab without the entry of a handle, as a record of the variables;    *)
(* remove_index                                                             *)
Slab == [e |-> entries, free |-> free_head, head |-> head, tail |-> tail]
MutRemoveIndex(s, i) ==
  LET p == s.e[i].prev  n == s.e[i].next
      unlinked == [j \in DOMAIN s.e |->
        [s.e[j] EXCEPT !.next = IF j = p THEN n ELSE @, !.prev = IF j = n THEN p ELSE @]]
  IN [e |-> [unlinked EXCEPT ![i] = [wake |-> Nobody, prev |-> NIL, next |-> s.free, gen |-> s.e[i].gen]],
      free |-> i,
      head |-> IF p = NIL THEN n ELSE s.head,
      tail |-> IF n = NIL THEN p ELSE s.tail]

RemoveIndex(s, i) ==
  LET p == s.e[i].prev  n == s.e[i].next
      unlinked == [j \in DOMAIN s.e |->
        [s.e[j] EXCEPT !.next = IF j = p THEN n ELSE @, !.prev = IF j = n THEN p ELSE @]]
  IN [e |-> [unlinked EXCEPT ![i] = [wake |-> Nobody, prev |-> NIL, next |-> s.free, gen |-> s.e[i].gen + 1]],
      free |-> i,
      head |-> IF p = NIL THEN n ELSE s.head,
      tail |-> IF n = NIL THEN p ELSE s.tail]

(* remove: nothing happens if the handle is stale *)
Current(s, h) == h # None /\ s.e[h[1]].gen = h[2] /\ s.e[h[1]].wake # Nobody
Remove(s, h) == IF Current(s, h) THEN RemoveIndex(s, h[1]) ELSE s

(* push_back: the slot at the head of the free list, or a new one *)
PushBack(s, w) ==
  LET i == IF s.free # NIL THEN s.free ELSE Len(s.e) + 1
      grown == IF s.free # NIL THEN s.e
               ELSE Append(s.e, [wake |-> Nobody, prev |-> NIL, next |-> NIL, gen |-> 0])
      linked == [grown EXCEPT ![i] = [@ EXCEPT !.wake = w, !.prev = s.tail, !.next = NIL]]
  IN [e |-> IF s.tail = NIL THEN linked ELSE [linked EXCEPT ![s.tail].next = i],
      free |-> IF s.free # NIL THEN s.e[s.free].next ELSE NIL,
      head |-> IF s.tail = NIL THEN i ELSE s.head,
      tail |-> i]

Becomes(s) == /\ entries' = s.e /\ free_head' = s.free /\ head' = s.head /\ tail' = s.tail
Without(q, w) == SelectSeq(q, LAMBDA x : x # w)

(* A waiter registers; it passes the handle it had before, if any *)
Register(w) ==
  /\ \A i \in DOMAIN entries : entries[i].gen < MaxGen
  /\ LET s == PushBack(Remove(Slab, id[w]), w) IN
       Becomes(s) /\ id' = [id EXCEPT ![w] = <<s.tail, s.e[s.tail].gen>>]
  /\ order' = Append(Without(order, w), w)

(* It gives its handle back, whether it was woken in between or not *)
Unregister(w) ==
  /\ id[w] # None
  /\ Becomes(Remove(Slab, id[w]))
  /\ id' = [id EXCEPT ![w] = None]
  /\ order' = Without(order, w)

(* wake_one takes the first *)
PopFront ==
  /\ head # NIL
  /\ Becomes(RemoveIndex(Slab, head))
  /\ order' = Tail(order)
  /\ UNCHANGED id

(* wake_all takes them all *)
DrainAll ==
  /\ head # NIL
  /\ LET f[k \in 0 .. Len(entries)] ==
           IF k = 0 THEN Slab ELSE LET s == f[k - 1] IN IF s.head = NIL THEN s ELSE RemoveIndex(s, s.head)
     IN Becomes(f[Len(entries)])
  /\ order' = << >>
  /\ UNCHANGED id

Next == PopFront \/ DrainAll \/ \E w \in Waiters : Register(w) \/ Unregister(w)
Spec == Init /\ [][Next]_vars

-----------------------------------------------------------------------------
(* The first k entries of the list that starts at i *)
Walk(i, k) ==
  LET f[n \in 0 .. k] == IF n = 0 THEN i ELSE IF f[n - 1] = NIL THEN NIL ELSE entries[f[n - 1]].next
  IN [n \in 1 .. k |-> f[n - 1]]

(* The list from head is the queue, read backwards from tail it is the      *)
(* same, every other entry is on the free list: no stale handle, whatever   *)
(* the order of wakes, removals and reuse, takes out another waiter.        *)
IsAQueue ==
  LET list == Walk(head, Len(order) + 1)
      free == Walk(free_head, Len(entries) - Len(order) + 1)
  IN /\ \A k \in DOMAIN order :
          /\ list[k] # NIL /\ entries[list[k]].wake = order[k]
          /\ entries[list[k]].prev = IF k = 1 THEN NIL ELSE list[k - 1]
     /\ list[Len(order) + 1] = NIL
     /\ tail = IF order = << >> THEN NIL ELSE list[Len(order)]
     /\ \A k \in DOMAIN free : free[k] = NIL <=> k = Len(free)
     /\ \A k \in 1 .. Len(free) - 1 : entries[free[k]].wake = Nobody
=============================================================================
