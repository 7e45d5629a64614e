------------------------------- MODULE Freelist ------------------------------
(***************************************************************************)
(* The tagged Treiber stack of channels/src/oneshot/pool.rs that holds the *)
(* free slots of a oneshot pool. Indices are 0..Capacity-1; the head word  *)
(* is a tag and an index, and every successful compare-and-swap bumps the  *)
(* tag (modulo TagMod, 2^32 in the code).                                  *)
(***************************************************************************)
EXTENDS Integers, Sequences, FiniteSets

CONSTANTS Capacity, TagMod, User,
          Batches,   \* the n of pop_chain
          MaxSwaps   \* bound on successful swaps: keeps the tag from wrapping

NIL == -1
Index == 0 .. Capacity - 1

VARIABLES head, next,
          held,          \* indices each user has popped and not pushed
          pc, seen,      \* place in the code; the head loaded
          at, out,       \* pop: the link read; pop_chain: walk position, indices
          want,          \* pop_chain's n, or 1
          swaps

locals == <<pc, seen, at, out, want>>
vars == <<head, next, held, locals, swaps>>

Init ==
  /\ head = [tag |-> 0, idx |-> IF Capacity = 0 THEN NIL ELSE 0]
  /\ next = [i \in Index |-> IF i + 1 < Capacity THEN i + 1 ELSE NIL]
  /\ held = [u \in User |-> {}]
  /\ pc = [u \in User |-> "idle"] /\ seen = [u \in User |-> head]
  /\ at = [u \in User |-> NIL] /\ out = [u \in User |-> <<>>]
  /\ want = [u \in User |-> 1] /\ swaps = 0

Go(u, l) == pc' = [pc EXCEPT ![u] = l]

Bump(i) == [tag |-> (head.tag + 1) % TagMod, idx |-> i]

(* pop and pop_chain: load the head, follow want links, swap. pop is the   *)
(* chain of one, except that it reads no head again before it gives up.    *)
PopStart(u, n) ==
  /\ pc[u] = "idle" /\ swaps < MaxSwaps
  /\ want' = [want EXCEPT ![u] = n]
  /\ Go(u, "load")
  /\ UNCHANGED <<head, next, held, seen, at, out, swaps>>

PopLoad(u) ==
  /\ pc[u] = "load"
  /\ seen' = [seen EXCEPT ![u] = head]
  /\ at' = [at EXCEPT ![u] = head.idx]
  /\ out' = [out EXCEPT ![u] = <<>>]
  /\ Go(u, IF want[u] = 1 /\ head.idx = NIL THEN "idle" ELSE "walk")
  /\ UNCHANGED <<head, next, held, want, swaps>>

PopWalk(u) ==
  /\ pc[u] = "walk"
  /\ IF Len(out[u]) = want[u] THEN Go(u, "swap") /\ UNCHANGED <<at, out>>
     ELSE IF at[u] = NIL THEN Go(u, "recheck") /\ UNCHANGED <<at, out>>
     ELSE /\ out' = [out EXCEPT ![u] = Append(@, at[u])]
          /\ at' = [at EXCEPT ![u] = next[at[u]]]
          /\ UNCHANGED pc
  /\ UNCHANGED <<head, next, held, seen, want, swaps>>

PopRecheck(u) ==
  /\ pc[u] = "recheck"
  /\ Go(u, IF head = seen[u] THEN "idle" ELSE "load")
  /\ UNCHANGED <<head, next, held, seen, at, out, want, swaps>>

PopSwap(u) ==
  /\ pc[u] = "swap"
  /\ IF head = seen[u]
       THEN /\ head' = Bump(at[u]) /\ swaps' = swaps + 1
            /\ held' = [held EXCEPT ![u] = @ \cup {out[u][k] : k \in 1..want[u]}]
            /\ Go(u, "idle")
       ELSE UNCHANGED <<head, held, swaps>> /\ Go(u, "load")
  /\ UNCHANGED <<next, seen, at, out, want>>

(* push: load the head, link to it, swap *)
PushStart(u, i) ==
  /\ pc[u] = "idle" /\ i \in held[u] /\ swaps < MaxSwaps
  /\ at' = [at EXCEPT ![u] = i] /\ Go(u, "push_load")
  /\ UNCHANGED <<head, next, held, seen, out, want, swaps>>

PushLoad(u) ==
  /\ pc[u] = "push_load"
  /\ seen' = [seen EXCEPT ![u] = head] /\ Go(u, "push_link")
  /\ UNCHANGED <<head, next, held, at, out, want, swaps>>

PushLink(u) ==
  /\ pc[u] = "push_link"
  /\ next' = [next EXCEPT ![at[u]] = seen[u].idx] /\ Go(u, "push_swap")
  /\ UNCHANGED <<head, held, seen, at, out, want, swaps>>

MutPushSwapBlind(u) ==
  /\ pc[u] = "push_swap"
  /\ head' = Bump(at[u]) /\ swaps' = swaps + 1
  /\ held' = [held EXCEPT ![u] = @ \ {at[u]}] /\ Go(u, "idle")
  /\ UNCHANGED <<next, seen, at, out, want>>

PushSwap(u) ==
  /\ pc[u] = "push_swap"
  /\ IF head = seen[u]
       THEN /\ head' = Bump(at[u]) /\ swaps' = swaps + 1
            /\ held' = [held EXCEPT ![u] = @ \ {at[u]}] /\ Go(u, "idle")
       ELSE UNCHANGED <<head, held, swaps>> /\ Go(u, "push_load")
  /\ UNCHANGED <<next, seen, at, out, want>>

Step(u) ==
  \/ PopLoad(u) \/ PopWalk(u) \/ PopRecheck(u) \/ PopSwap(u)
  \/ PushLoad(u) \/ PushLink(u) \/ PushSwap(u)

Next ==
  \E u \in User : \/ Step(u)
                  \/ \E n \in Batches : PopStart(u, n)
                  \/ \E i \in Index : PushStart(u, i)

Spec == Init /\ [][Next]_vars

-----------------------------------------------------------------------------
(* Every variable keeps its type. *)
TypeOK ==
  /\ head \in [tag : 0 .. TagMod - 1, idx : Index \cup {NIL}]
  /\ next \in [Index -> Index \cup {NIL}]
  /\ held \in [User -> SUBSET Index]
  /\ pc \in [User -> {"idle", "load", "walk", "recheck", "swap", "push_load", "push_link", "push_swap"}]
  /\ seen \in [User -> [tag : 0 .. TagMod - 1, idx : Index \cup {NIL}]]
  /\ at \in [User -> Index \cup {NIL}]

(* The indices from i on, cut after n *)
Links[n \in 0 .. Capacity + 1, i \in Index \cup {NIL}] ==
  IF i = NIL \/ n = 0 THEN <<>> ELSE <<i>> \o Links[n - 1, next[i]]
List == Links[Capacity + 1, head.idx]

(* The variables keep their types, and the list from the head and the sets *)
(* the users hold partition the indices: no slot is handed out twice, none *)
(* is lost, the list has no cycle.                                         *)
NothingHandedOutTwice ==
  /\ TypeOK
  /\ Len(List) + Cardinality(UNION {held[u] : u \in User}) = Capacity
  /\ \A u, v \in User : u # v => held[u] \cap held[v] = {}
  /\ \A k \in 1..Len(List), u \in User : List[k] \notin held[u]

(* pop_chain gives up only when fewer than n slots are free: "false means  *)
(* fewer than n slots were observed on a stable head".                     *)
Short(u) == pc[u] = "recheck" /\ pc'[u] = "idle" => Len(List) < want[u]

(* Every operation takes effect at one instant, as on an atomic stack: a   *)
(* step changes nothing, or takes indices off the top, or puts one there.  *)
Pops(u)   == \E n \in 1..Len(List) :
               /\ List' = SubSeq(List, n + 1, Len(List))
               /\ held' = [held EXCEPT ![u] = @ \cup {List[k] : k \in 1..n}]
Pushes(u) == \E i \in held[u] :
               /\ List' = <<i>> \o List
               /\ held' = [held EXCEPT ![u] = @ \ {i}]
OnStack   == UNCHANGED <<List, held>> \/ \E u \in User : Pops(u) \/ Pushes(u)
IsAStack  == [][OnStack /\ \A u \in User : Short(u)]_vars
==============================================================================
