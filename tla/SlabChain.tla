------------------------------ MODULE SlabChain ------------------------------
(***************************************************************************)
(* The chain of channels/src/internal/slab_chain.rs and the senders of the *)
(* two unbounded channels built on it (mpsc/unbounded_v3 and               *)
(* mpmc_v2/unbounded): nodes are bump-allocated from slabs that belong to  *)
(* one sender handle, published by a swap of the head and a store of the   *)
(* old head's next, and retired by the consumer one node behind its        *)
(* cursor. A slab returns to the pool, and is handed out again, when its   *)
(* nodes and its producer's hold are all released.                         *)
(*                                                                         *)
(* The consumers are in MpscUnbounded and MpmcUnbounded, which extend this *)
(* module. th[t].todo is what is left of t's operation: labels, one per    *)
(* atomic access or critical section.                                      *)
(***************************************************************************)
EXTENDS Naturals, Sequences, FiniteSets, TLC

CONSTANTS Senders, Receivers,   \* handles, one thread or task each
          SlabNodes,            \* SLAB_NODES
          PoolCap,              \* SLAB_POOL_CAP
          MaxSlabs,             \* bound: slabs ever allocated
          Clients               \* the programs that use the channel: calls, by
                                \* thread; the handles open at first; items,
                                \* what a sender sends at most; batch, the size
                                \* of batches; kind, sync or async receivers

VARIABLES client,
          head, tail,           \* the producers' end, the consumers' cursor
          nxt, val,             \* of every node
          rem, pool, freed,     \* remaining, the pool, slabs given back
          ps,                   \* ProducerSlab of every sender: slab, pos
          senders, rdrop,       \* sender_count, receiver_dropped
          handle,               \* "none", "open", "closed"
          waiters,              \* receivers registered to be woken
          th,                   \* the threads
          next, got             \* values sent and taken out, by sender

chain == <<head, tail, nxt, val>>
slabs == <<rem, pool, freed, ps>>
ends  == <<senders, rdrop, handle>>
hist  == <<next, got>>

Null == << >>                   \* no node, no value
Slabs == 1 .. MaxSlabs
Stub  == <<0, 0>>               \* alloc_stub: owned by no slab
Nodes == {Stub} \cup (Slabs \X (1 .. SlabNodes))
None  == 0                      \* no slab

Idle == [todo |-> << >>, op |-> "none", res |-> "none",
         n |-> 0,               \* items still to send, or still wanted
         first |-> Null, last |-> Null, old |-> Null,   \* the run being published
         reg |-> FALSE,         \* is_registered, registered
         flag |-> FALSE,        \* notified: the cell, or the flag, says so
         took |-> 0]            \* items received by this call

ChainInit ==
  /\ client \in Clients
  /\ head = Stub /\ tail = Stub
  /\ nxt = [x \in Nodes |-> Null] /\ val = [x \in Nodes |-> Null]
  /\ rem = [s \in Slabs |-> 0] /\ pool = << >> /\ freed = {}
  /\ ps = [p \in Senders |-> [slab |-> None, pos |-> 0]]
  /\ senders = Cardinality(client.open \cap Senders) /\ rdrop = FALSE
  /\ handle = [t \in Senders \cup Receivers |-> IF t \in client.open THEN "open" ELSE "none"]
  /\ waiters = << >>
  /\ th = [t \in Senders \cup Receivers |-> Idle]
  /\ next = [p \in Senders |-> 0] /\ got = [p \in Senders |-> 0]

At(t, l) == th[t].todo # << >> /\ th[t].todo[1] = l
Rest(t)  == Tail(th[t].todo)
(* Thread t takes the fields of r and runs on with program p; a call that   *)
(* returns leaves no locals behind, except a registration.                  *)
Settled(r) == IF r.todo = << >>
                THEN [f \in {"op", "res", "reg", "flag"} |-> r[f]] @@ Idle ELSE r
Step(t, p, r) == th' = [th EXCEPT ![t] = Settled([todo |-> p] @@ r @@ @)]

-----------------------------------------------------------------------------
(* Slabs *)

Taken == {s \in Slabs : rem[s] > 0} \cup {pool[i] : i \in DOMAIN pool} \cup freed
Fresh == Slabs \ Taken

(* retire_node, seal_slab, release_slab: give back n counts; whoever        *)
(* reaches zero returns the slab to the pool, or frees it.                  *)
Release(s, n) ==
  /\ rem' = [rem EXCEPT ![s] = @ - n]
  /\ pool' = IF rem[s] = n /\ Len(pool) < PoolCap THEN Append(pool, s) ELSE pool
  /\ freed' = IF rem[s] = n /\ Len(pool) >= PoolCap THEN freed \cup {s} ELSE freed

RetireNode(x) ==
  IF x = Stub THEN UNCHANGED <<rem, pool, freed>> ELSE Release(x[1], 1)

(* bump on an exhausted slab: release only the producer's hold ... *)
SealFull(p) ==
  /\ At(p, "bump") /\ ps[p].slab # None /\ ps[p].pos = SlabNodes
  /\ Release(ps[p].slab, 1)
  /\ ps' = [ps EXCEPT ![p] = [slab |-> None, pos |-> 0]]
  /\ UNCHANGED <<chain, ends, waiters, th, hist>>

(* ... then SlabPool::acquire: a pooled slab, re-armed, or a fresh one *)
Acquire(p) ==
  /\ At(p, "bump") /\ ps[p].slab = None
  /\ \E s \in IF pool # << >> THEN {pool[Len(pool)]}
                              ELSE {x \in Fresh : \A y \in Fresh : x <= y} :
       /\ pool' = IF pool # << >> THEN SubSeq(pool, 1, Len(pool) - 1) ELSE pool
       /\ rem' = [rem EXCEPT ![s] = SlabNodes + 1]
       /\ nxt' = [x \in Nodes |-> IF x[1] = s THEN Null ELSE nxt[x]]
       /\ val' = [x \in Nodes |-> IF x[1] = s THEN Null ELSE val[x]]
       /\ ps' = [ps EXCEPT ![p] = [slab |-> s, pos |-> 0]]
  /\ UNCHANGED <<head, tail, freed, ends, waiters, th, hist>>

(* ProducerSlab::seal of a handle that closes: its hold and the nodes it    *)
(* never used                                                               *)
Seal(p) ==
  IF ps[p].slab = None THEN UNCHANGED slabs
  ELSE /\ Release(ps[p].slab, SlabNodes - ps[p].pos + 1)
       /\ ps' = [ps EXCEPT ![p] = [slab |-> None, pos |-> 0]]

-----------------------------------------------------------------------------
(* Sending: send, try_send, the batch calls and the send futures, which     *)
(* complete in one poll                                                     *)

SendProgram == <<"alive", "bump", "swap", "link", "notify">>

CallSend(p, o) ==
  /\ th[p].todo = << >> /\ o \in client.calls[p] \cap {"send", "send_batch"}
  /\ handle[p] = "open"
  /\ LET n == IF o = "send" THEN 1 ELSE client.batch IN
       /\ next[p] + n <= client.items[p]
       /\ Step(p, SendProgram, [op |-> o, n |-> n])
  /\ UNCHANGED <<chain, slabs, ends, waiters, hist>>

Alive(p) ==
  /\ At(p, "alive")
  /\ IF rdrop THEN Step(p, << >>, [res |-> "Closed"]) ELSE Step(p, Rest(p), << >>)
  /\ UNCHANGED <<chain, slabs, ends, waiters, hist>>

(* bump, bump_batch: write the value, link it behind the run's last node *)
Bump(p) ==
  /\ At(p, "bump") /\ ps[p].slab # None /\ ps[p].pos < SlabNodes
  /\ LET x == <<ps[p].slab, ps[p].pos + 1>> IN
       /\ val' = [val EXCEPT ![x] = <<p, next[p] + 1>>]
       /\ nxt' = IF th[p].last = Null THEN nxt ELSE [nxt EXCEPT ![th[p].last] = x]
       /\ Step(p, IF th[p].n = 1 THEN Rest(p) ELSE th[p].todo,
               [first |-> IF th[p].first = Null THEN x ELSE th[p].first,
                last |-> x, n |-> th[p].n - 1])
  /\ ps' = [ps EXCEPT ![p].pos = @ + 1]
  /\ next' = [next EXCEPT ![p] = @ + 1]
  /\ UNCHANGED <<head, tail, rem, pool, freed, ends, waiters, got>>

(* ChainHead::publish: swap the head, then link the old one to the run *)
Swap(p) ==
  /\ At(p, "swap")
  /\ head' = th[p].last
  /\ Step(p, Rest(p), [old |-> head])
  /\ UNCHANGED <<tail, nxt, val, slabs, ends, waiters, hist>>

MutLinkLast(p) ==
  /\ At(p, "link")
  /\ nxt' = [nxt EXCEPT ![th[p].old] = th[p].last]
  /\ Step(p, Rest(p), << >>)
  /\ UNCHANGED <<head, tail, val, slabs, ends, waiters, hist>>

Link(p) ==
  /\ At(p, "link")
  /\ nxt' = [nxt EXCEPT ![th[p].old] = th[p].first]
  /\ Step(p, Rest(p), << >>)
  /\ UNCHANGED <<head, tail, val, slabs, ends, waiters, hist>>

(* The waiter count is loaded behind a fence; with one, take a waiter *)
Notify(p) ==
  /\ At(p, "notify")
  /\ Step(p, IF waiters = << >> THEN << >> ELSE <<"wake">>, [res |-> "Ok"])
  /\ UNCHANGED <<chain, slabs, ends, waiters, hist>>

(* Clone: another handle, with no slab yet *)
Clone(p, q) ==
  /\ th[p].todo = << >> /\ handle[p] = "open" /\ handle[q] = "none"
  /\ "clone" \in client.calls[p]
  /\ senders' = senders + 1
  /\ handle' = [handle EXCEPT ![q] = "open"]
  /\ UNCHANGED <<chain, slabs, rdrop, waiters, th, hist>>

(* close, drop: seal the slab, drop_sender; the last one wakes everybody *)
CloseSender(p) ==
  /\ th[p].todo = << >> /\ "close" \in client.calls[p] /\ handle[p] = "open"
  /\ handle' = [handle EXCEPT ![p] = "closed"]
  /\ Seal(p)
  /\ Step(p, <<"drop_sender">>, [op |-> "close"])
  /\ UNCHANGED <<chain, senders, rdrop, waiters, hist>>

DropSender(p) ==
  /\ At(p, "drop_sender")
  /\ senders' = senders - 1
  /\ Step(p, IF senders = 1 THEN <<"wake_all">> ELSE << >>, << >>)
  /\ UNCHANGED <<chain, slabs, rdrop, handle, waiters, hist>>

SenderStep(p) ==
  \/ \E o \in {"send", "send_batch"} : CallSend(p, o)
  \/ Alive(p) \/ SealFull(p) \/ Acquire(p) \/ Bump(p) \/ Swap(p) \/ Link(p)
  \/ Notify(p) \/ CloseSender(p) \/ DropSender(p)
  \/ \E q \in Senders : Clone(p, q)

-----------------------------------------------------------------------------
(* Consuming *)

MutRetireCurrent ==
  LET x == nxt[tail] IN
    /\ x # Null
    /\ val' = [val EXCEPT ![x] = Null] /\ tail' = x
    /\ got' = [got EXCEPT ![val[x][1]] = val[x][2]]
    /\ RetireNode(x)
    /\ UNCHANGED <<head, nxt, ps, next>>

(* The body of a successful pop: take the value of the node behind the      *)
(* cursor, advance, retire the node the cursor was on                       *)
PopNode ==
  LET x == nxt[tail] IN
    /\ x # Null
    /\ val' = [val EXCEPT ![x] = Null] /\ tail' = x
    /\ got' = [got EXCEPT ![val[x][1]] = val[x][2]]
    /\ RetireNode(tail)
    /\ UNCHANGED <<head, nxt, ps, next>>

(* Drop of the shared state, behind the last handle: drain the chain, then  *)
(* retire the node the cursor rests on                                      *)
AllGone == \A t \in Senders \cup Receivers : handle[t] # "open" /\ th[t].todo = << >>
Drain ==
  /\ AllGone /\ tail # Null
  /\ IF nxt[tail] # Null THEN PopNode
     ELSE RetireNode(tail) /\ tail' = Null /\ UNCHANGED <<head, nxt, val, ps, hist>>
  /\ UNCHANGED <<ends, waiters, th>>

-----------------------------------------------------------------------------
(* Every slab the chain, a publishing sender or a handle still uses *)
InUse ==
  {s \in Slabs :
     \/ \E x \in {tail, head} : tail # Null /\ x[1] = s
     \/ tail # Null /\ \E x \in Nodes : x[1] = s /\ val[x] # Null
     \/ \E p \in Senders : \/ ps[p].slab = s
                           \/ At(p, "link") /\ th[p].old[1] = s}

(* No slab goes back to the pool, or to the allocator, while a node of it   *)
(* can still be reached (retire_node, seal_slab, release_slab), a slab is   *)
(* in the pool once at most, and when the channel is dropped none leaks.    *)
SlabsSafe ==
  /\ \A s \in InUse : rem[s] > 0 /\ s \notin freed /\ \A i \in DOMAIN pool : pool[i] # s
  /\ \A i, j \in DOMAIN pool : pool[i] = pool[j] => i = j
  /\ tail = Null => \A s \in Slabs : rem[s] = 0

(* What a receiver could take: the nodes behind the cursor are linked *)
Deliverable == tail # Null /\ nxt[tail] # Null

(* The values of a sender come out in the order it sent them, each once,    *)
(* whatever slabs they travel in and whoever takes them (the FIFO of the    *)
(* head swap).                                                              *)
TakenInOrder == \A p \in Senders : got'[p] \in {got[p], got[p] + 1}
=============================================================================
