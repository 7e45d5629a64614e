----------------------------- MODULE MCOneshots -----------------------------
(***************************************************************************)
(* The channels of one value: the oneshot whose senders are cloned, the    *)
(* exclusive one, the pool of oneshots and the free list of its slots.     *)
(* `which` says what a behaviour is about. Three senders and one user of   *)
(* the receiver; two slots and two channels of a pool; three indices and   *)
(* two users of the free list.                                             *)
(***************************************************************************)
EXTENDS Oneshot, Sequences, TLC

CONSTANTS s1, s2, s3, r1,   \* senders and the user of the receiver
          i1, i2, c1, c2,   \* slots and channels of the pool
          u1, u2            \* users of the free list

OneUser  == r1 :> {"recv", "recv_blocking", "try_recv", "close", "drop"}
Symmetry == Permutations({c1, c2}) \cup Permutations({i1, i2})

VARIABLES which,
          waits, wakeup, call, of, flags, done,   \* receiver's waker, its wakes, operation; fate
          full, sat, rat, there,
          cell, free, stakes, closed, released, pairing, home, pc, exited, waitingSet, sawValue,
          head, next, held, step, seen, at, out, want, swaps

Exclusive == INSTANCE OneshotExclusive WITH waker <- waits, woken <- wakeup, rop <- call, fate <- of,
               spc <- sat, rpc <- rat, ralive <- there
Pool      == INSTANCE OneshotPool WITH Slot <- {i1, i2}, Channel <- {c1, c2},
               Receives <- {"recv", "recv_blocking", "try_recv"},
               waker <- waits, woken <- wakeup, rop <- call, fate <- of
Freelist  == INSTANCE Freelist WITH User <- {u1, u2}, Capacity <- 3, TagMod <- 16, Batches <- {1, 2},
               MaxSwaps <- 4, pc <- step

value   == <<waits, wakeup, call, of, flags, done>>
single  == <<full, sat, rat, there>>
pooled  == <<cell, free, stakes, closed, released, pairing, home, pc, exited, waitingSet, sawValue>>
links   == <<head, next, held, step, seen, at, out, want, swaps>>
mcvars  == <<which, vars, value, single, pooled, links>>

NoValue == waits = 0 /\ wakeup = 0 /\ call = 0 /\ of = 0 /\ flags = 0 /\ done = 0
NoSingle == full = 0 /\ sat = 0 /\ rat = 0 /\ there = 0
NoPooled == cell = 0 /\ free = 0 /\ stakes = 0 /\ closed = 0 /\ released = 0 /\ pairing = 0 /\ home = 0
            /\ pc = 0 /\ exited = 0 /\ waitingSet = 0 /\ sawValue = 0
NoLinks == head = 0 /\ next = 0 /\ held = 0 /\ step = 0 /\ seen = 0 /\ at = 0 /\ out = 0 /\ want = 0
           /\ swaps = 0

(* Only what a behaviour is about moves: the rest stays as it is, the oneshot in its initial state. *)
MCInit ==
  /\ Init
  /\ \/ which = "oneshot" /\ NoValue /\ NoSingle /\ NoPooled /\ NoLinks
     \/ which = "exclusive" /\ Exclusive!Init /\ NoPooled /\ NoLinks
     \/ which = "pool" /\ Pool!Init /\ NoSingle /\ NoLinks
     \/ which = "freelist" /\ Freelist!Init /\ NoValue /\ NoSingle /\ NoPooled

MCNext ==
  \/ which = "oneshot" /\ Next /\ UNCHANGED <<which, value, single, pooled, links>>
  \/ which = "exclusive" /\ Exclusive!Next /\ UNCHANGED <<which, vars, pooled, links>>
  \/ which = "pool" /\ Pool!Next /\ UNCHANGED <<which, vars, single, links>>
  \/ which = "freelist" /\ Freelist!Next /\ UNCHANGED <<which, vars, value, single, pooled>>
  \/ which = "freelist" /\ swaps >= 4 /\ UNCHANGED mcvars   \* the bound, not the list, ends these behaviours

MCSpec == MCInit /\ [][MCNext]_mcvars

-----------------------------------------------------------------------------
(* The exclusive oneshot's value has one owner at any time, and so has a   *)
(* slot of the pool and the value in it; a pending receive of the pool is  *)
(* woken; the pool's storage outlives its channels, and every slot of it   *)
(* comes back.                                                             *)
SlotsSafe ==
  /\ which = "exclusive" => Exclusive!ValueHasOneOwner
  /\ which = "pool" => /\ Pool!SlotHasOneOwner /\ Pool!ValueIsOwn /\ Pool!PendingIsWoken
                       /\ Pool!ReleaseIsDeferred /\ Pool!AllSlotsReturn

(* Free list: it is an atomic stack that gives up only when it is short,   *)
(* and no index is handed out twice or lost.                               *)
IsAStack ==
  [](which = "freelist" => Freelist!NothingHandedOutTwice)
  /\ [][which = "freelist" => Freelist!OnStack /\ \A u \in {u1, u2} : Freelist!Short(u)]_mcvars
=============================================================================
