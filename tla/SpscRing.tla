------------------------------- MODULE SpscRing -------------------------------
(***************************************************************************)
(* Ring<T> of channels/src/spsc/shared.rs: a Lamport queue with owned,     *)
(* wrapping indices, each side working against a private cached copy of    *)
(* the other side's index.                                                 *)
(*                                                                         *)
(* Memory model: a Release store of tail (head) is visible to the other    *)
(* side some time later, stores of one side in order. tailVis (headVis) is *)
(* the value the other side's next Acquire load returns.                   *)
(***************************************************************************)
EXTENDS Integers, Sequences

CONSTANTS Item,     \* the values sent through the ring
          Uninit,   \* the content of a slot that holds no value
          Cap,      \* Ring::cap
          Phys,     \* mask + 1, the length of buf
          W         \* indices are usize: arithmetic modulo W

(* Ring::new rounds the requested capacity up to a power of two, at least  *)
(* 2, which divides the range of usize and leaves it room to spare.        *)
ASSUME RingAssumption ==
  /\ Cap \in Nat \ {0}
  /\ Phys \in Nat \ {0} /\ Cap <= Phys
  /\ W \in Nat /\ Phys < W /\ \E k \in 1 .. W : W = k * Phys
  /\ Uninit \notin Item

VARIABLES buf,         \* the slots
          tail,        \* ProducerSide::tail, as its owner sees it
          tailVis,     \* ... and as the consumer's next load returns it
          cachedHead,  \* ProducerSide::cached_head
          head,        \* ConsumerSide::head, as its owner sees it
          headVis,     \* ... and as the producer's next load returns it
          cachedTail,  \* ConsumerSide::cached_tail
          ppc,         \* where the producer is inside push
          pitem,       \* the item being pushed
          reserve,     \* pushes write_batch still owes after producer_free_space
          cpc,         \* where the consumer is inside pop
          dropped      \* the ring has been dropped

pvars == <<tail, cachedHead, ppc, pitem, reserve>>
cvars == <<head, cachedTail, cpc>>
vars  == <<buf, tailVis, headVis, pvars, cvars, dropped>>

Index == 0 .. W - 1

WSub(a, b) == IF a >= b THEN a - b ELSE a - b + W   \* usize::wrapping_sub
WInc(a)    == IF a + 1 = W THEN 0 ELSE a + 1        \* wrapping_add(1)
Slot(i)    == i % Phys                              \* i & mask

Init ==
  /\ buf = [s \in 0 .. Phys - 1 |-> Uninit]
  /\ tail = 0 /\ tailVis = 0 /\ cachedHead = 0
  /\ head = 0 /\ headVis = 0 /\ cachedTail = 0
  /\ ppc = "idle" /\ pitem = Uninit /\ reserve = 0
  /\ cpc = "idle"
  /\ dropped = FALSE

-----------------------------------------------------------------------------
(* The producer *)

Accept(v) == ppc' = "write" /\ pitem' = v

MutPushCachedOffByOne(v) ==
  /\ ppc = "idle" /\ ~dropped
  /\ WSub(tail, cachedHead) <= Cap
  /\ Accept(v)
  /\ UNCHANGED <<buf, tail, tailVis, cachedHead, reserve, headVis, cvars, dropped>>

(* push, when the cached head already proves a slot free *)
PushCached(v) ==
  /\ ppc = "idle" /\ ~dropped
  /\ WSub(tail, cachedHead) < Cap
  /\ Accept(v)
  /\ UNCHANGED <<buf, tail, tailVis, cachedHead, reserve, headVis, cvars, dropped>>

(* push, when it must refresh the cached head first. It reports the ring   *)
(* full only if the refreshed value says so too; inside write_batch that   *)
(* would be the unreachable!() of line 364.                                *)
PushRefresh(v) ==
  /\ ppc = "idle" /\ ~dropped
  /\ WSub(tail, cachedHead) >= Cap
  /\ cachedHead' = headVis
  /\ IF WSub(tail, headVis) >= Cap
       THEN IF reserve > 0 THEN ppc' = "unreachable" /\ UNCHANGED pitem
                           ELSE UNCHANGED <<ppc, pitem>>
       ELSE Accept(v)
  /\ UNCHANGED <<buf, tail, tailVis, reserve, headVis, cvars, dropped>>

(* write_batch reserves min(limit, free space) and pushes exactly that many *)
ReserveBatch(limit) ==
  /\ ppc = "idle" /\ reserve = 0 /\ ~dropped
  /\ cachedHead' = headVis
  /\ LET free == Cap - WSub(tail, headVis)
     IN reserve' = IF limit < free THEN limit ELSE free
  /\ UNCHANGED <<buf, tail, tailVis, ppc, pitem, headVis, cvars, dropped>>

PushWrite ==
  /\ ppc = "write"
  /\ buf' = [buf EXCEPT ![Slot(tail)] = pitem]
  /\ ppc' = "publish"
  /\ UNCHANGED <<tail, tailVis, cachedHead, pitem, reserve, headVis, cvars, dropped>>

PushPublish ==
  /\ ppc = "publish"
  /\ tail' = WInc(tail)
  /\ reserve' = IF reserve > 0 THEN reserve - 1 ELSE 0
  /\ ppc' = "idle" /\ pitem' = Uninit
  /\ UNCHANGED <<buf, tailVis, cachedHead, headVis, cvars, dropped>>

-----------------------------------------------------------------------------
(* The consumer *)

PopCached ==
  /\ cpc = "idle" /\ ~dropped
  /\ head # cachedTail
  /\ cpc' = "read"
  /\ UNCHANGED <<buf, tailVis, headVis, pvars, head, cachedTail, dropped>>

MutPopRefreshBlind ==
  /\ cpc = "idle" /\ ~dropped
  /\ head = cachedTail
  /\ cachedTail' = tailVis
  /\ cpc' = "read"
  /\ UNCHANGED <<buf, tailVis, headVis, pvars, head, dropped>>

PopRefresh ==
  /\ cpc = "idle" /\ ~dropped
  /\ head = cachedTail
  /\ cachedTail' = tailVis
  /\ cpc' = IF head = tailVis THEN "idle" ELSE "read"
  /\ UNCHANGED <<buf, tailVis, headVis, pvars, head, dropped>>

(* assume_init_read moves the item out of the slot *)
PopRead ==
  /\ cpc = "read"
  /\ buf' = [buf EXCEPT ![Slot(head)] = Uninit]
  /\ cpc' = "publish"
  /\ UNCHANGED <<tailVis, headVis, pvars, head, cachedTail, dropped>>

PopPublish ==
  /\ cpc = "publish"
  /\ head' = WInc(head)
  /\ cpc' = "idle"
  /\ UNCHANGED <<buf, tailVis, headVis, pvars, cachedTail, dropped>>

-----------------------------------------------------------------------------
(* A store reaches the other side *)

FlushTail ==
  /\ tailVis # tail
  /\ tailVis' = WInc(tailVis)
  /\ UNCHANGED <<buf, headVis, pvars, cvars, dropped>>

FlushHead ==
  /\ headVis # head
  /\ headVis' = WInc(headVis)
  /\ UNCHANGED <<buf, tailVis, pvars, cvars, dropped>>

(* Drop for Ring pops until nothing is left. Both handles are gone: the    *)
(* reference count that got here has made every store visible.             *)
DropRing ==
  /\ ppc = "idle" /\ cpc = "idle" /\ ~dropped
  /\ buf' = [s \in 0 .. Phys - 1 |->
               IF \E i \in Index : WSub(i, head) < WSub(tail, head) /\ s = Slot(i)
                 THEN Uninit ELSE buf[s]]
  /\ head' = tail /\ cachedTail' = tail
  /\ tailVis' = tail
  /\ dropped' = TRUE
  /\ UNCHANGED <<pvars, headVis, cpc>>

Gone == dropped /\ UNCHANGED vars

Next ==
  \/ \E v \in Item : PushCached(v) \/ PushRefresh(v)
  \/ \E limit \in 1 .. Cap : ReserveBatch(limit)
  \/ PushWrite \/ PushPublish
  \/ PopCached \/ PopRefresh \/ PopRead \/ PopPublish
  \/ FlushTail \/ FlushHead \/ DropRing \/ Gone

Spec == Init /\ [][Next]_vars

-----------------------------------------------------------------------------
(* Every variable keeps its type; the two caches, the two published and    *)
(* the two owned indices are all usize values.                             *)
TypeOK ==
  /\ buf \in [0 .. Phys - 1 -> Item \cup {Uninit}]
  /\ tail \in Index /\ tailVis \in Index /\ cachedHead \in Index
  /\ head \in Index /\ headVis \in Index /\ cachedTail \in Index
  /\ ppc \in {"idle", "write", "publish", "unreachable"}
  /\ pitem \in Item \cup {Uninit}
  /\ ppc = "write" => pitem \in Item
  /\ reserve \in 0 .. Cap
  /\ cpc \in {"idle", "read", "publish"}
  /\ dropped \in BOOLEAN

(* Distance of an index from the oldest one anybody remembers *)
Dist(i) == WSub(i, cachedHead)

(* A stale value only under-reports: along the ring the six copies of the  *)
(* two indices always come in this order, and the whole span fits the      *)
(* capacity. This is what makes a cached index "always safe to trust"      *)
(* (ProducerSide::cached_head) although indices wrap around.               *)
IndicesOrdered ==
  /\ Dist(headVis) <= Dist(head)
  /\ Dist(head) <= Dist(cachedTail)
  /\ Dist(cachedTail) <= Dist(tailVis)
  /\ Dist(tailVis) <= Dist(tail)
  /\ Dist(tail) <= Cap

(* push never overwrites a value that was not popped (it would leak it)    *)
(* and pop never reads a slot that holds none, however the two overlap.    *)
SlotsExclusive ==
  /\ ppc = "write" => buf[Slot(tail)] = Uninit
  /\ cpc = "read"  => buf[Slot(head)] \in Item

(* The pushes write_batch makes inside the space producer_free_space       *)
(* proved free are never refused: its unreachable!() is unreachable.       *)
BatchNeverRefused == ppc # "unreachable"

(* Dropping the ring drops every item that was pushed and not popped.      *)
DropReleasesAll == dropped => \A s \in DOMAIN buf : buf[s] = Uninit

(* What the safety of the ring's unsafe code rests on *)
RingSafe == IndicesOrdered /\ SlotsExclusive /\ BatchNeverRefused /\ DropReleasesAll

-----------------------------------------------------------------------------
(* The ring implements the bounded FIFO with credits. The item leaves the  *)
(* queue when pop moves it out of its slot.                                *)
popped  == IF cpc = "publish" THEN 1 ELSE 0
items   == [i \in 1 .. WSub(tail, head) - popped |-> buf[Slot(head + popped + i - 1)]]
visible == WSub(tailVis, head) - popped
space   == Cap - WSub(tail, headVis)

Q == INSTANCE SpscQueue WITH q <- items, shown <- visible, credit <- space

(* Items come out in the order they went in, none lost or duplicated; a    *)
(* push is refused only without credit, a pop finds nothing only if no     *)
(* item is visible; visibility is never taken back.                        *)
ImplementsQueue == Q!QSpec
==============================================================================
