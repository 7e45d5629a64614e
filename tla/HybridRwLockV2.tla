--------------------------- MODULE HybridRwLockV2 ---------------------------
(***************************************************************************)
(* The reader-biased reader-writer lock of channels/src/sync/v2.rs.        *)
(* Readers count themselves in a slot while visible is set, and in the     *)
(* inner lock's word otherwise; a writer takes the inner lock, clears      *)
(* visible and waits for the slots to empty.                               *)
(*                                                                         *)
(* writeLocked, readers, pending and queued are the fields of the state    *)
(* word. The slot counts and visible are SeqCst where order matters, so    *)
(* steps interleave, one per access; the list and its nodes are touched    *)
(* under the list spinlock, which listLock holds across the accesses of    *)
(* one critical section. An attempt outside the list lock counts as one    *)
(* try (SPIN_YIELDS and POLL_ATTEMPTS are 1). How many fallback reads it   *)
(* takes to turn the slots on again is left open.                          *)
(***************************************************************************)
EXTENDS WaitList, FiniteSets, TLAPS

CONSTANTS Slots,         \* SLOTS
          Thread, Task,  \* blocking callers and callers of the futures
          SlotOf,        \* slot_index of each
          Budgets,       \* how many acquisitions each may ask for
          LostRaces,     \* whether every attempt of a spin may lose its race
          Drops,         \* phases in which write futures are dropped: "queued", "drain"
          NoOne

Proc == Thread \cup Task

VARIABLES writeLocked, readers, pending, queued, \* the state word
          visible, slots,    \* whether readers may use the slots; their counts
          list, listLock,    \* the wait list; who has its spinlock
          node, armed,       \* waiter nodes: state; handle not taken yet
          permit, handles,   \* wakes delivered; handles taken by a waker
          seen,              \* the word try_inner_write_pending has loaded
          mode, inSlot,      \* what a caller wants; its guard is a slot's
          at,                \* the slot a draining writer looks at
          pc, after,         \* place in the code; place after fix_flags
          ops                \* acquisitions left

word  == <<writeLocked, readers, pending, queued>>
bias  == <<visible, slots>>
nodes == <<list, listLock, node, armed, seen>>
wakes == <<permit, handles>>
local == <<mode, inSlot, at, after, ops>>
vars  == <<word, bias, nodes, wakes, local, pc>>

Init ==
  /\ writeLocked = FALSE /\ readers = 0 /\ pending = 0 /\ queued = FALSE
  /\ visible = TRUE /\ slots = [i \in 1..Slots |-> 0]
  /\ list = <<>> /\ listLock = NoOne /\ seen = NoOne
  /\ node = [p \in Proc |-> "WAITING"] /\ armed = [p \in Proc |-> FALSE]
  /\ permit = [p \in Proc |-> FALSE] /\ handles = [p \in Proc |-> {}]
  /\ mode = [p \in Proc |-> "read"] /\ inSlot = [p \in Proc |-> FALSE]
  /\ at = [p \in Proc |-> 1]
  /\ pc = [p \in Proc |-> "idle"] /\ after = [p \in Proc |-> "idle"]
  /\ ops \in Budgets

Go(p, l)   == pc' = [pc EXCEPT ![p] = l]
Writers(q) == {p \in Linked(q) : mode[p] = "write"}

\* A try_read or try_write that returns None leaves nothing behind; one that
\* succeeds is a read or a write that did.
Call(p, m) ==
  /\ pc[p] = "idle" /\ ops[p] > 0
  /\ ops' = [ops EXCEPT ![p] = @ - 1] /\ mode' = [mode EXCEPT ![p] = m]
  /\ inSlot' = [inSlot EXCEPT ![p] = FALSE]
  /\ Go(p, "contend")
  /\ UNCHANGED <<word, bias, nodes, wakes, at, after>>

-----------------------------------------------------------------------------
(* Readers: try_slot *)

LookVisible(p) ==
  /\ pc[p] = "contend" /\ mode[p] = "read"
  /\ Go(p, IF visible THEN "enter" ELSE "inner")
  /\ UNCHANGED <<word, bias, nodes, wakes, local>>

EnterSlot(p) ==
  /\ pc[p] = "enter"
  /\ slots' = [slots EXCEPT ![SlotOf[p]] = @ + 1]
  /\ Go(p, "confirm")
  /\ UNCHANGED <<word, visible, nodes, wakes, local>>

MutConfirmSlotBlind(p) ==
  /\ pc[p] = "confirm"
  /\ inSlot' = [inSlot EXCEPT ![p] = TRUE]
  /\ Go(p, IF p \in Linked(list) THEN "finish" ELSE "hold")
  /\ UNCHANGED <<word, bias, nodes, wakes, mode, at, after, ops>>

ConfirmSlot(p) ==
  /\ pc[p] = "confirm"
  /\ inSlot' = [inSlot EXCEPT ![p] = visible]
  /\ Go(p, IF ~visible THEN "leave" ELSE IF p \in Linked(list) THEN "finish" ELSE "hold")
  /\ UNCHANGED <<word, bias, nodes, wakes, mode, at, after, ops>>

LeaveSlot(p) ==
  /\ pc[p] = "leave"
  /\ slots' = [slots EXCEPT ![SlotOf[p]] = @ - 1]
  /\ Go(p, "inner")
  /\ UNCHANGED <<word, visible, nodes, wakes, local>>

-----------------------------------------------------------------------------
(* Readers: the inner lock *)

InnerLook(p) ==
  /\ pc[p] = "inner"
  /\ Go(p, IF writeLocked \/ pending > 0 THEN "queue" ELSE "add")
  /\ UNCHANGED <<word, bias, nodes, wakes, local>>

InnerAdd(p) ==
  /\ pc[p] = "add"
  /\ readers' = readers + 1
  /\ Go(p, IF writeLocked \/ pending > 0 THEN "backout" ELSE "count")
  /\ UNCHANGED <<writeLocked, pending, queued, bias, nodes, wakes, local>>

\* A writer may have gone to sleep on the transient count.
InnerBackOut(p) ==
  /\ pc[p] = "backout"
  /\ readers' = readers - 1
  /\ after' = [after EXCEPT ![p] = "queue"]
  /\ Go(p, IF readers = 1 /\ queued THEN "wake" ELSE "queue")
  /\ UNCHANGED <<writeLocked, pending, queued, bias, nodes, wakes, mode, inSlot, at, ops>>

\* count_fallback: enough fallbacks turn the slots on.
CountFallback(p) ==
  /\ pc[p] \in {"count", "won_read"}
  /\ visible' \in {visible, TRUE}
  /\ Go(p, IF pc[p] = "won_read" THEN "won" ELSE IF p \in Linked(list) THEN "finish" ELSE "hold")
  /\ UNCHANGED <<word, slots, nodes, wakes, local>>

-----------------------------------------------------------------------------
(* Writers: the inner lock *)

\* try_inner_write, or try_inner_write_pending for a writer that is linked
\* and counted. An attempt fails on a held lock, or when the word changes
\* between its load and its swap; then the writer goes on to queue.
TryWrite(p) ==
  /\ pc[p] = "contend" /\ mode[p] = "write"
  /\ \/ /\ ~writeLocked /\ readers = 0
        /\ writeLocked' = TRUE
        /\ IF p \in Linked(list) THEN pending' = pending - 1 /\ Go(p, "finish")
                                 ELSE Go(p, "drain") /\ UNCHANGED pending
     \/ /\ LostRaces \/ writeLocked \/ readers > 0
        /\ Go(p, "queue") /\ UNCHANGED <<writeLocked, pending>>
  /\ UNCHANGED <<readers, queued, bias, nodes, wakes, local>>

-----------------------------------------------------------------------------
(* Queueing, under the list lock *)

\* rearm and link_back; a writer counts itself pending when it links.
Link(p) ==
  /\ pc[p] = "queue" /\ listLock = NoOne
  /\ listLock' = p
  /\ node' = [node EXCEPT ![p] = "WAITING"] /\ armed' = [armed EXCEPT ![p] = TRUE]
  /\ list' = LinkBack(list, p)
  /\ pending' = IF mode[p] = "write" /\ p \notin Linked(list) THEN pending + 1 ELSE pending
  /\ Go(p, "flag")
  /\ UNCHANGED <<writeLocked, readers, queued, bias, seen, wakes, local>>

SetQueued(p) ==
  /\ pc[p] = "flag"
  /\ queued' = TRUE
  /\ Go(p, "recheck")
  /\ UNCHANGED <<writeLocked, readers, pending, bias, nodes, wakes, local>>

\* try_inner_read_queued
RecheckRead(p) ==
  /\ pc[p] = "recheck" /\ mode[p] = "read"
  /\ IF writeLocked \/ pending > 0
     THEN Go(p, "wait") /\ listLock' = NoOne /\ UNCHANGED readers
     ELSE readers' = readers + 1 /\ Go(p, "won_read") /\ UNCHANGED listLock
  /\ UNCHANGED <<writeLocked, pending, queued, bias, list, node, armed, seen, wakes, local>>

\* try_inner_write_pending: the load, and the one compare-exchange, which
\* fails on any change of the word.
RecheckWrite(p) ==
  /\ pc[p] = "recheck" /\ mode[p] = "write"
  /\ IF writeLocked \/ readers > 0
     THEN Go(p, "wait") /\ listLock' = NoOne /\ UNCHANGED seen
     ELSE seen' = word /\ Go(p, "swap") /\ UNCHANGED listLock
  /\ UNCHANGED <<word, bias, list, node, armed, wakes, local>>

Swap(p) ==
  /\ pc[p] = "swap"
  /\ seen' = NoOne
  /\ IF word = seen
     THEN /\ writeLocked' = TRUE /\ pending' = pending - 1
          /\ Go(p, "won") /\ UNCHANGED listLock
     ELSE Go(p, "wait") /\ listLock' = NoOne /\ UNCHANGED <<writeLocked, pending>>
  /\ UNCHANGED <<readers, queued, bias, list, node, armed, wakes, local>>

Entered(p) == IF mode[p] = "read" THEN "hold" ELSE "drain"

\* unlink and fix_flags of a winner, at the end of the same section ...
Won(p) ==
  /\ pc[p] = "won"
  /\ list' = Unlink(list, p) /\ queued' = (list' # <<>>) /\ listLock' = NoOne
  /\ Go(p, Entered(p))
  /\ UNCHANGED <<writeLocked, readers, pending, bias, node, armed, seen, wakes, local>>

\* ... or in one of its own: finish_node. A waker may have unlinked a reader.
FinishNode(p) ==
  /\ pc[p] = "finish" /\ listLock = NoOne
  /\ list' = Unlink(list, p)
  /\ queued' = IF p \in Linked(list) THEN list' # <<>> ELSE queued
  /\ Go(p, Entered(p))
  /\ UNCHANGED <<writeLocked, readers, pending, bias, listLock, node, armed, seen, wakes, local>>
-----------------------------------------------------------------------------
(* drain_slots, and the Drain phase of the write future *)

\* Slots that are off are taken to be empty.
Drain(p) ==
  /\ pc[p] = "drain"
  /\ visible' = FALSE
  /\ at' = [at EXCEPT ![p] = 1]
  /\ Go(p, IF visible THEN "scan" ELSE "hold")
  /\ UNCHANGED <<word, slots, nodes, wakes, mode, inSlot, after, ops>>

\* slots_clear stops at the first slot in use and starts over.
Scan(p) ==
  /\ pc[p] = "scan"
  /\ IF slots[at[p]] > 0 THEN at' = [at EXCEPT ![p] = 1] /\ UNCHANGED pc
     ELSE IF at[p] < Slots THEN at' = [at EXCEPT ![p] = @ + 1] /\ UNCHANGED pc
     ELSE Go(p, "hold") /\ UNCHANGED at
  /\ UNCHANGED <<word, bias, nodes, wakes, mode, inSlot, after, ops>>

-----------------------------------------------------------------------------
(* Waiting *)

CheckNode(p) ==
  /\ pc[p] = "wait" /\ p \in Thread
  /\ Go(p, IF node[p] = "WAITING" THEN "parked" ELSE "contend")
  /\ UNCHANGED <<word, bias, nodes, wakes, local>>

Unpark(p) ==
  /\ pc[p] = "parked" /\ permit[p]
  /\ permit' = [permit EXCEPT ![p] = FALSE]
  /\ Go(p, "wait")
  /\ UNCHANGED <<word, bias, nodes, handles, local>>

Poll(p) ==
  /\ pc[p] = "wait" /\ p \in Task /\ permit[p]
  /\ permit' = [permit EXCEPT ![p] = FALSE]
  /\ Go(p, "contend")
  /\ UNCHANGED <<word, bias, nodes, handles, local>>

SpuriousPoll(p) ==
  /\ pc[p] = "wait" /\ p \in Task /\ ~permit[p]
  /\ Go(p, "contend")
  /\ UNCHANGED <<word, bias, nodes, wakes, local>>

-----------------------------------------------------------------------------
(* Releasing, and dropping a future *)

UnlockSlot(p) ==
  /\ pc[p] = "hold" /\ mode[p] = "read" /\ inSlot[p]
  /\ slots' = [slots EXCEPT ![SlotOf[p]] = @ - 1]
  /\ Go(p, "idle")
  /\ UNCHANGED <<word, visible, nodes, wakes, local>>

UnlockRead(p) ==
  /\ pc[p] = "hold" /\ mode[p] = "read" /\ ~inSlot[p]
  /\ readers' = readers - 1
  /\ after' = [after EXCEPT ![p] = "idle"]
  /\ Go(p, IF readers = 1 /\ queued THEN "wake" ELSE "idle")
  /\ UNCHANGED <<writeLocked, pending, queued, bias, nodes, wakes, mode, inSlot, at, ops>>

ReleaseWrite(p) ==
  /\ writeLocked' = FALSE
  /\ after' = [after EXCEPT ![p] = "idle"]
  /\ Go(p, IF queued THEN "wake" ELSE "idle")
  /\ UNCHANGED <<readers, pending, queued, bias, nodes, wakes, mode, inSlot, at, ops>>

UnlockWrite(p) == pc[p] = "hold" /\ mode[p] = "write" /\ ReleaseWrite(p)

\* A queued writer takes itself out of the count, outside the list lock.
LeaveQueue(p) ==
  /\ pending' = IF mode[p] = "write" THEN pending - 1 ELSE pending
  /\ Go(p, "cancel")
  /\ UNCHANGED <<writeLocked, readers, queued, bias, nodes, wakes, local>>

MayDrop(p) ==
  \/ pc[p] = "wait" /\ (mode[p] = "write" => "queued" \in Drops)
  \/ pc[p] = "scan" /\ at[p] = 1 /\ "drain" \in Drops

\* A pending future is dropped; one that was draining the slots unlocks.
Cancel(p) ==
  /\ p \in Task /\ MayDrop(p)
  /\ IF pc[p] = "scan" THEN ReleaseWrite(p) ELSE LeaveQueue(p)

\* Then the node leaves the list, and a wake it has received is passed on.
CancelNode(p) ==
  /\ pc[p] = "cancel" /\ listLock = NoOne
  /\ list' = Unlink(list, p)
  /\ queued' = IF p \in Linked(list) THEN list' # <<>> ELSE queued
  /\ after' = [after EXCEPT ![p] = "idle"]
  /\ Go(p, IF node[p] = "WOKEN" THEN "wake" ELSE "idle")
  /\ UNCHANGED <<writeLocked, readers, pending, bias, listLock, node, armed, seen, wakes,
                 mode, inSlot, at, ops>>

\* take_and_mark_woken for every node of S.
MarkWoken(p, S) ==
  /\ node' = [q \in Proc |-> IF q \in S THEN "WOKEN" ELSE node[q]]
  /\ armed' = [q \in Proc |-> armed[q] /\ q \notin S]
  /\ handles' = [handles EXCEPT ![p] = {q \in S : armed[q]}]
  /\ Go(p, IF \E q \in S : armed[q] THEN "signal" ELSE after[p])

\* The first queued writer is woken and stays linked; with no writer queued
\* every reader is unlinked and woken.
WakeWaiters(p) ==
  /\ pc[p] = "wake" /\ listLock = NoOne
  /\ IF Writers(list) # {}
     THEN MarkWoken(p, {FirstIn(list, Writers(list))}) /\ UNCHANGED <<list, queued>>
     ELSE MarkWoken(p, Linked(list)) /\ list' = <<>> /\ queued' = FALSE
  /\ UNCHANGED <<writeLocked, readers, pending, bias, listLock, seen, permit, local>>

Signal(p) ==
  /\ pc[p] = "signal"
  /\ \E w \in handles[p] :
       /\ permit' = [permit EXCEPT ![w] = TRUE]
       /\ handles' = [handles EXCEPT ![p] = @ \ {w}]
       /\ Go(p, IF handles[p] = {w} THEN after[p] ELSE "signal")
  /\ UNCHANGED <<word, bias, nodes, local>>

-----------------------------------------------------------------------------
ReadStep(p)  == LookVisible(p) \/ EnterSlot(p) \/ ConfirmSlot(p) \/ LeaveSlot(p)
                \/ InnerLook(p) \/ InnerAdd(p) \/ InnerBackOut(p) \/ CountFallback(p)
WriteStep(p) == TryWrite(p) \/ Drain(p) \/ Scan(p)
QueueStep(p) == Link(p) \/ SetQueued(p) \/ RecheckRead(p) \/ RecheckWrite(p) \/ Swap(p)
                \/ Won(p) \/ FinishNode(p)
WaitStep(p)  == CheckNode(p) \/ Unpark(p) \/ Poll(p) \/ CancelNode(p)
FreeStep(p)  == UnlockSlot(p) \/ UnlockRead(p) \/ UnlockWrite(p) \/ WakeWaiters(p) \/ Signal(p)

Step(p) == ReadStep(p) \/ WriteStep(p) \/ QueueStep(p) \/ WaitStep(p) \/ FreeStep(p)

Choice(p) == (\E m \in {"read", "write"} : Call(p, m)) \/ SpuriousPoll(p) \/ Cancel(p)

Next == \E p \in Proc : Step(p) \/ Choice(p)

Spec == Init /\ [][Next]_vars

-----------------------------------------------------------------------------
Holds(p, m) == pc[p] = "hold" /\ mode[p] = m

TypeOK ==
  /\ writeLocked \in BOOLEAN /\ readers \in Nat /\ pending \in Nat /\ queued \in BOOLEAN
  /\ visible \in BOOLEAN /\ slots \in [1..Slots -> Nat]
  /\ listLock \in Proc \cup {NoOne} /\ Linked(list) \subseteq Proc
  /\ node \in [Proc -> {"WAITING", "WOKEN"}] /\ armed \in [Proc -> BOOLEAN]
  /\ permit \in [Proc -> BOOLEAN] /\ handles \in [Proc -> SUBSET Proc]
  /\ mode \in [Proc -> {"read", "write"}] /\ inSlot \in [Proc -> BOOLEAN]
  /\ at \in [Proc -> 1..Slots] /\ ops \in [Proc -> Nat]

(* A writer's guard excludes every other guard, those of readers in slots  *)
(* included: "either the writer sees the slot or the reader sees the       *)
(* cleared flag" (v2.rs:21), and slots that are off are empty.             *)
Exclusion ==
  \A p, q \in Proc : (Holds(p, "write") /\ pc[q] = "hold") => p = q

InnerReaders ==
  {p \in Proc : pc[p] \in {"count", "backout", "won_read"}
                \/ (mode[p] = "read" /\ ~inSlot[p] /\ pc[p] \in {"hold", "finish", "won"})}
SlotReaders(i) ==
  {p \in Proc : SlotOf[p] = i /\ (pc[p] \in {"confirm", "leave"}
                                  \/ (mode[p] = "read" /\ inSlot[p] /\ pc[p] \in {"hold", "finish"}))}

Waiting == {p \in Writers(list) : pc[p] \notin {"won", "finish", "cancel"}}

(* The variables keep their types and every count is the number of those   *)
(* it stands for. PENDING_MASK counts the writers in the list that have    *)
(* not won and are not leaving: a count left behind would turn every       *)
(* reader away for good, one too few would let readers starve a queued     *)
(* writer. A reader is in its slot or in the state word, never in both.    *)
CountsExact ==
  /\ TypeOK
  /\ pending = Cardinality(Waiting)
  /\ readers = Cardinality(InnerReaders)
  /\ \A i \in 1..Slots : slots[i] = Cardinality(SlotReaders(i))

(* While the inner lock is free and somebody sleeps in the list, somebody  *)
(* is awake that will take it or wake the next, also when a queued         *)
(* writer's only compare-exchange failed on a word that was free           *)
(* (v2.rs:17: Pending or parking only follows a re-check that saw a live   *)
(* holder).                                                                *)
WakeOwed ==
  (~writeLocked /\ readers = 0 /\ \E p \in Linked(list) : pc[p] \in {"wait", "parked"}) =>
    \/ \E p \in Proc : pc[p] = "wake"
    \/ \E p \in Linked(list) : pc[p] \notin {"wait", "parked"} \/ node[p] = "WOKEN"
    \/ \E p \in Linked(list) \cap Task : permit[p] \/ \E q \in Proc : p \in handles[q]

(* A call waits for the lock; it has it, or its future was dropped. *)
Contends(p) == pc[p] = "contend"
Settled(p)  == pc[p] \in {"hold", "idle"}

-----------------------------------------------------------------------------
(* Proofs of Exclusion and CountsExact. Exclusion is not inductive: the    *)
(* invariant says who has the inner lock and that a reader counted beside  *)
(* a writer is backing out (InnerInv), that a confirmed guard in a slot    *)
(* is ahead of the writer that scans (SlotInv), and that a count of zero   *)
(* is a set of nobody (Counts).                                            *)

\* What the proofs ask of the constants: finitely many callers, each with a slot.
Constants ==
  /\ IsFiniteSet(Proc) /\ NoOne \notin Proc
  /\ Slots \in Nat \ {0} /\ SlotOf \in [Proc -> 1..Slots]
  /\ Budgets \subseteq [Proc -> Nat]

\* What they use of FiniteSetTheorems (CountingHolds).
Counting ==
  /\ IsFiniteSet({}) /\ Cardinality({}) = 0
  /\ \A S : IsFiniteSet(S) => Cardinality(S) \in Nat /\ (Cardinality(S) = 0 => S = {})
  /\ \A S, T : IsFiniteSet(T) /\ S \subseteq T => IsFiniteSet(S)
  /\ \A S, x : IsFiniteSet(S) /\ x \notin S => Cardinality(S \cup {x}) = Cardinality(S) + 1
  /\ \A S, x : IsFiniteSet(S) /\ x \in S => Cardinality(S \ {x}) = Cardinality(S) - 1

\* The places in the code.
Pcs == {"idle", "contend", "enter", "confirm", "leave", "inner", "add", "backout", "count",
        "won_read", "queue", "flag", "recheck", "swap", "won", "finish", "drain", "scan", "hold",
        "wait", "parked", "cancel", "wake", "signal"}

\* A caller's place in the code goes with what it wants and where its guard is.
PlaceInv ==
  /\ pc \in [Proc -> Pcs] /\ after \in [Proc -> {"idle", "queue"}]
  /\ mode \in [Proc -> {"read", "write"}] /\ inSlot \in [Proc -> BOOLEAN]
  /\ at \in [Proc -> 1..Slots] /\ slots \in [1..Slots -> Nat] /\ readers \in Nat
  /\ writeLocked \in BOOLEAN /\ visible \in BOOLEAN
  /\ \A p \in Proc :
       /\ pc[p] \in {"enter", "confirm", "leave", "inner", "add", "backout", "count", "won_read"} =>
            mode[p] = "read"
       /\ pc[p] \in {"swap", "drain", "scan"} => mode[p] = "write"
       /\ inSlot[p] => mode[p] = "read" /\ pc[p] \in {"idle", "hold", "finish"}

\* The list lock covers what a caller does between linking its node and sleeping.
SectionInv ==
  \A p \in Proc : /\ pc[p] \in {"flag", "recheck", "swap", "won", "won_read"} => listLock = p
                  /\ pc[p] = "swap" => ~seen[1] /\ seen[2] = 0

WriterIn(p) == mode[p] = "write" /\ pc[p] \in {"finish", "won", "drain", "scan", "hold"}

\* One writer has the inner lock, and the readers it counts are backing out.
InnerInv ==
  \A p \in Proc : WriterIn(p) =>
    /\ writeLocked
    /\ \A q \in Proc : WriterIn(q) => q = p
    /\ \A q \in InnerReaders : pc[q] = "backout"

Confirmed(q) == inSlot[q] /\ pc[q] \in {"hold", "finish"}

\* Slots that are off are empty of guards, up to the ones a writer still drains.
SlotInv ==
  /\ \A p \in Proc : WriterIn(p) /\ pc[p] \in {"scan", "hold"} => ~visible
  /\ ~visible /\ (\A p \in Proc : pc[p] # "scan") => \A q \in Proc : ~Confirmed(q)
  /\ \A p, q \in Proc : pc[p] = "scan" /\ Confirmed(q) => at[p] <= SlotOf[q]

Counts == readers = Cardinality(InnerReaders) /\ \A i \in 1..Slots : slots[i] = Cardinality(SlotReaders(i))

Inv == PlaceInv /\ SectionInv /\ InnerInv /\ Counts

\* A step is tried with Zenon first; those that need arithmetic, sequences or
\* records cite SMT.
USE ZenonT(30), SMTT(30)

\* Exclusion follows: a reader with a guard is counted or confirmed.
LEMMA ExclusionHolds == Constants /\ Counting /\ Inv /\ SlotInv => Exclusion
<1>. SUFFICES ASSUME Inv, SlotInv, NEW p \in Proc, NEW q \in Proc, Holds(p, "write"), pc[q] = "hold"
              PROVE  p = q
  BY DEF Exclusion
<1>1. WriterIn(p) /\ ~visible /\ \A r \in Proc : pc[r] # "scan"
  BY DEF Inv, SlotInv, InnerInv, WriterIn, Holds, PlaceInv
<1>2. ~Confirmed(q)
  BY <1>1 DEF Inv, SlotInv
<1>3. CASE mode[q] = "write"
  BY <1>1, <1>3 DEF Inv, InnerInv, WriterIn
<1>4. CASE mode[q] # "write"
  <2>1. mode[q] = "read" /\ ~inSlot[q]
    BY <1>2, <1>4 DEF Inv, PlaceInv, Confirmed
  <2>2. q \in InnerReaders
    BY <2>1 DEF InnerReaders
  <2>. QED BY <1>1, <2>2 DEF Inv, InnerInv
<1>. QED BY <1>3, <1>4

\* A new lock is free, with empty slots that are on.
LEMMA InitInv == Constants /\ Counting /\ Init => Inv /\ SlotInv
<1>. SUFFICES ASSUME Constants, Counting, Init PROVE Inv /\ SlotInv
  OBVIOUS
<1>0. \A p \in Proc : pc[p] = "idle" /\ mode[p] = "read" /\ ~inSlot[p]
  BY DEF Init
<1>1. PlaceInv /\ SectionInv /\ InnerInv /\ SlotInv
  <2>1. pc \in [Proc -> Pcs] /\ after \in [Proc -> {"idle", "queue"}]
    BY DEF Init, Pcs
  <2>2. mode \in [Proc -> {"read", "write"}] /\ inSlot \in [Proc -> BOOLEAN]
    BY DEF Init
  <2>3. at \in [Proc -> 1..Slots] /\ slots \in [1..Slots -> Nat] /\ readers \in Nat
    BY SMTT(30) DEF Init, Constants
  <2>4. writeLocked \in BOOLEAN /\ visible \in BOOLEAN
    BY DEF Init
  <2>5. PlaceInv
    BY <1>0, <2>1, <2>2, <2>3, <2>4 DEF PlaceInv
  <2>. QED BY <1>0, <2>5 DEF SectionInv, InnerInv, WriterIn, SlotInv, Confirmed
<1>2. InnerReaders = {} /\ \A i \in 1..Slots : SlotReaders(i) = {}
  BY DEF Init, InnerReaders, SlotReaders
<1>3. Counts
  BY <1>2 DEF Counting, Init, Counts
<1>. QED BY <1>1, <1>3 DEF Inv

\* One more, or one less.
LEMMA Counted ==
  ASSUME Counting, NEW S, NEW T, NEW p, IsFiniteSet(S), \A q : q # p => (q \in T <=> q \in S)
  PROVE  /\ Cardinality(S) \in Nat /\ Cardinality(T) \in Nat
         /\ p \in T /\ p \notin S => Cardinality(T) = Cardinality(S) + 1
         /\ p \notin T /\ p \in S => Cardinality(T) = Cardinality(S) - 1
         /\ (p \in T <=> p \in S) => T = S
<1>1. CASE p \in T /\ p \notin S
  <2>1. T = S \cup {p}
    BY <1>1
  <2>. QED BY <1>1, <2>1, SMTT(30) DEF Counting
<1>2. CASE p \notin T /\ p \in S
  <2>1. T = S \ {p}
    BY <1>2
  <2>. QED BY <1>2, <2>1 DEF Counting
<1>3. CASE p \in T <=> p \in S
  <2>1. T = S
    BY <1>3, SMTT(30)
  <2>. QED BY <1>3, <2>1 DEF Counting
<1>. QED BY <1>1, <1>2, <1>3

\* Nobody is counted or uncounted but `p`.
LEMMA CountsKept ==
  ASSUME Constants, Counting, Inv, NEW p \in Proc,
         \A q \in Proc : q # p => (q \in InnerReaders' <=> q \in InnerReaders),
         \A q \in Proc, i \in 1..Slots : q # p => (q \in SlotReaders(i)' <=> q \in SlotReaders(i)),
         \/ p \in InnerReaders' /\ p \notin InnerReaders /\ readers' = readers + 1
         \/ p \notin InnerReaders' /\ p \in InnerReaders /\ readers' = readers - 1
         \/ (p \in InnerReaders' <=> p \in InnerReaders) /\ readers' = readers,
         \A i \in 1..Slots :
           \/ p \in SlotReaders(i)' /\ p \notin SlotReaders(i) /\ slots'[i] = slots[i] + 1
           \/ p \notin SlotReaders(i)' /\ p \in SlotReaders(i) /\ slots'[i] = slots[i] - 1
           \/ (p \in SlotReaders(i)' <=> p \in SlotReaders(i)) /\ slots'[i] = slots[i]
  PROVE  /\ Counts' /\ readers' \in Nat /\ \A i \in 1..Slots : slots'[i] \in Nat
<1>1. IsFiniteSet(Proc) /\ InnerReaders \subseteq Proc /\ InnerReaders' \subseteq Proc
  BY DEF Constants, InnerReaders
<1>2. readers' = Cardinality(InnerReaders') /\ readers' \in Nat
  <2>1. IsFiniteSet(InnerReaders) /\ readers \in Nat /\ readers = Cardinality(InnerReaders)
    BY <1>1 DEF Counting, Inv, PlaceInv, Counts
  <2>. DEFINE S == InnerReaders
              T == InnerReaders'
              n == readers
              m == readers'
  <2>2. /\ \A q : q # p => (q \in T <=> q \in S)
        /\ \/ p \in T /\ p \notin S /\ m = n + 1
           \/ p \notin T /\ p \in S /\ m = n - 1
           \/ (p \in T <=> p \in S) /\ m = n
    BY <1>1
  <2>3. IsFiniteSet(S) /\ n \in Nat /\ n = Cardinality(S)
    BY <2>1
  <2>. HIDE DEF S, T, n, m
  <2>4. /\ Cardinality(S) \in Nat /\ Cardinality(T) \in Nat
        /\ p \in T /\ p \notin S => Cardinality(T) = Cardinality(S) + 1
        /\ p \notin T /\ p \in S => Cardinality(T) = Cardinality(S) - 1
        /\ (p \in T <=> p \in S) => T = S
    BY ONLY Counting, <2>2, <2>3, Counted
  <2>5. m = Cardinality(T) /\ m \in Nat
    BY ONLY <2>2, <2>3, <2>4
  <2>. QED BY <2>5 DEF T, m
<1>3. ASSUME NEW i \in 1..Slots
      PROVE  slots'[i] = Cardinality(SlotReaders(i)') /\ slots'[i] \in Nat
  <2>1. SlotReaders(i) \subseteq Proc /\ SlotReaders(i)' \subseteq Proc
    BY DEF SlotReaders
  <2>2. IsFiniteSet(SlotReaders(i)) /\ slots[i] \in Nat /\ slots[i] = Cardinality(SlotReaders(i))
    BY <1>1, <2>1 DEF Counting, Inv, PlaceInv, Counts
  <2>. DEFINE S == SlotReaders(i)
              T == SlotReaders(i)'
              n == slots[i]
              m == slots'[i]
  <2>3. /\ \A q : q # p => (q \in T <=> q \in S)
        /\ \/ p \in T /\ p \notin S /\ m = n + 1
           \/ p \notin T /\ p \in S /\ m = n - 1
           \/ (p \in T <=> p \in S) /\ m = n
    BY <2>1
  <2>4. IsFiniteSet(S) /\ n \in Nat /\ n = Cardinality(S)
    BY <2>2
  <2>. HIDE DEF S, T, n, m
  <2>5. /\ Cardinality(S) \in Nat /\ Cardinality(T) \in Nat
        /\ p \in T /\ p \notin S => Cardinality(T) = Cardinality(S) + 1
        /\ p \notin T /\ p \in S => Cardinality(T) = Cardinality(S) - 1
        /\ (p \in T <=> p \in S) => T = S
    BY ONLY Counting, <2>3, <2>4, Counted
  <2>6. m = Cardinality(T) /\ m \in Nat
    BY ONLY <2>3, <2>4, <2>5
  <2>. QED BY <2>6 DEF T, m
<1>. QED BY <1>2, <1>3 DEF Counts

Section == {"flag", "recheck", "swap", "won", "won_read"}

\* A step keeps the section to the holder of the list lock.
LEMMA SectionKept ==
  ASSUME Constants, Counting, Inv, NEW p \in Proc, NEW l, Go(p, l), l \in Section => listLock' = p,
         listLock' = listLock \/ listLock \in {NoOne, p},
         l = "swap" => ~seen'[1] /\ seen'[2] = 0,
         seen' = seen \/ listLock = p
  PROVE  SectionInv'
BY DEF Inv, Go, PlaceInv, SectionInv, Section, Constants

\* No step but a writer's own lets a writer in, and a reader that joins the
\* count of a held lock is on its way out.
LEMMA InnerKept ==
  ASSUME Inv, NEW p \in Proc, NEW l, Go(p, l), UNCHANGED writeLocked,
         \A q \in Proc : q # p => mode'[q] = mode[q] /\ (q \in InnerReaders' <=> q \in InnerReaders),
         mode'[p] = "write" /\ l \in {"finish", "won", "drain", "scan", "hold"} => WriterIn(p),
         p \in InnerReaders' => \/ l = "backout" \/ ~writeLocked
                                \/ p \in InnerReaders /\ pc[p] # "backout"
  PROVE  InnerInv'
<1>1. pc'[p] = l /\ \A q \in Proc : q # p => pc'[q] = pc[q]
  BY DEF Inv, Go, PlaceInv
<1>2. \A q \in Proc : WriterIn(q)' => WriterIn(q)
  BY <1>1 DEF WriterIn
<1>. SUFFICES ASSUME NEW w \in Proc, WriterIn(w)'
              PROVE  /\ writeLocked' /\ \A q \in Proc : WriterIn(q)' => q = w
                     /\ \A q \in InnerReaders' : pc'[q] = "backout"
  BY DEF InnerInv
<1>3. writeLocked /\ (\A q \in Proc : WriterIn(q) => q = w) /\ \A q \in InnerReaders : pc[q] = "backout"
  BY <1>2 DEF Inv, InnerInv
<1>4. ASSUME NEW q \in InnerReaders' PROVE pc'[q] = "backout"
  <2>1. q \in Proc
    BY DEF InnerReaders
  <2>2. CASE q = p
    BY <1>1, <1>3, <2>2
  <2>3. CASE q # p
    BY <1>1, <1>3, <2>1, <2>3
  <2>. QED BY <2>2, <2>3
<1>. QED BY <1>2, <1>3, <1>4

\* Places of a caller without the lock that no counter knows of.
Outside == {"idle", "contend", "enter", "inner", "add", "queue", "flag", "recheck", "swap",
            "wait", "parked", "cancel", "wake", "signal"}

LEMMA OutsideMoves ==
  ASSUME Constants, Counting, Inv, NEW p \in Proc, NEW l \in Outside, pc[p] \in Outside, Go(p, l), ~inSlot[p],
         UNCHANGED <<writeLocked, readers, bias, mode, inSlot, at>>,
         after' \in [Proc -> {"idle", "queue"}],
         l \in {"enter", "inner", "add"} => mode[p] = "read",
         l = "swap" => mode[p] = "write"
  PROVE  PlaceInv' /\ InnerInv' /\ Counts' /\ (SlotInv => SlotInv')
<1>. USE DEF Inv, Go, Outside, bias
<1>1. PlaceInv'
  BY DEF PlaceInv, Pcs
<1>2. /\ \A q \in Proc : (q \in InnerReaders' <=> q \in InnerReaders)
      /\ \A q \in Proc, i \in 1..Slots : (q \in SlotReaders(i)' <=> q \in SlotReaders(i))
  BY DEF PlaceInv, InnerReaders, SlotReaders
<1>3. Counts'
  BY <1>2, CountsKept
<1>4. InnerInv'
  BY <1>2, InnerKept DEF PlaceInv, WriterIn
<1>5. SlotInv => SlotInv'
  BY DEF PlaceInv, SlotInv, WriterIn, Confirmed
<1>. QED BY <1>1, <1>3, <1>4, <1>5

\* Readers: try_slot and the inner lock.
LEMMA ReadKeeps ==
  ASSUME Constants, Counting, Inv, NEW p \in Proc, ReadStep(p)
  PROVE  Inv' /\ (SlotInv => SlotInv')
<1>. USE DEF Inv, Go, word, bias, nodes, wakes, local
<1>1. CASE LookVisible(p)
  <2>1. PICK l \in {"enter", "inner"} : Go(p, l)
    BY <1>1 DEF LookVisible
  <2>2. /\ pc[p] = "contend" /\ mode[p] = "read" /\ ~inSlot[p] /\ UNCHANGED <<after, listLock, seen>>
        /\ after \in [Proc -> {"idle", "queue"}]
        /\ UNCHANGED <<writeLocked, readers, bias, mode, inSlot, at>>
    BY <1>1 DEF LookVisible, PlaceInv
  <2>. QED BY <2>1, <2>2, OutsideMoves, SectionKept DEF Outside, Section
<1>2. CASE EnterSlot(p)
  <2>1. PICK i \in 1..Slots : i = SlotOf[p]
    BY DEF Constants
  <2>2. /\ pc[p] = "enter" /\ mode[p] = "read" /\ ~inSlot[p] /\ Go(p, "confirm")
        /\ slots' = [slots EXCEPT ![i] = @ + 1]
        /\ UNCHANGED <<writeLocked, readers, visible, mode, inSlot, at, after, listLock, seen>>
    BY <1>2, <2>1 DEF EnterSlot, PlaceInv
  <2>3. SectionInv'
    BY <2>2, SectionKept DEF Section
  <2>4. /\ \A q \in Proc : (q \in InnerReaders' <=> q \in InnerReaders)
        /\ \A q \in Proc, j \in 1..Slots : q # p \/ j # i => (q \in SlotReaders(j)' <=> q \in SlotReaders(j))
        /\ p \in SlotReaders(i)' /\ p \notin SlotReaders(i)
    BY <2>1, <2>2 DEF PlaceInv, InnerReaders, SlotReaders
  <2>5. \A j \in 1..Slots : slots'[j] = IF j = i THEN slots[j] + 1 ELSE slots[j]
    BY <2>2 DEF PlaceInv
  <2>6. Counts'
    BY <2>2, <2>4, <2>5, CountsKept
  <2>7. slots' \in [1..Slots -> Nat]
    <3>1. slots \in [1..Slots -> Nat] /\ slots[i] + 1 \in Nat
      BY SMTT(30) DEF PlaceInv
    <3>. QED BY <2>2, <3>1
  <2>8. PlaceInv'
    BY <2>2, <2>7 DEF PlaceInv, Pcs
  <2>9. InnerInv'
    BY <2>2, <2>4, InnerKept DEF PlaceInv, WriterIn
  <2>10. SlotInv => SlotInv'
    BY <2>2 DEF PlaceInv, SlotInv, WriterIn, Confirmed
  <2>. QED BY <2>3, <2>6, <2>8, <2>9, <2>10
<1>3. CASE ConfirmSlot(p)
  <2>1. PICK l \in {"leave", "finish", "hold"} : Go(p, l) /\ (l = "leave" <=> ~visible)
    BY <1>3 DEF ConfirmSlot
  <2>2. /\ pc[p] = "confirm" /\ mode[p] = "read" /\ ~inSlot[p] /\ inSlot' = [inSlot EXCEPT ![p] = visible]
        /\ UNCHANGED <<writeLocked, readers, visible, slots, mode, at, after, listLock, seen>>
    BY <1>3 DEF ConfirmSlot, PlaceInv
  <2>3. SectionInv'
    BY <2>1, <2>2, SectionKept DEF Section
  <2>4. /\ \A q \in Proc : (q \in InnerReaders' <=> q \in InnerReaders)
        /\ \A q \in Proc, j \in 1..Slots : (q \in SlotReaders(j)' <=> q \in SlotReaders(j))
    BY <2>1, <2>2 DEF PlaceInv, InnerReaders, SlotReaders
  <2>5. Counts'
    BY <2>2, <2>4, CountsKept
  <2>6. PlaceInv'
    BY <2>1, <2>2 DEF PlaceInv, Pcs
  <2>7. InnerInv'
    BY <2>1, <2>2, <2>4, InnerKept DEF PlaceInv, WriterIn
  <2>8. SlotInv => SlotInv'
    BY <2>1, <2>2 DEF PlaceInv, SlotInv, WriterIn, Confirmed
  <2>. QED BY <2>3, <2>5, <2>6, <2>7, <2>8
<1>4. CASE LeaveSlot(p)
  <2>1. PICK i \in 1..Slots : i = SlotOf[p]
    BY DEF Constants
  <2>2. /\ pc[p] = "leave" /\ mode[p] = "read" /\ ~inSlot[p] /\ Go(p, "inner")
        /\ slots' = [slots EXCEPT ![i] = @ - 1]
        /\ UNCHANGED <<writeLocked, readers, visible, mode, inSlot, at, after, listLock, seen>>
    BY <1>4, <2>1 DEF LeaveSlot, PlaceInv
  <2>3. SectionInv'
    BY <2>2, SectionKept DEF Section
  <2>4. /\ \A q \in Proc : (q \in InnerReaders' <=> q \in InnerReaders)
        /\ \A q \in Proc, j \in 1..Slots : q # p \/ j # i => (q \in SlotReaders(j)' <=> q \in SlotReaders(j))
        /\ p \notin SlotReaders(i)' /\ p \in SlotReaders(i)
    BY <2>1, <2>2 DEF PlaceInv, InnerReaders, SlotReaders
  <2>5. \A j \in 1..Slots : slots'[j] = IF j = i THEN slots[j] - 1 ELSE slots[j]
    BY <2>2 DEF PlaceInv
  <2>6. Counts' /\ \A j \in 1..Slots : slots'[j] \in Nat
    BY <2>2, <2>4, <2>5, CountsKept
  <2>7. slots' \in [1..Slots -> Nat]
    BY <2>2, <2>6 DEF PlaceInv
  <2>8. PlaceInv'
    BY <2>2, <2>7 DEF PlaceInv, Pcs
  <2>9. InnerInv'
    BY <2>2, <2>4, InnerKept DEF PlaceInv, WriterIn
  <2>10. SlotInv => SlotInv'
    BY <2>2 DEF PlaceInv, SlotInv, WriterIn, Confirmed
  <2>. QED BY <2>3, <2>6, <2>8, <2>9, <2>10
<1>5. CASE InnerLook(p)
  <2>1. PICK l \in {"queue", "add"} : Go(p, l)
    BY <1>5 DEF InnerLook
  <2>2. /\ pc[p] = "inner" /\ mode[p] = "read" /\ ~inSlot[p] /\ UNCHANGED <<after, listLock, seen>>
        /\ after \in [Proc -> {"idle", "queue"}]
        /\ UNCHANGED <<writeLocked, readers, bias, mode, inSlot, at>>
    BY <1>5 DEF InnerLook, PlaceInv
  <2>. QED BY <2>1, <2>2, OutsideMoves, SectionKept DEF Outside, Section
<1>6. CASE InnerAdd(p)
  <2>1. PICK l \in {"backout", "count"} : Go(p, l) /\ (writeLocked => l = "backout")
    BY <1>6 DEF InnerAdd
  <2>2. /\ pc[p] = "add" /\ mode[p] = "read" /\ ~inSlot[p] /\ readers' = readers + 1
        /\ UNCHANGED <<writeLocked, visible, slots, mode, inSlot, at, after, listLock, seen>>
    BY <1>6 DEF InnerAdd, PlaceInv
  <2>3. SectionInv'
    BY <2>1, <2>2, SectionKept DEF Section
  <2>4. /\ \A q \in Proc : q # p => (q \in InnerReaders' <=> q \in InnerReaders)
        /\ \A q \in Proc, j \in 1..Slots : (q \in SlotReaders(j)' <=> q \in SlotReaders(j))
        /\ p \in InnerReaders' /\ p \notin InnerReaders
    BY <2>1, <2>2 DEF PlaceInv, InnerReaders, SlotReaders
  <2>5. Counts' /\ readers' \in Nat
    BY <2>2, <2>4, CountsKept
  <2>6. PlaceInv'
    BY <2>1, <2>2, <2>5 DEF PlaceInv, Pcs
  <2>7. InnerInv'
    BY <2>1, <2>2, <2>4, InnerKept DEF PlaceInv, WriterIn
  <2>8. SlotInv => SlotInv'
    BY <2>1, <2>2 DEF PlaceInv, SlotInv, WriterIn, Confirmed
  <2>. QED BY <2>3, <2>5, <2>6, <2>7, <2>8
<1>7. CASE InnerBackOut(p)
  <2>1. PICK l \in {"wake", "queue"} : Go(p, l)
    BY <1>7 DEF InnerBackOut
  <2>2. /\ pc[p] = "backout" /\ mode[p] = "read" /\ ~inSlot[p] /\ readers' = readers - 1
        /\ after' = [after EXCEPT ![p] = "queue"]
        /\ UNCHANGED <<writeLocked, visible, slots, mode, inSlot, at, listLock, seen>>
    BY <1>7 DEF InnerBackOut, PlaceInv
  <2>3. SectionInv'
    BY <2>1, <2>2, SectionKept DEF Section
  <2>4. /\ \A q \in Proc : q # p => (q \in InnerReaders' <=> q \in InnerReaders)
        /\ \A q \in Proc, j \in 1..Slots : (q \in SlotReaders(j)' <=> q \in SlotReaders(j))
        /\ p \notin InnerReaders' /\ p \in InnerReaders
    BY <2>1, <2>2 DEF PlaceInv, InnerReaders, SlotReaders
  <2>5. Counts' /\ readers' \in Nat
    BY <2>2, <2>4, CountsKept
  <2>6. PlaceInv'
    BY <2>1, <2>2, <2>5 DEF PlaceInv, Pcs
  <2>7. InnerInv'
    BY <2>1, <2>2, <2>4, InnerKept DEF PlaceInv, WriterIn
  <2>8. SlotInv => SlotInv'
    BY <2>1, <2>2 DEF PlaceInv, SlotInv, WriterIn, Confirmed
  <2>. QED BY <2>3, <2>5, <2>6, <2>7, <2>8
<1>8. CASE CountFallback(p)
  <2>1. PICK l \in {"won", "finish", "hold"} : Go(p, l) /\ (l = "won" <=> pc[p] = "won_read")
    BY <1>8 DEF CountFallback
  <2>2. /\ pc[p] \in {"count", "won_read"} /\ mode[p] = "read" /\ ~inSlot[p] /\ visible' \in {visible, TRUE}
        /\ UNCHANGED <<writeLocked, readers, slots, mode, inSlot, at, after, listLock, seen>>
    BY <1>8 DEF CountFallback, PlaceInv
  <2>3. SectionInv'
    BY <2>1, <2>2, SectionKept DEF Section, SectionInv
  <2>4. /\ \A q \in Proc : (q \in InnerReaders' <=> q \in InnerReaders)
        /\ \A q \in Proc, j \in 1..Slots : (q \in SlotReaders(j)' <=> q \in SlotReaders(j))
    BY <2>1, <2>2 DEF PlaceInv, InnerReaders, SlotReaders
  <2>5. Counts'
    BY <2>2, <2>4, CountsKept
  <2>6. PlaceInv'
    BY <2>1, <2>2 DEF PlaceInv, Pcs
  <2>7. \A q \in Proc : ~WriterIn(q)
    BY <2>2 DEF InnerInv, InnerReaders
  <2>8. \A q \in Proc : ~WriterIn(q)' /\ pc[q] # "scan" /\ pc'[q] # "scan"
    BY <2>1, <2>2, <2>7 DEF PlaceInv, WriterIn
  <2>9. InnerInv'
    BY <2>8 DEF InnerInv
  <2>10. ASSUME SlotInv PROVE SlotInv'
    <3>1. \A q \in Proc : Confirmed(q)' => Confirmed(q)
      BY <2>1, <2>2 DEF PlaceInv, Confirmed
    <3>2. ~visible' => ~visible
      BY <2>2, Zenon
    <3>3. ~visible => \A q \in Proc : ~Confirmed(q)
      BY <2>10, <2>8 DEF SlotInv
    <3>. QED BY <2>10, <2>8, <3>1, <3>2, <3>3 DEF SlotInv
  <2>. QED BY <2>3, <2>5, <2>6, <2>9, <2>10
<1>. QED BY <1>1, <1>2, <1>3, <1>4, <1>5, <1>6, <1>7, <1>8 DEF ReadStep

\* A count of zero counts nobody.
LEMMA CountedNone ==
  ASSUME Constants, Counting, Inv
  PROVE  /\ readers = 0 => InnerReaders = {}
         /\ \A i \in 1..Slots : slots[i] = 0 => SlotReaders(i) = {}
<1>1. IsFiniteSet(InnerReaders) /\ \A i \in 1..Slots : IsFiniteSet(SlotReaders(i))
  BY DEF Counting, Constants, InnerReaders, SlotReaders
<1>. QED BY <1>1 DEF Counting, Inv, Counts

\* A writer takes the inner lock.
LEMMA TakesInner ==
  ASSUME Constants, Counting, Inv, NEW p \in Proc, NEW l \in {"finish", "drain", "won"}, Go(p, l),
         pc[p] \in {"contend", "swap"}, mode[p] = "write", ~writeLocked, readers = 0, writeLocked' = TRUE,
         UNCHANGED <<readers, bias, mode, inSlot, at, after>>
  PROVE  PlaceInv' /\ InnerInv' /\ Counts' /\ (SlotInv => SlotInv')
<1>. USE DEF Inv, Go, bias
<1>1. InnerReaders = {} /\ \A q \in Proc : ~WriterIn(q)
  BY CountedNone DEF InnerInv
<1>2. PlaceInv'
  BY DEF PlaceInv, Pcs
<1>3. /\ \A q \in Proc : (q \in InnerReaders' <=> q \in InnerReaders)
      /\ \A q \in Proc, j \in 1..Slots : (q \in SlotReaders(j)' <=> q \in SlotReaders(j))
  BY DEF PlaceInv, InnerReaders, SlotReaders
<1>4. Counts'
  BY <1>3, CountsKept
<1>5. /\ \A q \in Proc : WriterIn(q)' => q = p
      /\ InnerReaders' = {}
  <2>1. \A q \in Proc : WriterIn(q)' => q = p
    BY <1>1 DEF PlaceInv, WriterIn
  <2>2. InnerReaders' \subseteq Proc
    BY DEF InnerReaders
  <2>. QED BY <1>1, <1>3, <2>1, <2>2
<1>6. InnerInv'
  BY <1>5 DEF InnerInv
<1>7. ASSUME SlotInv PROVE SlotInv'
  <2>1. \A q \in Proc : Confirmed(q)' => Confirmed(q)
    BY DEF PlaceInv, Confirmed
  <2>2. \A q \in Proc : pc[q] # "scan" /\ pc'[q] # "scan" /\ ~(WriterIn(q)' /\ pc'[q] \in {"scan", "hold"})
    BY <1>1, <1>5 DEF PlaceInv, WriterIn
  <2>. QED BY <1>7, <2>1, <2>2 DEF SlotInv
<1>. QED BY <1>2, <1>4, <1>6, <1>7

\* Writers: the inner lock, and the slots.
LEMMA WriteKeeps ==
  ASSUME Constants, Counting, Inv, NEW p \in Proc, WriteStep(p)
  PROVE  Inv' /\ (SlotInv => SlotInv')
<1>. USE DEF Inv, Go, word, bias, nodes, wakes, local
<1>1. CASE TryWrite(p)
  <2>1. /\ pc[p] = "contend" /\ mode[p] = "write" /\ ~inSlot[p] /\ after \in [Proc -> {"idle", "queue"}]
        /\ UNCHANGED <<readers, visible, slots, mode, inSlot, at, after, listLock, seen>>
    BY <1>1 DEF TryWrite, PlaceInv
  <2>2. CASE Go(p, "queue") /\ UNCHANGED writeLocked
    BY <2>1, <2>2, OutsideMoves, SectionKept DEF Outside, Section
  <2>3. CASE \E l \in {"finish", "drain"} : Go(p, l) /\ ~writeLocked /\ readers = 0 /\ writeLocked' = TRUE
    <3>1. PICK l \in {"finish", "drain"} : Go(p, l) /\ ~writeLocked /\ readers = 0 /\ writeLocked' = TRUE
      BY <2>3
    <3>. QED BY <2>1, <3>1, TakesInner, SectionKept DEF Section
  <2>. QED BY <1>1, <2>2, <2>3 DEF TryWrite
<1>2. CASE Drain(p)
  <2>1. PICK l \in {"scan", "hold"} : Go(p, l) /\ (l = "scan" <=> visible)
    BY <1>2 DEF Drain
  <2>2. /\ pc[p] = "drain" /\ mode[p] = "write" /\ ~inSlot[p] /\ visible' = FALSE
        /\ at' = [at EXCEPT ![p] = 1] /\ 1 \in 1..Slots
        /\ UNCHANGED <<writeLocked, readers, slots, mode, inSlot, after, listLock, seen>>
    BY <1>2, SMTT(30) DEF Drain, PlaceInv, Constants
  <2>3. SectionInv'
    BY <2>1, <2>2, SectionKept DEF Section
  <2>4. /\ \A q \in Proc : (q \in InnerReaders' <=> q \in InnerReaders)
        /\ \A q \in Proc, j \in 1..Slots : (q \in SlotReaders(j)' <=> q \in SlotReaders(j))
    BY <2>1, <2>2 DEF PlaceInv, InnerReaders, SlotReaders
  <2>5. Counts'
    BY <2>2, <2>4, CountsKept
  <2>6. PlaceInv'
    BY <2>1, <2>2 DEF PlaceInv, Pcs
  <2>7. InnerInv'
    BY <2>1, <2>2, <2>4, InnerKept DEF PlaceInv, WriterIn
  <2>8. \A q \in Proc : pc[q] # "scan" /\ (pc'[q] = "scan" => q = p /\ l = "scan")
    <3>1. \A q \in Proc : pc[q] = "scan" => WriterIn(q)
      BY DEF PlaceInv, WriterIn
    <3>2. WriterIn(p) /\ \A q \in Proc : WriterIn(q) => q = p
      BY <2>2 DEF InnerInv, WriterIn
    <3>. QED BY <2>1, <2>2, <3>1, <3>2 DEF PlaceInv
  <2>9. ASSUME SlotInv PROVE SlotInv'
    <3>1. \A q \in Proc : Confirmed(q)' => Confirmed(q)
      BY <2>1, <2>2 DEF PlaceInv, Confirmed
    <3>2. l # "scan" => \A q \in Proc : ~Confirmed(q)
      BY <2>9, <2>1, <2>8 DEF SlotInv
    <3>3. at'[p] = 1 /\ \A q \in Proc : 1 <= SlotOf[q]
      BY <2>2, SMTT(30) DEF PlaceInv, Constants
    <3>4. l = "scan" => pc'[p] = "scan"
      BY <2>1 DEF PlaceInv
    <3>. QED BY <2>9, <2>2, <2>8, <3>1, <3>2, <3>3, <3>4 DEF SlotInv
  <2>. QED BY <2>3, <2>5, <2>6, <2>7, <2>9
<1>3. CASE Scan(p)
  <2>1. /\ pc[p] = "scan" /\ mode[p] = "write" /\ ~inSlot[p] /\ WriterIn(p) /\ at[p] \in 1..Slots
        /\ Slots \in Nat \ {0} /\ slots[at[p]] \in Nat
        /\ UNCHANGED <<writeLocked, readers, visible, slots, mode, inSlot, after, listLock, seen>>
    BY <1>3 DEF Scan, PlaceInv, WriterIn, Constants
  <2>2. PICK a \in 1..Slots, l \in {"scan", "hold"} :
          /\ at' = [at EXCEPT ![p] = a] /\ Go(p, l)
          /\ \/ l = "scan" /\ a = 1
             \/ l = "scan" /\ a = at[p] + 1 /\ slots[at[p]] = 0
             \/ l = "hold" /\ a = Slots /\ at[p] = Slots /\ slots[at[p]] = 0
    <3>1. pc = [pc EXCEPT ![p] = "scan"] /\ at = [at EXCEPT ![p] = at[p]]
      BY <2>1 DEF PlaceInv
    <3>2. 1 \in 1..Slots /\ (at[p] < Slots => at[p] + 1 \in 1..Slots) /\ (~(at[p] < Slots) => at[p] = Slots)
      BY ONLY <2>1
    <3>3. ~(slots[at[p]] > 0) => slots[at[p]] = 0
      BY <2>1, SMTT(30)
    <3>4. CASE slots[at[p]] > 0
      BY <1>3, <3>1, <3>2, <3>4 DEF Scan
    <3>5. CASE ~(slots[at[p]] > 0) /\ at[p] < Slots
      BY <1>3, <3>1, <3>2, <3>3, <3>5 DEF Scan
    <3>6. CASE ~(slots[at[p]] > 0) /\ ~(at[p] < Slots)
      BY <1>3, <2>1, <3>1, <3>2, <3>3, <3>6 DEF Scan
    <3>. QED BY <3>4, <3>5, <3>6
  <2>3. SectionInv'
    BY <2>1, <2>2, SectionKept DEF Section
  <2>4. /\ \A q \in Proc : (q \in InnerReaders' <=> q \in InnerReaders)
        /\ \A q \in Proc, j \in 1..Slots : (q \in SlotReaders(j)' <=> q \in SlotReaders(j))
    BY <2>1, <2>2 DEF PlaceInv, InnerReaders, SlotReaders
  <2>5. Counts'
    BY <2>1, <2>4, CountsKept
  <2>6. PlaceInv'
    BY <2>1, <2>2 DEF PlaceInv, Pcs
  <2>7. InnerInv'
    BY <2>1, <2>2, <2>4, InnerKept DEF PlaceInv, WriterIn
  <2>8. ASSUME SlotInv PROVE SlotInv'
    <3>1. \A q \in Proc : Confirmed(q)' => Confirmed(q)
      BY <2>1, <2>2 DEF PlaceInv, Confirmed
    <3>2. \A q \in Proc : (pc[q] = "scan" \/ pc'[q] = "scan") => q = p
      <4>1. \A q \in Proc : pc[q] = "scan" => WriterIn(q)
        BY DEF PlaceInv, WriterIn
      <4>. QED BY <2>1, <2>2, <4>1 DEF InnerInv, PlaceInv
    <3>3. \A q \in Proc : Confirmed(q) => SlotOf[q] \in 1..Slots /\ at[p] <= SlotOf[q] /\ q \in SlotReaders(SlotOf[q])
      BY <2>8, <2>1 DEF SlotInv, Confirmed, SlotReaders, PlaceInv, Constants
    <3>4. slots[at[p]] = 0 => \A q \in Proc : Confirmed(q) => SlotOf[q] # at[p]
      BY <2>1, <3>3, CountedNone
    <3>5. ASSUME NEW q \in Proc, Confirmed(q)
          PROVE  l = "scan" /\ a <= SlotOf[q]
      <4>1. PICK n \in 1..Slots, m \in 1..Slots : n = SlotOf[q] /\ m = at[p] /\ m <= n
        BY <2>1, <3>3, <3>5
      <4>2. slots[at[p]] = 0 => n # m
        BY <3>4, <3>5, <4>1
      <4>3. \/ l = "scan" /\ a = 1
            \/ l = "scan" /\ a = m + 1 /\ n # m
            \/ m = Slots /\ n # m
        BY <2>2, <4>1, <4>2
      <4>4. l = "scan" /\ a <= n
        BY ONLY <2>1, <4>1, <4>3
      <4>. QED BY <4>1, <4>4
    <3>6. at'[p] = a /\ (l = "scan" => pc'[p] = "scan") /\ ~visible'
      BY <2>8, <2>1, <2>2 DEF PlaceInv, SlotInv
    <3>. QED BY <2>8, <3>1, <3>2, <3>5, <3>6 DEF SlotInv
  <2>. QED BY <2>3, <2>5, <2>6, <2>7, <2>8
<1>. QED BY <1>1, <1>2, <1>3 DEF WriteStep

\* Queueing, under the list lock.
LEMMA QueueKeeps ==
  ASSUME Constants, Counting, Inv, NEW p \in Proc, QueueStep(p)
  PROVE  Inv' /\ (SlotInv => SlotInv')
<1>. USE DEF Inv, Go, word, bias, nodes, wakes, local
<1>0. after \in [Proc -> {"idle", "queue"}]
  BY DEF PlaceInv
<1>1. CASE Link(p)
  <2>1. /\ pc[p] = "queue" /\ ~inSlot[p] /\ Go(p, "flag") /\ listLock = NoOne /\ listLock' = p
        /\ UNCHANGED <<writeLocked, readers, visible, slots, mode, inSlot, at, after, seen>>
    BY <1>1 DEF Link, PlaceInv
  <2>. QED BY <1>0, <2>1, OutsideMoves, SectionKept DEF Outside, Section
<1>2. CASE SetQueued(p)
  <2>1. /\ pc[p] = "flag" /\ ~inSlot[p] /\ Go(p, "recheck") /\ listLock = p /\ listLock' = p
        /\ UNCHANGED <<writeLocked, readers, visible, slots, mode, inSlot, at, after, seen>>
    BY <1>2 DEF SetQueued, PlaceInv, SectionInv
  <2>. QED BY <1>0, <2>1, OutsideMoves, SectionKept DEF Outside, Section
<1>3. CASE RecheckRead(p)
  <2>1. /\ pc[p] = "recheck" /\ mode[p] = "read" /\ ~inSlot[p] /\ listLock = p
        /\ UNCHANGED <<writeLocked, visible, slots, mode, inSlot, at, after, seen>>
    BY <1>3 DEF RecheckRead, PlaceInv, SectionInv
  <2>2. CASE Go(p, "wait") /\ UNCHANGED readers
    BY <1>0, <2>1, <2>2, OutsideMoves, SectionKept DEF Outside, Section
  <2>3. CASE Go(p, "won_read") /\ readers' = readers + 1 /\ ~writeLocked /\ UNCHANGED listLock
    <3>1. SectionInv'
      BY <2>1, <2>3, SectionKept DEF Section
    <3>2. /\ \A q \in Proc : q # p => (q \in InnerReaders' <=> q \in InnerReaders)
          /\ \A q \in Proc, j \in 1..Slots : (q \in SlotReaders(j)' <=> q \in SlotReaders(j))
          /\ p \in InnerReaders' /\ p \notin InnerReaders
      BY <2>1, <2>3 DEF PlaceInv, InnerReaders, SlotReaders
    <3>3. Counts' /\ readers' \in Nat
      BY <2>1, <2>3, <3>2, CountsKept
    <3>4. PlaceInv'
      BY <2>1, <2>3, <3>3 DEF PlaceInv, Pcs
    <3>5. \A q \in Proc : ~WriterIn(q)'
      BY <2>1, <2>3 DEF PlaceInv, InnerInv, WriterIn
    <3>6. SlotInv => SlotInv'
      BY <2>1, <2>3 DEF PlaceInv, SlotInv, WriterIn, Confirmed
    <3>. QED BY <3>1, <3>3, <3>4, <3>5, <3>6 DEF InnerInv
  <2>. QED BY <1>3, <2>2, <2>3 DEF RecheckRead
<1>4. CASE RecheckWrite(p)
  <2>1. /\ pc[p] = "recheck" /\ mode[p] = "write" /\ ~inSlot[p] /\ listLock = p /\ readers \in Nat
        /\ UNCHANGED <<writeLocked, readers, visible, slots, mode, inSlot, at, after>>
    BY <1>4 DEF RecheckWrite, PlaceInv, SectionInv
  <2>2. CASE Go(p, "wait")
    BY <1>0, <2>1, <2>2, OutsideMoves, SectionKept DEF Outside, Section
  <2>3. CASE Go(p, "swap") /\ seen' = word /\ ~(writeLocked \/ readers > 0) /\ UNCHANGED listLock
    <3>1. ~seen'[1] /\ seen'[2] = 0
      BY <2>1, <2>3, SMTT(30)
    <3>. QED BY <1>0, <2>1, <2>3, <3>1, OutsideMoves, SectionKept DEF Outside, Section
  <2>. QED BY <1>4, <2>2, <2>3 DEF RecheckWrite
<1>5. CASE Swap(p)
  <2>1. /\ pc[p] = "swap" /\ mode[p] = "write" /\ ~inSlot[p] /\ listLock = p
        /\ ~seen[1] /\ seen[2] = 0
        /\ UNCHANGED <<readers, visible, slots, mode, inSlot, at, after>>
    BY <1>5 DEF Swap, PlaceInv, SectionInv
  <2>2. CASE Go(p, "wait") /\ UNCHANGED writeLocked
    BY <1>0, <2>1, <2>2, OutsideMoves, SectionKept DEF Outside, Section
  <2>3. CASE Go(p, "won") /\ word = seen /\ writeLocked' = TRUE /\ UNCHANGED listLock
    <3>1. ~writeLocked /\ readers = 0
      BY <2>1, <2>3
    <3>. QED BY <2>1, <2>3, <3>1, TakesInner, SectionKept DEF Section
  <2>. QED BY <1>5, <2>2, <2>3 DEF Swap
<1>6. CASE Won(p) \/ FinishNode(p)
  <2>1. PICK l \in {"hold", "drain"} : Go(p, l) /\ (l = "hold" <=> mode[p] = "read")
    BY <1>6 DEF Won, FinishNode, Entered
  <2>2. /\ pc[p] \in {"won", "finish"} /\ (pc[p] = "won" => ~inSlot[p])
        /\ listLock \in {NoOne, p} /\ listLock' = NoOne
        /\ UNCHANGED <<writeLocked, readers, visible, slots, mode, inSlot, at, after, seen>>
    BY <1>6 DEF Won, FinishNode, PlaceInv, SectionInv
  <2>3. SectionInv'
    BY <2>1, <2>2, SectionKept DEF Section
  <2>4. /\ \A q \in Proc : (q \in InnerReaders' <=> q \in InnerReaders)
        /\ \A q \in Proc, j \in 1..Slots : (q \in SlotReaders(j)' <=> q \in SlotReaders(j))
    BY <2>1, <2>2 DEF PlaceInv, InnerReaders, SlotReaders
  <2>5. Counts'
    BY <2>2, <2>4, CountsKept
  <2>6. PlaceInv'
    BY <2>1, <2>2 DEF PlaceInv, Pcs
  <2>7. InnerInv'
    BY <2>1, <2>2, <2>4, InnerKept DEF PlaceInv, WriterIn
  <2>8. ASSUME SlotInv PROVE SlotInv'
    <3>1. \A q \in Proc : Confirmed(q)' => Confirmed(q)
      BY <2>1, <2>2 DEF PlaceInv, Confirmed
    <3>2. \A q \in Proc : /\ pc'[q] = "scan" <=> pc[q] = "scan"
                          /\ WriterIn(q)' /\ pc'[q] \in {"scan", "hold"} => WriterIn(q) /\ pc[q] \in {"scan", "hold"}
      BY <2>1, <2>2 DEF PlaceInv, WriterIn
    <3>. QED BY <2>8, <2>2, <3>1, <3>2 DEF SlotInv
  <2>. QED BY <2>3, <2>5, <2>6, <2>7, <2>8
<1>. QED BY <1>1, <1>2, <1>3, <1>4, <1>5, <1>6 DEF QueueStep

\* Waiting, waking others and starting over: nothing is held or counted.
LEMMA OutsideKeeps ==
  ASSUME Constants, Counting, Inv, NEW p \in Proc,
         WaitStep(p) \/ WakeWaiters(p) \/ Signal(p) \/ SpuriousPoll(p) \/ (Cancel(p) /\ pc[p] # "scan")
  PROVE  Inv' /\ (SlotInv => SlotInv')
<1>. USE DEF Inv, Go, word, bias, nodes, wakes, local
<1>1. PICK l \in Outside : Go(p, l) /\ l \notin Section \cup {"enter", "inner", "add"}
  <2>1. after[p] \in {"idle", "queue"}
    BY DEF PlaceInv
  <2>2. CASE WaitStep(p) \/ SpuriousPoll(p) \/ (Cancel(p) /\ pc[p] # "scan")
    BY <2>2 DEF WaitStep, SpuriousPoll, Cancel, MayDrop, LeaveQueue, CheckNode, Unpark, Poll, CancelNode,
                Outside, Section
  <2>3. CASE WakeWaiters(p)
    BY <2>1, <2>3 DEF WakeWaiters, MarkWoken, Outside, Section
  <2>4. CASE Signal(p)
    BY <2>1, <2>4 DEF Signal, Outside, Section
  <2>. QED BY <2>2, <2>3, <2>4
<1>2. /\ pc[p] \in {"wait", "parked", "cancel", "wake", "signal"} /\ after' \in [Proc -> {"idle", "queue"}]
      /\ UNCHANGED <<writeLocked, readers, visible, slots, mode, inSlot, at, listLock, seen>>
  <2>1. CASE WaitStep(p) \/ SpuriousPoll(p) \/ (Cancel(p) /\ pc[p] # "scan")
    BY <2>1 DEF WaitStep, SpuriousPoll, Cancel, MayDrop, LeaveQueue, CheckNode, Unpark, Poll, CancelNode, PlaceInv
  <2>2. CASE WakeWaiters(p) \/ Signal(p)
    BY <2>2 DEF WakeWaiters, Signal, PlaceInv
  <2>. QED BY <2>1, <2>2
<1>3. ~inSlot[p] /\ pc[p] \in Outside
  BY <1>2 DEF PlaceInv, Outside
<1>. QED BY <1>1, <1>2, <1>3, OutsideMoves, SectionKept DEF Section

\* Calling, and releasing.
LEMMA FreeKeeps ==
  ASSUME Constants, Counting, Inv, NEW p \in Proc,
         UnlockSlot(p) \/ UnlockRead(p) \/ UnlockWrite(p) \/ (\E m \in {"read", "write"} : Call(p, m))
  PROVE  Inv' /\ (SlotInv => SlotInv')
<1>. USE DEF Inv, Go, word, bias, nodes, wakes, local
<1>1. CASE \E m \in {"read", "write"} : Call(p, m)
  <2>1. PICK m \in {"read", "write"} : Call(p, m)
    BY <1>1
  <2>2. /\ pc[p] = "idle" /\ Go(p, "contend") /\ mode' = [mode EXCEPT ![p] = m]
        /\ inSlot' = [inSlot EXCEPT ![p] = FALSE]
        /\ UNCHANGED <<writeLocked, readers, visible, slots, at, after, listLock, seen>>
    BY <2>1 DEF Call
  <2>3. SectionInv'
    BY <2>2, SectionKept DEF Section
  <2>4. /\ \A q \in Proc : (q \in InnerReaders' <=> q \in InnerReaders)
        /\ \A q \in Proc, j \in 1..Slots : (q \in SlotReaders(j)' <=> q \in SlotReaders(j))
    BY <2>2 DEF PlaceInv, InnerReaders, SlotReaders
  <2>5. Counts'
    BY <2>2, <2>4, CountsKept
  <2>6. PlaceInv'
    BY <2>2 DEF PlaceInv, Pcs
  <2>7. InnerInv'
    BY <2>2, <2>4, InnerKept DEF PlaceInv, WriterIn
  <2>8. SlotInv => SlotInv'
    BY <2>2 DEF PlaceInv, SlotInv, WriterIn, Confirmed
  <2>. QED BY <2>3, <2>5, <2>6, <2>7, <2>8
<1>2. CASE UnlockSlot(p)
  <2>1. PICK i \in 1..Slots : i = SlotOf[p]
    BY DEF Constants
  <2>2. /\ pc[p] = "hold" /\ mode[p] = "read" /\ inSlot[p] /\ Go(p, "idle")
        /\ slots' = [slots EXCEPT ![i] = @ - 1]
        /\ UNCHANGED <<writeLocked, readers, visible, mode, inSlot, at, after, listLock, seen>>
    BY <1>2, <2>1 DEF UnlockSlot
  <2>3. SectionInv'
    BY <2>2, SectionKept DEF Section
  <2>4. /\ \A q \in Proc : (q \in InnerReaders' <=> q \in InnerReaders)
        /\ \A q \in Proc, j \in 1..Slots : q # p \/ j # i => (q \in SlotReaders(j)' <=> q \in SlotReaders(j))
        /\ p \notin SlotReaders(i)' /\ p \in SlotReaders(i)
    BY <2>1, <2>2 DEF PlaceInv, InnerReaders, SlotReaders
  <2>5. \A j \in 1..Slots : slots'[j] = IF j = i THEN slots[j] - 1 ELSE slots[j]
    BY <2>2 DEF PlaceInv
  <2>6. Counts' /\ \A j \in 1..Slots : slots'[j] \in Nat
    BY <2>2, <2>4, <2>5, CountsKept
  <2>7. slots' \in [1..Slots -> Nat]
    BY <2>2, <2>6 DEF PlaceInv
  <2>8. PlaceInv'
    BY <2>2, <2>7 DEF PlaceInv, Pcs
  <2>9. InnerInv'
    BY <2>2, <2>4, InnerKept DEF PlaceInv, WriterIn
  <2>10. SlotInv => SlotInv'
    BY <2>2 DEF PlaceInv, SlotInv, WriterIn, Confirmed
  <2>. QED BY <2>3, <2>6, <2>8, <2>9, <2>10
<1>3. CASE UnlockRead(p)
  <2>1. PICK l \in {"wake", "idle"} : Go(p, l)
    BY <1>3 DEF UnlockRead
  <2>2. /\ pc[p] = "hold" /\ mode[p] = "read" /\ ~inSlot[p] /\ readers' = readers - 1
        /\ after' = [after EXCEPT ![p] = "idle"]
        /\ UNCHANGED <<writeLocked, visible, slots, mode, inSlot, at, listLock, seen>>
    BY <1>3 DEF UnlockRead
  <2>3. SectionInv'
    BY <2>1, <2>2, SectionKept DEF Section
  <2>4. /\ \A q \in Proc : q # p => (q \in InnerReaders' <=> q \in InnerReaders)
        /\ \A q \in Proc, j \in 1..Slots : (q \in SlotReaders(j)' <=> q \in SlotReaders(j))
        /\ p \notin InnerReaders' /\ p \in InnerReaders
    BY <2>1, <2>2 DEF PlaceInv, InnerReaders, SlotReaders
  <2>5. Counts' /\ readers' \in Nat
    BY <2>2, <2>4, CountsKept
  <2>6. PlaceInv'
    BY <2>1, <2>2, <2>5 DEF PlaceInv, Pcs
  <2>7. InnerInv'
    BY <2>1, <2>2, <2>4, InnerKept DEF PlaceInv, WriterIn
  <2>8. SlotInv => SlotInv'
    BY <2>1, <2>2 DEF PlaceInv, SlotInv, WriterIn, Confirmed
  <2>. QED BY <2>3, <2>5, <2>6, <2>7, <2>8
<1>4. CASE UnlockWrite(p)
  <2>1. PICK l \in {"wake", "idle"} : Go(p, l)
    BY <1>4 DEF UnlockWrite, ReleaseWrite
  <2>2. /\ pc[p] = "hold" /\ mode[p] = "write" /\ ~inSlot[p] /\ writeLocked' = FALSE
        /\ after' = [after EXCEPT ![p] = "idle"]
        /\ UNCHANGED <<readers, visible, slots, mode, inSlot, at, listLock, seen>>
    BY <1>4 DEF UnlockWrite, ReleaseWrite, PlaceInv
  <2>3. SectionInv'
    BY <2>1, <2>2, SectionKept DEF Section
  <2>4. /\ \A q \in Proc : (q \in InnerReaders' <=> q \in InnerReaders)
        /\ \A q \in Proc, j \in 1..Slots : (q \in SlotReaders(j)' <=> q \in SlotReaders(j))
    BY <2>1, <2>2 DEF PlaceInv, InnerReaders, SlotReaders
  <2>5. Counts'
    BY <2>2, <2>4, CountsKept
  <2>6. PlaceInv'
    BY <2>1, <2>2 DEF PlaceInv, Pcs
  <2>7. \A q \in Proc : ~WriterIn(q)'
    BY <2>1, <2>2 DEF PlaceInv, InnerInv, WriterIn
  <2>8. SlotInv => SlotInv'
    BY <2>1, <2>2 DEF PlaceInv, SlotInv, WriterIn, Confirmed
  <2>. QED BY <2>3, <2>5, <2>6, <2>7, <2>8 DEF InnerInv
<1>. QED BY <1>1, <1>2, <1>3, <1>4

\* A step of nobody.
LEMMA StutterKeeps == Inv /\ UNCHANGED vars => Inv' /\ (SlotInv => SlotInv')
<1>. SUFFICES ASSUME Inv, UNCHANGED vars PROVE Inv' /\ (SlotInv => SlotInv')
  OBVIOUS
<1>. USE DEF vars, word, bias, nodes, wakes, local, Inv
<1>1. PlaceInv' /\ SectionInv'
  BY DEF PlaceInv, SectionInv
<1>2. InnerInv'
  BY DEF InnerInv, WriterIn, InnerReaders
<1>3. SlotInv => SlotInv'
  BY DEF SlotInv, WriterIn, Confirmed
<1>4. Counts'
  BY DEF Counts, InnerReaders, SlotReaders
<1>. QED BY <1>1, <1>2, <1>3, <1>4

\* A write future dropped while it drains unlocks, and leaves the slots off.
LEMMA DrainDropped ==
  ASSUME Constants, Counting, Inv, NEW p \in Proc, Cancel(p), pc[p] = "scan"
  PROVE  Inv' /\ "drain" \in Drops
<1>. USE DEF Inv, Go, word, bias, nodes, wakes, local
<1>1. PICK l \in {"wake", "idle"} : Go(p, l)
  BY DEF Cancel, ReleaseWrite
<1>2. /\ mode[p] = "write" /\ ~inSlot[p] /\ writeLocked' = FALSE /\ after' = [after EXCEPT ![p] = "idle"]
      /\ "drain" \in Drops
      /\ UNCHANGED <<readers, visible, slots, mode, inSlot, at, listLock, seen>>
  BY DEF Cancel, MayDrop, ReleaseWrite, PlaceInv
<1>3. SectionInv'
  BY <1>1, <1>2, SectionKept DEF Section
<1>4. /\ \A q \in Proc : (q \in InnerReaders' <=> q \in InnerReaders)
      /\ \A q \in Proc, j \in 1..Slots : (q \in SlotReaders(j)' <=> q \in SlotReaders(j))
  BY <1>1, <1>2 DEF PlaceInv, InnerReaders, SlotReaders
<1>5. Counts'
  BY <1>2, <1>4, CountsKept
<1>6. PlaceInv'
  BY <1>1, <1>2 DEF PlaceInv, Pcs
<1>7. \A q \in Proc : ~WriterIn(q)'
  BY <1>1, <1>2 DEF PlaceInv, InnerInv, WriterIn
<1>. QED BY <1>2, <1>3, <1>5, <1>6, <1>7 DEF InnerInv

\* Every step keeps the counts, and the slots as long as no draining future is dropped.
LEMMA StepKeeps ==
  ASSUME Constants, Counting, Inv, [Next]_vars
  PROVE  Inv' /\ ("drain" \notin Drops /\ SlotInv => SlotInv')
<1>1. ASSUME NEW p \in Proc, Step(p) \/ Choice(p)
      PROVE  Inv' /\ ("drain" \notin Drops /\ SlotInv => SlotInv')
  BY <1>1, ReadKeeps, WriteKeeps, QueueKeeps, OutsideKeeps, FreeKeeps, DrainDropped
     DEF Step, Choice, WaitStep, FreeStep
<1>. QED BY <1>1, StutterKeeps DEF Next


-----------------------------------------------------------------------------
(* The list *)

ListType ==
  /\ list \in Seq(Proc) /\ NoRepeats(list) /\ queued \in BOOLEAN /\ listLock \in Proc \cup {NoOne}
  /\ node \in [Proc -> {"WAITING", "WOKEN"}] /\ armed \in [Proc -> BOOLEAN]
  /\ permit \in [Proc -> BOOLEAN] /\ handles \in [Proc -> SUBSET Proc] /\ ops \in [Proc -> Nat]

\* Who is linked: a caller in the section, and a writer until it wins or gives up.
LinkedAt(p) ==
  /\ pc[p] \in Section \/ (mode[p] = "write" /\ pc[p] \in {"wait", "parked"}) => p \in Linked(list)
  /\ p \in Linked(list) => pc[p] \notin {"idle", "hold", "drain", "scan"}
  /\ p \in Linked(list) /\ pc[p] \in {"wake", "signal"} => after[p] = "queue"

LinkInv == /\ \A p \in Proc : LinkedAt(p)
           /\ pending \in Nat /\ pending = Cardinality(Waiting)

ListInv == ListType /\ LinkInv

\* Who is linked is one of those a list is made of.
LEMMA LinkedIn ==
  ASSUME NEW S, NEW q \in Seq(S)
  PROVE  Linked(q) \subseteq S
BY SMTT(30) DEF Linked

\* Only `p` moves, and it is counted as long as it waits.
LEMMA LinkKept ==
  ASSUME Constants, Counting, PlaceInv, ListInv, NEW p \in Proc, NEW l, Go(p, l), ListType',
         \A q \in Proc : q # p =>
           mode'[q] = mode[q] /\ after'[q] = after[q] /\ (q \in Linked(list)' <=> q \in Linked(list)),
         LinkedAt(p)',
         \/ p \in Waiting' /\ p \notin Waiting /\ pending' = pending + 1
         \/ p \notin Waiting' /\ p \in Waiting /\ pending' = pending - 1
         \/ (p \in Waiting' <=> p \in Waiting) /\ pending' = pending
  PROVE  ListInv'
<1>. USE DEF Go
<1>1. ASSUME NEW q \in Proc, q # p
      PROVE  LinkedAt(q)' /\ (q \in Waiting' <=> q \in Waiting)
  <2>1. /\ pc'[q] = pc[q] /\ mode'[q] = mode[q] /\ after'[q] = after[q]
        /\ q \in Linked(list)' <=> q \in Linked(list)
    BY <1>1 DEF PlaceInv
  <2>2. LinkedAt(q)
    BY DEF ListInv, LinkInv
  <2>3. LinkedAt(q)'
    BY ONLY <2>1, <2>2 DEF LinkedAt
  <2>4. q \in Waiting' <=> q \in Waiting
    BY ONLY <2>1 DEF Waiting, Writers
  <2>. QED BY <2>3, <2>4
<1>2. Linked(list) \subseteq Proc /\ Linked(list)' \subseteq Proc
  BY LinkedIn DEF ListInv, ListType
<1>3. Waiting \subseteq Proc /\ Waiting' \subseteq Proc /\ IsFiniteSet(Proc)
  BY <1>2 DEF Waiting, Writers, Constants
<1>4. pending \in Nat /\ pending = Cardinality(Waiting) /\ IsFiniteSet(Waiting)
  BY <1>3 DEF Counting, ListInv, LinkInv
<1>. DEFINE S == Waiting
            T == Waiting'
            n == pending
            m == pending'
<1>5. /\ \A q : q # p => (q \in T <=> q \in S)
      /\ \/ p \in T /\ p \notin S /\ m = n + 1
         \/ p \notin T /\ p \in S /\ m = n - 1
         \/ (p \in T <=> p \in S) /\ m = n
  BY <1>1, <1>3
<1>6. IsFiniteSet(S) /\ n \in Nat /\ n = Cardinality(S)
  BY <1>4
<1>. HIDE DEF S, T, n, m
<1>7. /\ Cardinality(S) \in Nat /\ Cardinality(T) \in Nat
      /\ p \in T /\ p \notin S => Cardinality(T) = Cardinality(S) + 1
      /\ p \notin T /\ p \in S => Cardinality(T) = Cardinality(S) - 1
      /\ (p \in T <=> p \in S) => T = S
  BY ONLY Counting, <1>5, <1>6, Counted
<1>8. m = Cardinality(T) /\ m \in Nat
  BY ONLY <1>5, <1>6, <1>7
<1>9. pending' \in Nat /\ pending' = Cardinality(Waiting')
  BY <1>8 DEF T, m
<1>. QED BY <1>1, <1>9 DEF ListInv, LinkInv

\* The list stays as it is.
LEMMA ListSame ==
  ASSUME Constants, Counting, PlaceInv, ListInv, NEW p \in Proc, NEW l, Go(p, l),
         UNCHANGED <<list, pending>>, ListType',
         \A q \in Proc : q # p => mode'[q] = mode[q] /\ after'[q] = after[q],
         LinkedAt(p)', p \in Waiting' <=> p \in Waiting
  PROVE  ListInv'
BY LinkKept

\* Readers neither link nor count as pending.
LEMMA ReadLinks ==
  ASSUME Constants, Counting, Inv, ListInv, NEW p \in Proc, ReadStep(p)
  PROVE  ListInv'
<1>. USE DEF Inv, word, bias, nodes, wakes, local
<1>1. ListType' /\ UNCHANGED <<list, pending, mode>>
  BY DEF ReadStep, LookVisible, EnterSlot, ConfirmSlot, LeaveSlot, InnerLook, InnerAdd, InnerBackOut,
         CountFallback, ListInv, ListType
<1>2. mode[p] = "read"
  BY DEF ReadStep, LookVisible, EnterSlot, ConfirmSlot, LeaveSlot, InnerLook, InnerAdd, InnerBackOut,
         CountFallback, PlaceInv
<1>3. PICK l : /\ Go(p, l)
               /\ l \in {"enter", "inner", "confirm", "leave", "queue", "add", "backout", "count", "wake",
                         "finish", "won", "hold"}
               /\ l = "hold" => p \notin Linked(list)
               /\ l = "won" => p \in Linked(list)
  <2>1. CASE LookVisible(p) \/ EnterSlot(p) \/ LeaveSlot(p)
    <3>1. Go(p, "enter") \/ Go(p, "confirm") \/ Go(p, "inner")
      BY ONLY <2>1, Zenon DEF LookVisible, EnterSlot, LeaveSlot
    <3>. QED BY ONLY <3>1
  <2>2. CASE InnerLook(p) \/ InnerAdd(p) \/ InnerBackOut(p)
    <3>1. \/ Go(p, "queue") \/ Go(p, "add") \/ Go(p, "backout") \/ Go(p, "count")
          \/ Go(p, "wake")
      BY ONLY <2>2, Zenon DEF InnerLook, InnerAdd, InnerBackOut
    <3>. QED BY ONLY <3>1
  <2>3. CASE ConfirmSlot(p)
    BY <2>3, SMTT(30) DEF ConfirmSlot
  <2>4. CASE CountFallback(p)
    <3>1. pc[p] = "won_read" => p \in Linked(list)
      BY DEF ListInv, LinkInv, LinkedAt, Section
    <3>. QED BY <2>4, <3>1, SMTT(30) DEF CountFallback
  <2>. QED BY <2>1, <2>2, <2>3, <2>4 DEF ReadStep
<1>4. /\ \A q \in Proc : q # p => after'[q] = after[q]
      /\ l = "wake" => after'[p] = "queue"
  <2>1. CASE InnerBackOut(p)
    BY <2>1 DEF InnerBackOut, PlaceInv
  <2>2. CASE ~InnerBackOut(p)
    BY <2>2, <1>3 DEF ReadStep, LookVisible, EnterSlot, ConfirmSlot, LeaveSlot, InnerLook, InnerAdd,
         CountFallback, Go, PlaceInv
  <2>. QED BY <2>1, <2>2
<1>5. LinkedAt(p)' /\ p \notin Waiting' /\ p \notin Waiting
  BY <1>1, <1>2, <1>3, <1>4 DEF Go, PlaceInv, LinkedAt, Waiting, Writers, Section
<1>. QED BY <1>1, <1>3, <1>4, <1>5, ListSame

\* A writer that wins from the list uncounts itself.
LEMMA WriteLinks ==
  ASSUME Constants, Counting, Inv, ListInv, NEW p \in Proc, WriteStep(p)
  PROVE  ListInv'
<1>. USE DEF Inv, word, bias, nodes, wakes, local
<1>1. ListType' /\ UNCHANGED <<list, mode, after>>
  BY DEF WriteStep, TryWrite, Drain, Scan, ListInv, ListType
<1>2. LinkedAt(p) /\ mode[p] = "write"
  BY DEF ListInv, LinkInv, WriteStep, TryWrite, Drain, Scan, PlaceInv
<1>3. CASE TryWrite(p)
  <2>1. pc[p] = "contend"
    BY <1>3 DEF TryWrite
  <2>2. CASE Go(p, "finish") /\ p \in Linked(list) /\ pending' = pending - 1
    <3>1. LinkedAt(p)' /\ p \in Waiting /\ p \notin Waiting'
      BY <1>1, <1>2, <2>1, <2>2 DEF Go, PlaceInv, LinkedAt, Waiting, Writers, Section
    <3>. QED BY <1>1, <2>2, <3>1, LinkKept
  <2>3. CASE Go(p, "drain") /\ p \notin Linked(list) /\ UNCHANGED pending
    <3>1. LinkedAt(p)' /\ p \notin Waiting /\ p \notin Waiting'
      BY <1>1, <1>2, <2>1, <2>3 DEF Go, PlaceInv, LinkedAt, Waiting, Writers, Section
    <3>. QED BY <1>1, <2>3, <3>1, ListSame
  <2>4. CASE Go(p, "queue") /\ UNCHANGED pending
    <3>1. LinkedAt(p)' /\ (p \in Waiting' <=> p \in Waiting)
      BY <1>1, <1>2, <2>1, <2>4 DEF Go, PlaceInv, LinkedAt, Waiting, Writers, Section
    <3>. QED BY <1>1, <2>4, <3>1, ListSame
  <2>. QED BY <1>3, <2>2, <2>3, <2>4 DEF TryWrite
<1>4. CASE Drain(p) \/ Scan(p)
  <2>1. pc[p] \in {"drain", "scan"} /\ UNCHANGED pending
    BY <1>4 DEF Drain, Scan
  <2>2. PICK l \in {"scan", "hold"} : Go(p, l)
    <3>1. CASE Drain(p)
      BY <3>1 DEF Drain
    <3>2. CASE Scan(p)
      <4>1. pc[p] = "scan" => pc = [pc EXCEPT ![p] = "scan"]
        BY DEF PlaceInv
      <4>. QED BY <3>2, <4>1 DEF Scan, Go
    <3>. QED BY <1>4, <3>1, <3>2
  <2>3. LinkedAt(p)' /\ p \notin Waiting /\ p \notin Waiting'
    BY <1>1, <1>2, <2>1, <2>2 DEF Go, PlaceInv, LinkedAt, Waiting, Writers, Section
  <2>. QED BY <1>1, <2>1, <2>2, <2>3, ListSame
<1>. QED BY <1>3, <1>4 DEF WriteStep

\* A writer counts itself as it links, and uncounts itself as it wins.
LEMMA QueueLinks ==
  ASSUME Constants, Counting, Inv, ListInv, NEW p \in Proc, QueueStep(p)
  PROVE  ListInv'
<1>. USE DEF Inv, word, bias, nodes, wakes, local
<1>1. LinkedAt(p) /\ list \in Seq(Proc) /\ NoRepeats(list)
  BY DEF ListInv, LinkInv, ListType
<1>2. UNCHANGED <<mode, after>>
  BY DEF QueueStep, Link, SetQueued, RecheckRead, RecheckWrite, Swap, Won, FinishNode
<1>3. CASE Link(p)
  <2>1. /\ pc[p] = "queue" /\ Go(p, "flag") /\ list' = LinkBack(list, p)
        /\ pending' = IF mode[p] = "write" /\ p \notin Linked(list) THEN pending + 1 ELSE pending
    BY <1>3 DEF Link
  <2>2. list' \in Seq(Proc) /\ NoRepeats(list') /\ Linked(list') = Linked(list) \cup {p}
    BY <1>1, <2>1, LinkBackAdds
  <2>3. ListType'
    BY <1>3, <2>2 DEF Link, ListInv, ListType
  <2>4. LinkedAt(p)' /\ (p \in Waiting' <=> mode[p] = "write")
    BY <1>2, <2>1, <2>2 DEF Go, PlaceInv, LinkedAt, Waiting, Writers, Section
  <2>5. p \in Waiting <=> mode[p] = "write" /\ p \in Linked(list)
    BY <2>1 DEF Waiting, Writers
  <2>6. \/ p \in Waiting' /\ p \notin Waiting /\ pending' = pending + 1
        \/ (p \in Waiting' <=> p \in Waiting) /\ pending' = pending
    BY <2>1, <2>4, <2>5
  <2>. QED BY <1>2, <2>1, <2>2, <2>3, <2>4, <2>6, LinkKept
<1>4. CASE SetQueued(p) \/ RecheckRead(p) \/ RecheckWrite(p)
  <2>1. pc[p] \in {"flag", "recheck"} /\ UNCHANGED <<list, pending>>
    BY <1>4 DEF SetQueued, RecheckRead, RecheckWrite
  <2>2. PICK l \in {"recheck", "wait", "won_read", "swap"} : Go(p, l)
    BY <1>4 DEF SetQueued, RecheckRead, RecheckWrite
  <2>3. ListType'
    BY <1>4 DEF SetQueued, RecheckRead, RecheckWrite, ListInv, ListType
  <2>4. LinkedAt(p)' /\ (p \in Waiting' <=> p \in Waiting)
    BY <1>1, <1>2, <2>1, <2>2 DEF Go, PlaceInv, LinkedAt, Waiting, Writers, Section
  <2>. QED BY <1>2, <2>1, <2>2, <2>3, <2>4, ListSame
<1>5. CASE Swap(p)
  <2>1. pc[p] = "swap" /\ mode[p] = "write" /\ UNCHANGED list
    BY <1>5 DEF Swap, PlaceInv
  <2>2. ListType'
    BY <1>5 DEF Swap, ListInv, ListType
  <2>3. CASE Go(p, "wait") /\ UNCHANGED pending
    <3>1. LinkedAt(p)' /\ (p \in Waiting' <=> p \in Waiting)
      BY <1>1, <1>2, <2>1, <2>3 DEF Go, PlaceInv, LinkedAt, Waiting, Writers, Section
    <3>. QED BY <1>2, <2>1, <2>2, <2>3, <3>1, ListSame
  <2>4. CASE Go(p, "won") /\ pending' = pending - 1
    <3>1. LinkedAt(p)' /\ p \in Waiting /\ p \notin Waiting'
      BY <1>1, <1>2, <2>1, <2>4 DEF Go, PlaceInv, LinkedAt, Waiting, Writers, Section
    <3>. QED BY <1>2, <2>1, <2>2, <2>4, <3>1, LinkKept
  <2>. QED BY <1>5, <2>3, <2>4 DEF Swap
<1>6. CASE Won(p) \/ FinishNode(p)
  <2>1. pc[p] \in {"won", "finish"} /\ list' = Unlink(list, p) /\ UNCHANGED pending
    BY <1>6 DEF Won, FinishNode
  <2>2. PICK l \in {"hold", "drain"} : Go(p, l)
    BY <1>6 DEF Won, FinishNode, Entered
  <2>3. list' \in Seq(Proc) /\ NoRepeats(list') /\ Linked(list') = Linked(list) \ {p}
    BY <1>1, <2>1, UnlinkRemoves
  <2>4. ListType'
    BY <1>6, <2>3 DEF Won, FinishNode, ListInv, ListType
  <2>5. LinkedAt(p)' /\ p \notin Waiting' /\ p \notin Waiting
    BY <1>2, <2>1, <2>2, <2>3 DEF Go, PlaceInv, LinkedAt, Waiting, Writers, Section
  <2>. QED BY <1>2, <2>1, <2>2, <2>3, <2>4, <2>5, LinkKept
<1>. QED BY <1>3, <1>4, <1>5, <1>6 DEF QueueStep

\* A dropped future is uncounted first and unlinked later.
LEMMA OutsideLinks ==
  ASSUME Constants, Counting, Inv, ListInv, NEW p \in Proc,
         WaitStep(p) \/ Signal(p) \/ SpuriousPoll(p) \/ Cancel(p)
  PROVE  ListInv'
<1>. USE DEF Inv, word, bias, nodes, wakes, local
<1>1. LinkedAt(p) /\ list \in Seq(Proc) /\ NoRepeats(list)
  BY DEF ListInv, LinkInv, ListType
<1>2. CASE CheckNode(p) \/ Unpark(p) \/ Poll(p) \/ SpuriousPoll(p)
  <2>1. pc[p] \in {"wait", "parked"} /\ UNCHANGED <<list, pending, mode, after>>
    BY <1>2 DEF CheckNode, Unpark, Poll, SpuriousPoll
  <2>2. PICK l \in {"wait", "parked", "contend"} : Go(p, l)
    BY <1>2 DEF CheckNode, Unpark, Poll, SpuriousPoll
  <2>3. ListType'
    BY <1>2 DEF CheckNode, Unpark, Poll, SpuriousPoll, ListInv, ListType
  <2>4. LinkedAt(p)' /\ (p \in Waiting' <=> p \in Waiting)
    BY <1>1, <2>1, <2>2 DEF Go, PlaceInv, LinkedAt, Waiting, Writers, Section
  <2>. QED BY <2>1, <2>2, <2>3, <2>4, ListSame
<1>3. CASE CancelNode(p)
  <2>1. /\ pc[p] = "cancel" /\ list' = Unlink(list, p) /\ after' = [after EXCEPT ![p] = "idle"]
        /\ UNCHANGED <<pending, mode>>
    BY <1>3 DEF CancelNode
  <2>2. PICK l \in {"wake", "idle"} : Go(p, l)
    BY <1>3 DEF CancelNode
  <2>3. list' \in Seq(Proc) /\ NoRepeats(list') /\ Linked(list') = Linked(list) \ {p}
    BY <1>1, <2>1, UnlinkRemoves
  <2>4. ListType'
    BY <1>3, <2>3 DEF CancelNode, ListInv, ListType
  <2>5. LinkedAt(p)' /\ p \notin Waiting' /\ p \notin Waiting
    BY <2>1, <2>2, <2>3 DEF Go, PlaceInv, LinkedAt, Waiting, Writers, Section
  <2>6. \A q \in Proc : q # p => after'[q] = after[q]
    BY <2>1 DEF PlaceInv
  <2>. QED BY <2>1, <2>2, <2>3, <2>4, <2>5, <2>6, LinkKept
<1>4. CASE Signal(p)
  <2>1. pc[p] = "signal" /\ after[p] \in {"idle", "queue"} /\ UNCHANGED <<list, pending, mode, after>>
    BY <1>4 DEF Signal, PlaceInv
  <2>2. PICK w \in handles[p] :
          /\ permit' = [permit EXCEPT ![w] = TRUE]
          /\ handles' = [handles EXCEPT ![p] = @ \ {w}]
          /\ Go(p, IF handles[p] = {w} THEN after[p] ELSE "signal")
    BY <1>4 DEF Signal
  <2>3. PICK l \in {after[p], "signal"} : Go(p, l)
    BY <2>2
  <2>4. ListType'
    <3>1. permit' \in [Proc -> BOOLEAN] /\ handles' \in [Proc -> SUBSET Proc]
      BY <2>2 DEF ListInv, ListType
    <3>. QED BY <1>4, <3>1 DEF Signal, ListInv, ListType
  <2>5. LinkedAt(p)' /\ (p \in Waiting' <=> p \in Waiting)
    BY <1>1, <2>1, <2>3 DEF Go, PlaceInv, LinkedAt, Waiting, Writers, Section
  <2>. QED BY <2>1, <2>3, <2>4, <2>5, ListSame
<1>5. CASE Cancel(p) /\ pc[p] = "scan"
  <2>1. UNCHANGED <<list, pending, mode>> /\ after' = [after EXCEPT ![p] = "idle"]
    BY <1>5 DEF Cancel, ReleaseWrite
  <2>2. PICK l \in {"wake", "idle"} : Go(p, l)
    BY <1>5 DEF Cancel, ReleaseWrite
  <2>3. ListType'
    BY <1>5 DEF Cancel, ReleaseWrite, ListInv, ListType
  <2>4. p \notin Linked(list)
    BY <1>1, <1>5 DEF LinkedAt
  <2>5. LinkedAt(p)' /\ p \notin Waiting' /\ p \notin Waiting
    BY <2>1, <2>2, <2>4 DEF Go, PlaceInv, LinkedAt, Waiting, Writers, Section
  <2>6. \A q \in Proc : q # p => after'[q] = after[q]
    BY <2>1 DEF PlaceInv
  <2>. QED BY <2>1, <2>2, <2>3, <2>5, <2>6, ListSame
<1>6. CASE Cancel(p) /\ pc[p] # "scan"
  <2>1. /\ pc[p] = "wait" /\ Go(p, "cancel") /\ UNCHANGED <<list, mode, after>>
        /\ pending' = IF mode[p] = "write" THEN pending - 1 ELSE pending
    BY <1>6 DEF Cancel, MayDrop, LeaveQueue
  <2>2. ListType'
    BY <1>6 DEF Cancel, LeaveQueue, ListInv, ListType
  <2>3. LinkedAt(p)' /\ p \notin Waiting' /\ (p \in Waiting <=> mode[p] = "write")
    BY <1>1, <2>1 DEF Go, PlaceInv, LinkedAt, Waiting, Writers, Section
  <2>4. \/ p \notin Waiting' /\ p \in Waiting /\ pending' = pending - 1
        \/ (p \in Waiting' <=> p \in Waiting) /\ pending' = pending
    BY <2>1, <2>3
  <2>. QED BY <2>1, <2>2, <2>3, <2>4, LinkKept
<1>. QED BY <1>2, <1>3, <1>4, <1>5, <1>6 DEF WaitStep

LEMMA NobodyLinked == \A S : <<>> \in Seq(S) /\ NoRepeats(<<>>) /\ Linked(<<>>) = {}
  BY SMTT(30) DEF NoRepeats, Linked

\* A waker empties the list only of readers, and only outside the section.
LEMMA WakeLinks ==
  ASSUME Constants, Counting, Inv, ListInv, NEW p \in Proc, WakeWaiters(p)
  PROVE  ListInv'
<1>. USE DEF Inv, word, bias, nodes, wakes, local
<1>1. /\ LinkedAt(p) /\ list \in Seq(Proc) /\ pc[p] = "wake" /\ listLock = NoOne
      /\ after[p] \in {"idle", "queue"} /\ UNCHANGED <<pending, mode, after>>
  BY DEF ListInv, LinkInv, ListType, WakeWaiters, PlaceInv
<1>2. Writers(list) \subseteq Linked(list) /\ Linked(list) \subseteq Proc
  BY <1>1, LinkedIn DEF Writers
<1>3. ASSUME NEW S \in SUBSET Proc, MarkWoken(p, S)
      PROVE  /\ node' \in [Proc -> {"WAITING", "WOKEN"}] /\ armed' \in [Proc -> BOOLEAN]
             /\ handles' \in [Proc -> SUBSET Proc]
  <2>1. node' \in [Proc -> {"WAITING", "WOKEN"}]
    BY <1>3 DEF MarkWoken, ListInv, ListType
  <2>2. armed' \in [Proc -> BOOLEAN]
    BY <1>3 DEF MarkWoken
  <2>3. handles' \in [Proc -> SUBSET Proc]
    BY <1>3 DEF MarkWoken, ListInv, ListType
  <2>. QED BY <2>1, <2>2, <2>3
<1>4. CASE Writers(list) # {}
  <2>1. {FirstIn(list, Writers(list))} \in SUBSET Proc
    BY <1>1, <1>2, <1>4, FirstInIsFirst
  <2>2. MarkWoken(p, {FirstIn(list, Writers(list))}) /\ UNCHANGED <<list, queued>>
    BY <1>4 DEF WakeWaiters
  <2>3. PICK l \in {after[p], "signal"} : Go(p, l)
    BY <2>2 DEF MarkWoken
  <2>4. ListType'
    BY <1>3, <2>1, <2>2 DEF WakeWaiters, ListInv, ListType
  <2>5. LinkedAt(p)' /\ (p \in Waiting' <=> p \in Waiting)
    BY <1>1, <2>2, <2>3 DEF Go, PlaceInv, LinkedAt, Waiting, Writers, Section
  <2>. QED BY <1>1, <2>2, <2>3, <2>4, <2>5, ListSame
<1>5. CASE Writers(list) = {}
  <2>1. MarkWoken(p, Linked(list)) /\ list' = <<>> /\ queued' = FALSE
    BY <1>5 DEF WakeWaiters
  <2>2. PICK l \in {after[p], "signal"} : Go(p, l)
    BY <2>1 DEF MarkWoken
  <2>3. list' \in Seq(Proc) /\ NoRepeats(list') /\ Linked(list') = {}
    BY <2>1, NobodyLinked
  <2>4. ListType'
    BY <1>2, <1>3, <2>1, <2>3 DEF WakeWaiters, ListInv, ListType
  <2>5. ASSUME NEW q \in Proc PROVE LinkedAt(q)'
    <3>1. pc[q] \notin Section
      BY <1>1 DEF SectionInv, Section, Constants
    <3>2. ~(mode[q] = "write" /\ pc[q] \in {"wait", "parked"})
      BY <1>5 DEF ListInv, LinkInv, LinkedAt, Writers
    <3>3. l \notin Section \cup {"wait", "parked"}
      BY <1>1, <2>2 DEF Section
    <3>4. pc'[q] = pc[q] \/ pc'[q] = l
      BY <2>2 DEF Go, PlaceInv
    <3>. QED BY <1>1, <2>3, <3>1, <3>2, <3>3, <3>4 DEF LinkedAt
  <2>6. Waiting = {} /\ Waiting' = {}
    BY <1>5, <2>3 DEF Waiting, Writers
  <2>7. pending' \in Nat /\ pending' = Cardinality(Waiting')
    BY <1>1, <2>6 DEF ListInv, LinkInv
  <2>. QED BY <2>4, <2>5, <2>7 DEF ListInv, LinkInv
<1>. QED BY <1>4, <1>5

\* Who has a guard, or wants nothing, is not linked.
LEMMA FreeLinks ==
  ASSUME Constants, Counting, Inv, ListInv, NEW p \in Proc,
         UnlockSlot(p) \/ UnlockRead(p) \/ UnlockWrite(p) \/ (\E m \in {"read", "write"} : Call(p, m))
  PROVE  ListInv'
<1>. USE DEF Inv, word, bias, nodes, wakes, local
<1>1. LinkedAt(p) /\ pc[p] \in {"hold", "idle"} /\ UNCHANGED <<list, pending>>
  BY DEF ListInv, LinkInv, UnlockSlot, UnlockRead, UnlockWrite, ReleaseWrite, Call
<1>2. p \notin Linked(list)
  BY <1>1 DEF LinkedAt
<1>3. PICK l \in {"idle", "wake", "contend"} : Go(p, l)
  BY DEF UnlockSlot, UnlockRead, UnlockWrite, ReleaseWrite, Call
<1>4. ListType'
  <2>1. CASE UnlockSlot(p) \/ UnlockRead(p) \/ UnlockWrite(p)
    BY <2>1 DEF UnlockSlot, UnlockRead, UnlockWrite, ReleaseWrite, ListInv, ListType
  <2>2. CASE \E m \in {"read", "write"} : Call(p, m)
    <3>1. ops[p] \in Nat /\ ops[p] > 0 /\ ops' = [ops EXCEPT ![p] = @ - 1]
      BY <2>2 DEF Call, ListInv, ListType
    <3>2. ops[p] - 1 \in Nat
      BY <3>1, SMTT(30)
    <3>3. ops' \in [Proc -> Nat]
      BY <3>1, <3>2 DEF ListInv, ListType
    <3>. QED BY <2>2, <3>3 DEF Call, ListInv, ListType
  <2>. QED BY <2>1, <2>2
<1>5. \A q \in Proc : q # p => mode'[q] = mode[q] /\ after'[q] = after[q]
  BY DEF UnlockSlot, UnlockRead, UnlockWrite, ReleaseWrite, Call, PlaceInv
<1>6. LinkedAt(p)' /\ p \notin Waiting' /\ p \notin Waiting
  BY <1>1, <1>2, <1>3 DEF Go, PlaceInv, LinkedAt, Waiting, Writers, Section
<1>. QED BY <1>1, <1>3, <1>4, <1>5, <1>6, ListSame

\* Every step keeps the list and its count.
LEMMA ListStep ==
  ASSUME Constants, Counting, Inv, ListInv, [Next]_vars
  PROVE  ListInv'
<1>1. ASSUME NEW p \in Proc, Step(p) \/ Choice(p) PROVE ListInv'
  BY <1>1, ReadLinks, WriteLinks, QueueLinks, OutsideLinks, WakeLinks, FreeLinks
     DEF Step, Choice, FreeStep
<1>2. CASE UNCHANGED vars
  BY <1>2 DEF vars, word, bias, nodes, wakes, local, ListInv, ListType, LinkInv, LinkedAt, Waiting, Writers
<1>. QED BY <1>1, <1>2 DEF Next

\* A new lock has an empty list.
LEMMA InitList == Constants /\ Counting /\ Init => ListInv
<1>. SUFFICES ASSUME Constants, Counting, Init PROVE ListInv
  OBVIOUS
<1>1. list \in Seq(Proc) /\ NoRepeats(list) /\ Linked(list) = {}
  BY SMTT(30) DEF Init, NoRepeats, Linked
<1>2. ListType
  BY <1>1 DEF Init, ListType, Constants
<1>3. Waiting = {} /\ \A p \in Proc : LinkedAt(p)
  BY <1>1 DEF Init, Waiting, Writers, LinkedAt, Section
<1>. QED BY <1>2, <1>3 DEF Counting, Init, ListInv, LinkInv

\* The counts are what CountsExact says.
LEMMA AllCounted == Inv /\ ListInv => CountsExact
BY LinkedIn DEF Inv, PlaceInv, Counts, ListInv, ListType, LinkInv, CountsExact, TypeOK

-----------------------------------------------------------------------------
INSTANCE FiniteSetTheorems

LEMMA CountingHolds == Counting
<1>1. IsFiniteSet({}) /\ Cardinality({}) = 0
  BY FS_EmptySet
<1>2. \A S : IsFiniteSet(S) => Cardinality(S) \in Nat /\ (Cardinality(S) = 0 => S = {})
  BY FS_EmptySet, FS_CardinalityType
<1>3. \A S, T : IsFiniteSet(T) /\ S \subseteq T => IsFiniteSet(S)
  BY FS_Subset
<1>4. \A S, x : IsFiniteSet(S) /\ x \notin S => Cardinality(S \cup {x}) = Cardinality(S) + 1
  BY FS_AddElement
<1>5. \A S, x : IsFiniteSet(S) /\ x \in S => Cardinality(S \ {x}) = Cardinality(S) - 1
  BY FS_RemoveElement
<1>. QED BY <1>1, <1>2, <1>3, <1>4, <1>5 DEF Counting

(* A writer's guard excludes every other, in every number of callers and    *)
(* slots, if no write future is dropped while it drains the slots: the one *)
(* case in which slots that are off hold readers (v2.rs:737).              *)
THEOREM GuardsExclude ==
  ASSUME Constants, "drain" \notin Drops
  PROVE  Spec => []Exclusion
<1>1. Init => Inv /\ SlotInv
  BY InitInv, CountingHolds
<1>2. Inv /\ SlotInv /\ [Next]_vars => Inv' /\ SlotInv'
  BY StepKeeps, CountingHolds
<1>3. Inv /\ SlotInv => Exclusion
  BY ExclusionHolds, CountingHolds
<1>. QED BY <1>1, <1>2, <1>3, PTL DEF Spec

(* The reader, pending and slot counts are exact, whatever is dropped.      *)
THEOREM CountsAreExact ==
  ASSUME Constants
  PROVE  Spec => []CountsExact
<1>1. Init => Inv /\ ListInv
  BY InitInv, InitList, CountingHolds
<1>2. Inv /\ ListInv /\ [Next]_vars => Inv' /\ ListInv'
  BY StepKeeps, ListStep, CountingHolds
<1>3. Inv /\ ListInv => CountsExact
  BY AllCounted
<1>. QED BY <1>1, <1>2, <1>3, PTL DEF Spec
=============================================================================
