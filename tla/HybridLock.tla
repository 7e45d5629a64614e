----------------------------- MODULE HybridLock -----------------------------
(***************************************************************************)
(* HybridMutex and HybridRwLock of channels/src/sync (mutex.rs,            *)
(* rwlock.rs). Both wait in the same FIFO list under the same protocol: a  *)
(* release wakes waiters to contend again and never hands the lock over.   *)
(* The mutex is the lock whose only mode is "lock"; its waiters are        *)
(* writers to the list, and it has no WRITER_PENDING bit.                  *)
(*                                                                         *)
(* writeLocked, readers, pending and queued are the fields of the state    *)
(* word. The list, its nodes and rearming are only touched under the list  *)
(* spinlock, so a critical section is one step per access to the state     *)
(* word in it; listLock is held between those steps. An attempt that loads *)
(* the word and then swaps it may fail on a free lock when the word        *)
(* changes in between, so going on to queue has no condition on the word.  *)
(***************************************************************************)
EXTENDS WaitList, FiniteSets

CONSTANTS Kinds,         \* the locks to look at: "mutex", "rwlock"
          Thread, Task,  \* blocking callers and callers of the futures
          Budgets,       \* how many acquisitions each may ask for
          NoOne

Proc == Thread \cup Task

ASSUME LockAssumption ==
  /\ IsFiniteSet(Proc) /\ NoOne \notin Proc
  /\ Kinds \subseteq {"mutex", "rwlock"} /\ Budgets \subseteq [Proc -> Nat]

VARIABLES kind,                                  \* which lock this is
          writeLocked, readers, pending, queued, \* the state word
          list, listLock,    \* the wait list; who has its spinlock
          node,              \* state of each waiter's node
          armed,             \* whose node still has its waiter handle
          permit,            \* unpark tokens and wakers that have fired
          handles,           \* waiter handles a waker has taken
          mode,              \* what each caller wants or has
          pc, after,         \* place in the code; place after fix_flags
          ops                \* acquisitions left

word  == <<writeLocked, readers, pending, queued>>
nodes == <<list, listLock, node, armed>>
wakes == <<permit, handles>>
vars  == <<kind, word, nodes, wakes, mode, pc, after, ops>>

Init ==
  /\ kind \in Kinds
  /\ writeLocked = FALSE /\ readers = 0 /\ pending = FALSE /\ queued = FALSE
  /\ list = <<>> /\ listLock = NoOne
  /\ node = [p \in Proc |-> "WAITING"] /\ armed = [p \in Proc |-> FALSE]
  /\ permit = [p \in Proc |-> FALSE] /\ handles = [p \in Proc |-> {}]
  /\ mode \in [Proc -> {IF kind = "mutex" THEN "lock" ELSE "write"}]
  /\ pc = [p \in Proc |-> "idle"] /\ after = [p \in Proc |-> "idle"]
  /\ ops \in Budgets

Modes == IF kind = "mutex" THEN {"lock"} ELSE {"read", "write"}
IsWriter(p) == mode[p] # "read"
Writers(q)  == {p \in Linked(q) : IsWriter(p)}

Go(p, l) == pc' = [pc EXCEPT ![p] = l]

-----------------------------------------------------------------------------
(* The state word *)

MutReadOverPending(m) == m = "read" /\ ~writeLocked
MutWriteOverReaders(m) == m = "write" /\ ~writeLocked

CanLock(m)  == m = "lock" /\ ~writeLocked
CanRead(m)  == m = "read" /\ ~writeLocked /\ ~pending
CanWrite(m) == m = "write" /\ ~writeLocked /\ readers = 0
CanTake(m)  == CanLock(m) \/ CanRead(m) \/ CanWrite(m)

Take(m) ==
  IF m = "read" THEN readers' = readers + 1 /\ UNCHANGED writeLocked
                ELSE writeLocked' = TRUE /\ UNCHANGED readers

-----------------------------------------------------------------------------
(* Acquiring *)

Begin(p, m) ==
  /\ pc[p] = "idle" /\ ops[p] > 0
  /\ ops' = [ops EXCEPT ![p] = @ - 1] /\ mode' = [mode EXCEPT ![p] = m]
  /\ Go(p, "contend")
  /\ UNCHANGED <<word, nodes, wakes, after>>

\* try_lock, try_read and try_write; one that returns None changes nothing.
TryNow(p, m) ==
  /\ pc[p] = "idle" /\ ops[p] > 0 /\ CanTake(m)
  /\ Take(m)
  /\ ops' = [ops EXCEPT ![p] = @ - 1] /\ mode' = [mode EXCEPT ![p] = m]
  /\ Go(p, "hold")
  /\ UNCHANGED <<pending, queued, nodes, wakes, after>>

\* The lock-free attempt of every call. A winner whose node is still linked
\* has to take it out before it returns.
TryAcquire(p) ==
  /\ pc[p] = "contend" /\ CanTake(mode[p])
  /\ Take(mode[p])
  /\ Go(p, IF p \in Linked(list) THEN "finish" ELSE "hold")
  /\ UNCHANGED <<pending, queued, nodes, wakes, mode, after, ops>>

\* fix_flags, first half: WRITER_PENDING from what is left in the list q.
FixPending(q) == pending' = (kind = "rwlock" /\ Writers(q) # {})

\* unlink and fix_flags under the list lock; next is where p goes from there.
UnlinkThen(p, next) ==
  /\ list' = Unlink(list, p)
  /\ FixPending(list')
  /\ listLock' = p
  /\ after' = [after EXCEPT ![p] = next]
  /\ Go(p, "flags")

\* fix_flags, second half: HAS_QUEUED; the list lock is released.
FixQueued(p) ==
  /\ pc[p] = "flags"
  /\ queued' = (list # <<>>)
  /\ listLock' = NoOne
  /\ Go(p, after[p])
  /\ UNCHANGED <<writeLocked, readers, pending, list, node, armed, wakes, mode, after, ops>>

\* finish_node. A waker may have unlinked a reader in the meantime.
FinishNode(p) ==
  /\ pc[p] = "finish" /\ listLock = NoOne
  /\ IF p \in Linked(list) THEN UnlinkThen(p, "hold")
     ELSE Go(p, "hold") /\ UNCHANGED <<pending, list, listLock, after>>
  /\ UNCHANGED <<writeLocked, readers, queued, node, armed, wakes, mode, ops>>

\* rearm, link_back and the fetch_or of the flags.
Queue(p) ==
  /\ pc[p] = "contend" /\ listLock = NoOne
  /\ listLock' = p
  /\ node' = [node EXCEPT ![p] = "WAITING"] /\ armed' = [armed EXCEPT ![p] = TRUE]
  /\ list' = LinkBack(list, p)
  /\ queued' = TRUE /\ pending' = (pending \/ mode[p] = "write")
  /\ Go(p, "recheck")
  /\ UNCHANGED <<writeLocked, readers, wakes, mode, after, ops>>

\* The loop under the list lock: a word that does not admit the waiter sends
\* it to sleep, one that does is swapped.
Recheck(p) ==
  /\ pc[p] = "recheck"
  /\ \/ ~CanTake(mode[p]) /\ Go(p, "wait") /\ listLock' = NoOne /\ UNCHANGED <<writeLocked, readers>>
     \/ CanTake(mode[p]) /\ Take(mode[p]) /\ Go(p, "won") /\ UNCHANGED listLock
  /\ UNCHANGED <<pending, queued, list, node, armed, wakes, mode, after, ops>>

\* The rest of that section after the swap.
Won(p) ==
  /\ pc[p] = "won"
  /\ UnlinkThen(p, "hold")
  /\ UNCHANGED <<writeLocked, readers, queued, node, armed, wakes, mode, ops>>
-----------------------------------------------------------------------------
(* Waiting *)

\* The thread reads the state of its node, and parks while it is WAITING.
CheckNode(p) ==
  /\ pc[p] = "wait" /\ p \in Thread
  /\ Go(p, IF node[p] = "WAITING" THEN "parked" ELSE "contend")
  /\ UNCHANGED <<word, nodes, wakes, mode, after, ops>>

Unpark(p) ==
  /\ pc[p] = "parked" /\ permit[p]
  /\ permit' = [permit EXCEPT ![p] = FALSE]
  /\ Go(p, "wait")
  /\ UNCHANGED <<word, nodes, handles, mode, after, ops>>

\* A task is polled again once its waker has fired.
Poll(p) ==
  /\ pc[p] = "wait" /\ p \in Task /\ permit[p]
  /\ permit' = [permit EXCEPT ![p] = FALSE]
  /\ Go(p, "contend")
  /\ UNCHANGED <<word, nodes, handles, mode, after, ops>>

\* An executor may poll a future without a wake.
SpuriousPoll(p) ==
  /\ pc[p] = "wait" /\ p \in Task /\ ~permit[p]
  /\ Go(p, "contend")
  /\ UNCHANGED <<word, nodes, wakes, mode, after, ops>>

MutCancelKeepsWake(p) ==
  /\ pc[p] = "wait" /\ p \in Task /\ listLock = NoOne
  /\ IF p \in Linked(list) THEN UnlinkThen(p, "idle")
     ELSE Go(p, "idle") /\ UNCHANGED <<pending, list, listLock, after>>
  /\ UNCHANGED <<writeLocked, readers, queued, node, armed, wakes, mode, ops>>

MutCancelNoUnlink(p) ==
  /\ pc[p] = "wait" /\ p \in Task /\ listLock = NoOne
  /\ Go(p, IF node[p] = "WOKEN" THEN "wake" ELSE "idle")
  /\ UNCHANGED <<word, nodes, wakes, mode, after, ops>>

\* The future is dropped: its node leaves the list, and a wake it has
\* received is passed on.
Cancel(p) ==
  /\ pc[p] = "wait" /\ p \in Task /\ listLock = NoOne
  /\ LET next == IF node[p] = "WOKEN" THEN "wake" ELSE "idle"
     IN  IF p \in Linked(list) THEN UnlinkThen(p, next)
         ELSE Go(p, next) /\ UNCHANGED <<pending, list, listLock, after>>
  /\ UNCHANGED <<writeLocked, readers, queued, node, armed, wakes, mode, ops>>

-----------------------------------------------------------------------------
(* Releasing *)

UnlockRead(p) ==
  /\ pc[p] = "hold" /\ mode[p] = "read"
  /\ readers' = readers - 1
  /\ Go(p, IF readers = 1 /\ queued THEN "wake" ELSE "idle")
  /\ UNCHANGED <<writeLocked, pending, queued, nodes, wakes, mode, after, ops>>

Unlock(p) ==
  /\ pc[p] = "hold" /\ IsWriter(p)
  /\ writeLocked' = FALSE
  /\ Go(p, IF queued THEN "wake" ELSE "idle")
  /\ UNCHANGED <<readers, pending, queued, nodes, wakes, mode, after, ops>>

\* take_and_mark_woken for every node of S.
MarkWoken(p, S) ==
  /\ node' = [q \in Proc |-> IF q \in S THEN "WOKEN" ELSE node[q]]
  /\ armed' = [q \in Proc |-> armed[q] /\ q \notin S]
  /\ handles' = [handles EXCEPT ![p] = {q \in S : armed[q]}]

\* The first queued writer (for the mutex, the head) is woken and stays
\* linked.
WakeWriter(p) ==
  /\ pc[p] = "wake" /\ listLock = NoOne /\ Writers(list) # {}
  /\ LET w == FirstIn(list, Writers(list))
     IN  MarkWoken(p, {w}) /\ Go(p, IF armed[w] THEN "signal" ELSE "idle")
  /\ UNCHANGED <<word, list, listLock, permit, mode, after, ops>>

\* With no writer queued every reader is unlinked and woken. An empty list
\* only has its flags fixed.
WakeReaders(p) ==
  /\ pc[p] = "wake" /\ listLock = NoOne /\ Writers(list) = {}
  /\ MarkWoken(p, Linked(list))
  /\ after' = [after EXCEPT ![p] = IF \E q \in Linked(list) : armed[q] THEN "signal" ELSE "idle"]
  /\ list' = <<>> /\ FixPending(list') /\ listLock' = p /\ Go(p, "flags")
  /\ UNCHANGED <<writeLocked, readers, queued, permit, mode, ops>>

\* w.wake(), after the list lock is released.
Signal(p) ==
  /\ pc[p] = "signal"
  /\ \E w \in handles[p] :
       /\ permit' = [permit EXCEPT ![w] = TRUE]
       /\ handles' = [handles EXCEPT ![p] = @ \ {w}]
       /\ Go(p, IF handles[p] = {w} THEN "idle" ELSE "signal")
  /\ UNCHANGED <<word, nodes, mode, after, ops>>

-----------------------------------------------------------------------------
\* The calls by mode, and what a caller does of itself once it has called:
\* it contends and sleeps, drops its guard, and wakes.
Acquire(p) ==
  \/ TryAcquire(p) \/ Queue(p) \/ Recheck(p) \/ Won(p) \/ FinishNode(p)
  \/ CheckNode(p) \/ Unpark(p) \/ Poll(p)

LockCall(p)  == mode[p] = "lock" /\ Acquire(p)
ReadCall(p)  == mode[p] = "read" /\ Acquire(p)
WriteCall(p) == mode[p] = "write" /\ Acquire(p)

WakeWaiters(p) == WakeWriter(p) \/ WakeReaders(p) \/ Signal(p)

Step(p) ==
  /\ \/ LockCall(p) \/ ReadCall(p) \/ WriteCall(p)
     \/ FixQueued(p) \/ UnlockRead(p) \/ Unlock(p) \/ WakeWaiters(p)
  /\ UNCHANGED kind

Choice(p) ==
  /\ (\E m \in Modes : Begin(p, m) \/ TryNow(p, m)) \/ SpuriousPoll(p) \/ Cancel(p)
  /\ UNCHANGED kind

Next == \E p \in Proc : Step(p) \/ Choice(p)

Spec == Init /\ [][Next]_vars

-----------------------------------------------------------------------------
Admitted(p) == pc[p] \in {"hold", "finish", "won"} \/ (pc[p] = "flags" /\ after[p] = "hold")
Waiting(p) == pc[p] \in {"wait", "parked"}
Readers    == {p \in Proc : Admitted(p) /\ mode[p] = "read"}
Holders    == {p \in Proc : Admitted(p) /\ mode[p] # "read"}

Place == {"idle", "contend", "finish", "recheck", "won", "flags", "wait", "parked", "hold",
          "wake", "signal"}

(* Every variable keeps its type. *)
TypeOK ==
  /\ kind \in Kinds
  /\ writeLocked \in BOOLEAN /\ readers \in Nat /\ pending \in BOOLEAN /\ queued \in BOOLEAN
  /\ list \in Seq(Proc) /\ listLock \in Proc \cup {NoOne}
  /\ node \in [Proc -> {"WAITING", "WOKEN"}]
  /\ armed \in [Proc -> BOOLEAN] /\ permit \in [Proc -> BOOLEAN]
  /\ handles \in [Proc -> SUBSET Proc]
  /\ mode \in [Proc -> Modes]
  /\ pc \in [Proc -> Place] /\ after \in [Proc -> {"idle", "hold", "wake", "signal"}]
  /\ ops \in [Proc -> Nat]

(* A writer's guard excludes every other guard, and the state word counts  *)
(* exactly the guards there are, with the winners on their way to          *)
(* returning one: no release is lost and none made twice, whoever barges,  *)
(* cancels or is woken in between.                                         *)
Exclusion ==
  /\ \A p, q \in Holders : p = q
  /\ Holders = {} \/ Readers = {}
  /\ writeLocked <=> Holders # {}
  /\ readers = Cardinality(Readers)

(* The list holds raw pointers to nodes on the stacks of waiting threads   *)
(* and in futures: it holds each at most once, and none whose call has     *)
(* returned or whose future is gone (wait_queue.rs, link_back: the node    *)
(* must stay alive until it is unlinked).                                  *)
NoDanglingNode ==
  /\ \A i, j \in 1..Len(list) : list[i] = list[j] => i = j
  /\ \A p \in Linked(list) : pc[p] \in {"contend", "recheck", "won", "finish", "wait", "parked"}

(* "There is no state in which a linked waiter can be forgotten"           *)
(* (wait_queue.rs:14): while the lock is free and somebody is in the list, *)
(* somebody is awake that will take the lock or wake the next: a releaser  *)
(* before its wake, a waiter that contends, or one marked WOKEN.           *)
WakeOwed ==
  (~writeLocked /\ readers = 0 /\ list # <<>>) =>
    \/ \E p \in Proc : pc[p] = "wake" \/ (pc[p] = "flags" /\ after[p] = "wake")
    \/ \E p \in Linked(list) : pc[p] \in {"contend", "recheck"} \/ node[p] = "WOKEN"

(* No waiter is forgotten, and the nodes in the list are alive *)
ListSafe == NoDanglingNode /\ WakeOwed

(* Fairness of the reader-writer lock: while a writer sleeps in the list,  *)
(* no reader that comes later gets in (rwlock.rs:15: WRITER_PENDING gates  *)
(* new readers until the writer wins).                                     *)
NoReaderOvertakes ==
  [][readers' > readers => ~\E w \in Linked(list) : Waiting(w) /\ IsWriter(w)]_vars

(* With finitely many acquisitions, every call and every future that is    *)
(* not dropped gets the lock: no wake is lost between parking, barging and *)
(* cancellation.                                                           *)
EveryoneGetsIn ==
  \A p \in Proc : pc[p] = "contend" ~> pc[p] \in {"hold", "idle"}
=============================================================================
