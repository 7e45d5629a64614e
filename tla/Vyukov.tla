------------------------------- MODULE Vyukov -------------------------------
(***************************************************************************)
(* The experimental bounded MPMC channel (mpmc_exp): a ring of stamped     *)
(* slots that is pushed to and popped from without a lock, and two queues  *)
(* of waiters behind a mutex. A waiter registers and tries once more; a    *)
(* peer that has pushed or popped reads the number of waiters and wakes    *)
(* the first.                                                              *)
(*                                                                         *)
(* A step is one access to shared memory, or one critical section. A call  *)
(* is a program of labels. A pop is a step: it fails only where the stamp  *)
(* it reads says so, and its cursor is then still the channel's.           *)
(***************************************************************************)
EXTENDS Naturals, Sequences, FiniteSets, TLC

CONSTANTS Senders, Receivers,   \* handles, one thread or task each
          Clients               \* the programs: calls, by thread; handles open
                                \* at first; items a sender sends at most;
                                \* batch, the size of batches; cap and phys,
                                \* the capacity and the size of the buffer

Threads == Senders \cup Receivers

VARIABLES client,
          seq, val,             \* the slots: stamp and value
          enqueue_pos, dequeue_pos,
          sent,                 \* history: the item of every position claimed
          parkers,              \* the waiters of each role, in order of arrival
          scount, rcount,       \* sender_count, receiver_count
          handle,               \* none, open or closed
          th,                   \* the threads
          missed                \* history: a wake had no effect

ring == <<seq, val, enqueue_pos, dequeue_pos, sent>>
ends == <<scount, rcount, handle>>
vars == <<client, ring, parkers, ends, th, missed>>

Idle == [todo |-> << >>, op |-> "none",
         n |-> 0,               \* items left to send, or still wanted
         got |-> FALSE,         \* a batch has received something
         again |-> FALSE,       \* this is the try after the registration
         linked |-> FALSE,      \* my_id is Some
         notified |-> FALSE,    \* popped by wake_one or wake_all
         owed |-> FALSE,        \* history: popped, and has not tried since
         flag |-> FALSE,        \* unparked, or its waker called
         pos |-> 0,             \* the position a push or pop works on
         wakes |-> {}]          \* taken out of the queue, to be woken

Init ==
  /\ client \in Clients
  /\ seq = [i \in 0 .. client.phys - 1 |-> i]
  /\ val = [i \in 0 .. client.phys - 1 |-> << >>]
  /\ enqueue_pos = 0 /\ dequeue_pos = 0 /\ sent = << >>
  /\ parkers = [r \in {"Send", "Recv"} |-> << >>]
  /\ scount = Cardinality(client.open \cap Senders)
  /\ rcount = Cardinality(client.open \cap Receivers)
  /\ handle = [t \in Threads |-> IF t \in client.open THEN "open" ELSE "none"]
  /\ th = [t \in Threads |-> Idle]
  /\ missed = FALSE

At(t, l) == th[t].todo # << >> /\ th[t].todo[1] = l
Rest(t) == Tail(th[t].todo)
Settled(r) == IF r.todo = << >> THEN [Idle EXCEPT !.flag = r.flag] ELSE r
Moved(t, p, r) == Settled([todo |-> p] @@ r @@ th[t])
Step(t, p, r) == th' = [th EXCEPT ![t] = Moved(t, p, r)]

Role(t) == IF t \in Senders THEN "Send" ELSE "Recv"
Peers(t) == IF t \in Senders THEN "Recv" ELSE "Send"
SendBatchFutures == {"send_batch_future", "send_batch_mut_future"}
RecvBatchFutures == {"recv_batch_future", "recv_batch_mut_future"}
Async(o) == o \in {"send_future", "recv_future"} \cup SendBatchFutures \cup RecvBatchFutures
Batch(o) == o \in {"send_batch", "try_send_batch", "recv_batch", "try_recv_batch"}
                   \cup SendBatchFutures \cup RecvBatchFutures
Try(o)   == o \in {"try_send", "try_send_batch", "try_recv", "try_recv_batch"}
(* the calls that give the waker of their entry a flag on their own stack *)
Flagged(o) == o \in {"send", "recv", "recv_batch"}
Queued(t) == \E i \in DOMAIN parkers[Role(t)] : parkers[Role(t)][i] = t
Without(q, t) == SelectSeq(q, LAMBDA x : x # t)
Slot(i) == i % client.phys

SendCalls == {"send", "try_send", "send_batch", "try_send_batch", "send_future"} \cup SendBatchFutures
RecvCalls == {"recv", "try_recv", "recv_batch", "try_recv_batch", "recv_timeout", "recv_future"}
             \cup RecvBatchFutures

(* Sync calls and try calls look at the handle first, futures do not. *)
Call(t, o) ==
  /\ th[t].todo = << >> /\ o \in client.calls[t]
  /\ o \in IF t \in Senders THEN SendCalls ELSE RecvCalls
  /\ handle[t] = "open" \/ (handle[t] = "closed" /\ Async(o))
  /\ LET n == IF Batch(o) THEN client.batch ELSE 1 IN
       /\ t \in Senders =>
            Cardinality({i \in DOMAIN sent : sent[i][1] = t}) + n <= client.items
       /\ Step(t, IF t \in Senders THEN <<"alive">> ELSE <<"pop">>, [op |-> o, n |-> n])
  /\ UNCHANGED <<ring, parkers, ends, missed>>

-----------------------------------------------------------------------------
(* What a call does once its push, or its pop, has gone through *)

Unreg(t) == IF th[t].linked THEN <<"unreg">> ELSE << >>
(* it was taken out of the queue and has not tried since: the wake is lost *)
Lost(t) == th[t].owed

(* one notify for every item, and one more behind the last *)
TrySendBatchPushed(left) == <<"gate">> \o (IF left > 0 THEN <<"load">> ELSE <<"gate">>)
(* a waiting batch stays registered until its last item is in *)
SendBatchPushed(p, left) == <<"gate">> \o (IF left > 0 THEN <<"alive">> ELSE Unreg(p))
SendBatchFuturePushed(p, left) == SendBatchPushed(p, left)
SendBatchMutFuturePushed(p, left) == SendBatchPushed(p, left)
AfterPush(p) ==
  LET left == th[p].n - 1 IN
  CASE th[p].op = "try_send_batch" -> TrySendBatchPushed(left)
    [] th[p].op = "send_batch" -> SendBatchPushed(p, left)
    [] th[p].op = "send_batch_future" -> SendBatchFuturePushed(p, left)
    [] th[p].op = "send_batch_mut_future" -> SendBatchMutFuturePushed(p, left)
    [] OTHER -> Unreg(p) \o <<"gate">>

(* A batch drains on: pop and notify, until it has enough or finds nothing. *)
Drain(left) == IF left > 0 THEN <<"drain">> ELSE << >>
TryRecvBatchPopped(r, left) == <<"gate">> \o (IF At(r, "last") THEN << >> ELSE Drain(left))
(* a future unregisters behind the last *)
BatchFuturePopped(r, left) == <<"gate">> \o (IF left > 0 THEN <<"drain">> ELSE Unreg(r))
BatchMutFuturePopped(r, left) == BatchFuturePopped(r, left)
(* recv_sync for the first, then a drain *)
RecvBatchPopped(r, left) == (IF th[r].got THEN << >> ELSE Unreg(r)) \o <<"gate">> \o Drain(left)
(* a recv_timeout that finds the senders gone, and then an item, leaves its entry *)
RecvTimeoutPopped(r) == (IF At(r, "last") /\ ~th[r].again THEN << >> ELSE Unreg(r)) \o <<"gate">>
RecvPopped(r) == Unreg(r) \o <<"gate">>
AfterPop(r) ==
  LET left == th[r].n - 1 IN
  <<"free">> \o CASE th[r].op = "try_recv_batch" -> TryRecvBatchPopped(r, left)
                  [] th[r].op = "recv_batch_future" -> BatchFuturePopped(r, left)
                  [] th[r].op = "recv_batch_mut_future" -> BatchMutFuturePopped(r, left)
                  [] th[r].op = "recv_batch" -> RecvBatchPopped(r, left)
                  [] th[r].op = "recv_timeout" -> RecvTimeoutPopped(r)
                  [] OTHER -> RecvPopped(r)

-----------------------------------------------------------------------------
(* Ring::push. The cursor is loaded first; what follows reads the head and  *)
(* the stamp and claims the position. If the cursor is stale by then, the   *)
(* head may have passed it, which reads as full; else it is loaded again.   *)

LoadCursor(p) ==
  /\ At(p, "load")
  /\ Step(p, <<"push">> \o Rest(p), [pos |-> enqueue_pos])
  /\ UNCHANGED <<ring, parkers, ends, missed>>

MutFullFor(p) == seq[Slot(th[p].pos)] < th[p].pos
FullFor(p) ==
  LET pos == th[p].pos IN
  \/ pos < dequeue_pos \/ pos - dequeue_pos >= client.cap
  \/ seq[Slot(pos)] < pos

(* Full: return, register, or sleep. send_sync tries a few times more       *)
(* before it registers.                                                     *)
SendSyncFull(p)   == IF th[p].linked THEN {<<"park">>} ELSE {<<"alive">>, <<"register">>}
SendBatchFull(p)  == IF th[p].again THEN {<<"look">>} ELSE {<<"register">>}
SendFutureFull(p) == IF th[p].again THEN {<<"pending">>} ELSE {<<"register">>}
WhenFull(p) ==
  CASE Try(th[p].op) -> {<< >>}
    [] th[p].op = "send" -> SendSyncFull(p)
    [] th[p].op = "send_batch" -> SendBatchFull(p)
    [] OTHER -> SendFutureFull(p)

Push(p) ==
  /\ At(p, "push")
  /\ CASE FullFor(p) ->
            /\ \E next \in WhenFull(p) : Step(p, next, [owed |-> FALSE, again |-> FALSE])
            /\ missed' = (missed \/ enqueue_pos - dequeue_pos < client.cap)
            /\ UNCHANGED ring
       [] ~FullFor(p) /\ th[p].pos # enqueue_pos ->
            /\ Step(p, th[p].todo, [pos |-> enqueue_pos])
            /\ UNCHANGED <<ring, missed>>
       [] OTHER ->
            /\ enqueue_pos' = enqueue_pos + 1
            /\ sent' = Append(sent, <<p, Len(sent)>>)
            /\ Step(p, <<"publish">> \o AfterPush(p),
                    [n |-> th[p].n - 1, owed |-> FALSE, again |-> FALSE])
            /\ UNCHANGED <<seq, val, dequeue_pos, missed>>
  /\ UNCHANGED <<parkers, ends>>

(* ... then the value is written and the slot stamped *)
Publish(p) ==
  /\ At(p, "publish")
  /\ seq' = [seq EXCEPT ![Slot(th[p].pos)] = th[p].pos + 1]
  /\ val' = [val EXCEPT ![Slot(th[p].pos)] = sent[th[p].pos + 1]]
  /\ Step(p, Rest(p), << >>)
  /\ UNCHANGED <<enqueue_pos, dequeue_pos, sent, parkers, ends, missed>>

(* Ring::pop. "last" is the pop behind a look at the sender count. *)
Ready == seq[Slot(dequeue_pos)] = dequeue_pos + 1
(* an item is published behind one that is not yet *)
Hidden == \E i \in dequeue_pos .. enqueue_pos - 1 : seq[Slot(i)] = i + 1

WhenEmpty(r) ==
  LET o == th[r].op IN
  CASE At(r, "drain") -> IF o = "recv_batch" THEN << >> ELSE Unreg(r)
    [] At(r, "last") -> IF o = "recv_timeout" THEN << >> ELSE Unreg(r)
    [] OTHER -> <<"alive">>

Pop(r) ==
  /\ \E l \in {"pop", "last", "drain"} : At(r, l)
  /\ IF Ready
     THEN /\ dequeue_pos' = dequeue_pos + 1
          /\ Step(r, AfterPop(r), [pos |-> dequeue_pos, n |-> th[r].n - 1, got |-> TRUE, owed |-> FALSE])
          /\ UNCHANGED missed
     ELSE /\ Step(r, WhenEmpty(r), [owed |-> FALSE])
          /\ missed' = (missed \/ Hidden)
          /\ UNCHANGED dequeue_pos
  /\ UNCHANGED <<seq, val, enqueue_pos, sent, parkers, ends>>

(* the value is read and the slot stamped for the next lap *)
Free(r) ==
  /\ At(r, "free")
  /\ seq' = [seq EXCEPT ![Slot(th[r].pos)] = th[r].pos + client.phys]
  /\ val' = [val EXCEPT ![Slot(th[r].pos)] = << >>]
  /\ Step(r, Rest(r), << >>)
  /\ UNCHANGED <<enqueue_pos, dequeue_pos, sent, parkers, ends, missed>>

-----------------------------------------------------------------------------
(* Is the other side alive? A sender asks before every push, and a blocking *)
(* batch before it parks; a receiver asks when it has found nothing, and    *)
(* then looks once more, or waits.                                          *)

SenderAlive(p) ==
  /\ At(p, "alive") \/ At(p, "look")
  /\ Step(p, CASE At(p, "look") -> IF rcount = 0 THEN <<"alive">> ELSE <<"park">>
               [] At(p, "alive") /\ rcount = 0 -> Unreg(p)
               [] OTHER -> <<"load">>, << >>)
  /\ p \in Senders
  /\ UNCHANGED <<ring, parkers, ends, missed>>

RecvSyncEmpty(r)    == IF scount = 0 THEN <<"last">> ELSE IF th[r].linked THEN <<"park">> ELSE <<"register">>
RecvFutureEmpty(r)  == IF scount = 0 THEN <<"last">> ELSE IF th[r].again THEN <<"pending">> ELSE <<"register">>
RecvTimeoutEmpty(r) ==
  IF th[r].again THEN IF scount = 0 THEN <<"unreg", "last">> ELSE <<"timed">>
                 ELSE IF scount = 0 THEN <<"last">> ELSE <<"register">>
TryRecvEmpty == IF scount = 0 THEN <<"last">> ELSE << >>

ReceiverAlive(r) ==
  /\ At(r, "alive") /\ r \in Receivers
  /\ LET o == th[r].op IN
     Step(r, CASE o = "recv_timeout" -> RecvTimeoutEmpty(r)
               [] o \in {"recv", "recv_batch"} -> RecvSyncEmpty(r)
               [] Try(o) -> TryRecvEmpty
               [] OTHER -> RecvFutureEmpty(r), << >>)
  /\ UNCHANGED <<ring, parkers, ends, missed>>

(* Registration: an entry of an earlier round is replaced, and the try      *)
(* repeated. A recv_timeout looks at the clock first.                       *)
MutRegisterAndSleep(t) ==
  /\ At(t, "register")
  /\ parkers' = [parkers EXCEPT ![Role(t)] = Append(Without(@, t), t)]
  /\ missed' = (missed \/ Lost(t))
  /\ Step(t, IF Async(th[t].op) THEN <<"pending">> ELSE <<"park">>,
          [linked |-> TRUE, again |-> TRUE, owed |-> FALSE])
  /\ UNCHANGED <<ring, ends>>

Register(t) ==
  /\ At(t, "register")
  /\ parkers' = [parkers EXCEPT ![Role(t)] = Append(Without(@, t), t)]
  /\ missed' = (missed \/ Lost(t))
  /\ Step(t, CASE t \in Receivers -> <<"pop">>
               [] th[t].op = "send_batch" -> <<"load">>
               [] OTHER -> <<"alive">>,
          [linked |-> TRUE, again |-> TRUE, owed |-> FALSE])
  /\ UNCHANGED <<ring, ends>>

Unregister(t) ==
  /\ At(t, "unreg")
  /\ parkers' = [parkers EXCEPT ![Role(t)] = Without(@, t)]
  /\ missed' = (missed \/ Lost(t))
  /\ Step(t, Rest(t), [linked |-> FALSE, owed |-> FALSE])
  /\ UNCHANGED <<ring, ends>>

(* Sleep. A call that was popped knows it by its flag, and is no longer     *)
(* linked; others register again and replace the entry, if it is there.     *)
Unpark(t) ==
  /\ At(t, "park") /\ th[t].flag
  /\ LET gone == Flagged(th[t].op) /\ th[t].notified IN
     Step(t, IF t \in Senders THEN <<"alive">> ELSE <<"pop">>,
          [flag |-> FALSE, again |-> FALSE, linked |-> th[t].linked /\ ~gone,
           notified |-> th[t].notified /\ ~gone])
  /\ UNCHANGED <<ring, parkers, ends, missed>>

Poll(t) ==
  /\ At(t, "pending") /\ (th[t].flag \/ "repoll" \in client.calls[t])
  /\ Step(t, IF t \in Senders THEN <<"alive">> ELSE <<"pop">>,
          [flag |-> FALSE, again |-> FALSE, notified |-> FALSE])
  /\ UNCHANGED <<ring, parkers, ends, missed>>

(* park_timeout: woken, it looks at the senders and registers again *)
TimedWake(r) ==
  /\ At(r, "timed") /\ th[r].flag
  /\ Step(r, <<"alive">>, [flag |-> FALSE, again |-> FALSE, notified |-> FALSE])
  /\ UNCHANGED <<ring, parkers, ends, missed>>

(* the deadline passes, awake or asleep: unregister, and return Timeout *)
Elapse(r) ==
  /\ th[r].op = "recv_timeout" /\ (At(r, "timed") \/ At(r, "register"))
  /\ Step(r, Unreg(r), << >>)
  /\ UNCHANGED <<ring, parkers, ends, missed>>

(* drop of a pending future *)
Cancel(t) ==
  /\ At(t, "pending") /\ "cancel" \in client.calls[t]
  /\ Step(t, <<"unreg">>, << >>)
  /\ UNCHANGED <<ring, parkers, ends, missed>>

-----------------------------------------------------------------------------
(* Wakes. notify_receivers, notify_senders: read the number of waiters, and *)
(* if there are any take the first out under the mutex, then wake it.       *)

Notify(t) ==
  /\ At(t, "gate")
  /\ Step(t, IF parkers[Peers(t)] = << >> THEN Rest(t) ELSE <<"wake_one">> \o Rest(t), << >>)
  /\ UNCHANGED <<ring, parkers, ends, missed>>

(* the waiters S of the role are out of the queue, and told so *)
Popping(t, S, p) ==
  /\ parkers' = [parkers EXCEPT ![Peers(t)] = SelectSeq(@, LAMBDA u : u \notin S)]
  /\ th' = [u \in Threads |-> CASE u = t -> Moved(t, p, [wakes |-> S])
                                [] u \in S -> [th[u] EXCEPT !.notified = TRUE, !.owed = TRUE]
                                [] OTHER -> th[u]]

WakeOne(t) ==
  /\ At(t, "wake_one")
  /\ LET q == parkers[Peers(t)] IN
     IF q = << >> THEN Step(t, Rest(t), << >>) /\ UNCHANGED parkers
     ELSE Popping(t, {q[1]}, <<"wake">> \o Rest(t))
  /\ UNCHANGED <<ring, ends, missed>>

WakeAll(t) ==
  /\ At(t, "wake_all")
  /\ LET S == {u \in Threads : Role(u) = Peers(t) /\ Queued(u)} IN
     Popping(t, S, IF S = {} THEN Rest(t) ELSE <<"wake">> \o Rest(t))
  /\ UNCHANGED <<ring, ends, missed>>

Wake(t) ==
  /\ At(t, "wake")
  /\ th' = [u \in Threads |-> IF u = t THEN Moved(t, Rest(t), [wakes |-> {}])
                              ELSE [th[u] EXCEPT !.flag = @ \/ u \in th[t].wakes]]
  /\ UNCHANGED <<ring, parkers, ends, missed>>

-----------------------------------------------------------------------------
(* Handles *)

Clone(t, u) ==
  /\ th[t].todo = << >> /\ "clone" \in client.calls[t] /\ handle[t] # "none"
  /\ handle[u] = "none" /\ Role(t) = Role(u)
  /\ handle' = [handle EXCEPT ![u] = "open"]
  /\ IF t \in Senders THEN scount' = scount + 1 /\ rcount' = rcount
                      ELSE rcount' = rcount + 1 /\ scount' = scount
  /\ UNCHANGED <<ring, parkers, th, missed>>

(* close, and drop: the last handle of a side wakes everybody opposite *)
Close(t) ==
  /\ th[t].todo = << >> /\ "close" \in client.calls[t] /\ handle[t] = "open"
  /\ handle' = [handle EXCEPT ![t] = "closed"]
  /\ IF t \in Senders THEN scount' = scount - 1 /\ rcount' = rcount
                      ELSE rcount' = rcount - 1 /\ scount' = scount
  /\ IF (IF t \in Senders THEN scount ELSE rcount) = 1
       THEN Step(t, <<"wake_all">>, [op |-> "close"]) ELSE UNCHANGED th
  /\ UNCHANGED <<ring, parkers, missed>>

Asleep(t) == (\E l \in {"park", "pending", "timed"} : At(t, l)) /\ ~th[t].flag
Quiet == \A t \in Threads : th[t].todo = << >> \/ Asleep(t)

Next ==
  \/ /\ \/ \E t \in Threads : \/ \E o \in SendCalls \cup RecvCalls : Call(t, o)
                              \/ Register(t) \/ Unregister(t) \/ Unpark(t) \/ Poll(t) \/ Cancel(t)
                              \/ Notify(t) \/ WakeOne(t) \/ WakeAll(t) \/ Wake(t) \/ Close(t)
                              \/ \E u \in Threads : Clone(t, u)
        \/ \E p \in Senders : LoadCursor(p) \/ Push(p) \/ Publish(p) \/ SenderAlive(p)
        \/ \E r \in Receivers : Pop(r) \/ Free(r) \/ ReceiverAlive(r) \/ TimedWake(r) \/ Elapse(r)
     /\ UNCHANGED client
  \/ Quiet /\ UNCHANGED vars

Spec == Init /\ [][Next]_vars

-----------------------------------------------------------------------------
(* A claimed slot belongs to its claimant: while a receiver reads, the slot *)
(* holds the item of its position; nobody else works on the slot of a       *)
(* sender that writes; and there are never more live items than the         *)
(* capacity, which may be less than the slots (Ring::push, Ring::pop).      *)
SlotsExclusive ==
  /\ enqueue_pos - dequeue_pos \in 0 .. client.cap
  /\ \A r \in Receivers : At(r, "free") => val[Slot(th[r].pos)] = sent[th[r].pos + 1]
  /\ \A p \in Senders, t \in Threads :
       /\ At(p, "publish") /\ t # p /\ (At(t, "publish") \/ At(t, "free"))
       => Slot(th[p].pos) # Slot(th[t].pos)

(* When nothing runs nobody sleeps behind a closed side; and somebody       *)
(* sleeps beside an item, or beside space, only if a wake met a waiter that *)
(* had left or could not see what it was woken for (register, then push or  *)
(* pop again; push or pop, then notify).                                    *)
Over(t)  == IF t \in Senders THEN rcount = 0 ELSE scount = 0
Could(t) == IF t \in Senders THEN enqueue_pos - dequeue_pos < client.cap ELSE enqueue_pos # dequeue_pos
NobodyForgotten ==
  Quiet => \A t \in Threads : Asleep(t) => ~Over(t) /\ (Could(t) => missed)

(* An entry belongs to a call that is still running, so that set_notified   *)
(* writes to a live stack frame (send_sync, recv_sync, the futures). A      *)
(* recv_timeout that finds the senders gone leaves its entry behind, and    *)
(* has no flag.                                                             *)
EntriesLive ==
  \A t \in Threads : Queued(t) => th[t].todo # << >> \/ "recv_timeout" \in client.calls[t]
=============================================================================
