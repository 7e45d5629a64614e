----------------------------- MODULE MpmcBounded -----------------------------
(***************************************************************************)
(* The bounded MPMC channel (mpmc_v2/core.rs, sync_impl.rs, async_impl.rs, *)
(* mod.rs): a ring and four queues of waiters behind one mutex. A peer     *)
(* does not hand an item to a waiter: it sets the waiter's state, wakes it *)
(* and the waiter tries again, in competition with everybody else.         *)
(*                                                                         *)
(* A critical section of the mutex is one step. A waiter looks at its own  *)
(* state, and swaps it on a cancellation, without the mutex.               *)
(***************************************************************************)
EXTENDS Naturals, Sequences, FiniteSets, TLC

CONSTANTS Senders, Receivers,   \* handles, one thread or task each
          Clients               \* the programs: calls, by thread; handles open
                                \* at first; items a sender sends at most;
                                \* batch, the size of batches; cap, capacity

Threads == Senders \cup Receivers
Dead == "dead"                  \* the owner of a waiter whose call is over

VARIABLES client,
          queue,                \* the ring, oldest first
          wait,                 \* the queues waiting_{sync,async}_{senders,receivers}
          scount, rcount,       \* sender_count, receiver_count
          handle,               \* none, open or closed
          st,                   \* the state of a waiter
          th,                   \* the threads
          next, got,            \* items put into the ring and out of it, by sender
          swallowed,            \* history: a woken waiter was cancelled or dead
          strays                \* history: the calls that returned and left an
                                \* entry queued, with its state at that time

ends == <<scount, rcount, handle>>
hist == <<next, got>>
vars == <<client, queue, wait, ends, st, th, hist, swallowed, strays>>

Idle == [todo |-> << >>, op |-> "none", res |-> "none",
         n |-> 0,               \* items left to send, or still wanted
         flag |-> FALSE,        \* unparked, or its waker called
         early |-> FALSE,       \* history: polled while it still waited
         wakes |-> {}]          \* wakes collected under the mutex

Init ==
  /\ client \in Clients
  /\ queue = << >>
  /\ wait = [q \in {"ss", "as", "sr", "ar"} |-> << >>]
  /\ scount = Cardinality(client.open \cap Senders)
  /\ rcount = Cardinality(client.open \cap Receivers)
  /\ handle = [t \in Threads |-> IF t \in client.open THEN "open" ELSE "none"]
  /\ st = [t \in Threads \cup {Dead} |-> "WAITING"]
  /\ th = [t \in Threads |-> Idle]
  /\ next = [p \in Senders |-> 0] /\ got = [p \in Senders |-> 0]
  /\ swallowed = FALSE /\ strays = {}

At(t, l) == th[t].todo # << >> /\ th[t].todo[1] = l
Settled(r) == IF r.todo = << >> THEN [Idle EXCEPT !.flag = r.flag] ELSE r
Moved(t, p, r) == Settled([todo |-> p] @@ r @@ th[t])
Step(t, p, r) == th' = [th EXCEPT ![t] = Moved(t, p, r)]

Async(o) == o \in {"send_future", "send_batch_future", "recv_future", "recv_batch_future",
                   "send_batch_mut_future", "recv_batch_mut_future"}
Batch(o) == o \in {"send_batch", "try_send_batch", "send_batch_future",
                   "recv_batch", "try_recv_batch", "recv_batch_future",
                   "send_batch_mut_future", "recv_batch_mut_future"}
Mine(t)  == IF t \in Senders THEN IF Async(th[t].op) THEN "as" ELSE "ss"
                             ELSE IF Async(th[t].op) THEN "ar" ELSE "sr"
Without(q, t) == SelectSeq(q, LAMBDA x : x # t)
Queued(q, t)  == \E i \in DOMAIN wait[q] : wait[q][i] = t
Min2(a, b) == IF a < b THEN a ELSE b

(* What each function does where they differ: when its try fails, when it   *)
(* is queued, when it looks and still waits, and when it has been told to   *)
(* try again. Senders unlink themselves first, receivers do not.            *)
MutSendSync     == [failed |-> <<"commit">>, queued |-> <<"look">>, waiting |-> <<"park">>, told |-> <<"try">>]
SendSync        == [failed |-> <<"commit">>, queued |-> <<"look">>, waiting |-> <<"park">>, told |-> <<"unlink">>]
SendBatchIter   == SendSync
SendFuture      == [failed |-> <<"commit">>, queued |-> <<"pending">>, waiting |-> <<"refresh">>, told |-> <<"unlink">>]
SendBatchFuture == SendFuture
SendBatchMutFuture == SendFuture
RecvSync        == [failed |-> <<"commit">>, queued |-> <<"look">>, waiting |-> <<"park">>, told |-> <<"try">>]
RecvBatchSync   == RecvSync
RecvFuture      == [failed |-> <<"commit">>, queued |-> <<"pending">>, waiting |-> <<"try">>, told |-> <<"try">>]
RecvBatchFuture == RecvFuture
RecvBatchMutFuture == RecvFuture
RecvTimeoutSync == [failed |-> <<"enqueue">>, queued |-> <<"timed">>, waiting |-> <<"timed">>, told |-> <<"woken">>]
Tries           == [failed |-> << >>, queued |-> << >>, waiting |-> << >>, told |-> << >>]

SendCalls == [send |-> SendSync, try_send |-> Tries, send_batch |-> SendBatchIter,
              try_send_batch |-> Tries, send_future |-> SendFuture,
              send_batch_future |-> SendBatchFuture, send_batch_mut_future |-> SendBatchMutFuture]
RecvCalls == [recv |-> RecvSync, try_recv |-> Tries, recv_batch |-> RecvBatchSync,
              try_recv_batch |-> Tries, recv_timeout |-> RecvTimeoutSync, recv_future |-> RecvFuture,
              recv_batch_future |-> RecvBatchFuture, recv_batch_mut_future |-> RecvBatchMutFuture]
Does(t) == (SendCalls @@ RecvCalls)[th[t].op]

(* A sync call on a closed handle returns at once; recv_timeout runs and    *)
(* the futures are built without a look at it.                              *)
Call(t, o) ==
  /\ th[t].todo = << >> /\ o \in client.calls[t]
  /\ o \in DOMAIN (IF t \in Senders THEN SendCalls ELSE RecvCalls)
  /\ handle[t] = "open" \/ (handle[t] = "closed" /\ (Async(o) \/ o = "recv_timeout"))
  /\ LET n == IF Batch(o) THEN client.batch ELSE 1 IN
       /\ t \in Senders => next[t] + n <= client.items
       /\ Step(t, <<"try">>, [op |-> o, n |-> n, res |-> "none"])
  /\ UNCHANGED <<queue, wait, ends, st, hist, swallowed, strays>>

-----------------------------------------------------------------------------
(* Waiters: the first k of a queue that are still WAITING are told that     *)
(* there is something for them, unlinked and woken; others are skipped.     *)

Ready(q) == SelectSeq(wait[q], LAMBDA t : st[t] = "WAITING")
First(s, k) == {s[i] : i \in 1 .. Min2(k, Len(s))}
(* the asynchronous waiters come first *)
Chosen(a, s, k) == First(Ready(a) \o Ready(s), k)

Notified(S) == [t \in DOMAIN st |-> IF t \in S THEN "SUCCESS" ELSE st[t]]
Unlinked(q, S) == SelectSeq(wait[q], LAMBDA t : t \notin S)
(* a batch send pops the waiters it passes over as well: what is left of a *)
(* queue behind the first k of them that still wait                         *)
Behind(q, k) ==
  LET enough(m) == Cardinality({i \in 1 .. m : st[wait[q][i]] = "WAITING"}) >= k
      m == CHOOSE x \in 0 .. Len(wait[q]) :
             (enough(x) \/ x = Len(wait[q])) /\ \A y \in 0 .. x - 1 : ~enough(y)
  IN SubSeq(wait[q], m + 1, Len(wait[q]))
(* thread t goes on with program p, the waiters S are woken *)
Waking(t, p, r, S) ==
  th' = [u \in Threads |-> IF u = t THEN Moved(t, p, r)
                           ELSE [th[u] EXCEPT !.flag = @ \/ u \in S]]

(* The call of t is over; w and s are the waiters and states it leaves. If  *)
(* it is queued still, the memory of its state is gone: it reads as waiting *)
(* or as something else.                                                    *)
Return(t, w, s) ==
  LET q == Mine(t)
      left == \E i \in DOMAIN w[q] : w[q][i] = t
  IN /\ wait' = [w EXCEPT ![q] = [i \in DOMAIN @ |-> IF @[i] = t THEN Dead ELSE @[i]]]
     /\ \E x \in IF left THEN {"WAITING", "CANCELLED"} ELSE {s[Dead]} : st' = [s EXCEPT ![Dead] = x]
     /\ strays' = strays \cup (IF left THEN {[by |-> t, op |-> th[t].op, st |-> s[t], early |-> th[t].early]} ELSE {})
(* ... or goes on *)
Stays(w, s) == wait' = w /\ st' = s /\ UNCHANGED strays

-----------------------------------------------------------------------------
(* Sending: as many items as fit, and for each a waiting receiver is woken. *)

Space == client.cap - Len(queue)

(* k items go in, the receivers S are told, and w is left of the queues *)
Sent(p, k, S, w) ==
  LET all == k = th[p].n IN
  /\ queue' = queue \o [i \in 1 .. k |-> <<p, next[p] + i>>]
  /\ next' = [next EXCEPT ![p] = @ + k]
  /\ IF all THEN Return(p, w, Notified(S)) ELSE Stays(w, Notified(S))
  /\ swallowed' = (swallowed \/ Dead \in S)
  /\ Waking(p, IF all THEN << >> ELSE Does(p).failed,
            [n |-> th[p].n - k, res |-> IF all THEN "Ok" ELSE "Full"], S)

SendClosed(p) ==
  /\ rcount = 0
  /\ Step(p, << >>, [res |-> "Closed"])
  /\ Return(p, wait, st)
  /\ UNCHANGED <<queue, next, swallowed>>


TrySend(p) ==
  /\ At(p, "try") /\ p \in Senders /\ ~Batch(th[p].op)
  /\ \/ SendClosed(p)
     \/ LET k == Min2(Space, 1)  S == Chosen("ar", "sr", k) IN
          /\ rcount > 0
          /\ Sent(p, k, S, [wait EXCEPT !["ar"] = Unlinked("ar", S), !["sr"] = Unlinked("sr", S)])
  /\ UNCHANGED <<ends, got>>

(* A batch drops the waiters it passes over. *)
TrySendBatch(p) ==
  /\ At(p, "try") /\ p \in Senders /\ Batch(th[p].op)
  /\ \/ SendClosed(p)
     \/ LET k == Min2(Space, th[p].n) IN
          /\ rcount > 0
          /\ Sent(p, k, Chosen("ar", "sr", k),
                  [wait EXCEPT !["ar"] = Behind("ar", k),
                               !["sr"] = Behind("sr", k - Min2(k, Len(Ready("ar"))))])
  /\ UNCHANGED <<ends, got>>

(* Phase 2 of every wait: take the mutex, look again, and park. A future    *)
(* that is still queued keeps its place.                                    *)
Retry(t) == IF t \in Senders THEN Space > 0 ELSE queue # << >>
Over(t)  == IF t \in Senders THEN rcount = 0 ELSE scount = 0
Ended(t) == IF t \in Senders THEN "Closed" ELSE "Disconnected"
Commit(t) ==
  /\ At(t, "commit")
  /\ CASE Retry(t) -> /\ Step(t, <<"try">>, << >>)
                      /\ Stays(wait, st)
       [] ~Retry(t) /\ Over(t) -> /\ Step(t, << >>, [res |-> Ended(t)])
                                  /\ Return(t, wait, st)
       [] OTHER ->
            /\ IF Queued(Mine(t), t) THEN Stays(wait, st)
               ELSE Stays([wait EXCEPT ![Mine(t)] = Append(@, t)], [st EXCEPT ![t] = "WAITING"])
            /\ Step(t, Does(t).queued, [early |-> FALSE])
  /\ UNCHANGED <<queue, ends, hist, swallowed>>

-----------------------------------------------------------------------------
(* Receiving: k items come out and the senders S are told; or there are     *)
(* none, and the sender count is looked at.                                 *)

Received(r, k, S) ==
  /\ k > 0
  /\ queue' = SubSeq(queue, k + 1, Len(queue))
  /\ got' = [p \in Senders |-> got[p] + Cardinality({i \in 1 .. k : queue[i][1] = p})]
  /\ Return(r, [wait EXCEPT !["as"] = Unlinked("as", S), !["ss"] = Unlinked("ss", S)], Notified(S))
  /\ Waking(r, << >>, [res |-> "Ok"], S)

(* "last" is the try behind a deadline that came too late *)
FoundNothing(r) ==
  /\ queue = << >>
  /\ IF scount = 0
       THEN Step(r, << >>, [res |-> "Disconnected"]) /\ Return(r, wait, st)
       ELSE /\ Step(r, CASE At(r, "try") -> Does(r).failed
                         [] At(r, "last") -> <<"unreachable">>
                         [] OTHER -> <<"timed">>, [res |-> "Empty"])
            /\ Stays(wait, st)
  /\ UNCHANGED <<queue, got>>

(* one sender is woken *)
TryRecv(r) ==
  /\ \E l \in {"try", "retry", "woken", "last"} : At(r, l)
  /\ r \in Receivers /\ ~Batch(th[r].op)
  /\ Received(r, Min2(1, Len(queue)), Chosen("as", "ss", 1)) \/ FoundNothing(r)
  /\ UNCHANGED <<ends, next, swallowed>>

(* one sender for every item it could take *)
TryRecvBatch(r) ==
  /\ At(r, "try") /\ r \in Receivers /\ Batch(th[r].op)
  /\ Received(r, Min2(th[r].n, Len(queue)), Chosen("as", "ss", th[r].n)) \/ FoundNothing(r)
  /\ UNCHANGED <<ends, next, swallowed>>

(* recv_timeout_sync queues itself once. One that finds an item goes for it *)
(* unqueued, and if it is gone waits for its deadline all the same.         *)
Enqueue(r) ==
  /\ At(r, "enqueue")
  /\ CASE queue # << >> ->
            /\ Step(r, <<"retry">>, << >>) /\ st' = [st EXCEPT ![r] = "WAITING"]
            /\ UNCHANGED wait
       [] queue = << >> /\ scount = 0 ->
            Step(r, << >>, [res |-> "Disconnected"]) /\ UNCHANGED <<wait, st>>
       [] OTHER -> /\ wait' = [wait EXCEPT !["sr"] = Append(@, r)]
                   /\ Step(r, Does(r).queued, << >>) /\ st' = [st EXCEPT ![r] = "WAITING"]
  /\ UNCHANGED <<queue, ends, hist, swallowed, strays>>

(* It wakes from park_timeout and tries again if a peer has set its state *)
TimedWake(r) ==
  /\ At(r, "timed") /\ th[r].flag
  /\ Step(r, IF st[r] # "WAITING" THEN Does(r).told ELSE Does(r).waiting, [flag |-> FALSE])
  /\ UNCHANGED <<queue, wait, ends, st, hist, swallowed, strays>>

(* The deadline: cancel, or, when a peer was faster, complete *)
Elapse(r) ==
  /\ At(r, "timed")
  /\ IF st[r] = "WAITING"
       THEN st' = [st EXCEPT ![r] = "CANCELLED"] /\ Step(r, <<"unlink">>, [res |-> "Timeout"])
       ELSE UNCHANGED st /\ Step(r, <<"last">>, << >>)
  /\ UNCHANGED <<queue, wait, ends, hist, swallowed, strays>>

-----------------------------------------------------------------------------
(* Waiting: adaptive_wait, and the polls of the futures *)

Look(t) ==
  /\ At(t, "look")
  /\ Step(t, CASE st[t] = "WAITING" -> Does(t).waiting
               [] st[t] = "SUCCESS" -> Does(t).told
               [] OTHER -> <<"unlink">>, [res |-> IF st[t] = "CLOSED" THEN Ended(t) ELSE th[t].res])
  /\ UNCHANGED <<queue, wait, ends, st, hist, swallowed, strays>>

Unpark(t) ==
  /\ At(t, "park") /\ th[t].flag
  /\ Step(t, <<"look">>, [flag |-> FALSE])
  /\ UNCHANGED <<queue, wait, ends, st, hist, swallowed, strays>>

(* A registered future looks at its state. Closed and, for a sender, woken: *)
(* unlink. A sender that still waits refreshes its waker; a receiver tries  *)
(* in any case.                                                             *)
Poll(t) ==
  /\ At(t, "pending") /\ (th[t].flag \/ "repoll" \in client.calls[t])
  /\ Step(t, CASE st[t] = "WAITING" -> Does(t).waiting
               [] st[t] = "SUCCESS" -> Does(t).told
               [] OTHER -> <<"unlink">>,
          [flag |-> FALSE, early |-> st[t] = "WAITING",
           res |-> IF st[t] = "CLOSED" THEN Ended(t) ELSE th[t].res])
  /\ UNCHANGED <<queue, wait, ends, st, hist, swallowed, strays>>

Refresh(t) ==
  /\ At(t, "refresh")
  /\ Step(t, <<"pending">>, [flag |-> th[t].flag \/ ~Queued(Mine(t), t)])
  /\ UNCHANGED <<queue, wait, ends, st, hist, swallowed, strays>>

(* The waiter takes itself out under the mutex, then returns or tries again *)
Unlink(t) ==
  /\ At(t, "unlink")
  /\ wait' = [wait EXCEPT ![Mine(t)] = Without(@, t)]
  /\ Step(t, IF th[t].res \in {"Closed", "Disconnected", "Timeout", "Cancelled"}
               THEN << >> ELSE <<"try">>, << >>)
  /\ UNCHANGED <<queue, ends, st, hist, swallowed, strays>>

(* Drop of a pending future: swap the state, then unlink, whatever it was. *)
(* What it had been woken for is left where it is, and nobody is told.      *)
Cancel(t) ==
  /\ At(t, "pending") /\ "cancel" \in client.calls[t]
  /\ swallowed' = (swallowed \/ st[t] = "SUCCESS")
  /\ st' = [st EXCEPT ![t] = IF @ = "WAITING" THEN "CANCELLED" ELSE @]
  /\ Step(t, <<"unlink">>, [res |-> "Cancelled"])
  /\ UNCHANGED <<queue, wait, ends, hist, strays>>

-----------------------------------------------------------------------------
(* Handles *)

Clone(t, u) ==
  /\ th[t].todo = << >> /\ "clone" \in client.calls[t] /\ handle[t] # "none"
  /\ handle[u] = "none" /\ (t \in Senders <=> u \in Senders)
  /\ handle' = [handle EXCEPT ![u] = "open"]
  /\ IF t \in Senders THEN scount' = scount + 1 /\ rcount' = rcount
                      ELSE rcount' = rcount + 1 /\ scount' = scount
  /\ UNCHANGED <<queue, wait, st, th, hist, swallowed, strays>>

(* close_internal: the last handle of a side closes every waiter of the     *)
(* other that still waits, and leaves it queued; a receiver that is not the *)
(* last tells the sender at the front of each queue to look again.          *)
Closing(t, S, s) ==
  /\ handle' = [handle EXCEPT ![t] = "closed"]
  /\ st' = [u \in DOMAIN st |-> IF u \in S THEN s ELSE st[u]]
  /\ Step(t, <<"wake">>, [op |-> "close", wakes |-> S])

CloseSender(p) ==
  /\ th[p].todo = << >> /\ "close" \in client.calls[p] /\ handle[p] = "open"
  /\ scount' = scount - 1
  /\ Closing(p, IF scount = 1 THEN {t \in Receivers \cup {Dead} : (Queued("sr", t) \/ Queued("ar", t))
                                                           /\ st[t] = "WAITING"}
                                   ELSE {}, "CLOSED")
  /\ UNCHANGED <<queue, wait, rcount, hist, swallowed, strays>>

(* the senders it tells: all of them, or, with receivers left, the first of *)
(* each queue                                                               *)
WaitingSenders ==
  LET waiting == {t \in Senders : (Queued("ss", t) \/ Queued("as", t)) /\ st[t] = "WAITING"}
      fronts  == {wait[q][1] : q \in {x \in {"ss", "as"} : wait[x] # << >>}}
  IN IF rcount = 1 THEN waiting ELSE waiting \cap fronts

CloseReceiver(r) ==
  /\ th[r].todo = << >> /\ "close" \in client.calls[r] /\ handle[r] = "open"
  /\ rcount' = rcount - 1
  /\ Closing(r, WaitingSenders, IF rcount = 1 THEN "CLOSED" ELSE "SUCCESS")
  /\ UNCHANGED <<queue, wait, scount, hist, swallowed, strays>>

(* the wakes, behind the mutex *)
Wake(t) ==
  /\ At(t, "wake")
  /\ Waking(t, << >>, [wakes |-> {}], th[t].wakes)
  /\ UNCHANGED <<queue, wait, ends, st, hist, swallowed, strays>>

Asleep(t) == (\E l \in {"park", "pending", "timed"} : At(t, l)) /\ ~th[t].flag
Quiet == \A t \in Threads : th[t].todo = << >> \/ Asleep(t) \/ At(t, "unreachable")

Next ==
  \/ /\ \/ \E t \in Threads : \/ \E o \in DOMAIN (SendCalls @@ RecvCalls) : Call(t, o)
                              \/ Commit(t) \/ Look(t) \/ Unpark(t) \/ Poll(t) \/ Refresh(t)
                              \/ Unlink(t) \/ Cancel(t) \/ Wake(t)
                              \/ \E u \in Threads : Clone(t, u)
        \/ \E p \in Senders : TrySend(p) \/ TrySendBatch(p) \/ CloseSender(p)
        \/ \E r \in Receivers : TryRecv(r) \/ TryRecvBatch(r) \/ Enqueue(r) \/ TimedWake(r) \/ Elapse(r)
                                  \/ CloseReceiver(r)
     /\ UNCHANGED client
  \/ Quiet /\ UNCHANGED vars

Spec == Init /\ [][Next]_vars

-----------------------------------------------------------------------------
(* When nothing runs nobody sleeps behind a closed side; nor beside an item *)
(* or beside space, as long as no future was dropped after it was woken     *)
(* (try_send_core, try_recv_core, close_internal). A recv_timeout may: it   *)
(* queues itself once only.                                                 *)
NobodyForgotten ==
  Quiet => \A t \in Threads :
    Asleep(t) /\ ~At(t, "timed") => ~Over(t) /\ (Retry(t) => swallowed)

(* A queued waiter belongs to a call in progress: its raw pointer to a      *)
(* state on a stack, or in a future, is good. Every sender sees to it, and  *)
(* so does every receiver but two. A recv_timeout that is told CLOSED tries *)
(* once more and returns (sync_impl.rs:443-447). A receive future that is   *)
(* polled while it still waits tries first; when that succeeds, or the      *)
(* senders are gone, it resolves with its entry queued and forgets that it  *)
(* was registered (async_impl.rs:578-586, :748-752). The comment at         *)
(* async_impl.rs:768 ("Eagerly unlink the waiter so the future's memory can *)
(* be safely freed") and the tests at mod.rs:1346 and :1462 say that none   *)
(* is left.                                                                 *)
Live(q) == \A i \in DOMAIN wait[q] : wait[q][i] # Dead /\ th[wait[q][i]].todo # << >>
Excused(x) ==
  \/ x.op = "recv_timeout" /\ x.st = "CLOSED"
  \/ Async(x.op) /\ x.early /\ x.st \in {"WAITING", "CLOSED"}
WaitersUnlink ==
  /\ Live("ss") /\ Live("as")
  /\ strays = {} => Live("sr") /\ Live("ar")
  /\ \A x \in strays : x.by \in Receivers /\ Excused(x)

(* A receiver that was told CLOSED returns Disconnected without a look at   *)
(* the ring (sync_impl.rs:355, async_impl.rs:742). It misses nothing: the   *)
(* last sender is gone, and for every item that is left in the ring another *)
(* receiver has been woken and has yet to try - a batch tells as many as it *)
(* puts items in, also when a full ring splits it. Except that a future     *)
(* that was woken may have been dropped since.                              *)
Awoken == {r \in Receivers : st[r] = "SUCCESS" /\ \E l \in {"look", "park", "pending", "timed",
                                                            "try", "woken", "last"} : At(r, l)}
DrainedBeforeDisconnected ==
  \A r \in Receivers : At(r, "unlink") /\ th[r].res = "Disconnected" =>
    scount = 0 /\ (Len(queue) <= Cardinality(Awoken) \/ swallowed)

(* "state was finished but channel empty": recv_timeout_sync says that this *)
(* cannot be                                                                *)
FinishedMeansItem == \A r \in Receivers : ~At(r, "unreachable")
=============================================================================
