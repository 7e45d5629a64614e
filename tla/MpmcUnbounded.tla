---------------------------- MODULE MpmcUnbounded ----------------------------
(***************************************************************************)
(* The receivers of the unbounded MPMC channel (mpmc_v2/unbounded), as it  *)
(* is built: EAGER_HANDOFF is false, so a send wakes one waiter, which     *)
(* tries again, and nothing is ever put into a waiter's cell.              *)
(*                                                                         *)
(* One mutex, `lock`, guards the cursor and the queue of waiters. Senders  *)
(* publish without it, so the looks at the chain inside a critical section *)
(* are steps of their own. th[r].flag is cell.state = WAITER_NOTIFIED.     *)
(***************************************************************************)
EXTENDS SlabChain

VARIABLES lock,          \* who holds the consumer mutex
          swallowed      \* history: a woken waiter left without looking

Free == "free"
vars == <<client, chain, slabs, ends, waiters, th, hist, lock, swallowed>>

Init == ChainInit /\ lock = Free /\ swallowed = FALSE

-----------------------------------------------------------------------------
(* Programs; a label in capitals runs inside the consumer mutex *)

Try == <<"POP", "SENDERS", "POP_LAST">>
Program(o) ==
  CASE o \in {"try_recv", "try_recv_batch"} -> Try \o <<"EMPTY">>
    [] o \in {"recv", "recv_timeout"} -> Try \o <<"REGISTER", "POP", "UNLOCK", "park">>
    [] o = "recv_future" -> <<"terminal">> \o Try \o <<"REGISTER">> \o Try \o <<"PENDING", "pending">>

(* recv_batch and its future receive one item, then try for the rest *)
Batch(o)  == o \in {"recv_batch", "recv_batch_future", "try_recv_batch"}
Single(o) == CASE o = "recv_batch" -> "recv"
               [] o = "recv_batch_future" -> "recv_future"
               [] OTHER -> o
Async(o)  == o \in {"recv_future", "recv_batch_future"}

Holds(r)     == lock \in {Free, r}
Without(r)   == SelectSeq(waiters, LAMBDA x : x # r)
Registered(r) == \E i \in DOMAIN waiters : waiters[i] = r

CallRecv(r, o) ==
  /\ th[r].todo = << >> /\ o \in client.calls[r] /\ handle[r] = "open"
  /\ Async(o) => client.kind = "async"
  /\ o \in {"recv", "recv_timeout", "recv_batch"} => client.kind = "sync"
  /\ Step(r, Program(Single(o)),
          [op |-> o, n |-> IF Batch(o) THEN client.batch ELSE 1, res |-> "none"])
  /\ UNCHANGED <<chain, slabs, ends, waiters, hist, lock, swallowed>>

CloneReceiver(r, s) ==
  /\ th[r].todo = << >> /\ handle[r] = "open" /\ handle[s] = "none"
  /\ "clone" \in client.calls[r]
  /\ handle' = [handle EXCEPT ![s] = "open"]
  /\ UNCHANGED <<chain, slabs, senders, rdrop, waiters, th, hist, lock, swallowed>>

(* close, drop: drop_receiver; the last one ends the channel for senders *)
CloseReceiver(r) ==
  /\ th[r].todo = << >> /\ "close" \in client.calls[r] /\ handle[r] = "open"
  /\ handle' = [handle EXCEPT ![r] = "closed"]
  /\ rdrop' = \A s \in Receivers : handle'[s] # "open"
  /\ UNCHANGED <<chain, slabs, senders, waiters, th, hist, lock, swallowed>>

(* pop_locked finds a value: the waiter is removed and the mutex released. *)
(* A batch stays in (try_recv_batch) or comes back for more.               *)
Pop(r) ==
  /\ Holds(r) /\ \E l \in {"POP", "POP_LAST"} : At(r, l)
  /\ PopNode
  /\ LET took == th[r].took + 1
         more == took < th[r].n
     IN /\ Step(r, CASE ~more -> << >>
                     [] more /\ (took > 1 \/ th[r].op = "try_recv_batch") -> <<"POP", "EMPTY">>
                     [] OTHER -> Program("try_recv_batch"),
                [took |-> took, reg |-> FALSE, res |-> "Ok"])
        /\ lock' = IF more /\ (took > 1 \/ th[r].op = "try_recv_batch") THEN r ELSE Free
  /\ waiters' = IF th[r].reg THEN Without(r) ELSE waiters
  /\ UNCHANGED <<ends, swallowed>>

(* It finds none; behind the last sender that is Disconnected *)
Missed(r) ==
  /\ Holds(r) /\ (tail # Null => nxt[tail] = Null)
  /\ \/ At(r, "POP") /\ Step(r, Rest(r), << >>) /\ lock' = r /\ waiters' = waiters
     \/ /\ At(r, "POP_LAST")
        /\ Step(r, << >>, [res |-> IF th[r].took > 0 THEN "Ok" ELSE "Disconnected",
                           reg |-> FALSE])
        /\ lock' = Free /\ waiters' = IF th[r].reg THEN Without(r) ELSE waiters
  /\ UNCHANGED <<chain, slabs, ends, hist, swallowed>>

MutSendersLast(r) ==
  /\ At(r, "SENDERS")
  /\ IF senders > 0 THEN Step(r, Tail(Rest(r)), << >>) /\ lock' = lock
     ELSE Step(r, << >>, [res |-> "Disconnected", reg |-> FALSE]) /\ lock' = Free
  /\ UNCHANGED <<chain, slabs, ends, waiters, hist, swallowed>>

SendersAlive(r) ==
  /\ At(r, "SENDERS")
  /\ Step(r, IF senders > 0 THEN Tail(Rest(r)) ELSE Rest(r), << >>)
  /\ UNCHANGED <<chain, slabs, ends, waiters, hist, lock, swallowed>>

Empty(r) ==
  /\ At(r, "EMPTY")
  /\ Step(r, << >>, [res |-> IF th[r].took > 0 THEN "Ok" ELSE "Empty"])
  /\ lock' = Free
  /\ UNCHANGED <<chain, slabs, ends, waiters, hist, swallowed>>

(* register_waiter at the end of the queue, with the cell re-armed. A poll  *)
(* that is registered refreshes its waker (update_waker), or finds that its *)
(* entry is gone.                                                           *)
Register(r) ==
  /\ At(r, "REGISTER")
  /\ IF th[r].reg
       THEN waiters' = waiters /\ Step(r, Rest(r), [reg |-> Registered(r)])
       ELSE waiters' = Append(waiters, r) /\ Step(r, Rest(r), [reg |-> TRUE, flag |-> FALSE])
  /\ UNCHANGED <<chain, slabs, ends, hist, lock, swallowed>>

Unlock(r) ==
  /\ At(r, "UNLOCK")
  /\ lock' = Free
  /\ Step(r, Rest(r), << >>)
  /\ UNCHANGED <<chain, slabs, ends, waiters, hist, swallowed>>

(* A poll ends: one whose entry vanished under it takes the notification    *)
(* and asks to be polled again (wake_by_ref), the others are pending.       *)
Pend(r) ==
  /\ At(r, "PENDING")
  /\ lock' = Free
  /\ Step(r, IF th[r].reg THEN Rest(r) ELSE Program("recv_future"), << >>)
  /\ UNCHANGED <<chain, slabs, ends, waiters, hist, swallowed>>

(* A parked thread that is notified starts over *)
Wait(r) ==
  /\ At(r, "park") /\ th[r].flag
  /\ Step(r, Program("recv"), [reg |-> FALSE])
  /\ UNCHANGED <<chain, slabs, ends, waiters, hist, lock, swallowed>>

(* The deadline passes. timeout_finish takes the lock to remove the waiter; *)
(* a waiter that was notified in the meantime still reports the timeout.    *)
Elapse(r) ==
  /\ At(r, "park") /\ ~th[r].flag /\ th[r].op = "recv_timeout"
  /\ Step(r, <<"TIMEOUT">>, << >>)
  /\ UNCHANGED <<chain, slabs, ends, waiters, hist, lock, swallowed>>
TimeoutFinish(r) ==
  /\ At(r, "TIMEOUT") /\ Holds(r)
  /\ waiters' = Without(r)
  /\ swallowed' = (swallowed \/ ~Registered(r))
  /\ Step(r, << >>, [res |-> "Timeout", reg |-> FALSE])
  /\ UNCHANGED <<chain, slabs, ends, hist, lock>>

(* take_terminal, at the start of a poll: a notification ends the           *)
(* registration it was for.                                                 *)
TakeTerminal(r) ==
  /\ At(r, "terminal")
  /\ Step(r, Rest(r), [flag |-> FALSE, reg |-> th[r].reg /\ ~th[r].flag])
  /\ UNCHANGED <<chain, slabs, ends, waiters, hist, lock, swallowed>>

(* The task is polled again when its waker was called *)
Poll(r) ==
  /\ At(r, "pending") /\ th[r].flag
  /\ Step(r, Program("recv_future"), << >>)
  /\ UNCHANGED <<chain, slabs, ends, waiters, hist, lock, swallowed>>

(* cancel_wait: drop of a pending future. A waiter that was notified has    *)
(* nothing to give back.                                                    *)
Cancel(r) ==
  /\ At(r, "pending") /\ "cancel" \in client.calls[r] /\ Holds(r)
  /\ waiters' = Without(r)
  /\ swallowed' = (swallowed \/ ~Registered(r))
  /\ Step(r, << >>, [res |-> "Cancelled", reg |-> FALSE])
  /\ UNCHANGED <<chain, slabs, ends, hist, lock>>

Woken(p, S) ==
  th' = [t \in DOMAIN th |->
           CASE t = p -> Settled([todo |-> Rest(p)] @@ th[t])
             [] t \in S -> [th[t] EXCEPT !.flag = TRUE]
             [] OTHER -> th[t]]

(* notify_receivers: one waiter, the oldest, however many items were sent *)
Wake(p) ==
  /\ At(p, "wake") /\ Holds(p)
  /\ waiters' = IF waiters = << >> THEN << >> ELSE Tail(waiters)
  /\ Woken(p, IF waiters = << >> THEN {} ELSE {waiters[1]})
  /\ UNCHANGED <<chain, slabs, ends, hist, lock, swallowed>>

(* drop_sender, the last: everybody *)
WakeAll(p) ==
  /\ At(p, "wake_all") /\ Holds(p)
  /\ waiters' = << >>
  /\ Woken(p, {waiters[i] : i \in DOMAIN waiters})
  /\ UNCHANGED <<chain, slabs, ends, hist, lock, swallowed>>

RecvCalls == {"recv", "recv_timeout", "try_recv", "recv_batch", "try_recv_batch",
              "recv_future", "recv_batch_future"}
ReceiverStep(r) ==
  \/ \E o \in RecvCalls : CallRecv(r, o)
  \/ \E s \in Receivers : CloneReceiver(r, s)
  \/ CloseReceiver(r) \/ Pop(r) \/ Missed(r) \/ SendersAlive(r) \/ Empty(r)
  \/ Register(r) \/ Unlock(r) \/ Pend(r) \/ Wait(r) \/ Elapse(r) \/ TimeoutFinish(r)
  \/ TakeTerminal(r) \/ Poll(r) \/ Cancel(r)

Asleep(t) == (At(t, "park") \/ At(t, "pending")) /\ ~th[t].flag
Quiet == \A t \in DOMAIN th : th[t].todo = << >> \/ Asleep(t)

Next ==
  \/ /\ \/ \E p \in Senders : Wake(p) \/ WakeAll(p)
        \/ \E p \in Senders : SenderStep(p) /\ UNCHANGED <<lock, swallowed>>
        \/ \E r \in Receivers : ReceiverStep(r)
        \/ Drain /\ UNCHANGED <<lock, swallowed>>
     /\ UNCHANGED client
  \/ Quiet /\ UNCHANGED vars

Spec == Init /\ [][Next]_vars

-----------------------------------------------------------------------------
(* The last drop_sender leaves no sleeper. An item that can be taken is     *)
(* not left to sleepers alone either: when nothing runs, a receiver has     *)
(* come back with an item and may call again, unless a waiter took its      *)
(* notification with it as it timed out or was cancelled.                   *)
NotAllForgotten ==
  Quiet => \A r \in Receivers : Asleep(r) =>
    /\ senders > 0
    /\ Deliverable => swallowed \/ \E s \in Receivers : th[s].todo = << >> /\ th[s].res = "Ok"

(* Disconnected is reported only when everything published has been taken, *)
(* by whichever receiver: the last look follows the sender count.           *)
DrainedBeforeDisconnected ==
  \A r \in Receivers : th[r].res = "Disconnected" /\ th[r].todo = << >> => got = next
=============================================================================
