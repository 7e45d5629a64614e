---------------------------- MODULE MpscUnbounded ----------------------------
(***************************************************************************)
(* The receiver of the unbounded MPSC channel (mpsc/unbounded_v3): sync    *)
(* Receiver and AsyncReceiver over MpscShared. One receiver, R, owns the   *)
(* cursor; it registers itself in the waiter slot of its kind before it    *)
(* parks, and looks at the chain once more after that.                     *)
(***************************************************************************)
EXTENDS SlabChain

vars == <<client, chain, slabs, ends, waiters, th, hist>>

Init == ChainInit

-----------------------------------------------------------------------------
(* Programs: try_recv_internal is pop, senders, pop_last *)

Try      == <<"pop", "senders", "pop_last">>
Program(o) ==
  CASE o \in {"try_recv", "try_recv_batch", "close"} -> Try \o <<"empty">>
    [] o \in {"recv", "recv_timeout", "recv_batch"} -> Try \o <<"wait">>
    [] o = "recv_future" -> Try \o <<"register", "pop", "senders", "pending">>
    [] o = "recv_batch_future" -> Try \o <<"register">> \o Try \o <<"pending">>
Wanted(o) == IF o \in {"try_recv_batch", "recv_batch", "recv_batch_future"}
               THEN client.batch ELSE 1
Async(o)  == o \in {"recv_future", "recv_batch_future"}

(* The call returns: unregister first when registered *)
Leave(r) == IF th[r].reg THEN <<"unregister">> ELSE << >>

CallRecv(r, o) ==
  /\ th[r].todo = << >> /\ o \in client.calls[r] /\ handle[r] = "open"
  /\ Async(o) => client.kind = "async"
  /\ o \in {"recv", "recv_timeout", "recv_batch"} => client.kind = "sync"
  /\ Step(r, Program(o), [op |-> o, n |-> Wanted(o), res |-> "none", flag |-> FALSE])
  /\ UNCHANGED <<chain, slabs, ends, waiters, hist>>

(* close, drop: drop_receiver, then drain what was published *)
CloseReceiver(r) ==
  /\ th[r].todo = << >> /\ "close" \in client.calls[r] /\ handle[r] = "open"
  /\ handle' = [handle EXCEPT ![r] = "closed"] /\ rdrop' = TRUE
  /\ Step(r, Leave(r) \o Program("close"), [op |-> "close", n |-> 1])
  /\ UNCHANGED <<chain, slabs, senders, waiters, hist>>

(* pop_node, pop_batch: a value found ends a single receive; a batch goes   *)
(* on until it has enough, a closing receiver until nothing is left.        *)
Pop(r) ==
  /\ \E l \in {"pop", "pop_last"} : At(r, l)
  /\ PopNode
  /\ LET more == th[r].op = "close" \/ th[r].took + 1 < th[r].n
     IN Step(r, IF more THEN th[r].todo ELSE Leave(r),
             [took |-> th[r].took + 1, res |-> "Ok"])
  /\ UNCHANGED <<ends, waiters>>

(* The cursor sees nothing: a batch returns what it has, else on to the    *)
(* senders; behind them a last look says Disconnected.                     *)
Missed(r) ==
  /\ tail # Null => nxt[tail] = Null
  /\ \/ /\ At(r, "pop")
        /\ Step(r, IF th[r].took > 0 /\ th[r].op # "close" THEN Leave(r) ELSE Rest(r), << >>)
     \/ /\ At(r, "pop_last")
        /\ Step(r, Leave(r), [res |-> IF th[r].took > 0 THEN "Ok" ELSE "Disconnected"])
  /\ UNCHANGED <<chain, slabs, ends, waiters, hist>>

(* senders_alive: with none, look once more; the second look of a single    *)
(* poll starts the poll over instead                                        *)
SendersAlive(r) ==
  /\ At(r, "senders")
  /\ LET over == Rest(r)[1] # "pop_last"
         after == IF over THEN Rest(r) ELSE Tail(Rest(r))
     IN Step(r, CASE senders > 0 -> after
                  [] senders = 0 /\ over -> Program(th[r].op)
                  [] OTHER -> Rest(r), << >>)
  /\ UNCHANGED <<chain, slabs, ends, waiters, hist>>

Empty(r) ==
  /\ At(r, "empty")
  /\ Step(r, << >>, [res |-> "Empty"])
  /\ UNCHANGED <<chain, slabs, ends, waiters, hist>>

(* register_sync_recv, register_async_recv: set the slot, then its count;   *)
(* the fence keeps the next look at the chain behind it                     *)
Register(r) ==
  /\ At(r, "register") \/ (At(r, "wait") /\ ~th[r].reg)
  /\ waiters' = <<r>>
  /\ Step(r, IF At(r, "register") THEN Rest(r) ELSE Program(th[r].op),
          [reg |-> TRUE])
  /\ UNCHANGED <<chain, slabs, ends, hist>>

MutWaitUnseen(r) ==
  /\ At(r, "wait") /\ th[r].reg /\ th[r].flag
  /\ Step(r, Program(th[r].op), [flag |-> FALSE])
  /\ UNCHANGED <<chain, slabs, ends, waiters, hist>>

(* A registered receiver parks; woken, it takes the flag and tries again *)
Wait(r) ==
  /\ At(r, "wait") /\ th[r].reg /\ th[r].flag
  /\ Step(r, Program(th[r].op), [reg |-> FALSE, flag |-> FALSE])
  /\ UNCHANGED <<chain, slabs, ends, waiters, hist>>

(* recv_timeout: the deadline passes before the receiver registers, or      *)
(* while it is parked; then it tries once more                              *)
Elapse(r) ==
  /\ th[r].op = "recv_timeout"
  /\ \/ /\ At(r, "wait") /\ th[r].reg
        /\ Step(r, Try \o <<"expired">>, [reg |-> ~th[r].flag])
     \/ /\ (At(r, "wait") /\ ~th[r].reg) \/ At(r, "expired")
        /\ Step(r, Leave(r), [res |-> "Timeout"])
  /\ UNCHANGED <<chain, slabs, ends, waiters, hist>>

(* unregister_sync_recv, unregister_async_recv *)
Unregister(r) ==
  /\ At(r, "unregister")
  /\ waiters' = << >>
  /\ Step(r, Rest(r), [reg |-> FALSE, flag |-> FALSE])
  /\ UNCHANGED <<chain, slabs, ends, hist>>

(* A pending future is polled again when woken: is_registered is still set *)
Poll(r) ==
  /\ At(r, "pending") /\ th[r].flag
  /\ Step(r, Program(th[r].op), [flag |-> FALSE])
  /\ UNCHANGED <<chain, slabs, ends, waiters, hist>>

(* Drop of a pending future; the stream keeps its registration instead and  *)
(* the handle drops it (to_sync, Drop)                                      *)
Cancel(r) ==
  /\ At(r, "pending") /\ "cancel" \in client.calls[r]
  /\ Step(r, Leave(r), [res |-> "Cancelled"])
  /\ UNCHANGED <<chain, slabs, ends, waiters, hist>>

(* notify_receiver and wake_all_receivers: take the waiter under its mutex, *)
(* set its flag, wake it                                                    *)
Wake(p) ==
  /\ At(p, "wake") \/ At(p, "wake_all")
  /\ waiters' = << >>
  /\ th' = [t \in DOMAIN th |->
              CASE t = p -> Settled([todo |-> Rest(p)] @@ th[t])
                [] t # p /\ waiters = <<t>> -> [th[t] EXCEPT !.flag = TRUE]
                [] OTHER -> th[t]]
  /\ UNCHANGED <<chain, slabs, ends, hist>>

RecvCalls == {"recv", "recv_timeout", "try_recv", "recv_batch", "try_recv_batch",
              "recv_future", "recv_batch_future"}
ReceiverStep(r) ==
  \/ \E o \in RecvCalls : CallRecv(r, o)
  \/ CloseReceiver(r) \/ Pop(r) \/ Missed(r) \/ SendersAlive(r) \/ Empty(r)
  \/ Register(r) \/ Wait(r) \/ Elapse(r) \/ Unregister(r) \/ Poll(r) \/ Cancel(r)

Asleep(t) == (At(t, "wait") \/ At(t, "pending")) /\ th[t].reg /\ ~th[t].flag
Quiet == \A t \in DOMAIN th : th[t].todo = << >> \/ Asleep(t)

Next ==
  \/ /\ \/ \E p \in Senders : SenderStep(p) \/ Wake(p)
        \/ \E r \in Receivers : ReceiverStep(r)
        \/ Drain
     /\ UNCHANGED client
  \/ Quiet /\ UNCHANGED vars

Spec == Init /\ [][Next]_vars

-----------------------------------------------------------------------------
(* When every other thread has returned, a receiver that sleeps has nothing *)
(* to receive and nobody left to disconnect from: neither a send whose      *)
(* predecessor had not linked itself yet nor the last drop_sender passes a  *)
(* registration by (register, fence, look again against publish, fence,     *)
(* look at the waiter).                                                     *)
NobodyForgotten ==
  Quiet => \A r \in Receivers : Asleep(r) => ~Deliverable /\ senders > 0

(* recv, try_recv and poll report Disconnected only when everything any     *)
(* sender ever published has been taken: the last look follows the count.   *)
DrainedBeforeDisconnected ==
  \A r \in Receivers : th[r].res = "Disconnected" /\ th[r].todo = << >> => got = next
=============================================================================
