----------------------------- MODULE SpscChannel -----------------------------
(***************************************************************************)
(* The bounded SPSC channel of channels/src/spsc: the two handles, sync or *)
(* async, with all their operations, over the shared state SpscShared.     *)
(*                                                                         *)
(* The ring is taken at the level of SpscQueue, which SpscRing implements: *)
(* positions of pushed and popped items, each with the value the other     *)
(* side sees. Item i is the i-th item pushed, so FIFO order is inherited.  *)
(*                                                                         *)
(* A side runs one operation at a time. todo[s] is what is left of it: a   *)
(* sequence of labels, one per atomic access to shared memory or critical  *)
(* section of a waiter mutex. A step consumes its first label; what it     *)
(* finds may replace the rest. An empty todo is an idle handle.            *)
(*                                                                         *)
(* Plain stores (head, tail, the waiter gates) become visible to the other *)
(* side after a delay, at the latest at their owner's next SeqCst fence or *)
(* read-modify-write.                                                      *)
(***************************************************************************)
EXTENDS Naturals, Sequences

CONSTANTS Cap,          \* capacity of the ring
          MaxItems,     \* bound: how many items are ever pushed
          MaxBatch,     \* bound: largest batch sent or received
          SpinLimit,    \* THREAD_SPIN_LIMIT of the calling threads
          Count,        \* handle counts are usize: arithmetic modulo Count
          Clients       \* the programs that use the channel: kinds, of the
                        \* handles at first; sync, async and closed, the
                        \* operations a side calls on a handle of that kind
                        \* and on one it has closed

P == "P"     \* the sender
C == "C"     \* the receiver
Side == {P, C}
Peer(s) == IF s = P THEN C ELSE P

VARIABLES client,             \* the program
          tail, tailVis,      \* items pushed; ... as the consumer sees it
          head, headVis,      \* items popped; ... as the producer sees it
          count,              \* sender_count, receiver_count
          gone,               \* producer_dropped, consumer_dropped
          slot,               \* producer_waiter, consumer_waiter: "none", or
                              \* "ptr"/"null" by whether it points to a flag
          gate, gateVis,      \* send_waiters, recv_waiters
          notified,           \* the flag on the stack of a blocking call
          token,              \* unpark permit of the thread / task scheduled
          kind, closed, alive,\* the handle: sync or async, closed flag, not dropped
          streamReg,          \* BoundedAsyncReceiver::is_registered
          op, todo,           \* the operation and what is left of it
          reg,                \* its is_registered
          spins,              \* its backoff
          left,               \* items a batch still wants
          got,                \* items a batch has received
          expired,            \* the deadline of recv_timeout has passed
          res                 \* what the last operation returned

ring    == <<tail, tailVis, head, headVis>>
waiters == <<slot, gate, gateVis, notified, token>>
handles == <<count, gone, kind, closed, alive, streamReg>>
local   == <<op, todo, reg, spins, left, got, expired, res>>
vars    == <<client, ring, waiters, handles, local>>

Init ==
  /\ client \in Clients
  /\ tail = 0 /\ tailVis = 0 /\ head = 0 /\ headVis = 0
  /\ count = [s \in Side |-> 1] /\ gone = [s \in Side |-> FALSE]
  /\ slot = [s \in Side |-> "none"]
  /\ gate = [s \in Side |-> 0] /\ gateVis = [s \in Side |-> 0]
  /\ notified = [s \in Side |-> FALSE] /\ token = [s \in Side |-> FALSE]
  /\ kind \in [Side -> client.kinds] /\ closed = [s \in Side |-> FALSE]
  /\ alive = [s \in Side |-> TRUE] /\ streamReg = FALSE
  /\ op = [s \in Side |-> "none"] /\ todo = [s \in Side |-> << >>]
  /\ reg = [s \in Side |-> FALSE] /\ spins = [s \in Side |-> 0]
  /\ left = [s \in Side |-> 0] /\ got = 0 /\ expired = FALSE
  /\ res = [s \in Side |-> "none"]

-----------------------------------------------------------------------------
(* Operations as programs: the labels each one runs through when nothing   *)
(* diverts it.                                                             *)

SendLoop      == <<"gone", "push", "wait">>
Send          == <<"gone", "push">> \o SendLoop
TrySend       == <<"gone", "push">>
TrySendBatch  == <<"gone", "write", "reason">>
SendBatch     == <<"gone", "write", "register", "fence", "write", "recheck", "park">>
SendPoll      == <<"gone", "push", "register", "fence", "gone", "push", "pending">>
BatchPoll     == <<"gone", "write", "register", "fence", "write", "recheck", "pending">>
BatchMutPoll  == <<"gone", "write_avail", "register", "fence", "write_avail", "recheck",
                   "pending">>
CloseInternal == <<"set_gone", "drop_count">>

TryRecv       == <<"pop", "empty", "pop">>
TryRecvBatch  == <<"read", "empty", "read">>
RecvLoop      == <<"pop", "alive", "wait">>
Recv          == <<"pop">> \o RecvLoop
RecvPoll      == <<"pop", "alive", "register", "fence", "pop", "alive_unreg", "pending">>
RecvBatchPoll == <<"read", "producer_gone", "register", "fence", "read", "alive_unreg",
                   "pending">>

Program(o) ==
  CASE o = "try_send" -> TrySend
    [] o = "send" -> Send
    [] o = "try_send_batch" -> TrySendBatch
    [] o \in {"send_batch", "send_batch_mut"} -> SendBatch
    [] o = "send_future" -> SendPoll
    [] o = "batch_future" -> BatchPoll
    [] o = "batch_mut_future" -> BatchMutPoll
    [] o = "try_recv" -> TryRecv
    [] o = "try_recv_batch" -> TryRecvBatch
    [] o \in {"recv", "recv_batch", "recv_timeout"} -> Recv
    [] o \in {"recv_future", "next"} -> RecvPoll
    [] o = "recv_batch_future" -> RecvBatchPoll

(* The loop of an operation, entered again after a wait *)
Again(o) == CASE o = "send" -> SendLoop
              [] o \in {"recv", "recv_batch", "recv_timeout"} -> RecvLoop
              [] OTHER -> Program(o)

Batched(o) == o \in {"try_send_batch", "send_batch", "send_batch_mut", "batch_future",
                     "batch_mut_future", "try_recv_batch", "recv_batch",
                     "recv_batch_future"}
(* Calls that hand the address of a flag on their stack to the waiter slot *)
WithFlag(o) == o \in {"send", "recv", "recv_batch", "recv_timeout"}
(* Every call but the sync send_batch looks at the handle's own closed flag *)
ChecksClosed(o) == o # "send_batch"

At(s, label) == todo[s] # << >> /\ Head(todo[s]) = label
Rest(s)      == Tail(todo[s])
Run(s, p)    == todo' = [todo EXCEPT ![s] = p]
Answer(s, r) == res' = [res EXCEPT ![s] = r]

(* is_registered: the receiver's own for a Stream, the call's otherwise *)
Registered(s) == IF op[s] = "next" THEN streamReg ELSE reg[s]
Unreg(s)      == IF Registered(s) THEN <<"unregister">> ELSE << >>
SetRegistered(s, b) == IF op[s] = "next" THEN streamReg' = b /\ UNCHANGED reg
                       ELSE reg' = [reg EXCEPT ![s] = b] /\ UNCHANGED streamReg

(* What the producer can prove free, what the consumer can see *)
Free == Cap - (tail - headVis)
Seen == tailVis - head

-----------------------------------------------------------------------------
(* Calls *)

MayCall(s, o) ==
  /\ alive[s] /\ todo[s] = << >>
  /\ o \in client[kind[s]][s]
  /\ closed[s] => o \in client.closed[s]

Call(s, o) ==
  /\ MayCall(s, o) /\ o \notin {"close", "drop", "convert"}
  /\ \E n \in IF Batched(o) THEN 1 .. MaxBatch ELSE {1} :
       /\ s = P => tail + n <= MaxItems
       /\ left' = [left EXCEPT ![s] = IF closed[s] /\ ChecksClosed(o) THEN 0 ELSE n]
  /\ op' = [op EXCEPT ![s] = o]
  /\ IF closed[s] /\ ChecksClosed(o)
       THEN Run(s, << >>) /\ Answer(s, IF s = P THEN "Closed" ELSE "Disconnected")
       ELSE Run(s, Program(o)) /\ Answer(s, "none")
  /\ reg' = [reg EXCEPT ![s] = FALSE]
  /\ spins' = [spins EXCEPT ![s] = 0]
  /\ notified' = [notified EXCEPT ![s] = FALSE]
  /\ got' = IF s = C THEN 0 ELSE got
  /\ expired' = IF s = C THEN FALSE ELSE expired
  /\ UNCHANGED <<ring, slot, gate, gateVis, token, handles>>

(* close, drop and conversion have none of a call's locals *)
NoLocals(s) ==
  /\ reg' = [reg EXCEPT ![s] = FALSE] /\ left' = [left EXCEPT ![s] = 0] /\ UNCHANGED spins
  /\ got' = (IF s = C THEN 0 ELSE got) /\ expired' = (expired /\ s # C)

(* close: compare-and-swap of the closed flag, then close_internal *)
Close(s) ==
  /\ MayCall(s, "close")
  /\ IF closed[s] THEN Answer(s, "CloseError") /\ UNCHANGED <<closed, todo>>
                  ELSE /\ closed' = [closed EXCEPT ![s] = TRUE]
                       /\ Run(s, CloseInternal) /\ Answer(s, "none")
  /\ op' = [op EXCEPT ![s] = "close"] /\ NoLocals(s)
  /\ UNCHANGED <<ring, waiters, count, gone, kind, alive, streamReg>>

TakeBackStream(s) == IF s = C /\ streamReg THEN <<"unregister">> ELSE << >>

(* Drop of a handle; an async receiver takes its stream waiter back first *)
Drop(s) ==
  /\ MayCall(s, "drop")
  /\ alive' = [alive EXCEPT ![s] = FALSE]
  /\ closed' = [closed EXCEPT ![s] = TRUE]
  /\ Run(s, TakeBackStream(s) \o IF closed[s] THEN << >> ELSE CloseInternal)
  /\ streamReg' = (streamReg /\ s # C)
  /\ op' = [op EXCEPT ![s] = "drop"] /\ Answer(s, "none") /\ NoLocals(s)
  /\ UNCHANGED <<ring, waiters, count, gone, kind>>

(* to_sync, to_async: from_shared makes the new handle with closed = false *)
Convert(s) ==
  /\ MayCall(s, "convert")
  /\ kind' = [kind EXCEPT ![s] = IF @ = "sync" THEN "async" ELSE "sync"]
  /\ closed' = [closed EXCEPT ![s] = FALSE]
  /\ Run(s, TakeBackStream(s))
  /\ streamReg' = (streamReg /\ s # C)
  /\ op' = [op EXCEPT ![s] = "convert"] /\ Answer(s, "none") /\ NoLocals(s)
  /\ UNCHANGED <<ring, waiters, count, gone, alive>>

-----------------------------------------------------------------------------
(* SpscShared: registration, notification, close *)

(* SeqCst fence, or a read-modify-write: everything s stored is visible *)
Flush(s) ==
  /\ tailVis' = IF s = P THEN tail ELSE tailVis
  /\ headVis' = IF s = C THEN head ELSE headVis

Register(s) ==
  /\ At(s, "register")
  /\ slot' = [slot EXCEPT ![s] = IF WithFlag(op[s]) THEN "ptr" ELSE "null"]
  /\ gate' = [gate EXCEPT ![s] = 1]
  /\ SetRegistered(s, TRUE)
  /\ Run(s, Rest(s))
  /\ UNCHANGED <<ring, gateVis, notified, token, count, gone, kind, closed, alive, op,
                 spins, left, got, expired, res>>

PreParkFence(s) ==
  /\ At(s, "fence")
  /\ Flush(s) /\ gateVis' = [gateVis EXCEPT ![s] = gate[s]]
  /\ Run(s, Rest(s))
  /\ UNCHANGED <<tail, head, slot, gate, notified, token, handles, op, reg, spins, left,
                 got, expired, res>>

Unregister(s) ==
  /\ At(s, "unregister")
  /\ slot' = [slot EXCEPT ![s] = "none"]
  /\ gate' = [gate EXCEPT ![s] = 0]
  /\ SetRegistered(s, FALSE)
  /\ Run(s, Rest(s))
  /\ UNCHANGED <<ring, gateVis, notified, token, count, gone, kind, closed, alive, op,
                 spins, left, got, expired, res>>

MutNotifyNoFence(s) ==
  /\ At(s, "notify")
  /\ Run(s, (IF gateVis[Peer(s)] # 0 THEN <<"wake_one">> ELSE << >>) \o Rest(s))
  /\ UNCHANGED <<ring, waiters, handles, op, reg, spins, left, got, expired, res>>

(* notify_receivers, notify_senders: fence, then look at the peer's gate *)
Notify(s) ==
  /\ At(s, "notify")
  /\ Flush(s) /\ gateVis' = [gateVis EXCEPT ![s] = gate[s]]
  /\ Run(s, (IF gateVis[Peer(s)] # 0 THEN <<"wake_one">> ELSE << >>) \o Rest(s))
  /\ UNCHANGED <<tail, head, slot, gate, notified, token, handles, op, reg, spins, left,
                 got, expired, res>>

MutWakeOneForgetsWake(s) ==
  /\ At(s, "wake_one")
  /\ slot' = [slot EXCEPT ![Peer(s)] = "none"]
  /\ gate' = [gate EXCEPT ![Peer(s)] = 0]
  /\ gateVis' = [gateVis EXCEPT ![Peer(s)] = 0]
  /\ notified' = [notified EXCEPT ![Peer(s)] = @ \/ slot[Peer(s)] = "ptr"]
  /\ Run(s, Rest(s))
  /\ UNCHANGED <<ring, token, handles, op, reg, spins, left, got, expired, res>>

(* wake_one takes the waiter under its mutex ... *)
WakeOne(s) ==
  /\ At(s, "wake_one")
  /\ IF slot[Peer(s)] = "none"
       THEN Run(s, Rest(s)) /\ UNCHANGED <<slot, gate, gateVis, notified>>
       ELSE /\ slot' = [slot EXCEPT ![Peer(s)] = "none"]
            /\ gate' = [gate EXCEPT ![Peer(s)] = 0]
            /\ gateVis' = [gateVis EXCEPT ![Peer(s)] = 0]
            /\ notified' = [notified EXCEPT ![Peer(s)] = @ \/ slot[Peer(s)] = "ptr"]
            /\ Run(s, <<"wake">> \o Rest(s))
  /\ UNCHANGED <<ring, token, handles, op, reg, spins, left, got, expired, res>>

(* ... and wakes it after the unlock *)
Wake(s) ==
  /\ At(s, "wake")
  /\ token' = [token EXCEPT ![Peer(s)] = TRUE]
  /\ Run(s, Rest(s))
  /\ UNCHANGED <<ring, slot, gate, gateVis, notified, handles, op, reg, spins, left, got,
                 expired, res>>

SetGone(s) ==
  /\ At(s, "set_gone")
  /\ gone' = [gone EXCEPT ![s] = TRUE]
  /\ Flush(s)
  /\ Run(s, Rest(s))
  /\ UNCHANGED <<tail, head, waiters, count, kind, closed, alive, streamReg, op, reg,
                 spins, left, got, expired, res>>

(* drop_sender, drop_receiver: fetch_sub, and the last one wakes the peer *)
DropCount(s) ==
  /\ At(s, "drop_count")
  /\ count' = [count EXCEPT ![s] = IF @ = 0 THEN Count - 1 ELSE @ - 1]
  /\ Run(s, IF count[s] = 1 THEN <<"wake_one">> \o Rest(s) ELSE Rest(s))
  /\ Flush(s)
  /\ UNCHANGED <<tail, head, waiters, gone, kind, closed, alive, streamReg, op, reg,
                 spins, left, got, expired, res>>

-----------------------------------------------------------------------------
(* The sender's accesses *)

(* consumer_dropped is set: the send fails *)
ConsumerGone ==
  /\ At(P, "gone")
  /\ IF gone[C] THEN Run(P, Unreg(P)) /\ Answer(P, "Closed")
                ELSE Run(P, Rest(P)) /\ UNCHANGED res
  /\ UNCHANGED <<ring, waiters, handles, op, reg, spins, left, got, expired>>

(* push; a try_send that is refused has nothing left to do *)
TryPush ==
  /\ At(P, "push")
  /\ IF Free > 0
       THEN /\ tail' = tail + 1
            /\ Run(P, Unreg(P) \o <<"notify">>) /\ Answer(P, "Ok")
       ELSE /\ Run(P, Rest(P)) /\ UNCHANGED tail
            /\ IF Rest(P) = << >> THEN Answer(P, "Full") ELSE UNCHANGED res
  /\ UNCHANGED <<tailVis, head, headVis, waiters, handles, op, reg, spins, left, got,
                 expired>>

(* write_batch, and what the caller does when all items are sent *)
WriteBatch ==
  /\ At(P, "write")
  /\ LET k == IF left[P] < Free THEN left[P] ELSE Free
     IN /\ tail' = tail + k
        /\ left' = [left EXCEPT ![P] = @ - k]
        /\ Run(P, (IF k > 0 THEN <<"notify">> ELSE << >>)
                  \o IF k = left[P] THEN Unreg(P) ELSE Rest(P))
        /\ IF k = left[P] THEN Answer(P, "Ok") ELSE UNCHANGED res
  /\ UNCHANGED <<tailVis, head, headVis, waiters, handles, op, reg, spins, got, expired>>

(* SendBatchMutFuture drains available_space() items and goes round again *)
WriteAvailable ==
  /\ At(P, "write_avail")
  /\ LET k == IF left[P] < Free THEN left[P] ELSE Free
     IN /\ tail' = tail + k
        /\ left' = [left EXCEPT ![P] = @ - k]
        /\ Run(P, IF k = 0 THEN Rest(P)
                  ELSE <<"notify">> \o IF k = left[P] THEN Unreg(P) ELSE Again(op[P]))
        /\ IF k > 0 /\ k = left[P] THEN Answer(P, "Ok") ELSE UNCHANGED res
  /\ UNCHANGED <<tailVis, head, headVis, waiters, handles, op, reg, spins, got, expired>>

(* The consumer left between the registration and the wait: go round *)
Recheck ==
  /\ At(P, "recheck")
  /\ Run(P, IF gone[C] THEN Again(op[P]) ELSE Rest(P))
  /\ UNCHANGED <<ring, waiters, handles, op, reg, spins, left, got, expired, res>>

(* try_send_batch names the reason it stopped early *)
Reason ==
  /\ At(P, "reason")
  /\ Run(P, << >>) /\ Answer(P, IF gone[C] THEN "Closed" ELSE "Full")
  /\ UNCHANGED <<ring, waiters, handles, op, reg, spins, left, got, expired>>

-----------------------------------------------------------------------------
(* The receiver's accesses *)

(* pop; nothing found and nothing left to try means disconnected *)
TryPop ==
  /\ At(C, "pop")
  /\ IF Seen > 0
       THEN /\ head' = head + 1 /\ got' = 1 /\ Answer(C, "Ok")
            /\ Run(C, Unreg(C) \o <<"notify">>
                      \o IF op[C] = "recv_batch" THEN <<"read">> ELSE << >>)
       ELSE /\ UNCHANGED <<head, got>>
            /\ IF Rest(C) = << >> THEN Run(C, Unreg(C)) /\ Answer(C, "Disconnected")
                                  ELSE Run(C, Rest(C)) /\ UNCHANGED res
  /\ UNCHANGED <<tail, tailVis, headVis, waiters, handles, op, reg, spins, left, expired>>

(* read_batch: pop until nothing is seen or the batch is full, notify once. *)
(* recv_batch enters it with the item recv returned.                        *)
ReadBatch ==
  /\ At(C, "read")
  /\ LET before == IF op[C] = "recv_batch" THEN 1 ELSE 0
     IN IF Seen > 0 /\ got < left[C]
          THEN /\ head' = head + 1 /\ got' = got + 1
               /\ UNCHANGED <<todo, res>>
          ELSE /\ UNCHANGED <<head, got>>
               /\ CASE got > before ->
                         Run(C, <<"notify">> \o Unreg(C)) /\ Answer(C, "Ok")
                    [] got = before /\ before = 1 -> Run(C, << >>) /\ UNCHANGED res
                    [] got = before /\ before = 0 /\ Rest(C) = << >> ->
                         Run(C, Unreg(C)) /\ Answer(C, "Disconnected")
                    [] OTHER -> Run(C, Rest(C)) /\ UNCHANGED res
  /\ UNCHANGED <<tail, tailVis, headVis, waiters, handles, op, reg, spins, left, expired>>

(* try_recv finds the senders alive: the channel is merely empty *)
Empty ==
  /\ At(C, "empty")
  /\ IF count[P] # 0 THEN Run(C, << >>) /\ Answer(C, "Empty")
                     ELSE Run(C, Rest(C)) /\ UNCHANGED res
  /\ UNCHANGED <<ring, waiters, handles, op, reg, spins, left, got, expired>>

MutSendersAliveNoRelook ==
  /\ \E label \in {"alive", "producer_gone", "alive_unreg"} :
       /\ At(C, label)
       /\ IF IF label = "producer_gone" THEN ~gone[P] ELSE count[P] # 0
            THEN Run(C, Rest(C)) /\ UNCHANGED res
            ELSE Run(C, Unreg(C)) /\ Answer(C, "Disconnected")
  /\ UNCHANGED <<ring, waiters, handles, op, reg, spins, left, got, expired>>

(* senders_alive, or the producer_dropped flag: if it says gone, look once *)
(* more at the ring, after taking the waiter back where the code does      *)
SendersAlive ==
  /\ \E label \in {"alive", "producer_gone", "alive_unreg"} :
       /\ At(C, label)
       /\ LET look == IF op[C] = "recv_batch_future" THEN <<"read">> ELSE <<"pop">>
          IN Run(C, IF IF label = "producer_gone" THEN ~gone[P] ELSE count[P] # 0
                      THEN Rest(C)
                      ELSE (IF label = "alive_unreg" THEN Unreg(C) ELSE << >>) \o look)
  /\ UNCHANGED <<ring, waiters, handles, op, reg, spins, left, got, expired, res>>

-----------------------------------------------------------------------------
(* Waiting *)

(* The bottom of a blocking loop: time out, park, spin or register *)
Wait(s) ==
  /\ At(s, "wait")
  /\ LET timed == op[s] = "recv_timeout"
     IN CASE timed /\ expired -> /\ Run(s, Unreg(s)) /\ Answer(s, "Timeout")
                                 /\ UNCHANGED spins
          [] ~(timed /\ expired) /\ reg[s] -> /\ Run(s, <<"park">>)
                                             /\ UNCHANGED <<spins, res>>
          [] ~(timed /\ expired) /\ ~reg[s] /\ ~timed /\ spins[s] < SpinLimit ->
               /\ spins' = [spins EXCEPT ![s] = @ + 1]
               /\ Run(s, Again(op[s])) /\ UNCHANGED res
          [] OTHER -> /\ Run(s, <<"register", "fence">> \o Again(op[s]))
                      /\ UNCHANGED <<spins, res>>
  /\ UNCHANGED <<ring, waiters, handles, op, reg, left, got, expired>>

AfterPark(s) == Run(s, IF WithFlag(op[s]) THEN <<"swap">> ELSE Again(op[s]))

Unpark(s) ==
  /\ At(s, "park") /\ token[s]
  /\ token' = [token EXCEPT ![s] = FALSE]
  /\ AfterPark(s)
  /\ UNCHANGED <<ring, slot, gate, gateVis, notified, handles, op, reg, spins, left, got,
                 expired, res>>

(* park may return without a permit; park_timeout does when time is up *)
SpuriousUnpark(s) ==
  /\ At(s, "park") /\ ~token[s]
  /\ AfterPark(s)
  /\ UNCHANGED <<ring, waiters, handles, op, reg, spins, left, got, expired, res>>

ParkTimesOut ==
  /\ op[C] = "recv_timeout" /\ expired
  /\ SpuriousUnpark(C)

Elapse ==
  /\ todo[C] # << >> /\ op[C] = "recv_timeout" /\ ~expired
  /\ expired' = TRUE
  /\ UNCHANGED <<ring, waiters, handles, op, todo, reg, spins, left, got, res>>

(* notified.swap(false): the waiter was taken, so it must register again *)
SwapNotified(s) ==
  /\ At(s, "swap")
  /\ notified' = [notified EXCEPT ![s] = FALSE]
  /\ IF notified[s] THEN /\ reg' = [reg EXCEPT ![s] = FALSE]
                         /\ spins' = [spins EXCEPT ![s] = 0]
                    ELSE UNCHANGED <<reg, spins>>
  /\ Run(s, Again(op[s]))
  /\ UNCHANGED <<ring, slot, gate, gateVis, token, handles, op, left, got, expired, res>>

(* A task is polled again once it is woken, or for reasons of its own *)
Poll(s) ==
  /\ At(s, "pending") /\ token[s]
  /\ token' = [token EXCEPT ![s] = FALSE]
  /\ Run(s, Again(op[s]))
  /\ UNCHANGED <<ring, slot, gate, gateVis, notified, handles, op, reg, spins, left, got,
                 expired, res>>

SpuriousPoll(s) ==
  /\ At(s, "pending") /\ ~token[s]
  /\ Run(s, Again(op[s]))
  /\ UNCHANGED <<ring, waiters, handles, op, reg, spins, left, got, expired, res>>

(* A pending future is dropped and takes its waiter back; a pending Stream *)
(* has no future, its waiter stays with the receiver                       *)
Cancel(s) ==
  /\ At(s, "pending")
  /\ Run(s, IF op[s] = "next" THEN << >> ELSE Unreg(s)) /\ Answer(s, "Cancelled")
  /\ UNCHANGED <<ring, waiters, handles, op, reg, spins, left, got, expired>>

-----------------------------------------------------------------------------
(* A store drains to the other side *)

DrainIndex ==
  /\ \/ tailVis < tail /\ tailVis' = tailVis + 1 /\ UNCHANGED headVis
     \/ headVis < head /\ headVis' = headVis + 1 /\ UNCHANGED tailVis
  /\ UNCHANGED <<tail, head, waiters, handles, local>>

DrainGate(s) ==
  /\ gateVis[s] # gate[s]
  /\ gateVis' = [gateVis EXCEPT ![s] = gate[s]]
  /\ UNCHANGED <<ring, slot, gate, notified, token, handles, local>>

(* Both handles are dropped: nothing is left to run *)
Finished == /\ \A s \in Side : ~alive[s] /\ todo[s] = << >>
            /\ UNCHANGED vars

(* The steps of a running operation, as opposed to the caller's choices *)
SharedStep(s) ==
  \/ Register(s) \/ PreParkFence(s) \/ Unregister(s)
  \/ Notify(s) \/ WakeOne(s) \/ Wake(s) \/ SetGone(s) \/ DropCount(s)
  \/ Wait(s) \/ Unpark(s) \/ SwapNotified(s) \/ Poll(s)

SenderStep ==
  ConsumerGone \/ TryPush \/ WriteBatch \/ WriteAvailable \/ Recheck \/ Reason

ReceiverStep ==
  TryPop \/ ReadBatch \/ Empty \/ SendersAlive \/ ParkTimesOut \/ Elapse

Choice(s) ==
  \/ \E o \in client[kind[s]][s] : Call(s, o)
  \/ Close(s) \/ Drop(s) \/ Convert(s)
  \/ Cancel(s) \/ SpuriousUnpark(s) \/ SpuriousPoll(s)

Next == /\ \/ \E s \in Side : SharedStep(s) \/ Choice(s) \/ DrainGate(s)
           \/ SenderStep
           \/ ReceiverStep
           \/ DrainIndex
           \/ Finished
        /\ UNCHANGED client

Spec == Init /\ [][Next]_vars

-----------------------------------------------------------------------------
(* Every variable keeps its type, and no published value overtakes what it *)
(* publishes.                                                              *)
Label == {"gone", "push", "write", "write_avail", "recheck", "reason", "pop", "read",
          "empty", "alive", "alive_unreg", "producer_gone", "wait", "park", "swap",
          "pending", "register", "fence", "unregister", "notify", "wake_one", "wake",
          "set_gone", "drop_count"}
Result == {"none", "Ok", "Full", "Empty", "Closed", "Disconnected", "Timeout",
           "Cancelled", "CloseError"}
TypeOK ==
  /\ tail \in 0 .. MaxItems /\ tailVis \in 0 .. tail
  /\ head \in 0 .. tailVis /\ headVis \in 0 .. head
  /\ count \in [Side -> 0 .. Count - 1] /\ gone \in [Side -> BOOLEAN]
  /\ slot \in [Side -> {"none", "ptr", "null"}]
  /\ gate \in [Side -> {0, 1}] /\ gateVis \in [Side -> {0, 1}]
  /\ notified \in [Side -> BOOLEAN] /\ token \in [Side -> BOOLEAN]
  /\ kind \in [Side -> {"sync", "async"}] /\ closed \in [Side -> BOOLEAN]
  /\ alive \in [Side -> BOOLEAN] /\ streamReg \in BOOLEAN
  /\ todo \in [Side -> Seq(Label)] /\ res \in [Side -> Result]
  /\ reg \in [Side -> BOOLEAN] /\ spins \in [Side -> 0 .. SpinLimit]
  /\ left \in [Side -> 0 .. MaxBatch] /\ got \in 0 .. MaxBatch /\ expired \in BOOLEAN

Labels(s)  == {todo[s][i] : i \in DOMAIN todo[s]}
Blocked(s) == (At(s, "park") \/ At(s, "pending")) /\ ~token[s]

(* A wake for s is under way: its peer is about to set the permit, or to   *)
(* take s's waiter, or to look at a gate that already shows it; read_batch *)
(* looks at it once, after its last pop.                                   *)
WakeComing(s) ==
  \/ "wake" \in Labels(Peer(s))
  \/ /\ slot[s] # "none"
     /\ \/ "wake_one" \in Labels(Peer(s))
        \/ "drop_count" \in Labels(Peer(s)) /\ count[Peer(s)] = 1
        \/ /\ gateVis[s] = 1
           /\ "notify" \in Labels(Peer(s)) \/ (s = P /\ At(C, "read") /\ got > 0)

(* No lost wakeup, receiving: a receiver that sleeps (parked thread or     *)
(* pending task) while an item is in the ring, or after the last sender is *)
(* gone, is about to be woken. register / pre_park_fence / re-check against *)
(* push / fence / gate load is what this rests on.                         *)
ReceiverNotForgotten ==
  Blocked(C) /\ (head < tail \/ count[P] = 0) => WakeComing(C)

(* No lost wakeup, sending: the same for a sender that sleeps although a   *)
(* slot is free or the receiver is gone.                                   *)
SenderNotForgotten ==
  Blocked(P) /\ (tail - head < Cap \/ gone[C]) => WakeComing(P)

(* The waiter slot never keeps the address of a flag on the stack of a     *)
(* call that has returned: wake_one would write through it.                *)
FlagOutlivesWaiter ==
  \A s \in Side : slot[s] = "ptr" => WithFlag(op[s]) /\ todo[s] # << >>

(* A receiver that was not closed itself hears Disconnected only after it  *)
(* received everything that was ever sent, and nothing is sent afterwards. *)
DrainedBeforeDisconnected ==
  res[C] = "Disconnected" /\ ~closed[C] => head = tail /\ gone[P]

(* A handle that is gone is known to be gone: its count is zero and its    *)
(* flag is set, whichever way it was closed, converted and dropped.        *)
DropSignalsPeer ==
  \A s \in Side : ~alive[s] /\ todo[s] = << >> => count[s] = 0 /\ gone[s]

(* A receive is under way while an item is there, or after the last sender *)
(* left.                                                                   *)
ReceiveDue  == todo[C] # << >> /\ (head < tail \/ count[P] = 0)

(* A send is under way while everything it has left fits the ring, or      *)
(* after the receiver left.                                                *)
SendDue     == todo[P] # << >> /\ (gone[C] \/ left[P] <= Cap - (tail - head))
Returned(s) == todo[s] = << >>
==============================================================================
