----------------------------- MODULE OneshotPool -----------------------------
(***************************************************************************)
(* The pooled oneshot channels of channels/src/oneshot/pool.rs: recycled   *)
(* slots, the two handles of each channel, the retirement of a slot by the *)
(* handle that exits last, and the release of the storage. OneshotPairPool *)
(* and OneshotHostPool run the same protocol on the same Slot.             *)
(*                                                                         *)
(* A channel is one use of a slot. Its two handles are the processes       *)
(* <<c, "tx">> and <<c, "rx">>. The freelist is the set of free slots; see *)
(* module Freelist for how it is built.                                    *)
(***************************************************************************)
EXTENDS Naturals, FiniteSets

CONSTANTS Slot,      \* the pool's slots
          Channel,   \* channels over the life of the pool: bounds pair()
          Receives,  \* the receive operations in use
          NoOne

VARIABLES flags,      \* Slot::state, the set of its bits
          cell,       \* Slot::value: whose value it holds
          waker,      \* Slot::waker: which receiver is registered
          free,       \* Freelist
          stakes, closed, released,   \* lifecycle word; the Box is gone
          pairing,    \* popped by a pair() that has not added its stake
          home,       \* the slot of each channel
          pc,         \* where each handle is in its code
          done, exited, waitingSet,   \* fields of PooledReceiver
          rop,        \* the receiver's operation
          sawValue,   \* close_receiver's first load
          woken, fate

slots   == <<flags, cell, waker>>
pool    == <<free, stakes, closed, released, pairing, home>>
handles == <<done, exited, waitingSet, rop, sawValue, woken>>
vars    == <<slots, pool, pc, handles, fate>>

Handle == Channel \X {"tx", "rx"}

Init ==
  /\ flags = [i \in Slot |-> {}]
  /\ cell = [i \in Slot |-> NoOne] /\ waker = [i \in Slot |-> NoOne]
  /\ free = Slot /\ stakes = 0 /\ closed = FALSE /\ released = FALSE
  /\ pairing = {} /\ home = [c \in Channel |-> NoOne]
  /\ pc = [h \in Handle |-> "unborn"]
  /\ done = [c \in Channel |-> FALSE] /\ exited = [c \in Channel |-> FALSE]
  /\ waitingSet = [c \in Channel |-> FALSE] /\ rop = [c \in Channel |-> "none"]
  /\ sawValue = [c \in Channel |-> FALSE] /\ woken = [c \in Channel |-> FALSE]
  /\ fate = [c \in Channel |-> "unsent"]

Go(h, l) == pc' = [pc EXCEPT ![h] = l]
Set(f, i) == f' = [f EXCEPT ![i] = TRUE]

-----------------------------------------------------------------------------
(* The pool *)

(* pair and pair_batch: pop the slots, then take the stakes *)
Pair(cs, f) ==
  /\ ~closed /\ pairing = {} /\ cs # {}
  /\ \A c \in cs : home[c] = NoOne
  /\ \A c, d \in cs : f[c] = f[d] => c = d
  /\ \A c \in cs : f[c] \in free
  /\ free' = free \ {f[c] : c \in cs}
  /\ home' = [c \in Channel |-> IF c \in cs THEN f[c] ELSE home[c]]
  /\ pairing' = cs
  /\ UNCHANGED <<slots, stakes, closed, released, pc, handles, fate>>

Stake ==
  /\ pairing # {}
  /\ stakes' = stakes + Cardinality(pairing)
  /\ pairing' = {}
  /\ pc' = [h \in Handle |-> IF h[1] \in pairing THEN "idle" ELSE pc[h]]
  /\ UNCHANGED <<slots, free, closed, released, home, handles, fate>>

DropPool ==
  /\ ~closed /\ pairing = {}
  /\ closed' = TRUE /\ released' = (stakes = 0)
  /\ UNCHANGED <<slots, free, stakes, pairing, home, pc, handles, fate>>

(* A receiver handle that was closed stays; any other handle is gone *)
End(h) == IF h[2] = "rx" /\ exited[h[1]] THEN "idle" ELSE "gone"

(* retire: reset the slot, push it, settle the stake *)
TakeWaker(h) ==
  LET i == home[h[1]] IN
  /\ pc[h] = "retire"
  /\ waker' = IF "WAITING" \in flags[i] THEN [waker EXCEPT ![i] = NoOne] ELSE waker
  /\ Go(h, "clear")
  /\ UNCHANGED <<flags, cell, pool, handles, fate>>

ClearState(h) ==
  /\ pc[h] = "clear"
  /\ flags' = [flags EXCEPT ![home[h[1]]] = {}] /\ Go(h, "push")
  /\ UNCHANGED <<cell, waker, pool, handles, fate>>

Push(h) ==
  /\ pc[h] = "push"
  /\ free' = free \cup {home[h[1]]} /\ Go(h, "settle")
  /\ UNCHANGED <<slots, stakes, closed, released, pairing, home, handles, fate>>

Settle(h) ==
  /\ pc[h] = "settle"
  /\ stakes' = stakes - 1
  /\ released' = (released \/ (stakes = 1 /\ closed))
  /\ Go(h, End(h))
  /\ UNCHANGED <<slots, free, closed, pairing, home, handles, fate>>

-----------------------------------------------------------------------------
(* The sender: Slot::send and Slot::close_sender *)

Send(c) ==
  /\ pc[<<c, "tx">>] = "idle"
  /\ cell' = [cell EXCEPT ![home[c]] = c]
  /\ fate' = [fate EXCEPT ![c] = "inflight"]
  /\ Go(<<c, "tx">>, "publish")
  /\ UNCHANGED <<flags, waker, pool, handles>>

Publish(c) ==
  LET prev == flags[home[c]] IN
  /\ pc[<<c, "tx">>] = "publish"
  /\ flags' = [flags EXCEPT ![home[c]] = @ \cup {"VALUE"}]
  /\ Go(<<c, "tx">>, CASE "RECEIVER_GONE" \in prev -> "take_back"
                       [] "RECEIVER_GONE" \notin prev /\ "WAITING" \in prev -> "wake"
                       [] OTHER -> "gone")
  /\ UNCHANGED <<cell, waker, pool, handles, fate>>

TakeBack(c) ==
  /\ pc[<<c, "tx">>] = "take_back"
  /\ cell' = [cell EXCEPT ![home[c]] = NoOne]
  /\ fate' = [fate EXCEPT ![c] = "returned"]
  /\ Go(<<c, "tx">>, "retire")
  /\ UNCHANGED <<flags, waker, pool, handles>>

CloseSender(c) ==
  LET prev == flags[home[c]] IN
  /\ pc[<<c, "tx">>] = "idle"
  /\ flags' = [flags EXCEPT ![home[c]] = @ \cup {"SENDER_GONE"}]
  /\ Go(<<c, "tx">>, CASE "RECEIVER_GONE" \in prev -> "retire"
                       [] "RECEIVER_GONE" \notin prev /\ "WAITING" \in prev -> "wake"
                       [] OTHER -> "gone")
  /\ UNCHANGED <<cell, waker, pool, handles, fate>>

(* By now the receiver may have retired the slot: whoever is registered    *)
(* there is woken. The pool may even have released its storage.            *)
Wake(c) ==
  /\ pc[<<c, "tx">>] = "wake"
  /\ waker' = [waker EXCEPT ![home[c]] = NoOne]
  /\ woken' = [d \in Channel |-> woken[d] \/ d = waker[home[c]]]
  /\ Go(<<c, "tx">>, "gone")
  /\ UNCHANGED <<flags, cell, pool, done, exited, waitingSet, rop, sawValue, fate>>

-----------------------------------------------------------------------------
(* The receiver *)

Return(c) == Go(<<c, "rx">>, "idle") /\ rop' = [rop EXCEPT ![c] = "none"]

(* try_recv, recv, recv_blocking; a receiver that is done or exited is     *)
(* answered at once                                                        *)
Receive(c, op) ==
  /\ pc[<<c, "rx">>] = "idle"
  /\ woken' = [woken EXCEPT ![c] = FALSE]
  /\ IF done[c] \/ exited[c]
       THEN Return(c)
       ELSE Go(<<c, "rx">>, "look1") /\ rop' = [rop EXCEPT ![c] = op]
  /\ UNCHANGED <<slots, pool, done, exited, waitingSet, sawValue, fate>>

(* The first and the second look of poll_recv; the only one of try_recv *)
Look(c) ==
  LET at == pc[<<c, "rx">>] IN
  /\ at \in {"look1", "look2"}
  /\ CASE "VALUE" \in flags[home[c]] -> Go(<<c, "rx">>, "take") /\ UNCHANGED <<done, rop>>
       [] "VALUE" \notin flags[home[c]] /\ "SENDER_GONE" \in flags[home[c]] ->
            Set(done, c) /\ Return(c)
       [] OTHER ->
            /\ UNCHANGED done
            /\ CASE rop[c] = "try_recv" -> Return(c)
                 [] rop[c] # "try_recv" /\ at = "look1" ->
                      Go(<<c, "rx">>, "announce") /\ UNCHANGED rop
                 [] OTHER ->
                      /\ Go(<<c, "rx">>, IF rop[c] = "recv_blocking" THEN "look1" ELSE "pending")
                      /\ rop' = [rop EXCEPT ![c] = IF @ = "recv_blocking" THEN "blocked" ELSE @]
  /\ UNCHANGED <<slots, pool, exited, waitingSet, sawValue, woken, fate>>

Take(c) ==
  /\ pc[<<c, "rx">>] = "take"
  /\ cell' = [cell EXCEPT ![home[c]] = NoOne]
  /\ fate' = [fate EXCEPT ![c] = "received"]
  /\ Set(done, c) /\ Return(c)
  /\ UNCHANGED <<flags, waker, pool, exited, waitingSet, sawValue, woken>>

Announce(c) ==
  /\ pc[<<c, "rx">>] = "announce"
  /\ flags' = IF waitingSet[c] THEN flags ELSE [flags EXCEPT ![home[c]] = @ \cup {"WAITING"}]
  /\ Set(waitingSet, c) /\ Go(<<c, "rx">>, "register")
  /\ UNCHANGED <<cell, waker, pool, done, exited, rop, sawValue, woken, fate>>

(* block_on's first poll registers a waker that does nothing *)
Register(c) ==
  /\ pc[<<c, "rx">>] = "register"
  /\ waker' = [waker EXCEPT ![home[c]] = IF rop[c] = "recv_blocking" THEN NoOne ELSE c]
  /\ Go(<<c, "rx">>, "look2")
  /\ UNCHANGED <<flags, cell, pool, handles, fate>>

Wakeup(c) ==
  /\ pc[<<c, "rx">>] = "pending" /\ woken[c]
  /\ woken' = [woken EXCEPT ![c] = FALSE] /\ Go(<<c, "rx">>, "look1")
  /\ UNCHANGED <<slots, pool, done, exited, waitingSet, rop, sawValue, fate>>

(* A poll nobody asked for; a future that is dropped *)
PollAgain(c) ==
  /\ pc[<<c, "rx">>] = "pending" /\ ~woken[c] /\ Go(<<c, "rx">>, "look1")
  /\ UNCHANGED <<slots, pool, handles, fate>>

Cancel(c) ==
  /\ pc[<<c, "rx">>] = "pending" /\ rop[c] = "recv" /\ Return(c)
  /\ UNCHANGED <<slots, pool, done, exited, waitingSet, sawValue, woken, fate>>

(* close keeps the handle, drop ends it; either retires a finished channel *)
Close(c) ==
  /\ pc[<<c, "rx">>] = "idle" /\ ~exited[c]
  /\ Set(exited, c) /\ Set(done, c)
  /\ Go(<<c, "rx">>, IF done[c] THEN "retire" ELSE "cr_look")
  /\ UNCHANGED <<slots, pool, waitingSet, rop, sawValue, woken, fate>>

Drop(c) ==
  /\ pc[<<c, "rx">>] = "idle"
  /\ Go(<<c, "rx">>, CASE exited[c] -> "gone"
                       [] done[c] /\ ~exited[c] -> "retire"
                       [] OTHER -> "cr_look")
  /\ UNCHANGED <<slots, pool, done, exited, waitingSet, rop, sawValue, woken, fate>>

(* close_receiver *)
CloseLook(c) ==
  LET v == "VALUE" \in flags[home[c]] IN
  /\ pc[<<c, "rx">>] = "cr_look"
  /\ sawValue' = [sawValue EXCEPT ![c] = v]
  /\ Go(<<c, "rx">>, IF v THEN "cr_drop1" ELSE "cr_exit")
  /\ UNCHANGED <<slots, pool, done, exited, waitingSet, rop, woken, fate>>

DropValue(c) ==
  /\ pc[<<c, "rx">>] \in {"cr_drop1", "cr_drop2"}
  /\ cell' = [cell EXCEPT ![home[c]] = NoOne]
  /\ fate' = [fate EXCEPT ![c] = "dropped"]
  /\ Go(<<c, "rx">>, IF pc[<<c, "rx">>] = "cr_drop1" THEN "cr_exit" ELSE "retire")
  /\ UNCHANGED <<flags, waker, pool, handles>>

MutCloseExitRetires(c) ==
  LET prev == flags[home[c]] IN
  /\ pc[<<c, "rx">>] = "cr_exit"
  /\ flags' = [flags EXCEPT ![home[c]] = @ \cup {"RECEIVER_GONE"}]
  /\ Go(<<c, "rx">>, IF "VALUE" \in prev /\ ~sawValue[c] THEN "cr_drop2" ELSE "retire")
  /\ UNCHANGED <<cell, waker, pool, handles, fate>>

CloseExit(c) ==
  LET prev == flags[home[c]] IN
  /\ pc[<<c, "rx">>] = "cr_exit"
  /\ flags' = [flags EXCEPT ![home[c]] = @ \cup {"RECEIVER_GONE"}]
  /\ Go(<<c, "rx">>, CASE "VALUE" \in prev /\ ~sawValue[c] -> "cr_drop2"
                       [] sawValue[c] \/ ("VALUE" \notin prev /\ "SENDER_GONE" \in prev) -> "retire"
                       [] OTHER -> End(<<c, "rx">>))
  /\ UNCHANGED <<cell, waker, pool, handles, fate>>

-----------------------------------------------------------------------------
HandleStep(h) == TakeWaker(h) \/ ClearState(h) \/ Push(h) \/ Settle(h)

SenderStep(c) ==
  Publish(c) \/ TakeBack(c) \/ Wake(c) \/ HandleStep(<<c, "tx">>)

ReceiverStep(c) ==
  \/ Look(c) \/ Take(c) \/ Announce(c) \/ Register(c) \/ Wakeup(c)
  \/ CloseLook(c) \/ DropValue(c) \/ CloseExit(c) \/ HandleStep(<<c, "rx">>)

Use(c) ==
  \/ Send(c) \/ CloseSender(c) \/ Close(c) \/ Drop(c) \/ PollAgain(c) \/ Cancel(c)
  \/ \E op \in Receives : Receive(c, op)

Gone == /\ closed /\ pairing = {}
        /\ \A h \in Handle : pc[h] \in {"unborn", "gone"}
        /\ UNCHANGED vars

Next ==
  \/ \E cs \in SUBSET Channel : \E f \in [cs -> Slot] : Pair(cs, f)
  \/ Stake \/ DropPool
  \/ \E c \in Channel : SenderStep(c) \/ ReceiverStep(c) \/ Use(c)
  \/ Gone

Spec == Init /\ [][Next]_vars

-----------------------------------------------------------------------------
Bits == {"VALUE", "SENDER_GONE", "RECEIVER_GONE", "WAITING"}
Labels == {"unborn", "idle", "gone", "retire", "clear", "push", "settle", "publish", "take_back",
           "wake", "look1", "look2", "take", "announce", "register", "pending", "cr_look",
           "cr_drop1", "cr_drop2", "cr_exit"}
(* Every variable keeps its type. *)
TypeOK ==
  /\ flags \in [Slot -> SUBSET Bits]
  /\ cell \in [Slot -> Channel \cup {NoOne}] /\ waker \in [Slot -> Channel \cup {NoOne}]
  /\ free \subseteq Slot /\ stakes \in Nat /\ closed \in BOOLEAN /\ released \in BOOLEAN
  /\ pairing \subseteq Channel /\ home \in [Channel -> Slot \cup {NoOne}]
  /\ pc \in [Handle -> Labels]
  /\ done \in [Channel -> BOOLEAN] /\ exited \in [Channel -> BOOLEAN]
  /\ waitingSet \in [Channel -> BOOLEAN] /\ sawValue \in [Channel -> BOOLEAN]
  /\ woken \in [Channel -> BOOLEAN]
  /\ rop \in [Channel -> {"none", "recv", "recv_blocking", "blocked", "try_recv"}]
  /\ fate \in [Channel -> {"unsent", "inflight", "returned", "received", "dropped"}]

(* A channel that still uses its slot: neither handle has pushed it back *)
Holds(c) == /\ home[c] # NoOne
            /\ \A h \in {<<c, "tx">>, <<c, "rx">>} : pc[h] \notin {"settle"}
            /\ \/ c \in pairing
               \/ pc[<<c, "tx">>] \notin {"gone", "wake"}
               \/ pc[<<c, "rx">>] \notin {"gone", "idle"}
               \/ pc[<<c, "rx">>] = "idle" /\ ~exited[c]
Retiring(h) == pc[h] \in {"retire", "clear", "push", "settle"}

(* The variables keep their types, and a slot is free or belongs to        *)
(* exactly one channel, and exactly one of that channel's handles recycles *)
(* it: "whichever handle exits last pushes the slot back".                 *)
SlotHasOneOwner ==
  /\ TypeOK
  /\ \A c \in Channel : Holds(c) => home[c] \notin free
  /\ \A c, d \in Channel : Holds(c) /\ Holds(d) /\ home[c] = home[d] => c = d
  /\ \A c \in Channel : ~(Retiring(<<c, "tx">>) /\ Retiring(<<c, "rx">>))

(* Whoever reads or drops the value finds the channel's own value there,   *)
(* and a slot that is recycled holds none: nothing is dropped twice, read  *)
(* uninitialized, leaked or given to the slot's next user.                 *)
ValueIsOwn ==
  /\ \A c \in Channel : /\ pc[<<c, "rx">>] \in {"take", "cr_drop1", "cr_drop2"} => cell[home[c]] = c
                        /\ pc[<<c, "tx">>] = "take_back" => cell[home[c]] = c
  /\ \A i \in free : cell[i] = NoOne /\ flags[i] = {}
  /\ \A h \in Handle : Retiring(h) => fate[h[1]] # "inflight"

(* No lost wakeup: a pending receiver whose channel has a value or no      *)
(* sender is woken or about to be, also when senders of earlier uses of    *)
(* the slot still wake.                                                    *)
PendingIsWoken ==
  \A c \in Channel :
    pc[<<c, "rx">>] = "pending" /\ ~woken[c] /\ flags[home[c]] \cap {"VALUE", "SENDER_GONE"} # {} =>
      waker[home[c]] = c /\ pc[<<c, "tx">>] = "wake"

(* The storage outlives the channels: it is released only when the pool    *)
(* handle is dropped and every channel has settled its stake.              *)
ReleaseIsDeferred ==
  released => closed /\ stakes = 0 /\ \A c \in Channel : ~Holds(c) /\ \A h \in Handle : ~Retiring(h)

(* Slots are not lost: when all channels have finished, all are free. *)
AllSlotsReturn ==
  (pairing = {} /\ \A h \in Handle : pc[h] \in {"unborn", "gone"}) => free = Slot /\ stakes = 0
==============================================================================
