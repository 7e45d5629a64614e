------------------------------- MODULE Oneshot -------------------------------
(***************************************************************************)
(* The clonable oneshot channel of channels/src/oneshot (mod.rs, core.rs). *)
(*                                                                         *)
(* phase, rxDropped and count are the three fields of the one atomic state *)
(* word. A compare-and-swap loop over that word either returns on the      *)
(* value it loaded or swaps exactly the value it loaded, so each loop is   *)
(* one step here. All accesses are read-modify-writes of one word or reads *)
(* ordered by them: steps interleave.                                      *)
(*                                                                         *)
(* Receiver methods take &self: the callers of one receiver may be several *)
(* threads, or a pending receive future next to another call.              *)
(***************************************************************************)
EXTENDS Naturals, FiniteSets

CONSTANTS Sender,        \* sender handles; each has one value to send
          First,         \* the sender oneshot() returns
          Caller,        \* users of the receiver handle
          CallerOps,     \* the operations of each
          NoOne

ASSUME OneshotAssumption ==
  /\ IsFiniteSet(Sender) /\ First \in Sender /\ NoOne \notin Sender \cup Caller
  /\ CallerOps \in [Caller -> SUBSET {"recv", "recv_blocking", "try_recv", "close", "drop"}]

VARIABLES phase, rxDropped, count,  \* the state word
          slot,                     \* value_slot: whose value it holds
          waker,                    \* receiver_waker: who is registered
          woken,                    \* tasks that have been woken
          handle, spc, sres,        \* senders: handle, place in the code, result
          rclosed, ralive,          \* Receiver::closed; the handle exists
          rop, rpc, rres,           \* receiver callers: operation, place, result
          fate,                     \* what became of each sender's value
          freed                     \* OneShotShared has been dropped

word  == <<phase, rxDropped, count>>
tx    == <<handle, spc, sres>>
rx    == <<rclosed, ralive, rop, rpc, rres>>
vars  == <<word, slot, waker, woken, tx, rx, fate, freed>>

Init ==
  /\ phase = "EMPTY" /\ rxDropped = FALSE /\ count = 1
  /\ slot = NoOne /\ waker = NoOne /\ woken = [c \in Caller |-> FALSE]
  /\ handle = [s \in Sender |-> IF s = First THEN "open" ELSE "unborn"]
  /\ spc = [s \in Sender |-> "idle"] /\ sres = [s \in Sender |-> "none"]
  /\ rclosed = FALSE /\ ralive = TRUE
  /\ rop = [c \in Caller |-> "none"] /\ rpc = [c \in Caller |-> "idle"]
  /\ rres = [c \in Caller |-> "none"]
  /\ fate = [s \in Sender |-> "unsent"] /\ freed = FALSE

GoS(s, pc) == spc' = [spc EXCEPT ![s] = pc]
GoR(c, pc) == rpc' = [rpc EXCEPT ![c] = pc]
Fate(s, f) == fate' = [fate EXCEPT ![s] = f]

-----------------------------------------------------------------------------
(* Senders *)

Clone(s, n) ==
  /\ handle[s] \in {"open", "closed"} /\ handle[n] = "unborn"
  /\ count' = count + 1
  /\ handle' = [handle EXCEPT ![n] = "open"]
  /\ UNCHANGED <<phase, rxDropped, slot, waker, woken, spc, sres, rx, fate, freed>>

(* send consumes the handle; a closed one only gives the value back *)
Send(s) ==
  /\ handle[s] \in {"open", "closed"} /\ spc[s] = "idle"
  /\ IF handle[s] = "closed"
       THEN /\ handle' = [handle EXCEPT ![s] = "gone"] /\ UNCHANGED spc
            /\ sres' = [sres EXCEPT ![s] = "Closed"] /\ Fate(s, "returned")
       ELSE /\ handle' = [handle EXCEPT ![s] = "consumed"] /\ GoS(s, "claim")
            /\ UNCHANGED <<sres, fate>>
  /\ UNCHANGED <<word, slot, waker, woken, rx, freed>>

MutClaimAnyPhase(s) ==
  /\ spc[s] = "claim"
  /\ IF rxDropped
       THEN /\ sres' = [sres EXCEPT ![s] = "Closed"]
            /\ Fate(s, "returned") /\ GoS(s, "dec") /\ UNCHANGED phase
       ELSE phase' = "WRITING" /\ GoS(s, "check") /\ UNCHANGED <<sres, fate>>
  /\ UNCHANGED <<rxDropped, count, slot, waker, woken, handle, rx, freed>>

(* OneShotShared::send: EMPTY -> WRITING, or fail *)
Claim(s) ==
  /\ spc[s] = "claim"
  /\ IF rxDropped \/ phase # "EMPTY"
       THEN /\ sres' = [sres EXCEPT ![s] = IF rxDropped THEN "Closed" ELSE "Sent"]
            /\ Fate(s, "returned") /\ GoS(s, "dec") /\ UNCHANGED phase
       ELSE phase' = "WRITING" /\ GoS(s, "check") /\ UNCHANGED <<sres, fate>>
  /\ UNCHANGED <<rxDropped, count, slot, waker, woken, handle, rx, freed>>

(* ... look again for a receiver that left, and if so step back *)
Check(s) ==
  /\ spc[s] = "check"
  /\ GoS(s, IF rxDropped THEN "rollback" ELSE "write")
  /\ UNCHANGED <<word, slot, waker, woken, handle, sres, rx, fate, freed>>

Rollback(s) ==
  /\ spc[s] = "rollback"
  /\ phase' = "EMPTY"
  /\ sres' = [sres EXCEPT ![s] = "Closed"] /\ Fate(s, "returned") /\ GoS(s, "dec")
  /\ UNCHANGED <<rxDropped, count, slot, waker, woken, handle, rx, freed>>

Write(s) ==
  /\ spc[s] = "write"
  /\ slot' = s /\ Fate(s, "inflight") /\ GoS(s, "publish")
  /\ UNCHANGED <<word, waker, woken, handle, sres, rx, freed>>

Publish(s) ==
  /\ spc[s] = "publish"
  /\ phase' = "SENT" /\ GoS(s, "wake_sent")
  /\ sres' = [sres EXCEPT ![s] = "Ok"]
  /\ UNCHANGED <<rxDropped, count, slot, waker, woken, handle, rx, fate, freed>>

(* AtomicWaker::wake takes the registered waker and wakes it *)
WakeReceiver == /\ waker' = NoOne
                /\ woken' = [c \in Caller |-> woken[c] \/ c = waker]

MutWakeSentMissing(s) ==
  /\ spc[s] = "wake_sent"
  /\ GoS(s, "dec")
  /\ UNCHANGED <<word, slot, waker, woken, handle, sres, rx, fate, freed>>

WakeSent(s) ==
  /\ spc[s] = "wake_sent"
  /\ WakeReceiver /\ GoS(s, "dec")
  /\ UNCHANGED <<word, slot, handle, sres, rx, fate, freed>>

(* close keeps the handle, drop consumes it; both run close_internal once *)
Close(s) ==
  /\ handle[s] = "open" /\ spc[s] = "idle"
  /\ handle' = [handle EXCEPT ![s] = "closed"] /\ GoS(s, "dec")
  /\ UNCHANGED <<word, slot, waker, woken, sres, rx, fate, freed>>

Drop(s) ==
  /\ handle[s] \in {"open", "closed"} /\ spc[s] = "idle"
  /\ IF handle[s] = "open"
       THEN handle' = [handle EXCEPT ![s] = "consumed"] /\ GoS(s, "dec")
       ELSE handle' = [handle EXCEPT ![s] = "gone"] /\ UNCHANGED spc
  /\ UNCHANGED <<word, slot, waker, woken, sres, rx, fate, freed>>

Done(s) == /\ GoS(s, "idle")
           /\ handle' = [handle EXCEPT ![s] = IF @ = "consumed" THEN "gone" ELSE @]

(* decrement_senders: fetch_sub; the last one settles the channel *)
Dec(s) ==
  /\ spc[s] = "dec"
  /\ count' = count - 1
  /\ IF count = 1 THEN GoS(s, "dispatch") /\ UNCHANGED handle ELSE Done(s)
  /\ UNCHANGED <<phase, rxDropped, slot, waker, woken, sres, rx, fate, freed>>

Dispatch(s) ==
  /\ spc[s] = "dispatch"
  /\ CASE phase = "EMPTY" -> phase' = "CLOSED" /\ GoS(s, "wake_closed") /\ UNCHANGED handle
       [] phase = "SENT" /\ rxDropped ->
            phase' = "TAKEN" /\ GoS(s, "drop_value") /\ UNCHANGED handle
       [] OTHER -> Done(s) /\ UNCHANGED phase
  /\ UNCHANGED <<rxDropped, count, slot, waker, woken, sres, rx, fate, freed>>

WakeClosed(s) ==
  /\ spc[s] = "wake_closed"
  /\ WakeReceiver /\ Done(s)
  /\ UNCHANGED <<word, slot, sres, rx, fate, freed>>

DropValue(s) ==
  /\ spc[s] = "drop_value"
  /\ slot' = NoOne /\ fate' = [v \in Sender |-> IF v = slot THEN "dropped" ELSE fate[v]]
  /\ Done(s)
  /\ UNCHANGED <<word, waker, woken, sres, rx, freed>>

-----------------------------------------------------------------------------
(* The receiver *)

(* "recv_blocking" is block_on's first poll, with a no-op waker, "blocked" *)
(* the later ones                                                          *)
Polls(c) == rop[c] \in {"recv", "recv_blocking", "blocked"}

Finish(c, r) == GoR(c, "idle") /\ rres' = [rres EXCEPT ![c] = r]

(* try_recv, recv and recv_blocking begin with the handle's closed flag *)
Call(c, op) ==
  /\ ralive /\ rpc[c] = "idle" /\ op \in CallerOps[c] \ {"close", "drop"}
  /\ rop' = [rop EXCEPT ![c] = op]
  /\ rres' = [rres EXCEPT ![c] = "none"]
  /\ GoR(c, "poll")
  /\ woken' = [woken EXCEPT ![c] = FALSE]
  /\ UNCHANGED <<word, slot, waker, tx, rclosed, ralive, fate, freed>>

Poll(c) ==
  /\ rpc[c] = "poll"
  /\ IF rclosed THEN Finish(c, "Disconnected") ELSE GoR(c, "try1") /\ UNCHANGED rres
  /\ UNCHANGED <<word, slot, waker, woken, tx, rclosed, ralive, rop, fate, freed>>

(* OneShotShared::try_recv, alone or as either half of poll_recv *)
TryRecv(c) ==
  /\ rpc[c] \in {"try1", "try2"}
  /\ CASE phase = "SENT" -> phase' = "TAKEN" /\ GoR(c, "take") /\ UNCHANGED rres
       [] phase = "CLOSED" -> Finish(c, "Disconnected") /\ UNCHANGED phase
       [] phase = "EMPTY" /\ count = 0 -> phase' = "CLOSED" /\ Finish(c, "Disconnected")
       [] OTHER -> /\ UNCHANGED phase
                   /\ IF Polls(c) THEN /\ GoR(c, IF rpc[c] = "try1" THEN "taken1" ELSE "taken2")
                                       /\ UNCHANGED rres
                                  ELSE Finish(c, "Empty")
  /\ UNCHANGED <<rxDropped, count, slot, waker, woken, tx, rclosed, ralive, rop, fate, freed>>

TakeValue(c) ==
  /\ rpc[c] = "take"
  /\ slot' = NoOne /\ fate' = [v \in Sender |-> IF v = slot THEN "received" ELSE fate[v]]
  /\ Finish(c, "Ok")
  /\ UNCHANGED <<word, waker, woken, tx, rclosed, ralive, rop, freed>>

(* A value already taken will bring no wake. The first poll of block_on    *)
(* has no waker worth keeping and is followed by another at once.          *)
CheckTaken(c) ==
  /\ rpc[c] \in {"taken1", "taken2"}
  /\ CASE phase = "TAKEN" -> Finish(c, "Disconnected") /\ UNCHANGED rop
       [] phase # "TAKEN" /\ rpc[c] = "taken1" -> GoR(c, "register") /\ UNCHANGED <<rop, rres>>
       [] OTHER -> /\ GoR(c, IF rop[c] = "recv_blocking" THEN "poll" ELSE "pending")
                   /\ rop' = [rop EXCEPT ![c] = IF @ = "recv_blocking" THEN "blocked" ELSE @]
                   /\ UNCHANGED rres
  /\ UNCHANGED <<word, slot, waker, woken, tx, rclosed, ralive, fate, freed>>

Register(c) ==
  /\ rpc[c] = "register"
  /\ waker' = IF rop[c] = "recv_blocking" THEN NoOne ELSE c
  /\ GoR(c, "try2")
  /\ UNCHANGED <<word, slot, woken, tx, rclosed, ralive, rop, rres, fate, freed>>

Wakeup(c) ==
  /\ rpc[c] = "pending" /\ woken[c]
  /\ woken' = [woken EXCEPT ![c] = FALSE] /\ GoR(c, "poll")
  /\ UNCHANGED <<word, slot, waker, tx, rclosed, ralive, rop, rres, fate, freed>>

(* A spurious poll; a future that is dropped, its waker left behind *)
PollAgain(c) ==
  /\ rpc[c] = "pending" /\ ~woken[c] /\ GoR(c, "poll")
  /\ UNCHANGED <<word, slot, waker, woken, tx, rclosed, ralive, rop, rres, fate, freed>>

Cancel(c) ==
  /\ rpc[c] = "pending" /\ rop[c] = "recv" /\ Finish(c, "Cancelled")
  /\ UNCHANGED <<word, slot, waker, woken, tx, rclosed, ralive, rop, fate, freed>>

CloseReceiver(c) ==
  /\ ralive /\ rpc[c] = "idle" /\ "close" \in CallerOps[c]
  /\ rop' = [rop EXCEPT ![c] = "close"]
  /\ rclosed' = TRUE
  /\ IF rclosed THEN Finish(c, "CloseError")
                ELSE GoR(c, "mark") /\ rres' = [rres EXCEPT ![c] = "none"]
  /\ UNCHANGED <<word, slot, waker, woken, tx, ralive, fate, freed>>

(* The handle is dropped when nobody borrows it *)
DropReceiver(c) ==
  /\ ralive /\ "drop" \in CallerOps[c] /\ \A d \in Caller : rpc[d] = "idle"
  /\ ralive' = FALSE /\ rclosed' = TRUE
  /\ rop' = [rop EXCEPT ![c] = "drop"] /\ rres' = [rres EXCEPT ![c] = "none"]
  /\ IF rclosed THEN UNCHANGED rpc ELSE GoR(c, "mark")
  /\ UNCHANGED <<word, slot, waker, woken, tx, fate, freed>>

(* mark_receiver_dropped *)
Mark(c) ==
  /\ rpc[c] = "mark"
  /\ rxDropped' = TRUE /\ GoR(c, "settle")
  /\ UNCHANGED <<phase, count, slot, waker, woken, tx, rclosed, ralive, rop, rres, fate, freed>>

Settle(c) ==
  /\ rpc[c] = "settle"
  /\ CASE phase = "EMPTY" -> phase' = "CLOSED" /\ Finish(c, "Closed")
       [] phase = "SENT" -> phase' = "TAKEN" /\ GoR(c, "rdrop_value") /\ UNCHANGED rres
       [] OTHER -> Finish(c, "Closed") /\ UNCHANGED phase
  /\ UNCHANGED <<rxDropped, count, slot, waker, woken, tx, rclosed, ralive, rop, fate, freed>>

RDropValue(c) ==
  /\ rpc[c] = "rdrop_value"
  /\ slot' = NoOne /\ fate' = [v \in Sender |-> IF v = slot THEN "dropped" ELSE fate[v]]
  /\ Finish(c, "Closed")
  /\ UNCHANGED <<word, waker, woken, tx, rclosed, ralive, rop, freed>>

(* The last Arc goes: OneShotShared::drop *)
FreeShared ==
  /\ ~freed /\ ~ralive /\ \A c \in Caller : rpc[c] = "idle"
  /\ \A s \in Sender : handle[s] \in {"unborn", "gone"}
  /\ freed' = TRUE
  /\ IF phase = "SENT"
       THEN slot' = NoOne /\ fate' = [v \in Sender |-> IF v = slot THEN "dropped" ELSE fate[v]]
       ELSE UNCHANGED <<slot, fate>>
  /\ UNCHANGED <<word, waker, woken, tx, rx>>

Finished == freed /\ UNCHANGED vars

-----------------------------------------------------------------------------
SenderStep(s) ==
  \/ Claim(s) \/ Check(s) \/ Rollback(s) \/ Write(s) \/ Publish(s) \/ WakeSent(s)
  \/ Dec(s) \/ Dispatch(s) \/ WakeClosed(s) \/ DropValue(s)

CallerStep(c) ==
  \/ Poll(c) \/ TryRecv(c) \/ TakeValue(c) \/ CheckTaken(c) \/ Register(c) \/ Wakeup(c)
  \/ Mark(c) \/ Settle(c) \/ RDropValue(c)

Next ==
  \/ \E s \in Sender : \/ SenderStep(s) \/ Send(s) \/ Close(s) \/ Drop(s)
                       \/ \E n \in Sender : Clone(s, n)
  \/ \E c \in Caller : \/ CallerStep(c) \/ PollAgain(c) \/ Cancel(c)
                       \/ CloseReceiver(c) \/ DropReceiver(c)
                       \/ \E op \in CallerOps[c] : Call(c, op)
  \/ FreeShared
  \/ Finished

Spec == Init /\ [][Next]_vars

-----------------------------------------------------------------------------
Phase == {"EMPTY", "WRITING", "SENT", "TAKEN", "CLOSED"}
SenderPc == {"idle", "claim", "check", "rollback", "write", "publish", "wake_sent", "dec",
             "dispatch", "wake_closed", "drop_value"}
CallerPc == {"idle", "poll", "try1", "take", "taken1", "register", "try2", "taken2",
             "pending", "mark", "settle", "rdrop_value"}
(* Every variable keeps its type; the sender count never underflows. *)
TypeOK ==
  /\ phase \in Phase /\ rxDropped \in BOOLEAN /\ count \in Nat
  /\ slot \in Sender \cup {NoOne} /\ waker \in Caller \cup {NoOne}
  /\ woken \in [Caller -> BOOLEAN]
  /\ handle \in [Sender -> {"unborn", "open", "closed", "consumed", "gone"}]
  /\ spc \in [Sender -> SenderPc] /\ rpc \in [Caller -> CallerPc]
  /\ rop \in [Caller -> {"none", "recv", "recv_blocking", "blocked", "try_recv", "close", "drop"}]
  /\ rres \in [Caller -> {"none", "Ok", "Empty", "Disconnected", "Cancelled", "Closed", "CloseError"}]
  /\ sres \in [Sender -> {"none", "Ok", "Sent", "Closed"}]
  /\ rclosed \in BOOLEAN /\ ralive \in BOOLEAN /\ freed \in BOOLEAN
  /\ fate \in [Sender -> {"unsent", "inflight", "returned", "received", "dropped"}]
(* A sender that has not been closed, dropped or used up. send, close and  *)
(* drop give up the count exactly once between them.                       *)
Counted(s) == \/ handle[s] = "open"
              \/ handle[s] = "closed" /\ spc[s] = "dec"
              \/ handle[s] = "consumed" /\ spc[s] \notin {"dispatch", "wake_closed", "drop_value"}
(* The count in the state word is the number of such senders: clone, send, *)
(* close and drop never count a handle twice or not at all.                *)
CountExact == count = Cardinality({s \in Sender : Counted(s)})

Writers == {s \in Sender : spc[s] \in {"check", "write", "publish", "rollback"}}
SlotReaders == {s \in Sender : spc[s] = "drop_value"}
             \cup {c \in Caller : rpc[c] \in {"take", "rdrop_value"}}

(* The value slot is never shared: at most one party is between a claim    *)
(* (EMPTY -> WRITING or SENT -> TAKEN) and the end of its access, a reader *)
(* finds a value there, a writer finds none, and SENT always means full.   *)
SlotExclusive ==
  /\ \A a, b \in Writers \cup SlotReaders : a = b
  /\ SlotReaders # {} => slot # NoOne
  /\ \A s \in Sender : spc[s] = "write" => slot = NoOne
  /\ phase = "SENT" /\ ~freed => slot # NoOne

(* No value leaks: when the shared state is freed, every value that was    *)
(* put into the slot was received or dropped.                              *)
NoValueLeaks == freed => \A s \in Sender : fate[s] # "inflight"

(* At most one send succeeds, and its value reaches the receiver unless    *)
(* the receiver left.                                                      *)
OneSendWins ==
  /\ \A s, t \in Sender : sres[s] = "Ok" /\ sres[t] = "Ok" => s = t
  /\ \A s \in Sender : fate[s] = "dropped" => rxDropped

(* A receiver that hears Disconnected (and did not leave itself) misses    *)
(* nothing: whatever was or will be sent successfully has been received.   *)
DisconnectedIsFinal ==
  \A c \in Caller : rres[c] = "Disconnected" /\ ~rclosed =>
    \A s \in Sender : sres[s] = "Ok" => slot = NoOne \/ \E d \in Caller : rpc[d] = "take"

(* The value and the handles: counted exactly, one party at the slot, one  *)
(* successful send, nothing left behind, nothing missed.                   *)
ValueHasOneOwner ==
  CountExact /\ SlotExclusive /\ NoValueLeaks /\ OneSendWins /\ DisconnectedIsFinal

(* What a pending receive waits for has happened *)
Due == phase \in {"SENT", "TAKEN", "CLOSED"} \/ (phase = "EMPTY" /\ count = 0)

(* No lost wakeup: a pending receive that has something to return is woken *)
(* or about to be.                                                         *)
PendingIsWoken ==
  \A c \in Caller : rpc[c] = "pending" /\ ~woken[c] /\ Due =>
    waker = c /\ \E s \in Sender : spc[s] \in {"wake_sent", "dispatch", "wake_closed"}

(* A receive is under way when there is something to return. *)
RecvDue(c)  == rpc[c] # "idle" /\ (Due \/ rclosed)
Resolved(c) == rpc[c] = "idle"
==============================================================================
