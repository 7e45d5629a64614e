--------------------------- MODULE OneshotExclusive --------------------------
(***************************************************************************)
(* The single-sender oneshot of channels/src/oneshot/exclusive.rs: two     *)
(* handles, three bits, no claim step. All accesses to the state word are  *)
(* read-modify-writes or acquire loads.                                    *)
(***************************************************************************)
EXTENDS Naturals

VARIABLES flags,          \* subset of {"SENT", "RX_CLOSED", "TX_CLOSED"}
          full,           \* value_slot holds the value
          waker,          \* the receiver is registered
          woken,
          spc, rpc, rop,
          done, ralive,   \* ExclusiveReceiver::done; the handle exists
          fate

vars == <<flags, full, waker, woken, spc, rpc, rop, done, ralive, fate>>

Init ==
  /\ flags = {} /\ full = FALSE /\ waker = FALSE /\ woken = FALSE
  /\ spc = "idle" /\ rpc = "idle" /\ rop = "none"
  /\ done = FALSE /\ ralive = TRUE /\ fate = "unsent"

-----------------------------------------------------------------------------
(* The sender: send is write, publish, then take back or wake; close is    *)
(* drop                                                                    *)
Send ==
  /\ spc = "idle"
  /\ full' = TRUE /\ fate' = "inflight" /\ spc' = "publish"
  /\ UNCHANGED <<flags, waker, woken, rpc, rop, done, ralive>>

MutPublishTakesBackSilently ==
  /\ spc = "publish"
  /\ flags' = flags \cup {"SENT"}
  /\ spc' = "wake"
  /\ UNCHANGED <<full, waker, woken, rpc, rop, done, ralive, fate>>

Publish ==
  /\ spc = "publish"
  /\ flags' = flags \cup {"SENT"}
  /\ spc' = IF "RX_CLOSED" \in flags THEN "take_back" ELSE "wake"
  /\ UNCHANGED <<full, waker, woken, rpc, rop, done, ralive, fate>>

TakeBack ==
  /\ spc = "take_back"
  /\ full' = FALSE /\ fate' = "returned" /\ spc' = "gone"
  /\ UNCHANGED <<flags, waker, woken, rpc, rop, done, ralive>>

DropSender ==
  /\ spc = "idle"
  /\ flags' = flags \cup {"TX_CLOSED"} /\ spc' = "wake"
  /\ UNCHANGED <<full, waker, woken, rpc, rop, done, ralive, fate>>

Wake ==
  /\ spc = "wake"
  /\ waker' = FALSE /\ woken' = (woken \/ waker) /\ spc' = "gone"
  /\ UNCHANGED <<flags, full, rpc, rop, done, ralive, fate>>

-----------------------------------------------------------------------------
(* The receiver *)

Receive(op) ==
  /\ ralive /\ rpc = "idle"
  /\ rop' = op /\ woken' = FALSE /\ rpc' = "try1"
  /\ UNCHANGED <<flags, full, waker, spc, done, ralive, fate>>

(* try_recv, alone or as either half of a poll *)
TryRecv ==
  /\ rpc \in {"try1", "try2"}
  /\ CASE done -> rpc' = "idle" /\ UNCHANGED <<done, rop>>
       [] ~done /\ "SENT" \in flags -> rpc' = "take" /\ done' = TRUE /\ UNCHANGED rop
       [] ~done /\ "SENT" \notin flags /\ "TX_CLOSED" \in flags ->
            rpc' = "idle" /\ done' = TRUE /\ UNCHANGED rop
       [] OTHER ->
            /\ UNCHANGED done
            /\ rpc' = CASE rop = "try_recv" -> "idle"
                        [] rop # "try_recv" /\ rpc = "try1" -> "register"
                        [] rop = "recv_blocking" /\ rpc = "try2" -> "try1"
                        [] OTHER -> "pending"
            /\ rop' = IF rop = "recv_blocking" /\ rpc = "try2" THEN "blocked" ELSE rop
  /\ UNCHANGED <<flags, full, waker, woken, spc, ralive, fate>>

Take ==
  /\ rpc = "take"
  /\ full' = FALSE /\ fate' = "received" /\ rpc' = "idle"
  /\ UNCHANGED <<flags, waker, woken, spc, rop, done, ralive>>

(* block_on's first poll registers a waker that does nothing *)
Register ==
  /\ rpc = "register"
  /\ waker' = (rop # "recv_blocking") /\ rpc' = "try2"
  /\ UNCHANGED <<flags, full, woken, spc, rop, done, ralive, fate>>

Wakeup ==
  /\ rpc = "pending" /\ woken
  /\ woken' = FALSE /\ rpc' = "try1"
  /\ UNCHANGED <<flags, full, waker, spc, rop, done, ralive, fate>>

PollAgain ==
  /\ rpc = "pending" /\ ~woken /\ rpc' = "try1"
  /\ UNCHANGED <<flags, full, waker, woken, spc, rop, done, ralive, fate>>

Cancel ==
  /\ rpc = "pending" /\ rop = "recv" /\ rpc' = "idle"
  /\ UNCHANGED <<flags, full, waker, woken, spc, rop, done, ralive, fate>>

Close ==
  /\ ralive /\ rpc = "idle"
  /\ done' = TRUE /\ rpc' = IF done THEN "idle" ELSE "exit"
  /\ UNCHANGED <<flags, full, waker, woken, spc, rop, ralive, fate>>

DropReceiver ==
  /\ ralive /\ rpc = "idle"
  /\ ralive' = FALSE /\ rpc' = IF done THEN "idle" ELSE "exit"
  /\ UNCHANGED <<flags, full, waker, woken, spc, rop, done, fate>>

(* close_internal *)
Exit ==
  /\ rpc = "exit"
  /\ flags' = flags \cup {"RX_CLOSED"}
  /\ rpc' = IF "SENT" \in flags THEN "drop_value" ELSE "idle"
  /\ UNCHANGED <<full, waker, woken, spc, rop, done, ralive, fate>>

DropValue ==
  /\ rpc = "drop_value"
  /\ full' = FALSE /\ fate' = "dropped" /\ rpc' = "idle"
  /\ UNCHANGED <<flags, waker, woken, spc, rop, done, ralive>>

Finished == spc = "gone" /\ ~ralive /\ rpc = "idle" /\ UNCHANGED vars

SenderStep == Publish \/ TakeBack \/ Wake
ReceiverStep == TryRecv \/ Take \/ Register \/ Wakeup \/ Exit \/ DropValue

Next ==
  \/ SenderStep \/ Send \/ DropSender
  \/ ReceiverStep \/ PollAgain \/ Cancel \/ Close \/ DropReceiver
  \/ \E op \in {"recv", "recv_blocking", "try_recv"} : Receive(op)
  \/ Finished

Spec == Init /\ [][Next]_vars

-----------------------------------------------------------------------------
(* Every variable keeps its type. *)
TypeOK ==
  /\ flags \subseteq {"SENT", "RX_CLOSED", "TX_CLOSED"}
  /\ full \in BOOLEAN /\ waker \in BOOLEAN /\ woken \in BOOLEAN
  /\ spc \in {"idle", "publish", "take_back", "wake", "gone"}
  /\ rpc \in {"idle", "try1", "take", "register", "try2", "pending", "exit", "drop_value"}
  /\ rop \in {"none", "recv", "recv_blocking", "blocked", "try_recv"}
  /\ done \in BOOLEAN /\ ralive \in BOOLEAN
  /\ fate \in {"unsent", "inflight", "returned", "received", "dropped"}

(* The variables keep their types and the value has one owner: sender and  *)
(* receiver never read it both, who reads it finds it, and when both       *)
(* handles are gone it is gone too (the shared state has no Drop that      *)
(* would reclaim it).                                                      *)
ValueHasOneOwner ==
  /\ TypeOK
  /\ ~(spc = "take_back" /\ rpc \in {"take", "drop_value"})
  /\ spc = "take_back" \/ rpc \in {"take", "drop_value"} => full
  /\ spc = "gone" /\ ~ralive /\ rpc = "idle" => ~full

(* A receive is pending when a value was sent or the sender left. *)
RecvDue  == rpc = "pending" /\ flags # {}
Resolved == rpc = "idle"
==============================================================================
