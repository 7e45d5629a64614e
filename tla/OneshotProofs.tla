---------------------------- MODULE OneshotProofs ----------------------------
(***************************************************************************)
(* Proofs about Oneshot for every finite set of senders and every set of   *)
(* receiver callers.                                                       *)
(***************************************************************************)
EXTENDS Oneshot, FiniteSetTheorems, TLAPS

\* A step is tried with SMT, then with Zenon; wide case distinctions cite Zenon.
USE SMTT(30), ZenonT(30)

LEMMA NoOneIsFresh == NoOne \notin Sender /\ NoOne \notin Caller
BY OneshotAssumption

(* Where a sender is in its code and what its handle has become agree *)
Sending == {"claim", "check", "rollback", "write", "publish", "wake_sent"}
HandlesAgree ==
  \A s \in Sender :
    /\ handle[s] \in {"unborn", "open", "gone"} => spc[s] = "idle"
    /\ handle[s] = "closed" => spc[s] \notin Sending
    /\ handle[s] = "consumed" => spc[s] # "idle"

-----------------------------------------------------------------------------
(* Type correctness and the sender count *)

TypeInv == TypeOK /\ HandlesAgree /\ CountExact

LEMMA CountedStays ==
  ASSUME TypeInv, \A s \in Sender : Counted(s)' = Counted(s), count' = count
  PROVE  CountExact'
<1>1. {s \in Sender : Counted(s)'} = {s \in Sender : Counted(s)}
  OBVIOUS
<1>. QED BY <1>1 DEF TypeInv, CountExact

LEMMA CountedAdds ==
  ASSUME TypeInv, NEW n \in Sender, ~Counted(n), Counted(n)', count' = count + 1,
         \A s \in Sender : s # n => Counted(s)' = Counted(s)
  PROVE  CountExact'
<1>. DEFINE T == {s \in Sender : Counted(s)}
<1>1. {s \in Sender : Counted(s)'} = T \cup {n}
  OBVIOUS
<1>2. IsFiniteSet(T)
  BY OneshotAssumption, FS_Subset
<1>3. Cardinality(T \cup {n}) = Cardinality(T) + 1
  BY <1>2, FS_AddElement
<1>. QED BY <1>1, <1>3 DEF TypeInv, CountExact

LEMMA CountedRemoves ==
  ASSUME TypeInv, NEW n \in Sender, Counted(n), ~Counted(n)', count' = count - 1,
         \A s \in Sender : s # n => Counted(s)' = Counted(s)
  PROVE  CountExact' /\ count' \in Nat
<1>. DEFINE T == {s \in Sender : Counted(s)}
<1>1. {s \in Sender : Counted(s)'} = T \ {n}
  OBVIOUS
<1>2. IsFiniteSet(T)
  BY OneshotAssumption, FS_Subset
<1>3. Cardinality(T \ {n}) = Cardinality(T) - 1
  BY <1>2, FS_RemoveElement
<1>4. IsFiniteSet(T \ {n})
  BY <1>2, FS_RemoveElement
<1>5. Cardinality(T \ {n}) \in Nat
  BY <1>4, FS_CardinalityType
<1>. QED BY <1>1, <1>3, <1>5 DEF TypeInv, CountExact

LEMMA TypeInit == Init => TypeInv
<1>. SUFFICES ASSUME Init PROVE TypeInv
  OBVIOUS
<1>1. TypeOK /\ HandlesAgree
  BY OneshotAssumption, ZenonT(30) DEF Init, TypeOK, HandlesAgree, Phase, SenderPc, CallerPc, Sending
<1>2. {s \in Sender : Counted(s)} = {First}
  BY OneshotAssumption DEF Init, Counted
<1>3. Cardinality({First}) = 1
  BY FS_Singleton
<1>. QED BY <1>1, <1>2, <1>3 DEF Init, TypeInv, CountExact

LEMMA TypeNext == TypeInv /\ [Next]_vars => TypeInv'
<1>. SUFFICES ASSUME TypeInv, [Next]_vars PROVE TypeInv'
  OBVIOUS
<1>. USE DEF word, tx, rx, vars, GoS, GoR, Fate, Finish, Done, Counted
<1>. DEFINE Same == \A s \in Sender : Counted(s)' = Counted(s)
<1>0. TypeOK /\ HandlesAgree /\ NoOne \notin Sender /\ NoOne \notin Caller
  BY NoOneIsFresh DEF TypeInv
<1>. USE DEF Phase, SenderPc, CallerPc
<1>1. CASE \E s, n \in Sender : Clone(s, n)
  <2>1. PICK s, n \in Sender : Clone(s, n)
    BY <1>1
  <2>2. TypeOK' /\ HandlesAgree'
    BY <1>0, <2>1 DEF Clone, TypeOK, HandlesAgree, Sending
  <2>3. ~Counted(n) /\ Counted(n)' /\ count' = count + 1
    BY <1>0, <2>1 DEF Clone, TypeOK, HandlesAgree
  <2>4. \A t \in Sender : t # n => Counted(t)' = Counted(t)
    BY <1>0, <2>1 DEF Clone, TypeOK
  <2>5. CountExact'
    BY <2>3, <2>4, CountedAdds
  <2>. QED BY <2>2, <2>5 DEF TypeInv
<1>2. CASE \E s \in Sender : Dec(s)
  <2>1. PICK s \in Sender : Dec(s)
    BY <1>2
  <2>2. Counted(s) /\ ~Counted(s)' /\ count' = count - 1
    BY <1>0, <2>1 DEF Dec, TypeOK, HandlesAgree
  <2>3. \A t \in Sender : t # s => Counted(t)' = Counted(t)
    BY <1>0, <2>1 DEF Dec, TypeOK
  <2>4. CountExact' /\ count' \in Nat
    BY <2>2, <2>3, CountedRemoves
  <2>5. TypeOK' /\ HandlesAgree'
    BY <1>0, <2>1, <2>4 DEF Dec, TypeOK, HandlesAgree, Sending
  <2>. QED BY <2>4, <2>5 DEF TypeInv
<1>3. ASSUME NEW s \in Sender,
             \/ Send(s) \/ Close(s) \/ Drop(s) \/ Claim(s) \/ Check(s) \/ Rollback(s)
             \/ Write(s) \/ Publish(s) \/ WakeSent(s) \/ Dispatch(s)
             \/ WakeClosed(s) \/ DropValue(s)
      PROVE  TypeInv'
  <2>0. woken' \in [Caller -> BOOLEAN] /\ waker' \in Caller \cup {NoOne}
    <3>1. CASE WakeReceiver
      <4>1. \A c \in Caller : (woken[c] \/ c = waker) \in BOOLEAN
        OBVIOUS
      <4>. QED BY <3>1, <4>1 DEF WakeReceiver
    <3>2. CASE UNCHANGED <<waker, woken>>
      BY <1>0, <3>2 DEF TypeOK
    <3>. QED BY <1>3, <3>1, <3>2 DEF Send, Close, Drop, Claim, Check, Rollback, Write, Publish,
                                     WakeSent, Dispatch, WakeClosed, DropValue
  <2>1. TypeOK'
    <3>1. CASE Send(s) \/ Close(s) \/ Drop(s)
      BY <1>0, <2>0, <3>1 DEF TypeOK, Send, Close, Drop
    <3>2. CASE Claim(s) \/ Check(s) \/ Rollback(s)
      BY <1>0, <2>0, <3>2 DEF TypeOK, Claim, Check, Rollback
    <3>3. CASE Write(s) \/ Publish(s) \/ WakeSent(s)
      BY <1>0, <2>0, <3>3 DEF TypeOK, Write, Publish, WakeSent
    <3>4. CASE Dispatch(s) \/ WakeClosed(s)
      BY <1>0, <2>0, <3>4 DEF TypeOK, Dispatch, WakeClosed
    <3>5. CASE DropValue(s)
      BY <1>0, <2>0, <3>5 DEF TypeOK, DropValue
    <3>. QED BY <1>3, <3>1, <3>2, <3>3, <3>4, <3>5
  <2>2. HandlesAgree'
    BY <1>0, <1>3 DEF TypeOK, HandlesAgree, Sending, Send, Close, Drop, Claim, Check, Rollback,
                      Write, Publish, WakeSent, Dispatch, WakeClosed, DropValue
  <2>3. Same /\ count' = count
    BY <1>0, <1>3 DEF TypeOK, HandlesAgree, Sending, Send, Close, Drop, Claim, Check, Rollback,
                      Write, Publish, WakeSent, Dispatch, WakeClosed, DropValue
  <2>. QED BY <2>1, <2>2, <2>3, CountedStays DEF TypeInv
<1>4. ASSUME NEW c \in Caller,
             \/ CallerStep(c) \/ PollAgain(c) \/ Cancel(c) \/ CloseReceiver(c)
             \/ DropReceiver(c) \/ \E op \in CallerOps[c] : Call(c, op)
      PROVE  TypeInv'
  <2>1. TypeOK'
    <3>1. CASE Poll(c)
      BY <1>0, <3>1 DEF TypeOK, Poll
    <3>2. CASE TryRecv(c)
      BY <1>0, <3>2 DEF TypeOK, TryRecv
    <3>3. CASE TakeValue(c)
      BY <1>0, <3>3 DEF TypeOK, TakeValue
    <3>4. CASE CheckTaken(c)
      BY <1>0, <3>4 DEF TypeOK, CheckTaken
    <3>5. CASE Register(c)
      BY <1>0, <3>5 DEF TypeOK, Register
    <3>6. CASE Wakeup(c)
      BY <1>0, <3>6 DEF TypeOK, Wakeup
    <3>7. CASE Mark(c)
      BY <1>0, <3>7 DEF TypeOK, Mark
    <3>8. CASE Settle(c)
      BY <1>0, <3>8 DEF TypeOK, Settle
    <3>9. CASE RDropValue(c)
      BY <1>0, <3>9 DEF TypeOK, RDropValue
    <3>10. CASE PollAgain(c)
      BY <1>0, <3>10 DEF TypeOK, PollAgain
    <3>11. CASE Cancel(c)
      BY <1>0, <3>11 DEF TypeOK, Cancel
    <3>12. CASE CloseReceiver(c)
      BY <1>0, <3>12 DEF TypeOK, CloseReceiver
    <3>13. CASE DropReceiver(c)
      <4>1. ralive' \in BOOLEAN /\ rclosed' \in BOOLEAN
        BY <3>13, ZenonT(30) DEF DropReceiver
      <4>2. rpc' \in [Caller -> CallerPc] /\ UNCHANGED <<word, slot, waker, woken, tx, fate, freed>>
        BY <1>0, <3>13 DEF TypeOK, DropReceiver
      <4>3. rop' = [rop EXCEPT ![c] = "drop"] /\ rres' = [rres EXCEPT ![c] = "none"]
        BY <3>13 DEF DropReceiver
      <4>. QED BY <1>0, <4>1, <4>2, <4>3 DEF TypeOK
    <3>14. CASE \E op \in CallerOps[c] : Call(c, op)
      <4>1. PICK op \in CallerOps[c] : Call(c, op)
        BY <3>14
      <4>2. op \in {"recv", "recv_blocking", "try_recv", "close", "drop"}
        BY OneshotAssumption
      <4>. QED BY <1>0, <4>1, <4>2 DEF TypeOK, Call
    <3>. QED BY <1>4, <3>1, <3>2, <3>3, <3>4, <3>5, <3>6, <3>7, <3>8, <3>9, <3>10, <3>11, <3>12, <3>13, <3>14 DEF CallerStep
  <2>2. UNCHANGED <<tx, count>>
    BY <1>4 DEF CallerStep, Poll, TryRecv, TakeValue, CheckTaken, Register, Wakeup,
                Mark, Settle, RDropValue, PollAgain, Cancel, CloseReceiver, DropReceiver, Call
  <2>3. HandlesAgree'
    BY <1>0, <2>2 DEF HandlesAgree
  <2>. QED BY <2>1, <2>2, <2>3, CountedStays DEF TypeInv
<1>5. CASE FreeShared \/ Finished \/ UNCHANGED vars
  <2>0. UNCHANGED <<tx, count>>
    BY <1>5 DEF FreeShared, Finished
  <2>1. TypeOK'
    <3>1. CASE FreeShared
      BY <1>0, <3>1 DEF TypeOK, FreeShared
    <3>2. CASE UNCHANGED vars
      BY <1>0, <3>2 DEF TypeOK
    <3>. QED BY <1>5, <3>1, <3>2 DEF Finished
  <2>2. HandlesAgree'
    BY <1>0, <2>0 DEF HandlesAgree
  <2>. QED BY <2>0, <2>1, <2>2, CountedStays DEF TypeInv
<1>. QED BY <1>1, <1>2, <1>3, <1>4, <1>5 DEF Next, SenderStep

(* Every variable keeps its type: decrement_senders never underflows. *)
THEOREM TypeCorrect == Spec => []TypeOK
<1>1. TypeInv => TypeOK
  BY DEF TypeInv
<1>. QED BY <1>1, TypeInit, TypeNext, PTL DEF Spec

-----------------------------------------------------------------------------
(* The value slot *)

IsWriter(s) == spc[s] \in {"check", "write", "publish", "rollback"}
TxReads(s)  == spc[s] = "drop_value"
RxReads(c)  == rpc[c] \in {"take", "rdrop_value"}

(* The phase tells who may touch the slot and whether it is full *)
SlotInv ==
  /\ \A s, t \in Sender : IsWriter(s) /\ IsWriter(t) => s = t
  /\ \A s \in Sender : IsWriter(s) => phase = "WRITING"
  /\ \A s \in Sender : TxReads(s) => phase = "TAKEN" /\ slot # NoOne
  /\ \A c \in Caller : RxReads(c) => phase = "TAKEN" /\ slot # NoOne
  /\ \A s, t \in Sender : TxReads(s) /\ TxReads(t) => s = t
  /\ \A c, d \in Caller : RxReads(c) /\ RxReads(d) => c = d
  /\ \A s \in Sender, c \in Caller : ~(TxReads(s) /\ RxReads(c))
  /\ \A s \in Sender : spc[s] = "publish" => slot = s
  /\ \A s \in Sender : spc[s] \in {"check", "write", "rollback"} => slot = NoOne
  /\ phase \in {"EMPTY", "CLOSED"} => slot = NoOne
  /\ phase = "SENT" /\ ~freed => slot # NoOne
  /\ phase = "WRITING" => \E s \in Sender : IsWriter(s)
  /\ phase = "TAKEN" /\ slot # NoOne =>
       (\E s \in Sender : TxReads(s)) \/ (\E c \in Caller : RxReads(c))
  /\ freed => /\ ~ralive /\ slot = NoOne /\ \A c \in Caller : rpc[c] = "idle"
              /\ \A s \in Sender : handle[s] \in {"unborn", "gone"}

LEMMA SlotInit == Init => SlotInv
BY NoOneIsFresh DEF Init, SlotInv, IsWriter, TxReads, RxReads

LEMMA SlotNext == TypeInv /\ SlotInv /\ [Next]_vars => SlotInv'
<1>. SUFFICES ASSUME TypeInv, SlotInv, [Next]_vars PROVE SlotInv'
  OBVIOUS
<1>. USE DEF word, tx, rx, vars, GoS, GoR, Fate, Finish, Done, Phase, IsWriter, TxReads, RxReads
<1>0. TypeOK /\ HandlesAgree /\ NoOne \notin Sender /\ NoOne \notin Caller
  BY NoOneIsFresh DEF TypeInv
<1>1. ASSUME NEW s \in Sender,
             \/ Send(s) \/ Close(s) \/ Drop(s) \/ Claim(s) \/ Check(s) \/ Rollback(s)
             \/ Write(s) \/ Publish(s) \/ WakeSent(s) \/ Dec(s) \/ Dispatch(s)
             \/ WakeClosed(s) \/ DropValue(s)
      PROVE  SlotInv'
  <2>1. CASE Send(s)
    BY <1>0, <2>1 DEF TypeOK, SlotInv, Send
  <2>2. CASE Close(s)
    BY <1>0, <2>2 DEF TypeOK, SlotInv, Close
  <2>3. CASE Drop(s)
    BY <1>0, <2>3 DEF TypeOK, SlotInv, Drop
  <2>4. CASE Claim(s)
    BY <1>0, <2>4 DEF TypeOK, SlotInv, Claim
  <2>5. CASE Check(s)
    BY <1>0, <2>5 DEF TypeOK, SlotInv, Check
  <2>6. CASE Rollback(s)
    BY <1>0, <2>6 DEF TypeOK, SlotInv, Rollback
  <2>7. CASE Write(s)
    <3>1. phase = "WRITING" /\ ~freed
      BY <1>0, <2>7 DEF HandlesAgree, SlotInv, Write
    <3>. QED BY <1>0, <2>7, <3>1 DEF TypeOK, SlotInv, Write
  <2>8. CASE Publish(s)
    BY <1>0, <2>8 DEF TypeOK, SlotInv, Publish
  <2>9. CASE WakeSent(s)
    BY <1>0, <2>9 DEF TypeOK, SlotInv, WakeSent, WakeReceiver
  <2>10. CASE Dec(s)
    BY <1>0, <2>10 DEF TypeOK, SlotInv, Dec
  <2>11. CASE Dispatch(s)
    <3>1. CASE phase = "SENT" /\ rxDropped
      <4>1. /\ phase' = "TAKEN" /\ slot' = slot /\ ~freed /\ freed' = freed
            /\ spc' = [spc EXCEPT ![s] = "drop_value"] /\ UNCHANGED <<handle, rpc, ralive>>
        BY <1>0, <2>11, <3>1 DEF TypeOK, HandlesAgree, SlotInv, Dispatch
      <4>. QED BY <1>0, <2>11, <3>1, <4>1 DEF TypeOK, SlotInv
    <3>2. CASE phase = "EMPTY"
      BY <1>0, <2>11, <3>2 DEF TypeOK, SlotInv, Dispatch
    <3>3. CASE phase # "EMPTY" /\ ~(phase = "SENT" /\ rxDropped)
      BY <1>0, <2>11, <3>3 DEF TypeOK, SlotInv, Dispatch
    <3>. QED BY <3>1, <3>2, <3>3
  <2>12. CASE WakeClosed(s)
    BY <1>0, <2>12 DEF TypeOK, SlotInv, WakeClosed, WakeReceiver
  <2>13. CASE DropValue(s)
    BY <1>0, <2>13 DEF TypeOK, SlotInv, DropValue
  <2>. QED BY <1>1, <2>1, <2>2, <2>3, <2>4, <2>5, <2>6, <2>7, <2>8, <2>9, <2>10, <2>11, <2>12, <2>13
<1>2. ASSUME NEW c \in Caller,
             \/ Poll(c) \/ TryRecv(c) \/ TakeValue(c) \/ CheckTaken(c) \/ Register(c)
             \/ Wakeup(c) \/ Mark(c) \/ Settle(c) \/ RDropValue(c) \/ PollAgain(c)
             \/ Cancel(c) \/ CloseReceiver(c) \/ DropReceiver(c)
             \/ \E op \in CallerOps[c] : Call(c, op)
      PROVE  SlotInv'
  <2>1. CASE Poll(c)
    BY <1>0, <2>1 DEF TypeOK, SlotInv, Poll
  <2>2. CASE TryRecv(c)
    BY <1>0, <2>2 DEF TypeOK, SlotInv, TryRecv
  <2>3. CASE TakeValue(c)
    BY <1>0, <2>3 DEF TypeOK, SlotInv, TakeValue
  <2>4. CASE CheckTaken(c)
    BY <1>0, <2>4 DEF TypeOK, SlotInv, CheckTaken
  <2>5. CASE Register(c)
    BY <1>0, <2>5 DEF TypeOK, SlotInv, Register
  <2>6. CASE Wakeup(c)
    BY <1>0, <2>6 DEF TypeOK, SlotInv, Wakeup
  <2>7. CASE Mark(c)
    BY <1>0, <2>7 DEF TypeOK, SlotInv, Mark
  <2>8. CASE Settle(c)
    BY <1>0, <2>8 DEF TypeOK, SlotInv, Settle
  <2>9. CASE RDropValue(c)
    BY <1>0, <2>9 DEF TypeOK, SlotInv, RDropValue
  <2>10. CASE PollAgain(c)
    BY <1>0, <2>10 DEF TypeOK, SlotInv, PollAgain
  <2>11. CASE Cancel(c)
    BY <1>0, <2>11 DEF TypeOK, SlotInv, Cancel
  <2>12. CASE CloseReceiver(c)
    BY <1>0, <2>12 DEF TypeOK, SlotInv, CloseReceiver
  <2>13. CASE DropReceiver(c)
    BY <1>0, <2>13 DEF TypeOK, SlotInv, DropReceiver
  <2>14. CASE \E op \in CallerOps[c] : Call(c, op)
    BY <1>0, <2>14 DEF TypeOK, SlotInv, Call
  <2>. QED BY <1>2, <2>1, <2>2, <2>3, <2>4, <2>5, <2>6, <2>7, <2>8, <2>9, <2>10, <2>11, <2>12, <2>13, <2>14, ZenonT(30)
<1>3. CASE \E s, n \in Sender : Clone(s, n)
  BY <1>0, <1>3 DEF TypeOK, SlotInv, Clone
<1>4. CASE FreeShared
  <2>1. \A s \in Sender : spc[s] = "idle"
    BY <1>4 DEF FreeShared, TypeInv, HandlesAgree
  <2>. QED BY <1>0, <1>4, <2>1 DEF TypeOK, SlotInv, FreeShared
<1>5. CASE Finished \/ UNCHANGED vars
  <2>1. UNCHANGED <<phase, slot, handle, spc, ralive, rpc, freed>>
    BY <1>5 DEF Finished
  <2>. QED BY <2>1 DEF SlotInv
<1>. QED BY <1>1, <1>2, <1>3, <1>4, <1>5 DEF Next, SenderStep, CallerStep

(* The value slot is never accessed by two parties at once, is full when   *)
(* it is read and empty when it is written (the unsafe blocks of core.rs). *)
LEMMA InvGivesExclusive == TypeInv /\ SlotInv => SlotExclusive
<1>. SUFFICES ASSUME TypeInv, SlotInv PROVE SlotExclusive
  OBVIOUS
<1>1. Writers = {s \in Sender : IsWriter(s)}
  BY DEF Writers, IsWriter
<1>2. SlotReaders = {s \in Sender : TxReads(s)} \cup {c \in Caller : RxReads(c)}
  BY DEF SlotReaders, TxReads, RxReads
<1>3. \A a, b \in Writers \cup SlotReaders : a = b
  BY <1>1, <1>2 DEF SlotInv
<1>4. SlotReaders # {} => slot # NoOne
  BY <1>2 DEF SlotInv
<1>. QED BY <1>3, <1>4 DEF SlotInv, SlotExclusive

-----------------------------------------------------------------------------
(* What becomes of the values *)

(* A value is in flight exactly while it is in the slot; a winning send    *)
(* leaves the phase at SENT or TAKEN for good; only a receiver that left   *)
(* makes anyone drop a value.                                              *)
FateInv ==
  /\ \A s \in Sender : fate[s] = "inflight" <=> slot = s
  /\ \A s \in Sender : spc[s] \in {"claim", "check", "rollback", "write"} => fate[s] = "unsent"
  /\ \A s \in Sender : handle[s] \in {"unborn", "open", "closed"} => fate[s] = "unsent"
  /\ \A s \in Sender : sres[s] = "Ok" => phase \in {"SENT", "TAKEN"}
  /\ \A s, t \in Sender : sres[s] = "Ok" /\ sres[t] = "Ok" => s = t
  /\ \A s \in Sender : fate[s] = "dropped" => rxDropped
  /\ \A s \in Sender : TxReads(s) => rxDropped
  /\ \A c \in Caller : rpc[c] \in {"settle", "rdrop_value"} => rxDropped
  /\ ~ralive => rclosed
  /\ rclosed => rxDropped \/ \E c \in Caller : rpc[c] = "mark"

LEMMA FateInit == Init => FateInv
BY NoOneIsFresh DEF Init, FateInv, TxReads

LEMMA FateNext == TypeInv /\ SlotInv /\ FateInv /\ [Next]_vars => FateInv'
<1>. SUFFICES ASSUME TypeInv, SlotInv, FateInv, [Next]_vars PROVE FateInv'
  OBVIOUS
<1>. USE DEF word, tx, rx, vars, GoS, GoR, Fate, Finish, Done, Phase, IsWriter, TxReads, RxReads
<1>0. TypeOK /\ HandlesAgree /\ NoOne \notin Sender /\ NoOne \notin Caller
  BY NoOneIsFresh DEF TypeInv
<1>1. ASSUME NEW s \in Sender,
             \/ Send(s) \/ Close(s) \/ Drop(s) \/ Claim(s) \/ Check(s) \/ Rollback(s)
             \/ Write(s) \/ Publish(s) \/ WakeSent(s) \/ Dec(s) \/ Dispatch(s)
             \/ WakeClosed(s) \/ DropValue(s)
      PROVE  FateInv'
  <2>1. CASE Send(s)
    BY <1>0, <2>1 DEF TypeOK, FateInv, Send
  <2>2. CASE Close(s)
    BY <1>0, <2>2 DEF TypeOK, FateInv, Close
  <2>3. CASE Drop(s)
    BY <1>0, <2>3 DEF TypeOK, FateInv, Drop
  <2>4. CASE Claim(s)
    <3>1. handle[s] = "consumed"
      BY <1>0, <2>4 DEF TypeOK, HandlesAgree, Sending, Claim
    <3>. QED BY <1>0, <2>4, <3>1 DEF TypeOK, FateInv, Claim
  <2>5. CASE Check(s)
    BY <1>0, <2>5 DEF TypeOK, FateInv, Check
  <2>6. CASE Rollback(s)
    <3>1. handle[s] = "consumed" /\ phase = "WRITING" /\ slot = NoOne
      BY <1>0, <2>6 DEF TypeOK, HandlesAgree, Sending, SlotInv, Rollback
    <3>. QED BY <1>0, <2>6, <3>1 DEF TypeOK, FateInv, Rollback
  <2>7. CASE Write(s)
    <3>1. handle[s] = "consumed" /\ slot = NoOne
      BY <1>0, <2>7 DEF TypeOK, HandlesAgree, Sending, SlotInv, Write
    <3>. QED BY <1>0, <2>7, <3>1 DEF TypeOK, FateInv, Write
  <2>8. CASE Publish(s)
    <3>1. phase = "WRITING"
      BY <1>0, <2>8 DEF SlotInv, Publish
    <3>. QED BY <1>0, <2>8, <3>1 DEF TypeOK, FateInv, Publish
  <2>9. CASE WakeSent(s)
    BY <1>0, <2>9 DEF TypeOK, FateInv, WakeSent, WakeReceiver
  <2>10. CASE Dec(s)
    BY <1>0, <2>10 DEF TypeOK, FateInv, Dec
  <2>11. CASE Dispatch(s)
    BY <1>0, <2>11 DEF TypeOK, FateInv, Dispatch
  <2>12. CASE WakeClosed(s)
    BY <1>0, <2>12 DEF TypeOK, FateInv, WakeClosed, WakeReceiver
  <2>13. CASE DropValue(s)
    BY <1>0, <2>13 DEF TypeOK, FateInv, DropValue
  <2>. QED BY <1>1, <2>1, <2>2, <2>3, <2>4, <2>5, <2>6, <2>7, <2>8, <2>9, <2>10, <2>11,
           <2>12, <2>13
<1>2. ASSUME NEW c \in Caller,
             \/ Poll(c) \/ TryRecv(c) \/ TakeValue(c) \/ CheckTaken(c) \/ Register(c)
             \/ Wakeup(c) \/ Mark(c) \/ Settle(c) \/ RDropValue(c) \/ PollAgain(c)
             \/ Cancel(c) \/ CloseReceiver(c) \/ DropReceiver(c)
             \/ \E op \in CallerOps[c] : Call(c, op)
      PROVE  FateInv'
  <2>1. CASE Poll(c)
    BY <1>0, <2>1 DEF TypeOK, FateInv, Poll
  <2>2. CASE TryRecv(c)
    BY <1>0, <2>2 DEF TypeOK, FateInv, TryRecv
  <2>3. CASE TakeValue(c)
    BY <1>0, <2>3 DEF TypeOK, FateInv, TakeValue
  <2>4. CASE CheckTaken(c)
    BY <1>0, <2>4 DEF TypeOK, FateInv, CheckTaken
  <2>5. CASE Register(c)
    BY <1>0, <2>5 DEF TypeOK, FateInv, Register
  <2>6. CASE Wakeup(c)
    BY <1>0, <2>6 DEF TypeOK, FateInv, Wakeup
  <2>7. CASE Mark(c)
    BY <1>0, <2>7 DEF TypeOK, FateInv, Mark
  <2>8. CASE Settle(c)
    BY <1>0, <2>8 DEF TypeOK, FateInv, Settle
  <2>9. CASE RDropValue(c)
    BY <1>0, <2>9 DEF TypeOK, FateInv, RDropValue
  <2>10. CASE PollAgain(c)
    BY <1>0, <2>10 DEF TypeOK, FateInv, PollAgain
  <2>11. CASE Cancel(c)
    BY <1>0, <2>11 DEF TypeOK, FateInv, Cancel
  <2>12. CASE CloseReceiver(c)
    BY <1>0, <2>12 DEF TypeOK, FateInv, CloseReceiver
  <2>13. CASE DropReceiver(c)
    BY <1>0, <2>13 DEF TypeOK, FateInv, DropReceiver
  <2>14. CASE \E op \in CallerOps[c] : Call(c, op)
    BY <1>0, <2>14 DEF TypeOK, FateInv, Call
  <2>. QED BY <1>2, <2>1, <2>2, <2>3, <2>4, <2>5, <2>6, <2>7, <2>8, <2>9, <2>10, <2>11,
           <2>12, <2>13, <2>14, ZenonT(30)
<1>3. CASE \E s, n \in Sender : Clone(s, n)
  BY <1>0, <1>3 DEF TypeOK, FateInv, Clone
<1>4. CASE FreeShared
  <2>1. rxDropped
    BY <1>4 DEF FreeShared, FateInv
  <2>. QED BY <1>0, <1>4, <2>1 DEF TypeOK, FateInv, FreeShared
<1>5. CASE Finished \/ UNCHANGED vars
  <2>1. UNCHANGED <<word, slot, tx, rx, fate>>
    BY <1>5 DEF Finished
  <2>. QED BY <2>1 DEF FateInv
<1>. QED BY <1>1, <1>2, <1>3, <1>4, <1>5, ZenonT(30) DEF Next, SenderStep, CallerStep

LEMMA ValueInvariant == Spec => [](TypeInv /\ SlotInv /\ FateInv)
BY TypeInit, TypeNext, SlotInit, SlotNext, FateInit, FateNext, PTL DEF Spec

(* Nobody hears Disconnected from a receiver that is open before the phase *)
(* can no longer change.                                                   *)
HeardInv ==
  /\ rxDropped => rclosed
  /\ \A c \in Caller : rpc[c] \in {"mark", "settle", "rdrop_value"} => rclosed
  /\ \A c \in Caller : rres[c] = "Disconnected" /\ ~rclosed => phase \in {"TAKEN", "CLOSED"}

LEMMA HeardInit == Init => HeardInv
BY DEF Init, HeardInv

LEMMA HeardNext == TypeInv /\ SlotInv /\ HeardInv /\ [Next]_vars => HeardInv'
<1>. SUFFICES ASSUME TypeInv, SlotInv, HeardInv, [Next]_vars PROVE HeardInv'
  OBVIOUS
<1>. USE DEF word, tx, rx, vars, GoS, GoR, Fate, Finish, Done
<1>0. TypeOK
  BY DEF TypeInv
<1>1. ASSUME NEW s \in Sender,
             SenderStep(s) \/ Send(s) \/ Close(s) \/ Drop(s) \/ \E n \in Sender : Clone(s, n)
      PROVE  HeardInv'
  <2>1. UNCHANGED <<rx, rxDropped>>
    BY <1>1 DEF SenderStep, Send, Close, Drop, Clone, Claim, Check, Rollback, Write, Publish,
                WakeSent, Dec, Dispatch, WakeClosed, DropValue
  <2>2. phase \in {"TAKEN", "CLOSED"} => phase' = phase
    BY <1>1 DEF SenderStep, Send, Close, Drop, Clone, Claim, Check, Rollback, Write, Publish,
                WakeSent, Dec, Dispatch, WakeClosed, DropValue, SlotInv, IsWriter
  <2>. QED BY <2>1, <2>2 DEF HeardInv
<1>2. ASSUME NEW c \in Caller,
             \/ CallerStep(c) \/ PollAgain(c) \/ Cancel(c) \/ CloseReceiver(c)
             \/ DropReceiver(c) \/ \E op \in CallerOps[c] : Call(c, op)
      PROVE  HeardInv'
  <2>1. CASE \/ Poll(c) \/ Register(c) \/ Wakeup(c) \/ PollAgain(c) \/ Cancel(c)
             \/ \E op \in CallerOps[c] : Call(c, op)
    <3>1. UNCHANGED <<rxDropped, rclosed, phase>>
      BY <2>1 DEF Poll, Register, Wakeup, PollAgain, Cancel, Call
    <3>2. /\ rpc'[c] \notin {"mark", "settle", "rdrop_value"}
          /\ (rres'[c] = "Disconnected" => rres[c] = "Disconnected" \/ rclosed)
      BY <1>0, <2>1 DEF TypeOK, Poll, Register, Wakeup, PollAgain, Cancel, Call
    <3>3. \A d \in Caller : d # c => rpc'[d] = rpc[d] /\ rres'[d] = rres[d]
      BY <1>0, <2>1 DEF TypeOK, Poll, Register, Wakeup, PollAgain, Cancel, Call
    <3>. QED BY <3>1, <3>2, <3>3 DEF HeardInv
  <2>2. CASE TryRecv(c)
    BY <1>0, <2>2 DEF TypeOK, HeardInv, TryRecv
  <2>3. CASE TakeValue(c) \/ CheckTaken(c)
    <3>1. UNCHANGED <<rxDropped, rclosed, phase>> /\ rpc' \in [Caller -> CallerPc]
      BY <1>0, <2>3 DEF TypeOK, TakeValue, CheckTaken, CallerPc
    <3>2. rpc'[c] \notin {"mark", "settle", "rdrop_value"}
      BY <1>0, <2>3 DEF TypeOK, TakeValue, CheckTaken
    <3>3. rres'[c] = "Disconnected" => phase = "TAKEN" \/ rres[c] = "Disconnected"
      BY <1>0, <2>3 DEF TypeOK, TakeValue, CheckTaken
    <3>4. \A d \in Caller : d # c => rpc'[d] = rpc[d] /\ rres'[d] = rres[d]
      BY <1>0, <2>3 DEF TypeOK, TakeValue, CheckTaken
    <3>. QED BY <3>1, <3>2, <3>3, <3>4, ZenonT(30) DEF HeardInv
  <2>4. CASE Mark(c) \/ Settle(c) \/ RDropValue(c)
    BY <1>0, <2>4 DEF TypeOK, HeardInv, Mark, Settle, RDropValue
  <2>5. CASE CloseReceiver(c) \/ DropReceiver(c)
    BY <1>0, <2>5 DEF TypeOK, HeardInv, CloseReceiver, DropReceiver
  <2>. QED BY <1>2, <2>1, <2>2, <2>3, <2>4, <2>5 DEF CallerStep
<1>3. CASE FreeShared \/ Finished \/ UNCHANGED vars
  <2>1. UNCHANGED <<rxDropped, rclosed, phase, rpc, rres>>
    BY <1>3 DEF FreeShared, Finished
  <2>. QED BY <2>1, ZenonT(30) DEF HeardInv
<1>. QED BY <1>1, <1>2, <1>3 DEF Next

(* However many senders send, clone, close and drop, and however many      *)
(* users share the receiver: the count in the state word is the number of  *)
(* senders that still hold it, no two parties are at the slot, which is    *)
(* full when it is read and empty when it is written, one send succeeds,   *)
(* its value is received or dropped before the shared state is freed, and  *)
(* nothing was missed by a receiver that heard Disconnected.               *)
THEOREM OwnershipHolds == Spec => []ValueHasOneOwner
<1>1. TypeInv /\ SlotInv /\ FateInv => CountExact /\ SlotExclusive /\ NoValueLeaks /\ OneSendWins
  BY NoOneIsFresh, InvGivesExclusive, ZenonT(30) DEF TypeInv, SlotInv, FateInv, NoValueLeaks, OneSendWins
<1>2. TypeInv /\ SlotInv /\ FateInv /\ HeardInv => DisconnectedIsFinal
  <2>. SUFFICES ASSUME TypeInv, SlotInv, FateInv, HeardInv, NEW c \in Caller, NEW s \in Sender,
                       rres[c] = "Disconnected", ~rclosed, sres[s] = "Ok", slot # NoOne
                PROVE  \E d \in Caller : rpc[d] = "take"
    BY DEF DisconnectedIsFinal
  <2>1. phase = "TAKEN"
    BY DEF FateInv, HeardInv
  <2>2. \A t \in Sender : ~TxReads(t)
    BY DEF FateInv, HeardInv
  <2>3. PICK d \in Caller : RxReads(d)
    BY <2>1, <2>2 DEF SlotInv
  <2>. QED BY <2>3 DEF RxReads, HeardInv
<1>. QED
  BY <1>1, <1>2, ValueInvariant, TypeInit, TypeNext, SlotInit, SlotNext, HeardInit, HeardNext, PTL
  DEF Spec, ValueHasOneOwner

-----------------------------------------------------------------------------
(* No lost wakeup, for a receiver used by one caller at a time *)

OneCaller == \A c, d \in Caller : c = d

Registered(c) == rpc[c] \in {"try2", "taken2", "pending"} /\ rop[c] # "recv_blocking"
Asleep(c)     == rpc[c] \in {"taken2", "pending"} /\ rop[c] # "recv_blocking" /\ ~woken[c]

(* From its registration on, the receiver is the one that is woken; each   *)
(* way in which its wait can end has its own sender on the way to wake it. *)
WakeInv ==
  /\ \A c \in Caller : Registered(c) => waker = c \/ woken[c]
  /\ \A c \in Caller : rpc[c] \in {"try1", "taken1", "register", "try2", "taken2", "pending"} =>
       ~rclosed
  /\ rxDropped => rclosed
  /\ \A s \in Sender : spc[s] = "rollback" => rxDropped
  /\ \A c \in Caller : rpc[c] \in {"mark", "settle", "rdrop_value"} => rclosed
  /\ \A c \in Caller : rpc[c] = "pending" => rop[c] # "recv_blocking" /\ phase # "TAKEN"
  /\ \A c \in Caller : Asleep(c) =>
       /\ phase = "SENT" => \E s \in Sender : spc[s] = "wake_sent"
       /\ phase = "CLOSED" => \E s \in Sender : spc[s] = "wake_closed"
       /\ phase = "EMPTY" /\ count = 0 => \E s \in Sender : spc[s] = "dispatch"

LEMMA WakeInit == Init => WakeInv
BY DEF Init, WakeInv, Registered, Asleep

LEMMA WakeNext ==
  ASSUME OneCaller
  PROVE  TypeInv /\ WakeInv /\ [Next]_vars => WakeInv'
<1>. SUFFICES ASSUME TypeInv, WakeInv, [Next]_vars PROVE WakeInv'
  OBVIOUS
<1>. USE DEF word, tx, rx, vars, GoS, GoR, Fate, Finish, Done, Phase, IsWriter, TxReads, RxReads,
             OneCaller, Registered, Asleep
<1>0. TypeOK /\ HandlesAgree /\ NoOne \notin Sender /\ NoOne \notin Caller
  BY NoOneIsFresh DEF TypeInv
<1>1. ASSUME NEW s \in Sender,
             \/ Send(s) \/ Close(s) \/ Drop(s) \/ Claim(s) \/ Check(s) \/ Rollback(s)
             \/ Write(s) \/ Publish(s) \/ WakeSent(s) \/ Dec(s) \/ Dispatch(s)
             \/ WakeClosed(s) \/ DropValue(s)
      PROVE  WakeInv'
  (* Steps that wake nobody: what a sleeper waits for keeps the sender that *)
  (* will wake it.                                                          *)
  <2>1. CASE \/ Send(s) \/ Close(s) \/ Drop(s) \/ Claim(s) \/ Check(s) \/ Rollback(s)
             \/ Write(s) \/ Publish(s) \/ Dec(s) \/ Dispatch(s) \/ DropValue(s)
    <3>. DEFINE Keeps(pc) == (\E t \in Sender : spc[t] = pc) => \E t \in Sender : spc'[t] = pc
    <3>. USE DEF Send, Close, Drop, Claim, Check, Rollback, Write, Publish, Dec, Dispatch, DropValue
    <3>1. UNCHANGED <<rx, waker, woken, rxDropped>>
      BY <2>1
    <3>2. \A t \in Sender : t # s => spc'[t] = spc[t]
      <4>1. spc \in [Sender -> SenderPc]
        BY <1>0 DEF TypeOK
      <4>2. CASE Send(s) \/ Close(s) \/ Drop(s) \/ Claim(s) \/ Check(s) \/ Rollback(s)
        BY <4>1, <4>2
      <4>3. CASE Write(s) \/ Publish(s) \/ Dec(s) \/ DropValue(s)
        BY <4>1, <4>3
      <4>4. CASE Dispatch(s)
        BY <4>1, <4>4
      <4>. QED BY <2>1, <4>2, <4>3, <4>4, ZenonT(30)
    <3>3. spc'[s] = "rollback" => rxDropped
      BY <1>0, <2>1 DEF TypeOK, WakeInv
    <3>4. phase' = "TAKEN" => phase = "TAKEN" \/ rxDropped
      BY <2>1
    <3>5. Keeps("wake_sent") /\ Keeps("wake_closed") /\ (Keeps("dispatch") \/ phase' # "EMPTY" \/ rxDropped)
      <4>1. /\ spc[s] # "wake_sent" /\ spc[s] # "wake_closed"
            /\ spc[s] = "dispatch" => Dispatch(s)
        BY <2>1 DEF HandlesAgree
      <4>2. Dispatch(s) => phase' # "EMPTY"
        BY DEF Dispatch
      <4>. QED BY <3>2, <4>1, <4>2
    <3>6. phase' = "SENT" => phase = "SENT" \/ spc'[s] = "wake_sent"
      BY <1>0, <2>1 DEF TypeOK
    <3>7. phase' = "CLOSED" => phase = "CLOSED" \/ spc'[s] = "wake_closed"
      BY <1>0, <2>1 DEF TypeOK
    <3>8. phase' = "EMPTY" /\ count' = 0 =>
            (phase = "EMPTY" /\ count = 0) \/ rxDropped \/ spc'[s] = "dispatch"
      BY <1>0, <2>1 DEF TypeOK, WakeInv
    <3>. HIDE DEF Send, Close, Drop, Claim, Check, Rollback, Write, Publish, Dec, Dispatch, DropValue
    <3>9. ASSUME NEW c \in Caller, Asleep(c)
          PROVE  /\ phase' = "SENT" => \E t \in Sender : spc'[t] = "wake_sent"
                 /\ phase' = "CLOSED" => \E t \in Sender : spc'[t] = "wake_closed"
                 /\ phase' = "EMPTY" /\ count' = 0 => \E t \in Sender : spc'[t] = "dispatch"
      <4>1. ~rxDropped
        BY <3>9 DEF WakeInv
      <4>. QED BY <3>5, <3>6, <3>7, <3>8, <3>9, <4>1 DEF WakeInv
    <3>. QED BY <3>1, <3>2, <3>3, <3>4, <3>9, ZenonT(30) DEF WakeInv
  <2>2. CASE WakeSent(s)
    <3>1. \A c \in Caller : Registered(c)' => woken'[c]
      BY <1>0, <2>2, ZenonT(30) DEF TypeOK, WakeInv, WakeSent, WakeReceiver
    <3>2. UNCHANGED <<phase, rxDropped, count, rx>>
      BY <2>2 DEF WakeSent
    <3>3. \A t \in Sender : spc'[t] = "rollback" => spc[t] = "rollback"
      BY <1>0, <2>2 DEF TypeOK, WakeSent
    <3>. QED BY <3>1, <3>2, <3>3 DEF WakeInv
  <2>3. CASE WakeClosed(s)
    <3>1. \A c \in Caller : Registered(c)' => woken'[c]
      BY <1>0, <2>3, ZenonT(30) DEF TypeOK, WakeInv, WakeClosed, WakeReceiver
    <3>2. UNCHANGED <<phase, rxDropped, count, rx>>
      BY <2>3 DEF WakeClosed
    <3>3. \A t \in Sender : spc'[t] = "rollback" => spc[t] = "rollback"
      BY <1>0, <2>3 DEF TypeOK, WakeClosed
    <3>. QED BY <3>1, <3>2, <3>3 DEF WakeInv
  <2>. QED BY <1>1, <2>1, <2>2, <2>3
<1>2. ASSUME NEW c \in Caller,
             \/ Poll(c) \/ TryRecv(c) \/ TakeValue(c) \/ CheckTaken(c) \/ Register(c)
             \/ Wakeup(c) \/ Mark(c) \/ Settle(c) \/ RDropValue(c) \/ PollAgain(c)
             \/ Cancel(c) \/ CloseReceiver(c) \/ DropReceiver(c)
             \/ \E op \in CallerOps[c] : Call(c, op)
      PROVE  WakeInv'
  <2>1. CASE Poll(c)
    BY <1>0, <2>1 DEF TypeOK, WakeInv, Polls, Poll
  <2>2. CASE TryRecv(c)
    BY <1>0, <2>2 DEF TypeOK, WakeInv, Polls, TryRecv
  <2>3. CASE TakeValue(c)
    BY <1>0, <2>3 DEF TypeOK, WakeInv, Polls, TakeValue
  <2>4. CASE CheckTaken(c)
    BY <1>0, <2>4 DEF TypeOK, WakeInv, Polls, CheckTaken
  <2>5. CASE Register(c)
    BY <1>0, <2>5 DEF TypeOK, WakeInv, Polls, Register
  <2>6. CASE Wakeup(c)
    BY <1>0, <2>6 DEF TypeOK, WakeInv, Polls, Wakeup
  <2>7. CASE Mark(c)
    BY <1>0, <2>7 DEF TypeOK, WakeInv, Polls, Mark
  <2>8. CASE Settle(c)
    BY <1>0, <2>8 DEF TypeOK, WakeInv, Polls, Settle
  <2>9. CASE RDropValue(c)
    BY <1>0, <2>9 DEF TypeOK, WakeInv, Polls, RDropValue
  <2>10. CASE PollAgain(c)
    BY <1>0, <2>10 DEF TypeOK, WakeInv, Polls, PollAgain
  <2>11. CASE Cancel(c)
    BY <1>0, <2>11 DEF TypeOK, WakeInv, Polls, Cancel
  <2>12. CASE CloseReceiver(c)
    BY <1>0, <2>12 DEF TypeOK, WakeInv, Polls, CloseReceiver
  <2>13. CASE DropReceiver(c)
    BY <1>0, <2>13 DEF TypeOK, WakeInv, Polls, DropReceiver
  <2>14. CASE \E op \in CallerOps[c] : Call(c, op)
    BY <1>0, <2>14 DEF TypeOK, WakeInv, Polls, Call
  <2>. QED BY <1>2, <2>1, <2>2, <2>3, <2>4, <2>5, <2>6, <2>7, <2>8, <2>9, <2>10, <2>11,
           <2>12, <2>13, <2>14, ZenonT(30)
<1>3. CASE \E s, n \in Sender : Clone(s, n)
  BY <1>0, <1>3 DEF TypeOK, WakeInv, Clone
<1>4. CASE FreeShared \/ Finished \/ UNCHANGED vars
  <2>1. UNCHANGED <<word, waker, woken, tx, rx>>
    BY <1>4 DEF FreeShared, Finished
  <2>. QED BY <2>1, ZenonT(30) DEF WakeInv
<1>. QED BY <1>1, <1>2, <1>3, <1>4, ZenonT(30) DEF Next, SenderStep, CallerStep

(* A pending receive that has something to return, or nothing left to wait *)
(* for, has been woken or a sender is about to wake it, whatever the       *)
(* number of senders that send, close, drop and clone around it.           *)
THEOREM NoLostWakeup ==
  ASSUME OneCaller
  PROVE  Spec => []PendingIsWoken
<1>1. WakeInv => PendingIsWoken
  BY DEF WakeInv, PendingIsWoken, Due, Registered, Asleep
<1>2. TypeInv /\ WakeInv /\ [Next]_vars => WakeInv'
  BY WakeNext
<1>. QED BY <1>1, <1>2, TypeInit, TypeNext, WakeInit, PTL DEF Spec
==============================================================================
