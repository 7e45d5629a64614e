----------------------------- MODULE MCReturns ------------------------------
(***************************************************************************)
(* Whether calls return: of the left-right list, the reader-biased lock,   *)
(* the SPSC channel, a oneshot and an exclusive oneshot; `which` says what *)
(* a behaviour is about. The instances are small: two or three callers,    *)
(* one item at a time.                                                     *)
(***************************************************************************)
EXTENDS LeftRight, Sequences, TLC

CONSTANTS t1, k1,       \* a thread and a task
          s1, s2, r1,   \* the senders and the receiver of a oneshot
          none

OfSlot == t1 :> 1 @@ k1 :> 2
Budget == {t1 :> 2 @@ k1 :> 1, t1 :> 1 @@ k1 :> 2}
User   == r1 :> {"recv", "recv_blocking", "try_recv", "close", "drop"}

(* Programs of a channel: single items, and batches, through sync and      *)
(* async handles.                                                          *)
OnSide(forP, forC) == [s \in {"P", "C"} |-> IF s = "P" THEN forP ELSE forC]
Single == [kinds  |-> {"sync", "async"}, closed |-> OnSide({}, {}),
           sync   |-> OnSide({"send", "drop"}, {"recv", "drop"}),
           async  |-> OnSide({"send_future", "drop"}, {"recv_future", "drop"})]
Batch  == [Single EXCEPT !.sync["P"] = {"send_batch"}, !.async["P"] = {"batch_future"}]

(* What a behaviour is about keeps its variables in m1, m2, ... *)
VARIABLES which, m1, m2, m3, m4, m5, m6, m7, m8, m9, m10, m11, m12, m13, m14, m15, m16, m17, m18, m19, m20,
          m21, m22, m23, m24

Biased == INSTANCE HybridRwLockV2 WITH Slots <- 2, Thread <- {t1}, Task <- {k1}, SlotOf <- OfSlot,
    Budgets <- Budget, Drops <- {}, LostRaces <- TRUE, NoOne <- none, visible <- m1, slots <- m2,
    seen <- m3, inSlot <- m4, at <- m5, writeLocked <- m6, readers <- m7, pending <- m8, queued <- m9,
    list <- m10, listLock <- m11, node <- m12, armed <- m13, permit <- m14, handles <- m15, mode <- m16,
    pc <- m17, after <- m18, ops <- m19
Channel == INSTANCE SpscChannel WITH Cap <- 1, MaxItems <- 2, MaxBatch <- 2, SpinLimit <- 1, Count <- 4,
    Clients <- {Single, Batch}, client <- m1, tail <- m2, tailVis <- m3, head <- m4, headVis <- m5,
    count <- m6, gone <- m7, slot <- m8, gate <- m9, gateVis <- m10, notified <- m11, token <- m12,
    kind <- m13, closed <- m14, alive <- m15, streamReg <- m16, op <- m17, todo <- m18, reg <- m19,
    spins <- m20, left <- m21, got <- m22, expired <- m23, res <- m24
Oneshot == INSTANCE Oneshot WITH Sender <- {s1, s2}, First <- s1, Caller <- {r1}, CallerOps <- User,
    NoOne <- none, spc <- m1, ralive <- m2, rpc <- m3, waker <- m4, woken <- m5, rop <- m6, fate <- m7,
    phase <- m8, rxDropped <- m9, count <- m10, slot <- m11, handle <- m12, sres <- m13, rclosed <- m14,
    rres <- m15, freed <- m16
Exclusive == INSTANCE OneshotExclusive WITH spc <- m1, ralive <- m2, rpc <- m3, waker <- m4, woken <- m5,
    rop <- m6, fate <- m7, flags <- m8, done <- m9, full <- m10

mcvars == <<which, vars, m1, m2, m3, m4, m5, m6, m7, m8, m9, m10, m11, m12, m13, m14, m15, m16, m17, m18, m19, m20, m21, m22, m23, m24>>

(* Only what a behaviour is about moves: the rest stays as it is, the list as it was made. *)
MCInit ==
  /\ Init
  /\ \/ which = "lists" /\ m1 = 0 /\ m2 = 0 /\ m3 = 0 /\ m4 = 0 /\ m5 = 0 /\ m6 = 0 /\ m7 = 0 /\ m8 = 0
          /\ m9 = 0 /\ m10 = 0 /\ m11 = 0 /\ m12 = 0 /\ m13 = 0 /\ m14 = 0 /\ m15 = 0 /\ m16 = 0 /\ m17 = 0
          /\ m18 = 0 /\ m19 = 0 /\ m20 = 0 /\ m21 = 0 /\ m22 = 0 /\ m23 = 0 /\ m24 = 0
     \/ which = "lock" /\ Biased!Init /\ m20 = 0 /\ m21 = 0 /\ m22 = 0 /\ m23 = 0 /\ m24 = 0
     \/ which = "channel" /\ Channel!Init
     \/ which = "oneshot" /\ Oneshot!Init /\ m17 = 0 /\ m18 = 0 /\ m19 = 0 /\ m20 = 0 /\ m21 = 0 /\ m22 = 0
          /\ m23 = 0 /\ m24 = 0
     \/ which = "exclusive" /\ Exclusive!Init /\ m11 = 0 /\ m12 = 0 /\ m13 = 0 /\ m14 = 0 /\ m15 = 0
          /\ m16 = 0 /\ m17 = 0 /\ m18 = 0 /\ m19 = 0 /\ m20 = 0 /\ m21 = 0 /\ m22 = 0 /\ m23 = 0 /\ m24 = 0
  /\ which # "lists" => op = <<"push", t1>>

MCNext ==
  \/ which = "lists" /\ Next /\ UNCHANGED <<which, m1, m2, m3, m4, m5, m6, m7, m8, m9, m10, m11, m12, m13,
       m14, m15, m16, m17, m18, m19, m20, m21, m22, m23, m24>>
  \/ which = "lock" /\ Biased!Next /\ UNCHANGED <<which, vars, m20, m21, m22, m23, m24>>
  \/ which = "channel" /\ Channel!Next /\ UNCHANGED <<which, vars>>
  \/ which = "oneshot" /\ Oneshot!Next /\ UNCHANGED <<which, vars, m17, m18, m19, m20, m21, m22, m23, m24>>
  \/ which = "exclusive" /\ Exclusive!Next /\ UNCHANGED <<which, vars, m11, m12, m13, m14, m15, m16, m17,
       m18, m19, m20, m21, m22, m23, m24>>

(* A caller that contends for the lock gets to run, also when another      *)
(* keeps barging in. A thread in a call keeps running and a woken task is  *)
(* polled. Nobody owes a further call.                                     *)
Moves(name, step, unused) == which = name /\ step /\ UNCHANGED <<which, vars, unused>>
Contends(p) == Moves("lock", Biased!Step(p), <<m20, m21, m22, m23, m24>>)
Sends ==
  \/ Moves("channel", Channel!SharedStep("P") \/ Channel!SenderStep, <<>>) /\ UNCHANGED m1
  \/ Moves("oneshot", Oneshot!SenderStep(s1), <<m17, m18, m19, m20, m21, m22, m23, m24>>)
  \/ Moves("exclusive", Exclusive!SenderStep, <<m11, m12, m13, m14, m15, m16, m17, m18, m19, m20, m21, m22, m23, m24>>)
SendsToo == Moves("oneshot", Oneshot!SenderStep(s2), <<m17, m18, m19, m20, m21, m22, m23, m24>>)
Receives ==
  \/ Moves("channel", Channel!SharedStep("C") \/ Channel!ReceiverStep, <<>>) /\ UNCHANGED m1
  \/ Moves("oneshot", Oneshot!CallerStep(r1), <<m17, m18, m19, m20, m21, m22, m23, m24>>)
  \/ Moves("exclusive", Exclusive!ReceiverStep, <<m11, m12, m13, m14, m15, m16, m17, m18, m19, m20, m21, m22, m23, m24>>)

(* Who has entered or begun to modify a list goes on, and drops its guard. *)
Modifies == which = "lists" /\ (ApplyStale \/ PublishSlot \/ Drained \/ ApplyOld) /\ UNCHANGED <<which, m1, m2, m3, m4, m5, m6, m7, m8, m9, m10, m11, m12, m13, m14, m15, m16, m17, m18, m19, m20, m21, m22, m23, m24>>
Reads(r) == which = "lists" /\ (Announce(r) \/ Recheck(r) \/ BackOff(r) \/ DropGuard(r)) /\ UNCHANGED <<which, m1, m2, m3, m4, m5, m6, m7, m8, m9, m10, m11, m12, m13, m14, m15, m16, m17, m18, m19, m20, m21, m22, m23, m24>>

MCSpec ==
  /\ MCInit /\ [][MCNext]_mcvars
  /\ WF_mcvars(Sends \/ Reads(r1)) /\ WF_mcvars(SendsToo \/ Reads(s1)) /\ WF_mcvars(Receives \/ Modifies)
  /\ SF_mcvars(Contends(t1)) /\ SF_mcvars(Contends(k1))

-----------------------------------------------------------------------------
(* The receive of the consumer, and of the receiver of a oneshot, has       *)
(* something to return, or nobody is left to send it; the send of the      *)
(* producer has room, or nobody is left to receive; a caller of the lock   *)
(* waits for it; a modification of the list waits for older guards. Two    *)
(* callers, "P" and "C".                                                   *)
Who(s) == IF s = "P" THEN t1 ELSE k1
Due(s) ==
  \/ which = "lists" /\ s = "P" /\ wr # "free"
  \/ which = "lock" /\ Biased!Contends(Who(s))
  \/ which = "channel" /\ (IF s = "P" THEN Channel!SendDue ELSE Channel!ReceiveDue)
  \/ which = "oneshot" /\ s = "C" /\ Oneshot!RecvDue(r1)
  \/ which = "exclusive" /\ s = "C" /\ Exclusive!RecvDue
Returned(s) ==
  /\ which = "lists" => wr = "free"
  /\ which = "lock" => Biased!Settled(Who(s))
  /\ which = "channel" => Channel!Returned(s)
  /\ which = "oneshot" => Oneshot!Resolved(r1)
  /\ which = "exclusive" => Exclusive!Resolved

(* Every receive, every send and every acquisition that can return does:   *)
(* no wake-up is lost between a last look and going to sleep.              *)
CallsReturn == \A s \in {"P", "C"} : Due(s) ~> Returned(s)
=============================================================================
