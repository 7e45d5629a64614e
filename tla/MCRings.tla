------------------------------ MODULE MCRings -------------------------------
(***************************************************************************)
(* The bounded MPSC channel, and the SPMC broadcast ring and topic         *)
(* channel; `which` says what a behaviour is about. Two senders or two     *)
(* receivers, rings and mailboxes of one or two.                           *)
(***************************************************************************)
EXTENDS Naturals, Sequences, TLC

(* The channels of a behaviour keep their variables in m1, m2, ... *)
VARIABLES which, m1, m2, m3, m4, m5, m6, m7, m8, m9, m10, m11, m12, m13, m14, m15, m16, m17, m18

Prog(p, r, s, sort, open, items, batch, cap) ==
  [calls |-> ("p" :> p @@ "r" :> r @@ "s" :> s), kind |-> sort, open |-> open,
   items |-> items, batch |-> batch, cap |-> cap, shared |-> FALSE]

RingClients == {
  Prog({"send"}, {"recv"}, {"recv"}, "sync", {"r", "s"}, 2, 1, 1),
  Prog({"send"}, {"recv", "clone", "close"}, {"try_recv"}, "sync", {"r"}, 2, 1, 1),
  Prog({"send_batch", "close"}, {"recv_batch", "close"}, {}, "sync", {"r"}, 4, 2, 1),
  Prog({"try_send_batch", "try_send"}, {"recv_timeout"}, {"try_recv_batch"}, "sync", {"r", "s"}, 2, 2, 2),
  Prog({"send_future"}, {"recv_future"}, {"recv_future"}, "async", {"r", "s"}, 2, 1, 1),
  Prog({"send_batch_future", "close"}, {"recv_batch_future", "cancel", "repoll"}, {}, "async", {"r"}, 4, 2, 2),
  Prog({"send_batch_mut_future", "try_send_batch_mut"}, {"recv_batch_mut_future", "close"}, {}, "async", {"r"}, 4, 2, 1),
  Prog({"send_batch_mut", "convert", "send_future", "repoll", "cancel"}, {"recv_timeout", "convert", "recv_future"}, {}, "sync", {"r"}, 2, 2, 1)}

TopicClients == {
  Prog({"send", "close", "drop"}, {"recv", "subscribe", "unsubscribe"}, {}, "sync", {"r"}, 2, 1, 1),
  Prog({"send", "close"}, {"recv", "subscribe", "clone"}, {"recv", "drop"}, "sync", {"r"}, 1, 1, 1),
  Prog({"send", "close"}, {"recv_future", "cancel", "subscribe"}, {"try_recv", "close", "drop"}, "async", {"r", "s"}, 1, 1, 1),
  Prog({"send"}, {"recv_timeout", "subscribe", "convert", "recv_future"}, {"close", "drop", "recv_timeout"}, "sync", {"r", "s"}, 2, 1, 2),
  Prog({"send"}, {"subscribe", "unsubscribe", "close", "convert"}, {"close", "drop"}, "async", {"r", "s"}, 1, 1, 1)}

Prog2(a, i, b, j, c, sort, cap, spin, before, tickets) ==
  [calls   |-> ("p" :> a @@ "q" :> b @@ "C" :> c), items |-> ("p" :> i @@ "q" :> j),
   of      |-> ("p" :> "p" @@ "q" :> "q"),
   kind    |-> sort, cap |-> cap, spin |-> spin, first |-> "p", sent |-> before, batch |-> 2, tickets |-> tickets]

MpscClients == {
  Prog2({"send"}, 1, {"send"}, 1, {"recv", "close"}, "sync", 1, 0, 0, 3),
  Prog2({"send"}, 2, {"close"}, 0, {"recv"}, "sync", 1, 1, 1, 3),
  Prog2({"send", "close"}, 2, {"close"}, 0, {"recv_timeout"}, "sync", 1, 0, 1, 3),
  Prog2({"send_future", "cancel"}, 1, {"send_future"}, 1, {"recv_future"}, "async", 1, 0, 0, 3),
  Prog2({"send_future", "cancel"}, 1, {"send_future"}, 1, {"try_recv"}, "async", 1, 0, 1, 2),
  Prog2({"send_future", "cancel", "spurious"}, 2, {}, 0, {"recv_future", "close"}, "async", 1, 0, 1, 3),
  Prog2({"send_batch"}, 2, {"close"}, 0, {"recv_batch", "close"}, "sync", 1, 0, 0, 3),
  Prog2({"batch_future", "cancel"}, 2, {"close"}, 0, {"recv_batch_future"}, "async", 1, 0, 0, 3),
  Prog2({"try_send"}, 1, {"try_send_batch"}, 2, {"try_recv"}, "sync", 1, 0, 0, 2),
  Prog2({"try_send_batch"}, 3, {}, 0, {"try_recv_batch"}, "sync", 1, 0, 1, 4),
  Prog2({"send_future", "close"}, 3, {}, 0, {"recv_future", "convert", "recv", "cancel", "spurious"}, "async", 2, 0, 2, 4),
  Prog2({"batch_future"}, 4, {"close"}, 0, {"recv_batch_future", "convert", "recv_batch", "close"}, "async", 2, 0, 2, 4)}

Ring == INSTANCE SpmcRing WITH Clients <- RingClients, Producer <- "p", Consumers <- {"r", "s"},
    client <- m1, th <- m2, handle <- m3, kind <- m4, seq <- m5, val <- m6, wakers <- m7, head <- m8,
    tail <- m9, list <- m10, guards <- m11, stale <- m12, busy <- m13, park <- m14, cell <- m15,
    pwaker <- m16, dropped <- m17
Topic == INSTANCE Topic WITH Clients <- TopicClients, Sender <- "p", Receivers <- {"r", "s"},
    Topics <- {"a", "b"}, Usize <- 4, client <- m1, th <- m2, handle <- m3, kind <- m4, subs <- m5, count <- m6,
    freed <- m7, own <- m8, box <- m9, sent <- m10, last <- m11, left <- m12, late <- m13, astray <- m14
Mpsc == INSTANCE MpscBounded WITH Clients <- MpscClients, Senders <- {"p", "q"}, ChunkCap <- 1, N <- 3,
    FlushChunk <- 1, ColdLimit <- 1, client <- m1, th <- m2, tail <- m3, progress <- m4, drained <- m5,
    retired <- m6, table <- m7, slot <- m8, awake <- m9, sq <- m10, aq <- m11, rw <- m12, senders <- m13,
    rdrop <- m14, closed <- m15, k <- m16, next <- m17, recvd <- m18

vars == <<which, m1, m2, m3, m4, m5, m6, m7, m8, m9, m10, m11, m12, m13, m14, m15, m16, m17, m18>>

Init ==
  \/ which = "ring" /\ Ring!Init /\ m18 = 0
  \/ which = "topic" /\ Topic!Init /\ m15 = 0 /\ m16 = 0 /\ m17 = 0 /\ m18 = 0
  \/ which = "mpsc" /\ Mpsc!Init

Next ==
  \/ which = "ring" /\ Ring!Next /\ UNCHANGED <<which, m18>>
  \/ which = "topic" /\ Topic!Next /\ UNCHANGED <<which, m15, m16, m17, m18>>
  \/ which = "mpsc" /\ Mpsc!Next /\ UNCHANGED <<which>>

Spec == Init /\ [][Next]_vars

-----------------------------------------------------------------------------
(* A slot is written by one sender, when it was read by every receiver     *)
(* that had to: credit, tickets and chunk ids in the MPSC channel, the     *)
(* minimum of the tails in the broadcast ring, whose parked producer's     *)
(* cell is used by one thread at a time.                                   *)
SlotsSafe ==
  /\ which = "mpsc" => Mpsc!RingSafe
  /\ which = "ring" => Ring!GuaranteedDelivery /\ Ring!CellExclusive

(* What is received comes in the order of sending and once, and            *)
(* Disconnected is said of a drained channel only.                         *)
DeliveredOnce ==
  /\ [](which = "mpsc" => Mpsc!DrainedBeforeDisconnected)
  /\ [](which = "ring" => Ring!ToldTheTruth)
  /\ [](which = "topic" => Topic!InOrderOnce)
  /\ [][which = "mpsc" => Mpsc!TakesInOrder]_vars

(* MPSC: the count of awake senders is exact, whoever wakes, gives up or   *)
(* leaves at the same time.                                                *)
AwakeExact == which = "mpsc" => Mpsc!AwakeExact

(* When nothing runs nobody sleeps beside what it waits for, nor behind    *)
(* the other side, if that could find it.                                  *)
NobodyForgotten ==
  /\ which = "mpsc" => Mpsc!NobodyForgotten
  /\ which = "ring" => Ring!NobodyForgotten
  /\ which = "topic" => Topic!NobodyForgotten

(* Topics: a receiver is on the lists of the topics on its record and of   *)
(* those it had when it closed, and the receivers are counted up to what a *)
(* close before a drop or a conversion costs.                              *)
SubscriptionsAgree == which = "topic" => Topic!SubscriptionsAgree /\ Topic!CountExact
=============================================================================
