------------------------------- MODULE MCMpmc -------------------------------
(***************************************************************************)
(* The bounded MPMC channel, the experimental one, and the waiter queue of *)
(* the latter: `which` says what a behaviour is about. Two senders and two *)
(* receivers with one or two items each are enough for a waiter to be      *)
(* overtaken, a capacity of one or two for both sides to wait. The ring    *)
(* has two slots: with a capacity of one, one more than it may fill.       *)
(***************************************************************************)
EXTENDS Naturals, Sequences, TLC

(* What a behaviour is about keeps its variables in m1, m2, ... *)
VARIABLES which, m1, m2, m3, m4, m5, m6, m7, m8, m9, m10, m11, m12

All == {"p", "q", "r", "s"}
Prog(p, q, r, s, open, items, cap) ==
  [calls |-> ("p" :> p @@ "q" :> q @@ "r" :> r @@ "s" :> s), open |-> open,
   items |-> items, batch |-> 2, cap |-> cap]
BoundedClients == {
  Prog({"send", "close"}, {"send"}, {"recv", "close"}, {"recv"}, All, 1, 1),
  Prog({"send", "clone"}, {"try_send", "close"}, {"recv_timeout", "clone"}, {"try_recv", "close"}, {"p", "r"}, 1, 1),
  Prog({"send_future", "cancel", "close"}, {"send_future"}, {"recv_future", "cancel", "repoll"}, {"recv_future"}, All, 1, 1),
  Prog({"send_batch", "close"}, {}, {"recv_batch"}, {"recv_batch_mut_future", "cancel", "close"}, {"p", "r", "s"}, 2, 1),
  Prog({"send_batch_mut_future", "repoll", "cancel"}, {"send"}, {"recv_batch", "close"}, {}, {"p", "q", "r"}, 2, 1),
  Prog({"try_send_batch", "close"}, {"send"}, {"recv_timeout"}, {"try_recv_batch"}, All, 2, 2),
  Prog({"send_batch_future", "cancel"}, {}, {"recv_batch_future", "cancel"}, {}, {"p", "r"}, 4, 1),
  Prog({"send", "close"}, {}, {"recv"}, {"recv_future"}, {"p", "r", "s"}, 2, 2),
  Prog({"send", "close"}, {}, {"recv_timeout", "close"}, {}, {"p", "r"}, 2, 1)}

Exp(p, q, r, s, open, items, cap) == Prog(p, q, r, s, open, items, cap) @@ [phys |-> 2]
ExpClients == {
  Exp({"send"}, {"send"}, {"recv"}, {"try_recv"}, All, 1, 1),
  Exp({"send", "clone"}, {"try_send", "close"}, {"recv_timeout", "clone"}, {"try_recv", "close"}, {"p", "r"}, 1, 1),
  Exp({"send_future", "cancel", "close"}, {"send_future"}, {"recv_future", "cancel", "repoll"}, {"close"}, {"p", "q", "r"}, 1, 1),
  Exp({"send_batch"}, {}, {"recv_batch", "close"}, {"recv_batch_mut_future", "cancel"}, {"p", "r", "s"}, 2, 1),
  Exp({"send_batch_mut_future", "cancel"}, {}, {"recv"}, {"close"}, {"p", "r", "s"}, 4, 1),
  Exp({"try_send_batch", "close"}, {}, {"recv_timeout", "try_recv_batch"}, {"close"}, {"p", "r", "s"}, 2, 2),
  Exp({"send_batch_future", "cancel"}, {}, {"recv_batch_future", "cancel"}, {}, {"p", "r"}, 2, 1)}

Bounded == INSTANCE MpmcBounded WITH Clients <- BoundedClients, Senders <- {"p", "q"},
    Receivers <- {"r", "s"}, client <- m1, scount <- m2, rcount <- m3, handle <- m4, th <- m5, queue <- m6,
    wait <- m7, st <- m8, next <- m9, got <- m10, swallowed <- m11, strays <- m12
Exper == INSTANCE Vyukov WITH Clients <- ExpClients, Senders <- {"p", "q"}, Receivers <- {"r", "s"},
    client <- m1, scount <- m2, rcount <- m3, handle <- m4, th <- m5, seq <- m6, val <- m7,
    enqueue_pos <- m8, dequeue_pos <- m9, sent <- m10, parkers <- m11, missed <- m12
Slab == INSTANCE WaiterSlab WITH Waiters <- {"a", "b", "c"}, MaxGen <- 2, entries <- m1, free_head <- m2,
    head <- m3, tail <- m4, id <- m5, order <- m6

vars == <<which, m1, m2, m3, m4, m5, m6, m7, m8, m9, m10, m11, m12>>

Init ==
  \/ which = "bounded" /\ Bounded!Init
  \/ which = "exp" /\ Exper!Init
  \/ which = "slab" /\ Slab!Init /\ m7 = 0 /\ m8 = 0 /\ m9 = 0 /\ m10 = 0 /\ m11 = 0 /\ m12 = 0

Next ==
  \/ which = "bounded" /\ Bounded!Next /\ UNCHANGED <<which>>
  \/ which = "exp" /\ Exper!Next /\ UNCHANGED <<which>>
  \/ which = "slab" /\ Slab!Next /\ UNCHANGED <<which, m7, m8, m9, m10, m11, m12>>
  \/ which = "slab" /\ UNCHANGED vars

Spec == Init /\ [][Next]_vars

(* The bounded channel alone *)
BoundedSpec == which = "bounded" /\ Bounded!Init /\ [][Next]_vars

-----------------------------------------------------------------------------
(* When nothing runs nobody sleeps behind a closed side, in either         *)
(* channel, nor beside an item or space, unless a wake went to a waiter    *)
(* that had left or could not yet see what it was woken for.               *)
NobodyForgotten ==
  /\ which = "bounded" => Bounded!NobodyForgotten
  /\ which = "exp" => Exper!NobodyForgotten

(* Who waits in a queue is still in its call, so that the raw pointers of  *)
(* the entries are good; linked entries, reused slots and stale handles    *)
(* make a queue. Two kinds of receive of the bounded channel, and the      *)
(* recv_timeout of the experimental one, can leave an entry behind: the    *)
(* modules say when, and that it happens in no other way.                  *)
WaitersSound ==
  /\ which = "bounded" => Bounded!WaitersUnlink
  /\ which = "exp" => Exper!EntriesLive
  /\ which = "slab" => Slab!IsAQueue

(* Bounded: a receiver that is told of the end by its state leaves only    *)
(* items behind that another receiver was woken for.                       *)
DrainedBeforeDisconnected == which = "bounded" => Bounded!DrainedBeforeDisconnected

(* Experimental: a claimed slot belongs to its claimant, and the capacity  *)
(* is kept.                                                                *)
SlotsExclusive == which = "exp" => Exper!SlotsExclusive

(* Bounded: a recv_timeout whose state was set finds an item: "state was   *)
(* finished but channel empty" (sync_impl.rs:433) is unreachable.          *)
FinishedMeansItem == which = "bounded" => Bounded!FinishedMeansItem
=============================================================================
