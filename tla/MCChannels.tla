----------------------------- MODULE MCChannels -----------------------------
(***************************************************************************)
(* The channels without a buffer of fixed size, each with the programs of  *)
(* its own clients: `which` says whether a behaviour is about the          *)
(* unbounded MPSC, the unbounded MPMC or the rendezvous channel. Two       *)
(* senders and two receivers; slabs of two nodes, so that they are         *)
(* recycled; one or two items a sender.                                    *)
(***************************************************************************)
EXTENDS Naturals, Sequences, TLC

(* A channel keeps its variables in m1, m2, ... *)
VARIABLES which, m1, m2, m3, m4, m5, m6, m7, m8, m9, m10, m11, m12, m13, m14, m15, m16, m17, m18

Prog(p, np, q, nq, r, s, k, open) ==
  [calls |-> ("p" :> p @@ "q" :> q @@ "r" :> r @@ "s" :> s), items |-> ("p" :> np @@ "q" :> nq),
   kind |-> k, open |-> open, batch |-> 2]
One == {"p", "q", "r"}
All == {"p", "q", "r", "s"}

MpscClients == {
  Prog({"send", "close"}, 1, {"send", "close"}, 2, {"recv"}, {}, "sync", One),
  Prog({"send", "clone"}, 2, {"send_batch", "close"}, 2, {"recv_timeout", "close"}, {}, "sync", {"p", "r"}),
  Prog({"send", "close"}, 1, {"send", "close"}, 1, {"recv_future", "cancel", "close"}, {}, "async", One),
  Prog({"send_batch", "close"}, 2, {"send", "close"}, 1, {"recv_batch", "try_recv_batch"}, {}, "sync", One),
  Prog({"send_batch", "close"}, 2, {"send", "close"}, 1, {"recv_batch_future", "cancel", "try_recv"}, {}, "async", One),
  Prog({"send", "send_batch", "close"}, 4, {"close"}, 0, {"try_recv", "close"}, {}, "sync", One)}

MpmcClients == {
  Prog({"send", "close"}, 1, {"send", "close"}, 1, {"recv"}, {"recv"}, "sync", All),
  Prog({"send", "close", "clone"}, 1, {"send", "close"}, 1, {"recv_timeout", "close"}, {"recv"}, "sync", {"p", "r", "s"}),
  Prog({"send_batch"}, 2, {"close"}, 0, {"recv_batch", "clone"}, {"try_recv_batch", "close"}, "sync", One),
  Prog({"send_batch", "close"}, 2, {"close"}, 0, {"recv_batch_future"}, {"try_recv"}, "async", All),
  Prog({"send", "close"}, 1, {"send", "close"}, 1, {"recv_future", "cancel"}, {"recv_future"}, "async", All)}

Meet(p, q, r, s, k, open, items, shape) ==
  [calls |-> ("p" :> p @@ "q" :> q @@ "r" :> r @@ "s" :> s),
   kind |-> [t \in All |-> k], open |-> open, items |-> items, shape |-> shape]
RendezvousClients == {
  Meet({"send", "close"}, {"send", "close"}, {"recv"}, {"recv_timeout", "close"}, "sync", All, 1, "mpmc"),
  Meet({"send", "try_send", "clone"}, {"send", "close"}, {"recv_timeout", "clone"}, {"try_recv", "close"}, "sync", {"p", "r"}, 1, "mpmc"),
  Meet({"send_future", "cancel", "close"}, {"send_future", "close"}, {"recv_future", "cancel", "repoll", "close"}, {"recv_future"}, "async", All, 1, "mpmc"),
  Meet({"send_future", "repoll", "cancel"}, {"send_future", "clone"}, {"recv_future", "cancel", "close"}, {}, "async", One, 2, "mpsc"),
  Meet({"send"}, {"convert", "send_future", "close"}, {"recv", "recv_timeout", "close", "convert", "recv_future"}, {}, "sync", One, 2, "mpsc"),
  Meet({"send", "try_send", "convert", "send_future", "cancel", "close"}, {}, {"recv_timeout", "convert", "recv_future", "close"}, {}, "sync", {"p", "r"}, 2, "spsc")}

Mpsc == INSTANCE MpscUnbounded WITH Clients <- MpscClients, Senders <- {"p", "q"}, Receivers <- {"r", "s"},
    SlabNodes <- 2, PoolCap <- 1, MaxSlabs <- 4, client <- m1, handle <- m2, th <- m3, next <- m4,
    head <- m5, tail <- m6, nxt <- m7, val <- m8, rem <- m9, pool <- m10, freed <- m11, ps <- m12,
    senders <- m13, rdrop <- m14, waiters <- m15, got <- m16
Mpmc == INSTANCE MpmcUnbounded WITH Clients <- MpmcClients, Senders <- {"p", "q"}, Receivers <- {"r", "s"},
    SlabNodes <- 2, PoolCap <- 1, MaxSlabs <- 4, client <- m1, handle <- m2, th <- m3, next <- m4,
    head <- m5, tail <- m6, nxt <- m7, val <- m8, rem <- m9, pool <- m10, freed <- m11, ps <- m12,
    senders <- m13, rdrop <- m14, waiters <- m15, got <- m16, lock <- m17, swallowed <- m18
Rend == INSTANCE Rendezvous WITH Clients <- RendezvousClients, Senders <- {"p", "q"},
    Receivers <- {"r", "s"}, client <- m1, handle <- m2, th <- m3, next <- m4, sendq <- m5, recvq <- m6,
    scount <- m7, rcount <- m8, kind <- m9, st <- m10, slot <- m11, sent <- m12, taken <- m13, back <- m14,
    dropped <- m15, overtaken <- m16

vars == <<which, m1, m2, m3, m4, m5, m6, m7, m8, m9, m10, m11, m12, m13, m14, m15, m16, m17, m18>>

Init ==
  \/ which = "mpsc" /\ Mpsc!Init /\ m17 = 0 /\ m18 = 0
  \/ which = "mpmc" /\ Mpmc!Init
  \/ which = "rendezvous" /\ Rend!Init /\ m17 = 0 /\ m18 = 0

Next ==
  \/ which = "mpsc" /\ Mpsc!Next /\ UNCHANGED <<which, m17, m18>>
  \/ which = "mpmc" /\ Mpmc!Next /\ UNCHANGED <<which>>
  \/ which = "rendezvous" /\ Rend!Next /\ UNCHANGED <<which, m17, m18>>

Spec == Init /\ [][Next]_vars

(* The rendezvous channels alone *)
MeetSpec ==
  /\ which = "rendezvous" /\ Rend!Init /\ m17 = 0 /\ m18 = 0
  /\ [][Next]_vars

-----------------------------------------------------------------------------
(* Slabs are recycled once, when nothing can reach them, and none leaks.   *)
SlabsSafe == which # "rendezvous" => Mpsc!SlabsSafe

(* The MPSC receiver never sleeps beside an item, or behind the last       *)
(* sender; the MPMC receivers never all sleep beside an item that no       *)
(* timed-out or cancelled waiter was woken for, nor behind the last        *)
(* sender; in a rendezvous who sleeps is queued where a peer will find it, *)
(* and a sender and a receiver never both wait for each other.             *)
NobodyForgotten ==
  /\ which = "mpsc" => Mpsc!NobodyForgotten
  /\ which = "mpmc" => Mpmc!NotAllForgotten
  /\ which = "rendezvous" => Rend!SleepersAreQueued /\ Rend!NeverBothParked

(* The values of a sender come out in the order it sent them, each once,   *)
(* and Disconnected is said of a drained channel only.                     *)
DeliveredOnce ==
  /\ [](which = "mpsc" => Mpsc!DrainedBeforeDisconnected)
  /\ [](which = "mpmc" => Mpmc!DrainedBeforeDisconnected)
  /\ [][which # "rendezvous" => Mpsc!TakenInOrder]_vars

(* Rendezvous: every value has one place, and a send that said Ok a taker. *)
HandedOver == which = "rendezvous" => Rend!HandedOver

(* Rendezvous: "State transitions only ever happen while the mutex is      *)
(* held" (rendezvous.rs:69): nothing moves through a cancelled waiter.     *)
CancelIsFinal == which = "rendezvous" => Rend!CancelIsFinal
=============================================================================
