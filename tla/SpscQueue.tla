------------------------------ MODULE SpscQueue ------------------------------
(***************************************************************************)
(* What the ring of channels/src/spsc/shared.rs promises to the protocol   *)
(* built on it: a bounded FIFO between one producer and one consumer, with *)
(* credit-based flow control.                                              *)
(*                                                                         *)
(* A store of one side reaches the other side some time after it is made.  *)
(* shown  is the number of queued items the consumer can already see,      *)
(* credit the number of pushes the producer can already prove to be free.  *)
(* Both are lower bounds: an item or a free slot may exist and not be      *)
(* visible yet, but what is visible is never taken back.                   *)
(***************************************************************************)
EXTENDS Naturals, Sequences

CONSTANTS Item,   \* the values sent through the ring
          Cap     \* Ring::cap, the requested capacity

VARIABLES q,        \* items pushed and not popped, oldest first
          shown,    \* items of q the consumer can see
          credit    \* pushes the producer knows to be free

qvars == <<q, shown, credit>>

QInit == q = << >> /\ shown = 0 /\ credit = Cap

(* A successful push. It is refused only when no credit is left. *)
Push(v) ==
  /\ credit > 0
  /\ q' = Append(q, v)
  /\ credit' = credit - 1
  /\ UNCHANGED shown

(* A successful pop. It finds nothing only when no item is shown. *)
Pop ==
  /\ shown > 0
  /\ q' = Tail(q)
  /\ shown' = shown - 1
  /\ UNCHANGED credit

(* The next unseen item becomes visible to the consumer. *)
Show ==
  /\ shown < Len(q)
  /\ shown' = shown + 1
  /\ UNCHANGED <<q, credit>>

(* One more freed slot becomes visible to the producer. *)
Refund ==
  /\ credit + Len(q) < Cap
  /\ credit' = credit + 1
  /\ UNCHANGED <<q, shown>>

(* The ring is dropped with whatever it still holds. *)
Discard == q' = << >> /\ shown' = 0 /\ UNCHANGED credit

QNext == \/ \E v \in Item : Push(v)
         \/ Pop
         \/ Show
         \/ Refund
         \/ Discard

QSpec == QInit /\ [][QNext]_qvars
==============================================================================
