------------------------------ MODULE SpmcRing ------------------------------
(***************************************************************************)
(* The SPMC broadcast channel: a ring of stamped slots, one producer, and  *)
(* for each receiver a tail of its own. The producer may write as long as  *)
(* the slowest tail is less than a lap behind; it reads the tails through  *)
(* a guard of the left-right list (Snapshot), which clone and drop of      *)
(* receivers change. A receiver waits in the waker list of the slot it     *)
(* reads next; the producer parks behind a flag of three values, or leaves *)
(* a waker.                                                                *)
(*                                                                         *)
(* A step is one access to shared memory, or one critical section. A call  *)
(* is a program of labels. The item at position i is i.                    *)
(***************************************************************************)
EXTENDS Naturals, Sequences, FiniteSets, TLC

CONSTANTS Producer, Consumers,
          Clients       \* the programs: calls, by thread; kind, sync or async;
                        \* open, the receivers at first; items the producer
                        \* sends at most; batch, the size of batches; cap;
                        \* shared: a receiver may be cloned while it receives

Threads == {Producer} \cup Consumers

VARIABLES client,
          seq, val, wakers,     \* the slots
          head, tail,
          list, guards, stale, busy,    \* tails_reader, tails_writer
          park,                 \* producer_parked_sync_flag
          cell,                 \* producer_thread_sync is Some
          pwaker,               \* producer_waker is set
          dropped,              \* producer_dropped
          handle, kind, th

ring  == <<seq, val, wakers, head, tail>>
tails == <<list, guards, stale, busy>>
pside == <<park, cell, pwaker>>
ends  == <<dropped, handle, kind>>
vars  == <<client, ring, tails, pside, ends, th>>

Tails == INSTANCE Snapshot WITH Readers <- {Producer}, Members <- Consumers

Idle == [todo |-> << >>, op |-> "none",
         n |-> 0,               \* items left to send, or wanted
         again |-> FALSE,       \* this is the look after the registration
         left |-> {},           \* receivers whose tail is still to be read
         min |-> 0,             \* the least tail read so far
         w |-> 0,               \* slots written, then slots whose wakers are due
         wakes |-> {},          \* wakers taken out of the slots
         read |-> << >>,        \* items cloned and not yet acknowledged
         from |-> 0,            \* clone: the tail that was loaded
         flag |-> FALSE]        \* unparked, or its waker called

(* the producer and the receivers there are at first, on the list *)
NewChannel ==
  /\ list = client.open
  /\ handle = [t \in Threads |-> IF t \in client.open \cup {Producer} THEN "open" ELSE "none"]
  /\ tail = [c \in Consumers |-> 0]

Init ==
  /\ client \in Clients /\ NewChannel
  /\ seq = [i \in 0 .. client.cap - 1 |-> 2 * i]
  /\ val = [i \in 0 .. client.cap - 1 |-> 99]
  /\ wakers = [i \in 0 .. client.cap - 1 |-> {}]
  /\ head = 0
  /\ stale = {} /\ busy = FALSE
  /\ guards = [r \in {Producer} |-> Tails!NoGuard]
  /\ park = "IDLE" /\ cell = FALSE /\ pwaker = FALSE /\ dropped = FALSE
  /\ kind = [t \in Threads |-> client.kind]
  /\ th = [t \in Threads |-> Idle]

At(t, l) == th[t].todo # << >> /\ th[t].todo[1] = l
Rest(t) == Tail(th[t].todo)
Settled(r) == IF r.todo = << >> THEN [Idle EXCEPT !.flag = r.flag] ELSE r
Moved(t, p, r) == Settled([todo |-> p] @@ r @@ th[t])
Step(t, p, r) == th' = [th EXCEPT ![t] = Moved(t, p, r)]

p == Producer
Slot(i) == i % client.cap
Least(a, b) == IF a < b THEN a ELSE b
Times(k, s) == [i \in 1 .. k * Len(s) |-> s[((i - 1) % Len(s)) + 1]]
Full == head - th[p].min >= client.cap
Lag(c) == head - tail[c]

-----------------------------------------------------------------------------
(* The calls: what follows when the buffer is full, and when it is full     *)
(* still behind the registration; single says that one item is written.     *)

SendSync         == [single |-> TRUE,  full |-> <<"cell">>, still |-> <<"park">>]
SendBatch        == [single |-> FALSE, full |-> <<"cell">>, still |-> <<"park">>]
SendBatchMut     == [single |-> FALSE, full |-> <<"cell">>, still |-> <<"park">>]
SendFuture       == [single |-> TRUE,  full |-> <<"waker">>, still |-> <<"pending">>]
SendBatchFuture  == [single |-> FALSE, full |-> <<"waker">>, still |-> <<"pending">>]
SendBatchMutFuture == [single |-> FALSE, full |-> <<"waker">>, still |-> <<"pending">>]
TrySend          == [single |-> TRUE,  full |-> << >>, still |-> << >>]
TrySendBatch     == [single |-> FALSE, full |-> << >>, still |-> << >>]
TrySendBatchMut  == [single |-> FALSE, full |-> << >>, still |-> << >>]

SendCalls == [send |-> SendSync, send_batch |-> SendBatch, send_batch_mut |-> SendBatchMut,
              send_future |-> SendFuture, send_batch_future |-> SendBatchFuture,
              send_batch_mut_future |-> SendBatchMutFuture,
              try_send |-> TrySend, try_send_batch |-> TrySendBatch,
              try_send_batch_mut |-> TrySendBatchMut]

(* try, its look at the slot; empty, what follows if there is nothing;      *)
(* still, what follows if there is nothing behind the registration          *)
RecvSync         == [try |-> "try", empty |-> {<<"register">>}, still |-> <<"park">>]
RecvBatchSync    == [try |-> "tryb", empty |-> {<<"register">>}, still |-> <<"park">>]
RecvFuture       == [try |-> "try", empty |-> {<<"register">>}, still |-> <<"pending">>]
RecvBatchFuture  == [try |-> "tryb", empty |-> {<<"register">>}, still |-> <<"pending">>]
RecvBatchMutFuture == [try |-> "tryb", empty |-> {<<"register">>}, still |-> <<"pending">>]
(* the clock is looked at first *)
RecvTimeout      == [try |-> "try", empty |-> {<< >>, <<"register">>}, still |-> <<"timed">>]
TryRecv          == [try |-> "try", empty |-> {<< >>}, still |-> << >>]
TryRecvBatch     == [try |-> "tryb", empty |-> {<< >>}, still |-> << >>]

RecvCalls == [recv |-> RecvSync, recv_batch |-> RecvBatchSync, recv_timeout |-> RecvTimeout,
              recv_future |-> RecvFuture, recv_batch_future |-> RecvBatchFuture,
              recv_batch_mut_future |-> RecvBatchMutFuture,
              try_recv |-> TryRecv, try_recv_batch |-> TryRecvBatch]

SyncOnly  == {"send", "send_batch", "send_batch_mut", "recv", "recv_batch", "recv_timeout"}
AsyncOnly == {"send_future", "send_batch_future", "send_batch_mut_future",
              "recv_future", "recv_batch_future", "recv_batch_mut_future"}
Suits(t, o) == IF kind[t] = "sync" THEN o \notin AsyncOnly ELSE o \notin SyncOnly

Cloning(c) == \E u \in Consumers : th[u].op = c
Free(t) == th[t].todo = << >> /\ (client.shared \/ ~Cloning(t))

CallSend(o) ==
  /\ Free(p) /\ handle[p] = "open" /\ Suits(p, o) /\ o \in client.calls[p]
  /\ LET n == IF SendCalls[o].single THEN 1 ELSE client.batch IN
       /\ head + n <= client.items
       /\ Step(p, <<"enter">>, [op |-> o, n |-> n])
  /\ UNCHANGED <<ring, tails, pside, ends>>

CallRecv(c, o) ==
  /\ Free(c) /\ handle[c] = "open" /\ Suits(c, o) /\ o \in client.calls[c]
  /\ Step(c, <<RecvCalls[o].try>>,
          [op |-> o, n |-> IF RecvCalls[o].try = "tryb" THEN client.batch ELSE 1])
  /\ UNCHANGED <<ring, tails, pside, ends>>

-----------------------------------------------------------------------------
(* The producer. It takes a guard of the list and reads the tails.          *)

NoConsumers == IF th[p].again /\ SendCalls[th[p].op].full = <<"cell">>
                 THEN <<"unarm", "over">> ELSE <<"over">>

Enter ==
  /\ At(p, "enter")
  /\ IF list = {}
     THEN Step(p, NoConsumers, << >>) /\ UNCHANGED tails
     ELSE /\ Tails!Enter(p)
          /\ Step(p, <<"tails">>, [left |-> list, min |-> head])
  /\ UNCHANGED <<ring, pside, ends>>

ReadTail(c) ==
  /\ At(p, "tails") /\ c \in th[p].left
  /\ LET more == th[p].left \ {c} IN
       /\ IF more = {} THEN Tails!Leave(p) ELSE UNCHANGED tails
       /\ Step(p, IF more = {} THEN <<"decide">> ELSE <<"tails">>,
               [left |-> more, min |-> Least(th[p].min, tail[c])])
  /\ UNCHANGED <<ring, pside, ends>>

(* write_batch_unchecked: the values and stamps, the head, the wakers.     *)
(* try_send_internal is the same for one.                                  *)
Writing(k) == Times(k, <<"write", "stamp">>) \o <<"head">> \o Times(k, <<"slot">>) \o <<"wake">>

(* producer_space: how many may be written *)
Space == client.cap - Least(head - th[p].min, client.cap)

(* The first look: write what fits; a batch with items left goes round and *)
(* waits. The look behind the registration: start over, or wait.           *)
Decide ==
  /\ At(p, "decide")
  /\ LET o == SendCalls[th[p].op]
         k == IF Full THEN 0 ELSE Least(Space, th[p].n)
         rest == th[p].n - k
     IN CASE th[p].again /\ Full -> Step(p, o.still, << >>)
          [] th[p].again /\ ~Full ->
               Step(p, IF o.full = <<"cell">> THEN <<"unarm", "enter">> ELSE <<"enter">>, [again |-> FALSE])
          [] ~th[p].again ->
               Step(p, (IF k > 0 THEN Writing(k) ELSE << >>) \o (IF rest > 0 THEN o.full ELSE << >>),
                    [n |-> rest, w |-> 0])
  /\ UNCHANGED <<ring, tails, pside, ends>>

Write ==
  /\ At(p, "write")
  /\ val' = [val EXCEPT ![Slot(head + th[p].w)] = head + th[p].w]
  /\ Step(p, Rest(p), << >>)
  /\ UNCHANGED <<seq, wakers, head, tail, tails, pside, ends>>

Stamp ==
  /\ At(p, "stamp")
  /\ seq' = [seq EXCEPT ![Slot(head + th[p].w)] = 2 * (head + th[p].w) + 1]
  /\ Step(p, Rest(p), [w |-> th[p].w + 1])
  /\ UNCHANGED <<val, wakers, head, tail, tails, pside, ends>>

Advance ==
  /\ At(p, "head")
  /\ head' = head + th[p].w
  /\ Step(p, Rest(p), << >>)
  /\ UNCHANGED <<seq, val, wakers, tail, tails, pside, ends>>

(* the waker lists of the slots written, in order, and then the wakes *)
TakeWakers ==
  /\ At(p, "slot")
  /\ LET s == Slot(head - th[p].w) IN
       /\ wakers' = [wakers EXCEPT ![s] = {}]
       /\ Step(p, Rest(p), [w |-> th[p].w - 1, wakes |-> th[p].wakes \cup wakers[s]])
  /\ UNCHANGED <<seq, val, head, tail, tails, pside, ends>>

Woken(S, t, q, r) ==
  th' = [u \in Threads |-> IF u = t THEN Moved(t, q, r)
                           ELSE [th[u] EXCEPT !.flag = @ \/ u \in S]]
WakeConsumers ==
  /\ At(p, "wake")
  /\ Woken(th[p].wakes, p, Rest(p), [wakes |-> {}])
  /\ UNCHANGED <<ring, tails, pside, ends>>

-----------------------------------------------------------------------------
(* The producer waits: it leaves its thread handle in the cell, raises the  *)
(* flag and looks again; or it registers a waker and looks again.           *)

Arm ==
  /\ At(p, "cell") /\ cell' = TRUE
  /\ Step(p, <<"flag">>, << >>)
  /\ UNCHANGED <<ring, tails, park, pwaker, ends>>

RaiseFlag ==
  /\ At(p, "flag") /\ park' = "PARKED"
  /\ Step(p, <<"enter">>, [again |-> TRUE])
  /\ UNCHANGED <<ring, tails, cell, pwaker, ends>>

RegisterWaker ==
  /\ At(p, "waker") /\ pwaker' = TRUE
  /\ Step(p, <<"enter">>, [again |-> TRUE])
  /\ UNCHANGED <<ring, tails, park, cell, ends>>

(* Take the flag down, or wait for a receiver that is about to; only who   *)
(* took it down empties the cell. Behind a park the same loop.             *)
Unarm ==
  /\ At(p, "unarm") /\ park # "CONSUMING"
  /\ park' = "IDLE"
  /\ Step(p, IF park = "PARKED" THEN <<"clear">> \o Rest(p) ELSE Rest(p), << >>)
  /\ UNCHANGED <<ring, tails, cell, pwaker, ends>>

Clear ==
  /\ At(p, "clear") /\ cell' = FALSE
  /\ Step(p, Rest(p), << >>)
  /\ UNCHANGED <<ring, tails, park, pwaker, ends>>

ProducerUnparked ==
  /\ At(p, "park") /\ th[p].flag
  /\ Step(p, <<"unarm", "enter">>, [flag |-> FALSE, again |-> FALSE])
  /\ UNCHANGED <<ring, tails, pside, ends>>

ProducerPolled ==
  /\ At(p, "pending") /\ (th[p].flag \/ "repoll" \in client.calls[p])
  /\ Step(p, <<"enter">>, [flag |-> FALSE, again |-> FALSE])
  /\ UNCHANGED <<ring, tails, pside, ends>>

-----------------------------------------------------------------------------
(* A receiver. try_recv_internal goes by the stamp of its slot,            *)
(* try_recv_batch_internal by the head.                                    *)

Taking == <<"copy", "advance", "claim", "wakep">>

TryRecvInternal(c) ==
  /\ At(c, "try")
  /\ Step(c, IF seq[Slot(tail[c])] = 2 * tail[c] + 1 THEN Taking ELSE <<"gone">>, << >>)
  /\ UNCHANGED <<ring, tails, pside, ends>>

TryRecvBatchInternal(c) ==
  /\ At(c, "tryb")
  /\ Step(c, IF head > tail[c] THEN Taking ELSE <<"gone">>,
          [n |-> IF head > tail[c] THEN Least(Lag(c), client.batch) ELSE client.batch])
  /\ UNCHANGED <<ring, tails, pside, ends>>

(* Nothing there: Disconnected if the producer is gone and everything was   *)
(* read. Otherwise Empty, or, in a batch, what the head now shows.          *)
Nothing(c) ==
  LET o == RecvCalls[th[c].op] IN
  /\ At(c, "gone")
  /\ CASE dropped /\ tail[c] >= head -> Step(c, <<"over">>, << >>)
       [] dropped /\ tail[c] < head /\ o.try = "tryb" ->
            Step(c, Taking, [n |-> Least(Lag(c), client.batch)])
       [] OTHER -> \E next \in IF th[c].again THEN {<<"still">>} ELSE o.empty : Step(c, next, << >>)
  /\ UNCHANGED <<ring, tails, pside, ends>>

(* the waker goes to the slot of the tail, and the try is repeated *)
MutRegister(c) ==
  /\ At(c, "register")
  /\ wakers' = [wakers EXCEPT ![Slot(tail[c])] = @ \cup {c}]
  /\ Step(c, <<"still">>, [again |-> TRUE])
  /\ UNCHANGED <<seq, val, head, tail, tails, pside, ends>>

Register(c) ==
  /\ At(c, "register")
  /\ wakers' = [wakers EXCEPT ![Slot(tail[c])] = @ \cup {c}]
  /\ Step(c, <<RecvCalls[th[c].op].try>>, [again |-> TRUE])
  /\ UNCHANGED <<seq, val, head, tail, tails, pside, ends>>

Still(c) ==
  /\ At(c, "still")
  /\ Step(c, IF dropped /\ tail[c] >= head THEN <<"over">> ELSE RecvCalls[th[c].op].still, << >>)
  /\ UNCHANGED <<ring, tails, pside, ends>>

(* Clone the items, then acknowledge them all *)
Copy(c) ==
  /\ At(c, "copy")
  /\ LET i == tail[c] + Len(th[c].read) IN
     Step(c, IF Len(th[c].read) + 1 < th[c].n THEN th[c].todo ELSE Rest(c),
          [read |-> Append(th[c].read, val[Slot(i)])])
  /\ UNCHANGED <<ring, tails, pside, ends>>

AdvanceTail(c) ==
  /\ At(c, "advance")
  /\ tail' = [tail EXCEPT ![c] = @ + Len(th[c].read)]
  /\ Step(c, Rest(c), [read |-> << >>])
  /\ UNCHANGED <<seq, val, wakers, head, tails, pside, ends>>

(* wake_producer: who takes the flag from PARKED to CONSUMING owns the cell *)
Claim(c) ==
  /\ At(c, "claim")
  /\ park' = IF park = "PARKED" THEN "CONSUMING" ELSE park
  /\ Step(c, IF park = "PARKED" THEN <<"take">> \o Rest(c) ELSE Rest(c), << >>)
  /\ UNCHANGED <<ring, tails, cell, pwaker, ends>>

TakeThread(c) ==
  /\ At(c, "take") /\ cell' = FALSE
  /\ Step(c, (IF cell THEN <<"idle", "unpark">> ELSE <<"idle">>) \o Rest(c), << >>)
  /\ UNCHANGED <<ring, tails, park, pwaker, ends>>

LowerFlag(c) ==
  /\ At(c, "idle") /\ park' = "IDLE"
  /\ Step(c, Rest(c), << >>)
  /\ UNCHANGED <<ring, tails, cell, pwaker, ends>>

UnparkProducer(c) ==
  /\ At(c, "unpark")
  /\ Woken({p}, c, Rest(c), << >>)
  /\ UNCHANGED <<ring, tails, pside, ends>>

WakeAsync(c) ==
  /\ At(c, "wakep") /\ pwaker' = FALSE
  /\ Woken(IF pwaker THEN {p} ELSE {}, c, Rest(c), << >>)
  /\ UNCHANGED <<ring, tails, park, cell, ends>>

Wakeable(c) == \E l \in {"park", "pending", "timed"} : At(c, l)
Rewoken(c) ==
  /\ Wakeable(c)
  /\ th[c].flag \/ (At(c, "pending") /\ "repoll" \in client.calls[c])
  /\ Step(c, <<RecvCalls[th[c].op].try>>,
          [flag |-> FALSE, again |-> FALSE,
           n |-> IF RecvCalls[th[c].op].try = "tryb" THEN client.batch ELSE 1])
  /\ UNCHANGED <<ring, tails, pside, ends>>

(* park_timeout returns by the clock: one more try, and Timeout; the waker  *)
(* stays in the slot                                                        *)
Elapse(c) ==
  /\ At(c, "timed")
  /\ Step(c, <<"try">>, [again |-> FALSE])
  /\ UNCHANGED <<ring, tails, pside, ends>>

(* drop of a pending future: nothing is undone *)
Cancel(t) ==
  /\ At(t, "pending") /\ "cancel" \in client.calls[t]
  /\ Step(t, << >>, << >>)
  /\ UNCHANGED <<ring, tails, pside, ends>>

Over(t) ==
  /\ At(t, "over")
  /\ Step(t, << >>, << >>)
  /\ UNCHANGED <<ring, tails, pside, ends>>

-----------------------------------------------------------------------------
(* Handles. clone loads the tail of the old receiver and then changes the  *)
(* list; it returns, and the old receiver goes on, when modify does.       *)

CloneReceiver(c, u) ==
  /\ Free(c) \/ client.shared
  /\ "clone" \in client.calls[c] /\ handle[c] = "open" /\ handle[u] = "none" /\ th[u].todo = << >>
  /\ Step(u, <<"register_tail", "modify">>, [op |-> c, from |-> tail[c]])
  /\ UNCHANGED <<ring, tails, pside, ends>>

RegisterTail(u) ==
  /\ At(u, "register_tail")
  /\ Tails!Publish(list \cup {u})
  /\ tail' = [tail EXCEPT ![u] = th[u].from]
  /\ Step(u, <<"modify">>, << >>)
  /\ UNCHANGED <<seq, val, wakers, head, pside, ends>>

Modify(u) ==
  /\ At(u, "modify")
  /\ Tails!Return
  /\ handle' = IF handle[u] = "none" THEN [handle EXCEPT ![u] = "open"] ELSE handle
  /\ Step(u, Rest(u), << >>)
  /\ UNCHANGED <<ring, pside, dropped, kind>>

(* close and drop of a receiver: drop_receiver_internal *)
CloseReceiver(c) ==
  /\ Free(c) /\ "close" \in client.calls[c] /\ handle[c] = "open"
  /\ handle' = [handle EXCEPT ![c] = "closed"]
  /\ Step(c, <<"remove", "modify", "claim", "wakep">>, << >>)
  /\ UNCHANGED <<ring, tails, pside, dropped, kind>>

DropReceiverInternal(c) ==
  /\ At(c, "remove")
  /\ Tails!Publish(list \ {c})
  /\ Step(c, Rest(c), << >>)
  /\ UNCHANGED <<ring, pside, ends>>

(* close and drop of the producer; wake_all_consumers_from_slots goes from  *)
(* slot to slot                                                             *)
CloseSender ==
  /\ Free(p) /\ "close" \in client.calls[p] /\ handle[p] = "open"
  /\ handle' = [handle EXCEPT ![p] = "closed"]
  /\ dropped' = TRUE
  /\ Step(p, Times(client.cap, <<"wake_slot">>), << >>)
  /\ UNCHANGED <<ring, tails, pside, kind>>

WakeSlot ==
  /\ At(p, "wake_slot")
  /\ LET s == client.cap - Len(th[p].todo) IN
       /\ wakers' = [wakers EXCEPT ![s] = {}]
       /\ Woken(wakers[s], p, Rest(p), << >>)
  /\ UNCHANGED <<seq, val, head, tail, tails, pside, ends>>

(* to_sync, to_async: a handle without its own Drop, and not closed *)
Convert(t) ==
  /\ Free(t) /\ "convert" \in client.calls[t] /\ handle[t] # "none"
  /\ kind' = [kind EXCEPT ![t] = IF @ = "sync" THEN "async" ELSE "sync"]
  /\ handle' = [handle EXCEPT ![t] = "open"]
  /\ UNCHANGED <<ring, tails, pside, dropped, th>>

Asleep(t) == Wakeable(t) /\ ~th[t].flag
Quiet == \A t \in Threads : th[t].todo = << >> \/ Asleep(t)

ProducerStep ==
  \/ \E o \in DOMAIN SendCalls : CallSend(o)
  \/ Enter \/ (\E c \in Consumers : ReadTail(c)) \/ Decide \/ Write \/ Stamp \/ Advance
  \/ TakeWakers \/ WakeConsumers \/ Arm \/ RaiseFlag \/ RegisterWaker \/ Unarm \/ Clear
  \/ ProducerUnparked \/ ProducerPolled \/ CloseSender \/ WakeSlot

ConsumerStep(c) ==
  \/ \E o \in DOMAIN RecvCalls : CallRecv(c, o)
  \/ TryRecvInternal(c) \/ TryRecvBatchInternal(c) \/ Nothing(c) \/ Register(c) \/ Still(c)
  \/ Copy(c) \/ AdvanceTail(c) \/ Claim(c) \/ TakeThread(c) \/ LowerFlag(c)
  \/ UnparkProducer(c) \/ WakeAsync(c) \/ Rewoken(c) \/ Elapse(c)
  \/ (\E u \in Consumers : CloneReceiver(c, u)) \/ RegisterTail(c) \/ Modify(c)
  \/ CloseReceiver(c) \/ DropReceiverInternal(c)

Next ==
  \/ /\ \/ ProducerStep
        \/ \E c \in Consumers : ConsumerStep(c)
        \/ \E t \in Threads : Cancel(t) \/ Over(t) \/ Convert(t)
     /\ UNCHANGED client
  \/ Quiet /\ UNCHANGED vars

Spec == Init /\ [][Next]_vars

-----------------------------------------------------------------------------
(* Every receiver is at most a lap behind, and ahead of the head only by   *)
(* items that are stamped already, although tails are read one by one,      *)
(* clones register and receivers leave meanwhile; so a receiver that reads  *)
(* a slot, or that will, finds the item of its position in it, and the      *)
(* producer writes no slot that is being read (try_send_internal,           *)
(* write_batch_unchecked).                                                  *)
Stamped == head + IF At(p, "write") \/ At(p, "stamp") \/ At(p, "head") THEN th[p].w ELSE 0
InWindow == \A c \in list : tail[c] <= Stamped /\ Stamped <= tail[c] + client.cap
Unread(c) == {i \in 0 .. client.items : tail[c] <= i /\ i < Stamped}
GuaranteedDelivery ==
  /\ InWindow
  /\ \A c \in list :
       /\ \A i \in Unread(c) : val[Slot(i)] = i /\ seq[Slot(i)] = 2 * i + 1
       /\ \A k \in DOMAIN th[c].read : th[c].read[k] = tail[c] + k - 1
       /\ (At(c, "copy") /\ (At(p, "write") \/ At(p, "stamp")))
            => Slot(head + th[p].w) # Slot(tail[c] + Len(th[c].read))

(* One thread at a time uses the cell of the thread handle, whoever holds   *)
(* the flag; and the handle is there when it is claimed (wake_producer,     *)
(* park_until_not_full).                                                    *)
CellExclusive ==
  /\ \A c \in Consumers : At(c, "take") =>
       /\ cell /\ ~At(p, "cell") /\ ~At(p, "flag") /\ ~At(p, "clear")
       /\ \A d \in Consumers : At(d, "take") => d = c
  /\ park = "PARKED" => cell

(* When nothing runs, no receiver sleeps beside an item or behind the       *)
(* producer, and the producer sleeps neither beside space nor behind the    *)
(* last receiver.                                                           *)
NobodyForgotten ==
  Quiet => /\ \A c \in Consumers : Asleep(c) => tail[c] >= head /\ ~dropped
           /\ Asleep(p) => list # {} /\ \E c \in list : Lag(c) >= client.cap

(* Disconnected is said of a drained channel, Closed of one without         *)
(* receivers                                                                *)
ToldTheTruth ==
  /\ \A c \in Consumers : At(c, "over") => dropped /\ tail[c] >= head
  /\ At(p, "over") => list = {}
=============================================================================
