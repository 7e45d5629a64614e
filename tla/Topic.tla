-------------------------------- MODULE Topic --------------------------------
(***************************************************************************)
(* The topic channel: each receiver has a mailbox of fixed size, and each  *)
(* topic a left-right list of weak pointers to the mailboxes subscribed to *)
(* it. A send takes a copy of the list and delivers to one mailbox after   *)
(* the other; a full mailbox drops the message. A list is a sequence here, *)
(* changed and copied in one step each (LeftRight); a mailbox is behind a  *)
(* mutex. Messages are numbered in the order they are sent.                *)
(***************************************************************************)
EXTENDS Integers, Sequences, FiniteSets, TLC

CONSTANTS Sender, Receivers, Topics,
          Usize,        \* 2 to the width of receiver_count
          Clients       \* the programs: calls, by thread; kind, sync or async;
                        \* open, the receivers at first; cap of a mailbox;
                        \* items, messages sent at most

Threads == {Sender} \cup Receivers

VARIABLES client,
          subs,         \* the dispatcher: the subscribers of a topic
          count,        \* receiver_count
          freed,        \* the dispatcher is dropped
          own,          \* the subscriptions a receiver has on its own record
          box,          \* the mailboxes
          handle,       \* none, open, closed or dropped
          kind, th,
          sent,         \* history: messages sent
          last,         \* history: the last message received
          left,         \* history: the lists a receiver was not taken off when it closed
          astray,       \* history: how often a closed receiver was dropped as async or converted
          late          \* history: who was on no list when the sender closed

hist == <<sent, last, left, astray, late>>
vars == <<client, subs, count, freed, own, box, handle, kind, th, hist>>

EmptyBox == [buf |-> << >>, waiter |-> FALSE, disc |-> FALSE]
Idle == [todo |-> << >>, op |-> "none", topic |-> "none",
         to |-> << >>,          \* mailboxes still to be served
         topics |-> {},         \* topics still to be gone through
         flag |-> FALSE]

Init ==
  /\ client \in Clients
  /\ subs = [t \in Topics |-> << >>]
  /\ count = Cardinality(client.open)
  /\ freed = FALSE
  /\ own = [r \in Receivers |-> {}]
  /\ box = [r \in Receivers |-> EmptyBox]
  /\ handle = [t \in Threads |-> IF t \in client.open \cup {Sender} THEN "open" ELSE "none"]
  /\ kind = [r \in Receivers |-> client.kind]
  /\ th = [t \in Threads |-> Idle]
  /\ sent = 0 /\ last = [r \in Receivers |-> 0] /\ late = {}
  /\ left = [r \in Receivers |-> {}] /\ astray = 0

At(t, l) == th[t].todo # << >> /\ th[t].todo[1] = l
Rest(t) == Tail(th[t].todo)
Settled(r) == IF r.todo = << >> THEN [Idle EXCEPT !.flag = r.flag] ELSE r
Moved(t, q, r) == Settled([todo |-> q] @@ r @@ th[t])
Step(t, q, r) == th' = [th EXCEPT ![t] = Moved(t, q, r)]

Alive(r) == handle[r] \in {"open", "closed"}
On(r, t) == \E i \in DOMAIN subs[t] : subs[t][i] = r
(* a call needs a thread that is free, and the receiver not being cloned *)
Free(t) == th[t].todo = << >> /\ ~\E u \in Receivers : th[u].op = t

-----------------------------------------------------------------------------
(* The mailbox *)

(* deliver, and wake_consumer: r is woken if it waits *)
Delivered(b, m) ==
  IF Len(b.buf) >= client.cap THEN b
  ELSE [b EXCEPT !.buf = Append(@, m), !.waiter = FALSE]
Disconnected(b) == IF b.disc THEN b ELSE [b EXCEPT !.disc = TRUE, !.waiter = FALSE]
Woken(r, b) == box[r].waiter /\ ~b.waiter

(* pop, or learn of the disconnection, or wait *)
RecvSync     == [empty |-> {<<"park">>}]
(* the clock is looked at before it waits *)
RecvTimeoutSync == [empty |-> {<<"timed">>, << >>}]
RecvFuture   == [empty |-> {<<"pending">>}]
TryRecv      == [empty |-> {<< >>}]
RecvCalls == [recv |-> RecvSync, recv_timeout |-> RecvTimeoutSync,
              recv_future |-> RecvFuture, try_recv |-> TryRecv]
Suits(r, o) == IF kind[r] = "sync" THEN o # "recv_future" ELSE o \in {"recv_future", "try_recv"}

(* a recv_timeout on a closed receiver only tries *)
CallRecv(r, o) ==
  /\ Free(r) /\ Alive(r) /\ o \in client.calls[r] /\ Suits(r, o)
  /\ Step(r, <<"look">>, [op |-> IF o = "recv_timeout" /\ handle[r] = "closed" THEN "try_recv" ELSE o])
  /\ UNCHANGED <<subs, count, freed, own, box, handle, kind, hist>>

Look(r) ==
  /\ At(r, "look")
  /\ LET b == box[r] IN
     CASE b.buf # << >> ->
            /\ box' = [box EXCEPT ![r].buf = Tail(@)]
            /\ last' = [last EXCEPT ![r] = Head(b.buf)]
            /\ Step(r, << >>, << >>)
       [] b.buf = << >> /\ b.disc -> Step(r, << >>, << >>) /\ UNCHANGED <<box, last>>
       [] OTHER ->
            /\ \E next \in RecvCalls[th[r].op].empty :
                 /\ Step(r, next, << >>)
                 /\ box' = [box EXCEPT ![r].waiter = @ \/ next # << >>]
            /\ UNCHANGED last
  /\ UNCHANGED <<subs, count, freed, own, handle, kind, sent, left, astray, late>>

(* unparked, polled, or past the deadline; a pending future may be dropped *)
Waiting(r) == At(r, "park") \/ At(r, "timed") \/ At(r, "pending")
Rewoken(r) ==
  /\ Waiting(r) /\ (th[r].flag \/ At(r, "timed"))
  /\ Step(r, <<"look">>, [flag |-> FALSE])
  /\ UNCHANGED <<subs, count, freed, own, box, handle, kind, hist>>

CancelRecv(r) ==
  /\ At(r, "pending") /\ "cancel" \in client.calls[r]
  /\ Step(r, << >>, << >>)
  /\ UNCHANGED <<subs, count, freed, own, box, handle, kind, hist>>

-----------------------------------------------------------------------------
(* Subscriptions: first the receiver's own record, then the dispatcher's    *)
(* list, if there is still a dispatcher                                     *)

Pruned(q) == SelectSeq(q, Alive)
WithSubscriber(q, r) ==
  IF \E i \in DOMAIN q : q[i] = r THEN Pruned(q) ELSE Append(Pruned(q), r)
WithoutSubscriber(q, r) == SelectSeq(Pruned(q), LAMBDA x : x # r)

Subscribe(r, t) ==
  /\ Free(r) /\ Alive(r) /\ "subscribe" \in client.calls[r] /\ t \notin own[r]
  /\ own' = [own EXCEPT ![r] = @ \cup {t}]
  /\ Step(r, <<"enlist">>, [topic |-> t])
  /\ UNCHANGED <<subs, count, freed, box, handle, kind, hist>>

Enlist(r) ==
  /\ At(r, "enlist")
  /\ subs' = IF freed THEN subs ELSE [subs EXCEPT ![th[r].topic] = WithSubscriber(@, r)]
  /\ Step(r, Rest(r), << >>)
  /\ UNCHANGED <<count, freed, own, box, handle, kind, hist>>

Unsubscribe(r, t) ==
  /\ Free(r) /\ Alive(r) /\ "unsubscribe" \in client.calls[r] /\ t \in own[r]
  /\ own' = [own EXCEPT ![r] = @ \ {t}]
  /\ Step(r, <<"delist">>, [topic |-> t])
  /\ UNCHANGED <<subs, count, freed, box, handle, kind, hist>>

MutDelist(r) ==
  /\ At(r, "delist")
  /\ left' = [left EXCEPT ![r] = @ \ {th[r].topic}]
  /\ Step(r, Rest(r), << >>)
  /\ UNCHANGED <<subs, count, freed, own, box, handle, kind, sent, last, astray, late>>

Delist(r) ==
  /\ At(r, "delist")
  /\ subs' = IF freed THEN subs ELSE [subs EXCEPT ![th[r].topic] = WithoutSubscriber(@, r)]
  /\ left' = [left EXCEPT ![r] = @ \ {th[r].topic}]
  /\ Step(r, Rest(r), << >>)
  /\ UNCHANGED <<count, freed, own, box, handle, kind, sent, last, astray, late>>

-----------------------------------------------------------------------------
(* Receivers: close empties the record and then unsubscribes from what was  *)
(* on it, which finds nothing on the record and does nothing: the receiver  *)
(* stays on the lists it was on. The count is given up each time.           *)

CloseInternal(r) ==
  IF freed THEN UNCHANGED <<own, count, left>>
  ELSE /\ own' = [own EXCEPT ![r] = {}]
       /\ left' = [left EXCEPT ![r] = @ \cup own[r]]
       /\ count' = (count - 1) % Usize

CloseReceiver(r) ==
  /\ Free(r) /\ handle[r] = "open" /\ "close" \in client.calls[r]
  /\ CloseInternal(r)
  /\ handle' = [handle EXCEPT ![r] = "closed"]
  /\ UNCHANGED <<subs, freed, box, kind, th, sent, last, astray, late>>

(* the sync handle closes unless it is closed; the async one does in any case *)
DropSync(r) ==
  IF handle[r] = "open" THEN CloseInternal(r) ELSE UNCHANGED <<own, count, left>>
DropAsync(r) == CloseInternal(r)

DropReceiver(r) ==
  /\ Free(r) /\ Alive(r) /\ "drop" \in client.calls[r]
  /\ IF kind[r] = "sync" THEN DropSync(r) ELSE DropAsync(r)
  /\ astray' = IF kind[r] = "async" /\ handle[r] = "closed" THEN (astray + 1) % Usize ELSE astray
  /\ handle' = [handle EXCEPT ![r] = "dropped"]
  /\ UNCHANGED <<subs, freed, box, kind, th, sent, last, late>>

(* clone: a mailbox of its own, and the topics one by one; without a       *)
(* dispatcher a dead receiver                                              *)
CloneReceiver(r, u) ==
  /\ Free(r) /\ Alive(r) /\ "clone" \in client.calls[r] /\ handle[u] = "none" /\ th[u].todo = << >>
  /\ IF freed THEN handle' = [handle EXCEPT ![u] = "closed"] /\ UNCHANGED <<count, th>>
     ELSE /\ count' = (count + 1) % Usize
          /\ handle' = [handle EXCEPT ![u] = "open"]
          /\ Step(u, <<"inherit">>, [op |-> r, topics |-> own[r]])
  /\ UNCHANGED <<subs, freed, own, box, kind, hist>>

Inherit(u) ==
  /\ At(u, "inherit")
  /\ \/ /\ th[u].topics = {} /\ Step(u, << >>, << >>) /\ UNCHANGED own
     \/ \E t \in th[u].topics :
          /\ own' = [own EXCEPT ![u] = @ \cup {t}]
          /\ Step(u, <<"enlist", "inherit">>, [topic |-> t, topics |-> th[u].topics \ {t}])
  /\ UNCHANGED <<subs, count, freed, box, handle, kind, hist>>

(* to_sync, to_async of a receiver: the new handle is not closed, and not   *)
(* counted again if the old one was                                         *)
Convert(r) ==
  /\ Free(r) /\ Alive(r) /\ "convert" \in client.calls[r]
  /\ kind' = [kind EXCEPT ![r] = IF @ = "sync" THEN "async" ELSE "sync"]
  /\ handle' = [handle EXCEPT ![r] = "open"]
  /\ astray' = IF handle[r] = "closed" THEN (astray + 1) % Usize ELSE astray
  /\ UNCHANGED <<subs, count, freed, own, box, th, sent, last, left, late>>

-----------------------------------------------------------------------------
(* The sender *)

Send(t) ==
  /\ Free(Sender) /\ handle[Sender] = "open" /\ "send" \in client.calls[Sender]
  /\ count # 0 /\ sent < client.items
  /\ sent' = sent + 1
  /\ Step(Sender, <<"deliver">>, [topic |-> t, to |-> subs[t]])
  /\ UNCHANGED <<subs, count, freed, own, box, handle, kind, last, left, astray, late>>

(* the mailbox of a receiver that is gone is passed over *)
Serve(r, b, q, m) ==
  /\ box' = IF Alive(r) THEN [box EXCEPT ![r] = b] ELSE box
  /\ th' = [u \in Threads |-> IF u = Sender THEN Moved(Sender, q, m)
              ELSE [th[u] EXCEPT !.flag = @ \/ (u = r /\ Alive(r) /\ Woken(r, b))]]

Deliver ==
  /\ At(Sender, "deliver")
  /\ LET q == th[Sender].to IN
     IF q = << >> THEN Step(Sender, << >>, << >>) /\ UNCHANGED box
     ELSE Serve(q[1], Delivered(box[q[1]], sent), <<"deliver">>, [to |-> Tail(q)])
  /\ UNCHANGED <<subs, count, freed, own, handle, kind, hist>>

(* close: every subscriber of every topic, list after list *)
CloseSender ==
  /\ Free(Sender) /\ handle[Sender] = "open" /\ "close" \in client.calls[Sender]
  /\ handle' = [handle EXCEPT ![Sender] = "closed"]
  /\ Step(Sender, <<"disconnect">>, [topics |-> Topics])
  /\ UNCHANGED <<subs, count, freed, own, box, kind, hist>>

Disconnect ==
  /\ At(Sender, "disconnect")
  /\ LET q == th[Sender].to IN
     \/ /\ q # << >>
        /\ Serve(q[1], Disconnected(box[q[1]]), <<"disconnect">>, [to |-> Tail(q)])
        /\ UNCHANGED late
     \/ /\ q = << >>
        /\ \E t \in th[Sender].topics :
             Step(Sender, <<"disconnect">>, [to |-> subs[t], topics |-> th[Sender].topics \ {t}])
        /\ UNCHANGED <<box, late>>
     \/ /\ q = << >> /\ th[Sender].topics = {}
        /\ Step(Sender, << >>, << >>)
        /\ late' = {r \in Receivers : ~box[r].disc}
        /\ UNCHANGED box
  /\ UNCHANGED <<subs, count, freed, own, handle, kind, sent, last, left, astray>>

(* the sender is dropped, and the dispatcher with it *)
FreeDispatcher ==
  /\ Free(Sender) /\ handle[Sender] = "closed" /\ "drop" \in client.calls[Sender] /\ ~freed
  /\ freed' = TRUE
  /\ subs' = [t \in Topics |-> << >>]
  /\ UNCHANGED <<count, own, box, handle, kind, th, hist>>

Asleep(r) == Waiting(r) /\ ~At(r, "timed") /\ ~th[r].flag
Quiet == \A t \in Threads : th[t].todo = << >> \/ (t \in Receivers /\ Asleep(t))

Next ==
  \/ /\ \/ \E r \in Receivers :
             \/ \E o \in DOMAIN RecvCalls : CallRecv(r, o)
             \/ \E t \in Topics : Subscribe(r, t) \/ Unsubscribe(r, t)
             \/ Look(r) \/ Rewoken(r) \/ CancelRecv(r) \/ Enlist(r) \/ Delist(r)
             \/ CloseReceiver(r) \/ DropReceiver(r) \/ Inherit(r) \/ Convert(r)
             \/ \E u \in Receivers : CloneReceiver(r, u)
        \/ (\E t \in Topics : Send(t)) \/ Deliver
        \/ CloseSender \/ Disconnect \/ FreeDispatcher
     /\ UNCHANGED client
  \/ Quiet /\ UNCHANGED vars

Spec == Init /\ [][Next]_vars

-----------------------------------------------------------------------------
(* A mailbox holds messages in the order they were sent, each once, newer   *)
(* than what was received, and no more than fit (deliver, subscribe)        *)
InOrderOnce ==
  \A r \in Receivers : LET b == <<last[r]>> \o box[r].buf IN
    /\ Len(box[r].buf) <= client.cap
    /\ \A i \in 1 .. Len(b) - 1 : b[i] < b[i + 1]

(* A receiver that is there and not busy, open or closed, is on the lists   *)
(* of the topics on its own record and on those it was not taken off when   *)
(* it closed, and on no others (subscribe, unsubscribe, clone, close). The  *)
(* second part is what the code does, not what close promises: "It will     *)
(* unsubscribe this receiver from all topics" (sync_impl.rs:275). It goes   *)
(* on getting messages and a conversion to the other kind of handle opens   *)
(* it again with an empty record.                                           *)
SubscriptionsAgree ==
  \A r \in Receivers, t \in Topics :
    Alive(r) /\ th[r].todo = << >> /\ ~freed
      => (On(r, t) <=> t \in own[r] \cup left[r])

(* The count is that of the open receivers (send asks it whether any is     *)
(* left) less one each time a closed one is dropped as async or converted:  *)
(* the first gives up a count it does not have, the second comes back open  *)
(* without one (close_internal, Drop, to_sync, to_async).                   *)
CountExact ==
  ~freed => count = (Cardinality({r \in Receivers : handle[r] = "open"}) - astray) % Usize

(* When nothing runs nobody sleeps beside a message; nor behind the sender, *)
(* if it was on a list when the sender closed (deliver, disconnect)         *)
NobodyForgotten ==
  Quiet => \A r \in Receivers : Asleep(r) =>
    /\ box[r].buf = << >>
    /\ handle[Sender] = "closed" => r \in late
=============================================================================
