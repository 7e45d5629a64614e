------------------------------ MODULE Rendezvous ------------------------------
(***************************************************************************)
(* The rendezvous channels: internal/rendezvous.rs, and the handles and    *)
(* futures of mpmc_v2/rendezvous.rs, mpsc/rendezvous.rs and                *)
(* spsc/rendezvous.rs around it. Nothing is buffered: a send or a receive  *)
(* that finds nobody parks a record that points at its own slot, and the   *)
(* next peer moves the value through it.                                   *)
(*                                                                         *)
(* A critical section of the one mutex is one step. The waiter's state is  *)
(* also read, and on a cancellation swapped, without the mutex: those are  *)
(* steps of their own, and so is the wake that follows a critical section. *)
(***************************************************************************)
EXTENDS Naturals, Sequences, FiniteSets, TLC

CONSTANTS Senders, Receivers,   \* handles, one thread or task each
          Clients               \* the programs: calls and first kinds, by
                                \* thread; handles open at first; items, the
                                \* number of sends of a sender; shape, the
                                \* channel it is

Threads == Senders \cup Receivers

VARIABLES client,
          sendq, recvq,         \* sender_waiters, receivers
          scount, rcount,       \* sender_count, receiver_count
          handle, kind,         \* none, open or closed; sync or async
          st, slot,             \* the waiter's state, its payload or dest
          th,                   \* the threads
          next,                 \* sends started
          sent, taken, back,    \* history of the values: sends that said Ok,
          dropped,              \* values received, given back, dropped with
          overtaken             \* the receive, or moved behind a cancellation

ends == <<scount, rcount, handle, kind>>
hist == <<next, sent, taken, back, dropped, overtaken>>
vars == <<client, sendq, recvq, ends, st, slot, th, hist>>

None == << >>                   \* no value

(* The three channels: where parked receivers are kept, and who may clone *)
Mpmc == [store |-> "queue", clones |-> Threads]
Mpsc == [store |-> "one", clones |-> Senders]
Spsc == [store |-> "one", clones |-> {}]
Channel == [mpmc |-> Mpmc, mpsc |-> Mpsc, spsc |-> Spsc][client.shape]

Idle == [todo |-> << >>, op |-> "none", res |-> "none",
         reg |-> FALSE,         \* registered
         flag |-> FALSE,        \* unparked, or its waker called
         wakes |-> {}]          \* wake handles collected under the lock

Init ==
  /\ client \in Clients
  /\ sendq = << >> /\ recvq = << >>
  /\ scount = Cardinality(client.open \cap Senders)
  /\ rcount = Cardinality(client.open \cap Receivers)
  /\ handle = [t \in Threads |-> IF t \in client.open THEN "open" ELSE "none"]
  /\ kind = client.kind
  /\ st = [t \in Threads |-> "none"] /\ slot = [t \in Threads |-> None]
  /\ th = [t \in Threads |-> Idle]
  /\ next = [p \in Senders |-> 0]
  /\ sent = {} /\ taken = {} /\ back = {} /\ dropped = {} /\ overtaken = {}

At(t, l) == th[t].todo # << >> /\ th[t].todo[1] = l
Rest(t)  == Tail(th[t].todo)
(* A call that returns leaves no locals behind, but the unpark token stays *)
Settled(r) == IF r.todo = << >> THEN [Idle EXCEPT !.flag = r.flag] ELSE r
Step(t, p, r) == th' = [th EXCEPT ![t] = Settled([todo |-> p] @@ r @@ @)]
Without(q, t) == SelectSeq(q, LAMBDA x : x # t)
Queued(q, t) == \E i \in DOMAIN q : q[i] = t

-----------------------------------------------------------------------------
(* Calls. The handle's closed flag is looked at first, except by the async  *)
(* send and recv, which build a future without a look.                      *)

SendCalls == {"send", "try_send", "send_future"}
RecvCalls == {"recv", "try_recv", "recv_timeout", "recv_future"}
Fits(t, o) == CASE o \in {"send", "recv", "recv_timeout"} -> kind[t] = "sync"
                [] o \in {"send_future", "recv_future"}   -> kind[t] = "async"
                [] OTHER -> TRUE

CallSend(p, o) ==
  /\ th[p].todo = << >> /\ o \in client.calls[p] \cap SendCalls /\ Fits(p, o)
  /\ handle[p] = "open" \/ (handle[p] = "closed" /\ o = "send_future")
  /\ next[p] < client.items
  /\ next' = [next EXCEPT ![p] = @ + 1]
  /\ slot' = [slot EXCEPT ![p] = <<p, next[p] + 1>>]
  /\ st' = [st EXCEPT ![p] = "WAITING"]
  /\ Step(p, <<"send">>, [op |-> o, res |-> "none"])
  /\ UNCHANGED <<sendq, recvq, ends, sent, taken, back, dropped, overtaken>>

CallRecv(r, o) ==
  /\ th[r].todo = << >> /\ o \in client.calls[r] \cap RecvCalls /\ Fits(r, o)
  /\ handle[r] = "open" \/ (handle[r] = "closed" /\ o = "recv_future")
  /\ st' = [st EXCEPT ![r] = "WAITING"]
  /\ Step(r, <<"recv">>, [op |-> o, res |-> "none"])
  /\ UNCHANGED <<sendq, recvq, ends, slot, hist>>

(* How a call that had to park waits *)
Waiting(o) == IF o \in {"send_future", "recv_future"} THEN <<"pending">> ELSE <<"look">>

-----------------------------------------------------------------------------
(* try_send, send_blocking and an unregistered poll_send, under the lock:   *)
(* closed, or a handoff to the oldest parked receiver, or park.             *)

FulfillReceiver(r, x) ==
  /\ slot' = [t \in Threads |-> IF t = r THEN x ELSE IF t = x[1] THEN None ELSE slot[t]]
  /\ st' = [st EXCEPT ![r] = "DONE"]
  /\ overtaken' = IF st[r] = "CANCELLED" THEN overtaken \cup {x} ELSE overtaken

(* no receiver is left: the value goes back *)
GiveBack(p, res) ==
  /\ back' = back \cup {slot[p]} /\ slot' = [slot EXCEPT ![p] = None]
  /\ Step(p, << >>, [res |-> res])
  /\ UNCHANGED <<sendq, recvq, st, sent, overtaken>>

ParkSender(p) ==
  /\ sendq' = Append(sendq, p)
  /\ Step(p, Waiting(th[p].op), [reg |-> TRUE])
  /\ UNCHANGED <<recvq, st, slot, sent, back, overtaken>>

TrySend(p) ==
  \/ rcount = 0 /\ GiveBack(p, "Closed")
  \/ /\ rcount > 0 /\ recvq # << >>
     /\ FulfillReceiver(recvq[1], slot[p])
     /\ recvq' = Tail(recvq) /\ sent' = sent \cup {slot[p]}
     /\ Step(p, <<"wake">>, [res |-> "Ok", wakes |-> {recvq[1]}])
     /\ UNCHANGED <<sendq, back>>
  \/ rcount > 0 /\ recvq = << >> /\ th[p].op = "try_send" /\ GiveBack(p, "Full")

Send(p) ==
  /\ At(p, "send")
  /\ \/ TrySend(p)
     \/ rcount > 0 /\ recvq = << >> /\ th[p].op # "try_send" /\ ParkSender(p)
  /\ UNCHANGED <<ends, next, taken, dropped>>

(* try_recv, recv_blocking, recv_timeout and an unregistered poll_recv: the *)
(* payload of the oldest parked sender, or disconnected, or park. The       *)
(* one-slot store forgets the record it held.                               *)

MutFulfillCopies(p) ==
  /\ st' = [st EXCEPT ![p] = "DONE"]
  /\ UNCHANGED <<slot, overtaken>>

FulfillSender(p) ==
  /\ slot' = [slot EXCEPT ![p] = None]
  /\ st' = [st EXCEPT ![p] = "DONE"]
  /\ overtaken' = IF st[p] = "CANCELLED" THEN overtaken \cup {slot[p]} ELSE overtaken

PushReceiver(r) == recvq' = IF Channel.store = "one" THEN <<r>> ELSE Append(recvq, r)

ParkReceiver(r) ==
  /\ PushReceiver(r)
  /\ Step(r, Waiting(th[r].op), [reg |-> TRUE])
  /\ UNCHANGED <<sendq, st, slot, taken, overtaken>>

TryRecv(r) ==
  \/ /\ sendq # << >>
     /\ FulfillSender(sendq[1])
     /\ sendq' = Tail(sendq) /\ taken' = taken \cup {slot[sendq[1]]}
     /\ Step(r, <<"wake">>, [res |-> "Ok", wakes |-> {sendq[1]}])
     /\ UNCHANGED recvq
  \/ /\ sendq = << >> /\ (scount = 0 \/ th[r].op = "try_recv")
     /\ Step(r, << >>, [res |-> IF scount = 0 THEN "Disconnected" ELSE "Empty"])
     /\ UNCHANGED <<sendq, recvq, st, slot, taken, overtaken>>

Recv(r) ==
  /\ At(r, "recv")
  /\ \/ TryRecv(r)
     \/ sendq = << >> /\ scount > 0 /\ th[r].op # "try_recv" /\ ParkReceiver(r)
  /\ UNCHANGED <<ends, next, sent, back, dropped>>

(* The lock is released, then the peers are woken *)
Wake(t) ==
  /\ At(t, "wake")
  /\ th' = [u \in Threads |->
              CASE u = t -> Settled([th[t] EXCEPT !.todo = Rest(t), !.wakes = {}])
                [] u # t /\ u \in th[t].wakes -> [th[u] EXCEPT !.flag = TRUE]
                [] OTHER -> th[u]]
  /\ UNCHANGED <<sendq, recvq, ends, st, slot, hist>>

-----------------------------------------------------------------------------
(* The end of a call that had parked, by its terminal state *)

Judge(t, res) ==
  /\ Step(t, << >>, [res |-> res])
  /\ slot' = [slot EXCEPT ![t] = None]
  /\ IF t \in Senders
       THEN /\ sent' = IF st[t] = "DONE" THEN sent \cup {<<t, next[t]>>} ELSE sent
            /\ back' = IF slot[t] # None THEN back \cup {slot[t]} ELSE back
            /\ UNCHANGED <<taken, dropped>>
       ELSE /\ taken' = IF res = "Ok" THEN taken \cup {slot[t]} ELSE taken
            /\ dropped' = IF res # "Ok" /\ slot[t] # None THEN dropped \cup {slot[t]} ELSE dropped
            /\ UNCHANGED <<sent, back>>
  /\ UNCHANGED <<sendq, recvq, ends, st, next, overtaken>>
Verdict(t) == CASE st[t] = "DONE" -> "Ok"
                [] st[t] = "CANCELLED" -> "Timeout"
                [] OTHER -> IF t \in Senders THEN "Closed" ELSE "Disconnected"

(* park_until_terminal: load the state, park while it is WAITING *)
Look(t) ==
  /\ At(t, "look")
  /\ IF st[t] = "WAITING"
       THEN Step(t, <<"park">>, << >>) /\ UNCHANGED <<sendq, recvq, ends, st, slot, hist>>
       ELSE Judge(t, Verdict(t))
Unpark(t) ==
  /\ At(t, "park") /\ th[t].flag
  /\ Step(t, <<"look">>, [flag |-> FALSE])
  /\ UNCHANGED <<sendq, recvq, ends, st, slot, hist>>

(* A poll of a registered future loads the state; while it is WAITING it    *)
(* takes the lock to refresh the waker, and finds its record or the verdict *)
Poll(t) ==
  /\ At(t, "pending") /\ (th[t].flag \/ "repoll" \in client.calls[t])
  /\ IF st[t] = "WAITING"
       THEN /\ Step(t, <<"refresh">>, [flag |-> FALSE])
            /\ UNCHANGED <<sendq, recvq, ends, st, slot, hist>>
       ELSE Judge(t, Verdict(t))
Refresh(t) ==
  /\ At(t, "refresh")
  /\ IF Queued(sendq, t) \/ Queued(recvq, t)
       THEN Step(t, <<"pending">>, << >>) /\ UNCHANGED <<sendq, recvq, ends, st, slot, hist>>
       ELSE Judge(t, Verdict(t))

(* Drop of a pending future and the end of a recv_timeout: swap WAITING for *)
(* CANCELLED, without the lock ...                                          *)
Cancel(t) ==
  /\ \/ At(t, "pending") /\ "cancel" \in client.calls[t]
     \/ At(t, "park") /\ th[t].op = "recv_timeout"
  /\ IF st[t] = "WAITING"
       THEN /\ st' = [st EXCEPT ![t] = "CANCELLED"]
            /\ Step(t, <<"remove">>, << >>)
            /\ UNCHANGED <<sendq, recvq, ends, slot, hist>>
       ELSE Judge(t, IF At(t, "park") THEN Verdict(t) ELSE "Cancelled")

(* ... then remove the record under the lock, if it is still there *)
Remove(t) ==
  /\ At(t, "remove")
  /\ sendq' = Without(sendq, t) /\ recvq' = Without(recvq, t)
  /\ slot' = [slot EXCEPT ![t] = None]
  /\ IF t \in Senders
       THEN back' = (IF slot[t] # None THEN back \cup {slot[t]} ELSE back) /\ UNCHANGED dropped
       ELSE dropped' = (IF slot[t] # None THEN dropped \cup {slot[t]} ELSE dropped) /\ UNCHANGED back
  /\ Step(t, << >>, [res |-> IF th[t].op = "recv_timeout" THEN "Timeout" ELSE "Cancelled"])
  /\ UNCHANGED <<ends, st, next, sent, taken, overtaken>>

-----------------------------------------------------------------------------
(* Handles *)

Clone(t, u) ==
  /\ th[t].todo = << >> /\ "clone" \in client.calls[t] /\ t \in Channel.clones /\ handle[t] # "none"
  /\ handle[u] = "none" /\ (t \in Senders <=> u \in Senders)
  /\ handle' = [handle EXCEPT ![u] = "open"] /\ kind' = [kind EXCEPT ![u] = kind[t]]
  /\ IF t \in Senders THEN scount' = scount + 1 /\ rcount' = rcount
                      ELSE rcount' = rcount + 1 /\ scount' = scount
  /\ UNCHANGED <<sendq, recvq, st, slot, th, hist>>

(* to_async, to_sync: another handle over the same share, not closed. (The  *)
(* clients convert open handles only.)                                      *)
Convert(t) ==
  /\ th[t].todo = << >> /\ "convert" \in client.calls[t] /\ handle[t] = "open"
  /\ kind' = [kind EXCEPT ![t] = IF @ = "sync" THEN "async" ELSE "sync"]
  /\ UNCHANGED <<sendq, recvq, scount, rcount, handle, st, slot, th, hist>>

(* close, Drop: the first of them drops the handle; the last handle of a    *)
(* side disconnects everybody who is parked on the other                    *)
Disconnect(q) ==
  st' = [t \in Threads |-> IF Queued(q, t) THEN "DISCONNECTED" ELSE st[t]]

Close(t) ==
  /\ th[t].todo = << >> /\ "close" \in client.calls[t] /\ handle[t] = "open"
  /\ handle' = [handle EXCEPT ![t] = "closed"]
  /\ IF t \in Senders
       THEN /\ scount' = scount - 1 /\ UNCHANGED <<rcount, sendq>>
            /\ IF scount = 1
                 THEN /\ recvq' = << >> /\ Disconnect(recvq)
                      /\ Step(t, <<"wake">>, [op |-> "close", wakes |-> {recvq[i] : i \in DOMAIN recvq}])
                 ELSE UNCHANGED <<recvq, st, th>>
       ELSE /\ rcount' = rcount - 1 /\ UNCHANGED <<scount, recvq>>
            /\ IF rcount = 1
                 THEN /\ sendq' = << >> /\ Disconnect(sendq)
                      /\ Step(t, <<"wake">>, [op |-> "close", wakes |-> {sendq[i] : i \in DOMAIN sendq}])
                 ELSE UNCHANGED <<sendq, st, th>>
  /\ UNCHANGED <<kind, slot, hist>>

Asleep(t) == (At(t, "park") \/ At(t, "pending")) /\ ~th[t].flag
Quiet == \A t \in Threads : th[t].todo = << >> \/ Asleep(t)

Next ==
  \/ /\ \/ \E p \in Senders : Send(p) \/ \E o \in SendCalls : CallSend(p, o)
        \/ \E r \in Receivers : Recv(r) \/ \E o \in RecvCalls : CallRecv(r, o)
        \/ \E t \in Threads : \/ Wake(t) \/ Look(t) \/ Unpark(t) \/ Poll(t) \/ Refresh(t)
                              \/ Cancel(t) \/ Remove(t) \/ Convert(t) \/ Close(t)
                              \/ \E u \in Threads : Clone(t, u)
     /\ UNCHANGED client
  \/ Quiet /\ UNCHANGED vars

Spec == Init /\ [][Next]_vars

-----------------------------------------------------------------------------
(* A sender and a receiver are never parked beside each other: whoever      *)
(* comes second takes the first one's record (send_blocking, recv_blocking, *)
(* the polls). A side whose peers are all gone has nobody parked.           *)
NeverBothParked ==
  /\ sendq = << >> \/ recvq = << >>
  /\ rcount = 0 => sendq = << >>
  /\ scount = 0 => recvq = << >>

(* When nothing runs, whoever sleeps still has its record in the queue: no  *)
(* handoff and no disconnection goes without its wake, whatever token or    *)
(* waker was used before (fulfill_receiver, fulfill_sender, drop_sender).   *)
SleepersAreQueued ==
  Quiet => \A t \in Threads : Asleep(t) => st[t] = "WAITING" /\ (Queued(sendq, t) \/ Queued(recvq, t))

Items == {<<p, k>> : p \in Senders, k \in 1 .. client.items}
Started == {x \in Items : x[2] <= next[x[1]]}
Held == {slot[t] : t \in Threads} \ {None}

(* A value is in one place at every moment, and a send says Ok exactly when *)
(* a receive took its value or was dropped with it, except for values moved *)
(* behind a cancellation (no buffering, no early deposit).                  *)
HandedOver ==
  /\ Started = Held \cup taken \cup back \cup dropped
  /\ \A t, u \in Threads : slot[t] # None /\ slot[t] = slot[u] => t = u
  /\ \A A, B \in {Held, taken, back, dropped} : A = B \/ A \cap B = {}
  /\ \A x \in Started \ overtaken :
       th[x[1]].todo = << >> \/ next[x[1]] > x[2] => (x \in sent <=> x \notin back)

(* "If the CAS fails, a sender committed the handoff concurrently": a       *)
(* cancellation that succeeds is never followed by the handoff, so no value *)
(* of a send that said Ok is dropped with a receive that timed out, and no  *)
(* cancelled send delivers.                                                 *)
CancelIsFinal == overtaken = {}
=============================================================================
