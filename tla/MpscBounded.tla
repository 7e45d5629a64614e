----------------------------- MODULE MpscBounded -----------------------------
(***************************************************************************)
(* The bounded MPSC channel of channels/src/mpsc/bounded_v3: senders and   *)
(* one receiver, sync or async, over the credit-before-claim core Shared.  *)
(*                                                                         *)
(* A sender reads the window, takes a ticket with fetch_add, verifies its  *)
(* credit and writes the slot of its ticket: the value, or the tombstone   *)
(* SKIP when others overtook it. Senders that find the window closed park; *)
(* `awake` meters how many of them run because somebody woke them.         *)
(*                                                                         *)
(* th[t].todo is what is left of thread t's operation: labels, one per     *)
(* atomic access or critical section. A step consumes the first label and  *)
(* may replace the rest. Head fields (pos, cid, unpublished) live in th[C].*)
(***************************************************************************)
EXTENDS Naturals, Sequences, FiniteSets, TLC

CONSTANTS Senders,      \* sender handles, one thread or task each
          ChunkCap,     \* chunk_cap: slots of a chunk
          N,            \* n: chunks of the table
          FlushChunk,   \* CACHE_FLUSH_CHUNK: the sync receiver's cadence
          ColdLimit,    \* the 128 of cold_on_miss
          Clients       \* the programs that use the channel: calls, by thread;
                        \* of, the handle a sending thread uses; kind, the
                        \* receiver's at first; cap; spin, the spin limit;
                        \* batch, the size of its batches; sent, the values the first
                        \* sender sent before; and two bounds, the items a
                        \* sender sends and the tickets ever handed out

C == "C"
Thread == Senders \cup {C}
EMPTY == << >>
SKIP  == <<"SKIP">>
Min2(a, b) == IF a < b THEN a ELSE b
Max2(a, b) == IF a < b THEN b ELSE a

VARIABLES client,                       \* the program
          tail,                         \* g_tail: tickets handed out
          progress, drained,            \* published by the receiver
          retired,                      \* consumer_retired
          table,                        \* id of each ChunkEntry
          slot,                         \* state and data of each slot
          awake,                        \* senders counted as running
          sq, aq,                       \* sync and async send waiters
          rw,                           \* the receiver's waiter is registered
          senders, rdrop,               \* sender_count, receiver_dropped
          closed,                       \* the closed flag of each handle
          k,                            \* publish_chunk and run_cap
          th,                           \* the threads
          next, recvd                   \* values written and received, by sender

Cap == client.cap
SpinLimit == client.spin                \* SYNC_SPIN_LIMIT

ring  == <<tail, progress, drained, retired, table, slot>>
waits == <<awake, sq, aq, rw>>
ends  == <<senders, rdrop, closed, k>>
hist  == <<next, recvd>>
vars  == <<client, ring, waits, ends, th, hist>>

Idle == [todo |-> << >>, op |-> "none", res |-> "none",
         n |-> 0,          \* items the call still has to send or may still receive
         x |-> 0,          \* the counter it loaded last
         t |-> 0, valid |-> 0, m |-> 0, i |-> 0,      \* the claimed run
         via |-> "hot",    \* the claim is against progress, or (cold) drained
         cold |-> FALSE,   \* cold_recheck of send, cold of try_send_batch
         tok |-> FALSE,    \* token, held, woken
         reg |-> FALSE,    \* is_registered, my_id
         flag |-> FALSE,   \* notified
         spins |-> 0,
         popped |-> {}]    \* waiters it took out of the queues

Head0 == [kind |-> "sync", pos |-> 0, cid |-> 0, unpub |-> 0, got |-> 0,
          deq |-> "none", expired |-> FALSE]

PublishChunk(kind) == IF kind = "async" THEN Cap ELSE Min2(Cap, FlushChunk)

(* The channel as new, or after the first sender sent client.sent values *)
Init ==
  /\ client \in Clients
  /\ tail = client.sent /\ progress = 0 /\ drained = 0 /\ retired = 0
  /\ table = [c \in 0 .. N - 1 |-> c]
  /\ slot = [s \in 0 .. N * ChunkCap - 1 |-> IF s < tail THEN <<client.first, s + 1>> ELSE EMPTY]
  /\ awake = 0 /\ sq = << >> /\ aq = << >> /\ rw = FALSE
  /\ senders = Cardinality({client.of[p] : p \in Senders}) /\ rdrop = FALSE
  /\ closed = [t \in Thread |-> FALSE]
  /\ k = PublishChunk(client.kind)
  /\ th = [t \in Thread |-> IF t = C THEN [Head0 EXCEPT !.kind = client.kind] @@ Idle
                                     ELSE Idle]
  /\ next = [p \in Senders |-> IF p = client.first THEN client.sent ELSE 0]
  /\ recvd = [p \in Senders |-> 0]

-----------------------------------------------------------------------------
(* Operations as programs *)

(* Sender: blocking send, its wait loop, and the non-blocking calls *)
SendLoop     == <<"alive", "try", "recheck_cold", "elect", "step", "wait">>
Send         == <<"alive", "try", "spin">>
TrySend      == <<"alive", "try", "try_cold", "full">>
TrySendBatch == <<"alive_receiver", "try", "escalate">>
SendBatch    == <<"alive_batch", "try", "unhold">>
WaitWindow   == <<"alive", "look", "republish", "window", "unhold", "wait">>
SendPoll     == <<"alive", "try", "cold_on_miss", "unhold", "register", "recheck">>
BatchPoll    == <<"alive", "look", "republish", "try", "unhold", "register", "recheck">>

(* Receiver: the last label of a program is where it waits *)
Recv         == <<"deq", "senders", "flush", "rwait">>
TryRecv      == <<"deq", "senders", "flush", "empty">>
RecvPoll     == <<"deq", "senders", "flush", "rregister", "deq", "senders", "pending">>
RecvBatch    == <<"deq", "flush", "senders", "rwait">>
TryRecvBatch == <<"deq", "flush", "senders", "empty">>
RecvBatchPoll == <<"deq", "flush", "senders", "rregister", "deq", "senders", "pending">>

Program(o) ==
  CASE o = "send" -> Send
    [] o = "try_send" -> TrySend
    [] o = "try_send_batch" -> <<"alive">> \o TrySendBatch
    [] o = "send_batch" -> SendBatch \o WaitWindow
    [] o = "send_future" -> SendPoll
    [] o = "batch_future" -> BatchPoll
    [] o \in {"recv", "recv_timeout"} -> Recv
    [] o = "try_recv" -> TryRecv
    [] o = "recv_future" -> RecvPoll
    [] o = "recv_batch" -> RecvBatch
    [] o = "try_recv_batch" -> TryRecvBatch
    [] o = "recv_batch_future" -> RecvBatchPoll

Single(o)  == o \in {"send", "try_send", "send_future"}
OneItem(o) == Single(o) \/ o \in {"recv", "recv_timeout", "try_recv", "recv_future"}
Async(o)   == o \in {"send_future", "batch_future", "recv_future", "recv_batch_future"}

At(t, l)  == th[t].todo # << >> /\ th[t].todo[1] = l
Rest(t)   == Tail(th[t].todo)
(* Thread t takes the fields of r, and runs on with program p. A call that *)
(* returns leaves no locals behind, except what it forgot to give back.    *)
Returned(r) == [f \in {"op", "res", "tok", "reg", "flag"} |-> r[f]] @@ Idle
Settled(r)  == IF r.todo = << >> THEN Returned(r) @@ r ELSE r
Step(t, p, r) == th' = [th EXCEPT ![t] = Settled([todo |-> p] @@ r @@ @)]
Go(t, p)      == Step(t, p, << >>)

(* The loop of an operation, entered again after a wait *)
Loop(t) == IF th[t].op = "send" THEN SendLoop ELSE Program(th[t].op)

(* leave: settle the registration, give back the awake count *)
Leave(p) == (IF th[p].reg THEN <<"finish">> ELSE << >>)
            \o (IF th[p].tok THEN <<"unhold">> ELSE << >>)

Sat(a, b)      == IF a < b THEN 0 ELSE a - b         \* saturating_sub
Open(from, to) == to <= from /\ from - to < Cap      \* wrapping_sub(..) < cap
Credit(p)      == IF th[p].via = "cold" THEN drained ELSE progress

-----------------------------------------------------------------------------
(* Calls *)

Kind(o) == IF Async(o) THEN "async" ELSE "sync"
Call(t, o) ==
  /\ th[t].todo = << >> /\ o \in client.calls[t]
  /\ \E n \in IF OneItem(o) THEN {1} ELSE {client.batch} :
       /\ t \in Senders => next[t] + n <= client.items[t]
       /\ t = C => o \in {"try_recv", "try_recv_batch"} \/ Kind(o) = th[C].kind
       /\ th' = [th EXCEPT ![t] =
                   [todo |-> Program(o), op |-> o, n |-> n]
                   @@ (IF t = C THEN [expired |-> FALSE, got |-> 0] ELSE << >>) @@ Idle @@ @]
       /\ t = C /\ o # "recv_timeout" => ~closed[C]
  /\ UNCHANGED <<ring, waits, ends, hist>>

(* Sender::close and drop: the last handle to close wakes the receiver *)
CloseSender(p) ==
  /\ th[p].todo = << >> /\ "close" \in client.calls[p] /\ ~closed[client.of[p]]
  /\ closed' = [closed EXCEPT ![client.of[p]] = TRUE]
  /\ Step(p, <<"drop_sender">>, [op |-> "close"])
  /\ UNCHANGED <<ring, waits, senders, rdrop, k, hist>>

DropSender(p) ==
  /\ At(p, "drop_sender")
  /\ senders' = senders - 1
  /\ Go(p, IF senders = 1 THEN <<"wake">> ELSE << >>)
  /\ UNCHANGED <<ring, waits, rdrop, closed, k, hist>>

(* Receiver::close and drop: drop_receiver, then wake_all_senders *)
CloseReceiver ==
  /\ th[C].todo = << >> /\ "close" \in client.calls[C] /\ ~closed[C]
  /\ closed' = [closed EXCEPT ![C] = TRUE] /\ rdrop' = TRUE
  /\ Step(C, <<"pop_all">>, [op |-> "close"])
  /\ UNCHANGED <<ring, waits, senders, k, hist>>

(* to_async, to_sync: set_publish_chunk for the new kind *)
Convert ==
  /\ th[C].todo = << >> /\ "convert" \in client.calls[C]
  /\ LET kind == IF th[C].kind = "sync" THEN "async" ELSE "sync"
     IN Step(C, << >>, [kind |-> kind, op |-> "convert"]) /\ k' = PublishChunk(kind)
  /\ UNCHANGED <<ring, waits, senders, rdrop, closed, hist>>

-----------------------------------------------------------------------------
(* Sending: claim a run of tickets, verify it, write it *)

(* Closed, or the receiver is gone: the call fails. send_batch and         *)
(* send_batch_mut return from here without giving back what they hold.     *)
Alive(p) ==
  /\ \E l \in {"alive", "alive_batch", "alive_receiver"} :
       /\ At(p, l)
       /\ IF rdrop \/ (l # "alive_receiver" /\ closed[client.of[p]])
            THEN Step(p, IF l = "alive_batch" THEN << >> ELSE Leave(p), [res |-> "Closed"])
            ELSE Go(p, Rest(p))
  /\ UNCHANGED <<ring, waits, ends, hist>>

(* window_open, claim_run: g_tail is loaded first. A closed hot window is   *)
(* tried again against drained: always (try_send), after a stalled wait     *)
(* (cold_recheck), when woken or at a short cadence (cold_on_miss) ...      *)
TriesCold(p, l) ==
  \/ l = "try_cold"
  \/ l = "try" /\ th[p].op = "try_send_batch" /\ th[p].cold
  \/ l = "recheck_cold" /\ th[p].cold
  \/ l = "cold_on_miss" /\ (th[p].tok \/ k <= ColdLimit)
LoadTail(p) ==
  /\ \E l \in {"try", "try_cold", "recheck_cold", "cold_on_miss"} :
       /\ At(p, l)
       /\ IF l = "try" \/ TriesCold(p, l)
            THEN Step(p, <<"window_open">> \o Rest(p),
                      [x |-> tail, via |-> IF TriesCold(p, l) THEN "cold" ELSE "hot"])
            ELSE Go(p, Rest(p))
  /\ UNCHANGED <<ring, waits, ends, hist>>

(* ... then the counter: how many tickets the call may claim *)
WindowOpen(p) ==
  /\ At(p, "window_open")
  /\ LET room == IF Credit(p) <= th[p].x THEN Sat(Cap, th[p].x - Credit(p)) ELSE 0
         m == Min2(Min2(th[p].n, room), k)
     IN IF m = 0 THEN Go(p, Rest(p)) ELSE Step(p, <<"claim">> \o Rest(p), [m |-> m])
  /\ UNCHANGED <<ring, waits, ends, hist>>

Claim(p) ==
  /\ At(p, "claim") /\ tail + th[p].m <= client.tickets
  /\ tail' = tail + th[p].m
  /\ Step(p, <<"credit_ok">> \o Rest(p), [t |-> tail, i |-> 0])
  /\ UNCHANGED <<progress, drained, retired, table, slot, waits, ends, hist>>

MutCreditUnchecked(p) ==
  /\ At(p, "credit_ok")
  /\ Step(p, <<"write">> \o Rest(p), [valid |-> th[p].m])
  /\ UNCHANGED <<ring, waits, ends, hist>>

CreditOk(p) ==
  /\ At(p, "credit_ok")
  /\ Step(p, <<"write">> \o Rest(p),
          [valid |-> Min2(th[p].m, Sat(Credit(p) + Cap, th[p].t))])
  /\ UNCHANGED <<ring, waits, ends, hist>>

Ticket(p)  == th[p].t + th[p].i
ChunkOf(t) == t \div ChunkCap
Phys(t)    == t % (N * ChunkCap)          \* slot t & mask of entry cid % n

(* ensure_resident: wait until the old chunk is retired, take its entry over *)
EnsureResident(p) ==
  /\ At(p, "write")
  /\ LET c == ChunkOf(Ticket(p)) IN
       /\ table[c % N] # c /\ retired >= table[c % N] + 1
       /\ table' = [table EXCEPT ![c % N] = c]
  /\ UNCHANGED <<tail, progress, drained, retired, slot, waits, ends, th, hist>>

(* write_slot, resolve_run: the values, then tombstones for the overshoot *)
WriteSlot(p) ==
  /\ At(p, "write") /\ table[ChunkOf(Ticket(p)) % N] = ChunkOf(Ticket(p))
  /\ LET set == th[p].i < th[p].valid IN
       /\ slot' = [slot EXCEPT ![Phys(Ticket(p))] = IF set THEN <<p, next[p] + 1>> ELSE SKIP]
       /\ next' = [next EXCEPT ![p] = IF set THEN @ + 1 ELSE @]
  /\ Step(p, (IF th[p].i + 1 = th[p].m THEN <<"notify">> ELSE <<"write">>) \o Rest(p),
          [i |-> th[p].i + 1])
  /\ UNCHANGED <<tail, progress, drained, retired, table, waits, ends, recvd>>

(* What follows a resolved run *)
Retry(p) == IF th[p].via = "cold" THEN <<"try_cold">> ELSE <<"try">>
AfterWrite(p) ==
  LET all == th[p].valid = th[p].n
  IN CASE Single(th[p].op) -> IF all THEN Leave(p) ELSE Retry(p) \o Rest(p)
       [] th[p].op = "try_send_batch" ->
            CASE all -> << >>
              [] ~all /\ th[p].valid < th[p].m -> <<"escalate">>
              [] OTHER -> TrySendBatch
       [] OTHER -> Leave(p) \o IF all THEN << >> ELSE Program(th[p].op)

(* notify_receiver: fence, look at the waiter count ... *)
Notify(p) ==
  /\ At(p, "notify")
  /\ Step(p, (IF rw THEN <<"wake">> ELSE << >>) \o AfterWrite(p),
          [n |-> th[p].n - th[p].valid,
           res |-> IF th[p].valid = th[p].n THEN "Ok" ELSE th[p].res])
  /\ UNCHANGED <<ring, waits, ends, hist>>

(* ... and take the waiter under its mutex, as wake_all_receivers does *)
Wake(p) ==
  /\ At(p, "wake")
  /\ rw' = FALSE
  /\ th' = [th EXCEPT ![p] = Settled([todo |-> Rest(p)] @@ @), ![C].flag = @ \/ rw]
  /\ UNCHANGED <<ring, awake, sq, aq, ends, hist>>

(* try_send and try_send_batch have no room: try_send_batch first escalates *)
(* from the published window to the drained counter                         *)
Full(p) ==
  /\ \/ At(p, "full") /\ Step(p, << >>, [res |-> "Full"])
     \/ /\ At(p, "escalate")
        /\ IF th[p].cold THEN Step(p, << >>, [res |-> "Full"])
                         ELSE Step(p, TrySendBatch, [cold |-> TRUE])
  /\ UNCHANGED <<ring, waits, ends, hist>>

-----------------------------------------------------------------------------
(* A sender that found the window closed *)

(* The retries of a send on a small channel, before it registers *)
Spin(p) ==
  /\ At(p, "spin")
  /\ IF th[p].spins < SpinLimit
       THEN Step(p, <<"try", "spin">>, [spins |-> th[p].spins + 1])
       ELSE Step(p, SendLoop, [spins |-> 0])
  /\ UNCHANGED <<ring, waits, ends, hist>>

(* awake_acquire: with nobody awake, a sender counts itself *)
Elect(p) ==
  /\ At(p, "elect")
  /\ IF ~th[p].tok /\ ~th[p].reg /\ awake = 0
       THEN awake' = 1 /\ Step(p, Rest(p), [tok |-> TRUE, spins |-> 0])
       ELSE awake' = awake /\ Go(p, Rest(p))
  /\ UNCHANGED <<ring, sq, aq, rw, ends, hist>>

(* awake_step: load drained, then judge how much room there really is *)
AwakeStep(p) ==
  /\ At(p, "step")
  /\ IF th[p].tok THEN Step(p, <<"judge">>, [x |-> drained]) ELSE Go(p, Rest(p))
  /\ UNCHANGED <<ring, waits, ends, hist>>

Judge(p) ==
  /\ At(p, "judge")
  /\ LET free == Sat(Cap, tail - th[p].x)
         publish == progress' = Max2(progress, th[p].x)
         again == [spins |-> th[p].spins + 1]
     IN \/ free >= k /\ publish /\ Step(p, <<"try", "try_cold">> \o SendLoop, again)
        \/ free < k /\ th[p].spins < SpinLimit /\ Step(p, SendLoop, again) /\ UNCHANGED progress
        \/ /\ free < k /\ th[p].spins >= SpinLimit /\ publish
           /\ Step(p, <<"try_cold", "unhold", "wait">>, [cold |-> TRUE])
  /\ UNCHANGED <<tail, drained, retired, table, slot, waits, ends, hist>>

(* Registered: park until notified. Not yet: register_sync_send, loop again *)
WaitLoop(p) == IF th[p].op = "send" THEN SendLoop ELSE WaitWindow
Wait(p) ==
  /\ At(p, "wait")
  /\ \/ /\ th[p].reg /\ th[p].flag
        /\ Step(p, WaitLoop(p), [reg |-> FALSE, flag |-> FALSE, tok |-> TRUE,
                                 cold |-> FALSE, spins |-> 0])
        /\ UNCHANGED sq
     \/ /\ ~th[p].reg
        /\ sq' = Append(sq, p)
        /\ Step(p, WaitLoop(p), [reg |-> TRUE])
  /\ UNCHANGED <<ring, awake, aq, rw, ends, hist>>

(* batch_hold, wait_for_window: when only the drained counter shows room, *)
(* publish_from_drained                                                    *)
Look(p) ==
  /\ At(p, "look") /\ Step(p, Rest(p), [x |-> tail])
  /\ UNCHANGED <<ring, waits, ends, hist>>

Republish(p) ==
  /\ At(p, "republish") /\ Go(p, Rest(p))
  /\ progress' = IF ~Open(th[p].x, progress) /\ Open(th[p].x, drained)
                   THEN Max2(progress, drained) ELSE progress
  /\ UNCHANGED <<tail, drained, retired, table, slot, waits, ends, hist>>

Window(p) ==
  /\ \/ At(p, "window") /\ Step(p, <<"window_look">> \o Rest(p), [x |-> tail])
     \/ /\ At(p, "window_look")
        /\ Go(p, IF Open(th[p].x, progress)
                   THEN (IF th[p].reg THEN <<"finish">> ELSE << >>) \o Program("send_batch")
                   ELSE Rest(p))
  /\ UNCHANGED <<ring, waits, ends, hist>>

(* awake_release: give the count back ... *)
Unhold(p) ==
  /\ At(p, "unhold")
  /\ awake' = IF th[p].tok THEN awake - 1 ELSE awake
  /\ Step(p, (IF th[p].tok THEN <<"released">> ELSE << >>) \o Rest(p), [tok |-> FALSE])
  /\ UNCHANGED <<ring, sq, aq, rw, ends, hist>>

(* ... and, on an empty queue, wake a sender in the receiver's place *)
Released(p) ==
  /\ At(p, "released")
  /\ Go(p, (IF tail = drained THEN <<"gate">> ELSE << >>) \o Rest(p))
  /\ UNCHANGED <<ring, waits, ends, hist>>

Without(q, p) == SelectSeq(q, LAMBDA w : w # p)
Queued(p)     == \E i \in 1 .. Len(sq \o aq) : (sq \o aq)[i] = p

MutFinishForgets(p) ==
  /\ At(p, "finish") /\ (Queued(p) \/ th[p].flag)
  /\ sq' = Without(sq, p) /\ aq' = Without(aq, p)
  /\ Step(p, Rest(p), [reg |-> FALSE, flag |-> FALSE])
  /\ UNCHANGED <<ring, awake, rw, ends, hist>>

(* finish_sync_send, unregister_async_send: out of the queue, or wait for  *)
(* whoever took the waiter, and give back the count they made              *)
Finish(p) ==
  /\ At(p, "finish")
  /\ \/ /\ Queued(p)
        /\ sq' = Without(sq, p) /\ aq' = Without(aq, p)
        /\ Step(p, Rest(p), [reg |-> FALSE])
     \/ /\ ~Queued(p) /\ th[p].flag
        /\ Step(p, <<"unhold">> \o Rest(p), [reg |-> FALSE, flag |-> FALSE, tok |-> TRUE])
        /\ UNCHANGED <<sq, aq>>
  /\ UNCHANGED <<ring, awake, rw, ends, hist>>

-----------------------------------------------------------------------------
(* Send futures *)

(* register_async_send: queue, or learn that the waiter was already taken *)
Register(p) ==
  /\ At(p, "register")
  /\ \/ /\ th[p].reg /\ ~Queued(p) /\ th[p].flag
        /\ Step(p, Program(th[p].op), [reg |-> FALSE, flag |-> FALSE, tok |-> TRUE])
        /\ UNCHANGED aq
     \/ /\ th[p].reg => Queued(p)
        /\ aq' = Append(Without(aq, p), p)
        /\ Step(p, Rest(p), [reg |-> TRUE])
  /\ UNCHANGED <<ring, awake, sq, rw, ends, hist>>

MutNoRecheck(p) ==
  /\ At(p, "recheck") /\ Go(p, <<"pending">>)
  /\ UNCHANGED <<ring, waits, ends, hist>>

(* The window once more, now that the waiter can be seen *)
Recheck(p) ==
  /\ \/ At(p, "recheck") /\ Step(p, <<"recheck_look">>, [x |-> tail])
     \/ /\ At(p, "recheck_look")
        /\ Go(p, IF \/ Open(th[p].x, progress) \/ rdrop
                    \/ ((~Single(th[p].op) \/ k <= ColdLimit) /\ Open(th[p].x, drained))
                   THEN Program(th[p].op) ELSE <<"pending">>)
  /\ UNCHANGED <<ring, waits, ends, hist>>

(* The executor polls a woken future, or polls one for no reason *)
Poll(p) ==
  /\ At(p, "pending")
  /\ IF th[p].reg /\ th[p].flag
       THEN Step(p, Program(th[p].op), [reg |-> FALSE, flag |-> FALSE, tok |-> TRUE])
       ELSE "spurious" \in client.calls[p] /\ Go(p, Program(th[p].op))
  /\ UNCHANGED <<ring, waits, ends, hist>>

(* ... or the future is dropped, possibly already woken *)
Cancel(p) ==
  /\ At(p, "pending") /\ "cancel" \in client.calls[p]
  /\ Step(p, Leave(p), [res |-> "Cancelled"])
  /\ UNCHANGED <<ring, waits, ends, hist>>

-----------------------------------------------------------------------------
(* Waking senders: notify_senders, gated_notify *)

Front(q) == IF q = << >> THEN {} ELSE {q[1]}
Behind(q) == IF q = << >> THEN q ELSE Tail(q)

(* gated_notify, post_drain, the end of awake_release: a wake is due when  *)
(* nobody is awake and somebody waits                                      *)
Gate(t) ==
  /\ \/ At(t, "gate") /\ Go(t, (IF awake = 0 THEN <<"gate_waiters">> ELSE << >>) \o Rest(t))
     \/ /\ At(t, "gate_waiters")
        /\ Go(t, (IF sq # << >> \/ aq # << >> THEN <<"pop">> ELSE << >>) \o Rest(t))
  /\ UNCHANGED <<ring, waits, ends, hist>>

(* The first waiter of each kind, each under its queue's mutex *)
Pop(t) ==
  /\ At(t, "pop")
  /\ sq' = Behind(sq) /\ aq' = Behind(aq)
  /\ Step(t, <<"count">> \o Rest(t), [popped |-> Front(sq) \cup Front(aq)])
  /\ UNCHANGED <<ring, awake, rw, ends, hist>>

(* wake_all_senders, when the receiver goes *)
PopAll ==
  /\ At(C, "pop_all")
  /\ sq' = << >> /\ aq' = << >>
  /\ Step(C, <<"count">>, [popped |-> {p \in Senders : Queued(p)}])
  /\ UNCHANGED <<ring, awake, rw, ends, hist>>

(* wake_popped: count them, then set their flags and unpark or wake them *)
Count(t) ==
  /\ At(t, "count")
  /\ awake' = awake + Cardinality(th[t].popped)
  /\ Go(t, <<"flag">> \o Rest(t))
  /\ UNCHANGED <<ring, sq, aq, rw, ends, hist>>

Flag(t) ==
  /\ At(t, "flag")
  /\ th' = [w \in Thread |-> IF w = t THEN Settled([todo |-> Rest(t), popped |-> {}] @@ th[t])
                             ELSE IF w \in th[t].popped THEN [th[w] EXCEPT !.flag = TRUE]
                             ELSE th[w]]
  /\ UNCHANGED <<ring, waits, ends, hist>>

-----------------------------------------------------------------------------
(* Receiving *)

H == th[C]
Here == slot[Phys(H.pos)]
AtEnd == H.pos - H.cid * ChunkCap = ChunkCap
Resident == table[H.cid % N] = H.cid
CanTake == Resident /\ ~AtEnd /\ Here # EMPTY

(* deq_once_locked, deq_run_locked, one turn of the loop: retire a chunk ... *)
Retire ==
  /\ At(C, "deq") /\ Resident /\ AtEnd
  /\ retired' = H.cid + 1
  /\ Step(C, H.todo, [cid |-> H.cid + 1])
  /\ UNCHANGED <<tail, progress, drained, table, slot, waits, ends, hist>>

(* ... take a value or skip a tombstone, and publish at the cadence ... *)
Take ==
  /\ At(C, "deq") /\ CanTake
  /\ slot' = [slot EXCEPT ![Phys(H.pos)] = EMPTY]
  /\ LET got == IF Here = SKIP THEN H.got ELSE H.got + 1 IN
       /\ recvd' = IF Here = SKIP THEN recvd ELSE [recvd EXCEPT ![Here[1]] = Here[2]]
       /\ Step(C, (IF H.unpub + 1 >= k /\ aq # << >> THEN <<"publish">> ELSE << >>)
                  \o (IF got = H.n THEN <<"drained">> ELSE <<"deq">>) \o Rest(C),
               [pos |-> H.pos + 1, unpub |-> H.unpub + 1, got |-> got])
  /\ UNCHANGED <<tail, progress, drained, retired, table, waits, ends, next>>

Unregister == IF H.reg THEN <<"rfinish">> ELSE << >>
Received   == <<"gate">> \o Unregister \o IF OneItem(H.op) THEN << >> ELSE <<"flush">>

(* ... or stop: enough, or nothing more here. Taken values call post_drain *)
(* and the operation returns them                                          *)
Drained ==
  /\ At(C, "drained") \/ (At(C, "deq") /\ ~CanTake /\ ~(Resident /\ AtEnd))
  /\ drained' = H.pos
  /\ IF H.got > 0 THEN Step(C, Received, [res |-> "Ok"])
     ELSE Step(C, Rest(C), [deq |-> IF H.pos < tail THEN "InFlight" ELSE "Empty"])
  /\ UNCHANGED <<tail, progress, retired, table, slot, waits, ends, hist>>

(* publish_progress, flush_progress *)
Publish ==
  /\ \/ At(C, "publish")
     \/ (At(C, "flush") /\ H.unpub > 0)
  /\ drained' = H.pos /\ progress' = H.pos
  /\ Step(C, <<"gate">> \o Rest(C), [unpub |-> 0])
  /\ UNCHANGED <<tail, retired, table, slot, waits, ends, hist>>

NothingToFlush ==
  /\ At(C, "flush") /\ H.unpub = 0 /\ Go(C, Rest(C))
  /\ UNCHANGED <<ring, waits, ends, hist>>

MutNoStraggler ==
  /\ At(C, "senders")
  /\ IF senders = 0 /\ (OneItem(H.op) => H.deq = "Empty")
       THEN Step(C, Unregister, [res |-> "Disconnected"]) ELSE Go(C, Rest(C))
  /\ UNCHANGED <<ring, waits, ends, hist>>

(* No senders left: one more drain before Disconnected (drain_straggler) *)
SendersGone ==
  /\ At(C, "senders")
  /\ Go(C, IF senders = 0 /\ (OneItem(H.op) => H.deq = "Empty")
             THEN <<"deq">>
                  \o (IF OneItem(H.op) /\ Rest(C) # <<"pending">> THEN <<"flush">> ELSE << >>)
                  \o <<"disconnected">>
             ELSE Rest(C))
  /\ UNCHANGED <<ring, waits, ends, hist>>

GiveUp ==
  /\ \/ At(C, "disconnected") /\ Step(C, Unregister, [res |-> "Disconnected"])
     \/ At(C, "empty") /\ Step(C, << >>, [res |-> "Empty"])
     \/ At(C, "rwait") /\ H.expired /\ Step(C, Unregister, [res |-> "Timeout"])
  /\ UNCHANGED <<ring, waits, ends, hist>>

(* finish_sync_recv, unregister_async_recv *)
RFinish ==
  /\ At(C, "rfinish")
  /\ rw' = FALSE
  /\ Step(C, Rest(C), [reg |-> FALSE, flag |-> FALSE])
  /\ UNCHANGED <<ring, awake, sq, aq, ends, hist>>

(* Blocking: park when registered, else spin or register, and loop *)
RWait ==
  /\ At(C, "rwait") /\ ~H.expired
  /\ \/ H.reg /\ H.flag /\ rw' = FALSE /\ Step(C, Loop(C), [reg |-> FALSE, flag |-> FALSE])
     \/ /\ ~H.reg /\ H.op # "recv_timeout" /\ H.spins < SpinLimit
        /\ Step(C, Loop(C), [spins |-> H.spins + 1]) /\ UNCHANGED rw
     \/ /\ ~H.reg /\ (H.op = "recv_timeout" \/ H.spins >= SpinLimit)
        /\ rw' = TRUE /\ Step(C, Loop(C), [reg |-> TRUE])
  /\ UNCHANGED <<ring, awake, sq, aq, ends, hist>>

(* recv_timeout's deadline passes, whatever it is doing *)
Elapse ==
  /\ H.todo # << >> /\ H.op = "recv_timeout" /\ ~H.expired
  /\ Step(C, H.todo, [expired |-> TRUE])
  /\ UNCHANGED <<ring, waits, ends, hist>>

(* register_async_recv *)
RRegister ==
  /\ At(C, "rregister")
  /\ rw' = TRUE /\ Step(C, Rest(C), [reg |-> TRUE, flag |-> FALSE])
  /\ UNCHANGED <<ring, awake, sq, aq, ends, hist>>

RPoll ==
  /\ At(C, "pending") /\ (H.flag \/ "spurious" \in client.calls[C])
  /\ Step(C, Loop(C), [flag |-> FALSE])
  /\ UNCHANGED <<ring, waits, ends, hist>>

RCancel ==
  /\ At(C, "pending") /\ "cancel" \in client.calls[C]
  /\ Step(C, Unregister, [res |-> "Cancelled"])
  /\ UNCHANGED <<ring, waits, ends, hist>>

-----------------------------------------------------------------------------
SenderStep(p) ==
  \/ DropSender(p) \/ Alive(p) \/ LoadTail(p) \/ WindowOpen(p) \/ Claim(p) \/ CreditOk(p)
  \/ EnsureResident(p) \/ WriteSlot(p) \/ Notify(p) \/ Wake(p) \/ Full(p) \/ Spin(p)
  \/ Elect(p) \/ AwakeStep(p) \/ Judge(p) \/ Wait(p)
  \/ Look(p) \/ Republish(p) \/ Window(p) \/ Unhold(p) \/ Released(p) \/ Finish(p)
  \/ Register(p) \/ Recheck(p) \/ Poll(p) \/ Gate(p) \/ Pop(p) \/ Count(p) \/ Flag(p)

ReceiverStep ==
  \/ Retire \/ Take \/ Drained \/ Publish \/ NothingToFlush \/ SendersGone \/ GiveUp
  \/ RFinish \/ RWait \/ RRegister \/ RPoll \/ Gate(C) \/ Pop(C) \/ PopAll \/ Count(C) \/ Flag(C)

UserStep ==
  \/ \E t \in Thread : \E o \in client.calls[t] \ {"close", "convert", "cancel", "spurious"} :
       Call(t, o)
  \/ \E p \in Senders : CloseSender(p) \/ Cancel(p)
  \/ CloseReceiver \/ Convert \/ RCancel \/ Elapse

(* Nothing left to do: every thread is between calls, or waits for a wake  *)
Blocked(t) ==
  \/ th[t].todo = << >>
  \/ /\ At(t, "wait") \/ At(t, "pending") \/ At(t, "rwait") \/ At(t, "finish")
     /\ th[t].reg /\ ~th[t].flag /\ (At(t, "finish") => ~Queued(t))
Quiet == \A t \in Thread : Blocked(t)
AtBound == \E p \in Senders : At(p, "claim") /\ tail + th[p].m > client.tickets

Next ==
  /\ \/ \E p \in Senders : SenderStep(p)
     \/ ReceiverStep
     \/ UserStep
     \/ (Quiet \/ AtBound) /\ UNCHANGED <<ring, waits, ends, th, hist>>
  /\ UNCHANGED client

Spec == Init /\ [][Next]_vars

-----------------------------------------------------------------------------
Values == {s \in DOMAIN slot : slot[s] \notin {EMPTY, SKIP}}

(* The receiver takes every sender's values in the order they were sent,   *)
(* each exactly once (write_slot, deq_once).                               *)
TakesInOrder == \A p \in Senders : recvd'[p] \in {recvd[p], recvd[p] + 1}

(* Credit before claim keeps at most cap values in the ring, and the id    *)
(* epoch of a chunk keeps a ticket from being written over an unread slot  *)
(* or a slot two writers share (credit_ok, ensure_resident).               *)
RingSafe ==
  /\ Cardinality(Values) <= Cap
  /\ progress <= drained /\ drained <= H.pos /\ H.pos <= tail
  /\ \A p \in Senders :
       At(p, "write") /\ table[ChunkOf(Ticket(p)) % N] = ChunkOf(Ticket(p))
         => /\ slot[Phys(Ticket(p))] = EMPTY
            /\ \A q \in Senders \ {p} : At(q, "write") => Ticket(q) # Ticket(p)

(* awake counts exactly the senders that run on a token, were flagged, or  *)
(* are about to be flagged, as long as there is a receiver to wake them    *)
(* (awake_acquire, awake_release, wake_popped).                            *)
AwakeExact ==
  ~rdrop => awake = Cardinality({p \in Senders : th[p].tok \/ th[p].flag
                         \/ \E t \in Thread : At(t, "flag") /\ p \in th[t].popped})

(* When nothing moves any more, a sender that is parked waits for a queue  *)
(* that holds values or tombstones, or for room the receiver has not yet   *)
(* published (h.unpublished); a parked receiver has no values to take and  *)
(* senders to wait for; nobody waits for a notifier that is gone.          *)
NobodyForgotten ==
  Quiet =>
    /\ \A p \in Senders :
         At(p, "wait") \/ At(p, "pending") =>
           /\ ~rdrop
           /\ tail # drained \/ H.unpub > 0
    /\ At(C, "rwait") \/ At(C, "pending") => Values = {} /\ senders > 0
    /\ \A p \in Senders : ~At(p, "finish")

(* Disconnected is only reported once every value was received             *)
(* (drain_straggler).                                                      *)
DrainedBeforeDisconnected ==
  H.todo = << >> /\ H.res = "Disconnected" => recvd = next
=============================================================================
