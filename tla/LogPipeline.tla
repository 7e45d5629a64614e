----------------------------- MODULE LogPipeline ----------------------------
(***************************************************************************)
(* fibre_logging from an event to its appenders: the filters built from    *)
(* the loggers (logging/src/init.rs, subscriber/actor.rs), the processor   *)
(* that routes an event (subscriber/processor.rs), the thread behind each  *)
(* appender and the shutdown that joins them (init.rs, lib.rs).            *)
(*                                                                         *)
(* A target and a logger's name are sequences of path segments.  Levels    *)
(* are numbers, higher is more verbose, OFF is 0.  A channel is the        *)
(* bounded queue MpscBounded specifies, a sequence of slots: a sender      *)
(* claims one and writes it in two steps, and the receiver stops at a slot *)
(* in flight between them.  Where events are formatted and errors reported *)
(* is left out.                                                            *)
(***************************************************************************)
EXTENDS Integers, Sequences, SequencesExt, FiniteSets, FiniteSetsExt

CONSTANTS Producers,
          Clients, \* [loggers, appenders, possible, events, maxTime, faults, reportEvery]
          RecvTimeout, FlushInterval, BatchMax,
          None

VARIABLES client, queue, closed, th, writer, drops, shut, clock, hist
vars == <<client, queue, closed, th, writer, drops, shut, clock, hist>>

Root == <<>>
Loggers == client.loggers      \* name :> [level, additive, appenders]
Actors == DOMAIN client.appenders
Of(a) == client.appenders[a]    \* [kind, capacity, overflow]
Threaded == {a \in Actors : Of(a).kind # "custom"}

(* target_matches_prefix and is_ancestor_logger: a whole number of segments *)
Matches(target, name) == IsPrefix(name, target)
Ancestor(name, below) == IsStrictPrefix(name, below)

Owners(a) == {n \in DOMAIN Loggers : a \in Loggers[n].appenders}
(* build_filter_for_appender: the loggers an appender has a rule for *)
Rules(a) == {n \in DOMAIN Loggers \ {Root} :
  n \in Owners(a) \/ (Loggers[n].additive /\ \E o \in Owners(a) : o = Root \/ Ancestor(o, n))}
DefaultLevel(a) == IF Root \in Owners(a) THEN Loggers[Root].level ELSE 0

Longest(names) == IF names = {} THEN None ELSE CHOOSE n \in names : \A m \in names : Len(m) <= Len(n)
(* find_most_specific_rule *)
Rule(a, target) == Longest({n \in Rules(a) : Matches(target, n)})

(* PerAppenderFilter::enabled, and EventProcessor::event_enabled over the appenders *)
Enabled(a, e) == LET r == Rule(a, e.target) IN e.level <= (IF r = None THEN DefaultLevel(a) ELSE Loggers[r].level)
EventEnabled(e) == \E a \in Actors : Enabled(a, e)

(* process_event: the rule that wins over all appenders may shut the others out *)
Winner(target) == Longest({Rule(a, target) : a \in Actors} \ {None})
Gate(target) == LET w == Winner(target) IN IF w # None /\ ~Loggers[w].additive THEN w ELSE None
Receives(a, e) == (Gate(e.target) = None \/ Rule(a, e.target) = Gate(e.target)) /\ Enabled(a, e)
(* bytes go out appender by appender, events to the streams after them *)
Route(e) ==
  LET to == {a \in Actors : Receives(a, e)}
      bytes == {a \in to : Of(a).kind = "bytes"}
  IN  SetToSeq(bytes) \o SetToSeq(to \ bytes)

-----------------------------------------------------------------------------
NoEvent == [target |-> Root, level |-> 0]
Init ==
  /\ client \in Clients
  /\ queue = [a \in Actors |-> <<>>] /\ closed = FALSE
  /\ th = [p \in Producers |-> [pc |-> "idle", id |-> 0, event |-> NoEvent, todo |-> <<>>, total |-> 0]]
  /\ writer = [a \in Threaded |-> [pc |-> "top", left |-> 0, buf |-> <<>>, dirty |-> FALSE, wait |-> 0, flushed |-> 0]]
  /\ drops = [a \in Actors |-> [dropped |-> 0, reported |-> 0, last |-> 0]]
  /\ shut = "no" /\ clock = 0
  /\ hist = [next |-> 1, sent |-> [a \in Actors |-> {}], out |-> [a \in Actors |-> <<>>], failed |-> {}, faults |-> 0,
             reached |-> [i \in {} |-> {}], age |-> [a \in Actors |-> 0],
             behind |-> [a \in Actors |-> {}]]

(* DispatchLayer::on_event and LogHandler::log, past the pre-filter *)
Log(p) ==
  /\ th[p].pc = "idle" /\ hist.next <= client.events
  /\ \E e \in client.possible :
       /\ EventEnabled(e)
       /\ th' = [th EXCEPT ![p] = [@ EXCEPT !.pc = IF Route(e) = <<>> THEN "idle" ELSE "send", !.id = hist.next,
                                            !.event = e, !.todo = Route(e)]]
       /\ hist' = [hist EXCEPT !.next = @ + 1, !.reached = [i \in 1 .. hist.next |->
                     IF i = hist.next THEN [event |-> e, by |-> p, to |-> {}] ELSE @[i]]]
  /\ UNCHANGED <<client, queue, closed, writer, drops, shut, clock>>

Ended(a) == a \in Threaded /\ writer[a].pc = "ended"
Full(a) == Len(queue[a]) >= Of(a).capacity
(* deq_once: Got, and not Empty or InFlight *)
Ready(a) == queue[a] # <<>> /\ Head(queue[a]).written
To(p) == Head(th[p].todo)
SentOn(p) == [th EXCEPT ![p].todo = Tail(@), ![p].pc = IF Len(th[p].todo) = 1 THEN "idle" ELSE "send"]
Offered(p, h) == [h EXCEPT !.reached[th[p].id].to = @ \cup {To(p)}]

(* send_bytes, send_event: the channel has room; try_send_now claims a slot, *)
Claim(p) ==
  /\ (th[p].pc = "send" /\ ~closed) \/ th[p].pc = "blocked"
  /\ ~Ended(To(p)) /\ ~Full(To(p))
  /\ queue' = [queue EXCEPT ![To(p)] = Append(@, [id |-> th[p].id, written |-> FALSE])]
  /\ th' = [th EXCEPT ![p].pc = "claimed"]
  /\ UNCHANGED <<client, closed, writer, drops, shut, clock, hist>>
(* and write_slot fills it: a send that returned before the shutdown is owed *)
Accept(p) ==
  /\ th[p].pc = "claimed"
  /\ queue' = [queue EXCEPT ![To(p)] =
       [k \in DOMAIN @ |-> IF @[k].id = th[p].id THEN [@[k] EXCEPT !.written = TRUE] ELSE @[k]]]
  /\ hist' = Offered(p, [hist EXCEPT !.sent[To(p)] = IF shut = "no" THEN @ \cup {th[p].id} ELSE @])
  /\ th' = SentOn(p)
  /\ UNCHANGED <<client, closed, writer, drops, shut, clock>>
(* OverflowPolicy::Block on a full channel: the caller waits for room *)
Block(p) ==
  /\ th[p].pc = "send" /\ ~closed /\ ~Ended(To(p)) /\ Full(To(p)) /\ Of(To(p)).overflow = "Block"
  /\ th' = [th EXCEPT ![p].pc = "blocked"]
  /\ UNCHANGED <<client, queue, closed, writer, drops, shut, clock, hist>>
(* a send error: the channel is closed or its receiver is gone *)
Reject(p) ==
  /\ th[p].pc \in {"send", "blocked"} /\ (closed \/ Ended(To(p)))
  /\ hist' = Offered(p, hist)
  /\ th' = SentOn(p)
  /\ UNCHANGED <<client, queue, closed, writer, drops, shut, clock>>

(* OverflowPolicy::DropNewest on a full channel: DropCounter::record counts the drop, *)
DropNewest(p) ==
  /\ th[p].pc = "send" /\ ~closed /\ ~Ended(To(p)) /\ Full(To(p)) /\ Of(To(p)).overflow = "DropNewest"
  /\ drops' = [drops EXCEPT ![To(p)].dropped = @ + 1]
  /\ hist' = Offered(p, hist)
  /\ th' = [th EXCEPT ![p].pc = "gate", ![p].total = drops[To(p)].dropped + 1]
  /\ UNCHANGED <<client, queue, closed, writer, shut, clock>>
(* one thread an interval wins the right to report, *)
ReportGate(p) ==
  /\ th[p].pc = "gate"
  /\ IF clock - drops[To(p)].last >= client.reportEvery
     THEN drops' = [drops EXCEPT ![To(p)].last = clock] /\ th' = [th EXCEPT ![p].pc = "report"]
     ELSE th' = SentOn(p) /\ UNCHANGED drops
  /\ UNCHANGED <<client, queue, closed, writer, shut, clock, hist>>
(* and swaps in the total it saw *)
Report(p) ==
  /\ th[p].pc = "report"
  /\ drops' = [drops EXCEPT ![To(p)].reported = th[p].total]
  /\ th' = SentOn(p)
  /\ UNCHANGED <<client, queue, closed, writer, shut, clock, hist>>

-----------------------------------------------------------------------------
(* the threads behind the appenders: run_byte_appender_writer and the debug report's collector *)
Go(a, w) == writer' = [writer EXCEPT ![a] = w]
WriterTop(a) ==
  /\ writer[a].pc = "top"
  /\ Go(a, [writer[a] EXCEPT !.pc = IF shut # "no" THEN "final" ELSE "recv", !.wait = RecvTimeout])
  /\ UNCHANGED <<client, queue, closed, th, drops, shut, clock, hist>>

(* write_one: into the buffer, or an error that is reported; the collector just keeps the event *)
WriteOne(a, pc, left) ==
  /\ Ready(a)
  /\ queue' = [queue EXCEPT ![a] = Tail(@)]
  /\ LET id == Head(queue[a]).id
         w  == [writer[a] EXCEPT !.pc = pc, !.left = left]
     IN  \/ /\ Of(a).kind = "debug"
            /\ Go(a, w) /\ hist' = [hist EXCEPT !.out[a] = Append(@, id)]
         \/ /\ Of(a).kind = "bytes"
            /\ Go(a, [w EXCEPT !.buf = Append(@, id), !.dirty = TRUE]) /\ UNCHANGED hist
         \/ /\ Of(a).kind = "bytes" /\ hist.faults < client.faults
            /\ Go(a, w) /\ hist' = [hist EXCEPT !.failed = @ \cup {id}, !.faults = @ + 1]
  /\ UNCHANGED <<client, closed, th, drops, shut, clock>>

(* what the receiver cannot reach: the first slot in flight and everything after it *)
Behind(a) == {queue[a][k].id : k \in {k \in DOMAIN queue[a] : \E j \in 1 .. k : ~queue[a][j].written}}
(* flush: what is buffered reaches the file; a failure keeps it dirty *)
FlushIf(a, wanted, pc) ==
  LET w == [writer[a] EXCEPT !.pc = pc]
      h == [hist EXCEPT !.behind[a] = IF pc = "ended" THEN Behind(a) ELSE @]
      lost == IF pc = "ended" THEN {w.buf[i] : i \in DOMAIN w.buf} ELSE {}
  IN  /\ UNCHANGED <<client, queue, closed, th, drops, shut, clock>>
      /\ \/ ~wanted /\ Go(a, w) /\ hist' = h
         \/ /\ wanted /\ Go(a, [w EXCEPT !.buf = <<>>, !.dirty = FALSE, !.flushed = clock])
            /\ hist' = [h EXCEPT !.out[a] = @ \o w.buf, !.age[a] = 0]
         \/ /\ wanted /\ hist.faults < client.faults /\ Go(a, w)
            /\ hist' = [h EXCEPT !.faults = @ + 1, !.failed = @ \cup lost]

WriterRecv(a) == writer[a].pc = "recv" /\ WriteOne(a, "batch", BatchMax)
WriterBatch(a) == writer[a].pc = "batch" /\ (Of(a).kind = "debug" \/ writer[a].left > 0) /\ WriteOne(a, "batch", writer[a].left - 1)
\* Mutant: a flush only when more than the interval has passed.
MutDue(a) == writer[a].dirty /\ clock - writer[a].flushed > FlushInterval
(* under load, on a message: a flush when MAX_FLUSH_INTERVAL has passed since the last *)
Due(a) == writer[a].dirty /\ clock - writer[a].flushed >= FlushInterval
WriterBatchEnds(a) ==
  /\ writer[a].pc = "batch" /\ (~Ready(a) \/ (Of(a).kind = "bytes" /\ writer[a].left = 0))
  /\ FlushIf(a, Due(a), "top")
(* the receive timed out: idle, so everything goes to disk *)
WriterTimeout(a) == writer[a].pc = "recv" /\ ~Ready(a) /\ writer[a].wait = 0 /\ FlushIf(a, writer[a].dirty, "top")
WriterDisconnected(a) ==
  /\ writer[a].pc = "recv" /\ queue[a] = <<>> /\ closed
  /\ Go(a, [writer[a] EXCEPT !.pc = "final"])
  /\ UNCHANGED <<client, queue, closed, th, drops, shut, clock, hist>>
(* the final drain, then the final flush *)
FinalDrain(a) == writer[a].pc = "final" /\ WriteOne(a, "final", 0)
MutDrained(a) == TRUE
(* try_recv fails: the channel is empty, or the next slot is in flight *)
Drained(a) == ~Ready(a)
FinalFlush(a) == writer[a].pc = "final" /\ Drained(a) /\ FlushIf(a, writer[a].dirty, "ended")

(* the application reads its custom stream *)
Consume(a) ==
  /\ a \notin Threaded /\ Ready(a)
  /\ queue' = [queue EXCEPT ![a] = Tail(@)]
  /\ hist' = [hist EXCEPT !.out[a] = Append(@, Head(queue[a]).id)]
  /\ UNCHANGED <<client, closed, th, writer, drops, shut, clock>>

-----------------------------------------------------------------------------
(* InitResult::shutdown_impl: signal, close the channels, join with a deadline *)
Signal == shut = "no" /\ shut' = "signalled" /\ UNCHANGED <<client, queue, closed, th, writer, drops, clock, hist>>
(* EventProcessor::close_channels *)
CloseChannels ==
  /\ shut = "signalled" /\ shut' = "joining" /\ closed' = TRUE
  /\ UNCHANGED <<client, queue, th, writer, drops, clock, hist>>
Joined ==
  /\ shut = "joining" /\ (\A a \in Threaded : Ended(a)) /\ shut' = "done"
  /\ UNCHANGED <<client, queue, closed, th, writer, drops, clock, hist>>
Abandon ==
  /\ shut = "joining" /\ (\E a \in Threaded : ~Ended(a)) /\ shut' = "abandoned"
  /\ UNCHANGED <<client, queue, closed, th, writer, drops, clock, hist>>

(* Time passes only while every thread behind an appender has nothing to do *)
Waiting(a) == Ended(a) \/ (writer[a].pc = "recv" /\ ~Ready(a) /\ writer[a].wait > 0 /\ ~(closed /\ queue[a] = <<>>))
Tick ==
  /\ clock < client.maxTime /\ \A a \in Threaded : Waiting(a)
  /\ clock' = clock + 1
  /\ writer' = [a \in Threaded |-> [writer[a] EXCEPT !.wait = IF @ > 0 THEN @ - 1 ELSE 0]]
  /\ hist' = [hist EXCEPT !.age = [a \in Actors |-> IF a \in Threaded /\ writer[a].buf # <<>> THEN @[a] + 1 ELSE 0]]
  /\ UNCHANGED <<client, queue, closed, th, drops, shut>>

Next ==
  \/ \E p \in Producers : Log(p) \/ Claim(p) \/ Accept(p) \/ Block(p) \/ Reject(p) \/ DropNewest(p) \/ ReportGate(p) \/ Report(p)
  \/ \E a \in Threaded : WriterTop(a) \/ WriterRecv(a) \/ WriterBatch(a) \/ WriterBatchEnds(a) \/ WriterTimeout(a)
                         \/ WriterDisconnected(a) \/ FinalDrain(a) \/ FinalFlush(a)
  \/ \E a \in Actors : Consume(a)
  \/ Signal \/ CloseChannels \/ Joined \/ Abandon \/ Tick
Spec == Init /\ [][Next]_vars

-----------------------------------------------------------------------------
(* What the documentation promises: the most specific logger over all of   *)
(* them decides the level, and, when it is additive, its ancestors' and    *)
(* root's appenders receive the event beside its own.                      *)
Promised(e) ==
  LET l == Longest({n \in DOMAIN Loggers : Matches(e.target, n)})
      from == IF Loggers[l].additive THEN {n \in DOMAIN Loggers : IsPrefix(n, l)} ELSE {l}
  IN  IF e.level > Loggers[l].level THEN {} ELSE UNION {Loggers[n].appenders : n \in from}

(* An event goes to the appenders its loggers promise, and to no other.    *)
(* Once the thread behind an appender has ended, everything sent to it     *)
(* before the shutdown is in the file, unless the write or the flush of it *)
(* failed, or another producer's send was in flight in a slot before it    *)
(* when the last drain ended: that drain takes the gap for the end of the  *)
(* queue.  Nothing is written twice, and no producer's events change       *)
(* places.                                                                 *)
EventsDelivered ==
  /\ \A i \in DOMAIN hist.reached :
       LET r == hist.reached[i]
       IN  r.to = Promised(r.event) \/ (th[r.by].id = i /\ r.to \cup {th[r.by].todo[k] : k \in DOMAIN th[r.by].todo} = Promised(r.event))
  /\ \A a \in Threaded : Ended(a) => hist.sent[a] \subseteq {hist.out[a][k] : k \in DOMAIN hist.out[a]} 
                                                        \cup hist.failed \cup hist.behind[a]
  /\ \A a \in Actors : \A j, k \in DOMAIN hist.out[a] :
       j < k => LET x == hist.out[a][j]
                    y == hist.out[a][k]
                IN  x # y /\ (hist.reached[x].by = hist.reached[y].by => x < y)

(* Until the shutdown no message disappears uncounted: what an appender    *)
(* was offered is on its way, out, failed to be written, or in the count   *)
(* of its drops.                                                           *)
DropsCounted ==
  shut = "no" => \A a \in Actors :
    LET offered == {i \in DOMAIN hist.reached : a \in hist.reached[i].to}
        buffered == IF a \in Threaded THEN writer[a].buf ELSE <<>>
        kept == {queue[a][k].id : k \in DOMAIN queue[a]} \cup ToSet(buffered) \cup ToSet(hist.out[a]) \cup hist.failed
    IN  Cardinality(offered \ kept) = drops[a].dropped

(* As long as flushes succeed, no byte waits in the buffer for as long as  *)
(* MAX_FLUSH_INTERVAL and the receive timeout together, be the load        *)
(* sustained or not: the last message that found the interval not yet over *)
(* is followed by another or by the timeout.                               *)
NeverFarBehind == hist.faults = 0 => \A a \in Threaded : hist.age[a] < FlushInterval + RecvTimeout
=============================================================================
