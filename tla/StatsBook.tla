------------------------------ MODULE StatsBook -----------------------------
(***************************************************************************)
(* fibre_stats (stats/src/stats.rs): the book of one series.  Threads      *)
(* record observations, the flush thread and the users hand the closed     *)
(* windows to the sink, `stop` and the last handle's drop hand over the    *)
(* rest, and the collect thread runs collectors when the clock says they   *)
(* are due.  A count is a number, a window is the clock divided by the     *)
(* resolution, and a batch is what one drain took out of the book.         *)
(*                                                                         *)
(* Condvar waits run on a monotonic timer; `clock` is the wall clock the   *)
(* schedule is kept in, and may step back.  The collect thread runs as     *)
(* soon as it can: time passes only while it has nothing to do.            *)
(***************************************************************************)
EXTENDS Integers, Sequences, FiniteSets, FiniteSetsExt

CONSTANTS Users, Collectors,
          Clients,      \* [ops, kinds, resolution, cap, interval, maxClock, maxOps, maxSource, start, back]
          None

VARIABLES client, clock, book, sink, arcs, th, stopped, halted, flusher, collect,
          entries, held, timer, source, hist
vars == <<client, clock, book, sink, arcs, th, stopped, halted, flusher, collect,
          entries, held, timer, source, hist>>

Threads == Users \cup {"flush", "collect"}
Windows == 0 .. client.maxClock

(* book: the header of the series, its slot in every window, the last total, the kept samples *)
Empty == [header |-> None, windows |-> [w \in {} |-> 0], total |-> None, high |-> 0, dropped |-> 0, refused |-> 0]
NoBatch == [points |-> [w \in {} |-> 0], high |-> 0, dropped |-> 0]
Idle(pc) == [pc |-> pc, at |-> 0, obs |-> <<"counter", "count">>, n |-> 0, batch |-> NoBatch, deep |-> FALSE,
             left |-> {}, ret |-> pc]

(* Sample::fits: which samples a series of a kind accepts *)
Fits(obs) == obs \in {<<"counter", "count">>, <<"gauge", "int">>, <<"gauge", "float">>}

Window(at) == at \div client.resolution

(* HighRes::push: a full buffer gives up its oldest sample and counts it *)
KeepHighRes(b) ==
  IF client.cap = 0 THEN b
  ELSE IF b.high >= client.cap THEN [b EXCEPT !.dropped = @ + 1] ELSE [b EXCEPT !.high = @ + 1]

(* Agg::start and Agg::absorb: counts add up, a gauge keeps its last level *)
Absorb(b, w, obs, n) ==
  LET was == IF w \in DOMAIN b.windows THEN b.windows[w] ELSE 0
      now == IF obs[1] = "counter" THEN was + n ELSE n
  IN  [b EXCEPT !.windows = [v \in DOMAIN b.windows \cup {w} |-> IF v = w THEN now ELSE b.windows[v]]]

Refused(b, obs) == ~Fits(obs) \/ (b.header # None /\ b.header # obs)

(* Inner::ingest, under the book's lock *)
Ingest(b, obs, at, n, high) ==
  IF Refused(b, obs) THEN [b EXCEPT !.refused = @ + 1]
  ELSE LET a == Absorb([b EXCEPT !.header = obs], Window(at), obs, n)
       IN  IF high THEN KeepHighRes(a) ELSE a

MutTaken(b, deep, current) == {w \in DOMAIN b.windows : w < current}
(* what a drain takes: the windows before the current one, or all of them *)
Taken(b, deep, current) == {w \in DOMAIN b.windows : deep \/ w < current}

Counted(header, points) ==
  IF header # <<"counter", "count">> THEN 0
  ELSE FoldSet(LAMBDA w, sum : sum + points[w], 0, DOMAIN points)

BatchIsEmpty(batch) == DOMAIN batch.points = {} /\ batch.high = 0 /\ batch.dropped = 0

Init ==
  /\ client \in Clients
  /\ clock = client.start
  /\ book = Empty
  /\ sink = [set |-> FALSE, counts |-> 0, high |-> 0]
  /\ arcs = Users
  /\ th = [t \in Threads |-> Idle(IF t \in Users THEN "idle" ELSE "off")]
  /\ stopped = FALSE /\ halted = FALSE
  /\ flusher = FALSE /\ collect = FALSE
  /\ entries = [c \in {} |-> 0] /\ held = None /\ timer = None
  /\ source = 0
  /\ hist = [ops |-> 0, counts |-> 0, high |-> 0, base |-> None, deltas |-> 0, owed |-> [c \in Collectors |-> 0],
             back |-> FALSE, dead |-> FALSE]

Can(u, op) == th[u].pc = "idle" /\ u \in arcs /\ op \in client.ops /\ hist.ops < client.maxOps
Counting == hist' = [hist EXCEPT !.ops = @ + 1]
Sched == <<entries, held, timer, source>>
Threading == <<stopped, halted, flusher, collect>>

(* Metric::observation: the time is read before the book is locked *)
Record(u) ==
  /\ Can(u, "record")
  /\ \E obs \in client.kinds : th' = [th EXCEPT ![u] = [@ EXCEPT !.pc = "ingest", !.at = clock, !.obs = obs, !.n = 1]]
  /\ Counting
  /\ UNCHANGED <<client, clock, book, sink, arcs, Threading, Sched>>

(* Inner::record, and the end of Inner::total, which reads the clock itself and keeps no sample *)
IngestStep(t) ==
  /\ th[t].pc \in {"ingest", "delta"}
  /\ LET own == th[t].pc = "ingest"
         at  == IF own THEN th[t].at ELSE clock
         ok  == ~Refused(book, th[t].obs)
         n   == IF th[t].obs[1] = "counter" /\ ok THEN th[t].n ELSE 0
     IN  /\ book' = Ingest(book, th[t].obs, at, th[t].n, own)
         /\ hist' = [hist EXCEPT !.counts = @ + n, !.high = IF own /\ ok /\ client.cap > 0 THEN @ + 1 ELSE @,
                                 !.deltas = IF own THEN @ ELSE @ + th[t].n]
         /\ th' = [th EXCEPT ![t].pc = IF own THEN "idle" ELSE "run"]
  /\ UNCHANGED <<client, clock, sink, arcs, Threading, Sched>>

(* Stats::start and set_sink *)
SetSink(u) ==
  /\ Can(u, "start")
  /\ \E spawn \in BOOLEAN :
        /\ sink' = [sink EXCEPT !.set = TRUE]
        /\ flusher' = (flusher \/ spawn)
        /\ th' = IF spawn /\ ~flusher THEN [th EXCEPT !["flush"] = Idle("sleep")] ELSE th
  /\ Counting
  /\ UNCHANGED <<client, clock, book, arcs, stopped, halted, collect, Sched>>

(* Inner::flush and final_flush, up to the drain; `ret` is where the thread goes on *)
Flushing(t, deep, ret) ==
  th' = [th EXCEPT ![t] = IF sink.set THEN [@ EXCEPT !.pc = "drain", !.at = clock, !.deep = deep, !.ret = ret]
                          ELSE [@ EXCEPT !.pc = ret]]

Flush(u) ==
  /\ Can(u, "flush") /\ Flushing(u, FALSE, "idle") /\ Counting
  /\ UNCHANGED <<client, clock, book, sink, arcs, Threading, Sched>>

(* Inner::drain: takes the windows and the kept samples under the lock *)
Drain(t) ==
  /\ th[t].pc = "drain"
  /\ LET out == Taken(book, th[t].deep, Window(th[t].at))
     IN  /\ book' = [book EXCEPT !.windows = [w \in DOMAIN @ \ out |-> @[w]], !.high = 0, !.dropped = 0]
         /\ th' = [th EXCEPT ![t].pc = "push",
                             ![t].batch = [points |-> [w \in out |-> book.windows[w]], high |-> book.high,
                                           dropped |-> book.dropped]]
  /\ UNCHANGED <<client, clock, sink, arcs, Threading, Sched, hist>>

(* the batch reaches the sink, if there is anything in it *)
Push(t) ==
  /\ th[t].pc = "push"
  /\ LET batch == th[t].batch
     IN  sink' = IF BatchIsEmpty(batch) THEN sink
                 ELSE [sink EXCEPT !.counts = @ + Counted(book.header, batch.points),
                                   !.high = @ + batch.high + batch.dropped]
  /\ th' = [th EXCEPT ![t].pc = th[t].ret, ![t].batch = NoBatch]
  /\ UNCHANGED <<client, clock, book, arcs, Threading, Sched, hist>>

(* Stats::drain: the caller keeps the batch, as a sink would *)
DrainOut(u) ==
  /\ Can(u, "drain")
  /\ \E deep \in BOOLEAN :
       th' = [th EXCEPT ![u] = [@ EXCEPT !.pc = "drain", !.at = clock, !.deep = deep, !.ret = "idle"]]
  /\ Counting
  /\ UNCHANGED <<client, clock, book, sink, arcs, Threading, Sched>>

(* Condvar::notify_all: a waiting collect thread wakes *)
Told == IF timer = None THEN None ELSE 0

(* Shutdown::signal and Schedule::signal_stop, which takes the schedule's lock *)
Signal == held = None /\ stopped' = TRUE /\ halted' = TRUE /\ timer' = Told
StopCall(u) ==
  /\ Can(u, "stop") /\ Signal /\ Counting
  /\ th' = [th EXCEPT ![u].pc = "joinflush"]
  /\ UNCHANGED <<client, clock, book, sink, arcs, flusher, collect, entries, held, source>>

Ended(t) == th[t].pc \in {"off", "ended"}
JoinFlusher(u) ==
  /\ th[u].pc = "joinflush" /\ (flusher => Ended("flush"))
  /\ flusher' = FALSE /\ th' = [th EXCEPT ![u].pc = "joincollect"]
  /\ UNCHANGED <<client, clock, book, sink, arcs, stopped, halted, collect, Sched, hist>>
JoinCollect(u) ==
  /\ th[u].pc = "joincollect" /\ (collect => Ended("collect"))
  /\ collect' = FALSE /\ Flushing(u, TRUE, "idle")
  /\ UNCHANGED <<client, clock, book, sink, arcs, stopped, halted, flusher, Sched, hist>>

(* an Arc<Inner> goes; the last one runs Inner::drop on the thread it is dropped by *)
Release(t, ret) ==
  /\ arcs' = arcs \ {t}
  /\ IF arcs = {t} THEN Signal /\ Flushing(t, TRUE, "dead") /\ UNCHANGED <<entries, held, source>>
     ELSE th' = [th EXCEPT ![t].pc = ret] /\ UNCHANGED <<stopped, halted, Sched>>
DropHandle(u) ==
  /\ th[u].pc = "idle" /\ u \in arcs /\ "dropped" \in client.ops /\ Release(u, "idle")
  /\ UNCHANGED <<client, clock, book, sink, flusher, collect, hist>>
Died(t) ==
  /\ th[t].pc = "dead"
  /\ hist' = [hist EXCEPT !.dead = TRUE]
  /\ th' = [th EXCEPT ![t].pc = IF t \in Users THEN "idle" ELSE "ended"]
  /\ UNCHANGED <<client, clock, book, sink, arcs, Threading, Sched>>

-----------------------------------------------------------------------------
(* spawn_flusher *)
FlusherWakes ==
  /\ th["flush"].pc = "sleep"
  /\ IF stopped \/ arcs = {} THEN th' = [th EXCEPT !["flush"].pc = "ended"] /\ UNCHANGED arcs
     ELSE arcs' = arcs \cup {"flush"} /\ Flushing("flush", FALSE, "release")
  /\ UNCHANGED <<client, clock, book, sink, Threading, Sched, hist>>
FlusherReleases ==
  /\ th["flush"].pc = "release" /\ Release("flush", "sleep")
  /\ UNCHANGED <<client, clock, book, sink, flusher, collect, hist>>

(* Stats::add_collector: first due after one interval; the waiting thread is told *)
AddCollector(u, c) ==
  /\ Can(u, "add") /\ held = None /\ c \notin DOMAIN entries
  /\ entries' = [d \in DOMAIN entries \cup {c} |-> IF d = c THEN clock + client.interval ELSE entries[d]]
  /\ timer' = Told
  /\ collect' = TRUE
  /\ th' = IF collect THEN th ELSE [th EXCEPT !["collect"] = Idle("check")]
  /\ hist' = [hist EXCEPT !.ops = @ + 1, !.owed[c] = client.interval]
  /\ UNCHANGED <<client, clock, book, sink, arcs, stopped, halted, flusher, held, source>>
RemoveCollector(u, c) ==
  /\ Can(u, "remove") /\ held = None /\ c \in DOMAIN entries
  /\ entries' = [d \in DOMAIN entries \ {c} |-> entries[d]]
  /\ Counting
  /\ UNCHANGED <<client, clock, book, sink, arcs, th, Threading, held, timer, source>>

(* Stats::collect_now: every collector is made due, and run under the lock *)
CollectNow(u) ==
  /\ Can(u, "now") /\ held = None
  /\ entries' = [c \in DOMAIN entries |-> clock]
  /\ held' = u
  /\ th' = [th EXCEPT ![u] = [@ EXCEPT !.pc = "run", !.at = clock, !.left = DOMAIN entries, !.ret = "idle"]]
  /\ Counting
  /\ UNCHANGED <<client, clock, book, sink, arcs, Threading, timer, source>>
(* Stats::collect_due, on the collect thread or on a host's timer *)
CollectDue(t) ==
  /\ th[t].pc = "due" \/ (t \in Users /\ Can(t, "due"))
  /\ held = None /\ held' = t
  /\ th' = [th EXCEPT ![t] = [@ EXCEPT !.pc = "run", !.at = clock, !.left = DOMAIN entries,
                                       !.ret = IF t = "collect" THEN "release" ELSE "idle"]]
  /\ IF t = "collect" THEN UNCHANGED hist ELSE Counting
  /\ UNCHANGED <<client, clock, book, sink, arcs, Threading, entries, timer, source>>

\* Mutant: a due time is left where it is when the clock stepped back.
MutClamp(due, next) == due
(* run_due: a due time further ahead than one interval is pulled in *)
Clamp(due, next) == IF due > next THEN next ELSE due
(* one entry of run_due; a collector that is due reports the running total of its source *)
RunDue(t) ==
  /\ th[t].pc = "run" /\ th[t].left # {}
  /\ \E c \in th[t].left :
       LET next  == th[t].at + client.interval
           due   == Clamp(entries[c], next)
           runs  == due <= th[t].at
           delta == IF source >= book.total THEN source - book.total ELSE source
       IN  /\ entries' = [entries EXCEPT ![c] = IF runs THEN next ELSE due]
           /\ book' = IF runs THEN [book EXCEPT !.total = source] ELSE book
           /\ th' = [th EXCEPT ![t] =
                [@ EXCEPT !.left = @ \ {c},
                          !.pc = IF runs /\ book.total # None THEN "delta" ELSE "run",
                          !.obs = <<"counter", "count">>,
                          !.n = IF runs /\ book.total # None THEN delta ELSE 0]]
           /\ hist' = [hist EXCEPT !.owed[c] = IF runs THEN next - clock ELSE Min({@, next - clock}),
                                   !.base = IF runs /\ book.total = None THEN source ELSE @]
  /\ UNCHANGED <<client, clock, sink, arcs, Threading, held, timer, source>>
RunDone(t) ==
  /\ th[t].pc = "run" /\ th[t].left = {}
  /\ held' = None
  /\ th' = [th EXCEPT ![t].pc = th[t].ret]
  /\ UNCHANGED <<client, clock, book, sink, arcs, Threading, entries, timer, source, hist>>

Ahead(due) == IF due > clock THEN due - clock ELSE 0
(* spawn_collect: how long to wait for the next entry, at most its interval *)
CollectChecks ==
  /\ th["collect"].pc = "check" /\ held = None
  /\ LET waits == {Min({Ahead(entries[c]), client.interval}) : c \in DOMAIN entries}
     IN  /\ th' = [th EXCEPT !["collect"].pc =
                     IF halted THEN "ended" ELSE IF waits = {} THEN "idlewait"
                     ELSE IF Min(waits) > 0 THEN "wait" ELSE "upgrade"]
         /\ timer' = IF halted \/ (waits # {} /\ Min(waits) = 0) THEN None
                     ELSE IF waits = {} THEN client.maxClock + 1 ELSE Min(waits)
  /\ UNCHANGED <<client, clock, book, sink, arcs, Threading, entries, held, source, hist>>

(* what the thread looks at when its wait ends: is an entry due by the clock *)
AnyDue == \E c \in DOMAIN entries : entries[c] <= clock
CollectWakes ==
  /\ th["collect"].pc \in {"wait", "idlewait"} /\ timer = 0 /\ held = None
  /\ th' = [th EXCEPT !["collect"].pc = IF @ = "wait" /\ AnyDue THEN "upgrade" ELSE "check"]
  /\ timer' = None
  /\ UNCHANGED <<client, clock, book, sink, arcs, Threading, entries, held, source, hist>>
CollectUpgrades ==
  /\ th["collect"].pc = "upgrade"
  /\ IF arcs = {} THEN th' = [th EXCEPT !["collect"].pc = "ended"] /\ UNCHANGED arcs
     ELSE arcs' = arcs \cup {"collect"} /\ th' = [th EXCEPT !["collect"].pc = "due"]
  /\ UNCHANGED <<client, clock, book, sink, Threading, Sched, hist>>
CollectReleases ==
  /\ th["collect"].pc = "release" /\ Release("collect", "check")
  /\ UNCHANGED <<client, clock, book, sink, flusher, collect, hist>>

-----------------------------------------------------------------------------
(* Time.  The collect thread is prompt: it is off, ended or in an unexpired wait *)
Prompt == held = None /\ (Ended("collect") \/ (th["collect"].pc \in {"wait", "idlewait"} /\ timer # 0))
Tick ==
  /\ Prompt /\ clock < client.maxClock
  /\ clock' = clock + 1
  /\ timer' = IF timer = None \/ th["collect"].pc = "idlewait" THEN timer ELSE timer - 1
  /\ hist' = [hist EXCEPT !.owed = [c \in Collectors |-> IF c \in DOMAIN entries THEN @[c] - 1 ELSE 0]]
  /\ UNCHANGED <<client, book, sink, arcs, th, Threading, entries, held, source>>
(* the system clock is set back *)
StepBack ==
  /\ ~hist.back /\ client.back > 0 /\ clock >= client.back
  /\ clock' = clock - client.back
  /\ hist' = [hist EXCEPT !.back = TRUE, !.owed = [c \in Collectors |-> @[c] + client.back]]
  /\ UNCHANGED <<client, book, sink, arcs, th, Threading, Sched>>
(* what a PollTotal collector reads *)
SourceGrows ==
  /\ source < client.maxSource /\ source' = source + 1
  /\ UNCHANGED <<client, clock, book, sink, arcs, th, Threading, entries, held, timer, hist>>

Next ==
  \/ \E u \in Users : Record(u) \/ SetSink(u) \/ Flush(u) \/ DrainOut(u) \/ StopCall(u) \/ JoinFlusher(u)
                      \/ JoinCollect(u) \/ DropHandle(u) \/ CollectNow(u)
  \/ \E u \in Users, c \in Collectors : AddCollector(u, c) \/ RemoveCollector(u, c)
  \/ \E t \in Threads : IngestStep(t) \/ Drain(t) \/ Push(t) \/ Died(t) \/ CollectDue(t) \/ RunDue(t) \/ RunDone(t)
  \/ FlusherWakes \/ FlusherReleases \/ CollectChecks \/ CollectWakes \/ CollectUpgrades \/ CollectReleases
  \/ Tick \/ StepBack \/ SourceGrows

Spec == Init /\ [][Next]_vars

-----------------------------------------------------------------------------
InFlight == FoldSet(LAMBDA t, sum : sum + Counted(book.header, th[t].batch.points), 0, Threads)
HighInFlight == FoldSet(LAMBDA t, sum : sum + th[t].batch.high + th[t].batch.dropped, 0, Threads)
DeltaDue == FoldSet(LAMBDA t, sum : sum + (IF th[t].pc = "delta" THEN th[t].n ELSE 0), 0, Threads)

(* Every count accepted is in the book, in a batch on its way or with the  *)
(* sink, and in one of them only; so is every kept sample, counted among   *)
(* the dropped if it had to go; running totals add up to what their source *)
(* grew by; and once the last handle is gone nothing is left in the book.  *)
SamplesCountedOnce ==
  /\ hist.counts = Counted(book.header, book.windows) + InFlight + sink.counts
  /\ hist.high = book.high + book.dropped + HighInFlight + sink.high
  /\ (hist.base # None => hist.deltas + DeltaDue = book.total - hist.base)
  /\ (hist.dead /\ sink.set => hist.counts = sink.counts /\ hist.high = sink.high)

(* A collector runs within one interval of its last run.  When the clock   *)
(* steps back the collect thread waits out the step on top, unless someone *)
(* calls collect_due: from that call it is one interval again.  owed[c] is *)
(* the time the collector may still take by this reckoning.                *)
CollectorsOnTime == \A c \in DOMAIN entries : ~halted /\ arcs # {} => hist.owed[c] >= 0
=============================================================================
