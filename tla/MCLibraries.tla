---------------------------- MODULE MCLibraries -----------------------------
(***************************************************************************)
(* The crates beside the channels; `which` says what a behaviour is about. *)
(* fibre_cache: one shard under each eviction policy and with each kind of *)
(* lifetime, the two implementations of S3-FIFO side by side, loading, the *)
(* pool that runs loaders, iteration, and the calls that lock every shard. *)
(* fibre_stats: the book and its histogram. fibre_logging: dispatch and    *)
(* the rolling file. fibre_tracing. fibre_ioc.                             *)
(***************************************************************************)
EXTENDS CacheLoads, TLC

CONSTANTS cp, cq, cr, cw, none, alias, dead   \* model values

(* What a behaviour is about keeps its variables in m1, m2, ... *)
VARIABLES which, m1, m2, m3, m4, m5, m6, m7, m8, m9, m10, m11, m12, m13, m14, m15

AKey == {"a", "b", "c"}
Cost == "a" :> 1 @@ "b" :> 1 @@ "c" :> 2

(* Shard: c costs two of a budget of three. Under the policies the cost of *)
(* a key may change: a may get heavier than the budget, and b lighter.     *)
Changing == "a" :> {1, 4} @@ "b" :> {1, 2} @@ "c" :> {2}
Lighter  == "a" :> {1, 3} @@ "b" :> {2} @@ "c" :> {2}
Base ==
  [kind |-> "lru", budget |-> 3, costs |-> [k \in AKey |-> {Cost[k]}], ttl |-> 0, tti |-> 0,
   ttls |-> {}, grace |-> 0, clockTick |-> 1, maxTime |-> 1, hash |-> [k \in AKey |-> k],
   logSlots |-> 1, ops |-> {"insert", "fetch", "remove", "clear"}, keys |-> AKey, users |-> {"u"}]
Two == {"a", "b"}

PolicyClients ==
  {[Base EXCEPT !.kind = kind, !.costs = Changing, !.users = {"u", "v"}] :
     kind \in {"lru", "fifo", "random", "slru", "tinylfu", "htinylfu"}}
  \cup {[Base EXCEPT !.kind = kind, !.costs = Changing] : kind \in {"clock", "sieve", "hs3fifo"}}
  \cup {[Base EXCEPT !.kind = "s3fifo", !.keys = Two, !.budget = 2],
         [Base EXCEPT !.kind = "s3fifo", !.keys = Two, !.costs = Changing, !.ops = {"insert", "remove"}],
         [Base EXCEPT !.kind = "fifo", !.costs = Lighter]}

(* two keys under one hash, timers of less and of more than a turn of the wheel *)
TtlClients == {
  [Base EXCEPT !.kind = "null", !.keys = Two, !.ttls = {1, 4}, !.grace = 1, !.maxTime = 6, !.logSlots = 0,
     !.hash = [k \in AKey |-> 0], !.ops = {"insert_with_ttl", "remove", "janitor"}]}

IdleClients == {
  [Base EXCEPT !.tti = 2, !.keys = Two, !.maxTime = 6, !.ops = {"insert", "fetch", "janitor", "refresh"}]}

CallClients == {
  [Base EXCEPT !.budget = 2, !.ttl = 2, !.keys = Two, !.maxTime = 4,
     !.ops = {"insert", "entry", "multi", "restore", "clear", "maintain"}]}

ShardClients == PolicyClients \cup TtlClients \cup IdleClients \cup CallClients

(* Loading: one thread and one task; sync and async loaders; at most one refresh at a time *)
Loading ==
  [keys |-> {"a"}, loader |-> "sync", async |-> {cq}, cancels |-> {}, drops |-> FALSE, panics |-> FALSE,
   limit |-> 1, maxLoads |-> 2, ages |-> {"a"}, first |-> "stale"]
LoadClients == {
  Loading,
  [Loading EXCEPT !.loader = "async", !.drops = TRUE, !.panics = TRUE, !.ages = {}, !.first = "none"],
  [Loading EXCEPT !.keys = Two, !.ages = {}],
  [Loading EXCEPT !.panics = TRUE, !.cancels = {cq}, !.ages = {}, !.first = "none"]}

(* Shards of an iterated cache; who stops the world, and who by the async handle *)
HomeShard == "a" :> 1 @@ "b" :> 2 @@ "c" :> 2
Calling == {[who |-> {cp, cq, cr}, async |-> a] : a \in {{}, {cq}, {cq, cr}, {cp, cq, cr}}}

(* fibre_stats: recording and handing over, and collecting *)
Recording ==
  [ops |-> {"record", "start", "flush", "drain", "stop", "dropped"},
   kinds |-> {<<"counter", "count">>, <<"gauge", "int">>, <<"counter", "int">>},
   resolution |-> 1, cap |-> 1, interval |-> 1, maxClock |-> 1, maxOps |-> 3, maxSource |-> 0, start |-> 0, back |-> 0]
Collecting ==
  [Recording EXCEPT !.ops = {"start", "add", "now", "stop"}, !.kinds = {}, !.interval = 2, !.maxClock = 3,
                    !.maxSource = 1, !.cap = 0]
StatsClients == {
  Recording, Collecting,
  [Collecting EXCEPT !.ops = {"add", "due", "remove", "dropped"}, !.maxOps = 2, !.maxClock = 6, !.maxSource = 0,
                       !.start = 3, !.back = 3],
  [Collecting EXCEPT !.ops = {"add", "remove"}, !.interval = 1, !.maxSource = 0]}

(* fibre_logging: one file under load and under failures, and three appenders of three kinds *)
Logger(level, additive, appenders) == [level |-> level, additive |-> additive, appenders |-> appenders]
Appender(kind, capacity, overflow) == [kind |-> kind, capacity |-> capacity, overflow |-> overflow]
Event(target, level) == [target |-> target, level |-> level]
Loaded ==
  [loggers |-> <<>> :> Logger(1, TRUE, {"f"}), appenders |-> "f" :> Appender("bytes", 1, "Block"),
   possible |-> {Event(<<"a">>, 1)}, events |-> 3, maxTime |-> 0, faults |-> 0, reportEvery |-> 1]
Routed ==
  [Loaded EXCEPT
     !.loggers = <<>> :> Logger(1, TRUE, {"f"}) @@ <<"a">> :> Logger(2, FALSE, {"d"}) @@ <<"a", "b">> :> Logger(1, TRUE, {"c"}),
     !.appenders = "f" :> Appender("bytes", 1, "Block") @@ "d" :> Appender("debug", 1, "Block")
                   @@ "c" :> Appender("custom", 2, "DropNewest"),
     !.possible = {Event(<<"a">>, 2), Event(<<"a", "b">>, 1), Event(<<"a", "b", "c">>, 2), Event(<<"c">>, 1)},
     !.events = 1, !.maxTime = 0]
LogClients == {
  Loaded, [Loaded EXCEPT !.events = 2, !.maxTime = 4],
  [Loaded EXCEPT !.appenders = "f" :> Appender("bytes", 2, "Block"), !.events = 2, !.maxTime = 2],
  Routed, [Routed EXCEPT !.possible = {Event(<<"a">>, 2)}, !.events = 2],
  [Loaded EXCEPT !.appenders = "f" :> Appender("bytes", 1, "DropNewest"), !.faults = 1, !.events = 2, !.maxTime = 1]}

Policy ==
  [maxSize |-> 1, retained |-> 2, uncompressed |-> 1, maxTime |-> 2, perPeriod |-> 1, records |-> 4, crashes |-> 1, faults |-> 1]
RollPolicies == {Policy, [Policy EXCEPT !.perPeriod = none, !.maxSize = 2, !.records = 5],
                 [Policy EXCEPT !.maxSize = none, !.retained = none]}

(* fibre_ioc: dependencies without and with a circle *)
Services == {"a", "b", "c"}
Chain ==
  [keys |-> Services, shard |-> [k \in Services |-> IF k = "c" THEN 2 ELSE 1],
   kind |-> [k \in Services |-> IF k = "b" THEN "transient" ELSE "singleton"],
   needs |-> "a" :> <<"b", "c">> @@ "b" :> <<"c">> @@ "c" :> <<>>, gets |-> 3, registrations |-> 1]
Circle == [Chain EXCEPT !.needs = "a" :> <<"c">> @@ "b" :> <<"a">> @@ "c" :> <<"b">>, !.gets = 2]
IocClients == {Chain, Circle, [Chain EXCEPT !.kind = "a" :> "singleton" @@ "b" :> none @@ "c" :> none, !.gets = 2]}

Shard == INSTANCE CacheShard WITH Keys <- AKey, Clients <- ShardClients, Users <- {"u", "v"}, None <- none,
    Alias <- alias, Stale <- dead, CompactSlack <- 0, WheelLen <- 2, TickNs <- 2, Never <- 99, client <- m1,
    sh <- m2, now <- m3, clock <- m4, total <- m5, th <- m6, jan <- m7
S3 == INSTANCE EvictionPolicies WITH Keys <- AKey, Stale <- dead, CompactSlack <- 0
Pool == INSTANCE LoadPool WITH Submitters <- {"s", "t"}, Threads <- {1, 2, 3}, MaxWorkers <- 2,
    MaxJobs <- 3, jobs <- m1, count <- m2, sub <- m3, worker <- m4, made <- m5
Iter == INSTANCE CacheIter WITH Home <- HomeShard, BatchSize <- 2, MaxWrites <- 3,
    Kinds <- {"iter", "stream", "snapshot", "async_snapshot"}, table <- m1, expired <- m2, it <- m3,
    writes <- m4, stable <- m5
World == INSTANCE StopTheWorld WITH Parties <- Calling, Shards <- 1..3, Stoppers <- {cp, cq, cr}, Writers <- {cw},
    None <- none, party <- m1, holder <- m2, op <- m3
Stats == INSTANCE StatsBook WITH Users <- {cp, cq}, Collectors <- {"c"}, Clients <- StatsClients,
    None <- none, client <- m1, clock <- m2, book <- m3, sink <- m4, arcs <- m5, th <- m6, stopped <- m7,
    halted <- m8, flusher <- m9, collect <- m10, entries <- m11, held <- m12, timer <- m13, source <- m14,
    hist <- m15
Buckets == INSTANCE Histogram WITH WordBits <- 8, FirstValues <- 0 .. 255,
    MoreValues <- {0, 7, 17, 35, 143, 255}, MaxValues <- 3, hist <- m1, seen <- m2
Logs == INSTANCE LogPipeline WITH Producers <- {cp, cq}, Clients <- LogClients, RecvTimeout <- 2,
    FlushInterval <- 2, BatchMax <- 1, None <- none, client <- m1, queue <- m2, closed <- m3, th <- m4,
    writer <- m5, drops <- m6, shut <- m7, clock <- m8, hist <- m9
Roll == INSTANCE LogRoller WITH Policies <- RollPolicies, None <- none, policy <- m1, now <- m2,
    files <- m3, active <- m4, roller <- m5, hist <- m6
Spans == INSTANCE SpanTraces WITH Threads <- {cp, cq}, Spans <- {"s", "t", "u"}, Ring <- 1, None <- none,
    reg <- m1, th <- m2, belongs <- m3, open <- m4, finished <- m5, hist <- m6
Ioc == INSTANCE Container WITH Threads <- {cp, cq}, Clients <- IocClients, None <- none, client <- m1,
    providers <- m2, th <- m3, hist <- m4

mcvars == <<which, vars, m1, m2, m3, m4, m5, m6, m7, m8, m9, m10, m11, m12, m13, m14, m15>>

(* Only what a behaviour is about moves: the rest stays as it is, no load begun. *)
MCInit ==
  /\ Init
  /\ \/ which = "loads" /\ m1 = 0 /\ m2 = 0 /\ m3 = 0 /\ m4 = 0 /\ m5 = 0 /\ m6 = 0 /\ m7 = 0 /\ m8 = 0
          /\ m9 = 0 /\ m10 = 0 /\ m11 = 0 /\ m12 = 0 /\ m13 = 0 /\ m14 = 0 /\ m15 = 0
     \/ which = "shard" /\ Shard!Init /\ m8 = 0 /\ m9 = 0 /\ m10 = 0 /\ m11 = 0 /\ m12 = 0 /\ m13 = 0
          /\ m14 = 0 /\ m15 = 0
     \/ which = "twins" /\ m1 = S3!NewTwins(2) /\ m2 = 0 /\ m3 = 0 /\ m4 = 0 /\ m5 = 0 /\ m6 = 0 /\ m7 = 0
          /\ m8 = 0 /\ m9 = 0 /\ m10 = 0 /\ m11 = 0 /\ m12 = 0 /\ m13 = 0 /\ m14 = 0 /\ m15 = 0
     \/ which = "pool" /\ Pool!Init /\ m6 = 0 /\ m7 = 0 /\ m8 = 0 /\ m9 = 0 /\ m10 = 0 /\ m11 = 0 /\ m12 = 0
          /\ m13 = 0 /\ m14 = 0 /\ m15 = 0
     \/ which = "iter" /\ Iter!Init /\ m6 = 0 /\ m7 = 0 /\ m8 = 0 /\ m9 = 0 /\ m10 = 0 /\ m11 = 0 /\ m12 = 0
          /\ m13 = 0 /\ m14 = 0 /\ m15 = 0
     \/ which = "world" /\ World!Init /\ m4 = 0 /\ m5 = 0 /\ m6 = 0 /\ m7 = 0 /\ m8 = 0 /\ m9 = 0 /\ m10 = 0
          /\ m11 = 0 /\ m12 = 0 /\ m13 = 0 /\ m14 = 0 /\ m15 = 0
     \/ which = "stats" /\ Stats!Init
     \/ which = "buckets" /\ Buckets!Init /\ m3 = 0 /\ m4 = 0 /\ m5 = 0 /\ m6 = 0 /\ m7 = 0 /\ m8 = 0
          /\ m9 = 0 /\ m10 = 0 /\ m11 = 0 /\ m12 = 0 /\ m13 = 0 /\ m14 = 0 /\ m15 = 0
     \/ which = "logs" /\ Logs!Init /\ m10 = 0 /\ m11 = 0 /\ m12 = 0 /\ m13 = 0 /\ m14 = 0 /\ m15 = 0
     \/ which = "roll" /\ Roll!Init /\ m7 = 0 /\ m8 = 0 /\ m9 = 0 /\ m10 = 0 /\ m11 = 0 /\ m12 = 0
          /\ m13 = 0 /\ m14 = 0 /\ m15 = 0
     \/ which = "spans" /\ Spans!Init /\ m7 = 0 /\ m8 = 0 /\ m9 = 0 /\ m10 = 0 /\ m11 = 0 /\ m12 = 0
          /\ m13 = 0 /\ m14 = 0 /\ m15 = 0
     \/ which = "ioc" /\ Ioc!Init /\ m5 = 0 /\ m6 = 0 /\ m7 = 0 /\ m8 = 0 /\ m9 = 0 /\ m10 = 0 /\ m11 = 0
          /\ m12 = 0 /\ m13 = 0 /\ m14 = 0 /\ m15 = 0
  /\ which # "loads" => client = Loading

MCNext ==
  \/ which = "loads" /\ Next /\ UNCHANGED <<which, m1, m2, m3, m4, m5, m6, m7, m8, m9, m10, m11, m12, m13,
       m14, m15>>
  \/ which = "shard" /\ Shard!Next /\ UNCHANGED <<which, vars, m8, m9, m10, m11, m12, m13, m14, m15>>
  \/ which = "twins" /\ m1' \in S3!TwinSteps(m1, {1}) /\ UNCHANGED <<which, vars, m2, m3, m4, m5, m6, m7, m8, m9, m10, m11, m12,
       m13, m14, m15>>
  \/ which = "pool" /\ Pool!Next /\ UNCHANGED <<which, vars, m6, m7, m8, m9, m10, m11, m12, m13, m14, m15>>
  \/ which = "iter" /\ Iter!Next /\ UNCHANGED <<which, vars, m6, m7, m8, m9, m10, m11, m12, m13, m14, m15>>
  \/ which = "world" /\ World!Next /\ UNCHANGED <<which, vars, m4, m5, m6, m7, m8, m9, m10, m11, m12, m13,
       m14, m15>>
  \/ which = "stats" /\ Stats!Next /\ UNCHANGED <<which, vars>>
  \/ which = "buckets" /\ Buckets!Next /\ UNCHANGED <<which, vars, m3, m4, m5, m6, m7, m8, m9, m10, m11,
       m12, m13, m14, m15>>
  \/ which = "logs" /\ Logs!Next /\ UNCHANGED <<which, vars, m10, m11, m12, m13, m14, m15>>
  \/ which = "roll" /\ Roll!Next /\ UNCHANGED <<which, vars, m7, m8, m9, m10, m11, m12, m13, m14, m15>>
  \/ which = "spans" /\ Spans!Next /\ UNCHANGED <<which, vars, m7, m8, m9, m10, m11, m12, m13, m14, m15>>
  \/ which = "ioc" /\ Ioc!Next /\ UNCHANGED <<which, vars, m5, m6, m7, m8, m9, m10, m11, m12, m13, m14,
       m15>>

MCSpec == MCInit /\ [][MCNext]_mcvars

(* The shard alone, under FIFO, with an entry that may become lighter *)
FifoSpec == MCInit /\ which = "shard" /\ m1.kind = "fifo" /\ m1.costs = Lighter /\ [][MCNext]_mcvars

-----------------------------------------------------------------------------
(* Shard: the policy can choose every resident entry and nothing else, the *)
(* metrics differ from the cost of the entries by what removals have still *)
(* to subtract, and there is one timer for each entry with a lifetime, at  *)
(* the right tick.                                                         *)
ShardConsistent == which = "shard" => Shard!PolicyTracksTable /\ Shard!Accounting /\ Shard!TimersMatch

(* Shard: an insert returns within the capacity unless the policy believed *)
(* an entry heavier than it was, which five of the policies never do, or   *)
(* HTinyLfu holds an entry heavier than the whole budget in its window.    *)
CapacityHolds ==
  /\ [](which = "shard" => Shard!CapacityHolds)
  /\ [][which = "shard" => Shard!CapacityLost]_mcvars

(* Shard: capacity holds when an insert returns, as store.rs:231 has it,   *)
(* under a policy that is told of every insert and its cost (FIFO).        *)
CapacityAsDocumented == which = "shard" => m2.cost <= m1.budget

(* Shard: a visit of the janitor leaves no entry a tick past its end, and  *)
(* takes none for idleness before its time.                                *)
ExpiryInTime == [][which = "shard" => Shard!SweptBy /\ Shard!NotEarly]_mcvars

(* S3-FIFO: the policy in the shard makes the decisions of the key-based   *)
(* one.                                                                    *)
TwinsAgree == which = "twins" => S3!TwinsAgree(m1)

(* Iteration: what stays in the cache throughout is yielded, and once. *)
StableSeen == which = "iter" => Iter!StableSeen

(* Stop-the-world calls wait for one another in a circle only when one of  *)
(* them is an async call that has taken a lock ahead of its turn.  The     *)
(* pool of loaders: a queued job has a worker, and the counters agree with *)
(* the threads.                                                            *)
NobodyStuck ==
  /\ which = "world" => World!NoLockCycle
  /\ which = "pool" => Pool!PoolNotStuck

(* fibre_stats: every accepted count and kept sample is delivered exactly  *)
(* once, the last handle to go leaves nothing in the book, a collector     *)
(* runs within its interval and what the clock stepped back, and within    *)
(* its interval of a collect_due after the step; a histogram, however      *)
(* filled and merged, answers for the values it took.                      *)
StatsFaithful ==
  /\ which = "stats" => Stats!SamplesCountedOnce /\ Stats!CollectorsOnTime
  /\ which = "buckets" => Buckets!HistogramFaithful

(* fibre_logging: an event reaches the appenders its loggers promise, and  *)
(* the file before the thread that writes it ends, unless a slot before it *)
(* was still in flight when the last drain ended; a dropped message is     *)
(* counted; none waits in a buffer for as long as the flush interval and   *)
(* the receive timeout together; rolled files keep the records in order    *)
(* and lose only the oldest.                                               *)
EventsDelivered ==
  /\ which = "logs" => Logs!EventsDelivered /\ Logs!DropsCounted /\ Logs!NeverFarBehind
  /\ which = "roll" => Roll!LogsInOrder /\ Roll!RetentionKeepsNewest

(* fibre_tracing: a finished trace is whole.  fibre_ioc: one singleton, no *)
(* stale guards, panics only for circles.                                  *)
ResolvedWhole ==
  /\ which = "spans" => Spans!TracesWhole
  /\ which = "ioc" => Ioc!ResolvesRight
=============================================================================
