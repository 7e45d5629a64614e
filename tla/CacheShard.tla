----------------------------- MODULE CacheShard -----------------------------
(* One shard of fibre_cache and everything that acts on it: the map, its   *)
(* cost, its eviction policy, its TTL wheel and its log of reads           *)
(* (src/cache/src/store.rs), the handles' operations on it                 *)
(* (src/cache/src/handles/), the janitor (src/cache/src/task/janitor.rs)   *)
(* and a snapshot taken of it and restored (src/cache/src/snapshot.rs).    *)
(*                                                                         *)
(* A critical section under the shard's lock is one step.  What a caller   *)
(* does before or after it with what it read there is a step of its own:   *)
(* a read the log had no room for, the metrics of a removal, the janitor's *)
(* two visits to a shard for one sweep.                                    *)
EXTENDS EvictionPolicies

CONSTANTS
  WheelLen, TickNs, Never,   \* the slots of the wheel, the length of a tick, no deadline
  Users,     \* threads calling the handles
  None,      \* no entry, and in the log a node that is gone
  Alias,     \* a node id recorded before a clear
  Clients    \* the configurations checked

VARIABLES
  client,    \* configuration: policy kind, budget, costs, lifetimes, calls
  sh,        \* the shard: table, cost, policy, read log, wheel
  now, clock,\* the precise time and the janitor's coarse copy of it
  total,     \* the cost in the metrics: the shard's cost_delta and current_cost together
  th,        \* what each user has still to do after its critical section
  jan        \* the janitor

vars == <<client, sh, now, clock, total, th, jan>>

Resident == {k \in Keys : sh.tab[k] # None}

IdleThread == [at |-> "idle", k |-> None, c |-> 0]
AsleepJanitor == [at |-> "sleep", now |-> 0, hashes |-> {}, owe |-> 0]

\* Reads and idleness see the coarse clock; 0 means it was never refreshed.
CoarseNow == IF clock = 0 THEN now ELSE clock

\* Mutant: the coarse clock is taken for exact.
MutIdleLimit == client.tti

\* build(): an entry may stay idle for the configured time and one clock tick.
IdleLimit == IF client.tti = 0 THEN 0 ELSE client.tti + client.clockTick

NewEntry(c, exp) ==
  [cost |-> c, exp |-> exp, last |-> IF client.tti = 0 THEN 0 ELSE now, timer |-> 0,
   used |-> IF client.tti = 0 THEN 0 ELSE now]

IsIdle(e, t) == IdleLimit > 0 /\ t >= e.last + IdleLimit

\* What the sweeps remove (expired_by) and what the readers hide (is_expired_at).
ExpiredBy(e, t) == (e.exp > 0 /\ t >= e.exp + client.grace) \/ IsIdle(e, t)
IsExpiredAt(e, t) == (e.exp > 0 /\ t >= e.exp) \/ IsIdle(e, t)

-----------------------------------------------------------------------------
(* The hashed timer wheel for TTL expiry (src/cache/src/task/timer.rs), as *)
(* operators on a wheel value                                              *)
(*   armed   whether the slots were allocated (on the first schedule);     *)
(*   cur     `current_tick`, modulo the number of slots;                   *)
(*   last    `last_advanced`, due the `next_due` read without the lock;    *)
(*   timers  the armed timers [id, hash, slot, laps].                      *)
(* A generational arena gives every timer an id no stale handle equals, so *)
(* the list through a slot is the set of the timers in that slot.          *)

NewWheel(t0) == [armed |-> FALSE, cur |-> 0, last |-> t0, due |-> Never, timers |-> {}]

CeilDiv(a, b) == (a + b - 1) \div b

\* Arms timer `id`; `at` is the instant it is for and `t0` the time of the call.
Schedule(w, id, hash, at, t0) ==
  LET last   == IF w.armed THEN w.last ELSE t0
      ticks  == IF at <= last THEN 1 ELSE CeilDiv(at - last, TickNs)
      offset == ticks - 1
      due    == last + ticks * TickNs
  IN  [w EXCEPT !.armed = TRUE, !.last = last,
                !.timers = @ \cup {[id |-> id, hash |-> hash, laps |-> offset \div WheelLen,
                                    slot |-> (w.cur + offset) % WheelLen]},
                !.due = IF due < @ THEN due ELSE @]

Cancel(w, id) == [w EXCEPT !.timers = {t \in @ : t.id # id}]

IsArmed(w, id) == \E t \in w.timers : t.id = id

ClearWheel(w) == [w EXCEPT !.timers = {}, !.due = Never]

\* How often the sweep of `ticks` ticks from slot `cur` passes slot s.
Passes(cur, ticks, s) ==
  ticks \div WheelLen + (IF (s + WheelLen - cur) % WheelLen < ticks % WheelLen THEN 1 ELSE 0)

\* The deadline published for the next sweep: that of the first occupied
\* slot ahead, whatever laps its timers still have to go.
NextDue(cur, last, timers) ==
  LET offs == {o \in 0 .. WheelLen - 1 : \E t \in timers : t.slot = (cur + o) % WheelLen}
  IN  IF offs = {} THEN Never ELSE last + (Min(offs) + 1) * TickNs

\* Moves the wheel to `t0`: [w, fired].
Advance(w, t0) ==
  LET ticks == IF t0 < w.last THEN 0 ELSE (t0 - w.last) \div TickNs
      pass  == [s \in 0 .. WheelLen - 1 |-> Passes(w.cur, ticks, s)]
      stay  == {t \in w.timers : t.laps >= pass[t.slot]}
      left  == {[t EXCEPT !.laps = @ - pass[t.slot]] : t \in stay}
      cur   == (w.cur + ticks) % WheelLen
      last  == w.last + ticks * TickNs
  IN  IF ~w.armed \/ ticks = 0 THEN [w |-> w, fired |-> {}]
      ELSE [w     |-> [w EXCEPT !.cur = cur, !.last = last, !.timers = left,
                                !.due = NextDue(cur, last, left)],
            fired |-> w.timers \ stay]

\* The instant whose sweep fires timer t.
FiresAt(w, t) ==
  w.last + (((t.slot + WheelLen - w.cur) % WheelLen) + t.laps * WheelLen + 1) * TickNs

-----------------------------------------------------------------------------
(* The shard's operations, as operators from shard to (set of) shards.     *)

\* Reads recorded since the last write, handed to the policy in order.
ReadOne(P, k, c) ==
  CASE k = None  -> {P}
    [] k = Alias -> {P} \cup {OnAccess(P, x, 0) : x \in Tracked(P)}
    [] OTHER     -> {OnAccess(P, k, c)}

RECURSIVE Replay(_, _)
Replay(P, log) ==
  IF log = <<>> THEN {P}
  ELSE UNION {Replay(Q, Tail(log)) : Q \in ReadOne(P, Head(log).k, Head(log).c)}

ApplyReads(S) == {[S EXCEPT !.pol = P, !.log = <<>>] : P \in Replay(S.pol, S.log)}

FreshTimer(S) ==
  Min((1 .. 2 * Cardinality(Keys) + 2) \ ({t.id : t \in S.wheel.timers} \cup
                                          {S.tab[k].timer : k \in {x \in Keys : S.tab[x] # None}}))

\* Mutant: the timer of a replaced or removed entry stays armed.
Disarm(S, e) == IF e.timer = 0 THEN S ELSE [S EXCEPT !.wheel = Cancel(@, e.timer)]

\* [e, S]: the entry with its timer, and the shard whose wheel holds it.
Arm(S, k, e) ==
  IF e.exp = 0 THEN [e |-> e, S |-> S]
  ELSE LET id == FreshTimer(S)
       IN  [e |-> [e EXCEPT !.timer = id],
            S |-> [S EXCEPT !.wheel = Schedule(@, id, client.hash[k], e.exp + client.grace, now)]]

Take(S, k) ==
  IF S.tab[k] = None THEN S
  ELSE [Disarm(S, S.tab[k]) EXCEPT !.tab[k] = None, !.cost = @ - S.tab[k].cost]

TakeAll(S, ks) == FoldLeft(LAMBDA acc, k : Take(acc, k), S, ks)

\* Mutant: the cost of a replaced entry stays counted.
Put(S, k, e) ==
  LET old == IF S.tab[k] = None THEN 0 ELSE S.tab[k].cost
  IN  [S EXCEPT !.tab[k] = e, !.cost = @ - old + e.cost]

\* The victims a policy names while admitting; on_remove follows each one taken.
TakeRejected(S, ks) ==
  FoldLeft(LAMBDA acc, k : IF acc.tab[k] = None THEN acc
                           ELSE [Take(acc, k) EXCEPT !.pol = OnRemove(@, k)], S, ks)

\* Mutant: an overrun of one is let through.
MutEvictOver(S) ==
  IF S.cost <= client.budget + 1 THEN {S}
  ELSE {TakeAll([S EXCEPT !.pol = r.p], r.out) : r \in Evict(S.pol, S.cost - client.budget)}

EvictOver(S) ==
  IF S.cost <= client.budget THEN {S}
  ELSE {TakeAll([S EXCEPT !.pol = r.p], r.out) : r \in Evict(S.pol, S.cost - client.budget)}

InsertPolicy(S, k, e) ==
  UNION {UNION {EvictOver(TakeRejected(Put([R EXCEPT !.pol = d.p], k, e), d.out)) :
                  d \in OnAdmit(R.pol, k, e.cost)} : R \in ApplyReads(S)}

InsertBuiltin(S, k, e) ==
  LET Decided(R) == IF R.tab[k] # None
                    THEN Plainly(BuiltinUpdate(R.pol, k, e.cost))
                    ELSE BuiltinAdmit(R.pol, k, e.cost)
  IN  UNION {UNION {EvictOver(TakeAll(Put([R EXCEPT !.pol = d.p], k, e), d.out)) :
                      d \in Decided(R)} : R \in ApplyReads(S)}

InsertInner(S, k, e0) ==
  LET a   == Arm(S, k, e0)
      res == IF IsBuiltin(S.pol) THEN InsertBuiltin(a.S, k, a.e) ELSE InsertPolicy(a.S, k, a.e)
  IN  {IF S.tab[k] = None THEN R ELSE Disarm(R, S.tab[k]) : R \in res}

\* cost_delta, counted inside the lock by inserts and clear; it wraps, so it may fall.
CostDelta(S, S2) == S2.cost - S.cost

\* Mutant: the policy is not told.
MutForget(S, k) == S

Forget(S, k) == [S EXCEPT !.pol = OnRemove(@, k)]

RemoveEntry(S, k) ==
  {IF R.tab[k] = None THEN R ELSE Forget(Take(R, k), k) : R \in ApplyReads(S)}

\* Entries under a hash that are past a limit at t.
RemoveExpired(S, h, t) ==
  LET ks == {k \in Keys : S.tab[k] # None /\ client.hash[k] = h /\ ExpiredBy(S.tab[k], t)}
  IN  FoldLeft(LAMBDA acc, k : Forget(Take(acc, k), k), S, SetToSeq(ks))

RemoveExpiredHashes(S, hs, t) ==
  {FoldLeft(LAMBDA acc, h : RemoveExpired(acc, h, t), R, SetToSeq(hs)) : R \in ApplyReads(S)}

\* A timer that fired before its entry expired is armed again.
Rearm(S, h) ==
  LET ks == {k \in Keys : /\ S.tab[k] # None /\ client.hash[k] = h
                          /\ S.tab[k].timer # 0 /\ ~IsArmed(S.wheel, S.tab[k].timer)}
  IN  IF ks = {} THEN S
      ELSE LET k == CHOOSE x \in ks : TRUE
               a == Arm(S, k, S.tab[k])
           IN  [a.S EXCEPT !.tab[k] = a.e]

ExpireDue(S, t) ==
  LET a == Advance(S.wheel, t)
      F(acc, f) == Rearm(RemoveExpired(acc, f.hash, t), f.hash)
      S1 == [S EXCEPT !.wheel = a.w]
  IN  IF a.fired = {} THEN {S1}
      ELSE {FoldLeft(F, R, SetToSeq(a.fired)) : R \in ApplyReads(S1)}

ExpireAll(S, t) ==
  RemoveExpiredHashes(S, {client.hash[k] : k \in {x \in Keys : S.tab[x] # None /\ ExpiredBy(S.tab[x], t)}}, t)

IdleHashes(S, t) == {client.hash[k] : k \in {x \in Keys : S.tab[x] # None /\ IsIdle(S.tab[x], t)}}

\* clear() leaves the read log alone; node ids in it may now name other nodes.
ClearShard(S) ==
  [S EXCEPT !.tab = [k \in Keys |-> None], !.wheel = ClearWheel(@),
            !.cost = 0, !.pol = LruClear(@),
            !.log = IF IsBuiltin(S.pol) THEN [i \in DOMAIN @ |-> [@[i] EXCEPT !.k = Alias]] ELSE @]

\* build_shared_core(): an empty shard at time t.
NewShard(c, t) ==
  [tab |-> [k \in Keys |-> None], cost |-> 0, pol |-> EmptyPolicy(c.kind, c.budget),
   log |-> <<>>, wheel |-> NewWheel(t)]

-----------------------------------------------------------------------------
(* The handles' operations.                                                *)

Idle(t) == th[t] = IdleThread
May(op) == op \in client.ops

\* A node id held for a deferred read names nothing once its entry is gone.
Orphaned(S2) ==
  [u \in Users |-> IF IsBuiltin(S2.pol) /\ th[u].at = "defer" /\ th[u].k \in Keys
                      /\ S2.tab[th[u].k] = None
                   THEN [th[u] EXCEPT !.k = None] ELSE th[u]]

\* When an entry inserted by `op` ends: the cache's own lifetime, or the call's.
OwnEnd == IF client.ttl = 0 THEN 0 ELSE now + client.ttl
Ends(op) == IF op = "insert_with_ttl" THEN {now + ttl : ttl \in client.ttls} ELSE {OwnEnd}

\* entry(k).or_insert(..): an entry past its lifetime still counts as occupied.
OrInserts(op, k) == op = "entry" => sh.tab[k] = None

Insert(t, k, op) ==
  /\ May(op) /\ Idle(t) /\ OrInserts(op, k)
  /\ \E c \in client.costs[k], end \in Ends(op) : sh' \in InsertInner(sh, k, NewEntry(c, end))
  /\ th' = Orphaned(sh')
  /\ total' = total + CostDelta(sh, sh')
  /\ UNCHANGED <<client, now, clock, jan>>

\* Several inserts under one acquisition of the lock.
RECURSIVE InsertEach(_, _, _)
InsertEach(S, ks, e) ==
  IF ks = <<>> THEN {S} ELSE UNION {InsertEach(R, Tail(ks), e) : R \in InsertInner(S, Head(ks), e)}

MultiInsert(t) ==
  /\ May("multi") /\ Idle(t)
  /\ \E ks \in SetToSeqs(client.keys), c \in UNION {client.costs[k] : k \in client.keys} :
       /\ \A k \in client.keys : c \in client.costs[k]
       /\ sh' \in InsertEach(sh, ks, NewEntry(c, OwnEnd))
  /\ th' = Orphaned(sh')
  /\ total' = total + CostDelta(sh, sh')
  /\ UNCHANGED <<client, now, clock, jan>>

\* on_hit: [S, deferred], the shard after the read and whether the log had no room.
OnHit(S, k) ==
  LET e  == S.tab[k]
      S1 == [S EXCEPT !.tab[k].last = IF client.tti = 0 THEN @ ELSE CoarseNow, !.tab[k].used = IF client.tti = 0 THEN @ ELSE now]
  IN  IF S.pol.kind = "hs3fifo" THEN [S |-> [S1 EXCEPT !.pol = HS3Bump(@, k)], deferred |-> FALSE]
      ELSE IF ~UsesAccessEvents(S.pol) THEN [S |-> S1, deferred |-> FALSE]
      ELSE IF Len(S.log) < client.logSlots
      THEN [S |-> [S1 EXCEPT !.log = Append(@, [k |-> k, c |-> e.cost])], deferred |-> FALSE]
      ELSE [S |-> S1, deferred |-> TRUE]

\* get, fetch and multiget of an entry that is there; a miss and a peek change nothing.
Fetch(t, k) ==
  /\ May("fetch") /\ Idle(t)
  /\ sh.tab[k] # None /\ ~IsExpiredAt(sh.tab[k], CoarseNow)
  /\ LET r == OnHit(sh, k)
     IN  /\ sh' = r.S
         /\ th' = IF r.deferred
                  THEN [th EXCEPT ![t] = [at |-> "defer", k |-> k, c |-> sh.tab[k].cost]] ELSE th
  /\ UNCHANGED <<client, now, clock, total, jan>>

ApplyDeferred(t) ==
  /\ th[t].at = "defer"
  /\ \E R \in ApplyReads(sh) : \E P \in ReadOne(R.pol, th[t].k, th[t].c) :
       sh' = [R EXCEPT !.pol = P]
  /\ th' = [th EXCEPT ![t] = IdleThread]
  /\ UNCHANGED <<client, now, clock, total, jan>>

Owing(S2, t, amount) ==
  [Orphaned(S2) EXCEPT ![t] = IF amount = 0 THEN IdleThread
                              ELSE [IdleThread EXCEPT !.at = "owe", !.c = amount]]

\* remove() and invalidate(): the entry goes under the lock, its cost from the
\* metrics afterwards.
RemoveKey(t, k) ==
  /\ May("remove") /\ Idle(t)
  /\ sh' \in RemoveEntry(sh, k)
  /\ th' = Owing(sh', t, sh.cost - sh'.cost)
  /\ UNCHANGED <<client, now, clock, total, jan>>

\* multi_remove(): both under the lock.
RECURSIVE RemoveEach(_, _)
RemoveEach(S, ks) ==
  IF ks = <<>> THEN {S} ELSE UNION {RemoveEach(R, Tail(ks)) : R \in RemoveEntry(S, Head(ks))}

MultiRemove(t) ==
  /\ May("multi") /\ Idle(t)
  /\ sh' \in RemoveEach(sh, SetToSeq(client.keys))
  /\ total' = total - (sh.cost - sh'.cost)
  /\ th' = Orphaned(sh')
  /\ UNCHANGED <<client, now, clock, jan>>

Account(t) ==
  /\ th[t].at = "owe"
  /\ total' = total - th[t].c
  /\ th' = [th EXCEPT ![t] = IdleThread]
  /\ UNCHANGED <<client, sh, now, clock, jan>>

\* clear() with every shard's lock held.
Clear(t) ==
  /\ May("clear") /\ Idle(t)
  /\ sh' = ClearShard(sh)
  /\ th' = [u \in Users |-> IF IsBuiltin(sh.pol) /\ th[u].at = "defer"
                            THEN [th[u] EXCEPT !.k = Alias] ELSE th[u]]
  /\ total' = total + CostDelta(sh, sh')
  /\ UNCHANGED <<client, now, clock, jan>>

RunMaintenance(t) ==
  /\ May("maintain") /\ Idle(t)
  /\ clock' = now
  /\ sh' \in ExpireAll(sh, now)
  /\ th' = Owing(sh', t, sh.cost - sh'.cost)
  /\ UNCHANGED <<client, now, total, jan>>

\* The janitor's share of reads, and the flush of the introspection calls.
PerformShardMaintenance ==
  /\ sh.log # <<>>
  /\ sh' \in ApplyReads(sh)
  /\ UNCHANGED <<client, now, clock, total, th, jan>>

\* to_snapshot() and build_from_snapshot(): unexpired entries with what is left
\* of their lifetimes, in the order the tables had them.
RECURSIVE ReplaceAllInner(_, _)
ReplaceAllInner(S, ks) ==
  IF ks = <<>> THEN {S}
  ELSE LET old == sh.tab[Head(ks)]
       IN  UNION {ReplaceAllInner(R, Tail(ks)) :
                    R \in InsertInner(S, Head(ks), NewEntry(old.cost, old.exp))}

Restore ==
  /\ May("restore")
  /\ \A t \in Users : Idle(t)
  /\ jan.at = "sleep"
  /\ \E ks \in SetToSeqs({k \in Resident : ~IsExpiredAt(sh.tab[k], now)}) :
       sh' \in ReplaceAllInner(NewShard(client, now), ks)
  /\ clock' = 0
  /\ total' = sh'.cost
  /\ UNCHANGED <<client, now, th, jan>>

-----------------------------------------------------------------------------
(* The janitor: it refreshes the coarse clock between sweeps, and a sweep  *)
(* visits the shard once for timers and once more for idle entries.        *)

JanitorRefresh ==
  /\ May("refresh") /\ jan.at = "sleep"
  /\ clock' = now
  /\ UNCHANGED <<client, sh, now, total, th, jan>>

JanitorWake ==
  /\ May("janitor") /\ jan.at = "sleep"
  /\ jan' = [jan EXCEPT !.at = "timers"]
  /\ UNCHANGED <<client, sh, now, clock, total, th>>

\* The deadline is read without the lock; nothing due ends the visit.
CleanupExpiredLook ==
  /\ jan.at = "timers"
  /\ jan' = [jan EXCEPT !.now = now, !.at = IF now >= sh.wheel.due THEN "expire" ELSE "scan"]
  /\ UNCHANGED <<client, sh, now, clock, total, th>>

CleanupExpired ==
  /\ jan.at = "expire"
  /\ sh' \in ExpireDue(sh, jan.now)
  /\ jan' = [jan EXCEPT !.at = "scan", !.owe = sh.cost - sh'.cost]
  /\ th' = Orphaned(sh')
  /\ UNCHANGED <<client, now, clock, total>>

\* account_expired() of the timer visit precedes the scan under the read lock.
CleanupIdleScan ==
  /\ jan.at = "scan"
  /\ total' = total - jan.owe
  /\ LET hs == IdleHashes(sh, now)
     IN  jan' = IF client.tti = 0 \/ hs = {} THEN AsleepJanitor
                ELSE [at |-> "remove", now |-> now, hashes |-> hs, owe |-> 0]
  /\ clock' = IF client.tti = 0 THEN clock ELSE now
  /\ UNCHANGED <<client, sh, now, th>>

CleanupIdle ==
  /\ jan.at = "remove"
  /\ sh' \in RemoveExpiredHashes(sh, jan.hashes, jan.now)
  /\ jan' = [AsleepJanitor EXCEPT !.at = "account", !.owe = sh.cost - sh'.cost]
  /\ th' = Orphaned(sh')
  /\ UNCHANGED <<client, now, clock, total>>

AccountExpired ==
  /\ jan.at = "account"
  /\ total' = total - jan.owe
  /\ jan' = AsleepJanitor
  /\ UNCHANGED <<client, sh, now, clock, th>>

\* Time passes, but the janitor keeps the coarse clock within one clock tick:
\* the assumption behind IdleLimit.
Tick ==
  /\ now < client.maxTime
  /\ clock # 0 /\ client.tti # 0 => now + 1 - clock <= client.clockTick
  /\ now' = now + 1
  /\ UNCHANGED <<client, sh, clock, total, th, jan>>

-----------------------------------------------------------------------------
Init ==
  /\ client \in Clients
  /\ now = 1 /\ clock = 0 /\ total = 0
  /\ sh = NewShard(client, 1)
  /\ th = [t \in Users |-> IdleThread]
  /\ jan = AsleepJanitor

UserStep(t) ==
  \/ \E k \in client.keys :
       \/ \E op \in {"insert", "insert_with_ttl", "entry"} : Insert(t, k, op)
       \/ Fetch(t, k) \/ RemoveKey(t, k)
  \/ MultiInsert(t) \/ MultiRemove(t) \/ ApplyDeferred(t) \/ Account(t) \/ Clear(t)
  \/ RunMaintenance(t)

Next ==
  \/ \E t \in client.users : UserStep(t)
  \/ Restore \/ PerformShardMaintenance \/ Tick
  \/ JanitorRefresh \/ JanitorWake \/ CleanupExpiredLook \/ CleanupExpired
  \/ CleanupIdleScan \/ CleanupIdle \/ AccountExpired

Spec == Init /\ [][Next]_vars

-----------------------------------------------------------------------------
(* Correctness.                                                            *)

\* Every resident entry is one the policy can choose as a victim, and the policy
\* tracks nothing that is gone: an entry it lost track of would stay for good, a
\* key it kept would be evicted in vain.  Inserts, replacements, rejections at
\* admission, evictions, removals and both kinds of expiry each update the two
\* in their own way.  ARC is left out: its on_admit drops a victim.
PolicyTracksTable == client.kind \notin {"null", "arc"} => Tracked(sh.pol) = Resident

\* "capacity holds when the insert returns" (store.rs:231), also when the cost of a
\* key changes: so it does under the policies that take the new cost from on_admit
\* or update, and whose on_access carries no cost.
TakesNewCost == {"lru", "random", "sieve", "s3fifo", "hs3fifo"}
CapacityHolds ==
  client.kind \in TakesNewCost =>
    sh.cost <= client.budget /\ \A k \in Resident : sh.pol.cost[k] = sh.tab[k].cost

\* Under the others one eviction pass frees what it must as long as the policy
\* believes no entry heavier than it is.  FIFO, CLOCK and SLRU keep the first cost of
\* a key (fifo.rs:35-39, clock.rs:68, slru.rs:146); SLRU and TinyLFU take one from a
\* read that was put off behind an insert (store.rs:229-231 and policy/mod.rs:49-51
\* have no such exception).  HTinyLfu evicts nothing from its window, so that a
\* resident entry made heavier than the budget there stays (hpolicy.rs:305-318).  ARC
\* is left out: its on_admit drops a victim.
Overrated == \E k \in Resident : sh.pol.cost[k] > sh.tab[k].cost
TooHeavy(S) == \E k \in Keys : S.tab[k] # None /\ S.tab[k].cost > client.budget
CapacityLost ==
  client.kind \notin {"null", "arc"} /\ sh.cost <= client.budget /\ sh'.cost > client.budget =>
    Overrated \/ (client.kind = "htinylfu" /\ TooHeavy(sh'))

\* The shard's cost is the sum of its entries', and the metrics, fed by a counter
\* inside the lock and one outside it, differ from it only by what removals on
\* their way have still to subtract.
Accounting ==
  /\ sh.cost = MapThenSumSet(LAMBDA k : sh.tab[k].cost, Resident)
  /\ sh.cost = total - jan.owe
                 - MapThenSumSet(LAMBDA t : IF th[t].at = "owe" THEN th[t].c ELSE 0, Users)

\* Exactly the entries with a TTL have a timer, one each; it fires at the first
\* whole tick at or after the end of the entry's grace period; and the deadline
\* the janitor reads without the lock is never later than any of them.
TimersMatch ==
  LET w == sh.wheel
  IN  /\ {t.id : t \in w.timers} = {sh.tab[k].timer : k \in {x \in Resident : sh.tab[x].exp > 0}}
      /\ \A k \in Resident : (sh.tab[k].timer # 0) = (sh.tab[k].exp > 0)
      /\ \A k \in Resident : \A t \in w.timers :
           t.id = sh.tab[k].timer =>
             LET end == sh.tab[k].exp + client.grace
             IN  /\ t.hash = client.hash[k]
                 /\ FiresAt(w, t) >= end /\ FiresAt(w, t) < end + TickNs
                 /\ w.due <= FiresAt(w, t)

\* After the janitor's timer visit at time n, including one it skipped on the
\* unlocked deadline, no entry is left a whole tick past its end.
SweptBy ==
  (jan.at \in {"timers", "expire"} /\ jan'.at = "scan") =>
     \A k \in Keys : (sh'.tab[k] # None /\ sh'.tab[k].exp > 0) =>
        jan'.now < sh'.tab[k].exp + client.grace + TickNs

\* "an entry stays that much past its TTI to never expire before it" (builder
\* mod.rs:456): the janitor's second visit removes no entry before its time, be it
\* read since the scan or stamped from a coarse clock that lags.
NotEarly ==
  \A k \in Keys : (/\ sh.tab[k] # None /\ sh'.tab[k] = None
                   /\ jan.at = "remove" /\ jan'.at = "account") =>
     \/ now >= sh.tab[k].used + client.tti
     \/ sh.tab[k].exp > 0 /\ now >= sh.tab[k].exp
=============================================================================
