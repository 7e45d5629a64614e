-------------------------- MODULE EvictionPolicies --------------------------
(* The eviction policies of fibre_cache: the key-based ones of             *)
(* src/cache/src/policy/ and the two built into the shard                  *)
(* (src/cache/src/hpolicy.rs).  A policy is a value and each of its        *)
(* operations an operator, so that a shard can be composed with any of     *)
(* them.                                                                   *)
(*                                                                         *)
(* A policy state is a record                                              *)
(*   kind  which policy, cap its capacity;                                 *)
(*   q     its lists, each a sequence of keys (head first; the queues of   *)
(*         S3-FIFO and the ring of CLOCK oldest first);                    *)
(*   cost  the cost the POLICY believes each key has (0 when it is in no   *)
(*         list): nothing keeps it equal to the entry's own cost;          *)
(*   mark  the reference bit, visited bit or frequency of each key;        *)
(*   hand  the sweep position of CLOCK and SIEVE, ARC's target `p`;        *)
(*   ghost, ghosts  S3-FIFO's ghost order and ghost set.                   *)
(* An operation that may choose (random eviction, the comparison of two    *)
(* sketch estimates) denotes the SET of its results.                       *)
EXTENDS Integers, Sequences, FiniteSets, SequencesExt, FiniteSetsExt

CONSTANTS Keys, Stale, CompactSlack

Lists(kind) ==
  CASE kind = "slru" -> {"prob", "prot"}
    [] kind \in {"tinylfu", "htinylfu"} -> {"window", "prob", "prot"}
    [] kind \in {"s3fifo", "hs3fifo"} -> {"small", "main"}
    [] kind = "arc" -> {"t1", "t2", "b1", "b2"}
    [] OTHER -> {"list"}

EmptyPolicy(kind, cap) ==
  [kind |-> kind, cap |-> cap, q |-> [s \in Lists(kind) |-> <<>>],
   cost |-> [k \in Keys |-> 0], mark |-> [k \in Keys |-> 0], hand |-> 0,
   ghost |-> <<>>, ghosts |-> {}]

Max2(a, b) == IF a > b THEN a ELSE b
Min2(a, b) == IF a < b THEN a ELSE b

-----------------------------------------------------------------------------
(* The shared list: policy/lru_list.rs, and the intrusive lists of the     *)
(* node slab in hpolicy.rs, which keep the same order and the same costs.  *)

In(p, s, k) == Contains(p.q[s], k)

ListCost(p, s) == MapThenSumSet(LAMBDA k : p.cost[k], ToSet(p.q[s]) \ {Stale})

PushFront(p, s, k, c) ==
  [p EXCEPT !.q[s] = <<k>> \o Remove(@, k), !.cost[k] = c]

MoveToFront(p, s, k) == IF In(p, s, k) THEN [p EXCEPT !.q[s] = <<k>> \o Remove(@, k)] ELSE p

ListRemove(p, s, k) ==
  IF In(p, s, k) THEN [p EXCEPT !.q[s] = Remove(@, k), !.cost[k] = 0, !.mark[k] = 0] ELSE p

Moved(p, s, t, k) == [p EXCEPT !.q[s] = Remove(@, k), !.q[t] = <<k>> \o @]

\* Pops the tails of list s until `need` is covered; `out` collects the keys.
RECURSIVE PopBack(_, _, _, _)
PopBack(p, s, need, out) ==
  IF need <= 0 \/ p.q[s] = <<>> THEN [p |-> p, out |-> out, need |-> need]
  ELSE LET k == Last(p.q[s])
       IN  PopBack(ListRemove(p, s, k), s, need - p.cost[k], Append(out, k))

PopUntil(p, s, need) ==
  LET r == PopBack(p, s, need, <<>>) IN [p |-> r.p, out |-> r.out]

LruClear(p) == EmptyPolicy(p.kind, p.cap)

-----------------------------------------------------------------------------
(* FIFO, LRU and random.                                                   *)

FifoOnAdmit(p, k, c) == IF In(p, "list", k) THEN p ELSE PushFront(p, "list", k, c)
FifoOnRemove(p, k) == ListRemove(p, "list", k)
FifoEvict(p, need) == PopUntil(p, "list", need)

LruOnAccess(p, k) == MoveToFront(p, "list", k)
LruOnAdmit(p, k, c) == PushFront(p, "list", k, c)
LruOnRemove(p, k) == ListRemove(p, "list", k)
LruEvict(p, need) == PopUntil(p, "list", need)

\* The map of the random policy has no order: its list is kept in one canonical order.
RandomOnAdmit(p, k, c) ==
  [p EXCEPT !.q["list"] = SetToSeq(ToSet(@) \cup {k}), !.cost[k] = c]
RandomOnRemove(p, k) ==
  [ListRemove(p, "list", k) EXCEPT !.q["list"] = SetToSeq(ToSet(p.q["list"]) \ {k})]

RECURSIVE RandomPick(_, _, _)
RandomPick(p, need, out) ==
  IF need <= 0 \/ p.q["list"] = <<>> THEN {[p |-> p, out |-> out]}
  ELSE UNION {RandomPick(RandomOnRemove(p, k), need - p.cost[k], Append(out, k)) :
                k \in ToSet(p.q["list"])}
RandomEvict(p, need) == RandomPick(p, need, <<>>)

-----------------------------------------------------------------------------
(* CLOCK: `q.list` is the ring, `hand` a 0-based index into it.  The bound *)
(* of two sweeps in the code never ends the inner loop: a second sweep     *)
(* meets only cleared bits.                                                *)

Marked(p, k) == IF In(p, "list", k) THEN [p EXCEPT !.mark[k] = 1] ELSE p

ClockOnAccess(p, k) == Marked(p, k)

ClockOnAdmit(p, k, c) ==
  IF In(p, "list", k) THEN p
  ELSE [p EXCEPT !.q["list"] = Append(@, k), !.cost[k] = c, !.mark[k] = 0]

ClockOnRemove(p, k) ==
  IF ~In(p, "list", k) THEN p
  ELSE LET pos == SelectInSeq(p.q["list"], LAMBDA x : x = k) - 1
       IN  [ListRemove(p, "list", k) EXCEPT
              !.hand = IF pos <= @ /\ @ > 0 THEN @ - 1 ELSE @]

RECURSIVE ClockEvict(_, _, _)
ClockEvict(p, need, out) ==
  IF need <= 0 \/ p.q["list"] = <<>> THEN [p |-> p, out |-> out]
  ELSE LET hand == IF p.hand >= Len(p.q["list"]) THEN 0 ELSE p.hand
           k    == p.q["list"][hand + 1]
       IN  IF p.mark[k] = 1
           THEN ClockEvict([p EXCEPT !.mark[k] = 0, !.hand = hand + 1], need, out)
           ELSE ClockEvict([ListRemove(p, "list", k) EXCEPT !.hand = hand],
                           need - p.cost[k], Append(out, k))

-----------------------------------------------------------------------------
(* SIEVE: newest first; `hand` counts back from the oldest entry.          *)

SieveOnAccess(p, k) == Marked(p, k)

SieveOnAdmit(p, k, c) == [PushFront(p, "list", k, c) EXCEPT !.mark[k] = 0]

SieveOnRemove(p, k) ==
  LET r == ListRemove(p, "list", k)
  IN  [r EXCEPT !.hand = IF @ >= Len(r.q["list"]) THEN 0 ELSE @]

RECURSIVE SieveEvict(_, _, _)
SieveEvict(p, need, out) ==
  LET n == Len(p.q["list"])
  IN  IF need <= 0 \/ n = 0 THEN [p |-> p, out |-> out]
      ELSE IF p.hand >= n    \* swept past the newest: the oldest goes
      THEN LET k == Last(p.q["list"])
           IN  SieveEvict([ListRemove(p, "list", k) EXCEPT !.hand = 0],
                          need - p.cost[k], Append(out, k))
      ELSE LET k == p.q["list"][n - p.hand]
           IN  IF p.mark[k] = 1
               THEN SieveEvict([p EXCEPT !.mark[k] = 0, !.hand = @ + 1], need, out)
               ELSE SieveEvict(ListRemove(p, "list", k), need - p.cost[k], Append(out, k))

-----------------------------------------------------------------------------
(* Segmented LRU, on its own and as the main part of W-TinyLFU.            *)

SlruProtCapacity(cap) == IF cap = 0 THEN 0 ELSE cap - Max2(1, (2 * cap + 5) \div 10)

WindowTarget(cap) == IF cap = 0 THEN 0 ELSE Max2(1, (cap + 50) \div 100)
MainCapacity(cap) == cap - WindowTarget(cap)

ProtCapacity(p) ==
  SlruProtCapacity(IF p.kind = "slru" THEN p.cap ELSE MainCapacity(p.cap))

RECURSIVE MaintainCapacities(_)
MaintainCapacities(p) ==
  IF ListCost(p, "prot") <= ProtCapacity(p) \/ p.q["prot"] = <<>> THEN p
  ELSE MaintainCapacities(Moved(p, "prot", "prob", Last(p.q["prot"])))

\* A read or a replacement of k, which is in one of the two segments or in neither.
SlruTouch(p, k, c) ==
  IF In(p, "prot", k) THEN PushFront(p, "prot", k, c)
  ELSE IF In(p, "prob", k)
  THEN MaintainCapacities([Moved(p, "prob", "prot", k) EXCEPT !.cost[k] = c])
  ELSE p

SlruOnAdmit(p, k, c) ==
  IF In(p, "prot", k) \/ In(p, "prob", k) THEN p ELSE PushFront(p, "prob", k, c)

SlruOnRemove(p, k) == ListRemove(ListRemove(p, "prob", k), "prot", k)

SlruEvictItems(p, need) ==
  LET a == PopBack(MaintainCapacities(p), "prob", need, <<>>)
      b == PopBack(a.p, "prot", a.need, a.out)
  IN  [p |-> b.p, out |-> b.out]

-----------------------------------------------------------------------------
(* W-TinyLFU, key-based (tinylfu.rs) and in the shard (HTinyLfu).  A       *)
(* candidate leaving the window displaces nothing itself: it joins the     *)
(* main part when it fits or wins the comparison of sketch estimates       *)
(* (either way, here), and is rejected otherwise.                          *)

PeekLru(p) == IF p.q["prob"] # <<>> THEN {Last(p.q["prob"])}
              ELSE IF p.q["prot"] # <<>> THEN {Last(p.q["prot"])} ELSE {}

RECURSIVE WindowOverflow(_, _)
WindowOverflow(p, out) ==
  IF ListCost(p, "window") <= WindowTarget(p.cap) \/ p.q["window"] = <<>>
  THEN {[p |-> p, out |-> out]}
  ELSE LET cand   == Last(p.q["window"])
           fits   == ListCost(p, "prob") + ListCost(p, "prot") + p.cost[cand] <= MainCapacity(p.cap)
           admit  == WindowOverflow(Moved(p, "window", "prob", cand), out)
           reject == WindowOverflow(ListRemove(p, "window", cand), Append(out, cand))
       IN  IF fits \/ PeekLru(p) = {} THEN admit ELSE admit \cup reject

TinyLfuOnAccess(p, k, c) ==
  IF In(p, "window", k) THEN PushFront(p, "window", k, c) ELSE SlruTouch(p, k, c)

TinyLfuOnAdmit(p, k, c) ==
  IF In(p, "prob", k) \/ In(p, "prot", k) THEN {[p |-> SlruTouch(p, k, c), out |-> <<>>]}
  ELSE WindowOverflow(PushFront(p, "window", k, c), <<>>)

TinyLfuOnRemove(p, k) == SlruOnRemove(ListRemove(p, "window", k), k)

TinyLfuEvict(p, need) ==
  IF need = 0 THEN [p |-> p, out |-> <<>>] ELSE SlruEvictItems(p, need)

HTinyLfuMaintain(p) == MaintainCapacities(p)

HTinyLfuTouch(p, k) ==
  IF In(p, "window", k) THEN MoveToFront(p, "window", k)
  ELSE IF In(p, "prob", k) THEN HTinyLfuMaintain(Moved(p, "prob", "prot", k))
  ELSE MoveToFront(p, "prot", k)

HTinyLfuAdmit(p, k, c) == WindowOverflow(PushFront(p, "window", k, c), <<>>)

HTinyLfuUpdate(p, k, c) == HTinyLfuTouch([p EXCEPT !.cost[k] = c], k)

HTinyLfuRemove(p, k) == SlruOnRemove(ListRemove(p, "window", k), k)

HTinyLfuEvict(p, need) == SlruEvictItems(p, need)

-----------------------------------------------------------------------------
(* ARC: `hand` is the target cost `p` of t1.  replace() names a victim; of *)
(* its two callers only evict() reports it to the shard, on_admit() drops  *)
(* it.                                                                     *)

ArcGhosted(p, t, b) ==
  LET k == Last(p.q[t])
      m == Moved(p, t, b, k)
  IN  [p   |-> IF ListCost(m, b) > p.cap THEN ListRemove(m, b, Last(m.q[b])) ELSE m,
       out |-> <<k>>]

ArcReplace(p, keyInB2) ==
  LET c == ListCost(p, "t1")
  IN  IF c > 0 /\ (c >= p.hand \/ (keyInB2 /\ c = p.hand)) THEN ArcGhosted(p, "t1", "b1")
      ELSE IF p.q["t2"] # <<>> THEN ArcGhosted(p, "t2", "b2")
      ELSE [p |-> p, out |-> <<>>]

ArcOnAccess(p, k, c) ==
  IF In(p, "t1", k) THEN PushFront(ListRemove(p, "t1", k), "t2", k, c)
  ELSE IF In(p, "t2", k) THEN PushFront(p, "t2", k, c)
  ELSE p

Rounded(a, b) == (2 * a + b) \div (2 * b)

ArcAdapt(p, k) ==
  LET r     == ListRemove(ListRemove(p, "b1", k), "b2", k)
      b1    == ListCost(r, "b1")
      b2    == ListCost(r, "b2")
      up    == IF b1 > 0 /\ b2 > b1 THEN Rounded(b2, b1) ELSE 1
      down  == IF b2 > 0 /\ b1 > b2 THEN Rounded(b1, b2) ELSE 1
  IN  IF In(p, "b1", k) THEN [r EXCEPT !.hand = Min2(@ + up, p.cap)]
      ELSE IF In(p, "b2", k) THEN [r EXCEPT !.hand = Max2(@ - down, 0)]
      ELSE p

ArcOnAdmit(p, k, c) ==
  IF In(p, "t1", k) \/ In(p, "t2", k) THEN ArcOnAccess(p, k, c)
  ELSE LET a == ArcAdapt(p, k)
           r == IF ListCost(a, "t1") + ListCost(a, "t2") >= p.cap
                THEN ArcReplace(a, In(p, "b2", k)).p ELSE a
       IN  PushFront(r, "t1", k, c)

ArcOnRemove(p, k) ==
  ListRemove(ListRemove(ListRemove(ListRemove(p, "t1", k), "t2", k), "b1", k), "b2", k)

RECURSIVE ArcEvict(_, _, _)
ArcEvict(p, need, out) ==
  IF need <= 0 THEN [p |-> p, out |-> out]
  ELSE LET inB2 == p.q["t1"] # <<>> /\ In(p, "b2", Last(p.q["t1"]))
           r    == ArcReplace(p, inB2)
       IN  IF r.out = <<>> THEN [p |-> p, out |-> out]
           ELSE ArcEvict(r.p, need - p.cost[r.out[1]], out \o r.out)

-----------------------------------------------------------------------------
(* S3-FIFO, key-based (s3fifo.rs).  Queues are oldest first and lazy: a    *)
(* removed key leaves an entry whose stamp no longer matches, here Stale.  *)

FreqMax == 3

SmallTarget(cap) == Max2(1, cap \div 10)
GhostCap(cap) == Max2(1, cap)

S3Push(p, s, k) == [p EXCEPT !.q[s] = Append(@, k)]

RememberGhost(p, k) ==
  LET full == Len(p.ghost) >= GhostCap(p.cap) /\ p.ghost # <<>>
      set  == IF full THEN p.ghosts \ {Head(p.ghost)} ELSE p.ghosts
      ord  == IF full THEN Tail(p.ghost) ELSE p.ghost
  IN  [p EXCEPT !.ghosts = set \cup {k}, !.ghost = IF k \in set THEN ord ELSE Append(ord, k)]

S3Live(p) == (ToSet(p.q["small"]) \cup ToSet(p.q["main"])) \ {Stale}

S3Compact(p) ==
  IF Len(p.q["small"]) + Len(p.q["main"]) <= 2 * Cardinality(S3Live(p)) + CompactSlack THEN p
  ELSE [p EXCEPT !.q = [s \in DOMAIN @ |-> Remove(@[s], Stale)]]

S3OnAccess(p, k) ==
  IF k \in S3Live(p) THEN [p EXCEPT !.mark[k] = Min2(@ + 1, FreqMax)] ELSE p

S3OnAdmit(p, k, c) ==
  IF k \in S3Live(p) THEN [p EXCEPT !.cost[k] = c]
  ELSE LET s == IF k \in p.ghosts THEN "main" ELSE "small"
       IN  S3Compact(S3Push([p EXCEPT !.ghosts = @ \ {k}, !.cost[k] = c, !.mark[k] = 0], s, k))

S3OnRemove(p, k) ==
  IF k \in S3Live(p)
  THEN [p EXCEPT !.q = [s \in DOMAIN @ |-> ReplaceAll(@[s], k, Stale)],
                 !.cost[k] = 0, !.mark[k] = 0]
  ELSE p

S3Popped(p, s) == [p EXCEPT !.q[s] = Tail(@)]

RECURSIVE S3Evict(_, _, _)
S3Evict(p, need, out) ==
  LET s    == IF /\ p.q["small"] # <<>>
                 /\ ListCost(p, "small") > SmallTarget(p.cap) \/ p.q["main"] = <<>>
              THEN "small" ELSE "main"
      k    == Head(p.q[s])
      r    == S3Popped(p, s)
      gone == [r EXCEPT !.cost[k] = 0, !.mark[k] = 0]
  IN  IF need <= 0 \/ p.q[s] = <<>> THEN [p |-> p, out |-> out]
      ELSE IF k = Stale THEN S3Evict(r, need, out)
      ELSE IF s = "small" /\ p.mark[k] > 1
      THEN S3Evict(S3Push([r EXCEPT !.mark[k] = 0], "main", k), need, out)
      ELSE IF s = "main" /\ p.mark[k] > 0
      THEN S3Evict(S3Push([r EXCEPT !.mark[k] = @ - 1], "main", k), need, out)
      ELSE S3Evict(IF s = "small" THEN RememberGhost(gone, k) ELSE gone,
                   need - p.cost[k], Append(out, k))

-----------------------------------------------------------------------------
(* S3-FIFO in the shard (HS3Fifo): intrusive lists, so no stale entries,   *)
(* and newest first.                                                       *)

HS3Remember(p, k) == RememberGhost(p, k)

HS3Admit(p, k, c) ==
  LET s == IF k \in p.ghosts THEN "main" ELSE "small"
  IN  [PushFront([p EXCEPT !.ghosts = @ \ {k}], s, k, c) EXCEPT !.mark[k] = 0]

HS3Update(p, k, c) == IF k \in S3Live(p) THEN [p EXCEPT !.cost[k] = c] ELSE p

HS3Bump(p, k) == IF k \in S3Live(p) /\ p.mark[k] < 3 THEN [p EXCEPT !.mark[k] = @ + 1] ELSE p

HS3Remove(p, k) == ListRemove(ListRemove(p, "small", k), "main", k)

\* One step of each queue: [p, out] with `out` empty when the entry stays.
\* Mutant: one access is enough to move a small entry to the main queue.
MutHS3EvictSmall(p) ==
  LET k == Last(p.q["small"])
  IN  IF p.mark[k] > 0
      THEN [p |-> [Moved(p, "small", "main", k) EXCEPT !.mark[k] = 0], out |-> <<>>]
      ELSE [p |-> HS3Remember(ListRemove(p, "small", k), k), out |-> <<k>>]

HS3EvictSmall(p) ==
  LET k == Last(p.q["small"])
  IN  IF p.mark[k] > 1
      THEN [p |-> [Moved(p, "small", "main", k) EXCEPT !.mark[k] = 0], out |-> <<>>]
      ELSE [p |-> HS3Remember(ListRemove(p, "small", k), k), out |-> <<k>>]

HS3EvictMain(p) ==
  LET k == Last(p.q["main"])
  IN  IF p.mark[k] > 0
      THEN [p |-> [MoveToFront(p, "main", k) EXCEPT !.mark[k] = @ - 1], out |-> <<>>]
      ELSE [p |-> ListRemove(p, "main", k), out |-> <<k>>]

RECURSIVE HS3Evict(_, _, _)
HS3Evict(p, need, out) ==
  IF need <= 0 \/ S3Live(p) = {} THEN [p |-> p, out |-> out]
  ELSE LET small == /\ p.q["small"] # <<>>
                    /\ ListCost(p, "small") > SmallTarget(p.cap) \/ p.q["main"] = <<>>
           r     == IF small THEN HS3EvictSmall(p) ELSE HS3EvictMain(p)
       IN  HS3Evict(r.p, need - (IF r.out = <<>> THEN 0 ELSE p.cost[r.out[1]]), out \o r.out)

-----------------------------------------------------------------------------
(* Dispatch: policy::CachePolicy for the key-based policies,               *)
(* hpolicy::Builtin for the two in the shard.                              *)

IsBuiltin(p) == p.kind \in {"htinylfu", "hs3fifo"}

OnAccess(p, k, c) ==
  CASE p.kind = "lru" -> LruOnAccess(p, k)
    [] p.kind = "clock" -> ClockOnAccess(p, k)
    [] p.kind = "sieve" -> SieveOnAccess(p, k)
    [] p.kind = "slru" -> SlruTouch(p, k, c)
    [] p.kind = "tinylfu" -> TinyLfuOnAccess(p, k, c)
    [] p.kind = "arc" -> ArcOnAccess(p, k, c)
    [] p.kind = "s3fifo" -> S3OnAccess(p, k)
    [] p.kind = "htinylfu" -> HTinyLfuTouch(p, k)
    [] p.kind = "hs3fifo" -> HS3Bump(p, k)
    [] OTHER -> p

Plainly(p) == {[p |-> p, out |-> <<>>]}

OnAdmit(p, k, c) ==
  CASE p.kind = "fifo" -> Plainly(FifoOnAdmit(p, k, c))
    [] p.kind = "lru" -> Plainly(LruOnAdmit(p, k, c))
    [] p.kind = "random" -> Plainly(RandomOnAdmit(p, k, c))
    [] p.kind = "clock" -> Plainly(ClockOnAdmit(p, k, c))
    [] p.kind = "sieve" -> Plainly(SieveOnAdmit(p, k, c))
    [] p.kind = "slru" -> Plainly(SlruOnAdmit(p, k, c))
    [] p.kind = "tinylfu" -> TinyLfuOnAdmit(p, k, c)
    [] p.kind = "arc" -> Plainly(ArcOnAdmit(p, k, c))
    [] p.kind = "s3fifo" -> Plainly(S3OnAdmit(p, k, c))
    [] OTHER -> Plainly(p)

BuiltinAdmit(p, k, c) == IF p.kind = "htinylfu" THEN HTinyLfuAdmit(p, k, c) ELSE Plainly(HS3Admit(p, k, c))
BuiltinUpdate(p, k, c) == IF p.kind = "htinylfu" THEN HTinyLfuUpdate(p, k, c) ELSE HS3Update(p, k, c)
BuiltinRemove(p, k) == IF p.kind = "htinylfu" THEN HTinyLfuRemove(p, k) ELSE HS3Remove(p, k)
BuiltinEvict(p, need) == IF p.kind = "htinylfu" THEN HTinyLfuEvict(p, need) ELSE HS3Evict(p, need, <<>>)

OnRemove(p, k) ==
  CASE p.kind = "fifo" -> FifoOnRemove(p, k)
    [] p.kind = "lru" -> LruOnRemove(p, k)
    [] p.kind = "random" -> RandomOnRemove(p, k)
    [] p.kind = "clock" -> ClockOnRemove(p, k)
    [] p.kind = "sieve" -> SieveOnRemove(p, k)
    [] p.kind = "slru" -> SlruOnRemove(p, k)
    [] p.kind = "tinylfu" -> TinyLfuOnRemove(p, k)
    [] p.kind = "arc" -> ArcOnRemove(p, k)
    [] p.kind = "s3fifo" -> S3OnRemove(p, k)
    [] IsBuiltin(p) -> BuiltinRemove(p, k)
    [] OTHER -> p

Evict(p, need) ==
  CASE p.kind = "fifo" -> {FifoEvict(p, need)}
    [] p.kind = "lru" -> {LruEvict(p, need)}
    [] p.kind = "random" -> RandomEvict(p, need)
    [] p.kind = "clock" -> {ClockEvict(p, need, <<>>)}
    [] p.kind = "sieve" -> {SieveEvict(p, need, <<>>)}
    [] p.kind = "slru" -> {SlruEvictItems(p, need)}
    [] p.kind = "tinylfu" -> {TinyLfuEvict(p, need)}
    [] p.kind = "arc" -> {ArcEvict(p, need, <<>>)}
    [] p.kind = "s3fifo" -> {S3Evict(p, need, <<>>)}
    [] IsBuiltin(p) -> {BuiltinEvict(p, need)}
    [] OTHER -> Plainly(p)

\* The keys the policy could still choose as victims.
Tracked(p) ==
  IF p.kind = "arc" THEN ToSet(p.q["t1"]) \cup ToSet(p.q["t2"])
  ELSE UNION {ToSet(p.q[s]) : s \in DOMAIN p.q} \ {Stale}

UsesAccessEvents(p) == p.kind \notin {"null", "hs3fifo"}

-----------------------------------------------------------------------------
(* The two implementations of S3-FIFO driven by the same operations: `t`   *)
(* is the pair of the policy in the shard (hpolicy.rs) and the key-based   *)
(* one (policy/s3fifo.rs).  The driver is a shard that inserts, replaces,  *)
(* reads, removes and clears, and evicts when it is over its budget, here  *)
(* the policies' capacity.                                                 *)

NewTwins(cap) == [shard |-> EmptyPolicy("hs3fifo", cap), keyed |-> EmptyPolicy("s3fifo", cap)]

TwinInsert(t, k, c) ==
  LET h == IF k \in S3Live(t.shard) THEN HS3Update(t.shard, k, c) ELSE HS3Admit(t.shard, k, c)
      over == ListCost(h, "small") + ListCost(h, "main") - h.cap
  IN  [shard |-> HS3Evict(h, over, <<>>).p, keyed |-> S3Evict(S3OnAdmit(t.keyed, k, c), over, <<>>).p]

TwinRead(t, k) == [shard |-> HS3Bump(t.shard, k), keyed |-> S3OnAccess(t.keyed, k)]

TwinRemove(t, k) == [shard |-> HS3Remove(t.shard, k), keyed |-> S3OnRemove(t.keyed, k)]

TwinClear(t) == [shard |-> LruClear(t.shard), keyed |-> LruClear(t.keyed)]

TwinSteps(t, costs) ==
  UNION {{TwinInsert(t, k, c) : c \in costs} \cup {TwinRead(t, k), TwinRemove(t, k)} : k \in Keys}
  \cup {TwinClear(t)}

\* "S3-FIFO on node handles, making the decisions of S3FifoPolicy" (hpolicy.rs:367):
\* whatever the operations, both hold the same entries in the same order with the
\* same frequencies and costs, and the same ghosts in the same order.
TwinsAgree(t) ==
  /\ \A s \in {"small", "main"} : Reverse(t.shard.q[s]) = Remove(t.keyed.q[s], Stale)
  /\ t.shard.mark = t.keyed.mark /\ t.shard.cost = t.keyed.cost
  /\ t.shard.ghost = t.keyed.ghost /\ t.shard.ghosts = t.keyed.ghosts
=============================================================================
