----------------------------- MODULE CacheIter ------------------------------
(***************************************************************************)
(* Iterating a fibre cache while others write to it.  Iter and IterStream  *)
(* remember a position (shard, items seen) and copy the next batch under   *)
(* one shard's read lock at a time; SnapshotIter and AsyncSnapshotIter     *)
(* copy the keys of one shard and fetch each value when it is asked for.   *)
(*                                                                         *)
(* table[i] is shard i's hash table in its iteration order: a new key may  *)
(* land anywhere, and a table that grows is reordered.  One step of the    *)
(* iterator is one critical section of a shard lock.                       *)
(***************************************************************************)
EXTENDS Naturals, SequencesExt, FiniteSetsExt

CONSTANTS
    Home,       \* key -> its shard
    BatchSize,  \* batch_size of Iter, at least 1
    Kinds,      \* the iterators checked: "iter", "stream", "snapshot", "async_snapshot"
    MaxWrites   \* bound on the writes during one iteration

VARIABLES
    table,     \* shard -> keys in iteration order
    expired,   \* resident keys whose entry has expired
    it,        \* the iterator
    writes,    \* writes since it began
    stable     \* keys live in the table since it began

vars == <<table, expired, it, writes, stable>>

Keys == DOMAIN Home
Shards == 1..Max(Range(Home))
Resident(k) == k \in Range(table[Home[k]])

\* The iterator: where it stands, what it holds, what it has yielded.
Fresh(kind) == [kind |-> kind, pc |-> "idle", shard |-> 1, seen |-> 0, buffer |-> <<>>,
                finished |-> FALSE, yielded |-> <<>>]

LiveOf(ks) == SelectSeq(ks, LAMBDA k : k \notin expired)

-----------------------------------------------------------------------------
\* Iter::next: the buffer first; an empty one is refilled once.
Serve(i) ==
    IF i.buffer # <<>>
    THEN [i EXCEPT !.yielded = Append(@, Head(i.buffer)), !.buffer = Tail(@), !.pc = "idle"]
    ELSE [i EXCEPT !.pc = "end"]

IterNext ==
    /\ it.pc = "idle" /\ it.kind \in {"iter", "stream"}
    /\ it' = IF it.buffer # <<>> \/ it.finished THEN Serve(it) ELSE [it EXCEPT !.pc = "refill"]
    /\ UNCHANGED <<table, expired, writes, stable>>

\* Mutant: the count is not reset for the next shard.
MutScan(i) ==
    LET ks == table[i.shard]
        chunk == SubSeq(ks, i.seen + 1, Min({Len(ks), i.seen + BatchSize - Len(i.buffer)}))
    IN IF i.seen >= Len(ks)
       THEN [i EXCEPT !.shard = @ + 1]
       ELSE [i EXCEPT !.buffer = @ \o LiveOf(chunk), !.seen = @ + Len(chunk)]

\* One turn of the refill loop: skip what was seen, take what is needed, count
\* what was scanned, expired or not; or go on to the next shard.
Scan(i) ==
    LET ks == table[i.shard]
        chunk == SubSeq(ks, i.seen + 1, Min({Len(ks), i.seen + BatchSize - Len(i.buffer)}))
    IN IF i.seen >= Len(ks)
       THEN [i EXCEPT !.shard = @ + 1, !.seen = 0]
       ELSE [i EXCEPT !.buffer = @ \o LiveOf(chunk), !.seen = @ + Len(chunk)]

Filled(i) == i.shard > Max(Shards) \/ Len(i.buffer) >= BatchSize

Refill ==
    /\ it.pc = "refill"
    /\ LET i == Scan(it) IN
       it' = IF Filled(i)
             THEN Serve([i EXCEPT !.finished = i.shard > Max(Shards)])
             ELSE i
    /\ UNCHANGED <<table, expired, writes, stable>>

RefillBuffer == it.kind = "iter" /\ Refill

\* The stream keeps its refill between two polls, and its state moves on when
\* the refill is done.
PollRefill == it.kind = "stream" /\ Refill

\* SnapshotIter::next: a copied key whose value is gone is passed over.
SnapshotNext ==
    /\ it.pc = "idle" /\ it.kind \in {"snapshot", "async_snapshot"} /\ it.buffer # <<>>
    /\ LET k == Head(it.buffer) IN
       it' = [it EXCEPT !.buffer = Tail(@),
                        !.yielded = IF Resident(k) /\ k \notin expired THEN Append(@, k) ELSE @]
    /\ UNCHANGED <<table, expired, writes, stable>>

\* load_next_shard: one shard's keys, or the next shard's if it has none.
NextShard ==
    /\ it.pc = "idle" /\ it.buffer = <<>>
    /\ it' = IF it.shard > Max(Shards) THEN [it EXCEPT !.pc = "end"]
             ELSE [it EXCEPT !.buffer = table[it.shard], !.shard = @ + 1]
    /\ UNCHANGED <<table, expired, writes, stable>>

LoadNextShard == it.kind = "snapshot" /\ NextShard

LoadNextShardAsync == it.kind = "async_snapshot" /\ NextShard

-----------------------------------------------------------------------------
Wrote(k) == /\ writes < MaxWrites /\ it.pc # "end"
            /\ writes' = writes + 1
            /\ UNCHANGED it

\* A new key lands anywhere in the order; a growing table takes any order.
InsertKey(k) ==
    /\ Wrote(k)
    /\ IF Resident(k)
       THEN UNCHANGED table
       ELSE \E order \in SetToSeqs(Range(table[Home[k]]) \cup {k}) :
                table' = [table EXCEPT ![Home[k]] = order]
    /\ expired' = expired \ {k}
    /\ UNCHANGED stable

\* Removal, eviction and the janitor take an entry out where it stands.
RemoveKey(k) ==
    /\ Resident(k) /\ Wrote(k)
    /\ table' = [table EXCEPT ![Home[k]] = SelectSeq(@, LAMBDA x : x # k)]
    /\ expired' = expired \ {k}
    /\ stable' = stable \ {k}

Expire(k) ==
    /\ Resident(k) /\ k \notin expired /\ Wrote(k)
    /\ expired' = expired \cup {k}
    /\ stable' = stable \ {k}
    /\ UNCHANGED table

Init ==
    \E present \in SUBSET Keys :
        /\ table \in [Shards -> UNION {SetToSeqs(S) : S \in SUBSET present}]
        /\ \A s \in Shards : Range(table[s]) = {k \in present : Home[k] = s}
        /\ expired = {} /\ writes = 0
        /\ stable = present
        /\ \E kind \in Kinds : it = Fresh(kind)

Next == \/ IterNext \/ RefillBuffer \/ PollRefill
        \/ SnapshotNext \/ LoadNextShard \/ LoadNextShardAsync
        \/ \E k \in Keys : InsertKey(k) \/ RemoveKey(k) \/ Expire(k)
        \/ it.pc = "end" /\ UNCHANGED vars

Spec == Init /\ [][Next]_vars

(***************************************************************************)
(* What an iteration misses is only what changed: at its end a snapshot    *)
(* iterator has yielded every entry that stayed in the cache throughout,   *)
(* whatever else was inserted, removed or reordered, and Iter has if no    *)
(* write moved the positions it counts.  No iterator but a disturbed Iter  *)
(* yields a key twice.                                                     *)
(***************************************************************************)
StableSeen ==
    it.kind \in {"snapshot", "async_snapshot"} \/ writes = 0 =>
        /\ IsInjective(it.yielded)
        /\ it.pc = "end" => stable \subseteq Range(it.yielded)
=============================================================================
