---------------------------- MODULE StopTheWorld ----------------------------
(***************************************************************************)
(* The cache operations that hold the write lock of every shard at once:   *)
(* clear and to_snapshot.  The sync handle takes the locks in shard order; *)
(* the async handle polls all of its write_async futures together          *)
(* (join_all), so it keeps whichever it gets while it waits for the rest.  *)
(* Writers lock one shard at a time.  Only the locks are modelled: what    *)
(* clear does to a shard is CacheShard's.                                  *)
(***************************************************************************)
EXTENDS Naturals, FiniteSets

CONSTANTS
    Shards,     \* 1..n
    Stoppers,   \* threads and tasks that clear or snapshot
    Writers,    \* threads that write to one shard
    Parties,    \* the configurations: who stops the world, and who by the async handle
    None

VARIABLES
    party,     \* the configuration of this behaviour: [who, async]
    holder,    \* shard -> who holds its write lock
    op         \* stopper -> "idle" | "clear" | "snapshot"

vars == <<party, holder, op>>

Held(t) == {s \in Shards : holder[s] = t}
Wants(t) == IF op[t] = "idle" THEN {} ELSE Shards \ Held(t)

Take(t, s) ==
    /\ holder[s] = None
    /\ holder' = [holder EXCEPT ![s] = t]
    /\ UNCHANGED <<party, op>>

\* Mutant: the sync handle takes the locks in any order.
MutLockInOrder(t) == t \notin party.async /\ \E s \in Wants(t) : Take(t, s)

\* iter_shards().map(|s| s.map.write()).collect(): the first one missing.
LockInOrder(t) ==
    t \notin party.async /\ \E s \in Wants(t) : (\A u \in Wants(t) : s <= u) /\ Take(t, s)

\* join_all(iter_shards().map(|s| s.map.write_async())): any that is free.
LockAsPolled(t) == t \in party.async /\ \E s \in Wants(t) : Take(t, s)

\* The call begins; with every lock held it does its work and drops the guards.
Perform(t, what) ==
    \/ /\ op[t] = "idle"
       /\ op' = [op EXCEPT ![t] = what]
       /\ UNCHANGED <<party, holder>>
    \/ /\ op[t] = what /\ Wants(t) = {}
       /\ holder' = [s \in Shards |-> None]
       /\ op' = [op EXCEPT ![t] = "idle"]
       /\ UNCHANGED party

Clear(t) == t \notin party.async /\ Perform(t, "clear")
ClearAsync(t) == t \in party.async /\ Perform(t, "clear")
ToSnapshot(t) == t \notin party.async /\ Perform(t, "snapshot")
ToSnapshotAsync(t) == t \in party.async /\ Perform(t, "snapshot")

\* An insert, removal or maintenance of one shard.
Write(w, s) ==
    \/ (\A u \in Shards : holder[u] # w) /\ Take(w, s)
    \/ /\ holder[s] = w
       /\ holder' = [holder EXCEPT ![s] = None]
       /\ UNCHANGED <<party, op>>

Init ==
    /\ party \in Parties
    /\ holder = [s \in Shards |-> None]
    /\ op = [t \in Stoppers |-> "idle"]

Next == \/ \E t \in party.who : \/ LockInOrder(t) \/ LockAsPolled(t)
                                \/ Clear(t) \/ ClearAsync(t)
                                \/ ToSnapshot(t) \/ ToSnapshotAsync(t)
        \/ \E w \in Writers, s \in Shards : Write(w, s)

Spec == Init /\ [][Next]_vars

(***************************************************************************)
(* When calls that stop the world wait for one another in a circle, one of *)
(* them is an async call that holds a lock and waits for one before it in  *)
(* the order of the shards.  So sync calls alone, whatever the writers do, *)
(* never stop each other for good; any circle is join_all's doing.         *)
(***************************************************************************)
Circle(T) == \A t \in T : \E s \in Wants(t) : holder[s] \in T
OutOfOrder(t) == t \in party.async /\ \E s \in Wants(t), u \in Held(t) : s < u /\ holder[s] # None
NoLockCycle == \A T \in SUBSET Stoppers \ {{}} : Circle(T) => \E t \in T : OutOfOrder(t)
=============================================================================
