----------------------------- MODULE CacheLoads -----------------------------
(***************************************************************************)
(* Read-through loading of a fibre cache: fetch_with on both handles, the  *)
(* LoadFuture that the callers of one key share, the background refresh of *)
(* a stale entry, the queue that bounds the refreshes, and the guard that  *)
(* cleans up after an async loader's task which its runtime dropped.       *)
(*                                                                         *)
(* A load is a number, in the order of creation; load[f] is its LoadFuture *)
(* and the progress of the job or task that runs it.  entry[k] says what   *)
(* the shard's table holds for k: "none" (absent, or expired past the      *)
(* grace), "fresh", or "stale" (expired and within stale_while_revalidate).*)
(* A critical section of a pending_loads mutex is one step.  The mutex of  *)
(* a LoadFuture is explicit (`held`), because drop_load only tries it.     *)
(*                                                                         *)
(* Abstracted away: loaded values and their cost, time (Age), metrics, the *)
(* thread pool a sync loader's job waits in (LoadPool).                    *)
(***************************************************************************)
EXTENDS Naturals, Integers, Sequences, FiniteSets

CONSTANTS
    Callers,    \* threads and tasks that call fetch_with
    None,       \* no load, no lock holder
    Clients     \* the configurations checked: see MCLibraries

ASSUME NamesAssumption ==
    IsFiniteSet(Callers) /\ None \notin Nat /\ \A c \in Callers : c \notin Nat /\ c # None

ASSUME ClientsAssumption ==
    \A cl \in Clients : /\ cl.limit \in Nat /\ cl.maxLoads \in Nat
                        /\ cl.drops \in BOOLEAN /\ cl.first \in {"none", "fresh", "stale"}

VARIABLES
    client,     \* the configuration of this behaviour
    entry,      \* key -> "none" | "fresh" | "stale"
    pending,    \* key -> the load in pending_loads, or None
    load,       \* <<load 1, load 2, ...>>
    held,       \* load -> the caller holding its inner mutex, or None
    refreshes,  \* the RefreshQueue: [queue, running, waiting, pumping]
    pump,       \* caller or load -> where it is in start_refreshes
    call        \* caller -> where it is in fetch_with

vars == <<client, entry, pending, load, held, refreshes, pump, call>>

Keys == client.keys
Loads == 1..Len(load)
\* Whoever may run start_refreshes: callers, and the jobs that end a refresh.
Pumpers == Callers \cup (1..client.maxLoads)

\* A new LoadFuture: Computing, with nobody waiting.
Queued(k) == [key |-> k, state |-> "computing", started |-> FALSE, dropped |-> FALSE,
              waiters |-> {}, task |-> "none", refresh |-> FALSE]

\* A LoadFuture whose creator runs it.
Started(k) == [Queued(k) EXCEPT !.started = TRUE, !.task = "loading"]

\* Mutant: `started` is not looked at.
MutClaimable(f) == TRUE

\* The caller that finds `started` clear runs the load.
Claimable(f) == ~load[f].started

Idle == [pc |-> "idle", key |-> None, load |-> None, woken |-> FALSE]

\* A thread keeps an unpark it has not consumed; a task polled to its end does not.
Back(c) == [Idle EXCEPT !.woken = call[c].woken /\ c \notin client.async]

\* The load of `k` a caller may join: one whose task was not dropped.
Live(k) == pending[k] # None /\ ~load[pending[k]].dropped

\* What finish leaves of the waiters: each is woken, and forgotten.
Woken(cs) == [c \in Callers |-> IF c \in cs THEN [call[c] EXCEPT !.woken = TRUE] ELSE call[c]]

\* Inner::finish: the state is final and the load's job goes on at `task`.
Finish(f, state, task) ==
    /\ load' = [load EXCEPT ![f] = [@ EXCEPT !.state = state, !.waiters = {}, !.task = task]]
    /\ call' = Woken(load[f].waiters)

-----------------------------------------------------------------------------
\* fetch_with.  A fresh hit changes nothing here.

\* What the lookup under the shard's read lock decides.
Looked(c, k) ==
    /\ call[c].pc = "idle"
    /\ entry[k] # "fresh"
    /\ call' = [call EXCEPT ![c] = [Back(c) EXCEPT !.key = k,
                                    !.pc = IF entry[k] = "stale" THEN "trigger" ELSE "join"]]
    /\ UNCHANGED <<client, entry, pending, load, held, refreshes, pump>>

FetchWith(c, k) == c \notin client.async /\ Looked(c, k)

FetchWithAsync(c, k) == c \in client.async /\ Looked(c, k)

\* A stale hit queues one refresh of the key.
Triggered(c) ==
    LET k == call[c].key IN
    /\ call[c].pc = "trigger"
    /\ IF Live(k)
       THEN /\ call' = [call EXCEPT ![c] = Back(c)]
            /\ UNCHANGED <<pending, load, held>>
       ELSE /\ Len(load) < client.maxLoads
            /\ load' = Append(load, Queued(k))
            /\ held' = Append(held, None)
            /\ pending' = [pending EXCEPT ![k] = Len(load) + 1]
            /\ call' = [call EXCEPT ![c] = [@ EXCEPT !.pc = "send", !.load = Len(load) + 1]]
    /\ UNCHANGED <<client, entry, refreshes, pump>>

TriggerBackgroundLoad(c) == c \notin client.async /\ Triggered(c)

TriggerBackgroundLoadAsync(c) == c \in client.async /\ Triggered(c)

\* enqueue_refresh: send, count, then start what can be started.
EnqueueRefresh(c) ==
    \/ /\ call[c].pc = "send"
       /\ refreshes' = [refreshes EXCEPT !.queue = Append(@, call[c].load)]
       /\ call' = [call EXCEPT ![c].pc = "count"]
       /\ UNCHANGED <<client, entry, pending, load, held, pump>>
    \/ /\ call[c].pc = "count"
       /\ refreshes' = [refreshes EXCEPT !.waiting = @ + 1]
       /\ pump' = [pump EXCEPT ![c] = "swap"]
       /\ call' = [call EXCEPT ![c] = [Back(c) EXCEPT !.pc = "pumping"]]
       /\ UNCHANGED <<client, entry, pending, load, held>>
    \/ /\ call[c].pc = "pumping" /\ pump[c] = "no"
       /\ call' = [call EXCEPT ![c].pc = "idle"]
       /\ UNCHANGED <<client, entry, pending, load, held, refreshes, pump>>

\* A miss: one caller per key leads.  `leading` is where the leader goes on.
Joined(c, leading) ==
    LET k == call[c].key
        f == pending[k]
        With(g, pc) == call' = [call EXCEPT ![c] = [@ EXCEPT !.pc = pc, !.load = g]]
    IN /\ call[c].pc = "join"
       /\ \/ /\ Live(k) /\ Claimable(f)
             /\ load' = [load EXCEPT ![f] = [@ EXCEPT !.started = TRUE, !.task = "loading"]]
             /\ With(f, leading)
             /\ UNCHANGED <<pending, held>>
          \/ /\ Live(k) /\ ~Claimable(f)
             /\ With(f, "wait")
             /\ UNCHANGED <<pending, load, held>>
          \/ /\ ~Live(k) /\ Len(load) < client.maxLoads
             /\ load' = Append(load, Started(k))
             /\ held' = Append(held, None)
             /\ pending' = [pending EXCEPT ![k] = Len(load) + 1]
             /\ With(Len(load) + 1, leading)
       /\ UNCHANGED <<client, entry, refreshes, pump>>

\* A sync caller runs a sync loader itself, and waits for any other load.
LoadValueBlocking(c) ==
    c \notin client.async /\ Joined(c, IF client.loader = "sync" THEN "lead" ELSE "wait")

LoadValueAwaiting(c) == c \in client.async /\ Joined(c, "wait")

\* The inline leader returns the value, or resumes the loader's panic.
LeadReturns(c) ==
    /\ call[c].pc = "lead" /\ load[call[c].load].task = "done"
    /\ call' = [call EXCEPT ![c] = Back(c)]
    /\ UNCHANGED <<client, entry, pending, load, held, refreshes, pump>>

\* The look at the future under its mutex: a final state is returned (or is a
\* panic), a dropped load is finished, and otherwise the caller registers and
\* still holds the mutex.
Inspected(c) ==
    LET f == call[c].load
        done == Back(c)
    IN /\ call[c].pc = "wait" /\ held[f] = None
       /\ \/ /\ load[f].state # "computing"
             /\ call' = [call EXCEPT ![c] = done]
             /\ UNCHANGED <<load, held>>
          \/ /\ load[f].state = "computing" /\ load[f].dropped
             /\ load' = [load EXCEPT ![f] = [@ EXCEPT !.state = "dropped", !.waiters = {}]]
             /\ call' = [Woken(load[f].waiters) EXCEPT ![c] = done]
             /\ UNCHANGED held
          \/ /\ load[f].state = "computing" /\ ~load[f].dropped
             /\ load' = [load EXCEPT ![f].waiters = @ \cup {c}]
             /\ held' = [held EXCEPT ![f] = c]
             /\ call' = [call EXCEPT ![c].pc = "unlock"]
       /\ UNCHANGED <<client, entry, pending, refreshes, pump>>

\* Mutant: `dropped` is not read again after the mutex is released.
MutReleased(c) ==
    /\ \/ /\ call[c].pc = "unlock"
          /\ held' = [held EXCEPT ![call[c].load] = None]
          /\ call' = [call EXCEPT ![c].pc = "parked"]
       \/ /\ call[c].pc = "parked" /\ call[c].woken
          /\ call' = [call EXCEPT ![c] = [@ EXCEPT !.pc = "wait", !.woken = FALSE]]
          /\ UNCHANGED held
    /\ UNCHANGED <<client, entry, pending, load, refreshes, pump>>

\* The mutex is released; `dropped` is read again; a caller that finds it clear
\* parks (or returns Pending), the others look once more.
Released(c) ==
    /\ \/ /\ call[c].pc = "unlock"
          /\ held' = [held EXCEPT ![call[c].load] = None]
          /\ call' = [call EXCEPT ![c].pc = "recheck"]
       \/ /\ call[c].pc = "recheck"
          /\ call' = [call EXCEPT ![c].pc = IF load[call[c].load].dropped THEN "wait" ELSE "parked"]
          /\ UNCHANGED held
       \/ /\ call[c].pc = "parked" /\ call[c].woken
          /\ call' = [call EXCEPT ![c] = [@ EXCEPT !.pc = "wait", !.woken = FALSE]]
          /\ UNCHANGED held
    /\ UNCHANGED <<client, entry, pending, load, refreshes, pump>>

WaitForLoad(c) == c \notin client.async /\ (Inspected(c) \/ Released(c))

PollLoadFuture(c) == c \in client.async /\ (Inspected(c) \/ Released(c))

\* The future of an async fetch_with is dropped where it was pending.
CancelFetch(c) ==
    /\ c \in client.cancels
    /\ call[c].pc \in {"parked", "wait", "join", "trigger"}
    /\ call' = [call EXCEPT ![c] = Back(c)]
    /\ UNCHANGED <<client, entry, pending, load, held, refreshes, pump>>

-----------------------------------------------------------------------------
\* The job or task that runs load f, from the loader's call to its end.

\* The loader returns a value, which goes in the table before the load leaves
\* pending_loads, or it panics.
LoaderReturns(f) ==
    /\ load[f].task = "loading"
    /\ \/ /\ load' = [load EXCEPT ![f].task = "unpend"]
          /\ entry' = [entry EXCEPT ![load[f].key] = "fresh"]
       \/ /\ client.panics
          /\ load' = [load EXCEPT ![f].task = "fail"]
          /\ UNCHANGED entry
    /\ UNCHANGED <<client, pending, held, refreshes, pump, call>>

\* By key: whatever load pending_loads has for it is removed.
Unpend(f) ==
    /\ load[f].task \in {"unpend", "fail"}
    /\ pending' = [pending EXCEPT ![load[f].key] = None]
    /\ load' = [load EXCEPT ![f].task = IF @ = "fail" THEN "failed" ELSE "complete"]
    /\ UNCHANGED <<client, entry, held, refreshes, pump, call>>

\* A refresh has a slot to hand back.
Ended(f) == IF load[f].refresh THEN "release" ELSE "done"

\* complete / fail: the mutex, the final state and every waiter.
Complete(f) ==
    /\ load[f].task \in {"complete", "failed"} /\ held[f] = None
    /\ Finish(f, IF load[f].task = "failed" THEN "panicked" ELSE "complete", Ended(f))
    /\ UNCHANGED <<client, entry, pending, held, refreshes, pump>>

RunSyncLoad(f) ==
    /\ client.loader = "sync"
    /\ LoaderReturns(f) \/ Unpend(f) \/ Complete(f)

SpawnedLoad(f) ==
    /\ client.loader = "async"
    /\ LoaderReturns(f) \/ Unpend(f) \/ Complete(f)

\* An async loader's task is dropped at any await, or before its first poll.
DropTask(f) ==
    /\ client.loader = "async" /\ client.drops
    /\ load[f].task \in {"loading", "unpend", "fail", "complete", "failed"}
    /\ load' = [load EXCEPT ![f] = [@ EXCEPT !.dropped = TRUE, !.task = "droplock"]]
    /\ UNCHANGED <<client, entry, pending, held, refreshes, pump, call>>

\* drop_load only tries the mutex: its holder will see `dropped`.
DropLoad(f) ==
    /\ load[f].task = "droplock"
    /\ IF held[f] = None /\ load[f].state = "computing"
       THEN Finish(f, "dropped", "dropunpend")
       ELSE /\ load' = [load EXCEPT ![f].task = "dropunpend"]
            /\ UNCHANGED call
    /\ UNCHANGED <<client, entry, pending, held, refreshes, pump>>

\* The rest of AsyncLoadGuard::drop.  The pending_loads mutex is only tried, and
\* a failed try leaves the dropped load there.
GuardDrop(f) ==
    LET k == load[f].key IN
    /\ load[f].task = "dropunpend"
    /\ \/ pending' = [pending EXCEPT ![k] = IF @ = f THEN None ELSE @]
       \/ UNCHANGED pending
    /\ load' = [load EXCEPT ![f].task = Ended(f)]
    /\ UNCHANGED <<client, entry, held, refreshes, pump, call>>

\* refresh_done: the slot is handed back and the next refresh started.
RefreshDone(f) ==
    \/ /\ load[f].task = "release"
       /\ refreshes' = [refreshes EXCEPT !.running = @ - 1]
       /\ pump' = [pump EXCEPT ![f] = "swap"]
       /\ load' = [load EXCEPT ![f] = [@ EXCEPT !.task = "pumping", !.refresh = FALSE]]
       /\ UNCHANGED <<client, entry, pending, held, call>>
    \/ /\ load[f].task = "pumping" /\ pump[f] = "no"
       /\ load' = [load EXCEPT ![f].task = "done"]
       /\ UNCHANGED <<client, entry, pending, held, refreshes, pump, call>>

-----------------------------------------------------------------------------
\* start_refreshes, by the caller or job `a`, one shared access at a time.

ClaimSlot == refreshes.running < client.limit

At(a, here, there) == pump[a] = here /\ pump' = [pump EXCEPT ![a] = there]

\* One thread starts refreshes at a time.
TakePump(a) ==
    \/ At(a, "swap", "no") /\ refreshes.pumping /\ UNCHANGED refreshes
    \/ /\ At(a, "swap", "claim") /\ ~refreshes.pumping
       /\ refreshes' = [refreshes EXCEPT !.pumping = TRUE]

ClaimRefresh(a) ==
    \/ /\ At(a, "claim", "recv") /\ ClaimSlot
       /\ refreshes' = [refreshes EXCEPT !.running = @ + 1]
    \/ At(a, "claim", "clear") /\ ~ClaimSlot /\ UNCHANGED refreshes
    \/ /\ At(a, "recv", "clear") /\ refreshes.queue = <<>>
       /\ refreshes' = [refreshes EXCEPT !.running = @ - 1]

\* The oldest queued refresh, still to be counted off.
ReceiveRefresh(a) ==
    /\ At(a, "recv", "start") /\ refreshes.queue # <<>>
    /\ refreshes' = [refreshes EXCEPT !.waiting = @ - 1, !.queue = Tail(@),
                                      !.taken = Head(refreshes.queue)]

\* A refresh that a miss has claimed meanwhile gives its slot back.
StartRefresh(a) ==
    LET f == refreshes.taken IN
    /\ At(a, "start", "claim")
    /\ IF Claimable(f)
       THEN /\ load' = [load EXCEPT ![f] = [@ EXCEPT !.started = TRUE, !.task = "loading",
                                                    !.refresh = TRUE]]
            /\ refreshes' = [refreshes EXCEPT !.taken = None]
       ELSE /\ refreshes' = [refreshes EXCEPT !.taken = None, !.running = @ - 1]
            /\ UNCHANGED load
    /\ UNCHANGED <<client, entry, pending, held, call>>

\* Mutant: the pump is left without a last look.
MutLeavePump(a) ==
    /\ At(a, "clear", "no")
    /\ refreshes' = [refreshes EXCEPT !.pumping = FALSE]

\* more_can_start, read after the flag is cleared: `waiting`, then `running`.
LeavePump(a) ==
    \/ /\ At(a, "clear", "check")
       /\ refreshes' = [refreshes EXCEPT !.pumping = FALSE]
    \/ At(a, "check", "more") /\ refreshes.waiting > 0 /\ UNCHANGED refreshes
    \/ At(a, "check", "no") /\ refreshes.waiting <= 0 /\ UNCHANGED refreshes
    \/ At(a, "more", "swap") /\ ClaimSlot /\ UNCHANGED refreshes
    \/ At(a, "more", "no") /\ ~ClaimSlot /\ UNCHANGED refreshes

StartRefreshes(a) ==
    \/ /\ TakePump(a) \/ ClaimRefresh(a) \/ ReceiveRefresh(a) \/ LeavePump(a)
       /\ UNCHANGED <<client, entry, pending, load, held, call>>
    \/ StartRefresh(a)

-----------------------------------------------------------------------------
\* Time passes: an entry goes stale, then past its grace (or is removed).
Age(k) ==
    /\ entry[k] # "none" /\ k \in client.ages
    /\ entry' = [entry EXCEPT ![k] = IF @ = "fresh" THEN "stale" ELSE "none"]
    /\ UNCHANGED <<client, pending, load, held, refreshes, pump, call>>

Init ==
    /\ client \in Clients
    /\ entry = [k \in client.keys |-> client.first]
    /\ pending = [k \in client.keys |-> None]
    /\ load = <<>> /\ held = <<>>
    /\ refreshes = [queue |-> <<>>, running |-> 0, waiting |-> 0, pumping |-> FALSE, taken |-> None]
    /\ pump = [a \in Pumpers |-> "no"]
    /\ call = [c \in Callers |-> Idle]

Caller(c) ==
    \/ \E k \in Keys : FetchWith(c, k) \/ FetchWithAsync(c, k)
    \/ TriggerBackgroundLoad(c) \/ TriggerBackgroundLoadAsync(c) \/ EnqueueRefresh(c)
    \/ LoadValueBlocking(c) \/ LoadValueAwaiting(c) \/ LeadReturns(c)
    \/ WaitForLoad(c) \/ PollLoadFuture(c) \/ CancelFetch(c)

Job(f) == \/ RunSyncLoad(f) \/ SpawnedLoad(f) \/ DropTask(f) \/ DropLoad(f)
          \/ GuardDrop(f) \/ RefreshDone(f)

Next == \/ \E c \in Callers : Caller(c)
        \/ \E f \in Loads : Job(f)
        \/ \E a \in Pumpers : StartRefreshes(a)
        \/ \E k \in Keys : Age(k)

Spec == Init /\ [][Next]_vars

-----------------------------------------------------------------------------
Task == {"none", "loading", "unpend", "fail", "complete", "failed", "droplock", "dropunpend",
         "release", "pumping", "done"}

LoadType == [key : Keys, state : {"computing", "complete", "panicked", "dropped"},
             started : BOOLEAN, dropped : BOOLEAN, waiters : SUBSET Callers,
             task : Task, refresh : BOOLEAN]

CallPc == {"idle", "trigger", "join", "send", "count", "pumping", "lead", "wait", "unlock",
           "recheck", "parked"}

CallType == [pc : CallPc, key : Keys \cup {None}, load : Nat \cup {None}, woken : BOOLEAN]

PumpPc == {"no", "swap", "claim", "recv", "start", "clear", "check", "more"}

\* The types, and that whatever names a load names one that was created.
TypeOK ==
    /\ client \in Clients
    /\ entry \in [Keys -> {"none", "fresh", "stale"}]
    /\ load \in Seq(LoadType) /\ Len(load) <= client.maxLoads
    /\ held \in Seq(Callers \cup {None}) /\ Len(held) = Len(load)
    /\ pending \in [Keys -> Nat \cup {None}]
    /\ \A k \in Keys : pending[k] \in Loads \cup {None}
    /\ refreshes \in [queue : Seq(Nat), running : Int, waiting : Int, pumping : BOOLEAN,
                      taken : Nat \cup {None}]
    /\ \A i \in 1..Len(refreshes.queue) : refreshes.queue[i] \in Loads
    /\ refreshes.taken \in Loads \cup {None}
    /\ pump \in [Pumpers -> PumpPc]
    /\ call \in [Callers -> CallType]
    /\ \A c \in Callers :
          /\ call[c].pc \in {"trigger", "join"} => call[c].key \in Keys
          /\ call[c].load \in Loads \cup {None}
          /\ call[c].pc \in {"send", "count", "lead", "wait", "unlock", "recheck", "parked"} =>
               call[c].load \in Loads

\* A load some job, task or inline leader is still going to end.
Running(f) == load[f].task \notin {"none", "done", "release", "pumping"}

\* A refresh that nobody runs yet and that is on its way to the pump.
OnItsWay(f) ==
    \/ \E c \in Callers : call[c].pc = "send" /\ call[c].load = f
    \/ \E i \in 1..Len(refreshes.queue) : refreshes.queue[i] = f
    \/ refreshes.taken = f

(***************************************************************************)
(* One load runs per key however many callers wait on it (sync.rs:566):    *)
(* between the choice of a leader and the removal from pending_loads no    *)
(* second loader is started for the key, whichever of a miss, a queued     *)
(* refresh and a miss that claims it came first.                           *)
(***************************************************************************)
OneLoadPerKey ==
    \A f, g \in Loads :
        /\ load[f].task \in {"loading", "unpend", "fail"}
        /\ load[g].task \in {"loading", "unpend", "fail"}
        /\ load[f].key = load[g].key
        => f = g

(***************************************************************************)
(* A load found in pending_loads and not dropped is somebody's: it is      *)
(* running, or it waits unclaimed in the refresh queue.  Otherwise every   *)
(* later miss of the key would join a load that never ends.                *)
(***************************************************************************)
PendingHasOwner ==
    \A k \in Keys : Live(k) => Running(pending[k]) \/ OnItsWay(pending[k])

(***************************************************************************)
(* No waiter of a load is forgotten (fetch_with: "in the caller and in     *)
(* every waiter on it"): one that parked, or returned Pending, and was not *)
(* woken is registered with a load that is still running or whose drop is  *)
(* in progress, or another caller is about to finish the dropped load.     *)
(***************************************************************************)
Waiting(c) == call[c].pc = "parked" /\ ~call[c].woken

NoWaiterForgotten ==
    \A c \in Callers : Waiting(c) =>
        LET f == call[c].load IN
        /\ load[f].state = "computing" /\ c \in load[f].waiters
        /\ \/ Running(f) /\ load[f].task # "dropunpend"
           \/ \E d \in Callers : /\ call[d].load = f
                                 /\ \/ call[d].pc \in {"wait", "unlock", "recheck"}
                                    \/ call[d].pc = "parked" /\ call[d].woken

(***************************************************************************)
(* The refresh queue neither strands a refresh nor leaks a slot: with      *)
(* nobody inside start_refreshes or about to enter it, every slot in use   *)
(* is a running refresh, and an unclaimed refresh is still queued only     *)
(* when all `limit` slots are in use.                                      *)
(***************************************************************************)
RefreshesKept ==
    /\ refreshes.running <= client.limit
    /\ (/\ \A a \in Pumpers : pump[a] = "no"
        /\ \A c \in Callers : call[c].pc # "count"
        /\ \A f \in Loads : load[f].task # "release") =>
       /\ refreshes.running = Cardinality({f \in Loads : load[f].refresh /\ Running(f)})
       /\ \/ refreshes.running = client.limit
          \/ \A i \in 1..Len(refreshes.queue) : ~Claimable(refreshes.queue[i])

\* One load per key, each with an owner, and no refresh stranded.
LoadsKept == OneLoadPerKey /\ PendingHasOwner /\ RefreshesKept
=============================================================================
