-------------------------- MODULE CacheLoadsProofs --------------------------
(***************************************************************************)
(* Proofs about CacheLoads for any finite set of callers, any keys, any    *)
(* number of loads and any limit on the refreshes.                         *)
(***************************************************************************)
EXTENDS CacheLoads, TLAPS

USE DEF Keys, Loads, Pumpers

\* A step is tried with Zenon first; those that need arithmetic, sequences or
\* records cite SMT.
USE ZenonT(30), SMTT(30)

-----------------------------------------------------------------------------
(* What a step does to the sequence of loads *)

LEMMA Replaced ==
  ASSUME NEW S, NEW s \in Seq(S), NEW i \in 1..Len(s), NEW e \in S, NEW t, t = [s EXCEPT ![i] = e]
  PROVE  /\ t \in Seq(S) /\ Len(t) = Len(s) /\ t[i] = e
         /\ \A j \in 1..Len(s) : j # i => t[j] = s[j]
BY SMTT(30)

LEMMA Added ==
  ASSUME NEW S, NEW s \in Seq(S), NEW e \in S, NEW t, t = Append(s, e)
  PROVE  /\ t \in Seq(S) /\ Len(t) = Len(s) + 1 /\ t[Len(s) + 1] = e
         /\ \A j \in 1..Len(s) : t[j] = s[j]
BY SMTT(30)

-----------------------------------------------------------------------------
(* The inductive invariants *)

Active(f) == load[f].task \in {"loading", "unpend", "fail"}

\* Callers of a key share one load.
ShareInv ==
  /\ \A k \in Keys : pending[k] # None => load[pending[k]].key = k
  /\ \A f \in Loads :
       /\ load[f].started <=> load[f].task # "none"
       /\ ~load[f].started => ~load[f].dropped /\ pending[load[f].key] = f /\ OnItsWay(f)
       /\ Active(f) => ~load[f].dropped /\ pending[load[f].key] = f
       /\ pending[load[f].key] = f => load[f].dropped \/ ~load[f].started \/ Active(f)

Inside(a) == pump[a] \in {"claim", "recv", "start", "clear"}

\* One thread at a time starts refreshes.
PumpInv ==
  /\ \A c \in Callers : pump[c] # "no" => call[c].pc = "pumping"
  /\ \A f \in 1..client.maxLoads : pump[f] # "no" => f \in Loads /\ load[f].task = "pumping"
  /\ \A a, b \in Pumpers : Inside(a) /\ Inside(b) => a = b
  /\ refreshes.pumping <=> \E a \in Pumpers : Inside(a)
  /\ refreshes.taken # None <=> \E a \in Pumpers : pump[a] = "start"

Slots == {f \in Loads : load[f].refresh}

Counting == {c \in Callers : call[c].pc = "count"}

\* The pump holds a slot for the refresh it receives or starts.
Claimed == IF \E a \in Pumpers : pump[a] \in {"recv", "start"} THEN 1 ELSE 0

\* Every slot in use is a refresh, or the pump's.
SlotInv ==
  /\ refreshes.running <= client.limit
  /\ refreshes.running = Cardinality(Slots) + Claimed
  /\ \A f \in Loads : load[f].refresh => load[f].task = "release" \/ Running(f)
  /\ \A f \in Loads : load[f].task = "release" => load[f].refresh
  /\ Len(refreshes.queue) = refreshes.waiting + Cardinality(Counting)
  /\ refreshes.waiting > 0 /\ refreshes.running < client.limit => \E a \in Pumpers : pump[a] # "no"

Ahead == {"wait", "unlock", "recheck"}

\* The holder of a load's mutex is about to release it.
HolderInv == \A f \in Loads : held[f] # None => call[held[f]].pc = "unlock" /\ call[held[f]].load = f

\* A waiter has been woken, or is registered with a load that goes on.
CallerInv ==
  \A c \in Callers :
    /\ call[c].pc = "unlock" => held[call[c].load] = c
    /\ call[c].pc \in Ahead \cup {"parked"} => load[call[c].load].started
    /\ call[c].pc \in {"unlock", "recheck", "parked"} =>
         call[c].woken \/ (load[call[c].load].state = "computing" /\ c \in load[call[c].load].waiters)

\* A load whose job is over and that nobody finished was dropped, and a waiter
\* that looks at it again will find that.
JobInv ==
  \A f \in Loads :
    /\ load[f].dropped => client.drops
    /\ load[f].task \in {"droplock", "dropunpend"} => load[f].dropped
    /\ load[f].task \in {"dropunpend", "release", "done", "pumping"} /\ load[f].state = "computing" =>
         load[f].dropped /\ \E c \in Callers : call[c].load = f /\ call[c].pc \in Ahead

WaitInv == HolderInv /\ CallerInv /\ JobInv

-----------------------------------------------------------------------------
(* Types *)

LEMMA InitType == Init => TypeOK
<1>. SUFFICES ASSUME Init PROVE TypeOK
  OBVIOUS
<1>1. client \in Clients /\ client.maxLoads \in Nat /\ client.first \in {"none", "fresh", "stale"}
  BY ClientsAssumption DEF Init
<1>2. load = <<>> /\ held = <<>> /\ Len(load) = 0 /\ Len(held) = 0
      /\ load \in Seq(LoadType) /\ held \in Seq(Callers \cup {None})
  BY SMTT(30) DEF Init
<1>3. /\ refreshes = [queue |-> <<>>, running |-> 0, waiting |-> 0, pumping |-> FALSE, taken |-> None]
      /\ <<>> \in Seq(Nat) /\ Len(<<>>) = 0
  BY SMTT(30) DEF Init
<1>4. call \in [Callers -> CallType] /\ \A c \in Callers : call[c].pc = "idle" /\ call[c].load = None
  BY DEF Init, Idle, CallType, CallPc
<1>5. pump \in [Pumpers -> PumpPc]
  BY DEF Init, PumpPc
<1>6. entry \in [Keys -> {"none", "fresh", "stale"}] /\ pending = [k \in Keys |-> None]
  BY <1>1 DEF Init
<1>. QED BY <1>1, <1>2, <1>3, <1>4, <1>5, <1>6, SMTT(30) DEF TypeOK

\* One caller's record is replaced, and perhaps a load's.
LEMMA CallType1 ==
  ASSUME TypeOK, NEW c \in Callers, NEW r \in CallType, call' = [call EXCEPT ![c] = r]
  PROVE  /\ call' \in [Callers -> CallType] /\ call'[c] = r
         /\ \A d \in Callers : d # c => call'[d] = call[d]
BY DEF TypeOK

LEMMA LoadType1 ==
  ASSUME TypeOK, NEW f \in Loads, NEW r \in LoadType, load' = [load EXCEPT ![f] = r]
  PROVE  /\ load' \in Seq(LoadType) /\ Len(load') = Len(load) /\ load'[f] = r
         /\ \A g \in Loads : g # f => load'[g] = load[g]
<1>. DEFINE t == load'
<1>1. load \in Seq(LoadType)
  BY DEF TypeOK
<1>2. t = [load EXCEPT ![f] = r]
  OBVIOUS
<1>. HIDE DEF t, LoadType
<1>3. /\ t \in Seq(LoadType) /\ Len(t) = Len(load) /\ t[f] = r
      /\ \A g \in 1..Len(load) : g # f => t[g] = load[g]
  BY <1>1, <1>2, Replaced, SMTT(30)
<1>. QED BY <1>3 DEF t

LEMMA LoadType2 ==
  ASSUME TypeOK, NEW r \in LoadType, load' = Append(load, r)
  PROVE  /\ load' \in Seq(LoadType) /\ Len(load') = Len(load) + 1 /\ load'[Len(load) + 1] = r
         /\ \A g \in Loads : load'[g] = load[g]
<1>. DEFINE t == load'
<1>1. load \in Seq(LoadType)
  BY DEF TypeOK
<1>2. t = Append(load, r)
  OBVIOUS
<1>. HIDE DEF t, LoadType
<1>3. /\ t \in Seq(LoadType) /\ Len(t) = Len(load) + 1 /\ t[Len(load) + 1] = r
      /\ \A g \in 1..Len(load) : t[g] = load[g]
  BY <1>1, <1>2, Added, SMTT(30)
<1>. QED BY <1>3 DEF t

\* The waiters of a load are woken, and nothing else of a caller changes.
LEMMA WokenFields ==
  ASSUME TypeOK, NEW cs
  PROVE  /\ Woken(cs) \in [Callers -> CallType]
         /\ \A d \in Callers : /\ Woken(cs)[d].pc = call[d].pc /\ Woken(cs)[d].key = call[d].key
                               /\ Woken(cs)[d].load = call[d].load
                               /\ Woken(cs)[d].woken = (call[d].woken \/ d \in cs)
<1>. DEFINE W == Woken(cs)
<1>1. \A d \in Callers : call[d] \in CallType
  BY DEF TypeOK
<1>2. \A d \in Callers : W[d] = IF d \in cs THEN [call[d] EXCEPT !.woken = TRUE] ELSE call[d]
  BY DEF Woken
<1>3. W = [d \in Callers |-> W[d]]
  BY DEF Woken
<1>. HIDE DEF W
<1>4. ASSUME NEW d \in Callers
      PROVE  /\ W[d] \in CallType
             /\ W[d].pc = call[d].pc /\ W[d].key = call[d].key
             /\ W[d].load = call[d].load
             /\ W[d].woken = (call[d].woken \/ d \in cs)
  <2>1. CASE d \in cs
    BY <1>1, <1>2, <2>1 DEF CallType
  <2>2. CASE d \notin cs
    BY <1>1, <1>2, <2>2 DEF CallType
  <2>. QED BY <2>1, <2>2
<1>. QED BY <1>3, <1>4 DEF W

LEMMA WokenType ==
  ASSUME TypeOK, NEW cs, call' = Woken(cs)
  PROVE  /\ call' \in [Callers -> CallType]
         /\ \A d \in Callers : /\ call'[d].pc = call[d].pc /\ call'[d].key = call[d].key
                               /\ call'[d].load = call[d].load
                               /\ call'[d].woken = (call[d].woken \/ d \in cs)
BY WokenFields, SMTT(30)

Locating == {"send", "count", "lead", "wait", "unlock", "recheck", "parked"}

LEMMA CallOnly ==
  ASSUME TypeOK, NEW c \in Callers, NEW r \in CallType, call' = [call EXCEPT ![c] = r],
         UNCHANGED <<client, entry, pending, load, held, refreshes, pump>>,
         r.pc \in {"trigger", "join"} => r.key \in Keys,
         r.load \in Loads \cup {None}, r.pc \in Locating => r.load \in Loads
  PROVE  /\ TypeOK' /\ call'[c] = r
         /\ \A d \in Callers : d # c => call'[d] = call[d]
<1>1. /\ call' \in [Callers -> CallType] /\ call'[c] = r
      /\ \A d \in Callers : d # c => call'[d] = call[d]
  BY CallType1
<1>. QED BY <1>1 DEF TypeOK, Locating, CallType, LoadType

LEMMA LoadOnly ==
  ASSUME TypeOK, NEW f \in Loads, NEW r \in LoadType, load' = [load EXCEPT ![f] = r],
         UNCHANGED <<client, held, refreshes, pump, call>>,
         entry' \in [Keys -> {"none", "fresh", "stale"}], pending' \in [Keys -> Nat \cup {None}],
         \A k \in Keys : pending'[k] \in {pending[k], None}
  PROVE  /\ TypeOK' /\ Len(load') = Len(load) /\ load'[f] = r
         /\ \A g \in Loads : g # f => load'[g] = load[g]
<1>1. /\ load' \in Seq(LoadType) /\ Len(load') = Len(load) /\ load'[f] = r
      /\ \A g \in Loads : g # f => load'[g] = load[g]
  BY LoadType1
<1>. QED BY <1>1 DEF TypeOK, CallType, LoadType

LEMMA PumpOnly ==
  ASSUME TypeOK, UNCHANGED <<client, entry, pending, load, held, call>>,
         pump' \in [Pumpers -> PumpPc],
         refreshes' \in [queue : Seq(Nat), running : Int, waiting : Int, pumping : BOOLEAN,
                         taken : Nat \cup {None}],
         \A i \in 1..Len(refreshes'.queue) : refreshes'.queue[i] \in Loads,
         refreshes'.taken \in Loads \cup {None}
  PROVE  TypeOK'
BY DEF TypeOK, CallType, LoadType

-----------------------------------------------------------------------------
(* What each step does, field by field *)

\* Caller c alone moves, to pc; load f alone changes, to r; load n is new.
Moved(c, pc) == call'[c].pc = pc /\ \A d \in Callers : d # c => call'[d] = call[d]

Changed(f, r) == /\ Len(load') = Len(load) /\ load'[f] = r
                 /\ \A g \in Loads : g # f => load'[g] = load[g]

Created(k, r, n) ==
  /\ n = Len(load) + 1 /\ Len(load') = n /\ load'[n] = r /\ held'[n] = None
  /\ \A g \in Loads : load'[g] = load[g] /\ held'[g] = held[g]
  /\ pending' = [pending EXCEPT ![k] = n]

LEMMA BackType ==
  ASSUME TypeOK, NEW c \in Callers
  PROVE  /\ Back(c) \in CallType
         /\ Back(c).pc = "idle" /\ Back(c).key = None /\ Back(c).load = None
<1>1. Back(c) = [pc |-> "idle", key |-> None, load |-> None,
                 woken |-> call[c].woken /\ c \notin client.async]
  BY SMTT(30) DEF Back, Idle
<1>2. (call[c].woken /\ c \notin client.async) \in BOOLEAN
  OBVIOUS
<1>. QED BY <1>1, <1>2, SMTT(30) DEF CallType, CallPc

LEMMA CreatedType ==
  ASSUME TypeOK, NEW c \in Callers, NEW k \in Keys, NEW r \in LoadType, NEW q \in CallType,
         Len(load) < client.maxLoads, load' = Append(load, r), held' = Append(held, None),
         pending' = [pending EXCEPT ![k] = Len(load) + 1], call' = [call EXCEPT ![c] = q],
         q.load = Len(load) + 1, q.pc \in Locating, UNCHANGED <<client, entry, refreshes, pump>>
  PROVE  /\ TypeOK' /\ Created(k, r, Len(load) + 1) /\ call'[c] = q
         /\ \A d \in Callers : d # c => call'[d] = call[d]
<1>1. /\ load' \in Seq(LoadType) /\ Len(load') = Len(load) + 1 /\ load'[Len(load) + 1] = r
      /\ \A g \in Loads : load'[g] = load[g]
  BY LoadType2
<1>2. /\ held' \in Seq(Callers \cup {None}) /\ Len(held') = Len(load) + 1
      /\ held'[Len(load) + 1] = None /\ \A g \in Loads : held'[g] = held[g]
  <2>. DEFINE t == held'
  <2>1. held \in Seq(Callers \cup {None}) /\ Len(held) = Len(load) /\ t = Append(held, None)
    BY DEF TypeOK
  <2>. HIDE DEF t
  <2>2. /\ t \in Seq(Callers \cup {None}) /\ Len(t) = Len(held) + 1 /\ t[Len(held) + 1] = None
        /\ \A g \in 1..Len(held) : t[g] = held[g]
    BY <2>1, Added, SMTT(30)
  <2>. QED BY <2>1, <2>2 DEF t
<1>3. /\ call' \in [Callers -> CallType] /\ call'[c] = q
      /\ \A d \in Callers : d # c => call'[d] = call[d]
  BY CallType1
<1>4. Len(load) \in Nat /\ client.maxLoads \in Nat
  BY ClientsAssumption, SMTT(30) DEF TypeOK
<1>5. /\ pending' \in [Keys -> Nat \cup {None}]
      /\ \A j \in Keys : pending'[j] \in 1..(Len(load) + 1) \cup {None}
  BY <1>4, SMTT(30) DEF TypeOK
<1>6. \A d \in Callers : call'[d].load \in 1..(Len(load) + 1) \cup {None}
  BY <1>3, <1>4, SMTT(30) DEF TypeOK
<1>7. \A d \in Callers :
          /\ call'[d].pc \in {"trigger", "join"} => call'[d].key \in Keys
          /\ call'[d].pc \in Locating => call'[d].load \in 1..(Len(load) + 1)
  <2>1. q.pc \notin {"trigger", "join"} /\ q.load \in 1..(Len(load) + 1)
    BY <1>4, SMTT(30) DEF Locating
  <2>2. \A d \in Callers : /\ call[d].pc \in {"trigger", "join"} => call[d].key \in Keys
                           /\ call[d].pc \in Locating => call[d].load \in Loads
    BY DEF TypeOK, Locating
  <2>3. Loads \subseteq 1..(Len(load) + 1)
    BY <1>4, SMTT(30)
  <2>. QED BY <1>3, <2>1, <2>2, <2>3
<1>8. /\ \A i \in 1..Len(refreshes.queue) : refreshes.queue[i] \in 1..(Len(load) + 1)
      /\ refreshes.taken \in 1..(Len(load) + 1) \cup {None}
  BY <1>4, SMTT(30) DEF TypeOK
<1>9. LoadType' = LoadType /\ CallType' = CallType /\ Pumpers' = Pumpers /\ Keys' = Keys
  BY DEF LoadType, CallType
<1>10. TypeOK'
  <2>. HIDE DEF LoadType, CallType
  <2>. QED BY <1>1, <1>2, <1>3, <1>4, <1>5, <1>6, <1>7, <1>8, <1>9, SMTT(30) DEF TypeOK, Locating
<1>. QED BY <1>1, <1>2, <1>3, <1>10 DEF Created

LEMMA LookedStep ==
  ASSUME TypeOK, NEW c \in Callers, NEW k \in Keys, Looked(c, k)
  PROVE  TypeOK' /\ \E pc \in {"trigger", "join"} : Moved(c, pc)
<1>. DEFINE r == [Back(c) EXCEPT !.key = k, !.pc = IF entry[k] = "stale" THEN "trigger" ELSE "join"]
<1>1. r \in CallType /\ r.pc \in {"trigger", "join"} /\ r.key = k /\ r.load = None
  BY BackType DEF CallType, CallPc
<1>2. /\ call' = [call EXCEPT ![c] = r]
      /\ UNCHANGED <<client, entry, pending, load, held, refreshes, pump>>
  BY DEF Looked
<1>. HIDE DEF r
<1>3. /\ TypeOK' /\ call'[c] = r
      /\ \A d \in Callers : d # c => call'[d] = call[d]
  BY <1>1, <1>2, CallOnly DEF Locating
<1>. QED BY <1>1, <1>3 DEF Moved

\* A caller goes back to idle.
LEMMA BackStep ==
  ASSUME TypeOK, NEW c \in Callers, call' = [call EXCEPT ![c] = Back(c)],
         UNCHANGED <<client, entry, pending, load, held, refreshes, pump>>
  PROVE  TypeOK' /\ Moved(c, "idle") /\ call'[c].load = None
<1>. DEFINE r == Back(c)
<1>1. r \in CallType /\ r.pc = "idle" /\ r.load = None
  BY BackType
<1>2. call' = [call EXCEPT ![c] = r]
  OBVIOUS
<1>. HIDE DEF r
<1>3. /\ TypeOK' /\ call'[c] = r
      /\ \A d \in Callers : d # c => call'[d] = call[d]
  BY <1>1, <1>2, CallOnly DEF Locating
<1>. QED BY <1>1, <1>3 DEF Moved

LEMMA QueuedType ==
  ASSUME NEW k \in Keys
  PROVE  /\ Queued(k) \in LoadType /\ Started(k) \in LoadType
         /\ Queued(k).key = k /\ Queued(k).state = "computing" /\ ~Queued(k).started
         /\ ~Queued(k).dropped /\ Queued(k).waiters = {} /\ Queued(k).task = "none" /\ ~Queued(k).refresh
         /\ Started(k).key = k /\ Started(k).state = "computing" /\ Started(k).started
         /\ ~Started(k).dropped /\ Started(k).waiters = {} /\ Started(k).task = "loading"
         /\ ~Started(k).refresh
BY DEF Queued, Started, LoadType, Task

LEMMA TriggeredStep ==
  ASSUME TypeOK, NEW c \in Callers, Triggered(c)
  PROVE  /\ TypeOK' /\ call[c].key \in Keys
         /\ \/ UNCHANGED <<pending, load, held>> /\ Moved(c, "idle")
            \/ /\ ~Live(call[c].key) /\ Created(call[c].key, Queued(call[c].key), Len(load) + 1)
               /\ Moved(c, "send") /\ call'[c].load = Len(load) + 1
<1>. DEFINE k == call[c].key
            n == Len(load) + 1
            q == [call[c] EXCEPT !.pc = "send", !.load = n]
<1>1. k \in Keys /\ call[c] \in CallType /\ n \in Nat
  BY SMTT(30) DEF TypeOK, Triggered
<1>2. CASE Live(k)
  BY <1>1, <1>2, BackStep DEF Triggered
<1>3. CASE ~Live(k)
  <2>1. q \in CallType /\ q.pc = "send" /\ q.load = n
    <3>. HIDE DEF n
    <3>. QED BY <1>1 DEF CallType, CallPc
  <2>2. /\ Len(load) < client.maxLoads /\ load' = Append(load, Queued(k)) /\ held' = Append(held, None)
        /\ pending' = [pending EXCEPT ![k] = Len(load) + 1] /\ call' = [call EXCEPT ![c] = q]
        /\ UNCHANGED <<client, entry, refreshes, pump>>
    BY <1>3 DEF Triggered
  <2>. HIDE DEF q, k
  <2>3. /\ TypeOK' /\ Created(k, Queued(k), Len(load) + 1) /\ call'[c] = q
        /\ \A d \in Callers : d # c => call'[d] = call[d]
    BY <1>1, <2>1, <2>2, QueuedType, CreatedType DEF Locating
  <2>. QED BY <1>1, <1>3, <2>1, <2>3 DEF Moved, k
<1>. QED BY <1>2, <1>3

\* A caller changes its pc and nothing else.
LEMMA GoStep ==
  ASSUME TypeOK, NEW c \in Callers, NEW pc \in CallPc \ {"trigger", "join"},
         call[c].load \in Loads \/ pc \notin Locating,
         call' = [call EXCEPT ![c].pc = pc], UNCHANGED <<client, entry, pending, load, held, refreshes, pump>>
  PROVE  /\ TypeOK' /\ Moved(c, pc) /\ call'[c].load = call[c].load /\ call'[c].woken = call[c].woken
<1>. DEFINE q == [call[c] EXCEPT !.pc = pc]
<1>1. call[c] \in CallType /\ call[c].load \in Loads \cup {None}
  BY DEF TypeOK
<1>2. q \in CallType /\ q.pc = pc /\ q.load = call[c].load /\ q.woken = call[c].woken
  BY <1>1 DEF CallType
<1>3. call' = [call EXCEPT ![c] = q]
  OBVIOUS
<1>. HIDE DEF q
<1>4. /\ q.pc \in {"trigger", "join"} => q.key \in Keys
      /\ q.load \in Loads \cup {None} /\ (q.pc \in Locating => q.load \in Loads)
  BY <1>1, <1>2
<1>5. /\ TypeOK' /\ call'[c] = q
      /\ \A d \in Callers : d # c => call'[d] = call[d]
  <2>1. UNCHANGED <<client, entry, pending, load, held, refreshes, pump>>
    OBVIOUS
  <2>2. q \in CallType
    BY <1>2
  <2>. QED BY ONLY TypeOK, c \in Callers, <1>3, <1>4, <2>1, <2>2, CallOnly
<1>. QED BY <1>2, <1>5 DEF Moved

LEMMA LeadReturnsStep ==
  ASSUME TypeOK, NEW c \in Callers, LeadReturns(c)
  PROVE  TypeOK' /\ Moved(c, "idle") /\ call'[c].load = None
BY BackStep DEF LeadReturns

LEMMA CancelFetchStep ==
  ASSUME TypeOK, NEW c \in Callers, CancelFetch(c)
  PROVE  TypeOK' /\ Moved(c, "idle") /\ call'[c].load = None
BY BackStep DEF CancelFetch

LEMMA JoinedStep ==
  ASSUME TypeOK, NEW c \in Callers, NEW leading \in {"lead", "wait"}, Joined(c, leading)
  PROVE  LET k == call[c].key
             f == pending[k]
         IN /\ TypeOK' /\ k \in Keys
            /\ \/ /\ Live(k) /\ f \in Loads /\ ~load[f].started /\ UNCHANGED <<pending, held>>
                  /\ Changed(f, [load[f] EXCEPT !.started = TRUE, !.task = "loading"])
                  /\ Moved(c, leading) /\ call'[c].load = f
               \/ /\ Live(k) /\ f \in Loads /\ load[f].started /\ UNCHANGED <<pending, load, held>>
                  /\ Moved(c, "wait") /\ call'[c].load = f
               \/ /\ ~Live(k) /\ Created(k, Started(k), Len(load) + 1)
                  /\ Moved(c, leading) /\ call'[c].load = Len(load) + 1
<1>. DEFINE k == call[c].key
            f == pending[k]
            n == Len(load) + 1
            r == [load[f] EXCEPT !.started = TRUE, !.task = "loading"]
            ql == [call[c] EXCEPT !.pc = leading, !.load = f]
            qw == [call[c] EXCEPT !.pc = "wait", !.load = f]
            qn == [call[c] EXCEPT !.pc = leading, !.load = n]
<1>1. k \in Keys /\ call[c] \in CallType /\ n \in Nat /\ leading \in CallPc /\ leading \in Locating
  BY SMTT(30) DEF TypeOK, Joined, CallPc, Locating
<1>2. Live(k) => f \in Loads /\ load[f] \in LoadType
  BY <1>1, SMTT(30) DEF TypeOK, Live
<1>3. UNCHANGED <<client, entry, refreshes, pump>>
  BY DEF Joined
<1>4. CASE /\ Live(k) /\ Claimable(f)
           /\ load' = [load EXCEPT ![f] = r] /\ call' = [call EXCEPT ![c] = ql]
           /\ UNCHANGED <<pending, held>>
  <2>1. r \in LoadType
    BY <1>2, <1>4 DEF LoadType, Task
  <2>2. f \in Loads /\ f \in Nat
    BY <1>2, <1>4, SMTT(30)
  <2>. HIDE DEF f
  <2>3. ql \in CallType /\ ql.pc = leading /\ ql.load = f
    BY <1>1, <2>2 DEF CallType
  <2>. HIDE DEF r, ql, k
  <2>4. /\ load' \in Seq(LoadType) /\ Len(load') = Len(load) /\ load'[f] = r
        /\ \A g \in Loads : g # f => load'[g] = load[g]
    BY <1>4, <2>1, <2>2, LoadType1
  <2>5. /\ call' \in [Callers -> CallType] /\ call'[c] = ql
        /\ \A d \in Callers : d # c => call'[d] = call[d]
    BY <1>4, <2>3, CallType1
  <2>6. TypeOK'
    BY <1>3, <1>4, <2>2, <2>3, <2>4, <2>5 DEF TypeOK, LoadType, CallType
  <2>. QED BY <1>1, <1>4, <2>2, <2>3, <2>4, <2>5, <2>6 DEF Moved, Changed, r, f, k, Claimable
<1>5. CASE /\ Live(k) /\ ~Claimable(f) /\ call' = [call EXCEPT ![c] = qw]
           /\ UNCHANGED <<pending, load, held>>
  <2>1. f \in Loads /\ f \in Nat
    BY <1>2, <1>5, SMTT(30)
  <2>. HIDE DEF f
  <2>2. qw \in CallType /\ qw.pc = "wait" /\ qw.load = f
    BY <1>1, <2>1 DEF CallType, CallPc
  <2>. HIDE DEF qw, k
  <2>3. /\ TypeOK' /\ call'[c] = qw
        /\ \A d \in Callers : d # c => call'[d] = call[d]
    BY <1>3, <1>5, <2>1, <2>2, CallOnly
  <2>. QED BY <1>1, <1>5, <2>1, <2>2, <2>3 DEF Moved, f, k, Claimable
<1>6. CASE /\ ~Live(k) /\ Len(load) < client.maxLoads /\ load' = Append(load, Started(k))
           /\ held' = Append(held, None) /\ pending' = [pending EXCEPT ![k] = n]
           /\ call' = [call EXCEPT ![c] = qn]
  <2>1. qn \in CallType /\ qn.pc = leading /\ qn.load = n
    <3>. HIDE DEF n
    <3>. QED BY <1>1 DEF CallType
  <2>. HIDE DEF qn, k
  <2>2. /\ TypeOK' /\ Created(k, Started(k), n) /\ call'[c] = qn
        /\ \A d \in Callers : d # c => call'[d] = call[d]
    BY <1>1, <1>3, <1>6, <2>1, QueuedType, CreatedType
  <2>. QED BY <1>1, <1>6, <2>1, <2>2 DEF Moved, k
<1>. HIDE DEF r, ql, qw, qn
<1>7. \/ /\ Live(k) /\ Claimable(f)
         /\ load' = [load EXCEPT ![f] = r] /\ call' = [call EXCEPT ![c] = ql]
         /\ UNCHANGED <<pending, held>>
      \/ /\ Live(k) /\ ~Claimable(f) /\ call' = [call EXCEPT ![c] = qw]
         /\ UNCHANGED <<pending, load, held>>
      \/ /\ ~Live(k) /\ Len(load) < client.maxLoads /\ load' = Append(load, Started(k))
         /\ held' = Append(held, None) /\ pending' = [pending EXCEPT ![k] = n]
         /\ call' = [call EXCEPT ![c] = qn]
  BY DEF Joined, r, ql, qw, qn
<1>. QED BY <1>4, <1>5, <1>6, <1>7 DEF r

LEMMA LoadInType ==
  ASSUME TypeOK, NEW f \in Loads
  PROVE  load[f] \in LoadType /\ load[f].key \in Keys
<1>1. load[f] \in LoadType
  BY SMTT(30) DEF TypeOK
<1>. QED BY <1>1 DEF LoadType

\* The fields of load f after a step that changes no other load.
Becomes(f, state, started, dropped, waiters, task, refresh) ==
  /\ Len(load') = Len(load) /\ \A g \in Loads : g # f => load'[g] = load[g]
  /\ load'[f].key = load[f].key /\ load'[f].state = state /\ load'[f].started = started
  /\ load'[f].dropped = dropped /\ load'[f].waiters = waiters /\ load'[f].task = task
  /\ load'[f].refresh = refresh

\* The job of f goes on to `task`.
GoesOn(f, task) ==
  Becomes(f, load[f].state, load[f].started, load[f].dropped, load[f].waiters, task, load[f].refresh)

LEMMA GoesOnStep ==
  ASSUME TypeOK, NEW f \in Loads, NEW task \in Task, load' = [load EXCEPT ![f].task = task],
         UNCHANGED <<client, held, refreshes, pump, call>>,
         entry' \in [Keys -> {"none", "fresh", "stale"}], pending' \in [Keys -> Nat \cup {None}],
         \A k \in Keys : pending'[k] \in {pending[k], None}
  PROVE  TypeOK' /\ GoesOn(f, task)
<1>. DEFINE r == [load[f] EXCEPT !.task = task]
<1>1. load[f] \in LoadType
  BY SMTT(30) DEF TypeOK
<1>2. /\ r \in LoadType /\ r.key = load[f].key /\ r.state = load[f].state /\ r.started = load[f].started
      /\ r.dropped = load[f].dropped /\ r.waiters = load[f].waiters /\ r.task = task
      /\ r.refresh = load[f].refresh
  BY <1>1 DEF LoadType
<1>3. load' = [load EXCEPT ![f] = r]
  OBVIOUS
<1>4. UNCHANGED <<client, held, refreshes, pump, call>> /\ r \in LoadType
  BY <1>2
<1>. HIDE DEF r
<1>5. /\ TypeOK' /\ Len(load') = Len(load) /\ load'[f] = r
      /\ \A g \in Loads : g # f => load'[g] = load[g]
  BY ONLY TypeOK, f \in Loads, <1>3, <1>4, entry' \in [Keys -> {"none", "fresh", "stale"}],
          pending' \in [Keys -> Nat \cup {None}], \A k \in Keys : pending'[k] \in {pending[k], None},
          LoadOnly
<1>. QED BY <1>2, <1>5 DEF GoesOn, Becomes

LEMMA LoaderReturnsStep ==
  ASSUME TypeOK, NEW f \in Loads, LoaderReturns(f)
  PROVE  TypeOK' /\ UNCHANGED <<pending, call>> /\ (GoesOn(f, "unpend") \/ GoesOn(f, "fail"))
<1>1. load[f] \in LoadType /\ load[f].key \in Keys
  BY LoadInType
<1>2. entry' \in [Keys -> {"none", "fresh", "stale"}]
  BY <1>1 DEF TypeOK, LoaderReturns
<1>3. UNCHANGED <<client, held, refreshes, pump, call>> /\ UNCHANGED pending
  BY DEF LoaderReturns
<1>4. pending' \in [Keys -> Nat \cup {None}] /\ \A k \in Keys : pending'[k] \in {pending[k], None}
  BY <1>3 DEF TypeOK
<1>5. CASE load' = [load EXCEPT ![f].task = "unpend"]
  BY <1>2, <1>3, <1>4, <1>5, GoesOnStep DEF Task
<1>6. CASE load' = [load EXCEPT ![f].task = "fail"]
  BY <1>2, <1>3, <1>4, <1>6, GoesOnStep DEF Task
<1>. QED BY <1>3, <1>5, <1>6 DEF LoaderReturns

LEMMA UnpendStep ==
  ASSUME TypeOK, NEW f \in Loads, Unpend(f)
  PROVE  /\ TypeOK' /\ \E task \in {"complete", "failed"} : GoesOn(f, task)
         /\ load[f].key \in Keys /\ pending'[load[f].key] = None
         /\ \A k \in Keys : k # load[f].key => pending'[k] = pending[k]
<1>. DEFINE task == IF load[f].task = "fail" THEN "failed" ELSE "complete"
<1>1. load[f] \in LoadType /\ load[f].key \in Keys
  BY LoadInType
<1>2. /\ pending' \in [Keys -> Nat \cup {None}] /\ pending'[load[f].key] = None
      /\ \A k \in Keys : k # load[f].key => pending'[k] = pending[k]
      /\ \A k \in Keys : pending'[k] \in {pending[k], None}
  BY <1>1 DEF TypeOK, Unpend
<1>3. UNCHANGED <<client, held, refreshes, pump, call>> /\ entry' \in [Keys -> {"none", "fresh", "stale"}]
  BY DEF Unpend, TypeOK
<1>4. task \in {"complete", "failed"} /\ task \in Task /\ load' = [load EXCEPT ![f].task = task]
  BY DEF Unpend, Task
<1>. HIDE DEF task
<1>5. TypeOK' /\ GoesOn(f, task)
  BY <1>2, <1>3, <1>4, GoesOnStep
<1>. QED BY <1>1, <1>2, <1>4, <1>5

LEMMA GuardDropStep ==
  ASSUME TypeOK, NEW f \in Loads, GuardDrop(f)
  PROVE  /\ TypeOK' /\ GoesOn(f, Ended(f)) /\ load[f].key \in Keys
         /\ pending'[load[f].key] = pending[load[f].key]
            \/ (pending[load[f].key] = f /\ pending'[load[f].key] = None)
         /\ \A k \in Keys : k # load[f].key => pending'[k] = pending[k]
<1>1. load[f] \in LoadType /\ load[f].key \in Keys
  BY LoadInType
<1>2. /\ pending' \in [Keys -> Nat \cup {None}]
      /\ pending'[load[f].key] = pending[load[f].key]
         \/ (pending[load[f].key] = f /\ pending'[load[f].key] = None)
      /\ \A k \in Keys : k # load[f].key => pending'[k] = pending[k]
      /\ \A k \in Keys : pending'[k] \in {pending[k], None}
  BY <1>1 DEF TypeOK, GuardDrop
<1>3. UNCHANGED <<client, held, refreshes, pump, call>> /\ entry' \in [Keys -> {"none", "fresh", "stale"}]
  BY DEF GuardDrop, TypeOK
<1>. DEFINE task == Ended(f)
<1>4. task \in Task /\ load' = [load EXCEPT ![f].task = task]
  BY DEF GuardDrop, Ended, Task
<1>. HIDE DEF task
<1>5. TypeOK' /\ GoesOn(f, task)
  BY <1>2, <1>3, <1>4, GoesOnStep
<1>. QED BY <1>1, <1>2, <1>5 DEF task

LEMMA DropTaskStep ==
  ASSUME TypeOK, NEW f \in Loads, DropTask(f)
  PROVE  TypeOK' /\ Becomes(f, load[f].state, load[f].started, TRUE, load[f].waiters, "droplock", load[f].refresh)
<1>. DEFINE r == [load[f] EXCEPT !.dropped = TRUE, !.task = "droplock"]
<1>1. load[f] \in LoadType
  BY SMTT(30) DEF TypeOK
<1>2. /\ r \in LoadType /\ r.key = load[f].key /\ r.state = load[f].state /\ r.started = load[f].started
      /\ r.dropped = TRUE /\ r.waiters = load[f].waiters /\ r.task = "droplock"
      /\ r.refresh = load[f].refresh
  BY <1>1 DEF LoadType, Task
<1>3. /\ load' = [load EXCEPT ![f] = r] /\ UNCHANGED <<client, held, refreshes, pump, call>>
      /\ entry' \in [Keys -> {"none", "fresh", "stale"}] /\ pending' \in [Keys -> Nat \cup {None}]
      /\ \A k \in Keys : pending'[k] \in {pending[k], None}
  BY DEF DropTask, TypeOK
<1>. HIDE DEF r
<1>4. /\ TypeOK' /\ Len(load') = Len(load) /\ load'[f] = r
      /\ \A g \in Loads : g # f => load'[g] = load[g]
  BY <1>2, <1>3, LoadOnly
<1>. QED BY <1>2, <1>4 DEF Becomes

\* Callers change no more than whether they are woken.
WokenBy(f) ==
  \A d \in Callers : /\ call'[d].pc = call[d].pc /\ call'[d].key = call[d].key
                      /\ call'[d].load = call[d].load
                      /\ call'[d].woken = (call[d].woken \/ d \in load[f].waiters)

LEMMA FinishStep ==
  ASSUME TypeOK, NEW f \in Loads, NEW state \in {"complete", "panicked", "dropped"}, NEW task \in Task,
         Finish(f, state, task), UNCHANGED <<client, entry, pending, held, refreshes, pump>>
  PROVE  /\ TypeOK' /\ WokenBy(f)
         /\ Becomes(f, state, load[f].started, load[f].dropped, {}, task, load[f].refresh)
<1>. DEFINE r == [load[f] EXCEPT !.state = state, !.waiters = {}, !.task = task]
<1>1. load[f] \in LoadType
  BY SMTT(30) DEF TypeOK
<1>2. /\ r \in LoadType /\ r.key = load[f].key /\ r.state = state /\ r.started = load[f].started
      /\ r.dropped = load[f].dropped /\ r.waiters = {} /\ r.task = task /\ r.refresh = load[f].refresh
  BY <1>1 DEF LoadType
<1>3. load' = [load EXCEPT ![f] = r] /\ call' = Woken(load[f].waiters)
  BY DEF Finish
<1>. HIDE DEF r
<1>4. /\ load' \in Seq(LoadType) /\ Len(load') = Len(load) /\ load'[f] = r
      /\ \A g \in Loads : g # f => load'[g] = load[g]
  BY <1>2, <1>3, LoadType1
<1>5. /\ call' \in [Callers -> CallType] /\ WokenBy(f)
  BY <1>3, WokenType DEF WokenBy
<1>6. TypeOK'
  BY <1>4, <1>5 DEF TypeOK, WokenBy, CallType, LoadType
<1>. QED BY <1>2, <1>4, <1>5, <1>6 DEF Becomes

LEMMA CompleteStep ==
  ASSUME TypeOK, NEW f \in Loads, Complete(f)
  PROVE  /\ TypeOK' /\ WokenBy(f)
         /\ \E state \in {"complete", "panicked"} :
              Becomes(f, state, load[f].started, load[f].dropped, {}, Ended(f), load[f].refresh)
<1>. DEFINE state == IF load[f].task = "failed" THEN "panicked" ELSE "complete"
            task == Ended(f)
<1>1. /\ state \in {"complete", "panicked"} /\ task \in Task /\ Finish(f, state, task)
      /\ UNCHANGED <<client, entry, pending, held, refreshes, pump>>
  BY DEF Complete, Ended, Task
<1>. HIDE DEF state, task
<1>2. /\ TypeOK' /\ WokenBy(f)
      /\ Becomes(f, state, load[f].started, load[f].dropped, {}, task, load[f].refresh)
  BY <1>1, FinishStep
<1>. QED BY <1>1, <1>2 DEF task

LEMMA DropLoadStep ==
  ASSUME TypeOK, NEW f \in Loads, DropLoad(f)
  PROVE  /\ TypeOK'
         /\ \/ /\ held[f] = None /\ load[f].state = "computing" /\ WokenBy(f)
               /\ Becomes(f, "dropped", load[f].started, load[f].dropped, {}, "dropunpend", load[f].refresh)
            \/ /\ held[f] # None \/ load[f].state # "computing"
               /\ UNCHANGED call /\ GoesOn(f, "dropunpend")
<1>1. CASE held[f] = None /\ load[f].state = "computing"
  <2>1. /\ Finish(f, "dropped", "dropunpend") /\ "dropunpend" \in Task
        /\ UNCHANGED <<client, entry, pending, held, refreshes, pump>>
    BY <1>1 DEF DropLoad, Task
  <2>. QED BY <1>1, <2>1, FinishStep
<1>2. CASE held[f] # None \/ load[f].state # "computing"
  <2>1. /\ load' = [load EXCEPT ![f].task = "dropunpend"] /\ "dropunpend" \in Task
        /\ UNCHANGED <<client, entry, pending, held, refreshes, pump, call>>
        /\ entry' \in [Keys -> {"none", "fresh", "stale"}] /\ pending' \in [Keys -> Nat \cup {None}]
        /\ \A k \in Keys : pending'[k] \in {pending[k], None}
    BY <1>2 DEF DropLoad, Task, TypeOK
  <2>. QED BY <1>2, <2>1, GoesOnStep
<1>. QED BY <1>1, <1>2

\* Refreshes as seen field by field.
Tally(queue, running, waiting, pumping, taken) ==
  /\ refreshes'.queue = queue /\ refreshes'.running = running /\ refreshes'.waiting = waiting
  /\ refreshes'.pumping = pumping /\ refreshes'.taken = taken

RefreshType == [queue : Seq(Nat), running : Int, waiting : Int, pumping : BOOLEAN, taken : Nat \cup {None}]

LEMMA PumpMove ==
  ASSUME TypeOK, NEW a \in Pumpers, NEW to \in PumpPc, pump' = [pump EXCEPT ![a] = to]
  PROVE  /\ pump' \in [Pumpers -> PumpPc] /\ pump'[a] = to
         /\ \A b \in Pumpers : b # a => pump'[b] = pump[b]
BY DEF TypeOK

PumpAt(a, to) == pump'[a] = to /\ \A b \in Pumpers : b # a => pump'[b] = pump[b]

LEMMA AtStep ==
  ASSUME TypeOK, NEW a \in Pumpers, NEW here, NEW to \in PumpPc, At(a, here, to)
  PROVE  pump' \in [Pumpers -> PumpPc] /\ pump[a] = here /\ PumpAt(a, to)
<1>1. pump[a] = here /\ pump' = [pump EXCEPT ![a] = to]
  BY DEF At
<1>. QED BY <1>1, PumpMove DEF PumpAt

LEMMA TakePumpStep ==
  ASSUME TypeOK, NEW a \in Pumpers, TakePump(a), UNCHANGED <<client, entry, pending, load, held, call>>
  PROVE  /\ TypeOK' /\ pump[a] = "swap"
         /\ \/ PumpAt(a, "no") /\ refreshes.pumping /\ UNCHANGED refreshes
            \/ /\ PumpAt(a, "claim") /\ ~refreshes.pumping
               /\ Tally(refreshes.queue, refreshes.running, refreshes.waiting, TRUE, refreshes.taken)
<1>1. refreshes \in RefreshType
  BY DEF TypeOK, RefreshType
<1>2. CASE At(a, "swap", "no") /\ refreshes.pumping /\ UNCHANGED refreshes
  <2>1. pump' \in [Pumpers -> PumpPc] /\ pump[a] = "swap" /\ PumpAt(a, "no")
    BY <1>2, AtStep DEF PumpPc
  <2>2. TypeOK'
    BY <1>2, <2>1, PumpOnly DEF TypeOK
  <2>. QED BY <1>2, <2>1, <2>2
<1>3. CASE At(a, "swap", "claim") /\ ~refreshes.pumping /\ refreshes' = [refreshes EXCEPT !.pumping = TRUE]
  <2>1. pump' \in [Pumpers -> PumpPc] /\ pump[a] = "swap" /\ PumpAt(a, "claim")
    BY <1>3, AtStep DEF PumpPc
  <2>2. /\ refreshes' \in RefreshType
        /\ Tally(refreshes.queue, refreshes.running, refreshes.waiting, TRUE, refreshes.taken)
    BY <1>1, <1>3 DEF RefreshType, Tally
  <2>3. TypeOK'
    BY <2>1, <2>2, PumpOnly DEF TypeOK, RefreshType, Tally
  <2>. QED BY <1>3, <2>1, <2>2, <2>3
<1>. QED BY <1>2, <1>3 DEF TakePump

LEMMA ClaimRefreshStep ==
  ASSUME TypeOK, NEW a \in Pumpers, ClaimRefresh(a), UNCHANGED <<client, entry, pending, load, held, call>>
  PROVE  /\ TypeOK'
         /\ \/ /\ pump[a] = "claim" /\ PumpAt(a, "recv") /\ refreshes.running < client.limit
               /\ Tally(refreshes.queue, refreshes.running + 1, refreshes.waiting, refreshes.pumping,
                        refreshes.taken)
            \/ /\ pump[a] = "claim" /\ PumpAt(a, "clear") /\ ~(refreshes.running < client.limit)
               /\ UNCHANGED refreshes
            \/ /\ pump[a] = "recv" /\ PumpAt(a, "clear") /\ refreshes.queue = <<>>
               /\ Tally(refreshes.queue, refreshes.running - 1, refreshes.waiting, refreshes.pumping,
                        refreshes.taken)
<1>1. refreshes \in RefreshType
  BY DEF TypeOK, RefreshType
<1>2. CASE At(a, "claim", "recv") /\ ClaimSlot /\ refreshes' = [refreshes EXCEPT !.running = @ + 1]
  <2>1. pump' \in [Pumpers -> PumpPc] /\ pump[a] = "claim" /\ PumpAt(a, "recv")
    BY <1>2, AtStep DEF PumpPc
  <2>2. /\ refreshes' \in RefreshType
        /\ Tally(refreshes.queue, refreshes.running + 1, refreshes.waiting, refreshes.pumping,
                 refreshes.taken)
    BY <1>1, <1>2, SMTT(30) DEF RefreshType, Tally
  <2>3. TypeOK'
    BY <2>1, <2>2, PumpOnly DEF TypeOK, RefreshType, Tally
  <2>. QED BY <1>2, <2>1, <2>2, <2>3 DEF ClaimSlot
<1>3. CASE At(a, "claim", "clear") /\ ~ClaimSlot /\ UNCHANGED refreshes
  <2>1. pump' \in [Pumpers -> PumpPc] /\ pump[a] = "claim" /\ PumpAt(a, "clear")
    BY <1>3, AtStep DEF PumpPc
  <2>2. TypeOK'
    BY <1>3, <2>1, PumpOnly DEF TypeOK
  <2>. QED BY <1>3, <2>1, <2>2 DEF ClaimSlot
<1>4. CASE /\ At(a, "recv", "clear") /\ refreshes.queue = <<>>
           /\ refreshes' = [refreshes EXCEPT !.running = @ - 1]
  <2>1. pump' \in [Pumpers -> PumpPc] /\ pump[a] = "recv" /\ PumpAt(a, "clear")
    BY <1>4, AtStep DEF PumpPc
  <2>2. /\ refreshes' \in RefreshType
        /\ Tally(refreshes.queue, refreshes.running - 1, refreshes.waiting, refreshes.pumping,
                 refreshes.taken)
    BY <1>1, <1>4, SMTT(30) DEF RefreshType, Tally
  <2>3. TypeOK'
    BY <2>1, <2>2, PumpOnly DEF TypeOK, RefreshType, Tally
  <2>. QED BY <1>4, <2>1, <2>2, <2>3
<1>. QED BY <1>2, <1>3, <1>4 DEF ClaimRefresh

LEMMA Removed ==
  ASSUME NEW q \in Seq(Nat), q # <<>>
  PROVE  /\ Tail(q) \in Seq(Nat) /\ Len(Tail(q)) = Len(q) - 1 /\ Head(q) = q[1] /\ 1 \in 1..Len(q)
         /\ \A i \in 1..Len(q) : i # 1 => i - 1 \in 1..Len(Tail(q)) /\ Tail(q)[i - 1] = q[i]
         /\ \A i \in 1..Len(Tail(q)) : i + 1 \in 1..Len(q) /\ Tail(q)[i] = q[i + 1]
BY SMTT(30)

LEMMA ReceiveRefreshStep ==
  ASSUME TypeOK, NEW a \in Pumpers, ReceiveRefresh(a), UNCHANGED <<client, entry, pending, load, held, call>>
  PROVE  /\ TypeOK' /\ pump[a] = "recv" /\ PumpAt(a, "start") /\ refreshes.queue # <<>>
         /\ Tally(Tail(refreshes.queue), refreshes.running, refreshes.waiting - 1, refreshes.pumping,
                  refreshes.queue[1])
         /\ refreshes.queue[1] \in Loads
<1>1. refreshes \in RefreshType /\ refreshes.queue \in Seq(Nat) /\ refreshes.queue # <<>>
  BY DEF TypeOK, RefreshType, ReceiveRefresh
<1>. DEFINE q == refreshes.queue
            t == Tail(q)
            h == Head(q)
            w == refreshes.waiting - 1
<1>2. /\ t \in Seq(Nat) /\ h = q[1] /\ h \in Nat /\ h \in Loads
      /\ \A i \in 1..Len(t) : t[i] \in Loads
  <2>1. \A i \in 1..Len(q) : q[i] \in Loads
    BY DEF TypeOK
  <2>2. /\ t \in Seq(Nat) /\ h = q[1] /\ 1 \in 1..Len(q)
        /\ \A i \in 1..Len(t) : i + 1 \in 1..Len(q) /\ t[i] = q[i + 1]
    BY <1>1, Removed
  <2>. HIDE DEF q, t, h
  <2>. QED BY <2>1, <2>2, SMTT(30)
<1>3. refreshes' = [refreshes EXCEPT !.waiting = w, !.queue = t, !.taken = h] /\ w \in Int
  BY <1>1, SMTT(30) DEF ReceiveRefresh, RefreshType
<1>. HIDE DEF t, h, w
<1>4. /\ refreshes' \in RefreshType
      /\ Tally(t, refreshes.running, w, refreshes.pumping, h)
  BY <1>1, <1>2, <1>3 DEF RefreshType, Tally
<1>5. pump' \in [Pumpers -> PumpPc] /\ pump[a] = "recv" /\ PumpAt(a, "start")
  BY AtStep DEF PumpPc, ReceiveRefresh
<1>6. TypeOK'
  BY <1>2, <1>4, <1>5, PumpOnly DEF RefreshType, Tally
<1>. QED BY <1>1, <1>2, <1>4, <1>5, <1>6 DEF t, w

LEMMA LeavePumpStep ==
  ASSUME TypeOK, NEW a \in Pumpers, LeavePump(a), UNCHANGED <<client, entry, pending, load, held, call>>
  PROVE  /\ TypeOK'
         /\ \/ /\ pump[a] = "clear" /\ PumpAt(a, "check")
               /\ Tally(refreshes.queue, refreshes.running, refreshes.waiting, FALSE, refreshes.taken)
            \/ /\ UNCHANGED refreshes /\ pump[a] = "check"
               /\ PumpAt(a, "more") \/ (PumpAt(a, "no") /\ refreshes.waiting <= 0)
            \/ /\ UNCHANGED refreshes /\ pump[a] = "more"
               /\ PumpAt(a, "swap") \/ (PumpAt(a, "no") /\ ~(refreshes.running < client.limit))
<1>1. refreshes \in RefreshType
  BY DEF TypeOK, RefreshType
<1>2. CASE At(a, "clear", "check") /\ refreshes' = [refreshes EXCEPT !.pumping = FALSE]
  <2>1. pump' \in [Pumpers -> PumpPc] /\ pump[a] = "clear" /\ PumpAt(a, "check")
    BY <1>2, AtStep DEF PumpPc
  <2>2. /\ refreshes' \in RefreshType
        /\ Tally(refreshes.queue, refreshes.running, refreshes.waiting, FALSE, refreshes.taken)
    BY <1>1, <1>2 DEF RefreshType, Tally
  <2>3. TypeOK'
    BY <2>1, <2>2, PumpOnly DEF TypeOK, RefreshType, Tally
  <2>. QED BY <1>2, <2>1, <2>2, <2>3
<1>3. ASSUME NEW here, NEW to \in PumpPc, At(a, here, to), UNCHANGED refreshes
      PROVE  TypeOK' /\ pump[a] = here /\ PumpAt(a, to)
  <2>1. pump' \in [Pumpers -> PumpPc] /\ pump[a] = here /\ PumpAt(a, to)
    BY <1>3, AtStep
  <2>2. TypeOK'
    BY <1>3, <2>1, PumpOnly DEF TypeOK
  <2>. QED BY <2>1, <2>2
<1>4. {"more", "no", "swap"} \subseteq PumpPc
  BY DEF PumpPc
<1>5. CASE At(a, "check", "more") /\ refreshes.waiting > 0 /\ UNCHANGED refreshes
  BY <1>3, <1>4, <1>5
<1>6. CASE At(a, "check", "no") /\ refreshes.waiting <= 0 /\ UNCHANGED refreshes
  BY <1>3, <1>4, <1>6
<1>7. CASE At(a, "more", "swap") /\ ClaimSlot /\ UNCHANGED refreshes
  BY <1>3, <1>4, <1>7
<1>8. CASE At(a, "more", "no") /\ ~ClaimSlot /\ UNCHANGED refreshes
  BY <1>3, <1>4, <1>8 DEF ClaimSlot
<1>. QED BY <1>2, <1>5, <1>6, <1>7, <1>8 DEF LeavePump

LEMMA StartRefreshStep ==
  ASSUME TypeOK, NEW a \in Pumpers, StartRefresh(a), refreshes.taken \in Loads
  PROVE  LET f == refreshes.taken
         IN /\ TypeOK' /\ pump[a] = "start" /\ PumpAt(a, "claim")
            /\ \/ /\ ~load[f].started
                  /\ Becomes(f, load[f].state, TRUE, load[f].dropped, load[f].waiters, "loading", TRUE)
                  /\ Tally(refreshes.queue, refreshes.running, refreshes.waiting, refreshes.pumping, None)
               \/ /\ load[f].started /\ UNCHANGED load
                  /\ Tally(refreshes.queue, refreshes.running - 1, refreshes.waiting, refreshes.pumping, None)
<1>. DEFINE f == refreshes.taken
            r == [load[f] EXCEPT !.started = TRUE, !.task = "loading", !.refresh = TRUE]
            w == refreshes.running - 1
<1>1. refreshes \in RefreshType /\ w \in Int
  BY SMTT(30) DEF TypeOK, RefreshType
<1>2. pump' \in [Pumpers -> PumpPc] /\ pump[a] = "start" /\ PumpAt(a, "claim")
  BY AtStep DEF PumpPc, StartRefresh
<1>3. UNCHANGED <<client, entry, pending, held, call>>
  BY DEF StartRefresh
<1>4. CASE ~load[f].started
  <2>1. load' = [load EXCEPT ![f] = r] /\ refreshes' = [refreshes EXCEPT !.taken = None]
    BY <1>4 DEF StartRefresh, Claimable
  <2>2. f \in Loads /\ load[f] \in LoadType
    BY LoadInType
  <2>. HIDE DEF f
  <2>3. /\ r \in LoadType /\ r.key = load[f].key /\ r.state = load[f].state /\ r.started = TRUE
        /\ r.dropped = load[f].dropped /\ r.waiters = load[f].waiters /\ r.task = "loading"
        /\ r.refresh = TRUE
    BY <2>2 DEF LoadType, Task
  <2>. HIDE DEF r
  <2>4. /\ load' \in Seq(LoadType) /\ Len(load') = Len(load) /\ load'[f] = r
        /\ \A g \in Loads : g # f => load'[g] = load[g]
    BY <2>1, <2>2, <2>3, LoadType1
  <2>5. /\ refreshes' \in RefreshType
        /\ Tally(refreshes.queue, refreshes.running, refreshes.waiting, refreshes.pumping, None)
    BY <1>1, <2>1 DEF RefreshType, Tally
  <2>6. TypeOK'
    BY <1>2, <1>3, <2>4, <2>5 DEF TypeOK, CallType, LoadType, RefreshType, Tally
  <2>7. Becomes(f, load[f].state, TRUE, load[f].dropped, load[f].waiters, "loading", TRUE)
    BY <2>3, <2>4 DEF Becomes
  <2>. QED BY <1>2, <1>4, <2>5, <2>6, <2>7 DEF f
<1>5. CASE load[f].started
  <2>1. UNCHANGED load /\ refreshes' = [refreshes EXCEPT !.taken = None, !.running = w]
    BY <1>5 DEF StartRefresh, Claimable
  <2>. HIDE DEF w
  <2>2. /\ refreshes' \in RefreshType
        /\ Tally(refreshes.queue, w, refreshes.waiting, refreshes.pumping, None)
    BY <1>1, <2>1 DEF RefreshType, Tally
  <2>3. TypeOK'
    BY <1>2, <1>3, <2>1, <2>2, PumpOnly DEF TypeOK, RefreshType, Tally
  <2>. QED BY <1>2, <1>5, <2>1, <2>2, <2>3 DEF w
<1>. QED BY <1>4, <1>5

LEMMA RefreshDoneStep ==
  ASSUME TypeOK, NEW f \in Loads, RefreshDone(f)
  PROVE  /\ TypeOK' /\ UNCHANGED <<pending, call>>
         /\ \/ /\ load[f].task = "release" /\ PumpAt(f, "swap")
               /\ Becomes(f, load[f].state, load[f].started, load[f].dropped, load[f].waiters, "pumping", FALSE)
               /\ Tally(refreshes.queue, refreshes.running - 1, refreshes.waiting, refreshes.pumping,
                        refreshes.taken)
            \/ load[f].task = "pumping" /\ pump[f] = "no" /\ UNCHANGED <<refreshes, pump>> /\ GoesOn(f, "done")
<1>. DEFINE r == [load[f] EXCEPT !.task = "pumping", !.refresh = FALSE]
            w == refreshes.running - 1
<1>1. refreshes \in RefreshType /\ w \in Int /\ load[f] \in LoadType /\ f \in Pumpers
  <2>1. client.maxLoads \in Nat /\ Len(load) <= client.maxLoads /\ Len(load) \in Nat
    BY ClientsAssumption, SMTT(30) DEF TypeOK
  <2>2. refreshes \in RefreshType /\ w \in Int
    BY SMTT(30) DEF TypeOK, RefreshType
  <2>. QED BY <2>1, <2>2, LoadInType, SMTT(30)
<1>2. CASE /\ load[f].task = "release" /\ refreshes' = [refreshes EXCEPT !.running = w]
           /\ pump' = [pump EXCEPT ![f] = "swap"] /\ load' = [load EXCEPT ![f] = r]
           /\ UNCHANGED <<client, entry, pending, held, call>>
  <2>1. /\ r \in LoadType /\ r.key = load[f].key /\ r.state = load[f].state
        /\ r.started = load[f].started /\ r.dropped = load[f].dropped /\ r.waiters = load[f].waiters
        /\ r.task = "pumping" /\ r.refresh = FALSE
    BY <1>1 DEF LoadType, Task
  <2>. HIDE DEF r, w
  <2>2. /\ load' \in Seq(LoadType) /\ Len(load') = Len(load) /\ load'[f] = r
        /\ \A g \in Loads : g # f => load'[g] = load[g]
    BY <1>2, <2>1, LoadType1
  <2>3. /\ refreshes' \in RefreshType
        /\ Tally(refreshes.queue, w, refreshes.waiting, refreshes.pumping, refreshes.taken)
    BY <1>1, <1>2 DEF RefreshType, Tally
  <2>4. pump' \in [Pumpers -> PumpPc] /\ PumpAt(f, "swap")
    BY <1>1, <1>2, PumpMove DEF PumpPc, PumpAt
  <2>5. TypeOK'
    BY <1>2, <2>2, <2>3, <2>4 DEF TypeOK, CallType, LoadType, RefreshType, Tally
  <2>6. Becomes(f, load[f].state, load[f].started, load[f].dropped, load[f].waiters, "pumping", FALSE)
    BY <2>1, <2>2 DEF Becomes
  <2>. QED BY <1>2, <2>3, <2>4, <2>5, <2>6 DEF w
<1>3. CASE /\ load[f].task = "pumping" /\ pump[f] = "no" /\ load' = [load EXCEPT ![f].task = "done"]
           /\ UNCHANGED <<client, entry, pending, held, refreshes, pump, call>>
  <2>1. /\ "done" \in Task /\ entry' \in [Keys -> {"none", "fresh", "stale"}]
        /\ pending' \in [Keys -> Nat \cup {None}] /\ \A k \in Keys : pending'[k] \in {pending[k], None}
    BY <1>3 DEF Task, TypeOK
  <2>. QED BY <1>3, <2>1, GoesOnStep
<1>. QED BY <1>2, <1>3 DEF RefreshDone

LEMMA EnqueueRefreshStep ==
  ASSUME TypeOK, NEW c \in Callers, EnqueueRefresh(c)
  PROVE  /\ TypeOK' /\ UNCHANGED <<pending, load, held>>
         /\ \/ /\ call[c].pc = "send" /\ Moved(c, "count") /\ UNCHANGED pump /\ call[c].load \in Loads
               /\ Tally(Append(refreshes.queue, call[c].load), refreshes.running, refreshes.waiting,
                        refreshes.pumping, refreshes.taken)
            \/ /\ call[c].pc = "count" /\ Moved(c, "pumping") /\ PumpAt(c, "swap")
               /\ Tally(refreshes.queue, refreshes.running, refreshes.waiting + 1, refreshes.pumping,
                        refreshes.taken)
            \/ /\ call[c].pc = "pumping" /\ pump[c] = "no" /\ Moved(c, "idle")
               /\ UNCHANGED <<refreshes, pump>>
<1>1. refreshes \in RefreshType /\ refreshes.waiting + 1 \in Int /\ call[c] \in CallType /\ c \in Pumpers
  BY SMTT(30) DEF TypeOK, RefreshType
<1>2. CASE /\ call[c].pc = "send" /\ refreshes' = [refreshes EXCEPT !.queue = Append(@, call[c].load)]
           /\ call' = [call EXCEPT ![c].pc = "count"] /\ UNCHANGED <<client, entry, pending, load, held, pump>>
  <2>. DEFINE l == call[c].load
              t == Append(refreshes.queue, l)
              q == [call[c] EXCEPT !.pc = "count"]
  <2>1. l \in Loads /\ l \in Nat
    BY <1>2, SMTT(30) DEF TypeOK
  <2>2. t \in Seq(Nat) /\ \A i \in 1..Len(t) : t[i] \in Loads
    <3>1. refreshes.queue \in Seq(Nat) /\ \A i \in 1..Len(refreshes.queue) : refreshes.queue[i] \in Loads
      BY DEF TypeOK
    <3>. HIDE DEF l
    <3>. QED BY <2>1, <3>1, SMTT(30)
  <2>3. q \in CallType /\ q.pc = "count" /\ q.load = l /\ call' = [call EXCEPT ![c] = q]
    BY <1>1, <1>2 DEF CallType, CallPc
  <2>. HIDE DEF q, t, l
  <2>4. /\ refreshes' \in RefreshType
        /\ Tally(t, refreshes.running, refreshes.waiting, refreshes.pumping, refreshes.taken)
    <3>1. refreshes' = [refreshes EXCEPT !.queue = t]
      BY <1>2 DEF t, l
    <3>. QED BY <1>1, <2>2, <3>1 DEF RefreshType, Tally
  <2>5. /\ call' \in [Callers -> CallType] /\ call'[c] = q
        /\ \A d \in Callers : d # c => call'[d] = call[d]
    BY <2>3, CallType1
  <2>6. TypeOK'
    BY <1>2, <2>1, <2>2, <2>3, <2>4, <2>5 DEF TypeOK, CallType, LoadType, RefreshType, Tally
  <2>. QED BY <1>2, <2>1, <2>3, <2>4, <2>5, <2>6 DEF Moved, t, l
<1>3. CASE /\ call[c].pc = "count" /\ refreshes' = [refreshes EXCEPT !.waiting = @ + 1]
           /\ pump' = [pump EXCEPT ![c] = "swap"]
           /\ call' = [call EXCEPT ![c] = [Back(c) EXCEPT !.pc = "pumping"]]
           /\ UNCHANGED <<client, entry, pending, load, held>>
  <2>. DEFINE q == [Back(c) EXCEPT !.pc = "pumping"]
  <2>1. q \in CallType /\ q.pc = "pumping" /\ q.load = None /\ call' = [call EXCEPT ![c] = q]
    BY <1>3, BackType DEF CallType, CallPc
  <2>2. /\ refreshes' \in RefreshType
        /\ Tally(refreshes.queue, refreshes.running, refreshes.waiting + 1, refreshes.pumping,
                 refreshes.taken)
    BY <1>1, <1>3 DEF RefreshType, Tally
  <2>3. pump' \in [Pumpers -> PumpPc] /\ PumpAt(c, "swap")
    BY <1>1, <1>3, PumpMove DEF PumpPc, PumpAt
  <2>. HIDE DEF q
  <2>4. /\ call' \in [Callers -> CallType] /\ call'[c] = q
        /\ \A d \in Callers : d # c => call'[d] = call[d]
    BY <2>1, CallType1
  <2>5. TypeOK'
    BY <1>3, <2>1, <2>2, <2>3, <2>4 DEF TypeOK, CallType, LoadType, RefreshType, Tally
  <2>. QED BY <1>3, <2>1, <2>2, <2>3, <2>4, <2>5 DEF Moved
<1>4. CASE /\ call[c].pc = "pumping" /\ pump[c] = "no" /\ call' = [call EXCEPT ![c].pc = "idle"]
           /\ UNCHANGED <<client, entry, pending, load, held, refreshes, pump>>
  <2>1. "idle" \in CallPc \ {"trigger", "join"} /\ "idle" \notin Locating
    BY DEF CallPc, Locating
  <2>. QED BY <1>4, <2>1, GoStep
<1>. QED BY <1>2, <1>3, <1>4 DEF EnqueueRefresh

\* The mutex of load f changes hands.
Locked(f, who) == held'[f] = who /\ \A g \in Loads : g # f => held'[g] = held[g]

LEMMA HeldType ==
  ASSUME TypeOK, NEW f \in Loads, NEW who \in Callers \cup {None}, held' = [held EXCEPT ![f] = who]
  PROVE  held' \in Seq(Callers \cup {None}) /\ Len(held') = Len(load) /\ Locked(f, who)
<1>. DEFINE t == held'
<1>1. held \in Seq(Callers \cup {None}) /\ Len(held) = Len(load) /\ f \in 1..Len(held)
  BY DEF TypeOK
<1>2. t = [held EXCEPT ![f] = who]
  OBVIOUS
<1>. HIDE DEF t
<1>3. /\ t \in Seq(Callers \cup {None}) /\ Len(t) = Len(held) /\ t[f] = who
      /\ \A g \in 1..Len(held) : g # f => t[g] = held[g]
  BY <1>1, <1>2, Replaced, SMTT(30)
<1>. QED BY <1>1, <1>3 DEF t, Locked

LEMMA ReleasedStep ==
  ASSUME TypeOK, NEW c \in Callers, Released(c)
  PROVE  /\ TypeOK' /\ UNCHANGED <<client, pending, load, refreshes, pump>>
         /\ call[c].load \in Loads /\ call'[c].load = call[c].load
         /\ \/ /\ call[c].pc = "unlock" /\ Moved(c, "recheck") /\ Locked(call[c].load, None)
               /\ call'[c].woken = call[c].woken
            \/ /\ call[c].pc = "recheck" /\ UNCHANGED held /\ call'[c].woken = call[c].woken
               /\ \/ load[call[c].load].dropped /\ Moved(c, "wait")
                  \/ ~load[call[c].load].dropped /\ Moved(c, "parked")
            \/ call[c].pc = "parked" /\ call[c].woken /\ Moved(c, "wait") /\ UNCHANGED held
<1>1. call[c].load \in Loads /\ call[c] \in CallType
  BY DEF TypeOK, Released
<1>2. UNCHANGED <<client, entry, pending, load, refreshes, pump>>
  BY DEF Released
<1>3. CASE /\ call[c].pc = "unlock" /\ held' = [held EXCEPT ![call[c].load] = None]
           /\ call' = [call EXCEPT ![c].pc = "recheck"]
  <2>. DEFINE q == [call[c] EXCEPT !.pc = "recheck"]
              f == call[c].load
  <2>1. /\ q \in CallType /\ q.pc = "recheck" /\ q.load = f /\ q.woken = call[c].woken
        /\ call' = [call EXCEPT ![c] = q] /\ f \in Loads /\ held' = [held EXCEPT ![f] = None]
    BY <1>1, <1>3 DEF CallType, CallPc
  <2>. HIDE DEF q, f
  <2>2. /\ call' \in [Callers -> CallType] /\ call'[c] = q
        /\ \A d \in Callers : d # c => call'[d] = call[d]
    BY <2>1, CallType1
  <2>3. held' \in Seq(Callers \cup {None}) /\ Len(held') = Len(load) /\ Locked(f, None)
    BY <2>1, HeldType
  <2>4. TypeOK'
    BY <1>1, <1>2, <2>1, <2>2, <2>3 DEF TypeOK, CallType, LoadType
  <2>. QED BY <1>1, <1>2, <1>3, <2>1, <2>2, <2>3, <2>4 DEF Moved, f
<1>4. CASE /\ call[c].pc = "recheck" /\ UNCHANGED held
           /\ call' = [call EXCEPT ![c].pc = IF load[call[c].load].dropped THEN "wait" ELSE "parked"]
  <2>1. {"wait", "parked"} \subseteq CallPc \ {"trigger", "join"}
    BY DEF CallPc
  <2>2. CASE load[call[c].load].dropped
    <3>1. /\ call' = [call EXCEPT ![c].pc = "wait"]
          /\ UNCHANGED <<client, entry, pending, load, held, refreshes, pump>>
      BY <1>2, <1>4, <2>2
    <3>. QED BY <1>1, <1>4, <2>1, <2>2, <3>1, GoStep
  <2>3. CASE ~load[call[c].load].dropped
    <3>1. /\ call' = [call EXCEPT ![c].pc = "parked"]
          /\ UNCHANGED <<client, entry, pending, load, held, refreshes, pump>>
      BY <1>2, <1>4, <2>3
    <3>. QED BY <1>1, <1>4, <2>1, <2>3, <3>1, GoStep
  <2>. QED BY <2>2, <2>3
<1>5. CASE /\ call[c].pc = "parked" /\ call[c].woken /\ UNCHANGED held
           /\ call' = [call EXCEPT ![c] = [@ EXCEPT !.pc = "wait", !.woken = FALSE]]
  <2>. DEFINE q == [call[c] EXCEPT !.pc = "wait", !.woken = FALSE]
  <2>1. q \in CallType /\ q.pc = "wait" /\ q.load = call[c].load /\ call' = [call EXCEPT ![c] = q]
    BY <1>1, <1>5 DEF CallType, CallPc
  <2>. HIDE DEF q
  <2>2. /\ TypeOK' /\ call'[c] = q
        /\ \A d \in Callers : d # c => call'[d] = call[d]
    BY <1>1, <1>2, <1>5, <2>1, CallOnly
  <2>. QED BY <1>1, <1>2, <1>5, <2>1, <2>2 DEF Moved
<1>. QED BY <1>3, <1>4, <1>5 DEF Released

LEMMA InspectedStep ==
  ASSUME TypeOK, NEW c \in Callers, Inspected(c)
  PROVE  LET f == call[c].load
         IN /\ TypeOK' /\ UNCHANGED <<client, pending, refreshes, pump>>
            /\ call[c].pc = "wait" /\ f \in Loads /\ held[f] = None
            /\ \/ /\ load[f].state # "computing" /\ Moved(c, "idle") /\ UNCHANGED <<load, held>>
               \/ /\ load[f].state = "computing" /\ load[f].dropped /\ UNCHANGED held
                  /\ Becomes(f, "dropped", load[f].started, load[f].dropped, {}, load[f].task, load[f].refresh)
                  /\ call'[c].pc = "idle"
                  /\ \A d \in Callers : d # c =>
                       /\ call'[d].pc = call[d].pc /\ call'[d].load = call[d].load
                       /\ call'[d].woken = (call[d].woken \/ d \in load[f].waiters)
               \/ /\ load[f].state = "computing" /\ ~load[f].dropped /\ Locked(f, c)
                  /\ Becomes(f, load[f].state, load[f].started, load[f].dropped, load[f].waiters \cup {c},
                             load[f].task, load[f].refresh)
                  /\ Moved(c, "unlock") /\ call'[c].load = f /\ call'[c].woken = call[c].woken
<1>. DEFINE f == call[c].load
<1>1. f \in Loads /\ call[c].pc = "wait" /\ held[f] = None /\ call[c] \in CallType
  BY DEF TypeOK, Inspected
<1>2. UNCHANGED <<client, entry, pending, refreshes, pump>>
  BY DEF Inspected
<1>3. load[f] \in LoadType
  BY <1>1, LoadInType
<1>4. CASE load[f].state # "computing" /\ call' = [call EXCEPT ![c] = Back(c)] /\ UNCHANGED <<load, held>>
  BY <1>1, <1>2, <1>4, BackStep
<1>5. CASE /\ load[f].state = "computing" /\ load[f].dropped /\ UNCHANGED held
           /\ load' = [load EXCEPT ![f] = [@ EXCEPT !.state = "dropped", !.waiters = {}]]
           /\ call' = [Woken(load[f].waiters) EXCEPT ![c] = Back(c)]
  <2>. DEFINE r == [load[f] EXCEPT !.state = "dropped", !.waiters = {}]
              b == Back(c)
              ws == load[f].waiters
              W == Woken(ws)
  <2>1. /\ r \in LoadType /\ r.key = load[f].key /\ r.state = "dropped" /\ r.started = load[f].started
        /\ r.dropped = load[f].dropped /\ r.waiters = {} /\ r.task = load[f].task
        /\ r.refresh = load[f].refresh /\ load' = [load EXCEPT ![f] = r]
    BY <1>3, <1>5 DEF LoadType
  <2>2. b \in CallType /\ b.pc = "idle" /\ b.load = None /\ call' = [W EXCEPT ![c] = b]
    BY <1>5, BackType
  <2>3. /\ W \in [Callers -> CallType]
        /\ \A d \in Callers : /\ W[d].pc = call[d].pc /\ W[d].key = call[d].key
                              /\ W[d].load = call[d].load
                              /\ W[d].woken = (call[d].woken \/ d \in ws)
    BY WokenFields, SMTT(30)
  <2>. HIDE DEF r, b, W, f
  <2>4. /\ load' \in Seq(LoadType) /\ Len(load') = Len(load) /\ load'[f] = r
        /\ \A g \in Loads : g # f => load'[g] = load[g]
    BY <1>1, <2>1, LoadType1
  <2>5. /\ call' \in [Callers -> CallType] /\ call'[c] = b
        /\ \A d \in Callers : d # c => call'[d] = W[d]
    BY <2>2, <2>3
  <2>6. TypeOK'
    <3>1. \A d \in Callers :
             /\ call'[d].pc \in {"trigger", "join"} => call'[d].key \in Keys
             /\ call'[d].load \in Loads \cup {None}
             /\ call'[d].pc \in {"send", "count", "lead", "wait", "unlock", "recheck", "parked"} =>
                  call'[d].load \in Loads
      BY <2>2, <2>3, <2>5, ZenonT(30) DEF TypeOK
    <3>. QED BY <1>2, <1>5, <2>4, <2>5, <3>1 DEF TypeOK, CallType, LoadType
  <2>7. Becomes(f, "dropped", load[f].started, load[f].dropped, {}, load[f].task, load[f].refresh)
    BY <2>1, <2>4 DEF Becomes
  <2>8. call'[c].pc = "idle" /\ \A d \in Callers : d # c =>
                       /\ call'[d].pc = call[d].pc /\ call'[d].load = call[d].load
                       /\ call'[d].woken = (call[d].woken \/ d \in ws)
    BY <2>2, <2>3, <2>5
  <2>. QED BY <1>1, <1>2, <1>5, <2>6, <2>7, <2>8 DEF f
<1>6. CASE /\ load[f].state = "computing" /\ ~load[f].dropped
           /\ load' = [load EXCEPT ![f].waiters = @ \cup {c}] /\ held' = [held EXCEPT ![f] = c]
           /\ call' = [call EXCEPT ![c].pc = "unlock"]
  <2>. DEFINE r == [load[f] EXCEPT !.waiters = @ \cup {c}]
              q == [call[c] EXCEPT !.pc = "unlock"]
  <2>1. /\ r \in LoadType /\ r.key = load[f].key /\ r.state = load[f].state /\ r.started = load[f].started
        /\ r.dropped = load[f].dropped /\ r.waiters = load[f].waiters \cup {c} /\ r.task = load[f].task
        /\ r.refresh = load[f].refresh /\ load' = [load EXCEPT ![f] = r]
    BY <1>3, <1>6 DEF LoadType
  <2>2. /\ q \in CallType /\ q.pc = "unlock" /\ q.load = f /\ q.woken = call[c].woken
        /\ call' = [call EXCEPT ![c] = q]
    BY <1>1, <1>6 DEF CallType, CallPc
  <2>. HIDE DEF r, q, f
  <2>3. /\ load' \in Seq(LoadType) /\ Len(load') = Len(load) /\ load'[f] = r
        /\ \A g \in Loads : g # f => load'[g] = load[g]
    BY <1>1, <2>1, LoadType1
  <2>4. /\ call' \in [Callers -> CallType] /\ call'[c] = q
        /\ \A d \in Callers : d # c => call'[d] = call[d]
    BY <2>2, CallType1
  <2>5. held' \in Seq(Callers \cup {None}) /\ Len(held') = Len(load) /\ Locked(f, c)
    BY <1>1, <1>6, HeldType
  <2>6. TypeOK'
    BY <1>1, <1>2, <2>2, <2>3, <2>4, <2>5, SMTT(30) DEF TypeOK, CallType, LoadType
  <2>7. Becomes(f, load[f].state, load[f].started, load[f].dropped, load[f].waiters \cup {c},
                load[f].task, load[f].refresh)
    BY <2>1, <2>3 DEF Becomes
  <2>. QED BY <1>1, <1>2, <1>6, <2>2, <2>4, <2>5, <2>6, <2>7 DEF f, Moved
<1>. QED BY <1>4, <1>5, <1>6 DEF Inspected

LEMMA AgeStep ==
  ASSUME TypeOK, NEW k \in Keys, Age(k)
  PROVE  TypeOK' /\ UNCHANGED <<client, pending, load, held, refreshes, pump, call>>
<1>1. UNCHANGED <<client, pending, load, held, refreshes, pump, call>>
  BY DEF Age
<1>2. entry' \in [Keys -> {"none", "fresh", "stale"}]
  BY DEF Age, TypeOK
<1>. QED BY <1>1, <1>2 DEF TypeOK, CallType, LoadType

-----------------------------------------------------------------------------
(* ShareInv *)

LEMMA ShareKept ==
  ASSUME TypeOK, TypeOK', ShareInv, UNCHANGED <<client, pending>>, Len(load') = Len(load),
         \A g \in Loads : /\ load'[g].key = load[g].key /\ load'[g].started = load[g].started
                          /\ load'[g].dropped = load[g].dropped /\ load'[g].task = load[g].task,
         \A g \in Loads : ~load[g].started /\ OnItsWay(g) => OnItsWay(g)'
  PROVE  ShareInv'
<1>1. \A k \in Keys : pending[k] \in Loads \cup {None}
  BY DEF TypeOK
<1>2. \A k \in Keys : pending'[k] # None => load'[pending'[k]].key = k
  BY <1>1, ZenonT(30) DEF ShareInv
<1>3. ASSUME NEW f \in Loads
      PROVE  /\ load'[f].started <=> load'[f].task # "none"
             /\ ~load'[f].started => ~load'[f].dropped /\ pending'[load'[f].key] = f /\ OnItsWay(f)'
             /\ Active(f)' => ~load'[f].dropped /\ pending'[load'[f].key] = f
             /\ pending'[load'[f].key] = f => load'[f].dropped \/ ~load'[f].started \/ Active(f)'
  BY SMTT(30) DEF ShareInv, Active
<1>. QED BY <1>2, <1>3 DEF ShareInv

\* Nobody is taken out of send, the queue or the pump's hands.
Undisturbed ==
  /\ refreshes'.queue = refreshes.queue /\ refreshes'.taken = refreshes.taken
  /\ \A d \in Callers : \/ call'[d].pc = call[d].pc /\ call'[d].load = call[d].load
                        \/ call[d].pc # "send"

LEMMA WayKept ==
  ASSUME Undisturbed, NEW g, OnItsWay(g)
  PROVE  OnItsWay(g)'
BY DEF Undisturbed, OnItsWay

\* A step of the job that runs f.
LEMMA ShareJob ==
  ASSUME TypeOK, TypeOK', ShareInv, UNCHANGED client, Undisturbed, NEW f \in Loads,
         Len(load') = Len(load), \A g \in Loads : g # f => load'[g] = load[g],
         load'[f].key = load[f].key,
         \A k \in Keys : pending'[k] = pending[k] \/ (pending[k] = f /\ pending'[k] = None),
         load[f].started, load'[f].started, load'[f].task # "none",
         Active(f)' => ~load'[f].dropped /\ pending'[load[f].key] = f,
         pending'[load[f].key] = f => load'[f].dropped \/ Active(f)'
  PROVE  ShareInv'
<1>1. \A k \in Keys : pending[k] \in Loads \cup {None}
  BY DEF TypeOK
<1>2. \A k \in Keys : pending'[k] # None => load'[pending'[k]].key = k
  BY <1>1, SMTT(30) DEF ShareInv
<1>3. ASSUME NEW g \in Loads
      PROVE  /\ load'[g].started <=> load'[g].task # "none"
             /\ ~load'[g].started => ~load'[g].dropped /\ pending'[load'[g].key] = g /\ OnItsWay(g)'
             /\ Active(g)' => ~load'[g].dropped /\ pending'[load'[g].key] = g
             /\ pending'[load'[g].key] = g => load'[g].dropped \/ ~load'[g].started \/ Active(g)'
  <2>1. CASE g = f
    BY <2>1
  <2>2. CASE g # f
    <3>1. load'[g] = load[g] /\ load[g].key \in Keys /\ (Active(g)' <=> Active(g))
      BY <2>2, LoadInType DEF Active
    <3>2. pending'[load[g].key] = g <=> pending[load[g].key] = g
      BY <2>2, <3>1, NamesAssumption, SMTT(30)
    <3>3. OnItsWay(g) => OnItsWay(g)'
      BY WayKept
    <3>. QED BY <3>1, <3>2, <3>3, SMTT(30) DEF ShareInv
  <2>. QED BY <2>1, <2>2
<1>. QED BY <1>2, <1>3 DEF ShareInv

\* A queued load finds somebody who runs it.
LEMMA ShareClaim ==
  ASSUME TypeOK, TypeOK', ShareInv, UNCHANGED <<client, pending>>, NEW f \in Loads,
         Len(load') = Len(load), \A g \in Loads : g # f => load'[g] = load[g] /\ (OnItsWay(g) => OnItsWay(g)'),
         load'[f].key = load[f].key, load'[f].dropped = load[f].dropped,
         ~load[f].started, load'[f].started, load'[f].task = "loading"
  PROVE  ShareInv'
<1>1. \A k \in Keys : pending[k] \in Loads \cup {None}
  BY DEF TypeOK
<1>2. \A k \in Keys : pending'[k] # None => load'[pending'[k]].key = k
  BY <1>1, SMTT(30) DEF ShareInv
<1>3. ASSUME NEW g \in Loads
      PROVE  /\ load'[g].started <=> load'[g].task # "none"
             /\ ~load'[g].started => ~load'[g].dropped /\ pending'[load'[g].key] = g /\ OnItsWay(g)'
             /\ Active(g)' => ~load'[g].dropped /\ pending'[load'[g].key] = g
             /\ pending'[load'[g].key] = g => load'[g].dropped \/ ~load'[g].started \/ Active(g)'
  BY SMTT(30) DEF ShareInv, Active
<1>. QED BY <1>2, <1>3 DEF ShareInv

\* A load is created for a key with none to join.
LEMMA ShareCreate ==
  ASSUME TypeOK, TypeOK', ShareInv, UNCHANGED client, NEW k \in Keys, NEW r, NEW n, ~Live(k),
         Created(k, r, n), Undisturbed, r.key = k, ~r.dropped,
         (r.started /\ r.task = "loading") \/ (~r.started /\ r.task = "none" /\ OnItsWay(n)')
  PROVE  ShareInv'
<1>1. /\ Len(load) \in Nat /\ Len(load') = n /\ load'[n] = r /\ n \notin Loads /\ n # None
      /\ pending'[k] = n /\ \A j \in Keys : j # k => pending'[j] = pending[j]
      /\ \A g \in Loads : load'[g] = load[g]
  BY NamesAssumption, SMTT(30) DEF Created, TypeOK
<1>2. \A j \in Keys : pending[j] \in Loads \cup {None}
  BY DEF TypeOK
<1>3. \A j \in Keys : pending'[j] # None => load'[pending'[j]].key = j
  BY <1>1, <1>2, SMTT(30) DEF ShareInv
<1>4. ASSUME NEW g \in Loads
      PROVE  /\ load'[g].started <=> load'[g].task # "none"
             /\ ~load'[g].started => ~load'[g].dropped /\ pending'[load'[g].key] = g /\ OnItsWay(g)'
             /\ Active(g)' => ~load'[g].dropped /\ pending'[load'[g].key] = g
             /\ pending'[load'[g].key] = g => load'[g].dropped \/ ~load'[g].started \/ Active(g)'
  <2>1. load'[g] = load[g] /\ load[g].key \in Keys /\ (Active(g)' <=> Active(g)) /\ g # n
    BY <1>1, LoadInType DEF Active
  <2>2. OnItsWay(g) => OnItsWay(g)'
    BY WayKept
  <2>3. CASE load[g].key # k
    BY <1>1, <2>1, <2>2, <2>3, SMTT(30) DEF ShareInv
  <2>4. CASE load[g].key = k
    <3>1. ~(pending[k] = g /\ ~load[g].dropped)
      BY NamesAssumption, SMTT(30) DEF Live
    <3>. QED BY <1>1, <2>1, <2>4, <3>1, SMTT(30) DEF ShareInv
  <2>. QED BY <2>3, <2>4
<1>5. \A g \in 1..Len(load') : g \in Loads \/ g = n
  BY <1>1, SMTT(30) DEF Created
<1>6. /\ load'[n].started <=> load'[n].task # "none"
      /\ ~load'[n].started => ~load'[n].dropped /\ pending'[load'[n].key] = n /\ OnItsWay(n)'
      /\ Active(n)' => ~load'[n].dropped /\ pending'[load'[n].key] = n
      /\ pending'[load'[n].key] = n => load'[n].dropped \/ ~load'[n].started \/ Active(n)'
  BY <1>1 DEF Active
<1>7. \A g \in 1..Len(load') :
             /\ load'[g].started <=> load'[g].task # "none"
             /\ ~load'[g].started => ~load'[g].dropped /\ pending'[load'[g].key] = g /\ OnItsWay(g)'
             /\ Active(g)' => ~load'[g].dropped /\ pending'[load'[g].key] = g
             /\ pending'[load'[g].key] = g => load'[g].dropped \/ ~load'[g].started \/ Active(g)'
  BY <1>4, <1>5, <1>6
<1>. QED BY <1>3, <1>7 DEF ShareInv

-----------------------------------------------------------------------------
(* PumpInv *)

\* Whoever is in start_refreshes stays where it is.
LEMMA PumpKept ==
  ASSUME TypeOK, TypeOK', PumpInv, UNCHANGED <<client, pump>>,
         refreshes'.pumping = refreshes.pumping, refreshes'.taken = refreshes.taken,
         \A c \in Callers : call[c].pc = "pumping" => call'[c].pc = "pumping" \/ pump[c] = "no",
         \A g \in Loads : /\ g \in 1..Len(load')
                          /\ load[g].task = "pumping" => load'[g].task = "pumping" \/ pump[g] = "no"
  PROVE  PumpInv'
BY DEF PumpInv, Inside

\* The pumper `a` goes on to `to`.
LEMMA PumpMoves ==
  ASSUME TypeOK, TypeOK', PumpInv, UNCHANGED client, NEW a \in Pumpers, NEW to, PumpAt(a, to),
         \A c \in Callers : c # a => call'[c].pc = call[c].pc,
         \A g \in Loads : g \in 1..Len(load') /\ (g # a /\ load[g].task = "pumping" => load'[g].task = "pumping"),
         to # "no" => \/ a \in Callers /\ call'[a].pc = "pumping"
                      \/ a \in 1..Len(load') /\ load'[a].task = "pumping",
         \/ to \in {"claim", "recv", "start", "clear"} /\ refreshes'.pumping
            /\ (Inside(a) \/ ~refreshes.pumping)
         \/ to \notin {"claim", "recv", "start", "clear"} /\ Inside(a) /\ ~refreshes'.pumping
         \/ to \notin {"claim", "recv", "start", "clear"} /\ ~Inside(a)
            /\ refreshes'.pumping = refreshes.pumping,
         \/ to = "start" /\ refreshes'.taken # None
         \/ to # "start" /\ pump[a] = "start" /\ refreshes'.taken = None
         \/ to # "start" /\ pump[a] # "start" /\ refreshes'.taken = refreshes.taken
  PROVE  PumpInv'
<1>1. pump'[a] = to /\ \A b \in Pumpers : b # a => pump'[b] = pump[b]
  BY DEF PumpAt
<1>2. Callers \subseteq Pumpers /\ 1..client.maxLoads \subseteq Pumpers
  OBVIOUS
<1>3. \A c \in Callers : pump'[c] # "no" => call'[c].pc = "pumping"
  <2>1. \A c \in Callers : c \notin 1..Len(load')
    <3>1. Len(load') \in Nat
      BY SMTT(30) DEF TypeOK
    <3>. QED BY <3>1, NamesAssumption, SMTT(30)
  <2>. QED BY <1>1, <1>2, <2>1 DEF PumpInv
<1>4. \A f \in 1..client.maxLoads : pump'[f] # "no" => f \in 1..Len(load') /\ load'[f].task = "pumping"
  <2>1. \A f \in 1..client.maxLoads : f \notin Callers
    <3>1. client.maxLoads \in Nat
      BY ClientsAssumption DEF TypeOK
    <3>. QED BY <3>1, NamesAssumption, SMTT(30)
  <2>. QED BY <1>1, <1>2, <2>1 DEF PumpInv
<1>5. /\ \A b, d \in Pumpers : Inside(b)' /\ Inside(d)' => b = d
      /\ refreshes'.pumping <=> \E b \in Pumpers : Inside(b)'
  BY <1>1, SMTT(30) DEF PumpInv, Inside
<1>6. refreshes'.taken # None <=> \E b \in Pumpers : pump'[b] = "start"
  BY <1>1 DEF PumpInv, Inside
<1>. QED BY <1>3, <1>4, <1>5, <1>6 DEF PumpInv

-----------------------------------------------------------------------------
(* WaitInv *)

\* A caller who waits for nothing moves; loads are claimed or created.
LEMMA WaitCaller ==
  ASSUME TypeOK, TypeOK', WaitInv, UNCHANGED client, NEW c \in Callers,
         \A d \in Callers : d # c => call'[d] = call[d], call[c].pc \notin Ahead \cup {"parked"},
         \/ call'[c].pc \notin Ahead \cup {"parked"}
         \/ call'[c].pc = "wait" /\ load'[call'[c].load].started,
         \A g \in Loads : /\ g \in 1..Len(load') /\ held'[g] = held[g]
                          /\ load'[g].state = load[g].state /\ load'[g].waiters = load[g].waiters
                          /\ load'[g].dropped = load[g].dropped
                          /\ load[g].started => load'[g].started
                          /\ load'[g].task \in {load[g].task, "loading"},
         \A g \in 1..Len(load') : g \in Loads
            \/ (held'[g] = None /\ ~load'[g].dropped /\ load'[g].task \in {"none", "loading"})
  PROVE  WaitInv'
<1>1. /\ \A g \in Loads : held[g] \in Callers \cup {None}
      /\ \A d \in Callers : call[d].pc \in Ahead \cup {"parked"} => call[d].load \in Loads
  BY SMTT(30) DEF TypeOK, Ahead
<1>2. HolderInv'
  BY <1>1, SMTT(30) DEF WaitInv, HolderInv, Ahead
<1>3. CallerInv'
  <2>. SUFFICES ASSUME NEW d \in Callers
       PROVE  /\ call'[d].pc = "unlock" => held'[call'[d].load] = d
              /\ call'[d].pc \in Ahead \cup {"parked"} => load'[call'[d].load].started
              /\ call'[d].pc \in {"unlock", "recheck", "parked"} =>
                   call'[d].woken \/ (load'[call'[d].load].state = "computing" /\ d \in load'[call'[d].load].waiters)
    BY DEF CallerInv
  <2>1. CASE d = c
    BY <2>1 DEF Ahead
  <2>2. CASE d # c
    BY <1>1, <2>2, SMTT(30) DEF WaitInv, CallerInv, Ahead
  <2>. QED BY <2>1, <2>2
<1>4. JobInv'
  <2>. SUFFICES ASSUME NEW g \in 1..Len(load')
       PROVE  /\ load'[g].dropped => client.drops
              /\ load'[g].task \in {"droplock", "dropunpend"} => load'[g].dropped
              /\ load'[g].task \in {"dropunpend", "release", "done", "pumping"} /\ load'[g].state = "computing" =>
                   load'[g].dropped /\ \E d \in Callers : call'[d].load = g /\ call'[d].pc \in Ahead
    BY DEF JobInv
  <2>1. CASE g \notin Loads
    BY <2>1
  <2>2. CASE g \in Loads
    BY <2>2, SMTT(30) DEF WaitInv, JobInv
  <2>. QED BY <2>1, <2>2
<1>. QED BY <1>2, <1>3, <1>4 DEF WaitInv

\* A step of the job of f that finishes nothing.
LEMMA WaitJob ==
  ASSUME TypeOK, TypeOK', WaitInv, UNCHANGED <<client, held, call>>, NEW f \in Loads,
         Len(load') = Len(load), \A g \in Loads : g # f => load'[g] = load[g],
         load'[f].state = load[f].state, load'[f].waiters = load[f].waiters,
         load[f].started => load'[f].started,
         load'[f].dropped => client.drops,
         load'[f].task \in {"droplock", "dropunpend"} => load'[f].dropped,
         load'[f].task \in {"dropunpend", "release", "done", "pumping"} /\ load[f].state = "computing" =>
           load'[f].dropped /\ \E c \in Callers : call[c].load = f /\ call[c].pc \in Ahead
  PROVE  WaitInv'
<1>1. \A d \in Callers : call[d].pc \in Ahead \cup {"parked"} => call[d].load \in Loads
  BY DEF TypeOK, Ahead
<1>2. HolderInv'
  BY DEF WaitInv, HolderInv
<1>3. CallerInv'
  BY <1>1, SMTT(30) DEF WaitInv, CallerInv, Ahead
<1>4. JobInv'
  BY SMTT(30) DEF WaitInv, JobInv
<1>. QED BY <1>2, <1>3, <1>4 DEF WaitInv

\* The job of f finishes it.
LEMMA WaitFinish ==
  ASSUME TypeOK, TypeOK', WaitInv, UNCHANGED <<client, held>>, NEW f \in Loads, WokenBy(f),
         Len(load') = Len(load), \A g \in Loads : g # f => load'[g] = load[g],
         load'[f].state # "computing", load'[f].started = load[f].started,
         load'[f].dropped = load[f].dropped,
         load'[f].task \in {"droplock", "dropunpend"} => load'[f].dropped
  PROVE  WaitInv'
<1>1. /\ \A d \in Callers : call[d].pc \in Ahead \cup {"parked"} => call[d].load \in Loads
      /\ \A g \in Loads : held[g] \in Callers \cup {None}
  BY SMTT(30) DEF TypeOK, Ahead
<1>2. HolderInv'
  BY <1>1, SMTT(30) DEF WaitInv, HolderInv, WokenBy
<1>3. CallerInv'
  <2>. SUFFICES ASSUME NEW d \in Callers
       PROVE  /\ call'[d].pc = "unlock" => held'[call'[d].load] = d
              /\ call'[d].pc \in Ahead \cup {"parked"} => load'[call'[d].load].started
              /\ call'[d].pc \in {"unlock", "recheck", "parked"} =>
                   call'[d].woken \/ (load'[call'[d].load].state = "computing" /\ d \in load'[call'[d].load].waiters)
    BY DEF CallerInv
  <2>1. /\ call'[d].pc = call[d].pc /\ call'[d].load = call[d].load
        /\ call'[d].woken = (call[d].woken \/ d \in load[f].waiters)
    BY DEF WokenBy
  <2>2. CASE call[d].load = f
    <3>1. call[d].pc \in {"unlock", "recheck", "parked"} => call[d].woken \/ d \in load[f].waiters
      BY <2>2 DEF WaitInv, CallerInv
    <3>2. call'[d].pc \in {"unlock", "recheck", "parked"} => call'[d].woken
      BY <2>1, <3>1
    <3>3. /\ call'[d].pc = "unlock" => held'[call'[d].load] = d
          /\ call'[d].pc \in Ahead \cup {"parked"} => load'[call'[d].load].started
      BY <2>1, <2>2 DEF WaitInv, CallerInv, Ahead
    <3>. QED BY <3>2, <3>3
  <2>3. CASE call[d].load # f
    <3>1. call[d].woken => call'[d].woken
      BY <2>1
    <3>2. call[d].pc \in Ahead \cup {"parked"} => load'[call[d].load] = load[call[d].load]
      BY <1>1, <2>3
    <3>. QED BY <2>1, <3>1, <3>2, SMTT(30) DEF WaitInv, CallerInv, Ahead
  <2>. QED BY <2>2, <2>3
<1>4. JobInv'
  BY SMTT(30) DEF WaitInv, JobInv, WokenBy
<1>. QED BY <1>2, <1>3, <1>4 DEF WaitInv

LEMMA WaitInspected ==
  ASSUME TypeOK, TypeOK', WaitInv, NEW c \in Callers, Inspected(c)
  PROVE  WaitInv'
<1>. PICK f \in Loads : f = call[c].load
  BY InspectedStep
<1>1. /\ UNCHANGED client /\ call[c].pc = "wait" /\ held[f] = None
      /\ \/ /\ load[f].state # "computing" /\ Moved(c, "idle") /\ UNCHANGED <<load, held>>
         \/ /\ load[f].state = "computing" /\ load[f].dropped /\ UNCHANGED held
            /\ Becomes(f, "dropped", load[f].started, load[f].dropped, {}, load[f].task, load[f].refresh)
            /\ call'[c].pc = "idle"
            /\ \A d \in Callers : d # c =>
                 /\ call'[d].pc = call[d].pc /\ call'[d].load = call[d].load
                 /\ call'[d].woken = (call[d].woken \/ d \in load[f].waiters)
         \/ /\ load[f].state = "computing" /\ ~load[f].dropped /\ Locked(f, c)
            /\ Becomes(f, load[f].state, load[f].started, load[f].dropped, load[f].waiters \cup {c},
                       load[f].task, load[f].refresh)
            /\ Moved(c, "unlock") /\ call'[c].load = f /\ call'[c].woken = call[c].woken
  BY InspectedStep
<1>0. UNCHANGED client /\ call[c].pc = "wait" /\ held[f] = None
  BY <1>1
<1>2. /\ \A d \in Callers : call[d].pc \in Ahead \cup {"parked"} => call[d].load \in Loads
      /\ \A g \in Loads : held[g] \in Callers \cup {None}
  BY SMTT(30) DEF TypeOK, Ahead
<1>3. CASE load[f].state # "computing" /\ Moved(c, "idle") /\ UNCHANGED <<load, held>>
  <2>1. HolderInv'
    <3>. SUFFICES ASSUME NEW g \in Loads, held[g] # None
                  PROVE  call'[held[g]].pc = "unlock" /\ call'[held[g]].load = g
      BY <1>3 DEF HolderInv
    <3>1. held[g] \in Callers /\ call[held[g]].pc = "unlock" /\ call[held[g]].load = g
      BY <1>2 DEF WaitInv, HolderInv
    <3>. QED BY <1>0, <1>3, <3>1 DEF Moved
  <2>2. CallerInv'
    BY <1>0, <1>3 DEF WaitInv, CallerInv, Moved, Ahead
  <2>3. JobInv'
    <3>. SUFFICES ASSUME NEW g \in Loads,
                         load[g].task \in {"dropunpend", "release", "done", "pumping"}, load[g].state = "computing"
                  PROVE  load[g].dropped /\ \E d \in Callers : call'[d].load = g /\ call'[d].pc \in Ahead
      BY <1>0, <1>3 DEF WaitInv, JobInv
    <3>1. load[g].dropped /\ \E d \in Callers : call[d].load = g /\ call[d].pc \in Ahead
      BY DEF WaitInv, JobInv
    <3>2. PICK d \in Callers : call[d].load = g /\ call[d].pc \in Ahead
      BY <3>1
    <3>3. d # c
      BY <1>3, <3>2
    <3>. QED BY <1>3, <3>1, <3>2, <3>3 DEF Moved
  <2>. QED BY <2>1, <2>2, <2>3 DEF WaitInv
<1>4. CASE /\ load[f].state = "computing" /\ load[f].dropped /\ UNCHANGED held
           /\ Becomes(f, "dropped", load[f].started, load[f].dropped, {}, load[f].task, load[f].refresh)
           /\ call'[c].pc = "idle"
           /\ \A d \in Callers : d # c =>
                /\ call'[d].pc = call[d].pc /\ call'[d].load = call[d].load
                /\ call'[d].woken = (call[d].woken \/ d \in load[f].waiters)
  <2>1. HolderInv'
    <3>. SUFFICES ASSUME NEW g \in Loads, held[g] # None
                  PROVE  call'[held[g]].pc = "unlock" /\ call'[held[g]].load = g
      BY <1>4 DEF HolderInv, Becomes
    <3>1. held[g] \in Callers /\ call[held[g]].pc = "unlock" /\ call[held[g]].load = g
      BY <1>2 DEF WaitInv, HolderInv
    <3>2. held[g] # c
      BY <1>0, <3>1
    <3>. QED BY <1>4, <3>1, <3>2
  <2>2. CallerInv'
    <3>. SUFFICES ASSUME NEW d \in Callers
         PROVE  /\ call'[d].pc = "unlock" => held'[call'[d].load] = d
                /\ call'[d].pc \in Ahead \cup {"parked"} => load'[call'[d].load].started
                /\ call'[d].pc \in {"unlock", "recheck", "parked"} =>
                     call'[d].woken \/ (load'[call'[d].load].state = "computing" /\ d \in load'[call'[d].load].waiters)
      BY DEF CallerInv
    <3>1. CASE d = c
      BY <1>4, <3>1 DEF Ahead
    <3>2. CASE d # c /\ call[d].load = f
      <4>1. call[d].pc \in {"unlock", "recheck", "parked"} => call[d].woken \/ d \in load[f].waiters
        BY <3>2 DEF WaitInv, CallerInv
      <4>2. call'[d].pc \in {"unlock", "recheck", "parked"} => call'[d].woken
        BY <1>4, <3>2, <4>1
      <4>3. /\ call'[d].pc = "unlock" => held'[call'[d].load] = d
            /\ call'[d].pc \in Ahead \cup {"parked"} => load'[call'[d].load].started
        <5>1. /\ call[d].pc = "unlock" => held[f] = d
              /\ call[d].pc \in Ahead \cup {"parked"} => load[f].started
          BY <3>2 DEF WaitInv, CallerInv
        <5>. QED BY <1>4, <3>2, <5>1, ZenonT(30) DEF Becomes
      <4>. QED BY <4>2, <4>3
    <3>3. CASE d # c /\ call[d].load # f
      <4>1. call'[d].pc = call[d].pc /\ call'[d].load = call[d].load /\ (call[d].woken => call'[d].woken)
        BY <1>4, <3>3
      <4>2. call[d].pc \in Ahead \cup {"parked"} => load'[call[d].load] = load[call[d].load]
        BY <1>2, <1>4, <3>3 DEF Becomes
      <4>. QED BY <1>4, <4>1, <4>2, SMTT(30) DEF WaitInv, CallerInv, Ahead
    <3>. QED BY <3>1, <3>2, <3>3
  <2>3. JobInv'
    <3>. SUFFICES ASSUME NEW g \in 1..Len(load')
         PROVE  /\ load'[g].dropped => client.drops
                /\ load'[g].task \in {"droplock", "dropunpend"} => load'[g].dropped
                /\ load'[g].task \in {"dropunpend", "release", "done", "pumping"} /\ load'[g].state = "computing" =>
                     load'[g].dropped /\ \E d \in Callers : call'[d].load = g /\ call'[d].pc \in Ahead
      BY <1>0 DEF JobInv
    <3>0. g \in Loads
      BY <1>4 DEF Becomes
    <3>1. CASE g = f
      BY <1>4, <3>1 DEF WaitInv, JobInv, Becomes
    <3>2. CASE g # f
      <4>1. load'[g] = load[g]
        BY <1>4, <3>0, <3>2 DEF Becomes
      <4>2. /\ load[g].dropped => client.drops
            /\ load[g].task \in {"droplock", "dropunpend"} => load[g].dropped
            /\ load[g].task \in {"dropunpend", "release", "done", "pumping"} /\ load[g].state = "computing" =>
                 load[g].dropped /\ \E d \in Callers : call[d].load = g /\ call[d].pc \in Ahead
        BY <3>0 DEF WaitInv, JobInv
      <4>3. \A d \in Callers : call[d].load = g => call'[d].load = g /\ call'[d].pc = call[d].pc
        <5>1. call[c].load # g
          BY <3>2
        <5>. QED BY <1>4, <5>1
      <4>. QED BY <4>1, <4>2, <4>3
    <3>. QED BY <3>1, <3>2
  <2>. QED BY <2>1, <2>2, <2>3 DEF WaitInv
<1>5. CASE /\ load[f].state = "computing" /\ ~load[f].dropped /\ Locked(f, c)
           /\ Becomes(f, load[f].state, load[f].started, load[f].dropped, load[f].waiters \cup {c},
                      load[f].task, load[f].refresh)
           /\ Moved(c, "unlock") /\ call'[c].load = f /\ call'[c].woken = call[c].woken
  <2>0. /\ Len(load') = Len(load) /\ load'[f].waiters = load[f].waiters \cup {c}
        /\ \A g \in Loads : g # f => load'[g].waiters = load[g].waiters /\ held'[g] = held[g]
        /\ \A g \in Loads : /\ load'[g].state = load[g].state /\ load'[g].started = load[g].started
                            /\ load'[g].dropped = load[g].dropped /\ load'[g].task = load[g].task
        /\ held'[f] = c /\ call'[c].pc = "unlock" /\ call'[c].load = f
        /\ \A d \in Callers : d # c => call'[d] = call[d]
    BY <1>5 DEF Becomes, Locked, Moved
  <2>1. HolderInv'
    <3>. SUFFICES ASSUME NEW g \in Loads, held'[g] # None
                  PROVE  call'[held'[g]].pc = "unlock" /\ call'[held'[g]].load = g
      BY <2>0 DEF HolderInv
    <3>1. CASE g = f
      BY <2>0, <3>1
    <3>2. CASE g # f
      <4>1. held'[g] = held[g] /\ held[g] \in Callers
        BY <1>2, <2>0, <3>2
      <4>2. call[held[g]].pc = "unlock" /\ call[held[g]].load = g
        BY <4>1 DEF WaitInv, HolderInv
      <4>3. held[g] # c
        BY <1>0, <4>2
      <4>. QED BY <2>0, <4>1, <4>2, <4>3
    <3>. QED BY <3>1, <3>2
  <2>2. CallerInv'
    <3>. SUFFICES ASSUME NEW d \in Callers
         PROVE  /\ call'[d].pc = "unlock" => held'[call'[d].load] = d
                /\ call'[d].pc \in Ahead \cup {"parked"} => load'[call'[d].load].started
                /\ call'[d].pc \in {"unlock", "recheck", "parked"} =>
                     call'[d].woken \/ (load'[call'[d].load].state = "computing" /\ d \in load'[call'[d].load].waiters)
      BY DEF CallerInv
    <3>1. CASE d = c
      <4>1. load[f].started
        BY <1>0 DEF WaitInv, CallerInv, Ahead
      <4>2. call'[d].load = f /\ held'[f] = d
        BY <2>0, <3>1
      <4>3. load'[f].started /\ load'[f].state = "computing" /\ d \in load'[f].waiters
        BY <1>0, <1>2, <1>5, <2>0, <3>1, <4>1
      <4>. QED BY ONLY <4>2, <4>3
    <3>2. CASE d # c
      <4>1. /\ call[d].pc = "unlock" => held[call[d].load] = d
            /\ call[d].pc \in Ahead \cup {"parked"} => load[call[d].load].started
            /\ call[d].pc \in {"unlock", "recheck", "parked"} =>
                 call[d].woken \/ (load[call[d].load].state = "computing" /\ d \in load[call[d].load].waiters)
        BY DEF WaitInv, CallerInv
      <4>2. call[d].pc = "unlock" => call[d].load # f
        BY <1>0, <4>1, NamesAssumption
      <4>3. call[d].pc \in Ahead \cup {"parked"} => call[d].load \in Loads
        BY <1>2
      <4>4. \A g \in Loads : d \in load[g].waiters => d \in load'[g].waiters
        BY <2>0
      <4>5. call'[d] = call[d]
        BY <2>0, <3>2
      <4>6. call[d].pc = "unlock" => held'[call[d].load] = d
        BY <2>0, <4>1, <4>2, <4>3 DEF Ahead
      <4>. QED BY <2>0, <4>1, <4>3, <4>4, <4>5, <4>6, SMTT(30) DEF Ahead
    <3>. QED BY <3>1, <3>2
  <2>3. JobInv'
    <3>. SUFFICES ASSUME NEW g \in Loads
         PROVE  /\ load'[g].dropped => client.drops
                /\ load'[g].task \in {"droplock", "dropunpend"} => load'[g].dropped
                /\ load'[g].task \in {"dropunpend", "release", "done", "pumping"} /\ load'[g].state = "computing" =>
                     load'[g].dropped /\ \E d \in Callers : call'[d].load = g /\ call'[d].pc \in Ahead
      BY <1>0, <2>0, ZenonT(30) DEF JobInv
    <3>1. /\ load[g].dropped => client.drops
          /\ load[g].task \in {"droplock", "dropunpend"} => load[g].dropped
          /\ load[g].task \in {"dropunpend", "release", "done", "pumping"} /\ load[g].state = "computing" =>
               load[g].dropped /\ \E d \in Callers : call[d].load = g /\ call[d].pc \in Ahead
      BY DEF WaitInv, JobInv
    <3>2. \A d \in Callers : call[d].load = g /\ call[d].pc \in Ahead => call'[d].load = g /\ call'[d].pc \in Ahead
      BY <2>0, SMTT(30) DEF Ahead
    <3>. QED BY <2>0, <3>1, <3>2
  <2>. QED BY <2>1, <2>2, <2>3 DEF WaitInv
<1>. QED BY <1>1, <1>3, <1>4, <1>5

LEMMA WaitReleased ==
  ASSUME TypeOK, TypeOK', WaitInv, NEW c \in Callers, Released(c)
  PROVE  WaitInv'
<1>. PICK f \in Loads : f = call[c].load
  BY ReleasedStep
<1>1. UNCHANGED <<client, load>> /\ call'[c].load = f
  BY ReleasedStep
<1>2. /\ \A d \in Callers : call[d].pc \in Ahead \cup {"parked"} => call[d].load \in Loads
      /\ \A g \in Loads : held[g] \in Callers \cup {None}
  BY SMTT(30) DEF TypeOK, Ahead
<1>3. CASE /\ call[c].pc = "unlock" /\ Moved(c, "recheck") /\ Locked(f, None)
           /\ call'[c].woken = call[c].woken
  <2>1. HolderInv'
    BY <1>1, <1>2, <1>3, SMTT(30) DEF WaitInv, HolderInv, CallerInv, Locked, Moved
  <2>2. CallerInv'
    BY <1>1, <1>2, <1>3, SMTT(30) DEF WaitInv, CallerInv, Ahead, Locked, Moved
  <2>3. JobInv'
    BY <1>1, <1>3, SMTT(30) DEF WaitInv, JobInv, Ahead, Moved
  <2>. QED BY <2>1, <2>2, <2>3 DEF WaitInv
<1>4. CASE /\ call[c].pc = "recheck" /\ UNCHANGED held /\ call'[c].woken = call[c].woken
           /\ \/ load[f].dropped /\ Moved(c, "wait")
              \/ ~load[f].dropped /\ Moved(c, "parked")
  <2>1. HolderInv'
    BY <1>1, <1>2, <1>4, SMTT(30) DEF WaitInv, HolderInv, Moved
  <2>2. CallerInv'
    BY <1>1, <1>2, <1>4, SMTT(30) DEF WaitInv, CallerInv, Ahead, Moved
  <2>3. JobInv'
    <3>. SUFFICES ASSUME NEW g \in Loads,
                  load[g].task \in {"dropunpend", "release", "done", "pumping"}, load[g].state = "computing"
         PROVE  load[g].dropped /\ \E d \in Callers : call'[d].load = g /\ call'[d].pc \in Ahead
      BY <1>1 DEF WaitInv, JobInv
    <3>1. PICK d \in Callers : call[d].load = g /\ call[d].pc \in Ahead
      BY DEF WaitInv, JobInv
    <3>2. load[g].dropped
      BY DEF WaitInv, JobInv
    <3>3. CASE d = c
      BY <1>1, <1>4, <3>1, <3>2, <3>3 DEF Ahead, Moved
    <3>4. CASE d # c
      BY <1>4, <3>1, <3>2, <3>4 DEF Moved
    <3>. QED BY <3>3, <3>4
  <2>. QED BY <2>1, <2>2, <2>3 DEF WaitInv
<1>5. CASE call[c].pc = "parked" /\ call[c].woken /\ Moved(c, "wait") /\ UNCHANGED held
  <2>1. HolderInv'
    BY <1>1, <1>2, <1>5, SMTT(30) DEF WaitInv, HolderInv, Moved
  <2>2. CallerInv'
    BY <1>1, <1>2, <1>5, SMTT(30) DEF WaitInv, CallerInv, Ahead, Moved
  <2>3. JobInv'
    BY <1>1, <1>5, SMTT(30) DEF WaitInv, JobInv, Ahead, Moved
  <2>. QED BY <2>1, <2>2, <2>3 DEF WaitInv
<1>. QED BY <1>3, <1>4, <1>5, ReleasedStep

\* Where a load may be dropped, nobody cancels.
LEMMA WaitCancelled ==
  ASSUME TypeOK, TypeOK', WaitInv, NEW c \in Callers, CancelFetch(c), ~client.drops \/ client.cancels = {}
  PROVE  WaitInv'
<1>1. ~client.drops /\ UNCHANGED <<client, load, held>> /\ Moved(c, "idle") /\ call[c].pc # "unlock"
  BY CancelFetchStep DEF CancelFetch
<1>2. /\ \A d \in Callers : call[d].pc \in Ahead \cup {"parked"} => call[d].load \in Loads
      /\ \A g \in Loads : held[g] \in Callers \cup {None}
  BY SMTT(30) DEF TypeOK, Ahead
<1>3. HolderInv'
  BY <1>1, <1>2, SMTT(30) DEF WaitInv, HolderInv, Moved
<1>4. CallerInv'
  BY <1>1, <1>2 DEF WaitInv, CallerInv, Ahead, Moved
<1>5. JobInv'
  BY <1>1 DEF WaitInv, JobInv
<1>. QED BY <1>3, <1>4, <1>5 DEF WaitInv

-----------------------------------------------------------------------------
(* Counting: the rest of the proof needs the cardinalities of finite sets *)

(* SlotInv *)

\* What the lemmas below use of finite sets; CardinalityHolds proves it.
CardinalityFacts ==
  /\ Cardinality({}) = 0
  /\ \A m, n \in Int : IsFiniteSet(m..n)
  /\ \A S : IsFiniteSet(S) => Cardinality(S) \in Nat
  /\ \A S, T : IsFiniteSet(T) /\ S \subseteq T => IsFiniteSet(S)
  /\ \A S, x : IsFiniteSet(S) /\ x \notin S => Cardinality(S \cup {x}) = Cardinality(S) + 1
  /\ \A S, x : IsFiniteSet(S) /\ x \in S => Cardinality(S \ {x}) = Cardinality(S) - 1

LEMMA Finite ==
  ASSUME CardinalityFacts, TypeOK
  PROVE  /\ IsFiniteSet(Slots) /\ Cardinality(Slots) \in Nat
         /\ IsFiniteSet(Counting) /\ Cardinality(Counting) \in Nat
<1>1. Len(load) \in Nat
  BY SMTT(30) DEF TypeOK
<1>2. IsFiniteSet(Loads)
  BY <1>1, SMTT(30) DEF CardinalityFacts
<1>3. IsFiniteSet(Slots) /\ IsFiniteSet(Counting)
  BY <1>2, NamesAssumption DEF Slots, Counting, CardinalityFacts
<1>. QED BY <1>3 DEF CardinalityFacts

LEMMA Numbers ==
  ASSUME TypeOK
  PROVE  /\ refreshes.running \in Int /\ refreshes.waiting \in Int /\ client.limit \in Nat
         /\ refreshes.queue \in Seq(Nat) /\ Len(refreshes.queue) \in Nat
BY ClientsAssumption, SMTT(30) DEF TypeOK

\* No slot changes hands.
LEMMA SlotKept ==
  ASSUME TypeOK, TypeOK', SlotInv, UNCHANGED <<client, refreshes, pump>>,
         \A d \in Callers : call'[d].pc = "count" <=> call[d].pc = "count",
         Slots' = Slots,
         \A g \in 1..Len(load') : load'[g].refresh => load'[g].task = "release" \/ Running(g)',
         \A g \in 1..Len(load') : load'[g].task = "release" => load'[g].refresh
  PROVE  SlotInv'
<1>1. Counting' = Counting
  BY DEF Counting
<1>2. Claimed' = Claimed
  BY DEF Claimed
<1>. QED BY <1>1, <1>2 DEF SlotInv

LEMMA SlotJob ==
  ASSUME TypeOK, TypeOK', SlotInv, UNCHANGED <<client, refreshes, pump>>, NEW f \in Loads,
         \A d \in Callers : call'[d].pc = "count" <=> call[d].pc = "count",
         Len(load') = Len(load), \A g \in Loads : g # f => load'[g] = load[g],
         load'[f].refresh = load[f].refresh,
         load'[f].refresh => load'[f].task = "release" \/ Running(f)',
         load'[f].task = "release" => load'[f].refresh
  PROVE  SlotInv'
<1>1. Slots' = Slots
  BY DEF Slots
<1>2. \A g \in 1..Len(load') : load'[g].refresh => load'[g].task = "release" \/ Running(g)'
  BY DEF SlotInv, Running
<1>3. \A g \in 1..Len(load') : load'[g].task = "release" => load'[g].refresh
  BY DEF SlotInv
<1>. QED BY <1>1, <1>2, <1>3, SlotKept

LEMMA SlotSame ==
  ASSUME TypeOK, TypeOK', SlotInv, UNCHANGED <<client, refreshes, pump>>,
         \A d \in Callers : call'[d].pc = "count" <=> call[d].pc = "count",
         Len(load') = Len(load),
         \A g \in Loads : load'[g].refresh = load[g].refresh /\ load'[g].task = load[g].task
  PROVE  SlotInv'
<1>1. Slots' = Slots
  BY DEF Slots
<1>2. \A g \in 1..Len(load') : load'[g].refresh => load'[g].task = "release" \/ Running(g)'
  BY DEF SlotInv, Running
<1>3. \A g \in 1..Len(load') : load'[g].task = "release" => load'[g].refresh
  BY DEF SlotInv
<1>. QED BY <1>1, <1>2, <1>3, SlotKept

LEMMA SlotCreate ==
  ASSUME TypeOK, TypeOK', SlotInv, UNCHANGED <<client, refreshes, pump>>, NEW k, NEW r, NEW n,
         \A d \in Callers : call'[d].pc = "count" <=> call[d].pc = "count",
         Created(k, r, n), ~r.refresh, r.task # "release"
  PROVE  SlotInv'
<1>1. /\ Len(load) \in Nat /\ load'[n] = r /\ \A g \in Loads : load'[g] = load[g]
      /\ \A g \in 1..Len(load') : g \in Loads \/ g = n
      /\ \A g \in Loads : g \in 1..Len(load')
  BY SMTT(30) DEF Created, TypeOK
<1>2. Slots' = Slots
  BY <1>1 DEF Slots
<1>3. \A g \in 1..Len(load') : load'[g].refresh => load'[g].task = "release" \/ Running(g)'
  BY <1>1 DEF SlotInv, Running
<1>4. \A g \in 1..Len(load') : load'[g].task = "release" => load'[g].refresh
  BY <1>1 DEF SlotInv
<1>. QED BY <1>2, <1>3, <1>4, SlotKept

\* The pump moves, no refresh starts or ends.
LEMMA NextNumbers ==
  ASSUME TypeOK'
  PROVE  refreshes'.running \in Int /\ refreshes'.waiting \in Int /\ Len(refreshes'.queue) \in Nat
BY SMTT(30) DEF TypeOK

LEMMA Balance ==
  ASSUME NEW r0 \in Int, NEW r1 \in Int, NEW w0 \in Int, NEW w1 \in Int, NEW l0 \in Int, NEW l1 \in Int,
         NEW m \in Int, NEW n \in Int, NEW old \in Int, NEW now \in Int, NEW on \in Int, NEW off \in Int,
         now = old + on - off, r0 = m + old, r1 = r0 + on - off, l0 = w0 + n, l1 - w1 = l0 - w0
  PROVE  r1 = m + now /\ l1 = w1 + n
BY SMTT(30)

LEMMA SlotPump ==
  ASSUME CardinalityFacts, TypeOK, TypeOK', SlotInv, PumpInv, UNCHANGED <<client, load, call>>, NEW a \in Pumpers, NEW to,
         PumpAt(a, to), refreshes'.running <= client.limit,
         LET on == IF to \in {"recv", "start"} THEN 1 ELSE 0
             off == IF pump[a] \in {"recv", "start"} THEN 1 ELSE 0
         IN refreshes'.running = refreshes.running + on - off,
         Inside(a) \/ to \notin {"recv", "start"},
         Len(refreshes'.queue) - refreshes'.waiting = Len(refreshes.queue) - refreshes.waiting,
         \/ to # "no"
         \/ \E b \in Pumpers : b # a /\ pump[b] # "no"
         \/ refreshes'.waiting <= 0 \/ ~(refreshes'.running < client.limit)
  PROVE  SlotInv'
<1>1. pump'[a] = to /\ \A b \in Pumpers : b # a => pump'[b] = pump[b]
  BY DEF PumpAt
<1>2. Slots' = Slots /\ Counting' = Counting
  BY DEF Slots, Counting
<1>3. /\ Claimed' = Claimed + (IF to \in {"recv", "start"} THEN 1 ELSE 0)
                  - (IF pump[a] \in {"recv", "start"} THEN 1 ELSE 0)
      /\ Claimed \in {0, 1}
  <2>1. CASE pump[a] \in {"recv", "start"}
    <3>1. \A b \in Pumpers : b # a => pump[b] \notin {"recv", "start"}
      BY <2>1 DEF PumpInv, Inside
    <3>2. Claimed = 1 /\ Claimed' = IF to \in {"recv", "start"} THEN 1 ELSE 0
      BY <1>1, <2>1, <3>1 DEF Claimed
    <3>. QED BY <2>1, <3>2, SMTT(30)
  <2>2. CASE pump[a] \notin {"recv", "start"} /\ to \in {"recv", "start"}
    <3>1. \A b \in Pumpers : pump[b] \notin {"recv", "start"}
      BY <2>2 DEF PumpInv, Inside
    <3>2. Claimed = 0 /\ Claimed' = 1
      BY <1>1, <2>2, <3>1 DEF Claimed
    <3>. QED BY <2>2, <3>2, SMTT(30)
  <2>3. CASE pump[a] \notin {"recv", "start"} /\ to \notin {"recv", "start"}
    <3>1. Claimed \in {0, 1} /\ Claimed' = Claimed
      BY <1>1, <2>3 DEF Claimed
    <3>. QED BY <2>3, <3>1, SMTT(30)
  <2>. QED BY <2>1, <2>2, <2>3
<1>4. /\ refreshes'.running \in Int /\ refreshes'.waiting \in Int /\ Len(refreshes'.queue) \in Nat
      /\ refreshes.running \in Int /\ refreshes.waiting \in Int /\ Len(refreshes.queue) \in Nat
      /\ client.limit \in Nat
  BY Numbers, NextNumbers
<1>. DEFINE m == Cardinality(Slots)
            n == Cardinality(Counting)
            now == Claimed'
            old == Claimed
            on == IF to \in {"recv", "start"} THEN 1 ELSE 0
            off == IF pump[a] \in {"recv", "start"} THEN 1 ELSE 0
<1>5. /\ m \in Nat /\ n \in Nat /\ on \in Int /\ off \in Int /\ old \in Int /\ now \in Int
      /\ now = old + on - off /\ refreshes.running = m + old /\ refreshes'.running = refreshes.running + on - off
      /\ Len(refreshes.queue) = refreshes.waiting + n
      /\ Len(refreshes'.queue) - refreshes'.waiting = Len(refreshes.queue) - refreshes.waiting
  <2>1. m \in Nat /\ n \in Nat
    BY Finite
  <2>2. on \in Int /\ off \in Int /\ old \in Int /\ now \in Int /\ now = old + on - off
    BY ONLY <1>3, SMTT(30)
  <2>3. refreshes.running = m + old /\ Len(refreshes.queue) = refreshes.waiting + n
    BY DEF SlotInv
  <2>4. refreshes'.running = refreshes.running + on - off
    OBVIOUS
  <2>. QED BY <2>1, <2>2, <2>3, <2>4
<1>. HIDE DEF m, n, now, old, on, off
<1>6. refreshes'.running = m + now /\ Len(refreshes'.queue) = refreshes'.waiting + n
  <2>. DEFINE r0 == refreshes.running
              r1 == refreshes'.running
              w0 == refreshes.waiting
              w1 == refreshes'.waiting
              l0 == Len(refreshes.queue)
              l1 == Len(refreshes'.queue)
  <2>1. /\ r0 \in Int /\ r1 \in Int /\ w0 \in Int /\ w1 \in Int /\ l0 \in Int /\ l1 \in Int
        /\ m \in Int /\ n \in Int /\ on \in Int /\ off \in Int /\ old \in Int /\ now \in Int
    BY ONLY <1>4, <1>5, SMTT(30)
  <2>2. now = old + on - off /\ r0 = m + old /\ r1 = r0 + on - off /\ l0 = w0 + n /\ l1 - w1 = l0 - w0
    BY ONLY <1>5
  <2>3. r1 = m + now /\ l1 = w1 + n
    <3>. HIDE DEF r0, r1, w0, w1, l0, l1
    <3>. QED BY ONLY <2>1, <2>2, Balance, SMTT(30)
  <2>. QED BY ONLY <2>3
<1>7. refreshes'.waiting > 0 /\ refreshes'.running < client.limit => \E b \in Pumpers : pump'[b] # "no"
  <2>1. refreshes'.waiting <= 0 => ~(refreshes'.waiting > 0)
    BY ONLY <1>4, SMTT(30)
  <2>. QED BY <1>1, <2>1
<1>. QED BY <1>2, <1>6, <1>7 DEF SlotInv, Running, m, n, now

\* The pump moves, and keeps or has no slot.
LEMMA SlotStays ==
  ASSUME CardinalityFacts, TypeOK, TypeOK', SlotInv, PumpInv, UNCHANGED <<client, load, call>>,
         NEW a \in Pumpers, NEW to, PumpAt(a, to), refreshes'.running = refreshes.running,
         to \in {"recv", "start"} <=> pump[a] \in {"recv", "start"},
         Inside(a) \/ to \notin {"recv", "start"},
         Len(refreshes'.queue) - refreshes'.waiting = Len(refreshes.queue) - refreshes.waiting,
         \/ to # "no"
         \/ \E b \in Pumpers : b # a /\ pump[b] # "no"
         \/ refreshes'.waiting <= 0 \/ ~(refreshes'.running < client.limit)
  PROVE  SlotInv'
<1>1. refreshes.running \in Int /\ refreshes'.running <= client.limit
  BY Numbers DEF SlotInv
<1>2. refreshes'.running = refreshes.running + (IF to \in {"recv", "start"} THEN 1 ELSE 0)
                             - (IF pump[a] \in {"recv", "start"} THEN 1 ELSE 0)
  BY <1>1, SMTT(30)
<1>. QED BY <1>1, <1>2, SlotPump

LEMMA SlotEnqueue ==
  ASSUME CardinalityFacts, TypeOK, TypeOK', SlotInv, PumpInv, NEW c \in Callers, EnqueueRefresh(c)
  PROVE  SlotInv'
<1>1. UNCHANGED <<client, load>>
  BY DEF EnqueueRefresh
<1>2. Slots' = Slots
  BY <1>1 DEF Slots
<1>3. /\ IsFiniteSet(Counting) /\ Cardinality(Counting) \in Nat /\ refreshes.waiting \in Int
      /\ refreshes.queue \in Seq(Nat)
  BY Finite, Numbers
<1>. DEFINE n == Cardinality(Counting)
<1>4. CASE /\ call[c].pc = "send" /\ Moved(c, "count") /\ UNCHANGED pump /\ call[c].load \in Loads
           /\ Tally(Append(refreshes.queue, call[c].load), refreshes.running, refreshes.waiting,
                    refreshes.pumping, refreshes.taken)
  <2>1. Counting' = Counting \cup {c} /\ c \notin Counting
    BY <1>4 DEF Counting, Moved
  <2>2. Cardinality(Counting') = n + 1
    BY <1>3, <2>1 DEF CardinalityFacts
  <2>3. Claimed' = Claimed
    BY <1>1, <1>4 DEF Claimed
  <2>4. call[c].load \in Nat
    BY <1>4, SMTT(30)
  <2>5. Len(refreshes'.queue) = Len(refreshes.queue) + 1
    BY <1>3, <1>4, <2>4, SMTT(30) DEF Tally
  <2>6. Len(refreshes'.queue) = refreshes'.waiting + Cardinality(Counting')
    <3>1. Len(refreshes.queue) = refreshes.waiting + n /\ n \in Nat
      BY <1>3 DEF SlotInv
    <3>. HIDE DEF n
    <3>. QED BY <1>3, <1>4, <2>2, <2>5, <3>1, SMTT(30) DEF Tally
  <2>. QED BY <1>1, <1>2, <1>4, <2>3, <2>6 DEF SlotInv, Running, Tally
<1>5. CASE /\ call[c].pc = "count" /\ Moved(c, "pumping") /\ PumpAt(c, "swap")
           /\ Tally(refreshes.queue, refreshes.running, refreshes.waiting + 1, refreshes.pumping,
                    refreshes.taken)
  <2>1. Counting' = Counting \ {c} /\ c \in Counting
    BY <1>5 DEF Counting, Moved
  <2>2. Cardinality(Counting') = n - 1
    BY <1>3, <2>1 DEF CardinalityFacts
  <2>3. Claimed' = Claimed
    <3>1. pump[c] = "no"
      BY <1>5 DEF PumpInv
    <3>. QED BY <1>1, <1>5, <3>1 DEF Claimed, PumpAt
  <2>4. Len(refreshes'.queue) = refreshes'.waiting + Cardinality(Counting')
    <3>1. Len(refreshes.queue) = refreshes.waiting + n /\ n \in Nat
      BY <1>3 DEF SlotInv
    <3>2. refreshes'.queue = refreshes.queue /\ refreshes'.waiting = refreshes.waiting + 1
      BY <1>5 DEF Tally
    <3>. HIDE DEF n
    <3>. QED BY ONLY <1>3, <2>2, <3>1, <3>2, SMTT(30)
  <2>5. \E a \in Pumpers : pump'[a] # "no"
    BY <1>5 DEF PumpAt
  <2>. QED BY <1>1, <1>2, <1>5, <2>3, <2>4, <2>5 DEF SlotInv, Running, Tally
<1>6. CASE call[c].pc = "pumping" /\ pump[c] = "no" /\ Moved(c, "idle") /\ UNCHANGED <<refreshes, pump>>
  <2>1. \A d \in Callers : call'[d].pc = "count" <=> call[d].pc = "count"
    BY <1>6 DEF Moved
  <2>. QED BY <1>1, <1>6, <2>1, SlotSame
<1>. QED BY <1>4, <1>5, <1>6, EnqueueRefreshStep

LEMMA SlotStart ==
  ASSUME CardinalityFacts, TypeOK, TypeOK', SlotInv, PumpInv, ShareInv, NEW a \in Pumpers, NEW f \in Loads,
         UNCHANGED <<client, call>>, pump[a] = "start", PumpAt(a, "claim"), ~load[f].started,
         Becomes(f, load[f].state, TRUE, load[f].dropped, load[f].waiters, "loading", TRUE),
         Tally(refreshes.queue, refreshes.running, refreshes.waiting, refreshes.pumping, None)
  PROVE  SlotInv'
<1>1. f \notin Slots
  BY DEF Slots, SlotInv, ShareInv, Running
<1>2. Slots' = Slots \cup {f}
  BY DEF Slots, Becomes
<1>3. Cardinality(Slots') = Cardinality(Slots) + 1 /\ Cardinality(Slots) \in Nat
  BY <1>1, <1>2, Finite DEF CardinalityFacts
<1>4. Claimed = 1 /\ Claimed' = 0
  BY DEF Claimed, PumpAt, PumpInv, Inside
<1>5. Counting' = Counting
  BY DEF Counting
<1>6. /\ \A g \in 1..Len(load') : load'[g].refresh => load'[g].task = "release" \/ Running(g)'
      /\ \A g \in 1..Len(load') : load'[g].task = "release" => load'[g].refresh
  BY DEF SlotInv, Becomes, Running
<1>7. refreshes'.running = Cardinality(Slots') + Claimed'
  BY <1>3, <1>4, Numbers, SMTT(30) DEF SlotInv, Tally
<1>8. \E b \in Pumpers : pump'[b] # "no"
  BY DEF PumpAt
<1>. QED BY <1>5, <1>6, <1>7, <1>8 DEF SlotInv, Tally

LEMMA SlotDone ==
  ASSUME CardinalityFacts, TypeOK, TypeOK', SlotInv, PumpInv, NEW f \in Loads, UNCHANGED <<client, call>>,
         load[f].task = "release", PumpAt(f, "swap"),
         Becomes(f, load[f].state, load[f].started, load[f].dropped, load[f].waiters, "pumping", FALSE),
         Tally(refreshes.queue, refreshes.running - 1, refreshes.waiting, refreshes.pumping,
               refreshes.taken)
  PROVE  SlotInv'
<1>1. f \in Slots
  BY DEF Slots, SlotInv
<1>2. Slots' = Slots \ {f}
  BY DEF Slots, Becomes
<1>3. Cardinality(Slots') = Cardinality(Slots) - 1 /\ Cardinality(Slots) \in Nat
  BY <1>1, <1>2, Finite DEF CardinalityFacts
<1>4. f \in Pumpers /\ f \in 1..client.maxLoads
  <2>1. client.maxLoads \in Nat /\ Len(load) <= client.maxLoads /\ Len(load) \in Nat
    BY ClientsAssumption, SMTT(30) DEF TypeOK
  <2>. QED BY <2>1, SMTT(30)
<1>5. Claimed' = Claimed /\ Claimed \in Int
  <2>1. pump[f] = "no"
    BY <1>4 DEF PumpInv
  <2>. QED BY <1>4, <2>1, SMTT(30) DEF Claimed, PumpAt
<1>6. Counting' = Counting
  BY DEF Counting
<1>7. /\ \A g \in 1..Len(load') : load'[g].refresh => load'[g].task = "release" \/ Running(g)'
      /\ \A g \in 1..Len(load') : load'[g].task = "release" => load'[g].refresh
  BY DEF SlotInv, Becomes, Running
<1>8. refreshes'.running = Cardinality(Slots') + Claimed' /\ refreshes'.running <= client.limit
  <2>. DEFINE m == Cardinality(Slots)
              x == Claimed
  <2>1. /\ refreshes.running = m + x /\ m \in Nat /\ x \in Int /\ refreshes.running <= client.limit
        /\ refreshes'.running = refreshes.running - 1
    BY <1>3, <1>5 DEF SlotInv, Tally
  <2>2. Cardinality(Slots') = m - 1 /\ Claimed' = x
    BY <1>3, <1>5
  <2>. HIDE DEF m, x
  <2>. QED BY <2>1, <2>2, Numbers, SMTT(30)
<1>9. \E b \in Pumpers : pump'[b] # "no"
  BY <1>4 DEF PumpAt
<1>. QED BY <1>6, <1>7, <1>8, <1>9 DEF SlotInv, Tally

-----------------------------------------------------------------------------
(* The invariants are inductive *)

LoadInv == TypeOK /\ ShareInv /\ PumpInv /\ SlotInv

\* No client both drops the tasks of loads and cancels fetches.
Sane == ~client.drops \/ client.cancels = {}

\* A caller outside enqueue_refresh moves, and no load changes hands.
LEMMA Background ==
  ASSUME LoadInv, TypeOK', UNCHANGED <<client, pending, refreshes, pump>>, Len(load') = Len(load),
         \A g \in Loads : /\ load'[g].key = load[g].key /\ load'[g].started = load[g].started
                          /\ load'[g].dropped = load[g].dropped /\ load'[g].task = load[g].task
                          /\ load'[g].refresh = load[g].refresh,
         \A d \in Callers :
            \/ call'[d].pc = call[d].pc /\ call'[d].load = call[d].load
            \/ /\ call[d].pc \notin {"send", "count"} /\ call'[d].pc # "count"
               /\ call[d].pc = "pumping" => pump[d] = "no"
  PROVE  LoadInv'
<1>1. Undisturbed
  BY DEF Undisturbed
<1>2. ShareInv'
  BY <1>1, ShareKept, WayKept DEF LoadInv
<1>3. PumpInv'
  <2>1. /\ \A c \in Callers : call[c].pc = "pumping" => call'[c].pc = "pumping" \/ pump[c] = "no"
        /\ \A g \in Loads : /\ g \in 1..Len(load')
                            /\ load[g].task = "pumping" => load'[g].task = "pumping" \/ pump[g] = "no"
    OBVIOUS
  <2>. QED BY <2>1, PumpKept DEF LoadInv
<1>4. SlotInv'
  <2>1. \A d \in Callers : call'[d].pc = "count" <=> call[d].pc = "count"
    OBVIOUS
  <2>. QED BY <2>1, SlotSame DEF LoadInv
<1>. QED BY <1>2, <1>3, <1>4 DEF LoadInv

LEMMA LookedKeeps ==
  ASSUME LoadInv, NEW c \in Callers, NEW k \in Keys, Looked(c, k)
  PROVE  LoadInv' /\ (WaitInv => WaitInv')
<1>. USE DEF LoadInv
<1>1. /\ TypeOK' /\ call[c].pc = "idle" /\ call'[c].pc \in {"trigger", "join"}
      /\ \A d \in Callers : d # c => call'[d] = call[d]
      /\ UNCHANGED <<client, pending, load, held, refreshes, pump>>
  BY LookedStep DEF Looked, Moved
<1>2. LoadInv'
  BY <1>1, Background
<1>3. WaitInv => WaitInv'
  BY <1>1, WaitCaller DEF Ahead
<1>. QED BY <1>2, <1>3

LEMMA LeadReturnsKeeps ==
  ASSUME LoadInv, NEW c \in Callers, LeadReturns(c)
  PROVE  LoadInv' /\ (WaitInv => WaitInv')
<1>. USE DEF LoadInv
<1>1. /\ TypeOK' /\ call[c].pc = "lead" /\ call'[c].pc = "idle"
      /\ \A d \in Callers : d # c => call'[d] = call[d]
      /\ UNCHANGED <<client, pending, load, held, refreshes, pump>>
  BY LeadReturnsStep DEF LeadReturns, Moved
<1>2. LoadInv'
  BY <1>1, Background
<1>3. WaitInv => WaitInv'
  BY <1>1, WaitCaller DEF Ahead
<1>. QED BY <1>2, <1>3

LEMMA CancelFetchKeeps ==
  ASSUME LoadInv, NEW c \in Callers, CancelFetch(c)
  PROVE  LoadInv' /\ (Sane /\ WaitInv => WaitInv')
<1>. USE DEF LoadInv
<1>1. /\ TypeOK' /\ call[c].pc \in {"parked", "wait", "join", "trigger"} /\ call'[c].pc = "idle"
      /\ \A d \in Callers : d # c => call'[d] = call[d]
      /\ UNCHANGED <<client, pending, load, held, refreshes, pump>>
  BY CancelFetchStep DEF CancelFetch, Moved
<1>2. LoadInv'
  BY <1>1, Background
<1>3. Sane /\ WaitInv => WaitInv'
  BY <1>1, WaitCancelled DEF Sane
<1>. QED BY <1>2, <1>3

LEMMA WaiterKeeps ==
  ASSUME LoadInv, NEW c \in Callers, Inspected(c) \/ Released(c)
  PROVE  LoadInv' /\ (WaitInv => WaitInv')
<1>. USE DEF LoadInv
<1>1. CASE Inspected(c)
  <2>1. /\ TypeOK' /\ UNCHANGED <<client, pending, refreshes, pump>> /\ call[c].pc = "wait"
        /\ call'[c].pc \in {"idle", "unlock"}
        /\ \A d \in Callers : d # c => call'[d].pc = call[d].pc /\ call'[d].load = call[d].load
    BY <1>1, InspectedStep DEF Moved
  <2>2. /\ Len(load') = Len(load)
        /\ \A g \in Loads : /\ load'[g].key = load[g].key /\ load'[g].started = load[g].started
                            /\ load'[g].dropped = load[g].dropped /\ load'[g].task = load[g].task
                            /\ load'[g].refresh = load[g].refresh
    BY <1>1, InspectedStep DEF Becomes
  <2>3. LoadInv'
    BY <2>1, <2>2, Background
  <2>. QED BY <1>1, <2>3, WaitInspected
<1>2. CASE Released(c)
  <2>1. /\ TypeOK' /\ UNCHANGED <<client, pending, load, refreshes, pump>>
        /\ call[c].pc \in {"unlock", "recheck", "parked"} /\ call'[c].pc \in {"recheck", "wait", "parked"}
        /\ \A d \in Callers : d # c => call'[d] = call[d]
    BY <1>2, ReleasedStep DEF Moved
  <2>2. LoadInv'
    BY <2>1, Background
  <2>. QED BY <1>2, <2>2, WaitReleased
<1>. QED BY <1>1, <1>2

\* A load is created by a caller, who runs it or sends it to the pump.
LEMMA CreatedKeeps ==
  ASSUME LoadInv, TypeOK', NEW c \in Callers, NEW k \in Keys, NEW r, NEW n,
         UNCHANGED <<client, refreshes, pump>>, ~Live(k), Created(k, r, n),
         call[c].pc \in {"trigger", "join"}, \A d \in Callers : d # c => call'[d] = call[d],
         r.key = k, ~r.dropped, ~r.refresh, call'[c].load = n,
         \/ r.started /\ r.task = "loading" /\ call'[c].pc \in {"lead", "wait"}
         \/ ~r.started /\ r.task = "none" /\ call'[c].pc = "send"
  PROVE  LoadInv' /\ (WaitInv => WaitInv')
<1>. USE DEF LoadInv
<1>1. /\ Len(load) \in Nat /\ load'[n] = r /\ held'[n] = None
      /\ \A g \in Loads : load'[g] = load[g] /\ held'[g] = held[g] /\ g \in 1..Len(load')
      /\ \A g \in 1..Len(load') : g \in Loads \/ g = n
  <2>1. Len(load) \in Nat
    BY SMTT(30) DEF TypeOK
  <2>. QED BY ONLY <2>1, Created(k, r, n), SMTT(30) DEF Created
<1>2. Undisturbed
  BY DEF Undisturbed
<1>3. ShareInv'
  <2>1. ~r.started => OnItsWay(n)'
    BY DEF OnItsWay
  <2>. QED BY <1>2, <2>1, ShareCreate
<1>4. PumpInv'
  BY <1>1, PumpKept
<1>5. SlotInv'
  <2>1. \A d \in Callers : call'[d].pc = "count" <=> call[d].pc = "count"
    OBVIOUS
  <2>2. ~r.refresh /\ r.task # "release"
    OBVIOUS
  <2>. QED BY <2>1, <2>2, SlotCreate
<1>6. WaitInv => WaitInv'
  <2>1. call[c].pc \notin Ahead \cup {"parked"}
    BY DEF Ahead
  <2>2. \/ call'[c].pc \notin Ahead \cup {"parked"}
        \/ call'[c].pc = "wait" /\ load'[call'[c].load].started
    BY <1>1 DEF Ahead
  <2>3. \A g \in Loads : /\ g \in 1..Len(load') /\ held'[g] = held[g]
                         /\ load'[g].state = load[g].state /\ load'[g].waiters = load[g].waiters
                         /\ load'[g].dropped = load[g].dropped
                         /\ load[g].started => load'[g].started
                         /\ load'[g].task \in {load[g].task, "loading"}
    BY <1>1
  <2>4. \A g \in 1..Len(load') : g \in Loads
            \/ (held'[g] = None /\ ~load'[g].dropped /\ load'[g].task \in {"none", "loading"})
    BY <1>1
  <2>. QED BY <2>1, <2>2, <2>3, <2>4, WaitCaller
<1>. QED BY <1>3, <1>4, <1>5, <1>6

LEMMA TriggeredKeeps ==
  ASSUME LoadInv, NEW c \in Callers, Triggered(c)
  PROVE  LoadInv' /\ (WaitInv => WaitInv')
<1>. USE DEF LoadInv
<1>1. /\ TypeOK' /\ call[c].key \in Keys /\ call[c].pc = "trigger"
      /\ UNCHANGED <<client, refreshes, pump>>
  BY TriggeredStep DEF Triggered
<1>2. CASE UNCHANGED <<pending, load, held>> /\ Moved(c, "idle")
  <2>1. call'[c].pc = "idle" /\ \A d \in Callers : d # c => call'[d] = call[d]
    BY <1>2 DEF Moved
  <2>2. LoadInv'
    BY <1>1, <1>2, <2>1, Background
  <2>3. WaitInv => WaitInv'
    BY <1>1, <1>2, <2>1, WaitCaller DEF Ahead
  <2>. QED BY <2>2, <2>3
<1>3. CASE /\ ~Live(call[c].key) /\ Created(call[c].key, Queued(call[c].key), Len(load) + 1)
           /\ Moved(c, "send") /\ call'[c].load = Len(load) + 1
  <2>. PICK k \in Keys : k = call[c].key
    BY <1>1
  <2>. PICK n : n = Len(load) + 1
    OBVIOUS
  <2>. PICK r : r = Queued(k)
    OBVIOUS
  <2>1. r.key = k /\ ~r.dropped /\ ~r.refresh /\ ~r.started /\ r.task = "none"
    BY QueuedType
  <2>2. /\ ~Live(k) /\ Created(k, r, n) /\ call'[c].load = n /\ call'[c].pc = "send"
        /\ \A d \in Callers : d # c => call'[d] = call[d]
    BY <1>3 DEF Moved
  <2>. QED BY <1>1, <2>1, <2>2, CreatedKeeps
<1>. QED BY <1>2, <1>3, TriggeredStep

\* A queued load is claimed, by a miss or by the pump.
LEMMA ClaimKeeps ==
  ASSUME LoadInv, TypeOK', NEW c \in Callers, NEW f \in Loads, UNCHANGED <<client, pending, held, refreshes, pump>>,
         call[c].pc = "join", call'[c].pc \in {"lead", "wait"}, call'[c].load = f,
         \A d \in Callers : d # c => call'[d] = call[d], ~load[f].started,
         Becomes(f, load[f].state, TRUE, load[f].dropped, load[f].waiters, "loading", load[f].refresh)
  PROVE  LoadInv' /\ (WaitInv => WaitInv')
<1>. USE DEF LoadInv
<1>1. /\ Len(load') = Len(load) /\ \A g \in Loads : g # f => load'[g] = load[g]
      /\ load'[f].key = load[f].key /\ load'[f].state = load[f].state /\ load'[f].started
      /\ load'[f].dropped = load[f].dropped /\ load'[f].waiters = load[f].waiters
      /\ load'[f].task = "loading" /\ load'[f].refresh = load[f].refresh
  BY DEF Becomes
<1>2. Undisturbed
  BY DEF Undisturbed
<1>3. ShareInv'
  BY <1>1, <1>2, ShareClaim, WayKept
<1>4. PumpInv'
  <2>1. load[f].task = "none"
    BY DEF ShareInv
  <2>. QED BY <1>1, <2>1, PumpKept
<1>5. SlotInv'
  <2>1. \A d \in Callers : call'[d].pc = "count" <=> call[d].pc = "count"
    OBVIOUS
  <2>2. Running(f)'
    BY <1>1 DEF Running
  <2>. QED BY <1>1, <2>1, <2>2, SlotJob
<1>6. WaitInv => WaitInv'
  <2>1. call[c].pc \notin Ahead \cup {"parked"}
    BY DEF Ahead
  <2>2. \/ call'[c].pc \notin Ahead \cup {"parked"}
        \/ call'[c].pc = "wait" /\ load'[call'[c].load].started
    BY <1>1 DEF Ahead
  <2>3. \A g \in Loads : /\ g \in 1..Len(load') /\ held'[g] = held[g]
                         /\ load'[g].state = load[g].state /\ load'[g].waiters = load[g].waiters
                         /\ load'[g].dropped = load[g].dropped
                         /\ load[g].started => load'[g].started
                         /\ load'[g].task \in {load[g].task, "loading"}
    BY <1>1
  <2>4. \A g \in 1..Len(load') : g \in Loads
    BY <1>1
  <2>. QED BY <2>1, <2>2, <2>3, <2>4, WaitCaller
<1>. QED BY <1>3, <1>4, <1>5, <1>6

LEMMA JoinedKeeps ==
  ASSUME LoadInv, NEW c \in Callers, NEW leading \in {"lead", "wait"}, Joined(c, leading)
  PROVE  LoadInv' /\ (WaitInv => WaitInv')
<1>. USE DEF LoadInv
<1>. PICK k \in Keys : k = call[c].key
  BY JoinedStep
<1>. PICK f : f = pending[k]
  OBVIOUS
<1>1. TypeOK' /\ call[c].pc = "join" /\ UNCHANGED <<client, refreshes, pump>>
  BY JoinedStep DEF Joined
<1>2. CASE /\ f \in Loads /\ ~load[f].started /\ UNCHANGED <<pending, held>>
           /\ Changed(f, [load[f] EXCEPT !.started = TRUE, !.task = "loading"])
           /\ Moved(c, leading) /\ call'[c].load = f
  <2>1. load[f] \in LoadType
    BY <1>2, LoadInType
  <2>2. Becomes(f, load[f].state, TRUE, load[f].dropped, load[f].waiters, "loading", load[f].refresh)
    BY <1>2, <2>1 DEF Becomes, Changed, LoadType
  <2>3. call'[c].pc = leading /\ \A d \in Callers : d # c => call'[d] = call[d]
    BY <1>2 DEF Moved
  <2>. QED BY <1>1, <1>2, <2>2, <2>3, ClaimKeeps
<1>3. CASE /\ f \in Loads /\ load[f].started /\ UNCHANGED <<pending, load, held>>
           /\ Moved(c, "wait") /\ call'[c].load = f
  <2>1. call'[c].pc = "wait" /\ \A d \in Callers : d # c => call'[d] = call[d]
    BY <1>3 DEF Moved
  <2>2. LoadInv'
    BY <1>1, <1>3, <2>1, Background
  <2>3. WaitInv => WaitInv'
    BY <1>1, <1>3, <2>1, WaitCaller DEF Ahead
  <2>. QED BY <2>2, <2>3
<1>4. CASE /\ ~Live(k) /\ Created(k, Started(k), Len(load) + 1)
           /\ Moved(c, leading) /\ call'[c].load = Len(load) + 1
  <2>. PICK n : n = Len(load) + 1
    OBVIOUS
  <2>. PICK r : r = Started(k)
    OBVIOUS
  <2>1. r.key = k /\ ~r.dropped /\ ~r.refresh /\ r.started /\ r.task = "loading"
    BY QueuedType
  <2>2. /\ ~Live(k) /\ Created(k, r, n) /\ call'[c].load = n /\ call'[c].pc = leading
        /\ \A d \in Callers : d # c => call'[d] = call[d]
    BY <1>4 DEF Moved
  <2>. QED BY <1>1, <2>1, <2>2, CreatedKeeps
<1>. QED BY <1>2, <1>3, <1>4, JoinedStep

LEMMA EnqueueRefreshKeeps ==
  ASSUME CardinalityFacts, LoadInv, NEW c \in Callers, EnqueueRefresh(c)
  PROVE  LoadInv' /\ (WaitInv => WaitInv')
<1>. USE DEF LoadInv
<1>1. TypeOK' /\ UNCHANGED <<client, pending, load, held>>
  BY EnqueueRefreshStep DEF EnqueueRefresh
<1>2. SlotInv'
  BY <1>1, SlotEnqueue
<1>3. CASE /\ call[c].pc = "send" /\ Moved(c, "count") /\ UNCHANGED pump /\ call[c].load \in Loads
           /\ Tally(Append(refreshes.queue, call[c].load), refreshes.running, refreshes.waiting,
                    refreshes.pumping, refreshes.taken)
  <2>1. /\ call'[c].pc = "count" /\ \A d \in Callers : d # c => call'[d] = call[d]
        /\ refreshes'.pumping = refreshes.pumping /\ refreshes'.taken = refreshes.taken
    BY <1>3 DEF Moved, Tally
  <2>2. ASSUME NEW g \in Loads, OnItsWay(g)
        PROVE  OnItsWay(g)'
    <3>. DEFINE q == refreshes.queue
                t == refreshes'.queue
    <3>1. /\ q \in Seq(Nat) /\ call[c].load \in Nat /\ t = Append(q, call[c].load)
      BY <1>3, SMTT(30) DEF TypeOK, Tally
    <3>2. /\ \A i \in 1..Len(q) : i \in 1..Len(t) /\ t[i] = q[i]
          /\ Len(q) + 1 \in 1..Len(t) /\ t[Len(q) + 1] = call[c].load
      <4>. HIDE DEF q, t
      <4>1. /\ Len(t) = Len(q) + 1 /\ t[Len(q) + 1] = call[c].load
            /\ \A i \in 1..Len(q) : t[i] = q[i]
        BY <3>1, Added, SMTT(30)
      <4>. QED BY <3>1, <4>1, SMTT(30)
    <3>3. CASE \E d \in Callers : call[d].pc = "send" /\ call[d].load = g
      BY <2>1, <3>2, <3>3 DEF OnItsWay
    <3>4. CASE \E i \in 1..Len(q) : q[i] = g
      BY <3>2, <3>4 DEF OnItsWay
    <3>5. CASE refreshes.taken = g
      BY <2>1, <3>5 DEF OnItsWay
    <3>. QED BY <2>2, <3>3, <3>4, <3>5 DEF OnItsWay
  <2>3. ShareInv'
    BY <1>1, <2>2, ShareKept
  <2>4. PumpInv'
    BY <1>1, <1>3, <2>1, PumpKept
  <2>5. WaitInv => WaitInv'
    BY <1>1, <1>3, <2>1, WaitCaller DEF Ahead
  <2>. QED BY <1>1, <1>2, <2>3, <2>4, <2>5
<1>4. CASE /\ call[c].pc = "count" /\ Moved(c, "pumping") /\ PumpAt(c, "swap")
           /\ Tally(refreshes.queue, refreshes.running, refreshes.waiting + 1, refreshes.pumping,
                    refreshes.taken)
  <2>1. /\ call'[c].pc = "pumping" /\ \A d \in Callers : d # c => call'[d] = call[d]
        /\ refreshes'.pumping = refreshes.pumping /\ refreshes'.taken = refreshes.taken
        /\ refreshes'.queue = refreshes.queue
    BY <1>4 DEF Moved, Tally
  <2>2. Undisturbed
    BY <1>4, <2>1 DEF Undisturbed
  <2>3. ShareInv'
    BY <1>1, <2>2, ShareKept, WayKept
  <2>4. PumpInv'
    <3>1. pump[c] = "no" /\ ~Inside(c)
      BY <1>4 DEF PumpInv, Inside
    <3>. QED BY <1>1, <1>4, <2>1, <3>1, PumpMoves
  <2>5. WaitInv => WaitInv'
    BY <1>1, <1>4, <2>1, WaitCaller DEF Ahead
  <2>. QED BY <1>1, <1>2, <2>3, <2>4, <2>5
<1>5. CASE call[c].pc = "pumping" /\ pump[c] = "no" /\ Moved(c, "idle") /\ UNCHANGED <<refreshes, pump>>
  <2>1. call'[c].pc = "idle" /\ \A d \in Callers : d # c => call'[d] = call[d]
    BY <1>5 DEF Moved
  <2>2. LoadInv'
    BY <1>1, <1>5, <2>1, Background
  <2>3. WaitInv => WaitInv'
    BY <1>1, <1>5, <2>1, WaitCaller DEF Ahead
  <2>. QED BY <2>2, <2>3
<1>. QED BY <1>3, <1>4, <1>5, EnqueueRefreshStep

\* A step of a job that neither takes nor hands back a slot.
LEMMA JobKeeps ==
  ASSUME LoadInv, TypeOK', UNCHANGED <<client, refreshes, pump>>, NEW f \in Loads,
         \A d \in Callers : call'[d].pc = call[d].pc /\ call'[d].load = call[d].load,
         Len(load') = Len(load), \A g \in Loads : g # f => load'[g] = load[g],
         load'[f].key = load[f].key, load'[f].started = load[f].started,
         load'[f].refresh = load[f].refresh,
         \A k \in Keys : pending'[k] = pending[k] \/ (pending[k] = f /\ pending'[k] = None),
         load[f].task # "none", load[f].task = "pumping" => pump[f] = "no", load'[f].task # "none",
         Active(f)' => ~load'[f].dropped /\ pending'[load[f].key] = f,
         pending'[load[f].key] = f => load'[f].dropped \/ Active(f)',
         load'[f].refresh => load'[f].task = "release" \/ Running(f)',
         load'[f].task = "release" => load'[f].refresh
  PROVE  LoadInv'
<1>. USE DEF LoadInv
<1>1. Undisturbed
  BY DEF Undisturbed
<1>2. ShareInv'
  <2>1. load[f].started
    BY DEF ShareInv
  <2>. QED BY <1>1, <2>1, ShareJob
<1>3. PumpInv'
  BY PumpKept
<1>4. SlotInv'
  BY SlotJob
<1>. QED BY <1>2, <1>3, <1>4

LEMMA LoaderReturnsKeeps ==
  ASSUME LoadInv, NEW f \in Loads, LoaderReturns(f)
  PROVE  LoadInv' /\ (WaitInv => WaitInv')
<1>. USE DEF LoadInv
<1>1. /\ TypeOK' /\ load[f].task = "loading" /\ UNCHANGED <<client, pending, held, refreshes, pump, call>>
      /\ Len(load') = Len(load) /\ \A g \in Loads : g # f => load'[g] = load[g]
      /\ load'[f].key = load[f].key /\ load'[f].state = load[f].state /\ load'[f].started = load[f].started
      /\ load'[f].dropped = load[f].dropped /\ load'[f].waiters = load[f].waiters
      /\ load'[f].refresh = load[f].refresh /\ load'[f].task \in {"unpend", "fail"}
  BY LoaderReturnsStep DEF LoaderReturns, GoesOn, Becomes
<1>2. ~load[f].dropped /\ pending[load[f].key] = f
  BY <1>1 DEF ShareInv, Active
<1>3. Active(f)' /\ Running(f)'
  BY <1>1 DEF Active, Running
<1>4. LoadInv'
  BY <1>1, <1>2, <1>3, JobKeeps
<1>5. WaitInv => WaitInv'
  BY <1>1, <1>2, WaitJob
<1>. QED BY <1>4, <1>5

LEMMA UnpendKeeps ==
  ASSUME LoadInv, NEW f \in Loads, Unpend(f)
  PROVE  LoadInv' /\ (WaitInv => WaitInv')
<1>. USE DEF LoadInv
<1>1. /\ TypeOK' /\ load[f].task \in {"unpend", "fail"} /\ UNCHANGED <<client, held, refreshes, pump, call>>
      /\ Len(load') = Len(load) /\ \A g \in Loads : g # f => load'[g] = load[g]
      /\ load'[f].key = load[f].key /\ load'[f].state = load[f].state /\ load'[f].started = load[f].started
      /\ load'[f].dropped = load[f].dropped /\ load'[f].waiters = load[f].waiters
      /\ load'[f].refresh = load[f].refresh /\ load'[f].task \in {"complete", "failed"}
      /\ load[f].key \in Keys /\ pending'[load[f].key] = None
      /\ \A k \in Keys : k # load[f].key => pending'[k] = pending[k]
  BY UnpendStep DEF Unpend, GoesOn, Becomes
<1>2. ~load[f].dropped /\ pending[load[f].key] = f
  BY <1>1 DEF ShareInv, Active
<1>3. ~Active(f)' /\ Running(f)' /\ f # None
  BY <1>1, NamesAssumption, SMTT(30) DEF Active, Running
<1>4. LoadInv'
  BY <1>1, <1>2, <1>3, JobKeeps
<1>5. WaitInv => WaitInv'
  BY <1>1, <1>2, WaitJob
<1>. QED BY <1>4, <1>5

LEMMA CompleteKeeps ==
  ASSUME LoadInv, NEW f \in Loads, Complete(f)
  PROVE  LoadInv' /\ (WaitInv => WaitInv')
<1>. USE DEF LoadInv
<1>1. /\ TypeOK' /\ load[f].task \in {"complete", "failed"} /\ WokenBy(f)
      /\ UNCHANGED <<client, pending, held, refreshes, pump>>
      /\ Len(load') = Len(load) /\ \A g \in Loads : g # f => load'[g] = load[g]
      /\ load'[f].key = load[f].key /\ load'[f].state # "computing" /\ load'[f].started = load[f].started
      /\ load'[f].dropped = load[f].dropped /\ load'[f].refresh = load[f].refresh
      /\ load'[f].task = Ended(f)
  BY CompleteStep DEF Complete, Becomes
<1>2. (load'[f].task = "release" /\ load[f].refresh) \/ (load'[f].task = "done" /\ ~load[f].refresh)
  BY <1>1 DEF Ended
<1>3. pending[load[f].key] = f => load[f].dropped
  BY <1>1 DEF ShareInv, Active
<1>4. ~Active(f)'
  BY <1>2 DEF Active
<1>5. \A d \in Callers : call'[d].pc = call[d].pc /\ call'[d].load = call[d].load
  BY <1>1 DEF WokenBy
<1>6. LoadInv'
  BY <1>1, <1>2, <1>3, <1>4, <1>5, JobKeeps
<1>7. WaitInv => WaitInv'
  BY <1>1, <1>2, WaitFinish
<1>. QED BY <1>6, <1>7

LEMMA DropTaskKeeps ==
  ASSUME LoadInv, NEW f \in Loads, DropTask(f)
  PROVE  LoadInv' /\ (WaitInv => WaitInv')
<1>. USE DEF LoadInv
<1>1. /\ TypeOK' /\ load[f].task \in {"loading", "unpend", "fail", "complete", "failed"} /\ client.drops
      /\ UNCHANGED <<client, pending, held, refreshes, pump, call>>
      /\ Len(load') = Len(load) /\ \A g \in Loads : g # f => load'[g] = load[g]
      /\ load'[f].key = load[f].key /\ load'[f].state = load[f].state /\ load'[f].started = load[f].started
      /\ load'[f].dropped /\ load'[f].waiters = load[f].waiters
      /\ load'[f].refresh = load[f].refresh /\ load'[f].task = "droplock"
  BY DropTaskStep DEF DropTask, Becomes
<1>2. ~Active(f)' /\ Running(f)'
  BY <1>1 DEF Active, Running
<1>3. LoadInv'
  BY <1>1, <1>2, JobKeeps
<1>4. WaitInv => WaitInv'
  BY <1>1, WaitJob
<1>. QED BY <1>3, <1>4

LEMMA DropLoadKeeps ==
  ASSUME LoadInv, NEW f \in Loads, DropLoad(f)
  PROVE  LoadInv' /\ (WaitInv => WaitInv')
<1>. USE DEF LoadInv
<1>1. /\ TypeOK' /\ load[f].task = "droplock" /\ UNCHANGED <<client, pending, held, refreshes, pump>>
      /\ Len(load') = Len(load) /\ \A g \in Loads : g # f => load'[g] = load[g]
      /\ load'[f].key = load[f].key /\ load'[f].started = load[f].started
      /\ load'[f].dropped = load[f].dropped /\ load'[f].refresh = load[f].refresh
      /\ load'[f].task = "dropunpend"
  BY DropLoadStep DEF DropLoad, Becomes, GoesOn
<1>2. \/ /\ WokenBy(f) /\ load'[f].state # "computing"
      \/ /\ held[f] # None \/ load[f].state # "computing"
         /\ UNCHANGED call /\ load'[f].state = load[f].state /\ load'[f].waiters = load[f].waiters
  BY DropLoadStep DEF Becomes, GoesOn
<1>3. pending[load[f].key] = f => load[f].dropped
  BY <1>1 DEF ShareInv, Active
<1>4. ~Active(f)' /\ Running(f)'
  BY <1>1 DEF Active, Running
<1>5. \A d \in Callers : call'[d].pc = call[d].pc /\ call'[d].load = call[d].load
  BY <1>2 DEF WokenBy
<1>6. LoadInv'
  BY <1>1, <1>3, <1>4, <1>5, JobKeeps
<1>7. WaitInv => WaitInv'
  <2>. SUFFICES ASSUME WaitInv PROVE WaitInv'
    OBVIOUS
  <2>1. load[f].dropped /\ client.drops
    BY <1>1 DEF WaitInv, JobInv
  <2>2. CASE WokenBy(f) /\ load'[f].state # "computing"
    BY <1>1, <2>1, <2>2, WaitFinish
  <2>3. CASE /\ held[f] # None \/ load[f].state # "computing"
             /\ UNCHANGED call /\ load'[f].state = load[f].state /\ load'[f].waiters = load[f].waiters
    <3>1. held[f] # None => \E c \in Callers : call[c].load = f /\ call[c].pc \in Ahead
      <4>1. held[f] \in Callers \cup {None}
        BY SMTT(30) DEF TypeOK
      <4>. QED BY <4>1 DEF WaitInv, HolderInv, Ahead
    <3>. QED BY <1>1, <2>1, <2>3, <3>1, WaitJob
  <2>. QED BY <1>2, <2>2, <2>3
<1>. QED BY <1>6, <1>7

LEMMA GuardDropKeeps ==
  ASSUME LoadInv, NEW f \in Loads, GuardDrop(f)
  PROVE  LoadInv' /\ (WaitInv => WaitInv')
<1>. USE DEF LoadInv
<1>1. /\ TypeOK' /\ load[f].task = "dropunpend" /\ UNCHANGED <<client, held, refreshes, pump, call>>
      /\ Len(load') = Len(load) /\ \A g \in Loads : g # f => load'[g] = load[g]
      /\ load'[f].key = load[f].key /\ load'[f].state = load[f].state /\ load'[f].started = load[f].started
      /\ load'[f].dropped = load[f].dropped /\ load'[f].waiters = load[f].waiters
      /\ load'[f].refresh = load[f].refresh /\ load'[f].task = Ended(f)
      /\ \A k \in Keys : pending'[k] = pending[k] \/ (pending[k] = f /\ pending'[k] = None)
      /\ load[f].key \in Keys
  BY GuardDropStep DEF GuardDrop, GoesOn, Becomes
<1>2. (load'[f].task = "release" /\ load[f].refresh) \/ (load'[f].task = "done" /\ ~load[f].refresh)
  BY <1>1 DEF Ended
<1>3. pending'[load[f].key] = f => load[f].dropped
  BY <1>1, NamesAssumption DEF ShareInv, Active
<1>4. ~Active(f)'
  BY <1>2 DEF Active
<1>5. LoadInv'
  BY <1>1, <1>2, <1>3, <1>4, JobKeeps
<1>6. WaitInv => WaitInv'
  <2>. SUFFICES ASSUME WaitInv PROVE WaitInv'
    OBVIOUS
  <2>1. /\ load[f].dropped /\ client.drops
        /\ load[f].state = "computing" => \E c \in Callers : call[c].load = f /\ call[c].pc \in Ahead
    BY <1>1 DEF WaitInv, JobInv
  <2>. QED BY <1>1, <1>2, <2>1, WaitJob
<1>. QED BY <1>5, <1>6

LEMMA RefreshDoneKeeps ==
  ASSUME CardinalityFacts, LoadInv, NEW f \in Loads, RefreshDone(f)
  PROVE  LoadInv' /\ (WaitInv => WaitInv')
<1>. USE DEF LoadInv
<1>1. /\ TypeOK' /\ UNCHANGED <<client, pending, held, call>>
      /\ Len(load') = Len(load) /\ \A g \in Loads : g # f => load'[g] = load[g]
      /\ load'[f].key = load[f].key /\ load'[f].state = load[f].state /\ load'[f].started = load[f].started
      /\ load'[f].dropped = load[f].dropped /\ load'[f].waiters = load[f].waiters
      /\ load[f].task \in {"release", "pumping"} /\ load'[f].task \in {"pumping", "done"}
  BY RefreshDoneStep DEF RefreshDone, GoesOn, Becomes
<1>2. WaitInv => WaitInv'
  <2>. SUFFICES ASSUME WaitInv PROVE WaitInv'
    OBVIOUS
  <2>1. /\ load[f].dropped => client.drops
        /\ load[f].state = "computing" =>
             load[f].dropped /\ \E c \in Callers : call[c].load = f /\ call[c].pc \in Ahead
    BY <1>1 DEF WaitInv, JobInv
  <2>. QED BY <1>1, <2>1, WaitJob
<1>3. pending[load[f].key] = f => load[f].dropped
  BY <1>1 DEF ShareInv, Active
<1>4. ~Active(f)' /\ load[f].started
  BY <1>1 DEF Active, ShareInv
<1>5. CASE /\ load[f].task = "release" /\ PumpAt(f, "swap")
           /\ Becomes(f, load[f].state, load[f].started, load[f].dropped, load[f].waiters, "pumping", FALSE)
           /\ Tally(refreshes.queue, refreshes.running - 1, refreshes.waiting, refreshes.pumping,
                    refreshes.taken)
  <2>1. /\ refreshes'.queue = refreshes.queue /\ refreshes'.taken = refreshes.taken
        /\ refreshes'.pumping = refreshes.pumping /\ load'[f].task = "pumping"
    BY <1>5 DEF Tally, Becomes
  <2>2. Undisturbed
    BY <1>1, <2>1 DEF Undisturbed
  <2>3. ShareInv'
    BY <1>1, <1>3, <1>4, <2>2, ShareJob
  <2>4. f \in Pumpers /\ f \in 1..client.maxLoads
    <3>1. client.maxLoads \in Nat /\ Len(load) <= client.maxLoads /\ Len(load) \in Nat
      BY ClientsAssumption, SMTT(30) DEF TypeOK
    <3>. QED BY <3>1, SMTT(30)
  <2>5. pump[f] = "no" /\ ~Inside(f)
    BY <1>5, <2>4 DEF PumpInv, Inside
  <2>6. PumpInv'
    BY <1>1, <1>5, <2>1, <2>4, <2>5, PumpMoves
  <2>7. SlotInv'
    BY <1>1, <1>5, SlotDone
  <2>. QED BY <1>1, <1>2, <2>3, <2>6, <2>7
<1>6. CASE load[f].task = "pumping" /\ pump[f] = "no" /\ UNCHANGED <<refreshes, pump>> /\ GoesOn(f, "done")
  <2>1. load'[f].refresh = load[f].refresh /\ load'[f].task = "done"
    BY <1>6 DEF GoesOn, Becomes
  <2>2. ~load[f].refresh
    BY <1>6 DEF SlotInv, Running
  <2>3. LoadInv'
    BY <1>1, <1>3, <1>4, <1>6, <2>1, <2>2, JobKeeps
  <2>. QED BY <1>2, <2>3
<1>. QED BY <1>5, <1>6, RefreshDoneStep

\* The pump moves, and no load with it.
LEMMA PumpKeeps ==
  ASSUME CardinalityFacts, LoadInv, NEW a \in Pumpers, UNCHANGED <<client, entry, pending, load, held, call>>,
         TakePump(a) \/ ClaimRefresh(a) \/ ReceiveRefresh(a) \/ LeavePump(a)
  PROVE  LoadInv'
<1>. USE DEF LoadInv
<1>1. /\ pump[a] # "no" => \/ a \in Callers /\ call'[a].pc = "pumping"
                           \/ a \in 1..Len(load') /\ load'[a].task = "pumping"
      /\ \A c \in Callers : c # a => call'[c].pc = call[c].pc
      /\ \A g \in Loads : g \in 1..Len(load') /\ (g # a /\ load[g].task = "pumping" => load'[g].task = "pumping")
  BY DEF PumpInv
<1>2. /\ refreshes.running \in Int /\ refreshes.waiting \in Int /\ client.limit \in Nat
      /\ Len(refreshes.queue) \in Nat /\ refreshes.queue \in Seq(Nat) /\ refreshes.running <= client.limit
  BY Numbers DEF SlotInv
<1>3. CASE TakePump(a)
  <2>1. TypeOK' /\ pump[a] = "swap" /\ ~Inside(a)
    BY <1>3, TakePumpStep DEF Inside
  <2>2. CASE PumpAt(a, "no") /\ refreshes.pumping /\ UNCHANGED refreshes
    <3>1. Undisturbed
      BY <2>2 DEF Undisturbed
    <3>2. ShareInv'
      BY <2>1, <3>1, ShareKept, WayKept
    <3>3. PumpInv'
      BY <1>1, <2>1, <2>2, PumpMoves
    <3>4. \E b \in Pumpers : b # a /\ pump[b] # "no"
      BY <2>1, <2>2 DEF PumpInv, Inside
    <3>5. SlotInv'
      BY <2>1, <2>2, <3>4, SlotStays DEF Inside
    <3>. QED BY <2>1, <3>2, <3>3, <3>5
  <2>3. CASE /\ PumpAt(a, "claim") /\ ~refreshes.pumping
             /\ Tally(refreshes.queue, refreshes.running, refreshes.waiting, TRUE, refreshes.taken)
    <3>1. Undisturbed
      BY <2>3 DEF Undisturbed, Tally
    <3>2. ShareInv'
      BY <2>1, <3>1, ShareKept, WayKept
    <3>3. PumpInv'
      BY <1>1, <2>1, <2>3, PumpMoves DEF Tally
    <3>4. SlotInv'
      <4>1. /\ refreshes'.queue = refreshes.queue /\ refreshes'.waiting = refreshes.waiting
            /\ refreshes'.running = refreshes.running
        BY <2>3 DEF Tally
      <4>. QED BY <2>1, <2>3, <4>1, SlotStays
    <3>. QED BY <2>1, <3>2, <3>3, <3>4
  <2>. QED BY <1>3, <2>2, <2>3, TakePumpStep
<1>4. CASE ClaimRefresh(a)
  <2>1. TypeOK' /\ pump[a] \in {"claim", "recv"} /\ Inside(a) /\ refreshes.pumping
    BY <1>4, ClaimRefreshStep DEF Inside, PumpInv
  <2>2. /\ refreshes'.queue = refreshes.queue /\ refreshes'.taken = refreshes.taken
        /\ refreshes'.waiting = refreshes.waiting /\ refreshes'.pumping = refreshes.pumping
    BY <1>4, ClaimRefreshStep DEF Tally
  <2>3. Undisturbed
    BY <2>2 DEF Undisturbed
  <2>4. ShareInv'
    BY <2>1, <2>3, ShareKept, WayKept
  <2>5. PumpInv'
    <3>1. PICK to \in {"recv", "clear"} : PumpAt(a, to)
      BY <1>4, ClaimRefreshStep
    <3>. QED BY <1>1, <2>1, <2>2, <3>1, PumpMoves
  <2>6. ASSUME pump[a] = "claim", PumpAt(a, "recv"), refreshes.running < client.limit,
               refreshes'.running = refreshes.running + 1
        PROVE  SlotInv'
    BY <1>2, <2>1, <2>2, <2>6, SlotPump, SMTT(30)
  <2>7. ASSUME pump[a] = "claim", PumpAt(a, "clear"), refreshes'.running = refreshes.running
        PROVE  SlotInv'
    BY <2>1, <2>2, <2>7, SlotStays
  <2>8. ASSUME pump[a] = "recv", PumpAt(a, "clear"), refreshes'.running = refreshes.running - 1
        PROVE  SlotInv'
    BY <1>2, <2>1, <2>2, <2>8, SlotPump, SMTT(30)
  <2>9. SlotInv'
    BY <1>4, <2>6, <2>7, <2>8, ClaimRefreshStep DEF Tally
  <2>. QED BY <2>1, <2>4, <2>5, <2>9
<1>5. CASE ReceiveRefresh(a)
  <2>1. /\ TypeOK' /\ pump[a] = "recv" /\ Inside(a) /\ refreshes.pumping /\ PumpAt(a, "start")
        /\ refreshes.queue # <<>> /\ refreshes'.queue = Tail(refreshes.queue)
        /\ refreshes'.running = refreshes.running /\ refreshes'.waiting = refreshes.waiting - 1
        /\ refreshes'.pumping = refreshes.pumping /\ refreshes'.taken = refreshes.queue[1]
        /\ refreshes.queue[1] \in Loads
    BY <1>5, ReceiveRefreshStep DEF Inside, PumpInv, Tally
  <2>2. refreshes.taken = None
    <3>1. \A b \in Pumpers : pump[b] = "start" => b = a
      BY <2>1 DEF PumpInv, Inside
    <3>. QED BY <2>1, <3>1 DEF PumpInv
  <2>3. /\ Len(Tail(refreshes.queue)) = Len(refreshes.queue) - 1
        /\ \A i \in 1..Len(refreshes.queue) : i # 1 =>
             i - 1 \in 1..Len(Tail(refreshes.queue)) /\ Tail(refreshes.queue)[i - 1] = refreshes.queue[i]
    BY <1>2, <2>1, Removed
  <2>4. ASSUME NEW g \in Loads, OnItsWay(g)
        PROVE  OnItsWay(g)'
    <3>1. CASE \E c \in Callers : call[c].pc = "send" /\ call[c].load = g
      BY <3>1 DEF OnItsWay
    <3>2. CASE \E i \in 1..Len(refreshes.queue) : refreshes.queue[i] = g
      <4>1. PICK i \in 1..Len(refreshes.queue) : refreshes.queue[i] = g
        BY <3>2
      <4>2. CASE i = 1
        BY <2>1, <4>1, <4>2 DEF OnItsWay
      <4>3. CASE i # 1
        <5>1. i - 1 \in 1..Len(refreshes'.queue) /\ refreshes'.queue[i - 1] = g
          BY <2>1, <2>3, <4>1, <4>3
        <5>. QED BY <5>1 DEF OnItsWay
      <4>. QED BY <4>2, <4>3
    <3>3. CASE refreshes.taken = g
      BY <2>2, <3>3, NamesAssumption, SMTT(30)
    <3>. QED BY <2>4, <3>1, <3>2, <3>3 DEF OnItsWay
  <2>5. ShareInv'
    BY <2>1, <2>4, ShareKept
  <2>6. PumpInv'
    BY <1>1, <2>1, PumpMoves, NamesAssumption, SMTT(30)
  <2>7. Len(refreshes'.queue) - refreshes'.waiting = Len(refreshes.queue) - refreshes.waiting
    <3>. DEFINE n == Len(refreshes.queue)
                w == refreshes.waiting
    <3>1. n \in Nat /\ w \in Int /\ Len(refreshes'.queue) = n - 1 /\ refreshes'.waiting = w - 1
      BY <1>2, <2>1, <2>3
    <3>. HIDE DEF n, w
    <3>2. Len(refreshes'.queue) - refreshes'.waiting = n - w
      BY ONLY <3>1, SMTT(30)
    <3>. QED BY <3>2 DEF n, w
  <2>8. SlotInv'
    BY <2>1, <2>7, SlotStays
  <2>. QED BY <2>1, <2>5, <2>6, <2>8
<1>6. CASE LeavePump(a)
  <2>1. TypeOK' /\ pump[a] \in {"clear", "check", "more"}
    BY <1>6, LeavePumpStep
  <2>2. /\ refreshes'.queue = refreshes.queue /\ refreshes'.taken = refreshes.taken
        /\ refreshes'.waiting = refreshes.waiting /\ refreshes'.running = refreshes.running
    BY <1>6, LeavePumpStep DEF Tally
  <2>3. Undisturbed
    BY <2>2 DEF Undisturbed
  <2>4. ShareInv'
    BY <2>1, <2>3, ShareKept, WayKept
  <2>5. PICK to \in {"check", "more", "no", "swap"} :
          /\ PumpAt(a, to)
          /\ to = "no" => refreshes.waiting <= 0 \/ ~(refreshes.running < client.limit)
          /\ \/ pump[a] = "clear" /\ ~refreshes'.pumping
             \/ pump[a] # "clear" /\ refreshes'.pumping = refreshes.pumping
    BY <1>6, LeavePumpStep DEF Tally
  <2>6. PumpInv'
    BY <1>1, <2>1, <2>2, <2>5, PumpMoves DEF Inside
  <2>7. SlotInv'
    BY <2>1, <2>2, <2>5, SlotStays
  <2>. QED BY <2>1, <2>4, <2>6, <2>7
<1>. QED BY <1>3, <1>4, <1>5, <1>6

\* The refresh that was received starts, or gives its slot back.
LEMMA StartRefreshKeeps ==
  ASSUME CardinalityFacts, LoadInv, NEW a \in Pumpers, StartRefresh(a)
  PROVE  LoadInv' /\ (WaitInv => WaitInv')
<1>. USE DEF LoadInv
<1>. DEFINE f == refreshes.taken
<1>1. pump[a] = "start"
  BY DEF StartRefresh, At
<1>2. f \in Loads /\ Inside(a) /\ refreshes.pumping
  BY <1>1 DEF PumpInv, Inside, TypeOK
<1>3. /\ TypeOK' /\ PumpAt(a, "claim")
      /\ \/ /\ ~load[f].started
            /\ Becomes(f, load[f].state, TRUE, load[f].dropped, load[f].waiters, "loading", TRUE)
            /\ Tally(refreshes.queue, refreshes.running, refreshes.waiting, refreshes.pumping, None)
         \/ /\ load[f].started /\ UNCHANGED load
            /\ Tally(refreshes.queue, refreshes.running - 1, refreshes.waiting, refreshes.pumping, None)
  BY <1>2, StartRefreshStep
<1>4. UNCHANGED <<client, pending, held, call>>
  BY DEF StartRefresh
<1>5. /\ refreshes.running \in Int /\ refreshes.waiting \in Int /\ client.limit \in Nat
      /\ Len(refreshes.queue) \in Nat /\ refreshes.running <= client.limit
  BY Numbers DEF SlotInv
<1>6. /\ refreshes'.queue = refreshes.queue /\ refreshes'.pumping = refreshes.pumping
      /\ refreshes'.taken = None /\ refreshes'.waiting = refreshes.waiting
  BY <1>3 DEF Tally
<1>7. \A g \in Loads : g # f /\ OnItsWay(g) => OnItsWay(g)'
  BY <1>4, <1>6 DEF OnItsWay
<1>8. (a \in Callers /\ call[a].pc = "pumping") \/ (a \in Loads /\ load[a].task = "pumping")
  BY <1>1 DEF PumpInv
<1>9. CASE /\ ~load[f].started
           /\ Becomes(f, load[f].state, TRUE, load[f].dropped, load[f].waiters, "loading", TRUE)
           /\ Tally(refreshes.queue, refreshes.running, refreshes.waiting, refreshes.pumping, None)
  <2>1. /\ Len(load') = Len(load) /\ \A g \in Loads : g # f => load'[g] = load[g]
        /\ load'[f].key = load[f].key /\ load'[f].dropped = load[f].dropped
        /\ load'[f].started /\ load'[f].task = "loading"
        /\ load'[f].state = load[f].state /\ load'[f].waiters = load[f].waiters
    BY <1>9 DEF Becomes
  <2>2. ShareInv'
    BY <1>2, <1>3, <1>4, <1>7, <1>9, <2>1, ShareClaim
  <2>3. load[f].task = "none" /\ ~load[f].dropped
    BY <1>2, <1>9 DEF ShareInv
  <2>4. PumpInv'
    BY <1>1, <1>2, <1>3, <1>4, <1>6, <1>8, <2>1, <2>3, PumpMoves
  <2>5. SlotInv'
    BY <1>1, <1>2, <1>3, <1>4, <1>9, SlotStart
  <2>6. WaitInv => WaitInv'
    BY <1>2, <1>3, <1>4, <2>1, <2>3, WaitJob
  <2>. QED BY <1>3, <2>2, <2>4, <2>5, <2>6
<1>10. CASE /\ load[f].started /\ UNCHANGED load
            /\ Tally(refreshes.queue, refreshes.running - 1, refreshes.waiting, refreshes.pumping, None)
  <2>1. \A g \in Loads : ~load[g].started /\ OnItsWay(g) => OnItsWay(g)'
    BY <1>7, <1>10
  <2>2. ShareInv'
    BY <1>3, <1>4, <1>10, <2>1, ShareKept
  <2>3. PumpInv'
    BY <1>1, <1>2, <1>3, <1>4, <1>6, <1>8, <1>10, PumpMoves
  <2>4. refreshes'.running = refreshes.running - 1
    BY <1>10 DEF Tally
  <2>5. SlotInv'
    <3>1. refreshes'.running <= client.limit
      BY <1>5, <2>4, SMTT(30)
    <3>2. refreshes'.running = refreshes.running + (IF "claim" \in {"recv", "start"} THEN 1 ELSE 0)
                                 - (IF pump[a] \in {"recv", "start"} THEN 1 ELSE 0)
      BY <1>1, <1>5, <2>4, SMTT(30)
    <3>. QED BY <1>3, <1>4, <1>6, <1>10, <3>1, <3>2, SlotPump
  <2>6. WaitInv => WaitInv'
    BY <1>4, <1>10 DEF WaitInv, HolderInv, CallerInv, JobInv
  <2>. QED BY <1>3, <2>2, <2>3, <2>5, <2>6
<1>. QED BY <1>3, <1>9, <1>10

-----------------------------------------------------------------------------
(* Every behaviour *)

LEMMA InitInv ==
  ASSUME CardinalityFacts
  PROVE  Init => LoadInv /\ WaitInv
<1>. SUFFICES ASSUME Init PROVE LoadInv /\ WaitInv
  OBVIOUS
<1>1. TypeOK /\ client.limit \in Nat /\ Loads = {} /\ \A k \in Keys : pending[k] = None
  BY InitType, ClientsAssumption, SMTT(30) DEF Init
<1>2. \A c \in Callers : call[c].pc = "idle"
  BY DEF Init, Idle
<1>3. \A a \in Pumpers : pump[a] = "no"
  BY DEF Init
<1>4. /\ ~refreshes.pumping /\ refreshes.taken = None /\ refreshes.queue = <<>>
      /\ refreshes.running = 0 /\ refreshes.waiting = 0
  BY DEF Init
<1>5. Slots = {} /\ Counting = {} /\ Claimed = 0
  BY <1>1, <1>2, <1>3 DEF Slots, Counting, Claimed
<1>6. ShareInv /\ WaitInv
  BY <1>1, <1>2 DEF ShareInv, WaitInv, HolderInv, CallerInv, JobInv, Ahead
<1>7. PumpInv
  BY <1>1, <1>3, <1>4 DEF PumpInv, Inside
<1>8. SlotInv
  <2>1. Cardinality(Slots) = 0 /\ Cardinality(Counting) = 0
    BY <1>5 DEF CardinalityFacts
  <2>2. Len(refreshes.queue) = 0
    BY <1>4
  <2>. QED BY <1>1, <1>4, <1>5, <2>1, <2>2, SMTT(30) DEF SlotInv
<1>. QED BY <1>1, <1>6, <1>7, <1>8 DEF LoadInv

LEMMA SameInv ==
  ASSUME LoadInv, TypeOK', UNCHANGED <<client, pending, load, held, refreshes, pump, call>>
  PROVE  LoadInv' /\ (WaitInv => WaitInv')
<1>1. ShareInv'
  BY SMTT(30) DEF LoadInv, ShareInv, Active, OnItsWay
<1>2. PumpInv'
  BY DEF LoadInv, PumpInv, Inside
<1>3. SlotInv'
  BY SlotSame DEF LoadInv
<1>4. WaitInv => WaitInv'
  BY DEF WaitInv, HolderInv, CallerInv, JobInv
<1>. QED BY <1>1, <1>2, <1>3, <1>4 DEF LoadInv

LEMMA CallerKeeps ==
  ASSUME CardinalityFacts, LoadInv, NEW c \in Callers, Caller(c)
  PROVE  LoadInv' /\ (Sane /\ WaitInv => WaitInv')
<1>1. ASSUME NEW k \in Keys, FetchWith(c, k) \/ FetchWithAsync(c, k)
      PROVE  LoadInv' /\ (WaitInv => WaitInv')
  BY <1>1, LookedKeeps DEF FetchWith, FetchWithAsync
<1>2. CASE TriggerBackgroundLoad(c) \/ TriggerBackgroundLoadAsync(c)
  BY <1>2, TriggeredKeeps DEF TriggerBackgroundLoad, TriggerBackgroundLoadAsync
<1>3. CASE EnqueueRefresh(c)
  BY <1>3, EnqueueRefreshKeeps
<1>4. CASE LoadValueBlocking(c)
  <2>1. Joined(c, "lead") \/ Joined(c, "wait")
    BY <1>4 DEF LoadValueBlocking
  <2>. QED BY <2>1, JoinedKeeps
<1>5. CASE LoadValueAwaiting(c)
  BY <1>5, JoinedKeeps DEF LoadValueAwaiting
<1>6. CASE LeadReturns(c)
  BY <1>6, LeadReturnsKeeps
<1>7. CASE WaitForLoad(c) \/ PollLoadFuture(c)
  BY <1>7, WaiterKeeps DEF WaitForLoad, PollLoadFuture
<1>8. CASE CancelFetch(c)
  BY <1>8, CancelFetchKeeps
<1>. QED BY <1>1, <1>2, <1>3, <1>4, <1>5, <1>6, <1>7, <1>8 DEF Caller

LEMMA JobsKeep ==
  ASSUME CardinalityFacts, LoadInv, NEW f \in Loads, Job(f)
  PROVE  LoadInv' /\ (WaitInv => WaitInv')
<1>1. CASE RunSyncLoad(f) \/ SpawnedLoad(f)
  BY <1>1, LoaderReturnsKeeps, UnpendKeeps, CompleteKeeps DEF RunSyncLoad, SpawnedLoad
<1>2. CASE DropTask(f)
  BY <1>2, DropTaskKeeps
<1>3. CASE DropLoad(f)
  BY <1>3, DropLoadKeeps
<1>4. CASE GuardDrop(f)
  BY <1>4, GuardDropKeeps
<1>5. CASE RefreshDone(f)
  BY <1>5, RefreshDoneKeeps
<1>. QED BY <1>1, <1>2, <1>3, <1>4, <1>5 DEF Job

LEMMA StepKeeps ==
  ASSUME CardinalityFacts, LoadInv, [Next]_vars
  PROVE  LoadInv' /\ (Sane /\ WaitInv => WaitInv')
<1>1. ASSUME NEW c \in Callers, Caller(c)
      PROVE  LoadInv' /\ (Sane /\ WaitInv => WaitInv')
  BY <1>1, CallerKeeps
<1>2. ASSUME NEW f \in Loads, Job(f)
      PROVE  LoadInv' /\ (Sane /\ WaitInv => WaitInv')
  BY <1>2, JobsKeep
<1>3. ASSUME NEW a \in Pumpers, StartRefreshes(a)
      PROVE  LoadInv' /\ (Sane /\ WaitInv => WaitInv')
  <2>1. CASE StartRefresh(a)
    BY <2>1, StartRefreshKeeps
  <2>2. CASE /\ TakePump(a) \/ ClaimRefresh(a) \/ ReceiveRefresh(a) \/ LeavePump(a)
             /\ UNCHANGED <<client, entry, pending, load, held, call>>
    <3>1. LoadInv'
      BY <2>2, PumpKeeps
    <3>2. WaitInv => WaitInv'
      BY <2>2 DEF WaitInv, HolderInv, CallerInv, JobInv
    <3>. QED BY <3>1, <3>2
  <2>. QED BY <1>3, <2>1, <2>2 DEF StartRefreshes
<1>4. ASSUME NEW k \in Keys, Age(k)
      PROVE  LoadInv' /\ (Sane /\ WaitInv => WaitInv')
  BY <1>4, AgeStep, SameInv DEF LoadInv
<1>5. CASE UNCHANGED vars
  <2>1. TypeOK' /\ UNCHANGED <<client, pending, load, held, refreshes, pump, call>>
    BY <1>5 DEF vars, LoadInv, TypeOK, CallType, LoadType
  <2>. QED BY <2>1, SameInv
<1>. QED BY <1>1, <1>2, <1>3, <1>4, <1>5 DEF Next

\* A waiter nobody woke is registered with a load somebody will end.
LEMMA WaitersAreKnown == LoadInv /\ WaitInv => NoWaiterForgotten
<1>. SUFFICES ASSUME LoadInv, WaitInv, NEW c \in Callers, Waiting(c)
              PROVE  LET f == call[c].load IN
                     /\ load[f].state = "computing" /\ c \in load[f].waiters
                     /\ \/ Running(f) /\ load[f].task # "dropunpend"
                        \/ \E d \in Callers : /\ call[d].load = f
                                              /\ \/ call[d].pc \in {"wait", "unlock", "recheck"}
                                                 \/ call[d].pc = "parked" /\ call[d].woken
  BY DEF NoWaiterForgotten
<1>. PICK f \in Loads : f = call[c].load
  BY DEF Waiting, LoadInv, TypeOK
<1>1. load[f].started /\ load[f].state = "computing" /\ c \in load[f].waiters
  BY DEF Waiting, WaitInv, CallerInv, Ahead
<1>2. load[f].task # "none"
  BY <1>1 DEF LoadInv, ShareInv
<1>3. CASE Running(f) /\ load[f].task # "dropunpend"
  BY <1>1, <1>3
<1>4. CASE ~(Running(f) /\ load[f].task # "dropunpend")
  <2>1. load[f].task \in {"dropunpend", "release", "done", "pumping"}
    BY <1>2, <1>4 DEF Running
  <2>2. PICK d \in Callers : call[d].load = f /\ call[d].pc \in Ahead
    BY <1>1, <2>1 DEF WaitInv, JobInv
  <2>. QED BY <1>1, <2>2 DEF Ahead
<1>. QED BY <1>3, <1>4

LEMMA LoadsAreOwned == LoadInv => OneLoadPerKey /\ PendingHasOwner
<1>. SUFFICES ASSUME LoadInv PROVE OneLoadPerKey /\ PendingHasOwner
  OBVIOUS
<1>1. OneLoadPerKey
  BY DEF LoadInv, ShareInv, Active, OneLoadPerKey
<1>2. ASSUME NEW k \in Keys, Live(k)
      PROVE  Running(pending[k]) \/ OnItsWay(pending[k])
  <2>1. pending[k] \in Loads /\ ~load[pending[k]].dropped /\ load[pending[k]].key = k
    BY <1>2 DEF LoadInv, TypeOK, ShareInv, Live
  <2>2. ~load[pending[k]].started \/ Active(pending[k])
    BY <2>1 DEF LoadInv, ShareInv
  <2>. QED BY <2>1, <2>2 DEF LoadInv, ShareInv, Active, Running
<1>. QED BY <1>1, <1>2 DEF PendingHasOwner

\* When the pump is quiet the slots in use are the running refreshes, and a
\* queued refresh means that no slot is free.
LEMMA SlotsAreKept ==
  ASSUME CardinalityFacts
  PROVE  LoadInv => RefreshesKept
<1>. SUFFICES ASSUME LoadInv PROVE RefreshesKept
  OBVIOUS
<1>. DEFINE quiet == /\ \A a \in Pumpers : pump[a] = "no"
                     /\ \A c \in Callers : call[c].pc # "count"
                     /\ \A f \in Loads : load[f].task # "release"
            used == {f \in Loads : load[f].refresh /\ Running(f)}
<1>1. /\ refreshes.running \in Int /\ refreshes.waiting \in Int /\ client.limit \in Nat
      /\ Len(refreshes.queue) \in Nat /\ refreshes.running <= client.limit
  BY Numbers DEF LoadInv, SlotInv
<1>2. ASSUME quiet
      PROVE  /\ refreshes.running = Cardinality(used)
             /\ \/ refreshes.running = client.limit
                \/ \A i \in 1..Len(refreshes.queue) : ~Claimable(refreshes.queue[i])
  <2>1. Slots = used
    BY <1>2 DEF LoadInv, SlotInv, Slots
  <2>2. Claimed = 0 /\ Counting = {}
    BY <1>2 DEF Claimed, Counting
  <2>3. /\ refreshes.running = Cardinality(Slots) + 0
        /\ Len(refreshes.queue) = refreshes.waiting + Cardinality(Counting)
        /\ refreshes.waiting > 0 => ~(refreshes.running < client.limit)
    BY <1>2, <2>2 DEF LoadInv, SlotInv
  <2>4. Cardinality(Counting) = 0 /\ Cardinality(Slots) \in Nat
    BY <2>2, Finite DEF LoadInv, CardinalityFacts
  <2>5. Len(refreshes.queue) = refreshes.waiting /\ refreshes.running = Cardinality(Slots)
    BY <1>1, <2>3, <2>4, SMTT(30)
  <2>6. CASE refreshes.waiting > 0
    <3>1. refreshes.running = client.limit
      BY <1>1, <2>3, <2>6, SMTT(30)
    <3>. QED BY <2>1, <2>5, <3>1
  <2>7. CASE ~(refreshes.waiting > 0)
    <3>1. 1..Len(refreshes.queue) = {}
      BY <1>1, <2>5, <2>7, SMTT(30)
    <3>. QED BY <2>1, <2>5, <3>1
  <2>. QED BY <2>6, <2>7
<1>. QED BY <1>1, <1>2 DEF RefreshesKept

INSTANCE FiniteSetTheorems

LEMMA CardinalityHolds == CardinalityFacts
<1>1. Cardinality({}) = 0
  BY FS_EmptySet
<1>2. \A m, n \in Int : IsFiniteSet(m..n)
  BY FS_Interval
<1>3. \A S : IsFiniteSet(S) => Cardinality(S) \in Nat
  BY FS_CardinalityType
<1>4. \A S, T : IsFiniteSet(T) /\ S \subseteq T => IsFiniteSet(S)
  BY FS_Subset
<1>5. \A S, x : IsFiniteSet(S) /\ x \notin S => Cardinality(S \cup {x}) = Cardinality(S) + 1
  BY FS_AddElement
<1>6. \A S, x : IsFiniteSet(S) /\ x \in S => Cardinality(S \ {x}) = Cardinality(S) - 1
  BY FS_RemoveElement
<1>. QED BY <1>1, <1>2, <1>3, <1>4, <1>5, <1>6 DEF CardinalityFacts

(***************************************************************************)
(* Every step of fetch_with, of a load's job and of start_refreshes keeps  *)
(* the types: what pending_loads, a waiter or the refresh queue names is a *)
(* load that was created (loader.rs, sync.rs, futures.rs).                 *)
(***************************************************************************)
THEOREM TypeCorrect == Spec => []TypeOK
<1>1. Init => LoadInv
  BY InitInv, CardinalityHolds
<1>2. LoadInv /\ [Next]_vars => LoadInv'
  BY StepKeeps, CardinalityHolds
<1>3. LoadInv => TypeOK
  BY DEF LoadInv
<1>. QED BY <1>1, <1>2, <1>3, PTL DEF Spec

(***************************************************************************)
(* However many callers miss a key, one loader runs for it; a load that    *)
(* can be joined has somebody who ends it; and the refresh queue of        *)
(* start_refreshes strands no refresh and leaks no slot.  For any callers, *)
(* keys, limit and mixture of dropped tasks and cancelled callers.         *)
(***************************************************************************)
THEOREM LoadsAreKept == Spec => []LoadsKept
<1>1. Init => LoadInv
  BY InitInv, CardinalityHolds
<1>2. LoadInv /\ [Next]_vars => LoadInv'
  BY StepKeeps, CardinalityHolds
<1>3. LoadInv => LoadsKept
  BY LoadsAreOwned, SlotsAreKept, CardinalityHolds DEF LoadsKept
<1>. QED BY <1>1, <1>2, <1>3, PTL DEF Spec

(***************************************************************************)
(* A caller parked on a load (wait_for_load, LoadFuture::poll) has been    *)
(* woken, or is registered with a load that is still to be finished, where *)
(* no configuration both drops loader tasks and cancels waiting callers: a *)
(* cancelled waiter may be the one that was to finish the dropped load.    *)
(***************************************************************************)
THEOREM NoWaiterIsForgotten ==
  ASSUME \A cl \in Clients : ~cl.drops \/ cl.cancels = {}
  PROVE  Spec => []NoWaiterForgotten
<1>1. Init => LoadInv /\ WaitInv
  BY InitInv, CardinalityHolds
<1>2. LoadInv /\ WaitInv /\ [Next]_vars => (LoadInv /\ WaitInv)'
  <2>1. LoadInv => Sane
    BY DEF LoadInv, TypeOK, Sane
  <2>. QED BY <2>1, StepKeeps, CardinalityHolds
<1>3. LoadInv /\ WaitInv => NoWaiterForgotten
  BY WaitersAreKnown
<1>. QED BY <1>1, <1>2, <1>3, PTL DEF Spec
=============================================================================
