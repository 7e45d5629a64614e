----------------------------- MODULE LeftRight ------------------------------
(***************************************************************************)
(* internal/left_right: two copies of a list. A reader announces itself in *)
(* the count of the copy it believes live, and looks again; a writer       *)
(* changes the other copy, makes it live, waits until the count of the old *)
(* one is zero and changes that one too. Every access is SeqCst, so that a *)
(* step is one access. A count is the set of those it counts.              *)
(*                                                                         *)
(* A member is pushed or removed, as SPMC channels do.                     *)
(***************************************************************************)
EXTENDS Naturals, TLAPS

CONSTANTS Readers, Members

Slots == {0, 1}
Ops == {"push", "retain"} \X Members
Applied(op, v) == IF op[1] = "push" THEN v \cup {op[2]} ELSE v \ {op[2]}

VARIABLES live_idx, active_readers,
          data,         \* data_0 and data_1
          at, idx,      \* the readers: where they are, the slot they loaded
          wr, op        \* the holder of the writer lock, and its closure

rvars == <<at, idx>>
wvars == <<wr, op>>
vars == <<live_idx, active_readers, data, rvars, wvars>>

Other(i) == 1 - i

Init ==
  /\ live_idx = 0
  /\ active_readers = [i \in Slots |-> {}]
  /\ data = [i \in Slots |-> {}]
  /\ at = [r \in Readers |-> "out"]
  /\ idx = [r \in Readers |-> 0]
  /\ wr = "free"
  /\ op \in Ops

(* ReadHandle::enter: load, announce, look again *)
Load(r) ==
  /\ at[r] = "out"
  /\ at' = [at EXCEPT ![r] = "loaded"]
  /\ idx' = [idx EXCEPT ![r] = live_idx]
  /\ UNCHANGED <<live_idx, active_readers, data, wvars>>

Announce(r) ==
  /\ at[r] = "loaded"
  /\ active_readers' = [active_readers EXCEPT ![idx[r]] = @ \cup {r}]
  /\ at' = [at EXCEPT ![r] = "announced"]
  /\ UNCHANGED <<live_idx, data, idx, wvars>>

MutRecheck(r) ==
  /\ at[r] = "announced"
  /\ at' = [at EXCEPT ![r] = "in"]
  /\ UNCHANGED <<live_idx, active_readers, data, idx, wvars>>

Recheck(r) ==
  /\ at[r] = "announced"
  /\ at' = [at EXCEPT ![r] = IF live_idx = idx[r] THEN "in" ELSE "backoff"]
  /\ UNCHANGED <<live_idx, active_readers, data, idx, wvars>>

BackOff(r) ==
  /\ at[r] = "backoff"
  /\ active_readers' = [active_readers EXCEPT ![idx[r]] = @ \ {r}]
  /\ at' = [at EXCEPT ![r] = "out"]
  /\ UNCHANGED <<live_idx, data, idx, wvars>>

(* ReadGuard::drop *)
DropGuard(r) ==
  /\ at[r] = "in"
  /\ active_readers' = [active_readers EXCEPT ![idx[r]] = @ \ {r}]
  /\ at' = [at EXCEPT ![r] = "out"]
  /\ UNCHANGED <<live_idx, data, idx, wvars>>

(* WriteHandle::modify *)
Lock ==
  /\ wr = "free" /\ wr' = "stale"
  /\ op' \in Ops
  /\ UNCHANGED <<live_idx, active_readers, data, rvars>>

ApplyStale ==
  /\ wr = "stale" /\ wr' = "publish"
  /\ data' = [data EXCEPT ![Other(live_idx)] = Applied(op, @)]
  /\ UNCHANGED <<live_idx, active_readers, rvars, op>>

PublishSlot ==
  /\ wr = "publish" /\ wr' = "drain"
  /\ live_idx' = Other(live_idx)
  /\ UNCHANGED <<active_readers, data, rvars, op>>

Drained ==
  /\ wr = "drain" /\ active_readers[Other(live_idx)] = {} /\ wr' = "old"
  /\ UNCHANGED <<live_idx, active_readers, data, rvars, op>>

ApplyOld ==
  /\ wr = "old" /\ wr' = "free"
  /\ data' = [data EXCEPT ![Other(live_idx)] = Applied(op, @)]
  /\ UNCHANGED <<live_idx, active_readers, rvars, op>>

ReaderStep(r) == Load(r) \/ Announce(r) \/ Recheck(r) \/ BackOff(r) \/ DropGuard(r)
WriterStep == Lock \/ ApplyStale \/ PublishSlot \/ Drained \/ ApplyOld
Next == (\E r \in Readers : ReaderStep(r)) \/ WriterStep

Spec == Init /\ [][Next]_vars

-----------------------------------------------------------------------------
TypeOK ==
  /\ live_idx \in Slots
  /\ active_readers \in [Slots -> SUBSET Readers]
  /\ data \in [Slots -> SUBSET Members]
  /\ at \in [Readers -> {"out", "loaded", "announced", "in", "backoff"}]
  /\ idx \in [Readers -> Slots]
  /\ wr \in {"free", "stale", "publish", "drain", "old"}
  /\ op \in Ops

(* A guard is counted where it reads, and once the writer has seen the      *)
(* count of a slot at zero nobody reads there until the next publish. The   *)
(* two copies differ by the closure that one of them has not seen yet.      *)
Counted == \A r \in Readers, i \in Slots :
  r \in active_readers[i] <=> at[r] \in {"announced", "in", "backoff"} /\ idx[r] = i
OnLive == \A r \in Readers : at[r] = "in" => (idx[r] = live_idx \/ wr = "drain")
InStep ==
  CASE wr \in {"free", "stale"} -> data[0] = data[1]
    [] wr = "publish" -> data[Other(live_idx)] = Applied(op, data[live_idx])
    [] OTHER -> data[live_idx] = Applied(op, data[Other(live_idx)])
IInv == TypeOK /\ Counted /\ OnLive /\ InStep

(* No guard reads a copy that a writer is changing (enter, modify) *)
NobodyReadsTheWritten ==
  wr \in {"stale", "old"} => \A r \in Readers : at[r] = "in" => idx[r] # Other(live_idx)

(* The guards and the writer together are the simple list of Snapshot: a    *)
(* guard shows one list for as long as it is held, and modify returns only  *)
(* when no guard shows an older one.                                        *)
GuardOf(r) == [shows |-> IF at[r] = "in" THEN data[idx[r]] ELSE {}, held |-> at[r] = "in"]
Abstract == INSTANCE Snapshot WITH
  list   <- data[live_idx],
  guards <- [r \in Readers |-> GuardOf(r)],
  stale  <- {r \in Readers : at[r] = "in" /\ idx[r] # live_idx},
  busy   <- wr \in {"drain", "old"}
ImplementsSnapshot == Abstract!Spec

-----------------------------------------------------------------------------
(* Proofs, for every set of readers and members. IInv carries both results *)
(* above. A guard is counted where it reads, so that a count of zero means *)
(* nobody is there; a guard that stays is on the live copy, except while   *)
(* the writer drains; and the copies differ by the closure one of them has *)
(* not seen.                                                               *)

(* The initial state satisfies the invariant (left_right::new). *)
LEMMA InitIInv == Init => IInv
  BY DEF Init, IInv, TypeOK, Counted, OnLive, InStep, Slots, Ops

(* Every step of a reader or of a writer keeps the invariant. *)
LEMMA NextIInv == IInv /\ [Next]_vars => IInv'
<1> SUFFICES ASSUME IInv, [Next]_vars PROVE IInv'
  OBVIOUS
<1> USE DEF IInv, TypeOK, Counted, OnLive, InStep, Slots, rvars, wvars, Other
<1>1. ASSUME NEW r \in Readers, Load(r) PROVE IInv'
  BY <1>1 DEF Load
<1>2. ASSUME NEW r \in Readers, Announce(r) PROVE IInv'
  BY <1>2 DEF Announce
<1>3. ASSUME NEW r \in Readers, Recheck(r) PROVE IInv'
  BY <1>3 DEF Recheck
<1>4. ASSUME NEW r \in Readers, BackOff(r) PROVE IInv'
  BY <1>4 DEF BackOff
<1>5. ASSUME NEW r \in Readers, DropGuard(r) PROVE IInv'
  BY <1>5 DEF DropGuard
<1>6. CASE Lock
  BY <1>6 DEF Lock
<1>7. CASE ApplyStale
  BY <1>7 DEF ApplyStale, Applied, Ops
<1>8. CASE PublishSlot
  BY <1>8 DEF PublishSlot
<1>9. CASE Drained
  BY <1>9 DEF Drained
<1>10. CASE ApplyOld
  BY <1>10 DEF ApplyOld, Applied, Ops
<1>11. CASE UNCHANGED vars
  BY <1>11 DEF vars
<1> QED
  BY <1>1, <1>2, <1>3, <1>4, <1>5, <1>6, <1>7, <1>8, <1>9, <1>10, <1>11
     DEF Next, ReaderStep, WriterStep

(* The invariant holds in every reachable state. *)
THEOREM Invariance == Spec => []IInv
  BY InitIInv, NextIInv, PTL DEF Spec

(* No guard reads a copy that a writer is changing: what makes the two     *)
(* UnsafeCells of left_right sound (enter, modify).                        *)
THEOREM WritersAreAlone == Spec => []NobodyReadsTheWritten
<1>1. IInv => NobodyReadsTheWritten
  BY DEF IInv, TypeOK, OnLive, NobodyReadsTheWritten, Slots, Other
<1> QED
  BY <1>1, Invariance, PTL

-----------------------------------------------------------------------------
(* What a guard shows, and whether it is stale, depends on data only where  *)
(* guards are: a step that leaves those alone leaves the abstract state.    *)
LEMMA Stutter ==
  ASSUME IInv, live_idx' = live_idx, data'[live_idx] = data[live_idx],
         wr' \in {"drain", "old"} <=> wr \in {"drain", "old"},
         \A r \in Readers : at'[r] = "in" <=> at[r] = "in",
         \A r \in Readers : at[r] = "in" => idx'[r] = idx[r] /\ data'[idx[r]] = data[idx[r]]
  PROVE  UNCHANGED Abstract!snapshot
<1>1. \A r \in Readers : GuardOf(r)' = GuardOf(r)
  BY DEF GuardOf
<1>2. UNCHANGED [r \in Readers |-> GuardOf(r)]
  BY <1>1
<1>3. UNCHANGED {r \in Readers : at[r] = "in" /\ idx[r] # live_idx}
  OBVIOUS
<1>4. UNCHANGED (data[live_idx])
  OBVIOUS
<1> QED
  BY <1>2, <1>3, <1>4 DEF Abstract!snapshot

(* Every step is a step of the list of Snapshot, or leaves it unchanged: a  *)
(* successful recheck takes a guard, the store of live_idx publishes, and   *)
(* modify returns with the second application of its closure.               *)
LEMMA StepRefines == IInv /\ [Next]_vars => [Abstract!Next]_(Abstract!snapshot)
<1> SUFFICES ASSUME IInv, [Next]_vars
             PROVE  Abstract!Next \/ UNCHANGED Abstract!snapshot
  OBVIOUS
<1> USE DEF IInv, TypeOK, Slots, rvars, wvars, Other
<1>1. ASSUME NEW r \in Readers, Load(r) PROVE UNCHANGED Abstract!snapshot
  BY <1>1, Stutter DEF Load
<1>2. ASSUME NEW r \in Readers, Announce(r) PROVE UNCHANGED Abstract!snapshot
  BY <1>2, Stutter DEF Announce
<1>3. ASSUME NEW r \in Readers, Recheck(r) PROVE Abstract!Next \/ UNCHANGED Abstract!snapshot
  <2>1. CASE live_idx # idx[r]
    BY <1>3, <2>1, Stutter DEF Recheck
  <2>2. CASE live_idx = idx[r]
    BY <1>3, <2>2 DEF Recheck, Abstract!Next, Abstract!Enter, Abstract!Guard, GuardOf
  <2> QED
    BY <2>1, <2>2
<1>4. ASSUME NEW r \in Readers, BackOff(r) PROVE UNCHANGED Abstract!snapshot
  BY <1>4, Stutter DEF BackOff
<1>5. ASSUME NEW r \in Readers, DropGuard(r) PROVE Abstract!Next
  BY <1>5 DEF DropGuard, Abstract!Next, Abstract!Leave, Abstract!NoGuard, GuardOf
<1>6. CASE Lock
  BY <1>6, Stutter DEF Lock
<1>7. CASE ApplyStale
  BY <1>7, Stutter DEF ApplyStale, OnLive
<1>8. CASE PublishSlot
  <2> USE <1>8 DEF PublishSlot
  <2>1. UNCHANGED [r \in Readers |-> GuardOf(r)]
    BY DEF GuardOf
  <2>2. {r \in Readers : at[r] = "in" /\ idx[r] # live_idx}'
          = {r \in Readers : [q \in Readers |-> GuardOf(q)][r].held}
    <3>1. \A r \in Readers : GuardOf(r).held <=> at[r] = "in"
      BY DEF GuardOf
    <3>2. \A r \in Readers : at'[r] = "in" /\ idx'[r] # live_idx' <=> at[r] = "in"
      BY DEF OnLive
    <3> QED
      BY <3>1, <3>2
  <2>3. data[1 - live_idx] \in SUBSET Members /\ (data[live_idx])' = data[1 - live_idx]
    OBVIOUS
  <2>4. ~(wr \in {"drain", "old"}) /\ (wr \in {"drain", "old"})' = TRUE
    OBVIOUS
  <2>5. \E v \in SUBSET Members : Abstract!Publish(v)
    BY ONLY <2>1, <2>2, <2>3, <2>4 DEF Abstract!Publish
  <2> QED
    BY ONLY <2>5 DEF Abstract!Next
<1>9. CASE Drained
  BY <1>9, Stutter DEF Drained
<1>10. CASE ApplyOld
  BY <1>10 DEF ApplyOld, OnLive, Abstract!Next, Abstract!Return, GuardOf
<1>11. CASE UNCHANGED vars
  BY <1>11, Stutter DEF vars
<1> QED
  BY <1>1, <1>2, <1>3, <1>4, <1>5, <1>6, <1>7, <1>8, <1>9, <1>10, <1>11
     DEF Next, ReaderStep, WriterStep

(* The left-right list implements the list that readers see through guards  *)
(* and that one writer at a time replaces: the promise on which clone and   *)
(* drop of SPMC receivers rest.                                             *)
THEOREM Refinement == Spec => ImplementsSnapshot
<1>1. Init => Abstract!Init
  <2> SUFFICES ASSUME Init PROVE Abstract!Init
    OBVIOUS
  <2> USE DEF Init, Slots
  <2>1. [r \in Readers |-> GuardOf(r)] = [r \in Readers |-> Abstract!NoGuard]
    BY DEF GuardOf, Abstract!NoGuard
  <2>2. data[live_idx] = {} /\ {r \in Readers : at[r] = "in" /\ idx[r] # live_idx} = {}
    OBVIOUS
  <2>3. (wr \in {"drain", "old"}) = FALSE
    OBVIOUS
  <2> QED
    BY ONLY <2>1, <2>2, <2>3 DEF Abstract!Init
<1> QED
  BY <1>1, Invariance, StepRefines, PTL DEF Spec, ImplementsSnapshot, Abstract!Spec
==============================================================================
