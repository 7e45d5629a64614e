-------------------------- MODULE HybridLockProofs --------------------------
(***************************************************************************)
(* Proofs about HybridLock for any finite set of threads and tasks, any    *)
(* number of acquisitions, and both kinds of lock.                         *)
(***************************************************************************)
EXTENDS HybridLock, FiniteSetTheorems, TLAPS

\* A step is tried with SMT, then with Zenon.
USE SMTT(15), ZenonT(30)

-----------------------------------------------------------------------------
(* The steps of one caller *)

Steps(p) ==
  \/ TryAcquire(p) \/ Queue(p) \/ Recheck(p) \/ Won(p) \/ FinishNode(p) \/ FixQueued(p)
  \/ CheckNode(p) \/ Unpark(p) \/ Poll(p) \/ SpuriousPoll(p) \/ Cancel(p)
  \/ UnlockRead(p) \/ Unlock(p) \/ WakeWriter(p) \/ WakeReaders(p) \/ Signal(p)

LEMMA NextIsAStep ==
  ASSUME Next
  PROVE  /\ kind' = kind
         /\ \E p \in Proc : Steps(p) \/ \E m \in Modes : Begin(p, m) \/ TryNow(p, m)
BY DEF Next, Step, Choice, LockCall, ReadCall, WriteCall, Acquire, WakeWaiters, Steps

-----------------------------------------------------------------------------
(* The list and the flags: what is in the list is somebody's live node, a  *)
(* list that is not empty shows in HAS_QUEUED, and WRITER_PENDING is       *)
(* exact. HAS_QUEUED may be set for an empty list, between the two         *)
(* accesses of fix_flags and after a winner left.                          *)

Typed ==
  /\ kind \in {"mutex", "rwlock"}
  /\ pending \in BOOLEAN /\ queued \in BOOLEAN /\ writeLocked \in BOOLEAN
  /\ list \in Seq(Proc) /\ mode \in [Proc -> Modes]
  /\ pc \in [Proc -> Place] /\ after \in [Proc -> {"idle", "hold", "wake", "signal"}]
  /\ node \in [Proc -> {"WAITING", "WOKEN"}]

Busy == {"contend", "recheck", "won", "finish", "wait", "parked"}

ListInv ==
  /\ Typed
  /\ NoRepeats(list)
  /\ \A p \in Linked(list) : pc[p] \in Busy
  /\ list # <<>> => queued
  /\ pending <=> kind = "rwlock" /\ Writers(list) # {}

LEMMA LinkedInProc == ASSUME Typed PROVE Linked(list) \subseteq Proc
BY DEF Typed, Linked

LEMMA EmptyList == ASSUME NEW S, NEW q \in Seq(S) PROVE q = <<>> <=> Linked(q) = {}
<1>1. q = <<>> => Linked(q) = {}
  BY DEF Linked
<1>2. ASSUME q # <<>> PROVE Linked(q) # {}
  <2>1. 1 \in 1..Len(q)
    BY <1>2
  <2>. QED BY <2>1 DEF Linked
<1>. QED BY <1>1, <1>2

LEMMA ListInit == ASSUME Init PROVE ListInv
<1>1. kind \in {"mutex", "rwlock"} /\ mode \in [Proc -> Modes]
  BY LockAssumption DEF Init, Modes
<1>2. list = <<>> /\ Linked(list) = {} /\ Writers(list) = {}
  BY DEF Init, Linked, Writers
<1>3. Typed
  <2>1. pending \in BOOLEAN /\ queued \in BOOLEAN /\ writeLocked \in BOOLEAN
    BY DEF Init
  <2>2. list \in Seq(Proc)
    BY <1>2
  <2>3. /\ pc \in [Proc -> Place] /\ after \in [Proc -> {"idle", "hold", "wake", "signal"}]
        /\ node \in [Proc -> {"WAITING", "WOKEN"}]
    BY DEF Init, Place
  <2>. QED BY <1>1, <2>1, <2>2, <2>3 DEF Typed
<1>. QED BY <1>2, <1>3 DEF Init, ListInv, NoRepeats

LEMMA ListStep ==
  ASSUME ListInv, kind' = kind, NEW p \in Proc,
         Steps(p) \/ \E m \in Modes : Begin(p, m) \/ TryNow(p, m)
  PROVE  ListInv'
<1>. USE DEF word, nodes, wakes, Go
<1>0. Typed /\ Linked(list) \subseteq Proc /\ Modes' = Modes /\ Modes \subseteq {"lock", "read", "write"}
  BY LinkedInProc DEF ListInv, Modes
<1>1. ASSUME UNCHANGED <<list, pending, queued, mode>>, Typed',
             pc' = [pc EXCEPT ![p] = pc'[p]], p \in Linked(list) => pc'[p] \in Busy
      PROVE  ListInv'
  BY <1>0, <1>1 DEF ListInv, Typed, NoRepeats, Linked, Writers, IsWriter
<1>2. CASE TryAcquire(p)
  BY <1>0, <1>1, <1>2 DEF TryAcquire, Take, CanTake, CanLock, CanRead, CanWrite, Typed, Place, Busy
<1>3. CASE Recheck(p)
  BY <1>0, <1>1, <1>3 DEF Recheck, Take, Typed, Place, Busy
<1>4. CASE CheckNode(p) \/ Unpark(p) \/ Poll(p) \/ SpuriousPoll(p)
  BY <1>0, <1>1, <1>4 DEF CheckNode, Unpark, Poll, SpuriousPoll, Typed, Place, Busy
<1>5. CASE UnlockRead(p) \/ Unlock(p)
  BY <1>0, <1>1, <1>5 DEF UnlockRead, Unlock, Typed, Place, Busy, ListInv
<1>6. CASE Signal(p)
  BY <1>0, <1>1, <1>6 DEF Signal, Typed, Place, Busy, ListInv
<1>7. CASE WakeWriter(p)
  BY <1>0, <1>1, <1>7 DEF WakeWriter, MarkWoken, Typed, Place, Busy, ListInv
<1>8. ASSUME NEW m \in Modes, Begin(p, m) \/ TryNow(p, m) PROVE ListInv'
  <2>1. p \notin Linked(list)
    BY <1>8 DEF Begin, TryNow, ListInv, Busy
  <2>2. /\ UNCHANGED <<list, pending, queued>> /\ pc' = [pc EXCEPT ![p] = pc'[p]]
        /\ mode' = [mode EXCEPT ![p] = m]
    BY <1>0, <1>8 DEF Begin, TryNow, Typed
  <2>3. Typed'
    <3>1. mode' \in [Proc -> Modes'] /\ pc' \in [Proc -> Place]
      BY <1>0, <1>8, <2>2 DEF Begin, TryNow, Typed, Place
    <3>2. writeLocked' \in BOOLEAN
      BY <1>0, <1>8 DEF Begin, TryNow, Take, Typed
    <3>3. UNCHANGED <<kind, pending, queued, list, after, node>>
      BY <1>8 DEF Begin, TryNow
    <3>. QED BY <1>0, <3>1, <3>2, <3>3 DEF Typed, Place
  <2>4. Linked(list)' = Linked(list) /\ Writers(list)' = Writers(list)
    BY <1>0, <2>1, <2>2 DEF Typed, Linked, Writers, IsWriter
  <2>. QED BY <1>0, <2>1, <2>2, <2>3, <2>4 DEF ListInv, Typed, NoRepeats
<1>9. CASE FixQueued(p)
  <2>1. Typed' /\ UNCHANGED <<list, pending, mode>> /\ queued' = (list # <<>>) /\ p \notin Linked(list)
    BY <1>0, <1>9 DEF FixQueued, Typed, Place, ListInv, Busy
  <2>2. \A q \in Linked(list) : pc'[q] = pc[q]
    BY <1>0, <1>9, <2>1 DEF FixQueued, Typed
  <2>3. Writers(list)' = Writers(list) /\ Linked(list)' = Linked(list)
    BY <2>1 DEF Linked, Writers, IsWriter
  <2>. QED BY <2>1, <2>2, <2>3 DEF ListInv, NoRepeats
<1>10. CASE Queue(p)
  <2>1. /\ list' \in Seq(Proc) /\ NoRepeats(list') /\ Linked(list') = Linked(list) \cup {p}
    BY <1>0, <1>10, LinkBackAdds DEF Queue, ListInv, Typed
  <2>2. Typed' /\ mode' = mode /\ queued' /\ pc' = [pc EXCEPT ![p] = "recheck"]
    BY <1>0, <1>10, <2>1 DEF Queue, Typed, Place
  <2>3. Writers(list)' = Writers(list) \cup {r \in {p} : IsWriter(r)}
    BY <2>1, <2>2 DEF Writers, IsWriter, Linked
  <2>4. pending' = (pending \/ mode[p] = "write")
    BY <1>10 DEF Queue
  <2>5. IsWriter(p) /\ kind = "rwlock" <=> mode[p] = "write"
    BY <1>0 DEF Typed, Modes, IsWriter
  <2>6. pending' <=> kind = "rwlock" /\ Writers(list)' # {}
    BY <2>3, <2>4, <2>5 DEF ListInv
  <2>7. \A q \in Linked(list') : pc'[q] \in Busy
    BY <1>0, <2>1, <2>2 DEF ListInv, Typed, Busy
  <2>. QED BY <2>1, <2>2, <2>6, <2>7 DEF ListInv, NoRepeats, Linked
<1>11. ASSUME p \in Proc, list' \in Seq(Proc), NoRepeats(list'), Linked(list') = Linked(list) \ {p},
              FixPending(list'), UNCHANGED <<queued, mode>>, Typed',
              pc' = [pc EXCEPT ![p] = pc'[p]]
       PROVE  ListInv'
  <2>1. list' # <<>> => list # <<>>
    BY <1>0, <1>11, EmptyList DEF Typed
  <2>2. Writers(list)' = Writers(list') /\ Linked(list)' = Linked(list')
    BY <1>11 DEF Writers, IsWriter, Linked
  <2>. QED BY <1>0, <1>11, <2>1, <2>2 DEF ListInv, FixPending, Typed, NoRepeats
<1>12. ASSUME NEW l, UnlinkThen(p, l), l \in {"idle", "hold", "wake", "signal"},
              UNCHANGED <<writeLocked, queued, mode, node>>
       PROVE  ListInv'
  <2>1. list' \in Seq(Proc) /\ NoRepeats(list') /\ Linked(list') = Linked(list) \ {p}
    BY <1>0, <1>12, UnlinkRemoves DEF UnlinkThen, ListInv, Typed
  <2>2. Typed' /\ FixPending(list') /\ pc' = [pc EXCEPT ![p] = pc'[p]]
    BY <1>0, <1>12, <2>1 DEF UnlinkThen, FixPending, Typed, Place
  <2>. QED BY <1>11, <1>12, <2>1, <2>2
<1>13. CASE Won(p) \/ FinishNode(p)
  <2>1. CASE UnlinkThen(p, "hold")
    BY <1>12, <1>13, <2>1 DEF Won, FinishNode
  <2>2. CASE ~UnlinkThen(p, "hold")
    BY <1>0, <1>1, <1>13, <2>2 DEF Won, FinishNode, Typed, Place
  <2>. QED BY <2>1, <2>2
<1>14. CASE Cancel(p)
  <2>. DEFINE l == IF node[p] = "WOKEN" THEN "wake" ELSE "idle"
  <2>1. CASE UnlinkThen(p, l)
    BY <1>12, <1>14, <2>1 DEF Cancel
  <2>2. CASE ~UnlinkThen(p, l)
    BY <1>0, <1>1, <1>14, <2>2 DEF Cancel, Typed, Place
  <2>. QED BY <2>1, <2>2
<1>15. CASE WakeReaders(p)
  <2>1. Linked(list') = {} /\ list' = <<>>
    BY <1>15 DEF WakeReaders, Linked
  <2>2. Typed'
    <3>1. node' \in [Proc -> {"WAITING", "WOKEN"}]
      BY <1>0, <1>15 DEF WakeReaders, MarkWoken, Typed
    <3>2. /\ UNCHANGED <<writeLocked, queued, mode>> /\ pending' \in BOOLEAN
          /\ after' \in [Proc -> {"idle", "hold", "wake", "signal"}] /\ pc' \in [Proc -> Place]
      BY <1>0, <1>15 DEF WakeReaders, FixPending, Typed, Place
    <3>. QED BY <1>0, <2>1, <3>1, <3>2 DEF Typed, Place
  <2>3. Linked(list)' = {} /\ Writers(list)' = {} /\ Writers(list') = {}
    BY <2>1 DEF Linked, Writers
  <2>4. ~pending'
    BY <1>15, <2>3 DEF WakeReaders, FixPending
  <2>. QED BY <2>1, <2>2, <2>3, <2>4 DEF ListInv, NoRepeats
<1>. QED BY <1>2, <1>3, <1>4, <1>5, <1>6, <1>7, <1>8, <1>9, <1>10, <1>13, <1>14, <1>15 DEF Steps

-----------------------------------------------------------------------------
(* Exclusion. Every step moves one caller only, and either keeps who is    *)
(* admitted or lets that caller in or out.                                 *)

OnlyMoves(p) ==
  \A q \in Proc \ {p} : pc'[q] = pc[q] /\ after'[q] = after[q] /\ mode'[q] = mode[q]

LEMMA OneMoves ==
  ASSUME Typed, NEW p \in Proc,
         Steps(p) \/ \E m \in Modes : Begin(p, m) \/ TryNow(p, m)
  PROVE  OnlyMoves(p)
<1>. USE DEF word, nodes, wakes, Go, OnlyMoves, Typed
<1>1. CASE TryAcquire(p) \/ Queue(p) \/ Recheck(p) \/ FixQueued(p)
  BY <1>1 DEF TryAcquire, Queue, Recheck, FixQueued
<1>2. CASE Won(p) \/ FinishNode(p) \/ Cancel(p)
  BY <1>2 DEF Won, FinishNode, Cancel, UnlinkThen
<1>3. CASE CheckNode(p) \/ Unpark(p) \/ Poll(p) \/ SpuriousPoll(p)
  BY <1>3 DEF CheckNode, Unpark, Poll, SpuriousPoll
<1>4. CASE UnlockRead(p) \/ Unlock(p)
  BY <1>4 DEF UnlockRead, Unlock
<1>5. CASE WakeWriter(p)
  BY <1>5 DEF WakeWriter
<1>6. CASE WakeReaders(p)
  BY <1>6 DEF WakeReaders
<1>7. CASE Signal(p)
  BY <1>7 DEF Signal
<1>8. ASSUME NEW m \in Modes, Begin(p, m) \/ TryNow(p, m) PROVE OnlyMoves(p)
  BY <1>8 DEF Begin, TryNow
<1>. QED BY <1>1, <1>2, <1>3, <1>4, <1>5, <1>6, <1>7, <1>8 DEF Steps

LEMMA CountedReaders == IsFiniteSet(Readers) /\ Cardinality(Readers) \in Nat
<1>1. Readers \subseteq Proc
  BY DEF Readers
<1>. QED BY <1>1, LockAssumption, FS_Subset, FS_CardinalityType

LEMMA NobodyMoves ==
  ASSUME Exclusion, NEW p \in Proc, OnlyMoves(p), Admitted(p)' = Admitted(p),
         Admitted(p) => mode'[p] = mode[p], UNCHANGED <<writeLocked, readers>>
  PROVE  Exclusion'
<1>1. \A q \in Proc : Admitted(q)' = Admitted(q) /\ (Admitted(q) => mode'[q] = mode[q])
  BY DEF OnlyMoves, Admitted
<1>2. Readers' = Readers /\ Holders' = Holders
  BY <1>1 DEF Readers, Holders
<1>. QED BY <1>2 DEF Exclusion

LEMMA ReaderEnters ==
  ASSUME Exclusion, NEW p \in Proc, OnlyMoves(p), ~Admitted(p), Admitted(p)', mode'[p] = "read",
         ~writeLocked, readers' = readers + 1, writeLocked' = writeLocked
  PROVE  Exclusion'
<1>1. \A q \in Proc \ {p} : Admitted(q)' = Admitted(q) /\ mode'[q] = mode[q]
  BY DEF OnlyMoves, Admitted
<1>2. Readers' = Readers \cup {p} /\ Holders' = Holders /\ p \notin Readers
  BY <1>1 DEF Readers, Holders
<1>3. Cardinality(Readers \cup {p}) = Cardinality(Readers) + 1
  BY <1>2, CountedReaders, FS_AddElement
<1>. QED BY <1>2, <1>3 DEF Exclusion

LEMMA WriterEnters ==
  ASSUME Exclusion, NEW p \in Proc, OnlyMoves(p), ~Admitted(p), Admitted(p)', mode'[p] # "read",
         ~writeLocked, Readers = {}, writeLocked', readers' = readers
  PROVE  Exclusion'
<1>1. \A q \in Proc \ {p} : Admitted(q)' = Admitted(q) /\ mode'[q] = mode[q]
  BY DEF OnlyMoves, Admitted
<1>2. Readers' = Readers /\ Holders' = Holders \cup {p} /\ Holders = {}
  BY <1>1 DEF Readers, Holders, Exclusion
<1>. QED BY <1>2 DEF Exclusion

LEMMA ReaderLeaves ==
  ASSUME Exclusion, NEW p \in Proc, OnlyMoves(p), Admitted(p), ~Admitted(p)', mode[p] = "read",
         readers' = readers - 1, writeLocked' = writeLocked
  PROVE  Exclusion'
<1>1. \A q \in Proc \ {p} : Admitted(q)' = Admitted(q) /\ mode'[q] = mode[q]
  BY DEF OnlyMoves, Admitted
<1>2. Readers' = Readers \ {p} /\ Holders' = Holders /\ p \in Readers
  BY <1>1 DEF Readers, Holders
<1>3. Cardinality(Readers \ {p}) = Cardinality(Readers) - 1
  BY <1>2, CountedReaders, FS_RemoveElement
<1>. QED BY <1>2, <1>3 DEF Exclusion

LEMMA WriterLeaves ==
  ASSUME Exclusion, NEW p \in Proc, OnlyMoves(p), Admitted(p), ~Admitted(p)', mode[p] # "read",
         ~writeLocked', readers' = readers
  PROVE  Exclusion'
<1>1. \A q \in Proc \ {p} : Admitted(q)' = Admitted(q) /\ mode'[q] = mode[q]
  BY DEF OnlyMoves, Admitted
<1>2. Readers' = Readers /\ Holders' = {}
  BY <1>1 DEF Readers, Holders, Exclusion
<1>. QED BY <1>2 DEF Exclusion

LEMMA NoReaders ==
  ASSUME Typed, Exclusion, NEW m \in Modes, CanTake(m), m # "read"
  PROVE  Readers = {}
<1>1. CASE kind = "mutex"
  BY <1>1 DEF Typed, Modes, Readers
<1>2. CASE kind # "mutex"
  <2>1. readers = 0
    BY <1>2 DEF Modes, CanTake, CanLock, CanRead, CanWrite
  <2>. QED BY <2>1, CountedReaders, FS_EmptySet DEF Exclusion
<1>. QED BY <1>1, <1>2

LEMMA ExclusionStep ==
  ASSUME Typed, Exclusion, kind' = kind, NEW p \in Proc,
         Steps(p) \/ \E m \in Modes : Begin(p, m) \/ TryNow(p, m)
  PROVE  Exclusion'
<1>. USE DEF word, nodes, wakes, Go
<1>0. OnlyMoves(p)
  BY OneMoves
<1>1. ASSUME NEW m \in Modes, CanTake(m), Take(m), mode'[p] = m, ~Admitted(p), Admitted(p)'
      PROVE  Exclusion'
  <2>1. ~writeLocked
    BY <1>1 DEF CanTake, CanLock, CanRead, CanWrite
  <2>2. CASE m = "read"
    BY <1>0, <1>1, <2>1, <2>2, ReaderEnters DEF Take
  <2>3. CASE m # "read"
    BY <1>0, <1>1, <2>1, <2>3, NoReaders, WriterEnters DEF Take
  <2>. QED BY <2>2, <2>3
<1>2. CASE TryAcquire(p)
  <2>1. ~Admitted(p) /\ Admitted(p)' /\ mode' = mode /\ mode[p] \in Modes
    BY <1>2 DEF TryAcquire, Admitted, Typed
  <2>. QED BY <1>1, <1>2, <2>1 DEF TryAcquire
<1>3. CASE Recheck(p)
  <2>1. ~Admitted(p) /\ mode' = mode /\ mode[p] \in Modes
    BY <1>3 DEF Recheck, Admitted, Typed
  <2>2. CASE CanTake(mode[p])
    <3>1. Admitted(p)' /\ Take(mode[p])
      BY <1>3, <2>2 DEF Recheck, Admitted, Typed
    <3>. QED BY <1>1, <2>1, <2>2, <3>1
  <2>3. CASE ~CanTake(mode[p])
    BY <1>0, <1>3, <2>1, <2>3, NobodyMoves DEF Recheck, Admitted, Typed
  <2>. QED BY <2>2, <2>3
<1>4. CASE Queue(p)
  BY <1>0, <1>4, NobodyMoves DEF Queue, Admitted, Typed
<1>5. CASE Won(p) \/ FinishNode(p)
  BY <1>0, <1>5, NobodyMoves DEF Won, FinishNode, UnlinkThen, Admitted, Typed
<1>6. CASE FixQueued(p)
  BY <1>0, <1>6, NobodyMoves DEF FixQueued, Admitted, Typed
<1>7. CASE CheckNode(p) \/ Unpark(p) \/ Poll(p) \/ SpuriousPoll(p)
  BY <1>0, <1>7, NobodyMoves DEF CheckNode, Unpark, Poll, SpuriousPoll, Admitted, Typed
<1>8. CASE Cancel(p)
  BY <1>0, <1>8, NobodyMoves DEF Cancel, UnlinkThen, Admitted, Typed
<1>9. CASE UnlockRead(p)
  BY <1>0, <1>9, ReaderLeaves DEF UnlockRead, Admitted, Typed
<1>10. CASE Unlock(p)
  BY <1>0, <1>10, WriterLeaves DEF Unlock, IsWriter, Admitted, Typed
<1>11. CASE WakeWriter(p)
  BY <1>0, <1>11, NobodyMoves DEF WakeWriter, Admitted, Typed
<1>12. CASE WakeReaders(p)
  BY <1>0, <1>12, NobodyMoves DEF WakeReaders, Admitted, Typed
<1>13. CASE Signal(p)
  BY <1>0, <1>13, NobodyMoves DEF Signal, Admitted, Typed
<1>14. ASSUME NEW m \in Modes, Begin(p, m) PROVE Exclusion'
  BY <1>0, <1>14, NobodyMoves DEF Begin, Admitted, Typed
<1>15. ASSUME NEW m \in Modes, TryNow(p, m) PROVE Exclusion'
  <2>1. ~Admitted(p) /\ Admitted(p)' /\ mode'[p] = m
    BY <1>15 DEF TryNow, Admitted, Typed
  <2>. QED BY <1>1, <1>15, <2>1 DEF TryNow
<1>. QED BY <1>2, <1>3, <1>4, <1>5, <1>6, <1>7, <1>8, <1>9, <1>10, <1>11, <1>12, <1>13,
            <1>14, <1>15 DEF Steps

-----------------------------------------------------------------------------
(* No forgotten waiter. The property is not inductive: when the only       *)
(* queued writer is dropped asleep, a reader asleep behind it must not     *)
(* have been counting on it. So while a writer is queued, it has to be a   *)
(* writer that is awake.                                                   *)

Free       == ~writeLocked /\ readers = 0
Waker      == \E p \in Proc : pc[p] = "wake" \/ (pc[p] = "flags" /\ after[p] = "wake")
Awake(p)   == pc[p] \in {"contend", "recheck"} \/ node[p] = "WOKEN"
Candidates == IF Writers(list) = {} THEN Linked(list) ELSE Writers(list)

WakeInv == Free /\ Linked(list) # {} => Waker \/ \E p \in Candidates : Awake(p)

LEMMA NotFree ==
  ASSUME Exclusion, NEW p \in Proc, Admitted(p)
  PROVE  ~Free
<1>1. CASE mode[p] = "read"
  <2>1. Readers # {}
    BY <1>1 DEF Readers
  <2>2. readers # 0
    BY <2>1, CountedReaders, FS_EmptySet DEF Exclusion
  <2>. QED BY <2>2 DEF Free
<1>2. CASE mode[p] # "read"
  BY <1>2 DEF Holders, Exclusion, Free
<1>. QED BY <1>1, <1>2

LEMMA WakeStays ==
  ASSUME Typed, WakeInv, Free' => Free, NEW p \in Proc, OnlyMoves(p),
         UNCHANGED <<list, mode>>, \A q \in Proc : node[q] = "WOKEN" => node'[q] = "WOKEN",
         pc[p] \notin {"wake", "flags"}, p \in Candidates /\ Awake(p) => Awake(p)'
  PROVE  WakeInv'
<1>1. Linked(list)' = Linked(list) /\ Candidates' = Candidates
  BY DEF Linked, Candidates, Writers, IsWriter
<1>2. Candidates \subseteq Proc
  BY LinkedInProc DEF Candidates, Writers
<1>3. Waker => Waker'
  BY DEF Waker, OnlyMoves
<1>4. \A q \in Candidates : Awake(q) => Awake(q)'
  BY <1>2 DEF Awake, OnlyMoves
<1>. QED BY <1>1, <1>3, <1>4 DEF WakeInv

LEMMA WakeStep ==
  ASSUME ListInv, Exclusion, WakeInv, ListInv', Exclusion', kind' = kind, NEW p \in Proc,
         Steps(p) \/ \E m \in Modes : Begin(p, m) \/ TryNow(p, m)
  PROVE  WakeInv'
<1>. USE DEF word, nodes, wakes, Go
<1>0. Typed /\ Linked(list) \subseteq Proc /\ OnlyMoves(p)
  BY LinkedInProc, OneMoves DEF ListInv
<1>1. Admitted(p) /\ UNCHANGED <<writeLocked, readers>> => WakeInv'
  BY NotFree DEF Free, WakeInv
<1>2. CASE CheckNode(p) \/ Unpark(p) \/ Poll(p) \/ SpuriousPoll(p)
  BY <1>0, <1>2, WakeStays DEF CheckNode, Unpark, Poll, SpuriousPoll, Awake, Typed, Free
<1>3. CASE Signal(p)
  BY <1>0, <1>3, WakeStays DEF Signal, Awake, Typed, Free
<1>4. CASE Won(p) \/ FinishNode(p)
  BY <1>1, <1>4 DEF Won, FinishNode, Admitted
<1>5. ASSUME NEW m \in Modes, Take(m) PROVE WakeInv'
  <2>1. readers \in Nat
    BY CountedReaders DEF Exclusion
  <2>. QED BY <1>5, <2>1 DEF Take, WakeInv, Free
<1>6. CASE TryAcquire(p)
  BY <1>0, <1>5, <1>6 DEF TryAcquire, Typed
<1>7. ASSUME NEW m \in Modes, TryNow(p, m) PROVE WakeInv'
  BY <1>5, <1>7 DEF TryNow
<1>8. CASE Recheck(p)
  <2>1. CASE CanTake(mode[p])
    BY <1>0, <1>5, <1>8, <2>1 DEF Recheck, Typed
  <2>2. CASE ~CanTake(mode[p]) /\ Free
    <3>1. kind = "rwlock" /\ mode[p] = "read" /\ pending
      BY <1>0, <2>2 DEF Typed, Modes, Free, CanTake, CanLock, CanRead, CanWrite
    <3>2. p \notin Candidates
      BY <3>1 DEF ListInv, Candidates, Writers, IsWriter
    <3>. QED BY <1>0, <1>8, <2>2, <3>2, WakeStays DEF Recheck, Typed
  <2>3. CASE ~CanTake(mode[p]) /\ ~Free
    BY <1>8, <2>3 DEF Recheck, Free, WakeInv
  <2>. QED BY <2>1, <2>2, <2>3
<1>9. ASSUME NEW m \in Modes, Begin(p, m) PROVE WakeInv'
  <2>1. /\ p \notin Linked(list) /\ pc[p] = "idle"
        /\ UNCHANGED <<list, node, writeLocked, readers>> /\ mode' = [mode EXCEPT ![p] = m]
    BY <1>9 DEF Begin, ListInv, Busy
  <2>2. Linked(list)' = Linked(list) /\ Writers(list)' = Writers(list)
    BY <1>0, <2>1 DEF Linked, Writers, IsWriter, Typed
  <2>3. Candidates' = Candidates /\ Candidates \subseteq Linked(list)
    BY <2>2 DEF Candidates, Writers
  <2>4. \A q \in Candidates : Awake(q) => Awake(q)'
    BY <1>0, <2>1, <2>3 DEF Awake, OnlyMoves
  <2>5. Waker => Waker'
    BY <1>0, <2>1 DEF Waker, OnlyMoves
  <2>. QED BY <2>1, <2>2, <2>3, <2>4, <2>5 DEF WakeInv, Free
<1>10. CASE Queue(p)
  <2>1. Linked(list') = Linked(list) \cup {p} /\ Linked(list)' = Linked(list')
    <3>1. list' = LinkBack(list, p) /\ list \in Seq(Proc) /\ NoRepeats(list)
      BY <1>10 DEF Queue, ListInv, Typed
    <3>2. Linked(list') = Linked(list) \cup {p}
      BY <3>1, LinkBackAdds
    <3>. QED BY <3>2 DEF Linked
  <2>2. /\ Writers(list)' = Writers(list) \cup {r \in {p} : IsWriter(r)}
        /\ UNCHANGED <<writeLocked, readers, mode>>
    BY <1>10, <2>1 DEF Writers, IsWriter, Queue
  <2>3. Awake(p)' /\ pc[p] = "contend" /\ node' = [node EXCEPT ![p] = "WAITING"]
    BY <1>0, <1>10 DEF Queue, Awake, Typed
  <2>4. CASE IsWriter(p) \/ Writers(list) = {}
    <3>1. p \in Candidates'
      BY <2>1, <2>2, <2>4 DEF Candidates
    <3>. QED BY <2>3, <3>1 DEF WakeInv
  <2>5. CASE ~IsWriter(p) /\ Writers(list) # {}
    <3>1. Candidates' = Candidates /\ Candidates = Writers(list) /\ p \notin Candidates
      BY <2>2, <2>5 DEF Candidates, Writers
    <3>2. Candidates \subseteq Proc \ {p} /\ Linked(list) # {}
      BY <1>0, <2>5, <3>1 DEF Writers
    <3>3. \A q \in Candidates : Awake(q) => Awake(q)'
      BY <1>0, <2>3, <3>2 DEF Awake, OnlyMoves, Typed
    <3>4. Waker => Waker'
      BY <1>0, <2>3 DEF Waker, OnlyMoves
    <3>. QED BY <2>2, <3>1, <3>2, <3>3, <3>4 DEF WakeInv, Free
  <2>. QED BY <2>4, <2>5
<1>11. CASE FixQueued(p)
  <2>1. /\ p \notin Linked(list) /\ pc[p] = "flags" /\ pc'[p] = after[p]
        /\ UNCHANGED <<list, node, mode, after, writeLocked, readers>>
    BY <1>0, <1>11 DEF FixQueued, ListInv, Busy, Typed
  <2>2. Linked(list)' = Linked(list) /\ Candidates' = Candidates /\ Candidates \subseteq Linked(list)
    BY <2>1 DEF Linked, Candidates, Writers, IsWriter
  <2>3. \A q \in Candidates : Awake(q) => Awake(q)'
    BY <1>0, <2>1, <2>2 DEF Awake, OnlyMoves
  <2>4. Waker => Waker'
    BY <1>0, <2>1 DEF Waker, OnlyMoves
  <2>. QED BY <2>1, <2>2, <2>3, <2>4 DEF WakeInv, Free
<1>12. CASE UnlockRead(p) \/ Unlock(p)
  <2>1. pc'[p] = "wake" \/ ~queued \/ ~Free'
    <3>1. CASE UnlockRead(p)
      <4>1. CASE readers = 1
        BY <1>0, <3>1, <4>1 DEF UnlockRead, Typed
      <4>2. CASE readers # 1
        <5>1. readers \in Nat
          BY CountedReaders DEF Exclusion
        <5>. QED BY <3>1, <4>2, <5>1 DEF UnlockRead, Free
      <4>. QED BY <4>1, <4>2
    <3>2. CASE Unlock(p)
      BY <1>0, <3>2 DEF Unlock, Typed
    <3>. QED BY <1>12, <3>1, <3>2
  <2>2. list' = list
    BY <1>12 DEF UnlockRead, Unlock
  <2>3. ~queued => Linked(list)' = {}
    <3>1. ~queued => list' = <<>>
      BY <2>2 DEF ListInv
    <3>. QED BY <3>1 DEF Linked
  <2>. QED BY <2>1, <2>2, <2>3 DEF WakeInv, Waker
<1>13. CASE WakeWriter(p)
  <2>1. FirstIn(list, Writers(list)) \in Writers(list)
    BY <1>0, <1>13, FirstInIsFirst DEF WakeWriter, Writers, Typed
  <2>2. PICK w \in Writers(list) :
          /\ UNCHANGED <<list, mode, writeLocked, readers>>
          /\ node' = [q \in Proc |-> IF q \in {w} THEN "WOKEN" ELSE node[q]]
    BY <1>13, <2>1 DEF WakeWriter, MarkWoken
  <2>3. Writers(list)' = Writers(list) /\ w \in Proc
    BY <1>0, <2>2 DEF Writers, IsWriter, Linked
  <2>4. w \in Candidates' /\ Awake(w)'
    BY <2>2, <2>3 DEF Candidates, Awake
  <2>. QED BY <2>4 DEF WakeInv
<1>14. CASE WakeReaders(p)
  <2>1. list' = <<>>
    BY <1>14 DEF WakeReaders
  <2>2. Linked(list)' = {}
    BY <2>1 DEF Linked
  <2>. QED BY <2>2 DEF WakeInv
<1>15. CASE Cancel(p)
  <2>1. /\ UNCHANGED <<node, mode, writeLocked, readers>> /\ pc[p] = "wait"
        /\ node[p] = "WOKEN" => Waker'
    BY <1>0, <1>15 DEF Cancel, UnlinkThen, Waker, Typed
  <2>2. Linked(list)' = Linked(list) \ {p}
    <3>1. CASE list' = Unlink(list, p)
      <4>1. Linked(list') = Linked(list) \ {p}
        BY <1>0, <3>1, UnlinkRemoves DEF ListInv, Typed
      <4>. QED BY <4>1 DEF Linked
    <3>2. CASE list' = list /\ p \notin Linked(list)
      BY <3>2 DEF Linked
    <3>. QED BY <1>15, <3>1, <3>2 DEF Cancel, UnlinkThen
  <2>3. CASE node[p] # "WOKEN"
    <3>1. ~Awake(p)
      BY <2>1, <2>3 DEF Awake
    <3>2. Writers(list)' = Writers(list) \ {p}
      BY <2>1, <2>2 DEF Writers, IsWriter
    <3>3. Waker => Waker'
      BY <1>0, <2>1 DEF Waker, OnlyMoves
    <3>4. ASSUME NEW q \in Candidates, Awake(q) PROVE q \in Candidates' /\ Awake(q)'
      <4>1. q # p /\ q \in Proc
        BY <1>0, <3>1, <3>4 DEF Candidates, Writers
      <4>2. Awake(q)'
        BY <1>0, <2>1, <3>4, <4>1 DEF Awake, OnlyMoves
      <4>3. q \in Candidates'
        BY <2>2, <3>2, <3>4, <4>1 DEF Candidates
      <4>. QED BY <4>2, <4>3
    <3>. QED BY <2>1, <2>2, <3>3, <3>4 DEF WakeInv, Free
  <2>. QED BY <2>1, <2>3 DEF WakeInv
<1>. QED BY <1>2, <1>3, <1>4, <1>6, <1>7, <1>8, <1>9, <1>10, <1>11, <1>12, <1>13, <1>14,
            <1>15 DEF Steps

-----------------------------------------------------------------------------
(* The rest of the types *)

RestTyped ==
  /\ kind \in Kinds /\ listLock \in Proc \cup {NoOne}
  /\ armed \in [Proc -> BOOLEAN] /\ permit \in [Proc -> BOOLEAN]
  /\ handles \in [Proc -> SUBSET Proc] /\ ops \in [Proc -> Nat]

LEMMA RestStep ==
  ASSUME Typed, RestTyped, kind' = kind, NEW p \in Proc,
         Steps(p) \/ \E m \in Modes : Begin(p, m) \/ TryNow(p, m)
  PROVE  RestTyped'
<1>. USE DEF word, nodes, wakes, RestTyped
<1>0. Linked(list) \subseteq Proc
  BY LinkedInProc
<1>1. CASE TryAcquire(p) \/ Recheck(p) \/ FixQueued(p) \/ UnlockRead(p) \/ Unlock(p)
  BY <1>1 DEF TryAcquire, Recheck, FixQueued, UnlockRead, Unlock
<1>2. CASE Queue(p)
  BY <1>2 DEF Queue
<1>3. CASE Won(p) \/ FinishNode(p) \/ Cancel(p)
  BY <1>3 DEF Won, FinishNode, Cancel, UnlinkThen
<1>4. CASE CheckNode(p) \/ Unpark(p) \/ Poll(p) \/ SpuriousPoll(p)
  BY <1>4 DEF CheckNode, Unpark, Poll, SpuriousPoll
<1>5. ASSUME NEW S \in SUBSET Proc, MarkWoken(p, S)
      PROVE  armed' \in [Proc -> BOOLEAN] /\ handles' \in [Proc -> SUBSET Proc]
  <2>1. armed' \in [Proc -> BOOLEAN]
    BY <1>5, Zenon DEF MarkWoken
  <2>2. {q \in S : armed[q]} \in SUBSET Proc
    OBVIOUS
  <2>. QED BY <1>5, <2>1, <2>2 DEF MarkWoken
<1>6. CASE WakeWriter(p)
  <2>1. {FirstIn(list, Writers(list))} \in SUBSET Proc
    <3>1. FirstIn(list, Writers(list)) \in Writers(list)
      BY <1>6, FirstInIsFirst DEF WakeWriter, Writers, Typed
    <3>. QED BY <1>0, <3>1 DEF Writers
  <2>. QED BY <1>5, <1>6, <2>1 DEF WakeWriter
<1>7. CASE WakeReaders(p)
  BY <1>0, <1>5, <1>7 DEF WakeReaders
<1>8. CASE Signal(p)
  BY <1>8 DEF Signal
<1>9. ASSUME NEW m \in Modes, Begin(p, m) \/ TryNow(p, m) PROVE RestTyped'
  <2>1. UNCHANGED <<listLock, armed, permit, handles>> /\ ops' = [ops EXCEPT ![p] = @ - 1] /\ ops[p] > 0
    BY <1>9 DEF Begin, TryNow
  <2>2. ops' \in [Proc -> Nat]
    BY <2>1
  <2>. QED BY <2>1, <2>2
<1>. QED BY <1>1, <1>2, <1>3, <1>4, <1>6, <1>7, <1>8, <1>9 DEF Steps

-----------------------------------------------------------------------------
(* The inductive invariant, and what follows from it *)

IInv == ListInv /\ Exclusion /\ WakeInv /\ RestTyped

LEMMA IInvInit == ASSUME Init PROVE IInv
<1>1. ListInv
  BY ListInit
<1>2. Readers = {} /\ Holders = {}
  BY DEF Init, Readers, Holders, Admitted
<1>3. Exclusion
  BY <1>2, FS_EmptySet DEF Init, Exclusion
<1>4. WakeInv
  BY DEF Init, WakeInv, Linked
<1>5. RestTyped
  BY LockAssumption DEF Init, RestTyped
<1>. QED BY <1>1, <1>3, <1>4, <1>5 DEF IInv

LEMMA IInvStep == ASSUME IInv, [Next]_vars PROVE IInv'
<1>1. CASE Next
  <2>1. PICK p \in Proc :
          /\ kind' = kind
          /\ Steps(p) \/ \E m \in Modes : Begin(p, m) \/ TryNow(p, m)
    BY <1>1, NextIsAStep
  <2>2. ListInv'
    BY <2>1, ListStep DEF IInv
  <2>3. Exclusion'
    BY <2>1, ExclusionStep DEF IInv, ListInv
  <2>4. WakeInv'
    BY <2>1, <2>2, <2>3, WakeStep DEF IInv
  <2>5. RestTyped'
    BY <2>1, RestStep DEF IInv, ListInv
  <2>. QED BY <2>2, <2>3, <2>4, <2>5 DEF IInv
<1>2. CASE UNCHANGED vars
  <2>0. UNCHANGED <<kind, writeLocked, readers, pending, queued, list, listLock, node, armed,
                    permit, handles, mode, pc, after, ops>>
    BY <1>2 DEF vars, word, nodes, wakes
  <2>1. ListInv'
    <3>1. Linked(list)' = Linked(list) /\ Writers(list)' = Writers(list)
      BY <2>0 DEF Linked, Writers, IsWriter
    <3>2. Typed' /\ NoRepeats(list)'
      BY <2>0 DEF IInv, ListInv, Typed, NoRepeats, Modes
    <3>. QED BY <2>0, <3>1, <3>2 DEF IInv, ListInv
  <2>2. Exclusion'
    <3>1. Readers' = Readers /\ Holders' = Holders
      BY <2>0 DEF Readers, Holders, Admitted
    <3>. QED BY <2>0, <3>1 DEF IInv, Exclusion
  <2>3. WakeInv'
    <3>1. Linked(list)' = Linked(list) /\ Candidates' = Candidates
      BY <2>0 DEF Linked, Candidates, Writers, IsWriter
    <3>2. Waker' = Waker /\ \A p \in Candidates : Awake(p)' = Awake(p)
      BY <2>0 DEF Waker, Awake
    <3>. QED BY <2>0, <3>1, <3>2 DEF IInv, WakeInv, Free
  <2>4. RestTyped'
    BY <2>0 DEF IInv, RestTyped
  <2>. QED BY <2>1, <2>2, <2>3, <2>4 DEF IInv
<1>. QED BY <1>1, <1>2

LEMMA Inductive == Spec => []IInv
BY IInvInit, IInvStep, PTL DEF Spec

(* Every variable keeps its type: in particular the reader count of the    *)
(* state word never goes below zero.                                       *)
THEOREM TypeCorrect == Spec => []TypeOK
<1>1. IInv => TypeOK
  <2>1. Exclusion => readers \in Nat
    BY CountedReaders DEF Exclusion
  <2>. QED BY <2>1 DEF IInv, ListInv, Typed, RestTyped, TypeOK
<1>. QED BY <1>1, Inductive, PTL

(* Mutual exclusion for any number of threads and tasks: one writer's      *)
(* guard or readers' guards, and a state word that counts them exactly     *)
(* (try_acquire, unlock, unlock_read).                                     *)
THEOREM MutualExclusion == Spec => []Exclusion
<1>1. IInv => Exclusion
  BY DEF IInv
<1>. QED BY <1>1, Inductive, PTL

(* The wait list never holds a node twice, nor one whose call has returned *)
(* or whose future is dropped (link_back, finish_node and the futures'     *)
(* drop), and no waiter is forgotten: a free lock with a queued waiter     *)
(* always has somebody on the way to take it or to wake one (wake_waiters, *)
(* the re-check under the list lock, and the drop of a woken future).      *)
THEOREM NobodyIsForgotten == Spec => []ListSafe
<1>1. IInv => NoDanglingNode
  BY DEF IInv, ListInv, NoRepeats, Busy, NoDanglingNode
<1>2. IInv => WakeOwed
  <2>1. SUFFICES ASSUME IInv, ~writeLocked, readers = 0, list # <<>>
                 PROVE  Waker \/ \E p \in Linked(list) : Awake(p)
    BY DEF WakeOwed, Waker, Awake
  <2>2. Linked(list) # {}
    BY <2>1, EmptyList DEF IInv, ListInv, Typed
  <2>3. Candidates \subseteq Linked(list)
    BY DEF Candidates, Writers
  <2>. QED BY <2>1, <2>2, <2>3 DEF IInv, WakeInv, Free
<1>. QED BY <1>1, <1>2, Inductive, PTL DEF ListSafe

(* No reader gets in while a writer sleeps in the list: WRITER_PENDING     *)
(* gates try_acquire_read until the writer has won or is dropped.          *)
THEOREM WritersComeFirst == Spec => NoReaderOvertakes
<1>1. ASSUME IInv, [Next]_vars
      PROVE  [readers' > readers => ~\E w \in Linked(list) : Waiting(w) /\ IsWriter(w)]_vars
  <2>1. SUFFICES ASSUME Next, readers' > readers
                 PROVE  Writers(list) = {}
    BY <1>1 DEF Writers
  <2>2. PICK p \in Proc : Steps(p) \/ \E m \in Modes : Begin(p, m) \/ TryNow(p, m)
    BY <2>1, NextIsAStep
  <2>3. readers \in Nat /\ Typed
    BY <1>1, CountedReaders DEF IInv, Exclusion, ListInv
  <2>4. PICK m \in Modes : CanTake(m) /\ Take(m)
    <3>. USE DEF word
    <3>1. CASE TryAcquire(p) \/ Recheck(p)
      BY <2>1, <2>3, <3>1 DEF TryAcquire, Recheck, Typed
    <3>2. ASSUME NEW m \in Modes, TryNow(p, m) PROVE CanTake(m) /\ Take(m)
      BY <3>2 DEF TryNow
    <3>3. readers' # readers /\ readers' # readers - 1
      BY <2>1, <2>3
    <3>4. CASE Queue(p) \/ Won(p) \/ FinishNode(p) \/ FixQueued(p) \/ Cancel(p)
      BY <3>3, <3>4 DEF Queue, Won, FinishNode, FixQueued, Cancel
    <3>5. CASE CheckNode(p) \/ Unpark(p) \/ Poll(p) \/ SpuriousPoll(p)
      BY <3>3, <3>5 DEF CheckNode, Unpark, Poll, SpuriousPoll
    <3>6. CASE UnlockRead(p) \/ Unlock(p)
      BY <3>3, <3>6 DEF UnlockRead, Unlock
    <3>7. CASE WakeWriter(p) \/ WakeReaders(p) \/ Signal(p)
      BY <3>3, <3>7 DEF WakeWriter, WakeReaders, Signal
    <3>8. ASSUME NEW m \in Modes, Begin(p, m) PROVE FALSE
      BY <3>3, <3>8 DEF Begin
    <3>. QED BY <2>2, <3>1, <3>2, <3>4, <3>5, <3>6, <3>7, <3>8 DEF Steps
  <2>5. m = "read" /\ ~pending
    BY <2>1, <2>3, <2>4 DEF Take, CanTake, CanLock, CanRead, CanWrite
  <2>6. kind = "rwlock"
    BY <2>3, <2>5 DEF Typed, Modes
  <2>. QED BY <1>1, <2>5, <2>6 DEF IInv, ListInv
<1>. QED BY <1>1, Inductive, PTL DEF Spec, NoReaderOvertakes
=============================================================================
