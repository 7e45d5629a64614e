---------------------------- MODULE SpscRingProofs ----------------------------
(***************************************************************************)
(* Proofs about SpscRing for every capacity, buffer length, index width    *)
(* and set of items.                                                       *)
(*                                                                         *)
(* IndicesOrdered is not inductive alone: a step that stores an index needs *)
(* to know that push (pop) decided on a value that still proves a free slot *)
(* (an item). SlotsExclusive needs to know which slots hold a value at all. *)
(***************************************************************************)
EXTENDS SpscRing, SequenceTheorems, TLAPS

\* A step is tried with SMT, then with Zenon.
USE SMTT(15), ZenonT(30)

(* What push and write_batch proved free stays free until it is used. *)
SpaceProved ==
  /\ reserve + Dist(tail) <= Cap
  /\ ppc \in {"write", "publish"} => Dist(tail) < Cap

(* What pop proved to be there stays there until it is taken. *)
ItemProved == cpc # "idle" => head # cachedTail

(* Position i holds a value: it was written, perhaps not yet published, and *)
(* has not been moved out.                                                  *)
Live(i) ==
  /\ WSub(i, head) < WSub(tail, head) \/ (ppc = "publish" /\ i = tail)
  /\ ~(cpc = "publish" /\ i = head)

(* A slot is initialised exactly when some live position maps to it. *)
SlotContents ==
  \A s \in 0 .. Phys - 1 :
    buf[s] # Uninit <=> \E i \in Index : Live(i) /\ Slot(i) = s

DropIsLast ==
  dropped => ppc = "idle" /\ cpc = "idle" /\ head = tail

IndInv ==
  /\ TypeOK /\ IndicesOrdered
  /\ SpaceProved /\ ItemProved
  /\ BatchNeverRefused
  /\ SlotContents
  /\ DropIsLast

-----------------------------------------------------------------------------
(* Arithmetic of slots *)

(* Euclidean division by the buffer length, as `& mask` computes it. *)
LEMMA ModDecompose ==
  ASSUME NEW a \in Nat, NEW p \in Nat \ {0}
  PROVE  /\ (a % p) \in 0 .. p - 1
         /\ (a \div p) \in Nat
         /\ a = p * (a \div p) + (a % p)
BY Z3

(* The only multiple of p from 0 to p - 1 is 0. *)
LEMMA MultipleInside ==
  ASSUME NEW p \in Nat \ {0}, NEW n \in Int, 0 <= p * n, p * n < p
  PROVE  n = 0
<1>1. CASE n >= 1
  <2>1. p * n >= p
    BY <1>1
  <2> QED BY <2>1
<1>2. CASE n <= -1
  <2>1. p * n <= -p
    BY <1>2
  <2> QED BY <2>1
<1> QED BY <1>1, <1>2

(* Every index has a slot inside the buffer. *)
LEMMA SlotInBuf ==
  ASSUME NEW i \in Index
  PROVE  Slot(i) \in 0 .. Phys - 1
BY ModDecompose, RingAssumption DEF Slot, Index

(* Two indices less than one buffer apart share a slot only if they are the *)
(* same index, also across the wrap-around of usize.                        *)
LEMMA SlotInjective ==
  ASSUME NEW i \in Index, NEW j \in Index, Slot(i) = Slot(j), WSub(j, i) < Phys
  PROVE  i = j
<1> DEFINE qi == i \div Phys
           qj == j \div Phys
<1>1. /\ i \in Nat /\ j \in Nat /\ Phys \in Nat \ {0}
  BY RingAssumption DEF Index
<1>2. /\ qi \in Nat /\ qj \in Nat
      /\ i = Phys * qi + (i % Phys)
      /\ j = Phys * qj + (j % Phys)
      /\ (i % Phys) \in Nat
      /\ (j % Phys) \in Nat
  <2>1. /\ qi \in Nat /\ i = Phys * qi + (i % Phys) /\ (i % Phys) \in Nat
    BY <1>1, ModDecompose
  <2>2. /\ qj \in Nat /\ j = Phys * qj + (j % Phys) /\ (j % Phys) \in Nat
    BY <1>1, ModDecompose
  <2> QED BY <2>1, <2>2
<1>3. i % Phys = j % Phys
  BY DEF Slot
<1>4. PICK k \in 1 .. W : W = k * Phys
  BY RingAssumption
<1> HIDE DEF qi, qj
<1>5. j - i = Phys * (qj - qi)
  BY <1>1, <1>2, <1>3
<1>6. CASE j >= i
  <2>1. WSub(j, i) = Phys * (qj - qi)
    BY <1>5, <1>6 DEF WSub
  <2>2. WSub(j, i) >= 0
    BY <1>1, <1>6 DEF WSub
  <2>3. qj - qi = 0
    BY <1>1, <1>2, <2>1, <2>2, MultipleInside
  <2> QED BY <1>1, <1>2, <1>3, <2>3
<1>7. CASE ~(j >= i)
  <2>1. WSub(j, i) = Phys * (qj - qi + k)
    BY <1>1, <1>2, <1>4, <1>5, <1>7, Phys * (qj - qi) + k * Phys = Phys * (qj - qi + k)
    DEF WSub
  <2>2. WSub(j, i) > 0
    BY <1>1, <1>7, RingAssumption DEF WSub, Index
  <2>3. qj - qi + k = 0
    BY <1>1, <1>2, <1>4, <2>1, <2>2, MultipleInside
  <2> QED BY <1>1, <1>2, <2>1, <2>2, <2>3
<1> QED BY <1>6, <1>7

-----------------------------------------------------------------------------
(* The invariant *)

(* The linear part of the assumption on the sizes. *)
LEMMA Sizes == /\ Cap \in Nat /\ Phys \in Nat /\ W \in Nat
               /\ 1 <= Cap /\ Cap <= Phys /\ Phys < W
BY RingAssumption

LEMMA InitInv == Init => IndInv
<1> SUFFICES ASSUME Init PROVE IndInv
  OBVIOUS
<1>1. TypeOK
  <2>1. buf \in [0 .. Phys - 1 -> Item \cup {Uninit}]
    BY DEF Init
  <2>2. 0 \in Index /\ 0 \in 0 .. Cap
    BY Sizes DEF Index
  <2> QED BY <2>1, <2>2 DEF Init, TypeOK
<1>2. IndicesOrdered /\ SpaceProved /\ ItemProved /\ BatchNeverRefused /\ DropIsLast
  BY Sizes
  DEF Init, IndicesOrdered, SpaceProved, ItemProved, BatchNeverRefused, DropIsLast,
      Dist, WSub
<1>3. SlotContents
  <2>1. \A i \in Index : ~Live(i)
    BY Sizes DEF Init, Live, WSub, Index
  <2> QED BY <2>1 DEF Init, SlotContents
<1> QED BY <1>1, <1>2, <1>3 DEF IndInv

(* Every conjunct but SlotContents, one step per action. *)
IndexInv == TypeOK /\ IndicesOrdered /\ SpaceProved /\ ItemProved
            /\ BatchNeverRefused /\ DropIsLast

LEMMA IndexStep == IndexInv /\ [Next]_vars => IndexInv'
<1> SUFFICES ASSUME IndexInv, [Next]_vars PROVE IndexInv'
  OBVIOUS
<1> USE Sizes DEF IndexInv, TypeOK, IndicesOrdered, SpaceProved, ItemProved,
        BatchNeverRefused, DropIsLast, Dist, WSub, Index
<1>1. ASSUME NEW v \in Item, PushCached(v) PROVE IndexInv'
  BY <1>1 DEF PushCached, Accept, cvars
<1>2. ASSUME NEW v \in Item, PushRefresh(v) PROVE IndexInv'
  BY <1>2 DEF PushRefresh, Accept, cvars
<1>3. ASSUME NEW limit \in 1 .. Cap, ReserveBatch(limit) PROVE IndexInv'
  BY <1>3 DEF ReserveBatch, cvars
<1>4. CASE PushWrite
  BY <1>4, SlotInBuf DEF PushWrite, cvars
<1>5. CASE PushPublish
  BY <1>5 DEF PushPublish, cvars, WInc
<1>6. CASE PopCached
  BY <1>6 DEF PopCached, pvars
<1>7. CASE PopRefresh
  BY <1>7 DEF PopRefresh, pvars
<1>8. CASE PopRead
  BY <1>8, SlotInBuf DEF PopRead, pvars
<1>9. CASE PopPublish
  BY <1>9 DEF PopPublish, pvars, WInc
<1>10. CASE FlushTail
  BY <1>10 DEF FlushTail, pvars, cvars, WInc
<1>11. CASE FlushHead
  BY <1>11 DEF FlushHead, pvars, cvars, WInc
<1>12. CASE DropRing
  BY <1>12 DEF DropRing, pvars
<1>13. CASE UNCHANGED vars
  BY <1>13 DEF vars, pvars, cvars
<1> QED
  BY <1>1, <1>2, <1>3, <1>4, <1>5, <1>6, <1>7, <1>8, <1>9, <1>10, <1>11, <1>12, <1>13
  DEF Next, Gone

(* Two live positions never share a slot, and a position about to be        *)
(* written shares its slot with none: they all lie within one buffer length. *)
LEMMA LiveInjective ==
  ASSUME IndexInv, NEW i \in Index, NEW j \in Index, Slot(i) = Slot(j),
         Live(i) \/ (ppc = "write" /\ i = tail),
         Live(j) \/ (ppc = "write" /\ j = tail)
  PROVE  i = j
<1> USE Sizes DEF IndexInv, TypeOK, IndicesOrdered, SpaceProved, Dist, WSub, Index
<1>1. WSub(j, i) < Phys \/ WSub(i, j) < Phys
  BY DEF Live
<1> QED BY <1>1, SlotInjective

LEMMA ContentsStep == IndexInv /\ SlotContents /\ [Next]_vars => SlotContents'
<1> SUFFICES ASSUME IndexInv, SlotContents, [Next]_vars,
                    NEW s \in 0 .. Phys - 1
             PROVE  buf'[s] # Uninit <=> \E i \in Index : Live(i)' /\ Slot(i) = s
  BY DEF SlotContents
<1> DEFINE Holds == \E i \in Index : Live(i) /\ Slot(i) = s
<1>0. buf[s] # Uninit <=> Holds
  BY DEF SlotContents
<1>a. IndexInv'
  BY IndexStep
<1>b. ASSUME buf' = buf, \A i \in Index : Live(i)' <=> Live(i)
      PROVE  buf'[s] # Uninit <=> \E i \in Index : Live(i)' /\ Slot(i) = s
  BY <1>0, <1>b
<1>1. ASSUME NEW v \in Item, PushCached(v) \/ PushRefresh(v)
      PROVE  buf' = buf /\ \A i \in Index : Live(i)' <=> Live(i)
  BY <1>1 DEF PushCached, PushRefresh, Accept, cvars, Live, IndexInv, TypeOK
<1>2. ASSUME NEW limit \in 1 .. Cap, ReserveBatch(limit)
      PROVE  buf' = buf /\ \A i \in Index : Live(i)' <=> Live(i)
  BY <1>2 DEF ReserveBatch, cvars, Live
<1>3. CASE PushWrite
  <2>1. tail \in Index /\ pitem # Uninit
    BY <1>3, RingAssumption DEF PushWrite, IndexInv, TypeOK
  <2>2. \A i \in Index : Live(i)' <=> Live(i) \/ i = tail
    BY <1>3, Sizes
    DEF PushWrite, cvars, Live, IndexInv, TypeOK, IndicesOrdered, SpaceProved, ItemProved,
        Dist, WSub, Index
  <2>3. buf' = [buf EXCEPT ![Slot(tail)] = pitem]
    BY <1>3 DEF PushWrite
  <2>4. CASE s = Slot(tail)
    BY <2>1, <2>2, <2>3, <2>4 DEF IndexInv, TypeOK
  <2>5. CASE s # Slot(tail)
    BY <1>0, <2>2, <2>3, <2>5 DEF IndexInv, TypeOK
  <2> QED BY <2>4, <2>5
<1>4. CASE PushPublish
  BY <1>b, <1>4, Sizes
  DEF PushPublish, cvars, Live, IndexInv, TypeOK, IndicesOrdered, SpaceProved, Dist, WSub,
      WInc, Index
<1>5. CASE PopCached \/ PopRefresh
  BY <1>b, <1>5 DEF PopCached, PopRefresh, pvars, Live
<1>6. CASE PopRead
  <2>1. head \in Index /\ Live(head)
    BY <1>6, Sizes
    DEF PopRead, Live, IndexInv, TypeOK, IndicesOrdered, ItemProved, Dist, WSub, Index
  <2>2. \A i \in Index : Live(i)' <=> Live(i) /\ i # head
    BY <1>6 DEF PopRead, pvars, Live
  <2>3. buf' = [buf EXCEPT ![Slot(head)] = Uninit]
    BY <1>6 DEF PopRead
  <2>4. CASE s = Slot(head)
    <3>1. \A i \in Index : Live(i) /\ Slot(i) = s => i = head
      BY <2>1, <2>4, LiveInjective
    <3>2. buf'[s] = Uninit
      BY <2>3, <2>4 DEF IndexInv, TypeOK
    <3> QED BY <2>2, <3>1, <3>2
  <2>5. CASE s # Slot(head)
    BY <1>0, <2>1, <2>2, <2>3, <2>5 DEF IndexInv, TypeOK
  <2> QED BY <2>4, <2>5
<1>7. CASE PopPublish
  BY <1>b, <1>7, Sizes
  DEF PopPublish, pvars, Live, IndexInv, TypeOK, IndicesOrdered, SpaceProved, ItemProved,
      Dist, WSub, WInc, Index
<1>8. CASE FlushTail \/ FlushHead
  BY <1>b, <1>8 DEF FlushTail, FlushHead, pvars, cvars, Live
<1>9. CASE DropRing
  <2>1. \A i \in Index : ~Live(i)'
    BY <1>9, Sizes DEF DropRing, pvars, Live, IndexInv, TypeOK, WSub, Index
  <2>2. \A i \in Index : Live(i) <=> WSub(i, head) < WSub(tail, head)
    BY <1>9 DEF DropRing, Live
  <2>3. buf'[s] = IF Holds THEN Uninit ELSE buf[s]
    BY <1>9, <2>2 DEF DropRing
  <2> QED BY <1>0, <2>1, <2>3
<1>10. CASE UNCHANGED vars
  BY <1>b, <1>10 DEF vars, pvars, cvars, Live
<1> QED
  BY <1>b, <1>1, <1>2, <1>3, <1>4, <1>5, <1>6, <1>7, <1>8, <1>9, <1>10 DEF Next, Gone

LEMMA InvStep == IndInv /\ [Next]_vars => IndInv'
BY IndexStep, ContentsStep DEF IndInv, IndexInv

(* The ring of any size keeps its types: no index ever leaves usize. *)
THEOREM TypeCorrect == Spec => []TypeOK
<1>1. IndInv => TypeOK
  BY DEF IndInv
<1> QED BY <1>1, InitInv, InvStep, PTL DEF Spec

(* push writes only to an empty slot and pop reads only from a full one,    *)
(* however the two overlap.                                                 *)
LEMMA InvGivesExclusive == IndInv => SlotsExclusive
<1> SUFFICES ASSUME IndInv PROVE SlotsExclusive
  OBVIOUS
<1>0. IndexInv /\ tail \in Index /\ head \in Index
  BY DEF IndInv, IndexInv, TypeOK
<1>1. ASSUME ppc = "write" PROVE buf[Slot(tail)] = Uninit
  <2>1. \A i \in Index : Slot(i) = Slot(tail) /\ Live(i) => i = tail
    BY <1>0, <1>1, LiveInjective
  <2>2. ~Live(tail)
    BY <1>0, <1>1, Sizes DEF Live, WSub, Index
  <2>3. Slot(tail) \in 0 .. Phys - 1
    BY <1>0, SlotInBuf
  <2> QED BY <2>1, <2>2, <2>3 DEF IndInv, SlotContents
<1>2. ASSUME cpc = "read" PROVE buf[Slot(head)] \in Item
  <2>1. Live(head)
    BY <1>0, <1>2, Sizes
    DEF Live, IndexInv, TypeOK, IndicesOrdered, ItemProved, Dist, WSub, Index
  <2>2. Slot(head) \in 0 .. Phys - 1
    BY <1>0, SlotInBuf
  <2> QED BY <1>0, <2>1, <2>2 DEF IndInv, SlotContents, TypeOK
<1> QED BY <1>1, <1>2 DEF SlotsExclusive

(* Dropping the ring leaves no initialised slot behind. *)
LEMMA InvGivesReleased == IndInv => DropReleasesAll
<1> SUFFICES ASSUME IndInv, dropped, NEW s \in 0 .. Phys - 1 PROVE buf[s] = Uninit
  BY DEF IndInv, TypeOK, DropReleasesAll
<1>1. \A i \in Index : ~Live(i)
  BY Sizes DEF IndInv, DropIsLast, Live, TypeOK, WSub, Index
<1> QED BY <1>1 DEF IndInv, SlotContents

(* The unsafe code of the ring is sound for every capacity, buffer length,  *)
(* index width and interleaving: the copies of the indices stay in order    *)
(* and within the capacity, so that cached_head and cached_tail are safe to *)
(* trust; push writes to empty slots and pop reads from full ones;          *)
(* write_batch never reaches its unreachable!(); drop leaks nothing.        *)
THEOREM RingIsSafe == Spec => []RingSafe
<1>1. IndInv => RingSafe
  BY InvGivesExclusive, InvGivesReleased DEF IndInv, RingSafe
<1> QED BY <1>1, InitInv, InvStep, PTL DEF Spec

-----------------------------------------------------------------------------
(* The ring implements the queue *)

(* Between the write and the store of tail the slot holds the pushed item. *)
WrittenItem == ppc = "publish" => pitem \in Item /\ buf[Slot(tail)] = pitem

LEMMA WrittenStep == IndInv /\ WrittenItem /\ [Next]_vars => WrittenItem'
<1> SUFFICES ASSUME IndInv, WrittenItem, [Next]_vars, ppc' = "publish"
             PROVE  pitem' \in Item /\ buf'[Slot(tail')] = pitem'
  BY DEF WrittenItem
<1>0. IndexInv /\ tail \in Index /\ head \in Index /\ Slot(tail) \in 0 .. Phys - 1
  BY SlotInBuf DEF IndInv, IndexInv, TypeOK
<1>1. CASE PushWrite
  BY <1>0, <1>1 DEF PushWrite, IndexInv, TypeOK
<1>2. CASE PopRead
  <2>1. Live(head) /\ Live(tail) /\ head # tail
    BY <1>0, <1>2, Sizes
    DEF PopRead, pvars, Live, IndexInv, TypeOK, IndicesOrdered, SpaceProved, ItemProved, Dist, WSub, Index
  <2>2. Slot(head) # Slot(tail)
    BY <1>0, <2>1, LiveInjective
  <2> QED BY <1>0, <1>2, <2>2 DEF PopRead, pvars, WrittenItem, IndexInv, TypeOK
<1>3. CASE DropRing
  BY <1>3 DEF DropRing, pvars
<1>4. CASE \E v \in Item : PushCached(v) \/ PushRefresh(v)
  BY <1>4 DEF PushCached, PushRefresh, Accept, WrittenItem
<1>5. CASE \E limit \in 1 .. Cap : ReserveBatch(limit)
  BY <1>5 DEF ReserveBatch, WrittenItem
<1>6. CASE PushPublish
  BY <1>6 DEF PushPublish
<1>7. CASE PopCached \/ PopRefresh \/ PopPublish \/ FlushTail \/ FlushHead \/ UNCHANGED vars
  BY <1>7 DEF PopCached, PopRefresh, PopPublish, FlushTail, FlushHead, vars, pvars, cvars, WrittenItem
<1> QED BY <1>1, <1>2, <1>3, <1>4, <1>5, <1>6, <1>7 DEF Next, Gone

(* The index j positions after h *)
Place(h, j) == IF h + j >= W THEN h + j - W ELSE h + j

(* Counting past the range of usize meets the same slot as wrapping around: *)
(* the buffer length divides that range.                                    *)
LEMMA SlotWraps ==
  ASSUME NEW x \in Nat, x >= W
  PROVE  Slot(x) = Slot(x - W)
<1> DEFINE y  == x - W
           qx == x \div Phys
           qy == y \div Phys
<1>1. PICK k \in 1 .. W : W = k * Phys
  BY RingAssumption
<1>2. x \in Nat /\ y \in Nat /\ Phys \in Nat \ {0}
  BY Sizes
<1>3. qx \in Nat /\ x = Phys * qx + (x % Phys) /\ (x % Phys) \in 0 .. Phys - 1
  BY <1>2, ModDecompose
<1>4. qy \in Nat /\ y = Phys * qy + (y % Phys) /\ (y % Phys) \in 0 .. Phys - 1
  <2> HIDE DEF y
  <2> QED BY <1>2, ModDecompose
<1>5. x - y = k * Phys
  BY <1>1, <1>2
<1> HIDE DEF qx, qy, y
<1>6. (x % Phys) - (y % Phys) = Phys * (k + qy - qx)
  BY <1>1, <1>2, <1>3, <1>4, <1>5
<1>7. CASE (x % Phys) >= (y % Phys)
  <2>1. k + qy - qx = 0
    BY <1>1, <1>2, <1>3, <1>4, <1>6, <1>7, MultipleInside
  <2> QED BY <1>2, <1>3, <1>4, <1>6, <2>1 DEF Slot, y
<1>8. CASE (x % Phys) < (y % Phys)
  <2>1. (y % Phys) - (x % Phys) = Phys * (qx - k - qy)
    BY <1>1, <1>2, <1>3, <1>4, <1>6
  <2>2. qx - k - qy = 0
    BY <1>1, <1>2, <1>3, <1>4, <1>8, <2>1, MultipleInside
  <2> QED BY <1>2, <1>3, <1>4, <1>8, <2>1, <2>2
<1> QED BY <1>2, <1>3, <1>4, <1>7, <1>8

LEMMA Places ==
  ASSUME NEW h \in Index, NEW j \in Nat, j < W
  PROVE  /\ Place(h, j) \in Index
         /\ Slot(h + j) = Slot(Place(h, j))
         /\ WSub(Place(h, j), h) = j
         /\ Slot(h + j) \in 0 .. Phys - 1
<1>1. Place(h, j) \in Index /\ WSub(Place(h, j), h) = j /\ h + j \in Nat
  BY Sizes DEF Place, WSub, Index
<1>2. Slot(h + j) = Slot(Place(h, j))
  <2>1. CASE h + j >= W
    <3> DEFINE x == h + j
    <3>1. x \in Nat /\ x >= W /\ Place(h, j) = x - W
      BY <1>1, <2>1, Sizes DEF Place, Index
    <3> HIDE DEF x
    <3>2. Slot(x) = Slot(x - W)
      BY <3>1, SlotWraps
    <3> QED BY <3>1, <3>2 DEF x
  <2>2. CASE ~(h + j >= W)
    BY <2>2 DEF Place
  <2> QED BY <2>1, <2>2
<1> QED BY <1>1, <1>2, SlotInBuf

(* Recognising Append and Tail by what they leave at every position. *)
LEMMA IsAppend ==
  ASSUME NEW S, NEW s \in Seq(S), NEW t \in Seq(S), NEW e \in S,
         Len(t) = Len(s) + 1, t[Len(s) + 1] = e, \A i \in 1 .. Len(s) : t[i] = s[i]
  PROVE  t = Append(s, e)
<1>1. Append(s, e) \in Seq(S) /\ Len(Append(s, e)) = Len(s) + 1
  OBVIOUS
<1>2. \A i \in 1 .. Len(s) + 1 : Append(s, e)[i] = t[i]
  OBVIOUS
<1> QED BY <1>1, <1>2, SeqEqual

LEMMA IsTail ==
  ASSUME NEW S, NEW s \in Seq(S), NEW t \in Seq(S), s # << >>,
         Len(s) = Len(t) + 1, \A i \in 1 .. Len(t) : t[i] = s[i + 1]
  PROVE  t = Tail(s)
<1>1. Tail(s) \in Seq(S) /\ Len(Tail(s)) = Len(s) - 1
  OBVIOUS
<1>2. \A i \in 1 .. Len(t) : Tail(s)[i] = t[i]
  OBVIOUS
<1> QED BY <1>1, <1>2, SeqEqual

(* The queue position by position *)
Content == Item \cup {Uninit}
ItemsAre ==
  /\ WSub(tail, head) - popped \in 0 .. Cap
  /\ items \in Seq(Content)
  /\ Len(items) = WSub(tail, head) - popped
  /\ \A i \in 1 .. Len(items) : items[i] = buf[Slot(head + popped + i - 1)]

LEMMA ItemsLemma == IndexInv => ItemsAre
<1> SUFFICES ASSUME IndexInv PROVE ItemsAre
  OBVIOUS
<1>1. WSub(tail, head) - popped \in 0 .. Cap /\ popped \in 0 .. 1 /\ head \in Index
  BY Sizes DEF IndexInv, TypeOK, IndicesOrdered, SpaceProved, ItemProved, Dist, WSub, Index, popped
<1>2. \A i \in 1 .. WSub(tail, head) - popped : buf[Slot(head + popped + i - 1)] \in Content
  <2> SUFFICES ASSUME NEW i \in 1 .. WSub(tail, head) - popped
               PROVE  buf[Slot(head + popped + i - 1)] \in Content
    OBVIOUS
  <2> DEFINE j == popped + i - 1
  <2>1. j \in Nat /\ j < W /\ head + popped + i - 1 = head + j
    BY <1>1, Sizes DEF Index
  <2> HIDE DEF j
  <2>2. Slot(head + j) \in 0 .. Phys - 1
    BY <1>1, <2>1, Places
  <2> QED BY <2>1, <2>2 DEF IndexInv, TypeOK, Content
<1>3. items \in [1 .. WSub(tail, head) - popped -> Content]
  BY <1>2 DEF items
<1> QED BY <1>1, <1>3 DEF ItemsAre, items

(* Position i of the queue, by the index it has in the ring *)
LEMMA InQueue ==
  ASSUME IndexInv, NEW i \in 1 .. WSub(tail, head) - popped
  PROVE  \E x \in Index : /\ Slot(head + popped + i - 1) = Slot(x)
                          /\ WSub(x, head) = popped + i - 1
                          /\ Live(x)
<1> DEFINE j == popped + i - 1
<1>1. j \in Nat /\ j < W /\ head + popped + i - 1 = head + j /\ head \in Index
      /\ popped <= j /\ j < WSub(tail, head)
  BY Sizes DEF IndexInv, TypeOK, IndicesOrdered, Dist, WSub, Index, popped
<1> HIDE DEF j
<1>2. /\ Place(head, j) \in Index /\ Slot(head + j) = Slot(Place(head, j))
      /\ WSub(Place(head, j), head) = j
  BY <1>1, Places
<1>3. Live(Place(head, j))
  BY <1>1, <1>2 DEF Live, popped, WSub, Index
<1> QED BY <1>1, <1>2, <1>3 DEF j

(* A step that leaves the slots of the queue alone leaves the queue alone. *)
LEMMA SameItems ==
  ASSUME ItemsAre, ItemsAre', Len(items') = Len(items),
         \A i \in 1 .. Len(items) :
           buf'[Slot(head' + popped' + i - 1)] = buf[Slot(head + popped + i - 1)]
  PROVE  items' = items
BY SeqEqual DEF ItemsAre

LEMMA StepRefines == IndInv /\ WrittenItem /\ [Next]_vars => [Q!QNext]_(Q!qvars)
<1> SUFFICES ASSUME IndInv, WrittenItem, [Next]_vars
             PROVE  Q!QNext \/ UNCHANGED <<items, visible, space>>
  BY DEF Q!qvars
<1>0. IndexInv /\ IndexInv'
  BY IndexStep DEF IndInv, IndexInv
<1>a. ItemsAre /\ ItemsAre'
  <2>1. IndexInv' => ItemsAre'
    BY ItemsLemma, PTL
  <2> QED BY <1>0, <2>1, ItemsLemma
<1>b. tail \in Index /\ head \in Index /\ Slot(tail) \in 0 .. Phys - 1 /\ Slot(head) \in 0 .. Phys - 1
  BY <1>0, SlotInBuf DEF IndexInv, TypeOK
(* Steps that only look *)
<1>1. CASE \E v \in Item : PushCached(v) \/ PushRefresh(v)
  BY <1>1 DEF PushCached, PushRefresh, Accept, cvars, items, visible, space, popped
<1>2. CASE \E limit \in 1 .. Cap : ReserveBatch(limit)
  BY <1>2 DEF ReserveBatch, cvars, items, visible, space, popped
<1>3. CASE PopCached \/ PopRefresh
  BY <1>3 DEF PopCached, PopRefresh, pvars, items, visible, space, popped
(* The slot written is none of the queue's. *)
<1>4. CASE PushWrite
  <2>1. /\ buf' = [buf EXCEPT ![Slot(tail)] = pitem]
        /\ UNCHANGED <<tail, head, tailVis, headVis, popped>>
    BY <1>4 DEF PushWrite, cvars, popped
  <2>2. ASSUME NEW i \in 1 .. Len(items)
        PROVE  buf'[Slot(head + popped + i - 1)] = buf[Slot(head + popped + i - 1)]
    <3>1. PICK x \in Index : /\ Slot(head + popped + i - 1) = Slot(x)
                             /\ WSub(x, head) = popped + i - 1 /\ Live(x)
      BY <1>0, <1>a, InQueue DEF ItemsAre
    <3>2. x # tail
      BY <1>4, <1>b, <3>1, Sizes DEF PushWrite, Live, WSub, Index
    <3>3. Slot(x) # Slot(tail)
      BY <1>0, <1>4, <1>b, <3>1, <3>2, LiveInjective DEF PushWrite
    <3>4. Slot(x) \in 0 .. Phys - 1
      BY SlotInBuf
    <3> QED BY <2>1, <3>1, <3>3, <3>4 DEF IndexInv, TypeOK
  <2>3. Len(items') = Len(items)
    BY <1>a, <2>1 DEF ItemsAre
  <2>4. items' = items
    BY <1>a, <2>1, <2>2, <2>3, SameItems
  <2> QED BY <2>1, <2>4 DEF visible, space
(* The store of tail appends the item. *)
<1>5. CASE PushPublish
  <2>1. /\ tail' = WInc(tail) /\ pitem \in Item /\ buf[Slot(tail)] = pitem /\ ppc = "publish"
        /\ UNCHANGED <<buf, head, tailVis, headVis, cachedHead, popped>>
    BY <1>5 DEF PushPublish, WrittenItem, cvars, popped
  <2>a. WSub(tail, headVis) < Cap /\ WSub(tail, head) < Cap /\ headVis \in Index
    BY <1>0, <2>1, Sizes DEF IndexInv, TypeOK, IndicesOrdered, SpaceProved, Dist, WSub, Index
  <2>2. /\ WSub(tail', head) = WSub(tail, head) + 1
        /\ WSub(tail', headVis) = WSub(tail, headVis) + 1
        /\ WSub(tail, headVis) < Cap /\ WSub(tail, headVis) \in Nat
        /\ WSub(tail, head) \in Nat /\ popped \in 0 .. 1
    BY <1>b, <2>1, <2>a, Sizes DEF WSub, WInc, Index, popped
  <2>3. Len(items') = Len(items) + 1
    BY <1>a, <2>1, <2>2 DEF ItemsAre
  <2>4. \A i \in 1 .. Len(items) : items'[i] = items[i]
    BY <1>a, <2>1, <2>3 DEF ItemsAre
  <2>5. items'[Len(items) + 1] = pitem
    <3> DEFINE d == WSub(tail, head)
    <3>1. d \in Nat /\ d < W /\ Place(head, d) = tail
      BY <1>b, Sizes DEF WSub, Index, Place
    <3>a. head + popped + (Len(items) + 1) - 1 = head + d
      <4>1. Len(items) = d - popped /\ d \in Nat /\ popped \in 0 .. 1
        BY <1>a, <2>2 DEF ItemsAre, d
      <4>2. head \in Nat
        BY <1>b DEF Index
      <4> QED BY <4>1, <4>2
    <3> HIDE DEF d
    <3>2. Slot(head + d) = Slot(tail)
      BY <1>b, <3>1, Places
    <3>3. items'[Len(items) + 1] = buf'[Slot(head' + popped' + (Len(items) + 1) - 1)]
      BY <1>a, <2>3 DEF ItemsAre
    <3> QED BY <2>1, <3>a, <3>2, <3>3
  <2>6. items' = Append(items, pitem)
    <3>1. pitem \in Content
      BY <2>1 DEF Content
    <3>2. items \in Seq(Content) /\ items' \in Seq(Content)
      BY <1>a DEF ItemsAre
    <3> QED BY <2>3, <2>4, <2>5, <3>1, <3>2, IsAppend
  <2>7. space > 0 /\ space' = space - 1 /\ visible' = visible
    BY <2>1, <2>2, Sizes DEF space, visible
  <2>8. Q!Push(pitem)
    BY <2>6, <2>7 DEF Q!Push
  <2> QED BY <2>1, <2>8 DEF Q!QNext
(* The item leaves the queue with its slot. *)
<1>6. CASE PopRead
  <2>1. /\ buf' = [buf EXCEPT ![Slot(head)] = Uninit]
        /\ UNCHANGED <<tail, head, tailVis, headVis>> /\ popped = 0 /\ popped' = 1
    BY <1>6 DEF PopRead, pvars, popped
  <2>2. /\ WSub(tailVis, head) > 0 /\ WSub(tailVis, head) \in Nat /\ WSub(tail, head) \in Nat
        /\ WSub(tail, head) > 0
    BY <1>0, <1>6, Sizes
    DEF PopRead, IndexInv, TypeOK, IndicesOrdered, ItemProved, Dist, WSub, Index
  <2>3. Len(items) = Len(items') + 1
    BY <1>a, <2>1, <2>2 DEF ItemsAre
  <2>4. ASSUME NEW i \in 1 .. Len(items')
        PROVE  items'[i] = items[i + 1]
    <3>1. i + 1 \in 1 .. WSub(tail, head) - popped /\ i + 1 \in 1 .. Len(items)
      BY <1>a, <2>1, <2>2, <2>3 DEF ItemsAre
    <3>2. PICK x \in Index : /\ Slot(head + popped + (i + 1) - 1) = Slot(x)
                             /\ WSub(x, head) = popped + (i + 1) - 1 /\ Live(x)
      BY <1>0, <3>1, InQueue
    <3>3. x # head /\ Live(head)
      BY <1>6, <1>b, <2>1, <2>2, <3>1, <3>2, Sizes DEF PopRead, Live, WSub, Index
    <3>4. Slot(x) # Slot(head) /\ Slot(x) \in 0 .. Phys - 1
      BY <1>0, <1>b, <3>2, <3>3, LiveInjective, SlotInBuf
    <3>5. buf'[Slot(x)] = buf[Slot(x)]
      BY <1>0, <2>1, <3>4 DEF IndexInv, TypeOK
    <3>6. head + popped + (i + 1) - 1 = head' + popped' + i - 1
      BY <1>b, <2>1, <3>1 DEF Index
    <3> QED BY <1>a, <3>1, <3>2, <3>5, <3>6 DEF ItemsAre
  <2>5. items' = Tail(items)
    <3>1. items \in Seq(Content) /\ items' \in Seq(Content) /\ items # << >>
      BY <1>a, <2>1, <2>2 DEF ItemsAre
    <3> QED BY <2>3, <2>4, <3>1, IsTail
  <2>6. visible > 0 /\ visible' = visible - 1 /\ space' = space
    BY <2>1, <2>2 DEF visible, space
  <2> QED BY <2>5, <2>6 DEF Q!Pop, Q!QNext
<1>7. CASE PopPublish
  <2>1. /\ head' = WInc(head) /\ popped = 1 /\ popped' = 0
        /\ UNCHANGED <<buf, tail, tailVis, headVis>>
    BY <1>7 DEF PopPublish, pvars, popped
  <2>2. /\ WSub(tail, head') = WSub(tail, head) - 1 /\ WSub(tailVis, head') = WSub(tailVis, head) - 1
        /\ WSub(tail, head) \in Nat /\ WSub(tailVis, head) \in Nat /\ WSub(tail, head) < W
    BY <1>0, <1>7, <2>1, Sizes, SMTT(30)
    DEF PopPublish, IndexInv, TypeOK, IndicesOrdered, ItemProved, Dist, WSub, WInc, Index
  <2>3. Len(items') = Len(items)
    BY <1>a, <2>1, <2>2 DEF ItemsAre
  <2>4. ASSUME NEW i \in 1 .. Len(items)
        PROVE  Slot(head' + popped' + i - 1) = Slot(head + popped + i - 1)
    <3>0. i \in Nat /\ i >= 1 /\ i < W /\ head \in Nat /\ head < W
      BY <1>a, <1>b, <2>1, <2>2, Sizes, SMTT(30) DEF ItemsAre, Index
    <3>1. CASE head + 1 = W
      <4> DEFINE x == head + i
      <4>1. x \in Nat /\ x >= W /\ head + popped + i - 1 = x /\ head' + popped' + i - 1 = x - W
        BY <2>1, <3>0, <3>1 DEF WInc
      <4> HIDE DEF x
      <4> QED BY <4>1, SlotWraps
    <3>2. CASE head + 1 # W
      <4>1. head' + popped' + i - 1 = head + popped + i - 1
        BY <2>1, <3>0, <3>2 DEF WInc
      <4> QED BY <4>1
    <3> QED BY <3>1, <3>2
  <2>5. items' = items
    <3>1. \A i \in 1 .. Len(items) :
            buf'[Slot(head' + popped' + i - 1)] = buf[Slot(head + popped + i - 1)]
      BY <2>1, <2>4
    <3> QED BY <1>a, <2>3, <3>1, SameItems
  <2>6. visible' = visible /\ space' = space
    BY <2>1, <2>2 DEF visible, space
  <2> QED BY <2>5, <2>6
(* A store becomes visible. *)
<1>8. CASE FlushTail
  <2>1. items' = items /\ space' = space
    BY <1>8 DEF FlushTail, pvars, cvars, items, space, popped
  <2>a. WSub(tailVis, head) < WSub(tail, head) /\ tailVis \in Index
    BY <1>0, <1>8, Sizes DEF FlushTail, IndexInv, TypeOK, IndicesOrdered, Dist, WSub, Index
  <2>2. visible' = visible + 1 /\ visible < WSub(tail, head) - popped
    <3>1. WSub(WInc(tailVis), head) = WSub(tailVis, head) + 1 /\ WSub(tailVis, head) \in Nat
      BY <1>b, <2>a, Sizes DEF WSub, WInc, Index
    <3>2. UNCHANGED <<head, popped>> /\ tailVis' = WInc(tailVis) /\ popped \in 0 .. 1
      BY <1>8 DEF FlushTail, pvars, cvars, popped
    <3>3. WSub(tail, head) \in Nat
      BY <1>b, Sizes DEF WSub, Index
    <3> QED BY <2>a, <3>1, <3>2, <3>3 DEF visible
  <2> QED BY <1>a, <2>1, <2>2 DEF ItemsAre, Q!Show, Q!QNext
<1>9. CASE FlushHead
  <2>1. items' = items /\ visible' = visible
    BY <1>9 DEF FlushHead, pvars, cvars, items, visible, popped
  <2>a. WSub(tail, head) < WSub(tail, headVis) /\ headVis \in Index
    BY <1>0, <1>9, Sizes DEF FlushHead, IndexInv, TypeOK, IndicesOrdered, Dist, WSub, Index
  <2>2. space' = space + 1 /\ space + (WSub(tail, head) - popped) < Cap
    <3>1. /\ WSub(tail, WInc(headVis)) = WSub(tail, headVis) - 1 /\ WSub(tail, headVis) \in Nat
          /\ WSub(tail, head) \in Nat
      BY <1>b, <2>a, Sizes DEF WSub, WInc, Index
    <3>2. tail' = tail /\ headVis' = WInc(headVis) /\ popped \in 0 .. 1
      BY <1>9 DEF FlushHead, pvars, popped
    <3> QED BY <2>a, <3>1, <3>2, Sizes DEF space
  <2> QED BY <1>a, <2>1, <2>2 DEF ItemsAre, Q!Refund, Q!QNext
<1>10. CASE DropRing
  <2>1. /\ head' = tail /\ tail' = tail /\ tailVis' = tail /\ popped' = 0 /\ space' = space
    BY <1>10 DEF DropRing, pvars, popped, space
  <2>2. WSub(tail, tail) = 0
    BY <1>b DEF WSub, Index
  <2>3. Len(items') = 0 /\ visible' = 0
    BY <1>a, <2>1, <2>2 DEF ItemsAre, visible
  <2>4. items' = << >>
    BY <1>a, <2>3 DEF ItemsAre
  <2> QED BY <2>1, <2>3, <2>4 DEF Q!Discard, Q!QNext
<1>11. CASE UNCHANGED vars
  BY <1>11 DEF vars, pvars, cvars, items, visible, space, popped
<1> QED
  BY <1>1, <1>2, <1>3, <1>4, <1>5, <1>6, <1>7, <1>8, <1>9, <1>10, <1>11 DEF Next, Gone

(* For every capacity, buffer length and index width, the ring is a bounded *)
(* FIFO queue with credits: items come out in order, none is lost or        *)
(* repeated, push is refused only without credit and pop finds nothing only *)
(* if nothing is visible.                                                   *)
THEOREM Refinement == Spec => ImplementsQueue
<1>1. Init => Q!QInit
  <2> SUFFICES ASSUME Init PROVE Q!QInit
    OBVIOUS
  <2>1. IndexInv
    BY InitInv DEF IndInv, IndexInv
  <2>2. ItemsAre
    BY <2>1, ItemsLemma
  <2>3. WSub(tail, head) = 0 /\ popped = 0 /\ visible = 0 /\ space = Cap
    BY Sizes DEF Init, WSub, popped, visible, space
  <2>4. items = << >>
    BY <2>2, <2>3 DEF ItemsAre
  <2> QED BY <2>3, <2>4 DEF Q!QInit
<1>2. Init => WrittenItem
  BY DEF Init, WrittenItem
<1> QED BY <1>1, <1>2, InitInv, InvStep, WrittenStep, StepRefines, PTL DEF Spec, ImplementsQueue, Q!QSpec
==============================================================================
