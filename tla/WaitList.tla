------------------------------ MODULE WaitList ------------------------------
(***************************************************************************)
(* The intrusive FIFO wait list of channels/src/sync/wait_queue.rs as a    *)
(* sequence of node owners: a node is named by the waiter that owns it,    *)
(* and a waiter owns one node at a time. The doubly linked prev and next   *)
(* pointers, head, tail, len and the count of writers are functions of     *)
(* the sequence.                                                           *)
(***************************************************************************)
EXTENDS Integers, Sequences, WellFoundedInduction, TLAPS

Linked(q) == {q[i] : i \in 1..Len(q)}

LinkBack(q, n) == IF n \in Linked(q) THEN q ELSE Append(q, n)

Unlink(q, n) ==
  IF n \in Linked(q)
  THEN LET i == CHOOSE i \in 1..Len(q) : q[i] = n
       IN  SubSeq(q, 1, i - 1) \o SubSeq(q, i + 1, Len(q))
  ELSE q

\* The first node in FIFO order whose owner is in S; S meets the list.
FirstIn(q, S) ==
  q[CHOOSE i \in 1..Len(q) : q[i] \in S /\ \A j \in 1..(i - 1) : q[j] \notin S]

-----------------------------------------------------------------------------
(* What the proofs about the locks need to know of the list. *)

NoRepeats(q) == \A i, j \in 1..Len(q) : q[i] = q[j] => i = j

\* What joining the two parts around an unlinked node gives.
LEMMA Joined ==
  ASSUME NEW S, NEW u \in Seq(S), NEW v \in Seq(S)
  PROVE  /\ u \o v \in Seq(S) /\ Len(u \o v) = Len(u) + Len(v)
         /\ \A j \in 1..(Len(u) + Len(v)) : (u \o v)[j] = IF j <= Len(u) THEN u[j] ELSE v[j - Len(u)]
OBVIOUS

\* Unlink takes one node out and leaves the others.
LEMMA UnlinkRemoves ==
  ASSUME NEW S, NEW q \in Seq(S), NEW n, NoRepeats(q)
  PROVE  /\ Unlink(q, n) \in Seq(S) /\ NoRepeats(Unlink(q, n))
         /\ Linked(Unlink(q, n)) = Linked(q) \ {n}
<1>1. CASE n \notin Linked(q)
  BY <1>1 DEF Unlink, Linked
<1>2. CASE n \in Linked(q)
  <2>. DEFINE k == CHOOSE i \in 1..Len(q) : q[i] = n
              u == SubSeq(q, 1, k - 1)
              v == SubSeq(q, k + 1, Len(q))
              r == u \o v
  <2>1. k \in 1..Len(q) /\ q[k] = n
    BY <1>2 DEF Linked
  <2>2. Unlink(q, n) = r
    BY <1>2 DEF Unlink
  <2>. HIDE DEF k
  <2>3. u \in Seq(S) /\ Len(u) = k - 1 /\ \A j \in 1..(k - 1) : u[j] = q[j]
    BY <2>1
  <2>4. /\ v \in Seq(S) /\ Len(v) = Len(q) - k
        /\ \A j \in 1..(Len(q) - k) : v[j] = q[k + j]
    BY <2>1
  <2>. HIDE DEF u, v
  <2>5. r \in Seq(S) /\ Len(r) = Len(u) + Len(v)
    BY <2>3, <2>4, Joined
  <2>6. \A j \in 1..(Len(u) + Len(v)) : r[j] = IF j <= Len(u) THEN u[j] ELSE v[j - Len(u)]
    BY <2>3, <2>4, Joined
  <2>. HIDE DEF r
  <2>7. r \in Seq(S) /\ Len(r) = Len(q) - 1
    BY <2>1, <2>3, <2>4, <2>5
  <2>8. Len(q) \in Nat /\ k \in Nat /\ k >= 1 /\ k <= Len(q)
    BY <2>1
  <2>9. \A j \in 1..(Len(q) - 1) : r[j] = IF j < k THEN q[j] ELSE q[j + 1]
    <3>1. SUFFICES ASSUME NEW j \in 1..(Len(q) - 1)
                   PROVE  r[j] = IF j < k THEN q[j] ELSE q[j + 1]
      OBVIOUS
    <3>2. j \in 1..(Len(u) + Len(v))
      BY <2>3, <2>4, <2>8
    <3>3. r[j] = IF j <= k - 1 THEN u[j] ELSE v[j - (k - 1)]
      BY <2>3, <2>6, <3>2
    <3>4. CASE j <= k - 1
      <4>1. j \in 1..(k - 1) /\ j < k
        BY <2>8, <3>4
      <4>. QED BY <2>3, <3>3, <3>4, <4>1
    <3>5. CASE ~(j <= k - 1)
      <4>1. /\ j - (k - 1) \in 1..(Len(q) - k) /\ ~(j < k)
            /\ k + (j - (k - 1)) = j + 1
        BY <2>8, <3>5
      <4>. QED BY <2>4, <3>3, <3>5, <4>1
    <3>. QED BY <3>4, <3>5
  <2>10. NoRepeats(r)
    <3>. SUFFICES ASSUME NEW i \in 1..Len(r), NEW j \in 1..Len(r), r[i] = r[j]
                  PROVE  i = j
      BY DEF NoRepeats
    <3>1. PICK a \in 1..Len(q) : r[i] = q[a] /\ a = IF i < k THEN i ELSE i + 1
      BY <2>7, <2>8, <2>9
    <3>2. PICK b \in 1..Len(q) : r[j] = q[b] /\ b = IF j < k THEN j ELSE j + 1
      BY <2>7, <2>8, <2>9
    <3>3. a = b
      BY <3>1, <3>2 DEF NoRepeats
    <3>. QED BY <2>7, <2>8, <3>1, <3>2, <3>3
  <2>11. \A j \in 1..Len(q) : j # k => \E i \in 1..Len(r) : r[i] = q[j]
    <3>1. SUFFICES ASSUME NEW j \in 1..Len(q), j # k PROVE \E i \in 1..Len(r) : r[i] = q[j]
      OBVIOUS
    <3>2. CASE j < k
      BY <2>1, <2>7, <2>9, <3>1, <3>2
    <3>3. CASE j > k
      <4>1. j - 1 \in 1..Len(r) /\ r[j - 1] = q[j]
        BY <2>1, <2>7, <2>9, <3>1, <3>3
      <4>. QED BY <4>1
    <3>. QED BY <2>1, <3>1, <3>2, <3>3
  <2>12. \A i \in 1..Len(r) : \E j \in 1..Len(q) : j # k /\ r[i] = q[j]
    <3>1. SUFFICES ASSUME NEW i \in 1..Len(r) PROVE \E j \in 1..Len(q) : j # k /\ r[i] = q[j]
      OBVIOUS
    <3>2. CASE i < k
      BY <2>1, <2>7, <2>9, <3>2
    <3>3. CASE i >= k
      <4>1. i + 1 \in 1..Len(q) /\ i + 1 # k /\ r[i] = q[i + 1]
        BY <2>1, <2>7, <2>9, <3>3
      <4>. QED BY <4>1
    <3>. QED BY <2>1, <2>7, <3>2, <3>3
  <2>13. \A j \in 1..Len(q) : j # k => q[j] # n
    BY <2>1 DEF NoRepeats
  <2>14. Linked(r) = Linked(q) \ {n}
    <3>1. \A x \in Linked(r) : x \in Linked(q) /\ x # n
      BY <2>12, <2>13 DEF Linked
    <3>2. \A x \in Linked(q) : x # n => x \in Linked(r)
      BY <2>1, <2>11 DEF Linked
    <3>. QED BY <3>1, <3>2
  <2>. QED BY <2>2, <2>7, <2>10, <2>14
<1>. QED BY <1>1, <1>2

\* LinkBack puts one node in, once.
LEMMA LinkBackAdds ==
  ASSUME NEW S, NEW q \in Seq(S), NEW n \in S, NoRepeats(q)
  PROVE  /\ LinkBack(q, n) \in Seq(S) /\ NoRepeats(LinkBack(q, n))
         /\ Linked(LinkBack(q, n)) = Linked(q) \cup {n}
<1>1. CASE n \in Linked(q)
  BY <1>1 DEF LinkBack
<1>2. CASE n \notin Linked(q)
  <2>1. LinkBack(q, n) = Append(q, n)
    BY <1>2 DEF LinkBack
  <2>2. /\ Append(q, n) \in Seq(S) /\ Len(Append(q, n)) = Len(q) + 1
        /\ \A i \in 1..Len(q) : Append(q, n)[i] = q[i]
        /\ Append(q, n)[Len(q) + 1] = n
    OBVIOUS
  <2>. DEFINE r == Append(q, n)
  <2>. HIDE DEF r
  <2>3. NoRepeats(r)
    BY <1>2, <2>2 DEF NoRepeats, Linked, r
  <2>4. \A x : x \in Linked(r) <=> x \in Linked(q) \/ x = n
    BY <2>2 DEF Linked, r
  <2>. QED BY <2>1, <2>2, <2>3, <2>4 DEF r
<1>. QED BY <1>1, <1>2

\* FirstIn finds one of those it looks for.
LEMMA FirstInIsFirst ==
  ASSUME NEW T, NEW q \in Seq(T), NEW S, S \subseteq Linked(q), S # {}
  PROVE  FirstIn(q, S) \in S
<1>. DEFINE I == {i \in 1..Len(q) : q[i] \in S}
<1>1. I \subseteq Nat /\ I # {}
  BY DEF Linked
<1>. DEFINE R == {ss \in Nat \X Nat : ss[1] < ss[2]}
<1>2. IsWellFoundedOn(R, Nat)
  BY NatLessThanWellFounded DEF OpToRel
<1>. HIDE DEF R
<1>3. PICK i \in I : \A j \in I : ~(<<j, i>> \in R)
  BY <1>1, <1>2, WFMin, Zenon
<1>4. \A j \in I : ~(j < i)
  BY <1>1, <1>3 DEF R
<1>5. \E k \in 1..Len(q) : q[k] \in S /\ \A j \in 1..(k - 1) : q[j] \notin S
  BY <1>4
<1>. QED BY <1>5 DEF FirstIn
=============================================================================
