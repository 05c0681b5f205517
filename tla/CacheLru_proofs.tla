--------------------------- MODULE CacheLru_proofs --------------------------
(***************************************************************************)
(* Proofs about CacheLru for every number of ways: the bits of the history *)
(* are the order of the last uses, so the way to be replaced is the one    *)
(* used longest ago.                                                       *)
(***************************************************************************)
EXTENDS CacheLru, TLAPS

\* No stamp lies in the future: the next access is later than all others.
StampsPast == \A w \in Way : stamp[w] <= accesses

IInv == LruTypeOK /\ OrderOfUse /\ StampsPast

LEMMA Ways == Way \subseteq Nat
  BY WaysAssumption DEF Way

\* The matrix of a history, entry by entry.
LEMMA Entries ==
  ASSUME NEW h \in [Pair -> BOOLEAN], NEW i \in Way, NEW j \in Way
  PROVE  /\ i = j => expand(h)[i][j] = TRUE
         /\ i < j => expand(h)[i][j] = h[<<i, j>>]
         /\ j < i => expand(h)[i][j] = ~h[<<j, i>>]
<1>1. expand(h)[i][j] = IF i = j THEN TRUE
                        ELSE IF i < j THEN h[<<i, j>>] ELSE ~h[<<j, i>>]
  BY Zenon DEF expand
<1>2. i \in Nat /\ j \in Nat
  BY Ways
<1>3. CASE i = j
  <2>1. ~(i < j) /\ ~(j < i)
    BY <1>2, <1>3
  <2> QED BY <1>1, <1>3, <2>1, Zenon
<1>4. CASE i < j
  <2>1. i # j /\ ~(j < i)
    BY <1>2, <1>4
  <2> QED BY <1>1, <1>4, <2>1, Zenon
<1>5. CASE j < i
  <2>1. i # j /\ ~(i < j)
    BY <1>2, <1>5
  <2> QED BY <1>1, <1>5, <2>1, Zenon
<1> QED BY <1>2, <1>3, <1>4, <1>5

LEMMA Matrix ==
  ASSUME NEW h \in [Pair -> BOOLEAN], NEW i \in Way, NEW j \in Way
  PROVE  /\ expand(h)[i][j] \in BOOLEAN
         /\ expand(h)[i][i]
         /\ i # j => (expand(h)[i][j] <=> ~expand(h)[j][i])
<1>1. i \in Nat /\ j \in Nat
  BY Ways
<1>2. /\ i < j => h[<<i, j>>] \in BOOLEAN
      /\ j < i => h[<<j, i>>] \in BOOLEAN
  BY DEF Pair
<1>3. expand(h)[i][i]
  BY Entries
<1>4. CASE i = j
  BY <1>3, <1>4
<1>5. CASE i < j
  <2>1. i # j
    BY <1>1, <1>5
  <2>2. expand(h)[i][j] = h[<<i, j>>] /\ expand(h)[j][i] = ~h[<<i, j>>]
    BY <1>5, Entries, Zenon
  <2> QED BY <2>1, <2>2, <1>2, <1>3, <1>5, Zenon
<1>6. CASE j < i
  <2>1. i # j
    BY <1>1, <1>6
  <2>2. expand(h)[i][j] = ~h[<<j, i>>] /\ expand(h)[j][i] = h[<<j, i>>]
    BY <1>6, Entries, Zenon
  <2> QED BY <2>1, <2>2, <1>2, <1>3, <1>6, Zenon
<1> QED BY <1>1, <1>4, <1>5, <1>6

(***************************************************************************)
(* After an access to w: w is younger than every other way, the others     *)
(* keep their order.                                                       *)
(***************************************************************************)
LEMMA OlderAfter ==
  ASSUME history \in [Pair -> BOOLEAN], NEW w \in Way, history' = update({w})
  PROVE  /\ history' \in [Pair -> BOOLEAN]
         /\ \A i, j \in Way : i # j => (Older(i, j)' <=> i # w /\ (j = w \/ Older(i, j)))
<1> DEFINE m == accessed(expand(history), {w})
           after(i, j) == i # w /\ (j = w \/ Older(i, j))
<1>1. ASSUME NEW i \in Way, NEW j \in Way, i # j
      PROVE  /\ m[i][j] <=> after(i, j)
             /\ m[i][j] \in BOOLEAN
             /\ after(i, j) <=> ~after(j, i)
  <2>1. m[i][j] = IF i = j THEN expand(history)[i][j]
                  ELSE IF i \in {w} THEN j \in {w} /\ i < j
                  ELSE j \in {w} \/ expand(history)[i][j]
    BY Zenon DEF accessed
  <2>2. /\ expand(history)[i][j] \in BOOLEAN
        /\ expand(history)[i][j] <=> ~expand(history)[j][i]
    BY <1>1, Matrix
  <2>3. /\ Older(i, j) = expand(history)[i][j]
        /\ Older(j, i) = expand(history)[j][i]
    BY DEF Older
  <2>4. i \in {w} => ~(j \in {w})
    BY <1>1
  <2>5. m[i][j] = (i # w /\ (j = w \/ Older(i, j)))
    BY <2>1, <2>3, <2>4, <1>1, Zenon
  <2>6. after(i, j) <=> ~after(j, i)
    BY <2>2, <2>3, <1>1, Zenon
  <2> QED BY <2>2, <2>3, <2>5, <2>6, Zenon
<1>2. history' = [p \in Pair |-> m[p[1]][p[2]]]
  BY DEF update
<1> HIDE DEF m
<1>3. ASSUME NEW p \in Pair
      PROVE  m[p[1]][p[2]] \in BOOLEAN
  <2>1. PICK i \in Way, j \in Way : p = <<i, j>> /\ i < j
    BY DEF Pair
  <2>2. i # j
    BY <2>1, Ways
  <2>3. m[i][j] \in BOOLEAN
    BY <1>1, <2>2
  <2> QED BY <2>1, <2>3
<1>4. history' \in [Pair -> BOOLEAN]
  BY <1>2, <1>3, Zenon
<1>5. ASSUME NEW i \in Way, NEW j \in Way, i < j
      PROVE  history'[<<i, j>>] <=> after(i, j)
  <2>1. <<i, j>> \in Pair /\ i # j
    BY <1>5, Ways DEF Pair
  <2>2. history'[<<i, j>>] = m[<<i, j>>[1]][<<i, j>>[2]]
    BY <1>2, <2>1, Zenon
  <2> QED BY <1>1, <2>1, <2>2
<1>6. ASSUME NEW i \in Way, NEW j \in Way, i # j
      PROVE  Older(i, j)' <=> after(i, j)
  <2>1. Older(i, j)' = expand(history')[i][j]
    BY DEF Older, expand
  <2>2. CASE i < j
    <3>1. expand(history')[i][j] = history'[<<i, j>>]
      BY <1>4, <2>2, Entries, Zenon
    <3> QED BY <1>5, <2>1, <2>2, <3>1, Zenon
  <2>3. CASE j < i
    <3>1. expand(history')[i][j] = ~history'[<<j, i>>]
      BY <1>4, <2>3, Entries, Zenon
    <3>2. history'[<<j, i>>] <=> after(j, i)
      BY <1>5, <2>3
    <3>3. after(i, j) <=> ~after(j, i)
      BY <1>1, <1>6
    <3> QED BY <2>1, <3>1, <3>2, <3>3, Zenon
  <2> QED BY <2>2, <2>3, <1>6, Ways
<1> QED BY <1>4, <1>6
-----------------------------------------------------------------------------
JustInvalidated == /\ history = Invalidated
                   /\ stamp = InvalidatedStamp
                   /\ accesses \in 0 .. MaxAccesses

LEMMA InvalidIInv == JustInvalidated => IInv
<1> SUFFICES ASSUME JustInvalidated PROVE IInv
  OBVIOUS
<1> USE DEF JustInvalidated
<1>1. history \in [Pair -> BOOLEAN]
  BY DEF Invalidated
<1>2. stamp \in [Way -> Int] /\ \A w \in Way : stamp[w] = -w
  BY Ways DEF InvalidatedStamp
<1>3. StampsPast
  BY <1>2, Ways DEF StampsPast
<1>4. ASSUME NEW i \in Way, NEW j \in Way, i # j
      PROVE  Older(i, j) <=> stamp[i] < stamp[j]
  <2>1. i < j => <<i, j>> \in Pair /\ ~history[<<i, j>>]
    BY DEF Pair, Invalidated
  <2>2. j < i => <<j, i>> \in Pair /\ ~history[<<j, i>>]
    BY DEF Pair, Invalidated
  <2>3. Older(i, j) <=> j < i
    <3>1. CASE i < j
      <4>1. ~(j < i)
        BY <3>1, Ways
      <4>2. expand(history)[i][j] = history[<<i, j>>]
        BY <3>1, <1>1, Entries, Zenon
      <4> QED BY <2>1, <3>1, <4>1, <4>2, Zenon DEF Older
    <3>2. CASE j < i
      <4>1. expand(history)[i][j] = ~history[<<j, i>>]
        BY <3>2, <1>1, Entries, Zenon
      <4> QED BY <2>2, <3>2, <4>1, Zenon DEF Older
    <3> QED BY <3>1, <3>2, <1>4, Ways
  <2> QED BY <2>3, <1>2, Ways
<1> QED BY <1>1, <1>2, <1>3, <1>4 DEF IInv, LruTypeOK, OrderOfUse

LEMMA InitIInv == LruInit => IInv
  BY InvalidIInv, MaxAccessesAssumption DEF LruInit, JustInvalidated

LEMMA NextIInv == IInv /\ [LruNext]_lru_vars => IInv'
<1> SUFFICES ASSUME IInv, [LruNext]_lru_vars PROVE IInv'
  OBVIOUS
<1>1. ASSUME NEW w \in Way, Access(w)
      PROVE  IInv'
  <2>1. /\ history \in [Pair -> BOOLEAN]
        /\ stamp \in [Way -> Int]
        /\ accesses \in Nat
        /\ OrderOfUse /\ StampsPast
    BY <1>1, MaxAccessesAssumption DEF IInv, LruTypeOK
  <2>2. /\ history' \in [Pair -> BOOLEAN]
        /\ \A i, j \in Way : i # j => (Older(i, j)' <=> i # w /\ (j = w \/ Older(i, j)))
    BY <1>1, <2>1, OlderAfter DEF Access
  <2>3. /\ stamp' \in [Way -> Int]
        /\ stamp'[w] = accesses + 1
        /\ \A i \in Way \ {w} : stamp'[i] = stamp[i]
        /\ accesses' = accesses + 1
    BY <1>1, <2>1 DEF Access
  <2>4. accesses' \in 0 .. MaxAccesses
    BY <1>1, <2>1, MaxAccessesAssumption DEF Access
  <2>5. StampsPast'
    BY <2>1, <2>3 DEF StampsPast
  <2>6. \A i, j \in Way : i # j => (Older(i, j)' <=> stamp'[i] < stamp'[j])
    BY <2>1, <2>2, <2>3 DEF StampsPast, OrderOfUse
  <2> QED BY <2>2, <2>3, <2>4, <2>5, <2>6 DEF IInv, LruTypeOK, OrderOfUse
<1>2. ASSUME Invalidate
      PROVE  IInv'
  <2>1. JustInvalidated'
    BY <1>2 DEF Invalidate, IInv, LruTypeOK, JustInvalidated,
                Invalidated, InvalidatedStamp
  <2> QED BY <2>1, InvalidIInv, PTL
<1>3. ASSUME UNCHANGED lru_vars
      PROVE  IInv'
  BY <1>3 DEF IInv, LruTypeOK, OrderOfUse, StampsPast, Older, expand, lru_vars
<1> QED BY <1>1, <1>2, <1>3 DEF LruNext

THEOREM Invariance == LruSpec => []IInv
  BY InitIInv, NextIInv, PTL DEF LruSpec

\* The history keeps its width.
THEOREM TypeCorrect == LruSpec => []LruTypeOK
<1>1. IInv => LruTypeOK
  BY DEF IInv
<1> QED BY <1>1, Invariance, PTL

\* The bits are the order of the last uses, for every number of ways.
THEOREM HistoryIsOrderOfUse == LruSpec => []OrderOfUse
<1>1. IInv => OrderOfUse
  BY DEF IInv
<1> QED BY <1>1, Invariance, PTL

\* The way to replace is the one used longest ago.
THEOREM VictimCorrect == LruSpec => []VictimIsOldest
<1>1. IInv => VictimIsOldest
  <2> SUFFICES ASSUME IInv PROVE VictimIsOldest
    OBVIOUS
  <2>1. \A i \in Way : i \in lru_pre <=> \A j \in Way : Older(i, j)
    BY DEF lru_pre, AllOnes, Older
  <2>2. \A i \in Way : Older(i, i)
    BY Matrix DEF IInv, LruTypeOK, Older
  <2>3. \A i \in Way : i \in lru_pre <=> i \in Oldest
    BY <2>1, <2>2 DEF IInv, OrderOfUse, Oldest
  <2> QED BY <2>3 DEF VictimIsOldest, lru_pre, AllOnes, Oldest
<1> QED BY <1>1, Invariance, PTL

=============================================================================
