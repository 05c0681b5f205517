------------------------------ MODULE CacheLru ------------------------------
(***************************************************************************)
(* The least recently used history of one cache set, mor1kx_cache_lru.v,   *)
(* as the instruction cache keeps it in its tag memory.  The history has   *)
(* one bit for every pair of ways i < j: "i is older than j".  The module  *)
(* computes which way to replace and the history after an access; its      *)
(* lru_post output, which no cache connects, is left out.                  *)
(*                                                                         *)
(* The flat vector of the code lists the pairs row by row; here it is a    *)
(* function on the pairs.  A one-hot vector of ways is a set of ways.      *)
(***************************************************************************)
EXTENDS Integers

CONSTANTS NUMWAYS,      \* number of ways
          MaxAccesses   \* bound: accesses

ASSUME WaysAssumption == NUMWAYS \in Nat /\ NUMWAYS > 1
ASSUME MaxAccessesAssumption == MaxAccesses \in Nat

Way  == 0 .. NUMWAYS - 1
Pair == {p \in Way \X Way : p[1] < p[2]}

VARIABLES history,   \* the LRU field of the set's tag memory entry
          stamp,     \* for the properties: when each way was used last
          accesses   \* how many accesses there were

lru_vars == <<history, stamp, accesses>>

\* The matrix of a history: entry (i, j) says that i is older than j.
\* Mutant: the lower half is copied, not inverted.
expand_Copied(h) == [i \in Way |-> [j \in Way |->
    IF i = j THEN TRUE ELSE IF i < j THEN h[<<i, j>>] ELSE h[<<j, i>>]]]
expand(h) == [i \in Way |-> [j \in Way |->
    IF i = j THEN TRUE ELSE IF i < j THEN h[<<i, j>>] ELSE ~h[<<j, i>>]]]

\* The ways whose row is all ones.
AllOnes(m) == {i \in Way : \A j \in Way : m[i][j]}

\* For every way i that is accessed, in turn, row i becomes 0 and column i 1.
\* Mutant: only the row is written.
accessed_RowOnly(m, access) == [i \in Way |-> [j \in Way |->
    IF i = j THEN m[i][j] ELSE i \notin access /\ m[i][j]]]
accessed(m, access) == [i \in Way |-> [j \in Way |->
    IF i = j THEN m[i][j]
    ELSE IF i \in access THEN j \in access /\ i < j
    ELSE j \in access \/ m[i][j]]]

lru_pre == AllOnes(expand(history))

\* Mutant: the whole matrix is kept.
update_WholeMatrix(access) == accessed(expand(history), access)
update(access) == LET m == accessed(expand(history), access)
                  IN  [p \in Pair |-> m[p[1]][p[2]]]

(***************************************************************************)
(* The use the cache makes of it.  The history is undefined until the set  *)
(* is invalidated for the first time; then every hit and every refill      *)
(* accesses one way and writes the update back.  That the history read for *)
(* the next access is the one written for the last one is the contract     *)
(* here; it is the cache's to keep.                                        *)
(***************************************************************************)
Invalidated == [p \in Pair |-> FALSE]

\* An invalidated set replaces its ways from the last one down.
InvalidatedStamp == [w \in Way |-> -w]

LruInit == /\ history = Invalidated
           /\ stamp = InvalidatedStamp
           /\ accesses = 0

Access(w) == /\ accesses < MaxAccesses
             /\ accesses' = accesses + 1
             /\ history' = update({w})
             /\ stamp' = [stamp EXCEPT ![w] = accesses + 1]

Invalidate == /\ history' = Invalidated
              /\ stamp' = InvalidatedStamp
              /\ UNCHANGED accesses

LruNext == (\E w \in Way : Access(w)) \/ Invalidate

LruSpec == LruInit /\ [][LruNext]_lru_vars
-----------------------------------------------------------------------------
LruTypeOK == /\ history \in [Pair -> BOOLEAN]
             /\ stamp \in [Way -> Int]
             /\ accesses \in 0 .. MaxAccesses

(***************************************************************************)
(* The bits are the order of the last uses, whatever way was accessed when *)
(* and however often the set was invalidated in between: "the information  *)
(* whether each entry is older than the others".                           *)
(***************************************************************************)
Older(i, j) == expand(history)[i][j]

OrderOfUse == \A i, j \in Way : i # j => (Older(i, j) <=> stamp[i] < stamp[j])

(***************************************************************************)
(* The way to replace is the one used longest ago.                         *)
(***************************************************************************)
Oldest == {i \in Way : \A j \in Way \ {i} : stamp[i] < stamp[j]}

VictimIsOldest == lru_pre = Oldest
=============================================================================
