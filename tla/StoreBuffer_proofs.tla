-------------------------- MODULE StoreBuffer_proofs ------------------------
(***************************************************************************)
(* Proofs about StoreBuffer for every depth: the pointers stay within one  *)
(* lap of each other, the flags are exact, and the buffer implements Fifo. *)
(***************************************************************************)
EXTENDS StoreBuffer, SequenceTheorems, TLAPS

IInv == SBTypeOK /\ PointersInLap

(***************************************************************************)
(* What the flags say about the number of entries.                         *)
(***************************************************************************)
LEMMA Flags == ASSUME IInv
               PROVE  /\ Count \in 0 .. DEPTH
                      /\ full <=> Count = DEPTH
                      /\ empty <=> Count = 0
<1>1. /\ DEPTH \in Nat \ {0}
      /\ write_pointer \in 0 .. 2 * DEPTH - 1
      /\ read_pointer \in 0 .. 2 * DEPTH - 1
      /\ Count <= DEPTH
  BY DepthAssumption DEF IInv, SBTypeOK, Pointer, PointersInLap
<1> QED BY <1>1 DEF Count, full, empty, Lap, Slot

(***************************************************************************)
(* A cycle that keeps the contract changes the number of entries by what   *)
(* was written less what was read, and stays within one lap.               *)
(***************************************************************************)
LEMMA CycleCounts ==
  ASSUME IInv, NEW write \in BOOLEAN, NEW read \in BOOLEAN, NEW din \in Entry,
         Contract(write, read), Cycle(write, read, din)
  PROVE  /\ IInv'
         /\ Count' = Count + (IF write THEN 1 ELSE 0) - (IF read THEN 1 ELSE 0)
<1>1. /\ DEPTH \in Nat \ {0}
      /\ write_pointer \in 0 .. 2 * DEPTH - 1
      /\ read_pointer \in 0 .. 2 * DEPTH - 1
  BY DepthAssumption DEF IInv, SBTypeOK, Pointer
<1>2. /\ Count \in 0 .. DEPTH
      /\ write => Count < DEPTH
      /\ read => Count > 0 \/ write
  BY Flags, <1>1 DEF Contract
<1>3. /\ write_pointer' \in 0 .. 2 * DEPTH - 1
      /\ read_pointer' \in 0 .. 2 * DEPTH - 1
  BY <1>1 DEF Cycle, Advance
<1>4. Count' = Count + (IF write THEN 1 ELSE 0) - (IF read THEN 1 ELSE 0)
  BY <1>1, <1>2, <1>3 DEF Count, Cycle, Advance
<1>5. Count' <= DEPTH
  BY <1>1, <1>2, <1>4
<1>6. /\ Slot(write_pointer) \in 0 .. DEPTH - 1
      /\ Slot(read_pointer) \in 0 .. DEPTH - 1
  BY <1>1 DEF Slot
<1>7. /\ fifo_ram' \in [0 .. DEPTH - 1 -> Entry]
      /\ fifo_dout' \in Entry
      /\ accepted' \in Entry
  BY <1>6 DEF Cycle, ReadPort, IInv, SBTypeOK
<1> QED BY <1>3, <1>5, <1>4, <1>7 DEF IInv, SBTypeOK, PointersInLap, Pointer

(***************************************************************************)
(* The slots of the entries: each is a slot of the RAM, a free place is    *)
(* never the slot of an entry, reading shifts the numbering by one.        *)
(***************************************************************************)
LEMMA SlotsOfEntries ==
  ASSUME IInv
  PROVE  /\ \A i \in 1 .. DEPTH : SlotOf(i) \in 0 .. DEPTH - 1
         /\ \A i, j \in 1 .. DEPTH : SlotOf(i) = SlotOf(j) => i = j
         /\ Count < DEPTH => SlotOf(Count + 1) = Slot(write_pointer)
         /\ SlotOf(1) = Slot(read_pointer)
<1>1. /\ DEPTH \in Nat \ {0}
      /\ write_pointer \in 0 .. 2 * DEPTH - 1
      /\ read_pointer \in 0 .. 2 * DEPTH - 1
      /\ Count \in 0 .. DEPTH
  BY DepthAssumption, Flags DEF IInv, SBTypeOK, Pointer
<1>2. \A i \in 1 .. DEPTH : SlotOf(i) \in 0 .. DEPTH - 1
  BY <1>1 DEF SlotOf, Slot
<1>3. \A i, j \in 1 .. DEPTH : SlotOf(i) = SlotOf(j) => i = j
  BY <1>1 DEF SlotOf, Slot
<1>4. Count < DEPTH => SlotOf(Count + 1) = Slot(write_pointer)
  BY <1>1 DEF SlotOf, Slot, Count
<1>5. SlotOf(1) = Slot(read_pointer)
  BY <1>1 DEF SlotOf, Slot
<1> QED BY <1>2, <1>3, <1>4, <1>5

LEMMA SlotsAfterRead ==
  ASSUME IInv, read_pointer' = Advance(read_pointer)
  PROVE  \A i \in 1 .. DEPTH - 1 : SlotOf(i)' = SlotOf(i + 1)
<1>1. /\ DEPTH \in Nat \ {0}
      /\ read_pointer \in 0 .. 2 * DEPTH - 1
  BY DepthAssumption DEF IInv, SBTypeOK, Pointer
<1> QED BY <1>1 DEF SlotOf, Slot, Advance

\* Contents as a sequence of entries, with its length and its elements.
ContentsFacts == /\ Contents \in Seq(Entry)
                 /\ Len(Contents) = Count
                 /\ \A i \in 1 .. Count : Contents[i] = fifo_ram[SlotOf(i)]

LEMMA ContentsIsSequence == IInv => ContentsFacts
<1> SUFFICES ASSUME IInv PROVE ContentsFacts
  OBVIOUS
<1>1. Count \in 0 .. DEPTH /\ DEPTH \in Nat
  BY Flags, DepthAssumption
<1>2. \A i \in 1 .. Count : fifo_ram[SlotOf(i)] \in Entry
  BY <1>1, SlotsOfEntries DEF IInv, SBTypeOK
<1>3. Contents \in [1 .. Count -> Entry]
  BY <1>2 DEF Contents
<1> QED BY <1>1, <1>3 DEF Contents, ContentsFacts

(***************************************************************************)
(* The entries after a cycle, place by place.                              *)
(***************************************************************************)
LEMMA ContentsAfter ==
  ASSUME IInv, NEW write \in BOOLEAN, NEW read \in BOOLEAN, NEW din \in Entry,
         Contract(write, read), Cycle(write, read, din)
  PROVE  LET q == IF write THEN Append(Contents, din) ELSE Contents
         IN  /\ q \in Seq(Entry)
             /\ read => q # <<>> /\ fifo_dout' = Head(q) /\ Contents' = Tail(q)
             /\ ~read => Contents' = q
<1> DEFINE q == IF write THEN Append(Contents, din) ELSE Contents
           n == IF write THEN Count + 1 ELSE Count
           s == IF read THEN 1 ELSE 0
<1>1. /\ DEPTH \in Nat \ {0}
      /\ Count \in 0 .. DEPTH
      /\ write => Count < DEPTH
      /\ read => Count > 0 \/ write
      /\ n \in 0 .. DEPTH
  BY DepthAssumption, Flags DEF Contract
<1>2. IInv' /\ Count' = n - s
  <2>1. IInv' /\ Count' = Count + (IF write THEN 1 ELSE 0) - (IF read THEN 1 ELSE 0)
    BY CycleCounts
  <2> QED BY <2>1, <1>1
<1>3. /\ q \in Seq(Entry)
      /\ Len(q) = n
      /\ \A i \in 1 .. Count : q[i] = fifo_ram[SlotOf(i)]
      /\ write => q[Count + 1] = din
  BY ContentsIsSequence, <1>1 DEF ContentsFacts
<1>4. \A i \in 1 .. n : q[i] = fifo_ram'[SlotOf(i)]
  <2>1. ASSUME NEW i \in 1 .. Count
        PROVE  fifo_ram'[SlotOf(i)] = fifo_ram[SlotOf(i)]
    <3>1. /\ SlotOf(i) \in 0 .. DEPTH - 1
          /\ write => SlotOf(i) # Slot(write_pointer)
      BY SlotsOfEntries, <1>1
    <3> QED BY <3>1 DEF Cycle, IInv, SBTypeOK
  <2>2. write => fifo_ram'[SlotOf(Count + 1)] = din
    <3>1. write => /\ SlotOf(Count + 1) = Slot(write_pointer)
                   /\ SlotOf(Count + 1) \in 0 .. DEPTH - 1
      BY SlotsOfEntries, <1>1
    <3> QED BY <3>1 DEF Cycle, IInv, SBTypeOK
  <2> QED BY <1>1, <1>3, <2>1, <2>2
<1>5. \A i \in 1 .. n - s : SlotOf(i)' = SlotOf(i + s)
  <2>1. CASE read
    BY <2>1, <1>1, SlotsAfterRead DEF Cycle
  <2>2. CASE ~read
    <3>1. read_pointer' = read_pointer
      BY <2>2 DEF Cycle
    <3> QED BY <3>1, <2>2, <1>1 DEF SlotOf, Slot
  <2> QED BY <2>1, <2>2
<1>6. /\ Contents' \in Seq(Entry)
      /\ Len(Contents') = n - s
      /\ \A i \in 1 .. n - s : Contents'[i] = fifo_ram'[SlotOf(i)']
  <2>1. ContentsFacts'
    BY <1>2, ContentsIsSequence, PTL
  <2> QED BY <1>2, <2>1 DEF ContentsFacts
<1>7. \A i \in 1 .. n - s : Contents'[i] = q[i + s]
  <2>1. s \in {0, 1}
    OBVIOUS
  <2> HIDE DEF q, n, s
  <2> SUFFICES ASSUME NEW i \in 1 .. n - s
               PROVE  Contents'[i] = q[i + s]
    OBVIOUS
  <2>2. i + s \in 1 .. n
    BY <1>1, <2>1
  <2> QED BY <1>4, <1>5, <1>6, <2>2
<1>8. CASE read
  <2>1. q # <<>> /\ n > 0
    BY <1>8, <1>1, <1>3
  <2>2. fifo_dout' = Head(q)
    <3>1. Head(q) = q[1]
      BY <2>1, <1>3
    <3>2. q[1] = fifo_ram'[Slot(read_pointer)]
      BY <1>4, <2>1, <1>1, SlotsOfEntries
    <3>3. Slot(read_pointer) \in 0 .. DEPTH - 1
      BY SlotsOfEntries, <1>1
    <3> QED BY <1>8, <3>1, <3>2, <3>3 DEF Cycle, ReadPort, IInv, SBTypeOK
  <2>3. Contents' = Tail(q)
    <3>1. /\ Tail(q) \in Seq(Entry)
          /\ Len(Tail(q)) = n - 1
          /\ \A i \in 1 .. n - 1 : Tail(q)[i] = q[i + 1]
      BY <2>1, <1>3, HeadTailProperties
    <3> QED BY <3>1, <1>6, <1>7, <1>8, <1>1, SeqEqual
  <2> QED BY <2>1, <2>2, <2>3, <1>3, <1>8
<1>9. CASE ~read
  <2>1. Contents' = q
    BY <1>9, <1>3, <1>6, <1>7, <1>1, SeqEqual
  <2> QED BY <2>1, <1>3, <1>9
<1> QED BY <1>8, <1>9
-----------------------------------------------------------------------------
(***************************************************************************)
(* IInv is inductive.                                                      *)
(***************************************************************************)
LEMMA InitIInv == SBInit => IInv
  BY DepthAssumption
  DEF SBInit, IInv, SBTypeOK, PointersInLap, Pointer, Count

LEMMA NextIInv == IInv /\ [SBNext]_sb_vars => IInv'
<1>1. ASSUME IInv, SBNext PROVE IInv'
  BY <1>1, CycleCounts DEF SBNext
<1>2. ASSUME IInv, UNCHANGED sb_vars PROVE IInv'
  BY <1>2 DEF sb_vars, IInv, SBTypeOK, PointersInLap, Count
<1> QED BY <1>1, <1>2

THEOREM Invariance == SBSpec => []IInv
  BY InitIInv, NextIInv, PTL DEF SBSpec

\* The registers keep their widths and the RAM holds entries, for every depth.
THEOREM TypeCorrect == SBSpec => []SBTypeOK
<1>1. IInv => SBTypeOK
  BY DEF IInv
<1> QED BY <1>1, Invariance, PTL

\* No overflow and no underflow under the load store unit's contract.
THEOREM NoOverrun == SBSpec => []PointersInLap
<1>1. IInv => PointersInLap
  BY DEF IInv
<1> QED BY <1>1, Invariance, PTL

\* full_o and empty_o are exact in every reachable state.
THEOREM ExactFlags == SBSpec => []FlagsExact
<1>1. IInv => FlagsExact
  BY Flags DEF FlagsExact
<1> QED BY <1>1, Invariance, PTL

(***************************************************************************)
(* The refinement: initial states map to the empty queue, a cycle maps to  *)
(* Put, Take, PutTake or a stutter.                                        *)
(***************************************************************************)
LEMMA InitRefines == SBInit => Queue!FifoInit
<1> SUFFICES ASSUME SBInit PROVE Queue!FifoInit
  OBVIOUS
<1>1. IInv /\ Count = 0
  BY InitIInv DEF SBInit, Count
<1>2. Contents \in Seq(Entry) /\ Len(Contents) = 0
  BY <1>1, ContentsIsSequence DEF ContentsFacts
<1>3. Contents = <<>>
  BY <1>2, EmptySeq
<1> QED BY <1>3 DEF Queue!FifoInit, SBInit

LEMMA StepRefines ==
  IInv /\ [SBNext]_sb_vars => [Queue!FifoNext]_<<Contents, fifo_dout, accepted>>
<1>1. ASSUME IInv, SBNext
      PROVE  [Queue!FifoNext]_<<Contents, fifo_dout, accepted>>
  <2>1. PICK write \in BOOLEAN, read \in BOOLEAN, din \in Entry :
             Contract(write, read) /\ Cycle(write, read, din)
    BY <1>1 DEF SBNext
  <2>2. /\ Contents \in Seq(Entry)
        /\ Len(Contents) = Count
        /\ write => Len(Contents) < DEPTH
    <3>1. Contents \in Seq(Entry) /\ Len(Contents) = Count
      BY <1>1, ContentsIsSequence DEF ContentsFacts
    <3>2. write => Count < DEPTH
      BY <1>1, <2>1, Flags, DepthAssumption DEF Contract
    <3> QED BY <3>1, <3>2
  <2>3. LET q == IF write THEN Append(Contents, din) ELSE Contents
        IN  /\ q \in Seq(Entry)
            /\ read => q # <<>> /\ fifo_dout' = Head(q) /\ Contents' = Tail(q)
            /\ ~read => Contents' = q
    BY <1>1, <2>1, ContentsAfter
  <2>4. /\ ~read => fifo_dout' = fifo_dout
        /\ accepted' = IF write THEN din ELSE accepted
    BY <2>1 DEF Cycle
  <2>5. CASE write /\ read
    BY <2>2, <2>3, <2>4, <2>5 DEF Queue!FifoNext, Queue!PutTake
  <2>6. CASE write /\ ~read
    BY <2>2, <2>3, <2>4, <2>6 DEF Queue!FifoNext, Queue!Put
  <2>7. CASE ~write /\ read
    BY <2>3, <2>4, <2>7 DEF Queue!FifoNext, Queue!Take
  <2>8. CASE ~write /\ ~read
    BY <2>3, <2>4, <2>8
  <2> QED BY <2>5, <2>6, <2>7, <2>8
<1>2. ASSUME UNCHANGED sb_vars
      PROVE  UNCHANGED <<Contents, fifo_dout, accepted>>
  BY <1>2 DEF sb_vars, Contents, Count, SlotOf
<1> QED BY <1>1, <1>2

\* The store buffer implements the queue, for every depth and every entry set.
THEOREM Refinement == SBSpec => ImplementsFifo
<1>1. SBInit => Queue!FifoInit
  BY InitRefines
<1>2. IInv /\ [SBNext]_sb_vars => [Queue!FifoNext]_<<Contents, fifo_dout, accepted>>
  BY StepRefines
<1> QED BY <1>1, <1>2, Invariance, PTL DEF SBSpec, ImplementsFifo, Queue!FifoSpec
=============================================================================
