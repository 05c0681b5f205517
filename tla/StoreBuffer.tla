----------------------------- MODULE StoreBuffer ----------------------------
(***************************************************************************)
(* The store buffer of the load store unit, mor1kx_store_buffer.v, with    *)
(* the dual port RAM it keeps its entries in, mor1kx_simple_dpram_sclk.v.  *)
(*                                                                         *)
(* Two pointers of DEPTH_WIDTH + 1 bits run around a RAM of                *)
(* Depth = 2^DEPTH_WIDTH slots; their top bits tell full from empty.  One  *)
(* step is one clock cycle.  The buffer guards nothing itself: it relies   *)
(* on the load store unit to write only when there is room and to read     *)
(* only when there is, or in the same cycle comes, something to read.      *)
(* That contract is the guard of Clock; LoadStore.tla checks that the unit *)
(* keeps it.                                                               *)
(***************************************************************************)
EXTENDS Integers, Sequences

CONSTANTS DEPTH,   \* number of slots of the RAM, 2^DEPTH_WIDTH
          Entry    \* {adr, dat, bsel, pc, atomic} of one store

ASSUME DepthAssumption == DEPTH \in Nat \ {0}

VARIABLES write_pointer, read_pointer,
          fifo_ram,   \* mem of the RAM
          fifo_dout,  \* its read port: rdata, or din_r when bypassed
          accepted    \* for the properties: the entry that was written last

sb_vars == <<write_pointer, read_pointer, fifo_ram, fifo_dout, accepted>>

\* A pointer is DEPTH_WIDTH + 1 bits wide: it wraps at 2 * DEPTH.
Pointer == 0 .. 2 * DEPTH - 1
\* Mutant: the pointer is one value wider than its register.
Advance_Wide(p) == IF p = 2 * DEPTH THEN 0 ELSE p + 1
Advance(p) == IF p = 2 * DEPTH - 1 THEN 0 ELSE p + 1

\* The bits below the top one address the RAM, the top one counts the laps.
Slot(p) == IF p < DEPTH THEN p ELSE p - DEPTH
Lap(p)  == p >= DEPTH

full  == /\ Lap(write_pointer) # Lap(read_pointer)
         /\ Slot(write_pointer) = Slot(read_pointer)

\* Mutant: empty forgets the top bits, as full's second line does.
empty_AnyLap == Slot(write_pointer) = Slot(read_pointer)
empty == write_pointer = read_pointer

\* Mutant: ENABLE_BYPASS off, the read port gives what the slot held before.
ReadPort_NoBypass(write, din) == fifo_ram[Slot(read_pointer)]

\* The read port: a slot that is written while it is read gives the new entry.
ReadPort(write, din) ==
    IF write /\ Slot(write_pointer) = Slot(read_pointer)
    THEN din
    ELSE fifo_ram[Slot(read_pointer)]

\* The registers and the RAM have no reset but the pointers: their contents
\* are whatever the power-up left.
SBInit == /\ write_pointer = 0
          /\ read_pointer = 0
          /\ fifo_ram \in [0 .. DEPTH - 1 -> Entry]
          /\ fifo_dout \in Entry
          /\ accepted \in Entry

\* One clock edge with the inputs write_i, read_i and the entry at din.
Cycle(write, read, din) ==
    /\ write_pointer' = IF write THEN Advance(write_pointer) ELSE write_pointer
    /\ read_pointer' = IF read THEN Advance(read_pointer) ELSE read_pointer
    /\ fifo_ram' = IF write
                   THEN [fifo_ram EXCEPT ![Slot(write_pointer)] = din]
                   ELSE fifo_ram
    /\ fifo_dout' = IF read THEN ReadPort(write, din) ELSE fifo_dout
    /\ accepted' = IF write THEN din ELSE accepted

Contract(write, read) == /\ write => ~full
                         /\ read => ~empty \/ write

SBNext == \E write, read \in BOOLEAN, din \in Entry :
             Contract(write, read) /\ Cycle(write, read, din)

SBSpec == SBInit /\ [][SBNext]_sb_vars
-----------------------------------------------------------------------------
\* How many entries lie between the pointers, and which.
Count == IF write_pointer >= read_pointer
         THEN write_pointer - read_pointer
         ELSE write_pointer - read_pointer + 2 * DEPTH

\* The slot of the i-th entry, counting from the oldest one as 1.
SlotOf(i) == LET p == read_pointer + (i - 1)
             IN  Slot(IF p < 2 * DEPTH THEN p ELSE p - 2 * DEPTH)

Contents == [i \in 1 .. Count |-> fifo_ram[SlotOf(i)]]

(***************************************************************************)
(* Types, and the pointers never drift more than one lap apart: with the   *)
(* unit's contract the buffer never overflows and never underflows.        *)
(***************************************************************************)
SBTypeOK == /\ write_pointer \in Pointer
            /\ read_pointer \in Pointer
            /\ fifo_ram \in [0 .. DEPTH - 1 -> Entry]
            /\ fifo_dout \in Entry
            /\ accepted \in Entry

PointersInLap == Count <= DEPTH

\* The flags the load store unit stalls on are exact in every state.
FlagsExact == /\ full <=> Count = DEPTH
              /\ empty <=> Count = 0

(***************************************************************************)
(* The pointers, the RAM and its bypass implement a first in first out     *)
(* queue: no entry is lost, repeated or reordered, also when the pointers  *)
(* wrap and when an entry is read in the cycle that writes it.             *)
(***************************************************************************)
Queue == INSTANCE Fifo WITH Depth <- DEPTH, queue <- Contents, out <- fifo_dout,
                              put <- accepted

ImplementsFifo == Queue!FifoSpec
=============================================================================
