--------------------------- MODULE EventPrograms ---------------------------
(***************************************************************************)
(* The programs of architectural_events/lsu_events: the loads, stores and  *)
(* other instructions that matter to the load store unit, in the order in  *)
(* which main executes them.  A definition has the first words of the name    *)
(* of its file.                                                            *)
(*                                                                         *)
(* A variable that is not volatile is in a register.  Of the arrays only   *)
(* the words that share the first set of the data cache are kept (512 sets *)
(* of lines of 8 words: words 0 to 7 of each 4096), and of those the first *)
(* MaxWords of MaxTags lines; the stack is one line of the next set.  A    *)
(* loop is run at most MaxPasses times.  A byte or halfword is an access   *)
(* to its word.  Mnemonics the assembler does not know (l.lw, lwz, stw,    *)
(* lwarx) stand for the load or store they name, a .word for the           *)
(* instruction it encodes.  A jump out of main is its end.                 *)
(***************************************************************************)
LOCAL INSTANCE Integers
LOCAL INSTANCE Sequences
LOCAL INSTANCE SequencesExt

CONSTANTS MaxTags,     \* bound: lines that share the set
          MaxWords,    \* bound: words of such a line that are accessed
          MaxPasses    \* bound: repetitions of a loop

Period   == 4096                      \* words between lines of one set
Watched  == {t * Period + o : t \in 0 .. MaxTags - 1, o \in 0 .. MaxWords - 1}
Unmapped == MaxTags * 16              \* a word where no device answers

Instr(op, adr, misaligned) == <<[op |-> op, adr |-> adr, misaligned |-> misaligned]>>
Other(op)   == Instr(op, 0, FALSE)

\* Array word i, with the second set left free for the stack; an access
\* outside the watched set is left out.
Word(i)     == ((i \div Period) * 16) + (i % Period)
Access(op, i, misaligned) == IF i \in Watched THEN Instr(op, Word(i), misaligned) ELSE <<>>
R(i)        == Access("load", i, FALSE)
W(i)        == Access("store", i, FALSE)
Elsewhere   == Instr("load", 24, FALSE)          \* a word of another line
Misaligned(i) == Access("load", i, TRUE)
Get(k)      == Instr("load", 8 + k, FALSE)      \* a volatile on the stack
Set(k)      == Instr("store", 8 + k, FALSE)
Nop         == Other("other")
Msync       == Other("msync")
Illegal     == Other("illegal")
Branch      == Other("other")

\* Loops: over the watched i = 0, step, 2 step, ... below n, and downwards.
Indices             == [k \in 1 .. MaxTags * MaxWords |->
                          ((k - 1) \div MaxWords) * Period + ((k - 1) % MaxWords)]
Over(I, F(_))       == FlattenSeq([k \in DOMAIN I |-> F(I[k])])
Span(n, step, from) == SelectSeq(Indices, LAMBDA i : i < n /\ i % step = from)
Each(n, step, F(_)) == Over(Span(n, step, 0), F)
Down(n, F(_))       == Over(Reverse(Span(n, 1, 0)), F)
Repeat(n, code)     == FlattenSeq([k \in 1 .. (IF n < MaxPasses THEN n ELSE MaxPasses) |-> code])
Fill(n)             == Each(n, 1, W)

\* A program runs to the end of main or ends in an exception.
Faults(stop, code) == [stop |-> stop, code |-> code]
Runs(code)         == Faults("none", code)
-----------------------------------------------------------------------------
(***************************************************************************)
(* Hits, tags and ways.                                                    *)
(***************************************************************************)
\* SPRs 0x12 and 0x11 are PPC and SR: the writes switch the cache off.
A_cache_hit_occurs_due_to_a_snoop_operation ==
    Runs(R(0) \o Nop \o Other("dce_off") \o W(0) \o Nop \o Other("dce_off") \o R(0))

A_cache_hit_occurs_when_the_processor_accesses ==
    Runs(Fill(64) \o Repeat(1024, Each(64, 1, R) \o Elsewhere))

\* 0xF2000B00 is no instruction of the core.
A_cache_way_is_being_validated ==
    LET touch(i) == W(i) \o R(i)
    IN  Faults("illegal",
               Repeat(16, Illegal) \o Each(64, 16, touch) \o W(0) \o R(0))

A_cache_way_match_is_detected == Runs(R(0) \o W(0) \o R(0))

A_cache_way_tag_is_being_checked ==
    LET touch(i)   == W(i) \o R(i)
        rewrite(i) == R(i) \o W(i) \o R(i)
    IN  Runs(Repeat(20, Each(1024, 8, touch)) \o Each(1024, 1, rewrite)
                         \o Each(1024, 2, rewrite) \o Each(1024, 4, rewrite)
                         \o Each(1024, 8, rewrite))

Cache_hit_detected_in_the_data_cache ==
    LET add(i) == R(i) \o Get(0) \o Set(0)
    IN  Runs(Set(0) \o Repeat(256, Each(4, 1, add)) \o Get(0))

Cache_hit_occurs_due_to_a_successful_data_retrieval ==
    Runs(Repeat(100000, R(0) \o W(0)) \o R(0))

Cache_way_match_detected_during ==
    LET step(i) == R(i) \o Set(0) \o Get(0) \o W(i)
    IN  Runs(Fill(128) \o Each(128, 1, step) \o Msync)

Cache_way_tag_check_event_occurs ==
    Runs(Each(64, 4, W) \o Over(Span(64, 8, 3), R)
                     \o Set(0) \o Repeat(1000, Get(0) \o Nop \o Get(0) \o Set(0)))

\* l.sync is taken as the barrier of the instruction set, l.msync.
Cache_way_validation_check == Runs(W(0) \o Nop \o Msync \o R(0) \o Nop)

Instruction_address_matches_a_previously_accessed_address ==
    Runs(R(1) \o Set(0) \o R(1) \o Set(0) \o R(2) \o Set(0) \o R(2) \o Set(0)
                  \o W(3) \o W(3))
-----------------------------------------------------------------------------
(***************************************************************************)
(* Invalidation and coherence: no program is heard by a second master, and *)
(* none writes DCBIR or DCBFR.                                             *)
(***************************************************************************)
Cache_line_invalidation_acknowledgement_received ==
    Runs(W(0) \o Nop \o Nop \o W(0) \o Nop \o Nop \o R(0))

Cache_line_invalidation_due_to_a_snoop_request == Runs(W(0) \o R(0))

Cache_line_invalidation_due_to_external_request ==
    Runs(Set(0) \o Repeat(100000, Set(0) \o Get(0)))

\* The word 0x00000107 is l.j.
Pipeline_stall_due_to_cache_coherence_issue ==
    Runs(Access("lwa", 0, FALSE) \o Access("swa", 0, FALSE) \o Branch)

\* The word 0x0000000b is l.j; the load after it is in its delay slot.
Pipeline_stall_due_to_cache_coherence_protocol ==
    Runs(W(0) \o Branch \o R(0))
-----------------------------------------------------------------------------
(***************************************************************************)
(* Refills.                                                                *)
(***************************************************************************)
Cache_line_refill_address_calculation ==
    LET step(i) == R(i) \o W(i)
    IN  Runs(Fill(1024) \o Each(1024, 1, step))

\* Five char arrays of 512 words, one after the other: no two of the bytes
\* it reads are 4096 words apart.
Cache_line_replacement_due_to_least_recently_used ==
    LET first == R(0) \o Set(0) \o R(512) \o Set(1) \o R(1024) \o Set(2) \o R(1536) \o Set(3)
    IN  Runs(first \o Get(0) \o Get(1) \o Get(2) \o Get(3)
                          \o R(2048) \o Set(4) \o Get(4))

Cache_refill_completion ==
    LET step(i) == R(i) \o Get(0) \o Set(0) \o Get(0) \o W(i)
    IN  Runs(Fill(4096) \o Set(0) \o Repeat(4, Each(4096, 64, step)) \o Get(0))

Cache_refill_hit_occurs_when_a_requested_data ==
    Runs(Fill(64) \o R(0) \o Set(0) \o R(32) \o Set(0) \o R(0) \o Set(0) \o Get(0))

Cache_refill_is_allowed_when_there_is_no_ongoing ==
    Runs(Each(256, 16, R) \o Each(256, 8, R))

Cache_refill_is_allowed_when_there_is_no_store ==
    Runs(Repeat(1024, Each(16, 1, R)))

Cache_refill_operation_has_completed ==
    LET add(i) == R(i) \o Get(0) \o Set(0)
    IN  Runs(Set(0) \o Fill(16384) \o Each(16384, 1, add) \o Get(0))

Cache_refill_operation_initiated ==
    LET step(i) == R(i) \o Set(0) IN Runs(Each(16384, 16, step))

Cache_refill_operation_is_valid ==
    LET add(i) == R(i) \o Get(0) \o Set(0)
        put(i) == Get(0) \o W(i)
    IN  Runs(Fill(65536) \o Set(0)
               \o Repeat(128, Each(65536, 2, add) \o Each(65536, 4, put)) \o Get(0))

Cache_refill_request_is_generated ==
    LET add(i) == R(i) \o Get(0) \o Set(0)
    IN  Runs(Set(0) \o Fill(65536) \o Each(65536, 64, add) \o Get(0))

Data_cache_refill_burst_operation_initiated ==
    Runs(Fill(4096) \o Each(4096, 16, R))

Pipeline_stall_due_to_cache_miss ==
    LET add(i) == R(i) \o Get(0) \o Set(0)
    IN  Runs(Set(0) \o Fill(65536) \o Each(65536, 128, add) \o Get(0))

Pipeline_stall_due_to_cache_miss_or_memory_access_hazard ==
    Runs(Fill(4096) \o Each(4096, 1, R))

Pipeline_stall_due_to_data_cache_refill ==
    LET add(i) == R(i) \o Get(0) \o Set(0)
    IN  Runs(Fill(4096) \o Set(0) \o Each(4096, 64, add) \o Get(0))

The_processor_is_selecting_a_data_bus ==
    LET step(i) == R(i) \o Set(0) \o Get(0) \o W(i)
    IN  Runs(Set(0) \o Fill(65536) \o Each(65536, 1, step) \o Get(0))

\* The pointer to halfwords is one byte off.
The_processor_is_selecting_a_data_source ==
    LET near    == [k \in 1 .. 17 |-> IF k <= 4 THEN k - 1 ELSE k + 238]   \* 0..3, 243..255
        step(i) == R(i) \o W((i + 13) % 256) \o R((i + 7) % 256) \o W((i + 7) % 256)
                   \o Get(0) \o Set(0)
    IN  Faults("align",
               Fill(256) \o Over(near, step) \o Misaligned(1) \o Get(0) \o Set(0))

The_processor_requests_a_cache_refill ==
    LET add(i) == R(i) \o Get(0) \o Set(0)
        put(i) == Get(0) \o W(i)
    IN  Runs(Set(0) \o Each(1024, 16, add) \o Over(Span(1024, 16, 8), add)
               \o Each(1024, 32, put) \o Each(1024, 16, add) \o Get(0))
-----------------------------------------------------------------------------
(***************************************************************************)
(* The data bus and the stalls it causes.                                  *)
(***************************************************************************)
A_memory_access_request_is_generated ==
    LET step(i) == R(i) \o Set(0) \o Get(0) \o W(i)
    IN  Runs(Each(4, 1, step) \o R(0) \o W(0) \o R(0) \o W(0))

A_store_data_access_is_being_performed ==
    LET put(i) == Get(0) \o W(i)
    IN  Runs(Fill(4) \o Set(0) \o Each(4, 1, put)
                        \o R(0) \o R(1) \o R(2) \o R(3) \o Set(1))

Completion_of_a_memory_access_operation == Runs(R(0) \o W(2) \o R(2) \o W(3))

Data_bus_access_during_load_or_store_operations ==
    Runs(R(0) \o Set(0) \o R(1) \o Set(0) \o R(2) \o Set(0)
                       \o W(0) \o W(1) \o R(3) \o Set(0))

Data_is_being_transferred_from_the_load_store_unit ==
    Runs(R(0) \o Set(0) \o Get(0) \o W(1))

Data_is_being_written_to_memory ==
    LET add(i) == R(i) \o Get(0) \o Set(0)
    IN  Runs(Fill(4) \o Set(0) \o Each(4, 1, add))

\* The variables a, b, c and d are on the stack.
Instruction_execution_triggers_a_write_operation ==
    Runs(Set(0) \o Set(1) \o Get(0) \o Get(1) \o Set(2) \o W(0) \o W(1)
                      \o R(0) \o Set(2) \o Get(2) \o W(1) \o Get(0) \o Get(1)
                      \o Get(0) \o Get(1) \o Set(2) \o Set(3) \o Get(3) \o Get(0) \o Set(2))

Memory_write_operation_initiated_by_the_processor ==
    Runs(W(0) \o W(1) \o Set(0) \o Get(0) \o W(0) \o W(0) \o W(0) \o R(0) \o Set(1))

Pipeline_stall_due_to_data_bus_acknowledgement ==
    LET init(i) == W(i) \o W(Period + i)
        copy(i) == R(i) \o W(Period + i) \o Set(0)
    IN  Runs(Set(0) \o Each(Period, 1, init)
                             \o Repeat(1024, Each(Period, 1, copy)) \o Get(0))

Pipeline_stall_due_to_data_cache_access ==
    LET add(i)  == R(i) \o Get(0) \o Set(0)
        move(i) == Get(0) \o W(i) \o add(i)
    IN  Runs(Fill(16384) \o Set(0) \o Each(16384, 64, add)
                             \o Each(16384, 128, move) \o R(0) \o W(1) \o Get(0))

Pipeline_stall_due_to_data_dependency_on_a_load_instruction ==
    LET step(i) == R(i) \o Set(1) \o Get(1) \o Get(0) \o Set(0)
    IN  Runs(Set(0) \o Repeat(128, Each(8, 1, step)))

\* The loop of branches keeps i in a register.
Pipeline_stall_due_to_delay_slot_instruction ==
    Runs(Set(0) \o Set(1) \o Get(0)
                         \o Repeat(10, Branch \o Nop \o Branch) \o Branch \o Nop
                         \o Set(0) \o Get(0) \o Set(1) \o Get(1))

Pipeline_stall_due_to_delay_slot_instruction_v2 ==
    Runs(Set(0) \o Set(1)
                         \o Repeat(5, Get(0) \o Get(1) \o Set(1) \o Get(0) \o Set(0) \o Get(0) \o Branch)
                         \o Get(1))

Pipeline_stall_on_data_bus_access_hazard ==
    LET step(i) == R(i) \o W((i + 1) % 32)
    IN  Runs(Fill(32) \o Repeat(128, Over([k \in 1 .. 32 |-> k - 1], step)) \o R(0))

Pipeline_stall_on_data_dependency_hazard ==
    Runs(R(0) \o Set(0) \o Get(0) \o Set(1) \o Get(1))

The_processor_is_accessing_the_data_bus ==
    LET step(i) == R(i) \o W(IF i % 2 = 0 THEN i + 1 ELSE i - 1)
    IN  Runs(Each(8, 1, step))
-----------------------------------------------------------------------------
(***************************************************************************)
(* Loads and stores of all sizes.                                          *)
(***************************************************************************)
Data_cache_access_enabled_for_an_instruction ==
    Runs(Repeat(100, W(0) \o R(0)) \o R(0))

Data_cache_access_is_initiated ==
    LET step(i) == R(i) \o W((i + 1) % 8) IN Runs(Each(8, 1, step))

Data_cache_access_selection_based_on_system_configuration ==
    LET step(i) == R(i) \o W(i) \o Get(0) \o Set(0)
    IN  Runs(Set(0) \o Each(32, 1, step) \o Get(0))

Data_cache_load_operation_completion ==
    LET step(i) == R(i) \o Set(0) IN Runs(Each(8, 1, step))

Data_extension_during_load_operation ==
    Faults("align",
           R(0) \o Set(0) \o R(0) \o Set(1) \o R(0) \o Set(2) \o R(0) \o Set(3) \o Misaligned(0))

Data_is_being_loaded_into_the_CPU_from_the_memory ==
    LET add(i) == R(i) \o Get(0) \o Set(0)
    IN  Runs(Fill(4) \o Set(0) \o Each(4, 1, add) \o Get(0))

Instruction_requires_zero_extension_for_load_store_operation ==
    Runs(R(0) \o R(0) \o R(1) \o R(1) \o Set(0) \o Get(0) \o W(0)
                        \o Get(0) \o W(1) \o Get(0))

Load_Store_address_calculation_completion ==
    Runs(Set(0) \o Set(1) \o Set(2) \o Get(1) \o Get(1) \o Set(3)
                        \o Get(2) \o Get(5) \o Set(4) \o Get(3) \o Get(4))

Load_Store_operation_with_variable_length ==
    Runs(W(0) \o W(1) \o R(0) \o Set(0) \o R(0) \o Set(1) \o R(1) \o Set(2)
                        \o Get(0) \o W(0) \o Get(1) \o W(0) \o Get(2) \o W(1))

Load_instruction_execution_initiated ==
    Runs(Fill(4) \o R(0) \o Set(0) \o R(1) \o Set(0) \o R(2) \o Set(0) \o R(3) \o Set(0))

Load_or_store_operation_is_initiated_in_the_pipeline ==
    LET step(i) == R(i) \o Set(0) \o Get(0) \o W(i)
    IN  Runs(Fill(4) \o Each(4, 1, step))

Memory_access_address_generation ==
    LET put(i) == W(i) \o R(i)
    IN  Runs(Fill(16) \o Each(16, 1, R) \o Down(16, put))

\* The first form, with four accesses, and the second, with a loop.
Memory_access_operation_is_initiated__potentially_leading_to_a_cache_hit_or_miss ==
    Runs(R(0) \o Set(0) \o Get(0) \o W(1) \o R(2) \o Set(0) \o Get(0) \o W(3) \o Get(0))

Memory_access_operation_is_initiated__potentially_leading_to_a_cache_hit_or_miss__and_subsequent_data_transfer ==
    Runs(Fill(16) \o Each(16, 1, R))

\* Four words: mem[1..3], mem[4..7], mem[8..11] of the bytes.
Memory_access_with_byte_level_select_signal_assertion ==
    Runs(W(0) \o W(0) \o W(1) \o R(0) \o Set(0) \o R(1) \o Set(1) \o R(2) \o Set(2)
                       \o Get(0) \o Get(1) \o Get(2))

\* The word 0x45000000 is l.jr r0: main jumps to address 0.
Memory_synchronization_operation_is_initiated == Runs(Branch)

Operand_forwarding_from_the_execute_stage_to_the_decode_stage ==
    Runs(W(0) \o W(1) \o Set(0) \o R(0) \o Nop)

Store_operation_is_initiated_in_the_load_store_unit ==
    Runs(Set(0) \o Set(1) \o Get(1) \o Set(0))

The_processor_acknowledges_the_completion_of_an_instruction ==
    LET step(i) == R(i) \o W(i) IN Runs(Each(4, 1, step))

\* The division by zero sets a carry and raises nothing.
The_processor_enables_data_caching_for_a_specific_instruction ==
    Runs(Set(0) \o Set(1) \o Get(0) \o Set(2) \o Get(0) \o Get(1) \o Set(2)
                        \o Nop \o Get(2))

The_processor_generates_a_memory_access_address ==
    Runs(Fill(4) \o Set(0) \o Set(1) \o Get(1) \o R(2) \o Set(2)
                        \o Get(0) \o Get(1) \o W(3) \o Get(1) \o Set(1)
                        \o Get(1) \o R(3) \o Set(2) \o Get(2))

The_processor_is_generating_a_memory_address ==
    Runs(Fill(4) \o R(2) \o Set(0) \o Get(0) \o W(1))

The_processor_is_writing_data_to_the_cache ==
    LET double(i) == R(i) \o W(i) IN Runs(Fill(8) \o Each(8, 1, double))
-----------------------------------------------------------------------------
(***************************************************************************)
(* Programs that end in an exception.                                      *)
(***************************************************************************)
\* 0x80600000 would be l.ld, which the core does not have.
A_data_bus_error_occurred_during_an_instruction_execution ==
    Faults("illegal", Illegal)

A_memory_access_instruction_encounters_an_alignment_error ==
    Faults("align", W(0) \o W(1) \o Misaligned(0) \o Set(0))

Data_alignment_operation_during_memory_access ==
    Faults("align",
           R(0) \o Set(0) \o R(0) \o Get(0) \o Set(0) \o Misaligned(0))

\* Address 0 is memory.
Data_cache_bus_error_occurred_during_an_instruction_execution ==
    Runs(R(0) \o W(0))

\* The words 0xF8600000 and 0xF9600000 are no instructions of the core.
Data_cache_error_occurred_during_a_memory_access_operation ==
    Faults("illegal", Set(0) \o Illegal \o Set(0) \o Set(0) \o Illegal \o Get(0))

Misaligned_memory_access_error_occurs ==
    Faults("align", Misaligned(0) \o Set(0))

Misaligned_memory_access_operation ==
    Faults("align", W(0) \o W(1) \o Misaligned(0) \o Set(0))

\* It reads 0xF0000000, where nothing answers.
Pipeline_stall_due_to_cache_error_or_exception ==
    Faults("dbus", Instr("load", Unmapped, FALSE) \o Set(0))

Pipeline_stall_due_to_data_bus_exceptions ==
    Faults("align", W(0) \o W(1) \o Misaligned(0) \o Set(0))

\* 0x12000001 is l.bf, and 0x70088001 in its delay slot no instruction.
The_processor_is_selecting_a_branch_target_address ==
    LET count == Get(0) \o Get(1) \o Get(0) \o Get(2) \o Get(0) \o Set(0)
    IN  Faults("illegal",
               Set(0) \o Set(1) \o Set(2) \o Set(0) \o Repeat(50, count)
               \o Get(0) \o Get(1) \o Get(0) \o Get(2) \o Get(0) \o Get(2) \o Branch \o Illegal)
-----------------------------------------------------------------------------
LsuPrograms == <<
    A_cache_hit_occurs_due_to_a_snoop_operation,
    A_cache_hit_occurs_when_the_processor_accesses,
    A_cache_way_is_being_validated,
    A_cache_way_match_is_detected,
    A_cache_way_tag_is_being_checked,
    A_data_bus_error_occurred_during_an_instruction_execution,
    A_memory_access_instruction_encounters_an_alignment_error,
    A_memory_access_request_is_generated,
    A_store_data_access_is_being_performed,
    Cache_hit_detected_in_the_data_cache,
    Cache_hit_occurs_due_to_a_successful_data_retrieval,
    Cache_line_invalidation_acknowledgement_received,
    Cache_line_invalidation_due_to_a_snoop_request,
    Cache_line_invalidation_due_to_external_request,
    Cache_line_refill_address_calculation,
    Cache_line_replacement_due_to_least_recently_used,
    Cache_refill_completion,
    Cache_refill_hit_occurs_when_a_requested_data,
    Cache_refill_is_allowed_when_there_is_no_ongoing,
    Cache_refill_is_allowed_when_there_is_no_store,
    Cache_refill_operation_has_completed,
    Cache_refill_operation_initiated,
    Cache_refill_operation_is_valid,
    Cache_refill_request_is_generated,
    Cache_way_match_detected_during,
    Cache_way_tag_check_event_occurs,
    Cache_way_validation_check,
    Completion_of_a_memory_access_operation,
    Data_alignment_operation_during_memory_access,
    Data_bus_access_during_load_or_store_operations,
    Data_cache_access_enabled_for_an_instruction,
    Data_cache_access_is_initiated,
    Data_cache_access_selection_based_on_system_configuration,
    Data_cache_bus_error_occurred_during_an_instruction_execution,
    Data_cache_error_occurred_during_a_memory_access_operation,
    Data_cache_load_operation_completion,
    Data_cache_refill_burst_operation_initiated,
    Data_extension_during_load_operation,
    Data_is_being_loaded_into_the_CPU_from_the_memory,
    Data_is_being_transferred_from_the_load_store_unit,
    Data_is_being_written_to_memory,
    Instruction_address_matches_a_previously_accessed_address,
    Instruction_execution_triggers_a_write_operation,
    Instruction_requires_zero_extension_for_load_store_operation,
    Load_Store_address_calculation_completion,
    Load_Store_operation_with_variable_length,
    Load_instruction_execution_initiated,
    Load_or_store_operation_is_initiated_in_the_pipeline,
    Memory_access_address_generation,
    Memory_access_operation_is_initiated__potentially_leading_to_a_cache_hit_or_miss,
    Memory_access_operation_is_initiated__potentially_leading_to_a_cache_hit_or_miss__and_subsequent_data_transfer,
    Memory_access_with_byte_level_select_signal_assertion,
    Memory_synchronization_operation_is_initiated,
    Memory_write_operation_initiated_by_the_processor,
    Misaligned_memory_access_error_occurs,
    Misaligned_memory_access_operation,
    Operand_forwarding_from_the_execute_stage_to_the_decode_stage,
    Pipeline_stall_due_to_cache_coherence_issue,
    Pipeline_stall_due_to_cache_coherence_protocol,
    Pipeline_stall_due_to_cache_error_or_exception,
    Pipeline_stall_due_to_cache_miss,
    Pipeline_stall_due_to_cache_miss_or_memory_access_hazard,
    Pipeline_stall_due_to_data_bus_acknowledgement,
    Pipeline_stall_due_to_data_bus_exceptions,
    Pipeline_stall_due_to_data_cache_access,
    Pipeline_stall_due_to_data_cache_refill,
    Pipeline_stall_due_to_data_dependency_on_a_load_instruction,
    Pipeline_stall_due_to_delay_slot_instruction,
    Pipeline_stall_due_to_delay_slot_instruction_v2,
    Pipeline_stall_on_data_bus_access_hazard,
    Pipeline_stall_on_data_dependency_hazard,
    Store_operation_is_initiated_in_the_load_store_unit,
    The_processor_acknowledges_the_completion_of_an_instruction,
    The_processor_enables_data_caching_for_a_specific_instruction,
    The_processor_generates_a_memory_access_address,
    The_processor_is_accessing_the_data_bus,
    The_processor_is_generating_a_memory_address,
    The_processor_is_selecting_a_branch_target_address,
    The_processor_is_selecting_a_data_bus,
    The_processor_is_selecting_a_data_source,
    The_processor_is_writing_data_to_the_cache,
    The_processor_requests_a_cache_refill>>
=============================================================================
