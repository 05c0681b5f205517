--------------------------- MODULE ProgramMachine ---------------------------
(***************************************************************************)
(* The event programs on the load store unit: one program at a time, from  *)
(* the first instruction of its main to its end or its first exception.    *)
(*                                                                         *)
(* The start-up code and the exception handlers are external: the first    *)
(* has invalidated and enabled the data cache, and a program is over when  *)
(* it comes to one of the second.                                          *)
(***************************************************************************)
EXTENDS LoadStore

CONSTANTS Programs,     \* a sequence of programs, as in EventPrograms
          UNMAPPED,     \* word addresses at which no device answers
          MaxWait       \* bound: cycles a stalled program waits for the bus

VARIABLES prog,         \* number of the program
          stopped,      \* the exception that ended it, or "none"
          rested,       \* it was over in the last cycle
          stalled       \* cycles without an answer or a new instruction

pm_vars == <<vars, prog, stopped, rested, stalled>>

program == Programs[prog]

\* The instruction the execute stage has ready: the next of the program until
\* its end or its first exception, then bubbles.
Ready ==
    LET over == stopped # "none" \/ ctrl.id = Len(program.code)
        n    == program.code[ctrl.id + 1]
    IN  IF over
        THEN [op |-> "other", adr |-> 0, misaligned |-> FALSE, spr |-> 0,
              id |-> ctrl.id, bubble |-> TRUE]
        ELSE [op |-> n.op, adr |-> n.adr, misaligned |-> n.misaligned, spr |-> 0,
              id |-> ctrl.id + 1, bubble |-> FALSE]

\* The bus answers in its own time, with an error where nothing is mapped.
BusAnswers ==
    (IF dbus_req THEN {IF dbus_adr \in UNMAPPED THEN "err" ELSE "ack"} ELSE {"none"})
    \cup (IF dbus_req /\ stalled < MaxWait THEN {"none"} ELSE {})

Cause == IF ctrl.op = "illegal" THEN "illegal"
         ELSE IF ctrl_except_dbus THEN "dbus" ELSE "align"

\* The program has ended and the unit has nothing to do.
Over == /\ stopped # "none" \/ (ctrl.id = Len(program.code) /\ ctrl.bubble)
        /\ ~ctrl_op_lsu /\ ~dc_refill_r
        /\ state = "IDLE" /\ empty /\ ~store_buffer_write_pending

\* The linked address at power-up does not matter without a link.
PMInit == /\ Init /\ atomic_addr = 0 /\ prog \in DOMAIN Programs
          /\ stopped = "none" /\ rested = FALSE /\ stalled = 0

PMNext ==
    \E answer \in BusAnswers, taken \in Takes :
       LET snoop == IF answer = "ack" /\ dbus_we_o THEN {dbus_adr} ELSE {}
           i     == Given(answer, snoop, {Ready}, FALSE, taken)
       IN  /\ Edge(i)
           /\ stopped' = IF i.flush /\ stopped = "none" THEN Cause ELSE stopped
           /\ rested' = Over
           /\ stalled' = IF answer # "none" \/ i.advance \/ stopped # "none" THEN 0
                         ELSE stalled + 1
           /\ UNCHANGED prog

PMSpec == PMInit /\ [][PMNext]_pm_vars
-----------------------------------------------------------------------------
Ended == Over /\ rested

\* A program is ended by the exception its file is about, and by no other.
StopsAsListed == /\ stopped \in {"none", program.stop}
                 /\ Ended => stopped = program.stop

(***************************************************************************)
(* While the replacement module is connected, buffer, cache, bus and       *)
(* memory are one sequential memory to every program, also when it rewrites *)
(* a line that is being refilled.                                          *)
(***************************************************************************)
Memory2 == INSTANCE SequentialMemory WITH
             SHARED <- FALSE, view <- View, stored <- log.stored,
             result <- log.result, void <- log.unseen \/ ~lru_wired
ProgramMemory == Memory2!MemSpec

(***************************************************************************)
(* A line is in at most one way of its set, although the tags a refill     *)
(* writes back were read when it began, the tag memory is read one cycle   *)
(* before the hit is known, and hits and stores write tags in between.     *)
(***************************************************************************)
LineInOneWay ==
    \A s \in Sets : \A v, w \in Ways :
       v # w /\ tag_ram[s].way[v] # Invalid => tag_ram[s].way[v] # tag_ram[s].way[w]

(***************************************************************************)
(* A stalled pipeline goes on a fixed number of cycles after the bus has   *)
(* answered, whatever buffer and cache are doing: it waits for nothing     *)
(* that does not come.                                                     *)
(***************************************************************************)
StallIsShort == stalled <= MaxWait + 1
=============================================================================
