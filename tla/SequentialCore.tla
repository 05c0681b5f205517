--------------------------- MODULE SequentialCore ---------------------------
(***************************************************************************)
(* What the pipeline promises to its program: instructions take effect one *)
(* at a time and in order, a branch after the instruction in its delay     *)
(* slot; an exception comes between two of them and saves where to go on;  *)
(* an interrupt that is enabled is not put off.                            *)
(***************************************************************************)
LOCAL INSTANCE Integers

CONSTANTS Vector     \* where the handler of each cause begins

VARIABLES code,      \* the program: instructions by address
          pc, npc,   \* the next instruction and the one after it
          slot,      \* pc is in a delay slot
          branch,    \* the last branch
          executed,  \* the last instruction that took effect
          sr, esr, epcr,   \* flag and interrupt enables, their saved copy, saved PC
          pending    \* the interrupts that are requested

now     == code[pc]
mapped  == pc \in DOMAIN code
Branches == {"bf", "bnf", "j"}

Taken == \/ now.op = "j"
         \/ now.op = "bf" /\ sr.f
         \/ now.op = "bnf" /\ ~sr.f

NextPc     == IF now.op = "rfe" THEN epcr ELSE npc
NextNpc    == IF now.op = "rfe" THEN epcr + 1 ELSE IF Taken THEN now.to ELSE npc + 1
NextBranch == IF now.op \in Branches THEN pc ELSE branch

Interrupts == {c \in pending : (c = "pic" /\ sr.iee) \/ (c = "tick" /\ sr.tee)}

CoreInit == /\ pc = 0 /\ npc = 1 /\ slot = FALSE /\ branch = 0 /\ executed = -1
            /\ sr = [f |-> FALSE, iee |-> FALSE, tee |-> FALSE] /\ esr = sr
            /\ epcr \in Int

\* The instruction at pc takes effect.  The unit waits with an interrupt for
\* the end of a memory access and of writes to its own registers.
Execute ==
    /\ mapped /\ now.op \notin {"sys", "illegal"}
    /\ Interrupts = {} \/ now.op \in {"mem", "mtspr", "rfe"}
    /\ executed' = pc
    /\ pc' = NextPc /\ npc' = NextNpc
    /\ slot' = (now.op \in Branches) /\ branch' = NextBranch
    /\ sr'.f \in BOOLEAN
    /\ sr' = CASE now.op = "rfe" -> esr
               [] now.op = "sf"  -> [sr EXCEPT !.f = sr'.f]
               [] OTHER -> IF now.op = "mtspr" /\ now.spr = "SR" THEN now.val ELSE sr
    /\ esr' = IF now.op = "mtspr" /\ now.spr = "ESR" THEN now.val ELSE esr
    /\ epcr' = IF now.op = "mtspr" /\ now.spr = "EPCR" THEN now.val ELSE epcr

\* Why the instruction at pc does not take effect.
Causes == Interrupts \cup
          {c \in {"sys", "illegal", "dbus", "ibus"} :
             CASE c \in {"sys", "illegal"} -> mapped /\ now.op = c
               [] c = "dbus" -> mapped /\ now.op = "mem"
               [] c = "ibus" -> ~mapped}

\* An instruction in a delay slot is repeated with its branch; l.sys is not
\* repeated; for an instruction that cannot be read the last branch is saved.
ReturnPc(c) == CASE c = "ibus" -> branch
                 [] c = "sys" /\ ~slot -> pc + 1
                 [] OTHER -> IF slot THEN pc - 1 ELSE pc

Exception == \E c \in Causes :
    /\ pc' = Vector[c] /\ npc' = Vector[c] + 1 /\ slot' = FALSE
    /\ epcr' = ReturnPc(c)
    /\ esr' = sr /\ sr' = [sr EXCEPT !.iee = FALSE, !.tee = FALSE]
    /\ UNCHANGED <<branch, executed>>

CoreNext == (Execute \/ Exception) /\ UNCHANGED code

CoreSpec == CoreInit /\ [][CoreNext]_<<code, pc, npc, slot, branch, executed, sr, esr, epcr>>
=============================================================================
