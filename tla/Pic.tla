--------------------------------- MODULE Pic ---------------------------------
(***************************************************************************)
(* The interrupt controller, mor1kx_pic.v, in its three builds.  One step  *)
(* is one clock cycle; a vector of interrupt lines is the set of those     *)
(* that are high.  The lines are irq; write is the SPR that the control    *)
(* stage writes in the cycle, or NoWrite.                                  *)
(***************************************************************************)
CONSTANT Lines

VARIABLES trigger,         \* OPTION_PIC_TRIGGER
          irq,             \* irq_i
          spr_picmr, picsr_r, irq_unmasked_r

pic_vars == <<trigger, irq, spr_picmr, picsr_r, irq_unmasked_r>>

irq_unmasked      == spr_picmr \cap irq
irq_unmasked_edge == irq_unmasked \ irq_unmasked_r

\* The status is a register but for LEVEL, where it is the lines.
spr_picsr == IF trigger = "LEVEL" THEN irq_unmasked ELSE picsr_r

PicInit == /\ irq = {} /\ spr_picmr = {} /\ picsr_r = {} /\ irq_unmasked_r = {}

\* An edge comes before the write that clears its bit; a write to a latched
\* level replaces the status.
PicStatus(write) ==
    CASE trigger = "EDGE" ->
           (picsr_r \ (IF write.spr = "PICSR" THEN write.val ELSE {})) \cup irq_unmasked_edge
      [] trigger = "LATCHED_LEVEL" ->
           irq_unmasked \cup (IF write.spr = "PICSR" THEN write.val ELSE picsr_r)
      [] OTHER -> {}

\* Mutant: edges of a masked line are not kept for when it is unmasked.
LastLevel_OfLine == IF trigger = "EDGE" THEN irq ELSE {}
LastLevel        == IF trigger = "EDGE" THEN irq_unmasked ELSE {}

PicCycle(write) ==
    /\ spr_picmr' = IF write.spr = "PICMR" THEN write.val ELSE spr_picmr
    /\ picsr_r' = PicStatus(write)
    /\ irq_unmasked_r' = LastLevel
    /\ UNCHANGED trigger
=============================================================================
