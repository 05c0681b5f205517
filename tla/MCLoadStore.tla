----------------------------- MODULE MCLoadStore ----------------------------
(* Model checking values for LoadStore: one or two words of memory.         *)
EXTENDS LoadStore

MCAdr  == {0, 4}
MCWord == {0}
MCLine == {0, 1}
Memops == {"load", "store"}
Links  == {"store", "lwa", "swa", "msync", "invalidate", "dce_on", "dce_off"}
Switching == {"load", "store", "msync", "dce_on", "dce_off"}

Off    == {FALSE}
On     == {TRUE}
OnOff  == BOOLEAN

Aligned == {FALSE}
AnyAlignment == BOOLEAN
=============================================================================
