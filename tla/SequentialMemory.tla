-------------------------- MODULE SequentialMemory --------------------------
(***************************************************************************)
(* What the load store unit promises to the program it runs: a memory that *)
(* every store changes at once and in program order, and of which every    *)
(* load returns the present contents.  Other bus masters may write too.    *)
(* In one clock cycle one of them may write, then the program may store,   *)
(* and the program may load what was there when the cycle began.           *)
(***************************************************************************)
CONSTANTS Adr,    \* word addresses
          Val,    \* what a word can hold
          SHARED  \* there are other masters

VARIABLES view,   \* the memory as the program sees it
          stored, \* the program's last store: address and value
          result, \* the load that returned last: address and value
          void    \* nothing is promised any more

Access == [adr : Adr, val : Val]

MemInit == /\ void \in BOOLEAN
           /\ view \in [Adr -> Val]
           /\ stored \in Access /\ result \in Access

\* At most one word of those not in own changes, and none without another master.
OtherWrites(own) ==
    /\ view' \in [Adr -> Val]
    /\ \E x \in Adr : \A a \in Adr \ own :
          view'[a] # view[a] => SHARED /\ a = x

NoStore == stored' = stored /\ OtherWrites({})
Store   == /\ stored' \in Access
           /\ view'[stored'.adr] = stored'.val
           /\ OtherWrites({stored'.adr})

NoLoad  == result' = result
Load    == result' \in Access /\ result'.val = view[result'.adr]

Promised == UNCHANGED void /\ (NoStore \/ Store) /\ (NoLoad \/ Load)

MemNext == Promised \/ void'

MemSpec == MemInit /\ [][MemNext]_<<view, stored, result, void>>
=============================================================================
