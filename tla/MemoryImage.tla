---------------------------- MODULE MemoryImage ----------------------------
(***************************************************************************)
(* What the system image promises the boot loader (spec 4.5): once MPMLDR *)
(* has read MPM.SYS, memory from image_base up to the SYSTEM.DAT page     *)
(* holds, at every address, exactly what the layout planned there: each   *)
(* module's code at its base, BNKXIOS's first page in XIOSJMP.TBL, zeros  *)
(* elsewhere. Before that, nothing is loaded; a failed generation never   *)
(* loads anything. Once loaded, neither the plan nor memory changes.    *)
(***************************************************************************)
VARIABLES
    plan,   \* address -> the cell the layout puts there
    mem     \* address -> the cell the loader left there (empty: not loaded)

Nothing == [a \in {} |-> plan]

Init == mem = Nothing

\* While the image is being built nothing is loaded, and what is planned
\* may still change.
Build ==
    /\ mem = Nothing
    /\ mem' = Nothing

\* The whole image arrives in one step, exactly as planned.
Load ==
    /\ mem = Nothing
    /\ mem' = plan
    /\ UNCHANGED plan

Spec == Init /\ [][Build \/ Load]_<<plan, mem>>
=============================================================================
