------------------------------- MODULE Build -------------------------------
(***************************************************************************)
(* build.py: main picks the targets from its arguments (or cleans, or     *)
(* lists) and build_all runs build_target on each, counting successes and *)
(* failures.  build_target finds every source (local override first),     *)
(* assembles or compiles it (or concatenates and assembles them all), adds *)
(* the CP/M runtime (built once and cached) and links; for MPMLDR,        *)
(* post_build_mpmldr extracts LDRBDOS from DRI's MPMLDR.COM into a cached *)
(* ldrbdos.bin, copies the linked loader to MPMLDR.linked and runs        *)
(* dri_patch.py on the two.  dri_patch.py is the DriPatch module,         *)
(* instantiated over the files it is given; the same variables also run  *)
(* it from the command line on its own.                                   *)
(*                                                                         *)
(* The file system outlives a main: build.py may be run MaxMains times.   *)
(* Tools and file writes may fail, at most MaxFaults times in all.        *)
(* Lengths and addresses are in units of 80H bytes.                       *)
(***************************************************************************)
EXTENDS Integers, Sequences, FiniteSets

CONSTANTS
    Targets,      \* ALL_TARGETS: [name, srcs, concat, skipRt, post]
    Kind,         \* source -> "asm" (.ASM, .MAC) or "plm"
    Layouts,      \* source trees: source -> "local", "orig" or "missing"
    MainArgs,     \* parsed arguments: [clean, list, asmOnly, names]
    LinkLens,     \* lengths ul80 may give the linked MPMLDR
    DriLen,       \* length of DRI's MPMLDR.COM
    PartLens,     \* lengths a failed write of ldrbdos.bin may leave
    Org, LdrAt, LdrSize,   \* 0x100, 0xD00, 0xA80
    MaxMains, MaxFaults,
    Invocations,  \* dri_patch.py command lines run by hand
    CliFiles      \* the files those command lines name

None == -1000

VARIABLES
    \* dri_patch.py (see DriPatch) and the files it reads
    inv, pc, i, combined, gmin, gmax, start, size, rc, out, dfiles,
    \* the build
    bpc,      \* "idle", "target", "concat", "src", "runtime", "link", "post", "dri", "cli"
    mains,    \* build.py runs started
    layout,   \* where each source is
    sel,      \* the targets build_all walks (indices into Targets)
    k, j,     \* index into sel, into the target's sources
    rels,     \* rel_files: the objects, as the <<source, tree>> they came from
    allOk,    \* all_success
    succ, fail,
    brc,      \* the exit status of the last main, None while one runs
    outputs,  \* target -> its file in bin/src: [st, gen, objs, len, data]
    runtime,  \* cpm_runtime.rel exists
    ldr,      \* ldrbdos.bin: [st |-> "none" | "ok" | "partial", len]
    faults

dvars == <<inv, pc, i, combined, gmin, gmax, start, size, rc, out, dfiles>>
bvars == <<bpc, mains, layout, sel, k, j, rels, allOk, succ, fail, brc, outputs,
           runtime, ldr, faults>>
vars == <<dvars, bvars>>

\* dri_patch.py over the file system F: DP(dfiles) is bound through \E, as
\* the files are fixed while one dri_patch.py runs.
DP(F) == INSTANCE DriPatch WITH Files <- F

T == Targets[sel[k]]
Cur == mains
NoOut == [st |-> "none", gen |-> 0, objs |-> {}, len |-> 0, data |-> <<>>]
Fault == faults < MaxFaults /\ faults' = faults + 1

\* The file of bin/src the target links to.
SetOut(r) == outputs' = [outputs EXCEPT ![sel[k]] = r]

\* build_target returns ok; build_all counts it and moves on.
TargetDone(ok) ==
    /\ succ' = succ + (IF ok THEN 1 ELSE 0)
    /\ fail' = fail + (IF ok THEN 0 ELSE 1)
    /\ k' = k + 1 /\ bpc' = "target"

\* main: --clean removes build/src and bin/src (cpm_runtime.rel and
\* ldrbdos.bin with them); --list prints; --asm-only keeps the targets
\* whose sources are all assembly; names keep the targets so named and
\* none is an error; else every target.  build_all then starts.
Main ==
    /\ bpc = "idle" /\ mains < MaxMains
    /\ mains' = mains + 1
    /\ \E a \in MainArgs :
        LET chosen == IF a.asmOnly THEN {x \in 1..Len(Targets) :
                                          \A y \in 1..Len(Targets[x].srcs) : Kind[Targets[x].srcs[y]] = "asm"}
                      ELSE IF a.names # {} THEN {x \in 1..Len(Targets) : Targets[x].name \in a.names}
                      ELSE 1..Len(Targets)
            InOrder == [y \in 1..Cardinality(chosen) |->
                          CHOOSE x \in chosen : Cardinality({z \in chosen : z <= x}) = y]
        IN  IF a.clean
            THEN /\ outputs' = [x \in DOMAIN outputs |-> NoOut]
                 /\ runtime' = FALSE /\ ldr' = [st |-> "none", len |-> 0]
                 /\ brc' = 0 /\ sel' = <<>>
                 /\ UNCHANGED <<bpc, k, succ, fail>>
            ELSE IF a.list \/ (~a.asmOnly /\ a.names # {} /\ chosen = {})
            THEN /\ brc' = (IF a.list THEN 0 ELSE 1) /\ sel' = <<>>
                 /\ UNCHANGED <<bpc, k, succ, fail, outputs, runtime, ldr>>
            ELSE /\ sel' = InOrder /\ k' = 1 /\ succ' = 0 /\ fail' = 0
                 /\ brc' = None /\ bpc' = "target"
                 /\ UNCHANGED <<outputs, runtime, ldr>>
    /\ UNCHANGED <<dvars, layout, j, rels, allOk, faults>>

\* build_all: the next target, or the summary and main's exit status.
BeginTarget ==
    /\ bpc = "target" /\ k <= Len(sel)
    /\ bpc' = IF T.concat /\ Len(T.srcs) > 1 THEN "concat" ELSE "src"
    /\ j' = 1 /\ rels' = {} /\ allOk' = TRUE
    /\ UNCHANGED <<dvars, mains, layout, sel, k, succ, fail, brc, outputs, runtime, ldr, faults>>

ExitStatus(f) == IF f = 0 THEN 0 ELSE 1

EndBuildAll ==
    /\ bpc = "target" /\ k > Len(sel)
    /\ brc' = ExitStatus(fail) /\ bpc' = "idle"
    /\ UNCHANGED <<dvars, mains, layout, sel, k, j, rels, allOk, succ, fail, outputs, runtime, ldr, faults>>

\* Where build_target finds a source: the local override, else the
\* original tree; "missing" when neither exists.
Obj(s) == <<s, layout[s]>>

\* The concatenated case: every source must exist and be read (a missing
\* or unreadable one ends the target with False); the joined file is
\* assembled as one object, or the target fails.
Concat ==
    /\ bpc = "concat"
    /\ IF \E y \in 1..Len(T.srcs) : layout[T.srcs[y]] = "missing"
       THEN TargetDone(FALSE) /\ UNCHANGED <<j, rels, faults>>
       ELSE \/ /\ Fault /\ TargetDone(FALSE) /\ UNCHANGED <<j, rels>>
            \/ /\ rels' = {Obj(T.srcs[y]) : y \in 1..Len(T.srcs)}
               /\ j' = Len(T.srcs) + 1 /\ bpc' = "src"
               /\ UNCHANGED <<k, succ, fail, faults>>
    /\ UNCHANGED <<dvars, mains, layout, sel, allOk, brc, outputs, runtime, ldr>>

\* The normal case, one source: a missing one is skipped with all_success
\* False; .ASM/.MAC go through um80, .PLM through uplm80 then um80, and a
\* tool that fails also clears all_success.
CompileSource ==
    /\ bpc = "src" /\ j <= Len(T.srcs)
    /\ LET s == T.srcs[j] IN
       IF layout[s] = "missing"
       THEN allOk' = FALSE /\ UNCHANGED <<rels, faults>>
       ELSE \/ rels' = rels \cup {Obj(s)} /\ UNCHANGED <<allOk, faults>>
            \/ Fault /\ allOk' = FALSE /\ UNCHANGED rels
    /\ j' = j + 1
    /\ UNCHANGED <<dvars, bpc, mains, layout, sel, k, succ, fail, brc, outputs, runtime, ldr>>

\* No object file produced: the target fails before linking.
EndSources ==
    /\ bpc = "src" /\ j > Len(T.srcs)
    /\ IF rels = {} THEN TargetDone(FALSE) ELSE bpc' = "runtime" /\ UNCHANGED <<k, succ, fail>>
    /\ UNCHANGED <<dvars, mains, layout, sel, j, rels, allOk, brc, outputs, runtime, ldr, faults>>

RT == <<"cpm_runtime", "build">>

\* Unless skip_runtime: cpm_runtime.rel is assembled if it does not exist
\* (a failure ends the target) and joins rel_files.
Runtime ==
    /\ bpc = "runtime"
    /\ \/ T.skipRt /\ bpc' = "link" /\ UNCHANGED <<rels, runtime, k, succ, fail, faults>>
       \/ /\ ~T.skipRt /\ runtime
          /\ rels' = rels \cup {RT} /\ bpc' = "link" /\ UNCHANGED <<runtime, k, succ, fail, faults>>
       \/ /\ ~T.skipRt /\ ~runtime
          /\ \/ runtime' = TRUE /\ rels' = rels \cup {RT} /\ bpc' = "link"
                /\ UNCHANGED <<k, succ, fail, faults>>
             \/ Fault /\ TargetDone(FALSE) /\ UNCHANGED <<rels, runtime>>
    /\ UNCHANGED <<dvars, mains, layout, sel, j, allOk, brc, outputs, ldr>>

\* ul80 links rel_files into bin/src; a failure may leave the old file or
\* a partial one.  Without a post-build step build_target returns
\* all_success.
Link ==
    /\ bpc = "link"
    /\ \/ /\ \E n \in (IF T.post THEN LinkLens ELSE {0}) :
                SetOut([st |-> "linked", gen |-> Cur, objs |-> rels, len |-> n, data |-> <<>>])
          /\ IF T.post THEN bpc' = "post" /\ UNCHANGED <<k, succ, fail>>
             ELSE TargetDone(allOk)
          /\ UNCHANGED faults
       \/ /\ Fault
          /\ \/ UNCHANGED outputs
             \/ SetOut([NoOut EXCEPT !.st = "partial", !.gen = Cur])
          /\ TargetDone(FALSE)
    /\ UNCHANGED <<dvars, mains, layout, sel, j, rels, allOk, brc, runtime, ldr>>

Bin(n) == [exists |-> TRUE, hex |-> FALSE, data |-> <<>>, len |-> n]

\* The dri_patch.py command post_build_mpmldr runs:
\* --base MPMLDR.linked@0x100 --patch 0xD00:ldrbdos.bin -o MPMLDR.COM.
PostBuild ==
    [mode |-> "build", end |-> 0, base |-> "LINKED", baseOff |-> Org, hex |-> <<>>,
     patch |-> <<[addr |-> LdrAt, file |-> "LDRBDOS"]>>, copy |-> <<>>, input |-> <<>>,
     start |-> None, size |-> None, fill |-> 0, overflow |-> "error", hexOut |-> FALSE]

\* subprocess.run starts dri_patch.py in its initial state over the files.
StartDriPatch(F, cmd, o) ==
    /\ dfiles' = F /\ inv' = cmd /\ pc' = IF cmd.mode = "extract" THEN "extract" ELSE "base"
    /\ i' = 1 /\ combined' = [a \in {} |-> <<"none", 0>>]
    /\ gmin' = None /\ gmax' = None /\ start' = 0 /\ size' = 0 /\ rc' = None
    /\ out' = o

\* post_build_mpmldr: if ldrbdos.bin does not exist, DRI's MPMLDR.COM
\* must (else False), its bytes [0C00H, 0C00H + 0A80H) are sliced out and
\* written; a failed open or write returns False, a failed write leaving
\* part of the file.  Then the linked loader is copied to MPMLDR.linked
\* and dri_patch.py is run over the two, writing MPMLDR.COM.
Post ==
    /\ bpc = "post"
    /\ LET have == ldr.st # "none"
           got  == IF DriLen < LdrAt - Org THEN 0
                   ELSE IF DriLen < LdrAt - Org + LdrSize THEN DriLen - (LdrAt - Org) ELSE LdrSize
           Run(n) ==
               /\ StartDriPatch([f \in {"LINKED", "LDRBDOS"} |->
                                   IF f = "LINKED" THEN Bin(outputs[sel[k]].len) ELSE Bin(n)],
                                PostBuild, [st |-> "old", data |-> <<>>])
               /\ bpc' = "dri" /\ UNCHANGED <<k, succ, fail>>
       IN  \/ have /\ Run(ldr.len) /\ UNCHANGED <<ldr, faults>>
           \/ /\ ~have /\ layout["MPMLDR.COM"] = "missing"
              /\ TargetDone(FALSE) /\ UNCHANGED <<dvars, ldr, faults>>
           \/ /\ ~have /\ layout["MPMLDR.COM"] # "missing"
              /\ \/ ldr' = [st |-> "ok", len |-> got] /\ Run(got) /\ UNCHANGED faults
                 \/ /\ Fault /\ TargetDone(FALSE) /\ UNCHANGED dvars
                    /\ \/ UNCHANGED ldr
                       \/ \E n \in PartLens : n < got /\ ldr' = [st |-> "partial", len |-> n]
    /\ UNCHANGED <<mains, layout, sel, j, rels, allOk, brc, outputs, runtime>>

\* One step of a running dri_patch.py; the one run by hand stays in its
\* final state once it has exited.
DriStep ==
    /\ bpc = "cli" \/ (bpc = "dri" /\ pc # "exit")
    /\ \E F \in {dfiles} : DP(F)!Next
    /\ UNCHANGED <<dfiles, bvars>>

\* Mutant: post_build_mpmldr's result is returned as build_target's.
PostResultIgnoreSources(ok) == ok

\* run() is True when dri_patch.py exits with 0; a written MPMLDR.COM, or
\* what a failed write left of it, replaces the linked file.  build_target
\* returns False, or all_success.
PostResult(ok) == ok /\ allOk

DriDone ==
    /\ bpc = "dri" /\ pc = "exit"
    /\ CASE out.st = "bin"     -> SetOut([outputs[sel[k]] EXCEPT !.st = "patched", !.data = out.data])
         [] out.st = "partial" -> SetOut([NoOut EXCEPT !.st = "partial", !.gen = Cur])
         [] OTHER              -> UNCHANGED outputs
    /\ TargetDone(PostResult(rc = 0))
    /\ UNCHANGED <<dvars, mains, layout, sel, j, rels, allOk, brc, runtime, ldr, faults>>

\* The start of the file system: a fresh checkout, nothing built; or
\* dri_patch.py run by hand.
Init ==
    /\ mains = 0 /\ sel = <<>> /\ k = 1 /\ j = 1
    /\ rels = {} /\ allOk = TRUE /\ succ = 0 /\ fail = 0 /\ brc = None
    /\ outputs = [x \in 1..Len(Targets) |-> NoOut]
    /\ runtime = FALSE /\ ldr = [st |-> "none", len |-> 0] /\ faults = 0
    /\ \/ /\ bpc = "idle" /\ layout \in Layouts
          /\ dfiles = [f \in {"LINKED", "LDRBDOS"} |-> Bin(0)] /\ inv = PostBuild
          /\ pc = "exit" /\ i = 1 /\ combined = [a \in {} |-> <<"none", 0>>]
          /\ gmin = None /\ gmax = None /\ start = 0 /\ size = 0 /\ rc = None
          /\ out = [st |-> "none", data |-> <<>>]
       \/ /\ bpc = "cli" /\ layout = (CHOOSE l \in Layouts : TRUE) /\ dfiles = CliFiles
          /\ \E F \in {CliFiles} : DP(F)!Init

\* Every build.py run has returned.
Done == bpc = "idle" /\ mains = MaxMains /\ UNCHANGED vars

Next == Main \/ BeginTarget \/ EndBuildAll \/ Concat \/ CompileSource \/ EndSources
        \/ Runtime \/ Link \/ Post \/ DriStep \/ DriDone \/ Done

Spec == Init /\ [][Next]_vars
-----------------------------------------------------------------------------
Sources == UNION {{Targets[x].srcs[y] : y \in 1..Len(Targets[x].srcs)} : x \in 1..Len(Targets)}
OutSt == {"none", "linked", "partial", "patched"}

TypeOK ==
    /\ bpc \in {"idle", "target", "concat", "src", "runtime", "link", "post", "dri", "cli"}
    /\ mains \in 0..MaxMains /\ faults \in 0..MaxFaults
    /\ \A x \in DOMAIN outputs :
          outputs[x].st \in OutSt /\ outputs[x].objs \subseteq (Sources \X {"local", "orig"}) \cup {RT}
    /\ ldr.st \in {"none", "ok", "partial"} /\ ldr.len \in 0..LdrSize
    /\ brc \in {None, 0, 1} /\ succ \in Nat /\ fail \in Nat
    /\ \E F \in {dfiles} : DP(F)!TypeOK

\* The dri_patch.py property, for the command lines run by hand and for
\* the one post_build_mpmldr runs.
OutputIsOverlay == \E F \in {dfiles} : DP(F)!OutputIsOverlay

\* The file a target reports as built in the current run: linked now from
\* an object of every one of its sources, each taken from the override
\* tree when it has one, with the runtime unless skip_runtime, and for
\* MPMLDR patched by dri_patch.py afterwards.
Built(x) ==
    LET t == Targets[x] IN
    /\ outputs[x].gen = Cur
    /\ outputs[x].st = IF t.post THEN "patched" ELSE "linked"
    /\ outputs[x].objs = {Obj(t.srcs[y]) : y \in 1..Len(t.srcs)} \cup (IF t.skipRt THEN {} ELSE {RT})
    /\ \A y \in 1..Len(t.srcs) : layout[t.srcs[y]] # "missing"

\* build.py exits 0 only when every target it walked was built, whole, by
\* this run: a skipped missing source, a failed tool, a failed link or
\* post-build step, or an output left from an earlier run all make main
\* return 1, through all_success, build_target's early returns, the
\* post-build result and build_all's failure count together.
BuildStatusHonest ==
    (bpc = "idle" /\ brc = 0) => \A y \in 1..Len(sel) : Built(sel[y])

\* The MPMLDR memory map post_build_mpmldr's comment gives: the loader's
\* code from 100H, LDRBDOS (0A80H bytes of DRI's MPMLDR.COM from file
\* offset 0C00H) from 0D00H.  An MPMLDR.COM reported built holds every
\* byte of both: a linked loader longer than 0C00H would run under
\* LDRBDOS, and a short ldrbdos.bin left by a failed extraction would be
\* reused by every later build until --clean.  Stated for the state in
\* which build.py has exited 0 for a run that selected MPMLDR.
MpmldrIntact ==
    (bpc = "idle" /\ brc = 0) =>
        \A x \in {sel[y] : y \in 1..Len(sel)} \cap DOMAIN outputs :
            Targets[x].post =>
                /\ \A b \in 0..(outputs[x].len - 1) : outputs[x].data[b + 1] = <<"LINKED", b>>
                /\ \A b \in 0..(LdrSize - 1) :
                      /\ LdrAt - Org + b + 1 \in DOMAIN outputs[x].data
                      /\ outputs[x].data[LdrAt - Org + b + 1] = <<"LDRBDOS", b>>
=============================================================================
