---------------------------- MODULE ImageAssembly ----------------------------
(***************************************************************************)
(* The image assembler at the end of SystemGenerator.generate: the memory *)
(* image from image_base up to SYSTEM.DAT, every module written into it by *)
(* write_module, the XIOS jump table copied to XIOSJMP.TBL, then the      *)
(* record count, the padding to 128 bytes, the reversal of the 128-byte   *)
(* records and the 256-byte SYSTEM.DAT prepended.                          *)
(*                                                                         *)
(* A byte is abstracted to the cell it holds: <<module, offset>> for a    *)
(* code byte, Zero for the image's initial zero fill, <<"SD", i>> for the *)
(* SYSTEM.DAT header. Lengths and offsets are the real byte counts.        *)
(*                                                                         *)
(* Before it, gensys main: --init writes the default configuration, no    *)
(* configuration is an error, else SystemConfig.from_json reads one, -o    *)
(* overrides its output, and generate() runs; after it, MPM.SYS and        *)
(* SYSTEM.DAT are written under spr_dir.  A file is a <<directory, name>>  *)
(* pair, a configuration a record of the fields that name files.          *)
(***************************************************************************)
EXTENDS Integers, Sequences

CONSTANTS
    Layouts,  \* the layouts generate() may reach: mem_top, image_base and
              \* xiosjmp pages, and modules_to_write as <<[name, base, len]>>
    Argvs,    \* parsed arguments: [init, config, output], "" when not given
    Json,     \* configuration file -> its JSON object
    BadJson,  \* configuration files that are missing or not JSON
    Paths     \* the <<directory, name>> files main may write

PAGE == 256
REC  == 128

Zero == <<"Z", 0>>
Cell(n, i) == <<n, i>>

VARIABLES
    args,   \* main's parsed arguments
    cfg,    \* the SystemConfig main runs with
    lay,    \* the layout being assembled
    pc,     \* "alloc", "write", "final", "mpm", "sysdat" or "exit"
    i,      \* index into modules_to_write
    img,    \* mem_image
    rc,     \* the record count stored at SYSTEM.DAT 120
    out,    \* generator.output
    disk,   \* the state of MPM.SYS and SYSTEM.DAT on disk
    status  \* main's return value, -1 while it runs

vars == <<args, cfg, lay, pc, i, img, rc, out, disk, status>>

\* "none": absent; "old": left by an earlier run; "image", "sysdat",
\* "config": this run's MPM.SYS, SYSTEM.DAT or JSON; "partial": truncated
\* by a write that raised.
FileStates == {"none", "old", "image", "sysdat", "config", "partial"}

\* The SystemConfig defaults of the fields that name files (the others
\* reach generate() only, whose layouts are Layouts).
Default == [spr_dir |-> ".", output |-> "mpm.sys", system_dat |-> "system.dat"]

\* from_json: every key the object has that is a field of SystemConfig
\* overwrites the default; other keys are ignored.
FromJson(d) == [key \in DOMAIN Default |-> IF key \in DOMAIN d THEN d[key] ELSE Default[key]]

\* Mutant: -o applied before from_json, whose output key then wins.
LoadConfigOverrideFirst(a) ==
    LET c == [Default EXCEPT !.output = IF a.output # "" THEN a.output ELSE @]
    IN  [key \in DOMAIN c |-> IF key \in DOMAIN Json[a.config] THEN Json[a.config][key] ELSE c[key]]

\* config = SystemConfig.from_json(args.config); -o replaces its output.
LoadConfig(a) == [FromJson(Json[a.config]) EXCEPT !.output = IF a.output # "" THEN a.output ELSE @]

OutPath == <<cfg.spr_dir, cfg.output>>
DatPath == <<cfg.spr_dir, cfg.system_dat>>

Mods == lay.mods
ImageBase == lay.image_base * PAGE
ImageSize == lay.mem_top * PAGE - ImageBase

\* bnkxios000: bytes(bnkxios.code[:256]).
B000 ==
    LET x == CHOOSE m \in {Mods[j] : j \in DOMAIN Mods} : m.name = "BNKXIOS"
        n == IF x.len < PAGE THEN x.len ELSE PAGE
    IN  [j \in 1..n |-> Cell("BNKXIOS", j - 1)]

\* buf[lo:hi] = v for 0 <= lo <= hi <= Len(buf): resizes when Len(v) # hi - lo.
Splice(buf, lo, hi, v) == SubSeq(buf, 1, lo) \o v \o SubSeq(buf, hi + 1, Len(buf))

Init ==
    /\ args \in Argvs
    /\ cfg = Default
    /\ lay \in Layouts
    /\ pc = "main"
    /\ i = 1
    /\ img = <<>>
    /\ rc = 0
    /\ out = <<>>
    /\ disk = [p \in Paths |-> "old"]
    /\ status = -1

\* main: --init has create_default_config write to_json of the defaults
\* (every field) and return 0; that call is outside the try, so a failed
\* write ends python with a traceback and 1.  No configuration prints the
\* help and returns 1; one that from_json cannot read is caught and 1.
Main ==
    /\ pc = "main"
    /\ args.init # "" \/ args.config = "" \/ args.config \in BadJson
    /\ pc' = "exit"
    /\ CASE args.init # "" ->
              \/ disk' = [disk EXCEPT ![<<".", args.init>>] = "config"] /\ status' = 0
              \/ /\ status' = 1
                 /\ \/ UNCHANGED disk
                    \/ disk' = [disk EXCEPT ![<<".", args.init>>] = "partial"]
        [] args.config = "" \/ args.config \in BadJson ->
              status' = 1 /\ UNCHANGED disk
    /\ UNCHANGED <<args, cfg, lay, i, img, rc, out>>

\* The configuration loaded; generate() either raises, caught by main's
\* handler, or reaches the image assembly.
Generate ==
    /\ pc = "main" /\ args.init = "" /\ args.config # "" /\ args.config \notin BadJson
    /\ cfg' = LoadConfig(args)
    /\ \/ pc' = "alloc" /\ UNCHANGED status
       \/ pc' = "exit" /\ status' = 1
    /\ UNCHANGED <<args, lay, i, img, rc, out, disk>>

\* image_base = cur_base * 256; mem_image = bytearray(image_size).
Alloc ==
    /\ pc = "alloc"
    /\ img' = [j \in 1..ImageSize |-> Zero]
    /\ pc' = "write"
    /\ UNCHANGED <<args, cfg, lay, i, rc, out, disk, status>>

\* Mutant: the code copied one byte too far into the image.
WriteModuleOffByOne ==
    LET m   == Mods[i]
        off == m.base - ImageBase
    IN  /\ pc = "write"
        /\ i <= Len(Mods)
        /\ off >= 0 /\ off + m.len <= Len(img)
        /\ img' = [j \in DOMAIN img |->
                     IF off < j /\ j <= off + m.len THEN Cell(m.name, j - off) ELSE img[j]]
        /\ i' = i + 1
        /\ UNCHANGED <<args, cfg, lay, pc, rc, out, disk, status>>

\* write_module for modules_to_write[i]: the code copied in at
\* base - image_base, over whatever is there. Its ValueError (below the
\* image or past its end) is a guard: no layout calculate_memory_layout
\* produces makes it raise, and a layout that did would deadlock the model.
WriteModule ==
    LET m   == Mods[i]
        off == m.base - ImageBase
    IN  /\ pc = "write"
        /\ i <= Len(Mods)
        /\ off >= 0 /\ off + m.len <= Len(img)
        /\ img' = [j \in DOMAIN img |->
                     IF off < j /\ j <= off + m.len THEN Cell(m.name, j - off - 1) ELSE img[j]]
        /\ i' = i + 1
        /\ UNCHANGED <<args, cfg, lay, pc, rc, out, disk, status>>

\* Mutant: the jump table copied one page below XIOSJMP.TBL.
CopyXiosTblPageLow ==
    LET off == (lay.xiosjmp - 1) * PAGE - ImageBase
    IN  /\ pc = "write"
        /\ i > Len(Mods)
        /\ img' = IF off >= 0 /\ off + PAGE <= Len(img)
                  THEN Splice(img, off, off + PAGE, B000)
                  ELSE img
        /\ pc' = "final"
        /\ UNCHANGED <<args, cfg, lay, i, rc, out, disk, status>>

\* The XIOS jump table: bnkxios000 over the XIOSJMP.TBL page when that
\* page lies inside the image.
CopyXiosTbl ==
    LET off == lay.xiosjmp * PAGE - ImageBase
    IN  /\ pc = "write"
        /\ i > Len(Mods)
        /\ img' = IF off >= 0 /\ off + PAGE <= Len(img)
                  THEN Splice(img, off, off + PAGE, B000)
                  ELSE img
        /\ pc' = "final"
        /\ UNCHANGED <<args, cfg, lay, i, rc, out, disk, status>>

\* The 128-byte records of buf in reverse order.
ReverseRecords(buf) ==
    LET n == Len(buf) \div REC
    IN  [j \in 1..Len(buf) |-> buf[REC * (n - 1 - (j - 1) \div REC) + ((j - 1) % REC) + 1]]

Header == [j \in 1..2 * REC |-> <<"SD", j - 1>>]

\* Mutant: the records written in address order, not reversed.
FinalizeInOrder ==
    LET padded == img \o [j \in 1..((-Len(img)) % REC) |-> Zero]
    IN  /\ pc = "final"
        /\ rc' = (2 * REC + Len(img) + REC - 1) \div REC
        /\ out' = Header \o padded
        /\ pc' = "mpm"
        /\ UNCHANGED <<args, cfg, lay, i, img, disk, status>>

\* The record count from len(mem_image), the padding to a whole record,
\* the record reversal and SYSTEM.DAT prepended.
Finalize ==
    LET padded == img \o [j \in 1..((-Len(img)) % REC) |-> Zero]
    IN  /\ pc = "final"
        /\ rc' = (2 * REC + Len(img) + REC - 1) \div REC
        /\ out' = Header \o ReverseRecords(padded)
        /\ pc' = "mpm"
        /\ UNCHANGED <<args, cfg, lay, i, img, disk, status>>

\* Path.write_bytes: open(path, "wb") may raise before the file is touched,
\* or write may raise after truncating it; either way the exception
\* reaches main's handler, which returns 1.
WriteBytes(f, c, next, done) ==
    \/ /\ disk' = [disk EXCEPT ![f] = c]
       /\ pc' = next
       /\ status' = done
    \/ /\ pc' = "exit"
       /\ status' = 1
       /\ \/ UNCHANGED disk
          \/ disk' = [disk EXCEPT ![f] = "partial"]

\* main: generator.write_output(spr_dir / config.output).
WriteOutput ==
    /\ pc = "mpm"
    /\ WriteBytes(OutPath, "image", "sysdat", -1)
    /\ UNCHANGED <<args, cfg, lay, i, img, rc, out>>

\* main: generator.write_system_dat(spr_dir / config.system_dat), then
\* return 0.
WriteSystemDat ==
    /\ pc = "sysdat"
    /\ WriteBytes(DatPath, "sysdat", "exit", 0)
    /\ UNCHANGED <<args, cfg, lay, i, img, rc, out>>

\* main has returned.
Terminated ==
    /\ pc = "exit"
    /\ UNCHANGED vars

Next == Main \/ Generate \/ Alloc \/ WriteModule \/ CopyXiosTbl \/ Finalize \/ WriteOutput \/ WriteSystemDat
        \/ Terminated

Spec == Init /\ [][Next]_vars /\ WF_vars(Next /\ pc # "exit")

-----------------------------------------------------------------------------
Names == {Mods[j].name : j \in DOMAIN Mods}
MaxLen == PAGE * lay.mem_top
CellSet == {Zero} \cup (Names \X (0..MaxLen)) \cup ({"SD"} \X (0..(2 * REC - 1)))

\* Every cell in the image and the file is a zero, a header byte, or a
\* byte of a module that lies within that module's code.
TypeOK ==
    /\ args \in Argvs
    /\ cfg \in [DOMAIN Default -> STRING]
    /\ lay \in Layouts
    /\ pc \in {"main", "alloc", "write", "final", "mpm", "sysdat", "exit"}
    /\ i \in 1..(Len(Mods) + 1)
    /\ \A j \in DOMAIN img : img[j] \in CellSet
    /\ \A j \in DOMAIN img : img[j][1] \in Names =>
          \E k \in DOMAIN Mods : Mods[k].name = img[j][1] /\ img[j][2] < Mods[k].len
    /\ rc \in Nat
    /\ \A j \in DOMAIN out : out[j] \in CellSet
    /\ disk \in [Paths -> FileStates]
    /\ status \in {-1, 0, 1}

\* Once every module is written and the XIOS table copied, each module's
\* code is intact in mem_image at base - image_base (spec 4.5: overlap is
\* an error).  write_module itself checks only that a module lies inside
\* mem_image; no overlap arises because the layout gives every module its
\* own pages and the XIOSJMP.TBL copy lands on a page no module holds.
ModulesIntactInImage ==
    pc = "final" =>
        \A k \in DOMAIN Mods :
            \A o \in 0..(Mods[k].len - 1) :
                LET a == Mods[k].base - ImageBase + o + 1
                IN  a \in DOMAIN img /\ img[a] = Cell(Mods[k].name, o)

(* The memory the layout plans from image_base up to SYSTEM.DAT.          *)
PlannedCell(a) ==
    LET at == {k \in DOMAIN Mods : Mods[k].base <= a /\ a < Mods[k].base + Mods[k].len}
    IN  IF a \div PAGE = lay.xiosjmp THEN Cell("BNKXIOS", a % PAGE)
        ELSE IF at = {} THEN Zero
        ELSE LET k == CHOOSE x \in at : TRUE IN Cell(Mods[k].name, a - Mods[k].base)

Plan == [a \in ImageBase..(lay.mem_top * PAGE - 1) |-> PlannedCell(a)]

(* MPMLDR (spec 4.5): after the two header records, it reads the number  *)
(* of records stored at SYSTEM.DAT 120 and writes file record r (r >= 2)   *)
(* to the 128 bytes ending REC * (r - 2) below mem_top * 256.              *)
LoadedCell(a) ==
    LET top == lay.mem_top * PAGE
        r   == 2 + (top - 1 - a) \div REC
        pos == REC * r + (a - (top - REC * (r - 1))) + 1
    IN  IF r < rc /\ pos <= Len(out) THEN out[pos] ELSE <<"NONE", 0>>

Loaded == IF pc \in {"mpm", "sysdat", "exit"} /\ out # <<>> THEN [a \in DOMAIN Plan |-> LoadedCell(a)]
                         ELSE [a \in {} |-> Zero]

MI == INSTANCE MemoryImage WITH plan <- Plan, mem <- Loaded

\* The assembled MPM.SYS implements the memory-image promise: what the
\* boot loader loads from the file generate() writes is exactly the planned
\* memory, at every address from image_base up to SYSTEM.DAT.
ImplementsMemoryImage == MI!Spec

\* The value of a SystemConfig field the user asked for: -o for output,
\* else the configuration file's key, else the default.
Asked(key) ==
    IF key = "output" /\ args.output # "" THEN args.output
    ELSE IF key \in DOMAIN Json[args.config] THEN Json[args.config][key]
    ELSE Default[key]

\* gensys main returns 0 exactly when it did what it was asked: with
\* --init, the file named holds the default configuration; otherwise the
\* configuration file could be read and, under its spr_dir, the MPM.SYS
\* named by -o (or the file's output) holds this run's image and its
\* system_dat this run's SYSTEM.DAT.  A failed write, a missing or
\* unreadable configuration and a raising generate() all return 1: the
\* exit status is the only signal a build script gets.
ExitStatusHonest ==
    pc = "exit" =>
        (status = 0 <=>
            IF args.init # "" THEN disk[<<".", args.init>>] = "config"
            ELSE /\ args.config # "" /\ args.config \notin BadJson
                 /\ disk[<<Asked("spr_dir"), Asked("output")>>] = "image"
                 /\ disk[<<Asked("spr_dir"), Asked("system_dat")>>] = "sysdat")
=============================================================================
