------------------------------- MODULE Mkmpm -------------------------------
(***************************************************************************)
(* mkmpm.py: the fixed-layout image builder. read_spr takes a base address *)
(* from header bytes 0-1 and a page count from bytes 2-3, relocates when  *)
(* the base is neither 0 nor the target, and main places each module at a *)
(* hard-coded address in a 9D00H-FFFFH image, generates BNKXIOS, fills     *)
(* XIOSJMP.TBL with RET, copies the header to FF00H and writes the header *)
(* and the image to MPM_complete.SYS and then to MPM.SYS.                 *)
(*                                                                         *)
(* The image is kept as the log of the writes made to it, in order.      *)
(***************************************************************************)
EXTENDS Integers, Sequences, FiniteSets

CONSTANTS
    Disks   \* the SPR files the dist directory may hold: a function from
            \* each name of spr_files to [exists, b0, b1, b2, b3, avail],
            \* b0..b3 the first header bytes, avail the bytes after the header

SysBase == 40192        \* 9D00H
SysSize == 25344        \* 6300H
MemTop  == 65280        \* FF00H, header[0] = 0FFH
XiosTbl == 64512        \* FC00H
BnkxiosAt == 52480      \* CD00H
NoReloc == -1

\* spr_files, in the order main loads them.
SprFiles == <<[name |-> "RESBDOS", target |-> 61440],
              [name |-> "XDOS",    target |-> 52736],
              [name |-> "BNKBDOS", target |-> 43520],
              [name |-> "BNKXDOS", target |-> 43008],
              [name |-> "TMP",     target |-> 41984]>>

Outputs == {"MPM_complete.SYS", "MPM.SYS"}

VARIABLES
    fs,     \* the files in the dist directory
    pc,     \* "load", "bnkxios", "ret", "hdr", "count", "write", "copy", "exit"
    k,      \* index into spr_files
    log,    \* the writes made to mem: <<[name, addr, len, rel]>>
    rc,     \* header_ba[120..121]
    disk,   \* the state of the two output files
    exitOk  \* whether main returned normally

vars == <<fs, pc, k, log, rc, disk, exitOk>>

\* read_spr(filename, target): the code is data[256 : 256 + pages * 256]
\* and rel is the page delta ((target - base) // 256) & 0FFH added to every
\* byte the bitmap marks, or NoReloc when base is 0 or the target.
ReadSpr(f, target) ==
    LET base    == f.b0 + 256 * f.b1
        codeLen == (f.b2 + 256 * f.b3) * 256
    IN  [len |-> IF codeLen < f.avail THEN codeLen ELSE f.avail,
         rel |-> IF base # 0 /\ base # target THEN ((target - base) \div 256) % 256
                                              ELSE NoReloc]

\* Mutant: place without its check against the end of mem.
PlaceNoEndCheck(addr, name, len, rel) ==
    IF addr - SysBase < 0
    THEN log
    ELSE Append(log, [name |-> name, addr |-> addr, len |-> len, rel |-> rel])

\* place(addr, data, name): a write that would leave mem is skipped with
\* a warning; otherwise mem[offset : offset + len] = data.
Place(addr, name, len, rel) ==
    LET offset == addr - SysBase
    IN  IF offset < 0 \/ offset + len > SysSize
        THEN log
        ELSE Append(log, [name |-> name, addr |-> addr, len |-> len, rel |-> rel])

Init ==
    /\ fs \in Disks
    /\ pc = "load"
    /\ k = 1
    /\ log = <<>>
    /\ rc = 0
    /\ disk \in [Outputs -> {"none", "old"}]
    /\ exitOk = FALSE

\* One iteration of the spr_files loop: a missing file is reported and
\* skipped (continue); otherwise read_spr and place at the target.
LoadSpr ==
    LET s == SprFiles[k]
        f == fs[s.name]
    IN  /\ pc = "load"
        /\ k <= Len(SprFiles)
        /\ log' = IF f.exists
                  THEN LET r == ReadSpr(f, s.target) IN Place(s.target, s.name, r.len, r.rel)
                  ELSE log
        /\ k' = k + 1
        /\ pc' = IF k = Len(SprFiles) THEN "bnkxios" ELSE "load"
        /\ UNCHANGED <<fs, rc, disk, exitOk>>

\* The generated BNKXIOS: 30 JP instructions padded to 256 bytes, at CD00H.
PlaceBnkxios ==
    /\ pc = "bnkxios"
    /\ log' = Place(BnkxiosAt, "BNKXIOS", 256, NoReloc)
    /\ pc' = "ret"
    /\ UNCHANGED <<fs, k, rc, disk, exitOk>>

\* mem[xios_offset + i] = 0C9H for the 256 bytes of XIOSJMP.TBL.
FillXiosRet ==
    /\ pc = "ret"
    /\ log' = Append(log, [name |-> "RET", addr |-> XiosTbl, len |-> 256, rel |-> NoReloc])
    /\ pc' = "hdr"
    /\ UNCHANGED <<fs, k, rc, disk, exitOk>>

\* mem[sysdat_offset : sysdat_offset + 256] = header (whose record count
\* is still 0: it is only set in header_ba afterwards).
CopyHeader ==
    /\ pc = "hdr"
    /\ log' = Append(log, [name |-> "HDR", addr |-> MemTop, len |-> 256, rel |-> NoReloc])
    /\ pc' = "count"
    /\ UNCHANGED <<fs, k, rc, disk, exitOk>>

\* num_records = (sys_size + 127) // 128 into header_ba[120..121].
SetRecordCount ==
    /\ pc = "count"
    /\ rc' = ((SysSize + 127) \div 128) % 65536
    /\ pc' = "write"
    /\ UNCHANGED <<fs, k, log, disk, exitOk>>

\* Mutant: the failed write is caught and main goes on.
WriteBytesSwallowed(f, next) ==
    \/ /\ disk' = [disk EXCEPT ![f] = "new"]
       /\ pc' = next
       /\ exitOk' = (next = "exit")
    \/ /\ disk' \in {disk, [disk EXCEPT ![f] = "partial"]}
       /\ pc' = next
       /\ exitOk' = (next = "exit")

\* with open(path, 'wb') as f: f.write(header_ba); f.write(mem). open may
\* raise before the file is touched, or a write may raise after truncating
\* it; nothing catches the exception, and main ends with a traceback.
WriteBytes(f, next) ==
    \/ /\ disk' = [disk EXCEPT ![f] = "new"]
       /\ pc' = next
       /\ exitOk' = (next = "exit")
    \/ /\ disk' \in {disk, [disk EXCEPT ![f] = "partial"]}
       /\ pc' = "exit"
       /\ UNCHANGED exitOk

\* The output to disks/MPM_complete.SYS.
WriteComplete ==
    /\ pc = "write"
    /\ WriteBytes("MPM_complete.SYS", "copy")
    /\ UNCHANGED <<fs, k, log, rc>>

\* The same bytes to disks/MPM.SYS; main then returns.
WriteMpmSys ==
    /\ pc = "copy"
    /\ WriteBytes("MPM.SYS", "exit")
    /\ UNCHANGED <<fs, k, log, rc>>

\* main has returned or raised.
Terminated ==
    /\ pc = "exit"
    /\ UNCHANGED vars

Next == LoadSpr \/ PlaceBnkxios \/ FillXiosRet \/ CopyHeader \/ SetRecordCount
        \/ WriteComplete \/ WriteMpmSys \/ Terminated

Spec == Init /\ [][Next]_vars /\ WF_vars(Next /\ pc # "exit")

-----------------------------------------------------------------------------
Names == {SprFiles[j].name : j \in 1..Len(SprFiles)} \cup {"BNKXIOS", "RET", "HDR"}

TypeOK ==
    /\ fs \in Disks
    /\ pc \in {"load", "bnkxios", "ret", "hdr", "count", "write", "copy", "exit"}
    /\ k \in 1..(Len(SprFiles) + 1)
    /\ \A j \in DOMAIN log :
          /\ log[j].name \in Names
          /\ log[j].addr >= SysBase /\ log[j].addr + log[j].len <= SysBase + SysSize
          /\ log[j].rel \in {NoReloc} \cup (0..255)
    /\ rc \in 0..65535
    /\ disk \in [Outputs -> {"none", "old", "new", "partial"}]
    /\ exitOk \in BOOLEAN

\* Spec 4.1/4.2: a module file's code is the psize bytes (header bytes
\* 1-2) after the header, and relocating it to a page adds that page to
\* every byte its bitmap marks; read_spr reads base and page count from
\* bytes 0-3 instead.
PlacedAsFormatDefines ==
    \A w \in DOMAIN log :
        \A j \in 1..Len(SprFiles) :
            LET f == fs[SprFiles[j].name]
            IN  log[w].name = SprFiles[j].name =>
                    /\ log[w].len = f.b1 + 256 * f.b2
                    /\ log[w].rel = (SprFiles[j].target \div 256) % 256

\* main writes MPM_complete.SYS and then MPM.SYS with nothing catching a
\* failed open or write: main returns normally only when both files hold
\* this run's image, and MPM.SYS, the file MPMLDR boots, is never
\* rewritten unless MPM_complete.SYS was written whole first.
OutputsInStep ==
    /\ (pc = "exit" /\ exitOk) => \A f \in Outputs : disk[f] = "new"
    /\ disk["MPM.SYS"] \in {"new", "partial"} => disk["MPM_complete.SYS"] = "new"
=============================================================================
