---------------------------- MODULE PrlRelocate ----------------------------
(***************************************************************************)
(* The relocatable module loader and the bitmap relocator of gensys.py:    *)
(* SPRModule.load reads the 256-byte header and the code, get_bitmap       *)
(* re-reads the file for the bitmap that follows the code, and relocate    *)
(* adds the base page to every code byte whose bitmap bit is set.          *)
(*                                                                         *)
(* A file is abstracted to its header fields and the bytes after the      *)
(* header: hdr is FALSE when the file is shorter than 256 bytes, body is   *)
(* data[256:] (code followed by whatever bitmap bytes the file holds).    *)
(***************************************************************************)
EXTENDS Integers, Sequences, Bitwise

CONSTANTS
    Files,      \* the module files the loader may be given
    BasePages   \* the base pages the layout planner may pass to relocate

Byte == 0..255

\* The length of the bitmap the format declares: one bit per code byte.
BitmapLen(psize) == (psize + 7) \div 8

\* SPRModule.load: the code is data[256 : 256 + psize].
CodeOf(f) == SubSeq(f.body, 1, f.psize)

\* get_bitmap: data[256 + psize : 256 + psize + (psize + 7) // 8], which a
\* Python slice silently cuts short when the file ends early.
BitmapOf(f) ==
    LET last == IF Len(f.body) < f.psize + BitmapLen(f.psize)
                THEN Len(f.body) ELSE f.psize + BitmapLen(f.psize)
    IN  IF Len(f.body) <= f.psize THEN <<>> ELSE SubSeq(f.body, f.psize + 1, last)

\* Mutant: the relocated byte not masked with 0xFF.
RelocateNoWrap(code, bitmap, bp) ==
    [i \in DOMAIN code |->
        IF (i - 1) \div 8 < Len(bitmap) /\ (bitmap[(i - 1) \div 8 + 1] & (2 ^ (7 - ((i - 1) % 8)))) # 0
        THEN code[i] + bp ELSE code[i]]

\* Mutant: the bitmap read LSB-first.
RelocateLsbFirst(code, bitmap, bp) ==
    [i \in DOMAIN code |->
        IF (i - 1) \div 8 < Len(bitmap) /\ (bitmap[(i - 1) \div 8 + 1] & (2 ^ ((i - 1) % 8))) # 0
        THEN (code[i] + bp) % 256 ELSE code[i]]

\* relocate: the loop over range(psize) with MSB-first bit numbering; a
\* byte whose bitmap byte is missing is left alone.
Relocate(code, bitmap, bp) ==
    [i \in DOMAIN code |->
        LET idx == i - 1
            bb  == idx \div 8
            bit == 7 - (idx % 8)
        IN  IF bb < Len(bitmap) /\ (bitmap[bb + 1] & (2 ^ bit)) # 0
            THEN (code[i] + bp) % 256
            ELSE code[i]]

ASSUME \A f \in Files : f.psize \in Nat /\ f.body \in Seq(Byte) /\ f.hdr \in BOOLEAN
ASSUME BasePages \subseteq Int

VARIABLES
    file,   \* the file on disk
    bp,     \* the base page the planner assigns to this module
    mod,    \* the loaded SPRModule: [code, psize, base]
    pc      \* "load", "reloc", "done" or "failed" (ValueError raised)

vars == <<file, bp, mod, pc>>

NoModule == [code |-> <<>>, psize |-> 0, base |-> 0]

TypeOK ==
    /\ file \in Files
    /\ bp \in BasePages
    /\ mod \in [code : Seq(Byte), psize : Nat, base : Int]
    /\ pc \in {"load", "reloc", "done", "failed"}

Init ==
    /\ file \in Files
    /\ bp \in BasePages
    /\ mod = NoModule
    /\ pc = "load"

\* SPRModule.load: ValueError when the header or the code is cut short.
Load ==
    /\ pc = "load"
    /\ IF ~file.hdr \/ Len(file.body) < file.psize
       THEN pc' = "failed" /\ UNCHANGED mod
       ELSE /\ mod' = [code |-> CodeOf(file), psize |-> file.psize, base |-> 0]
            /\ pc' = "reloc"
    /\ UNCHANGED <<file, bp>>

\* SPRModule.relocate(base_page), with get_bitmap re-reading the file.
RelocateModule ==
    /\ pc = "reloc"
    /\ mod' = [mod EXCEPT !.base = bp * 256,
                          !.code = Relocate(mod.code, BitmapOf(file), bp)]
    /\ pc' = "done"
    /\ UNCHANGED <<file, bp>>

\* The tool has exited; the state no longer changes.
Terminated ==
    /\ pc \in {"done", "failed"}
    /\ UNCHANGED vars

Next == Load \/ RelocateModule \/ Terminated

Spec == Init /\ [][Next]_vars /\ WF_vars(Load \/ RelocateModule)

-----------------------------------------------------------------------------
(* The relocation the format defines (spec 4.2): bit i of the bitmap, read *)
(* MSB-first, marks code byte i as the high byte of an address; that byte  *)
(* becomes (byte + base_page) mod 256 and every other byte is kept.        *)
BitSet(bitmap, i) == (bitmap[(i \div 8) + 1] \div (2 ^ (7 - (i % 8)))) % 2 = 1

SpecRelocated(code, bitmap, p) ==
    [i \in DOMAIN code |-> IF BitSet(bitmap, i - 1) THEN (code[i] + p) % 256
                                                    ELSE code[i]]

\* After relocate, the module's code is exactly the original code with the
\* base page added, modulo 256, at the bytes the MSB-first bitmap marks,
\* and the module's base is the base page in bytes (SPRModule.relocate).
RelocatedAsFormatDefines ==
    pc = "done" =>
        /\ mod.base = bp * 256
        /\ Len(mod.code) = file.psize
        /\ mod.code = SpecRelocated(CodeOf(file), BitmapOf(file), bp)

\* A module is accepted by the loader only when its file holds the whole
\* relocation bitmap the header's psize implies (spec 4.1 FormatError);
\* SPRModule.load only checks the header and the code.
LoadRejectsMissingBitmap ==
    pc \in {"reloc", "done"} => Len(BitmapOf(file)) = BitmapLen(file.psize)
=============================================================================
