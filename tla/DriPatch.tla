------------------------------ MODULE DriPatch ------------------------------
(***************************************************************************)
(* dri_patch.py, build mode of main: combined starts empty or as the base *)
(* file (Intel HEX if it parses, else binary at @OFFSET), then each --hex, *)
(* --patch, --copy and input file is overlaid on it by apply_patch, in     *)
(* that order, while update_bounds widens [global_min, global_max].  An    *)
(* empty result is an error; the output window is --start (or global_min) *)
(* and --size (or up to global_max); data outside it is an error, a       *)
(* warning or ignored; dict_to_binary or write_intel_hex writes the file. *)
(*                                                                         *)
(* A byte is the cell <<file, index>> it was read from: index is the file *)
(* offset of a binary byte and the address of an Intel HEX data byte.     *)
(***************************************************************************)
EXTENDS Integers, Sequences, FiniteSets

CONSTANTS
    Files,        \* name -> [exists, hex, data, len]: hex says whether
                  \* parse_intel_hex accepts the file, data is then its
                  \* address -> byte map, len is its length in bytes
    Invocations   \* the parsed arguments main may be run with

None == -1000     \* global_min / global_max before update_bounds, and an
                  \* option not given (--start '0', no --size)
Outputs == {"none", "old", "partial", "bin", "hex"}

VARIABLES
    inv,        \* args
    pc,         \* "extract", "base", "hex", "patch", "copy", "input", "empty", "range", "write", "exit"
    i,          \* index into the list the current loop walks
    combined,   \* the address -> byte dict
    gmin, gmax, \* global_min, global_max
    start,      \* start_addr
    size,       \* output_size
    rc,         \* main's exit status, None while it runs
    out         \* the output file: [st, data]

vars == <<inv, pc, i, combined, gmin, gmax, start, size, rc, out>>

Loops == <<"hex", "patch", "copy", "input">>
List(p) == CASE p = "hex"   -> inv.hex   [] p = "patch" -> inv.patch
             [] p = "copy"  -> inv.copy  [] p = "input" -> inv.input

\* load_binary(path, offset): byte i of the file at offset + i; the bounds
\* are offset .. offset + len - 1, or offset .. offset for an empty file.
LoadBinary(n, off) == [a \in off..(off + Files[n].len - 1) |-> <<n, a - off>>]
BinMax(n, off) == IF Files[n].len > 0 THEN off + Files[n].len - 1 ELSE off

\* load_intel_hex(path): the data records' bytes and their lowest and
\* highest address (the file always has one, or it does not parse).
HexMin(n) == CHOOSE a \in DOMAIN Files[n].data : \A b \in DOMAIN Files[n].data : a <= b
HexMax(n) == CHOOSE a \in DOMAIN Files[n].data : \A b \in DOMAIN Files[n].data : a >= b

\* Mutant: apply_patch copies the patch and keeps the base's bytes over it.
ApplyPatchKeepBase(base, patch) ==
    [a \in DOMAIN base \cup DOMAIN patch |-> IF a \in DOMAIN base THEN base[a] ELSE patch[a]]

\* apply_patch(base, patch): result = base.copy(), then result[addr] = byte
\* for every byte of the patch (max_addr is never passed, so no check).
ApplyPatch(base, patch) ==
    [a \in DOMAIN base \cup DOMAIN patch |-> IF a \in DOMAIN patch THEN patch[a] ELSE base[a]]

\* update_bounds(min_a, max_a).
Lo(m) == IF gmin = None \/ m < gmin THEN m ELSE gmin
Hi(m) == IF gmax = None \/ m > gmax THEN m ELSE gmax

\* main returns 1 (or raises) and nothing is written.
Fail == /\ rc' = 1 /\ pc' = "exit"
        /\ UNCHANGED <<i, combined, gmin, gmax, start, size, out>>

\* combined and the bounds take in one more loaded dict.
Merge(d, lo, hi) ==
    /\ combined' = ApplyPatch(combined, d)
    /\ gmin' = Lo(lo) /\ gmax' = Hi(hi)

Init ==
    /\ inv \in Invocations
    /\ pc = IF inv.mode = "extract" THEN "extract" ELSE "base"
    /\ i = 1
    /\ combined = [a \in {} |-> <<"none", 0>>]
    /\ gmin = None /\ gmax = None /\ start = 0 /\ size = 0
    /\ rc = None
    /\ out \in {[st |-> s, data |-> <<>>] : s \in {"none", "old"}}

\* --extract START:END: input[0] is read whole and data[start:end] is
\* written to the output (a slice: clamped to the file, empty when
\* start >= end); no input file is an error, a missing one raises.
Extract ==
    /\ pc = "extract"
    /\ IF inv.input = <<>> \/ ~Files[inv.input[1]].exists THEN Fail
       ELSE LET n  == inv.input[1]
                hi == IF inv.end < Files[n].len THEN inv.end ELSE Files[n].len
            IN  /\ pc' = "exit"
                /\ \/ /\ out' = [st |-> "bin", data |->
                                  [j \in 1..(hi - inv.start) |-> <<n, inv.start + j - 1>>]]
                      /\ rc' = 0
                   \/ /\ out' \in {out, [st |-> "partial", data |-> <<>>]}
                      /\ rc' = 1
                /\ UNCHANGED <<i, combined, gmin, gmax, start, size>>
    /\ UNCHANGED inv

\* if args.base: a missing file is an error; otherwise try Intel HEX and,
\* on any exception, load it as binary at the offset after '@'.
LoadBase ==
    /\ pc = "base"
    /\ IF inv.base = "none"
       THEN /\ pc' = "hex" /\ UNCHANGED <<i, combined, gmin, gmax, start, size, rc, out>>
       ELSE LET n == inv.base IN
            IF ~Files[n].exists THEN Fail
            ELSE /\ IF Files[n].hex
                    THEN Merge(Files[n].data, HexMin(n), HexMax(n))
                    ELSE Merge(LoadBinary(n, inv.baseOff), inv.baseOff, BinMax(n, inv.baseOff))
                 /\ pc' = "hex"
                 /\ UNCHANGED <<i, start, size, rc, out>>
    /\ UNCHANGED inv

\* for hex_file in args.hex: a missing file is an error, and one that
\* does not parse raises out of main.
AddHex ==
    /\ pc = "hex" /\ i <= Len(inv.hex)
    /\ LET n == inv.hex[i] IN
       IF ~Files[n].exists \/ ~Files[n].hex THEN Fail
       ELSE /\ Merge(Files[n].data, HexMin(n), HexMax(n))
            /\ i' = i + 1
            /\ UNCHANGED <<pc, start, size, rc, out>>
    /\ UNCHANGED inv

\* for patch_spec in args.patch: ADDR:FILE, the file loaded as binary at ADDR.
AddPatch ==
    /\ pc = "patch" /\ i <= Len(inv.patch)
    /\ LET p == inv.patch[i] IN
       IF ~Files[p.file].exists THEN Fail
       ELSE /\ Merge(LoadBinary(p.file, p.addr), p.addr, BinMax(p.file, p.addr))
            /\ i' = i + 1
            /\ UNCHANGED <<pc, start, size, rc, out>>
    /\ UNCHANGED inv

\* Mutant: the copy takes the requested length as read.
CopyLenRequested(c) == c.len

\* f.seek(src_off); f.read(length): what is left of the file, at most length.
CopyLen(c) ==
    IF Files[c.src].len - c.off < 0 THEN 0
    ELSE IF Files[c.src].len - c.off < c.len THEN Files[c.src].len - c.off
    ELSE c.len

\* for copy_spec in args.copy: SRC:SRCOFF:LEN@DSTOFF reads up to LEN bytes
\* at SRCOFF (a short read only warns) and puts them at DSTOFF; the bounds
\* are dst .. dst + len(src_bytes) - 1 whatever was read.
AddCopy ==
    /\ pc = "copy" /\ i <= Len(inv.copy)
    /\ LET c == inv.copy[i]
           got == CopyLen(c)
       IN  IF ~Files[c.src].exists THEN Fail
           ELSE /\ Merge([a \in c.dst..(c.dst + got - 1) |-> <<c.src, c.off + a - c.dst>>],
                         c.dst, c.dst + got - 1)
                /\ i' = i + 1
                /\ UNCHANGED <<pc, start, size, rc, out>>
    /\ UNCHANGED inv

\* for input_file in args.input: like --hex, but a parse error is caught
\* and reported, and main returns 1.
AddInput ==
    /\ pc = "input" /\ i <= Len(inv.input)
    /\ LET n == inv.input[i] IN
       IF ~Files[n].exists \/ ~Files[n].hex THEN Fail
       ELSE /\ Merge(Files[n].data, HexMin(n), HexMax(n))
            /\ i' = i + 1
            /\ UNCHANGED <<pc, start, size, rc, out>>
    /\ UNCHANGED inv

\* The end of one of the four for loops.
EndLoop ==
    /\ \E j \in 1..Len(Loops) :
          /\ pc = Loops[j] /\ i > Len(List(pc))
          /\ pc' = IF j = Len(Loops) THEN "empty" ELSE Loops[j + 1]
    /\ i' = 1
    /\ UNCHANGED <<inv, combined, gmin, gmax, start, size, rc, out>>

\* if not combined: error.  Then start_addr is --start unless it is the
\* string '0', else global_min or 0; output_size is --size if given, else
\* (global_max or 0) - start_addr + 1.
OutputParams ==
    /\ pc = "empty"
    /\ IF DOMAIN combined = {} THEN Fail
       ELSE LET s == IF inv.start = None THEN (IF gmin = None THEN 0 ELSE gmin) ELSE inv.start
            IN  /\ start' = s
                /\ size' = IF inv.size = None THEN (IF gmax = None THEN 0 ELSE gmax) - s + 1
                           ELSE inv.size
                /\ pc' = "range"
                /\ UNCHANGED <<i, combined, gmin, gmax, rc, out>>
    /\ UNCHANGED inv

\* The loop over combined.keys(): under --overflow error the first address
\* outside [start, start + size) ends main with 1; warn and ignore go on.
Outside(a) == a < start \/ a >= start + size

RangeCheck ==
    /\ pc = "range"
    /\ IF inv.overflow = "error" /\ \E a \in DOMAIN combined : Outside(a) THEN Fail
       ELSE /\ pc' = "write" /\ UNCHANGED <<i, combined, gmin, gmax, start, size, rc, out>>
    /\ UNCHANGED inv

\* dict_to_binary(combined, start, size, fill): size fill bytes (none when
\* size <= 0), then every address inside the window takes its byte.
DictToBinary ==
    [j \in 1..size |-> IF start + j - 1 \in DOMAIN combined THEN combined[start + j - 1]
                       ELSE <<"fill", inv.fill>>]

\* write_intel_hex: data records carry only the low 16 bits of an address,
\* so a reader puts each byte at its address mod 10000H, the last record
\* written (the highest address) winning.
WriteIntelHex ==
    LET Folded(b) == {a \in DOMAIN combined : a % 65536 = b}
    IN  [b \in {a % 65536 : a \in DOMAIN combined} |->
            combined[CHOOSE a \in Folded(b) : \A x \in Folded(b) : x <= a]]

\* open(args.output) and write: the open may raise before the file is
\* touched, or the write after truncating it; main then exits with 1.
WriteOutput ==
    /\ pc = "write"
    /\ pc' = "exit"
    /\ \/ /\ out' = IF inv.hexOut THEN [st |-> "hex", data |-> WriteIntelHex]
                    ELSE [st |-> "bin", data |-> DictToBinary]
          /\ rc' = 0
       \/ /\ out' \in {out, [st |-> "partial", data |-> <<>>]}
          /\ rc' = 1
    /\ UNCHANGED <<inv, i, combined, gmin, gmax, start, size>>

\* main has returned or raised.
Terminated == pc = "exit" /\ UNCHANGED vars

Next == Extract \/ LoadBase \/ AddHex \/ AddPatch \/ AddCopy \/ AddInput \/ EndLoop
        \/ OutputParams \/ RangeCheck \/ WriteOutput \/ Terminated

Spec == Init /\ [][Next]_vars /\ WF_vars(Next /\ pc # "exit")
-----------------------------------------------------------------------------
Cell == (STRING \X Int)
Range(f) == {f[x] : x \in DOMAIN f}

TypeOK ==
    /\ pc \in {"extract", "base", "exit", "empty", "range", "write"} \cup {Loops[j] : j \in 1..Len(Loops)}
    /\ i \in Nat
    /\ \A a \in DOMAIN combined :
          /\ a \in Int /\ combined[a] \in Cell
          \* every byte is a byte of an input file
          /\ LET n == combined[a][1] IN
             IF Files[n].hex /\ combined[a] \in Range(Files[n].data) THEN TRUE
             ELSE combined[a][2] \in 0..(Files[n].len - 1)
    /\ gmin \in Int /\ gmax \in Int /\ start \in Int /\ size \in Int
    /\ rc \in {None, 0, 1}
    /\ out.st \in Outputs

\* What the tool is for: each input, in the order base, --hex, --patch,
\* --copy, input, puts its bytes over those before it.  Layers lists the
\* dicts the loaders return, in that order.
BaseLayer == IF inv.base = "none" THEN <<>>
             ELSE IF Files[inv.base].hex THEN <<Files[inv.base].data>>
             ELSE <<LoadBinary(inv.base, inv.baseOff)>>
Layers ==
    BaseLayer
    \o [j \in 1..Len(inv.hex) |-> Files[inv.hex[j]].data]
    \o [j \in 1..Len(inv.patch) |-> LoadBinary(inv.patch[j].file, inv.patch[j].addr)]
    \o [j \in 1..Len(inv.copy) |->
          LET c == inv.copy[j] IN
          [a \in {x \in c.dst..(c.dst + c.len - 1) : c.off + x - c.dst < Files[c.src].len} |->
              <<c.src, c.off + a - c.dst>>]]
    \o [j \in 1..Len(inv.input) |-> Files[inv.input[j]].data]

\* Every address any input defines holds the byte of the last input that
\* defines it.
Overlay ==
    LET L == Layers
        Defined == UNION {DOMAIN L[j] : j \in 1..Len(L)}
        Last(a) == CHOOSE j \in 1..Len(L) :
                     a \in DOMAIN L[j] /\ \A k \in (j + 1)..Len(L) : a \notin DOMAIN L[k]
    IN  [a \in Defined |-> L[Last(a)][a]]

\* A binary output main reports as written is the overlay of all inputs,
\* later over earlier, seen through [start_addr, start_addr + size) with
\* the fill byte where no input put one: apply_patch's copy-then-assign
\* order, the four loops' order and dict_to_binary's indexing together.
OutputIsOverlay ==
    (pc = "exit" /\ rc = 0 /\ out.st = "bin" /\ inv.mode = "build") =>
        out.data = [j \in 1..size |-> IF start + j - 1 \in DOMAIN Overlay
                                      THEN Overlay[start + j - 1]
                                      ELSE <<"fill", inv.fill>>]
=============================================================================
