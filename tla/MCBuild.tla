------------------------------ MODULE MCBuild ------------------------------
(***************************************************************************)
(* Three targets of ALL_TARGETS, one of each kind build_target handles:  *)
(* MPMLDR (PL/M and assembly, no runtime, the post-build step), RESBDOS   *)
(* (two assembly sources concatenated) and GENSYS (PL/M and assembly with *)
(* the runtime); source trees with overrides and missing files; two runs *)
(* of build.py with every kind of argument; one fault.  Lengths are in    *)
(* units of 80H: the loader links at 2 (100H), LDRBDOS goes to 26 (0D00H) *)
(* and is 21 long (0A80H); DRI's MPMLDR.COM is 45 (1680H) long.           *)
(*                                                                         *)
(* The hand-run dri_patch.py command lines use their own small files.    *)
(***************************************************************************)
EXTENDS Build

MCTargets ==
    <<[name |-> "MPMLDR", srcs |-> <<"MPMLDR.PLM", "LDMONX.ASM">>, concat |-> FALSE,
       skipRt |-> TRUE, post |-> TRUE],
      [name |-> "RESBDOS", srcs |-> <<"RESBDOS1.ASM", "CONBDOS.ASM">>, concat |-> TRUE,
       skipRt |-> FALSE, post |-> FALSE],
      [name |-> "GENSYS", srcs |-> <<"GENSYS.PLM", "LDRLWR.ASM">>, concat |-> FALSE,
       skipRt |-> FALSE, post |-> FALSE]>>

MCKind == [s \in {"MPMLDR.PLM", "GENSYS.PLM", "LDMONX.ASM", "RESBDOS1.ASM", "CONBDOS.ASM",
                   "LDRLWR.ASM"} |-> IF s \in {"MPMLDR.PLM", "GENSYS.PLM"} THEN "plm" ELSE "asm"]

Tree(local, missing) ==
    [s \in DOMAIN MCKind \cup {"MPMLDR.COM"} |->
        IF s \in local THEN "local" ELSE IF s \in missing THEN "missing" ELSE "orig"]

\* The distributed tree; overrides with a missing source in a normal and
\* in a concatenated target; a target left with no object and no DRI
\* MPMLDR.COM.
MCLayouts ==
    {Tree({}, {}),
     Tree({"MPMLDR.PLM"}, {"LDMONX.ASM", "CONBDOS.ASM"}),
     Tree({"RESBDOS1.ASM"}, {"GENSYS.PLM", "LDRLWR.ASM", "MPMLDR.COM"})}

Args(c, l, a, n) == [clean |-> c, list |-> l, asmOnly |-> a, names |-> n]
MCMainArgs ==
    {Args(FALSE, FALSE, FALSE, {}), Args(FALSE, FALSE, FALSE, {"MPMLDR"}),
     Args(FALSE, FALSE, FALSE, {"NOSUCH"}), Args(FALSE, FALSE, TRUE, {}),
     Args(TRUE, FALSE, FALSE, {}), Args(FALSE, TRUE, FALSE, {})}

Hex(d, n) == [exists |-> TRUE, hex |-> TRUE, data |-> d, len |-> n]

MCCliFiles ==
    [f \in {"LINKED", "LDRBDOS", "EMPTY", "A.HEX", "B.HEX", "BAD.HEX", "GONE"} |->
        CASE f = "LINKED"  -> Bin(4)
          [] f = "LDRBDOS" -> Bin(2)
          [] f = "EMPTY"   -> Bin(0)
          [] f = "A.HEX"   -> Hex([a \in {2, 3} |-> <<"A.HEX", a>>], 30)
          [] f = "B.HEX"   -> Hex([a \in {3, 5} |-> <<"B.HEX", a>>], 30)
          [] f = "BAD.HEX" -> [Bin(3) EXCEPT !.hex = FALSE]
          [] f = "GONE"    -> [Bin(0) EXCEPT !.exists = FALSE]]

Inv(base, off, hex, patch, copy, input, st, sz, ov, ho) ==
    [mode |-> "build", end |-> 0, base |-> base, baseOff |-> off, hex |-> hex, patch |-> patch, copy |-> copy,
     input |-> input, start |-> st, size |-> sz, fill |-> 0, overflow |-> ov,
     hexOut |-> ho]

\* --extract START:END with input files: a slice inside the file, one
\* running past its end, an empty one, no input, a missing input.
Extracts ==
    {[Inv("none", 0, <<>>, <<>>, <<>>, n, None, None, "error", FALSE)
        EXCEPT !.mode = "extract", !.start = se[1], !.end = se[2]] :
        n \in {<<>>, <<"LINKED">>, <<"GONE">>}, se \in {<<1, 3>>, <<2, 9>>, <<3, 1>>}}

MCInvocations ==
    Extracts \cup
    {Inv(b, 1, h, p, c, n, st, sz, ov, ho) :
        b \in {"none", "LINKED", "A.HEX", "BAD.HEX", "GONE"},
        h \in {<<>>, <<"B.HEX">>, <<"LDRBDOS">>},
        p \in {<<>>, <<[addr |-> 3, file |-> "LDRBDOS"]>>, <<[addr |-> 7, file |-> "EMPTY"]>>,
              <<[addr |-> 0, file |-> "GONE"]>>},
        c \in {<<>>, <<[src |-> "LINKED", off |-> 3, len |-> 2, dst |-> 0]>>,
              <<[src |-> "GONE", off |-> 0, len |-> 1, dst |-> 0]>>},
        n \in {<<>>, <<"A.HEX">>, <<"BAD.HEX">>},
        st \in {None, 2}, sz \in {None, 3}, ov \in {"error", "warn"}, ho \in BOOLEAN}
=============================================================================
