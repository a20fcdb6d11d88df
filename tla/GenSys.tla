------------------------------- MODULE GenSys -------------------------------
(***************************************************************************)
(* SystemGenerator.generate of gensys.py: the downward layout planner, the *)
(* relocation of every module at its planned base page, the fixed cross-   *)
(* references patched between modules, the two linked lists of resident   *)
(* system processes (RSP and BRS), and the system data page (SYSTEM.DAT).  *)
(*                                                                         *)
(* Data abstraction. A module's code is its length and the fields that    *)
(* are read or patched at known offsets (fld: offset -> token); a copied  *)
(* block is a token naming its source, offset, length and how often the   *)
(* source had been relocated when it was read. A Python slice assignment  *)
(* code[lo:hi] = v is modelled by what it does to the length: when lo..hi  *)
(* is not exactly a range of the buffer of v's length, the buffer is       *)
(* resized or written at a wrapped index, and the module is marked bad.    *)
(* SYSTEM.DAT keeps the fields the properties read and its length.         *)
(***************************************************************************)
EXTENDS Integers, Sequences, SequencesExt, TLC

CONSTANTS
    Configs   \* the configurations (gensys JSON + module sizes) to generate

Fixed == {"RESBDOS", "XDOS", "BNKXIOS", "BNKBDOS", "BNKXDOS", "TMP"}
RES == <<"RESBDOS", 0>>
XDOS == <<"XDOS", 0>>
BNKXIOS == <<"BNKXIOS", 0>>
BNKBDOS == <<"BNKBDOS", 0>>
BNKXDOS == <<"BNKXDOS", 0>>
TMP == <<"TMP", 0>>
WORD == <<"WORD", 0>>

Mx(a, b) == IF a >= b THEN a ELSE b
Mn(a, b) == IF a <= b THEN a ELSE b
CeilDiv(a, b) == (a + b - 1) \div b

\* A 16-bit word read from code, and a copied block of code.
Word(n, rel) == [src |-> WORD, off |-> 0, len |-> 2, v |-> n, rel |-> rel]

\* A word whose high byte the bitmap marks, after relocation by page p.
RelocWord(n, p) == ((n \div 256 + p) % 256) * 256 + (n % 256)

\* Python index normalisation for a slice bound on a buffer of length n.
PyIdx(i, n) == IF i < 0 THEN Mx(i + n, 0) ELSE Mn(i, n)

\* len(buf[lo:hi]) for a buffer of length n.
SliceLen(lo, hi, n) == Mx(PyIdx(hi, n), PyIdx(lo, n)) - PyIdx(lo, n)

\* buf[lo:hi] = v, for a module record r and a token v of length v.len.
PutSlice(r, lo, hi, v) ==
    LET a == PyIdx(lo, r.len)
        b == Mx(PyIdx(hi, r.len), a)
    IN  IF lo = a /\ hi = b /\ v.len = b - a
        THEN [r EXCEPT !.fld = (lo :> v) @@ r.fld]
        ELSE [r EXCEPT !.len = r.len - (b - a) + v.len, !.bad = TRUE]

\* struct.pack_into('<H', buf, off, n) raises unless n is a u16 that fits.
PackOK(r, off, n) == n \in 0..65535 /\ 0 <= off /\ off + 2 <= r.len
Pack(r, off, n) == [r EXCEPT !.fld = (off :> Word(n, FALSE)) @@ r.fld]

\* struct.unpack('<H', buf[off:off+2]) of a field the model tracks.
UnpackOK(r, off) == off + 2 <= r.len /\ off \in DOMAIN r.fld
Unpack(r, off) == r.fld[off].v

Byte == 0..255

VARIABLES
    pc,     \* the step of generate() about to run
    err,    \* the exception that aborted generation, or "none"
    cfg,    \* the configuration and the module files
    rsps,   \* indices (into cfg.rsps) of the RSPs whose files were found
    mods,   \* loaded modules: key -> [psize, dsize, len, base, reloc, bad, fld]
    lay,    \* cur_base and the reserved regions' bases (placed: those set)
    lp,     \* loop state: i, prev_rsp_addr, rsp_link, brspl, brsp_base, nmb_brsps
    cap,    \* blocks captured for later patches (resbdos009, xdos003, ...)
    sd,     \* SYSTEM.DAT fields: offset -> value
    sdLen,  \* len(system_data)
    imgLen  \* len(mem_image) once built

vars == <<pc, err, cfg, rsps, mods, lay, lp, cap, sd, sdLen, imgLen>>

RspKey(i) == <<"RSP", rsps[i]>>
BrsKey(i) == <<"BRS", rsps[i]>>
HasBrs(i) == cfg.rsps[rsps[i]].brs.present

\* The offsets of SYSTEM.DAT the model keeps.
SdFields == {7, 8, 11, 12, 13, 14, 15, 16, 17, 120, 125, 191,
             242, 243, 244, 247, 248, 249, 250, 254} \cup {80 + 2 * j : j \in 0..7}

\* system_data[k] = v raises ValueError unless v is a byte.
SetByte(k, v) == sd' = [sd EXCEPT ![k] = v]
ByteOK(k, v) == v \in Byte /\ k < sdLen
WordOK(k, v) == v \in 0..65535 /\ k + 2 <= sdLen

\* The exception of system_data[k] = v: IndexError past the end, else ValueError.
ByteErr(k) == IF k < sdLen THEN "ValueError" ELSE "IndexError"

\* Generation stops: the exception propagates out of generate().
Fail(e) ==
    /\ pc' = "failed"
    /\ err' = e
    /\ UNCHANGED <<cfg, rsps, mods, lay, lp, cap, sd, sdLen, imgLen>>

Init ==
    /\ cfg \in Configs
    /\ pc = "load"
    /\ err = "none"
    /\ rsps = <<>>
    /\ mods = [k \in {} |-> {}]
    /\ lay = [cur |-> cfg.mem_top, tmpd |-> 0, usersys |-> 0, xiosjmp |-> 0,
              lock |-> 0, console |-> 0, placed |-> {}]
    /\ lp = [i |-> 1, prev |-> 0, rspl |-> 0, brspl |-> 0, brspBase |-> 0, nbrs |-> 0]
    /\ cap = [r009 |-> Word(0, FALSE), r012 |-> Word(0, FALSE),
              x003 |-> Word(0, FALSE), sysdatadr |-> Word(0, FALSE),
              b000 |-> Word(0, FALSE)]
    /\ sd = [k \in SdFields |-> 0]
    /\ sdLen = 256
    /\ imgLen = 0

-----------------------------------------------------------------------------
(* load_modules: the six SPR modules (TMP only with consoles), and every   *)
(* RSP whose .rsp file exists, with its .brs when that file exists.        *)
SizeOf(k) ==
    CASE k[1] \in Fixed -> cfg.size[k[1]]
      [] k[1] = "RSP"   -> cfg.rsps[k[2]].rsp
      [] k[1] = "BRS"   -> cfg.rsps[k[2]].brs

\* Fields read later from the unrelocated file: the BRS INITSP word at 2,
\* and the target of BNKXIOS's first JP at 1 (relocatable or absolute).
FileFields(k) ==
    CASE k[1] = "BRS"   -> (2 :> Word(cfg.rsps[k[2]].initsp, TRUE))
      [] k = BNKXIOS    -> (1 :> Word(cfg.xios.target, cfg.xios.rel))
      [] OTHER          -> [o \in {} |-> Word(0, FALSE)]

NewModule(k) ==
    [psize |-> SizeOf(k).psize, dsize |-> SizeOf(k).dsize,
     len |-> SizeOf(k).psize, base |-> 0, reloc |-> 0, bad |-> FALSE,
     fld |-> FileFields(k)]

LoadModules ==
    LET found == SelectSeq([j \in 1..Len(cfg.rsps) |-> j],
                           LAMBDA j : cfg.rsps[j].present)
        fixed == {<<n, 0>> : n \in IF cfg.num_consoles > 0 THEN Fixed
                                                       ELSE Fixed \ {"TMP"}}
        keys  == fixed \cup {<<"RSP", j>> : j \in ToSet(found)}
                       \cup {<<"BRS", j>> : j \in {x \in ToSet(found) :
                                                     cfg.rsps[x].brs.present}}
    IN  /\ pc = "load"
        /\ rsps' = found
        /\ mods' = [k \in keys |-> NewModule(k)]
        /\ pc' = "setup"
        /\ UNCHANGED <<err, cfg, lay, lp, cap, sd, sdLen, imgLen>>

(* setup_system_data: configuration bytes, then the copyright string and  *)
(* the serial number sliced out of RESBDOS's code into SYSTEM.DAT.        *)
SetupSystemData ==
    LET n   == mods[RES].len
        k1  == SliceLen(212, 249, n)
        len1 == sdLen - 37 + k1
        k2  == SliceLen(249, 255, n)
        len2 == len1 - SliceLen(181, 187, len1) + k2
    IN  /\ pc = "setup"
        /\ \/ /\ {cfg.mem_top, cfg.num_consoles, cfg.num_mem_segments, cfg.common_base} \subseteq Byte
              /\ sd' = [sd EXCEPT ![15] = cfg.num_mem_segments]
              /\ sdLen' = len2
              /\ pc' = "layout"
              /\ UNCHANGED <<err, cfg, rsps, mods, lay, lp, cap, imgLen>>
           \/ /\ ~({cfg.mem_top, cfg.num_consoles, cfg.num_mem_segments, cfg.common_base} \subseteq Byte)
              /\ Fail("ValueError")

(* calculate_memory_layout: TMPD.DAT, USERSYS.STK and XIOSJMP.TBL below   *)
(* SYSTEM.DAT, then the user stack addresses derived from tmpd_base.      *)

UserStack(tmpd, j) == tmpd * 256 - j * 64

CalculateMemoryLayout ==
    LET nc    == cfg.num_consoles
        segs  == cfg.num_mem_segments
        c1    == IF nc > 0 THEN cfg.mem_top - 1 - (IF nc > 4 THEN 1 ELSE 0)
                           ELSE cfg.mem_top
        tmpd  == IF nc > 0 THEN c1 ELSE lay.tmpd
        c2    == IF cfg.sys_call_stks THEN c1 - 1 - (IF segs > 4 THEN 1 ELSE 0)
                                      ELSE c1
        xj    == c2 - 1
        nstk  == IF cfg.sys_call_stks THEN Mn(segs, 8) ELSE 0
        stk   == [j \in 0..7 |-> UserStack(tmpd, j)]
        \* the stacks packed before the first that does not fit a u16
        bad   == {j \in 0..(nstk - 1) : ~WordOK(80 + 2 * j, stk[j])}
        done  == IF bad = {} THEN nstk ELSE Min(bad)
        placed == (IF nc > 0 THEN {"TMPD"} ELSE {})
                    \cup (IF cfg.sys_call_stks THEN {"USERSYS"} ELSE {})
                    \cup {"XIOSJMP"}
        lay2  == [lay EXCEPT !.cur = xj, !.tmpd = tmpd, !.usersys = c2,
                             !.xiosjmp = xj, !.placed = placed]
    IN  /\ pc = "layout"
        /\ \/ /\ ~ByteOK(7, xj)
              /\ Fail("ValueError")
           \/ /\ ByteOK(7, xj)
              /\ sd' = [k \in SdFields |->
                          IF k = 7 THEN xj
                          ELSE IF k \in {80 + 2 * j : j \in 0..(done - 1)}
                               THEN stk[(k - 80) \div 2]
                               ELSE sd[k]]
              /\ lay' = lay2
              /\ IF bad = {}
                 THEN pc' = "resbdos" /\ err' = err
                 ELSE pc' = "failed" /\ err' = "struct.error"
              /\ UNCHANGED <<cfg, rsps, mods, lp, cap, sdLen, imgLen>>

-----------------------------------------------------------------------------
Pages(k) == CeilDiv(mods[k].psize + mods[k].dsize, 256)
BasePage(k) == lay.cur - Pages(k)

RelocFields(f, p) ==
    [o \in DOMAIN f |-> IF f[o].rel THEN [f[o] EXCEPT !.v = RelocWord(@, p)]
                                    ELSE f[o]]

Relocated(k) ==
    [mods[k] EXCEPT !.base = BasePage(k) * 256, !.reloc = @ + 1,
                    !.fld = RelocFields(@, BasePage(k))]

\* buf[lo:hi] read from module record r, as a token.
Copy(k, r, lo, hi) ==
    [src |-> k, off |-> lo, len |-> SliceLen(lo, hi, r.len), v |-> r.reloc, rel |-> FALSE]

\* RESBDOS: relocate, record its base, capture code[9:12] and code[12:18].
LoadResbdos ==
    LET r == Relocated(RES)
        p == BasePage(RES)
    IN  /\ pc = "resbdos"
        /\ \/ /\ ~ByteOK(8, p)
              /\ Fail("ValueError")
           \/ /\ ByteOK(8, p)
              /\ mods' = [mods EXCEPT ![RES] = r]
              /\ lay' = [lay EXCEPT !.cur = p]
              /\ SetByte(8, p)
              /\ cap' = [cap EXCEPT !.r009 = Copy(RES, r, 9, 12),
                                    !.r012 = Copy(RES, r, 12, 18)]
              /\ pc' = "xdos"
              /\ UNCHANGED <<err, cfg, rsps, lp, sdLen, imgLen>>

\* XDOS: relocate, patch code[9:12] with resbdos009 and code[12:14] with
\* the SYSTEM.DAT address, then capture code[3:9] as xdos003.
LoadXdos ==
    LET p    == BasePage(XDOS)
        sda  == Word(cfg.mem_top * 256, FALSE)
        r1   == PutSlice(Relocated(XDOS), 9, 12, cap.r009)
        r2   == PutSlice(r1, 12, 14, sda)
    IN  /\ pc = "xdos"
        /\ \/ /\ ~ByteOK(11, p)
              /\ Fail("ValueError")
           \/ /\ ByteOK(11, p)
              /\ mods' = [mods EXCEPT ![XDOS] = r2]
              /\ lay' = [lay EXCEPT !.cur = p]
              /\ SetByte(11, p)
              /\ cap' = [cap EXCEPT !.sysdatadr = sda, !.x003 = Copy(XDOS, r2, 3, 9)]
              /\ pc' = "rsp"
              /\ UNCHANGED <<err, cfg, rsps, lp, sdLen, imgLen>>

\* Mutant: prev_rsp_addr updated before pd_link is packed.
LoadRspLinkSelf ==
    LET k == RspKey(lp.i)
        p == BasePage(k)
        r == Relocated(k)
    IN  /\ pc = "rsp"
        /\ lp.i <= Len(rsps)
        /\ \/ /\ ~PackOK(r, 0, p * 256)
              /\ Fail("struct.error")
           \/ /\ PackOK(r, 0, p * 256)
              /\ mods' = [mods EXCEPT ![k] = Pack(r, 0, p * 256)]
              /\ lay' = [lay EXCEPT !.cur = p]
              /\ lp' = [lp EXCEPT !.i = @ + 1, !.prev = p * 256, !.rspl = p * 256]
              /\ UNCHANGED <<pc, err, cfg, rsps, cap, sd, sdLen, imgLen>>

\* One iteration of the RSP loop: relocate the RSP below the previous one
\* and link it (pd_link, offset 0) to the previously loaded RSP.
LoadRsp ==
    LET k == RspKey(lp.i)
        p == BasePage(k)
        r == Relocated(k)
    IN  /\ pc = "rsp"
        /\ lp.i <= Len(rsps)
        /\ \/ /\ ~PackOK(r, 0, lp.prev)
              /\ Fail("struct.error")
           \/ /\ PackOK(r, 0, lp.prev)
              /\ mods' = [mods EXCEPT ![k] = Pack(r, 0, lp.prev)]
              /\ lay' = [lay EXCEPT !.cur = p]
              /\ lp' = [lp EXCEPT !.i = @ + 1, !.prev = p * 256, !.rspl = p * 256]
              /\ UNCHANGED <<pc, err, cfg, rsps, cap, sd, sdLen, imgLen>>

\* After the RSP loop: rsp_base (SYSTEM.DAT 12) is the current base page.
EndRsps ==
    /\ pc = "rsp"
    /\ lp.i > Len(rsps)
    /\ \/ /\ ~ByteOK(12, lay.cur)
          /\ Fail("ValueError")
       \/ /\ ByteOK(12, lay.cur)
          /\ SetByte(12, lay.cur)
          /\ pc' = "bnkxios"
          /\ lp' = [lp EXCEPT !.i = 1]
          /\ UNCHANGED <<err, cfg, rsps, mods, lay, cap, sdLen, imgLen>>

(* BNKXIOS: relocate, find the XIOS common base from its first JP, patch  *)
(* SWTUSER/SWTSYS, PDISP/XDOS and the SYSTEM.DAT address at +3, +9, +15   *)
(* of it when the block fits in the code, then keep the first 256 bytes.  *)
XiosCommonBase(r, p) ==
    IF Unpack(r, 1) < cfg.common_base * 256 /\ p >= cfg.common_base
    THEN p * 256 ELSE Unpack(r, 1)

\* Mutant: the RESBDOS and XDOS entries patched in each other's place.
PatchCommonBaseSwapped(r, off) ==
    IF off + 17 <= r.len
    THEN LET r1 == PutSlice(r, off + 3, off + 9, cap.x003)
             r2 == PutSlice(r1, off + 9, off + 15, cap.r012)
         IN  PutSlice(r2, off + 15, off + 17, cap.sysdatadr)
    ELSE r

PatchCommonBase(r, off) ==
    IF off + 17 <= r.len
    THEN LET r1 == PutSlice(r, off + 3, off + 9, cap.r012)
             r2 == PutSlice(r1, off + 9, off + 15, cap.x003)
         IN  PutSlice(r2, off + 15, off + 17, cap.sysdatadr)
    ELSE r

LoadBnkxios ==
    LET p   == BasePage(BNKXIOS)
        r   == Relocated(BNKXIOS)
        act == XiosCommonBase(r, p)
        r3  == PatchCommonBase(r, act - p * 256)
    IN  /\ pc = "bnkxios"
        /\ \/ /\ ~ByteOK(13, p)
              /\ Fail("ValueError")
           \/ /\ ByteOK(13, p)
              /\ ~UnpackOK(r, 1)
              /\ Fail("struct.error")
           \/ /\ ByteOK(13, p)
              /\ UnpackOK(r, 1)
              /\ act < cfg.common_base * 256
              /\ Fail("ValueError")
           \/ /\ ByteOK(13, p)
              /\ UnpackOK(r, 1)
              /\ act >= cfg.common_base * 256
              /\ mods' = [mods EXCEPT ![BNKXIOS] = r3]
              /\ lay' = [lay EXCEPT !.cur = p]
              /\ SetByte(13, p)
              /\ cap' = [cap EXCEPT !.b000 = Copy(BNKXIOS, r3, 0, 256)]
              /\ pc' = "bnkbdos"
              /\ UNCHANGED <<err, cfg, rsps, lp, sdLen, imgLen>>

\* BNKBDOS: relocate and record its base.
LoadBnkbdos ==
    LET p == BasePage(BNKBDOS)
    IN  /\ pc = "bnkbdos"
        /\ \/ /\ ~ByteOK(14, p)
              /\ Fail("ValueError")
           \/ /\ ByteOK(14, p)
              /\ mods' = [mods EXCEPT ![BNKBDOS] = Relocated(BNKBDOS)]
              /\ lay' = [lay EXCEPT !.cur = p]
              /\ SetByte(14, p)
              /\ pc' = "bnkxdos"
              /\ UNCHANGED <<err, cfg, rsps, lp, cap, sdLen, imgLen>>

\* Mutant: XDOS relocated a second time when BNKXDOS's table is copied in.
LoadBnkxdosTwice ==
    LET p   == BasePage(BNKXDOS)
        r   == PutSlice(Relocated(BNKXDOS), 0, 2, cap.sysdatadr)
        cmn == Copy(BNKXDOS, r, 4, 44)
    IN  /\ pc = "bnkxdos"
        /\ \/ /\ ~ByteOK(242, p)
              /\ Fail(ByteErr(242))
           \/ /\ ByteOK(242, p)
              /\ mods' = [mods EXCEPT ![BNKXDOS] = r,
                                      ![XDOS] = PutSlice([@ EXCEPT !.reloc = @ + 1], 14, 54, cmn)]
              /\ lay' = [lay EXCEPT !.cur = p]
              /\ SetByte(242, p)
              /\ pc' = "tmp"
              /\ UNCHANGED <<err, cfg, rsps, lp, cap, sdLen, imgLen>>

\* BNKXDOS: relocate, patch code[0:2] with the SYSTEM.DAT address, and
\* copy its code[4:44] jump table into XDOS's code[14:54].
LoadBnkxdos ==
    LET p   == BasePage(BNKXDOS)
        r   == PutSlice(Relocated(BNKXDOS), 0, 2, cap.sysdatadr)
        cmn == Copy(BNKXDOS, r, 4, 44)
    IN  /\ pc = "bnkxdos"
        /\ \/ /\ ~ByteOK(242, p)
              /\ Fail(ByteErr(242))
           \/ /\ ByteOK(242, p)
              /\ mods' = [mods EXCEPT ![BNKXDOS] = r,
                                      ![XDOS] = PutSlice(@, 14, 54, cmn)]
              /\ lay' = [lay EXCEPT !.cur = p]
              /\ SetByte(242, p)
              /\ pc' = "tmp"
              /\ UNCHANGED <<err, cfg, rsps, lp, cap, sdLen, imgLen>>

\* TMP, loaded only with consoles: relocate, record tmpd_base and its base,
\* patch code[0:2] with the SYSTEM.DAT address.
LoadTmp ==
    LET p == BasePage(TMP)
    IN  /\ pc = "tmp"
        /\ \/ /\ TMP \notin DOMAIN mods
              /\ pc' = "brs"
              /\ UNCHANGED <<err, cfg, rsps, mods, lay, lp, cap, sd, sdLen, imgLen>>
           \/ /\ TMP \in DOMAIN mods
              /\ ~(ByteOK(243, lay.tmpd) /\ ByteOK(247, p))
              /\ Fail(IF ByteOK(243, lay.tmpd) THEN ByteErr(247) ELSE ByteErr(243))
           \/ /\ TMP \in DOMAIN mods
              /\ ByteOK(243, lay.tmpd) /\ ByteOK(247, p)
              /\ mods' = [mods EXCEPT ![TMP] = PutSlice(Relocated(TMP), 0, 2, cap.sysdatadr)]
              /\ lay' = [lay EXCEPT !.cur = p]
              /\ sd' = [sd EXCEPT ![243] = lay.tmpd, ![247] = p]
              /\ pc' = "brs"
              /\ UNCHANGED <<err, cfg, rsps, lp, cap, sdLen, imgLen>>

\* Mutant: INITSP read back after the link has overwritten it.
LoadBrsReadAfterLink ==
    LET k  == BrsKey(lp.i)
        rk == RspKey(lp.i)
        p  == BasePage(k)
        r  == Relocated(k)
        r1 == Pack(r, 0, mods[rk].base)
        sp == Unpack(Pack(r1, 2, lp.brspl), 2)
    IN  /\ pc = "brs"
        /\ lp.i <= Len(rsps)
        /\ \/ /\ ~HasBrs(lp.i)
              /\ lp' = [lp EXCEPT !.i = @ + 1]
              /\ UNCHANGED <<pc, err, cfg, rsps, mods, lay, cap, sd, sdLen, imgLen>>
           \/ /\ HasBrs(lp.i)
              /\ ~(UnpackOK(r, 2) /\ PackOK(r, 0, mods[rk].base)
                   /\ PackOK(r1, 2, lp.brspl) /\ PackOK(mods[rk], 6, sp))
              /\ Fail("struct.error")
           \/ /\ HasBrs(lp.i)
              /\ UnpackOK(r, 2) /\ PackOK(r, 0, mods[rk].base)
              /\ PackOK(r1, 2, lp.brspl) /\ PackOK(mods[rk], 6, sp)
              /\ mods' = [mods EXCEPT ![k] = Pack(r1, 2, lp.brspl),
                                      ![rk] = Pack(@, 6, sp)]
              /\ lay' = [lay EXCEPT !.cur = p]
              /\ lp' = [lp EXCEPT !.i = @ + 1, !.brspl = p * 256,
                                  !.brspBase = p, !.nbrs = @ + 1]
              /\ UNCHANGED <<pc, err, cfg, rsps, cap, sd, sdLen, imgLen>>

\* One iteration of the BRS loop. For an RSP with a .brs: relocate it, read
\* its INITSP (offset 2), then patch RSPBASE (0) with the RSP's address and
\* overwrite offset 2 with the link to the previous BRS, and hand INITSP to
\* the RSP's pd_stkptr (offset 6).
LoadBrs ==
    LET k  == BrsKey(lp.i)
        rk == RspKey(lp.i)
        p  == BasePage(k)
        r  == Relocated(k)
        sp == Unpack(r, 2)
        r1 == Pack(r, 0, mods[rk].base)
    IN  /\ pc = "brs"
        /\ lp.i <= Len(rsps)
        /\ \/ /\ ~HasBrs(lp.i)
              /\ lp' = [lp EXCEPT !.i = @ + 1]
              /\ UNCHANGED <<pc, err, cfg, rsps, mods, lay, cap, sd, sdLen, imgLen>>
           \/ /\ HasBrs(lp.i)
              /\ ~(UnpackOK(r, 2) /\ PackOK(r, 0, mods[rk].base)
                   /\ PackOK(r1, 2, lp.brspl) /\ PackOK(mods[rk], 6, sp))
              /\ Fail("struct.error")
           \/ /\ HasBrs(lp.i)
              /\ UnpackOK(r, 2) /\ PackOK(r, 0, mods[rk].base)
              /\ PackOK(r1, 2, lp.brspl) /\ PackOK(mods[rk], 6, sp)
              /\ mods' = [mods EXCEPT ![k] = Pack(r1, 2, lp.brspl),
                                      ![rk] = Pack(@, 6, sp)]
              /\ lay' = [lay EXCEPT !.cur = p]
              /\ lp' = [lp EXCEPT !.i = @ + 1, !.brspl = p * 256,
                                  !.brspBase = p, !.nbrs = @ + 1]
              /\ UNCHANGED <<pc, err, cfg, rsps, cap, sd, sdLen, imgLen>>

\* Mutant: brspl stored as the lowest BRS's page instead of its address.
EndBrsPageHead ==
    /\ pc = "brs"
    /\ lp.i > Len(rsps)
    /\ \/ /\ ~(ByteOK(248, lp.nbrs) /\ (lp.nbrs > 0 => ByteOK(249, lp.brspBase)
                                                     /\ WordOK(250, lp.brspl)))
          /\ Fail(CASE ~ByteOK(248, lp.nbrs)     -> ByteErr(248)
                    [] ~ByteOK(249, lp.brspBase) -> ByteErr(249)
                    [] OTHER                     -> "struct.error")
       \/ /\ ByteOK(248, lp.nbrs)
          /\ lp.nbrs > 0 => ByteOK(249, lp.brspBase) /\ WordOK(250, lp.brspl)
          /\ sd' = IF lp.nbrs > 0
                   THEN [sd EXCEPT ![248] = lp.nbrs, ![249] = lp.brspBase,
                                   ![250] = lp.brspBase]
                   ELSE [sd EXCEPT ![248] = 0]
          /\ pc' = "lock"
          /\ UNCHANGED <<err, cfg, rsps, mods, lay, lp, cap, sdLen, imgLen>>

\* After the BRS loop: nmb_brsps, and with any BRS its lowest base page
\* and the list head brspl.
EndBrs ==
    /\ pc = "brs"
    /\ lp.i > Len(rsps)
    /\ \/ /\ ~(ByteOK(248, lp.nbrs) /\ (lp.nbrs > 0 => ByteOK(249, lp.brspBase)
                                                     /\ WordOK(250, lp.brspl)))
          /\ Fail(CASE ~ByteOK(248, lp.nbrs)     -> ByteErr(248)
                    [] ~ByteOK(249, lp.brspBase) -> ByteErr(249)
                    [] OTHER                     -> "struct.error")
       \/ /\ ByteOK(248, lp.nbrs)
          /\ lp.nbrs > 0 => ByteOK(249, lp.brspBase) /\ WordOK(250, lp.brspl)
          /\ sd' = IF lp.nbrs > 0
                   THEN [sd EXCEPT ![248] = lp.nbrs, ![249] = lp.brspBase,
                                   ![250] = lp.brspl]
                   ELSE [sd EXCEPT ![248] = 0]
          /\ pc' = "lock"
          /\ UNCHANGED <<err, cfg, rsps, mods, lay, lp, cap, sdLen, imgLen>>

\* The lock-list table: 10 bytes per locked record and open file.
LockPages == (cfg.total_items * 10 + 255) \div 256

AllocLock ==
    LET c == lay.cur - LockPages
    IN  /\ pc = "lock"
        /\ \/ /\ ~WordOK(191, c * 256)
              /\ Fail("struct.error")
           \/ /\ WordOK(191, c * 256)
              /\ lay' = [lay EXCEPT !.cur = c, !.lock = c, !.placed = @ \cup {"LCKLSTS"}]
              /\ SetByte(191, c * 256)
              /\ pc' = "console"
              /\ UNCHANGED <<err, cfg, rsps, mods, lp, cap, sdLen, imgLen>>

\* CONSOLE.DAT: one page per console.
AllocConsole ==
    LET c == lay.cur - cfg.num_consoles
    IN  /\ pc = "console"
        /\ \/ /\ cfg.num_consoles = 0
              /\ pc' = "segments"
              /\ UNCHANGED <<err, cfg, rsps, mods, lay, lp, cap, sd, sdLen, imgLen>>
           \/ /\ cfg.num_consoles > 0
              /\ ~ByteOK(244, c)
              /\ Fail(ByteErr(244))
           \/ /\ cfg.num_consoles > 0
              /\ ByteOK(244, c)
              /\ lay' = [lay EXCEPT !.cur = c, !.console = c, !.placed = @ \cup {"CONSOLE"}]
              /\ SetByte(244, c)
              /\ pc' = "segments"
              /\ UNCHANGED <<err, cfg, rsps, mods, lp, cap, sdLen, imgLen>>

\* setup_memory_segments: the system segment from cur_base up to FFH, then
\* one user segment per bank while the 8-entry table has room.
SetupMemorySegments ==
    LET c    == lay.cur
        ok   == ByteOK(16, c) /\ ByteOK(17, 255 - c + 1)
    IN  /\ pc = "segments"
        /\ \/ /\ ~ok
              /\ Fail("ValueError")
           \/ /\ ok
              /\ sd' = [sd EXCEPT ![16] = c, ![17] = 255 - c + 1,
                                  ![15] = 1 + Mn(Mx(cfg.num_mem_segments, 0), 7)]
              /\ pc' = "image"
              /\ UNCHANGED <<err, cfg, rsps, mods, lay, lp, cap, sdLen, imgLen>>

\* The memory image from cur_base up to SYSTEM.DAT: every module written at
\* base - image_base (ValueError when it does not fit), the first 256 bytes
\* of BNKXIOS copied over XIOSJMP.TBL, then the record count, nmb_rsps and
\* the RSP list head stored in SYSTEM.DAT.
ImageBase == lay.cur * 256
ImageSize == cfg.mem_top * 256 - ImageBase

Fits(k) == mods[k].base >= ImageBase /\ mods[k].base - ImageBase + mods[k].len <= ImageSize

XiosTblOff == lay.xiosjmp * 256 - ImageBase

ImageLenAfterXiosCopy ==
    IF XiosTblOff >= 0 /\ XiosTblOff + 256 <= ImageSize
    THEN ImageSize - SliceLen(XiosTblOff, XiosTblOff + 256, ImageSize) + cap.b000.len
    ELSE ImageSize

RecordCount(n) == (256 + n + 127) \div 128

BuildImage ==
    LET n  == ImageLenAfterXiosCopy
    IN  /\ pc = "image"
        \* write_module's ValueError and the final struct.pack_into calls
        \* cannot raise on a layout that got this far; they stay guards, and
        \* a state where one would raise deadlocks the model.
        /\ \A k \in DOMAIN mods : Fits(k)
        /\ WordOK(120, RecordCount(n)) /\ ByteOK(125, Len(rsps))
        /\ rsps # <<>> => WordOK(254, lp.rspl)
        /\ imgLen' = n
        /\ sd' = [sd EXCEPT ![120] = RecordCount(n), ![125] = Len(rsps),
                            ![254] = IF rsps # <<>> THEN lp.rspl ELSE @]
        /\ pc' = "done"
        /\ UNCHANGED <<err, cfg, rsps, mods, lay, lp, cap, sdLen>>

\* generate() has returned or raised; nothing changes any more.
Terminated ==
    /\ pc \in {"done", "failed"}
    /\ UNCHANGED vars

Next ==
    \/ LoadModules \/ SetupSystemData \/ CalculateMemoryLayout
    \/ LoadResbdos \/ LoadXdos \/ LoadRsp \/ EndRsps
    \/ LoadBnkxios \/ LoadBnkbdos \/ LoadBnkxdos \/ LoadTmp
    \/ LoadBrs \/ EndBrs \/ AllocLock \/ AllocConsole
    \/ SetupMemorySegments \/ BuildImage \/ Terminated

\* generate() is one sequential Python call: it runs to its end.
Spec == Init /\ [][Next]_vars /\ WF_vars(Next /\ pc \notin {"done", "failed"})

-----------------------------------------------------------------------------
Token == [src : (Fixed \X {0}) \cup {WORD}, off : Int, len : Int, v : Int, rel : BOOLEAN]

TypeOK ==
    /\ pc \in {"load", "setup", "layout", "resbdos", "xdos", "rsp", "bnkxios",
               "bnkbdos", "bnkxdos", "tmp", "brs", "lock", "console",
               "segments", "image", "done", "failed"}
    /\ err \in {"none", "ValueError", "IndexError", "struct.error"}
    /\ cfg \in Configs
    /\ rsps \in Seq(DOMAIN cfg.rsps)
    /\ \A k \in DOMAIN mods :
          /\ mods[k].len \in Nat /\ mods[k].base \in Int /\ mods[k].reloc \in 0..1
          /\ mods[k].bad \in BOOLEAN
          /\ \A o \in DOMAIN mods[k].fld : mods[k].fld[o] \in Token
    /\ {lay.cur, lay.tmpd, lay.usersys, lay.xiosjmp, lay.lock, lay.console} \subseteq Int
    /\ lp.i \in 1..(Len(cfg.rsps) + 1)
    /\ \A c \in {"r009", "r012", "x003", "sysdatadr", "b000"} : cap[c] \in Token
    /\ sd \in [SdFields -> Int]
    /\ sdLen \in Nat /\ imgLen \in Nat

(* The regions the format defines (spec 3.2), each [lo, lo + n) in pages:  *)
(* SYSTEM.DAT at mem_top, TMPD.DAT of ceil(consoles/4) pages, USERSYS.STK  *)
(* of ceil(segments/4), XIOSJMP.TBL, every module its ceil((psize+dsize)/  *)
(* 256) pages at its base, LCKLSTS.DAT and CONSOLE.DAT.                    *)
SpecPages(k) == CeilDiv(SizeOf(k).psize + SizeOf(k).dsize, 256)

Regions ==
    {[id |-> <<"SYSTEM", 0>>, lo |-> cfg.mem_top, n |-> 1]}
    \cup {[id |-> <<"XIOSJMP", 0>>, lo |-> lay.xiosjmp, n |-> 1] : x \in {"XIOSJMP"} \cap lay.placed}
    \cup {[id |-> <<"TMPD", 0>>, lo |-> lay.tmpd, n |-> CeilDiv(cfg.num_consoles, 4)] : x \in {"TMPD"} \cap lay.placed}
    \cup {[id |-> <<"USERSYS", 0>>, lo |-> lay.usersys, n |-> CeilDiv(cfg.num_mem_segments, 4)] : x \in {"USERSYS"} \cap lay.placed}
    \cup {[id |-> <<"LCKLSTS", 0>>, lo |-> lay.lock, n |-> LockPages] : x \in {"LCKLSTS"} \cap lay.placed}
    \cup {[id |-> <<"CONSOLE", 0>>, lo |-> lay.console, n |-> cfg.num_consoles] : x \in {"CONSOLE"} \cap lay.placed}
    \cup {[id |-> k, lo |-> mods[k].base \div 256, n |-> SpecPages(k)] :
            k \in {m \in DOMAIN mods : mods[m].reloc > 0}}

\* When generate() completes, every region lies in memory, at or above page
\* 0 and below SYSTEM.DAT's end, and no two of them share a page:
\* calculate_memory_layout, each load_and_relocate_module and the lock and
\* console allocations take their pages from cur_base without overlap, and
\* a layout that runs below page 0 never completes (there is no
\* LayoutOverflow check; a later byte store of a negative page must raise).
LayoutDisjoint ==
    pc = "done" =>
        /\ \A r \in Regions : r.lo >= 0 /\ r.lo + r.n <= cfg.mem_top + 1
        /\ \A r1, r2 \in Regions :
              r1.id # r2.id => r1.lo + r1.n <= r2.lo \/ r2.lo + r2.n <= r1.lo

(* The list of modules of one kind reached from a head address by a link  *)
(* field: the addresses visited, a step past a non-module ending it.       *)
RECURSIVE ChainFrom(_, _, _, _)
ChainFrom(kind, linkOff, a, fuel) ==
    LET ks == {k \in DOMAIN mods : k[1] = kind /\ mods[k].base = a}
        k  == CHOOSE m \in ks : TRUE
    IN  IF a = 0 \/ fuel = 0 THEN <<>>
        ELSE IF ks = {} \/ linkOff \notin DOMAIN mods[k].fld THEN <<a>>
        ELSE <<a>> \o ChainFrom(kind, linkOff, mods[k].fld[linkOff].v, fuel - 1)

RspBases == [i \in 1..Len(rsps) |-> mods[RspKey(i)].base]
BrsIdx   == SelectSeq([i \in 1..Len(rsps) |-> i], LAMBDA i : HasBrs(i))
BrsBases == [j \in 1..Len(BrsIdx) |-> mods[BrsKey(BrsIdx[j])].base]

\* The foreground RSP list: from rspl (SYSTEM.DAT 254) the pd_link fields
\* visit every loaded RSP exactly once, lowest address first, and end in
\* 0; nmb_rsps (125) counts them and rsp_base (12) is the lowest RSP page.
\* Built by the RSP loop of generate() and its final SYSTEM.DAT stores.
ForegroundListWellFormed ==
    pc = "done" =>
        /\ ChainFrom("RSP", 0, sd[254], Len(rsps) + 1) = Reverse(RspBases)
        /\ sd[125] = Len(rsps)
        /\ rsps # <<>> => sd[12] * 256 = RspBases[Len(rsps)]

\* The companion BRS list: from brspl (250) the links at BRS offset 2 visit
\* every loaded BRS once, lowest first, ending in 0; each BRS's RSPBASE
\* (offset 0) is its own RSP's address; nmb_brsps (248) counts them and
\* brsp_base (249) is the lowest BRS page. Built by the BRS loop.
CompanionListWellFormed ==
    pc = "done" =>
        /\ ChainFrom("BRS", 2, sd[250], Len(BrsIdx) + 1) = Reverse(BrsBases)
        /\ \A j \in 1..Len(BrsIdx) :
              mods[BrsKey(BrsIdx[j])].fld[0].v = mods[RspKey(BrsIdx[j])].base
        /\ sd[248] = Len(BrsIdx)
        /\ BrsIdx # <<>> => sd[249] * 256 = BrsBases[Len(BrsIdx)]

\* Every RSP with a BRS starts with the stack pointer its BRS declared:
\* pd_stkptr (RSP offset 6) is the relocated INITSP read from BRS offset 2
\* before the BRS loop overwrites that word with the list link.
StackPointerHandOff ==
    pc = "done" =>
        \A j \in 1..Len(BrsIdx) :
            LET i == BrsIdx[j]
            IN  /\ 6 \in DOMAIN mods[RspKey(i)].fld
                /\ mods[RspKey(i)].fld[6].v = RelocWord(cfg.rsps[rsps[i]].initsp, mods[BrsKey(i)].base \div 256)

(* The blocks generate() copies between modules, as read after relocation. *)
Blk(k, lo, hi) == [src |-> k, off |-> lo, len |-> hi - lo, v |-> 1, rel |-> FALSE]
SysDatAdr == Word(cfg.mem_top * 256, FALSE)

\* When generate() completes, every fixed cross-reference of spec 4.4 holds
\* in full and nothing was resized: XDOS carries RESBDOS's entry, the
\* SYSTEM.DAT address and BNKXDOS's jump table; BNKXIOS's common-base block
\* carries SWTUSER/SWTSYS from RESBDOS, PDISP/XDOS from XDOS and the
\* SYSTEM.DAT address; BNKXDOS and TMP carry the SYSTEM.DAT address; the
\* XIOSJMP.TBL page holds BNKXIOS's first 256 bytes; SYSTEM.DAT is 256 bytes.
CrossReferencesResolved ==
    pc = "done" =>
        LET x == mods[BNKXIOS].fld
        IN  /\ sdLen = 256
            /\ \A k \in DOMAIN mods : ~mods[k].bad
            /\ mods[XDOS].fld[9] = Blk(RES, 9, 12)
            /\ mods[XDOS].fld[12] = SysDatAdr
            /\ mods[XDOS].fld[14] = Blk(BNKXDOS, 4, 44)
            /\ \E o \in DOMAIN x :
                  /\ o - 3 >= 0 /\ o + 14 <= mods[BNKXIOS].len
                  /\ x[o] = Blk(RES, 12, 18)
                  /\ (o + 6) \in DOMAIN x /\ x[o + 6] = Blk(XDOS, 3, 9)
                  /\ (o + 12) \in DOMAIN x /\ x[o + 12] = SysDatAdr
            /\ mods[BNKXDOS].fld[0] = SysDatAdr
            /\ TMP \in DOMAIN mods => mods[TMP].fld[0] = SysDatAdr
            /\ cap.b000 = Blk(BNKXIOS, 0, 256)
            /\ imgLen = ImageSize
=============================================================================
