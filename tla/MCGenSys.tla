------------------------------ MODULE MCGenSys ------------------------------
(* Configurations for checking GenSys: module sizes of the shape of the    *)
(* DRI SPR files, RSP lists of up to three entries, console and segment    *)
(* counts across the 4-per-page boundaries, and a sweep of mem_top that    *)
(* makes every allocation step in turn the first one to run out of memory. *)
EXTENDS GenSys

\* Module sizes in bytes: RESBDOS 3 pages, XDOS 13 (12 of code), BNKXIOS 4, BNKBDOS 9,
\* BNKXDOS 2, TMP 6.
StdSize ==
    [n \in Fixed |->
        CASE n = "RESBDOS" -> [psize |-> 768, dsize |-> 0]
          [] n = "XDOS"    -> [psize |-> 2900, dsize |-> 300]
          [] n = "BNKXIOS" -> [psize |-> 1024, dsize |-> 0]
          [] n = "BNKBDOS" -> [psize |-> 2200, dsize |-> 100]
          [] n = "BNKXDOS" -> [psize |-> 300, dsize |-> 200]
          [] n = "TMP"     -> [psize |-> 1500, dsize |-> 0]]

NoBrs == [present |-> FALSE, psize |-> 0, dsize |-> 0]

\* An RSP with a one-page BRS whose INITSP is a relocatable address, an RSP
\* of two pages without BRS, and an RSP whose file is missing.
RspA == [present |-> TRUE, rsp |-> [psize |-> 200, dsize |-> 40],
         brs |-> [present |-> TRUE, psize |-> 180, dsize |-> 0], initsp |-> 160]
RspB == [present |-> TRUE, rsp |-> [psize |-> 300, dsize |-> 60],
         brs |-> NoBrs, initsp |-> 0]
RspC == [present |-> TRUE, rsp |-> [psize |-> 100, dsize |-> 0],
         brs |-> [present |-> TRUE, psize |-> 400, dsize |-> 20], initsp |-> 300]
RspGone == [RspB EXCEPT !.present = FALSE]

\* The standard XIOS: its first JP targets COMMONBASE, 256 bytes into the
\* module, as a relocatable address. The emulator XIOS: an absolute target
\* below common memory, so generate() uses the module base.
XiosStd == [target |-> 256, rel |-> TRUE]
XiosEmu == [target |-> 3, rel |-> FALSE]

Cfg(mt, cb, nc, segs, stks, items, size, rl, xios) ==
    [mem_top |-> mt, common_base |-> cb, num_consoles |-> nc,
     num_mem_segments |-> segs, sys_call_stks |-> stks, total_items |-> items,
     size |-> size, rsps |-> rl, xios |-> xios]

\* Console and segment counts on both sides of each page boundary.
LayoutConfigs ==
    {Cfg(255, 192, nc, segs, stks, 20, StdSize, <<RspA>>, XiosStd) :
        nc \in {1, 4, 5, 8}, segs \in {1, 4, 5, 8}, stks \in BOOLEAN}
    \cup {Cfg(255, 192, 0, segs, stks, 0, StdSize, <<RspB>>, XiosStd) :
            segs \in {1, 4}, stks \in BOOLEAN}

\* Every mem_top from 0 to just past the 43 pages the modules need.
SweepConfigs ==
    {Cfg(mt, 0, 1, 1, FALSE, 20, StdSize, <<RspA>>, XiosStd) : mt \in 0..44}
    \cup {Cfg(256, 0, 1, 1, FALSE, 20, StdSize, <<RspA>>, XiosStd)}

\* Malformed inputs: a BNKXIOS too short for its JP, an RSP too short for
\* pd_link, a BRS too short for INITSP, a common base above BNKXIOS, and a
\* RESBDOS whose code ends inside the copyright string or before it.
MalformedConfigs ==
    {Cfg(255, 192, 1, 1, FALSE, 20, [StdSize EXCEPT !["BNKXIOS"] = [psize |-> 2, dsize |-> 0]],
         <<RspA>>, XiosStd),
     Cfg(255, 192, 1, 1, FALSE, 20, StdSize,
         <<[RspB EXCEPT !.rsp = [psize |-> 1, dsize |-> 0]]>>, XiosStd),
     Cfg(255, 192, 1, 1, FALSE, 20, StdSize,
         <<[RspA EXCEPT !.brs.psize = 3]>>, XiosStd),
     Cfg(255, 255, 1, 1, FALSE, 20, StdSize, <<RspA>>, XiosStd)}
    \cup {Cfg(255, 192, 1, 1, FALSE, 20, [StdSize EXCEPT !["RESBDOS"] = [psize |-> n, dsize |-> 0]],
               <<RspA>>, XiosStd) : n \in {100, 230}}

MCLayoutConfigs == LayoutConfigs \cup SweepConfigs \cup MalformedConfigs

\* RSP lists of up to three entries, for both XIOS shapes.
RspLists == UNION {[1..n -> {RspA, RspB, RspC, RspGone}] : n \in 0..3}

MCXrefConfigs ==
    {Cfg(255, 192, nc, 2, nc > 0, 20, StdSize, rl, x) :
        nc \in {0, 2}, rl \in RspLists, x \in {XiosStd, XiosEmu}}

\* The layout sweep and the cross-reference lists, checked together.
MCGenSysConfigs == MCLayoutConfigs \cup MCXrefConfigs

\* More than eight consoles: TMPD.DAT needs ceil(consoles/4) > 2 pages.
MCManyConsoleConfigs ==
    {Cfg(255, 192, nc, 2, TRUE, 20, StdSize, <<RspA>>, XiosStd) : nc \in {9, 12}}

\* An XIOS whose first JP is an absolute address in common memory below
\* the module, and one whose relocatable COMMONBASE lies in its last bytes.
MCXiosShapeConfigs ==
    {Cfg(255, 192, 2, 2, TRUE, 20, StdSize, <<RspA>>, x) :
        x \in {[target |-> 51200, rel |-> FALSE], [target |-> 1016, rel |-> TRUE]}}
=============================================================================
