--------------------------- MODULE MCImageAssembly ---------------------------
(***************************************************************************)
(* Layouts for ImageAssembly, in the shape calculate_memory_layout gives   *)
(* them: SYSTEM.DAT at mem_top, TMPD.DAT below it when there are consoles, *)
(* XIOSJMP.TBL next, then RESBDOS, XDOS, BNKXIOS and TMP downward, each on *)
(* the pages its length needs, and one page of LCKLSTS.DAT at image_base.  *)
(***************************************************************************)
EXTENDS ImageAssembly, TLC

Pg(n) == (n + PAGE - 1) \div PAGE

\* Modules of the given lengths placed downward from page top.
Placed(top, resbdos, xdos, bnkxios, tmp) ==
    LET r == top - Pg(resbdos)
        x == r - Pg(xdos)
        b == x - Pg(bnkxios)
        t == b - Pg(tmp)
    IN  <<[name |-> "RESBDOS", base |-> r * PAGE, len |-> resbdos],
          [name |-> "XDOS",    base |-> x * PAGE, len |-> xdos],
          [name |-> "BNKXIOS", base |-> b * PAGE, len |-> bnkxios],
          [name |-> "TMP",     base |-> t * PAGE, len |-> tmp]>>

Layout(tmpd, resbdos, xdos, bnkxios, tmp) ==
    LET mt  == 1 + tmpd + 1 + Pg(resbdos) + Pg(xdos) + Pg(bnkxios) + Pg(tmp) + 1
        xj  == mt - tmpd - 1
        ms  == Placed(xj, resbdos, xdos, bnkxios, tmp)
    IN  [mem_top |-> mt, xiosjmp |-> xj, image_base |-> ms[4].base \div PAGE - 1,
         mods |-> ms]

\* Every layout with or without TMPD.DAT, module lengths on and off page
\* boundaries, and a BNKXIOS of one page, of more than one page, and of two.
MCLayouts ==
    {Layout(tmpd, rb, 256, bx, tm) :
        tmpd \in {0, 1}, rb \in {200, 256}, bx \in {256, 300, 512}, tm \in {100, 256}}

\* A BNKXIOS shorter than the 256-byte jump table (an XIOS of 90 bytes).
MCShortXiosLayouts == {Layout(1, 200, 256, 90, 100)}

\* Configuration files: one as --init writes it, one moving the outputs to
\* another directory, one whose misspelt key from_json ignores, and one
\* that cannot be read.  No file names MPM.SYS and SYSTEM.DAT alike.
MCJson ==
    ("mpm.json" :> [spr_dir |-> ".", output |-> "mpm.sys", system_dat |-> "system.dat"])
    @@ ("disks.json" :> [spr_dir |-> "disks", output |-> "boot.sys"])
    @@ ("typo.json" :> [outptu |-> "boot.sys", system_dat |-> "sys.dat"])

MCBadJson == {"none.json"}

Arg(init, config, output) == [init |-> init, config |-> config, output |-> output]

\* --init, no arguments, an unreadable file, and each file with and
\* without -o.
MCArgvs ==
    {Arg("new.json", "", ""), Arg("", "", ""), Arg("", "none.json", ""),
     Arg("", "mpm.json", ""), Arg("", "disks.json", "mpm2.sys"), Arg("", "typo.json", "")}

MCPaths == {".", "disks"} \X {"mpm.sys", "system.dat", "boot.sys", "mpm2.sys", "sys.dat", "new.json"}
=============================================================================
