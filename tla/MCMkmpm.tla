------------------------------ MODULE MCMkmpm ------------------------------
(***************************************************************************)
(* SPR files for Mkmpm. Based(base, pages, avail) is a file in the header *)
(* layout read_spr expects (base at bytes 0-1, pages at 2-3); Prl(psize,   *)
(* dsize, slack) is a file in the format of spec 4.1 (psize at bytes 1-2,  *)
(* dsize at 4-5, the code, its bitmap and slack bytes of record padding).  *)
(***************************************************************************)
EXTENDS Mkmpm

Absent == [exists |-> FALSE, b0 |-> 0, b1 |-> 0, b2 |-> 0, b3 |-> 0, avail |-> 0]

Based(base, pages, avail) ==
    [exists |-> TRUE, b0 |-> base % 256, b1 |-> base \div 256,
     b2 |-> pages % 256, b3 |-> pages \div 256, avail |-> avail]

Prl(psize, dsize, slack) ==
    [exists |-> TRUE, b0 |-> 0, b1 |-> psize % 256, b2 |-> psize \div 256,
     b3 |-> dsize % 256, avail |-> psize + (psize + 7) \div 8 + slack]

\* RESBDOS: exactly its 0C00H slot; one page into XIOSJMP.TBL; a format
\* file with dsize 16 whose page count reads as 4108 pages, so the whole
\* file after the header runs up to FE10H; one page past the end of mem;
\* missing. XDOS: based at its target, based at C000H (relocated by 14
\* pages), a format file. BNKXDOS and TMP: based, or a format file.
MCDisks ==
    [RESBDOS : {Based(61440, 12, 3072), Based(0, 13, 3328), Prl(3200, 16, 0),
                Based(61440, 17, 4352), Absent},
     XDOS    : {Based(52736, 34, 8704), Based(49152, 34, 8704), Prl(8704, 0, 0)},
     BNKBDOS : {Based(43520, 35, 8960)},
     BNKXDOS : {Based(43008, 2, 512), Prl(300, 40, 84)},
     TMP     : {Based(41984, 4, 1024), Prl(1024, 0, 0)}]

\* The distribution's files, in the format of spec 4.1.
MCFormatDisks ==
    {[RESBDOS |-> Prl(3072, 0, 0), XDOS |-> Prl(8704, 0, 0),
      BNKBDOS |-> Prl(8960, 0, 0), BNKXDOS |-> Prl(300, 40, 84),
      TMP |-> Prl(1024, 0, 0)]}
=============================================================================
