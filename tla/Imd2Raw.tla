------------------------------ MODULE Imd2Raw ------------------------------
(***************************************************************************)
(* imd2raw.py: parse_imd reads the ImageDisk file track by track into a   *)
(* list of {cyl, head, sectors, sector_size, num_sectors}, sectors a dict *)
(* from sector number to data; imd_to_raw takes the geometry from the     *)
(* highest cyl and head and from the first track, fills an image with     *)
(* E5H and copies each sector to ((cyl*heads + head)*spt + idx)*size.     *)
(*                                                                         *)
(* The file is given as its track records, not as bytes.  A length is    *)
(* counted in units of 128 bytes, the smallest sector, so size code c is *)
(* 2^c units.  A byte of the image is the cell it came from: unit u of   *)
(* the data of sector i of track t, the fill byte of a compressed sector,*)
(* or E5H.                                                                 *)
(***************************************************************************)
EXTENDS Integers, Sequences, FiniteSets

CONSTANTS
    Imds    \* the files the converter may be given: [term, tracks, short]:
            \* term says whether the header has its 1AH terminator; each
            \* track is [cyl, head, code, smap, types, mapCut], types the
            \* type bytes present (fewer than smap when the file ends in
            \* the track), mapCut that the file ends inside the sector
            \* map; short is the units missing from the file's last sector

SectorSizes == <<1, 2, 4, 8, 16, 32, 64>>     \* 128 .. 8192 bytes, in units
E5 == [k |-> "E5", t |-> 0, i |-> 0, u |-> 0]

VARIABLES
    imd,     \* the input file
    pc,      \* "parse", "geom", "copy", "write", "exit"
    t,       \* index into the file's tracks, then into the parsed list
    tracks,  \* parse_imd's result
    geo,     \* [cyls, heads, size, spt]
    image,   \* the raw image: unit offset -> cell
    raised,  \* whether an exception ended the program
    out      \* the output file: [st, data]

vars == <<imd, pc, t, tracks, geo, image, raised, out>>

\* Sector data, for the i-th type byte of the file's t-th track: type 0 and
\* types above 8 are E5H, the odd types 1-7 carry size bytes (fewer when
\* the file ends), the even types 2-8 one fill byte.
Normal(s)     == s \in {1, 3, 5, 7}
Compressed(s) == s \in {2, 4, 6, 8}
LastSector(tr, i) == t = Len(imd.tracks) /\ i = Len(tr.types)
SectorData(tr, i) ==
    LET s  == tr.types[i]
        sz == SectorSizes[tr.code + 1]
    IN  CASE Normal(s) ->
               [len |-> IF LastSector(tr, i) THEN sz - imd.short ELSE sz, cell |-> "D", t |-> t, i |-> i]
          [] Compressed(s) -> [len |-> sz, cell |-> "C", t |-> t, i |-> i]
          [] OTHER -> [len |-> sz, cell |-> "E5", t |-> 0, i |-> 0]

\* The byte at unit u of a sector's data.
Unit(d, u) == IF d.cell = "D" THEN [k |-> "D", t |-> d.t, i |-> d.i, u |-> u]
              ELSE IF d.cell = "C" THEN [k |-> "C", t |-> d.t, i |-> d.i, u |-> 0]
              ELSE E5

\* sectors[sector_map[i]] = sector_data: a Python dict, kept as the list
\* of its <<key, value>> pairs in insertion order; a repeated key keeps its
\* place and takes the new value.
DictSet(d, key, val) ==
    IF \E j \in 1..Len(d) : d[j][1] = key
    THEN [j \in 1..Len(d) |-> IF d[j][1] = key THEN <<key, val>> ELSE d[j]]
    ELSE Append(d, <<key, val>>)

RECURSIVE ReadSectors(_, _, _)
ReadSectors(tr, i, d) ==
    IF i > Len(tr.types) THEN d
    ELSE ReadSectors(tr, i + 1, DictSet(d, tr.smap[i], SectorData(tr, i)))

Init ==
    /\ imd \in Imds
    /\ pc = "parse" /\ t = 1
    /\ tracks = <<>>
    /\ geo = [cyls |-> 0, heads |-> 0, size |-> 0, spt |-> 0]
    /\ image = <<>>
    /\ raised = FALSE
    /\ out \in {[st |-> s, data |-> <<>>] : s \in {"none", "old"}}

\* parse_imd without the 1AH terminator raises ValueError.
NoTerminator ==
    /\ pc = "parse" /\ ~imd.term
    /\ raised' = TRUE /\ pc' = "exit"
    /\ UNCHANGED <<imd, t, tracks, geo, image, out>>

\* One pass of the while loop: the 5-byte track header; an invalid size
\* code or a file that ends in the sector map ends the loop; then the
\* sector map, the optional cylinder and head maps, and the sector loop,
\* which ends early when the file does.  The fill byte of a compressed
\* sector the file ends before is data[pos]: IndexError.
ParseTrack ==
    /\ pc = "parse" /\ imd.term /\ t <= Len(imd.tracks)
    /\ LET tr == imd.tracks[t] IN
       IF tr.code >= Len(SectorSizes) \/ tr.mapCut
       THEN /\ pc' = "geom" /\ UNCHANGED <<t, tracks, raised>>
       ELSE IF LastSector(tr, Len(tr.types)) /\ Len(tr.types) > 0
               /\ Compressed(tr.types[Len(tr.types)]) /\ imd.short > 0
       THEN /\ raised' = TRUE /\ pc' = "exit" /\ UNCHANGED <<t, tracks>>
       ELSE /\ tracks' = Append(tracks, [cyl |-> tr.cyl, head |-> tr.head,
                                         sectors |-> ReadSectors(tr, 1, <<>>),
                                         size |-> SectorSizes[tr.code + 1],
                                         nsec |-> Len(tr.smap)])
            /\ t' = t + 1
            /\ pc' = IF t = Len(imd.tracks) THEN "geom" ELSE "parse"
            /\ UNCHANGED raised
    /\ UNCHANGED <<imd, geo, image, out>>

\* A file with no track record after its header.
ParseEmpty ==
    /\ pc = "parse" /\ imd.term /\ imd.tracks = <<>>
    /\ pc' = "geom"
    /\ UNCHANGED <<imd, t, tracks, geo, image, raised, out>>

MaxOver(S) == CHOOSE x \in S : \A y \in S : y <= x

\* imd_to_raw: no tracks prints a message and returns (nothing written);
\* else max_cyl, max_head, and track 0's sector size and count, and an
\* image of E5H.
Geometry ==
    /\ pc = "geom"
    /\ IF tracks = <<>>
       THEN pc' = "exit" /\ UNCHANGED <<t, geo, image>>
       ELSE LET g == [cyls  |-> MaxOver({tracks[j].cyl : j \in 1..Len(tracks)}) + 1,
                      heads |-> MaxOver({tracks[j].head : j \in 1..Len(tracks)}) + 1,
                      size  |-> tracks[1].size,
                      spt   |-> tracks[1].nsec]
            IN  /\ geo' = g
                /\ image' = [u \in 0..(g.cyls * g.heads * g.spt * g.size - 1) |-> E5]
                /\ t' = 1
                /\ pc' = "copy"
    /\ UNCHANGED <<imd, tracks, raised, out>>

\* Mutant: the offset takes the sector number as its index.
SecIdxUnshifted(num) == num

\* sec_idx = sec_num - 1 if sec_num > 0 else sec_num, and the offset.
SecIdx(num) == IF num > 0 THEN num - 1 ELSE num
TotalUnits == geo.cyls * geo.heads * geo.spt * geo.size
Offset(tr, num) == ((tr.cyl * geo.heads + tr.head) * geo.spt + SecIdx(num)) * geo.size

\* Mutant: no check that the sector fits; the slice assignment then
\* grows the bytearray.
RECURSIVE CopySectorsUnchecked(_, _, _)
CopySectorsUnchecked(tr, j, img) ==
    IF j > Len(tr.sectors) THEN img
    ELSE LET d   == tr.sectors[j][2]
             off == Offset(tr, tr.sectors[j][1])
         IN  CopySectorsUnchecked(tr, j + 1,
                [u \in DOMAIN img \cup (off..(off + d.len - 1)) |->
                    IF off <= u /\ u < off + d.len THEN Unit(d, u - off) ELSE img[u]])

\* The sectors of one track, in dict order: a sector whose data would end
\* past the image is skipped; otherwise its bytes overwrite the image.
RECURSIVE CopySectors(_, _, _)
CopySectors(tr, j, img) ==
    IF j > Len(tr.sectors) THEN img
    ELSE LET num == tr.sectors[j][1]
             d   == tr.sectors[j][2]
             off == Offset(tr, num)
         IN  CopySectors(tr, j + 1,
                IF off + d.len <= TotalUnits
                THEN [u \in DOMAIN img |-> IF off <= u /\ u < off + d.len THEN Unit(d, u - off) ELSE img[u]]
                ELSE img)

\* for track in tracks: its sectors.
CopyTrack ==
    /\ pc = "copy" /\ t <= Len(tracks)
    /\ image' = CopySectors(tracks[t], 1, image)
    /\ t' = t + 1
    /\ pc' = IF t = Len(tracks) THEN "write" ELSE "copy"
    /\ UNCHANGED <<imd, tracks, geo, raised, out>>

\* open(raw_file, 'wb') and f.write(image): the open may raise before the
\* file is touched, or the write after truncating it.
WriteRaw ==
    /\ pc = "write"
    /\ pc' = "exit"
    /\ \/ out' = [st |-> "raw", data |-> image] /\ UNCHANGED raised
       \/ out' \in {out, [st |-> "partial", data |-> <<>>]} /\ raised' = TRUE
    /\ UNCHANGED <<imd, t, tracks, geo, image>>

\* The program has ended.
Terminated == pc = "exit" /\ UNCHANGED vars

Next == NoTerminator \/ ParseTrack \/ ParseEmpty \/ Geometry \/ CopyTrack
        \/ WriteRaw \/ Terminated

Spec == Init /\ [][Next]_vars /\ WF_vars(Next /\ pc # "exit")
-----------------------------------------------------------------------------
TypeOK ==
    /\ pc \in {"parse", "geom", "copy", "write", "exit"}
    /\ t \in Nat
    /\ \A j \in 1..Len(tracks) : tracks[j].size \in {SectorSizes[c] : c \in 1..Len(SectorSizes)}
    /\ \A u \in DOMAIN image : image[u].k \in {"D", "C", "E5"}
    \* the image keeps the size the geometry gives it
    /\ pc \in {"copy", "write"} => DOMAIN image = 0..(TotalUnits - 1)
    /\ raised \in BOOLEAN
    /\ out.st \in {"none", "old", "partial", "raw"}

\* A disk in the usual shape: every track has the first track's sector size
\* and count, numbers its sectors 1..spt in any interleave, and no two
\* tracks share a cylinder and head.
Standard ==
    /\ tracks # <<>>
    /\ \A j \in 1..Len(tracks) :
          /\ tracks[j].size = tracks[1].size /\ tracks[j].nsec = tracks[1].nsec
          /\ {tracks[j].sectors[s][1] : s \in 1..Len(tracks[j].sectors)} \subseteq 1..tracks[1].nsec
    /\ \A j, k \in 1..Len(tracks) :
          j # k => <<tracks[j].cyl, tracks[j].head>> # <<tracks[k].cyl, tracks[k].head>>

\* For such a disk the raw image is the sectors in cylinder, head, sector
\* order: sector s of cylinder c, head h starts at unit
\* ((c * heads + h) * spt + s - 1) * size and holds that sector's data
\* (its bytes, its fill byte, or E5H), and a slot no sector filled is
\* E5H, whatever order the tracks and the interleaved sector maps come in.
CHSLayout ==
    (pc = "exit" /\ out.st = "raw" /\ Standard) =>
        LET heads == MaxOver({tracks[j].head : j \in 1..Len(tracks)}) + 1
            spt   == tracks[1].nsec
            size  == tracks[1].size
            Slot(tr, s) == ((tr.cyl * heads + tr.head) * spt + s - 1) * size
            Covers(u) == {<<j, s>> \in (1..Len(tracks)) \X (1..spt) :
                             \E x \in 1..Len(tracks[j].sectors) :
                                /\ tracks[j].sectors[x][1] = s
                                /\ Slot(tracks[j], s) <= u
                                /\ u < Slot(tracks[j], s) + tracks[j].sectors[x][2].len}
        IN  \A u \in DOMAIN out.data :
               IF Covers(u) = {} THEN out.data[u] = E5
               ELSE \E js \in Covers(u) :
                       \E x \in 1..Len(tracks[js[1]].sectors) :
                          /\ tracks[js[1]].sectors[x][1] = js[2]
                          /\ out.data[u] = Unit(tracks[js[1]].sectors[x][2],
                                                u - Slot(tracks[js[1]], js[2]))
=============================================================================
