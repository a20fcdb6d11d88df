----------------------------- MODULE MCImd2Raw ------------------------------
(***************************************************************************)
(* ImageDisk files of two cylinders, two heads and two sectors a track:   *)
(* usual disks with interleaved sector maps, tracks out of order or       *)
(* missing and every sector type, and the unusual ones a real archive    *)
(* holds: sectors numbered from 0, a repeated sector number, a first     *)
(* track of another density, and files that end early.                  *)
(***************************************************************************)
EXTENDS Imd2Raw

Tr(c, h, code, smap, types) ==
    [cyl |-> c, head |-> h, code |-> code, smap |-> smap, types |-> types, mapCut |-> FALSE]
Imd(trs, sh) == [term |-> TRUE, tracks |-> trs, short |-> sh]

\* The four tracks of a 2x2x2 disk in order, with the given sector maps
\* and types on the second cylinder.
Std(m, ty) == <<Tr(0, 0, 0, <<1, 2>>, <<1, 1>>), Tr(0, 1, 0, <<2, 1>>, <<2, 0>>),
                Tr(1, 0, 0, m, ty), Tr(1, 1, 0, <<1, 2>>, <<9, 3>>)>>

UsualImds ==
    {Imd(Std(m, ty), 0) : m \in {<<1, 2>>, <<2, 1>>}, ty \in {<<1, 4>>, <<5, 1>>}}
    \cup {Imd(<<Tr(1, 1, 0, <<1, 2>>, <<1, 1>>), Tr(0, 0, 0, <<2, 1>>, <<1, 2>>),
                Tr(1, 0, 0, <<1, 2>>, <<1, 1>>)>>, 0),
          Imd(<<Tr(0, 0, 1, <<1, 2>>, <<1, 1>>), Tr(1, 0, 1, <<2, 1>>, <<1, 1>>)>>, 1),
          Imd(<<Tr(0, 0, 0, <<1, 2>>, <<1, 1>>), Tr(0, 1, 0, <<1, 2>>, <<1>>)>>, 0)}

UnusualImds ==
    {Imd(<<Tr(0, 0, 0, <<0, 1>>, <<1, 1>>), Tr(0, 1, 0, <<0, 1>>, <<1, 2>>)>>, 0),
     Imd(<<Tr(0, 0, 0, <<1, 1>>, <<1, 1>>), Tr(1, 0, 0, <<1, 2>>, <<1, 1>>)>>, 0),
     Imd(<<Tr(0, 0, 0, <<1, 2>>, <<1, 1>>), Tr(1, 0, 1, <<1, 2>>, <<1, 1>>)>>, 0),
     Imd(<<Tr(0, 0, 1, <<1, 2>>, <<1, 1>>), Tr(1, 0, 0, <<1, 2>>, <<1, 1>>)>>, 0),
     Imd(<<Tr(0, 0, 0, <<1, 3>>, <<1, 1>>), Tr(1, 0, 0, <<1, 2>>, <<1, 1>>)>>, 0),
     Imd(<<Tr(0, 0, 0, <<1, 2>>, <<1, 1>>), Tr(0, 1, 7, <<1, 2>>, <<1, 1>>),
           Tr(1, 0, 0, <<1, 2>>, <<1, 1>>)>>, 0),
     Imd(<<Tr(0, 0, 0, <<1, 2>>, <<1, 1>>),
           [Tr(0, 1, 0, <<1, 2>>, <<>>) EXCEPT !.mapCut = TRUE]>>, 0),
     Imd(<<Tr(0, 0, 0, <<1, 2>>, <<1, 2>>)>>, 1),
     Imd(<<>>, 0),
     [Imd(<<Tr(0, 0, 0, <<1, 2>>, <<1, 1>>)>>, 0) EXCEPT !.term = FALSE]}

MCImds == UsualImds \cup UnusualImds
=============================================================================
