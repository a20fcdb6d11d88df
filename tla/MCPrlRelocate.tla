--------------------------- MODULE MCPrlRelocate ---------------------------
(* Model of PrlRelocate: module files of 0 to 10 code bytes (so that the   *)
(* bitmap spans one and two bytes), code bytes that do and do not wrap    *)
(* when a high base page is added, and bitmaps that single out the first, *)
(* the last and alternate bytes of a bitmap byte.                          *)
EXTENDS PrlRelocate

\* Code of n bytes: all low, all high, or alternating high and low.
MCCode(n) == {[i \in 1..n |-> v] : v \in {16, 240}}
               \cup {[i \in 1..n |-> IF i % 2 = 0 THEN 16 ELSE 240]}
MCBitmapBytes == {0, 128, 64, 2, 1, 90, 255}
MCSizes       == {0, 1, 2, 7, 8, 9, 15, 16}

\* Files the format allows: the header, psize code bytes, the whole bitmap.
WellFormed ==
    UNION {{[hdr |-> TRUE, psize |-> n, dsize |-> 0, body |-> c \o b] :
              c \in MCCode(n),
              b \in [1..BitmapLen(n) -> MCBitmapBytes]} : n \in MCSizes}

\* Files SPRModule.load rejects: no full header, or code cut short.
Malformed ==
    {[hdr |-> FALSE, psize |-> 2, dsize |-> 0, body |-> <<>>],
     [hdr |-> TRUE, psize |-> 9, dsize |-> 0, body |-> <<16, 240, 16>>]}

\* Files whose code is complete but whose bitmap is cut short.
TruncatedBitmap ==
    UNION {{[hdr |-> TRUE, psize |-> n, dsize |-> 0, body |-> c \o b] :
              c \in [1..n -> {240}],
              b \in [1..k -> {255}]} : n \in {8, 9}, k \in {0, 1}}

MCFiles      == WellFormed \cup Malformed
MCFilesTrunc == WellFormed \cup TruncatedBitmap
MCBasePages  == {64, 192}
=============================================================================
