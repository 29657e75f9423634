------------------------ MODULE MCLocatedVariables ------------------------
(* Manifests of one or two lines over a universe that reaches every      *)
(* branch: lines without the marker or without ')', 4 to 6 fields, areas *)
(* I, M and a bad one, bit and word widths, an index that is negative,   *)
(* allocated, unallocated and out of range, and a good and a bad bit.    *)
EXTENDS LocatedVariables

MCBufferSize == 2

(***************************************************************************)
(* Index 0 of every directory is allocated, index 1 only for bit and word *)
(* cells (bit 1 of a bool row).  The cells a read one element before or   *)
(* past a directory, or past the 8 bits of a row, would reach (index -1,  *)
(* index BUFFER_SIZE, bit 8) hold the neighbouring arrays' non-NULL       *)
(* pointers, so only the range tests keep them out.                       *)
(***************************************************************************)
MCAllocated ==
    {<<a, w, i, IF w = "X" THEN 1 ELSE 0>> :
        a \in Areas, w \in Widths, i \in {-1, 0, MCBufferSize}}
    \cup {<<a, w, 1, IF w = "X" THEN 1 ELSE 0>> : a \in Areas, w \in {"X", "W"}}
    \cup {<<a, "X", i, 8>> : a \in Areas, i \in -1 .. MCBufferSize}

MCLines ==
    {[marker |-> m, closed |-> c, n |-> 6, area |-> "I", width |-> "X",
      idx1 |-> 0, idx2 |-> 1] : m \in BOOLEAN, c \in BOOLEAN}
    \cup
    [marker : {TRUE}, closed : {TRUE}, n : {4, 5, 6}, area : {"I", "M", "Z"},
     width : {"X", "B", "W", "R"}, idx1 : {-1, 0, 1, 2}, idx2 : {1, 8}]

(* Every outcome of addVariableNode(), or only successful adds. *)
MCAddResults == AllAddResults
MCAddGood == {"Good"}

(* Records whose index fields may be text rather than digits. *)
MCLinesNonNumeric ==
    [marker : {TRUE}, closed : {TRUE}, n : {6}, area : {"I"}, width : {"X", "W"},
     idx1 : {0, NonNumeric}, idx2 : {1, NonNumeric}]
=============================================================================
