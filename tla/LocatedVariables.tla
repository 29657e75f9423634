------------------------- MODULE LocatedVariables -------------------------
(***************************************************************************)
(* Discovery of located variables (webserver/core/opcua.cpp):             *)
(* createNodesFromLocatedVariables() reads LOCATED_VARIABLES.h line by    *)
(* line, decomposes each __LOCATED_VAR(...) record, composes an IEC       *)
(* location token and resolves it with resolvePointerFromLocation() to a  *)
(* slot of the process image and an OPC UA scalar type; each resolved     *)
(* record becomes a variable node under ProgramVariables.                 *)
(*                                                                         *)
(* A manifest line is abstracted to what the loop looks at: whether it    *)
(* contains the macro marker, whether a ')' closes it, how many comma     *)
(* separated fields strtok_r yields (at most 8 are kept) and the area,    *)
(* width and index fields.  The type and name fields are not modelled.   *)
(***************************************************************************)
EXTENDS Integers, Sequences, FiniteSets, TLC

CONSTANTS
    BUFFER_SIZE,   \* length of every process-image directory
    Allocated,     \* cells that hold a non-NULL pointer: the slots the
                   \* compiled program allocated, and memory just outside
                   \* a directory that a read past its bounds would find
    Lines,         \* the manifest lines considered
    MaxLines,      \* longest manifest considered
    NonNumeric,    \* an index field that does not start with a digit
    Unresolved,    \* resolvePointerFromLocation() returned false
    AddResults     \* outcomes of addVariableNode() the environment may give

(***************************************************************************)
(* The outcomes of addVariableNode(): UA_Server_addVariableNode() returns *)
(* GOOD and the OpcNodeInfo malloc succeeds ("Good"), returns GOOD and    *)
(* the malloc fails ("NoInfo"), or returns another status ("Failed":      *)
(* BADNODEIDEXISTS or any other error, both only logged).                 *)
(***************************************************************************)
AllAddResults == {"Good", "NoInfo", "Failed"}
ASSUME AddResults \subseteq AllAddResults /\ "Good" \in AddResults

Areas  == {"I", "Q", "M"}
Widths == {"X", "B", "W", "D", "L", "R", "F"}

(* atoi(): the integer a field starts with, 0 if it starts with none. *)
Atoi(f) == IF f = NonNumeric THEN 0 ELSE f

(***************************************************************************)
(* The location composed from a record (idx1 = atoi(tokens[4]), idx2 =    *)
(* atoi(tokens[5]), printed with snprintf).  resolvePointerFromLocation() *)
(* reads the printed integers back with atoi, which returns them as they  *)
(* were printed.                                                          *)
(***************************************************************************)
Location(l) == [l EXCEPT !.idx1 = Atoi(l.idx1), !.idx2 = Atoi(l.idx2)]

(* Image slot of a location: bool_input[i][b] for X, byte_input[i] etc. *)
Slot(l) == <<l.area, l.width, l.idx1, IF l.width = "X" THEN l.idx2 ELSE 0>>

(* UA_TYPES entry chosen for each width glyph. *)
UaType ==
    [w \in Widths |->
        CASE w = "X" -> "Boolean" [] w = "B" -> "Byte"
          [] w = "W" -> "UInt16"  [] w = "D" -> "UInt32"
          [] w = "L" -> "UInt64"  [] w = "R" -> "Float"
          [] w = "F" -> "Double"]

(* The width glyphs each area's case of the switch handles. *)
AreaWidths(a) == IF a = "M" THEN Widths \ {"X", "B"} ELSE Widths

(***************************************************************************)
(* resolvePointerFromLocation(), applied to the token composed with       *)
(* snprintf("%%%cX%d.%d") or ("%%%c%c%d") from the record's fields.  The  *)
(* token is parsed back with atoi (see Location).  A bit index outside    *)
(* 0..7 fails;                                                            *)
(* then the area's case succeeds only for a width it handles, an index in *)
(* [0, BUFFER_SIZE) and a non-NULL directory cell.                        *)
(***************************************************************************)
(* Mutant: the range test of the cases reads index1 <= BUFFER_SIZE. *)
ResolvePointerIndexPastEnd(l) ==
    IF /\ l.width = "X" => l.idx2 \in 0 .. 7
       /\ l.area \in Areas
       /\ l.width \in AreaWidths(l.area)
       /\ l.idx1 \in 0 .. BUFFER_SIZE
       /\ Slot(l) \in Allocated
    THEN UaType[l.width]
    ELSE Unresolved

(* Mutant: the M case of the switch also serves the byte glyph. *)
ResolvePointerMByte(l) ==
    IF /\ l.width = "X" => l.idx2 \in 0 .. 7
       /\ l.area \in Areas
       /\ l.width \in AreaWidths(l.area) \cup {"B"}
       /\ l.idx1 \in 0 .. BUFFER_SIZE - 1
       /\ Slot(l) \in Allocated
    THEN UaType[l.width]
    ELSE Unresolved

ResolvePointerFromLocation(l) ==
    IF /\ l.width = "X" => l.idx2 \in 0 .. 7
       /\ l.area \in Areas
       /\ l.width \in AreaWidths(l.area)
       /\ l.idx1 \in 0 .. BUFFER_SIZE - 1
       /\ Slot(l) \in Allocated
    THEN UaType[l.width]
    ELSE Unresolved

VARIABLES
    manifest,   \* the lines of LOCATED_VARIABLES.h
    next,       \* index of the next line fgets returns
    seen,       \* marker lines seen
    added,      \* records handed to addVariableNode()
    nextId,     \* static nextId, relative to 4000000
    bindings,   \* g_node_list: line, slot, type and node id
    nodes       \* node ids of the address space under ProgramVariables

vars == <<manifest, next, seen, added, nextId, bindings, nodes>>

Manifests == UNION {[1 .. k -> Lines] : k \in 1 .. MaxLines}

TypeOK ==
    /\ manifest \in Manifests
    /\ next \in 1 .. Len(manifest) + 1
    /\ seen \in 0 .. Len(manifest) /\ added \in 0 .. Len(manifest)
    /\ nextId \in 0 .. Len(manifest)
    /\ bindings \subseteq [line : 1 .. Len(manifest), slot : {Slot(Location(l)) : l \in Lines},
                           type : {UaType[w] : w \in Widths}, id : 0 .. MaxLines]
    /\ nodes \subseteq 0 .. MaxLines

Init ==
    /\ manifest \in Manifests
    /\ next = 1
    /\ seen = 0 /\ added = 0 /\ nextId = 0
    /\ bindings = {} /\ nodes = {}

Line == manifest[next]
Advance == next' = next + 1

(* A line without "__LOCATED_VAR(" is skipped without being counted. *)
SkipNoMarker ==
    /\ next <= Len(manifest)
    /\ ~Line.marker
    /\ Advance
    /\ UNCHANGED <<manifest, seen, added, nextId, bindings, nodes>>

(* A marker line is counted; it is skipped if no ')' closes it or it has *)
(* fewer than six fields.                                                *)
SkipMalformed ==
    /\ next <= Len(manifest)
    /\ Line.marker
    /\ ~Line.closed \/ Line.n < 6
    /\ Advance
    /\ seen' = seen + 1
    /\ UNCHANGED <<manifest, added, nextId, bindings, nodes>>

(* A well-formed record whose location does not resolve is skipped. *)
SkipUnresolved ==
    /\ next <= Len(manifest)
    /\ Line.marker /\ Line.closed /\ Line.n >= 6
    /\ ResolvePointerFromLocation(Location(Line)) = Unresolved
    /\ Advance
    /\ seen' = seen + 1
    /\ UNCHANGED <<manifest, added, nextId, bindings, nodes>>

(***************************************************************************)
(* addVariableNode() for node id `id`: on GOOD the node joins the address *)
(* space; only if the OpcNodeInfo malloc also succeeds is it prepended to *)
(* g_node_list (with its context and onWrite callback).  Any other status *)
(* is logged and nothing is created.                                      *)
(***************************************************************************)
AddVariableNode(id, binding, result) ==
    /\ nodes' = IF result = "Failed" THEN nodes ELSE nodes \cup {id}
    /\ bindings' = IF result = "Good" THEN bindings \cup {binding} ELSE bindings

(***************************************************************************)
(* A resolved record takes the next node id (nextId++) and is handed to   *)
(* addVariableNode(); `added` is counted whatever the add's outcome.      *)
(***************************************************************************)
AddNode ==
    LET loc  == Location(Line)
        type == ResolvePointerFromLocation(loc)
    IN
    /\ next <= Len(manifest)
    /\ Line.marker /\ Line.closed /\ Line.n >= 6
    /\ type # Unresolved
    /\ \E result \in AddResults :
          AddVariableNode(nextId,
                          [line |-> next, slot |-> Slot(loc), type |-> type, id |-> nextId],
                          result)
    /\ Advance
    /\ seen' = seen + 1
    /\ added' = added + 1
    /\ nextId' = nextId + 1
    /\ UNCHANGED manifest

Next == SkipNoMarker \/ SkipMalformed \/ SkipUnresolved \/ AddNode

(* fgets returns NULL after the last line: the loop ends. *)
Done == next = Len(manifest) + 1

Spec == Init /\ [][Next]_vars

-----------------------------------------------------------------------------
(***************************************************************************)
(* Reference: what the natural-language specification says of a record   *)
(* (sections 3, 4.B, 4.C, 6.1 and 7).                                     *)
(***************************************************************************)

(* The width -> scalar type table of section 3. *)
SpecScalarType ==
    ("X" :> "Boolean") @@ ("B" :> "Byte") @@ ("W" :> "UInt16")
    @@ ("D" :> "UInt32") @@ ("L" :> "UInt64") @@ ("R" :> "Float")
    @@ ("F" :> "Double")

(* Type Resolver (4.A to 4.C) on a location: its type, or why not. *)
SpecResolve(l) ==
    IF \/ l.area \notin Areas \/ l.width \notin Widths
       \/ l.idx1 = NonNumeric \/ l.idx1 < 0
       \/ (l.width = "X" /\ l.idx2 \notin 0 .. 7)
    THEN "InvalidLocation"
    ELSE IF l.area = "M" /\ l.width \in {"X", "B"} THEN "Unsupported"
    ELSE IF l.idx1 >= BUFFER_SIZE \/ Slot(l) \notin Allocated THEN "Unavailable"
    ELSE SpecScalarType[l.width]

(* A manifest record (6.1): five fields, a sixth (the bit) iff width X. *)
SpecRecord(l) ==
    IF ~l.marker THEN "Ignored"
    ELSE IF ~l.closed \/ l.n < 5 THEN "MalformedManifest"
    ELSE IF l.n # (IF l.width = "X" THEN 6 ELSE 5) THEN "InvalidLocation"
    ELSE SpecResolve(l)

(***************************************************************************)
(* Every node the discovery loop creates carries the OPC UA type that the *)
(* specification's Type Resolver gives its record's location: the slot is *)
(* in range, allocated, of a supported area/width pair, and its width     *)
(* glyph selects the type of the table (no widening, no sign change).     *)
(***************************************************************************)
BindingsMatchSpec ==
    \A b \in bindings : SpecResolve(manifest[b.line]) = b.type

(***************************************************************************)
(* Once LOCATED_VARIABLES.h is read, every record the specification       *)
(* accepts (%IW5 as __LOCATED_VAR(UINT,__IW5,I,W,5), scenario 2) has a    *)
(* node.                                                                  *)
(***************************************************************************)
SpecRecordsExposed ==
    Done => \A i \in 1 .. Len(manifest) :
               SpecRecord(manifest[i]) \in {UaType[w] : w \in Widths} =>
                   \E b \in bindings : b.line = i

=============================================================================
