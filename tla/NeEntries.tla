------------------------------ MODULE NeEntries -------------------------------
(***************************************************************************)
(* The exports of a New Executable.  ne_entryslice_create walks the bundles*)
(* of the entry table and files the address of every entry under its       *)
(* ordinal; ne_load_exports walks the resident names and looks each        *)
(* ordinal up there.                                                       *)
(*                                                                         *)
(* The segments are mapped before (NeRelocs): here they are data.          *)
(***************************************************************************)
EXTENDS Naturals, FiniteSets, Sequences, SequencesExt

CONSTANTS
  Inputs,    \* the files the loader may be given
  Slot,      \* NE_SEG_SLOT
  Words      \* how many values a u16 has (a bound in the runs)

ASSUME SizesAssumption == Slot \in Nat \ {0} /\ Words \in Nat \ {0}

\* The fields of the file are unsigned.
ASSUME InputsAssumption ==
  \A f \in Inputs :
    /\ f.length \in Nat
    /\ f.bundles \in Seq([count : Nat, seg : Nat, entries : Seq([seg : Nat, off : Nat])])
    /\ Len(f.names) \in Nat
    /\ \A k \in 1 .. Len(f.names) : f.names[k].ordinal \in Nat
    /\ Len(f.segs) \in Nat

Movable == 255   \* seg_indicator 0xFF

Unused == 0      \* seg_indicator 0x00

VARIABLES
  input,      \* the file: length (of the table), bundles, names, segs
  pc,         \* "bundles", "entries", "names", "done"
  pos,        \* bytes of the table read
  next,       \* the bundle the reader stands at
  i,          \* "i" of the loop over a bundle
  ordinal,    \* the last ordinal assigned, a u16; NEEntrySlice.length in the end
  data,       \* NEEntrySlice.data: address 0 for none
  line,       \* the resident name the reader stands at
  exports,    \* [name, ordinal, addr] for each export registered
  functions,  \* addresses rd_set_function was called for
  touched     \* history: the ordinals under which data was read or written

vars == <<input, pc, pos, next, i, ordinal, data, line, exports, functions,
          touched>>

\* The allocation of data.
MaxOrdinals(f) == f.length \div 3 + 1

SegCount == Len(input.segs)

Address(s, off) == s * Slot + off

Bundle == input.bundles[next]

EntryBytes(b) == IF b.seg = Movable THEN 6 ELSE 3

-------------------------------------------------------------------------------
(* ne_entryslice_create.                                                   *)

\* A bundle of unused ordinals has no entries: the ordinals just go by.
SkipOrdinals_One ==                       \* mutant: "ordinal++"
  /\ ordinal' = (ordinal + 1) % Words
  /\ next' = next + 1
  /\ UNCHANGED <<pc, i>>

SkipOrdinals ==
  /\ ordinal' = (ordinal + Bundle.count) % Words
  /\ next' = next + 1
  /\ UNCHANGED <<pc, i>>

OpenBundle ==
  /\ pc' = "entries"
  /\ i' = 0
  /\ UNCHANGED <<ordinal, next>>

ReadBundle_PosLast ==    \* mutant: a bundle of unused ordinals is read again
  /\ pc = "bundles"
  /\ pos < input.length
  /\ next <= Len(input.bundles)
  /\ Bundle.count # 0
  /\ IF Bundle.seg = Unused
       THEN ordinal' = (ordinal + Bundle.count) % Words /\ UNCHANGED <<pc, pos, next, i>>
       ELSE pos' = pos + 2 /\ OpenBundle
  /\ UNCHANGED <<input, data, line, exports, functions, touched>>

ReadBundle ==
  /\ pc = "bundles"
  /\ pos < input.length
  /\ next <= Len(input.bundles)
  /\ Bundle.count # 0
  /\ pos' = pos + 2
  /\ IF Bundle.seg = Unused THEN SkipOrdinals ELSE OpenBundle
  /\ UNCHANGED <<input, data, line, exports, functions, touched>>

\* The segment an entry is in: its own, or that of the bundle.
SegmentOf(b, e) == IF b.seg = Movable THEN e.seg ELSE b.seg

\* An ordinal beyond the allocation, or an entry in no segment, is dropped.
\* The ordinal 0, reached by wrapping around, is not: data[-1] is written,
\* which leaves data as it is.
Filed(o, s) == o <= MaxOrdinals(input) /\ s \in 1 .. SegCount

File(o, s, off) ==
  IF Filed(o, s)
    THEN /\ data' = [n \in DOMAIN data |-> IF n = o THEN Address(s, off) ELSE data[n]]
         /\ touched' = touched \cup {o}
    ELSE UNCHANGED <<data, touched>>

ReadEntry_Post ==                \* mutant: the ordinal is counted afterwards
  /\ pc = "entries"
  /\ i < Bundle.count
  /\ i < Len(Bundle.entries)
  /\ LET e == Bundle.entries[i + 1]
     IN  File(ordinal, SegmentOf(Bundle, e), e.off)
  /\ ordinal' = (ordinal + 1) % Words
  /\ i' = i + 1
  /\ pos' = pos + EntryBytes(Bundle)
  /\ UNCHANGED <<input, pc, next, line, exports, functions>>

ReadEntry ==
  /\ pc = "entries"
  /\ i < Bundle.count
  /\ i < Len(Bundle.entries)
  /\ ordinal' = (ordinal + 1) % Words
  /\ LET e == Bundle.entries[i + 1]
     IN  File(ordinal', SegmentOf(Bundle, e), e.off)
  /\ i' = i + 1
  /\ pos' = pos + EntryBytes(Bundle)
  /\ UNCHANGED <<input, pc, next, line, exports, functions>>

CloseBundle ==
  /\ pc = "entries"
  /\ i >= Bundle.count
  /\ pc' = "bundles"
  /\ next' = next + 1
  /\ UNCHANGED <<input, pos, i, ordinal, data, line, exports, functions, touched>>

\* Behind the table, at a bundle of zero entries, or at the end of the file.
EndOfTable ==
  /\ \/ pc = "bundles" /\ pos >= input.length
     \/ pc = "bundles" /\ next > Len(input.bundles)
     \/ pc = "bundles" /\ next <= Len(input.bundles) /\ Bundle.count = 0
  /\ pc' = "names"
  /\ UNCHANGED <<input, pos, next, i, ordinal, data, line, exports, functions,
                 touched>>

\* The file ends inside of a bundle: the entry that cannot be read has got its
\* ordinal already, and "entries.length" counts it.
TruncatedEntry ==
  /\ pc = "entries"
  /\ i < Bundle.count
  /\ i >= Len(Bundle.entries)
  /\ ordinal' = (ordinal + 1) % Words
  /\ pc' = "names"
  /\ UNCHANGED <<input, pos, next, i, data, line, exports, functions, touched>>

-------------------------------------------------------------------------------
(* ne_load_exports.                                                        *)

\* rd_segment_find.
Mapped(a) == \E s \in 1 .. SegCount : a - Address(s, 0) \in 0 .. input.segs[s].size - 1

Executable(a) ==
  \E s \in 1 .. SegCount :
    /\ a - Address(s, 0) \in 0 .. input.segs[s].size - 1
    /\ input.segs[s].exec

\* data[o - 1].  Beyond the allocation it is whatever lies there.
Looked(o) ==
  IF o \in DOMAIN data THEN {data[o]}
  ELSE {0} \cup {Address(s, 0) : s \in 1 .. SegCount}

Register(name, o, a) ==
  IF a # 0 /\ Mapped(a)
    THEN /\ exports' = exports \cup {[name |-> name, ordinal |-> o, addr |-> a]}
         /\ functions' = functions \cup (IF Executable(a) THEN {a} ELSE {})
    ELSE UNCHANGED <<exports, functions>>

\* The first name is the module's.  "entries->length" is the last ordinal.
ReadName ==
  /\ pc = "names"
  /\ ordinal # 0
  /\ line <= Len(input.names)
  /\ LET n == input.names[line] IN
     IF line = 1 \/ n.ordinal \notin 1 .. ordinal
       THEN UNCHANGED <<exports, functions, touched>>
       ELSE /\ touched' = touched \cup {n.ordinal}
            /\ \E a \in Looked(n.ordinal) : Register(n.name, n.ordinal, a)
  /\ line' = line + 1
  /\ UNCHANGED <<input, pc, pos, next, i, ordinal, data>>

EndOfNames ==
  /\ pc = "names"
  /\ ordinal = 0 \/ line > Len(input.names)
  /\ pc' = "done"
  /\ UNCHANGED <<input, pos, next, i, ordinal, data, line, exports, functions,
                 touched>>

-------------------------------------------------------------------------------

Init ==
  /\ input \in Inputs
  /\ pc = "bundles"
  /\ pos = 0
  /\ next = 1
  /\ i = 0
  /\ ordinal = 0
  /\ data = [o \in 1 .. MaxOrdinals(input) |-> 0]
  /\ line = 1
  /\ exports = {}
  /\ functions = {}
  /\ touched = {}

Step ==
  \/ ReadBundle
  \/ ReadEntry
  \/ CloseBundle
  \/ EndOfTable
  \/ TruncatedEntry
  \/ ReadName
  \/ EndOfNames

Terminating == pc = "done" /\ UNCHANGED vars

Next == Step \/ Terminating

Spec == Init /\ [][Next]_vars

FairSpec == Spec /\ WF_vars(Step)

-------------------------------------------------------------------------------
(* Correctness.                                                            *)

\* The addresses of the entries of a bundle, in order; 0 for one that has none.
AddressesOf(b) ==
  [n \in 1 .. b.count |->
     IF b.seg = Unused THEN 0
     ELSE LET e == b.entries[n] IN
          IF SegmentOf(b, e) \in 1 .. SegCount
            THEN Address(SegmentOf(b, e), e.off) ELSE 0]

\* The bundles of the table: up to the first one of no entries.
Bundles ==
  {n \in 1 .. Len(input.bundles) : \A m \in 1 .. n : input.bundles[m].count # 0}

\* The table as a list of addresses, the n-th being that of ordinal n.
Addresses ==
  FlattenSeq([n \in 1 .. Cardinality(Bundles) |-> AddressesOf(input.bundles[n])])

\* What the code relies on: the whole table is in the file, ends with a bundle
\* of no entries, and every ordinal has at least three bytes of it.
Regular ==
  /\ \A n \in Bundles :
       input.bundles[n].seg = Unused
         \/ Len(input.bundles[n].entries) >= input.bundles[n].count
  /\ Len(Addresses) <= MaxOrdinals(input)
  /\ Len(Addresses) < Words

\* What has been filed of such a table so far is a prefix of its addresses:
\* no ordinal is one off, and bundles of unused ordinals leave their gaps.
FiledInOrder ==
  Regular =>
    \A o \in DOMAIN data :
      data[o] = IF o <= ordinal /\ o <= Len(Addresses) THEN Addresses[o] ELSE 0

\* An export is the entry its ordinal names, at an address of a segment, and
\* it is a function exactly if that segment is executable;
\* nothing outside the allocation is ever looked at.
ExportsAreEntries ==
  Regular =>
    /\ \A x \in exports :
         /\ x.ordinal <= Len(Addresses)
         /\ x.addr = Addresses[x.ordinal]
         /\ x.addr # 0 /\ Mapped(x.addr)
    /\ touched \subseteq DOMAIN data
    /\ functions = {x.addr : x \in {y \in exports : Executable(y.addr)}}

\* The loops over bundles, entries and names end whatever the file says, and all
\* names of a file with entries are gone through.
Termination == <>(pc = "done" /\ (ordinal # 0 => line > Len(input.names)))
===============================================================================
