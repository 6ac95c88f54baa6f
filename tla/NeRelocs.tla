------------------------------- MODULE NeRelocs -------------------------------
(***************************************************************************)
(* Loading a 16 bit New Executable: mz/ne maps every segment into a slot   *)
(* of its own in a flat space, gives every imported module a slot behind   *)
(* them, and walks the relocation table of each segment.                   *)
(*                                                                         *)
(* A relocation record is eight bytes.  A record that imports by name      *)
(* makes the code seek away, into the imported names table, so where the   *)
(* reader stands when the next record is read is part of the state.        *)
(*                                                                         *)
(* The entry table and the exports, done before the imports, are the       *)
(* module NeEntries.                                                       *)
(***************************************************************************)
EXTENDS Naturals, Sequences

CONSTANTS
  Inputs,       \* the files the loader may be given
  Slot,         \* NE_SEG_SLOT, which is also the number of u16 values
  Paragraph,    \* bytes of a real mode paragraph, 16
  Offsets,      \* offsets into the imported names table that occur
  Modules,      \* module names that occur
  Symbols,      \* symbol names that occur, in the file or for an ordinal
  Ordinals,     \* import ordinals that occur
  OrdinalName,  \* mz_win16_ordinal_lookup, or "%u" of the ordinal
  MaxJunkCount, \* bound: the count read from a place that is not a table
  Eof,          \* a name that runs off the file
  Empty,        \* a name of length 0
  NoName        \* the NULL name of a module

ASSUME SlotAssumption ==
  /\ Slot \in Nat \ {0} /\ Slot % 2 = 0
  /\ Paragraph \in Nat \ {0} /\ Slot % Paragraph = 0

SrcTypes == {"lobyte", "selector", "farptr", "offset", "other"}

Word == 0 .. Slot - 1           \* u16

Record ==
  [target : {"internal"}, src : SrcTypes, site : Word, additive : BOOLEAN,
   seg : Nat, off : Word] \cup
  [target : {"ordinal"}, src : SrcTypes, site : Word, mod : Nat,
   ordinal : Ordinals] \cup
  [target : {"name"}, src : SrcTypes, site : Word, mod : Nat, name : Offsets]
  \cup
  [target : {"other"}, src : SrcTypes, site : Word]

\* What a file can say: tables of any length, that may lie about their counts.
ASSUME InputsAssumption ==
  \A f \in Inputs :
    /\ f.segs \in Seq([sector : Nat, bytes : Nat, alloc : Nat, relocs : BOOLEAN,
                      count : Nat, table : Seq(Record)])
    /\ f.mods \in Seq(Modules \cup {Eof, Empty})
    /\ f.records \subseteq Record

VARIABLES
  input,     \* the file, never changed
  pc,        \* "segments", "imports", "relocs", "records", "entry", then the
             \* outcome, "loaded" or "rejected"
  seg,       \* the segment (or, in "imports", the module) at hand, 1-based
  i,         \* "i" of the loop over relocation records
  count,     \* "reloc_count"
  reader,    \* the record the reader stands at, 1-based; Astray elsewhere
  segments,  \* the segments mapped: [base, size, sector, bytes]
  next_off,  \* per module reference: NEImport.next_off
  named,     \* the names of import slots: rd_library_name, rd_get_address
  fixups,    \* what was patched, and the cross reference added with it
  entry,     \* what rd_set_entry_point, rd_library_sregval were told
  seen       \* history: <<segment, iteration, record>> for each record handled

vars == <<input, pc, seg, i, count, reader, segments, next_off, named, fixups,
          entry, seen>>

Astray == 0

SegCount == Len(input.segs)

IsSegment(s) == s \in 1 .. SegCount

\* ne_seg_address
SegAddress(s, off) == s * Slot + off

-------------------------------------------------------------------------------
(* ne_load_segments.                                                       *)

SixtyFourK(n) == IF n = 0 THEN Slot ELSE n

\* One turn: a segment without file data is mapped but has no input.
LoadSegment ==
  /\ pc = "segments"
  /\ seg <= SegCount
  /\ IF seg > input.readable
       THEN pc' = "rejected" /\ UNCHANGED <<seg, segments>>
       ELSE /\ segments' = segments \cup
                 {[base   |-> SegAddress(seg, 0),
                   size   |-> SixtyFourK(input.segs[seg].alloc),
                   sector |-> input.segs[seg].sector,
                   bytes  |-> IF input.segs[seg].sector = 0 THEN 0
                              ELSE SixtyFourK(input.segs[seg].bytes)]}
            /\ seg' = seg + 1
            /\ UNCHANGED pc
  /\ UNCHANGED <<input, i, count, reader, next_off, named, fixups,
                 entry, seen>>

-------------------------------------------------------------------------------
(* ne_moduleslice_create and ne_moduleslice_build_imports.                 *)

\* The name of a module reference: none from the first unreadable entry of
\* the table on, none where the name itself is empty or truncated.
ModuleName(m) ==
  IF (\E j \in 1 .. m : input.mods[j] = Eof) \/ input.mods[m] = Empty
    THEN NoName
    ELSE input.mods[m]

ModuleSlot(m) == SegCount + m

BuildImport ==
  /\ pc = "imports"
  /\ seg <= Len(input.mods)
  /\ next_off' = [next_off EXCEPT ![seg] = 0]
  /\ segments' = segments \cup
       {[base |-> SegAddress(ModuleSlot(seg), 0), size |-> Slot,
         sector |-> 0, bytes |-> 0]}
  /\ seg' = seg + 1
  /\ UNCHANGED <<input, pc, i, count, reader, named, fixups,
                 entry, seen>>

\* mutant: next_off never moves on
Resolve_NoAdvance(m, name) ==
  IF name \in DOMAIN named
    THEN [addr |-> named[name], next |-> next_off[m], named |-> named]
    ELSE LET addr == SegAddress(ModuleSlot(m), next_off[m])
         IN  [addr  |-> addr, next  |-> next_off[m],
              named |-> [n \in DOMAIN named \cup {name} |->
                           IF n = name THEN addr ELSE named[n]]]

\* What ne_moduleslice_resolve_import answers and leaves behind.
Resolve(m, name) ==
  LET off == next_off[m] IN
  CASE name \in DOMAIN named ->
         [addr |-> named[name], next |-> off, named |-> named]
    [] name \notin DOMAIN named /\ off + 2 > Slot ->
         [addr |-> 0, next |-> off, named |-> named]
    [] OTHER ->
         LET addr == SegAddress(ModuleSlot(m), off)
         IN  [addr  |-> addr,
              next  |-> (off + 2) % Slot,
              named |-> [n \in DOMAIN named \cup {name} |->
                           IF n = name THEN addr ELSE named[n]]]

-------------------------------------------------------------------------------
(* The loop of ne_load over the segments.                                  *)

NextPhase(from, to, last) ==
  /\ pc = from
  /\ seg > last
  /\ pc' = to
  /\ seg' = 1
  /\ UNCHANGED <<input, i, count, reader, segments, next_off, named, fixups,
                 entry, seen>>

SegmentsLoaded ==
  /\ SegCount # 0
  /\ NextPhase("segments", "imports", SegCount)

NoSegments ==
  /\ pc = "segments"
  /\ SegCount = 0
  /\ pc' = "rejected"
  /\ UNCHANGED <<input, seg, i, count, reader, segments, next_off, named, fixups,
                 entry, seen>>

ImportsBuilt == NextPhase("imports", "relocs", Len(input.mods))

RelocsLoaded == NextPhase("relocs", "entry", SegCount)

HasRelocs(s) == input.segs[s].sector # 0 /\ input.segs[s].relocs

\* No file data, or no relocations: on to the next segment.
SkipSegment ==
  /\ pc = "relocs"
  /\ seg <= SegCount
  /\ ~HasRelocs(seg)
  /\ seg' = seg + 1
  /\ UNCHANGED <<input, pc, i, count, reader, segments, next_off, named, fixups,
                 entry, seen>>

\* What the reader finds where the code looks for the table of segment s,
\* "file_off + seg_bytes" with the bytes as they are in the file.
TableThere(s) == SixtyFourK(input.segs[s].bytes) = input.segs[s].bytes

\* Read the count.  Where there is no table it is any word, or unreadable.
BeginRelocs ==
  /\ pc = "relocs"
  /\ seg <= SegCount
  /\ HasRelocs(seg)
  /\ \E c \in IF TableThere(seg) THEN {input.segs[seg].count}
              ELSE 0 .. MaxJunkCount :
       count' = c
  /\ reader' = IF TableThere(seg) THEN 1 ELSE Astray
  /\ i' = 0
  /\ pc' = "records"
  /\ UNCHANGED <<input, seg, segments, next_off, named, fixups,
                 entry, seen>>

-------------------------------------------------------------------------------
(* The loop of ne_load_relocs over the records.                            *)

\* The records the reader may deliver from where it stands: the one of the
\* table, or, away from the table, any.
Delivered ==
  IF reader = Astray THEN input.records
  ELSE IF reader <= Len(input.segs[seg].table)
    THEN {input.segs[seg].table[reader]}
    ELSE {}

\* Where the reader stands once eight bytes are read.
AfterRead == IF reader = Astray THEN Astray ELSE reader + 1

NextRecord_Same == IF TableThere(seg) THEN i + 1 ELSE Astray  \* mutant: i * 8U

\* rd_reader_seek(r, reloc_off + 2 + ((i + 1) * 8U)): back to the table, if
\* reloc_off is where the table is.
NextRecord == IF TableThere(seg) THEN i + 2 ELSE Astray

Site(rec) == SegAddress(seg, rec.site)

Advance(r) ==
  /\ i' = i + 1
  /\ reader' = r
  /\ UNCHANGED <<input, pc, seg, count, segments, entry>>

Handled(rec) == seen' = seen \cup {<<seg, i, rec>>}

\* The two calls that apply a relocation: _ne_patch_reloc and the cross
\* reference.
Fixup(rec, tseg, toff, to) ==
  fixups' = fixups \cup
    {[rec |-> rec, site |-> Site(rec), seg |-> tseg, off |-> toff, to |-> to]}

InternalRef(rec) ==
  /\ rec.target = "internal"
  /\ Handled(rec)
  /\ IF IsSegment(rec.seg)
       THEN \E current \in IF rec.additive THEN Word ELSE {0} :
              LET off == (rec.off + current) % Slot
              IN  Fixup(rec, rec.seg, off, SegAddress(rec.seg, off))
       ELSE UNCHANGED fixups
  /\ Advance(IF IsSegment(rec.seg) THEN NextRecord ELSE AfterRead)
  /\ UNCHANGED <<next_off, named>>

ImportSeg_ZeroBased(m) == SegCount + m - 1          \* mutant

\* "import_name" and "imp_seg".
ImportName(m, sym) == <<ModuleName(m), sym>>

ImportSeg(m) == SegCount + m

\* An import slot is found or made, patched and referenced.
ApplyImport(rec, sym) ==
  LET res == Resolve(rec.mod, ImportName(rec.mod, sym)) IN
  /\ next_off' = [next_off EXCEPT ![rec.mod] = res.next]
  /\ named' = res.named
  /\ IF res.addr = 0
       THEN UNCHANGED fixups
       ELSE Fixup(rec, ImportSeg(rec.mod), res.addr % Slot, res.addr)

KnownModule(m) == m \in 1 .. Len(input.mods) /\ ModuleName(m) # NoName

ImportByOrdinal(rec) ==
  /\ rec.target = "ordinal"
  /\ Handled(rec)
  /\ IF KnownModule(rec.mod)
       THEN ApplyImport(rec, OrdinalName[rec.ordinal])
       ELSE UNCHANGED <<next_off, named, fixups>>
  /\ Advance(AfterRead)

\* An import by name seeks to the name.  Only the path that applies the
\* relocation seeks back; the early breaks leave the reader in the names.
ImportByName(rec) ==
  /\ rec.target = "name"
  /\ Handled(rec)
  /\ input.names[rec.name] # Eof \/ ~KnownModule(rec.mod)
  /\ IF ~KnownModule(rec.mod)
       THEN UNCHANGED <<next_off, named, fixups>> /\ Advance(AfterRead)
       ELSE IF input.names[rec.name] = Empty
         THEN UNCHANGED <<next_off, named, fixups>> /\ Advance(Astray)
         ELSE /\ ApplyImport(rec, input.names[rec.name])
              /\ Advance(IF Resolve(rec.mod, ImportName(rec.mod,
                                           input.names[rec.name])).addr = 0
                           THEN Astray ELSE NextRecord)

OtherReloc(rec) ==
  /\ rec.target = "other"
  /\ Handled(rec)
  /\ Advance(AfterRead)
  /\ UNCHANGED <<next_off, named, fixups>>

HandleRecord ==
  /\ pc = "records"
  /\ i < count
  /\ \E rec \in Delivered :
       \/ InternalRef(rec)
       \/ ImportByOrdinal(rec)
       \/ ImportByName(rec)
       \/ OtherReloc(rec)

\* mutant: the last record is left out
EndRelocs_OneShort ==
  /\ pc = "records"
  /\ i + 1 >= count \/ reader = Astray \/ Delivered = {}
  /\ pc' = "relocs"
  /\ seg' = seg + 1
  /\ UNCHANGED <<input, i, count, reader, segments, next_off, named, fixups,
                 entry, seen>>

\* The walk of this table is over: all records are done, or the reader has
\* run off the file (in the table, in the names, or where there was none).
EndRelocs ==
  /\ pc = "records"
  /\ \/ i >= count
     \/ reader = Astray
     \/ Delivered = {}
     \/ \E rec \in Delivered : /\ rec.target = "name"
                               /\ KnownModule(rec.mod)
                               /\ input.names[rec.name] = Eof
  /\ pc' = "relocs"
  /\ seg' = seg + 1
  /\ UNCHANGED <<input, i, count, reader, segments, next_off, named, fixups,
                 entry, seen>>

-------------------------------------------------------------------------------
(* _ne_set_entry_point.                                                    *)

\* What a segment register is seeded with: the paragraph of the slot.
ParagraphOf(s) == SegAddress(s, 0) \div Paragraph

\* The registers, each of a segment named by a field of the header.
SegmentRegs ==
  {<<"cs", input.cs>>} \cup
  {r \in {<<"ss", input.ss>>, <<"ds", input.ds>>, <<"es", input.ds>>} :
     IsSegment(r[2])}

SetEntryPoint ==
  /\ pc = "entry"
  /\ entry' = IF IsSegment(input.cs)
                THEN {[at   |-> SegAddress(input.cs, input.ip),
                       regs |-> {<<r[1], ParagraphOf(r[2])>> : r \in SegmentRegs}]}
                ELSE {}
  /\ pc' = "loaded"
  /\ UNCHANGED <<input, seg, i, count, reader, segments, next_off, named, fixups,
                 seen>>

-------------------------------------------------------------------------------

Init ==
  /\ input \in Inputs
  /\ pc = "segments"
  /\ seg = 1
  /\ i = 0
  /\ count = 0
  /\ reader = Astray
  /\ segments = {}
  /\ next_off = [m \in 1 .. Len(input.mods) |-> 0]
  /\ named = <<>>
  /\ fixups = {}
  /\ entry = {}
  /\ seen = {}

Step ==
  \/ LoadSegment
  \/ SegmentsLoaded
  \/ NoSegments
  \/ BuildImport
  \/ ImportsBuilt
  \/ SkipSegment
  \/ BeginRelocs
  \/ HandleRecord
  \/ EndRelocs
  \/ RelocsLoaded
  \/ SetEntryPoint

Terminating ==
  /\ pc \in {"loaded", "rejected"}
  /\ UNCHANGED vars

Next == Step \/ Terminating

Spec == Init /\ [][Next]_vars

-------------------------------------------------------------------------------
(* Correctness.                                                            *)

Import == (Modules \cup {NoName}) \X Symbols

Outcomes == {"loaded", "rejected"}

\* What the code relies on: a table in the file, that is not behind a segment
\* of 64KB, and whose records name their imports.
Intact(s) ==
  /\ HasRelocs(s)
  /\ TableThere(s)
  /\ input.segs[s].count <= Len(input.segs[s].table)
  /\ \A n \in 1 .. input.segs[s].count :
       LET rec == input.segs[s].table[n] IN
       rec.target = "name" /\ KnownModule(rec.mod) =>
         input.names[rec.name] \notin {Eof, Empty}

\* Seeking away for a name and back loses no record of such a table, repeats
\* none and takes none for another; once the loader is past it, all are done.
IntactTablesWalked ==
  \A s \in 1 .. SegCount :
    Intact(s) =>
      /\ \A h \in seen : h[1] = s => h[3] = input.segs[s].table[h[2] + 1]
      /\ pc \in {"entry", "loaded"} =>
           {h[2] : h \in {g \in seen : g[1] = s}} = 0 .. input.segs[s].count - 1

\* Two imported symbols never share an address ("Each symbol gets a unique
\* address").
ImportsUnique ==
  \A a, b \in DOMAIN named : named[a] = named[b] => a = b

\* Where a patched site points is what its cross reference says: "import slot
\* is in segment (SegCount + mod_idx), offset within that slot is import_addr
\* & 0xFFFF".
PatchMatchesXref == \A f \in fixups : f.to = SegAddress(f.seg, f.off)

\* The symbol a record asks for.
Asked(rec) ==
  IF rec.target = "ordinal"
    THEN ImportName(rec.mod, OrdinalName[rec.ordinal])
    ELSE ImportName(rec.mod, input.names[rec.name])

ImportRecord(rec) == rec.target \in {"ordinal", "name"} /\ KnownModule(rec.mod)

\* Every import record of such a table ends up as a call site that refers to
\* the one address that carries the symbol's name, inside a segment mapped for
\* imports, and names stay where they are while others are added.
ImportsBound ==
  \A s \in 1 .. SegCount :
    Intact(s) /\ pc \in {"entry", "loaded"} =>
      \A n \in 1 .. input.segs[s].count :
        LET rec == input.segs[s].table[n] IN
        ImportRecord(rec) =>
          \E f \in fixups :
            /\ f.rec = rec
            /\ f.site = SegAddress(s, rec.site)
            /\ Asked(rec) \in DOMAIN named
            /\ f.to = named[Asked(rec)]
            /\ \E t \in segments :
                 t.base > SegAddress(SegCount, 0) /\ f.to - t.base \in 0 .. t.size - 2


===============================================================================
