------------------------------- MODULE DexLoad --------------------------------
(***************************************************************************)
(* How an Android DEX file becomes an address space, and how the Dalvik    *)
(* processor finds its tables in it again.                                 *)
(*                                                                         *)
(* android/dex/dex.c parses the header, reads the file's map_list          *)
(* (android/dex/map.c) through the reader of the input, and maps one       *)
(* segment per entry.  Afterwards android/dalvik/dalvik.c re-reads the     *)
(* header and the map_list, this time through the reader of the mapped     *)
(* address space, where a byte that no segment shows cannot be read.       *)
(*                                                                         *)
(* The file is chosen once, in Init, among Files.                          *)
(***************************************************************************)
EXTENDS Naturals, Sequences

CONSTANTS
  Files,            \* the files the loader may be given
  MaxMapItems,      \* DEX_MAX_MAP_ITEMS
  Types,            \* the map item types that occur in the files
  CallSiteIds,      \* DEX_TYPE_CALL_SITE_ID_ITEM
  MethodHandles     \* DEX_TYPE_METHOD_HANDLE_ITEM

HeaderSize  == 112  \* the bytes dex_read_header reads, and DEX_HEADER_SIZE
CountSize   == 4    \* sizeof(u32)
MapItemSize == 12   \* DEX_MAP_ITEM_SIZE

MapItem == [type : Types, size : Nat, offset : Nat]

\* A file: its length, the header fields the code looks at, and what the
\* map_list at map_off holds.  "table" has an entry for every slot the code
\* may look at, also those that map_count leaves out.  "junk" is what any
\* other place of the file reads as.
File == [length      : Nat,
         version     : Nat,
         header_size : Nat,
         endian      : {"little", "reverse", "other"},
         file_size   : Nat,
         map_off     : Nat,
         map_count   : Nat,
         table       : [1 .. MaxMapItems -> MapItem],
         junk        : MapItem]

ASSUME MaxMapItemsAssumption == MaxMapItems \in Nat \ {0}
ASSUME FilesAssumption       == Files \subseteq File

VARIABLES
  file,      \* the input, never changed
  pc,        \* where the loader and the processor are
  caller,    \* on whose behalf dex_read_map runs: "loader" or "dalvik"
  reader,    \* per caller: the read position and the stack of saved positions
  map,       \* per caller: its DEXMap, the entries accepted so far
  segments,  \* what rd_map_segment_n and rd_map_input_n have mapped
  refused,   \* the extents rd_map_segment_n would not map
  mapIdx,    \* "i" of dex_map_segments
  dalvik     \* what dalvik_setup leaves in the processor's state

vars == <<file, pc, caller, reader, map, segments, refused, mapIdx, dalvik>>

Callers == {"loader", "dalvik"}

NoTable == [size |-> 0, offset |-> 0]

-------------------------------------------------------------------------------
(* The readers.                                                            *)

\* The input's reader reaches every byte of the file; the reader of the
\* address space only those a segment shows, at the file offset it shows.
Backing(who, a) ==
  IF who = "loader"
    THEN IF a < file.length THEN {a} ELSE {}
    ELSE {s.input + (a - s.base) :
            s \in {t \in segments : t.base <= a /\ a < t.base + t.size}}

CanRead(who, a, n) == \A b \in a .. a + n - 1 : Backing(who, b) # {}

Offset(who, a) == CHOOSE o \in Backing(who, a) : TRUE

\* What the slot number k of the table reads as, when read at address a.
ItemAt(who, a, k) ==
  IF Offset(who, a) = file.map_off + CountSize + MapItemSize * (k - 1)
    THEN file.table[k]
    ELSE file.junk

Saved(r, a)  == [pos |-> a, stack |-> Append(r.stack, r.pos)]

Restored(r)  == [pos   |-> r.stack[Len(r.stack)],
                 stack |-> SubSeq(r.stack, 1, Len(r.stack) - 1)]

-------------------------------------------------------------------------------
(* dex_parse: read and validate the header.                                *)

\* _dex_parse_version: version 036 was never shipped.
KnownVersion(v) == v \in {35, 37, 38, 39, 40}

\* Mutant of HeaderValid: the declared file_size is believed.
HeaderValid_AnySize ==
  /\ file.header_size = HeaderSize
  /\ file.endian = "little"
  /\ file.map_off = 0 \/ file.map_off < file.file_size

HeaderValid ==
  /\ file.header_size = HeaderSize
  /\ file.endian = "little"
  /\ file.file_size <= file.length
  /\ file.map_off = 0 \/ file.map_off < file.file_size

Parse ==
  /\ pc = "parse"
  /\ pc' = IF /\ CanRead("loader", 0, HeaderSize)
              /\ KnownVersion(file.version)
              /\ HeaderValid
             THEN "readmap"
             ELSE "rejected"
  /\ UNCHANGED <<file, caller, reader, map, segments, refused, mapIdx, dalvik>>

-------------------------------------------------------------------------------
(* dex_read_map, for either caller.                                        *)

\* Where a failing dex_read_map leaves its caller: dex_load gives up,
\* dalvik_setup goes on without the tables.
AfterFailure == IF caller = "loader" THEN "rejected" ELSE "done"

AfterSuccess == IF caller = "loader" THEN "segments" ELSE "tables"

\* map_off is zero: return before the reader is saved.
ReadMapAbsent ==
  /\ pc = "readmap"
  /\ map' = [map EXCEPT ![caller] = <<>>]
  /\ file.map_off = 0
  /\ pc' = AfterFailure
  /\ UNCHANGED <<file, caller, reader, segments, refused, mapIdx, dalvik>>

CountAcceptable ==
  /\ CanRead(caller, file.map_off, CountSize)
  /\ Offset(caller, file.map_off) = file.map_off
  /\ file.map_count # 0
  /\ file.map_count <= MaxMapItems
  /\ file.map_off + CountSize + MapItemSize * file.map_count <= file.file_size

\* Save the reader, seek to map_off, read the count.
ReadMapCount ==
  /\ pc = "readmap"
  /\ file.map_off # 0
  /\ map' = [map EXCEPT ![caller] = <<>>]
  /\ IF CountAcceptable
       THEN /\ pc' = "items"
            /\ reader' = [reader EXCEPT
                 ![caller] = Saved(@, file.map_off + CountSize)]
       ELSE /\ pc' = AfterFailure
            /\ reader' = [reader EXCEPT
                 ![caller] = Restored(Saved(@, file.map_off))]
  /\ UNCHANGED <<file, caller, segments, refused, mapIdx, dalvik>>

\* The next entry as it is read.
Entry == ItemAt(caller, reader[caller].pos, Len(map[caller]) + 1)

\* Mutants of EntryAcceptable: equal offsets pass; types may repeat.
EntryAcceptable_NotStrict(m, it) ==
  /\ it.offset < file.file_size
  /\ m # <<>> => it.offset >= m[Len(m)].offset
  /\ \A j \in 1 .. Len(m) : m[j].type # it.type

EntryAcceptable_NotSorted(m, it) ==
  /\ it.offset < file.file_size
  /\ \A j \in 1 .. Len(m) : m[j].type # it.type

EntryAcceptable(m, it) ==
  /\ it.offset < file.file_size
  /\ m # <<>> => it.offset > m[Len(m)].offset
  /\ \A j \in 1 .. Len(m) : m[j].type # it.type

\* Mutant of ReadMapItem: a failure keeps the entries read so far.
ReadMapItem_KeepsEntries ==
  LET m == map[caller] IN
  /\ pc = "items"
  /\ Len(m) < file.map_count
  /\ IF /\ CanRead(caller, reader[caller].pos, MapItemSize)
        /\ EntryAcceptable(m, Entry)
       THEN /\ map' = [map EXCEPT ![caller] = Append(m, Entry)]
            /\ reader' = [reader EXCEPT ![caller].pos = @ + MapItemSize]
            /\ pc' = pc
       ELSE /\ reader' = [reader EXCEPT ![caller] = Restored(@)]
            /\ pc' = AfterFailure
            /\ UNCHANGED map
  /\ UNCHANGED <<file, caller, segments, refused, mapIdx, dalvik>>

\* One turn of the loop, "fail" included.
ReadMapItem ==
  LET m == map[caller] IN
  /\ pc = "items"
  /\ Len(m) < file.map_count
  /\ IF /\ CanRead(caller, reader[caller].pos, MapItemSize)
        /\ EntryAcceptable(m, Entry)
       THEN /\ map' = [map EXCEPT ![caller] = Append(m, Entry)]
            /\ reader' = [reader EXCEPT ![caller].pos = @ + MapItemSize]
            /\ pc' = pc
       ELSE /\ map' = [map EXCEPT ![caller] = <<>>]
            /\ reader' = [reader EXCEPT ![caller] = Restored(@)]
            /\ pc' = AfterFailure
  /\ UNCHANGED <<file, caller, segments, refused, mapIdx, dalvik>>

ReadMapReturn ==
  /\ pc = "items"
  /\ Len(map[caller]) >= file.map_count
  /\ reader' = [reader EXCEPT ![caller] = Restored(@)]
  /\ pc' = AfterSuccess
  /\ UNCHANGED <<file, caller, map, segments, refused, mapIdx, dalvik>>

-------------------------------------------------------------------------------
(* dex_map_segments.                                                       *)

\* Mutant of ExtentEnd: the item count taken for a length.
ExtentEnd_ItemCount(m, i) == m[i].offset + m[i].size

ExtentEnd(m, i) == IF i < Len(m) THEN m[i + 1].offset ELSE file.file_size

\* Addresses are file offsets: the file is mapped one to one.
Extent(m, i) == [base  |-> m[i].offset,
                 size  |-> ExtentEnd(m, i) - m[i].offset,
                 input |-> m[i].offset]

\* The engine may refuse a segment; the code then goes on with the next.
MapSegment ==
  LET m == map["loader"] IN
  /\ pc = "segments"
  /\ mapIdx <= Len(m)
  /\ IF ExtentEnd(m, mapIdx) <= m[mapIdx].offset
       THEN UNCHANGED <<segments, refused>>
       ELSE \/ /\ segments' = segments \cup {Extent(m, mapIdx)}
               /\ UNCHANGED refused
            \/ /\ refused' = refused \cup {Extent(m, mapIdx)}
               /\ UNCHANGED segments
  /\ mapIdx' = mapIdx + 1
  /\ UNCHANGED <<file, pc, caller, reader, map, dalvik>>

\* dex_load goes on if one segment was mapped, and succeeds.
MapSegmentsReturn ==
  /\ pc = "segments"
  /\ mapIdx > Len(map["loader"])
  /\ pc' = IF segments # {} THEN "setup" ELSE "rejected"
  /\ UNCHANGED <<file, caller, reader, map, segments, refused, mapIdx, dalvik>>

-------------------------------------------------------------------------------
(* dalvik_setup.                                                           *)

\* The header is read again, from address zero of the address space, and
\* not validated again.
Setup ==
  /\ pc = "setup"
  /\ caller' = "dalvik"
  /\ LET valid == /\ CanRead("dalvik", 0, HeaderSize)
                  /\ Offset("dalvik", 0) = 0
                  /\ KnownVersion(file.version)
     IN  /\ dalvik' = [dalvik EXCEPT !.is_valid = valid]
         /\ pc' = IF valid THEN "readmap" ELSE "done"
         /\ reader' = [reader EXCEPT
              !["dalvik"].pos = IF valid THEN HeaderSize ELSE 0]
  /\ UNCHANGED <<file, map, segments, refused, mapIdx>>

Find(m, type) ==
  LET found == {i \in 1 .. Len(m) : m[i].type = type}
  IN  IF found = {}
        THEN NoTable
        ELSE LET i == CHOOSE i \in found : \A j \in found : i <= j
             IN  [size |-> m[i].size, offset |-> m[i].offset]

\* _dalvik_read_map keeps the two tables that only the map_list names.
KeepTables ==
  /\ pc = "tables"
  /\ dalvik' = [dalvik EXCEPT
       !.call_site_ids  = Find(map["dalvik"], CallSiteIds),
       !.method_handles = Find(map["dalvik"], MethodHandles)]
  /\ pc' = "done"
  /\ UNCHANGED <<file, caller, reader, map, segments, refused, mapIdx>>

-------------------------------------------------------------------------------

Init ==
  /\ file \in Files
  /\ pc = "parse"
  /\ caller = "loader"
  /\ reader = [c \in Callers |-> [pos |-> 0, stack |-> <<>>]]
  /\ map = [c \in Callers |-> <<>>]
  /\ segments = {}
  /\ refused = {}
  /\ mapIdx = 1
  /\ dalvik = [is_valid |-> FALSE,
               call_site_ids |-> NoTable, method_handles |-> NoTable]

Step ==
  \/ Parse
  \/ ReadMapAbsent
  \/ ReadMapCount
  \/ ReadMapItem
  \/ ReadMapReturn
  \/ MapSegment
  \/ MapSegmentsReturn
  \/ Setup
  \/ KeepTables

Terminating ==
  /\ pc \in {"done", "rejected"}
  /\ UNCHANGED vars

Next == Step \/ Terminating

Spec == Init /\ [][Next]_vars

-------------------------------------------------------------------------------
(* Properties.                                                             *)

Table == [size : Nat, offset : Nat]

\* The state has the shape the code gives it.
TypeOK ==
  /\ file \in Files
  /\ pc \in {"parse", "readmap", "items", "segments", "setup", "tables",
             "done", "rejected"}
  /\ caller \in Callers
  /\ reader \in [Callers -> [pos : Nat, stack : Seq(Nat)]]
  /\ map \in [Callers -> Seq(MapItem)]
  /\ segments \subseteq [base : Nat, size : Nat, input : Nat]
  /\ refused \subseteq [base : Nat, size : Nat, input : Nat]
  /\ mapIdx \in Nat \ {0}
  /\ dalvik \in [is_valid : BOOLEAN,
                 call_site_ids : Table, method_handles : Table]

\* A map is usable as extents: offsets strictly ascend inside the file, and a
\* type names at most one entry (dex_map_find answers with the first).
WellFormed(m) ==
  /\ \A i \in 1 .. Len(m) : m[i].offset < file.file_size
  /\ \A i, j \in 1 .. Len(m) :
       i < j => m[i].offset < m[j].offset /\ m[i].type # m[j].type

\* Whatever the file holds, every DEXMap a caller ever works with is
\* well formed (the checks of the loop of dex_read_map, over all entries).
MapWellFormed == \A c \in Callers : WellFormed(map[c])

End(s) == s.base + s.size

\* The address space never shows two segments at one address, never ends
\* beyond the file, and shows each byte of the file at its own offset
\* ("addresses are file offsets: the whole DEX is mapped 1:1").
SegmentsOneToOne ==
  /\ \A s \in segments : s.size > 0 /\ s.input = s.base /\ End(s) <= file.length
  /\ \A s, t \in segments : s # t => End(s) <= t.base \/ End(t) <= s.base

Covers(S, a) == \E s \in S : s.base <= a /\ a < End(s)

\* Once dex_map_segments is through, no byte from the first entry to
\* file_size is unaccounted for: a segment shows it, or the engine refused
\* the very segment that would have ("leaves the address space gap-free").
GapFree ==
  (\/ pc \in {"setup", "tables"}
   \/ caller = "dalvik") =>
    \A a \in map["loader"][1].offset .. file.file_size - 1 :
      Covers(segments \cup refused, a)

\* The processor never works with a table the loader did not map: its map is
\* empty or the loader's, and so are the tables it keeps.
TablesAreTheLoaders ==
  pc = "done" =>
    /\ map["dalvik"] \in {<<>>, map["loader"]}
    /\ dalvik.call_site_ids = Find(map["dalvik"], CallSiteIds)
    /\ dalvik.method_handles = Find(map["dalvik"], MethodHandles)

\* If the whole file is mapped, from a header at offset zero, the processor
\* is valid and reads the very map the loader read.
ProcessorFindsTheMap ==
  /\ pc = "done"
  /\ refused = {}
  /\ map["loader"][1].offset = 0
  /\ file.file_size >= HeaderSize
  => dalvik.is_valid /\ map["dalvik"] = map["loader"]

\* "bytes before it will be unmapped": when the first entry leaves out the
\* header, the file loads but the processor stays invalid for good.
UnmappedHeaderIsInvalid ==
  pc = "done" /\ map["loader"][1].offset # 0 => ~dalvik.is_valid

\* The loader builds an address space as every loader promises to.
Space == INSTANCE AddressSpace WITH
  limit  <- file.length,
  status <- IF pc = "rejected" THEN "rejected"
            ELSE IF caller = "dalvik" \/ pc = "setup" THEN "loaded"
            ELSE "loading"

AddressSpaceSpec == Space!Spec

===============================================================================
