------------------------------ MODULE DexProofs -------------------------------
(***************************************************************************)
(* Theorems about DexLoad, for every set of files, and about DalvikCode,   *)
(* for every set of methods.                                               *)
(*                                                                         *)
(* None of the properties of DexLoad is inductive: SegmentsOneToOne, say,  *)
(* needs to know that every segment is the extent of an entry already      *)
(* passed, and that the entries ascend.  IInv gathers what each phase      *)
(* leaves behind for the next; the theorems follow from it.                *)
(*                                                                         *)
(* Those of DalvikCode rest on what a number is that is written in nibbles *)
(* (from WordIs on), on where each format has its fields (Layouts), format *)
(* by format on the operands being the arguments (OperandsAreArguments),   *)
(* and on an invariant of the engine: it has decoded what is there         *)
(* (CodeInv) and goes on where execution can (FollowInv).                  *)
(***************************************************************************)
EXTENDS DexLoad, DalvikCode, SequenceTheorems, NaturalsInduction,
        WellFoundedInduction, TLAPS

LMap == map["loader"]

\* Which phases run on whose behalf, and what has not happened yet in them.
Phases ==
  /\ pc \in {"parse", "segments", "setup", "rejected"} => caller = "loader"
  /\ pc \in {"tables", "done"} => caller = "dalvik"
  /\ caller = "loader" => map["dalvik"] = <<>>
  /\ caller = "loader" /\ pc \in {"parse", "readmap", "items"} =>
       segments = {} /\ refused = {} /\ mapIdx = 1
  /\ pc = "rejected" => segments = {}
  /\ pc \notin {"parse", "rejected"} => file.file_size <= file.length

\* The loop of dex_read_map: the reader stands behind the last entry read.
Reading ==
  /\ pc = "items" =>
       /\ file.map_count \in 1 .. MaxMapItems
       /\ Len(map[caller]) <= file.map_count
       /\ reader[caller].pos =
            file.map_off + CountSize + MapItemSize * Len(map[caller])
       /\ Len(reader[caller].stack) = 1
  /\ \A c \in Callers : (pc = "items" /\ c = caller) \/ reader[c].stack = <<>>

\* Every entry accepted is the entry of the file, for either caller.
FromTable ==
  \A c \in Callers : \A k \in 1 .. Len(map[c]) :
    k \in 1 .. MaxMapItems /\ map[c][k] = file.table[k]

\* The loader's map has been read, whole.
LoaderDone == pc \in {"segments", "setup"} \/ caller = "dalvik"

Complete ==
  /\ LoaderDone => Len(LMap) = file.map_count /\ file.map_count # 0
  /\ pc = "tables" => Len(map["dalvik"]) = file.map_count
  /\ pc = "done" => Len(map["dalvik"]) \in {0, file.map_count}

Kept ==
  /\ pc # "done" => /\ dalvik.call_site_ids = NoTable
                    /\ dalvik.method_handles = NoTable
  /\ pc = "done" =>
       /\ dalvik.call_site_ids = Find(map["dalvik"], CallSiteIds)
       /\ dalvik.method_handles = Find(map["dalvik"], MethodHandles)

\* Where the extent of entry i starts, for the entry behind the last as well.
Start(m, i) == IF i <= Len(m) THEN m[i].offset ELSE file.file_size

Mapped ==
  /\ \A s \in segments : \E k \in 1 .. Len(LMap) : s = Extent(LMap, k)
  /\ LoaderDone => mapIdx \in 1 .. Len(LMap) + 1
  /\ pc = "setup" \/ caller = "dalvik" => mapIdx = Len(LMap) + 1
  /\ LoaderDone => \A a \in LMap[1].offset .. Start(LMap, mapIdx) - 1 :
                     Covers(segments \cup refused, a)

IInv == TypeOK /\ Phases /\ Reading /\ FromTable /\ Complete /\ Kept
          /\ MapWellFormed /\ Mapped

-------------------------------------------------------------------------------
(* Facts about the definitions.                                            *)

\* What the assumption on Files says of the file at hand.
LEMMA FileFields ==
  ASSUME file \in Files
  PROVE  /\ file.length \in Nat /\ file.file_size \in Nat
         /\ file.map_off \in Nat /\ file.map_count \in Nat
         /\ file.table \in [1 .. MaxMapItems -> MapItem]
         /\ file.junk \in MapItem
  BY FilesAssumption DEF File

\* An entry read into a slot of the table has the shape of an entry.
LEMMA ItemAtType ==
  ASSUME file \in Files, NEW who, NEW a, NEW k \in 1 .. MaxMapItems
  PROVE  ItemAt(who, a, k) \in MapItem
  BY FileFields DEF ItemAt

\* A reader shows the byte of the file that has the address as its offset:
\* the input does, and the address space does while it maps one to one.
LEMMA OffsetIsAddress ==
  ASSUME NEW who \in Callers, NEW a \in Nat, Backing(who, a) # {},
         \A s \in segments : s.base \in Nat /\ s.input = s.base
  PROVE  Offset(who, a) = a
<1>1. \A o \in Backing(who, a) : o = a
  BY DEF Backing
<1>2. Offset(who, a) \in Backing(who, a)
  BY DEF Offset
<1> QED
  BY <1>1, <1>2

\* Appending an acceptable entry keeps a map well formed.
LEMMA AppendWellFormed ==
  ASSUME file \in Files, NEW m \in Seq(MapItem), NEW it \in MapItem,
         WellFormed(m), EntryAcceptable(m, it)
  PROVE  WellFormed(Append(m, it))
<1> DEFINE n == Append(m, it)
<1>1. /\ Len(n) = Len(m) + 1 /\ Len(m) \in Nat
      /\ \A i \in 1 .. Len(m) : n[i] = m[i] /\ m[i] \in MapItem
      /\ n[Len(m) + 1] = it
  OBVIOUS
<1>2. \A i \in 1 .. Len(m) : m[i].offset < it.offset
  <2> SUFFICES ASSUME NEW i \in 1 .. Len(m)
               PROVE  m[i].offset < it.offset
    OBVIOUS
  <2>1. m[Len(m)].offset < it.offset
    BY <1>1 DEF EntryAcceptable, MapItem
  <2>2. CASE i = Len(m)
    BY <2>1, <2>2
  <2>3. CASE i < Len(m)
    <3>1. Len(m) \in 1 .. Len(m)
      BY <1>1
    <3>2. m[i].offset < m[Len(m)].offset
      BY <2>3, <3>1 DEF WellFormed
    <3> QED
      BY <1>1, <2>1, <3>1, <3>2 DEF MapItem
  <2> QED
    BY <2>2, <2>3, <1>1
<1>3. \A i \in 1 .. Len(n) : n[i].offset < file.file_size
  BY <1>1 DEF WellFormed, EntryAcceptable
<1>4. ASSUME NEW i \in 1 .. Len(n), NEW j \in 1 .. Len(n), i < j
      PROVE  n[i].offset < n[j].offset /\ n[i].type # n[j].type
  <2>1. CASE j \in 1 .. Len(m)
    BY <1>1, <1>4, <2>1 DEF WellFormed
  <2>2. CASE j = Len(m) + 1
    BY <1>1, <1>2, <1>4, <2>2 DEF EntryAcceptable
  <2> QED
    BY <1>1, <2>1, <2>2
<1> QED
  BY <1>3, <1>4 DEF WellFormed

-------------------------------------------------------------------------------
(* IInv is inductive: one lemma per action.                                *)

\* Every segment shows the bytes that have its addresses as their offsets.
LEMMA OneToOne ==
  ASSUME TypeOK, Mapped
  PROVE  \A s \in segments : s.base \in Nat /\ s.input = s.base
<1>1. \A s \in segments : s.base \in Nat
  BY DEF TypeOK
<1>2. \A s \in segments : s.input = s.base
  BY DEF Mapped, Extent
<1> QED
  BY <1>1, <1>2

\* What has been mapped stays accounted for in a step that leaves the
\* loader's map, the segments and the loop counter alone.
LEMMA MappedKept ==
  ASSUME Mapped, UNCHANGED <<file, segments, refused, mapIdx>>,
         map'["loader"] = map["loader"],
         LoaderDone' => LoaderDone,
         (pc = "setup" \/ caller = "dalvik")' => pc = "setup" \/ caller = "dalvik"
  PROVE  Mapped'
<1>1. LMap' = LMap
  BY DEF LMap
<1>2. \A k : Extent(LMap, k)' = Extent(LMap, k) /\ Start(LMap, k)' = Start(LMap, k)
  BY <1>1 DEF Extent, ExtentEnd, Start
<1>3. (\A s \in segments : \E k \in 1 .. Len(LMap) : s = Extent(LMap, k))'
  BY <1>1, <1>2 DEF Mapped
<1>4. (LoaderDone => mapIdx \in 1 .. Len(LMap) + 1)'
  BY <1>1 DEF Mapped
<1>5. (pc = "setup" \/ caller = "dalvik" => mapIdx = Len(LMap) + 1)'
  BY <1>1 DEF Mapped
<1>6. (LoaderDone => \A a \in LMap[1].offset .. Start(LMap, mapIdx) - 1 :
                       Covers(segments \cup refused, a))'
  BY <1>1, <1>2 DEF Mapped, Covers, End, Start
<1> QED
  BY <1>3, <1>4, <1>5, <1>6 DEF Mapped

\* The loader starts with no map, no segment and both readers at rest.
LEMMA InitIInv == Init => IInv
<1> SUFFICES ASSUME Init
             PROVE  IInv
  OBVIOUS
<1>1. TypeOK
  BY DEF Init, TypeOK, Callers, NoTable, Table
<1>2. Phases /\ Reading /\ Complete /\ Kept
  BY DEF Init, Phases, Reading, Complete, Kept, LoaderDone, Callers
<1>3. FromTable /\ MapWellFormed /\ Mapped
  BY DEF Init, FromTable, MapWellFormed, WellFormed, Mapped, LoaderDone, Callers
<1> QED
  BY <1>1, <1>2, <1>3 DEF IInv

\* dex_parse lets only a file through whose file_size the input holds.
LEMMA ParseIInv == IInv /\ Parse => IInv'
<1> SUFFICES ASSUME IInv, Parse
             PROVE  IInv'
  OBVIOUS
<1> USE DEF IInv, Parse
<1>1. TypeOK'
  BY DEF TypeOK
<1>2. (Phases /\ Reading /\ Complete /\ Kept)'
  BY DEF Phases, Reading, Complete, Kept, LoaderDone, HeaderValid, LMap
<1>3. (FromTable /\ MapWellFormed)'
  BY DEF FromTable, MapWellFormed, WellFormed
<1>4. Mapped'
  BY DEF Mapped, Phases, LoaderDone
<1> QED
  BY <1>1, <1>2, <1>3, <1>4

\* A map_off of zero returns before the reader is saved.
LEMMA ReadMapAbsentIInv == IInv /\ ReadMapAbsent => IInv'
<1> SUFFICES ASSUME IInv, ReadMapAbsent
             PROVE  IInv'
  OBVIOUS
<1> USE DEF IInv, ReadMapAbsent, AfterFailure
<1>1. TypeOK'
  BY DEF TypeOK, Callers
<1>2. (Phases /\ Reading /\ Complete)'
  BY DEF TypeOK, Phases, Reading, Complete, LoaderDone, LMap, Callers
<1>3. Kept'
  BY DEF TypeOK, Kept, Callers, Phases, Find
<1>4. (FromTable /\ MapWellFormed)'
  BY DEF TypeOK, FromTable, MapWellFormed, WellFormed, Callers
<1>5. Mapped'
  <2>1. CASE caller = "loader"
    BY <2>1 DEF Mapped, Phases, LoaderDone
  <2>2. CASE caller = "dalvik"
    BY <2>2, MappedKept DEF TypeOK, Callers, LoaderDone
  <2> QED
    BY <2>1, <2>2 DEF TypeOK, Callers
<1> QED
  BY <1>1, <1>2, <1>3, <1>4, <1>5

\* An acceptable count puts the reader at the first entry, with one position
\* saved; any other is undone.
LEMMA ReadMapCountIInv == IInv /\ ReadMapCount => IInv'
<1> SUFFICES ASSUME IInv, ReadMapCount
             PROVE  IInv'
  OBVIOUS
<1> USE DEF IInv, ReadMapCount, AfterFailure
<1>0. file.map_off \in Nat /\ file.map_count \in Nat
  BY FileFields DEF TypeOK
<1>1. Restored(Saved(reader[caller], file.map_off)) = reader[caller]
  BY <1>0 DEF TypeOK, Callers, Restored, Saved, Reading
<1>2. TypeOK'
  <2>1. Saved(reader[caller], file.map_off + CountSize)
          \in [pos : Nat, stack : Seq(Nat)]
    BY <1>0 DEF TypeOK, Saved, CountSize
  <2>2. reader' \in [Callers -> [pos : Nat, stack : Seq(Nat)]]
    BY <1>1, <2>1 DEF TypeOK
  <2>3. map' \in [Callers -> Seq(MapItem)]
    BY DEF TypeOK
  <2> QED
    BY <2>2, <2>3 DEF TypeOK
<1>3. (Phases /\ Complete)'
  BY <1>0 DEF TypeOK, Phases, Complete, LoaderDone, LMap, Callers
<1>4. Reading'
  <2>1. CASE CountAcceptable
    <3>1. reader' = [reader EXCEPT
            ![caller] = Saved(reader[caller], file.map_off + CountSize)]
      BY <2>1
    <3>2. /\ Saved(reader[caller], file.map_off + CountSize).pos
               = file.map_off + CountSize
          /\ Len(Saved(reader[caller], file.map_off + CountSize).stack) = 1
      BY DEF Saved, Reading, TypeOK
    <3>3. file.map_count \in 1 .. MaxMapItems
      BY <1>0, <2>1, MaxMapItemsAssumption DEF CountAcceptable
    <3>4. pc' = "items" /\ map'[caller] = <<>> /\ caller' = caller /\ file' = file
      BY <2>1 DEF TypeOK
    <3> QED
      BY <1>0, <3>1, <3>2, <3>3, <3>4
      DEF TypeOK, Reading, CountSize, MapItemSize
  <2>2. CASE ~CountAcceptable
    BY <1>1, <2>2 DEF TypeOK, Reading
  <2> QED
    BY <2>1, <2>2
<1>5. Kept'
  BY DEF TypeOK, Kept, Callers, Phases, Find
<1>6. (FromTable /\ MapWellFormed)'
  <2>1. ASSUME NEW c \in Callers
        PROVE  map'[c] = map[c] \/ map'[c] = <<>>
    BY DEF TypeOK
  <2>2. FromTable'
    BY <1>0, <2>1 DEF FromTable
  <2>3. MapWellFormed'
    BY <1>0, <2>1 DEF MapWellFormed, WellFormed
  <2> QED
    BY <2>2, <2>3
<1>7. Mapped'
  <2>1. CASE caller = "loader"
    BY <2>1 DEF Mapped, Phases, LoaderDone
  <2>2. CASE caller = "dalvik"
    BY <2>2, MappedKept DEF TypeOK, Callers, LoaderDone
  <2> QED
    BY <2>1, <2>2 DEF TypeOK, Callers
<1> QED
  BY <1>2, <1>3, <1>4, <1>5, <1>6, <1>7

\* A turn of the loop of dex_read_map appends the entry of the file's table, or
\* empties the map and restores the reader.
LEMMA ReadMapItemIInv == IInv /\ ReadMapItem => IInv'
<1> SUFFICES ASSUME IInv, ReadMapItem
             PROVE  IInv'
  OBVIOUS
<1> USE DEF IInv
<1> DEFINE m == map[caller]
           k == Len(m) + 1
<1>1. /\ pc = "items" /\ caller \in Callers /\ m \in Seq(MapItem)
      /\ k \in 1 .. file.map_count /\ k \in 1 .. MaxMapItems
      /\ reader[caller].pos \in Nat /\ reader[caller].stack \in Seq(Nat)
      /\ Len(reader[caller].stack) = 1
  BY FileFields, MaxMapItemsAssumption DEF TypeOK, Reading, ReadMapItem
<1>2. CASE CanRead(caller, reader[caller].pos, MapItemSize)
             /\ EntryAcceptable(m, Entry)
  <2>1. /\ map' = [map EXCEPT ![caller] = Append(m, Entry)]
        /\ reader' = [reader EXCEPT ![caller].pos = @ + MapItemSize]
        /\ pc' = "items"
        /\ UNCHANGED <<file, caller, segments, refused, mapIdx, dalvik>>
    BY <1>1, <1>2 DEF ReadMapItem
  <2>2. Entry \in MapItem
    BY <1>1, ItemAtType DEF Entry, TypeOK
  <2>3. Entry = file.table[k]
    <3>1. \A s \in segments : s.base \in Nat /\ s.input = s.base
      BY OneToOne
    <3>2. Backing(caller, reader[caller].pos) # {}
      <4>1. reader[caller].pos
              \in reader[caller].pos .. reader[caller].pos + MapItemSize - 1
        BY <1>1 DEF MapItemSize
      <4> QED
        BY <1>2, <4>1 DEF CanRead
    <3>3. Offset(caller, reader[caller].pos) = reader[caller].pos
      BY <1>1, <3>1, <3>2, OffsetIsAddress
    <3>4. reader[caller].pos = file.map_off + CountSize + MapItemSize * (k - 1)
      BY <1>1 DEF Reading
    <3> QED
      BY <3>3, <3>4 DEF Entry, ItemAt
  <2>4. /\ Append(m, Entry) \in Seq(MapItem)
        /\ Len(Append(m, Entry)) = k
        /\ \A i \in 1 .. Len(m) : Append(m, Entry)[i] = m[i]
        /\ Append(m, Entry)[k] = Entry
    BY <1>1, <2>2
  <2>5. TypeOK'
    <3>1. reader' \in [Callers -> [pos : Nat, stack : Seq(Nat)]]
      <4>1. [reader[caller] EXCEPT !.pos = @ + MapItemSize]
              \in [pos : Nat, stack : Seq(Nat)]
        BY <1>1 DEF TypeOK, MapItemSize
      <4> QED
        BY <2>1, <4>1 DEF TypeOK
    <3>2. map' \in [Callers -> Seq(MapItem)]
      BY <2>1, <2>4 DEF TypeOK
    <3> QED
      BY <1>1, <2>1, <3>1, <3>2 DEF TypeOK
  <2>6. Phases'
    BY <1>1, <2>1 DEF TypeOK, Phases, Callers
  <2>7. Reading'
    <3>1. map'[caller] = Append(m, Entry)
      BY <1>1, <2>1 DEF TypeOK
    <3>2. /\ reader'[caller].pos = reader[caller].pos + MapItemSize
          /\ reader'[caller].stack = reader[caller].stack
          /\ \A c \in Callers : c # caller => reader'[c] = reader[c]
      BY <1>1, <2>1 DEF TypeOK
    <3>3. reader'[caller].pos
            = file.map_off + CountSize + MapItemSize * Len(map'[caller])
      BY <1>1, <2>4, <3>1, <3>2, FileFields
      DEF Reading, CountSize, MapItemSize, TypeOK
    <3> QED
      BY <1>1, <2>1, <2>4, <3>1, <3>2, <3>3 DEF Reading
  <2>8. (Complete /\ Kept)'
    BY <1>1, <2>1 DEF TypeOK, Complete, Kept, LoaderDone, LMap, Callers
  <2>9. FromTable'
    BY <1>1, <2>1, <2>3, <2>4 DEF TypeOK, FromTable, Callers
  <2>10. MapWellFormed'
    <3>1. WellFormed(Append(m, Entry))
      BY <1>1, <1>2, <2>2, AppendWellFormed DEF MapWellFormed, TypeOK
    <3>2. map'[caller] = Append(m, Entry)
      BY <1>1, <2>1 DEF TypeOK
    <3>3. \A c \in Callers : c # caller => map'[c] = map[c]
      BY <2>1 DEF TypeOK
    <3>4. \A c \in Callers : WellFormed(map'[c])
      BY <3>1, <3>2, <3>3 DEF MapWellFormed
    <3> QED
      BY <2>1, <3>4 DEF MapWellFormed, WellFormed
  <2>11. Mapped'
    <3>1. CASE caller = "loader"
      BY <1>1, <2>1, <3>1 DEF Mapped, Phases, LoaderDone
    <3>2. CASE caller = "dalvik"
      BY <2>1, <3>2, MappedKept DEF TypeOK, Callers, LoaderDone
    <3> QED
      BY <1>1, <3>1, <3>2 DEF Callers
  <2> QED
    BY <2>5, <2>6, <2>7, <2>8, <2>9, <2>10, <2>11
<1>3. CASE ~(CanRead(caller, reader[caller].pos, MapItemSize)
              /\ EntryAcceptable(m, Entry))
  <2>1. /\ map' = [map EXCEPT ![caller] = <<>>]
        /\ reader' = [reader EXCEPT ![caller] = Restored(reader[caller])]
        /\ pc' = AfterFailure
        /\ UNCHANGED <<file, caller, segments, refused, mapIdx, dalvik>>
    BY <1>1, <1>3 DEF ReadMapItem
  <2>2. /\ Restored(reader[caller]) \in [pos : Nat, stack : Seq(Nat)]
        /\ Restored(reader[caller]).stack = <<>>
    BY <1>1 DEF Restored
  <2>3. TypeOK'
    BY <1>1, <2>1, <2>2 DEF TypeOK, Callers, AfterFailure
  <2>4. Phases'
    BY <1>1, <2>1 DEF TypeOK, Phases, Callers, AfterFailure
  <2>5. Reading'
    BY <1>1, <2>1, <2>2 DEF TypeOK, Reading, Callers, AfterFailure
  <2>6. (Complete /\ Kept)'
    BY <1>1, <2>1
    DEF TypeOK, Complete, Kept, LoaderDone, LMap, Callers, AfterFailure, Find
  <2>7. (FromTable /\ MapWellFormed)'
    BY <1>1, <2>1 DEF TypeOK, FromTable, MapWellFormed, WellFormed, Callers
  <2>8. Mapped'
    <3>1. CASE caller = "loader"
      BY <1>1, <2>1, <3>1 DEF Mapped, Phases, LoaderDone, AfterFailure
    <3>2. CASE caller = "dalvik"
      BY <2>1, <3>2, MappedKept DEF TypeOK, Callers, LoaderDone
    <3> QED
      BY <1>1, <3>1, <3>2 DEF Callers
  <2> QED
    BY <2>3, <2>4, <2>5, <2>6, <2>7, <2>8
<1> QED
  BY <1>2, <1>3

\* dex_read_map returns with the whole table, and the reader restored.
LEMMA ReadMapReturnIInv == IInv /\ ReadMapReturn => IInv'
<1> SUFFICES ASSUME IInv, ReadMapReturn
             PROVE  IInv'
  OBVIOUS
<1> USE DEF IInv, ReadMapReturn, AfterSuccess
<1>1. /\ caller \in Callers /\ map[caller] \in Seq(MapItem)
      /\ Len(map[caller]) = file.map_count /\ file.map_count \in Nat \ {0}
      /\ Len(reader[caller].stack) = 1
      /\ reader[caller] \in [pos : Nat, stack : Seq(Nat)]
  BY FileFields DEF TypeOK, Reading
<1>2. /\ Restored(reader[caller]) \in [pos : Nat, stack : Seq(Nat)]
      /\ Restored(reader[caller]).stack = <<>>
  BY <1>1 DEF Restored
<1>3. TypeOK'
  BY <1>1, <1>2 DEF TypeOK
<1>4. (Phases /\ Reading /\ Kept)'
  BY <1>1, <1>2 DEF TypeOK, Phases, Reading, Kept, Callers
<1>5. Complete'
  BY <1>1 DEF TypeOK, Complete, LoaderDone, LMap, Callers
<1>6. (FromTable /\ MapWellFormed)'
  BY DEF FromTable, MapWellFormed, WellFormed
<1>7. Mapped'
  <2>1. CASE caller = "dalvik"
    BY <2>1, MappedKept DEF LoaderDone
  <2>2. CASE caller = "loader"
    <3>1. segments = {} /\ mapIdx = 1 /\ LMap \in Seq(MapItem) /\ Len(LMap) >= 1
      BY <1>1, <2>2 DEF Phases, LMap
    <3>2. LMap' = LMap /\ file' = file /\ pc' = "segments" /\ caller' = "loader"
      BY <2>2 DEF LMap
    <3>3. LMap[1] \in MapItem /\ Start(LMap, 1) = LMap[1].offset
      BY <3>1 DEF Start
    <3>4. LMap[1].offset .. Start(LMap, 1) - 1 = {}
      BY <3>3 DEF MapItem
    <3>5. (LMap[1].offset .. Start(LMap, mapIdx) - 1)' = {}
      BY <3>1, <3>2, <3>4 DEF Start
    <3> QED
      BY <3>1, <3>2, <3>5 DEF Mapped
  <2> QED
    BY <1>1, <2>1, <2>2 DEF Callers
<1> QED
  BY <1>3, <1>4, <1>5, <1>6, <1>7

\* The extents of a well formed map: each ends where the next entry starts.
LEMMA ExtentFacts ==
  ASSUME file \in Files, NEW m \in Seq(MapItem), WellFormed(m),
         NEW k \in 1 .. Len(m)
  PROVE  /\ ExtentEnd(m, k) \in Nat /\ m[k].offset \in Nat
         /\ m[k].offset < ExtentEnd(m, k)
         /\ ExtentEnd(m, k) <= file.file_size
         /\ ExtentEnd(m, k) = Start(m, k + 1)
<1>1. m[k] \in MapItem /\ (k < Len(m) => m[k + 1] \in MapItem)
  OBVIOUS
<1>2. CASE k < Len(m)
  <2>1. k + 1 \in 1 .. Len(m)
    BY <1>2
  <2>2. m[k].offset < m[k + 1].offset /\ m[k + 1].offset < file.file_size
    BY <2>1 DEF WellFormed
  <2>3. m[k].offset \in Nat /\ m[k + 1].offset \in Nat
    BY <1>1, <1>2 DEF MapItem
  <2>4. ExtentEnd(m, k) = m[k + 1].offset /\ Start(m, k + 1) = m[k + 1].offset
    BY <1>2, <2>1 DEF ExtentEnd, Start
  <2> QED
    BY <2>2, <2>3, <2>4, FileFields
<1>3. CASE k = Len(m)
  BY <1>1, <1>3, FileFields DEF ExtentEnd, Start, MapItem, WellFormed
<1> QED
  BY <1>2, <1>3

\* A turn of dex_map_segments accounts for one more entry.
LEMMA MapSegmentIInv == IInv /\ MapSegment => IInv'
<1> SUFFICES ASSUME IInv, MapSegment
             PROVE  IInv'
  OBVIOUS
<1> USE DEF IInv
<1>1. /\ pc = "segments" /\ caller = "loader" /\ file \in Files
      /\ LMap \in Seq(MapItem) /\ WellFormed(LMap) /\ mapIdx \in 1 .. Len(LMap)
      /\ UNCHANGED <<file, pc, caller, reader, map, dalvik>>
      /\ mapIdx' = mapIdx + 1 /\ LMap' = LMap
  BY DEF MapSegment, TypeOK, Phases, MapWellFormed, Callers, Mapped, LoaderDone,
         LMap
<1> DEFINE x == Extent(LMap, mapIdx)
<1>2. /\ ExtentEnd(LMap, mapIdx) \in Nat /\ LMap[mapIdx].offset \in Nat
      /\ LMap[mapIdx].offset < ExtentEnd(LMap, mapIdx)
      /\ ExtentEnd(LMap, mapIdx) = Start(LMap, mapIdx + 1)
  BY <1>1, ExtentFacts
<1>3. /\ x \in [base : Nat, size : Nat, input : Nat]
      /\ x.base = LMap[mapIdx].offset /\ End(x) = Start(LMap, mapIdx + 1)
  BY <1>2 DEF Extent, End
<1>4. \/ segments' = segments \cup {x} /\ refused' = refused
      \/ segments' = segments /\ refused' = refused \cup {x}
  BY <1>1, <1>2 DEF MapSegment, LMap
<1>5. TypeOK'
  BY <1>1, <1>3, <1>4 DEF TypeOK
<1>6. (Phases /\ Reading /\ Complete /\ Kept)'
  BY <1>1 DEF Phases, Reading, Complete, Kept, LoaderDone, LMap
<1>7. (FromTable /\ MapWellFormed)'
  BY <1>1 DEF FromTable, MapWellFormed, WellFormed
<1>8. Mapped'
  <2>1. (\A s \in segments : \E k \in 1 .. Len(LMap) : s = Extent(LMap, k))'
    BY <1>1, <1>4 DEF Mapped, Extent, ExtentEnd
  <2>2. ASSUME NEW a \in LMap[1].offset .. Start(LMap, mapIdx + 1) - 1
        PROVE  Covers(segments' \cup refused', a)
    <3>0. LMap[1] \in MapItem /\ mapIdx \in Nat /\ mapIdx <= Len(LMap)
      BY <1>1
    <3>1. LMap[1].offset \in Nat /\ Start(LMap, mapIdx) = x.base /\ a \in Nat
      BY <1>2, <1>3, <3>0 DEF Start, MapItem
    <3>2. CASE a < x.base
      <4>1. a \in LMap[1].offset .. Start(LMap, mapIdx) - 1
        <5>1. Start(LMap, mapIdx) \in Nat
          BY <1>2, <1>3, <3>1
        <5>2. a >= LMap[1].offset
          BY <1>2, <3>1
        <5> QED
          BY <3>1, <3>2, <5>1, <5>2
      <4>2. Covers(segments \cup refused, a)
        BY <1>1, <4>1 DEF Mapped, LoaderDone
      <4>3. segments \cup refused \subseteq segments' \cup refused'
        BY <1>4
      <4> QED
        BY <4>2, <4>3 DEF Covers
    <3>3. CASE a >= x.base
      BY <1>2, <1>3, <1>4, <3>1, <3>3 DEF Covers
    <3>4. x.base \in Nat
      BY <1>2, <1>3
    <3> HIDE DEF x
    <3> QED
      BY <3>1, <3>2, <3>3, <3>4
  <2>3. Start(LMap, mapIdx)' = Start(LMap, mapIdx + 1)
    BY <1>1 DEF Start
  <2>4. (LoaderDone => \A a \in LMap[1].offset .. Start(LMap, mapIdx) - 1 :
                         Covers(segments \cup refused, a))'
    BY <1>1, <2>2, <2>3 DEF Covers, End
  <2> QED
    BY <1>1, <2>1, <2>4 DEF Mapped
<1> QED
  BY <1>5, <1>6, <1>7, <1>8

\* dex_map_segments is through when every entry is accounted for.
LEMMA MapSegmentsReturnIInv == IInv /\ MapSegmentsReturn => IInv'
<1> SUFFICES ASSUME IInv, MapSegmentsReturn
             PROVE  IInv'
  OBVIOUS
<1> USE DEF IInv, MapSegmentsReturn
<1>1. TypeOK'
  BY DEF TypeOK
<1>2. (Phases /\ Reading /\ Complete /\ Kept)'
  BY DEF Phases, Reading, Complete, Kept, LoaderDone, LMap
<1>3. (FromTable /\ MapWellFormed)'
  BY DEF FromTable, MapWellFormed, WellFormed
<1>4. Mapped'
  <2>1. mapIdx = Len(LMap) + 1
    <3>1. LMap \in Seq(MapItem)
      BY DEF TypeOK, LMap, Callers
    <3>2. Len(LMap) \in Nat
      BY <3>1
    <3>3. mapIdx \in 1..(Len(LMap) + 1)
      BY DEF Mapped, LoaderDone
    <3>4. mapIdx > Len(LMap)
      BY DEF LMap
    <3> HIDE DEF IInv, MapSegmentsReturn
    <3> QED
      BY <3>2, <3>3, <3>4
  <2>2. LMap' = LMap
    BY DEF LMap
  <2> QED
    BY <2>1, <2>2 DEF Mapped, LoaderDone, Phases, Start, Covers, End, Extent,
                ExtentEnd
<1> QED
  BY <1>1, <1>2, <1>3, <1>4

\* dalvik_setup changes the caller, and none of what the loader has built.
LEMMA SetupIInv == IInv /\ Setup => IInv'
<1> SUFFICES ASSUME IInv, Setup
             PROVE  IInv'
  OBVIOUS
<1> USE DEF IInv, Setup
<1>1. TypeOK'
  BY DEF TypeOK, Callers, HeaderSize
<1>2. Phases'
  BY DEF Phases
<1>3. Reading'
  BY DEF Reading, TypeOK, Callers
<1>4. (Complete /\ Kept)'
  BY DEF TypeOK, Phases, Complete, Kept, LoaderDone, LMap, Find
<1>5. (FromTable /\ MapWellFormed)'
  BY DEF FromTable, MapWellFormed, WellFormed
<1>6. Mapped'
  BY MappedKept DEF LoaderDone
<1> QED
  BY <1>1, <1>2, <1>3, <1>4, <1>5, <1>6

\* _dalvik_read_map keeps what dex_map_find finds.
LEMMA KeepTablesIInv == IInv /\ KeepTables => IInv'
<1> SUFFICES ASSUME IInv, KeepTables
             PROVE  IInv'
  OBVIOUS
<1> USE DEF IInv, KeepTables
<1>1. ASSUME NEW m \in Seq(MapItem), NEW t, WellFormed(m)
      PROVE  Find(m, t) \in Table
  <2> DEFINE found == {i \in 1 .. Len(m) : m[i].type = t}
             i == CHOOSE i \in found : \A j \in found : i <= j
  <2>1. CASE found = {}
    BY <2>1 DEF Find, NoTable, Table
  <2>2. CASE found # {}
    <3>1. PICK j \in 1 .. Len(m) : m[j].type = t
      BY <2>2
    <3>2. \A l \in found : l = j
      BY <1>1, <3>1 DEF WellFormed
    <3>3. i \in found
      BY <3>1, <3>2
    <3>4. m[i] \in MapItem
      BY <3>3
    <3>5. Find(m, t) = [size |-> m[i].size, offset |-> m[i].offset]
      BY <2>2 DEF Find
    <3> QED
      BY <3>4, <3>5 DEF Table, MapItem
  <2> QED
    BY <2>1, <2>2
<1>2. TypeOK'
  BY <1>1 DEF TypeOK, Callers, MapWellFormed
<1>3. (Phases /\ Reading /\ Complete)'
  BY DEF Phases, Reading, Complete, LoaderDone, LMap
<1>4. Kept'
  BY DEF Kept, TypeOK
<1>5. (FromTable /\ MapWellFormed)'
  BY DEF FromTable, MapWellFormed, WellFormed
<1>6. Mapped'
  BY MappedKept DEF LoaderDone
<1> QED
  BY <1>2, <1>3, <1>4, <1>5, <1>6

\* What each phase leaves behind holds throughout: the loop of dex_read_map and
\* that of dex_map_segments keep their bookkeeping, for either caller.
THEOREM InductiveInvariant == Spec => []IInv
<1>1. IInv /\ [Next]_vars => IInv'
  <2> SUFFICES ASSUME IInv, [Next]_vars
               PROVE  IInv'
    OBVIOUS
  <2>1. CASE UNCHANGED vars
    <3>1. (TypeOK /\ Phases /\ Reading /\ FromTable /\ Complete /\ Kept)'
      BY <2>1 DEF IInv, vars, TypeOK, Phases, Reading, FromTable, Complete, Kept,
                  LoaderDone, LMap
    <3>2. MapWellFormed'
      BY <2>1 DEF IInv, vars, MapWellFormed, WellFormed
    <3>3. Mapped'
      BY <2>1, MappedKept DEF IInv, vars, LoaderDone
    <3> QED
      BY <3>1, <3>2, <3>3 DEF IInv
  <2>2. CASE Step
    BY <2>2, ParseIInv, ReadMapAbsentIInv, ReadMapCountIInv, ReadMapItemIInv,
       ReadMapReturnIInv, MapSegmentIInv, MapSegmentsReturnIInv, SetupIInv,
       KeepTablesIInv
    DEF Step
  <2> QED
    BY <2>1, <2>2 DEF Next, Terminating
<1> QED
  BY InitIInv, <1>1, PTL DEF Spec

-------------------------------------------------------------------------------
(* The theorems.                                                           *)

\* The state of the loader and the processor always has its type.
THEOREM TypeCorrect == Spec => []TypeOK
<1>1. IInv => TypeOK
  BY DEF IInv
<1> QED
  BY InductiveInvariant, <1>1, PTL

\* Every DEXMap the code works with has strictly ascending offsets inside
\* the file and no repeated type, whatever the file holds.
THEOREM MapsAreWellFormed == Spec => []MapWellFormed
<1>1. IInv => MapWellFormed
  BY DEF IInv
<1> QED
  BY InductiveInvariant, <1>1, PTL

\* The extents of two entries of a well formed map do not meet.
LEMMA ExtentsDisjoint ==
  ASSUME file \in Files, NEW m \in Seq(MapItem), WellFormed(m),
         NEW k \in 1 .. Len(m), NEW l \in 1 .. Len(m), k < l
  PROVE  ExtentEnd(m, k) <= m[l].offset
<1>1. k + 1 \in 1 .. Len(m) /\ ExtentEnd(m, k) = m[k + 1].offset
  BY DEF ExtentEnd
<1>2. CASE l = k + 1
  BY <1>1, <1>2, ExtentFacts
<1>3. CASE k + 1 < l
  <2>1. m[k + 1].offset < m[l].offset
    BY <1>1, <1>3 DEF WellFormed
  <2> QED
    BY <1>1, <2>1, ExtentFacts
<1> QED
  BY <1>2, <1>3

\* The address space shows no address twice, nothing beyond the end of the
\* file, and every byte at its own offset: dex_map_segments may rely on the
\* order dex_read_map has enforced.
THEOREM SegmentsAreOneToOne == Spec => []SegmentsOneToOne
<1>1. IInv => SegmentsOneToOne
  <2> SUFFICES ASSUME IInv
               PROVE  SegmentsOneToOne
    OBVIOUS
  <2>1. file \in Files /\ LMap \in Seq(MapItem) /\ WellFormed(LMap)
    BY DEF IInv, TypeOK, MapWellFormed, Callers, LMap
  <2>2. ASSUME NEW s \in segments
        PROVE  s.size > 0 /\ s.input = s.base /\ End(s) <= file.length
    <3>1. PICK k \in 1 .. Len(LMap) : s = Extent(LMap, k)
      BY DEF IInv, Mapped
    <3>2. file.file_size <= file.length
      BY <2>2 DEF IInv, Phases
    <3>3. /\ ExtentEnd(LMap, k) \in Nat /\ LMap[k].offset \in Nat
          /\ LMap[k].offset < ExtentEnd(LMap, k)
          /\ ExtentEnd(LMap, k) <= file.file_size
      BY <2>1, ExtentFacts
    <3> QED
      BY <2>1, <3>1, <3>2, <3>3, FileFields DEF Extent, End
  <2>3. ASSUME NEW s \in segments, NEW t \in segments, s # t
        PROVE  End(s) <= t.base \/ End(t) <= s.base
    <3>1. PICK k \in 1 .. Len(LMap) : s = Extent(LMap, k)
      BY DEF IInv, Mapped
    <3>2. PICK l \in 1 .. Len(LMap) : t = Extent(LMap, l)
      BY DEF IInv, Mapped
    <3>3. /\ End(s) = ExtentEnd(LMap, k) /\ End(t) = ExtentEnd(LMap, l)
          /\ s.base = LMap[k].offset /\ t.base = LMap[l].offset
      BY <2>1, <3>1, <3>2, ExtentFacts DEF Extent, End
    <3>4. k < l \/ l < k
      BY <2>3, <3>1, <3>2
    <3> QED
      BY <2>1, <3>3, <3>4, ExtentsDisjoint
  <2> QED
    BY <2>2, <2>3 DEF SegmentsOneToOne
<1> QED
  BY InductiveInvariant, <1>1, PTL

\* From the first entry to file_size the address space has no hole the
\* engine did not make by refusing a segment.
THEOREM SpaceIsGapFree == Spec => []GapFree
<1>1. IInv => GapFree
  <2> SUFFICES ASSUME IInv, LoaderDone, mapIdx = Len(LMap) + 1
               PROVE  \A a \in LMap[1].offset .. file.file_size - 1 :
                        Covers(segments \cup refused, a)
    BY DEF GapFree, IInv, Mapped, LoaderDone, Phases, LMap
  <2>1. Start(LMap, mapIdx) = file.file_size
    BY DEF Start, IInv, TypeOK, LMap, Callers
  <2> QED
    BY <2>1 DEF IInv, Mapped
<1> QED
  BY InductiveInvariant, <1>1, PTL

\* The processor's tables are the loader's or none: the second reading of
\* the map_list, through the address space, never yields another one.
THEOREM ProcessorUsesTheLoadersTables == Spec => []TablesAreTheLoaders
<1>1. IInv => TablesAreTheLoaders
  <2> SUFFICES ASSUME IInv, pc = "done"
               PROVE  TablesAreTheLoaders
    BY DEF TablesAreTheLoaders
  <2>1. caller = "dalvik" /\ LoaderDone /\ map \in [Callers -> Seq(MapItem)]
    BY DEF IInv, Phases, LoaderDone, TypeOK
  <2>2. /\ Len(LMap) = file.map_count
        /\ Len(map["dalvik"]) \in {0, file.map_count}
    BY <2>1 DEF IInv, Complete
  <2>3. CASE Len(map["dalvik"]) = 0
    <3>1. map["dalvik"] = <<>>
      BY <2>1, <2>3 DEF Callers
    <3> QED
      BY <3>1 DEF TablesAreTheLoaders, IInv, Kept
  <2>4. CASE Len(map["dalvik"]) = Len(LMap)
    <3>1. \A k \in 1 .. Len(LMap) : map["dalvik"][k] = LMap[k]
      BY <2>1, <2>4 DEF IInv, FromTable, Callers, LMap
    <3>2. map["dalvik"] = LMap
      BY <2>1, <2>4, <3>1 DEF Callers, LMap
    <3> QED
      BY <3>2 DEF TablesAreTheLoaders, IInv, Kept, LMap
  <2> QED
    BY <2>2, <2>3, <2>4
<1> QED
  BY InductiveInvariant, <1>1, PTL

\* A file whose first map entry leaves out the header never gets a valid
\* processor: address zero has no byte to read the magic from.
THEOREM UnmappedHeaderStaysInvalid == Spec => []UnmappedHeaderIsInvalid
<1> DEFINE J == \/ ~LoaderDone \/ LMap[1].offset = 0 \/ ~dalvik.is_valid
                \/ file.map_count = 0
           K == pc \in {"parse", "readmap", "items", "segments", "setup"}
                  /\ caller = "loader" => ~dalvik.is_valid
<1>1. Init => J /\ K
  BY DEF Init
<1>2. IInv /\ J /\ K /\ [Next]_vars => (J /\ K)'
  <2> SUFFICES ASSUME IInv, J, K, [Next]_vars
               PROVE  (J /\ K)'
    OBVIOUS
  <2> USE DEF LMap, LoaderDone
  <2>1. CASE UNCHANGED vars
    BY <2>1 DEF vars
  <2>2. CASE Parse
    BY <2>2 DEF Parse, IInv, Phases
  <2>3. CASE ReadMapAbsent \/ ReadMapCount \/ ReadMapItem \/ ReadMapReturn
    <3>1. caller' = caller /\ dalvik' = dalvik /\ file' = file
      BY <2>3 DEF ReadMapAbsent, ReadMapCount, ReadMapItem, ReadMapReturn
    <3>2. pc \in {"readmap", "items"}
      BY <2>3 DEF ReadMapAbsent, ReadMapCount, ReadMapItem, ReadMapReturn
    <3>3. CASE caller = "loader"
      BY <3>1, <3>2, <3>3
    <3>4. CASE caller = "dalvik"
      <4>1. map'["loader"] = map["loader"]
        BY <2>3, <3>4 DEF ReadMapAbsent, ReadMapCount, ReadMapItem,
                          ReadMapReturn, IInv, TypeOK, Callers
      <4> QED
        BY <3>1, <3>4, <4>1
    <3> QED
      BY <3>3, <3>4 DEF IInv, TypeOK, Callers
  <2>4. CASE MapSegment
    BY <2>4 DEF MapSegment
  <2>5. CASE MapSegmentsReturn
    BY <2>5 DEF MapSegmentsReturn
  <2>6. CASE Setup
    <3>1. ASSUME CanRead("dalvik", 0, HeaderSize)
          PROVE  LMap[1].offset = 0
      <4>1. Backing("dalvik", 0) # {}
        BY <3>1 DEF CanRead, HeaderSize
      <4>2. PICK s \in segments : s.base <= 0
        BY <4>1 DEF Backing
      <4>3. PICK k \in 1 .. Len(LMap) : s.base = LMap[k].offset
        BY DEF IInv, Mapped, Extent
      <4>4. LMap \in Seq(MapItem) /\ WellFormed(LMap) /\ s.base \in Nat
        BY DEF IInv, TypeOK, MapWellFormed, Callers
      <4>5. LMap[k].offset = 0 /\ LMap[1] \in MapItem
        BY <4>2, <4>3, <4>4
      <4>6. CASE k = 1
        BY <4>5, <4>6
      <4>7. CASE 1 < k
        BY <4>4, <4>5, <4>7 DEF WellFormed, MapItem
      <4> QED
        BY <4>4, <4>6, <4>7
    <3>2. map' = map /\ (dalvik.is_valid' => CanRead("dalvik", 0, HeaderSize))
      BY <2>6 DEF Setup, IInv, TypeOK
    <3> QED
      BY <2>6, <3>1, <3>2 DEF Setup
  <2>7. CASE KeepTables
    BY <2>7 DEF KeepTables, IInv, Phases, TypeOK
  <2> QED
    BY <2>1, <2>2, <2>3, <2>4, <2>5, <2>6, <2>7 DEF Next, Step, Terminating
<1>3. IInv /\ J => UnmappedHeaderIsInvalid
  BY DEF UnmappedHeaderIsInvalid, IInv, Phases, Complete, LoaderDone, LMap
<1> QED
  BY InductiveInvariant, <1>1, <1>2, <1>3, PTL DEF Spec

-------------------------------------------------------------------------------
(* The second reading of the map_list succeeds where everything is mapped.  *)

TableEnd == file.map_off + CountSize + MapItemSize * file.map_count

\* What dex_parse and the loader's reading of the map_list have checked.
Checked ==
  /\ pc \notin {"parse", "rejected"} => KnownVersion(file.version)
  /\ LoaderDone \/ pc = "items" =>
       file.map_off # 0 /\ file.map_count # 0
         /\ file.map_count <= MaxMapItems /\ TableEnd <= file.file_size

\* The engine has refused nothing, from the header on.
Whole == refused = {} /\ LMap[1].offset = 0 /\ file.file_size >= HeaderSize

SecondReading ==
  caller = "dalvik" /\ Whole =>
    /\ dalvik.is_valid
    /\ pc \in {"readmap", "items", "tables", "done"}
    /\ pc \in {"tables", "done"} => map["dalvik"] = LMap

\* The first reading makes the checks, and nothing undoes them.
LEMMA CheckedKept == IInv /\ Checked /\ [Next]_vars => Checked'
<1> SUFFICES ASSUME IInv, Checked, [Next]_vars
             PROVE  Checked'
  OBVIOUS
<1> USE DEF Checked, LoaderDone, TableEnd
<1>1. CASE Parse
  BY <1>1 DEF Parse, IInv, Phases
<1>2. CASE ReadMapAbsent
  BY <1>2 DEF ReadMapAbsent, AfterFailure, IInv, Phases, TypeOK, Callers
<1>3. CASE ReadMapCount
  BY <1>3 DEF ReadMapCount, CountAcceptable, AfterFailure, IInv, Phases, TypeOK, Callers
<1>4. CASE ReadMapItem
  BY <1>4 DEF ReadMapItem, AfterFailure, IInv, Phases, TypeOK, Callers
<1>5. CASE ReadMapReturn
  BY <1>5 DEF ReadMapReturn, AfterSuccess, IInv, Phases, TypeOK, Callers
<1>6. CASE MapSegment \/ MapSegmentsReturn \/ Setup \/ KeepTables
  BY <1>6 DEF MapSegment, MapSegmentsReturn, Setup, KeepTables, IInv, Phases
<1>7. CASE UNCHANGED vars
  BY <1>7 DEF vars
<1> QED
  BY <1>1, <1>2, <1>3, <1>4, <1>5, <1>6, <1>7 DEF Next, Step, Terminating

\* Where everything is mapped the address space reads like the file.
LEMMA WholeReadsAsFile ==
  ASSUME IInv, pc = "setup" \/ caller = "dalvik", Whole,
         NEW a \in Nat, NEW n \in Nat, a + n <= file.file_size
  PROVE  /\ CanRead("dalvik", a, n)
         /\ n > 0 => Offset("dalvik", a) = a
<1>1. file.file_size \in Nat /\ LMap \in Seq(MapItem) /\ mapIdx = Len(LMap) + 1
  BY FileFields DEF IInv, TypeOK, Callers, LMap, Mapped
<1>2. Start(LMap, mapIdx) = file.file_size
  BY <1>1 DEF Start
<1>3. \A s \in segments : s.base \in Nat /\ s.input = s.base
  BY OneToOne DEF IInv
<1>4. ASSUME NEW b \in Nat, b < file.file_size
      PROVE  Backing("dalvik", b) # {}
  <2>1. Covers(segments \cup refused, b)
    BY <1>1, <1>2, <1>4 DEF IInv, Mapped, LoaderDone, Whole
  <2>2. PICK s \in segments : s.base <= b /\ b < s.base + s.size
    BY <2>1 DEF Covers, Whole, End
  <2> QED
    BY <2>2 DEF Backing
<1>5. CanRead("dalvik", a, n)
  BY <1>1, <1>4 DEF CanRead
<1>6. n > 0 => Offset("dalvik", a) = a
  BY <1>1, <1>3, <1>4, OffsetIsAddress DEF Callers
<1> QED
  BY <1>5, <1>6

\* The header is read, and the processor is valid.
LEMMA SetupReads ==
  ASSUME IInv, Checked, Setup
  PROVE  SecondReading'
<1> SUFFICES ASSUME Whole
             PROVE  dalvik'.is_valid /\ pc' = "readmap"
  BY DEF SecondReading, Whole, Setup, LMap
<1>1. CanRead("dalvik", 0, HeaderSize) /\ Offset("dalvik", 0) = 0
  BY WholeReadsAsFile DEF Setup, Whole, HeaderSize
<1>2. KnownVersion(file.version)
  BY DEF Checked, Setup
<1> QED
  BY <1>1, <1>2 DEF Setup, IInv, TypeOK

\* The count is read and accepted again.
LEMMA CountReads ==
  ASSUME IInv, Checked, SecondReading, ReadMapCount
  PROVE  SecondReading'
<1> SUFFICES ASSUME caller = "dalvik", Whole
             PROVE  dalvik.is_valid /\ pc' = "items"
  BY DEF SecondReading, Whole, ReadMapCount, IInv, TypeOK, Callers, LMap
<1>1. /\ file.map_off \in Nat /\ file.map_count \in Nat \ {0} /\ file.file_size \in Nat
      /\ file.map_count <= MaxMapItems /\ TableEnd <= file.file_size
  BY FileFields DEF IInv, TypeOK, Checked, LoaderDone
<1>2. file.map_off + CountSize <= file.file_size
  BY <1>1 DEF TableEnd, CountSize, MapItemSize
<1>3. CanRead("dalvik", file.map_off, CountSize)
      /\ Offset("dalvik", file.map_off) = file.map_off
  BY <1>1, <1>2, WholeReadsAsFile DEF CountSize
<1> QED
  BY <1>1, <1>3 DEF ReadMapCount, CountAcceptable, SecondReading, TableEnd

\* Each entry is read and accepted again, as it was the first time.
LEMMA ItemReads ==
  ASSUME IInv, Checked, SecondReading, ReadMapItem
  PROVE  SecondReading'
<1> SUFFICES ASSUME caller = "dalvik", Whole
             PROVE  dalvik.is_valid /\ pc' = "items"
  BY DEF SecondReading, Whole, ReadMapItem, IInv, TypeOK, Callers, LMap
<1> DEFINE m == map["dalvik"]
           k == Len(m) + 1
           pos == reader["dalvik"].pos
<1>1. /\ file.map_off \in Nat /\ file.map_count \in Nat /\ file.file_size \in Nat
      /\ file.map_count <= MaxMapItems /\ TableEnd <= file.file_size
  BY FileFields DEF IInv, TypeOK, Checked, LoaderDone
<1>2. /\ m \in Seq(MapItem) /\ LMap \in Seq(MapItem)
      /\ pc = "items" /\ Len(m) < file.map_count
      /\ pos = file.map_off + CountSize + MapItemSize * Len(m)
      /\ Len(LMap) = file.map_count
  BY DEF IInv, TypeOK, Callers, Reading, ReadMapItem, LMap, Complete, LoaderDone
<1>3. /\ k \in 1 .. Len(LMap) /\ pos \in Nat /\ pos + MapItemSize <= file.file_size
      /\ pos = file.map_off + CountSize + MapItemSize * (k - 1)
  <2> DEFINE n == Len(m)
  <2>1. n \in Nat /\ k = n + 1 /\ k - 1 = n
    BY <1>2
  <2>2. pos = file.map_off + 4 + 12 * n /\ n < file.map_count
    BY <1>2 DEF CountSize, MapItemSize
  <2>3. file.map_off + 4 + 12 * file.map_count <= file.file_size
    BY <1>1 DEF TableEnd, CountSize, MapItemSize
  <2>4. Len(LMap) = file.map_count
    BY <1>2
  <2> HIDE DEF m, n, k, pos
  <2>5. k \in 1 .. Len(LMap)
    BY <1>1, <2>1, <2>2, <2>4
  <2>6. pos \in Nat /\ pos + 12 <= file.file_size
    BY <1>1, <2>1, <2>2, <2>3
  <2>7. pos = file.map_off + CountSize + MapItemSize * (k - 1)
    BY <2>1, <2>2 DEF CountSize, MapItemSize
  <2> QED
    BY <2>5, <2>6, <2>7 DEF MapItemSize
<1>4. CanRead("dalvik", pos, MapItemSize) /\ Offset("dalvik", pos) = pos
  BY <1>3, WholeReadsAsFile DEF MapItemSize
<1>5. Entry = file.table[k]
  BY <1>3, <1>4 DEF Entry, ItemAt
<1>6. /\ \A j \in 1 .. Len(m) : m[j] = LMap[j] /\ j \in 1 .. Len(LMap) /\ j < k
      /\ LMap[k] = Entry
  BY <1>2, <1>3, <1>5 DEF IInv, FromTable, Callers, LMap
<1>7. WellFormed(LMap)
  BY DEF IInv, MapWellFormed, Callers, LMap
<1>8. EntryAcceptable(m, Entry)
  <2>1. Entry.offset < file.file_size
    BY <1>3, <1>6, <1>7 DEF WellFormed
  <2>2. \A j \in 1 .. Len(m) : m[j].offset < Entry.offset /\ m[j].type # Entry.type
    BY <1>3, <1>6, <1>7 DEF WellFormed
  <2>3. m # <<>> => Len(m) \in 1 .. Len(m)
    BY <1>2
  <2>4. m # <<>> => Entry.offset > m[Len(m)].offset
    BY <2>2, <2>3
  <2> QED
    BY <2>1, <2>2, <2>4 DEF EntryAcceptable
<1> QED
  BY <1>2, <1>4, <1>8 DEF ReadMapItem, SecondReading

\* With all entries read the map is the loader's.
LEMMA ReturnReads ==
  ASSUME IInv, Checked, SecondReading, ReadMapReturn
  PROVE  SecondReading'
<1> SUFFICES ASSUME caller = "dalvik", Whole
             PROVE  dalvik.is_valid /\ pc' = "tables" /\ map["dalvik"] = LMap
  BY DEF SecondReading, Whole, ReadMapReturn, LMap
<1>1. map["dalvik"] \in Seq(MapItem) /\ LMap \in Seq(MapItem)
  BY DEF IInv, TypeOK, Callers, LMap
<1>2. Len(map["dalvik"]) = Len(LMap)
  <2>1. pc = "items" /\ Len(map["dalvik"]) >= file.map_count
    BY DEF ReadMapReturn
  <2>2. Len(map["dalvik"]) <= file.map_count
    BY <2>1 DEF IInv, Reading
  <2>3. Len(LMap) = file.map_count /\ file.map_count \in Nat
    BY FileFields DEF IInv, TypeOK, Complete, LoaderDone
  <2> QED
    BY <1>1, <2>1, <2>2, <2>3
<1>3. \A i \in 1 .. Len(LMap) : map["dalvik"][i] = LMap[i]
  BY <1>2 DEF IInv, FromTable, Callers, LMap
<1>4. map["dalvik"] = LMap
  BY <1>1, <1>2, <1>3
<1> QED
  BY <1>4 DEF ReadMapReturn, AfterSuccess, SecondReading

\* If the engine has refused nothing and the first entry is the header's, the
\* processor is valid and works with the very map the loader read, whatever the
\* file: the second reading fails nowhere the first one did not.
THEOREM ProcessorFindsTheLoadersMap == Spec => []ProcessorFindsTheMap
<1>1. Init => Checked /\ SecondReading
  BY DEF Init, Checked, SecondReading, LoaderDone
<1>2. IInv /\ Checked /\ SecondReading /\ [Next]_vars => SecondReading'
  <2> SUFFICES ASSUME IInv, Checked, SecondReading, [Next]_vars
               PROVE  SecondReading'
    OBVIOUS
  <2>1. CASE UNCHANGED vars
    BY <2>1 DEF vars, SecondReading, Whole, LMap
  <2>2. CASE Parse \/ MapSegment \/ MapSegmentsReturn
    BY <2>2 DEF Parse, MapSegment, MapSegmentsReturn, SecondReading, IInv, Phases
  <2>3. CASE ReadMapAbsent
    BY <2>3 DEF ReadMapAbsent, SecondReading, Checked, LoaderDone
  <2>4. CASE KeepTables
    BY <2>4 DEF KeepTables, SecondReading, Whole, LMap, IInv, TypeOK
  <2> QED
    BY <2>1, <2>2, <2>3, <2>4, SetupReads, CountReads, ItemReads, ReturnReads
    DEF Next, Step, Terminating
<1>3. IInv /\ SecondReading => ProcessorFindsTheMap
  BY DEF ProcessorFindsTheMap, SecondReading, Whole, LMap, IInv, Phases
<1> QED
  BY InductiveInvariant, CheckedKept, <1>1, <1>2, <1>3, PTL DEF Spec

-------------------------------------------------------------------------------
(* DexLoad implements AddressSpace.                                        *)

\* The extent about to be mapped meets no segment already there.
LEMMA NextExtentIsFree ==
  ASSUME IInv, MapSegment, NEW s \in segments,
         ~ (s = Extent(LMap, mapIdx))
  PROVE  Space!DisjointFrom(Extent(LMap, mapIdx), s)
<1>1. /\ file \in Files /\ LMap \in Seq(MapItem) /\ WellFormed(LMap)
      /\ mapIdx \in 1 .. Len(LMap)
  BY DEF IInv, MapSegment, TypeOK, MapWellFormed, Callers, Mapped, LoaderDone,
         LMap
<1>2. PICK k \in 1 .. Len(LMap) : s = Extent(LMap, k)
  BY DEF IInv, Mapped
<1>3. k < mapIdx \/ mapIdx < k
  BY <1>1, <1>2
<1>4. ASSUME NEW i \in 1 .. Len(LMap)
      PROVE  Extent(LMap, i).base + Extent(LMap, i).size = ExtentEnd(LMap, i)
  BY <1>1, ExtentFacts DEF Extent
<1> QED
  BY <1>1, <1>2, <1>3, <1>4, ExtentsDisjoint DEF Space!DisjointFrom, Extent

\* A step maps a free segment, ends the loading, or shows nothing of itself.
LEMMA StepImplementsSpace ==
  ASSUME IInv, IInv', [Next]_vars
  PROVE  [Space!Next]_(Space!vars)
<1> USE DEF Space!vars
<1>1. CASE UNCHANGED vars
  BY <1>1 DEF vars
<1>2. CASE Parse
  BY <1>2 DEF Parse, Space!Next, Space!Finish, IInv, Phases
<1>3. CASE ReadMapAbsent \/ ReadMapCount \/ ReadMapItem \/ ReadMapReturn
  <2>1. /\ UNCHANGED <<file, caller, segments>>
        /\ pc \in {"readmap", "items"}
        /\ pc' \in {"rejected", "done", "items", "segments", "tables"}
        /\ caller = "dalvik" => pc' # "rejected"
    BY <1>3 DEF ReadMapAbsent, ReadMapCount, ReadMapItem, ReadMapReturn,
                AfterFailure, AfterSuccess
  <2>2. CASE pc' = "rejected"
    BY <2>1, <2>2 DEF Space!Next, Space!Finish, IInv, TypeOK, Callers
  <2>3. CASE pc' # "rejected"
    BY <2>1, <2>3
  <2> QED
    BY <2>2, <2>3
<1>4. CASE MapSegment
  <2>1. UNCHANGED <<file, pc, caller>> /\ pc = "segments" /\ caller = "loader"
    BY <1>4 DEF MapSegment, IInv, Phases
  <2> DEFINE x == Extent(LMap, mapIdx)
  <2>2. CASE segments' = segments
    BY <2>1, <2>2
  <2>3. CASE segments' # segments
    <3>1. segments' = segments \cup {x} /\ x \notin segments
      BY <1>4, <2>3 DEF MapSegment, LMap
    <3>2. \A t \in segments : Space!DisjointFrom(x, t)
      BY <1>4, <3>1, NextExtentIsFree
    <3>3. /\ file \in Files /\ LMap \in Seq(MapItem) /\ WellFormed(LMap)
          /\ mapIdx \in 1 .. Len(LMap) /\ file.file_size <= file.length
      BY <1>4, <2>1 DEF IInv, MapSegment, TypeOK, MapWellFormed, Callers, Mapped,
                        LoaderDone, Phases, LMap
    <3>4. /\ x \in Space!Segment /\ x.size > 0
          /\ x.base + x.size <= file.length
      <4>1. /\ ExtentEnd(LMap, mapIdx) \in Nat /\ LMap[mapIdx].offset \in Nat
            /\ LMap[mapIdx].offset < ExtentEnd(LMap, mapIdx)
            /\ ExtentEnd(LMap, mapIdx) <= file.file_size
        BY <3>3, ExtentFacts
      <4> QED
        BY <3>3, <4>1, FileFields DEF Extent, Space!Segment
    <3>5. Space!Map
      BY <2>1, <3>1, <3>2, <3>4 DEF Space!Map
    <3> QED
      BY <3>5 DEF Space!Next
  <2> QED
    BY <2>2, <2>3
<1>5. CASE MapSegmentsReturn
  BY <1>5 DEF MapSegmentsReturn, IInv, Phases, Space!Next, Space!Finish
<1>6. CASE Setup
  BY <1>6 DEF Setup
<1>7. CASE KeepTables
  BY <1>7 DEF KeepTables, IInv, Phases
<1> QED
  BY <1>1, <1>2, <1>3, <1>4, <1>5, <1>6, <1>7 DEF Next, Step, Terminating

\* Loading a DEX file implements the promise every loader makes of its
\* address space: disjoint segments inside the file, added one at a time and
\* never taken back, and success only with something mapped.
THEOREM ImplementsAddressSpace == Spec => AddressSpaceSpec
<1>1. Init => Space!Init
  BY FileFields DEF Init, Space!Init
<1>2. IInv /\ IInv' /\ [Next]_vars => [Space!Next]_(Space!vars)
  BY StepImplementsSpace
<1> QED
  BY InductiveInvariant, <1>1, <1>2, PTL DEF Spec, AddressSpaceSpec, Space!Spec

-----------------------------------------------------------------------------
(* The digits of a unit.                                                   *)

Units16 == 0..(Word - 1)

\* The values of a unit, as digits see them.
LEMMA WordIs == Word \in Nat /\ Word = 16 * 4096
BY DEF Word

\* The nibble number j of a unit.
Digit(u, j) == (u \div 16 ^ j) % 16

\* Division by sixteen.
LEMMA DivMod16 ==
  ASSUME NEW n \in Nat
  PROVE  /\ n \div 16 \in Nat /\ n % 16 \in 0..15
         /\ n = 16 * (n \div 16) + (n % 16)
OBVIOUS

\* A unit is its four nibbles, and what the decoders take of it are some.
LEMMA Digits ==
  ASSUME NEW u \in Units16
  PROVE  /\ \A j \in 0..3 : Digit(u, j) \in 0..15
         /\ u = Digit(u, 0) + 16 * Digit(u, 1) + 256 * Digit(u, 2)
                  + 4096 * Digit(u, 3)
         /\ u % 256 = Digit(u, 0) + 16 * Digit(u, 1)
         /\ u \div 256 = Digit(u, 2) + 16 * Digit(u, 3)
         /\ (u \div 256) % 16 = Digit(u, 2)
         /\ (u \div 256) \div 16 = Digit(u, 3)
<1>0. u \in Nat /\ u < 16 * 4096
  BY WordIs DEF Units16
<1> DEFINE d0 == u % 16
           q1 == u \div 16
<1>1. d0 \in 0..15 /\ q1 \in Nat /\ u = 16 * q1 + d0
  BY <1>0, DivMod16
<1>a. Digit(u, 0) = d0 /\ Digit(u, 1) = q1 % 16 /\ (u \div 16) = q1
  <2>1. 16 ^ 0 = 1 /\ 16 ^ 1 = 16
    OBVIOUS
  <2>2. u \div 1 = u
    BY <1>0
  <2> QED
    BY <2>1, <2>2 DEF Digit
<1> HIDE DEF d0, q1
<1>2. q1 < 4096
  BY <1>0, <1>1
<1> DEFINE d1 == q1 % 16
           q2 == q1 \div 16
<1>3. d1 \in 0..15 /\ q2 \in Nat /\ q1 = 16 * q2 + d1
  BY <1>1, DivMod16
<1>4. Digit(u, 1) = d1
  BY <1>a
<1> HIDE DEF d1, q2
<1>5. q2 < 256
  BY <1>2, <1>3
<1> DEFINE d2 == q2 % 16
           d3 == q2 \div 16
<1>6. d2 \in 0..15 /\ d3 \in Nat /\ q2 = 16 * d3 + d2
  BY <1>3, DivMod16
<1>7. q2 % 16 = d2 /\ q2 \div 16 = d3
  OBVIOUS
<1> HIDE DEF d2, d3
<1>8. d3 \in 0..15
  BY <1>5, <1>6
<1>9. u \div 256 = q2 /\ u % 256 = 16 * d1 + d0
  <2> DEFINE r == 16 * d1 + d0
  <2>1. u \in Int /\ q2 \in Int /\ r \in 0..255 /\ u = 256 * q2 + r /\ q2 \in 0..255
    BY <1>0, <1>1, <1>3, <1>5
  <2> HIDE DEF r
  <2>2. u \div 256 = q2 /\ u % 256 = r
    BY ONLY <2>1
  <2> QED
    BY <2>2 DEF r
<1>10. u \div 4096 = d3
  <2> DEFINE r == 256 * d2 + 16 * d1 + d0
  <2>1. u \in Int /\ d3 \in Int /\ r \in 0..4095 /\ u = 4096 * d3 + r
    BY <1>0, <1>1, <1>3, <1>6, <1>8
  <2> HIDE DEF r
  <2> QED
    BY ONLY <2>1, <1>8
<1>11. Digit(u, 2) = d2
  <2>1. 16 ^ 2 = 256
    OBVIOUS
  <2> QED
    BY <2>1, <1>7, <1>9 DEF Digit
<1>12. Digit(u, 3) = d3
  <2>1. 16 ^ 3 = 4096
    OBVIOUS
  <2>2. d3 % 16 = d3
    BY <1>8
  <2> QED
    BY <2>1, <2>2, <1>10 DEF Digit
<1>13. \A j \in 0..3 : Digit(u, j) \in 0..15
  <2>1. \A j \in 0..3 : j = 0 \/ j = 1 \/ j = 2 \/ j = 3
    OBVIOUS
  <2> QED
    BY <1>1, <1>3, <1>4, <1>6, <1>8, <1>a, <1>11, <1>12, <2>1
<1>14. u = d0 + 16 * d1 + 256 * d2 + 4096 * d3
  BY <1>1, <1>3, <1>6, <1>8
<1>15. 16 * d1 + d0 = d0 + 16 * d1 /\ q2 = d2 + 16 * d3
  BY <1>1, <1>3, <1>6, <1>8
<1> QED
  BY <1>a, <1>4, <1>7, <1>9, <1>11, <1>12, <1>13, <1>14, <1>15

-----------------------------------------------------------------------------
(* Numbers.                                                                *)

\* The number of eight digits is the last value of its sum.
LEMMA NumberSum ==
  ASSUME NEW s, NEW n \in 1..8, s \in [1..n -> Int]
  PROVE  \E sum : /\ Number(s) = sum[n]
                  /\ sum[0] = 0
                  /\ \A i \in 1..n : sum[i] = sum[i - 1] + s[i] * 16 ^ (i - 1)
<1> DEFINE Rec(f) == f = [i \in 0..Len(s) |->
                            IF i = 0 THEN 0 ELSE f[i - 1] + s[i] * 16 ^ (i - 1)]
           e(i) == s[i] * 16 ^ (i - 1)
           s1 == 0 + e(1)
           s2 == s1 + e(2)
           s3 == s2 + e(3)
           s4 == s3 + e(4)
           s5 == s4 + e(5)
           s6 == s5 + e(6)
           s7 == s6 + e(7)
           s8 == s7 + e(8)
           W == [i \in 0..n |-> IF i = 0 THEN 0 ELSE IF i = 1 THEN s1
                  ELSE IF i = 2 THEN s2 ELSE IF i = 3 THEN s3
                  ELSE IF i = 4 THEN s4 ELSE IF i = 5 THEN s5
                  ELSE IF i = 6 THEN s6 ELSE IF i = 7 THEN s7 ELSE s8]
<1>1. Len(s) = n
  OBVIOUS
<1>2. Number(s) = (CHOOSE f : Rec(f))[Len(s)]
  BY DEF Number
<1>3. \E f : Rec(f)
  <2> HIDE DEF e
  <2>1. \A i \in 0..n : W[i] = IF i = 0 THEN 0 ELSE W[i - 1] + e(i)
    <3> SUFFICES ASSUME NEW i \in 0..n
                 PROVE  W[i] = IF i = 0 THEN 0 ELSE W[i - 1] + e(i)
      OBVIOUS
    <3>1. i \in 1..n => i - 1 \in 0..n
      OBVIOUS
    <3> HIDE DEF s1, s2, s3, s4, s5, s6, s7, s8
    <3>2. i = 0 \/ i = 1 \/ i = 2 \/ i = 3 \/ i = 4 \/ i = 5 \/ i = 6 \/ i = 7
            \/ i = 8
      OBVIOUS
    <3>3. CASE i = 0
      BY <3>3
    <3>4. CASE i = 1
      BY <3>4 DEF s1
    <3>5. CASE i = 2
      BY <3>5 DEF s2
    <3>6. CASE i = 3
      BY <3>6 DEF s3
    <3>7. CASE i = 4
      BY <3>7 DEF s4
    <3>8. CASE i = 5
      BY <3>8 DEF s5
    <3>9. CASE i = 6
      BY <3>9 DEF s6
    <3>10. CASE i = 7
      BY <3>10 DEF s7
    <3>11. CASE i = 8
      BY <3>11 DEF s8
    <3> QED
      BY <3>2, <3>3, <3>4, <3>5, <3>6, <3>7, <3>8, <3>9, <3>10, <3>11
  <2>2. DOMAIN W = 0..n /\ W = [i \in 0..n |-> W[i]]
    OBVIOUS
  <2> HIDE DEF W
  <2>3. W = [i \in 0..n |-> IF i = 0 THEN 0 ELSE W[i - 1] + e(i)]
    BY <2>1, <2>2
  <2>4. Rec(W)
    BY <2>3, <1>1 DEF e
  <2> QED
    BY <2>4
<1>4. PICK sum : Rec(sum) /\ Number(s) = sum[Len(s)]
  BY <1>2, <1>3
<1>5. \A i \in 0..n : sum[i] = IF i = 0 THEN 0 ELSE sum[i - 1] + s[i] * 16 ^ (i - 1)
  BY <1>1, <1>4
<1>6. sum[0] = 0
  BY <1>5
<1>7. \A i \in 1..n : i \in 0..n /\ i # 0
  OBVIOUS
<1> QED
  BY <1>1, <1>4, <1>5, <1>6, <1>7

\* The powers of sixteen that places have.
LEMMA Powers ==
  /\ 16 ^ 0 = 1 /\ 16 ^ 1 = 16 /\ 16 ^ 2 = 256 /\ 16 ^ 3 = 4096
  /\ 16 ^ 4 = 65536 /\ 16 ^ 5 = 1048576 /\ 16 ^ 6 = 16777216
  /\ 16 ^ 7 = 268435456
OBVIOUS

\* The number of one digit.
LEMMA Number1 ==
  ASSUME NEW s, s \in [1..1 -> Int]
  PROVE  Number(s) = s[1]
<1>1. PICK sum : /\ Number(s) = sum[1] /\ sum[0] = 0
                 /\ \A i \in 1..1 : sum[i] = sum[i - 1] + s[i] * 16 ^ (i - 1)
  BY NumberSum
<1>2. sum[1] = sum[0] + s[1] * 16 ^ 0
  BY <1>1
<1> QED
  BY <1>1, <1>2, Powers

\* The number of two digits.
LEMMA Number2 ==
  ASSUME NEW s, s \in [1..2 -> Int]
  PROVE  Number(s) = s[1] + 16 * s[2]
<1>1. PICK sum : /\ Number(s) = sum[2] /\ sum[0] = 0
                 /\ \A i \in 1..2 : sum[i] = sum[i - 1] + s[i] * 16 ^ (i - 1)
  BY NumberSum
<1>2. sum[1] = sum[0] + s[1] * 16 ^ 0 /\ sum[2] = sum[1] + s[2] * 16 ^ 1
  BY <1>1
<1> QED
  BY <1>1, <1>2, Powers

\* The number of four digits.
LEMMA Number4 ==
  ASSUME NEW s, s \in [1..4 -> Int]
  PROVE  Number(s) = s[1] + 16 * s[2] + 256 * s[3] + 4096 * s[4]
<1>1. PICK sum : /\ Number(s) = sum[4] /\ sum[0] = 0
                 /\ \A i \in 1..4 : sum[i] = sum[i - 1] + s[i] * 16 ^ (i - 1)
  BY NumberSum
<1>2. /\ sum[1] = sum[0] + s[1] * 16 ^ 0 /\ sum[2] = sum[1] + s[2] * 16 ^ 1
      /\ sum[3] = sum[2] + s[3] * 16 ^ 2 /\ sum[4] = sum[3] + s[4] * 16 ^ 3
  BY <1>1
<1> QED
  BY <1>1, <1>2, Powers

\* The number of eight digits, by halves.
LEMMA Number8 ==
  ASSUME NEW s, s \in [1..8 -> Int]
  PROVE  Number(s) = (s[1] + 16 * s[2] + 256 * s[3] + 4096 * s[4])
                       + Word * (s[5] + 16 * s[6] + 256 * s[7] + 4096 * s[8])
<1>1. PICK sum : /\ Number(s) = sum[8] /\ sum[0] = 0
                 /\ \A i \in 1..8 : sum[i] = sum[i - 1] + s[i] * 16 ^ (i - 1)
  BY NumberSum
<1>2. /\ sum[1] = sum[0] + s[1] * 16 ^ 0 /\ sum[2] = sum[1] + s[2] * 16 ^ 1
      /\ sum[3] = sum[2] + s[3] * 16 ^ 2 /\ sum[4] = sum[3] + s[4] * 16 ^ 3
      /\ sum[5] = sum[4] + s[5] * 16 ^ 4 /\ sum[6] = sum[5] + s[6] * 16 ^ 5
      /\ sum[7] = sum[6] + s[7] * 16 ^ 6 /\ sum[8] = sum[7] + s[8] * 16 ^ 7
  BY <1>1
<1> DEFINE lo == s[1] + 16 * s[2] + 256 * s[3] + 4096 * s[4]
           hi == s[5] + 16 * s[6] + 256 * s[7] + 4096 * s[8]
<1>3. \A i \in 1..8 : s[i] \in Int
  OBVIOUS
<1>4. sum[4] = lo /\ lo \in Int
  BY <1>1, <1>2, <1>3, Powers
<1>5. /\ s[5] * 16 ^ 4 = 65536 * s[5]
      /\ s[6] * 16 ^ 5 = 65536 * (16 * s[6])
      /\ s[7] * 16 ^ 6 = 65536 * (256 * s[7])
      /\ s[8] * 16 ^ 7 = 65536 * (4096 * s[8])
  <2> DEFINE n5 == s[5]
             n6 == s[6]
             n7 == s[7]
             n8 == s[8]
  <2>1. n5 \in Int /\ n6 \in Int /\ n7 \in Int /\ n8 \in Int
    BY <1>3
  <2> HIDE DEF n5, n6, n7, n8
  <2>2. n5 * 16 ^ 4 = 65536 * n5
    BY ONLY <2>1
  <2>3. n6 * 16 ^ 5 = 65536 * (16 * n6)
    BY ONLY <2>1
  <2>4. n7 * 16 ^ 6 = 65536 * (256 * n7)
    BY ONLY <2>1
  <2>5. n8 * 16 ^ 7 = 65536 * (4096 * n8)
    BY ONLY <2>1
  <2> QED
    BY ONLY <2>2, <2>3, <2>4, <2>5 DEF n5, n6, n7, n8
<1> HIDE DEF lo
<1>6. sum[8] = lo + 65536 * hi
  BY <1>2, <1>3, <1>4, <1>5
<1> QED
  BY <1>1, <1>6 DEF lo, Word

-----------------------------------------------------------------------------
(* Fields.                                                                 *)

\* Field x of a layout is its nibbles from the place first on, n of them.
Places(l, x, first, n) ==
  {k \in DOMAIN l : l[k] = x} = first..(first + n - 1)

\* A field is the nibbles of its places, lowest first.
LEMMA FieldIs ==
  ASSUME NEW a, NEW x, NEW first \in 1..20, NEW n \in 1..16,
         Places(Layout(FormatOf(Opcode(a))), x, first, n)
  PROVE  /\ DOMAIN Field(a, x) = 1..n
         /\ \A i \in 1..n : Field(a, x)[i] = Nibble(a, first + i - 2)
<1> DEFINE layout == Layout(FormatOf(Opcode(a)))
           places == {k \in DOMAIN layout : layout[k] = x}
           p == CHOOSE k \in places : \A l \in places : k <= l
<1>1. places = first..(first + n - 1)
  BY DEF Places
<1>2. Field(a, x) = [i \in {k - p + 1 : k \in places} |-> Nibble(a, p + i - 2)]
  BY DEF Field
<1> HIDE DEF places
<1>3. first \in places /\ \A l \in places : first <= l
  BY <1>1
<1>4. p \in places /\ \A l \in places : p <= l
  BY <1>3
<1> HIDE DEF p
<1>5. p = first
  BY <1>1, <1>3, <1>4
<1>6. {k - first + 1 : k \in places} = 1..n
  <2>1. \A k \in places : k - first + 1 \in 1..n
    BY <1>1
  <2>2. \A i \in 1..n : i + first - 1 \in places /\ i = (i + first - 1) - first + 1
    BY <1>1
  <2>3. \A i \in 1..n : \E k \in places : i = k - first + 1
    BY <2>2
  <2> QED
    BY <2>1, <2>3
<1> QED
  BY <1>2, <1>5, <1>6

\* Which fields a format has, and where.
LEMMA Layouts ==
  /\ \A f \in {"10x"} :
       /\ Len(Layout(f)) = 4
  /\ \A f \in {"12x", "11n"} :
       /\ Len(Layout(f)) = 4 /\ Places(Layout(f), "A", 3, 1)
       /\ Places(Layout(f), "B", 4, 1)
  /\ \A f \in {"11x", "10t"} :
       /\ Len(Layout(f)) = 4 /\ Places(Layout(f), "A", 3, 2)
  /\ \A f \in {"20t"} :
       /\ Len(Layout(f)) = 8 /\ Places(Layout(f), "A", 5, 4)
  /\ \A f \in {"22x", "21t", "21s", "21h", "21c"} :
       /\ Len(Layout(f)) = 8 /\ Places(Layout(f), "A", 3, 2)
       /\ Places(Layout(f), "B", 5, 4)
  /\ \A f \in {"23x", "22b"} :
       /\ Len(Layout(f)) = 8 /\ Places(Layout(f), "A", 3, 2)
       /\ Places(Layout(f), "B", 5, 2) /\ Places(Layout(f), "C", 7, 2)
  /\ \A f \in {"22t", "22s", "22c"} :
       /\ Len(Layout(f)) = 8 /\ Places(Layout(f), "A", 3, 1)
       /\ Places(Layout(f), "B", 4, 1) /\ Places(Layout(f), "C", 5, 4)
  /\ \A f \in {"30t"} :
       /\ Len(Layout(f)) = 12 /\ Places(Layout(f), "A", 5, 8)
  /\ \A f \in {"32x"} :
       /\ Len(Layout(f)) = 12 /\ Places(Layout(f), "A", 5, 4)
       /\ Places(Layout(f), "B", 9, 4)
  /\ \A f \in {"31i", "31t", "31c"} :
       /\ Len(Layout(f)) = 12 /\ Places(Layout(f), "A", 3, 2)
       /\ Places(Layout(f), "B", 5, 8)
  /\ \A f \in {"35c"} :
       /\ Len(Layout(f)) = 12 /\ Places(Layout(f), "G", 3, 1)
       /\ Places(Layout(f), "A", 4, 1) /\ Places(Layout(f), "B", 5, 4)
       /\ Places(Layout(f), "C", 9, 1) /\ Places(Layout(f), "D", 10, 1)
       /\ Places(Layout(f), "E", 11, 1) /\ Places(Layout(f), "F", 12, 1)
  /\ \A f \in {"3rc"} :
       /\ Len(Layout(f)) = 12 /\ Places(Layout(f), "A", 3, 2)
       /\ Places(Layout(f), "B", 5, 4) /\ Places(Layout(f), "C", 9, 4)
  /\ \A f \in {"45cc"} :
       /\ Len(Layout(f)) = 16 /\ Places(Layout(f), "G", 3, 1)
       /\ Places(Layout(f), "A", 4, 1) /\ Places(Layout(f), "B", 5, 4)
       /\ Places(Layout(f), "C", 9, 1) /\ Places(Layout(f), "D", 10, 1)
       /\ Places(Layout(f), "E", 11, 1) /\ Places(Layout(f), "F", 12, 1)
       /\ Places(Layout(f), "H", 13, 4)
  /\ \A f \in {"4rcc"} :
       /\ Len(Layout(f)) = 16 /\ Places(Layout(f), "A", 3, 2)
       /\ Places(Layout(f), "B", 5, 4) /\ Places(Layout(f), "C", 9, 4)
       /\ Places(Layout(f), "H", 13, 4)
  /\ \A f \in {"51l"} :
       /\ Len(Layout(f)) = 20 /\ Places(Layout(f), "A", 3, 2)
       /\ Places(Layout(f), "B", 5, 16)
<1>1. \A f \in {"10x"} :
       /\ Len(Layout(f)) = 4
  <2> DEFINE l == <<"op", "op", "-", "-">>
  <2>1. \A f \in {"10x"} : Layout(f) = l
    BY DEF Layout
  <2>2. Len(l) = 4
    OBVIOUS
  <2> HIDE DEF l
  <2> QED
    BY <2>1, <2>2
<1>2. \A f \in {"12x", "11n"} :
       /\ Len(Layout(f)) = 4 /\ Places(Layout(f), "A", 3, 1)
       /\ Places(Layout(f), "B", 4, 1)
  <2> DEFINE l == <<"op", "op", "A", "B">>
  <2>1. \A f \in {"12x", "11n"} : Layout(f) = l
    BY DEF Layout
  <2>2. Len(l) = 4
    OBVIOUS
  <2>3. Places(l, "A", 3, 1)
    BY DEF Places
  <2>4. Places(l, "B", 4, 1)
    BY DEF Places
  <2> HIDE DEF l
  <2> QED
    BY <2>1, <2>2, <2>3, <2>4
<1>3. \A f \in {"11x", "10t"} :
       /\ Len(Layout(f)) = 4 /\ Places(Layout(f), "A", 3, 2)
  <2> DEFINE l == <<"op", "op", "A", "A">>
  <2>1. \A f \in {"11x", "10t"} : Layout(f) = l
    BY DEF Layout
  <2>2. Len(l) = 4
    OBVIOUS
  <2>3. Places(l, "A", 3, 2)
    BY DEF Places
  <2> HIDE DEF l
  <2> QED
    BY <2>1, <2>2, <2>3
<1>4. \A f \in {"20t"} :
       /\ Len(Layout(f)) = 8 /\ Places(Layout(f), "A", 5, 4)
  <2> DEFINE l == <<"op", "op", "-", "-", "A", "A", "A", "A">>
  <2>1. \A f \in {"20t"} : Layout(f) = l
    BY DEF Layout
  <2>2. Len(l) = 8
    OBVIOUS
  <2>3. Places(l, "A", 5, 4)
    BY DEF Places
  <2> HIDE DEF l
  <2> QED
    BY <2>1, <2>2, <2>3
<1>5. \A f \in {"22x", "21t", "21s", "21h", "21c"} :
       /\ Len(Layout(f)) = 8 /\ Places(Layout(f), "A", 3, 2)
       /\ Places(Layout(f), "B", 5, 4)
  <2> DEFINE l == <<"op", "op", "A", "A", "B", "B", "B", "B">>
  <2>1. \A f \in {"22x", "21t", "21s", "21h", "21c"} : Layout(f) = l
    BY DEF Layout
  <2>2. Len(l) = 8
    OBVIOUS
  <2>3. Places(l, "A", 3, 2)
    BY DEF Places
  <2>4. Places(l, "B", 5, 4)
    BY DEF Places
  <2> HIDE DEF l
  <2> QED
    BY <2>1, <2>2, <2>3, <2>4
<1>6. \A f \in {"23x", "22b"} :
       /\ Len(Layout(f)) = 8 /\ Places(Layout(f), "A", 3, 2)
       /\ Places(Layout(f), "B", 5, 2) /\ Places(Layout(f), "C", 7, 2)
  <2> DEFINE l == <<"op", "op", "A", "A", "B", "B", "C", "C">>
  <2>1. \A f \in {"23x", "22b"} : Layout(f) = l
    BY DEF Layout
  <2>2. Len(l) = 8
    OBVIOUS
  <2>3. Places(l, "A", 3, 2)
    BY DEF Places
  <2>4. Places(l, "B", 5, 2)
    BY DEF Places
  <2>5. Places(l, "C", 7, 2)
    BY DEF Places
  <2> HIDE DEF l
  <2> QED
    BY <2>1, <2>2, <2>3, <2>4, <2>5
<1>7. \A f \in {"22t", "22s", "22c"} :
       /\ Len(Layout(f)) = 8 /\ Places(Layout(f), "A", 3, 1)
       /\ Places(Layout(f), "B", 4, 1) /\ Places(Layout(f), "C", 5, 4)
  <2> DEFINE l == <<"op", "op", "A", "B", "C", "C", "C", "C">>
  <2>1. \A f \in {"22t", "22s", "22c"} : Layout(f) = l
    BY DEF Layout
  <2>2. Len(l) = 8
    OBVIOUS
  <2>3. Places(l, "A", 3, 1)
    BY DEF Places
  <2>4. Places(l, "B", 4, 1)
    BY DEF Places
  <2>5. Places(l, "C", 5, 4)
    BY DEF Places
  <2> HIDE DEF l
  <2> QED
    BY <2>1, <2>2, <2>3, <2>4, <2>5
<1>8. \A f \in {"30t"} :
       /\ Len(Layout(f)) = 12 /\ Places(Layout(f), "A", 5, 8)
  <2> DEFINE l == <<"op", "op", "-", "-", "A", "A", "A", "A", "A", "A", "A",
                            "A">>
  <2>1. \A f \in {"30t"} : Layout(f) = l
    BY DEF Layout
  <2>2. Len(l) = 12
    OBVIOUS
  <2>3. Places(l, "A", 5, 8)
    BY DEF Places
  <2> HIDE DEF l
  <2> QED
    BY <2>1, <2>2, <2>3
<1>9. \A f \in {"32x"} :
       /\ Len(Layout(f)) = 12 /\ Places(Layout(f), "A", 5, 4)
       /\ Places(Layout(f), "B", 9, 4)
  <2> DEFINE l == <<"op", "op", "-", "-", "A", "A", "A", "A", "B", "B", "B",
                            "B">>
  <2>1. \A f \in {"32x"} : Layout(f) = l
    BY DEF Layout
  <2>2. Len(l) = 12
    OBVIOUS
  <2>3. Places(l, "A", 5, 4)
    BY DEF Places
  <2>4. Places(l, "B", 9, 4)
    BY DEF Places
  <2> HIDE DEF l
  <2> QED
    BY <2>1, <2>2, <2>3, <2>4
<1>10. \A f \in {"31i", "31t", "31c"} :
       /\ Len(Layout(f)) = 12 /\ Places(Layout(f), "A", 3, 2)
       /\ Places(Layout(f), "B", 5, 8)
  <2> DEFINE l == <<"op", "op", "A", "A", "B", "B", "B", "B", "B", "B", "B",
                            "B">>
  <2>1. \A f \in {"31i", "31t", "31c"} : Layout(f) = l
    BY DEF Layout
  <2>2. Len(l) = 12
    OBVIOUS
  <2>3. Places(l, "A", 3, 2)
    BY DEF Places
  <2>4. Places(l, "B", 5, 8)
    BY DEF Places
  <2> HIDE DEF l
  <2> QED
    BY <2>1, <2>2, <2>3, <2>4
<1>11. \A f \in {"35c"} :
       /\ Len(Layout(f)) = 12 /\ Places(Layout(f), "G", 3, 1)
       /\ Places(Layout(f), "A", 4, 1) /\ Places(Layout(f), "B", 5, 4)
       /\ Places(Layout(f), "C", 9, 1) /\ Places(Layout(f), "D", 10, 1)
       /\ Places(Layout(f), "E", 11, 1) /\ Places(Layout(f), "F", 12, 1)
  <2> DEFINE l == <<"op", "op", "G", "A", "B", "B", "B", "B", "C", "D", "E",
                            "F">>
  <2>1. \A f \in {"35c"} : Layout(f) = l
    BY DEF Layout
  <2>2. Len(l) = 12
    OBVIOUS
  <2>3. Places(l, "G", 3, 1)
    BY DEF Places
  <2>4. Places(l, "A", 4, 1)
    BY DEF Places
  <2>5. Places(l, "B", 5, 4)
    BY DEF Places
  <2>6. Places(l, "C", 9, 1)
    BY DEF Places
  <2>7. Places(l, "D", 10, 1)
    BY DEF Places
  <2>8. Places(l, "E", 11, 1)
    BY DEF Places
  <2>9. Places(l, "F", 12, 1)
    BY DEF Places
  <2> HIDE DEF l
  <2> QED
    BY <2>1, <2>2, <2>3, <2>4, <2>5, <2>6, <2>7, <2>8, <2>9
<1>12. \A f \in {"3rc"} :
       /\ Len(Layout(f)) = 12 /\ Places(Layout(f), "A", 3, 2)
       /\ Places(Layout(f), "B", 5, 4) /\ Places(Layout(f), "C", 9, 4)
  <2> DEFINE l == <<"op", "op", "A", "A", "B", "B", "B", "B", "C", "C", "C",
                            "C">>
  <2>1. \A f \in {"3rc"} : Layout(f) = l
    BY DEF Layout
  <2>2. Len(l) = 12
    OBVIOUS
  <2>3. Places(l, "A", 3, 2)
    BY DEF Places
  <2>4. Places(l, "B", 5, 4)
    BY DEF Places
  <2>5. Places(l, "C", 9, 4)
    BY DEF Places
  <2> HIDE DEF l
  <2> QED
    BY <2>1, <2>2, <2>3, <2>4, <2>5
<1>13. \A f \in {"45cc"} :
       /\ Len(Layout(f)) = 16 /\ Places(Layout(f), "G", 3, 1)
       /\ Places(Layout(f), "A", 4, 1) /\ Places(Layout(f), "B", 5, 4)
       /\ Places(Layout(f), "C", 9, 1) /\ Places(Layout(f), "D", 10, 1)
       /\ Places(Layout(f), "E", 11, 1) /\ Places(Layout(f), "F", 12, 1)
       /\ Places(Layout(f), "H", 13, 4)
  <2> DEFINE l == <<"op", "op", "G", "A", "B", "B", "B", "B", "C", "D", "E",
                            "F", "H", "H", "H", "H">>
  <2>1. \A f \in {"45cc"} : Layout(f) = l
    BY DEF Layout
  <2>2. Len(l) = 16
    OBVIOUS
  <2>3. Places(l, "G", 3, 1)
    BY DEF Places
  <2>4. Places(l, "A", 4, 1)
    BY DEF Places
  <2>5. Places(l, "B", 5, 4)
    BY DEF Places
  <2>6. Places(l, "C", 9, 1)
    BY DEF Places
  <2>7. Places(l, "D", 10, 1)
    BY DEF Places
  <2>8. Places(l, "E", 11, 1)
    BY DEF Places
  <2>9. Places(l, "F", 12, 1)
    BY DEF Places
  <2>10. Places(l, "H", 13, 4)
    BY DEF Places
  <2> HIDE DEF l
  <2> QED
    BY <2>1, <2>2, <2>3, <2>4, <2>5, <2>6, <2>7, <2>8, <2>9, <2>10
<1>14. \A f \in {"4rcc"} :
       /\ Len(Layout(f)) = 16 /\ Places(Layout(f), "A", 3, 2)
       /\ Places(Layout(f), "B", 5, 4) /\ Places(Layout(f), "C", 9, 4)
       /\ Places(Layout(f), "H", 13, 4)
  <2> DEFINE l == <<"op", "op", "A", "A", "B", "B", "B", "B", "C", "C", "C",
                            "C", "H", "H", "H", "H">>
  <2>1. \A f \in {"4rcc"} : Layout(f) = l
    BY DEF Layout
  <2>2. Len(l) = 16
    OBVIOUS
  <2>3. Places(l, "A", 3, 2)
    BY DEF Places
  <2>4. Places(l, "B", 5, 4)
    BY DEF Places
  <2>5. Places(l, "C", 9, 4)
    BY DEF Places
  <2>6. Places(l, "H", 13, 4)
    BY DEF Places
  <2> HIDE DEF l
  <2> QED
    BY <2>1, <2>2, <2>3, <2>4, <2>5, <2>6
<1>15. \A f \in {"51l"} :
       /\ Len(Layout(f)) = 20 /\ Places(Layout(f), "A", 3, 2)
       /\ Places(Layout(f), "B", 5, 16)
  <2> DEFINE l == <<"op", "op", "A", "A", "B", "B", "B", "B", "B", "B", "B",
                            "B", "B", "B", "B", "B", "B", "B", "B", "B">>
  <2>1. \A f \in {"51l"} : Layout(f) = l
    BY DEF Layout
  <2>2. Len(l) = 20
    OBVIOUS
  <2>3. Places(l, "A", 3, 2)
    BY DEF Places
  <2>4. Places(l, "B", 5, 16)
    BY DEF Places
  <2> HIDE DEF l
  <2> QED
    BY <2>1, <2>2, <2>3, <2>4
<1> QED
  BY <1>1, <1>2, <1>3, <1>4, <1>5, <1>6, <1>7, <1>8, <1>9, <1>10, <1>11, <1>12, <1>13, <1>14, <1>15

-----------------------------------------------------------------------------
(* The numbers of fields.                                                  *)

\* n nibbles of the instruction at a, from the place first on.
Span(a, first, n) == [i \in 1..n |-> Nibble(a, first + i - 2)]

\* A field is the span of its places.
LEMMA FieldSpan ==
  ASSUME NEW a, NEW x, NEW first \in 1..20, NEW n \in 1..16,
         Places(Layout(FormatOf(Opcode(a))), x, first, n)
  PROVE  Field(a, x) = Span(a, first, n)
<1>1. /\ DOMAIN Field(a, x) = 1..n
      /\ \A i \in 1..n : Field(a, x)[i] = Nibble(a, first + i - 2)
  BY FieldIs
<1>2. Field(a, x) = [i \in DOMAIN Field(a, x) |-> Field(a, x)[i]]
  BY DEF Field
<1> QED
  BY <1>1, <1>2 DEF Span

\* A nibble of an instruction is a digit of one of its units.
LEMMA NibbleIs ==
  ASSUME NEW a, NEW m \in 0..4, NEW j \in 0..3
  PROVE  Nibble(a, 4 * m + j) = Digit(Unit(a, m), j)
<1>1. (4 * m + j) \div 4 = m /\ (4 * m + j) % 4 = j
  OBVIOUS
<1> QED
  BY <1>1 DEF Nibble, Digit

\* The nibbles from place j of unit m on.
LEMMA SpanDigits ==
  ASSUME NEW a, NEW m \in 0..4, NEW j \in 0..3, NEW n \in 1..4, j + n <= 4,
         Unit(a, m) \in Units16
  PROVE  /\ Span(a, 4 * m + j + 1, n) \in [1..n -> 0..15]
         /\ \A i \in 1..n : Span(a, 4 * m + j + 1, n)[i]
                              = Digit(Unit(a, m), j + i - 1)
<1>1. ASSUME NEW i \in 1..n
      PROVE  Nibble(a, (4 * m + j + 1) + i - 2) = Digit(Unit(a, m), j + i - 1)
  <2>1. (4 * m + j + 1) + i - 2 = 4 * m + (j + i - 1) /\ j + i - 1 \in 0..3
    OBVIOUS
  <2> QED
    BY <2>1, NibbleIs
<1>2. \A i \in 1..n : j + i - 1 \in 0..3
  OBVIOUS
<1>3. \A i \in 1..n : Digit(Unit(a, m), j + i - 1) \in 0..15
  BY <1>2, Digits
<1> QED
  BY <1>1, <1>3 DEF Span

\* The number of one nibble.
LEMMA SpanNumber1 ==
  ASSUME NEW a, NEW m \in 0..4, NEW j \in 0..3, Unit(a, m) \in Units16
  PROVE  Number(Span(a, 4 * m + j + 1, 1)) = Digit(Unit(a, m), j)
<1> DEFINE s == Span(a, 4 * m + j + 1, 1)
<1>1. s \in [1..1 -> 0..15] /\ \A i \in 1..1 : s[i] = Digit(Unit(a, m), j + i - 1)
  BY SpanDigits
<1>2. s \in [1..1 -> Int] /\ s[1] = Digit(Unit(a, m), j)
  BY <1>1
<1> QED
  BY <1>2, Number1

\* The numbers of the low and of the high byte of a unit.
LEMMA SpanNumber2 ==
  ASSUME NEW a, NEW m \in 0..4, Unit(a, m) \in Units16
  PROVE  /\ Number(Span(a, 4 * m + 1, 2)) = Unit(a, m) % 256
         /\ Number(Span(a, 4 * m + 3, 2)) = Unit(a, m) \div 256
<1> DEFINE u == Unit(a, m)
           d(j) == Digit(u, j)
<1>1. ASSUME NEW j \in {0, 2}
      PROVE  Number(Span(a, 4 * m + j + 1, 2)) = d(j) + 16 * d(j + 1)
  <2> DEFINE s == Span(a, 4 * m + j + 1, 2)
  <2>1. j \in 0..3 /\ j + 2 <= 4
    OBVIOUS
  <2>2. s \in [1..2 -> 0..15] /\ \A i \in 1..2 : s[i] = Digit(u, j + i - 1)
    BY <2>1, SpanDigits
  <2>3. s \in [1..2 -> Int] /\ s[1] = d(j) /\ s[2] = d(j + 1)
    BY <2>2
  <2> HIDE DEF s
  <2>4. Number(s) = s[1] + 16 * s[2]
    BY <2>3, Number2
  <2> QED
    BY <2>3, <2>4 DEF s
<1>2. u % 256 = d(0) + 16 * d(1) /\ u \div 256 = d(2) + 16 * d(3)
  BY Digits
<1>3. 4 * m + 0 + 1 = 4 * m + 1 /\ 4 * m + 2 + 1 = 4 * m + 3 /\ 0 + 1 = 1 /\ 2 + 1 = 3
  OBVIOUS
<1>4. Number(Span(a, 4 * m + 0 + 1, 2)) = d(0) + 16 * d(0 + 1)
  BY <1>1
<1>5. Number(Span(a, 4 * m + 2 + 1, 2)) = d(2) + 16 * d(2 + 1)
  BY <1>1
<1> QED
  BY <1>2, <1>3, <1>4, <1>5

\* A whole unit, and two.
LEMMA SpanUnit ==
  ASSUME NEW a, NEW m \in 0..4, Unit(a, m) \in Units16
  PROVE  LET s == Span(a, 4 * m + 1, 4)
         IN  /\ s \in [1..4 -> 0..15]
             /\ s[1] + 16 * s[2] + 256 * s[3] + 4096 * s[4] = Unit(a, m)
             /\ Number(s) = Unit(a, m)
<1> DEFINE s == Span(a, 4 * m + 0 + 1, 4)
           u == Unit(a, m)
<1>1. s \in [1..4 -> 0..15] /\ \A i \in 1..4 : s[i] = Digit(u, 0 + i - 1)
  BY SpanDigits
<1>2. /\ s \in [1..4 -> Int] /\ s[1] = Digit(u, 0) /\ s[2] = Digit(u, 1)
      /\ s[3] = Digit(u, 2) /\ s[4] = Digit(u, 3)
  BY <1>1
<1>3. Number(s) = s[1] + 16 * s[2] + 256 * s[3] + 4096 * s[4]
  BY <1>2, Number4
<1>4. u = Digit(u, 0) + 16 * Digit(u, 1) + 256 * Digit(u, 2) + 4096 * Digit(u, 3)
  BY Digits
<1>5. 4 * m + 0 + 1 = 4 * m + 1
  OBVIOUS
<1> QED
  BY <1>1, <1>2, <1>3, <1>4, <1>5

\* The eight nibbles of two units, and their number.
LEMMA SpanUnits ==
  ASSUME NEW a, NEW m \in 0..3,
         Unit(a, m) \in Units16, Unit(a, m + 1) \in Units16
  PROVE  LET s == Span(a, 4 * m + 1, 8)
         IN  /\ s \in [1..8 -> 0..15]
             /\ s[1] + 16 * s[2] + 256 * s[3] + 4096 * s[4] = Unit(a, m)
             /\ s[5] + 16 * s[6] + 256 * s[7] + 4096 * s[8] = Unit(a, m + 1)
             /\ Number(s) = Unit(a, m) + Word * Unit(a, m + 1)
<1> DEFINE s == Span(a, 4 * m + 1, 8)
           l == Span(a, 4 * m + 1, 4)
           h == Span(a, 4 * (m + 1) + 1, 4)
<1>0. m \in 0..4 /\ m + 1 \in 0..4
  OBVIOUS
<1>1. /\ l \in [1..4 -> 0..15] /\ Number(l) = Unit(a, m)
      /\ l[1] + 16 * l[2] + 256 * l[3] + 4096 * l[4] = Unit(a, m)
  BY <1>0, SpanUnit
<1>2. /\ h \in [1..4 -> 0..15] /\ Number(h) = Unit(a, m + 1)
      /\ h[1] + 16 * h[2] + 256 * h[3] + 4096 * h[4] = Unit(a, m + 1)
  BY <1>0, SpanUnit
<1>3. \A i \in 1..4 : s[i] = l[i] /\ s[i + 4] = h[i]
  <2> SUFFICES ASSUME NEW i \in 1..4 PROVE s[i] = l[i] /\ s[i + 4] = h[i]
    OBVIOUS
  <2>1. (4 * m + 1) + (i + 4) - 2 = (4 * (m + 1) + 1) + i - 2
    OBVIOUS
  <2>2. i + 4 \in 1..8 /\ i \in 1..8
    OBVIOUS
  <2> QED
    BY <2>1, <2>2 DEF Span
<1>4. s = [i \in 1..8 |-> s[i]]
  BY DEF Span
<1> HIDE DEF s, l, h
<1>5. \A i \in 1..8 : i \in 1..4 \/ (i - 4 \in 1..4 /\ i = (i - 4) + 4)
  OBVIOUS
<1>6. \A i \in 1..8 : s[i] \in 0..15
  BY <1>1, <1>2, <1>3, <1>5
<1>7. s \in [1..8 -> 0..15] /\ s \in [1..8 -> Int]
  BY <1>4, <1>6
<1>8. /\ s[1] = l[1] /\ s[2] = l[2] /\ s[3] = l[3] /\ s[4] = l[4]
      /\ s[5] = h[1] /\ s[6] = h[2] /\ s[7] = h[3] /\ s[8] = h[4]
  <2>1. /\ s[1] = l[1] /\ s[2] = l[2] /\ s[3] = l[3] /\ s[4] = l[4]
        /\ s[1 + 4] = h[1] /\ s[2 + 4] = h[2] /\ s[3 + 4] = h[3]
        /\ s[4 + 4] = h[4]
    BY <1>3
  <2> QED
    BY <2>1
<1>9. Number(s) = (s[1] + 16 * s[2] + 256 * s[3] + 4096 * s[4])
                    + Word * (s[5] + 16 * s[6] + 256 * s[7] + 4096 * s[8])
  BY <1>7, Number8
<1>10. /\ s[1] + 16 * s[2] + 256 * s[3] + 4096 * s[4] = Unit(a, m)
       /\ s[5] + 16 * s[6] + 256 * s[7] + 4096 * s[8] = Unit(a, m + 1)
  BY <1>1, <1>2, <1>8
<1> QED
  BY <1>7, <1>9, <1>10 DEF s

-----------------------------------------------------------------------------
(* Signed numbers and literals.                                            *)

\* A signed number differs from the number in its highest digit.
LEMMA SignedDigits ==
  ASSUME NEW n \in 1..8, NEW s \in [1..n -> 0..15]
  PROVE  \E t \in [1..n -> Int] :
           /\ SignedNumber(s) = Number(t)
           /\ \A i \in 1..(n - 1) : t[i] = s[i]
           /\ t[n] = IF s[n] < 8 THEN s[n] ELSE s[n] - 16
<1> DEFINE t == [s EXCEPT ![Len(s)] = IF @ < 8 THEN @ ELSE @ - 16]
<1>1. Len(s) = n /\ n \in 1..n
  OBVIOUS
<1>2. t = [s EXCEPT ![n] = IF s[n] < 8 THEN s[n] ELSE s[n] - 16]
  BY <1>1
<1>3. SignedNumber(s) = Number(t)
  BY DEF SignedNumber
<1> HIDE DEF t
<1>4. \A i \in 1..n : s[i] \in Int
  OBVIOUS
<1>5. t \in [1..n -> Int]
  BY <1>1, <1>2, <1>4
<1>6. t[n] = IF s[n] < 8 THEN s[n] ELSE s[n] - 16
  BY <1>1, <1>2
<1>7. \A i \in 1..(n - 1) : i \in 1..n /\ i # n
  OBVIOUS
<1>8. \A i \in 1..(n - 1) : t[i] = s[i]
  BY <1>2, <1>7
<1> QED
  BY <1>3, <1>5, <1>6, <1>8

\* Two nibbles with the sign of the second are a signed byte.
LEMMA Signed2 ==
  ASSUME NEW s \in [1..2 -> 0..15]
  PROVE  SignedNumber(s) = Signed(s[1] + 16 * s[2], 256)
<1>1. PICK t \in [1..2 -> Int] :
           /\ SignedNumber(s) = Number(t)
           /\ \A i \in 1..(2 - 1) : t[i] = s[i]
           /\ t[2] = IF s[2] < 8 THEN s[2] ELSE s[2] - 16
  BY SignedDigits
<1>2. t[1] = s[1] /\ s[1] \in 0..15 /\ s[2] \in 0..15
  BY <1>1
<1>3. Number(t) = t[1] + 16 * t[2]
  BY Number2
<1> QED
  BY <1>1, <1>2, <1>3 DEF Signed

\* Four nibbles with the sign of the fourth are a signed unit.
LEMMA Signed4 ==
  ASSUME NEW s \in [1..4 -> 0..15]
  PROVE  SignedNumber(s)
           = Signed(s[1] + 16 * s[2] + 256 * s[3] + 4096 * s[4], Word)
<1>1. PICK t \in [1..4 -> Int] :
           /\ SignedNumber(s) = Number(t)
           /\ \A i \in 1..(4 - 1) : t[i] = s[i]
           /\ t[4] = IF s[4] < 8 THEN s[4] ELSE s[4] - 16
  BY SignedDigits
<1>2. /\ t[1] = s[1] /\ t[2] = s[2] /\ t[3] = s[3]
      /\ s[1] \in 0..15 /\ s[2] \in 0..15 /\ s[3] \in 0..15 /\ s[4] \in 0..15
  BY <1>1
<1>3. Number(t) = t[1] + 16 * t[2] + 256 * t[3] + 4096 * t[4]
  BY Number4
<1> DEFINE low == s[1] + 16 * s[2] + 256 * s[3]
<1>4. low \in 0..4095 /\ s[1] + 16 * s[2] + 256 * s[3] + 4096 * s[4] = low + 4096 * s[4]
  BY <1>2
<1>5. Number(t) = low + 4096 * t[4]
  BY <1>2, <1>3, <1>1
<1> HIDE DEF low
<1>6. Signed(low + 4096 * s[4], Word) = low + 4096 * t[4]
  <2> DEFINE d == s[4]
  <2>1. d \in 0..15 /\ t[4] = IF d < 8 THEN d ELSE d - 16
    BY <1>1, <1>2
  <2> HIDE DEF d
  <2>2. CASE d < 8
    <3>1. 2 * (low + 4096 * d) < Word
      BY <1>4, <2>1, <2>2, WordIs
    <3> QED
      BY <2>1, <2>2, <3>1 DEF Signed, d
  <2>3. CASE ~(d < 8)
    <3>1. ~(2 * (low + 4096 * d) < Word)
      BY <1>4, <2>1, <2>3, WordIs
    <3>2. (low + 4096 * d) - Word = low + 4096 * (d - 16)
      BY <1>4, <2>1, WordIs
    <3>3. Signed(low + 4096 * d, Word) = (low + 4096 * d) - Word
      BY <3>1 DEF Signed
    <3>4. t[4] = d - 16
      BY <2>1, <2>3
    <3> QED
      BY <3>2, <3>3, <3>4 DEF d
  <2> QED
    BY <2>2, <2>3
<1> QED
  BY <1>1, <1>4, <1>5, <1>6

\* Eight nibbles with the sign of the eighth are a signed word of two units.
LEMMA Signed8 ==
  ASSUME NEW s \in [1..8 -> 0..15]
  PROVE  SignedNumber(s)
           = Signed32(s[1] + 16 * s[2] + 256 * s[3] + 4096 * s[4],
                      s[5] + 16 * s[6] + 256 * s[7] + 4096 * s[8])
<1>1. PICK t \in [1..8 -> Int] :
           /\ SignedNumber(s) = Number(t)
           /\ \A i \in 1..(8 - 1) : t[i] = s[i]
           /\ t[8] = IF s[8] < 8 THEN s[8] ELSE s[8] - 16
  BY SignedDigits
<1>2. /\ t[1] = s[1] /\ t[2] = s[2] /\ t[3] = s[3] /\ t[4] = s[4]
      /\ t[5] = s[5] /\ t[6] = s[6] /\ t[7] = s[7]
  BY <1>1
<1>3. Number(t) = (t[1] + 16 * t[2] + 256 * t[3] + 4096 * t[4])
                    + Word * (t[5] + 16 * t[6] + 256 * t[7] + 4096 * t[8])
  BY Number8
<1> DEFINE lo == s[1] + 16 * s[2] + 256 * s[3] + 4096 * s[4]
           h == [i \in 1..4 |-> s[i + 4]]
           hi == h[1] + 16 * h[2] + 256 * h[3] + 4096 * h[4]
<1>4. h \in [1..4 -> 0..15]
  <2>1. \A i \in 1..4 : i + 4 \in 1..8
    OBVIOUS
  <2> QED
    BY <2>1
<1>5. h[1] = s[5] /\ h[2] = s[6] /\ h[3] = s[7] /\ h[4] = s[8]
  OBVIOUS
<1> HIDE DEF h
<1>6. PICK v \in [1..4 -> Int] :
           /\ SignedNumber(h) = Number(v)
           /\ \A i \in 1..(4 - 1) : v[i] = h[i]
           /\ v[4] = IF h[4] < 8 THEN h[4] ELSE h[4] - 16
  BY <1>4, SignedDigits
<1>7. v[1] = t[5] /\ v[2] = t[6] /\ v[3] = t[7] /\ v[4] = t[8]
  BY <1>1, <1>2, <1>5, <1>6
<1>8. Number(v) = t[5] + 16 * t[6] + 256 * t[7] + 4096 * t[8]
  BY <1>7, Number4
<1>9. SignedNumber(h) = Signed(hi, Word)
  BY <1>4, Signed4
<1>10. hi = s[5] + 16 * s[6] + 256 * s[7] + 4096 * s[8]
  BY <1>5
<1>11. \A i \in 1..8 : s[i] \in 0..15
  OBVIOUS
<1>12. lo \in Int /\ hi \in Int
  <2>1. /\ s[1] \in Int /\ s[2] \in Int /\ s[3] \in Int /\ s[4] \in Int
        /\ s[5] \in Int /\ s[6] \in Int /\ s[7] \in Int /\ s[8] \in Int
    BY <1>11
  <2>2. lo \in Int
    BY <2>1
  <2>3. h[1] \in Int /\ h[2] \in Int /\ h[3] \in Int /\ h[4] \in Int
    BY <1>5, <2>1
  <2>4. hi \in Int
    BY <2>3
  <2> QED
    BY <2>2, <2>4
<1> HIDE DEF lo, hi
<1>13. Number(t) = lo + Word * Signed(hi, Word)
  BY <1>2, <1>3, <1>6, <1>8, <1>9 DEF lo
<1>14. Signed(hi, Word) \in Int
  BY <1>12, WordIs DEF Signed
<1>15. lo + Word * Signed(hi, Word) = Signed(hi, Word) * Word + lo
  <2> DEFINE x == Signed(hi, Word)
  <2> HIDE DEF x
  <2>1. x \in Int => lo + Word * x = x * Word + lo
    BY <1>12, WordIs
  <2> QED
    BY <1>14, <2>1 DEF x
<1> QED
  BY <1>1, <1>10, <1>13, <1>15 DEF lo, Signed32

\* The nibbles of a literal: those of its n digits, then its sign.
LiteralNibble(s, n, i) == IF i <= n THEN s[i] ELSE IF s[n] < 8 THEN 0 ELSE 15

\* The unit number k of them.
LiteralUnit(s, n, k) ==
  LiteralNibble(s, n, 4 * (k - 1) + 1)
    + 16 * LiteralNibble(s, n, 4 * (k - 1) + 2)
    + 256 * LiteralNibble(s, n, 4 * (k - 1) + 3)
    + 4096 * LiteralNibble(s, n, 4 * (k - 1) + 4)

\* The units of a literal, by the nibbles in each.
LEMMA LiteralUnits ==
  ASSUME NEW n \in 1..16, NEW s \in [1..n -> 0..15]
  PROVE  /\ Literal(s) = [k \in 1..4 |-> Literal(s)[k]]
         /\ \A k \in 1..4 :
              Literal(s)[k] = LiteralUnit(s, n, k)
<1> DEFINE digits(k) == [i \in 1..4 |-> LiteralNibble(s, n, 4 * (k - 1) + i)]
<1>1. Len(s) = n
  OBVIOUS
<1>2. Literal(s) = [k \in 1..4 |-> Number(digits(k))]
  BY <1>1 DEF Literal, LiteralNibble
<1>3. ASSUME NEW k \in 1..4
      PROVE  digits(k) \in [1..4 -> Int]
  <2>1. \A i \in 1..4 : 4 * (k - 1) + i \in 1..16 /\ n \in 1..n
    OBVIOUS
  <2>2. \A j \in 1..16 : LiteralNibble(s, n, j) \in Int
    BY DEF LiteralNibble
  <2> QED
    BY <2>1, <2>2
<1>4. ASSUME NEW k \in 1..4
      PROVE  Number(digits(k)) = LiteralUnit(s, n, k)
  <2> DEFINE d == digits(k)
  <2>1. d[1] = LiteralNibble(s, n, 4 * (k - 1) + 1)
          /\ d[2] = LiteralNibble(s, n, 4 * (k - 1) + 2)
          /\ d[3] = LiteralNibble(s, n, 4 * (k - 1) + 3)
          /\ d[4] = LiteralNibble(s, n, 4 * (k - 1) + 4)
    OBVIOUS
  <2>2. d \in [1..4 -> Int]
    BY <1>3
  <2> HIDE DEF d
  <2>3. Number(d) = d[1] + 16 * d[2] + 256 * d[3] + 4096 * d[4]
    BY <2>2, Number4
  <2> QED
    BY <2>1, <2>3 DEF d, LiteralUnit
<1> HIDE DEF digits
<1> QED
  BY <1>2, <1>4

\* A unit of a constant that only repeats the sign.
LEMMA LiteralSign ==
  ASSUME NEW n \in 1..16, NEW s \in [1..n -> 0..15], NEW k \in 1..4,
         4 * (k - 1) >= n
  PROVE  Literal(s)[k] = IF s[n] < 8 THEN 0 ELSE Word - 1
<1> DEFINE sign == IF s[n] < 8 THEN 0 ELSE 15
<1>1. LiteralNibble(s, n, 4 * (k - 1) + 1) = sign
        /\ LiteralNibble(s, n, 4 * (k - 1) + 2) = sign
        /\ LiteralNibble(s, n, 4 * (k - 1) + 3) = sign
        /\ LiteralNibble(s, n, 4 * (k - 1) + 4) = sign
  BY DEF LiteralNibble
<1>2. Literal(s)[k] = LiteralUnit(s, n, k)
  BY LiteralUnits
<1>3. Word - 1 = 15 + 16 * 15 + 256 * 15 + 4096 * 15
  BY WordIs
<1> HIDE DEF sign
<1>4. Literal(s)[k] = sign + 16 * sign + 256 * sign + 4096 * sign
  BY <1>1, <1>2 DEF LiteralUnit
<1>5. CASE s[n] < 8
  <2>1. sign = 0
    BY <1>5 DEF sign
  <2> QED
    BY <1>4, <1>5, <2>1
<1>6. CASE ~(s[n] < 8)
  <2>1. sign = 15
    BY <1>6 DEF sign
  <2> QED
    BY <1>3, <1>4, <1>6, <2>1
<1> QED
  BY <1>5, <1>6

\* Four units are equal to four others one by one.
LEMMA FourUnits ==
  ASSUME NEW f, f = [k \in 1..4 |-> f[k]]
  PROVE  f = <<f[1], f[2], f[3], f[4]>>
<1> DEFINE g == <<f[1], f[2], f[3], f[4]>>
<1>1. \A k \in 1..4 : g[k] = f[k]
  OBVIOUS
<1>2. g = [k \in 1..4 |-> g[k]]
  OBVIOUS
<1> QED
  BY <1>1, <1>2

\* What the decoder extends a small number to.
LEMMA Const16Is ==
  ASSUME NEW v \in Int, -Word <= v, v < Word
  PROVE  Const16(v) = IF v < 0 THEN <<v + Word, Word - 1, Word - 1, Word - 1>>
                      ELSE <<v, 0, 0, 0>>
<1>1. v % Word = IF v < 0 THEN v + Word ELSE v
  BY DEF Word
<1>2. CASE v < 0
  <2>1. ~(2 * (Word - 1) < Word)
    BY WordIs
  <2>2. Const16(v) = Const32(v + Word, Word - 1)
    BY <1>1, <1>2 DEF Const16
  <2> QED
    BY <1>2, <2>1, <2>2 DEF Const32
<1>3. CASE ~(v < 0)
  <2>1. 2 * 0 < Word
    BY WordIs
  <2>2. Const16(v) = Const32(v, 0)
    BY <1>1, <1>3 DEF Const16
  <2> QED
    BY <1>3, <2>1, <2>2 DEF Const32
<1> QED
  BY <1>2, <1>3

\* A literal is its four units.
LEMMA LiteralTuple ==
  ASSUME NEW n \in 1..16, NEW s \in [1..n -> 0..15]
  PROVE  Literal(s) = <<LiteralUnit(s, n, 1), LiteralUnit(s, n, 2),
                        LiteralUnit(s, n, 3), LiteralUnit(s, n, 4)>>
<1>1. Literal(s) = [k \in 1..4 |-> Literal(s)[k]]
        /\ \A k \in 1..4 : Literal(s)[k] = LiteralUnit(s, n, k)
  BY LiteralUnits
<1>2. Literal(s) = <<Literal(s)[1], Literal(s)[2], Literal(s)[3], Literal(s)[4]>>
  BY <1>1, FourUnits
<1> QED
  BY <1>1, <1>2

\* Behind the nibbles of a literal there is its sign.
LEMMA LiteralSigns ==
  ASSUME NEW n \in 1..16, NEW s \in [1..n -> 0..15], NEW k \in 1..4,
         4 * (k - 1) >= n
  PROVE  LiteralUnit(s, n, k) = IF s[n] < 8 THEN 0 ELSE Word - 1
<1>1. Literal(s)[k] = LiteralUnit(s, n, k)
  BY LiteralUnits
<1> QED
  BY <1>1, LiteralSign

\* The literal of one nibble, as in const/4.
LEMMA Literal1 ==
  ASSUME NEW s \in [1..1 -> 0..15]
  PROVE  Literal(s) = Const16(Signed(s[1], 16))
<1> DEFINE d == s[1]
           v == Signed(d, 16)
           sign == IF d < 8 THEN 0 ELSE Word - 1
<1>1. Literal(s) = <<LiteralUnit(s, 1, 1), LiteralUnit(s, 1, 2),
                     LiteralUnit(s, 1, 3), LiteralUnit(s, 1, 4)>>
  BY LiteralTuple
<1>2. LiteralUnit(s, 1, 2) = sign /\ LiteralUnit(s, 1, 3) = sign
        /\ LiteralUnit(s, 1, 4) = sign
  BY LiteralSigns
<1>3. LiteralUnit(s, 1, 1) = IF d < 8 THEN d ELSE d + 16 * 15 + 256 * 15 + 4096 * 15
  BY DEF LiteralUnit, LiteralNibble
<1>4. d \in 0..15
  OBVIOUS
<1> HIDE DEF d
<1>5. v = (IF d < 8 THEN d ELSE d - 16) /\ v \in -8..7 /\ (v < 0 <=> ~(d < 8))
  BY <1>4 DEF Signed
<1>6. -Word <= v /\ v < Word /\ v \in Int
  BY <1>5, WordIs
<1> HIDE DEF v
<1>7. Const16(v) = IF v < 0 THEN <<v + Word, Word - 1, Word - 1, Word - 1>>
                   ELSE <<v, 0, 0, 0>>
  BY <1>6, Const16Is
<1>8. CASE d < 8
  <2>1. LiteralUnit(s, 1, 1) = v /\ sign = 0
    BY <1>3, <1>5, <1>8
  <2> QED
    BY <1>1, <1>2, <1>5, <1>7, <1>8, <2>1 DEF d, v
<1>9. CASE ~(d < 8)
  <2>1. LiteralUnit(s, 1, 1) = v + Word /\ sign = Word - 1
    <3>1. d + 16 * 15 + 256 * 15 + 4096 * 15 = (d - 16) + Word
      BY <1>4, WordIs
    <3> QED
      BY <1>3, <1>5, <1>9, <3>1
  <2> QED
    BY <1>1, <1>2, <1>5, <1>7, <1>9, <2>1 DEF d, v
<1> QED
  BY <1>8, <1>9

\* The literal of a byte.
LEMMA Literal2 ==
  ASSUME NEW s \in [1..2 -> 0..15]
  PROVE  Literal(s) = Const16(Signed(s[1] + 16 * s[2], 256))
<1> DEFINE c == s[1]
           d == s[2]
           v == Signed(c + 16 * d, 256)
           sign == IF d < 8 THEN 0 ELSE Word - 1
<1>1. Literal(s) = <<LiteralUnit(s, 2, 1), LiteralUnit(s, 2, 2),
                     LiteralUnit(s, 2, 3), LiteralUnit(s, 2, 4)>>
  BY LiteralTuple
<1>2. LiteralUnit(s, 2, 2) = sign /\ LiteralUnit(s, 2, 3) = sign
        /\ LiteralUnit(s, 2, 4) = sign
  BY LiteralSigns
<1>3. LiteralUnit(s, 2, 1) = IF d < 8 THEN c + 16 * d
                             ELSE c + 16 * d + 256 * 15 + 4096 * 15
  BY DEF LiteralUnit, LiteralNibble
<1>4. c \in 0..15 /\ d \in 0..15
  OBVIOUS
<1> HIDE DEF c, d
<1>5. /\ v = IF d < 8 THEN c + 16 * d ELSE (c + 16 * d) - 256
      /\ v \in -128..127 /\ (v < 0 <=> ~(d < 8))
  BY <1>4 DEF Signed
<1>6. -Word <= v /\ v < Word /\ v \in Int
  BY <1>5, WordIs
<1> HIDE DEF v
<1>7. Const16(v) = IF v < 0 THEN <<v + Word, Word - 1, Word - 1, Word - 1>>
                   ELSE <<v, 0, 0, 0>>
  BY <1>6, Const16Is
<1>8. CASE d < 8
  <2>1. LiteralUnit(s, 2, 1) = v /\ sign = 0
    BY <1>3, <1>5, <1>8
  <2> QED
    BY <1>1, <1>2, <1>5, <1>7, <1>8, <2>1 DEF c, d, v
<1>9. CASE ~(d < 8)
  <2>1. LiteralUnit(s, 2, 1) = v + Word /\ sign = Word - 1
    <3>1. c + 16 * d + 256 * 15 + 4096 * 15 = ((c + 16 * d) - 256) + Word
      BY <1>4, WordIs
    <3> QED
      BY <1>3, <1>5, <1>9, <3>1
  <2> QED
    BY <1>1, <1>2, <1>5, <1>7, <1>9, <2>1 DEF c, d, v
<1> QED
  BY <1>8, <1>9

\* A unit is a number below a word.
LEMMA UnitIs ==
  ASSUME NEW u
  PROVE  u \in Units16 <=> u \in Nat /\ u < Word
<1>1. Word \in Nat
  BY WordIs
<1> QED
  BY <1>1 DEF Units16

\* The number of four digits has the sign of the fourth.
FourDigits(c1, c2, c3, c4) == c1 + 16 * c2 + 256 * c3 + 4096 * c4

\* The number of four digits is negative with its fourth.
LEMMA FourDigitsSign ==
  ASSUME NEW c1 \in 0..15, NEW c2 \in 0..15, NEW c3 \in 0..15, NEW c4 \in 0..15
  PROVE  /\ FourDigits(c1, c2, c3, c4) \in Units16
         /\ 2 * FourDigits(c1, c2, c3, c4) < Word <=> c4 < 8
<1> DEFINE low == c1 + 16 * c2 + 256 * c3
<1>1. low \in Nat /\ low < 4096
  OBVIOUS
<1> HIDE DEF low
<1>2. low + 4096 * c4 \in Nat /\ low + 4096 * c4 < Word
        /\ (2 * (low + 4096 * c4) < Word <=> c4 < 8)
  BY <1>1, WordIs
<1>3. low + 4096 * c4 \in Units16
  BY <1>2, UnitIs
<1>4. FourDigits(c1, c2, c3, c4) = low + 4096 * c4
  BY DEF low, FourDigits
<1> QED
  BY <1>2, <1>3, <1>4

\* The literal of one unit.
LEMMA Literal4 ==
  ASSUME NEW s \in [1..4 -> 0..15]
  PROVE  Literal(s)
           = Const16(Signed(s[1] + 16 * s[2] + 256 * s[3] + 4096 * s[4], Word))
<1> DEFINE u == s[1] + 16 * s[2] + 256 * s[3] + 4096 * s[4]
           v == Signed(u, Word)
           sign == IF s[4] < 8 THEN 0 ELSE Word - 1
<1>1. Literal(s) = <<LiteralUnit(s, 4, 1), LiteralUnit(s, 4, 2),
                     LiteralUnit(s, 4, 3), LiteralUnit(s, 4, 4)>>
  BY LiteralTuple
<1>2. LiteralUnit(s, 4, 2) = sign /\ LiteralUnit(s, 4, 3) = sign
        /\ LiteralUnit(s, 4, 4) = sign
  BY LiteralSigns
<1>3. LiteralUnit(s, 4, 1) = u
  BY DEF LiteralUnit, LiteralNibble
<1>4. u \in Units16 /\ (2 * u < Word <=> s[4] < 8)
  <2>1. s[1] \in 0..15 /\ s[2] \in 0..15 /\ s[3] \in 0..15 /\ s[4] \in 0..15
    OBVIOUS
  <2>2. u = FourDigits(s[1], s[2], s[3], s[4])
    BY DEF FourDigits
  <2> HIDE DEF u
  <2> QED
    BY <2>1, <2>2, FourDigitsSign
<1> HIDE DEF u
<1>5. u \in Nat /\ u < Word
  BY <1>4, UnitIs
<1>6. v = (IF s[4] < 8 THEN u ELSE u - Word) /\ -Word <= v /\ v < Word
        /\ v \in Int /\ (v < 0 <=> ~(s[4] < 8))
  BY <1>4, <1>5, WordIs DEF Signed
<1> HIDE DEF v
<1>7. Const16(v) = IF v < 0 THEN <<v + Word, Word - 1, Word - 1, Word - 1>>
                   ELSE <<v, 0, 0, 0>>
  BY <1>6, Const16Is
<1>8. CASE s[4] < 8
  BY <1>1, <1>2, <1>3, <1>6, <1>7, <1>8 DEF u, v
<1>9. CASE ~(s[4] < 8)
  <2>1. v + Word = u
    BY <1>5, <1>6, <1>9, WordIs
  <2> QED
    BY <1>1, <1>2, <1>3, <1>6, <1>7, <1>9, <2>1 DEF u, v
<1> QED
  BY <1>8, <1>9

\* The literal of two units.
LEMMA Literal8 ==
  ASSUME NEW s \in [1..8 -> 0..15]
  PROVE  Literal(s)
           = Const32(s[1] + 16 * s[2] + 256 * s[3] + 4096 * s[4],
                     s[5] + 16 * s[6] + 256 * s[7] + 4096 * s[8])
<1> DEFINE lo == s[1] + 16 * s[2] + 256 * s[3] + 4096 * s[4]
           hi == s[5] + 16 * s[6] + 256 * s[7] + 4096 * s[8]
           sign == IF s[8] < 8 THEN 0 ELSE Word - 1
<1>1. Literal(s) = <<LiteralUnit(s, 8, 1), LiteralUnit(s, 8, 2),
                     LiteralUnit(s, 8, 3), LiteralUnit(s, 8, 4)>>
  BY LiteralTuple
<1>2. LiteralUnit(s, 8, 3) = sign /\ LiteralUnit(s, 8, 4) = sign
  BY LiteralSigns
<1>3. LiteralUnit(s, 8, 1) = lo /\ LiteralUnit(s, 8, 2) = hi
  BY DEF LiteralUnit, LiteralNibble
<1>4. 2 * hi < Word <=> s[8] < 8
  <2>1. s[5] \in 0..15 /\ s[6] \in 0..15 /\ s[7] \in 0..15 /\ s[8] \in 0..15
    OBVIOUS
  <2>2. hi = FourDigits(s[5], s[6], s[7], s[8])
    BY DEF FourDigits
  <2> HIDE DEF hi
  <2> QED
    BY <2>1, <2>2, FourDigitsSign
<1> HIDE DEF lo, hi
<1>5. Const32(lo, hi) = <<lo, hi, sign, sign>>
  BY <1>4 DEF Const32
<1> QED
  BY <1>1, <1>2, <1>3, <1>5 DEF lo, hi

\* A function from the first numbers is a sequence.
LEMMA IsSeq ==
  ASSUME NEW S, NEW n \in Nat, NEW s \in [1..n -> S]
  PROVE  s \in Seq(S) /\ Len(s) = n
OBVIOUS

\* The literal of const-high16: four zeros, and the digits of the unit.
LEMMA LiteralHigh ==
  ASSUME NEW s \in [1..4 -> 0..15]
  PROVE  Literal(<<0, 0, 0, 0>> \o s)
           = Const32(0, s[1] + 16 * s[2] + 256 * s[3] + 4096 * s[4])
<1>1. s \in Seq(0..15) /\ Len(s) = 4
  BY IsSeq
<1> DEFINE z == <<0, 0, 0, 0>>
           t == z \o s
<1>2. z \in Seq(0..15) /\ Len(z) = 4 /\ z[1] = 0 /\ z[2] = 0 /\ z[3] = 0 /\ z[4] = 0
  OBVIOUS
<1> HIDE DEF z
<1>3. /\ t \in Seq(0..15) /\ Len(t) = Len(z) + Len(s)
      /\ \A i \in 1..(Len(z) + Len(s)) :
           t[i] = IF i <= Len(z) THEN z[i] ELSE s[i - Len(z)]
  BY <1>1, <1>2, ConcatProperties
<1> HIDE DEF t
<1>4. /\ t \in Seq(0..15) /\ Len(t) = 8
      /\ \A i \in 1..8 : t[i] = IF i <= 4 THEN z[i] ELSE s[i - 4]
  BY <1>1, <1>2, <1>3
<1>5. t \in [1..8 -> 0..15]
  BY <1>4, LenProperties
<1>6. /\ t[1] = 0 /\ t[2] = 0 /\ t[3] = 0 /\ t[4] = 0
      /\ t[5] = s[1] /\ t[6] = s[2] /\ t[7] = s[3] /\ t[8] = s[4]
  BY <1>2, <1>4
<1>7. Literal(t) = Const32(t[1] + 16 * t[2] + 256 * t[3] + 4096 * t[4],
                           t[5] + 16 * t[6] + 256 * t[7] + 4096 * t[8])
  BY <1>5, Literal8
<1>8. t[1] + 16 * t[2] + 256 * t[3] + 4096 * t[4] = 0
  BY <1>6
<1>9. Literal(t) = Const32(0, s[1] + 16 * s[2] + 256 * s[3] + 4096 * s[4])
  BY <1>6, <1>7, <1>8
<1> QED
  BY <1>9 DEF t, z

-----------------------------------------------------------------------------
(* What each field of a format counts, by its place.                       *)

\* Field x of the instruction at a is n nibbles from the place first on.
Has(a, x, first, n) == Places(Layout(FormatOf(Opcode(a))), x, first, n)

\* The fields in the first unit: A, B and AA of the decoders.
LEMMA FieldOfFirst ==
  ASSUME NEW a, NEW x, Unit(a, 0) \in Units16
  PROVE  /\ Has(a, x, 3, 1) => Number(Field(a, x)) = A(a)
         /\ Has(a, x, 4, 1) => /\ Number(Field(a, x)) = B(a)
                               /\ Literal(Field(a, x)) = Const16(Signed(B(a), 16))
         /\ Has(a, x, 3, 2) => /\ Number(Field(a, x)) = AA(a)
                               /\ SignedNumber(Field(a, x)) = Signed(AA(a), 256)
<1>1. AA(a) % 16 = Digit(Unit(a, 0), 2) /\ AA(a) \div 16 = Digit(Unit(a, 0), 3)
  BY Digits DEF AA
<1>2. ASSUME Has(a, x, 3, 1)
      PROVE  Number(Field(a, x)) = A(a)
  <2>1. Field(a, x) = Span(a, 4 * 0 + 2 + 1, 1)
    BY <1>2, FieldSpan DEF Has
  <2>2. Number(Span(a, 4 * 0 + 2 + 1, 1)) = Digit(Unit(a, 0), 2)
    BY SpanNumber1
  <2> QED
    BY <1>1, <2>1, <2>2 DEF A
<1>3. ASSUME Has(a, x, 4, 1)
      PROVE  /\ Number(Field(a, x)) = B(a)
             /\ Literal(Field(a, x)) = Const16(Signed(B(a), 16))
  <2> DEFINE s == Span(a, 4 * 0 + 3 + 1, 1)
  <2>1. Field(a, x) = s
    BY <1>3, FieldSpan DEF Has
  <2>2. Number(s) = Digit(Unit(a, 0), 3)
    BY SpanNumber1
  <2>3. s \in [1..1 -> 0..15] /\ \A i \in 1..1 : s[i] = Digit(Unit(a, 0), 3 + i - 1)
    BY SpanDigits
  <2>4. s[1] = B(a)
    BY <1>1, <2>3 DEF B
  <2>5. Literal(s) = Const16(Signed(s[1], 16))
    BY <2>3, Literal1
  <2> QED
    BY <1>1, <2>1, <2>2, <2>4, <2>5 DEF B
<1>4. ASSUME Has(a, x, 3, 2)
      PROVE  /\ Number(Field(a, x)) = AA(a)
             /\ SignedNumber(Field(a, x)) = Signed(AA(a), 256)
  <2> DEFINE s == Span(a, 4 * 0 + 2 + 1, 2)
  <2>1. Field(a, x) = s
    BY <1>4, FieldSpan DEF Has
  <2>2. Number(Span(a, 4 * 0 + 3, 2)) = Unit(a, 0) \div 256
    BY SpanNumber2
  <2>3. 4 * 0 + 3 = 4 * 0 + 2 + 1
    OBVIOUS
  <2>4. s \in [1..2 -> 0..15] /\ \A i \in 1..2 : s[i] = Digit(Unit(a, 0), 2 + i - 1)
    BY SpanDigits
  <2>5. s[1] = Digit(Unit(a, 0), 2) /\ s[2] = Digit(Unit(a, 0), 3)
    BY <2>4
  <2>6. AA(a) = s[1] + 16 * s[2]
    BY <2>5, Digits DEF AA
  <2>7. SignedNumber(s) = Signed(s[1] + 16 * s[2], 256)
    BY <2>4, Signed2
  <2> HIDE DEF s
  <2> QED
    BY <2>1, <2>2, <2>3, <2>6, <2>7 DEF AA, s
<1> QED
  BY <1>2, <1>3, <1>4

\* The fields that are a byte of the second unit.
LEMMA FieldOfByte ==
  ASSUME NEW a, NEW x, Unit(a, 1) \in Units16
  PROVE  /\ Has(a, x, 5, 2) => Number(Field(a, x)) = Unit(a, 1) % 256
         /\ Has(a, x, 7, 2) =>
              /\ Number(Field(a, x)) = Unit(a, 1) \div 256
              /\ Literal(Field(a, x)) = Const16(Signed(Unit(a, 1) \div 256, 256))
<1>0. /\ Number(Span(a, 4 * 1 + 1, 2)) = Unit(a, 1) % 256
      /\ Number(Span(a, 4 * 1 + 3, 2)) = Unit(a, 1) \div 256
  BY SpanNumber2
<1>1. 4 * 1 + 1 = 5 /\ 4 * 1 + 3 = 7 /\ 4 * 1 + 2 + 1 = 7
  OBVIOUS
<1>2. ASSUME Has(a, x, 5, 2)
      PROVE  Number(Field(a, x)) = Unit(a, 1) % 256
  <2>1. Field(a, x) = Span(a, 5, 2)
    BY <1>2, FieldSpan DEF Has
  <2> QED
    BY <1>0, <1>1, <2>1
<1>3. ASSUME Has(a, x, 7, 2)
      PROVE  /\ Number(Field(a, x)) = Unit(a, 1) \div 256
             /\ Literal(Field(a, x)) = Const16(Signed(Unit(a, 1) \div 256, 256))
  <2> DEFINE s == Span(a, 4 * 1 + 2 + 1, 2)
  <2>1. Field(a, x) = Span(a, 7, 2)
    BY <1>3, FieldSpan DEF Has
  <2>2. s \in [1..2 -> 0..15] /\ \A i \in 1..2 : s[i] = Digit(Unit(a, 1), 2 + i - 1)
    BY SpanDigits
  <2>3. s[1] = Digit(Unit(a, 1), 2) /\ s[2] = Digit(Unit(a, 1), 3)
    BY <2>2
  <2>4. Unit(a, 1) \div 256 = s[1] + 16 * s[2]
    BY <2>3, Digits
  <2>5. Literal(s) = Const16(Signed(s[1] + 16 * s[2], 256))
    BY <2>2, Literal2
  <2>6. s = Span(a, 7, 2)
    BY <1>1
  <2> HIDE DEF s
  <2> QED
    BY <1>0, <1>1, <2>1, <2>4, <2>5, <2>6
<1> QED
  BY <1>2, <1>3

\* The fields that are a unit.
LEMMA FieldOfUnit ==
  ASSUME NEW a, NEW x, NEW m \in 1..3, Unit(a, m) \in Units16,
         Has(a, x, 4 * m + 1, 4)
  PROVE  /\ Number(Field(a, x)) = Unit(a, m)
         /\ SignedNumber(Field(a, x)) = Signed(Unit(a, m), Word)
         /\ Literal(Field(a, x)) = Const16(Signed(Unit(a, m), Word))
         /\ Literal(<<0, 0, 0, 0>> \o Field(a, x)) = Const32(0, Unit(a, m))
<1> DEFINE s == Span(a, 4 * m + 1, 4)
<1>1. m \in 0..4 /\ 4 * m + 1 \in 1..20
  OBVIOUS
<1>2. Field(a, x) = s
  BY <1>1, FieldSpan DEF Has
<1>3. /\ s \in [1..4 -> 0..15] /\ Number(s) = Unit(a, m)
      /\ s[1] + 16 * s[2] + 256 * s[3] + 4096 * s[4] = Unit(a, m)
  BY <1>1, SpanUnit
<1> HIDE DEF s
<1>4. SignedNumber(s)
        = Signed(s[1] + 16 * s[2] + 256 * s[3] + 4096 * s[4], Word)
  BY <1>3, Signed4
<1>5. Literal(s)
        = Const16(Signed(s[1] + 16 * s[2] + 256 * s[3] + 4096 * s[4], Word))
  BY <1>3, Literal4
<1>6. Literal(<<0, 0, 0, 0>> \o s)
        = Const32(0, s[1] + 16 * s[2] + 256 * s[3] + 4096 * s[4])
  BY <1>3, LiteralHigh
<1> QED
  BY <1>2, <1>3, <1>4, <1>5, <1>6

\* The fields that are two units.
LEMMA FieldOfUnits ==
  ASSUME NEW a, NEW x, Unit(a, 1) \in Units16, Unit(a, 2) \in Units16,
         Has(a, x, 5, 8)
  PROVE  /\ Number(Field(a, x)) = Unit(a, 2) * Word + Unit(a, 1)
         /\ SignedNumber(Field(a, x)) = Signed32(Unit(a, 1), Unit(a, 2))
         /\ Literal(Field(a, x)) = Const32(Unit(a, 1), Unit(a, 2))
<1> DEFINE s == Span(a, 4 * 1 + 1, 8)
           lo == s[1] + 16 * s[2] + 256 * s[3] + 4096 * s[4]
           hi == s[5] + 16 * s[6] + 256 * s[7] + 4096 * s[8]
<1>1. Field(a, x) = Span(a, 5, 8)
  BY FieldSpan DEF Has
<1>2. Unit(a, 1 + 1) \in Units16
  BY 1 + 1 = 2
<1>3. /\ s \in [1..8 -> 0..15] /\ lo = Unit(a, 1) /\ hi = Unit(a, 1 + 1)
      /\ Number(s) = Unit(a, 1) + Word * Unit(a, 1 + 1)
  BY <1>2, SpanUnits
<1>4. s = Span(a, 5, 8) /\ Unit(a, 1 + 1) = Unit(a, 2)
  <2>1. 4 * 1 + 1 = 5 /\ 1 + 1 = 2
    OBVIOUS
  <2> QED
    BY <2>1
<1> HIDE DEF s
<1>5. SignedNumber(s) = Signed32(lo, hi)
  BY <1>3, Signed8
<1>6. Literal(s) = Const32(lo, hi)
  BY <1>3, Literal8
<1> HIDE DEF lo, hi
<1>7. Unit(a, 1) + Word * Unit(a, 2) = Unit(a, 2) * Word + Unit(a, 1)
  <2> DEFINE u1 == Unit(a, 1)
             u2 == Unit(a, 2)
  <2>1. u1 \in Nat /\ u2 \in Nat /\ Word \in Nat
    BY UnitIs, WordIs
  <2> HIDE DEF u1, u2
  <2>2. u1 + Word * u2 = u2 * Word + u1
    BY <2>1
  <2> QED
    BY <2>2 DEF u1, u2
<1> QED
  BY <1>1, <1>3, <1>4, <1>5, <1>6, <1>7

\* The field of one nibble of the unit number 2.
LEMMA FieldOfNibble ==
  ASSUME NEW a, NEW x, NEW m \in {0, 2}, NEW j \in 0..3,
         Unit(a, m) \in Units16, Has(a, x, 4 * m + j + 1, 1)
  PROVE  /\ Field(a, x) \in [1..1 -> 0..15]
         /\ Field(a, x)[1] = Digit(Unit(a, m), j)
<1> DEFINE s == Span(a, 4 * m + j + 1, 1)
<1>1. m \in 0..4 /\ 4 * m + j + 1 \in 1..20 /\ j + 1 <= 4
  OBVIOUS
<1>2. Field(a, x) = s
  BY <1>1, FieldSpan DEF Has
<1>3. s \in [1..1 -> 0..15] /\ \A i \in 1..1 : s[i] = Digit(Unit(a, m), j + i - 1)
  BY <1>1, SpanDigits
<1>4. s[1] = Digit(Unit(a, m), j)
  BY <1>3
<1> QED
  BY <1>2, <1>3, <1>4

\* The literal of 51l is the four units behind the first.
LEMMA FieldOfFour ==
  ASSUME NEW a, NEW x, \A m \in 1..4 : Unit(a, m) \in Units16, Has(a, x, 5, 16)
  PROVE  Literal(Field(a, x)) = [k \in 1..4 |-> Unit(a, k)]
<1> DEFINE s == Span(a, 5, 16)
<1>1. Field(a, x) = s
  BY FieldSpan DEF Has
<1>2. ASSUME NEW k \in 1..4
      PROVE  /\ \A i \in 1..4 : s[4 * (k - 1) + i] \in 0..15
             /\ s[4 * (k - 1) + 1] + 16 * s[4 * (k - 1) + 2]
                  + 256 * s[4 * (k - 1) + 3] + 4096 * s[4 * (k - 1) + 4]
                  = Unit(a, k)
  <2> DEFINE t == Span(a, 4 * k + 1, 4)
  <2>1. /\ t \in [1..4 -> 0..15]
        /\ t[1] + 16 * t[2] + 256 * t[3] + 4096 * t[4] = Unit(a, k)
    <3>1. k \in 0..4
      OBVIOUS
    <3> QED
      BY <3>1, SpanUnit
  <2>2. \A i \in 1..4 : s[4 * (k - 1) + i] = t[i]
    <3> SUFFICES ASSUME NEW i \in 1..4 PROVE s[4 * (k - 1) + i] = t[i]
      OBVIOUS
    <3>1. 4 * (k - 1) + i \in 1..16 /\ 5 + (4 * (k - 1) + i) - 2 = 4 * k + 1 + i - 2
      OBVIOUS
    <3> QED
      BY <3>1 DEF Span
  <2> HIDE DEF s, t
  <2>3. /\ s[4 * (k - 1) + 1] = t[1] /\ s[4 * (k - 1) + 2] = t[2]
        /\ s[4 * (k - 1) + 3] = t[3] /\ s[4 * (k - 1) + 4] = t[4]
    BY <2>2
  <2>4. \A i \in 1..4 : t[i] \in 0..15
    BY <2>1
  <2> QED
    BY <2>1, <2>2, <2>3, <2>4
<1>3. s \in [1..16 -> 0..15]
  <2>1. \A j \in 1..16 : \E k \in 1..4, i \in 1..4 : j = 4 * (k - 1) + i
    <3> SUFFICES ASSUME NEW j \in 1..16
                 PROVE  \E k \in 1..4, i \in 1..4 : j = 4 * (k - 1) + i
      OBVIOUS
    <3>1. CASE j \in 1..4
      BY <3>1, j = 4 * (1 - 1) + j
    <3>2. CASE j \in 5..8
      <4>1. j = 4 * (2 - 1) + (j - 4) /\ j - 4 \in 1..4 /\ 2 \in 1..4
        BY <3>2
      <4> QED
        BY <4>1
    <3>3. CASE j \in 9..12
      <4>1. j = 4 * (3 - 1) + (j - 8) /\ j - 8 \in 1..4 /\ 3 \in 1..4
        BY <3>3
      <4> QED
        BY <4>1
    <3>4. CASE j \in 13..16
      <4>1. j = 4 * (4 - 1) + (j - 12) /\ j - 12 \in 1..4 /\ 4 \in 1..4
        BY <3>4
      <4> QED
        BY <4>1
    <3> QED
      BY <3>1, <3>2, <3>3, <3>4
  <2>2. \A j \in 1..16 : s[j] \in 0..15
    <3> HIDE DEF s
    <3> QED
      BY <1>2, <2>1
  <2>3. s = [j \in 1..16 |-> s[j]]
    BY DEF Span
  <2> HIDE DEF s
  <2> QED
    BY <2>2, <2>3
<1> HIDE DEF s
<1>4. \A k \in 1..4 : LiteralUnit(s, 16, k) = Unit(a, k)
  <2> SUFFICES ASSUME NEW k \in 1..4 PROVE LiteralUnit(s, 16, k) = Unit(a, k)
    OBVIOUS
  <2>1. 4 * k <= 16 /\ 16 \in 1..16
    OBVIOUS
  <2>2. LiteralUnit(s, 16, k) = s[4 * (k - 1) + 1] + 16 * s[4 * (k - 1) + 2]
                                  + 256 * s[4 * (k - 1) + 3]
                                  + 4096 * s[4 * (k - 1) + 4]
    BY <1>3, <2>1 DEF LiteralUnit, LiteralNibble
  <2> QED
    BY <1>2, <2>2
<1>5. /\ Literal(s) = [k \in 1..4 |-> Literal(s)[k]]
      /\ \A k \in 1..4 : Literal(s)[k] = LiteralUnit(s, 16, k)
  BY <1>3, LiteralUnits
<1> QED
  BY <1>1, <1>4, <1>5

-----------------------------------------------------------------------------
(* Operands and arguments.                                                 *)

\* An operand is a register argument if it has the number of its field.
LEMMA RegisterArgument ==
  ASSUME NEW a, NEW x, NEW n, Number(Field(a, x)) = n
  PROVE  IsArgument(Reg(n), <<"register", x>>, a)
BY DEF IsArgument

\* An operand is a literal argument if it is its literal.
LEMMA LiteralArgument ==
  ASSUME NEW a, NEW x, NEW v, Literal(Field(a, x)) = v
  PROVE  IsArgument(Cnst(v), <<"literal", x>>, a)
BY DEF IsArgument

\* The same for the literals of const/high16.
LEMMA HighArgument ==
  ASSUME NEW a, NEW x, NEW v,
         Opcode(a) = \h15 => Literal(<<0, 0, 0, 0>> \o Field(a, x)) = v
  PROVE  IsArgument(Cnst(v), <<"high", x>>, a)
BY DEF IsArgument

\* An operand is a branch target if it is as far away as its field says.
LEMMA TargetArgument ==
  ASSUME NEW a, NEW x, NEW n, SignedNumber(Field(a, x)) = n
  PROVE  IsArgument(Addr(a + 2 * n), <<"target", x>>, a)
BY DEF IsArgument

\* An index of either form is of its table.
LEMMA IndexIsItem ==
  ASSUME NEW kind, NEW idx
  PROVE  IsItem(Index(kind, idx), kind, idx) /\ IsItem(Index35c(kind, idx), kind, idx)
BY DEF IsItem, Index, Index35c, Addr

\* An operand is an item of a table if it has the index of its field.
LEMMA ItemArgument ==
  ASSUME NEW a, NEW x, NEW n, Number(Field(a, x)) = n
  PROVE  /\ IsArgument(Index(IndexKind(Opcode(a)), n), <<"item", x>>, a)
         /\ IsArgument(Index35c(IndexKind(Opcode(a)), n), <<"item", x>>, a)
         /\ IsArgument(Index("PROTO", n), <<"proto", x>>, a)
BY IndexIsItem DEF IsArgument

\* A method is one by either of the kinds that have the table of methods.
LEMMA MethodArgument ==
  ASSUME NEW a, NEW x, NEW n, Number(Field(a, x)) = n,
         IndexKind(Opcode(a)) = "METHOD_PROTO"
  PROVE  IsArgument(Index("METHOD", n), <<"item", x>>, a)
<1>1. Resolves("METHOD_PROTO", n) <=> Resolves("METHOD", n)
  BY DEF Resolves, TableOf
<1>2. ItemAddress("METHOD_PROTO", n) = ItemAddress("METHOD", n)
  BY DEF ItemAddress, TableOf
<1>3. IsItem(Index("METHOD", n), "METHOD_PROTO", n)
  BY <1>1, <1>2 DEF IsItem, Index, TableOf
<1> QED
  BY <1>3 DEF IsArgument

\* The registers of a range.
LEMMA RangeArgument ==
  ASSUME NEW a, NEW x, NEW r \in Nat, NEW n \in Nat,
         Number(Field(a, x)) = r, Number(Field(a, "A")) = n
  PROVE  IsArgument(RegRange(r, n), <<"range", x>>, a)
<1>1. n > 0 => Shown(RegRange(r, n)) = IF n = 1 THEN <<r>> ELSE <<r, r + n - 1>>
  BY DEF Shown, RegRange
<1> QED
  BY <1>1 DEF IsArgument

\* The arguments hold if each does.
ArgumentsHold(a, operands, args) ==
  /\ Len(operands) = Len(args)
  /\ \A i \in DOMAIN args : IsArgument(operands[i], args[i], a)

\* No operand for no argument.
LEMMA Arguments0 ==
  ASSUME NEW a
  PROVE  ArgumentsHold(a, <<>>, <<>>)
BY DEF ArgumentsHold

\* One operand for one argument.
LEMMA Arguments1 ==
  ASSUME NEW a, NEW x, NEW o, IsArgument(o, x, a)
  PROVE  ArgumentsHold(a, <<o>>, <<x>>)
BY DEF ArgumentsHold

\* Two operands for two arguments.
LEMMA Arguments2 ==
  ASSUME NEW a, NEW x1, NEW x2, NEW o1, NEW o2,
         IsArgument(o1, x1, a), IsArgument(o2, x2, a)
  PROVE  ArgumentsHold(a, <<o1, o2>>, <<x1, x2>>)
BY DEF ArgumentsHold

\* Three operands for three arguments.
LEMMA Arguments3 ==
  ASSUME NEW a, NEW x1, NEW x2, NEW x3, NEW o1, NEW o2, NEW o3,
         IsArgument(o1, x1, a), IsArgument(o2, x2, a), IsArgument(o3, x3, a)
  PROVE  ArgumentsHold(a, <<o1, o2, o3>>, <<x1, x2, x3>>)
BY DEF ArgumentsHold

\* List u is list t and one element more, that of s.
IsOneMore(S, u, t, s) ==
  /\ u \in Seq(S) /\ Len(u) = Len(t) + 1 /\ u[Len(t) + 1] = s[1]
  /\ \A i \in 1..Len(t) : u[i] = t[i]

\* A list and a list of one are a list of one more.
LEMMA OneMore ==
  ASSUME NEW S, NEW t \in Seq(S), NEW s \in [1..1 -> S]
  PROVE  IsOneMore(S, t \o s, t, s)
<1> DEFINE n == Len(t)
           u == t \o s
<1>1. s \in Seq(S) /\ Len(s) = 1
  BY IsSeq
<1>2. /\ u \in Seq(S) /\ Len(u) = Len(t) + Len(s)
      /\ \A i \in 1..(Len(t) + Len(s)) :
           u[i] = IF i <= Len(t) THEN t[i] ELSE s[i - Len(t)]
  BY <1>1, ConcatProperties
<1>3. n \in Nat
  OBVIOUS
<1> HIDE DEF u, n
<1>4. /\ u \in Seq(S) /\ Len(u) = n + 1
      /\ \A i \in 1..(n + 1) : u[i] = IF i <= n THEN t[i] ELSE s[i - n]
  BY <1>1, <1>2 DEF n
<1>5. u[n + 1] = s[1] /\ \A i \in 1..n : u[i] = t[i]
  <2>1. n + 1 \in 1..(n + 1) /\ (n + 1) - n = 1 /\ ~(n + 1 <= n)
    BY <1>3
  <2>2. \A i \in 1..n : i \in 1..(n + 1) /\ i <= n
    BY <1>3
  <2> QED
    BY <1>4, <2>1, <2>2
<1> QED
  BY <1>4, <1>5 DEF u, n, IsOneMore

\* Five lists of one register are a list of five.
IsFive(S, all, c, d, e, f, g) ==
  /\ all \in Seq(S) /\ Len(all) = 5
  /\ all[1] = c[1] /\ all[2] = d[1] /\ all[3] = e[1] /\ all[4] = f[1] /\ all[5] = g[1]

\* Five lists of one, one behind the other.
LEMMA FiveInAll ==
  ASSUME NEW S, NEW c \in [1..1 -> S], NEW d \in [1..1 -> S], NEW e \in [1..1 -> S],
         NEW f \in [1..1 -> S], NEW g \in [1..1 -> S]
  PROVE  IsFive(S, c \o d \o e \o f \o g, c, d, e, f, g)
<1>1. c \in Seq(S) /\ Len(c) = 1
  BY IsSeq
<1> DEFINE cd == c \o d
<1>2. IsOneMore(S, cd, c, d)
  BY <1>1, OneMore, Zenon
<1> HIDE DEF cd
<1>3. cd \in Seq(S) /\ Len(cd) = 2 /\ cd[1] = c[1] /\ cd[2] = d[1]
  BY <1>1, <1>2 DEF IsOneMore
<1> DEFINE cde == cd \o e
<1>4. IsOneMore(S, cde, cd, e)
  BY <1>3, OneMore, Zenon
<1> HIDE DEF cde
<1>5. /\ cde \in Seq(S) /\ Len(cde) = 3 /\ cde[1] = c[1] /\ cde[2] = d[1]
      /\ cde[3] = e[1]
  BY <1>3, <1>4 DEF IsOneMore
<1> DEFINE cdef == cde \o f
<1>6. IsOneMore(S, cdef, cde, f)
  BY <1>5, OneMore, Zenon
<1> HIDE DEF cdef
<1>7. /\ cdef \in Seq(S) /\ Len(cdef) = 4 /\ cdef[1] = c[1] /\ cdef[2] = d[1]
      /\ cdef[3] = e[1] /\ cdef[4] = f[1]
  BY <1>5, <1>6 DEF IsOneMore
<1> DEFINE all == cdef \o g
<1>8. IsOneMore(S, all, cdef, g)
  BY <1>7, OneMore, Zenon
<1> HIDE DEF all
<1>9. /\ all \in Seq(S) /\ Len(all) = 5 /\ all[1] = c[1] /\ all[2] = d[1]
      /\ all[3] = e[1] /\ all[4] = f[1] /\ all[5] = g[1]
  BY <1>7, <1>8 DEF IsOneMore
<1> QED
  BY <1>9 DEF all, cdef, cde, cd, IsFive

\* The unit above a word.
LEMMA DivWord ==
  ASSUME NEW q \in Nat, NEW r \in Nat, r < Word
  PROVE  (Word * q + r) \div Word = q
BY DEF Word

\* The digits of a number of five.
FiveDigits(d0, d1, d2, d3, d4) == d4 * Word + FourDigits(d0, d1, d2, d3)

ShowsFive(v, d0, d1, d2, d3, d4) ==
  /\ ReglistReg(v, 0) = d0 /\ ReglistReg(v, 1) = d1 /\ ReglistReg(v, 2) = d2
  /\ ReglistReg(v, 3) = d3 /\ ReglistReg(v, 4) = d4

\* Rendering takes a number of five digits apart into them.
LEMMA FiveDigitsShown ==
  ASSUME NEW d0 \in 0..15, NEW d1 \in 0..15, NEW d2 \in 0..15, NEW d3 \in 0..15,
         NEW d4 \in 0..15, NEW v, v = FiveDigits(d0, d1, d2, d3, d4)
  PROVE  ShowsFive(v, d0, d1, d2, d3, d4)
<1> DEFINE q4 == d4
           q3 == d3 + 16 * q4
           q2 == d2 + 16 * q3
           q1 == d1 + 16 * q2
           lo == d0 + 16 * d1 + 256 * d2 + 4096 * d3
<1>0. v = d4 * Word + lo
  BY DEF FiveDigits, FourDigits
<1>1. v = d0 + 16 * q1
  BY <1>0, WordIs
<1>2. v = (d0 + 16 * d1) + 256 * q2 /\ d0 + 16 * d1 \in 0..255
  BY <1>0, WordIs
<1>3. v = (d0 + 16 * d1 + 256 * d2) + 4096 * q3
        /\ d0 + 16 * d1 + 256 * d2 \in 0..4095
  BY <1>0, WordIs
<1>4. lo \in Nat /\ lo < Word
  BY WordIs
<1> HIDE DEF lo
<1>5. q3 \in Nat /\ q2 \in Nat /\ q1 \in Nat
  OBVIOUS
<1>6. q3 % 16 = d3 /\ q2 % 16 = d2 /\ q1 % 16 = d1 /\ q4 % 16 = d4
  <2>1. q4 % 16 = d4
    OBVIOUS
  <2> HIDE DEF q4
  <2>2. q3 % 16 = d3
    BY q4 \in 0..15 DEF q4
  <2> HIDE DEF q3
  <2>3. q2 % 16 = d2
    BY <1>5
  <2> HIDE DEF q2
  <2>4. q1 % 16 = d1
    BY <1>5
  <2> QED
    BY <2>1, <2>2, <2>3, <2>4
<1> HIDE DEF q1, q2, q3
<1>7. v \div 1 = v /\ v % 16 = d0 /\ v \in Nat
  BY <1>1, <1>5
<1>8. v \div 16 = q1
  BY <1>1, <1>5
<1>9. v \div 256 = q2
  <2> DEFINE r == d0 + 16 * d1
  <2>1. r \in 0..255 /\ v = r + 256 * q2
    BY <1>2
  <2> HIDE DEF r
  <2> QED
    BY ONLY <2>1, <1>5
<1>10. v \div 4096 = q3
  <2> DEFINE r == d0 + 16 * d1 + 256 * d2
  <2>1. r \in 0..4095 /\ v = r + 4096 * q3
    BY <1>3
  <2> HIDE DEF r
  <2> QED
    BY ONLY <2>1, <1>5
<1>11. v \div Word = q4
  <2>1. v = Word * d4 + lo
    BY <1>0, <1>4, WordIs
  <2> QED
    BY <1>4, <2>1, DivWord
<1>12. ReglistReg(v, 0) = v % 16
  BY <1>7, Powers DEF ReglistReg
<1>13. ReglistReg(v, 1) = q1 % 16
  BY <1>8, Powers DEF ReglistReg
<1>14. ReglistReg(v, 2) = q2 % 16
  BY <1>9, Powers DEF ReglistReg
<1>15. ReglistReg(v, 3) = q3 % 16
  BY <1>10, Powers DEF ReglistReg
<1>16. ReglistReg(v, 4) = q4 % 16
  BY <1>11, Powers DEF ReglistReg, Word
<1> QED
  BY <1>6, <1>7, <1>12, <1>13, <1>14, <1>15, <1>16 DEF ShowsFive

\* The list of registers: four in the third unit, the fifth in the first.
LEMMA ListArgument ==
  ASSUME NEW a, Unit(a, 0) \in Units16, Unit(a, 2) \in Units16,
         Has(a, "G", 3, 1), Has(a, "A", 4, 1),
         Has(a, "C", 9, 1), Has(a, "D", 10, 1), Has(a, "E", 11, 1), Has(a, "F", 12, 1),
         B(a) <= 5
  PROVE  IsArgument(RegList(B(a), Packed(a)), <<"list", "A">>, a)
<1> DEFINE c == Field(a, "C")
           d == Field(a, "D")
           e == Field(a, "E")
           f == Field(a, "F")
           g == Field(a, "G")
           u == Unit(a, 2)
           all == c \o d \o e \o f \o g
           v == Packed(a)
           n == B(a)
<1>1. /\ c \in [1..1 -> 0..15] /\ c[1] = Digit(u, 0)
      /\ d \in [1..1 -> 0..15] /\ d[1] = Digit(u, 1)
      /\ e \in [1..1 -> 0..15] /\ e[1] = Digit(u, 2)
      /\ f \in [1..1 -> 0..15] /\ f[1] = Digit(u, 3)
      /\ g \in [1..1 -> 0..15] /\ g[1] = Digit(Unit(a, 0), 2)
  <2>1. /\ 4 * 2 + 0 + 1 = 9 /\ 4 * 2 + 1 + 1 = 10 /\ 4 * 2 + 2 + 1 = 11
        /\ 4 * 2 + 3 + 1 = 12 /\ 4 * 0 + 2 + 1 = 3
    OBVIOUS
  <2>2. /\ Has(a, "C", 4 * 2 + 0 + 1, 1) /\ Has(a, "D", 4 * 2 + 1 + 1, 1)
        /\ Has(a, "E", 4 * 2 + 2 + 1, 1) /\ Has(a, "F", 4 * 2 + 3 + 1, 1)
        /\ Has(a, "G", 4 * 0 + 2 + 1, 1)
    BY <2>1
  <2> QED
    BY <2>2, FieldOfNibble
<1>2. Number(Field(a, "A")) = n /\ n \in 0..15
  <2>1. Number(Field(a, "A")) = n
    BY FieldOfFirst
  <2>2. n = Digit(Unit(a, 0), 3) /\ Digit(Unit(a, 0), 3) \in 0..15
    BY Digits DEF B, AA
  <2> QED
    BY <2>1, <2>2
<1>3. /\ A(a) = g[1] /\ u = c[1] + 16 * d[1] + 256 * e[1] + 4096 * f[1]
  <2>1. A(a) = g[1]
    BY <1>1, Digits DEF A, AA
  <2>2. u = Digit(u, 0) + 16 * Digit(u, 1) + 256 * Digit(u, 2) + 4096 * Digit(u, 3)
    BY Digits
  <2> QED
    BY <1>1, <2>1, <2>2
<1>4. v = A(a) * Word + u
  BY DEF Packed
<1> HIDE DEF c, d, e, f, g, u, v, n
<1>5. /\ all \in Seq(0..15) /\ Len(all) = 5
      /\ all[1] = c[1] /\ all[2] = d[1] /\ all[3] = e[1] /\ all[4] = f[1]
      /\ all[5] = g[1]
  <2> DEFINE S == 0..15
  <2>1. /\ c \in [1..1 -> S] /\ d \in [1..1 -> S] /\ e \in [1..1 -> S]
        /\ f \in [1..1 -> S] /\ g \in [1..1 -> S]
    BY <1>1
  <2> HIDE DEF S
  <2>2. IsFive(S, all, c, d, e, f, g)
    BY <2>1, FiveInAll, Zenon
  <2> QED
    BY <2>2 DEF S, IsFive
<1>6. /\ c[1] \in 0..15 /\ d[1] \in 0..15 /\ e[1] \in 0..15 /\ f[1] \in 0..15
      /\ g[1] \in 0..15
  BY <1>1
<1>7. v = FiveDigits(c[1], d[1], e[1], f[1], g[1])
  BY <1>3, <1>4 DEF FiveDigits, FourDigits
<1>8. ShowsFive(v, c[1], d[1], e[1], f[1], g[1])
  BY <1>6, <1>7, FiveDigitsShown, Zenon
<1> HIDE DEF all
<1>9. \A i \in 1..5 : ReglistReg(v, i - 1) = all[i]
  <2>1. \A i \in 1..5 : i = 1 \/ i = 2 \/ i = 3 \/ i = 4 \/ i = 5
    OBVIOUS
  <2>2. /\ ReglistReg(v, 1 - 1) = all[1] /\ ReglistReg(v, 2 - 1) = all[2]
        /\ ReglistReg(v, 3 - 1) = all[3] /\ ReglistReg(v, 4 - 1) = all[4]
        /\ ReglistReg(v, 5 - 1) = all[5]
    BY <1>5, <1>8 DEF ShowsFive
  <2> QED
    BY <2>1, <2>2
<1>10. n \in 0..5
  BY <1>2 DEF n
<1>11. Shown(RegList(n, v)) = [i \in 1..n |-> ReglistReg(v, i - 1)]
  BY DEF Shown, RegList
<1>12. SubSeq(all, 1, n) = [i \in 1..n |-> all[i]]
  <2>1. /\ SubSeq(all, 1, n) \in Seq(0..15)
        /\ Len(SubSeq(all, 1, n)) = IF 1 <= n THEN n - 1 + 1 ELSE 0
        /\ \A i \in 1..(n - 1 + 1) : SubSeq(all, 1, n)[i] = all[1 + i - 1]
    <3>1. \A i \in 1..n : all[i] \in 0..15
      <4>1. \A i \in 1..n : i \in 1..Len(all)
        BY <1>5, <1>10
      <4>2. \A i \in 1..Len(all) : all[i] \in 0..15
        BY <1>5, ElementOfSeq
      <4> QED
        BY <4>1, <4>2
    <3>2. 1 \in Int /\ n \in Int
      BY <1>10
    <3> QED
      BY <3>1, <3>2, SubSeqProperties
  <2> DEFINE p == SubSeq(all, 1, n)
  <2> HIDE DEF p
  <2>2. p \in Seq(0..15) /\ Len(p) = n /\ \A i \in 1..n : p[i] = all[i]
    <3>1. n - 1 + 1 = n /\ (~(1 <= n) => n = 0)
      BY <1>10
    <3>2. \A i \in 1..n : 1 + i - 1 = i
      BY <1>10
    <3> QED
      BY <2>1, <3>1, <3>2 DEF p
  <2>3. p = [i \in 1..n |-> p[i]]
    BY <2>2, LenProperties
  <2> QED
    BY <2>2, <2>3 DEF p
<1>13. Shown(RegList(n, v)) = SubSeq(all, 1, n)
  <2>1. \A i \in 1..n : i \in 1..5
    BY <1>10
  <2> QED
    BY <1>9, <1>11, <1>12, <2>1
<1>14. IsArgument(RegList(n, v), <<"list", "A">>, a)
         <=> Shown(RegList(n, v)) = SubSeq(all, 1, Number(Field(a, "A")))
  BY DEF IsArgument, all, c, d, e, f, g
<1> QED
  BY <1>2, <1>13, <1>14 DEF n, v

-----------------------------------------------------------------------------
(* The formats.                                                            *)

\* The code is made of units.
MemOK == \A p \in DOMAIN mem : p \in Nat /\ mem[p] \in Units16

Formats ==
  {"10x", "12x", "11n", "11x", "10t", "20t", "22x", "21t", "21s", "21h", "21c", "23x",
   "22b", "22t", "22s", "22c", "30t", "32x", "31i", "31t", "31c", "35c", "3rc", "45cc",
   "4rcc", "51l"}

\* The units of a format are those its layout has.
LEMMA UnitCount ==
  ASSUME NEW f \in Formats
  PROVE  Units(f) \in 1..5 /\ 4 * Units(f) = Len(Layout(f))
<1>1. CASE f \in {"10x", "12x", "11n", "11x", "10t"}
  <2>1. Units(f) = 1
    BY <1>1 DEF Units
  <2>2. Len(Layout(f)) = 4
    BY <1>1, Layouts
  <2> QED
    BY <2>1, <2>2
<1>2. CASE f \in {"20t", "22x", "21t", "21s", "21h", "21c", "23x", "22b", "22t",
                  "22s", "22c"}
  <2>1. Units(f) = 2
    BY <1>2 DEF Units
  <2>2. Len(Layout(f)) = 8
    BY <1>2, Layouts
  <2> QED
    BY <2>1, <2>2
<1>3. CASE f \in {"30t", "32x", "31i", "31t", "31c", "35c", "3rc"}
  <2>1. Units(f) = 3
    BY <1>3 DEF Units
  <2>2. Len(Layout(f)) = 12
    BY <1>3, Layouts
  <2> QED
    BY <2>1, <2>2
<1>4. CASE f \in {"45cc", "4rcc"}
  <2>1. Units(f) = 4
    BY <1>4 DEF Units
  <2>2. Len(Layout(f)) = 16
    BY <1>4, Layouts
  <2> QED
    BY <2>1, <2>2
<1>5. CASE f = "51l"
  <2>1. Units(f) = 5
    BY <1>5 DEF Units
  <2>2. Len(Layout(f)) = 20
    BY <1>5, Layouts
  <2> QED
    BY <2>1, <2>2
<1> QED
  BY <1>1, <1>2, <1>3, <1>4, <1>5 DEF Formats

\* Of an instruction that is decoded each unit is there.
LEMMA UnitsReadable ==
  ASSUME NEW a, MemOK, Decodes(a), NEW n \in 1..5, Units(FormatOf(Opcode(a))) = n
  PROVE  \A k \in 0..(n - 1) : Unit(a, k) \in Units16
<1>1. a \in Nat /\ mem[a] \in Units16
  BY DEF MemOK, Decodes, Readable
<1>2. a + 2 * 0 = a
  BY <1>1
<1>3. Unit(a, 0) \in Units16
  BY <1>1, <1>2 DEF Unit
<1>4. \A k \in 1..(n - 1) : Unit(a, k) \in Units16
  BY DEF MemOK, Decodes, Readable, Unit
<1>5. \A k \in 0..(n - 1) : k = 0 \/ k \in 1..(n - 1)
  OBVIOUS
<1> QED
  BY <1>3, <1>4, <1>5

\* The high byte of the first unit is a number.
LEMMA AAIs ==
  ASSUME NEW a, Unit(a, 0) \in Units16
  PROVE  AA(a) \in Nat
BY UnitIs DEF AA

\* An opcode is a byte.
LEMMA OpcodeIs ==
  ASSUME NEW a, Unit(a, 0) \in Units16
  PROVE  Opcode(a) \in 0..255
BY UnitIs DEF Opcode

\* Each opcode has a format, or none.
LEMMA FormatIs ==
  ASSUME NEW op \in 0..255
  PROVE  FormatOf(op) \in Formats \cup {"unused"}
BY DEF FormatOf, ArithmeticFormat, Arithmetic, Formats

\* What an index counts where the format has two of them.
LEMMA FormatKinds ==
  ASSUME NEW op \in 0..255, FormatOf(op) \in {"45cc", "4rcc"}
  PROVE  IndexKind(op) = "METHOD_PROTO"
<1>1. op \in {\hFA, \hFB}
  BY DEF FormatOf, ArithmeticFormat, Arithmetic
<1> QED
  BY <1>1 DEF IndexKind

\* Format 10t: goto.
LEMMA Format10t ==
  ASSUME NEW a, MemOK, Decodes(a), FormatOf(Opcode(a)) = "10t"
  PROVE  ArgumentsHold(a, Operands(a), Arguments("10t"))
<1>1. Operands(a) = Decode10t(a)
  BY DEF Operands
<1>2. Arguments("10t") = <<<<"target", "A">>>>
  BY DEF Arguments
<1>3. \A k \in 0..0 : Unit(a, k) \in Units16
  BY UnitsReadable DEF Units
<1>4. /\ Has(a, "A", 3, 2)
  BY Layouts DEF Has
<1>5. IsArgument(Addr(a + 2 * Signed(AA(a), 256)), <<"target", "A">>, a)
  <2>1. SignedNumber(Field(a, "A")) = Signed(AA(a), 256)
    BY <1>3, <1>4, FieldOfFirst
  <2> QED
    BY <2>1, TargetArgument
<1> QED
  BY <1>1, <1>2, <1>5, Arguments1 DEF Decode10t

\* Format 10x: nop and return-void.
LEMMA Format10x ==
  ASSUME NEW a, MemOK, Decodes(a), FormatOf(Opcode(a)) = "10x"
  PROVE  ArgumentsHold(a, Operands(a), Arguments("10x"))
<1>1. Operands(a) = <<>>
  BY DEF Operands
<1>2. Arguments("10x") = <<>>
  BY DEF Arguments
<1> QED
  BY <1>1, <1>2, Arguments0

\* Format 11n: const/4.
LEMMA Format11n ==
  ASSUME NEW a, MemOK, Decodes(a), FormatOf(Opcode(a)) = "11n"
  PROVE  ArgumentsHold(a, Operands(a), Arguments("11n"))
<1>1. Operands(a) = Decode11n(a)
  BY DEF Operands
<1>2. Arguments("11n") = <<<<"register", "A">>, <<"literal", "B">>>>
  BY DEF Arguments
<1>3. \A k \in 0..0 : Unit(a, k) \in Units16
  BY UnitsReadable DEF Units
<1>4. /\ Has(a, "A", 3, 1) /\ Has(a, "B", 4, 1)
  BY Layouts DEF Has
<1>5. IsArgument(Reg(A(a)), <<"register", "A">>, a)
  <2>1. Number(Field(a, "A")) = A(a)
    BY <1>3, <1>4, FieldOfFirst
  <2> QED
    BY <2>1, RegisterArgument
<1>6. IsArgument(Cnst(Const16(Signed(B(a), 16))), <<"literal", "B">>, a)
  <2>1. Literal(Field(a, "B")) = Const16(Signed(B(a), 16))
    BY <1>3, <1>4, FieldOfFirst
  <2> QED
    BY <2>1, LiteralArgument
<1> QED
  BY <1>1, <1>2, <1>5, <1>6, Arguments2 DEF Decode11n

\* Format 11x: move-result and the returns.
LEMMA Format11x ==
  ASSUME NEW a, MemOK, Decodes(a), FormatOf(Opcode(a)) = "11x"
  PROVE  ArgumentsHold(a, Operands(a), Arguments("11x"))
<1>1. Operands(a) = Decode11x(a)
  BY DEF Operands
<1>2. Arguments("11x") = <<<<"register", "A">>>>
  BY DEF Arguments
<1>3. \A k \in 0..0 : Unit(a, k) \in Units16
  BY UnitsReadable DEF Units
<1>4. /\ Has(a, "A", 3, 2)
  BY Layouts DEF Has
<1>5. IsArgument(Reg(AA(a)), <<"register", "A">>, a)
  <2>1. Number(Field(a, "A")) = AA(a)
    BY <1>3, <1>4, FieldOfFirst
  <2> QED
    BY <2>1, RegisterArgument
<1> QED
  BY <1>1, <1>2, <1>5, Arguments1 DEF Decode11x

\* Format 12x: move and the unary operators.
LEMMA Format12x ==
  ASSUME NEW a, MemOK, Decodes(a), FormatOf(Opcode(a)) = "12x"
  PROVE  ArgumentsHold(a, Operands(a), Arguments("12x"))
<1>1. Operands(a) = Decode12x(a)
  BY DEF Operands
<1>2. Arguments("12x") = <<<<"register", "A">>, <<"register", "B">>>>
  BY DEF Arguments
<1>3. \A k \in 0..0 : Unit(a, k) \in Units16
  BY UnitsReadable DEF Units
<1>4. /\ Has(a, "A", 3, 1) /\ Has(a, "B", 4, 1)
  BY Layouts DEF Has
<1>5. IsArgument(Reg(A(a)), <<"register", "A">>, a)
  <2>1. Number(Field(a, "A")) = A(a)
    BY <1>3, <1>4, FieldOfFirst
  <2> QED
    BY <2>1, RegisterArgument
<1>6. IsArgument(Reg(B(a)), <<"register", "B">>, a)
  <2>1. Number(Field(a, "B")) = B(a)
    BY <1>3, <1>4, FieldOfFirst
  <2> QED
    BY <2>1, RegisterArgument
<1> QED
  BY <1>1, <1>2, <1>5, <1>6, Arguments2 DEF Decode12x

\* Format 20t: goto/16.
LEMMA Format20t ==
  ASSUME NEW a, MemOK, Decodes(a), FormatOf(Opcode(a)) = "20t"
  PROVE  ArgumentsHold(a, Operands(a), Arguments("20t"))
<1>1. Operands(a) = Decode20t(a)
  BY DEF Operands
<1>2. Arguments("20t") = <<<<"target", "A">>>>
  BY DEF Arguments
<1>3. \A k \in 0..1 : Unit(a, k) \in Units16
  BY UnitsReadable DEF Units
<1>4. /\ Has(a, "A", 5, 4)
  BY Layouts DEF Has
<1>5. IsArgument(Addr(a + 2 * Signed(Unit(a, 1), Word)), <<"target", "A">>, a)
  <2>1. SignedNumber(Field(a, "A")) = Signed(Unit(a, 1), Word)
    <3>1. Has(a, "A", 4 * 1 + 1, 4) /\ 1 \in 1..3 /\ Unit(a, 1) \in Units16
      BY <1>3, <1>4, 4 * 1 + 1 = 5
    <3> QED
      BY <3>1, FieldOfUnit
  <2> QED
    BY <2>1, TargetArgument
<1> QED
  BY <1>1, <1>2, <1>5, Arguments1 DEF Decode20t

\* Format 21c: const-string, const-class and the fields of classes.
LEMMA Format21c ==
  ASSUME NEW a, MemOK, Decodes(a), FormatOf(Opcode(a)) = "21c"
  PROVE  ArgumentsHold(a, Operands(a), Arguments("21c"))
<1>1. Operands(a) = Decode21c(a)
  BY DEF Operands
<1>2. Arguments("21c") = <<<<"register", "A">>, <<"item", "B">>>>
  BY DEF Arguments
<1>3. \A k \in 0..1 : Unit(a, k) \in Units16
  BY UnitsReadable DEF Units
<1>4. /\ Has(a, "A", 3, 2) /\ Has(a, "B", 5, 4)
  BY Layouts DEF Has
<1>5. IsArgument(Reg(AA(a)), <<"register", "A">>, a)
  <2>1. Number(Field(a, "A")) = AA(a)
    BY <1>3, <1>4, FieldOfFirst
  <2> QED
    BY <2>1, RegisterArgument
<1>6. IsArgument(Index(IndexKind(Opcode(a)), Unit(a, 1)), <<"item", "B">>, a)
  <2>1. Number(Field(a, "B")) = Unit(a, 1)
    <3>1. Has(a, "B", 4 * 1 + 1, 4) /\ 1 \in 1..3 /\ Unit(a, 1) \in Units16
      BY <1>3, <1>4, 4 * 1 + 1 = 5
    <3> QED
      BY <3>1, FieldOfUnit
  <2> QED
    BY <2>1, ItemArgument
<1> QED
  BY <1>1, <1>2, <1>5, <1>6, Arguments2 DEF Decode21c

\* Format 21h: const/high16.
LEMMA Format21h ==
  ASSUME NEW a, MemOK, Decodes(a), FormatOf(Opcode(a)) = "21h"
  PROVE  ArgumentsHold(a, Operands(a), Arguments("21h"))
<1>1. Operands(a) = Decode21h(a)
  BY DEF Operands
<1>2. Arguments("21h") = <<<<"register", "A">>, <<"high", "B">>>>
  BY DEF Arguments
<1>3. \A k \in 0..1 : Unit(a, k) \in Units16
  BY UnitsReadable DEF Units
<1>4. /\ Has(a, "A", 3, 2) /\ Has(a, "B", 5, 4)
  BY Layouts DEF Has
<1>5. IsArgument(Reg(AA(a)), <<"register", "A">>, a)
  <2>1. Number(Field(a, "A")) = AA(a)
    BY <1>3, <1>4, FieldOfFirst
  <2> QED
    BY <2>1, RegisterArgument
<1>6. IsArgument(Cnst(Const32(0, Unit(a, 1))), <<"high", "B">>, a)
  <2>1. Literal(<<0, 0, 0, 0>> \o Field(a, "B")) = Const32(0, Unit(a, 1))
    <3>1. Has(a, "B", 4 * 1 + 1, 4) /\ 1 \in 1..3 /\ Unit(a, 1) \in Units16
      BY <1>3, <1>4, 4 * 1 + 1 = 5
    <3> QED
      BY <3>1, FieldOfUnit
  <2> QED
    BY <2>1, HighArgument
<1> QED
  BY <1>1, <1>2, <1>5, <1>6, Arguments2 DEF Decode21h

\* Format 21s: const/16.
LEMMA Format21s ==
  ASSUME NEW a, MemOK, Decodes(a), FormatOf(Opcode(a)) = "21s"
  PROVE  ArgumentsHold(a, Operands(a), Arguments("21s"))
<1>1. Operands(a) = Decode21s(a)
  BY DEF Operands
<1>2. Arguments("21s") = <<<<"register", "A">>, <<"literal", "B">>>>
  BY DEF Arguments
<1>3. \A k \in 0..1 : Unit(a, k) \in Units16
  BY UnitsReadable DEF Units
<1>4. /\ Has(a, "A", 3, 2) /\ Has(a, "B", 5, 4)
  BY Layouts DEF Has
<1>5. IsArgument(Reg(AA(a)), <<"register", "A">>, a)
  <2>1. Number(Field(a, "A")) = AA(a)
    BY <1>3, <1>4, FieldOfFirst
  <2> QED
    BY <2>1, RegisterArgument
<1>6. IsArgument(Cnst(Const16(Signed(Unit(a, 1), Word))), <<"literal", "B">>, a)
  <2>1. Literal(Field(a, "B")) = Const16(Signed(Unit(a, 1), Word))
    <3>1. Has(a, "B", 4 * 1 + 1, 4) /\ 1 \in 1..3 /\ Unit(a, 1) \in Units16
      BY <1>3, <1>4, 4 * 1 + 1 = 5
    <3> QED
      BY <3>1, FieldOfUnit
  <2> QED
    BY <2>1, LiteralArgument
<1> QED
  BY <1>1, <1>2, <1>5, <1>6, Arguments2 DEF Decode21s

\* Format 21t: comparisons with zero.
LEMMA Format21t ==
  ASSUME NEW a, MemOK, Decodes(a), FormatOf(Opcode(a)) = "21t"
  PROVE  ArgumentsHold(a, Operands(a), Arguments("21t"))
<1>1. Operands(a) = Decode21t(a)
  BY DEF Operands
<1>2. Arguments("21t") = <<<<"register", "A">>, <<"target", "B">>>>
  BY DEF Arguments
<1>3. \A k \in 0..1 : Unit(a, k) \in Units16
  BY UnitsReadable DEF Units
<1>4. /\ Has(a, "A", 3, 2) /\ Has(a, "B", 5, 4)
  BY Layouts DEF Has
<1>5. IsArgument(Reg(AA(a)), <<"register", "A">>, a)
  <2>1. Number(Field(a, "A")) = AA(a)
    BY <1>3, <1>4, FieldOfFirst
  <2> QED
    BY <2>1, RegisterArgument
<1>6. IsArgument(Addr(a + 2 * Signed(Unit(a, 1), Word)), <<"target", "B">>, a)
  <2>1. SignedNumber(Field(a, "B")) = Signed(Unit(a, 1), Word)
    <3>1. Has(a, "B", 4 * 1 + 1, 4) /\ 1 \in 1..3 /\ Unit(a, 1) \in Units16
      BY <1>3, <1>4, 4 * 1 + 1 = 5
    <3> QED
      BY <3>1, FieldOfUnit
  <2> QED
    BY <2>1, TargetArgument
<1> QED
  BY <1>1, <1>2, <1>5, <1>6, Arguments2 DEF Decode21t

\* Format 22b: operators with a literal of 8 bits.
LEMMA Format22b ==
  ASSUME NEW a, MemOK, Decodes(a), FormatOf(Opcode(a)) = "22b"
  PROVE  ArgumentsHold(a, Operands(a), Arguments("22b"))
<1>1. Operands(a) = Decode22b(a)
  BY DEF Operands
<1>2. Arguments("22b") = <<<<"register", "A">>, <<"register", "B">>, <<"literal", "C">>>>
  BY DEF Arguments
<1>3. \A k \in 0..1 : Unit(a, k) \in Units16
  BY UnitsReadable DEF Units
<1>4. /\ Has(a, "A", 3, 2) /\ Has(a, "B", 5, 2) /\ Has(a, "C", 7, 2)
  BY Layouts DEF Has
<1>5. IsArgument(Reg(AA(a)), <<"register", "A">>, a)
  <2>1. Number(Field(a, "A")) = AA(a)
    BY <1>3, <1>4, FieldOfFirst
  <2> QED
    BY <2>1, RegisterArgument
<1>6. IsArgument(Reg(Unit(a, 1) % 256), <<"register", "B">>, a)
  <2>1. Number(Field(a, "B")) = Unit(a, 1) % 256
    BY <1>3, <1>4, FieldOfByte
  <2> QED
    BY <2>1, RegisterArgument
<1>7. IsArgument(Cnst(Const16(Signed(Unit(a, 1) \div 256, 256))), <<"literal", "C">>, a)
  <2>1. Literal(Field(a, "C")) = Const16(Signed(Unit(a, 1) \div 256, 256))
    BY <1>3, <1>4, FieldOfByte
  <2> QED
    BY <2>1, LiteralArgument
<1> QED
  BY <1>1, <1>2, <1>5, <1>6, <1>7, Arguments3 DEF Decode22b

\* Format 22c: instance-of, new-array and the fields of instances.
LEMMA Format22c ==
  ASSUME NEW a, MemOK, Decodes(a), FormatOf(Opcode(a)) = "22c"
  PROVE  ArgumentsHold(a, Operands(a), Arguments("22c"))
<1>1. Operands(a) = Decode22c(a)
  BY DEF Operands
<1>2. Arguments("22c") = <<<<"register", "A">>, <<"register", "B">>, <<"item", "C">>>>
  BY DEF Arguments
<1>3. \A k \in 0..1 : Unit(a, k) \in Units16
  BY UnitsReadable DEF Units
<1>4. /\ Has(a, "A", 3, 1) /\ Has(a, "B", 4, 1) /\ Has(a, "C", 5, 4)
  BY Layouts DEF Has
<1>5. IsArgument(Reg(A(a)), <<"register", "A">>, a)
  <2>1. Number(Field(a, "A")) = A(a)
    BY <1>3, <1>4, FieldOfFirst
  <2> QED
    BY <2>1, RegisterArgument
<1>6. IsArgument(Reg(B(a)), <<"register", "B">>, a)
  <2>1. Number(Field(a, "B")) = B(a)
    BY <1>3, <1>4, FieldOfFirst
  <2> QED
    BY <2>1, RegisterArgument
<1>7. IsArgument(Index(IndexKind(Opcode(a)), Unit(a, 1)), <<"item", "C">>, a)
  <2>1. Number(Field(a, "C")) = Unit(a, 1)
    <3>1. Has(a, "C", 4 * 1 + 1, 4) /\ 1 \in 1..3 /\ Unit(a, 1) \in Units16
      BY <1>3, <1>4, 4 * 1 + 1 = 5
    <3> QED
      BY <3>1, FieldOfUnit
  <2> QED
    BY <2>1, ItemArgument
<1> QED
  BY <1>1, <1>2, <1>5, <1>6, <1>7, Arguments3 DEF Decode22c

\* Format 22s: operators with a literal of 16 bits.
LEMMA Format22s ==
  ASSUME NEW a, MemOK, Decodes(a), FormatOf(Opcode(a)) = "22s"
  PROVE  ArgumentsHold(a, Operands(a), Arguments("22s"))
<1>1. Operands(a) = Decode22s(a)
  BY DEF Operands
<1>2. Arguments("22s") = <<<<"register", "A">>, <<"register", "B">>, <<"literal", "C">>>>
  BY DEF Arguments
<1>3. \A k \in 0..1 : Unit(a, k) \in Units16
  BY UnitsReadable DEF Units
<1>4. /\ Has(a, "A", 3, 1) /\ Has(a, "B", 4, 1) /\ Has(a, "C", 5, 4)
  BY Layouts DEF Has
<1>5. IsArgument(Reg(A(a)), <<"register", "A">>, a)
  <2>1. Number(Field(a, "A")) = A(a)
    BY <1>3, <1>4, FieldOfFirst
  <2> QED
    BY <2>1, RegisterArgument
<1>6. IsArgument(Reg(B(a)), <<"register", "B">>, a)
  <2>1. Number(Field(a, "B")) = B(a)
    BY <1>3, <1>4, FieldOfFirst
  <2> QED
    BY <2>1, RegisterArgument
<1>7. IsArgument(Cnst(Const16(Signed(Unit(a, 1), Word))), <<"literal", "C">>, a)
  <2>1. Literal(Field(a, "C")) = Const16(Signed(Unit(a, 1), Word))
    <3>1. Has(a, "C", 4 * 1 + 1, 4) /\ 1 \in 1..3 /\ Unit(a, 1) \in Units16
      BY <1>3, <1>4, 4 * 1 + 1 = 5
    <3> QED
      BY <3>1, FieldOfUnit
  <2> QED
    BY <2>1, LiteralArgument
<1> QED
  BY <1>1, <1>2, <1>5, <1>6, <1>7, Arguments3 DEF Decode22s

\* Format 22t: comparisons of two registers.
LEMMA Format22t ==
  ASSUME NEW a, MemOK, Decodes(a), FormatOf(Opcode(a)) = "22t"
  PROVE  ArgumentsHold(a, Operands(a), Arguments("22t"))
<1>1. Operands(a) = Decode22t(a)
  BY DEF Operands
<1>2. Arguments("22t") = <<<<"register", "A">>, <<"register", "B">>, <<"target", "C">>>>
  BY DEF Arguments
<1>3. \A k \in 0..1 : Unit(a, k) \in Units16
  BY UnitsReadable DEF Units
<1>4. /\ Has(a, "A", 3, 1) /\ Has(a, "B", 4, 1) /\ Has(a, "C", 5, 4)
  BY Layouts DEF Has
<1>5. IsArgument(Reg(A(a)), <<"register", "A">>, a)
  <2>1. Number(Field(a, "A")) = A(a)
    BY <1>3, <1>4, FieldOfFirst
  <2> QED
    BY <2>1, RegisterArgument
<1>6. IsArgument(Reg(B(a)), <<"register", "B">>, a)
  <2>1. Number(Field(a, "B")) = B(a)
    BY <1>3, <1>4, FieldOfFirst
  <2> QED
    BY <2>1, RegisterArgument
<1>7. IsArgument(Addr(a + 2 * Signed(Unit(a, 1), Word)), <<"target", "C">>, a)
  <2>1. SignedNumber(Field(a, "C")) = Signed(Unit(a, 1), Word)
    <3>1. Has(a, "C", 4 * 1 + 1, 4) /\ 1 \in 1..3 /\ Unit(a, 1) \in Units16
      BY <1>3, <1>4, 4 * 1 + 1 = 5
    <3> QED
      BY <3>1, FieldOfUnit
  <2> QED
    BY <2>1, TargetArgument
<1> QED
  BY <1>1, <1>2, <1>5, <1>6, <1>7, Arguments3 DEF Decode22t

\* Format 22x: move/from16.
LEMMA Format22x ==
  ASSUME NEW a, MemOK, Decodes(a), FormatOf(Opcode(a)) = "22x"
  PROVE  ArgumentsHold(a, Operands(a), Arguments("22x"))
<1>1. Operands(a) = Decode22x(a)
  BY DEF Operands
<1>2. Arguments("22x") = <<<<"register", "A">>, <<"register", "B">>>>
  BY DEF Arguments
<1>3. \A k \in 0..1 : Unit(a, k) \in Units16
  BY UnitsReadable DEF Units
<1>4. /\ Has(a, "A", 3, 2) /\ Has(a, "B", 5, 4)
  BY Layouts DEF Has
<1>5. IsArgument(Reg(AA(a)), <<"register", "A">>, a)
  <2>1. Number(Field(a, "A")) = AA(a)
    BY <1>3, <1>4, FieldOfFirst
  <2> QED
    BY <2>1, RegisterArgument
<1>6. IsArgument(Reg(Unit(a, 1)), <<"register", "B">>, a)
  <2>1. Number(Field(a, "B")) = Unit(a, 1)
    <3>1. Has(a, "B", 4 * 1 + 1, 4) /\ 1 \in 1..3 /\ Unit(a, 1) \in Units16
      BY <1>3, <1>4, 4 * 1 + 1 = 5
    <3> QED
      BY <3>1, FieldOfUnit
  <2> QED
    BY <2>1, RegisterArgument
<1> QED
  BY <1>1, <1>2, <1>5, <1>6, Arguments2 DEF Decode22x

\* Format 23x: operators and arrays with three registers.
LEMMA Format23x ==
  ASSUME NEW a, MemOK, Decodes(a), FormatOf(Opcode(a)) = "23x"
  PROVE  ArgumentsHold(a, Operands(a), Arguments("23x"))
<1>1. Operands(a) = Decode23x(a)
  BY DEF Operands
<1>2. Arguments("23x") = <<<<"register", "A">>, <<"register", "B">>, <<"register", "C">>>>
  BY DEF Arguments
<1>3. \A k \in 0..1 : Unit(a, k) \in Units16
  BY UnitsReadable DEF Units
<1>4. /\ Has(a, "A", 3, 2) /\ Has(a, "B", 5, 2) /\ Has(a, "C", 7, 2)
  BY Layouts DEF Has
<1>5. IsArgument(Reg(AA(a)), <<"register", "A">>, a)
  <2>1. Number(Field(a, "A")) = AA(a)
    BY <1>3, <1>4, FieldOfFirst
  <2> QED
    BY <2>1, RegisterArgument
<1>6. IsArgument(Reg(Unit(a, 1) % 256), <<"register", "B">>, a)
  <2>1. Number(Field(a, "B")) = Unit(a, 1) % 256
    BY <1>3, <1>4, FieldOfByte
  <2> QED
    BY <2>1, RegisterArgument
<1>7. IsArgument(Reg(Unit(a, 1) \div 256), <<"register", "C">>, a)
  <2>1. Number(Field(a, "C")) = Unit(a, 1) \div 256
    BY <1>3, <1>4, FieldOfByte
  <2> QED
    BY <2>1, RegisterArgument
<1> QED
  BY <1>1, <1>2, <1>5, <1>6, <1>7, Arguments3 DEF Decode23x

\* Format 30t: goto/32.
LEMMA Format30t ==
  ASSUME NEW a, MemOK, Decodes(a), FormatOf(Opcode(a)) = "30t"
  PROVE  ArgumentsHold(a, Operands(a), Arguments("30t"))
<1>1. Operands(a) = Decode30t(a)
  BY DEF Operands
<1>2. Arguments("30t") = <<<<"target", "A">>>>
  BY DEF Arguments
<1>3. \A k \in 0..2 : Unit(a, k) \in Units16
  BY UnitsReadable DEF Units
<1>4. /\ Has(a, "A", 5, 8)
  BY Layouts DEF Has
<1>5. IsArgument(Addr(a + 2 * Signed32(Unit(a, 1), Unit(a, 2))), <<"target", "A">>, a)
  <2>1. SignedNumber(Field(a, "A")) = Signed32(Unit(a, 1), Unit(a, 2))
    BY <1>3, <1>4, FieldOfUnits
  <2> QED
    BY <2>1, TargetArgument
<1> QED
  BY <1>1, <1>2, <1>5, Arguments1 DEF Decode30t

\* Format 31c: const-string/jumbo.
LEMMA Format31c ==
  ASSUME NEW a, MemOK, Decodes(a), FormatOf(Opcode(a)) = "31c"
  PROVE  ArgumentsHold(a, Operands(a), Arguments("31c"))
<1>1. Operands(a) = Decode31c(a)
  BY DEF Operands
<1>2. Arguments("31c") = <<<<"register", "A">>, <<"item", "B">>>>
  BY DEF Arguments
<1>3. \A k \in 0..2 : Unit(a, k) \in Units16
  BY UnitsReadable DEF Units
<1>4. /\ Has(a, "A", 3, 2) /\ Has(a, "B", 5, 8)
  BY Layouts DEF Has
<1>5. IsArgument(Reg(AA(a)), <<"register", "A">>, a)
  <2>1. Number(Field(a, "A")) = AA(a)
    BY <1>3, <1>4, FieldOfFirst
  <2> QED
    BY <2>1, RegisterArgument
<1>6. IsArgument(Index(IndexKind(Opcode(a)), Unit(a, 2) * Word + Unit(a, 1)), <<"item", "B">>, a)
  <2>1. Number(Field(a, "B")) = Unit(a, 2) * Word + Unit(a, 1)
    BY <1>3, <1>4, FieldOfUnits
  <2> QED
    BY <2>1, ItemArgument
<1> QED
  BY <1>1, <1>2, <1>5, <1>6, Arguments2 DEF Decode31c

\* Format 31i: const.
LEMMA Format31i ==
  ASSUME NEW a, MemOK, Decodes(a), FormatOf(Opcode(a)) = "31i"
  PROVE  ArgumentsHold(a, Operands(a), Arguments("31i"))
<1>1. Operands(a) = Decode31i(a)
  BY DEF Operands
<1>2. Arguments("31i") = <<<<"register", "A">>, <<"literal", "B">>>>
  BY DEF Arguments
<1>3. \A k \in 0..2 : Unit(a, k) \in Units16
  BY UnitsReadable DEF Units
<1>4. /\ Has(a, "A", 3, 2) /\ Has(a, "B", 5, 8)
  BY Layouts DEF Has
<1>5. IsArgument(Reg(AA(a)), <<"register", "A">>, a)
  <2>1. Number(Field(a, "A")) = AA(a)
    BY <1>3, <1>4, FieldOfFirst
  <2> QED
    BY <2>1, RegisterArgument
<1>6. IsArgument(Cnst(Const32(Unit(a, 1), Unit(a, 2))), <<"literal", "B">>, a)
  <2>1. Literal(Field(a, "B")) = Const32(Unit(a, 1), Unit(a, 2))
    BY <1>3, <1>4, FieldOfUnits
  <2> QED
    BY <2>1, LiteralArgument
<1> QED
  BY <1>1, <1>2, <1>5, <1>6, Arguments2 DEF Decode31i

\* Format 31t: the switches and fill-array-data.
LEMMA Format31t ==
  ASSUME NEW a, MemOK, Decodes(a), FormatOf(Opcode(a)) = "31t"
  PROVE  ArgumentsHold(a, Operands(a), Arguments("31t"))
<1>1. Operands(a) = Decode31t(a)
  BY DEF Operands
<1>2. Arguments("31t") = <<<<"register", "A">>, <<"target", "B">>>>
  BY DEF Arguments
<1>3. \A k \in 0..2 : Unit(a, k) \in Units16
  BY UnitsReadable DEF Units
<1>4. /\ Has(a, "A", 3, 2) /\ Has(a, "B", 5, 8)
  BY Layouts DEF Has
<1>5. IsArgument(Reg(AA(a)), <<"register", "A">>, a)
  <2>1. Number(Field(a, "A")) = AA(a)
    BY <1>3, <1>4, FieldOfFirst
  <2> QED
    BY <2>1, RegisterArgument
<1>6. IsArgument(Addr(a + 2 * Signed32(Unit(a, 1), Unit(a, 2))), <<"target", "B">>, a)
  <2>1. SignedNumber(Field(a, "B")) = Signed32(Unit(a, 1), Unit(a, 2))
    BY <1>3, <1>4, FieldOfUnits
  <2> QED
    BY <2>1, TargetArgument
<1> QED
  BY <1>1, <1>2, <1>5, <1>6, Arguments2 DEF Decode31t

\* Format 32x: move/16.
LEMMA Format32x ==
  ASSUME NEW a, MemOK, Decodes(a), FormatOf(Opcode(a)) = "32x"
  PROVE  ArgumentsHold(a, Operands(a), Arguments("32x"))
<1>1. Operands(a) = Decode32x(a)
  BY DEF Operands
<1>2. Arguments("32x") = <<<<"register", "A">>, <<"register", "B">>>>
  BY DEF Arguments
<1>3. \A k \in 0..2 : Unit(a, k) \in Units16
  BY UnitsReadable DEF Units
<1>4. /\ Has(a, "A", 5, 4) /\ Has(a, "B", 9, 4)
  BY Layouts DEF Has
<1>5. IsArgument(Reg(Unit(a, 1)), <<"register", "A">>, a)
  <2>1. Number(Field(a, "A")) = Unit(a, 1)
    <3>1. Has(a, "A", 4 * 1 + 1, 4) /\ 1 \in 1..3 /\ Unit(a, 1) \in Units16
      BY <1>3, <1>4, 4 * 1 + 1 = 5
    <3> QED
      BY <3>1, FieldOfUnit
  <2> QED
    BY <2>1, RegisterArgument
<1>6. IsArgument(Reg(Unit(a, 2)), <<"register", "B">>, a)
  <2>1. Number(Field(a, "B")) = Unit(a, 2)
    <3>1. Has(a, "B", 4 * 2 + 1, 4) /\ 2 \in 1..3 /\ Unit(a, 2) \in Units16
      BY <1>3, <1>4, 4 * 2 + 1 = 9
    <3> QED
      BY <3>1, FieldOfUnit
  <2> QED
    BY <2>1, RegisterArgument
<1> QED
  BY <1>1, <1>2, <1>5, <1>6, Arguments2 DEF Decode32x

\* Format 35c: calls with a list of registers.
LEMMA Format35c ==
  ASSUME NEW a, MemOK, Decodes(a), FormatOf(Opcode(a)) = "35c"
  PROVE  ArgumentsHold(a, Operands(a), Arguments("35c"))
<1>1. Operands(a) = Decode35c(a)
  BY DEF Operands
<1>2. Arguments("35c") = <<<<"list", "A">>, <<"item", "B">>>>
  BY DEF Arguments
<1>3. \A k \in 0..2 : Unit(a, k) \in Units16
  BY UnitsReadable DEF Units
<1>4. /\ Has(a, "A", 4, 1) /\ Has(a, "G", 3, 1) /\ Has(a, "C", 9, 1)
      /\ Has(a, "D", 10, 1) /\ Has(a, "E", 11, 1) /\ Has(a, "F", 12, 1)
      /\ Has(a, "B", 5, 4)
  BY Layouts DEF Has
<1>5. IsArgument(RegList(B(a), Packed(a)), <<"list", "A">>, a)
  <2>1. Unit(a, 0) \in Units16 /\ Unit(a, 2) \in Units16
    BY <1>3
  <2>2. B(a) <= 5
    BY DEF Decodes, CountFits
  <2> QED
    BY <1>4, <2>1, <2>2, ListArgument
<1>6. IsArgument(Index35c(IndexKind(Opcode(a)), Unit(a, 1)), <<"item", "B">>, a)
  <2>1. Number(Field(a, "B")) = Unit(a, 1)
    <3>1. Has(a, "B", 4 * 1 + 1, 4) /\ 1 \in 1..3 /\ Unit(a, 1) \in Units16
      BY <1>3, <1>4, 4 * 1 + 1 = 5
    <3> QED
      BY <3>1, FieldOfUnit
  <2> QED
    BY <2>1, ItemArgument
<1> QED
  BY <1>1, <1>2, <1>5, <1>6, Arguments2 DEF Decode35c

\* Format 3rc: calls with a range of registers.
LEMMA Format3rc ==
  ASSUME NEW a, MemOK, Decodes(a), FormatOf(Opcode(a)) = "3rc"
  PROVE  ArgumentsHold(a, Operands(a), Arguments("3rc"))
<1>1. Operands(a) = Decode3rc(a)
  BY DEF Operands
<1>2. Arguments("3rc") = <<<<"range", "C">>, <<"item", "B">>>>
  BY DEF Arguments
<1>3. \A k \in 0..2 : Unit(a, k) \in Units16
  BY UnitsReadable DEF Units
<1>4. /\ Has(a, "C", 9, 4) /\ Has(a, "A", 3, 2) /\ Has(a, "B", 5, 4)
  BY Layouts DEF Has
<1>5. IsArgument(RegRange(Unit(a, 2), AA(a)), <<"range", "C">>, a)
  <2>1. Unit(a, 0) \in Units16 /\ Unit(a, 2) \in Units16
    BY <1>3
  <2>2. Number(Field(a, "A")) = AA(a)
    BY <1>4, <2>1, FieldOfFirst
  <2>3. Has(a, "C", 4 * 2 + 1, 4) /\ 2 \in 1..3
    BY <1>4, 4 * 2 + 1 = 9
  <2>4. Number(Field(a, "C")) = Unit(a, 2)
    BY <2>1, <2>3, FieldOfUnit
  <2>5. Unit(a, 2) \in Nat /\ AA(a) \in Nat
    BY <2>1, UnitIs, AAIs
  <2> QED
    BY <2>2, <2>4, <2>5, RangeArgument
<1>6. IsArgument(Index(IndexKind(Opcode(a)), Unit(a, 1)), <<"item", "B">>, a)
  <2>1. Number(Field(a, "B")) = Unit(a, 1)
    <3>1. Has(a, "B", 4 * 1 + 1, 4) /\ 1 \in 1..3 /\ Unit(a, 1) \in Units16
      BY <1>3, <1>4, 4 * 1 + 1 = 5
    <3> QED
      BY <3>1, FieldOfUnit
  <2> QED
    BY <2>1, ItemArgument
<1> QED
  BY <1>1, <1>2, <1>5, <1>6, Arguments2 DEF Decode3rc

\* Format 45cc: invoke-polymorphic.
LEMMA Format45cc ==
  ASSUME NEW a, MemOK, Decodes(a), FormatOf(Opcode(a)) = "45cc"
  PROVE  ArgumentsHold(a, Operands(a), Arguments("45cc"))
<1>1. Operands(a) = Decode45cc(a)
  BY DEF Operands
<1>2. Arguments("45cc") = <<<<"list", "A">>, <<"item", "B">>, <<"proto", "H">>>>
  BY DEF Arguments
<1>3. \A k \in 0..3 : Unit(a, k) \in Units16
  BY UnitsReadable DEF Units
<1>4. /\ Has(a, "A", 4, 1) /\ Has(a, "G", 3, 1) /\ Has(a, "C", 9, 1)
      /\ Has(a, "D", 10, 1) /\ Has(a, "E", 11, 1) /\ Has(a, "F", 12, 1)
      /\ Has(a, "B", 5, 4) /\ Has(a, "H", 13, 4)
  BY Layouts DEF Has
<1>5. IsArgument(RegList(B(a), Packed(a)), <<"list", "A">>, a)
  <2>1. Unit(a, 0) \in Units16 /\ Unit(a, 2) \in Units16
    BY <1>3
  <2>2. B(a) <= 5
    BY DEF Decodes, CountFits
  <2> QED
    BY <1>4, <2>1, <2>2, ListArgument
<1>6. IsArgument(Index("METHOD", Unit(a, 1)), <<"item", "B">>, a)
  <2>1. Number(Field(a, "B")) = Unit(a, 1)
    <3>1. Has(a, "B", 4 * 1 + 1, 4) /\ 1 \in 1..3 /\ Unit(a, 1) \in Units16
      BY <1>3, <1>4, 4 * 1 + 1 = 5
    <3> QED
      BY <3>1, FieldOfUnit
  <2>2. IndexKind(Opcode(a)) = "METHOD_PROTO"
    BY <1>3, OpcodeIs, FormatKinds
  <2> QED
    BY <2>1, <2>2, MethodArgument
<1>7. IsArgument(Index("PROTO", Unit(a, 3)), <<"proto", "H">>, a)
  <2>1. Number(Field(a, "H")) = Unit(a, 3)
    <3>1. Has(a, "H", 4 * 3 + 1, 4) /\ 3 \in 1..3 /\ Unit(a, 3) \in Units16
      BY <1>3, <1>4, 4 * 3 + 1 = 13
    <3> QED
      BY <3>1, FieldOfUnit
  <2> QED
    BY <2>1, ItemArgument
<1> QED
  BY <1>1, <1>2, <1>5, <1>6, <1>7, Arguments3 DEF Decode45cc

\* Format 4rcc: invoke-polymorphic/range.
LEMMA Format4rcc ==
  ASSUME NEW a, MemOK, Decodes(a), FormatOf(Opcode(a)) = "4rcc"
  PROVE  ArgumentsHold(a, Operands(a), Arguments("4rcc"))
<1>1. Operands(a) = Decode4rcc(a)
  BY DEF Operands
<1>2. Arguments("4rcc") = <<<<"range", "C">>, <<"item", "B">>, <<"proto", "H">>>>
  BY DEF Arguments
<1>3. \A k \in 0..3 : Unit(a, k) \in Units16
  BY UnitsReadable DEF Units
<1>4. /\ Has(a, "C", 9, 4) /\ Has(a, "A", 3, 2) /\ Has(a, "B", 5, 4)
      /\ Has(a, "H", 13, 4)
  BY Layouts DEF Has
<1>5. IsArgument(RegRange(Unit(a, 2), AA(a)), <<"range", "C">>, a)
  <2>1. Unit(a, 0) \in Units16 /\ Unit(a, 2) \in Units16
    BY <1>3
  <2>2. Number(Field(a, "A")) = AA(a)
    BY <1>4, <2>1, FieldOfFirst
  <2>3. Has(a, "C", 4 * 2 + 1, 4) /\ 2 \in 1..3
    BY <1>4, 4 * 2 + 1 = 9
  <2>4. Number(Field(a, "C")) = Unit(a, 2)
    BY <2>1, <2>3, FieldOfUnit
  <2>5. Unit(a, 2) \in Nat /\ AA(a) \in Nat
    BY <2>1, UnitIs, AAIs
  <2> QED
    BY <2>2, <2>4, <2>5, RangeArgument
<1>6. IsArgument(Index("METHOD", Unit(a, 1)), <<"item", "B">>, a)
  <2>1. Number(Field(a, "B")) = Unit(a, 1)
    <3>1. Has(a, "B", 4 * 1 + 1, 4) /\ 1 \in 1..3 /\ Unit(a, 1) \in Units16
      BY <1>3, <1>4, 4 * 1 + 1 = 5
    <3> QED
      BY <3>1, FieldOfUnit
  <2>2. IndexKind(Opcode(a)) = "METHOD_PROTO"
    BY <1>3, OpcodeIs, FormatKinds
  <2> QED
    BY <2>1, <2>2, MethodArgument
<1>7. IsArgument(Index("PROTO", Unit(a, 3)), <<"proto", "H">>, a)
  <2>1. Number(Field(a, "H")) = Unit(a, 3)
    <3>1. Has(a, "H", 4 * 3 + 1, 4) /\ 3 \in 1..3 /\ Unit(a, 3) \in Units16
      BY <1>3, <1>4, 4 * 3 + 1 = 13
    <3> QED
      BY <3>1, FieldOfUnit
  <2> QED
    BY <2>1, ItemArgument
<1> QED
  BY <1>1, <1>2, <1>5, <1>6, <1>7, Arguments3 DEF Decode4rcc

\* Format 51l: const-wide.
LEMMA Format51l ==
  ASSUME NEW a, MemOK, Decodes(a), FormatOf(Opcode(a)) = "51l"
  PROVE  ArgumentsHold(a, Operands(a), Arguments("51l"))
<1>1. Operands(a) = Decode51l(a)
  BY DEF Operands
<1>2. Arguments("51l") = <<<<"register", "A">>, <<"literal", "B">>>>
  BY DEF Arguments
<1>3. \A k \in 0..4 : Unit(a, k) \in Units16
  BY UnitsReadable DEF Units
<1>4. /\ Has(a, "A", 3, 2) /\ Has(a, "B", 5, 16)
  BY Layouts DEF Has
<1>5. IsArgument(Reg(AA(a)), <<"register", "A">>, a)
  <2>1. Number(Field(a, "A")) = AA(a)
    BY <1>3, <1>4, FieldOfFirst
  <2> QED
    BY <2>1, RegisterArgument
<1>6. IsArgument(Cnst([k \in 1..4 |-> Unit(a, k)]), <<"literal", "B">>, a)
  <2>1. Literal(Field(a, "B")) = [k \in 1..4 |-> Unit(a, k)]
    <3>1. \A m \in 1..4 : Unit(a, m) \in Units16
      BY <1>3
    <3> QED
      BY <1>4, <3>1, FieldOfFour
  <2> QED
    BY <2>1, LiteralArgument
<1> QED
  BY <1>1, <1>2, <1>5, <1>6, Arguments2 DEF Decode51l

\* Whatever the format, the operands are the arguments.
LEMMA OperandsAreArguments ==
  ASSUME NEW a, MemOK, Decodes(a)
  PROVE  LET f == FormatOf(Opcode(a))
         IN  f \in Formats /\ ArgumentsHold(a, Operands(a), Arguments(f))
<1>1. a \in Nat /\ mem[a] \in Units16 /\ a + 2 * 0 = a
  BY DEF MemOK, Decodes, Readable
<1>2. Opcode(a) \in 0..255
  BY <1>1, OpcodeIs DEF Unit
<1>3. FormatOf(Opcode(a)) \in Formats
  BY <1>2, FormatIs DEF Decodes
<1> QED
  BY <1>3, Format10t, Format10x, Format11n, Format11x, Format12x, Format20t,
     Format21c, Format21h, Format21s, Format21t, Format22b, Format22c,
     Format22s, Format22t, Format22x, Format23x, Format30t, Format31c,
     Format31i, Format31t, Format32x, Format35c, Format3rc, Format45cc,
     Format4rcc, Format51l DEF Formats

-----------------------------------------------------------------------------
(* The invariant.                                                          *)

\* What the engine keeps of an address.
InstructionAt(a) == IF Decodes(a) THEN Instruction(a) ELSE NoInstruction

\* The code and the tables are those of a method; the engine is told of code
\* only, and what it has decoded is what is there.
CodeInv ==
  /\ \E m \in Methods : mem = m.code /\ dex = m.tables
  /\ todo \subseteq DOMAIN mem /\ Known \subseteq DOMAIN mem
  /\ \A a \in Known : decoded[a] = InstructionAt(a)

\* Where the instruction at a is followed as a jump, and where at all.
Jumps(a) ==
  IF Opcode(a) \in {PackedSwitch, SparseSwitch}
  THEN IF IsSwitchPayload(Instruction(a).operands[2].addr)
       THEN Cases(a, Instruction(a).operands[2].addr) ELSE {}
  ELSE IF Opcode(a) # FillArrayData /\ IsJump(Instruction(a))
       THEN Addresses(Instruction(a)) ELSE {}

Follows(a) == Jumps(a) \cup Onward(a, Instruction(a))

First(a) == \A b \in DOMAIN mem : a <= b

\* Each instruction has been followed, and nothing else.
FollowInv ==
  /\ \A a \in Known : Decodes(a) =>
       /\ \A t \in Follows(a) : Readable(t) => t \in Known \cup todo
       /\ \A t \in Jumps(a) : Xref(a, t, "CR_JUMP") \in xrefs
  /\ \A t \in Known \cup todo :
       First(t) \/ \E b \in Known : Decodes(b) /\ t \in Follows(b)

\* The code of a method is units.
LEMMA CodeIsUnits == CodeInv => MemOK
BY MethodsAssumption DEF CodeInv, MemOK, Units16

\* What the engine does with an address, whichever branch it takes.
Follow(a) ==
  /\ a \in todo
  /\ UNCHANGED <<mem, dex>>
  /\ Visited(a, InstructionAt(a), IF Decodes(a) THEN Follows(a) ELSE {})
  /\ xrefs \subseteq xrefs'
  /\ Decodes(a) => \A t \in Jumps(a) : Xref(a, t, "CR_JUMP") \in xrefs'

\* A step is that the engine deals with an address, by whichever branch.
LEMMA StepFollows ==
  ASSUME CodeNext, codevars' # codevars
  PROVE  \E a \in todo : Follow(a)
<1>1. PICK a \in todo : DecodeFails(a) \/ EmulateSwitch(a) \/ EmulateFillArray(a)
                           \/ EmulateOther(a)
  BY DEF CodeNext, Done, codevars
<1>2. CASE DecodeFails(a)
  BY <1>2 DEF DecodeFails, Follow, InstructionAt
<1>3. CASE EmulateSwitch(a)
  <2> DEFINE in == Instruction(a)
             q == in.operands[2].addr
             cases == IF IsSwitchPayload(q) THEN Cases(a, q) ELSE {}
  <2>1. /\ a \in todo /\ Decodes(a) /\ Opcode(a) \in {PackedSwitch, SparseSwitch}
        /\ Visited(a, in, cases \cup Onward(a, in))
        /\ xrefs' = xrefs \cup {Xref(a, q, "DR_ADDRESS")}
                          \cup {Xref(a, c, "CR_JUMP") : c \in cases}
        /\ UNCHANGED <<mem, dex>>
    BY <1>3 DEF EmulateSwitch
  <2>2. Jumps(a) = cases /\ Follows(a) = cases \cup Onward(a, in)
    BY <2>1 DEF Jumps, Follows
  <2> HIDE DEF in, q, cases
  <2>3. Visited(a, InstructionAt(a), Follows(a))
    BY <2>1, <2>2 DEF InstructionAt, in
  <2>4. \A t \in cases : Xref(a, t, "CR_JUMP") \in xrefs'
    BY <2>1
  <2> QED
    BY <2>1, <2>2, <2>3, <2>4 DEF Follow
<1>4. CASE EmulateFillArray(a)
  <2> DEFINE in == Instruction(a)
  <2>1. /\ a \in todo /\ Decodes(a) /\ Opcode(a) = FillArrayData
        /\ Visited(a, in, Onward(a, in))
        /\ xrefs \subseteq xrefs'
        /\ UNCHANGED <<mem, dex>>
    BY <1>4 DEF EmulateFillArray
  <2>2. Jumps(a) = {} /\ Follows(a) = Onward(a, in)
    BY <2>1 DEF Jumps, Follows, FillArrayData, PackedSwitch, SparseSwitch
  <2> HIDE DEF in
  <2>3. Visited(a, InstructionAt(a), Follows(a))
    BY <2>1, <2>2 DEF InstructionAt, in
  <2> QED
    BY <2>1, <2>2, <2>3 DEF Follow
<1>5. CASE EmulateOther(a)
  <2> DEFINE in == Instruction(a)
             type == IF IsCall(in) THEN "CR_CALL"
                     ELSE IF IsJump(in) THEN "CR_JUMP" ELSE "DR_ADDRESS"
             jumps == IF IsJump(in) THEN Addresses(in) ELSE {}
  <2>1. /\ a \in todo /\ Decodes(a)
        /\ Opcode(a) \notin {PackedSwitch, SparseSwitch, FillArrayData}
        /\ Visited(a, in, jumps \cup Onward(a, in))
        /\ xrefs' = xrefs \cup {Xref(a, t, type) : t \in Addresses(in)}
        /\ UNCHANGED <<mem, dex>>
    BY <1>5 DEF EmulateOther
  <2>2. Jumps(a) = jumps /\ Follows(a) = jumps \cup Onward(a, in)
    BY <2>1 DEF Jumps, Follows
  <2>3. IsJump(in) => type = "CR_JUMP"
    BY DEF IsJump, IsCall
  <2>4. \A t \in jumps : IsJump(in) /\ t \in Addresses(in)
    OBVIOUS
  <2> HIDE DEF in, type, jumps
  <2>5. Visited(a, InstructionAt(a), Follows(a))
    BY <2>1, <2>2 DEF InstructionAt, in
  <2>6. \A t \in jumps : Xref(a, t, "CR_JUMP") \in xrefs'
    BY <2>1, <2>3, <2>4
  <2> QED
    BY <2>1, <2>2, <2>5, <2>6 DEF Follow
<1> QED
  BY <1>1, <1>2, <1>3, <1>4, <1>5

\* While the code and the tables stay, so does what is decoded of them.
LEMMA SameCode ==
  ASSUME UNCHANGED <<mem, dex>>, NEW a
  PROVE  /\ Decodes(a)' <=> Decodes(a)
         /\ Instruction(a)' = Instruction(a) /\ Jumps(a)' = Jumps(a)
<1>1. \A b, k : Unit(b, k)' = Unit(b, k)
  BY DEF Unit
<1>2. \A b : Opcode(b)' = Opcode(b) /\ AA(b)' = AA(b)
  BY <1>1 DEF Opcode, AA
<1>3. A(a)' = A(a) /\ B(a)' = B(a) /\ Packed(a)' = Packed(a)
  BY <1>1, <1>2 DEF A, B, Packed
<1>4. \A kind, idx : Resolves(kind, idx)' <=> Resolves(kind, idx)
  BY DEF Resolves
<1>5. \A kind, idx : ItemAddress(kind, idx)' = ItemAddress(kind, idx)
  BY DEF ItemAddress
<1>6. \A kind, idx : Index(kind, idx)' = Index(kind, idx)
                       /\ Index35c(kind, idx)' = Index35c(kind, idx)
  BY <1>4, <1>5 DEF Index, Index35c
<1>7. /\ Decode10t(a)' = Decode10t(a) /\ Decode11n(a)' = Decode11n(a)
        /\ Decode11x(a)' = Decode11x(a) /\ Decode12x(a)' = Decode12x(a)
        /\ Decode20t(a)' = Decode20t(a) /\ Decode21c(a)' = Decode21c(a)
        /\ Decode21h(a)' = Decode21h(a) /\ Decode21s(a)' = Decode21s(a)
        /\ Decode21t(a)' = Decode21t(a) /\ Decode22b(a)' = Decode22b(a)
        /\ Decode22c(a)' = Decode22c(a) /\ Decode22s(a)' = Decode22s(a)
        /\ Decode22t(a)' = Decode22t(a) /\ Decode22x(a)' = Decode22x(a)
        /\ Decode23x(a)' = Decode23x(a) /\ Decode30t(a)' = Decode30t(a)
        /\ Decode31c(a)' = Decode31c(a) /\ Decode31i(a)' = Decode31i(a)
        /\ Decode31t(a)' = Decode31t(a) /\ Decode32x(a)' = Decode32x(a)
        /\ Decode35c(a)' = Decode35c(a) /\ Decode3rc(a)' = Decode3rc(a)
        /\ Decode45cc(a)' = Decode45cc(a) /\ Decode4rcc(a)' = Decode4rcc(a)
        /\ Decode51l(a)' = Decode51l(a)
  BY <1>1, <1>2, <1>3, <1>6
     DEF Decode10t, Decode11n, Decode11x, Decode12x, Decode20t, Decode21c,
           Decode21h, Decode21s, Decode21t, Decode22b, Decode22c, Decode22s,
           Decode22t, Decode22x, Decode23x, Decode30t, Decode31c, Decode31i,
           Decode31t, Decode32x, Decode35c, Decode3rc, Decode45cc, Decode4rcc,
           Decode51l
<1>8. Operands(a)' = Operands(a)
  BY <1>2, <1>7 DEF Operands
<1>9. Instruction(a)' = Instruction(a)
  BY <1>2, <1>8 DEF Instruction
<1>10. Decodes(a)' <=> Decodes(a)
  BY <1>2, <1>3 DEF Decodes, Readable, IsPayload, CountFits
<1>11. \A p : IsSwitchPayload(p)' <=> IsSwitchPayload(p)
  BY DEF IsSwitchPayload, Readable
<1>12. \A p : Cases(a, p)' = Cases(a, p)
  BY DEF Cases, TargetsAt, Readable32, Readable, Read32
<1>13. Jumps(a)' = Jumps(a)
  BY <1>2, <1>9, <1>11, <1>12 DEF Jumps
<1> QED
  BY <1>9, <1>10, <1>13

\* And so does where it goes on.
LEMMA SameFollows ==
  ASSUME UNCHANGED <<mem, dex>>, NEW a
  PROVE  InstructionAt(a)' = InstructionAt(a) /\ Follows(a)' = Follows(a)
           /\ First(a)' = First(a)
<1>1. /\ Decodes(a)' <=> Decodes(a)
      /\ Instruction(a)' = Instruction(a) /\ Jumps(a)' = Jumps(a)
  BY SameCode
<1>2. InstructionAt(a)' = InstructionAt(a)
  BY <1>1 DEF InstructionAt, NoInstruction
<1>3. Follows(a)' = Follows(a)
  BY <1>1 DEF Follows
<1>4. First(a)' = First(a)
  BY DEF First
<1> QED
  BY <1>2, <1>3, <1>4

-----------------------------------------------------------------------------
(* The invariant holds at the start and is kept.                           *)

\* A set of naturals has a least one.
LEMMA LeastNumber ==
  ASSUME NEW T \in SUBSET Nat, T # {}
  PROVE  \E x \in T : \A y \in T : x <= y
  <1> DEFINE Less == {ss \in Nat \X Nat : ss[1] < ss[2]}
  <1>1. IsWellFoundedOn(Less, Nat)
    <2>1. Less = OpToRel(<, Nat)
      BY DEF Less, OpToRel
    <2>. QED BY <2>1, NatLessThanWellFounded
  <1> HIDE DEF Less
  <1>2. PICK x \in T : \A y \in T : ~(<<y, x>> \in Less)
    BY <1>1, WFMin, Zenon
  <1>3. ASSUME NEW y \in T
        PROVE  x <= y
    <2>1. x \in Nat /\ y \in Nat
      BY <1>2
    <2>2. y < x => <<y, x>> \in Less
      BY <2>1 DEF Less
    <2>. QED BY <1>2, <2>1, <2>2
  <1>. QED BY <1>3

\* The engine starts at the first address and knows no other.
LEMMA CodeStarts == CodeInit => CodeInv /\ FollowInv
<1> SUFFICES ASSUME CodeInit PROVE CodeInv /\ FollowInv
  OBVIOUS
<1>1. PICK m \in Methods : mem = m.code /\ dex = m.tables
  BY DEF CodeInit
<1>2. DOMAIN mem # {} /\ DOMAIN mem \subseteq Nat
  BY <1>1, MethodsAssumption
<1>3. \E a \in DOMAIN mem : First(a)
  <2>1. PICK x \in DOMAIN mem : TRUE
    BY <1>2
  <2>2. \E a \in DOMAIN mem : \A y \in DOMAIN mem : a <= y
    BY <1>2, LeastNumber
  <2> QED
    BY <2>2 DEF First
<1>4. \E a \in DOMAIN mem : todo = {a} /\ First(a)
  BY <1>3 DEF CodeInit, First
<1>5. Known = {}
  BY DEF CodeInit, Known
<1> QED
  BY <1>1, <1>4, <1>5 DEF CodeInv, FollowInv

\* What the engine does with an address keeps what it has decoded.
LEMMA FollowKeepsCode ==
  ASSUME CodeInv, NEW a \in todo, Follow(a)
  PROVE  CodeInv'
<1>1. /\ Known' = Known \cup {a} /\ decoded'[a] = InstructionAt(a)
      /\ \A b \in Known \ {a} : decoded'[b] = decoded[b]
  BY DEF Follow, Visited, Known
<1>2. \A b : InstructionAt(b)' = InstructionAt(b)
  BY SameFollows DEF Follow
<1>3. DOMAIN mem' = DOMAIN mem /\ mem' = mem /\ dex' = dex
  BY DEF Follow
<1>4. todo' \subseteq DOMAIN mem
  BY DEF Follow, Visited, Readable, CodeInv
<1>5. Known' \subseteq DOMAIN mem
  BY <1>1 DEF CodeInv
<1>6. \A b \in Known' : decoded'[b] = InstructionAt(b)'
  BY <1>1, <1>2 DEF CodeInv
<1> QED
  BY <1>3, <1>4, <1>5, <1>6 DEF CodeInv

\* And each of the successors of what it has decoded is known or to be done.
LEMMA FollowKeepsFollowed ==
  ASSUME CodeInv, FollowInv, NEW a \in todo, Follow(a)
  PROVE  FollowInv'
<1>1. Known' = Known \cup {a}
  BY DEF Follow, Visited, Known
<1> DEFINE next == IF Decodes(a) THEN Follows(a) ELSE {}
<1>2. todo' = (todo \cup {t \in next : Readable(t)}) \ (Known \cup {a})
  BY DEF Follow, Visited
<1>3. Known' \cup todo' = Known \cup todo \cup {t \in next : Readable(t)}
  BY <1>1, <1>2
<1>4. \A b : /\ Decodes(b)' <=> Decodes(b)
             /\ Jumps(b)' = Jumps(b) /\ Follows(b)' = Follows(b)
             /\ First(b)' <=> First(b)
             /\ Readable(b)' <=> Readable(b)
  BY SameCode, SameFollows DEF Follow, Readable
<1>5. xrefs \subseteq xrefs'
  BY DEF Follow
<1>6. ASSUME NEW b \in Known', Decodes(b)
      PROVE  /\ \A t \in Follows(b) : Readable(t) => t \in Known' \cup todo'
             /\ \A t \in Jumps(b) : Xref(b, t, "CR_JUMP") \in xrefs'
  <2>1. CASE b = a
    BY <1>3, <1>6, <2>1 DEF Follow
  <2>2. CASE b # a
    BY <1>1, <1>3, <1>5, <1>6, <2>2 DEF FollowInv
  <2> QED
    BY <2>1, <2>2
<1>7. ASSUME NEW t \in Known' \cup todo'
      PROVE  First(t) \/ \E b \in Known' : Decodes(b) /\ t \in Follows(b)
  <2>1. CASE t \in Known \cup todo
    BY <1>1, <2>1 DEF FollowInv
  <2>2. CASE t \notin Known \cup todo
    <3>1. t \in next
      BY <1>3, <2>2
    <3> QED
      BY <1>1, <3>1
  <2> QED
    BY <2>1, <2>2
<1>8. \A b, t : Xref(b, t, "CR_JUMP")' = Xref(b, t, "CR_JUMP")
  BY DEF Xref
<1>9. \A b \in Known' : Decodes(b)' =>
        /\ \A t \in Follows(b)' : Readable(t)' => t \in Known' \cup todo'
        /\ \A t \in Jumps(b)' : Xref(b, t, "CR_JUMP")' \in xrefs'
  BY <1>4, <1>6, <1>8
<1>10. \A t \in Known' \cup todo' :
         First(t)' \/ \E b \in Known' : Decodes(b)' /\ t \in Follows(b)'
  BY <1>4, <1>7
<1> QED
  BY <1>9, <1>10 DEF FollowInv

\* A step that changes nothing keeps the invariant.
LEMMA CodeStays ==
  ASSUME CodeInv, FollowInv, UNCHANGED codevars
  PROVE  CodeInv' /\ FollowInv'
<1>1. /\ mem' = mem /\ dex' = dex /\ todo' = todo /\ decoded' = decoded /\ xrefs' = xrefs
  BY DEF codevars
<1>2. Known' = Known
  BY <1>1 DEF Known
<1>3. UNCHANGED <<mem, dex>>
  BY <1>1
<1>4. \A b : InstructionAt(b)' = InstructionAt(b)
  BY <1>3, SameFollows
<1>5. CodeInv'
  <2>1. \A b \in Known' : decoded'[b] = InstructionAt(b)'
    BY <1>1, <1>2, <1>4 DEF CodeInv
  <2> QED
    BY <1>1, <1>2, <2>1 DEF CodeInv
<1>6. \A b : /\ Decodes(b)' <=> Decodes(b)
             /\ Jumps(b)' = Jumps(b) /\ Follows(b)' = Follows(b)
             /\ First(b)' <=> First(b)
             /\ Readable(b)' <=> Readable(b)
  BY <1>1, <1>3, SameCode, SameFollows DEF Readable
<1>7. \A b, t : Xref(b, t, "CR_JUMP")' = Xref(b, t, "CR_JUMP")
  BY DEF Xref
<1>8. \A b \in Known' : Decodes(b)' =>
        /\ \A t \in Follows(b)' : Readable(t)' => t \in Known' \cup todo'
        /\ \A t \in Jumps(b)' : Xref(b, t, "CR_JUMP")' \in xrefs'
  BY <1>1, <1>2, <1>6, <1>7 DEF FollowInv
<1>9. \A t \in Known' \cup todo' :
        First(t)' \/ \E b \in Known' : Decodes(b)' /\ t \in Follows(b)'
  BY <1>1, <1>2, <1>6 DEF FollowInv
<1> QED
  BY <1>5, <1>8, <1>9 DEF FollowInv

\* The invariant of the engine.
LEMMA CodeIsDecoded == CodeSpec => [](CodeInv /\ FollowInv)
<1>1. CodeInit => CodeInv /\ FollowInv
  BY CodeStarts
<1>2. ASSUME CodeInv, FollowInv, [CodeNext]_codevars
      PROVE  (CodeInv /\ FollowInv)'
  <2>1. CASE UNCHANGED codevars
    BY <1>2, <2>1, CodeStays
  <2>2. CASE CodeNext /\ codevars' # codevars
    <3>1. PICK a \in todo : Follow(a)
      BY <2>2, StepFollows
    <3> QED
      BY <1>2, <3>1, FollowKeepsCode, FollowKeepsFollowed
  <2> QED
    BY <1>2, <2>1, <2>2
<1> QED
  BY <1>1, <1>2, PTL DEF CodeSpec

-----------------------------------------------------------------------------
(* The operands.                                                           *)

\* The instructions are what dalvik_decode has decoded.
LEMMA InstructionsDecode ==
  ASSUME CodeInv
  PROVE  /\ Instructions = {a \in Known : Decodes(a)}
         /\ \A a \in Instructions : decoded[a] = Instruction(a)
<1>1. ASSUME NEW a \in Known, Decodes(a)
      PROVE  decoded[a] = Instruction(a) /\ decoded[a].length > 0
  <2>1. decoded[a] = Instruction(a)
    BY <1>1 DEF CodeInv, InstructionAt
  <2>2. FormatOf(Opcode(a)) \in Formats
    BY <1>1, CodeIsUnits, OperandsAreArguments
  <2>3. Units(FormatOf(Opcode(a))) \in 1..5
    BY <2>2, UnitCount
  <2> QED
    BY <2>1, <2>3 DEF Instruction
<1>2. ASSUME NEW a \in Known, ~Decodes(a)
      PROVE  ~(decoded[a].length > 0)
  <2>1. decoded[a].length = 0
    BY <1>2 DEF CodeInv, InstructionAt, NoInstruction
  <2> QED
    BY <2>1
<1> QED
  BY <1>1, <1>2 DEF Instructions

\* From the invariant to the operands.
LEMMA OperandsFollow == CodeInv => OperandsAsSpecified
<1> SUFFICES ASSUME CodeInv, NEW a \in Instructions
             PROVE  LET in == decoded[a]
                        args == Arguments(FormatOf(in.id))
                    IN  /\ in.length * 2 = Len(Layout(FormatOf(in.id)))
                        /\ Len(in.operands) = Len(args)
                        /\ \A i \in DOMAIN args : IsArgument(in.operands[i], args[i], a)
  BY DEF OperandsAsSpecified
<1>1. Decodes(a) /\ decoded[a] = Instruction(a)
  BY InstructionsDecode
<1> DEFINE f == FormatOf(Opcode(a))
<1>2. /\ decoded[a].id = Opcode(a) /\ decoded[a].length = 2 * Units(f)
      /\ decoded[a].operands = Operands(a)
  BY <1>1 DEF Instruction
<1>3. f \in Formats /\ ArgumentsHold(a, Operands(a), Arguments(f))
  BY <1>1, CodeIsUnits, OperandsAreArguments
<1>4. Units(f) \in 1..5 /\ 4 * Units(f) = Len(Layout(f))
  BY <1>3, UnitCount
<1> HIDE DEF f
<1>5. decoded[a].length * 2 = Len(Layout(f))
  BY <1>2, <1>4
<1> QED
  BY <1>2, <1>3, <1>5 DEF f, ArgumentsHold

\* What dalvik_decode makes of the bits of an instruction is what its format
\* says, for every opcode and whatever the units of the method are: registers,
\* signed literals and branches, the registers of a list or a range, and the
\* items its indices name.  (Of const-wide/high16 only the register.)
THEOREM OperandsAreSpecified == CodeSpec => []OperandsAsSpecified
<1>1. CodeInv /\ FollowInv => OperandsAsSpecified
  BY OperandsFollow
<1> QED
  BY <1>1, CodeIsDecoded, PTL

-----------------------------------------------------------------------------
(* Where execution goes.                                                   *)

\* A target of a payload, nibble by nibble, is the number the code reads.
LEMMA TargetRead ==
  ASSUME MemOK, NEW t, Readable32(t)
  PROVE  SignedNumber([k \in 1..8 |-> Nibble(t, k - 1)]) = Read32(t)
<1>1. t \in Nat /\ mem[t] \in Units16 /\ mem[t + 2] \in Units16
  BY DEF MemOK, Readable32, Readable
<1>2. t + 2 * 0 = t /\ t + 2 * (0 + 1) = t + 2 /\ 4 * 0 + 1 = 1
  BY <1>1
<1>3. Unit(t, 0) = mem[t] /\ Unit(t, 0 + 1) = mem[t + 2]
  BY <1>2 DEF Unit
<1> DEFINE s == Span(t, 4 * 0 + 1, 8)
<1>4. /\ s \in [1..8 -> 0..15]
      /\ s[1] + 16 * s[2] + 256 * s[3] + 4096 * s[4] = mem[t]
      /\ s[5] + 16 * s[6] + 256 * s[7] + 4096 * s[8] = mem[t + 2]
  BY <1>1, <1>3, SpanUnits
<1>5. s = [k \in 1..8 |-> Nibble(t, k - 1)]
  <2>1. \A i \in 1..8 : 1 + i - 2 = i - 1
    OBVIOUS
  <2> QED
    BY <1>2, <2>1 DEF Span
<1> HIDE DEF s
<1>6. SignedNumber(s) = Signed32(mem[t], mem[t + 2])
  BY <1>4, Signed8
<1> QED
  BY <1>5, <1>6 DEF Read32

\* The target of case i, counted from the end of the payload at p.
PayloadTarget(p, i) ==
  LET units == IF mem[p] = \h0100 THEN 4 + 2 * mem[p + 2] ELSE 2 + 4 * mem[p + 2]
  IN  p + 2 * (units - 2 * (mem[p + 2] - i))

PayloadTargets(a, p) ==
  LET read == {i \in 0..(mem[p + 2] - 1) :
                 \A j \in 0..i : Readable32(PayloadTarget(p, j))}
  IN  IF Readable32(p) /\ mem[p] \in {\h0100, \h0200}
      THEN {a + 2 * SignedNumber([k \in 1..8 |-> Nibble(PayloadTarget(p, i), k - 1)]) :
              i \in read}
      ELSE {}

\* Counted from the end of a payload or from its start, a target is at one place.
LEMMA PayloadTargetIs ==
  ASSUME MemOK, NEW p, Readable32(p), mem[p] \in {\h0100, \h0200}, NEW i \in Int
  PROVE  PayloadTarget(p, i) = TargetsAt(p) + 4 * i
<1>1. p \in Nat /\ mem[p + 2] \in Nat
  BY UnitIs DEF MemOK, Readable32, Readable
<1> DEFINE n == mem[p + 2]
<1>2. CASE mem[p] = \h0100
  <2>1. PayloadTarget(p, i) = p + 2 * ((4 + (2 * n)) - (2 * (n - i)))
    BY <1>2 DEF PayloadTarget
  <2>2. TargetsAt(p) = p + 8
    BY <1>2 DEF TargetsAt
  <2> HIDE DEF n
  <2>3. n \in Nat
    BY <1>1 DEF n
  <2> QED
    BY <1>1, <2>1, <2>2, <2>3
<1>3. CASE mem[p] # \h0100
  <2>1. PayloadTarget(p, i) = p + 2 * ((2 + (4 * n)) - (2 * (n - i)))
    BY <1>3 DEF PayloadTarget
  <2>2. TargetsAt(p) = (p + 4) + (4 * n)
    BY <1>3 DEF TargetsAt
  <2> HIDE DEF n
  <2>3. n \in Nat
    BY <1>1 DEF n
  <2> QED
    BY <1>1, <2>1, <2>2, <2>3
<1> QED
  BY <1>2, <1>3

\* The cases that are followed are those the payload has.
LEMMA PayloadCases ==
  ASSUME MemOK, NEW a, NEW p
  PROVE  PayloadTargets(a, p) = IF IsSwitchPayload(p) THEN Cases(a, p) ELSE {}
<1>1. CASE ~(Readable32(p) /\ mem[p] \in {\h0100, \h0200})
  <2>1. ~IsSwitchPayload(p)
    BY <1>1 DEF IsSwitchPayload, Readable32
  <2>2. PayloadTargets(a, p) = {}
    BY <1>1 DEF PayloadTargets
  <2> QED
    BY <2>1, <2>2
<1>2. CASE Readable32(p) /\ mem[p] \in {\h0100, \h0200}
  <2>1. mem[p + 2] \in Nat
    BY <1>2, UnitIs DEF MemOK, Readable32, Readable
  <2> DEFINE n == mem[p + 2]
             t(i) == TargetsAt(p) + 4 * i
             read == {i \in 0..(n - 1) : \A j \in 0..i : Readable32(t(j))}
             seen == {i \in 0..(n - 1) : \A j \in 0..i : Readable32(PayloadTarget(p, j))}
             shown(i) == a + 2 * SignedNumber([k \in 1..8 |-> Nibble(PayloadTarget(p, i), k - 1)])
  <2>2. \A i \in Int : PayloadTarget(p, i) = t(i)
    BY <1>2, PayloadTargetIs
  <2>3. read = seen
    BY <2>1, <2>2
  <2>4. ASSUME NEW i \in seen
        PROVE  shown(i) = a + 2 * Read32(t(i))
    <3>1. i \in 0..i /\ i \in Int
      BY <2>1
    <3>2. Readable32(t(i)) /\ PayloadTarget(p, i) = t(i)
      BY <2>2, <3>1
    <3> QED
      BY <3>2, TargetRead
  <2>5. PayloadTargets(a, p) = {shown(i) : i \in seen}
    BY <1>2 DEF PayloadTargets
  <2>6. Cases(a, p) = {a + 2 * Read32(t(i)) : i \in read}
    BY DEF Cases
  <2>7. PayloadTargets(a, p) = Cases(a, p)
    <3> HIDE DEF shown, t, read, seen
    <3> QED
      BY <2>3, <2>4, <2>5, <2>6
  <2>8. CASE n = 0
    <3>1. seen = {}
      BY <2>8
    <3>2. ~IsSwitchPayload(p)
      BY <2>8 DEF IsSwitchPayload
    <3> HIDE DEF seen
    <3> QED
      BY <2>5, <3>1, <3>2
  <2>9. CASE n # 0
    <3>1. IsSwitchPayload(p)
      BY <1>2, <2>9 DEF IsSwitchPayload, Readable32
    <3> QED
      BY <2>7, <3>1
  <2> QED
    BY <2>8, <2>9
<1> QED
  BY <1>1, <1>2

\* Which opcodes have a target, by their formats.
LEMMA FlowFormats ==
  ASSUME NEW op \in 0..255, FormatOf(op) # "unused"
  PROVE  /\ FormatOf(op) \in {"10t", "20t", "30t"} <=> op \in \h28..\h2A
         /\ FormatOf(op) = "21t" <=> op \in \h38..\h3D
         /\ FormatOf(op) = "22t" <=> op \in \h32..\h37
         /\ op \in {PackedSwitch, SparseSwitch} => FormatOf(op) = "31t"
BY DEF FormatOf, ArithmeticFormat, Arithmetic, PackedSwitch, SparseSwitch

\* Which opcodes jump, and which go on.
LEMMA Flows ==
  ASSUME NEW op \in 0..255
  PROVE  /\ FlowOf(op) \in {"JUMP", "JUMP_COND"}
              <=> op \in \h28..\h2C \cup \h32..\h3D
         /\ FlowOf(op) \notin {"JUMP", "STOP"}
              <=> op \notin \h28..\h2A \cup \h0E..\h11 \cup {\h27}
BY DEF FlowOf

\* A target is an argument as it is an operand.
LEMMA TargetOperand ==
  ASSUME NEW a, NEW x, NEW o, IsArgument(o, <<"target", x>>, a)
  PROVE  o = Addr(a + 2 * SignedNumber(Field(a, x)))
BY DEF IsArgument

\* The addresses of an instruction with one.
LEMMA OneAddress1 ==
  ASSUME NEW in, NEW t, in.operands = <<Addr(t)>>
  PROVE  Addresses(in) = {t}
BY DEF Addresses, Addr

\* The same behind a register.
LEMMA OneAddress2 ==
  ASSUME NEW in, NEW r, NEW t, in.operands = <<Reg(r), Addr(t)>>
  PROVE  Addresses(in) = {t}
BY DEF Addresses, Addr, Reg

\* The same behind two.
LEMMA OneAddress3 ==
  ASSUME NEW in, NEW r, NEW s, NEW t, in.operands = <<Reg(r), Reg(s), Addr(t)>>
  PROVE  Addresses(in) = {t}
BY DEF Addresses, Addr, Reg

\* An operand that is an address has one.
LEMMA AddrIs ==
  ASSUME NEW s, NEW t, Addr(s) = Addr(t)
  PROVE  s = t
BY DEF Addr

\* What is decoded has an opcode, a format and a first unit.
LEMMA DecodedOpcode ==
  ASSUME MemOK, NEW a, Decodes(a)
  PROVE  /\ Opcode(a) \in 0..255 /\ FormatOf(Opcode(a)) \in Formats
         /\ a \in Nat /\ mem[a] \in Units16 /\ Unit(a, 0) = mem[a]
<1>1. a \in Nat /\ mem[a] \in Units16 /\ a + 2 * 0 = a
  BY DEF MemOK, Decodes, Readable
<1>2. Opcode(a) \in 0..255
  BY <1>1, OpcodeIs DEF Unit
<1> QED
  BY <1>1, <1>2, OperandsAreArguments DEF Unit

\* The target of a goto.
LEMMA GotoTarget ==
  ASSUME MemOK, NEW a, Decodes(a), FormatOf(Opcode(a)) \in {"10t", "20t", "30t"}
  PROVE  Addresses(Instruction(a)) = Branches(a)
<1> DEFINE t == a + 2 * SignedNumber(Field(a, "A"))
<1>1. Branches(a) = {t}
  <2>1. Opcode(a) \in \h28..\h2A
    BY DecodedOpcode, FlowFormats DEF Decodes
  <2>2. Opcode(a) \notin {PackedSwitch, SparseSwitch}
    BY <2>1 DEF PackedSwitch, SparseSwitch
  <2>3. FormatOf(Opcode(a)) # "21t" /\ FormatOf(Opcode(a)) # "22t"
    OBVIOUS
  <2> QED
    BY <2>2, <2>3 DEF Branches
<1>2. \E s : Operands(a) = <<Addr(s)>>
  BY DEF Operands, Decode10t, Decode20t, Decode30t
<1>3. PICK s : Operands(a) = <<Addr(s)>>
  BY <1>2
<1>4. Arguments(FormatOf(Opcode(a))) = <<<<"target", "A">>>>
  BY DEF Arguments
<1>5. IsArgument(Addr(s), <<"target", "A">>, a)
  BY <1>3, <1>4, OperandsAreArguments DEF ArgumentsHold
<1>6. s = t
  BY <1>5, TargetOperand, AddrIs
<1>7. Addresses(Instruction(a)) = {s}
  BY <1>3, OneAddress1 DEF Instruction
<1> QED
  BY <1>1, <1>6, <1>7

\* The one of a comparison with zero, or of a switch.
LEMMA SecondTarget ==
  ASSUME MemOK, NEW a, Decodes(a), FormatOf(Opcode(a)) \in {"21t", "31t"}
  PROVE  LET t == a + 2 * SignedNumber(Field(a, "B"))
         IN  /\ Addresses(Instruction(a)) = {t}
             /\ Instruction(a).operands[2].addr = t
<1> DEFINE t == a + 2 * SignedNumber(Field(a, "B"))
<1>2. \E r, s : Operands(a) = <<Reg(r), Addr(s)>>
  BY DEF Operands, Decode21t, Decode31t
<1>3. PICK r, s : Operands(a) = <<Reg(r), Addr(s)>>
  BY <1>2
<1>4. Arguments(FormatOf(Opcode(a))) = <<<<"register", "A">>, <<"target", "B">>>>
  BY DEF Arguments
<1>5. IsArgument(Addr(s), <<"target", "B">>, a)
  BY <1>3, <1>4, OperandsAreArguments DEF ArgumentsHold
<1>6. s = t
  BY <1>5, TargetOperand, AddrIs
<1>7. Addresses(Instruction(a)) = {s}
  BY <1>3, OneAddress2 DEF Instruction
<1>8. Instruction(a).operands[2].addr = s
  BY <1>3 DEF Instruction, Addr
<1> QED
  BY <1>6, <1>7, <1>8

\* The one of a comparison of two registers.
LEMMA ThirdTarget ==
  ASSUME MemOK, NEW a, Decodes(a), FormatOf(Opcode(a)) = "22t"
  PROVE  Addresses(Instruction(a)) = {a + 2 * SignedNumber(Field(a, "C"))}
<1> DEFINE t == a + 2 * SignedNumber(Field(a, "C"))
<1>2. \E r, q, s : Operands(a) = <<Reg(r), Reg(q), Addr(s)>>
  BY DEF Operands, Decode22t
<1>3. PICK r, q, s : Operands(a) = <<Reg(r), Reg(q), Addr(s)>>
  BY <1>2
<1>4. Arguments("22t") = <<<<"register", "A">>, <<"register", "B">>, <<"target", "C">>>>
  BY DEF Arguments
<1>5. IsArgument(Addr(s), <<"target", "C">>, a)
  <2>1. ArgumentsHold(a, Operands(a), Arguments("22t"))
    BY Format22t
  <2> DEFINE x == Arguments("22t")
  <2>2. DOMAIN x = 1..3 /\ x[3] = <<"target", "C">>
    BY <1>4
  <2>3. Operands(a)[3] = Addr(s)
    BY <1>3
  <2> HIDE DEF x
  <2> QED
    BY <2>1, <2>2, <2>3 DEF ArgumentsHold, x
<1>6. s = t
  BY <1>5, TargetOperand, AddrIs
<1>7. Addresses(Instruction(a)) = {s}
  BY <1>3, OneAddress3 DEF Instruction
<1> QED
  BY <1>6, <1>7

\* The engine follows an instruction as a jump where its branch, its goto or its
\* cases lead.
LEMMA JumpsAreBranches ==
  ASSUME MemOK, NEW a, Decodes(a)
  PROVE  Jumps(a) = Branches(a)
<1> DEFINE op == Opcode(a)
           f == FormatOf(op)
<1>1. op \in 0..255 /\ f # "unused"
  BY DecodedOpcode DEF Decodes
<1>2. /\ f \in {"10t", "20t", "30t"} <=> op \in \h28..\h2A
      /\ f = "21t" <=> op \in \h38..\h3D
      /\ f = "22t" <=> op \in \h32..\h37
      /\ op \in {PackedSwitch, SparseSwitch} => f = "31t"
  BY <1>1, FlowFormats
<1>3. IsJump(Instruction(a)) <=> op \in \h28..\h2C \cup \h32..\h3D
  BY <1>1, Flows DEF IsJump, Instruction
<1>4. CASE op \in \h28..\h2A
  <2>1. IsJump(Instruction(a)) /\ op \notin {PackedSwitch, SparseSwitch, FillArrayData}
    BY <1>3, <1>4 DEF PackedSwitch, SparseSwitch, FillArrayData
  <2> QED
    BY <1>2, <1>4, <2>1, GotoTarget DEF Jumps
<1>5. CASE op \in \h38..\h3D
  <2>1. IsJump(Instruction(a)) /\ op \notin {PackedSwitch, SparseSwitch, FillArrayData}
    BY <1>3, <1>5 DEF PackedSwitch, SparseSwitch, FillArrayData
  <2>2. Jumps(a) = Addresses(Instruction(a))
    BY <2>1 DEF Jumps
  <2>3. Addresses(Instruction(a)) = {a + 2 * SignedNumber(Field(a, "B"))}
    BY <1>2, <1>5, SecondTarget
  <2>4. Branches(a) = {a + 2 * SignedNumber(Field(a, "B"))}
    BY <1>2, <1>5 DEF Branches
  <2> QED
    BY <2>2, <2>3, <2>4
<1>6. CASE op \in \h32..\h37
  <2>1. IsJump(Instruction(a)) /\ op \notin {PackedSwitch, SparseSwitch, FillArrayData}
    BY <1>3, <1>6 DEF PackedSwitch, SparseSwitch, FillArrayData
  <2>2. Jumps(a) = Addresses(Instruction(a))
    BY <2>1 DEF Jumps
  <2>3. Addresses(Instruction(a)) = {a + 2 * SignedNumber(Field(a, "C"))}
    BY <1>2, <1>6, ThirdTarget
  <2>4. Branches(a) = {a + 2 * SignedNumber(Field(a, "C"))}
    BY <1>2, <1>6 DEF Branches
  <2> QED
    BY <2>2, <2>3, <2>4
<1>7. CASE op \in {PackedSwitch, SparseSwitch}
  <2> DEFINE p == a + 2 * SignedNumber(Field(a, "B"))
  <2>1. f = "31t" /\ Instruction(a).operands[2].addr = p
    BY <1>2, <1>7, SecondTarget
  <2>2. Branches(a) = PayloadTargets(a, p)
    BY <1>7, <2>1 DEF Branches, PayloadTargets, PayloadTarget
  <2>3. Jumps(a) = IF IsSwitchPayload(p) THEN Cases(a, p) ELSE {}
    BY <1>7, <2>1 DEF Jumps
  <2> QED
    BY <2>2, <2>3, PayloadCases
<1>8. CASE op \notin \h28..\h2A \cup \h38..\h3D \cup \h32..\h37 \cup {PackedSwitch, SparseSwitch}
  <2>1. op \notin {PackedSwitch, SparseSwitch}
    BY <1>8
  <2>2. ~IsJump(Instruction(a))
    BY <1>1, <1>3, <1>8 DEF PackedSwitch, SparseSwitch
  <2>3. Jumps(a) = {}
    BY <2>1, <2>2 DEF Jumps
  <2>4. f \notin {"10t", "20t", "30t", "21t", "22t"}
    BY <1>2, <1>8
  <2>5. Branches(a) = {}
    BY <2>1, <2>4 DEF Branches
  <2> QED
    BY <2>3, <2>5
<1> QED
  BY <1>4, <1>5, <1>6, <1>7, <1>8

\* It goes on behind it if execution falls through.
LEMMA FollowsAreSuccessors ==
  ASSUME MemOK, NEW a, Decodes(a)
  PROVE  Follows(a) = Successors(a)
<1> DEFINE op == Opcode(a)
           f == FormatOf(op)
<1>1. op \in 0..255 /\ f \in Formats /\ f # "unused"
  BY DecodedOpcode DEF Decodes
<1>2. f \in {"10t", "20t", "30t"} <=> op \in \h28..\h2A
  BY <1>1, FlowFormats
<1>3. CanFlow(Instruction(a)) <=> op \notin \h28..\h2A \cup \h0E..\h11 \cup {\h27}
  BY <1>1, Flows DEF CanFlow, Instruction
<1>4. FallsThrough(a) <=> CanFlow(Instruction(a))
  BY <1>2, <1>3 DEF FallsThrough
<1>5. Len(Layout(f)) \div 2 = Instruction(a).length
  <2>1. Units(f) \in 1..5 /\ 4 * Units(f) = Len(Layout(f))
    BY <1>1, UnitCount
  <2>2. Instruction(a).length = 2 * Units(f)
    BY DEF Instruction
  <2> HIDE DEF f
  <2>3. (4 * Units(f)) \div 2 = 2 * Units(f)
    BY <2>1
  <2> QED
    BY <2>1, <2>2, <2>3
<1>6. Jumps(a) = Branches(a)
  BY JumpsAreBranches
<1> QED
  BY <1>4, <1>5, <1>6 DEF Follows, Successors, Onward

\* What is decoded is not a payload.
LEMMA NoPayload ==
  ASSUME MemOK, NEW a, Decodes(a)
  PROVE  mem[a] \notin {\h0100, \h0200, \h0300}
<1>1. Unit(a, 0) = mem[a] /\ mem[a] \in Units16
  BY DecodedOpcode
<1>2. \A u \in {\h0100, \h0200, \h0300} : u % 256 = 0 /\ u \div 256 # 0
  OBVIOUS
<1> QED
  BY <1>1, <1>2 DEF Decodes, IsPayload, Opcode, AA

\* From the invariant to where the engine has been.
LEMMA CodeFollowed == CodeInv /\ FollowInv => CodeIsFollowed
<1> SUFFICES ASSUME CodeInv, FollowInv, NEW a \in Instructions
             PROVE  /\ \A t \in Successors(a) : Readable(t) => t \in Known \cup todo
                    /\ \A t \in Branches(a) : Xref(a, t, "CR_JUMP") \in xrefs
                    /\ mem[a] \notin {\h0100, \h0200, \h0300}
                    /\ \/ \A b \in DOMAIN mem : a <= b
                       \/ \E b \in Instructions : a \in Successors(b)
  BY DEF CodeIsFollowed
<1>1. MemOK
  BY CodeIsUnits
<1>2. Instructions = {b \in Known : Decodes(b)}
  BY InstructionsDecode
<1>3. \A b \in Instructions : Follows(b) = Successors(b) /\ Jumps(b) = Branches(b)
  BY <1>1, <1>2, FollowsAreSuccessors, JumpsAreBranches
<1>4. mem[a] \notin {\h0100, \h0200, \h0300}
  BY <1>1, <1>2, NoPayload
<1>5. /\ \A t \in Follows(a) : Readable(t) => t \in Known \cup todo
      /\ \A t \in Jumps(a) : Xref(a, t, "CR_JUMP") \in xrefs
  BY <1>2 DEF FollowInv
<1>6. First(a) \/ \E b \in Known : Decodes(b) /\ a \in Follows(b)
  BY <1>2 DEF FollowInv
<1> QED
  BY <1>2, <1>3, <1>4, <1>5, <1>6 DEF First

\* dalvik_emulate tells the engine of every address execution can go to from a
\* decoded instruction, by branch, goto, case of a switch or by going on, and of
\* no other: each instruction but the first is the successor of one, none is a
\* payload.
THEOREM SuccessorsAreFollowed == CodeSpec => []CodeIsFollowed
<1>1. CodeInv /\ FollowInv => CodeIsFollowed
  BY CodeFollowed
<1> QED
  BY <1>1, CodeIsDecoded, PTL

-----------------------------------------------------------------------------
(* References.                                                             *)

\* The address of an item lies in its table, and no other item has it.
LEMMA ItemInTable ==
  ASSUME NEW k \in ItemKinds, NEW i \in Nat, Resolves(k, i),
         dex.valid => \A kind \in DOMAIN dex.table : IsTable(dex.table[kind])
  PROVE  /\ k \in DOMAIN dex.table
         /\ dex.table[k].off \in Nat /\ ItemsEnd(dex, k) \in Nat
         /\ ItemAddress(k, i) \in dex.table[k].off..(ItemsEnd(dex, k) - 1)
         /\ \A j \in Nat : ItemAddress(k, i) = ItemAddress(k, j) => i = j
<1>1. TableOf(k) = k /\ k # "STRING"
  BY DEF TableOf, ItemKinds
<1>2. k \in DOMAIN dex.table /\ i < dex.table[k].size /\ dex.valid
  BY <1>1 DEF Resolves
<1>3. dex.table[k].off \in Nat /\ dex.table[k].size \in Nat
  BY <1>2 DEF IsTable
<1> DEFINE off == dex.table[k].off
           size == dex.table[k].size
           stride == Stride(k)
<1>4. stride \in {4, 8, 12}
  BY DEF Stride, ItemKinds
<1>5. /\ ItemsEnd(dex, k) = off + size * stride
      /\ \A j : ItemAddress(k, j) = off + j * stride
  BY <1>1 DEF ItemsEnd, ItemAddress
<1> HIDE DEF off, size, stride
<1>6. off \in Nat /\ size \in Nat /\ i < size
  BY <1>2, <1>3 DEF off, size
<1>7. ASSUME NEW s \in {4, 8, 12}, stride = s
      PROVE  /\ off + size * s \in Nat
             /\ off <= off + i * s /\ off + i * s <= (off + size * s) - 1
             /\ \A j \in Nat : off + i * s = off + j * s => i = j
  <2>1. CASE s = 4
    BY <1>6, <2>1
  <2>2. CASE s = 8
    BY <1>6, <2>2
  <2>3. CASE s = 12
    BY <1>6, <2>3
  <2> QED
    BY <1>7, <2>1, <2>2, <2>3
<1>8. /\ off + size * stride \in Nat
      /\ off <= off + i * stride /\ off + i * stride <= (off + size * stride) - 1
      /\ \A j \in Nat : off + i * stride = off + j * stride => i = j
  BY <1>4, <1>7
<1>9. off + i * stride \in Nat
  BY <1>4, <1>6
<1> QED
  BY <1>2, <1>5, <1>6, <1>8, <1>9 DEF off

\* The address of a string is that of a text that can be read.
LEMMA TextOf ==
  ASSUME NEW i \in Nat, Resolves("STRING", i),
         dex.valid => /\ IsTable(dex.table["STRING"])
                      /\ \A j \in 0..(dex.table["STRING"].size - 1) : IsText(dex.strings[j])
  PROVE  /\ i \in Texts(dex)
         /\ dex.strings[i].data \in Nat /\ dex.strings[i].leb \in Nat
         /\ ItemAddress("STRING", i) = dex.strings[i].data + dex.strings[i].leb
<1>1. dex.valid /\ i < dex.table["STRING"].size /\ dex.strings[i].readable
  BY DEF Resolves
<1>2. dex.table["STRING"].size \in Nat
  BY <1>1 DEF IsTable
<1>3. i \in 0..(dex.table["STRING"].size - 1)
  BY <1>1, <1>2
<1> QED
  BY <1>1, <1>3 DEF Texts, IsText, ItemAddress

TablesOK(d) ==
  d.valid =>
    /\ "STRING" \in DOMAIN d.table
    /\ \A kind \in DOMAIN d.table : IsTable(d.table[kind])
    /\ \A i \in 0..(d.table["STRING"].size - 1) : IsText(d.strings[i])

\* What resolves to one address is one item.
LEMMA OneItem ==
  ASSUME TablesOK(dex), TablesApart(dex),
         NEW k \in ItemKinds \cup {"STRING"}, NEW l \in ItemKinds \cup {"STRING"},
         NEW i \in Nat, NEW j \in Nat, Resolves(k, i), Resolves(l, j),
         ItemAddress(k, i) = ItemAddress(l, j)
  PROVE  k = l /\ i = j
<1>1. dex.valid
  BY DEF Resolves
<1>2. /\ dex.valid => \A kind \in DOMAIN dex.table : IsTable(dex.table[kind])
      /\ dex.valid => /\ IsTable(dex.table["STRING"])
                      /\ \A n \in 0..(dex.table["STRING"].size - 1) : IsText(dex.strings[n])
  BY <1>1 DEF TablesOK
<1>3. ASSUME NEW x \in ItemKinds, NEW m \in Nat, NEW n \in Nat,
             Resolves(x, m), Resolves("STRING", n)
      PROVE  ItemAddress(x, m) # ItemAddress("STRING", n)
  <2> DEFINE data == dex.strings[n].data
             leb == dex.strings[n].leb
             off == dex.table[x].off
             end == ItemsEnd(dex, x)
             addr == ItemAddress(x, m)
  <2>1. x \in DOMAIN dex.table /\ off \in Nat /\ end \in Nat /\ addr \in off..(end - 1)
    BY <1>2, <1>3, ItemInTable
  <2>2. /\ n \in Texts(dex) /\ data \in Nat /\ leb \in Nat
        /\ ItemAddress("STRING", n) = data + leb
    BY <1>2, <1>3, TextOf
  <2>3. data + leb < off \/ end <= data
    BY <1>1, <2>1, <2>2 DEF TablesApart
  <2> HIDE DEF data, leb, off, end, addr
  <2>4. addr # data + leb
    BY <2>1, <2>2, <2>3
  <2> QED
    BY <2>2, <2>4 DEF addr
<1>4. CASE k = "STRING" /\ l = "STRING"
  <2>1. /\ i \in Texts(dex) /\ dex.strings[i].data \in Nat /\ dex.strings[i].leb \in Nat
        /\ ItemAddress("STRING", i) = dex.strings[i].data + dex.strings[i].leb
    BY <1>2, <1>4, TextOf
  <2>2. /\ j \in Texts(dex) /\ dex.strings[j].data \in Nat /\ dex.strings[j].leb \in Nat
        /\ ItemAddress("STRING", j) = dex.strings[j].data + dex.strings[j].leb
    BY <1>2, <1>4, TextOf
  <2>3. i # j => \/ dex.strings[i].data + dex.strings[i].leb < dex.strings[j].data
                 \/ dex.strings[j].data + dex.strings[j].leb < dex.strings[i].data
    BY <1>1, <2>1, <2>2 DEF TablesApart
  <2> QED
    BY <1>4, <2>1, <2>2, <2>3
<1>5. CASE k = "STRING" /\ l # "STRING"
  BY <1>3, <1>5
<1>6. CASE k # "STRING" /\ l = "STRING"
  BY <1>3, <1>6
<1>7. CASE k # "STRING" /\ l # "STRING"
  <2> DEFINE addr == ItemAddress(k, i)
             offk == dex.table[k].off
             offl == dex.table[l].off
             endk == ItemsEnd(dex, k)
             endl == ItemsEnd(dex, l)
  <2>1. /\ k \in DOMAIN dex.table /\ offk \in Nat /\ endk \in Nat
        /\ addr \in offk..(endk - 1)
        /\ \A n \in Nat : ItemAddress(k, i) = ItemAddress(k, n) => i = n
    BY <1>2, <1>7, ItemInTable
  <2>2. /\ l \in DOMAIN dex.table /\ offl \in Nat /\ endl \in Nat
        /\ addr \in offl..(endl - 1)
    <3>1. /\ l \in DOMAIN dex.table /\ offl \in Nat /\ endl \in Nat
          /\ ItemAddress(l, j) \in offl..(endl - 1)
      BY <1>2, <1>7, ItemInTable
    <3> QED
      BY <3>1
  <2>3. k # l => endk <= offl \/ endl <= offk
    BY <1>1, <1>7, <2>1, <2>2 DEF TablesApart
  <2> HIDE DEF addr, offk, offl, endk, endl
  <2>4. k = l
    BY <2>1, <2>2, <2>3
  <2> QED
    BY <2>1, <2>4
<1> QED
  BY <1>4, <1>5, <1>6, <1>7

\* An operand that names an item.
Names(o) == o.kind = "ADDR" /\ o.of # <<>>

IsNamed(o) ==
  \E k \in ItemKinds \cup {"STRING"}, i \in Nat :
    Resolves(k, i) /\ o.addr = ItemAddress(k, i) /\ o.of = <<k, i>>

\* An index that has become an address names its item.
LEMMA IndexNames ==
  ASSUME NEW k \in ItemKinds \cup {"STRING"}, NEW i \in Nat, Names(Index(k, i))
  PROVE  IsNamed(Index(k, i))
BY DEF Names, IsNamed, Index

\* Other operands name no item.
LEMMA OthersNameNothing ==
  /\ \A n : ~Names(Reg(n)) /\ ~Names(Cnst(n)) /\ ~Names(Addr(n))
  /\ \A n, v : ~Names(RegList(n, v)) /\ ~Names(RegRange(n, v))
  /\ \A k, i : ~Names(Index35c(k, i))
<1>1. \A n : ~Names(Reg(n)) /\ ~Names(Cnst(n)) /\ ~Names(Addr(n))
  BY DEF Names, Reg, Cnst, Addr
<1>2. \A n, v : ~Names(RegList(n, v)) /\ ~Names(RegRange(n, v))
  BY DEF Names, RegList, RegRange
<1>3. \A k, i : ~Names(Index35c(k, i))
  BY DEF Names, Index35c, Addr
<1> QED
  BY <1>1, <1>2, <1>3

\* What the opcodes of these formats have an index of.
LEMMA IndexKinds ==
  ASSUME NEW op \in 0..255, FormatOf(op) \in {"21c", "22c", "31c", "3rc"}
  PROVE  IndexKind(op) \in ItemKinds \cup {"STRING"}
<1>1. op \in {\h1A, \h1B, \h1C, \h1F, \h20, \h22, \h23, \h25, \hFD, \hFE, \hFF}
               \cup \h52..\h6D \cup \h74..\h78
  BY DEF FormatOf, ArithmeticFormat, Arithmetic
<1> QED
  BY <1>1 DEF IndexKind, ItemKinds

\* Each operand that names an item does so by an index that resolves.
AllNamed(operands) ==
  \A i \in DOMAIN operands : Names(operands[i]) => IsNamed(operands[i])

\* One operand.
LEMMA Named1 ==
  ASSUME NEW o, Names(o) => IsNamed(o)
  PROVE  AllNamed(<<o>>)
<1> DEFINE s == <<o>>
<1>1. DOMAIN s = {1} /\ s[1] = o
  OBVIOUS
<1> HIDE DEF s
<1>2. \A i \in DOMAIN s : Names(s[i]) => IsNamed(s[i])
  BY <1>1
<1> QED
  BY <1>2 DEF s, AllNamed

\* Two operands.
LEMMA Named2 ==
  ASSUME NEW o, NEW p, Names(o) => IsNamed(o), Names(p) => IsNamed(p)
  PROVE  AllNamed(<<o, p>>)
<1> DEFINE s == <<o, p>>
<1>1. DOMAIN s = {1, 2} /\ s[1] = o /\ s[2] = p
  OBVIOUS
<1> HIDE DEF s
<1>2. \A i \in DOMAIN s : Names(s[i]) => IsNamed(s[i])
  BY <1>1
<1> QED
  BY <1>2 DEF s, AllNamed

\* Three operands.
LEMMA Named3 ==
  ASSUME NEW o, NEW p, NEW q, Names(o) => IsNamed(o), Names(p) => IsNamed(p),
         Names(q) => IsNamed(q)
  PROVE  AllNamed(<<o, p, q>>)
<1> DEFINE s == <<o, p, q>>
<1>1. DOMAIN s = {1, 2, 3} /\ s[1] = o /\ s[2] = p /\ s[3] = q
  OBVIOUS
<1> HIDE DEF s
<1>2. \A i \in DOMAIN s : Names(s[i]) => IsNamed(s[i])
  BY <1>1
<1> QED
  BY <1>2 DEF s, AllNamed

\* The formats without an index of the general form.
LEMMA NothingNamed ==
  ASSUME NEW a, NEW f \in Formats, f = FormatOf(Opcode(a)),
         f \notin {"21c", "22c", "31c", "3rc", "45cc", "4rcc"}
  PROVE  AllNamed(Operands(a))
<1>1. CASE f = "10x"
  <2>1. Operands(a) = <<>>
    BY <1>1 DEF Operands
  <2>2. DOMAIN <<>> = {}
    OBVIOUS
  <2> QED
    BY <2>1, <2>2 DEF AllNamed
<1>2. CASE f \in {"10t", "20t", "30t"}
  <2>1. PICK n : Operands(a) = <<Addr(n)>>
    BY <1>2 DEF Operands, Decode10t, Decode20t, Decode30t
  <2> QED
    BY <2>1, Named1, OthersNameNothing
<1>3. CASE f = "11x"
  <2>1. PICK n : Operands(a) = <<Reg(n)>>
    BY <1>3 DEF Operands, Decode11x
  <2> QED
    BY <2>1, Named1, OthersNameNothing
<1>4. CASE f \in {"11n", "21h", "21s", "31i", "51l"}
  <2>1. PICK n, v : Operands(a) = <<Reg(n), Cnst(v)>>
    BY <1>4 DEF Operands, Decode11n, Decode21h, Decode21s, Decode31i, Decode51l
  <2> QED
    BY <2>1, Named2, OthersNameNothing
<1>5. CASE f \in {"12x", "22x", "32x"}
  <2>1. PICK n, m : Operands(a) = <<Reg(n), Reg(m)>>
    BY <1>5 DEF Operands, Decode12x, Decode22x, Decode32x
  <2> QED
    BY <2>1, Named2, OthersNameNothing
<1>6. CASE f \in {"21t", "31t"}
  <2>1. PICK n, m : Operands(a) = <<Reg(n), Addr(m)>>
    BY <1>6 DEF Operands, Decode21t, Decode31t
  <2> QED
    BY <2>1, Named2, OthersNameNothing
<1>7. CASE f = "35c"
  <2>1. PICK n, v, k, i : Operands(a) = <<RegList(n, v), Index35c(k, i)>>
    BY <1>7 DEF Operands, Decode35c
  <2> QED
    BY <2>1, Named2, OthersNameNothing
<1>8. CASE f \in {"22b", "22s"}
  <2>1. PICK n, m, v : Operands(a) = <<Reg(n), Reg(m), Cnst(v)>>
    BY <1>8 DEF Operands, Decode22b, Decode22s
  <2> QED
    BY <2>1, Named3, OthersNameNothing
<1>9. CASE f = "22t"
  <2>1. PICK n, m, v : Operands(a) = <<Reg(n), Reg(m), Addr(v)>>
    BY <1>9 DEF Operands, Decode22t
  <2> QED
    BY <2>1, Named3, OthersNameNothing
<1>10. CASE f = "23x"
  <2>1. PICK n, m, v : Operands(a) = <<Reg(n), Reg(m), Reg(v)>>
    BY <1>10 DEF Operands, Decode23x
  <2> QED
    BY <2>1, Named3, OthersNameNothing
<1> QED
  BY <1>1, <1>2, <1>3, <1>4, <1>5, <1>6, <1>7, <1>8, <1>9, <1>10 DEF Formats

\* The formats with one.
LEMMA IndicesNamed ==
  ASSUME MemOK, NEW a, Decodes(a), NEW f, f = FormatOf(Opcode(a)),
         f \in {"21c", "22c", "31c", "3rc", "45cc", "4rcc"}
  PROVE  AllNamed(Operands(a))
<1> DEFINE k == IndexKind(Opcode(a))
<1>1. Opcode(a) \in 0..255
  BY DecodedOpcode
<1>2. f \in {"21c", "22c", "31c", "3rc"} => k \in ItemKinds \cup {"STRING"}
  BY <1>1, IndexKinds
<1>3. "METHOD" \in ItemKinds \cup {"STRING"} /\ "PROTO" \in ItemKinds \cup {"STRING"}
  BY DEF ItemKinds
<1>4. Unit(a, 1) \in Nat
  <2>1. Units(f) \in 2..5
    BY DEF Units
  <2>2. Units(f) \in 1..5 /\ 1 \in 0..(Units(f) - 1)
    BY <2>1
  <2>3. Unit(a, 1) \in Units16
    BY <2>2, UnitsReadable
  <2> QED
    BY <2>3, UnitIs
<1> HIDE DEF k
<1>5. CASE f = "21c"
  <2>1. Operands(a) = <<Reg(AA(a)), Index(k, Unit(a, 1))>>
    BY <1>5 DEF Operands, Decode21c, k
  <2> QED
    BY <1>2, <1>4, <1>5, <2>1, IndexNames, Named2, OthersNameNothing
<1>6. CASE f = "22c"
  <2>1. Operands(a) = <<Reg(A(a)), Reg(B(a)), Index(k, Unit(a, 1))>>
    BY <1>6 DEF Operands, Decode22c, k
  <2> QED
    BY <1>2, <1>4, <1>6, <2>1, IndexNames, Named3, OthersNameNothing
<1>7. CASE f = "31c"
  <2>1. Operands(a) = <<Reg(AA(a)), Index(k, Unit(a, 2) * Word + Unit(a, 1))>>
    BY <1>7 DEF Operands, Decode31c, k
  <2>2. Unit(a, 2) \in Nat
    <3>1. Units(f) = 3
      BY <1>7 DEF Units
    <3>2. Unit(a, 2) \in Units16
      BY <3>1, UnitsReadable
    <3> QED
      BY <3>2, UnitIs
  <2>3. Unit(a, 2) * Word + Unit(a, 1) \in Nat
    BY <1>4, <2>2 DEF Word
  <2> QED
    BY <1>2, <1>7, <2>1, <2>3, IndexNames, Named2, OthersNameNothing
<1>8. CASE f = "3rc"
  <2>1. Operands(a) = <<RegRange(Unit(a, 2), AA(a)), Index(k, Unit(a, 1))>>
    BY <1>8 DEF Operands, Decode3rc, k
  <2> QED
    BY <1>2, <1>4, <1>8, <2>1, IndexNames, Named2, OthersNameNothing
<1>9. CASE f \in {"45cc", "4rcc"}
  <2>1. Unit(a, 3) \in Nat
    <3>1. Units(f) = 4
      BY <1>9 DEF Units
    <3>2. Unit(a, 3) \in Units16
      BY <3>1, UnitsReadable
    <3> QED
      BY <3>2, UnitIs
  <2>2. PICK o : /\ Operands(a) = <<o, Index("METHOD", Unit(a, 1)), Index("PROTO", Unit(a, 3))>>
                 /\ ~Names(o)
    BY <1>9, OthersNameNothing DEF Operands, Decode45cc, Decode4rcc
  <2> QED
    BY <1>3, <1>4, <2>1, <2>2, IndexNames, Named3
<1> QED
  BY <1>5, <1>6, <1>7, <1>8, <1>9

\* Whatever the format, an operand that names an item does by its index.
LEMMA OperandsNamed ==
  ASSUME MemOK, NEW a, Decodes(a)
  PROVE  AllNamed(Operands(a))
<1>1. FormatOf(Opcode(a)) \in Formats
  BY DecodedOpcode
<1> QED
  BY <1>1, NothingNamed, IndicesNamed

\* From the invariant to the references.
LEMMA ReferencesName ==
  ASSUME CodeInv, TablesApart(dex)
  PROVE  ReferencesAreOneToOne
<1>1. MemOK
  BY CodeIsUnits
<1>2. TablesOK(dex)
  BY MethodsAssumption DEF CodeInv, TablesOK
<1>3. ASSUME NEW a \in Instructions, NEW i \in DOMAIN decoded[a].operands,
             Names(decoded[a].operands[i])
      PROVE  IsNamed(decoded[a].operands[i])
  <2>1. Decodes(a) /\ decoded[a] = Instruction(a)
    BY InstructionsDecode
  <2>2. decoded[a].operands = Operands(a)
    BY <2>1 DEF Instruction
  <2> QED
    BY <1>1, <1>3, <2>1, <2>2, OperandsNamed DEF AllNamed
<1>4. ASSUME NEW x, NEW y, IsNamed(x), IsNamed(y), x.addr = y.addr
      PROVE  TableOf(x.of[1]) = TableOf(y.of[1]) /\ x.of[2] = y.of[2]
  <2>1. PICK k \in ItemKinds \cup {"STRING"}, i \in Nat :
          Resolves(k, i) /\ x.addr = ItemAddress(k, i) /\ x.of = <<k, i>>
    BY <1>4 DEF IsNamed
  <2>2. PICK l \in ItemKinds \cup {"STRING"}, j \in Nat :
          Resolves(l, j) /\ y.addr = ItemAddress(l, j) /\ y.of = <<l, j>>
    BY <1>4 DEF IsNamed
  <2>3. k = l /\ i = j
    BY <1>2, <1>4, <2>1, <2>2, OneItem
  <2> QED
    BY <2>1, <2>2, <2>3
<1> QED
  BY <1>3, <1>4 DEF ReferencesAreOneToOne, Names

\* Where the tables and the strings of a file are apart, two operands that
\* dalvik_decode has given one address name one item of one table: no index
\* reaches past the end of its table, whatever the bits of the code.
THEOREM ReferencesNameOneItem ==
  (\A m \in Methods : TablesApart(m.tables)) => (CodeSpec => []ReferencesAreOneToOne)
<1> SUFFICES ASSUME \A m \in Methods : TablesApart(m.tables)
             PROVE  CodeSpec => []ReferencesAreOneToOne
  OBVIOUS
<1>1. CodeInv => ReferencesAreOneToOne
  <2>1. CodeInv => TablesApart(dex)
    BY DEF CodeInv
  <2> QED
    BY <2>1, ReferencesName
<1> QED
  BY <1>1, CodeIsDecoded, PTL

=============================================================================
