-------------------------------- MODULE LeLoad --------------------------------
(***************************************************************************)
(* Loading a Linear Executable (LE, LX, or a VxD).  mz/le maps a synthetic *)
(* slot for every imported module, then the objects, one behind the other, *)
(* page by page; as soon as a page is there its fixups are applied to it.  *)
(* At last the exports get their names and a VxD's services are found      *)
(* through the description block, which the fixups have filled in.         *)
(*                                                                         *)
(* One reader walks the page map and, in the middle of it, the fixups of a *)
(* page and, in the middle of those, the names of imports.                 *)
(*                                                                         *)
(* Memory is a function from addresses to cells.  Wide cells hold a u32,   *)
(* one a u16.  Mapping a page replaces what was written there before.      *)
(***************************************************************************)
EXTENDS Integers, Sequences, FiniteSets, SequencesExt

CONSTANTS
  Inputs,      \* the files the loader may be given
  Slot,        \* LE_SEG_SLOT: also the number of values of a cell
  Align,       \* LE_MEM_ALIGN, and LE_PAGE_ALIGN
  Wide,        \* sizeof(u32)
  SystemArena, \* the base of a VxD
  Eof,         \* a name, or a fixup, that runs off the file
  NoName       \* the name that is NULL

ASSUME SizeAssumption ==
  /\ Wide \in Nat \ {0} /\ Align \in Nat \ {0}
  /\ Slot \in Nat \ {0} /\ Slot % Align = 0 /\ Slot % Wide = 0
  /\ SystemArena \in Nat

\* What a file can say.  The page map is 1-based: an object that says it starts at 0
\* gets what is in front of the map ("before") for its first page.
ASSUME InputsAssumption ==
  \A f \in Inputs :
    /\ f.vxd \in BOOLEAN /\ f.lx \in BOOLEAN /\ f.has_fixups \in BOOLEAN
    /\ f.page_size \in Nat /\ f.page_off \in Nat /\ f.num_pages \in Nat
    /\ f.last_page \in Nat /\ f.readable \in Nat
    /\ f.mods \in Seq(ToSet(f.mods))
    /\ f.objects \in Seq([size : Nat, perm : BOOLEAN, mapidx : Nat, mapsize : Nat])
    /\ f.pages \in Seq(ToSet(f.pages)) /\ Eof \notin {f.before} \cup ToSet(f.pages)
    /\ \A e \in {f.before} \cup ToSet(f.pages) :
         IF f.lx THEN e.off \in Nat /\ e.size \in Nat ELSE e.num \in Nat
    /\ \A p \in DOMAIN f.fixups : f.fixups[p] \in Seq(ToSet(f.fixups[p]))
    /\ \A x \in f.junk \cup UNION {ToSet(f.fixups[p]) \ {Eof} : p \in DOMAIN f.fixups} :
         /\ x.target \in {"internal", "ordinal", "name", "entry"} /\ x.offs \in Seq(Int)
         /\ x.target = "internal" => x.obj \in Nat /\ x.off \in Nat
    /\ f.bundles \in Seq(ToSet(f.bundles))
    /\ \A b \in ToSet(f.bundles) : b.count \in Nat /\ b.offs \in Seq(Nat)
    /\ f.raw \in Nat
    /\ f.nametables \in Seq(ToSet(f.nametables))
    /\ \A t \in ToSet(f.nametables) :
         t \in Seq(ToSet(t)) /\ \A n \in ToSet(t) \ {Eof} : n.ord \in Nat

VARIABLES
  input,     \* the file, never changed
  pc,        \* the phase of le_load, then "loaded" or "rejected"
  obj,       \* the object at hand; in "imports" the module, in "exports" the table
  page,      \* "i" of the loop over its pages, 0-based; in "exports" over names
  reader,    \* the input reader: [pos, stack]
  addr,      \* per object read so far: LEObject.addr
  cursor,    \* where the next object goes
  entry,     \* what rd_set_entry_point and rd_auto_sregval were told
  segments,  \* the segments mapped: [base, size, input, object]
  next_off,  \* per module: LEImport.next_off
  named,     \* rd_library_name, rd_get_address: the addresses of symbols
  ordinals,  \* rd_set_external_ord: the addresses of <<module, ordinal>>
  memory,    \* the cells of the pages
  exports,   \* what rd_set_external was told: <<symbol, address>>
  functions, \* the functions le_load_vxd set
  seen       \* history: pages and fixups handled, where the reader was, the target

vars == <<input, pc, obj, page, reader, addr, cursor, entry, segments, next_off,
          named, ordinals, memory, exports, functions, seen>>

-------------------------------------------------------------------------------
(* The reader.                                                             *)

At(r, pos) == [r EXCEPT !.pos = pos]

Saved(r) == [r EXCEPT !.stack = Append(@, r.pos)]

Restored(r) == [pos |-> Last(r.stack), stack |-> Front(r.stack)]

ObjectTable == <<"objects", 1>>

PageEntry(p) == <<"map", p>>

FixupOf(p, k) == <<"fixups", p, k>>

-------------------------------------------------------------------------------
(* Memory.                                                                 *)

InputCell(off) == <<"input", off>>

FillCell == <<"fill", 0>>

PatchCell(v, k) == <<"patch", v, k>>

Written(mem, cells) ==
  [a \in DOMAIN mem \cup DOMAIN cells |->
     IF a \in DOMAIN cells THEN cells[a] ELSE mem[a]]

Cells(a, n) == a .. a + n - 1

Readable(mem, a) == Cells(a, Wide) \subseteq DOMAIN mem

\* A u32 in memory: the value of a fixup, or else what the file has there.
Value(mem, a) ==
  IF \A k \in 0 .. Wide - 1 : mem[a + k] = PatchCell(mem[a][2], k)
    THEN mem[a][2]
    ELSE input.raw

-------------------------------------------------------------------------------
(* Objects, pages and import slots.                                        *)

AlignUp(n, to) == ((n + to - 1) \div to) * to

PageSize == IF input.page_size = 0 THEN Align ELSE input.page_size

NumObjects == Len(input.objects)

\* _le_unbound_base.
UnboundBase == IF input.vxd THEN SystemArena ELSE Slot

\* le_seg_address.
SegAddress(o, off) == IF o \in 1 .. Len(addr) THEN addr[o] + off ELSE 0

\* LE_IMPORT_SLOT, of a module number that is 1-based.
ModuleSlot(m) == (NumObjects + m) * Slot

\* le_importslice_create stops at the first name that is empty or truncated.
ModuleThere(m) == \A j \in 1 .. m : input.mods[j] \notin {Eof, NoName}

ModuleBase(m) == IF ModuleThere(m) THEN ModuleSlot(m) ELSE 0

ModuleName(m) == IF ModuleThere(m) THEN input.mods[m] ELSE NoName

MapSegment(base, size, in, o) ==
  segments' = segments \cup
    {s \in {[base |-> base, size |-> size, input |-> in, object |-> o]} : s.size > 0}

MoreModules == obj <= Len(input.mods) /\ ModuleThere(obj)

CreateImport ==
  /\ pc = "imports"
  /\ MoreModules
  /\ MapSegment(ModuleSlot(obj), Slot, 0, 0)
  /\ obj' = obj + 1
  /\ UNCHANGED <<input, pc, page, reader, addr, cursor, next_off, named, ordinals,
                 memory, exports, functions, entry, seen>>

\* le_segments_load has nothing to do without objects.
ImportsCreated ==
  /\ pc = "imports"
  /\ ~MoreModules
  /\ obj' = 1
  /\ IF NumObjects = 0
       THEN pc' = "exports" /\ UNCHANGED reader
       ELSE pc' = "objects" /\ reader' = Saved(At(reader, ObjectTable))
  /\ UNCHANGED <<input, page, addr, cursor, segments, next_off, named, ordinals,
                 memory, exports, functions, entry, seen>>

\* One turn of the first loop of le_segments_load.
ReadObject_Unaligned ==          \* mutant: sizes are not rounded up
  /\ pc = "objects"
  /\ obj <= NumObjects
  /\ IF obj > input.readable
       THEN pc' = "rejected" /\ UNCHANGED <<obj, addr, cursor>>
       ELSE /\ addr' = Append(addr, cursor)
            /\ cursor' = cursor + input.objects[obj].size
            /\ obj' = obj + 1
            /\ UNCHANGED pc
  /\ UNCHANGED <<input, page, reader, segments, next_off, named, ordinals, memory,
                 exports, functions, entry, seen>>

ReadObject ==
  /\ pc = "objects"
  /\ obj <= NumObjects
  /\ IF obj > input.readable
       THEN pc' = "rejected" /\ UNCHANGED <<obj, addr, cursor>>
       ELSE /\ addr' = Append(addr, cursor)
            /\ cursor' = cursor + AlignUp(input.objects[obj].size, Align)
            /\ obj' = obj + 1
            /\ UNCHANGED pc
  /\ UNCHANGED <<input, page, reader, segments, next_off, named, ordinals, memory,
                 exports, functions, entry, seen>>

ObjectsRead ==
  /\ pc = "objects"
  /\ obj > NumObjects
  /\ pc' = "segments"
  /\ obj' = 1
  /\ reader' = Restored(reader)
  /\ UNCHANGED <<input, page, addr, cursor, segments, next_off, named, ordinals,
                 memory, exports, functions, entry, seen>>

\* The second loop: an object without permissions is left out, any other is
\* mapped and the reader goes to its part of the page map.
OpenObject ==
  /\ pc = "segments"
  /\ obj <= NumObjects
  /\ LET o == input.objects[obj] IN
     IF ~o.perm
       THEN obj' = obj + 1 /\ UNCHANGED <<pc, page, reader, segments>>
       ELSE /\ MapSegment(addr[obj], AlignUp(o.size, PageSize), 0, obj)
            /\ reader' = At(Saved(reader), PageEntry(o.mapidx))
            /\ page' = 0
            /\ pc' = "pages"
            /\ UNCHANGED obj
  /\ UNCHANGED <<input, addr, cursor, next_off, named, ordinals, memory, exports,
                 functions, entry, seen>>

CloseObject ==
  /\ reader' = Restored(reader)
  /\ obj' = obj + 1
  /\ pc' = "segments"
  /\ UNCHANGED <<input, page, addr, cursor, segments, next_off, named, ordinals,
                 memory, exports, functions, entry, seen>>

PageAt(p) == IF p = 0 THEN input.before ELSE input.pages[p]

\* What le_read_page delivers where the reader stands: Eof is an error.
Delivered ==
  IF reader.pos[1] = "map" /\ reader.pos[2] \in 0 .. Len(input.pages)
    THEN PageAt(reader.pos[2])
    ELSE Eof

PagesDone ==
  /\ pc = "pages"
  /\ page >= input.objects[obj].mapsize \/ Delivered = Eof
  /\ CloseObject

\* Where a page is in the file, and how much of it: nothing if either is 0.
PlaceOf(e) ==
  IF input.lx
    THEN [off |-> input.page_off + e.off, size |-> e.size]
    ELSE [off  |-> IF e.num = 0 THEN 0 ELSE input.page_off + (e.num - 1) * PageSize,
          size |-> IF e.num = input.num_pages /\ input.last_page # 0
                     THEN input.last_page ELSE PageSize]

\* "map only required data".
Required(place) ==
  LET limit == input.objects[obj].size IN
  IF limit < place.size THEN limit ELSE place.size

\* The cells of a page at va of which the file has n from off on.
PageCells(flags, va, off, n) ==
  CASE flags = "preload" ->
         [a \in Cells(va, n) \cup Cells(va, PageSize) |->
            IF a < va + n THEN InputCell(off + a - va) ELSE FillCell]
    [] flags \in {"invalid", "zeroed"} -> [a \in Cells(va, n) |-> FillCell]
    [] OTHER -> [a \in {} |-> FillCell]

PageVA == addr[obj] + page * PageSize

\* The page of the fixup page table: "mapidx - 1 + i", here 1-based.  Page 0 is
\* outside of any file, and its fixups are whatever the locals were.
FixupPage == input.objects[obj].mapidx + page

FixupsOf(p) ==
  IF input.has_fixups /\ p \in DOMAIN input.fixups THEN input.fixups[p] ELSE <<>>

NextPage(r) == At(r, PageEntry(r.pos[2] + 1))

\* One turn of _le_object_map_pages up to its fixups: a page that is not in the
\* file is passed over with all its fixups.
MapPage ==
  /\ pc = "pages"
  /\ page < input.objects[obj].mapsize
  /\ Delivered # Eof
  /\ LET place == PlaceOf(Delivered)
         n == Required(place)
     IN  IF place.off = 0 \/ place.size = 0
           THEN /\ page' = page + 1
                /\ reader' = NextPage(reader)
                /\ UNCHANGED <<pc, memory>>
           ELSE /\ memory' = Written(memory, PageCells(Delivered.flags, PageVA, place.off, n))
                /\ pc' = "fixups"
                /\ reader' = At(Saved(NextPage(reader)), FixupOf(FixupPage, 1))
                /\ UNCHANGED page
  /\ seen' = seen \cup {<<obj, page, reader.pos, 0>>}
  /\ UNCHANGED <<input, obj, addr, cursor, segments, next_off, named, ordinals,
                 exports, functions, entry>>

-------------------------------------------------------------------------------
(* Imports: le_importslice_resolve, le_importslice_resolve_ord.            *)

Bind(f, x, a) == [y \in DOMAIN f \cup {x} |-> IF y = x THEN a ELSE f[y]]

Found(to) == [to |-> to, next_off |-> next_off, named |-> named, ordinals |-> ordinals]

IsModule(m) == m \in 1 .. Len(input.mods)

\* A new address in the slot of a module.  The slot of a module without a name
\* is at 0 and not mapped: the engine keeps nothing for it.
Fresh(m) == ModuleBase(m) + next_off[m]

ResolveName(m, sym) ==
  CASE ~IsModule(m)        -> Found(0)
    [] IsModule(m) /\ sym \in DOMAIN named -> Found(named[sym])
    [] OTHER ->
         [Found(Fresh(m)) EXCEPT
            !.next_off[m] = @ + Wide,
            !.named = IF sym = NoName \/ ~ModuleThere(m) THEN @ ELSE Bind(@, sym, Fresh(m))]

ResolveOrdinal_NoAdvance(m, ord) ==      \* mutant: next_off does not move on
  LET import == <<ModuleName(m), ord>> IN
  CASE ~IsModule(m)                              -> Found(0)
    [] IsModule(m) /\ import \in DOMAIN ordinals -> Found(ordinals[import])
    [] OTHER ->
         [Found(Fresh(m)) EXCEPT
            !.ordinals = IF ModuleThere(m) THEN Bind(@, import, Fresh(m)) ELSE @]

ResolveOrdinal(m, ord) ==
  LET import == <<ModuleName(m), ord>> IN
  CASE ~IsModule(m)                              -> Found(0)
    [] IsModule(m) /\ import \in DOMAIN ordinals -> Found(ordinals[import])
    [] OTHER ->
         [Found(Fresh(m)) EXCEPT
            !.next_off[m] = @ + Wide,
            !.ordinals = IF ModuleThere(m) THEN Bind(@, import, Fresh(m)) ELSE @]

\* le_import_proc_name: NULL for a name that is empty or truncated.
ProcName(off) == IF input.names[off] = Eof THEN NoName ELSE input.names[off]

-------------------------------------------------------------------------------
(* le_fixup_apply.                                                         *)

\* "current_target".
Target(f) ==
  CASE f.target = "internal" ->
         Found(IF f.src = "ptr32" THEN f.obj * Slot + (f.off % Slot)
               ELSE SegAddress(f.obj, f.off))
    [] f.target = "ordinal" -> ResolveOrdinal(f.mod, f.ord)
    [] f.target = "name"    -> ResolveName(f.mod, ProcName(f.name))
    [] f.target = "entry"   -> Found(0)

\* _le_patch_fixup: how many cells, and their value.
Width(src) ==
  CASE src \in {"ptr32", "off32", "rel32"} -> Wide
    [] src = "off16" -> 1
    [] OTHER         -> 0

PatchValue(src, site, to) ==
  CASE src = "rel32" -> (to - (site + Wide)) % (Slot * Slot)
    [] src = "off16" -> to % Slot
    [] OTHER         -> to % (Slot * Slot)

Patch(src, site, to) ==
  [a \in Cells(site, Width(src)) |-> PatchCell(PatchValue(src, site, to), a - site)]

Site_Unsigned(va, off) == va + (off % Slot)       \* mutant: the cast to i16 dropped

\* Offsets are signed: a fixup that straddles two pages is in the tables of both.
Site(va, off) == va + off

\* The sources of a record that lie over a cell.
SourcesOver(f, a) ==
  {k \in DOMAIN f.offs : a \in Cells(Site(PageVA, f.offs[k]), Width(f.src))}

\* Nothing is patched if the target is 0.  The sources are patched one after the
\* other: where two of them meet the later one stays.
Patched(mem, f, to) ==
  LET Source(k) == Patch(f.src, Site(PageVA, f.offs[k]), to) IN
  IF to = 0 THEN mem
  ELSE Written(mem, [a \in UNION {DOMAIN Source(k) : k \in DOMAIN f.offs} |->
                       Source(Max(SourcesOver(f, a)))[a]])

\* The names of imports are elsewhere in the file.
AfterName_NoRestore(r, off) == At(Saved(r), <<"names", off>>)        \* mutant

AfterName(r, off) == Restored(At(Saved(r), <<"names", off>>))

NextFixup(r) == At(r, FixupOf(r.pos[2], r.pos[3] + 1))

InFixups ==
  /\ pc = "fixups"
  /\ reader.pos[1] = "fixups"
  /\ reader.pos[3] <= Len(FixupsOf(FixupPage))

EndPage ==
  /\ reader' = Restored(reader)
  /\ page' = page + 1
  /\ pc' = "pages"

\* A turn of the loop for one record; all of its sources are patched.
ApplyFixup ==
  /\ InFixups
  /\ LET f == FixupsOf(FixupPage)[reader.pos[3]] IN
     /\ f # Eof
     /\ memory' = Patched(memory, f, Target(f).to)
     /\ next_off' = Target(f).next_off
     /\ named' = Target(f).named
     /\ ordinals' = Target(f).ordinals
     /\ reader' = IF f.target = "name" THEN AfterName(NextFixup(reader), f.name)
                  ELSE NextFixup(reader)
  /\ seen' = seen \cup {<<obj, page, reader.pos, Target(FixupsOf(FixupPage)[reader.pos[3]]).to>>}
  /\ UNCHANGED <<input, pc, obj, page, addr, cursor, segments, exports, functions, entry>>

\* A record that runs off the file is applied with whatever the variables hold,
\* before the error ends the loop.
TruncatedFixup ==
  /\ InFixups
  /\ FixupsOf(FixupPage)[reader.pos[3]] = Eof
  /\ \E f \in input.junk :
       /\ memory' \in {memory, Patched(memory, f, Target(f).to)}
       /\ next_off' = Target(f).next_off
       /\ named' = Target(f).named
       /\ ordinals' = Target(f).ordinals
  /\ EndPage
  /\ UNCHANGED <<input, obj, addr, cursor, segments, exports, functions, entry, seen>>

FixupsDone ==
  /\ pc = "fixups"
  /\ ~InFixups
  /\ EndPage
  /\ UNCHANGED <<input, obj, addr, cursor, segments, next_off, named, ordinals,
                 memory, exports, functions, entry, seen>>

\* The end of le_segments_load: restoring the reader has cleared its error.
SegmentsLoaded ==
  /\ pc = "segments"
  /\ obj > NumObjects
  /\ pc' = "exports"
  /\ obj' = 1
  /\ page' = 0
  /\ UNCHANGED <<input, reader, addr, cursor, segments, next_off, named, ordinals,
                 memory, exports, functions, entry, seen>>

-------------------------------------------------------------------------------
(* le_exports_read, le_load.                                               *)

\* The offset of the k-th entry of a bundle.  What is not in the file is junk.
EntryOffset(b, k, junk) ==
  CASE b.type = "other"                        -> 0
    [] b.type # "other" /\ k <= Len(b.offs)    -> b.offs[k]
    [] OTHER                                   -> junk

HasAddresses(b) == b.type \in {"16bit", "32bit", "other"}

\* One bundle of _le_entry_address.
WalkBundle_UnusedIsOne(walk, b, ordinal, junk) ==     \* mutant: "ord++" for a gap
  IF walk.found \/ walk.broken THEN walk
  ELSE IF HasAddresses(b) /\ ordinal - walk.ord \in 0 .. b.count - 1
    THEN [ord |-> walk.ord, found |-> TRUE, broken |-> FALSE,
          at |-> SegAddress(b.obj, EntryOffset(b, ordinal - walk.ord + 1, junk))]
    ELSE [ord |-> walk.ord + (IF b.type = "unused" THEN 1 ELSE b.count), found |-> FALSE,
          broken |-> b.type \in {"16bit", "32bit"} /\ Len(b.offs) < b.count, at |-> 0]

WalkBundle(walk, b, ordinal, junk) ==
  IF walk.found \/ walk.broken THEN walk
  ELSE IF HasAddresses(b) /\ ordinal - walk.ord \in 0 .. b.count - 1
    THEN [ord |-> walk.ord, found |-> TRUE, broken |-> FALSE,
          at |-> SegAddress(b.obj, EntryOffset(b, ordinal - walk.ord + 1, junk))]
    ELSE [ord |-> walk.ord + b.count, found |-> FALSE,
          broken |-> b.type \in {"16bit", "32bit"} /\ Len(b.offs) < b.count, at |-> 0]

AtFirstBundle == [ord |-> 1, found |-> FALSE, broken |-> FALSE, at |-> 0]

\* _le_entry_address: every name, and the VxD, walks the table from its start.
EntryAddresses(ordinal) ==
  {LET walk[n \in 0 .. Len(input.bundles)] ==
         IF n = 0 THEN AtFirstBundle
         ELSE WalkBundle(walk[n - 1], input.bundles[n], ordinal, junk)
   IN  walk[Len(input.bundles)].at : junk \in {0, 1}}

NamesLeft ==
  /\ pc = "exports"
  /\ obj <= Len(input.nametables)
  /\ page < Len(input.nametables[obj])
  /\ input.nametables[obj][page + 1] # Eof

\* _le_read_name_table; ordinal 0 is the name of the module.
ReadName ==
  /\ NamesLeft
  /\ LET n == input.nametables[obj][page + 1] IN
     \E a \in IF n.ord = 0 THEN {0} ELSE EntryAddresses(n.ord) :
       exports' = IF a = 0 THEN exports ELSE exports \cup {<<n, a>>}
  /\ page' = page + 1
  /\ UNCHANGED <<input, pc, obj, reader, addr, cursor, segments, next_off, named,
                 ordinals, memory, functions, entry, seen>>

\* The resident names, then the others.
NextNameTable ==
  /\ pc = "exports"
  /\ obj <= Len(input.nametables)
  /\ ~NamesLeft
  /\ obj' = obj + 1
  /\ page' = 0
  /\ UNCHANGED <<input, pc, reader, addr, cursor, segments, next_off, named, ordinals,
                 memory, exports, functions, entry, seen>>

Register(r) == IF r[1] = 0 THEN {} ELSE {SegAddress(r[1], r[2])}

SetEntryPoint ==
  /\ pc = "exports"
  /\ obj > Len(input.nametables)
  /\ entry' = [eip |-> Register(input.eip), esp |-> Register(input.esp)]
  /\ pc' = IF input.vxd THEN "vxd" ELSE "loaded"
  /\ UNCHANGED <<input, obj, page, reader, addr, cursor, segments, next_off, named,
                 ordinals, memory, exports, functions, seen>>

-------------------------------------------------------------------------------
(* le_load_vxd.                                                            *)

\* The fields of the description block, as their number of u32s.
Control == 0
V86 == 1
Pm == 2
ServiceTable == 3
DDBFields == {Control, V86, Pm, ServiceTable}

Field(ddb, k) == ddb + k * Wide

Mapped(a) == \E s \in segments : a \in Cells(s.base, s.size)

Services_Unscaled(mem, table) ==             \* mutant: "* sizeof(u32)" dropped
  IF table = 0 THEN {}
  ELSE {Value(mem, table + k) :
          k \in {n \in 0 .. input.services - 1 : Readable(mem, table + n)}}

Services(mem, table) ==
  IF table = 0 THEN {}
  ELSE {Value(mem, table + k * Wide) :
          k \in {n \in 0 .. input.services - 1 : Readable(mem, table + n * Wide)}}

\* The block is entry 1, and read through the address space.
LoadVxd ==
  /\ pc = "vxd"
  /\ \E ddb \in EntryAddresses(1) :
       IF ddb = 0 \/ \E k \in DDBFields : ~Readable(memory, Field(ddb, k))
         THEN UNCHANGED functions
         ELSE functions' = {a \in {Value(memory, Field(ddb, k)) : k \in {Control, V86, Pm}} \cup
                              Services(memory, Value(memory, Field(ddb, ServiceTable))) :
                            a # 0 /\ Mapped(a)}
  /\ pc' = "loaded"
  /\ UNCHANGED <<input, obj, page, reader, addr, cursor, segments, next_off, named,
                 ordinals, memory, exports, entry, seen>>
-------------------------------------------------------------------------------

Init ==
  /\ input \in Inputs
  /\ pc = "imports"
  /\ obj = 1
  /\ page = 0
  /\ reader = [pos |-> <<"start">>, stack |-> <<>>]
  /\ addr = <<>>
  /\ cursor = UnboundBase
  /\ entry = [eip |-> {}, esp |-> {}]
  /\ segments = {}
  /\ next_off = [m \in 1 .. Len(input.mods) |-> 0]
  /\ named = [x \in {} |-> 0]
  /\ ordinals = [x \in {} |-> 0]
  /\ memory = [x \in {} |-> FillCell]
  /\ exports = {}
  /\ functions = {}
  /\ seen = {}

Work ==
  \/ CreateImport \/ ImportsCreated
  \/ ReadObject \/ ObjectsRead
  \/ OpenObject \/ PagesDone \/ MapPage
  \/ ApplyFixup \/ TruncatedFixup \/ FixupsDone
  \/ SegmentsLoaded
  \/ ReadName \/ NextNameTable \/ SetEntryPoint
  \/ LoadVxd

Terminating == pc \in {"loaded", "rejected"} /\ UNCHANGED vars

Next == Work \/ Terminating

Spec == Init /\ [][Next]_vars
-------------------------------------------------------------------------------
(* Correctness.                                                            *)

Loaded == pc = "loaded"

IsMapped(o) == o \in 1 .. NumObjects /\ input.objects[o].perm

\* The pages of object o, as far as the page map is in the file.
PagesOf(o) ==
  {i \in 0 .. input.objects[o].mapsize - 1 : input.objects[o].mapidx + i <= Len(input.pages)}

HasData(o, i) ==
  LET e == PageAt(input.objects[o].mapidx + i) IN
  IF input.lx
    THEN input.page_off + e.off # 0 /\ e.size > 0
    ELSE e.num > 0 /\ input.page_off + (e.num - 1) * PageSize # 0

\* The records of a page up to one that is truncated.
FixupCount(p) ==
  LET cut == {k \in DOMAIN FixupsOf(p) : FixupsOf(p)[k] = Eof} IN
  IF cut = {} THEN Len(FixupsOf(p)) ELSE CHOOSE k \in {c - 1 : c \in cut} : \A c \in cut : k < c

\* The reader leaves the page map for the fixups and the fixups for names, and
\* always comes back: when all is loaded each page of a mapped object has been
\* handled once with its own entry of the page map, and each fixup with its own
\* record.
TablesWalked ==
  Loaded =>
    {<<h[1], h[2], h[3]>> : h \in seen} =
           UNION {UNION {{<<o, i, PageEntry(input.objects[o].mapidx + i)>>} \cup
                           {<<o, i, FixupOf(input.objects[o].mapidx + i, k)>> :
                              k \in IF HasData(o, i) THEN 1 .. FixupCount(input.objects[o].mapidx + i)
                                    ELSE {}} :
                           i \in PagesOf(o)} : o \in {x \in 1 .. NumObjects : IsMapped(x)}}

VA(o, i) == addr[o] + i * PageSize

\* The patches that were asked for: their cells, and where their page ends.
PatchesOf(h) ==
  LET f == FixupsOf(h[3][2])[h[3][3]] IN
  {[end   |-> VA(h[1], h[2]) + PageSize,
    cells |-> Patch(f.src, VA(h[1], h[2]) + off, h[4])] : off \in ToSet(f.offs)}

Patches == UNION {PatchesOf(h) : h \in {x \in seen : x[4] # 0}}

\* No record of a fixup is truncated.
Whole == \A p \in DOMAIN input.fixups : FixupCount(p) = Len(input.fixups[p])

\* A fixup stays: whatever page is mapped and whatever record is applied later,
\* each cell of its site is one that a record asked for.  What straddles into the
\* next page is left to that page's own record.  (Records that are whole.)
FixupsLand ==
  Loaded /\ Whole =>
    \A p \in Patches : \A a \in DOMAIN p.cells :
      a < p.end =>
        \E q \in Patches : a \in DOMAIN q.cells /\ memory[a] = q.cells[a]

\* No two imports share an address, and an import of a module that has a name
\* is in that module's slot or, for a name it shares, in another's.
ImportsUnique ==
  /\ \A x, y \in DOMAIN named : named[x] = named[y] => x = y
  /\ \A x, y \in DOMAIN ordinals : ordinals[x] = ordinals[y] => x = y
  /\ \A x \in DOMAIN named, y \in DOMAIN ordinals : named[x] # ordinals[y]
  /\ \A y \in DOMAIN ordinals :
       \E m \in 1 .. Len(input.mods) :
         input.mods[m] = y[1] /\ ordinals[y] \in Cells(ModuleSlot(m), Slot - Wide + 1)

\* How many ordinals the bundles before bundle n take.
OrdinalsBefore ==
  LET before[n \in 1 .. Len(input.bundles)] ==
        IF n = 1 THEN 0 ELSE before[n - 1] + input.bundles[n - 1].count
  IN  before

\* Every exported name has the address of the entry with its ordinal: gaps,
\* gates and forwarders count.  (Tables that are whole.)
ExportsAreEntries ==
  \A x \in exports :
    \E n \in DOMAIN input.bundles :
      LET b   == input.bundles[n]
          nth == x[1].ord - OrdinalsBefore[n]
      IN  /\ nth \in 1 .. b.count
          /\ HasAddresses(b)
          /\ x[2] \in {SegAddress(b.obj, EntryOffset(b, nth, junk)) : junk \in {0, 1}}

\* The values that fixups of a u32 have put at an address.
FixedUp(a) == {p.cells[a][2] : p \in {q \in Patches : DOMAIN q.cells = Cells(a, Wide)}}

\* What they have put into a description block and its table of services.
FixedUpFunctions(ddb) ==
  LET tables == FixedUp(Field(ddb, ServiceTable)) IN
  (UNION {FixedUp(Field(ddb, k)) : k \in {Control, V86, Pm}}) \cup
  (UNION {FixedUp(t + k * Wide) : t \in tables, k \in 0 .. input.services - 1})

\* The functions of a VxD are those whose addresses the fixups have filled into
\* its description block and its table of services: they are read after the
\* fixups, and where they have written.
ServicesAreFixedUp ==
  Loaded /\ functions # {} =>
    \E ddb \in EntryAddresses(1) : functions = FixedUpFunctions(ddb)

Space == INSTANCE AddressSpace WITH
  limit    <- SystemArena * 2,
  segments <- {[base |-> s.base, size |-> s.size, input |-> s.input] : s \in segments},
  status   <- CASE pc = "rejected" -> "rejected"
                [] pc \in {"exports", "vxd", "loaded"} -> "loaded"
                [] OTHER -> "loading"

\* Objects and import slots make an address space as every loader promises to.
AddressSpaceSpec == Space!Spec
===============================================================================
