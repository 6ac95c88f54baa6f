------------------------------- MODULE PeDirs -------------------------------
(***************************************************************************)
(* Loading a Portable Executable: mz/pe maps the sections and then reads   *)
(* the data directories one after the other, all with one reader, which a  *)
(* directory leaves wherever it stopped.  A directory that is absent or    *)
(* damaged ends early and the next one begins.                             *)
(*                                                                         *)
(* An image is what the sections show: a function from addresses to the    *)
(* structures, numbers and names that are there; a read anywhere else      *)
(* fails.  The sizes of the structures are those of the format.            *)
(* Types and names for the strings read on the way (hints, names of        *)
(* modules, of functions and of files) are left out.                       *)
(***************************************************************************)
EXTENDS Integers, Sequences, SequencesExt

CONSTANTS
  Images,       \* the files
  MaxCallbacks, \* PE_TLS_MAX_CALLBACKS
  U16,          \* one more than the largest u16
  Boundaries,   \* the names of the linker's boundary symbols
  KindOf        \* of a module that tells its compiler: the class

\* Addresses, sizes and counts are numbers, and so are those of the headers
\* that a directory begins with.
NumbersOf(name) ==
  CASE name = "exports" -> {"functions", "names", "ordinals", "nfunctions", "nnames", "base"}
    [] name = "tls" -> {"index", "callbacks"}
    [] name = "config" -> {"size", "handlers", "count"}

ASSUME ImagesAssumption ==
  \A im \in Images :
    /\ im.base \in Nat /\ im.entry \in Nat
    /\ \A name \in {"exports", "imports", "resources", "exceptions", "tls", "config"} :
         im.dirs[name].va \in Nat /\ im.dirs[name].size \in Nat
    /\ \A name \in {"exports", "tls", "config"} :
         im.dirs[name].va # 0 =>
           \A a \in DOMAIN im.mem \cap {im.base + im.dirs[name].va} :
             \A f \in NumbersOf(name) : im.mem[a][f] \in Nat

VARIABLES
  image,     \* the file, never changed
  pc,        \* the directory, or where in it the loader is
  reader,    \* [pos, stack]
  cur,       \* the local variables of the loop at hand
  frames,    \* the resource directories being read, the innermost last
  segments,  \* the segments mapped: [base, size, shown, exec]
  out,       \* what the engine was told: [functions, imports, exports, names, types, thumb]
  class      \* what pe_classify found; at the end the analyzer enabled

vars == <<image, pc, reader, cur, frames, segments, out, class>>

-----------------------------------------------------------------------------
(* The reader and the image.                                               *)

There(a) == a \in DOMAIN image.mem
Item(a) == image.mem[a]

Saved(r) == [r EXCEPT !.stack = Append(@, r.pos)]
Restored(r) == [pos |-> Last(r.stack), stack |-> Front(r.stack)]
To(r, a) == [r EXCEPT !.pos = a]

\* Something is read elsewhere and the reader comes back.
Elsewhere(r, a) == Restored(To(Saved(r), a))

\* pe_from_rva, of an rva that is not 0.
FromRva(rva) == image.base + rva

Directory(name) == image.dirs[name]
Present(name) == Directory(name).va # 0
DirectoryVa(name) == FromRva(Directory(name).va)
End(name) == DirectoryVa(name) + Directory(name).size

IsArm == image.machine \in {"arm", "arm64"}
IsX86 == image.machine \in {"x86", "amd64"}

\* pe_set_bits; "arm64" is ARM with the optional header of 64 bits.
Is64 == image.machine \in {"amd64", "arm64"}
ThunkSize == IF Is64 THEN 8 ELSE 4

\* pe_norm: on ARM the lowest bit is the instruction set.
Normal(a) == IF IsArm THEN a - (a % 2) ELSE a
Thumb(a) == IF IsArm THEN {[addr |-> Normal(a), T |-> a % 2]} ELSE {}

\* mutant: an address that is none of the image's
Plain_Based(a) == FromRva(a)

\* An address of the file that is no rva.
Plain(a) == a

-----------------------------------------------------------------------------
(* What the engine is told.                                                *)

Typed(as, type) == {[addr |-> a, type |-> type] : a \in as}

\* The directory after this one; the reader stays where it is.
GoTo(directory) == pc' = directory

Function(as) == [out EXCEPT !.functions = @ \cup as]

-----------------------------------------------------------------------------
(* The sections.                                                           *)

AlignUp(n, m) == IF m = 0 \/ n % m = 0 THEN n ELSE n + (m - (n % m))

Sections == image.sections

VirtualSize(s) == IF s.vsize = 0 THEN s.raw ELSE s.vsize

HoldsEntry(s) == s.va <= image.entry /\ image.entry < s.va + s.vsize

Segment(s) ==
  [base  |-> FromRva(s.va),
   size  |-> AlignUp(VirtualSize(s), image.align),
   shown |-> IF s.ptr = 0 THEN 0 ELSE IF s.vsize < s.raw THEN s.vsize ELSE s.raw,
   exec  |-> s.exec \/ HoldsEntry(s)]

\* The engine refuses what is empty or over another segment.
Accepted(s) ==
  /\ s.size > 0
  /\ \A t \in segments : s.base + s.size <= t.base \/ t.base + t.size <= s.base

MapSection ==
  /\ pc = "sections" /\ cur.i < Len(Sections)
  /\ segments' = segments \cup {s \in {Segment(Sections[cur.i + 1])} : Accepted(s)}
  /\ cur' = [cur EXCEPT !.i = @ + 1]
  /\ UNCHANGED <<image, pc, reader, frames, out, class>>

\* .NET is not loaded.
SectionsMapped ==
  /\ pc = "sections" /\ cur.i = Len(Sections)
  /\ pc' = IF image.dotnet > 0 THEN "rejected" ELSE "exports"
  /\ UNCHANGED <<image, reader, cur, frames, segments, out, class>>

Executable(a) == \E s \in segments : s.exec /\ s.base <= a /\ a < s.base + s.size

-----------------------------------------------------------------------------
(* Exports.                                                                *)

ExportTables == Item(DirectoryVa("exports"))

ExportsOpen ==
  /\ pc = "exports"
  /\ LET va == DirectoryVa("exports") IN
       IF Present("exports") /\ There(va)
       THEN LET d == Item(va) IN
            /\ out' = [out EXCEPT !.types = @ \cup Typed({va}, "exports")]
            /\ IF 0 \in {d.functions, d.names, d.ordinals} THEN GoTo("imports")
               ELSE pc' = "export"
            /\ reader' = To(reader, FromRva(d.functions))
       ELSE GoTo("imports") /\ UNCHANGED <<reader, out>>
  /\ cur' = [cur EXCEPT !.i = 0]
  /\ UNCHANGED <<image, frames, segments, class>>

\* The names whose ordinal is i, as far as the ordinals can be read.
NamesOf(i) ==
  {j \in 0..(ExportTables.nnames - 1) :
     /\ \A k \in 0..j : There(FromRva(ExportTables.ordinals) + 2 * k)
     /\ Item(FromRva(ExportTables.ordinals) + 2 * j) = i}

First(s) == CHOOSE j \in s : \A k \in s : j <= k

\* mutant: the name at the place of the function
NameIndex_Direct(i) == i

\* Where in the list of names the name of function i is.
NameIndex(i) == First(NamesOf(i))

\* "" is no name.
ExportName(i) ==
  LET slot == FromRva(ExportTables.names) + 4 * NameIndex(i) IN
  IF NamesOf(i) = {} \/ ~There(slot) THEN ""
  ELSE IF Item(slot) = 0 \/ ~There(FromRva(Item(slot))) THEN ""
  ELSE Item(FromRva(Item(slot)))

OrdinalsReadable(i) ==
  \/ NamesOf(i) # {}
  \/ \A j \in 0..(ExportTables.nnames - 1) : There(FromRva(ExportTables.ordinals) + 2 * j)

IsForwarder(rva) ==
  Directory("exports").va <= rva /\ rva < Directory("exports").va + Directory("exports").size

MoreExports == cur.i < ExportTables.nfunctions /\ There(reader.pos)

\* A function that is not there keeps its ordinal.
SkipExport ==
  /\ pc = "export" /\ MoreExports /\ Item(reader.pos) = 0
  /\ reader' = To(reader, reader.pos + 4)
  /\ cur' = [cur EXCEPT !.i = @ + 1]
  /\ UNCHANGED <<image, pc, frames, segments, out, class>>

\* An entry of the table: where it is, its ordinal, its name.
Export ==
  /\ pc = "export" /\ MoreExports /\ Item(reader.pos) # 0 /\ OrdinalsReadable(cur.i)
  /\ LET rva == Item(reader.pos)
         a == FromRva(rva)
         name == ExportName(cur.i)
         function == ~IsForwarder(rva) /\ Executable(a) /\ name \notin Boundaries
     IN  /\ out' = [out EXCEPT
              !.exports = @ \cup {[addr |-> a, ord |-> ExportTables.base + cur.i, name |-> name]},
              !.types = @ \cup Typed({x \in {a} : IsForwarder(rva) /\ There(a)}, "char"),
              !.functions = @ \cup {x \in {a} : function}]
         /\ reader' = To(Elsewhere(To(reader, reader.pos + 4), FromRva(ExportTables.ordinals)),
                         reader.pos + 4)
  /\ cur' = [cur EXCEPT !.i = @ + 1]
  /\ UNCHANGED <<image, pc, frames, segments, class>>

\* The table ends or it cannot be read on.
ExportsDone ==
  /\ pc = "export"
  /\ \/ ~MoreExports
     \/ MoreExports /\ Item(reader.pos) # 0 /\ ~OrdinalsReadable(cur.i)
  /\ GoTo("imports")
  /\ UNCHANGED <<image, reader, cur, frames, segments, out, class>>

-----------------------------------------------------------------------------
(* Imports.                                                                *)

DescriptorSize == 20

\* pe_imports_read_descriptor.
IsDescriptor(a) ==
  There(a) /\ Item(a).name # 0 /\ (Item(a).oft # 0 \/ Item(a).ft # 0)

ModuleAt(a) == FromRva(Item(a).name)

ImportsOpen ==
  /\ pc = "imports"
  /\ IF Present("imports")
     THEN /\ pc' = "descriptor"
          /\ reader' = To(reader, DirectoryVa("imports"))
          /\ cur' = [cur EXCEPT !.va = DirectoryVa("imports")]
     ELSE GoTo("resources") /\ UNCHANGED <<reader, cur>>
  /\ UNCHANGED <<image, frames, segments, out, class>>

\* mutant: the bound addresses are read
LookupTable_Bound(d) == IF d.ft # 0 THEN d.ft ELSE d.oft

\* Either table stands in for the other one.
LookupTable(d) == IF d.oft # 0 THEN d.oft ELSE d.ft
AddressTable(d) == IF d.ft # 0 THEN d.ft ELSE d.oft

\* A descriptor whose module has a name: its thunks are next.
Descriptor ==
  /\ pc = "descriptor" /\ IsDescriptor(reader.pos)
  /\ LET d == Item(reader.pos)
         behind == To(reader, reader.pos + DescriptorSize)
     IN  /\ out' = [out EXCEPT !.types = @ \cup Typed({cur.va}, "descriptor")]
         /\ IF There(FromRva(d.name))
            THEN /\ pc' = "thunk"
                 /\ reader' = To(Saved(behind), FromRva(AddressTable(d)))
                 /\ cur' = [cur EXCEPT !.module = Item(FromRva(d.name)),
                                       !.oft = FromRva(LookupTable(d)),
                                       !.ft = FromRva(AddressTable(d))]
            ELSE /\ reader' = Elsewhere(behind, FromRva(d.name))
                 /\ cur' = [cur EXCEPT !.va = reader'.pos]
                 /\ UNCHANGED pc
  /\ UNCHANGED <<image, frames, segments, class>>

ThunkReadable == There(cur.oft) /\ There(cur.ft)
IsTerminator(thunk) == ~thunk.ord /\ thunk.value = 0

\* What is imported: an ordinal, or the name behind the hint.
Imported(thunk) ==
  IF thunk.ord THEN [ord |-> thunk.value, name |-> ""]
  ELSE [ord |-> 0, name |-> IF There(FromRva(thunk.value)) THEN Item(FromRva(thunk.value)) ELSE ""]

Thunk ==
  /\ pc = "thunk" /\ ThunkReadable /\ ~IsTerminator(Item(cur.oft))
  /\ LET what == Imported(Item(cur.oft)) IN
       out' = [out EXCEPT
         !.imports = @ \cup {[addr |-> cur.ft, module |-> cur.module,
                              ord |-> what.ord, name |-> what.name]},
         !.types = @ \cup Typed({cur.oft}, "pointer") \cup Typed({cur.ft}, "function")]
  /\ cur' = [cur EXCEPT !.oft = @ + ThunkSize, !.ft = @ + ThunkSize]
  /\ reader' = To(reader, cur.ft)
  /\ UNCHANGED <<image, pc, frames, segments, class>>

\* The terminator, or a thunk that cannot be read: back to the descriptors.
ThunksDone ==
  /\ pc = "thunk" /\ (ThunkReadable => IsTerminator(Item(cur.oft)))
  /\ out' = [out EXCEPT !.types = @ \cup
               IF ThunkReadable THEN Typed({cur.oft, cur.ft}, "thunk") ELSE {}]
  /\ reader' = Restored(reader)
  /\ cur' = [cur EXCEPT !.va = reader'.pos]
  /\ pc' = "descriptor"
  /\ UNCHANGED <<image, frames, segments, class>>

ImportsDone ==
  /\ pc = "descriptor" /\ ~IsDescriptor(reader.pos)
  /\ GoTo("resources")
  /\ UNCHANGED <<image, reader, cur, frames, segments, out, class>>

-----------------------------------------------------------------------------
(* Resources: directories in directories.                                  *)

MaxDepth == 3
ResourceBase == DirectoryVa("resources")

ResourcesOpen ==
  /\ pc = "resources"
  /\ IF Present("resources")
     THEN pc' = "directory" /\ cur' = [cur EXCEPT !.va = ResourceBase]
     ELSE GoTo("exceptions") /\ UNCHANGED cur
  /\ UNCHANGED <<image, reader, frames, segments, out, class>>

Depth == Len(frames)

\* mutant: the root counts, and the languages are too deep
IsDirectory_Shallow == Depth + 1 < MaxDepth /\ There(cur.va)

\* _pe_resource_read_dirs begins.
IsDirectory == Depth <= MaxDepth /\ There(cur.va)

EnterDirectory ==
  /\ pc = "directory" /\ IsDirectory
  /\ out' = [out EXCEPT !.types = @ \cup Typed({cur.va}, "directory")]
  /\ reader' = To(reader, cur.va + 16)
  /\ frames' = Append(frames, [entry |-> cur.va + 16, i |-> 0,
                               total |-> (Item(cur.va).named + Item(cur.va).ids) % U16])
  /\ pc' = "entry"
  /\ UNCHANGED <<image, cur, segments, class>>

\* The caller goes on with its next entry; the root has none.
Resume(r, callers) ==
  IF callers = <<>>
  THEN /\ GoTo("exceptions") /\ reader' = r /\ frames' = callers
  ELSE /\ reader' = Restored(r)
       /\ frames' = [callers EXCEPT ![Len(callers)].entry = reader'.pos,
                                    ![Len(callers)].i = @ + 1]
       /\ pc' = "entry"

NoDirectory ==
  /\ pc = "directory" /\ ~IsDirectory
  /\ Resume(reader, frames)
  /\ UNCHANGED <<image, cur, segments, out, class>>

Frame == Last(frames)
MoreEntries == Frame.i < Frame.total /\ There(reader.pos)
EntryTypes == Typed({Frame.entry}, "directory entry")

Subdirectory ==
  /\ pc = "entry" /\ MoreEntries /\ Item(reader.pos).dir
  /\ out' = [out EXCEPT !.types = @ \cup EntryTypes]
  /\ cur' = [cur EXCEPT !.va = ResourceBase + Item(reader.pos).off]
  /\ reader' = Saved(To(reader, reader.pos + 8))
  /\ pc' = "directory"
  /\ UNCHANGED <<image, frames, segments, class>>

\* A data entry; the first that cannot be read ends its directory.
DataEntry ==
  /\ pc = "entry" /\ MoreEntries /\ ~Item(reader.pos).dir
  /\ LET a == ResourceBase + Item(reader.pos).off
         behind == Elsewhere(To(reader, reader.pos + 8), a)
         named == IF There(a) /\ Item(a).rva # 0 /\ Item(a).size # 0
                  THEN {[addr |-> FromRva(Item(a).rva), name |-> "rsrc_data"]} ELSE {}
     IN  /\ out' = [out EXCEPT !.types = @ \cup EntryTypes \cup Typed({a}, "data entry"),
                               !.names = @ \cup named]
         /\ IF There(a)
            THEN /\ reader' = behind
                 /\ frames' = [frames EXCEPT ![Depth].entry = behind.pos, ![Depth].i = @ + 1]
                 /\ UNCHANGED pc
            ELSE Resume(behind, Front(frames))
  /\ UNCHANGED <<image, cur, segments, class>>

LeaveDirectory ==
  /\ pc = "entry" /\ ~MoreEntries
  /\ Resume(reader, Front(frames))
  /\ UNCHANGED <<image, cur, segments, out, class>>

-----------------------------------------------------------------------------
(* Exceptions: the functions of a 64-bit image.                            *)

ExceptionsOpen ==
  /\ pc = "exceptions"
  /\ IF Is64 /\ Present("exceptions") /\ Directory("exceptions").size # 0
     THEN pc' = "exception" /\ reader' = To(reader, DirectoryVa("exceptions"))
     ELSE GoTo("debug") /\ UNCHANGED reader
  /\ UNCHANGED <<image, cur, frames, segments, out, class>>

MoreIn(name) == reader.pos < End(name) /\ There(reader.pos)

\* mutant: without the code that makes them even
CodeBytes_Unpadded(n) == 2 * n

\* The unwind codes, an even number of them.
CodeBytes(n) == 2 * (n + (n % 2))

\* _pe_read_unwindinfo_funcinfo: behind the codes and the handler.
FuncInfos(unwind) ==
  IF ~There(unwind) \/ ~Item(unwind).handler THEN {}
  ELSE LET handler == unwind + 4 + CodeBytes(Item(unwind).codes) IN
       IF There(handler) /\ There(handler + 4) /\ Item(handler + 4) # 0
       THEN {FromRva(Item(handler + 4))} ELSE {}

\* An entry without a function is passed over.
ExceptionEntry ==
  /\ pc = "exception" /\ MoreIn("exceptions")
  /\ LET e == Item(reader.pos)
         begin == FromRva(e.begin)
         f == {a \in {Normal(begin)} : e.begin # 0}
         infos == IF e.begin # 0 /\ e.unwind # 0 THEN FuncInfos(FromRva(e.unwind)) ELSE {}
     IN  out' = [Function(f) EXCEPT
                   !.thumb = @ \cup {t \in Thumb(begin) : e.begin # 0},
                   !.types = @ \cup Typed({a \in {reader.pos} : e.begin # 0}, "exception")
                               \cup Typed(infos, "funcinfo"),
                   !.names = @ \cup {[addr |-> a, name |-> "exc"] : a \in f}]
  /\ reader' = To(reader, reader.pos + 12)
  /\ UNCHANGED <<image, pc, cur, frames, segments, class>>

ExceptionsDone ==
  /\ pc = "exception" /\ ~MoreIn("exceptions")
  /\ GoTo("debug")
  /\ UNCHANGED <<image, reader, cur, frames, segments, out, class>>

-----------------------------------------------------------------------------
(* The debug directory: where the PDB is.                                  *)

DebugOpen ==
  /\ pc = "debug"
  /\ IF Present("debug") /\ Directory("debug").size # 0
     THEN pc' = "debugentry" /\ reader' = To(reader, DirectoryVa("debug"))
     ELSE GoTo("tls") /\ UNCHANGED reader
  /\ UNCHANGED <<image, cur, frames, segments, out, class>>

\* _pe_read_codeview: the name of the file is behind the record.
PdbNames(e) ==
  LET a == FromRva(e.rva)
      size == IF Item(a) = "RSDS" THEN 24 ELSE 16
  IN  IF e.type = "codeview" /\ e.rva # 0 /\ There(a) /\ Item(a) \in {"NB10", "RSDS"}
      THEN {x \in {a + size} : There(x)} ELSE {}

\* An entry is read, then its place is kept.
DebugSaved(r) == Saved(To(r, r.pos + 28))

DebugEntry ==
  /\ pc = "debugentry" /\ MoreIn("debug")
  /\ LET names == PdbNames(Item(reader.pos)) IN
       out' = [out EXCEPT !.types = @ \cup Typed({reader.pos}, "debug") \cup Typed(names, "char"),
                          !.names = @ \cup {[addr |-> a, name |-> "pdb"] : a \in names}]
  /\ reader' = Restored(DebugSaved(reader))
  /\ UNCHANGED <<image, pc, cur, frames, segments, class>>

DebugDone ==
  /\ pc = "debugentry" /\ ~MoreIn("debug")
  /\ GoTo("tls")
  /\ UNCHANGED <<image, reader, cur, frames, segments, out, class>>

-----------------------------------------------------------------------------
(* TLS callbacks and the handlers of the load configuration.               *)

TlsOpen ==
  /\ pc = "tls"
  /\ LET va == DirectoryVa("tls") IN
       IF Present("tls") /\ There(va)
       THEN /\ out' = [out EXCEPT !.types = @ \cup Typed({va}, "tls"),
                         !.names = @ \cup {[addr |-> a, name |-> "_tls_index"] :
                                            a \in {Item(va).index} \ {0}}]
            /\ pc' = IF Item(va).callbacks # 0 THEN "callback" ELSE "config"
            /\ reader' = To(reader, Item(va).callbacks)
       ELSE GoTo("config") /\ UNCHANGED <<reader, out>>
  /\ cur' = [cur EXCEPT !.i = 0]
  /\ UNCHANGED <<image, frames, segments, class>>

MoreCallbacks ==
  cur.i < MaxCallbacks /\ There(reader.pos) /\ Item(reader.pos) # 0

\* A callback is an address, not an rva.
TlsCallback ==
  /\ pc = "callback" /\ MoreCallbacks
  /\ LET a == Plain(Item(reader.pos)) IN
       out' = [Function({Normal(a)}) EXCEPT
                 !.thumb = @ \cup Thumb(a),
                 !.types = @ \cup Typed({reader.pos}, "pointer"),
                 !.names = @ \cup {[addr |-> Normal(a), name |-> "tls_callback"]}]
  /\ reader' = To(reader, reader.pos + ThunkSize)
  /\ cur' = [cur EXCEPT !.i = @ + 1]
  /\ UNCHANGED <<image, pc, frames, segments, class>>

TlsDone ==
  /\ pc = "callback" /\ ~MoreCallbacks
  /\ GoTo("config")
  /\ UNCHANGED <<image, reader, cur, frames, segments, out, class>>

\* The directory says how much of it there is.
HasHandlers(d) == IsX86 /\ d.size >= (IF Is64 THEN 148 ELSE 72) /\ d.handlers # 0
HasCookie(d) == d.size >= (IF Is64 THEN 112 ELSE 64)

ConfigOpen ==
  /\ pc = "config"
  /\ LET va == DirectoryVa("config") IN
       IF Present("config") /\ Directory("config").size # 0 /\ There(va) /\ Item(va).size >= 4
       THEN LET d == Item(va)
                cookie == IF HasCookie(d) THEN d.cookie ELSE 0
            IN  /\ out' = [out EXCEPT !.types = @ \cup Typed({va}, "config") \cup Typed({cookie}, "cookie"),
                                      !.names = @ \cup {[addr |-> cookie, name |-> "__pe_security_cookie"]}]
                /\ IF HasHandlers(d) THEN pc' = "handler" /\ reader' = To(reader, d.handlers)
                   ELSE GoTo("entrypoint") /\ UNCHANGED reader
       ELSE GoTo("entrypoint") /\ UNCHANGED <<reader, out>>
  /\ cur' = [cur EXCEPT !.i = 0]
  /\ UNCHANGED <<image, frames, segments, class>>

MoreHandlers ==
  cur.i < Item(DirectoryVa("config")).count /\ There(reader.pos)

\* A handler is an rva; there are images in which one is 0.
SEHandler ==
  /\ pc = "handler" /\ MoreHandlers
  /\ LET rva == Item(reader.pos) IN
       out' = [Function({a \in {FromRva(rva)} : rva # 0}) EXCEPT
                 !.types = @ \cup Typed({reader.pos}, "pointer")]
  /\ reader' = To(reader, reader.pos + ThunkSize)
  /\ cur' = [cur EXCEPT !.i = @ + 1]
  /\ UNCHANGED <<image, pc, frames, segments, class>>

ConfigDone ==
  /\ pc = "handler" /\ ~MoreHandlers
  /\ GoTo("entrypoint")
  /\ UNCHANGED <<image, reader, cur, frames, segments, out, class>>

-----------------------------------------------------------------------------
(* The end of pe_load: the entry point and pe_classify, which walks the    *)
(* import descriptors once more.                                           *)

SetEntryPoint ==
  /\ pc = "entrypoint"
  /\ LET a == FromRva(image.entry) IN
       out' = IF image.entry = 0 THEN out
              ELSE [Function({Normal(a)}) EXCEPT !.thumb = @ \cup Thumb(a)]
  /\ IF Present("imports")
     THEN pc' = "classify" /\ reader' = To(reader, DirectoryVa("imports"))
     ELSE pc' = "classified" /\ UNCHANGED reader
  /\ UNCHANGED <<image, cur, frames, segments, class>>

Tells(a) == There(ModuleAt(a)) /\ Item(ModuleAt(a)) \in DOMAIN KindOf

\* The first module that tells the compiler ends the walk.
ClassifyImport ==
  /\ pc = "classify" /\ IsDescriptor(reader.pos)
  /\ IF Tells(reader.pos)
     THEN /\ class' = KindOf[Item(ModuleAt(reader.pos))]
          /\ pc' = "classified"
     ELSE UNCHANGED <<class, pc>>
  /\ reader' = Elsewhere(To(reader, reader.pos + DescriptorSize), ModuleAt(reader.pos))
  /\ UNCHANGED <<image, cur, frames, segments, out>>

ClassifyDone ==
  /\ pc = "classify" /\ ~IsDescriptor(reader.pos)
  /\ pc' = "classified"
  /\ UNCHANGED <<image, reader, cur, frames, segments, out, class>>

\* Without a telling module the rich header decides.
Classified ==
  /\ pc = "classified"
  /\ class' = IF class = "none" /\ image.rich = "visual studio" THEN image.rich ELSE class
  /\ pc' = "loaded"
  /\ UNCHANGED <<image, reader, cur, frames, segments, out>>

-----------------------------------------------------------------------------
Init ==
  /\ image \in Images
  /\ pc = "sections"
  /\ reader = [pos |-> 0, stack |-> <<>>]
  /\ cur = [i |-> 0, va |-> 0, module |-> "", oft |-> 0, ft |-> 0]
  /\ frames = <<>>
  /\ segments = {}
  /\ out = [functions |-> {}, imports |-> {}, exports |-> {}, names |-> {},
            types |-> {}, thumb |-> {}]
  /\ class = "none"

ReadExports == ExportsOpen \/ SkipExport \/ Export \/ ExportsDone
ReadImports == ImportsOpen \/ Descriptor \/ Thunk \/ ThunksDone \/ ImportsDone
ReadResources ==
  \/ ResourcesOpen \/ EnterDirectory \/ NoDirectory
  \/ Subdirectory \/ DataEntry \/ LeaveDirectory
ReadExceptions == ExceptionsOpen \/ ExceptionEntry \/ ExceptionsDone
ReadDebug == DebugOpen \/ DebugEntry \/ DebugDone
ReadTls == TlsOpen \/ TlsCallback \/ TlsDone
ReadConfig == ConfigOpen \/ SEHandler \/ ConfigDone
Classify == ClassifyImport \/ ClassifyDone \/ Classified

Step ==
  \/ MapSection \/ SectionsMapped
  \/ ReadExports \/ ReadImports \/ ReadResources \/ ReadExceptions
  \/ ReadDebug \/ ReadTls \/ ReadConfig \/ SetEntryPoint \/ Classify

Ended == pc \in {"loaded", "rejected"}

Next == Step \/ (Ended /\ UNCHANGED vars)

Spec == Init /\ [][Next]_vars

-----------------------------------------------------------------------------
(* What a load promises.  wants is what was put into the image: per kind   *)
(* of structure what a reader of it has to find; damaged is the directory  *)
(* in which something cannot be read.                                      *)

Loaded == pc = "loaded"
Intact(directory) == Loaded /\ image.damaged # directory

\* Each import is bound once: the slot of the address table gets the module and
\* the name, or ordinal, that its own entry of the lookup table names, also when
\* the address table is bound already or one of the tables is missing; whichever
\* other directory is damaged.
ImportsResolved ==
  /\ out.imports \subseteq image.wants.imports
  /\ Intact("imports") => out.imports = image.wants.imports

\* Each exported function has its own ordinal and its own name: the ordinals
\* need not be sorted, functions may have no name and ordinals no function.
ExportsResolved ==
  Intact("exports") => out.exports = image.wants.exports

\* The functions are the exports that are code, the functions with unwind
\* information, the callbacks, the handlers and the entry point: rvas and
\* addresses are not confused, and a forwarder is text wherever it lies.  On ARM
\* the lowest bit is no part of the address of an unwound function, a callback or
\* the entry point; an export is wanted as the table has it, the bit included.
\* Damage to one directory takes no function from another.
FunctionsFound ==
  Loaded =>
    /\ \A d \in DOMAIN image.wants.functions :
         d # image.damaged => image.wants.functions[d] \subseteq out.functions
    /\ out.functions \subseteq UNION {image.wants.functions[d] : d \in DOMAIN image.wants.functions}
    /\ {t.addr : t \in {u \in out.types : u.type = "funcinfo"}} = image.wants.funcinfos

\* The data of every resource that a tree of three levels holds is found and
\* nothing else, the reader having come back from every level: a directory in
\* itself does not keep the load from what comes behind, and a data entry that
\* cannot be read takes with it only what is behind it in its own directory.
ResourcesFound ==
  Loaded => {n.addr : n \in {m \in out.names : m.name = "rsrc_data"}} = image.wants.resources

=============================================================================
