---------------------------- MODULE PeDirsProofs ----------------------------
(***************************************************************************)
(* What a load of a Portable Executable finds, for images of any size.     *)
(***************************************************************************)
EXTENDS PeDirs, WellFoundedInduction, TLAPS

-----------------------------------------------------------------------------
(* What the steps leave alone.                                             *)

\* The image stays, and records keep their fields.
Shape ==
  /\ image \in Images
  /\ DOMAIN reader = {"pos", "stack"}
  /\ DOMAIN cur = {"i", "va", "module", "oft", "ft"}
  /\ DOMAIN out = {"functions", "imports", "exports", "names", "types", "thumb"}

\* At the start the records have their fields.
LEMMA InitShape ==
  ASSUME Init
  PROVE  Shape
  BY DEF Init, Shape

\* A reader that has moved is still one.
LEMMA Moved ==
  ASSUME NEW r, DOMAIN r = {"pos", "stack"}, NEW a
  PROVE  /\ DOMAIN To(r, a) = {"pos", "stack"}
         /\ To(r, a).pos = a
         /\ To(r, a).stack = r.stack
         /\ DOMAIN Saved(r) = {"pos", "stack"}
         /\ Saved(r).pos = r.pos
         /\ Saved(r).stack = Append(r.stack, r.pos)
         /\ DOMAIN Restored(r) = {"pos", "stack"}
         /\ DOMAIN Elsewhere(r, a) = {"pos", "stack"}
  BY DEF To, Saved, Restored, Elsewhere

\* The image is never changed.
LEMMA ImageStays ==
  ASSUME [Next]_vars
  PROVE  image' = image
  BY DEF Next, vars, Step, MapSection, SectionsMapped, ReadExports, ReadImports, ReadResources,
         ReadExceptions, ReadDebug, ReadTls, ReadConfig, SetEntryPoint, Classify,
         ExportsOpen, SkipExport, Export, ExportsDone,
         ImportsOpen, Descriptor, Thunk, ThunksDone, ImportsDone,
         ResourcesOpen, EnterDirectory, NoDirectory, Subdirectory, DataEntry, LeaveDirectory,
         ExceptionsOpen, ExceptionEntry, ExceptionsDone, DebugOpen, DebugEntry, DebugDone,
         TlsOpen, TlsCallback, TlsDone, ConfigOpen, SEHandler, ConfigDone,
         ClassifyImport, ClassifyDone, Classified

-----------------------------------------------------------------------------
(* What each step does to the records.                                     *)

\* The functions that unwind information names.
Infos(o) == {t.addr : t \in {u \in o.types : u.type = "funcinfo"}}

\* Nothing is found.
Quiet ==
  /\ out'.functions = out.functions
  /\ out'.imports = out.imports
  /\ out'.exports = out.exports
  /\ Infos(out') = Infos(out)

\* What is typed has the type.
LEMMA TypeOfTyped ==
  ASSUME NEW as, NEW ty, NEW u \in Typed(as, ty)
  PROVE  u.type = ty
  <1>1. PICK a \in as : u = [addr |-> a, type |-> ty]
    BY DEF Typed
  <1>2. [addr |-> a, type |-> ty].type = ty
    OBVIOUS
  <1>. QED BY <1>1, <1>2

\* Of the types only the functions of unwind information matter.
LEMMA OtherTypes ==
  ASSUME NEW o, NEW p, NEW as, NEW type, type # "funcinfo",
         p.types = o.types \cup Typed(as, type)
  PROVE  Infos(p) = Infos(o)
  <1>1. \A u \in Typed(as, type) : u.type # "funcinfo"
    BY TypeOfTyped
  <1>2. {u \in p.types : u.type = "funcinfo"} = {u \in o.types : u.type = "funcinfo"}
    BY <1>1
  <1>. QED BY <1>2, Zenon DEF Infos

\* The same for two types.
LEMMA OtherTypes2 ==
  ASSUME NEW o, NEW p, NEW as, NEW bs, NEW type, NEW also,
         type # "funcinfo", also # "funcinfo",
         p.types = o.types \cup Typed(as, type) \cup Typed(bs, also)
  PROVE  Infos(p) = Infos(o)
  <1>1. \A u \in Typed(as, type) : u.type # "funcinfo"
    BY TypeOfTyped
  <1>2. \A u \in Typed(bs, also) : u.type # "funcinfo"
    BY TypeOfTyped
  <1>3. {u \in p.types : u.type = "funcinfo"} = {u \in o.types : u.type = "funcinfo"}
    BY <1>1, <1>2
  <1>. QED BY <1>3, Zenon DEF Infos

\* What is put into a record comes out of it.
LEMMA Updated ==
  ASSUME NEW o, DOMAIN o = DOMAIN out, Shape,
         NEW f, NEW i, NEW e, NEW n, NEW t, NEW h
  PROVE  /\ LET p == [o EXCEPT !.exports = e, !.types = t, !.functions = f] IN
              /\ DOMAIN p = DOMAIN out
              /\ p.exports = e /\ p.types = t /\ p.functions = f /\ p.imports = o.imports
         /\ LET p == [o EXCEPT !.imports = i, !.types = t] IN
              /\ DOMAIN p = DOMAIN out
              /\ p.imports = i /\ p.types = t /\ p.exports = o.exports /\ p.functions = o.functions
         /\ LET p == [o EXCEPT !.types = t, !.names = n] IN
              /\ DOMAIN p = DOMAIN out
              /\ p.types = t /\ p.imports = o.imports /\ p.exports = o.exports
              /\ p.functions = o.functions
         /\ LET p == [o EXCEPT !.thumb = h, !.types = t, !.names = n] IN
              /\ DOMAIN p = DOMAIN out
              /\ p.types = t /\ p.imports = o.imports /\ p.exports = o.exports
              /\ p.functions = o.functions
         /\ LET p == [o EXCEPT !.types = t] IN
              /\ DOMAIN p = DOMAIN out
              /\ p.types = t /\ p.imports = o.imports /\ p.exports = o.exports
              /\ p.functions = o.functions
         /\ LET p == [o EXCEPT !.functions = f] IN
              /\ DOMAIN p = DOMAIN out
              /\ p.functions = f /\ p.imports = o.imports /\ p.exports = o.exports
              /\ p.types = o.types
         /\ LET p == [o EXCEPT !.thumb = h] IN
              /\ DOMAIN p = DOMAIN out
              /\ p.functions = o.functions /\ p.imports = o.imports /\ p.exports = o.exports
              /\ p.types = o.types
  BY DEF Shape

\* What is left as it is.
LEMMA SameOut ==
  ASSUME Shape, out' = out
  PROVE  Quiet /\ DOMAIN out' = DOMAIN out
  BY Zenon DEF Quiet

\* A type of the structures, and names.
LEMMA MoreTypes ==
  ASSUME Shape, NEW as, NEW ty, ty # "funcinfo", NEW n,
         \/ out' = [out EXCEPT !.types = @ \cup Typed(as, ty)]
         \/ out' = [out EXCEPT !.types = @ \cup Typed(as, ty), !.names = n]
  PROVE  Quiet /\ DOMAIN out' = DOMAIN out
  <1> DEFINE t == out.types \cup Typed(as, ty)
             p == [out EXCEPT !.types = t]
             q == [out EXCEPT !.types = t, !.names = n]
  <1>1. /\ DOMAIN p = DOMAIN out /\ p.types = t /\ p.imports = out.imports
        /\ p.exports = out.exports /\ p.functions = out.functions
    BY Updated
  <1>2. /\ DOMAIN q = DOMAIN out /\ q.types = t /\ q.imports = out.imports
        /\ q.exports = out.exports /\ q.functions = out.functions
    BY Updated
  <1>3. out' = p \/ out' = q
    OBVIOUS
  <1> HIDE DEF p, q
  <1>4. Infos(out') = Infos(out)
    <2>1. out'.types = t
      BY <1>1, <1>2, <1>3
    <2>. QED BY <2>1, OtherTypes, Zenon
  <1>. QED BY <1>1, <1>2, <1>3, <1>4 DEF Quiet

\* Two types of the structures, and names.
LEMMA MoreTypes2 ==
  ASSUME Shape, NEW as, NEW bs, NEW ty, NEW also, ty # "funcinfo", also # "funcinfo", NEW n,
         \/ out' = [out EXCEPT !.types = @ \cup Typed(as, ty) \cup Typed(bs, also)]
         \/ out' = [out EXCEPT !.types = @ \cup Typed(as, ty) \cup Typed(bs, also), !.names = n]
  PROVE  Quiet /\ DOMAIN out' = DOMAIN out
  <1> DEFINE t == out.types \cup Typed(as, ty) \cup Typed(bs, also)
             p == [out EXCEPT !.types = t]
             q == [out EXCEPT !.types = t, !.names = n]
  <1>1. /\ DOMAIN p = DOMAIN out /\ p.types = t /\ p.imports = out.imports
        /\ p.exports = out.exports /\ p.functions = out.functions
    BY Updated
  <1>2. /\ DOMAIN q = DOMAIN out /\ q.types = t /\ q.imports = out.imports
        /\ q.exports = out.exports /\ q.functions = out.functions
    BY Updated
  <1>3. out' = p \/ out' = q
    OBVIOUS
  <1> HIDE DEF p, q
  <1>4. Infos(out') = Infos(out)
    <2>1. out'.types = t
      BY <1>1, <1>2, <1>3
    <2>2. ty # "funcinfo" /\ also # "funcinfo"
      OBVIOUS
    <2>. QED BY ONLY <2>1, <2>2, OtherTypes2
  <1>. QED BY <1>1, <1>2, <1>3, <1>4 DEF Quiet

\* The header of the exports.
LEMMA ExportsOpenEffect ==
  ASSUME Shape, ExportsOpen
  PROVE  /\ Shape' /\ Quiet
         /\ cur'.i = 0
         /\ LET va == DirectoryVa("exports") IN
              IF Present("exports") /\ There(va) /\ 0 \notin {Item(va).functions, Item(va).names, Item(va).ordinals}
              THEN pc' = "export" /\ reader'.pos = FromRva(Item(va).functions)
              ELSE pc' = "imports"
  <1> DEFINE va == DirectoryVa("exports")
  <1>1. Quiet /\ DOMAIN out' = DOMAIN out
    <2>1. CASE Present("exports") /\ There(va)
      <3>1. out' = [out EXCEPT !.types = @ \cup Typed({va}, "exports")]
        BY <2>1 DEF ExportsOpen
      <3>. QED BY <3>1, MoreTypes
    <2>2. CASE ~(Present("exports") /\ There(va))
      BY <2>2, SameOut DEF ExportsOpen
    <2>. QED BY <2>1, <2>2
  <1>2. DOMAIN reader' = DOMAIN reader /\ DOMAIN cur' = DOMAIN cur /\ cur'.i = 0 /\ image' = image
    BY Moved DEF ExportsOpen, Shape
  <1>3. CASE Present("exports") /\ There(va)
    BY <1>1, <1>2, <1>3, Moved DEF ExportsOpen, Shape, GoTo
  <1>4. CASE ~(Present("exports") /\ There(va))
    BY <1>1, <1>2, <1>4 DEF ExportsOpen, Shape, GoTo
  <1>. QED BY <1>3, <1>4

\* An entry of the exports.
LEMMA ExportEffect ==
  ASSUME Shape, Export
  PROVE  /\ Shape'
         /\ out'.imports = out.imports
         /\ Infos(out') = Infos(out)
         /\ reader'.pos = reader.pos + 4
         /\ cur'.i = cur.i + 1
         /\ out'.exports = out.exports \cup
              {[addr |-> FromRva(Item(reader.pos)), ord |-> ExportTables.base + cur.i,
                name |-> ExportName(cur.i)]}
         /\ out'.functions = out.functions \cup
              {x \in {FromRva(Item(reader.pos))} :
                 /\ ~IsForwarder(Item(reader.pos))
                 /\ Executable(FromRva(Item(reader.pos)))
                 /\ ExportName(cur.i) \notin Boundaries}
  <1> DEFINE rva == Item(reader.pos)
             a == FromRva(rva)
             name == ExportName(cur.i)
             e == out.exports \cup {[addr |-> a, ord |-> ExportTables.base + cur.i, name |-> name]}
             as == {x \in {a} : IsForwarder(rva) /\ There(a)}
             t == out.types \cup Typed(as, "char")
             f == out.functions \cup {x \in {a} : ~IsForwarder(rva) /\ Executable(a) /\ name \notin Boundaries}
             p == [out EXCEPT !.exports = e, !.types = t, !.functions = f]
             behind == To(reader, reader.pos + 4)
             ordinals == FromRva(ExportTables.ordinals)
             r == Elsewhere(behind, ordinals)
  <1>1. out' = p
    BY DEF Export
  <1>2. reader' = To(r, reader.pos + 4)
    BY DEF Export
  <1>3. /\ DOMAIN p = DOMAIN out
        /\ p.exports = e /\ p.types = t /\ p.functions = f /\ p.imports = out.imports
    BY Updated
  <1>4. DOMAIN cur' = DOMAIN cur /\ cur'.i = cur.i + 1 /\ image' = image
    BY DEF Export, Shape
  <1>5. DOMAIN behind = {"pos", "stack"}
    BY Moved DEF Shape
  <1>6. DOMAIN r = {"pos", "stack"}
    <2> HIDE DEF behind, ordinals
    <2>. QED BY <1>5, Moved
  <1> HIDE DEF r, p
  <1>7. DOMAIN reader' = {"pos", "stack"} /\ reader'.pos = reader.pos + 4
    BY <1>2, <1>6, Moved
  <1> HIDE DEF t, e, f
  <1>8. Infos(out') = Infos(out)
    <2>1. out'.types = out.types \cup Typed(as, "char")
      BY <1>1, <1>3 DEF t
    <2> HIDE DEF as
    <2>. QED BY <2>1, OtherTypes
  <1>9. out'.exports = e /\ out'.functions = f /\ out'.imports = out.imports /\ DOMAIN out' = DOMAIN out
    BY <1>1, <1>3, Zenon
  <1>10. Shape'
    BY <1>4, <1>7, <1>9 DEF Shape
  <1>. QED BY <1>4, <1>7, <1>8, <1>9, <1>10, Zenon DEF e, f

\* Nothing but the place in the program changes.
LEMMA IdleEffect ==
  ASSUME Shape, UNCHANGED <<image, reader, cur, out>>
  PROVE  Shape' /\ Quiet
  BY SameOut DEF Shape

\* What is told leaves the records.
LEMMA ShapeBy ==
  ASSUME Shape, image' = image,
         DOMAIN reader' = DOMAIN reader, DOMAIN cur' = DOMAIN cur, DOMAIN out' = DOMAIN out
  PROVE  Shape'
  BY DEF Shape

\* A function that is not there.
LEMMA SkipExportEffect ==
  ASSUME Shape, SkipExport
  PROVE  Shape' /\ Quiet /\ reader'.pos = reader.pos + 4 /\ cur'.i = cur.i + 1
  <1>1. out' = out /\ image' = image /\ DOMAIN cur' = DOMAIN cur /\ cur'.i = cur.i + 1
    BY DEF SkipExport, Shape
  <1>2. DOMAIN reader' = DOMAIN reader /\ reader'.pos = reader.pos + 4
    BY Moved DEF SkipExport, Shape
  <1>. QED BY <1>1, <1>2, SameOut, ShapeBy

\* The table of descriptors.
LEMMA ImportsOpenEffect ==
  ASSUME Shape, ImportsOpen
  PROVE  Shape' /\ Quiet
  <1>1. out' = out /\ image' = image /\ DOMAIN cur' = DOMAIN cur
    BY DEF ImportsOpen, Shape
  <1>2. DOMAIN reader' = DOMAIN reader
    BY Moved DEF ImportsOpen, Shape
  <1>. QED BY <1>1, <1>2, SameOut, ShapeBy

\* A descriptor.
LEMMA DescriptorEffect ==
  ASSUME Shape, Descriptor
  PROVE  /\ Shape' /\ Quiet
         /\ LET d == Item(reader.pos)
                behind == To(reader, reader.pos + DescriptorSize)
            IN  IF There(FromRva(d.name))
                THEN /\ pc' = "thunk"
                     /\ reader'.stack = Append(reader.stack, reader.pos + DescriptorSize)
                     /\ cur'.module = Item(FromRva(d.name))
                     /\ cur'.oft = FromRva(LookupTable(d))
                     /\ cur'.ft = FromRva(AddressTable(d))
                ELSE pc' = "descriptor" /\ reader' = Elsewhere(behind, FromRva(d.name))
  <1> DEFINE d == Item(reader.pos)
             behind == To(reader, reader.pos + DescriptorSize)
             name == FromRva(d.name)
             table == FromRva(AddressTable(d))
             lookup == FromRva(LookupTable(d))
             saved == Saved(behind)
  <1>1. Quiet /\ DOMAIN out' = DOMAIN out
    <2>1. out' = [out EXCEPT !.types = @ \cup Typed({cur.va}, "descriptor")]
      BY DEF Descriptor
    <2>. QED BY <2>1, MoreTypes
  <1>2. image' = image
    BY DEF Descriptor
  <1>3. /\ DOMAIN behind = {"pos", "stack"} /\ behind.pos = reader.pos + DescriptorSize
        /\ behind.stack = reader.stack
    BY Moved DEF Shape
  <1>4. CASE There(name)
    <2>1. pc' = "thunk" /\ reader' = To(saved, table)
      BY <1>4 DEF Descriptor
    <2>2. cur' = [cur EXCEPT !.module = Item(name), !.oft = lookup, !.ft = table]
      BY <1>4 DEF Descriptor
    <2> HIDE DEF behind, table, lookup, name
    <2>3. DOMAIN saved = {"pos", "stack"} /\ saved.stack = Append(behind.stack, behind.pos)
      BY <1>3, Moved
    <2> HIDE DEF saved
    <2>4. DOMAIN reader' = {"pos", "stack"} /\ reader'.stack = saved.stack
      BY <2>1, <2>3, Moved
    <2>5. /\ DOMAIN cur' = DOMAIN cur /\ cur'.module = Item(name)
          /\ cur'.oft = lookup /\ cur'.ft = table
      BY <2>2 DEF Shape
    <2>6. DOMAIN reader' = DOMAIN reader
      BY <2>4 DEF Shape
    <2>7. Shape'
      BY <1>1, <1>2, <2>5, <2>6, ShapeBy
    <2>8. reader'.stack = Append(reader.stack, reader.pos + DescriptorSize)
      BY <1>3, <2>3, <2>4
    <2>. QED BY <1>1, <1>4, <2>1, <2>5, <2>7, <2>8 DEF name, table, lookup
  <1>5. CASE ~There(name)
    <2>1. pc' = pc /\ pc = "descriptor" /\ reader' = Elsewhere(behind, name)
      BY <1>5 DEF Descriptor
    <2>2. DOMAIN cur' = DOMAIN cur
      BY <1>5 DEF Descriptor, Shape
    <2>3. DOMAIN reader' = DOMAIN reader
      <3> HIDE DEF behind, name
      <3>. QED BY <1>3, <2>1, Moved DEF Shape
    <2>4. Shape'
      BY <1>1, <1>2, <2>2, <2>3, ShapeBy
    <2>. QED BY <1>1, <1>5, <2>1, <2>4
  <1>. QED BY <1>4, <1>5

\* A thunk.
LEMMA ThunkEffect ==
  ASSUME Shape, Thunk
  PROVE  /\ Shape'
         /\ out'.exports = out.exports /\ out'.functions = out.functions
         /\ Infos(out') = Infos(out)
         /\ reader'.stack = reader.stack
         /\ cur'.module = cur.module
         /\ cur'.oft = cur.oft + ThunkSize /\ cur'.ft = cur.ft + ThunkSize
         /\ out'.imports = out.imports \cup
              {[addr |-> cur.ft, module |-> cur.module,
                ord |-> Imported(Item(cur.oft)).ord, name |-> Imported(Item(cur.oft)).name]}
  <1> DEFINE what == Imported(Item(cur.oft))
             i == out.imports \cup {[addr |-> cur.ft, module |-> cur.module,
                                     ord |-> what.ord, name |-> what.name]}
             as == {cur.oft}
             bs == {cur.ft}
             t == out.types \cup Typed(as, "pointer") \cup Typed(bs, "function")
             p == [out EXCEPT !.imports = i, !.types = t]
  <1>1. out' = p
    BY DEF Thunk
  <1>2. /\ DOMAIN p = DOMAIN out
        /\ p.imports = i /\ p.types = t /\ p.exports = out.exports /\ p.functions = out.functions
    BY Updated
  <1> HIDE DEF p
  <1>3. Infos(out') = Infos(out)
    <2>1. out'.types = t
      BY <1>1, <1>2
    <2>2. "pointer" # "funcinfo" /\ "function" # "funcinfo"
      OBVIOUS
    <2>. QED BY ONLY <2>1, <2>2, OtherTypes2
  <1>4. image' = image /\ reader' = To(reader, cur.ft)
    BY DEF Thunk
  <1>5. DOMAIN reader' = DOMAIN reader /\ reader'.stack = reader.stack
    BY <1>4, Moved DEF Shape
  <1>6. /\ DOMAIN cur' = DOMAIN cur /\ cur'.module = cur.module
        /\ cur'.oft = cur.oft + ThunkSize /\ cur'.ft = cur.ft + ThunkSize
    BY DEF Thunk, Shape
  <1>7. DOMAIN out' = DOMAIN out /\ out'.imports = i /\ out'.exports = out.exports
        /\ out'.functions = out.functions
    BY <1>1, <1>2
  <1> HIDE DEF i
  <1>8. Shape'
    BY <1>4, <1>5, <1>6, <1>7, ShapeBy
  <1>. QED BY <1>3, <1>5, <1>6, <1>7, <1>8, Zenon DEF i

\* The end of the thunks.
LEMMA ThunksDoneEffect ==
  ASSUME Shape, ThunksDone
  PROVE  Shape' /\ Quiet /\ reader' = Restored(reader)
  <1>1. image' = image /\ reader' = Restored(reader) /\ DOMAIN cur' = DOMAIN cur
    BY DEF ThunksDone, Shape
  <1>2. DOMAIN reader' = DOMAIN reader
    BY <1>1, Moved DEF Shape
  <1> DEFINE as == IF ThunkReadable THEN {cur.oft, cur.ft} ELSE {}
  <1>3. out' = [out EXCEPT !.types = @ \cup Typed(as, "thunk")]
    BY DEF ThunksDone, Typed
  <1>4. Quiet /\ DOMAIN out' = DOMAIN out
    <2> HIDE DEF as
    <2>1. "thunk" # "funcinfo"
      OBVIOUS
    <2>. QED BY <1>3, <2>1, MoreTypes
  <1>. QED BY <1>1, <1>2, <1>4, ShapeBy

\* The root of the resources.
LEMMA ResourcesOpenEffect ==
  ASSUME Shape, ResourcesOpen
  PROVE  Shape' /\ Quiet
  <1>1. out' = out /\ image' = image /\ DOMAIN cur' = DOMAIN cur /\ reader' = reader
    BY DEF ResourcesOpen, Shape
  <1>. QED BY <1>1, SameOut, ShapeBy

\* The caller's reader is one.
LEMMA ResumedReader ==
  ASSUME NEW r, DOMAIN r = {"pos", "stack"}, NEW callers, Resume(r, callers)
  PROVE  DOMAIN reader' = {"pos", "stack"} /\ pc' \in {"exceptions", "entry"}
  <1>1. CASE callers = <<>>
    BY <1>1 DEF Resume, GoTo
  <1>2. CASE callers # <<>>
    BY <1>2, Moved DEF Resume
  <1>. QED BY <1>1, <1>2

\* A directory of resources begins.
LEMMA EnterDirectoryEffect ==
  ASSUME Shape, EnterDirectory
  PROVE  Shape' /\ Quiet
  <1>1. image' = image /\ cur' = cur /\ reader' = To(reader, cur.va + 16)
    BY DEF EnterDirectory
  <1>2. DOMAIN reader' = DOMAIN reader
    BY <1>1, Moved DEF Shape
  <1>3. out' = [out EXCEPT !.types = @ \cup Typed({cur.va}, "directory")]
    BY DEF EnterDirectory
  <1>4. Quiet /\ DOMAIN out' = DOMAIN out
    BY <1>3, MoreTypes
  <1>. QED BY <1>1, <1>2, <1>4, ShapeBy

\* A directory that is none, or the end of one.
LEMMA LeaveDirectoryEffect ==
  ASSUME Shape, NoDirectory \/ LeaveDirectory
  PROVE  Shape' /\ Quiet /\ pc' \in {"exceptions", "entry"}
  <1>1. image' = image /\ cur' = cur /\ out' = out
    BY DEF NoDirectory, LeaveDirectory
  <1>2. PICK callers : Resume(reader, callers)
    BY Zenon DEF NoDirectory, LeaveDirectory
  <1>3. DOMAIN reader' = DOMAIN reader /\ pc' \in {"exceptions", "entry"}
    BY <1>2, ResumedReader DEF Shape
  <1>. QED BY <1>1, <1>3, SameOut, ShapeBy

\* A directory in a directory.
LEMMA SubdirectoryEffect ==
  ASSUME Shape, Subdirectory
  PROVE  Shape' /\ Quiet
  <1> DEFINE behind == To(reader, reader.pos + 8)
  <1>1. image' = image /\ reader' = Saved(behind) /\ DOMAIN cur' = DOMAIN cur
    BY DEF Subdirectory, Shape
  <1>2. DOMAIN behind = {"pos", "stack"}
    BY Moved DEF Shape
  <1>3. DOMAIN reader' = DOMAIN reader
    <2> HIDE DEF behind
    <2>. QED BY <1>1, <1>2, Moved DEF Shape
  <1>4. out' = [out EXCEPT !.types = @ \cup Typed({Frame.entry}, "directory entry")]
    BY DEF Subdirectory, EntryTypes
  <1>5. Quiet /\ DOMAIN out' = DOMAIN out
    BY <1>4, MoreTypes
  <1>. QED BY <1>1, <1>3, <1>5, ShapeBy

\* The data of a resource.
LEMMA DataEntryEffect ==
  ASSUME Shape, DataEntry
  PROVE  Shape' /\ Quiet /\ pc' \in {"exceptions", "entry"}
  <1> DEFINE a == ResourceBase + Item(reader.pos).off
             next == To(reader, reader.pos + 8)
             behind == Elsewhere(next, a)
             named == IF There(a) /\ Item(a).rva # 0 /\ Item(a).size # 0
                      THEN {[addr |-> FromRva(Item(a).rva), name |-> "rsrc_data"]} ELSE {}
  <1>1. image' = image /\ cur' = cur
    BY DEF DataEntry
  <1>2. DOMAIN next = {"pos", "stack"}
    BY Moved DEF Shape
  <1>3. DOMAIN behind = {"pos", "stack"}
    <2> HIDE DEF next, a
    <2>. QED BY <1>2, Moved
  <1>4. \/ reader' = behind /\ pc' = "entry"
        \/ Resume(behind, Front(frames))
    BY DEF DataEntry
  <1>5. out' = [out EXCEPT !.types = @ \cup Typed({Frame.entry}, "directory entry")
                                       \cup Typed({a}, "data entry"),
                           !.names = @ \cup named]
    BY DEF DataEntry, EntryTypes
  <1> HIDE DEF behind, named, a
  <1>6. DOMAIN reader' = DOMAIN reader /\ pc' \in {"exceptions", "entry"}
    BY <1>3, <1>4, ResumedReader DEF Shape
  <1>7. Quiet /\ DOMAIN out' = DOMAIN out
    <2> DEFINE n == out.names \cup named
    <2>1. out' = [out EXCEPT !.types = out.types \cup Typed({Frame.entry}, "directory entry")
                                       \cup Typed({a}, "data entry"),
                             !.names = n]
      BY <1>5
    <2>2. "directory entry" # "funcinfo" /\ "data entry" # "funcinfo"
      OBVIOUS
    <2> HIDE DEF n
    <2>. QED BY <2>1, <2>2, MoreTypes2
  <1>. QED BY <1>1, <1>6, <1>7, ShapeBy

\* The tables of functions and of debug entries.
LEMMA OpenEffect ==
  ASSUME Shape, ExceptionsOpen \/ DebugOpen
  PROVE  Shape' /\ Quiet
  <1>1. out' = out /\ image' = image /\ cur' = cur
    BY DEF ExceptionsOpen, DebugOpen
  <1>2. DOMAIN reader' = DOMAIN reader
    BY Moved DEF ExceptionsOpen, DebugOpen, Shape
  <1>. QED BY <1>1, <1>2, SameOut, ShapeBy

\* An entry of the debug directory.
LEMMA DebugEntryEffect ==
  ASSUME Shape, DebugEntry
  PROVE  Shape' /\ Quiet /\ pc' = pc
  <1> DEFINE names == PdbNames(Item(reader.pos))
             n == out.names \cup {[addr |-> a, name |-> "pdb"] : a \in names}
             saved == DebugSaved(reader)
  <1>1. image' = image /\ cur' = cur /\ reader' = Restored(saved) /\ pc' = pc
    BY DEF DebugEntry
  <1>2. DOMAIN reader' = DOMAIN reader
    BY <1>1 DEF Shape, Restored
  <1>3. out' = [out EXCEPT !.types = out.types \cup Typed({reader.pos}, "debug") \cup Typed(names, "char"),
                           !.names = n]
    BY DEF DebugEntry
  <1>4. Quiet /\ DOMAIN out' = DOMAIN out
    <2>1. "debug" # "funcinfo" /\ "char" # "funcinfo"
      OBVIOUS
    <2> HIDE DEF n, names
    <2>. QED BY <1>3, <2>1, MoreTypes2
  <1>. QED BY <1>1, <1>2, <1>4, ShapeBy

\* Unwind information names functions.
LEMMA MoreInfos ==
  ASSUME NEW o, NEW p, NEW as, NEW bs,
         p.types = o.types \cup Typed(as, "exception") \cup Typed(bs, "funcinfo")
  PROVE  Infos(p) = Infos(o) \cup bs
  <1> DEFINE P == {u \in p.types : u.type = "funcinfo"}
             O == {u \in o.types : u.type = "funcinfo"}
  <1>1. \A u \in Typed(as, "exception") : u.type # "funcinfo"
    BY TypeOfTyped
  <1>2. \A u \in Typed(bs, "funcinfo") : u.type = "funcinfo"
    BY TypeOfTyped
  <1>3. P = O \cup Typed(bs, "funcinfo")
    BY <1>1, <1>2
  <1>4. {t.addr : t \in P} = {t.addr : t \in O} \cup {t.addr : t \in Typed(bs, "funcinfo")}
    <2> HIDE DEF P, O
    <2>. QED BY <1>3
  <1>5. {t.addr : t \in Typed(bs, "funcinfo")} = bs
    <2>1. \A x \in bs : [addr |-> x, type |-> "funcinfo"].addr = x
      OBVIOUS
    <2>. QED BY <2>1 DEF Typed
  <1>. QED BY <1>4, <1>5 DEF Infos

\* An entry of the table of functions.
LEMMA ExceptionEntryEffect ==
  ASSUME Shape, ExceptionEntry
  PROVE  /\ Shape'
         /\ out'.imports = out.imports /\ out'.exports = out.exports
         /\ reader'.pos = reader.pos + 12
         /\ LET e == Item(reader.pos) IN
              /\ out'.functions = out.functions \cup {a \in {Normal(FromRva(e.begin))} : e.begin # 0}
              /\ Infos(out') = Infos(out) \cup
                   IF e.begin # 0 /\ e.unwind # 0 THEN FuncInfos(FromRva(e.unwind)) ELSE {}
  <1> DEFINE e == Item(reader.pos)
             f == {a \in {Normal(FromRva(e.begin))} : e.begin # 0}
             infos == IF e.begin # 0 /\ e.unwind # 0 THEN FuncInfos(FromRva(e.unwind)) ELSE {}
             o == Function(f)
             h == o.thumb \cup {t \in Thumb(FromRva(e.begin)) : e.begin # 0}
             as == {a \in {reader.pos} : e.begin # 0}
             t == o.types \cup Typed(as, "exception") \cup Typed(infos, "funcinfo")
             n == o.names \cup {[addr |-> a, name |-> "exc"] : a \in f}
             p == [o EXCEPT !.thumb = h, !.types = t, !.names = n]
             fs == out.functions \cup f
  <1>1. out' = p
    BY DEF ExceptionEntry
  <1>2. image' = image /\ cur' = cur /\ reader' = To(reader, reader.pos + 12)
    BY DEF ExceptionEntry
  <1>3. DOMAIN reader' = DOMAIN reader /\ reader'.pos = reader.pos + 12
    BY <1>2, Moved DEF Shape
  <1>4. o = [out EXCEPT !.functions = fs]
    BY DEF Function
  <1> HIDE DEF o, h, n, infos, f
  <1>5. /\ DOMAIN o = DOMAIN out
        /\ o.functions = fs /\ o.imports = out.imports /\ o.exports = out.exports
        /\ o.types = out.types
    <2> HIDE DEF fs
    <2>. QED BY <1>4, Updated
  <1>6. /\ DOMAIN p = DOMAIN out
        /\ p.types = t /\ p.imports = o.imports /\ p.exports = o.exports
        /\ p.functions = o.functions
    <2> HIDE DEF t
    <2>. QED BY <1>5, Updated
  <1> HIDE DEF p, t
  <1>7. Infos(out') = Infos(out) \cup infos
    <2>1. out'.types = out.types \cup Typed(as, "exception") \cup Typed(infos, "funcinfo")
      BY <1>1, <1>5, <1>6 DEF t
    <2>2. \A xs, bs : out'.types = out.types \cup Typed(xs, "exception") \cup Typed(bs, "funcinfo")
                       => Infos(out') = Infos(out) \cup bs
      BY MoreInfos
    <2>. QED BY ONLY <2>1, <2>2
  <1>8. DOMAIN out' = DOMAIN out /\ out'.imports = out.imports /\ out'.exports = out.exports
        /\ out'.functions = fs
    BY <1>1, <1>5, <1>6
  <1> HIDE DEF fs
  <1>9. Shape'
    BY <1>2, <1>3, <1>8, ShapeBy
  <1>. QED BY <1>3, <1>7, <1>8, <1>9, Zenon DEF fs, f, infos

\* The header of the callbacks.
LEMMA TlsOpenEffect ==
  ASSUME Shape, TlsOpen
  PROVE  /\ Shape' /\ Quiet
         /\ cur'.i = 0
         /\ LET va == DirectoryVa("tls") IN
              IF Present("tls") /\ There(va) /\ Item(va).callbacks # 0
              THEN pc' = "callback" /\ reader'.pos = Item(va).callbacks
              ELSE pc' = "config"
  <1> DEFINE va == DirectoryVa("tls")
             callbacks == Item(va).callbacks
             n == out.names \cup {[addr |-> a, name |-> "_tls_index"] : a \in {Item(va).index} \ {0}}
  <1>1. image' = image /\ DOMAIN cur' = DOMAIN cur /\ cur'.i = 0
    BY DEF TlsOpen, Shape
  <1>2. CASE Present("tls") /\ There(va)
    <2>1. out' = [out EXCEPT !.types = out.types \cup Typed({va}, "tls"), !.names = n]
      BY <1>2 DEF TlsOpen
    <2>2. pc' = (IF callbacks # 0 THEN "callback" ELSE "config") /\ reader' = To(reader, callbacks)
      BY <1>2 DEF TlsOpen
    <2>3. DOMAIN reader' = DOMAIN reader /\ reader'.pos = callbacks
      <3> HIDE DEF callbacks
      <3>. QED BY <2>2, Moved DEF Shape
    <2>4. Quiet /\ DOMAIN out' = DOMAIN out
      <3>1. "tls" # "funcinfo"
        OBVIOUS
      <3> HIDE DEF n
      <3>. QED BY <2>1, <3>1, MoreTypes
    <2>5. Shape'
      BY <1>1, <2>3, <2>4, ShapeBy
    <2>. QED BY <1>1, <1>2, <2>2, <2>3, <2>4, <2>5
  <1>3. CASE ~(Present("tls") /\ There(va))
    <2>1. pc' = "config" /\ reader' = reader /\ out' = out
      BY <1>3 DEF TlsOpen, GoTo
    <2>2. Shape' /\ Quiet
      BY <1>1, <2>1, SameOut, ShapeBy
    <2>. QED BY <1>1, <1>3, <2>1, <2>2
  <1>. QED BY <1>2, <1>3

\* A callback.
LEMMA TlsCallbackEffect ==
  ASSUME Shape, TlsCallback
  PROVE  /\ Shape'
         /\ out'.imports = out.imports /\ out'.exports = out.exports
         /\ Infos(out') = Infos(out)
         /\ reader'.pos = reader.pos + ThunkSize
         /\ cur'.i = cur.i + 1
         /\ out'.functions = out.functions \cup {Normal(Plain(Item(reader.pos)))}
  <1> DEFINE c == Plain(Item(reader.pos))
             f == {Normal(c)}
             o == Function(f)
             h == o.thumb \cup Thumb(c)
             as == {reader.pos}
             t == o.types \cup Typed(as, "pointer")
             n == o.names \cup {[addr |-> Normal(c), name |-> "tls_callback"]}
             p == [o EXCEPT !.thumb = h, !.types = t, !.names = n]
             fs == out.functions \cup f
  <1>1. out' = p
    BY DEF TlsCallback
  <1>2. /\ image' = image /\ reader' = To(reader, reader.pos + ThunkSize)
        /\ DOMAIN cur' = DOMAIN cur /\ cur'.i = cur.i + 1
    BY DEF TlsCallback, Shape
  <1>3. DOMAIN reader' = DOMAIN reader /\ reader'.pos = reader.pos + ThunkSize
    BY <1>2, Moved DEF Shape
  <1>4. o = [out EXCEPT !.functions = fs]
    BY DEF Function
  <1> HIDE DEF o, h, n, f
  <1>5. /\ DOMAIN o = DOMAIN out
        /\ o.functions = fs /\ o.imports = out.imports /\ o.exports = out.exports
        /\ o.types = out.types
    <2> HIDE DEF fs
    <2>. QED BY <1>4, Updated
  <1>6. /\ DOMAIN p = DOMAIN out
        /\ p.types = t /\ p.imports = o.imports /\ p.exports = o.exports
        /\ p.functions = o.functions
    <2> HIDE DEF t
    <2>. QED BY <1>5, Updated
  <1> HIDE DEF p, t
  <1>7. Infos(out') = Infos(out)
    <2>1. out'.types = out.types \cup Typed(as, "pointer")
      BY <1>1, <1>5, <1>6 DEF t
    <2>2. "pointer" # "funcinfo"
      OBVIOUS
    <2>. QED BY ONLY <2>1, <2>2, OtherTypes
  <1>8. DOMAIN out' = DOMAIN out /\ out'.imports = out.imports /\ out'.exports = out.exports
        /\ out'.functions = fs
    BY <1>1, <1>5, <1>6
  <1> HIDE DEF fs
  <1>9. Shape'
    BY <1>2, <1>3, <1>8, ShapeBy
  <1>. QED BY <1>2, <1>3, <1>7, <1>8, <1>9, Zenon DEF fs, f

\* The load configuration.
LEMMA ConfigOpenEffect ==
  ASSUME Shape, ConfigOpen
  PROVE  /\ Shape' /\ Quiet
         /\ cur'.i = 0
         /\ LET va == DirectoryVa("config") IN
              IF /\ Present("config") /\ Directory("config").size # 0
                 /\ There(va) /\ Item(va).size >= 4 /\ HasHandlers(Item(va))
              THEN pc' = "handler" /\ reader'.pos = Item(va).handlers
              ELSE pc' = "entrypoint"
  <1> DEFINE va == DirectoryVa("config")
             d == Item(va)
             handlers == d.handlers
             cookie == IF HasCookie(d) THEN d.cookie ELSE 0
             is == Present("config") /\ Directory("config").size # 0 /\ There(va) /\ Item(va).size >= 4
             n == out.names \cup {[addr |-> cookie, name |-> "__pe_security_cookie"]}
  <1>1. image' = image /\ DOMAIN cur' = DOMAIN cur /\ cur'.i = 0
    BY DEF ConfigOpen, Shape
  <1>2. CASE is
    <2>1. out' = [out EXCEPT !.types = out.types \cup Typed({va}, "config") \cup Typed({cookie}, "cookie"),
                             !.names = n]
      BY <1>2 DEF ConfigOpen
    <2>2. IF HasHandlers(d) THEN pc' = "handler" /\ reader' = To(reader, handlers)
          ELSE pc' = "entrypoint" /\ reader' = reader
      BY <1>2 DEF ConfigOpen, GoTo
    <2>3. DOMAIN reader' = DOMAIN reader /\ (HasHandlers(d) => reader'.pos = handlers)
      <3> HIDE DEF handlers, d
      <3>. QED BY <2>2, Moved DEF Shape
    <2>4. Quiet /\ DOMAIN out' = DOMAIN out
      <3>1. "config" # "funcinfo" /\ "cookie" # "funcinfo"
        OBVIOUS
      <3> HIDE DEF n, cookie
      <3>. QED BY <2>1, <3>1, MoreTypes2
    <2>5. Shape'
      BY <1>1, <2>3, <2>4, ShapeBy
    <2>. QED BY <1>1, <1>2, <2>2, <2>3, <2>4, <2>5
  <1>3. CASE ~is
    <2>1. pc' = "entrypoint" /\ reader' = reader /\ out' = out
      BY <1>3 DEF ConfigOpen, GoTo
    <2>2. Shape' /\ Quiet
      BY <1>1, <2>1, SameOut, ShapeBy
    <2>. QED BY <1>1, <1>3, <2>1, <2>2
  <1>. QED BY <1>2, <1>3

\* A handler.
LEMMA SEHandlerEffect ==
  ASSUME Shape, SEHandler
  PROVE  /\ Shape'
         /\ out'.imports = out.imports /\ out'.exports = out.exports
         /\ Infos(out') = Infos(out)
         /\ reader'.pos = reader.pos + ThunkSize
         /\ cur'.i = cur.i + 1
         /\ out'.functions = out.functions \cup
              {a \in {FromRva(Item(reader.pos))} : Item(reader.pos) # 0}
  <1> DEFINE rva == Item(reader.pos)
             f == {a \in {FromRva(rva)} : rva # 0}
             o == Function(f)
             as == {reader.pos}
             t == o.types \cup Typed(as, "pointer")
             p == [o EXCEPT !.types = t]
             fs == out.functions \cup f
  <1>1. out' = p
    BY DEF SEHandler
  <1>2. /\ image' = image /\ reader' = To(reader, reader.pos + ThunkSize)
        /\ DOMAIN cur' = DOMAIN cur /\ cur'.i = cur.i + 1
    BY DEF SEHandler, Shape
  <1>3. DOMAIN reader' = DOMAIN reader /\ reader'.pos = reader.pos + ThunkSize
    BY <1>2, Moved DEF Shape
  <1>4. o = [out EXCEPT !.functions = fs]
    BY DEF Function
  <1> HIDE DEF o, f
  <1>5. /\ DOMAIN o = DOMAIN out
        /\ o.functions = fs /\ o.imports = out.imports /\ o.exports = out.exports
        /\ o.types = out.types
    <2> HIDE DEF fs
    <2>. QED BY <1>4, Updated
  <1>6. /\ DOMAIN p = DOMAIN out
        /\ p.types = t /\ p.imports = o.imports /\ p.exports = o.exports
        /\ p.functions = o.functions
    <2> HIDE DEF t
    <2>. QED BY <1>5, Updated
  <1> HIDE DEF p, t
  <1>7. Infos(out') = Infos(out)
    <2>1. out'.types = out.types \cup Typed(as, "pointer")
      BY <1>1, <1>5, <1>6 DEF t
    <2>2. "pointer" # "funcinfo"
      OBVIOUS
    <2>. QED BY ONLY <2>1, <2>2, OtherTypes
  <1>8. DOMAIN out' = DOMAIN out /\ out'.imports = out.imports /\ out'.exports = out.exports
        /\ out'.functions = fs
    BY <1>1, <1>5, <1>6
  <1> HIDE DEF fs
  <1>9. Shape'
    BY <1>2, <1>3, <1>8, ShapeBy
  <1>. QED BY <1>2, <1>3, <1>7, <1>8, <1>9, Zenon DEF fs, f

\* The entry point.
LEMMA SetEntryPointEffect ==
  ASSUME Shape, SetEntryPoint
  PROVE  /\ Shape'
         /\ out'.imports = out.imports /\ out'.exports = out.exports
         /\ Infos(out') = Infos(out)
         /\ pc' \in {"classify", "classified"}
         /\ out'.functions = out.functions \cup
              {a \in {Normal(FromRva(image.entry))} : image.entry # 0}
  <1>1. image' = image /\ cur' = cur /\ pc' \in {"classify", "classified"}
    BY DEF SetEntryPoint
  <1>2. DOMAIN reader' = DOMAIN reader
    BY Moved DEF SetEntryPoint, Shape
  <1>3. CASE image.entry = 0
    <2>1. out' = out
      BY <1>3 DEF SetEntryPoint
    <2>2. Shape' /\ Quiet
      BY <1>1, <1>2, <2>1, SameOut, ShapeBy
    <2>. QED BY <1>1, <1>3, <2>2 DEF Quiet
  <1>4. CASE image.entry # 0
    <2> DEFINE a == Normal(FromRva(image.entry))
               o == Function({a})
               h == o.thumb \cup Thumb(FromRva(image.entry))
               p == [o EXCEPT !.thumb = h]
               fs == out.functions \cup {a}
    <2>1. out' = p
      BY <1>4 DEF SetEntryPoint
    <2>2. o = [out EXCEPT !.functions = fs]
      BY DEF Function
    <2> HIDE DEF a, h, o
    <2>3. /\ DOMAIN o = DOMAIN out
          /\ o.functions = fs /\ o.imports = out.imports /\ o.exports = out.exports
          /\ o.types = out.types
      <3> HIDE DEF fs
      <3>. QED BY <2>2, Updated
    <2>4. /\ DOMAIN p = DOMAIN out
          /\ p.functions = o.functions /\ p.imports = o.imports /\ p.exports = o.exports
          /\ p.types = o.types
      BY <2>3, Updated
    <2> HIDE DEF p
    <2>5. /\ DOMAIN out' = DOMAIN out /\ out'.imports = out.imports /\ out'.exports = out.exports
          /\ out'.types = out.types /\ out'.functions = fs
      BY <2>1, <2>3, <2>4
    <2>6. Shape'
      BY <1>1, <1>2, <2>5, ShapeBy
    <2>7. Infos(out') = Infos(out)
      BY <2>5 DEF Infos
    <2>8. {x \in {a} : image.entry # 0} = {a}
      BY <1>4
    <2>. QED BY <1>1, <2>5, <2>6, <2>7, <2>8, Zenon DEF fs, a
  <1>. QED BY <1>3, <1>4

\* The end of the load.
LEMMA ClassifyEffect ==
  ASSUME Shape, Classify
  PROVE  /\ Shape' /\ Quiet
         /\ pc \in {"classify", "classified"} /\ pc' \in {"classify", "classified", "loaded"}
  <1>1. /\ image' = image /\ cur' = cur /\ out' = out
        /\ pc \in {"classify", "classified"} /\ pc' \in {"classify", "classified", "loaded"}
    BY DEF Classify, ClassifyImport, ClassifyDone, Classified
  <1>2. DOMAIN reader' = DOMAIN reader
    <2>1. CASE ClassifyImport
      <3> DEFINE behind == To(reader, reader.pos + DescriptorSize)
                 name == ModuleAt(reader.pos)
      <3>1. reader' = Elsewhere(behind, name)
        BY <2>1 DEF ClassifyImport
      <3>2. DOMAIN behind = {"pos", "stack"}
        BY Moved DEF Shape
      <3> HIDE DEF behind, name
      <3>. QED BY <3>1, <3>2, Moved DEF Shape
    <2>2. CASE ClassifyDone \/ Classified
      BY <2>2 DEF ClassifyDone, Classified
    <2>. QED BY <2>1, <2>2 DEF Classify
  <1>. QED BY <1>1, <1>2, SameOut, ShapeBy

\* The sections.
LEMMA SectionsEffect ==
  ASSUME Shape, MapSection \/ SectionsMapped
  PROVE  /\ Shape' /\ Quiet
         /\ out' = out /\ reader' = reader
         /\ pc = "sections" /\ pc' \in {"sections", "rejected", "exports"}
  <1>1. /\ image' = image /\ out' = out /\ reader' = reader /\ DOMAIN cur' = DOMAIN cur
        /\ pc = "sections" /\ pc' \in {"sections", "rejected", "exports"}
    BY DEF MapSection, SectionsMapped, Shape
  <1>. QED BY <1>1, SameOut, ShapeBy

-----------------------------------------------------------------------------
(* What the writer of an image means: the structures that can be read, by  *)
(* their numbers and not by the place a reader has come to.  A structure   *)
(* behind one that is damaged is not read.                                 *)

HasExports ==
  LET va == DirectoryVa("exports") IN
  Present("exports") /\ There(va) /\ 0 \notin {Item(va).functions, Item(va).names, Item(va).ordinals}

FunctionSlot(i) == FromRva(ExportTables.functions) + 4 * i

\* Function k can be read, and the ordinals as far as they are needed.
CanBeRead(k) ==
  /\ k < ExportTables.nfunctions /\ There(FunctionSlot(k))
  /\ Item(FunctionSlot(k)) = 0 \/ OrdinalsReadable(k)

\* The first n of them can be read.
CanBeReadUpTo(n) == \A k \in 0..(n - 1) : CanBeRead(k)

\* The table of functions can be read up to i.
IsInExports(i) == HasExports /\ \A k \in 0..i : CanBeRead(k)

IsExported(i) == IsInExports(i) /\ Item(FunctionSlot(i)) # 0
ExportVa(i) == FromRva(Item(FunctionSlot(i)))

\* The name at place j of the list of names.
TextAt(j) ==
  LET slot == FromRva(ExportTables.names) + 4 * j IN
  IF There(slot) /\ Item(slot) # 0 /\ There(FromRva(Item(slot)))
  THEN Item(FromRva(Item(slot))) ELSE ""

\* A function has the name at the first place with its ordinal.
IsNamed(i, name) ==
  IF NamesOf(i) = {} THEN name = ""
  ELSE \E j \in NamesOf(i) : (\A k \in NamesOf(i) : j <= k) /\ name = TextAt(j)

IsExport(x, i) ==
  /\ x = [addr |-> ExportVa(i), ord |-> ExportTables.base + i, name |-> x.name]
  /\ IsNamed(i, x.name)

\* The image has the exports that are wanted and no others.
ExportsWritten ==
  image.damaged # "exports" =>
    /\ \A i \in Nat : IsExported(i) => \E x \in image.wants.exports : IsExport(x, i)
    /\ \A x \in image.wants.exports : \E i \in Nat : IsExported(i) /\ IsExport(x, i)

DescriptorAt(n) == DirectoryVa("imports") + DescriptorSize * n

\* The descriptors can be read up to n.
IsListed(n) == Present("imports") /\ \A m \in 0..n : IsDescriptor(DescriptorAt(m))

\* Of two tables the first, unless there is none.
TableOf(first, other) == FromRva(IF first # 0 THEN first ELSE other)

NameSlot(n, k) ==
  TableOf(Item(DescriptorAt(n)).oft, Item(DescriptorAt(n)).ft) + ThunkSize * k
BoundSlot(n, k) ==
  TableOf(Item(DescriptorAt(n)).ft, Item(DescriptorAt(n)).oft) + ThunkSize * k

\* Thunk k of descriptor n is in both tables, and it is not the terminator.
IsThunk(n, k) ==
  /\ There(NameSlot(n, k)) /\ There(BoundSlot(n, k))
  /\ Item(NameSlot(n, k)).ord \/ Item(NameSlot(n, k)).value # 0

\* The thunks of descriptor n can be read up to k.
IsBound(n, k) ==
  IsListed(n) /\ There(ModuleAt(DescriptorAt(n))) /\ \A j \in 0..k : IsThunk(n, j)

\* By ordinal, or by the name behind the hint.
ImportAt(n, k) ==
  LET thunk == Item(NameSlot(n, k)) IN
  [addr   |-> BoundSlot(n, k),
   module |-> Item(ModuleAt(DescriptorAt(n))),
   ord    |-> IF thunk.ord THEN thunk.value ELSE 0,
   name   |-> IF thunk.ord THEN "" ELSE Item(FromRva(thunk.value))]

\* Descriptors hold numbers, hints are in the image, and the image has the
\* imports that are wanted and no others.
ImportsWritten ==
  /\ \A n \in Nat : IsListed(n) =>
       Item(DescriptorAt(n)).oft \in Nat /\ Item(DescriptorAt(n)).ft \in Nat
  /\ \A n, k \in Nat : IsBound(n, k) =>
       /\ Item(NameSlot(n, k)).ord \/ There(FromRva(Item(NameSlot(n, k)).value))
       /\ ImportAt(n, k) \in image.wants.imports
  /\ image.damaged # "imports" =>
       \A x \in image.wants.imports : \E n, k \in Nat : IsBound(n, k) /\ x = ImportAt(n, k)

\* An export that is code: no text, and no boundary of the linker.
IsExportedFunction(i) ==
  /\ IsExported(i)
  /\ ~IsForwarder(Item(FunctionSlot(i))) /\ Executable(ExportVa(i))
  /\ \A name \in Boundaries : ~IsNamed(i, name)

ExceptionSlot(i) == DirectoryVa("exceptions") + 12 * i

HasExceptions == Is64 /\ Present("exceptions") /\ Directory("exceptions").size # 0
IsEntry(k) == ExceptionSlot(k) < End("exceptions") /\ There(ExceptionSlot(k))

\* The table of functions with unwind information can be read up to i.
IsInExceptions(i) == HasExceptions /\ \A k \in 0..i : IsEntry(k)

IsUnwound(i) == IsInExceptions(i) /\ Item(ExceptionSlot(i)).begin # 0

\* Behind an even number of unwind codes and the handler.
InfosAt(u) ==
  LET even == {n \in {Item(u).codes, Item(u).codes + 1} : n % 2 = 0} IN
  {FromRva(Item(u + 8 + 2 * n)) : n \in
     {m \in even : There(u + 4 + 2 * m) /\ There(u + 8 + 2 * m) /\ Item(u + 8 + 2 * m) # 0}}

UnwindVa(i) == FromRva(Item(ExceptionSlot(i)).unwind)

\* Unwind information with a handler.
IsHandled(i) ==
  /\ IsUnwound(i) /\ Item(ExceptionSlot(i)).unwind # 0
  /\ There(UnwindVa(i)) /\ Item(UnwindVa(i)).handler

CallbackSlot(i) == Item(DirectoryVa("tls")).callbacks + ThunkSize * i

HasCallbacks ==
  Present("tls") /\ There(DirectoryVa("tls")) /\ Item(DirectoryVa("tls")).callbacks # 0
IsCalled(k) == k < MaxCallbacks /\ There(CallbackSlot(k)) /\ Item(CallbackSlot(k)) # 0

\* The list of callbacks can be read up to i and does not end before.
IsCallback(i) == HasCallbacks /\ \A k \in 0..i : IsCalled(k)

HandlerSlot(i) == Item(DirectoryVa("config")).handlers + ThunkSize * i

HasHandlerTable ==
  /\ Present("config") /\ Directory("config").size # 0
  /\ There(DirectoryVa("config")) /\ Item(DirectoryVa("config")).size >= 4
  /\ HasHandlers(Item(DirectoryVa("config")))
IsCounted(k) == k < Item(DirectoryVa("config")).count /\ There(HandlerSlot(k))

\* The table of handlers can be read up to i.
IsInHandlers(i) == HasHandlerTable /\ \A k \in 0..i : IsCounted(k)

IsHandler(i) == IsInHandlers(i) /\ Item(HandlerSlot(i)) # 0

\* What the structures name.
UnwoundVa(i) == Normal(FromRva(Item(ExceptionSlot(i)).begin))
CallbackVa(i) == Normal(Item(CallbackSlot(i)))
HandlerVa(i) == FromRva(Item(HandlerSlot(i)))

\* The functions of the first n structures of a kind.
ExportedFunctions(n) == {ExportVa(i) : i \in {k \in Nat : k < n /\ IsExportedFunction(k)}}
UnwoundFunctions(n) == {UnwoundVa(i) : i \in {k \in Nat : k < n /\ IsUnwound(k)}}
CallbackFunctions(n) == {CallbackVa(i) : i \in {k \in Nat : k < n /\ IsCallback(k)}}
HandlerFunctions(n) == {HandlerVa(i) : i \in {k \in Nat : k < n /\ IsHandler(k)}}
UnwindInfos(n) == UNION {InfosAt(UnwindVa(i)) : i \in {k \in Nat : k < n /\ IsHandled(k)}}

\* The functions of them all.
AllExported == {ExportVa(i) : i \in {k \in Nat : IsExportedFunction(k)}}
AllUnwound == {UnwoundVa(i) : i \in {k \in Nat : IsUnwound(k)}}
AllCallbacks == {CallbackVa(i) : i \in {k \in Nat : IsCallback(k)}}
AllHandlers == {HandlerVa(i) : i \in {k \in Nat : IsHandler(k)}}
AllInfos == UNION {InfosAt(UnwindVa(i)) : i \in {k \in Nat : IsHandled(k)}}
EntryFunctions == {a \in {Normal(FromRva(image.entry))} : image.entry # 0}

\* The functions that are read are wanted; those wanted are there, but for damage.
AreMeant(found, directory) ==
  /\ found \subseteq image.wants.functions[directory]
  /\ image.damaged # directory => image.wants.functions[directory] \subseteq found

\* Unwind information holds numbers.
UnwindIsWritten ==
  \A i \in Nat : IsHandled(i) => UnwindVa(i) \in Nat /\ Item(UnwindVa(i)).codes \in Nat

\* The image has the functions that are wanted and no others.
FunctionsWritten ==
  /\ DOMAIN image.wants.functions = {"exports", "exceptions", "tls", "config", "entry"}
  /\ AreMeant(AllExported, "exports")
  /\ AreMeant(AllUnwound, "exceptions")
  /\ AreMeant(AllCallbacks, "tls")
  /\ AreMeant(AllHandlers, "config")
  /\ EntryFunctions = image.wants.functions["entry"]
  /\ AllInfos = image.wants.funcinfos
  /\ UnwindIsWritten

-----------------------------------------------------------------------------
(* The exports.                                                            *)

\* The exports of the first n functions.
Exported(n) ==
  {x \in image.wants.exports : \E i \in Nat : i < n /\ IsExported(i) /\ IsExport(x, i)}

\* What is written in the image stays.
LEMMA ExportsFixed ==
  ASSUME image' = image
  PROVE  /\ HasExports' = HasExports
         /\ \A i : FunctionSlot(i)' = FunctionSlot(i)
         /\ \A i : CanBeReadUpTo(i)' = CanBeReadUpTo(i)
         /\ \A i : IsExported(i)' = IsExported(i)
         /\ \A x, i : IsNamed(i, x)' = IsNamed(i, x)
         /\ \A x, i : IsExport(x, i)' = IsExport(x, i)
         /\ \A i : Exported(i)' = Exported(i)
         /\ ExportsWritten' = ExportsWritten
  <1>1. \A a : There(a)' = There(a) /\ Item(a)' = Item(a) /\ FromRva(a)' = FromRva(a)
    BY DEF There, Item, FromRva
  <1>2. ExportTables' = ExportTables /\ (Present("exports"))' = Present("exports")
        /\ DirectoryVa("exports")' = DirectoryVa("exports")
    BY DEF ExportTables, DirectoryVa, Directory, FromRva, Item, Present
  <1>3. HasExports' = HasExports
    BY DEF HasExports, DirectoryVa, Directory, FromRva, Item, Present, There
  <1>4. \A i : FunctionSlot(i)' = FunctionSlot(i)
    BY <1>1, <1>2, Zenon DEF FunctionSlot
  <1>5. \A i : NamesOf(i)' = NamesOf(i)
    BY <1>1, <1>2, Zenon DEF NamesOf
  <1>6. \A i : OrdinalsReadable(i)' = OrdinalsReadable(i)
    BY <1>1, <1>2, <1>5, Zenon DEF OrdinalsReadable
  <1>7. \A i : CanBeRead(i)' = CanBeRead(i)
    BY <1>1, <1>2, <1>4, <1>6, Zenon DEF CanBeRead
  <1>8. \A i : IsExported(i)' = IsExported(i)
    BY <1>1, <1>3, <1>4, <1>7, Zenon DEF IsExported, IsInExports
  <1>9. \A j : TextAt(j)' = TextAt(j)
    BY DEF TextAt, ExportTables, DirectoryVa, Directory, FromRva, Item, There
  <1>10. \A x, i : IsNamed(i, x)' = IsNamed(i, x)
    BY <1>5, <1>9, Zenon DEF IsNamed
  <1>11. \A i : ExportVa(i)' = ExportVa(i)
    BY <1>1, <1>4, Zenon DEF ExportVa
  <1>12. \A x, i : IsExport(x, i)' = IsExport(x, i)
    BY <1>2, <1>10, <1>11, Zenon DEF IsExport
  <1>13. \A i : Exported(i)' = Exported(i)
    BY <1>8, <1>12, Zenon DEF Exported
  <1>14. ExportsWritten' = ExportsWritten
    BY <1>8, <1>12, Zenon DEF ExportsWritten
  <1>15. \A i : CanBeReadUpTo(i)' = CanBeReadUpTo(i)
    BY <1>7, Zenon DEF CanBeReadUpTo
  <1>. QED BY <1>3, <1>4, <1>8, <1>10, <1>12, <1>13, <1>14, <1>15, Zenon

\* The headers hold numbers.
LEMMA ExportHeader ==
  ASSUME image \in Images, HasExports
  PROVE  /\ image.base \in Nat
         /\ ExportTables.functions \in Nat /\ ExportTables.names \in Nat
         /\ ExportTables.ordinals \in Nat /\ ExportTables.nfunctions \in Nat
         /\ ExportTables.nnames \in Nat /\ ExportTables.base \in Nat
  <1>1. \A f \in NumbersOf("exports") : ExportTables[f] \in Nat
    BY ImagesAssumption DEF HasExports, ExportTables, DirectoryVa, Directory, FromRva, Item, Present, There
  <1>2. NumbersOf("exports") = {"functions", "names", "ordinals", "nfunctions", "nnames", "base"}
    BY DEF NumbersOf
  <1>3. image.base \in Nat
    BY ImagesAssumption
  <1>. QED BY <1>1, <1>2, <1>3

\* A set of natural numbers has a least one.
LEMMA LeastNumber ==
  ASSUME NEW T \in SUBSET Nat, T # {}
  PROVE  \E x \in T : \A y \in T : x <= y
  <1> DEFINE Less == {ss \in Nat \X Nat : ss[1] < ss[2]}
  <1>1. IsWellFoundedOn(Less, Nat)
    <2>1. Less = OpToRel(<, Nat)
      BY DEF Less, OpToRel
    <2>. QED BY <2>1, NatLessThanWellFounded
  <1> HIDE DEF Less
  <1>2. PICK x \in T : \A y \in T : ~(<<y, x>> \in Less)
    BY <1>1, WFMin, Zenon
  <1>3. ASSUME NEW y \in T
        PROVE  x <= y
    <2>1. x \in Nat /\ y \in Nat
      BY <1>2
    <2>2. y < x => <<y, x>> \in Less
      BY <2>1 DEF Less
    <2>. QED BY <1>2, <2>1, <2>2
  <1>. QED BY <1>3

\* The name that is found is the one at the first place with the ordinal.
LEMMA NameIsFirst ==
  ASSUME image \in Images, HasExports, NEW i, NEW name
  PROVE  IsNamed(i, name) <=> name = ExportName(i)
  <1>1. CASE NamesOf(i) = {}
    BY <1>1 DEF IsNamed, ExportName
  <1>2. CASE NamesOf(i) # {}
    <2>1. NamesOf(i) \subseteq Nat
      BY ExportHeader DEF NamesOf
    <2> DEFINE S == NamesOf(i)
    <2>2. PICK m \in S : \A k \in S : m <= k
      <3> HIDE DEF S
      <3>1. S # {} /\ S \subseteq Nat
        BY <1>2, <2>1 DEF S
      <3>. QED BY <3>1, LeastNumber
    <2>3. First(S) = m
      <3> HIDE DEF S
      <3>1. S \subseteq Nat
        BY <2>1 DEF S
      <3>2. \A j \in S : (\A k \in S : j <= k) => j = m
        BY <2>2, <3>1
      <3>. QED BY <2>2, <3>2, Zenon DEF First
    <2>4. \A j \in S : (\A k \in S : j <= k) => j = m
      BY <2>1, <2>2
    <2>5. ExportName(i) = TextAt(m)
      <3>1. NameIndex(i) = m
        BY <2>3 DEF NameIndex
      <3>. QED BY <1>2, <3>1 DEF ExportName, TextAt
    <2>. QED BY <1>2, <2>2, <2>4, <2>5, Zenon DEF IsNamed
  <1>. QED BY <1>1, <1>2

\* A function that is not there is no export.
LEMMA ExportSkipped ==
  ASSUME NEW n \in Nat, ~IsExported(n)
  PROVE  Exported(n + 1) = Exported(n)
  <1>1. \A i \in Nat : i < n + 1 <=> i < n \/ i = n
    OBVIOUS
  <1>. QED BY <1>1, Zenon DEF Exported

\* A function that is there is one.
LEMMA ExportAdded ==
  ASSUME image \in Images, NEW n \in Nat, IsExported(n), image.damaged # "exports", ExportsWritten
  PROVE  Exported(n + 1) = Exported(n) \cup
           {[addr |-> ExportVa(n), ord |-> ExportTables.base + n, name |-> ExportName(n)]}
  <1> DEFINE e == [addr |-> ExportVa(n), ord |-> ExportTables.base + n, name |-> ExportName(n)]
  <1>1. \A i \in Nat : i < n + 1 <=> i < n \/ i = n
    OBVIOUS
  <1>2. HasExports
    BY DEF IsExported, IsInExports
  <1>3. \A x : IsExport(x, n) => x = e
    <2>1. \A x : IsExport(x, n) => x.name = ExportName(n)
      BY <1>2, NameIsFirst DEF IsExport
    <2>. QED BY <2>1, Zenon DEF IsExport
  <1>4. e \in image.wants.exports /\ IsExport(e, n)
    <2>1. PICK x \in image.wants.exports : IsExport(x, n)
      BY DEF ExportsWritten
    <2>. QED BY <1>3, <2>1
  <1> HIDE DEF e
  <1>5. \A x : x \in Exported(n + 1) <=> x \in Exported(n) \/ x = e
    BY <1>1, <1>3, <1>4, Zenon DEF Exported
  <1>6. Exported(n + 1) = Exported(n) \cup {e}
    BY <1>5
  <1>. QED BY <1>6 DEF e

\* Behind what cannot be read there are no exports.
LEMMA ExportsEnd ==
  ASSUME NEW n \in Nat, ~CanBeRead(n), image.damaged # "exports", ExportsWritten
  PROVE  Exported(n) = image.wants.exports
  <1>1. \A i \in Nat : IsExported(i) => i < n
    <2>1. \A i \in Nat : ~(i < n) => n \in 0..i
      OBVIOUS
    <2>. QED BY <2>1, Zenon DEF IsExported, IsInExports
  <1>. QED BY <1>1, Zenon DEF Exported, ExportsWritten

\* Without tables there are none.
LEMMA NoExports ==
  ASSUME ~HasExports, image.damaged # "exports", ExportsWritten
  PROVE  image.wants.exports = {}
  BY DEF ExportsWritten, IsExported, IsInExports

BeforeExports == {"sections", "exports", "rejected"}

\* The exports up to the one that is read have been found.
ExportInv ==
  /\ pc \in BeforeExports => out.exports = {}
  /\ pc = "export" =>
       /\ HasExports /\ cur.i \in Nat
       /\ reader.pos = FunctionSlot(cur.i)
       /\ CanBeReadUpTo(cur.i)
  /\ image.damaged # "exports" /\ ExportsWritten =>
       /\ pc = "export" => out.exports = Exported(cur.i)
       /\ pc \notin BeforeExports \cup {"export"} => out.exports = image.wants.exports

\* At the start nothing is found.
LEMMA InitExports ==
  ASSUME Init
  PROVE  ExportInv
  BY DEF Init, ExportInv, BeforeExports

\* A slot is followed by the next.
LEMMA NextFunction ==
  ASSUME image \in Images, HasExports, NEW i \in Nat
  PROVE  FunctionSlot(i + 1) = FunctionSlot(i) + 4 /\ FunctionSlot(0) = FromRva(ExportTables.functions)
  <1> DEFINE b == image.base
             f == ExportTables.functions
  <1>1. b \in Nat /\ f \in Nat
    BY ExportHeader
  <1>2. FunctionSlot(i + 1) = b + f + 4 * (i + 1) /\ FunctionSlot(i) = b + f + 4 * i
        /\ FunctionSlot(0) = b + f + 4 * 0 /\ FromRva(f) = b + f
    BY DEF FunctionSlot, FromRva
  <1> HIDE DEF b, f
  <1>3. FunctionSlot(i + 1) = FunctionSlot(i) + 4
    BY <1>1, <1>2
  <1>4. FunctionSlot(0) = FromRva(f)
    BY <1>1, <1>2
  <1>. QED BY <1>3, <1>4 DEF f

\* One more can be read.
LEMMA OneMoreCanBeRead ==
  ASSUME NEW n \in Nat, CanBeReadUpTo(n), CanBeRead(n)
  PROVE  CanBeReadUpTo(n + 1)
  <1>1. \A k \in 0..(n + 1 - 1) : k \in 0..(n - 1) \/ k = n
    OBVIOUS
  <1>. QED BY <1>1 DEF CanBeReadUpTo

\* Opening the exports, and reading one of them.
LEMMA ReadExportsKeeps ==
  ASSUME Shape, ExportInv, ReadExports
  PROVE  ExportInv'
  <1>1. image \in Images /\ image' = image
    BY ImageStays DEF Shape, Next, Step
  <1>2. CASE ExportsOpen
    <2>1. pc = "exports" /\ out'.exports = {} /\ cur'.i = 0
      BY <1>2, ExportsOpenEffect DEF ExportsOpen, ExportInv, BeforeExports, Quiet
    <2>2. CASE HasExports
      <3>1. pc' = "export" /\ reader'.pos = FromRva(ExportTables.functions)
        BY <1>2, <2>2, ExportsOpenEffect, Zenon DEF HasExports, ExportTables
      <3>2. Exported(0) = {}
        BY DEF Exported
      <3>3. reader'.pos = FunctionSlot(0)
        BY <1>1, <2>2, <3>1, NextFunction
      <3>4. CanBeReadUpTo(0)
        BY DEF CanBeReadUpTo
      <3>. QED BY <1>1, <2>1, <2>2, <3>1, <3>2, <3>3, <3>4, ExportsFixed DEF ExportInv, BeforeExports
    <2>3. CASE ~HasExports
      <3>1. pc' = "imports"
        BY <1>2, <2>3, ExportsOpenEffect, Zenon DEF HasExports
      <3>2. image.damaged # "exports" /\ ExportsWritten => image.wants.exports = {}
        BY <2>3, NoExports
      <3>. QED BY <1>1, <2>1, <3>1, <3>2, ExportsFixed DEF ExportInv, BeforeExports
    <2>. QED BY <2>2, <2>3
  <1>3. CASE SkipExport \/ Export
    <2> DEFINE n == cur.i
    <2>1. /\ pc = "export" /\ pc' = "export" /\ HasExports /\ n \in Nat
          /\ reader.pos = FunctionSlot(n) /\ CanBeReadUpTo(n)
      BY <1>3 DEF SkipExport, Export, ExportInv
    <2>2. cur'.i = n + 1 /\ reader'.pos = FunctionSlot(n) + 4
      BY <1>3, <2>1, SkipExportEffect, ExportEffect
    <2>3. reader'.pos = FunctionSlot(n + 1)
      BY <1>1, <2>1, <2>2, NextFunction
    <2>4. CanBeRead(n)
      BY <1>3, <2>1 DEF SkipExport, Export, MoreExports, CanBeRead
    <2>5. CanBeReadUpTo(n + 1)
      BY <2>1, <2>4, OneMoreCanBeRead
    <2>6. ASSUME image.damaged # "exports", ExportsWritten
          PROVE  out'.exports = Exported(n + 1)
      <3>1. out.exports = Exported(n)
        BY <2>1, <2>6 DEF ExportInv
      <3>2. CASE SkipExport
        <4>1. out'.exports = out.exports
          BY <3>2, SkipExportEffect DEF Quiet
        <4>2. ~IsExported(n)
          BY <2>1, <3>2 DEF SkipExport, IsExported
        <4>. QED BY <2>1, <3>1, <4>1, <4>2, ExportSkipped
      <3>3. CASE Export
        <4>1. IsExported(n)
          <5>1. \A k \in 0..n : k \in 0..(n - 1) \/ k = n
            BY <2>1
          <5>2. Item(FunctionSlot(n)) # 0
            BY <2>1, <3>3 DEF Export
          <5>. QED BY <2>1, <2>4, <5>1, <5>2, Zenon DEF IsExported, IsInExports, CanBeReadUpTo
        <4>2. out'.exports = out.exports \cup
                {[addr |-> ExportVa(n), ord |-> ExportTables.base + n, name |-> ExportName(n)]}
          <5>1. FromRva(Item(reader.pos)) = ExportVa(n)
            BY <2>1 DEF ExportVa
          <5>. QED BY <3>3, <5>1, ExportEffect, Zenon
        <4>3. Exported(n + 1) = Exported(n) \cup
                {[addr |-> ExportVa(n), ord |-> ExportTables.base + n, name |-> ExportName(n)]}
          BY <1>1, <2>1, <2>6, <4>1, ExportAdded
        <4>. QED BY <3>1, <4>2, <4>3, Zenon
      <3>. QED BY <1>3, <3>2, <3>3
    <2> HIDE DEF n
    <2>7. (HasExports /\ cur.i \in Nat /\ reader.pos = FunctionSlot(cur.i))'
      <3>1. n + 1 \in Nat
        BY <2>1
      <3>. QED BY <1>1, <2>1, <2>2, <2>3, <3>1, ExportsFixed, Zenon
    <2>8. CanBeReadUpTo(cur.i)'
      BY <1>1, <2>2, <2>5, ExportsFixed, Zenon
    <2>9. (image.damaged # "exports" /\ ExportsWritten => out.exports = Exported(cur.i))'
      BY <1>1, <2>2, <2>6, ExportsFixed, Zenon
    <2>. QED BY <2>1, <2>7, <2>8, <2>9, Zenon DEF ExportInv, BeforeExports
  <1>4. CASE ExportsDone
    <2> DEFINE n == cur.i
    <2>1. /\ pc = "export" /\ pc' = "imports" /\ HasExports /\ n \in Nat
          /\ reader.pos = FunctionSlot(n) /\ out' = out
      BY <1>4 DEF ExportsDone, ExportInv, GoTo
    <2>2. ~CanBeRead(n)
      BY <1>4, <2>1 DEF ExportsDone, MoreExports, CanBeRead
    <2>3. ASSUME image.damaged # "exports", ExportsWritten
          PROVE  out.exports = image.wants.exports
      <3>1. out.exports = Exported(n)
        BY <2>1, <2>3 DEF ExportInv
      <3>. QED BY <2>1, <2>2, <2>3, <3>1, ExportsEnd
    <2>. QED BY <1>1, <2>1, <2>3, ExportsFixed DEF ExportInv, BeforeExports
  <1>. QED BY <1>2, <1>3, <1>4 DEF ReadExports

\* The steps of a directory, what they leave, and where they lead.
LEMMA ImportsSteps ==
  ASSUME Shape, ReadImports
  PROVE  /\ Shape' /\ out'.exports = out.exports /\ out'.functions = out.functions
         /\ Infos(out') = Infos(out)
         /\ pc \in {"imports", "descriptor", "thunk"}
         /\ pc' \in {"imports", "descriptor", "thunk", "resources"}
  <1>1. CASE ImportsOpen
    BY <1>1, ImportsOpenEffect DEF ImportsOpen, GoTo, Quiet
  <1>2. CASE Descriptor
    <2>1. pc = "descriptor"
      BY <1>2 DEF Descriptor
    <2>. QED BY <1>2, <2>1, DescriptorEffect DEF Quiet
  <1>3. CASE Thunk
    <2>1. pc = "thunk" /\ pc' = "thunk"
      BY <1>3 DEF Thunk
    <2>. QED BY <1>3, <2>1, ThunkEffect
  <1>4. CASE ThunksDone
    <2>1. pc = "thunk" /\ pc' = "descriptor"
      BY <1>4 DEF ThunksDone
    <2>. QED BY <1>4, <2>1, ThunksDoneEffect DEF Quiet
  <1>5. CASE ImportsDone
    BY <1>5, IdleEffect DEF ImportsDone, GoTo, Quiet
  <1>. QED BY <1>1, <1>2, <1>3, <1>4, <1>5, Zenon DEF ReadImports

\* The same for the resources.
LEMMA ResourcesSteps ==
  ASSUME Shape, ReadResources
  PROVE  /\ Shape' /\ Quiet
         /\ pc \in {"resources", "directory", "entry"}
         /\ pc' \in {"resources", "directory", "entry", "exceptions"}
  <1>1. CASE ResourcesOpen
    <2>1. pc = "resources" /\ pc' \in {"directory", "exceptions"}
      BY <1>1 DEF ResourcesOpen, GoTo
    <2>. QED BY <1>1, <2>1, ResourcesOpenEffect
  <1>2. CASE EnterDirectory
    <2>1. pc = "directory" /\ pc' = "entry"
      BY <1>2 DEF EnterDirectory
    <2>. QED BY <1>2, <2>1, EnterDirectoryEffect
  <1>3. CASE NoDirectory \/ LeaveDirectory
    <2>1. pc \in {"directory", "entry"}
      BY <1>3 DEF NoDirectory, LeaveDirectory
    <2>. QED BY <1>3, <2>1, LeaveDirectoryEffect
  <1>4. CASE Subdirectory
    <2>1. pc = "entry" /\ pc' = "directory"
      BY <1>4 DEF Subdirectory
    <2>. QED BY <1>4, <2>1, SubdirectoryEffect
  <1>5. CASE DataEntry
    <2>1. pc = "entry"
      BY <1>5 DEF DataEntry
    <2>. QED BY <1>5, <2>1, DataEntryEffect
  <1>. QED BY <1>1, <1>2, <1>3, <1>4, <1>5, Zenon DEF ReadResources

\* For the exceptions.
LEMMA ExceptionsSteps ==
  ASSUME Shape, ReadExceptions
  PROVE  /\ Shape' /\ out'.exports = out.exports /\ out'.imports = out.imports
         /\ pc \in {"exceptions", "exception"}
         /\ pc' \in {"exceptions", "exception", "debug"}
  <1>1. CASE ExceptionsOpen
    <2>1. pc = "exceptions" /\ pc' \in {"exception", "debug"}
      BY <1>1 DEF ExceptionsOpen, GoTo
    <2>. QED BY <1>1, <2>1, OpenEffect DEF Quiet
  <1>2. CASE ExceptionEntry
    <2>1. pc = "exception" /\ pc' = "exception"
      BY <1>2 DEF ExceptionEntry
    <2>. QED BY <1>2, <2>1, ExceptionEntryEffect
  <1>3. CASE ExceptionsDone
    BY <1>3, IdleEffect DEF ExceptionsDone, GoTo, Quiet
  <1>. QED BY <1>1, <1>2, <1>3, Zenon DEF ReadExceptions

\* For the debug directory.
LEMMA DebugSteps ==
  ASSUME Shape, ReadDebug
  PROVE  /\ Shape' /\ Quiet
         /\ pc \in {"debug", "debugentry"} /\ pc' \in {"debug", "debugentry", "tls"}
  <1>1. CASE DebugOpen
    <2>1. pc = "debug" /\ pc' \in {"debugentry", "tls"}
      BY <1>1 DEF DebugOpen, GoTo
    <2>. QED BY <1>1, <2>1, OpenEffect
  <1>2. CASE DebugEntry
    <2>1. pc = "debugentry"
      BY <1>2 DEF DebugEntry
    <2>. QED BY <1>2, <2>1, DebugEntryEffect
  <1>3. CASE DebugDone
    BY <1>3, IdleEffect DEF DebugDone, GoTo
  <1>. QED BY <1>1, <1>2, <1>3, Zenon DEF ReadDebug

\* For the callbacks.
LEMMA TlsSteps ==
  ASSUME Shape, ReadTls
  PROVE  /\ Shape' /\ out'.exports = out.exports /\ out'.imports = out.imports
         /\ Infos(out') = Infos(out)
         /\ pc \in {"tls", "callback"} /\ pc' \in {"tls", "callback", "config"}
  <1>1. CASE TlsOpen
    <2>1. pc = "tls"
      BY <1>1 DEF TlsOpen
    <2>. QED BY <1>1, <2>1, TlsOpenEffect DEF Quiet
  <1>2. CASE TlsCallback
    <2>1. pc = "callback" /\ pc' = "callback"
      BY <1>2 DEF TlsCallback
    <2>. QED BY <1>2, <2>1, TlsCallbackEffect
  <1>3. CASE TlsDone
    BY <1>3, IdleEffect DEF TlsDone, GoTo, Quiet
  <1>. QED BY <1>1, <1>2, <1>3, Zenon DEF ReadTls

\* For the load configuration.
LEMMA ConfigSteps ==
  ASSUME Shape, ReadConfig
  PROVE  /\ Shape' /\ out'.exports = out.exports /\ out'.imports = out.imports
         /\ Infos(out') = Infos(out)
         /\ pc \in {"config", "handler"} /\ pc' \in {"config", "handler", "entrypoint"}
  <1>1. CASE ConfigOpen
    <2>1. pc = "config"
      BY <1>1 DEF ConfigOpen
    <2>. QED BY <1>1, <2>1, ConfigOpenEffect DEF Quiet
  <1>2. CASE SEHandler
    <2>1. pc = "handler" /\ pc' = "handler"
      BY <1>2 DEF SEHandler
    <2>. QED BY <1>2, <2>1, SEHandlerEffect
  <1>3. CASE ConfigDone
    BY <1>3, IdleEffect DEF ConfigDone, GoTo, Quiet
  <1>. QED BY <1>1, <1>2, <1>3, Zenon DEF ReadConfig

\* And for the exports.
LEMMA ExportsSteps ==
  ASSUME Shape, ReadExports
  PROVE  /\ Shape' /\ out'.imports = out.imports /\ Infos(out') = Infos(out)
         /\ pc \in {"exports", "export"} /\ pc' \in {"exports", "export", "imports"}
  <1>1. CASE ExportsOpen
    <2>1. pc = "exports"
      BY <1>1 DEF ExportsOpen
    <2>. QED BY <1>1, <2>1, ExportsOpenEffect DEF Quiet
  <1>2. CASE SkipExport
    <2>1. pc = "export" /\ pc' = "export"
      BY <1>2 DEF SkipExport
    <2>. QED BY <1>2, <2>1, SkipExportEffect DEF Quiet
  <1>3. CASE Export
    <2>1. pc = "export" /\ pc' = "export"
      BY <1>3 DEF Export
    <2>. QED BY <1>3, <2>1, ExportEffect
  <1>4. CASE ExportsDone
    BY <1>4, IdleEffect DEF ExportsDone, GoTo, Quiet
  <1>. QED BY <1>1, <1>2, <1>3, <1>4, Zenon DEF ReadExports

\* Behind the exports the load goes on, and exports are only found there.
LEMMA BehindExports ==
  ASSUME Shape, \/ ReadImports \/ ReadResources \/ ReadExceptions \/ ReadDebug
                \/ ReadTls \/ ReadConfig \/ SetEntryPoint \/ Classify
  PROVE  /\ Shape' /\ out'.exports = out.exports
         /\ pc \notin BeforeExports \cup {"export"} /\ pc' \notin BeforeExports \cup {"export"}
  <1>1. CASE ReadImports
    BY <1>1, ImportsSteps DEF BeforeExports
  <1>2. CASE ReadResources
    BY <1>2, ResourcesSteps DEF BeforeExports, Quiet
  <1>3. CASE ReadExceptions
    BY <1>3, ExceptionsSteps DEF BeforeExports
  <1>4. CASE ReadDebug
    BY <1>4, DebugSteps DEF BeforeExports, Quiet
  <1>5. CASE ReadTls
    BY <1>5, TlsSteps DEF BeforeExports
  <1>6. CASE ReadConfig
    BY <1>6, ConfigSteps DEF BeforeExports
  <1>7. CASE SetEntryPoint
    <2>1. pc = "entrypoint"
      BY <1>7 DEF SetEntryPoint
    <2>. QED BY <1>7, <2>1, SetEntryPointEffect DEF BeforeExports
  <1>8. CASE Classify
    BY <1>8, ClassifyEffect DEF BeforeExports, Quiet
  <1>. QED BY <1>1, <1>2, <1>3, <1>4, <1>5, <1>6, <1>7, <1>8, Zenon

\* Every step keeps the shape of the records.
LEMMA ShapeStays ==
  ASSUME Shape, [Next]_vars
  PROVE  Shape'
  <1>1. CASE UNCHANGED vars
    BY <1>1, IdleEffect DEF vars
  <1>2. CASE MapSection \/ SectionsMapped
    BY <1>2, SectionsEffect
  <1>3. CASE ReadExports
    BY <1>3, ExportsSteps
  <1>4. CASE \/ ReadImports \/ ReadResources \/ ReadExceptions \/ ReadDebug
             \/ ReadTls \/ ReadConfig \/ SetEntryPoint \/ Classify
    BY <1>4, BehindExports
  <1>. QED BY <1>1, <1>2, <1>3, <1>4, Zenon DEF Next, Step

\* Every step keeps what is known of the exports.
LEMMA ExportsStay ==
  ASSUME Shape, ExportInv, [Next]_vars
  PROVE  ExportInv'
  <1>1. image' = image
    BY ImageStays
  <1>2. CASE UNCHANGED vars
    BY <1>1, <1>2, ExportsFixed DEF vars, ExportInv
  <1>3. CASE MapSection \/ SectionsMapped
    BY <1>1, <1>3, SectionsEffect DEF ExportInv, BeforeExports
  <1>4. CASE ReadExports
    BY <1>4, ReadExportsKeeps
  <1>5. CASE \/ ReadImports \/ ReadResources \/ ReadExceptions \/ ReadDebug
             \/ ReadTls \/ ReadConfig \/ SetEntryPoint \/ Classify
    <2>1. /\ out'.exports = out.exports
          /\ pc \notin BeforeExports \cup {"export"} /\ pc' \notin BeforeExports \cup {"export"}
      BY <1>5, BehindExports
    <2>2. pc' \notin BeforeExports /\ pc' # "export"
      BY <2>1
    <2>3. image.damaged # "exports" /\ ExportsWritten => out'.exports = image.wants.exports
      BY <2>1, Zenon DEF ExportInv
    <2>4. (image.damaged # "exports" /\ ExportsWritten)' => (out.exports = image.wants.exports)'
      BY <1>1, <2>3, ExportsFixed, Zenon
    <2>5. BeforeExports' = BeforeExports
      BY DEF BeforeExports
    <2>. QED BY <2>2, <2>4, <2>5, Zenon DEF ExportInv
  <1>. QED BY <1>2, <1>3, <1>4, <1>5, Zenon DEF Next, Step

\* The records keep their fields.
LEMMA RecordsKeepTheirFields == Spec => []Shape
  <1>. QED BY InitShape, ShapeStays, PTL DEF Spec

\* Each exported function has its own ordinal and its own name
\* (pe_read_exports_dir), in every image with the exports that are wanted: the
\* ordinals in any order, functions without a name and ordinals without a
\* function.
THEOREM ExportsAreResolved == Spec => [](ExportsWritten => ExportsResolved)
  <1>1. Init => ExportInv
    BY InitExports
  <1>2. Shape /\ ExportInv /\ [Next]_vars => ExportInv'
    BY ExportsStay
  <1>3. ExportInv => (ExportsWritten => ExportsResolved)
    <2> SUFFICES ASSUME ExportInv, ExportsWritten, Intact("exports")
                 PROVE  out.exports = image.wants.exports
      BY DEF ExportsResolved
    <2>1. pc = "loaded" /\ image.damaged # "exports"
      BY DEF Intact, Loaded
    <2>2. pc \notin BeforeExports \cup {"export"}
      BY <2>1 DEF BeforeExports
    <2>. QED BY <2>1, <2>2, Zenon DEF ExportInv
  <1>. QED BY <1>1, <1>2, <1>3, RecordsKeepTheirFields, PTL DEF Spec

-----------------------------------------------------------------------------
(* The imports.                                                            *)

\* The imports in front of thunk k of descriptor n.
Found(n, k) ==
  {x \in image.wants.imports : \E m, j \in Nat :
     (m < n \/ (m = n /\ j < k)) /\ IsBound(m, j) /\ x = ImportAt(m, j)}

\* The descriptors in front of n and the thunks in front of k can be read.
ListedUpTo(n) == Present("imports") /\ \A m \in 0..(n - 1) : IsDescriptor(DescriptorAt(m))
ThunksUpTo(n, k) == \A j \in 0..(k - 1) : IsThunk(n, j)

ModuleOf(n) == Item(ModuleAt(DescriptorAt(n)))

\* What is written in the image stays.
LEMMA ImportsFixed ==
  ASSUME image' = image
  PROVE  /\ \A n : DescriptorAt(n)' = DescriptorAt(n)
         /\ \A n : IsListed(n)' = IsListed(n)
         /\ \A n : ListedUpTo(n)' = ListedUpTo(n)
         /\ \A n : ModuleOf(n)' = ModuleOf(n)
         /\ \A n : There(ModuleAt(DescriptorAt(n)))' = There(ModuleAt(DescriptorAt(n)))
         /\ \A n, k : NameSlot(n, k)' = NameSlot(n, k)
         /\ \A n, k : BoundSlot(n, k)' = BoundSlot(n, k)
         /\ \A n, k : ThunksUpTo(n, k)' = ThunksUpTo(n, k)
         /\ \A n, k : Found(n, k)' = Found(n, k)
         /\ ImportsWritten' = ImportsWritten
  <1>1. \A a : There(a)' = There(a) /\ Item(a)' = Item(a) /\ FromRva(a)' = FromRva(a)
    BY DEF There, Item, FromRva
  <1>2. (Present("imports"))' = Present("imports") /\ DirectoryVa("imports")' = DirectoryVa("imports")
        /\ ThunkSize' = ThunkSize
    BY DEF DirectoryVa, Directory, FromRva, Present, ThunkSize, Is64
  <1>3. \A n : DescriptorAt(n)' = DescriptorAt(n)
    BY <1>2, Zenon DEF DescriptorAt, DescriptorSize
  <1>4. \A a : IsDescriptor(a)' = IsDescriptor(a)
    BY DEF IsDescriptor, There, Item
  <1>5. \A n : IsListed(n)' = IsListed(n)
    BY <1>2, <1>3, <1>4, Zenon DEF IsListed
  <1>6. \A n : ListedUpTo(n)' = ListedUpTo(n)
    BY <1>2, <1>3, <1>4, Zenon DEF ListedUpTo
  <1>7. \A a : ModuleAt(a)' = ModuleAt(a)
    BY <1>1, Zenon DEF ModuleAt
  <1>8. \A n : ModuleOf(n)' = ModuleOf(n)
    BY <1>1, <1>3, <1>7, Zenon DEF ModuleOf
  <1>9. \A n : There(ModuleAt(DescriptorAt(n)))' = There(ModuleAt(DescriptorAt(n)))
    BY <1>1, <1>3, <1>7, Zenon
  <1>10. \A a, b : TableOf(a, b)' = TableOf(a, b)
    BY DEF TableOf, FromRva
  <1>11. \A n, k : NameSlot(n, k)' = NameSlot(n, k)
    BY <1>1, <1>2, <1>3, <1>10, Zenon DEF NameSlot
  <1>12. \A n, k : BoundSlot(n, k)' = BoundSlot(n, k)
    BY <1>1, <1>2, <1>3, <1>10, Zenon DEF BoundSlot
  <1>13. \A n, k : IsThunk(n, k)' = IsThunk(n, k)
    BY <1>1, <1>11, <1>12, Zenon DEF IsThunk
  <1>14. \A n, k : ThunksUpTo(n, k)' = ThunksUpTo(n, k)
    BY <1>13, Zenon DEF ThunksUpTo
  <1>15. \A n, k : IsBound(n, k)' = IsBound(n, k)
    BY <1>5, <1>9, <1>13, Zenon DEF IsBound
  <1>16. \A n, k : ImportAt(n, k)' = ImportAt(n, k)
    <2>1. \A n, k : Item(NameSlot(n, k))' = Item(NameSlot(n, k))
      BY <1>1, <1>11, Zenon
    <2>2. \A n, k : FromRva(Item(NameSlot(n, k)).value)' = FromRva(Item(NameSlot(n, k)).value)
      BY <1>1, <2>1, Zenon
    <2>3. \A n, k : Item(FromRva(Item(NameSlot(n, k)).value))' = Item(FromRva(Item(NameSlot(n, k)).value))
      BY <1>1, <2>2, Zenon
    <2>4. \A n : Item(ModuleAt(DescriptorAt(n)))' = Item(ModuleAt(DescriptorAt(n)))
      BY <1>8, Zenon DEF ModuleOf
    <2>. QED BY <1>12, <2>1, <2>3, <2>4, Zenon DEF ImportAt
  <1>17. \A n, k : Found(n, k)' = Found(n, k)
    BY <1>15, <1>16, Zenon DEF Found
  <1>18. ImportsWritten' = ImportsWritten
    <2>1. \A n : Item(DescriptorAt(n))' = Item(DescriptorAt(n))
      BY <1>1, <1>3, Zenon
    <2>2. \A n, k : Item(NameSlot(n, k))' = Item(NameSlot(n, k))
      BY <1>1, <1>11, Zenon
    <2>3. \A n, k : There(FromRva(Item(NameSlot(n, k)).value))' = There(FromRva(Item(NameSlot(n, k)).value))
      BY <1>1, <2>2, Zenon
    <2>4. \A n : (Item(DescriptorAt(n)).oft \in Nat /\ Item(DescriptorAt(n)).ft \in Nat)' <=>
                 (Item(DescriptorAt(n)).oft \in Nat /\ Item(DescriptorAt(n)).ft \in Nat)
      BY <2>1, Zenon
    <2>5. \A n, k :
            (Item(NameSlot(n, k)).ord \/ There(FromRva(Item(NameSlot(n, k)).value)))' <=>
            (Item(NameSlot(n, k)).ord \/ There(FromRva(Item(NameSlot(n, k)).value)))
      BY <2>2, <2>3, Zenon
    <2>6. \A n, k : (ImportAt(n, k) \in image.wants.imports)' <=>
                    (ImportAt(n, k) \in image.wants.imports)
      BY <1>16, Zenon
    <2>. QED BY <1>5, <1>15, <1>16, <2>4, <2>5, <2>6, SMTT(30) DEF ImportsWritten
  <1>. QED BY <1>3, <1>5, <1>6, <1>8, <1>9, <1>11, <1>12, <1>14, <1>17, <1>18, Zenon

\* The reader comes back from elsewhere.
LEMMA BackFromElsewhere ==
  ASSUME NEW r, DOMAIN r = {"pos", "stack"}, r.stack = <<>>, NEW a
  PROVE  Elsewhere(r, a).pos = r.pos /\ Elsewhere(r, a).stack = <<>>
  <1> DEFINE p == r.pos
             s == To(Saved(r), a)
  <1>1. s.stack = <<p>>
    <2>1. Saved(r).stack = Append(<<>>, p) /\ DOMAIN Saved(r) = {"pos", "stack"}
      BY Moved
    <2>2. Append(<<>>, p) = <<p>>
      OBVIOUS
    <2> DEFINE q == Saved(r)
    <2> HIDE DEF q
    <2>3. To(q, a).stack = q.stack
      BY <2>1, Moved DEF q
    <2>. QED BY <2>1, <2>2, <2>3 DEF q
  <1> HIDE DEF p, s
  <1>2. Restored(s) = [pos |-> Last(<<p>>), stack |-> Front(<<p>>)]
    BY <1>1 DEF Restored
  <1>3. Last(<<p>>) = p /\ Front(<<p>>) = <<>>
    BY DEF Last, Front
  <1>. QED BY <1>2, <1>3 DEF Elsewhere, s, p

\* A descriptor is followed by the next,
LEMMA NextDescriptor ==
  ASSUME image \in Images, NEW n \in Nat
  PROVE  /\ DescriptorAt(n + 1) = DescriptorAt(n) + DescriptorSize
         /\ DescriptorAt(0) = DirectoryVa("imports")
  <1> DEFINE b == DirectoryVa("imports")
  <1>1. b \in Nat
    BY ImagesAssumption DEF DirectoryVa, Directory, FromRva
  <1> HIDE DEF b
  <1>2. /\ DescriptorAt(n + 1) = b + 20 * (n + 1) /\ DescriptorAt(n) = b + 20 * n
        /\ DescriptorAt(0) = b + 20 * 0
    BY DEF DescriptorAt, DescriptorSize, b
  <1>3. DescriptorAt(n + 1) = DescriptorAt(n) + DescriptorSize
    BY <1>1, <1>2 DEF DescriptorSize
  <1>4. DescriptorAt(0) = b
    BY <1>1, <1>2
  <1>. QED BY <1>3, <1>4 DEF b

\* and a thunk by the next thunk.
LEMMA NextThunk ==
  ASSUME image \in Images, ImportsWritten, NEW n \in Nat, IsListed(n), NEW k \in Nat
  PROVE  /\ NameSlot(n, k + 1) = NameSlot(n, k) + ThunkSize
         /\ BoundSlot(n, k + 1) = BoundSlot(n, k) + ThunkSize
         /\ NameSlot(n, 0) = FromRva(LookupTable(Item(DescriptorAt(n))))
         /\ BoundSlot(n, 0) = FromRva(AddressTable(Item(DescriptorAt(n))))
  <1> DEFINE d == Item(DescriptorAt(n))
             o == d.oft
             f == d.ft
             b == image.base
             w == ThunkSize
             lookup == TableOf(o, f)
             address == TableOf(f, o)
  <1>1. o \in Nat /\ f \in Nat /\ b \in Nat /\ w \in Nat
    BY ImagesAssumption DEF ImportsWritten, ThunkSize
  <1>2. lookup = FromRva(LookupTable(d)) /\ address = FromRva(AddressTable(d))
    BY DEF TableOf, LookupTable, AddressTable
  <1>3. /\ NameSlot(n, k) = lookup + w * k /\ NameSlot(n, k + 1) = lookup + w * (k + 1)
        /\ NameSlot(n, 0) = lookup + w * 0
        /\ BoundSlot(n, k) = address + w * k /\ BoundSlot(n, k + 1) = address + w * (k + 1)
        /\ BoundSlot(n, 0) = address + w * 0
    BY DEF NameSlot, BoundSlot
  <1>4. lookup \in Nat /\ address \in Nat
    <2> HIDE DEF o, f, b
    <2>1. lookup = b + (IF o # 0 THEN o ELSE f) /\ address = b + (IF f # 0 THEN f ELSE o)
      BY DEF TableOf, FromRva, b
    <2> HIDE DEF lookup, address
    <2>. QED BY <1>1, <2>1
  <1>5. w \in {4, 8}
    BY DEF ThunkSize
  <1> HIDE DEF lookup, address, w, d, o, f, b
  <1>6. w * (k + 1) = w * k + w /\ w * k \in Nat /\ w * 0 = 0
    BY <1>5
  <1> DEFINE wk == w * k
  <1>7. /\ NameSlot(n, k) = lookup + wk /\ NameSlot(n, k + 1) = lookup + (wk + w)
        /\ BoundSlot(n, k) = address + wk /\ BoundSlot(n, k + 1) = address + (wk + w)
        /\ wk \in Nat
        /\ NameSlot(n, 0) = lookup + 0 /\ BoundSlot(n, 0) = address + 0
    BY <1>3, <1>6
  <1> HIDE DEF wk
  <1>8. NameSlot(n, k + 1) = NameSlot(n, k) + w /\ BoundSlot(n, k + 1) = BoundSlot(n, k) + w
    BY <1>1, <1>4, <1>7
  <1>9. NameSlot(n, 0) = lookup /\ BoundSlot(n, 0) = address
    BY <1>4, <1>7
  <1>. QED BY <1>2, <1>8, <1>9 DEF w, d

\* A thunk that can be read is an import.
LEMMA FoundThunk ==
  ASSUME ImportsWritten, NEW n \in Nat, NEW k \in Nat, IsBound(n, k)
  PROVE  Found(n, k + 1) = Found(n, k) \cup {ImportAt(n, k)}
  <1>1. \A j \in Nat : j < k + 1 <=> j < k \/ j = k
    OBVIOUS
  <1>2. ImportAt(n, k) \in image.wants.imports
    BY DEF ImportsWritten
  <1>3. \A x : x \in Found(n, k + 1) <=> x \in Found(n, k) \/ x = ImportAt(n, k)
    BY <1>1, <1>2, Zenon DEF Found
  <1>. QED BY <1>3

\* Behind a thunk that cannot be read its module has no imports.
LEMMA FoundModule ==
  ASSUME NEW n \in Nat, NEW k \in Nat,
         \A j \in Nat : IsBound(n, j) => j < k
  PROVE  Found(n + 1, 0) = Found(n, k)
  <1>1. \A m \in Nat : m < n + 1 <=> m < n \/ m = n
    OBVIOUS
  <1>2. \A j \in Nat : ~(j < 0)
    OBVIOUS
  <1>3. \A x : x \in Found(n + 1, 0) <=> x \in Found(n, k)
    BY <1>1, <1>2, Zenon DEF Found
  <1>. QED BY <1>3

\* And behind the descriptors there are none.
LEMMA FoundAll ==
  ASSUME ImportsWritten, NEW n \in Nat, \A m \in Nat : IsListed(m) => m < n
  PROVE  /\ Found(n, 0) \subseteq image.wants.imports
         /\ image.damaged # "imports" => Found(n, 0) = image.wants.imports
  <1>1. Found(n, 0) \subseteq image.wants.imports
    BY DEF Found
  <1>2. ASSUME image.damaged # "imports", NEW x \in image.wants.imports
        PROVE  x \in Found(n, 0)
    <2>1. PICK m, j \in Nat : IsBound(m, j) /\ x = ImportAt(m, j)
      BY <1>2 DEF ImportsWritten
    <2>2. m < n
      BY <2>1 DEF IsBound
    <2>. QED BY <2>1, <2>2 DEF Found
  <1>. QED BY <1>1, <1>2

BeforeImports == {"sections", "rejected", "exports", "export", "imports"}

\* The reader is at descriptor n, what is in front of it has been read.
AtDescriptor(n) ==
  /\ reader.pos = DescriptorAt(n) /\ reader.stack = <<>>
  /\ ListedUpTo(n)
  /\ out.imports = Found(n, 0)

\* The reader is at thunk k of descriptor n and returns to the next descriptor.
AtThunk(n, k) ==
  /\ reader.stack = <<DescriptorAt(n + 1)>>
  /\ IsListed(n) /\ There(ModuleAt(DescriptorAt(n)))
  /\ cur.module = ModuleOf(n)
  /\ cur.oft = NameSlot(n, k) /\ cur.ft = BoundSlot(n, k)
  /\ ThunksUpTo(n, k)
  /\ out.imports = Found(n, k)

\* The imports up to the one that is read have been found.
ImportInv ==
  /\ pc \in BeforeImports => reader.stack = <<>> /\ out.imports = {}
  /\ ImportsWritten =>
       /\ pc = "descriptor" => \E n \in Nat : AtDescriptor(n)
       /\ pc = "thunk" => \E n, k \in Nat : AtThunk(n, k)
       /\ pc \notin BeforeImports \cup {"descriptor", "thunk"} =>
            /\ out.imports \subseteq image.wants.imports
            /\ image.damaged # "imports" => out.imports = image.wants.imports

\* At the start nothing is found.
LEMMA InitImports ==
  ASSUME Init
  PROVE  ImportInv
  BY DEF Init, ImportInv, BeforeImports

\* The exports come back from elsewhere.
LEMMA ExportsKeepStack ==
  ASSUME Shape, ReadExports, reader.stack = <<>>
  PROVE  reader'.stack = <<>>
  <1>1. CASE ExportsOpen \/ SkipExport \/ ExportsDone
    <2>1. reader' = reader \/ \E a : reader' = To(reader, a)
      BY <1>1 DEF ExportsOpen, SkipExport, ExportsDone
    <2>. QED BY <2>1, Moved DEF Shape
  <1>2. CASE Export
    <2> DEFINE behind == To(reader, reader.pos + 4)
               ordinals == FromRva(ExportTables.ordinals)
               r == Elsewhere(behind, ordinals)
    <2>1. DOMAIN behind = {"pos", "stack"} /\ behind.stack = <<>>
      BY Moved DEF Shape
    <2>2. reader' = To(r, reader.pos + 4)
      BY <1>2 DEF Export
    <2>3. DOMAIN r = {"pos", "stack"} /\ r.stack = <<>>
      <3> HIDE DEF behind, ordinals
      <3>. QED BY <2>1, Moved, BackFromElsewhere
    <2> HIDE DEF r
    <2>. QED BY <2>2, <2>3, Moved
  <1>. QED BY <1>1, <1>2, Zenon DEF ReadExports

\* One more descriptor can be read.
LEMMA OneMoreListed ==
  ASSUME NEW n \in Nat, ListedUpTo(n), IsDescriptor(DescriptorAt(n))
  PROVE  IsListed(n) /\ ListedUpTo(n + 1)
  <1>1. \A m \in 0..n : m \in 0..(n - 1) \/ m = n
    OBVIOUS
  <1>2. n + 1 - 1 = n
    OBVIOUS
  <1>. QED BY <1>1, <1>2 DEF ListedUpTo, IsListed

\* The same for the thunks of a descriptor.
LEMMA OneMoreThunk ==
  ASSUME NEW n \in Nat, NEW k \in Nat, ThunksUpTo(n, k), IsThunk(n, k),
         IsListed(n), There(ModuleAt(DescriptorAt(n)))
  PROVE  IsBound(n, k) /\ ThunksUpTo(n, k + 1)
  <1>1. \A m \in 0..k : m \in 0..(k - 1) \/ m = k
    OBVIOUS
  <1>2. k + 1 - 1 = k
    OBVIOUS
  <1>3. \A m \in 0..k : IsThunk(n, m)
    BY <1>1 DEF ThunksUpTo
  <1>. QED BY <1>2, <1>3 DEF ThunksUpTo, IsBound

\* The first descriptor is next, or there are none.
LEMMA ImportsOpenKeeps ==
  ASSUME Shape, ImportInv, ImportsWritten, ImportsOpen
  PROVE  \/ pc' = "descriptor" /\ AtDescriptor(0)'
         \/ /\ pc' = "resources"
            /\ out'.imports \subseteq image.wants.imports
            /\ image.damaged # "imports" => out'.imports = image.wants.imports
  <1>1. image \in Images /\ image' = image /\ out' = out /\ reader.stack = <<>> /\ out.imports = {}
    BY DEF Shape, ImportsOpen, ImportInv, BeforeImports
  <1>2. CASE Present("imports")
    <2>1. pc' = "descriptor" /\ reader' = To(reader, DirectoryVa("imports"))
      BY <1>2 DEF ImportsOpen
    <2>2. reader'.pos = DirectoryVa("imports") /\ reader'.stack = <<>>
      BY <1>1, <2>1, Moved DEF Shape
    <2>3. reader'.pos = DescriptorAt(0)
      BY <1>1, <2>2, NextDescriptor
    <2>4. ListedUpTo(0)
      BY <1>2 DEF ListedUpTo
    <2>5. Found(0, 0) = {}
      BY DEF Found
    <2>6. AtDescriptor(0)'
      BY <1>1, <2>2, <2>3, <2>4, <2>5, ImportsFixed DEF AtDescriptor
    <2>. QED BY <2>1, <2>6
  <1>3. CASE ~Present("imports")
    <2>1. pc' = "resources"
      BY <1>3 DEF ImportsOpen, GoTo
    <2>2. \A m \in Nat : ~IsListed(m)
      BY <1>3 DEF IsListed
    <2>3. image.damaged # "imports" => image.wants.imports = {}
      BY <2>2 DEF ImportsWritten, IsBound
    <2>. QED BY <1>1, <2>1, <2>3
  <1>. QED BY <1>2, <1>3

\* A descriptor leads to its first thunk, or it has none.
LEMMA DescriptorKeeps ==
  ASSUME Shape, ImportsWritten, Descriptor, NEW n \in Nat, AtDescriptor(n)
  PROVE  \/ pc' = "thunk" /\ AtThunk(n, 0)'
         \/ pc' = "descriptor" /\ AtDescriptor(n + 1)'
  <1> DEFINE d == Item(reader.pos)
             behind == To(reader, reader.pos + DescriptorSize)
  <1>1. image \in Images /\ image' = image
    BY DEF Shape, Descriptor
  <1>2. /\ reader.pos = DescriptorAt(n) /\ reader.stack = <<>>
        /\ ListedUpTo(n) /\ out.imports = Found(n, 0) /\ IsDescriptor(DescriptorAt(n))
    BY DEF AtDescriptor, Descriptor
  <1>3. IsListed(n) /\ ListedUpTo(n + 1)
    BY <1>2, OneMoreListed
  <1>4. out'.imports = Found(n, 0)
    BY <1>2, DescriptorEffect DEF Quiet
  <1>5. reader.pos + DescriptorSize = DescriptorAt(n + 1)
    BY <1>1, <1>2, NextDescriptor
  <1>6. d = Item(DescriptorAt(n)) /\ FromRva(d.name) = ModuleAt(DescriptorAt(n))
    BY <1>2 DEF ModuleAt
  <1>7. CASE There(FromRva(d.name))
    <2>1. /\ pc' = "thunk"
          /\ reader'.stack = Append(<<>>, DescriptorAt(n + 1))
          /\ cur'.module = Item(FromRva(d.name))
          /\ cur'.oft = FromRva(LookupTable(d))
          /\ cur'.ft = FromRva(AddressTable(d))
      BY <1>2, <1>5, <1>7, DescriptorEffect
    <2>2. reader'.stack = <<DescriptorAt(n + 1)>>
      BY <2>1
    <2>3. cur'.oft = NameSlot(n, 0) /\ cur'.ft = BoundSlot(n, 0)
      <3>1. NameSlot(n, 0) = FromRva(LookupTable(d)) /\ BoundSlot(n, 0) = FromRva(AddressTable(d))
        BY <1>1, <1>3, <1>6, NextThunk, Zenon
      <3>. QED BY <2>1, <3>1
    <2>4. There(ModuleAt(DescriptorAt(n))) /\ cur'.module = ModuleOf(n)
      BY <1>6, <1>7, <2>1 DEF ModuleOf
    <2>5. ThunksUpTo(n, 0)
      BY DEF ThunksUpTo
    <2> HIDE DEF d, behind
    <2>6. AtThunk(n, 0)'
      BY <1>1, <1>3, <1>4, <2>2, <2>3, <2>4, <2>5, ImportsFixed, Zenon DEF AtThunk
    <2>. QED BY <2>1, <2>6
  <1>8. CASE ~There(FromRva(d.name))
    <2>1. pc' = "descriptor" /\ reader' = Elsewhere(behind, FromRva(d.name))
      BY <1>8, DescriptorEffect
    <2>2. DOMAIN behind = {"pos", "stack"} /\ behind.pos = DescriptorAt(n + 1) /\ behind.stack = <<>>
      BY <1>2, <1>5, Moved DEF Shape
    <2> DEFINE name == FromRva(d.name)
    <2>3. reader'.pos = DescriptorAt(n + 1) /\ reader'.stack = <<>>
      <3> HIDE DEF behind, name
      <3>. QED BY <2>1, <2>2, BackFromElsewhere
    <2>4. \A j \in Nat : ~IsBound(n, j)
      BY <1>6, <1>8 DEF IsBound
    <2>5. Found(n + 1, 0) = Found(n, 0)
      BY <2>4, FoundModule
    <2>6. AtDescriptor(n + 1)'
      BY <1>1, <1>3, <1>4, <2>3, <2>5, ImportsFixed, Zenon DEF AtDescriptor
    <2>. QED BY <2>1, <2>6
  <1>. QED BY <1>7, <1>8

\* A thunk is followed by the next one.
LEMMA ThunkKeeps ==
  ASSUME Shape, ImportsWritten, Thunk, NEW n \in Nat, NEW k \in Nat, AtThunk(n, k)
  PROVE  AtThunk(n, k + 1)'
  <1>1. image \in Images /\ image' = image
    BY DEF Shape, Thunk
  <1>2. /\ reader.stack = <<DescriptorAt(n + 1)>>
        /\ IsListed(n) /\ There(ModuleAt(DescriptorAt(n)))
        /\ cur.module = ModuleOf(n)
        /\ cur.oft = NameSlot(n, k) /\ cur.ft = BoundSlot(n, k)
        /\ ThunksUpTo(n, k) /\ out.imports = Found(n, k)
    BY DEF AtThunk
  <1>3. IsThunk(n, k)
    BY <1>2 DEF Thunk, ThunkReadable, IsTerminator, IsThunk
  <1>4. IsBound(n, k) /\ ThunksUpTo(n, k + 1)
    BY <1>2, <1>3, OneMoreThunk
  <1>5. /\ reader'.stack = <<DescriptorAt(n + 1)>> /\ cur'.module = ModuleOf(n)
        /\ cur'.oft = NameSlot(n, k + 1) /\ cur'.ft = BoundSlot(n, k + 1)
    BY <1>1, <1>2, ThunkEffect, NextThunk
  <1>6. Found(n, k + 1) = Found(n, k) \cup {ImportAt(n, k)}
    BY <1>4, FoundThunk
  <1> DEFINE thunk == Item(NameSlot(n, k))
             i == [addr |-> BoundSlot(n, k), module |-> ModuleOf(n),
                   ord |-> Imported(thunk).ord, name |-> Imported(thunk).name]
  <1>7. out'.imports = Found(n, k) \cup {i}
    BY <1>2, ThunkEffect, Zenon
  <1>8. i = ImportAt(n, k)
    <2>1. thunk.ord \/ There(FromRva(thunk.value))
      BY <1>4 DEF ImportsWritten
    <2>2. CASE thunk.ord
      <3>1. Imported(thunk).ord = thunk.value /\ Imported(thunk).name = ""
        BY <2>2 DEF Imported
      <3>. QED BY <2>2, <3>1 DEF ImportAt, ModuleOf
    <2>3. CASE ~thunk.ord
      <3>1. Imported(thunk).ord = 0 /\ Imported(thunk).name = Item(FromRva(thunk.value))
        BY <2>1, <2>3 DEF Imported
      <3>. QED BY <2>3, <3>1 DEF ImportAt, ModuleOf
    <2>. QED BY <2>2, <2>3
  <1> HIDE DEF i
  <1>9. out'.imports = Found(n, k + 1)
    BY <1>6, <1>7, <1>8
  <1>. QED BY <1>1, <1>2, <1>4, <1>5, <1>9, ImportsFixed, Zenon DEF AtThunk

\* Behind the thunks the reader is at the next descriptor.
LEMMA ThunksDoneKeeps ==
  ASSUME Shape, ImportsWritten, ThunksDone, NEW n \in Nat, NEW k \in Nat, AtThunk(n, k)
  PROVE  AtDescriptor(n + 1)'
  <1>1. image \in Images /\ image' = image
    BY DEF Shape, ThunksDone
  <1>2. /\ reader.stack = <<DescriptorAt(n + 1)>>
        /\ IsListed(n) /\ cur.oft = NameSlot(n, k) /\ cur.ft = BoundSlot(n, k)
        /\ out.imports = Found(n, k)
    BY DEF AtThunk
  <1>3. ~IsThunk(n, k)
    BY <1>2 DEF ThunksDone, ThunkReadable, IsTerminator, IsThunk
  <1>4. \A j \in Nat : IsBound(n, j) => j < k
    <2>1. \A j \in Nat : ~(j < k) => k \in 0..j
      OBVIOUS
    <2>. QED BY <1>3, <2>1, Zenon DEF IsBound
  <1>5. Found(n + 1, 0) = Found(n, k)
    BY <1>4, FoundModule
  <1> DEFINE p == DescriptorAt(n + 1)
  <1>6. reader'.pos = p /\ reader'.stack = <<>>
    <2>1. reader' = Restored(reader) /\ reader.stack = <<p>>
      BY <1>2, ThunksDoneEffect
    <2> HIDE DEF p
    <2>2. reader' = [pos |-> Last(<<p>>), stack |-> Front(<<p>>)]
      BY <2>1 DEF Restored
    <2>3. Last(<<p>>) = p /\ Front(<<p>>) = <<>>
      BY DEF Last, Front
    <2>. QED BY <2>2, <2>3
  <1>7. out'.imports = Found(n, k)
    BY <1>2, ThunksDoneEffect DEF Quiet
  <1>8. ListedUpTo(n + 1)
    <2>1. n + 1 - 1 = n
      OBVIOUS
    <2>. QED BY <1>2, <2>1 DEF IsListed, ListedUpTo
  <1>. QED BY <1>1, <1>5, <1>6, <1>7, <1>8, ImportsFixed, Zenon DEF AtDescriptor

\* Where the descriptors end all imports have been found.
LEMMA ImportsDoneKeeps ==
  ASSUME Shape, ImportsWritten, ImportsDone, NEW n \in Nat, AtDescriptor(n)
  PROVE  /\ out'.imports \subseteq image.wants.imports
         /\ image.damaged # "imports" => out'.imports = image.wants.imports
  <1>1. reader.pos = DescriptorAt(n) /\ out' = out /\ out.imports = Found(n, 0)
    BY DEF AtDescriptor, ImportsDone
  <1>2. ~IsDescriptor(DescriptorAt(n))
    BY <1>1 DEF ImportsDone
  <1>3. \A m \in Nat : IsListed(m) => m < n
    <2>1. \A m \in Nat : ~(m < n) => n \in 0..m
      OBVIOUS
    <2>. QED BY <1>2, <2>1, Zenon DEF IsListed
  <1>. QED BY <1>1, <1>3, FoundAll

\* Behind the imports the load goes on, and imports are only found there.
LEMMA BehindImports ==
  ASSUME Shape, \/ ReadResources \/ ReadExceptions \/ ReadDebug
                \/ ReadTls \/ ReadConfig \/ SetEntryPoint \/ Classify
  PROVE  /\ out'.imports = out.imports
         /\ pc \notin BeforeImports \cup {"descriptor", "thunk"}
         /\ pc' \notin BeforeImports \cup {"descriptor", "thunk"}
  <1>2. CASE ReadResources
    BY <1>2, ResourcesSteps DEF BeforeImports, Quiet
  <1>3. CASE ReadExceptions
    BY <1>3, ExceptionsSteps DEF BeforeImports
  <1>4. CASE ReadDebug
    BY <1>4, DebugSteps DEF BeforeImports, Quiet
  <1>5. CASE ReadTls
    BY <1>5, TlsSteps DEF BeforeImports
  <1>6. CASE ReadConfig
    BY <1>6, ConfigSteps DEF BeforeImports
  <1>7. CASE SetEntryPoint
    <2>1. pc = "entrypoint"
      BY <1>7 DEF SetEntryPoint
    <2>. QED BY <1>7, <2>1, SetEntryPointEffect DEF BeforeImports
  <1>8. CASE Classify
    BY <1>8, ClassifyEffect DEF BeforeImports, Quiet
  <1>. QED BY <1>2, <1>3, <1>4, <1>5, <1>6, <1>7, <1>8, Zenon

\* Reading the imports.
LEMMA ReadImportsKeeps ==
  ASSUME Shape, ImportInv, ReadImports
  PROVE  ImportInv'
  <1>1. image' = image /\ ImportsWritten' = ImportsWritten
    <2>1. image' = image
      BY ImageStays DEF Next, Step
    <2>. QED BY <2>1, ImportsFixed
  <1>2. pc' \notin BeforeImports
    <2>1. CASE ImportsOpen
      BY <2>1 DEF ImportsOpen, GoTo, BeforeImports
    <2>2. CASE Descriptor
      BY <2>2, DescriptorEffect DEF BeforeImports
    <2>3. CASE Thunk \/ ThunksDone \/ ImportsDone
      BY <2>3 DEF Thunk, ThunksDone, ImportsDone, GoTo, BeforeImports
    <2>. QED BY <2>1, <2>2, <2>3 DEF ReadImports
  <1> SUFFICES ASSUME ImportsWritten
               PROVE  /\ pc' = "descriptor" => \E n \in Nat : AtDescriptor(n)'
                      /\ pc' = "thunk" => \E n, k \in Nat : AtThunk(n, k)'
                      /\ pc' \notin {"descriptor", "thunk"} =>
                           /\ out'.imports \subseteq image.wants.imports
                           /\ image.damaged # "imports" => out'.imports = image.wants.imports
    BY <1>1, <1>2 DEF ImportInv, BeforeImports
  <1>3. CASE ImportsOpen
    BY <1>3, ImportsOpenKeeps
  <1>4. CASE Descriptor
    <2>1. PICK n \in Nat : AtDescriptor(n)
      BY <1>4 DEF Descriptor, ImportInv
    <2>2. \/ pc' = "thunk" /\ AtThunk(n, 0)'
          \/ pc' = "descriptor" /\ AtDescriptor(n + 1)'
      BY <1>4, <2>1, DescriptorKeeps
    <2>3. 0 \in Nat /\ n + 1 \in Nat
      OBVIOUS
    <2>. QED BY <2>2, <2>3
  <1>5. CASE Thunk
    <2>1. PICK n, k \in Nat : AtThunk(n, k)
      BY <1>5 DEF Thunk, ImportInv
    <2>2. AtThunk(n, k + 1)'
      BY <1>5, <2>1, ThunkKeeps
    <2>3. pc' = "thunk" /\ k + 1 \in Nat
      BY <1>5 DEF Thunk
    <2>. QED BY <2>2, <2>3
  <1>6. CASE ThunksDone
    <2>1. PICK n, k \in Nat : AtThunk(n, k)
      BY <1>6 DEF ThunksDone, ImportInv
    <2>2. AtDescriptor(n + 1)'
      BY <1>6, <2>1, ThunksDoneKeeps
    <2>3. pc' = "descriptor" /\ n + 1 \in Nat
      BY <1>6 DEF ThunksDone
    <2>. QED BY <2>2, <2>3
  <1>7. CASE ImportsDone
    <2>1. PICK n \in Nat : AtDescriptor(n)
      BY <1>7 DEF ImportsDone, ImportInv
    <2>2. /\ out'.imports \subseteq image.wants.imports
          /\ image.damaged # "imports" => out'.imports = image.wants.imports
      BY <1>7, <2>1, ImportsDoneKeeps
    <2>3. pc' = "resources"
      BY <1>7 DEF ImportsDone, GoTo
    <2>. QED BY <2>2, <2>3
  <1>. QED BY <1>3, <1>4, <1>5, <1>6, <1>7 DEF ReadImports

\* Nothing happens.
LEMMA ImportsStutter ==
  ASSUME ImportInv, UNCHANGED vars
  PROVE  ImportInv'
  <1>1. image' = image /\ pc' = pc /\ reader' = reader /\ cur' = cur /\ out' = out
    BY DEF vars
  <1>2. \A n : AtDescriptor(n)' = AtDescriptor(n)
    BY <1>1, ImportsFixed, Zenon DEF AtDescriptor
  <1>3. \A n, k : AtThunk(n, k) => AtThunk(n, k)'
    BY <1>1, ImportsFixed, Zenon DEF AtThunk
  <1>. QED BY <1>1, <1>2, <1>3, ImportsFixed DEF ImportInv, BeforeImports

\* Every step keeps what is known of the imports.
LEMMA ImportsStay ==
  ASSUME Shape, ImportInv, [Next]_vars
  PROVE  ImportInv'
  <1>1. image' = image /\ ImportsWritten' = ImportsWritten
    BY ImageStays, ImportsFixed
  <1>2. CASE UNCHANGED vars
    BY <1>2, ImportsStutter
  <1>3. CASE MapSection \/ SectionsMapped
    BY <1>1, <1>3, SectionsEffect DEF ImportInv, BeforeImports
  <1>4. CASE ReadExports
    <2>1. pc \in BeforeImports /\ pc' \in BeforeImports \ {"descriptor", "thunk"}
      BY <1>4, ExportsSteps DEF BeforeImports
    <2>2. reader'.stack = <<>> /\ out'.imports = {}
      BY <1>4, <2>1, ExportsKeepStack, ExportsSteps DEF ImportInv
    <2>3. pc' \in BeforeImports /\ pc' # "descriptor" /\ pc' # "thunk"
      BY <2>1
    <2>. QED BY <2>2, <2>3 DEF ImportInv, BeforeImports
  <1>5. CASE ReadImports
    BY <1>5, ReadImportsKeeps
  <1>6. CASE \/ ReadResources \/ ReadExceptions \/ ReadDebug
             \/ ReadTls \/ ReadConfig \/ SetEntryPoint \/ Classify
    <2>1. /\ out'.imports = out.imports
          /\ pc \notin BeforeImports \cup {"descriptor", "thunk"}
          /\ pc' \notin BeforeImports \cup {"descriptor", "thunk"}
      BY <1>6, BehindImports
    <2>2. ImportsWritten =>
            /\ out'.imports \subseteq image.wants.imports
            /\ image.damaged # "imports" => out'.imports = image.wants.imports
      BY <2>1, Zenon DEF ImportInv
    <2>. QED BY <1>1, <2>1, <2>2 DEF ImportInv, BeforeImports
  <1>. QED BY <1>2, <1>3, <1>4, <1>5, <1>6, Zenon DEF Next, Step

\* Each import is bound once, to the module and the name or ordinal that its own
\* entry of the lookup table names (pe_read_imports_dir), in every image with the
\* imports that are wanted: whichever table is missing or bound already and
\* whichever directory is damaged.
THEOREM ImportsAreResolved == Spec => [](ImportsWritten => ImportsResolved)
  <1>1. Init => ImportInv
    BY InitImports
  <1>2. Shape /\ ImportInv /\ [Next]_vars => ImportInv'
    BY ImportsStay
  <1>3. ImportInv => (ImportsWritten => ImportsResolved)
    <2> SUFFICES ASSUME ImportInv, ImportsWritten
                 PROVE  ImportsResolved
      OBVIOUS
    <2>1. out.imports \subseteq image.wants.imports
      <3>1. \A n, k : Found(n, k) \subseteq image.wants.imports
        BY DEF Found
      <3>2. CASE pc = "descriptor"
        BY <3>1, <3>2 DEF ImportInv, AtDescriptor
      <3>3. CASE pc = "thunk"
        BY <3>1, <3>3 DEF ImportInv, AtThunk
      <3>4. CASE pc \notin {"descriptor", "thunk"}
        BY <3>4 DEF ImportInv
      <3>. QED BY <3>2, <3>3, <3>4
    <2>2. Intact("imports") => out.imports = image.wants.imports
      BY DEF Intact, Loaded, ImportInv, BeforeImports
    <2>. QED BY <2>1, <2>2 DEF ImportsResolved
  <1>. QED BY <1>1, <1>2, <1>3, RecordsKeepTheirFields, PTL DEF Spec

-----------------------------------------------------------------------------
(* The functions.                                                          *)

\* The functions of the first n exports grow by one, or they are all.
LEMMA ExportedGrow ==
  ASSUME NEW n \in Nat
  PROVE  /\ ExportedFunctions(0) = {}
         /\ ExportedFunctions(n + 1) = ExportedFunctions(n) \cup {a \in {ExportVa(n)} : IsExportedFunction(n)}
         /\ (\A k \in Nat : IsExportedFunction(k) => k < n) => ExportedFunctions(n) = AllExported
  <1>1. ExportedFunctions(0) = {}
    BY DEF ExportedFunctions
  <1>2. \A i \in Nat : i < n + 1 <=> i < n \/ i = n
    OBVIOUS
  <1>3. \A x : x \in ExportedFunctions(n + 1) <=>
                 x \in ExportedFunctions(n) \/ (x = ExportVa(n) /\ IsExportedFunction(n))
    BY <1>2, Zenon DEF ExportedFunctions
  <1>4. ASSUME \A k \in Nat : IsExportedFunction(k) => k < n
        PROVE  ExportedFunctions(n) = AllExported
    BY <1>4, Zenon DEF ExportedFunctions, AllExported
  <1>. QED BY <1>1, <1>3, <1>4

\* The same for the functions with unwind information,
LEMMA UnwoundGrow ==
  ASSUME NEW n \in Nat
  PROVE  /\ UnwoundFunctions(0) = {}
         /\ UnwoundFunctions(n + 1) = UnwoundFunctions(n) \cup {a \in {UnwoundVa(n)} : IsUnwound(n)}
         /\ (\A k \in Nat : IsUnwound(k) => k < n) => UnwoundFunctions(n) = AllUnwound
  <1>1. UnwoundFunctions(0) = {}
    BY DEF UnwoundFunctions
  <1>2. \A i \in Nat : i < n + 1 <=> i < n \/ i = n
    OBVIOUS
  <1>3. \A x : x \in UnwoundFunctions(n + 1) <=>
                 x \in UnwoundFunctions(n) \/ (x = UnwoundVa(n) /\ IsUnwound(n))
    BY <1>2, Zenon DEF UnwoundFunctions
  <1>4. ASSUME \A k \in Nat : IsUnwound(k) => k < n
        PROVE  UnwoundFunctions(n) = AllUnwound
    BY <1>4, Zenon DEF UnwoundFunctions, AllUnwound
  <1>. QED BY <1>1, <1>3, <1>4

\* for the callbacks,
LEMMA CallbacksGrow ==
  ASSUME NEW n \in Nat
  PROVE  /\ CallbackFunctions(0) = {}
         /\ CallbackFunctions(n + 1) = CallbackFunctions(n) \cup {a \in {CallbackVa(n)} : IsCallback(n)}
         /\ (\A k \in Nat : IsCallback(k) => k < n) => CallbackFunctions(n) = AllCallbacks
  <1>1. CallbackFunctions(0) = {}
    BY DEF CallbackFunctions
  <1>2. \A i \in Nat : i < n + 1 <=> i < n \/ i = n
    OBVIOUS
  <1>3. \A x : x \in CallbackFunctions(n + 1) <=>
                 x \in CallbackFunctions(n) \/ (x = CallbackVa(n) /\ IsCallback(n))
    BY <1>2, Zenon DEF CallbackFunctions
  <1>4. ASSUME \A k \in Nat : IsCallback(k) => k < n
        PROVE  CallbackFunctions(n) = AllCallbacks
    BY <1>4, Zenon DEF CallbackFunctions, AllCallbacks
  <1>. QED BY <1>1, <1>3, <1>4

\* for the handlers,
LEMMA HandlersGrow ==
  ASSUME NEW n \in Nat
  PROVE  /\ HandlerFunctions(0) = {}
         /\ HandlerFunctions(n + 1) = HandlerFunctions(n) \cup {a \in {HandlerVa(n)} : IsHandler(n)}
         /\ (\A k \in Nat : IsHandler(k) => k < n) => HandlerFunctions(n) = AllHandlers
  <1>1. HandlerFunctions(0) = {}
    BY DEF HandlerFunctions
  <1>2. \A i \in Nat : i < n + 1 <=> i < n \/ i = n
    OBVIOUS
  <1>3. \A x : x \in HandlerFunctions(n + 1) <=>
                 x \in HandlerFunctions(n) \/ (x = HandlerVa(n) /\ IsHandler(n))
    BY <1>2, Zenon DEF HandlerFunctions
  <1>4. ASSUME \A k \in Nat : IsHandler(k) => k < n
        PROVE  HandlerFunctions(n) = AllHandlers
    BY <1>4, Zenon DEF HandlerFunctions, AllHandlers
  <1>. QED BY <1>1, <1>3, <1>4

\* and for what unwind information names.
LEMMA InfosGrow ==
  ASSUME NEW n \in Nat
  PROVE  /\ UnwindInfos(0) = {}
         /\ UnwindInfos(n + 1) = UnwindInfos(n) \cup (IF IsHandled(n) THEN InfosAt(UnwindVa(n)) ELSE {})
         /\ (\A k \in Nat : IsHandled(k) => k < n) => UnwindInfos(n) = AllInfos
  <1>1. UnwindInfos(0) = {}
    BY DEF UnwindInfos
  <1>2. \A i \in Nat : i < n + 1 <=> i < n \/ i = n
    OBVIOUS
  <1>3. \A x : x \in UnwindInfos(n + 1) <=>
                 x \in UnwindInfos(n) \/ (IsHandled(n) /\ x \in InfosAt(UnwindVa(n)))
    BY <1>2, Zenon DEF UnwindInfos
  <1>4. ASSUME \A k \in Nat : IsHandled(k) => k < n
        PROVE  UnwindInfos(n) = AllInfos
    <2>1. \A x : x \in UnwindInfos(n) <=> x \in AllInfos
      BY <1>4, Zenon DEF UnwindInfos, AllInfos
    <2>. QED BY <2>1
  <1>. QED BY <1>1, <1>3, <1>4

\* The codes are followed by one more if they are odd.
LEMMA EvenCodes ==
  ASSUME NEW c \in Nat
  PROVE  {n \in {c, c + 1} : n % 2 = 0} = {c + (c % 2)} /\ c + (c % 2) \in Nat
  <1>1. CASE c % 2 = 0
    <2>1. (c + 1) % 2 # 0
      BY <1>1
    <2>2. c + (c % 2) = c
      BY <1>1
    <2>. QED BY <1>1, <2>1, <2>2
  <1>2. CASE c % 2 # 0
    <2>1. c % 2 = 1 /\ (c + 1) % 2 = 0
      BY <1>2
    <2>. QED BY <1>2, <2>1
  <1>. QED BY <1>1, <1>2

\* What is read of unwind information is what it names.
LEMMA InfosAreRead ==
  ASSUME NEW u \in Nat, There(u), Item(u).handler, Item(u).codes \in Nat
  PROVE  FuncInfos(u) = InfosAt(u)
  <1> DEFINE c == Item(u).codes
             m == c + (c % 2)
             h == u + 4 + CodeBytes(c)
  <1>1. {n \in {c, c + 1} : n % 2 = 0} = {m} /\ m \in Nat
    BY EvenCodes
  <1>2. h = u + 4 + 2 * m /\ h + 4 = u + 8 + 2 * m
    <2>1. CodeBytes(c) = 2 * m
      BY DEF CodeBytes
    <2> HIDE DEF m
    <2>. QED BY <1>1, <2>1
  <1>3. FuncInfos(u) = IF There(h) /\ There(h + 4) /\ Item(h + 4) # 0
                       THEN {FromRva(Item(h + 4))} ELSE {}
    BY DEF FuncInfos
  <1>4. InfosAt(u) = {FromRva(Item(u + 8 + 2 * n)) : n \in
          {k \in {m} : There(u + 4 + 2 * k) /\ There(u + 8 + 2 * k) /\ Item(u + 8 + 2 * k) # 0}}
    BY <1>1, Zenon DEF InfosAt
  <1> HIDE DEF m, h
  <1>5. CASE There(h) /\ There(h + 4) /\ Item(h + 4) # 0
    <2>1. InfosAt(u) = {FromRva(Item(u + 8 + 2 * n)) : n \in {m}}
      BY <1>2, <1>4, <1>5
    <2>2. {FromRva(Item(u + 8 + 2 * n)) : n \in {m}} = {FromRva(Item(u + 8 + 2 * m))}
      BY Zenon
    <2>. QED BY <1>2, <1>3, <1>5, <2>1, <2>2
  <1>6. CASE ~(There(h) /\ There(h + 4) /\ Item(h + 4) # 0)
    <2>1. InfosAt(u) = {FromRva(Item(u + 8 + 2 * n)) : n \in {}}
      BY <1>2, <1>4, <1>6
    <2>. QED BY <1>3, <1>6, <2>1
  <1>. QED BY <1>5, <1>6

\* An entry of the table of functions is followed by the next.
LEMMA NextException ==
  ASSUME image \in Images, NEW n \in Nat
  PROVE  ExceptionSlot(n + 1) = ExceptionSlot(n) + 12 /\ ExceptionSlot(0) = DirectoryVa("exceptions")
  <1> DEFINE b == DirectoryVa("exceptions")
  <1>1. b \in Nat
    BY ImagesAssumption DEF DirectoryVa, Directory, FromRva
  <1> HIDE DEF b
  <1>2. ExceptionSlot(n + 1) = b + 12 * (n + 1) /\ ExceptionSlot(n) = b + 12 * n
        /\ ExceptionSlot(0) = b + 12 * 0
    BY DEF ExceptionSlot, b
  <1>3. ExceptionSlot(n + 1) = ExceptionSlot(n) + 12
    BY <1>1, <1>2
  <1>4. ExceptionSlot(0) = b
    BY <1>1, <1>2
  <1>. QED BY <1>3, <1>4 DEF b

\* A table of addresses.
LEMMA NextAddress ==
  ASSUME NEW b \in Nat, NEW n \in Nat
  PROVE  b + ThunkSize * (n + 1) = (b + ThunkSize * n) + ThunkSize /\ b + ThunkSize * 0 = b
  <1> DEFINE w == ThunkSize
  <1>1. w \in {4, 8}
    BY DEF ThunkSize
  <1> HIDE DEF w
  <1>2. w * (n + 1) = w * n + w /\ w * n \in Nat /\ w * 0 = 0 /\ w \in Nat
    BY <1>1
  <1> DEFINE wn == w * n
  <1>3. w * (n + 1) = wn + w /\ wn \in Nat
    BY <1>2
  <1> HIDE DEF wn
  <1>4. b + w * (n + 1) = (b + wn) + w
    BY <1>2, <1>3
  <1>5. b + w * 0 = b
    BY <1>2
  <1>. QED BY <1>4, <1>5 DEF wn, w

\* A callback is followed by the next.
LEMMA NextCallback ==
  ASSUME image \in Images, HasCallbacks, NEW n \in Nat
  PROVE  /\ CallbackSlot(n + 1) = CallbackSlot(n) + ThunkSize
         /\ CallbackSlot(0) = Item(DirectoryVa("tls")).callbacks
  <1>1. \A f \in NumbersOf("tls") : Item(DirectoryVa("tls"))[f] \in Nat
    BY ImagesAssumption DEF HasCallbacks, DirectoryVa, Directory, FromRva, Item, Present, There
  <1>2. NumbersOf("tls") = {"index", "callbacks"}
    BY DEF NumbersOf
  <1>3. Item(DirectoryVa("tls")).callbacks \in Nat
    BY <1>1, <1>2
  <1>. QED BY <1>3, NextAddress DEF CallbackSlot

\* The same for the handlers.
LEMMA NextHandler ==
  ASSUME image \in Images, HasHandlerTable, NEW n \in Nat
  PROVE  /\ HandlerSlot(n + 1) = HandlerSlot(n) + ThunkSize
         /\ HandlerSlot(0) = Item(DirectoryVa("config")).handlers
  <1>1. \A f \in NumbersOf("config") : Item(DirectoryVa("config"))[f] \in Nat
    BY ImagesAssumption DEF HasHandlerTable, DirectoryVa, Directory, FromRva, Item, Present, There
  <1>2. NumbersOf("config") = {"size", "handlers", "count"}
    BY DEF NumbersOf
  <1>3. Item(DirectoryVa("config")).handlers \in Nat
    BY <1>1, <1>2
  <1>. QED BY <1>3, NextAddress DEF HandlerSlot

\* The first n of them can be read.
EntriesUpTo(n) == HasExceptions /\ \A k \in 0..(n - 1) : IsEntry(k)
CallbacksUpTo(n) == HasCallbacks /\ \A k \in 0..(n - 1) : IsCalled(k)
HandlersUpTo(n) == HasHandlerTable /\ \A k \in 0..(n - 1) : IsCounted(k)

\* One more of the entries,
LEMMA OneMoreEntry ==
  ASSUME NEW n \in Nat, EntriesUpTo(n), IsEntry(n)
  PROVE  EntriesUpTo(n + 1) /\ IsInExceptions(n)
  <1>1. \A m \in 0..n : m \in 0..(n - 1) \/ m = n
    OBVIOUS
  <1>2. n + 1 - 1 = n
    OBVIOUS
  <1>. QED BY <1>1, <1>2 DEF EntriesUpTo, IsInExceptions

\* of the callbacks,
LEMMA OneMoreCallback ==
  ASSUME NEW n \in Nat, CallbacksUpTo(n), IsCalled(n)
  PROVE  CallbacksUpTo(n + 1) /\ IsCallback(n)
  <1>1. \A m \in 0..n : m \in 0..(n - 1) \/ m = n
    OBVIOUS
  <1>2. n + 1 - 1 = n
    OBVIOUS
  <1>. QED BY <1>1, <1>2 DEF CallbacksUpTo, IsCallback

\* and of the handlers.
LEMMA OneMoreHandler ==
  ASSUME NEW n \in Nat, HandlersUpTo(n), IsCounted(n)
  PROVE  HandlersUpTo(n + 1) /\ IsInHandlers(n)
  <1>1. \A m \in 0..n : m \in 0..(n - 1) \/ m = n
    OBVIOUS
  <1>2. n + 1 - 1 = n
    OBVIOUS
  <1>. QED BY <1>1, <1>2 DEF HandlersUpTo, IsInHandlers

\* Behind one that cannot be read there are none.
LEMMA NoneBehind ==
  ASSUME NEW n \in Nat
  PROVE  /\ ~CanBeRead(n) => \A k \in Nat : IsExportedFunction(k) => k < n
         /\ ~IsEntry(n) => \A k \in Nat : IsUnwound(k) => k < n
         /\ ~IsEntry(n) => \A k \in Nat : IsHandled(k) => k < n
         /\ ~IsCalled(n) => \A k \in Nat : IsCallback(k) => k < n
         /\ ~IsCounted(n) => \A k \in Nat : IsHandler(k) => k < n
  <1>1. \A k \in Nat : ~(k < n) => n \in 0..k
    OBVIOUS
  <1>2. ~CanBeRead(n) => \A k \in Nat : IsExportedFunction(k) => k < n
    BY <1>1, Zenon DEF IsExportedFunction, IsExported, IsInExports
  <1>3. ~IsEntry(n) => \A k \in Nat : IsUnwound(k) => k < n
    BY <1>1, Zenon DEF IsUnwound, IsInExceptions
  <1>4. ~IsEntry(n) => \A k \in Nat : IsHandled(k) => k < n
    BY <1>3, Zenon DEF IsHandled
  <1>5. ~IsCalled(n) => \A k \in Nat : IsCallback(k) => k < n
    BY <1>1, Zenon DEF IsCallback
  <1>6. ~IsCounted(n) => \A k \in Nat : IsHandler(k) => k < n
    BY <1>1, Zenon DEF IsHandler, IsInHandlers
  <1>. QED BY <1>2, <1>3, <1>4, <1>5, <1>6

\* Without a table there are none.
LEMMA NoneAtAll ==
  /\ ~HasExports => AllExported = {}
  /\ ~HasExceptions => AllUnwound = {} /\ AllInfos = {}
  /\ ~HasCallbacks => AllCallbacks = {}
  /\ ~HasHandlerTable => AllHandlers = {}
  <1>1. ~HasExports => AllExported = {}
    BY DEF AllExported, IsExportedFunction, IsExported, IsInExports
  <1>2. ~HasExceptions => \A k \in Nat : ~IsUnwound(k)
    BY DEF IsUnwound, IsInExceptions
  <1>3. ~HasExceptions => AllUnwound = {} /\ AllInfos = {}
    BY <1>2 DEF AllUnwound, AllInfos, IsHandled
  <1>4. ~HasCallbacks => AllCallbacks = {}
    BY DEF AllCallbacks, IsCallback
  <1>5. ~HasHandlerTable => AllHandlers = {}
    BY DEF AllHandlers, IsHandler, IsInHandlers
  <1>. QED BY <1>1, <1>3, <1>4, <1>5

\* The functions that have been found when a directory has been read.
AfterExceptions == AllExported \cup AllUnwound
AfterCallbacks == AfterExceptions \cup AllCallbacks
AfterHandlers == AfterCallbacks \cup AllHandlers
Everything == AfterHandlers \cup EntryFunctions

\* What is written in the image stays, and so does what is code in it.
LEMMA FunctionsFixed ==
  ASSUME image' = image, segments' = segments
  PROVE  /\ \A n : ExportedFunctions(n)' = ExportedFunctions(n)
         /\ AllExported' = AllExported
         /\ \A n : ExceptionSlot(n)' = ExceptionSlot(n) /\ EntriesUpTo(n)' = EntriesUpTo(n)
         /\ \A n : UnwoundFunctions(n)' = UnwoundFunctions(n)
         /\ \A n : UnwindInfos(n)' = UnwindInfos(n)
         /\ AllInfos' = AllInfos /\ UnwindIsWritten' = UnwindIsWritten
         /\ \A n : CallbackSlot(n)' = CallbackSlot(n) /\ CallbacksUpTo(n)' = CallbacksUpTo(n)
         /\ \A n : CallbackFunctions(n)' = CallbackFunctions(n)
         /\ \A n : HandlerSlot(n)' = HandlerSlot(n) /\ HandlersUpTo(n)' = HandlersUpTo(n)
         /\ \A n : HandlerFunctions(n)' = HandlerFunctions(n)
         /\ AfterExceptions' = AfterExceptions /\ AfterCallbacks' = AfterCallbacks
         /\ AfterHandlers' = AfterHandlers /\ Everything' = Everything
  <1>1. \A a : There(a)' = There(a) /\ Item(a)' = Item(a) /\ FromRva(a)' = FromRva(a)
    BY DEF There, Item, FromRva
  <1>2. /\ \A name : DirectoryVa(name)' = DirectoryVa(name) /\ Present(name)' = Present(name)
        /\ \A name : Directory(name)' = Directory(name) /\ End(name)' = End(name)
        /\ ThunkSize' = ThunkSize /\ Is64' = Is64
        /\ \A a : Normal(a)' = Normal(a)
        /\ \A d : HasHandlers(d)' = HasHandlers(d)
    BY DEF DirectoryVa, Directory, FromRva, Present, ThunkSize, Is64, End, Normal, IsArm,
           HasHandlers, IsX86
  <1>3. \A n : ExportedFunctions(n)' = ExportedFunctions(n) /\ AllExported' = AllExported
    <2>1. \A i : ExportVa(i)' = ExportVa(i) /\ Item(FunctionSlot(i))' = Item(FunctionSlot(i))
      BY <1>1, ExportsFixed, Zenon DEF ExportVa
    <2>2. \A a : Executable(a)' = Executable(a)
      BY Zenon DEF Executable
    <2>3. \A rva : IsForwarder(rva)' = IsForwarder(rva)
      BY <1>2, Zenon DEF IsForwarder
    <2>4. \A i : IsForwarder(Item(FunctionSlot(i)))' = IsForwarder(Item(FunctionSlot(i)))
      BY <2>1, <2>3, Zenon
    <2>5. \A i : Executable(ExportVa(i))' = Executable(ExportVa(i))
      BY <2>1, <2>2, Zenon
    <2>6. \A i : IsExportedFunction(i)' = IsExportedFunction(i)
      BY <2>4, <2>5, ExportsFixed, Zenon DEF IsExportedFunction
    <2>. QED BY <2>1, <2>6, Zenon DEF ExportedFunctions, AllExported
  <1>4. \A n : ExceptionSlot(n)' = ExceptionSlot(n)
    BY <1>2, Zenon DEF ExceptionSlot
  <1>5. \A n : IsEntry(n)' = IsEntry(n)
    BY <1>1, <1>2, <1>4, Zenon DEF IsEntry
  <1>6. HasExceptions' = HasExceptions
    BY DEF HasExceptions, Is64, Present, Directory
  <1>7. \A n : EntriesUpTo(n)' = EntriesUpTo(n)
    BY <1>5, <1>6, Zenon DEF EntriesUpTo
  <1>8. \A n : Item(ExceptionSlot(n))' = Item(ExceptionSlot(n))
    BY <1>1, <1>4, Zenon
  <1>9. \A n : IsUnwound(n)' = IsUnwound(n)
    <2>1. \A n : IsInExceptions(n)' = IsInExceptions(n)
      BY <1>5, <1>6, Zenon DEF IsInExceptions
    <2>2. \A n : (Item(ExceptionSlot(n)).begin # 0)' <=> Item(ExceptionSlot(n)).begin # 0
      BY <1>8, Zenon
    <2>. QED BY <2>1, <2>2, Zenon DEF IsUnwound
  <1>10. \A n : UnwoundVa(n)' = UnwoundVa(n) /\ UnwindVa(n)' = UnwindVa(n)
    <2>1. \A n : FromRva(Item(ExceptionSlot(n)).begin)' = FromRva(Item(ExceptionSlot(n)).begin)
                 /\ FromRva(Item(ExceptionSlot(n)).unwind)' = FromRva(Item(ExceptionSlot(n)).unwind)
      BY <1>1, <1>8, Zenon
    <2>. QED BY <1>2, <2>1, Zenon DEF UnwoundVa, UnwindVa
  <1>11. \A n : UnwoundFunctions(n)' = UnwoundFunctions(n) /\ AllUnwound' = AllUnwound
    BY <1>9, <1>10, Zenon DEF UnwoundFunctions, AllUnwound
  <1>12. \A n : Item(UnwindVa(n))' = Item(UnwindVa(n)) /\ There(UnwindVa(n))' = There(UnwindVa(n))
    BY <1>1, <1>10, Zenon
  <1>13. \A n : IsHandled(n)' = IsHandled(n)
    BY <1>8, <1>9, <1>12, Zenon DEF IsHandled
  <1>14. \A u : InfosAt(u)' = InfosAt(u)
    BY DEF InfosAt, Item, There, FromRva
  <1>15. \A n : InfosAt(UnwindVa(n))' = InfosAt(UnwindVa(n))
    BY <1>10, <1>14, Zenon
  <1>16. \A n : UnwindInfos(n)' = UnwindInfos(n) /\ AllInfos' = AllInfos
    BY <1>13, <1>15, Zenon DEF UnwindInfos, AllInfos
  <1>17. UnwindIsWritten' = UnwindIsWritten
    BY <1>10, <1>12, <1>13, Zenon DEF UnwindIsWritten
  <1>18. HasCallbacks' = HasCallbacks
    BY DEF HasCallbacks, Present, There, DirectoryVa, Directory, FromRva, Item
  <1>19. Item(DirectoryVa("tls"))' = Item(DirectoryVa("tls"))
         /\ Item(DirectoryVa("config"))' = Item(DirectoryVa("config"))
    BY <1>1, <1>2, Zenon
  <1>20. \A n : CallbackSlot(n)' = CallbackSlot(n) /\ HandlerSlot(n)' = HandlerSlot(n)
    BY <1>2, <1>19, Zenon DEF CallbackSlot, HandlerSlot
  <1>21. \A n : Item(CallbackSlot(n))' = Item(CallbackSlot(n))
                /\ There(CallbackSlot(n))' = There(CallbackSlot(n))
    BY <1>1, <1>20, Zenon
  <1>22. \A n : Item(HandlerSlot(n))' = Item(HandlerSlot(n))
                /\ There(HandlerSlot(n))' = There(HandlerSlot(n))
    BY <1>1, <1>20, Zenon
  <1>23. \A n : IsCalled(n)' = IsCalled(n)
    BY <1>21, Zenon DEF IsCalled
  <1>24. \A n : IsCallback(n)' = IsCallback(n) /\ CallbacksUpTo(n)' = CallbacksUpTo(n)
    BY <1>18, <1>23, Zenon DEF IsCallback, CallbacksUpTo
  <1>25. \A n : CallbackVa(n)' = CallbackVa(n)
    BY <1>2, <1>21, Zenon DEF CallbackVa
  <1>26. \A n : CallbackFunctions(n)' = CallbackFunctions(n) /\ AllCallbacks' = AllCallbacks
    BY <1>24, <1>25, Zenon DEF CallbackFunctions, AllCallbacks
  <1>27. HasHandlerTable' = HasHandlerTable
    BY DEF HasHandlerTable, Present, There, DirectoryVa, Directory, FromRva, Item,
           HasHandlers, IsX86, Is64
  <1>28. \A n : IsCounted(n)' = IsCounted(n)
    BY <1>19, <1>22, Zenon DEF IsCounted
  <1>29. \A n : IsHandler(n)' = IsHandler(n) /\ HandlersUpTo(n)' = HandlersUpTo(n)
    BY <1>22, <1>27, <1>28, Zenon DEF IsHandler, IsInHandlers, HandlersUpTo
  <1>30. \A n : HandlerVa(n)' = HandlerVa(n)
    BY <1>1, <1>22, Zenon DEF HandlerVa
  <1>31. \A n : HandlerFunctions(n)' = HandlerFunctions(n) /\ AllHandlers' = AllHandlers
    BY <1>29, <1>30, Zenon DEF HandlerFunctions, AllHandlers
  <1>32. EntryFunctions' = EntryFunctions
    BY DEF EntryFunctions, Normal, FromRva, IsArm
  <1>33. /\ AfterExceptions' = AfterExceptions /\ AfterCallbacks' = AfterCallbacks
         /\ AfterHandlers' = AfterHandlers /\ Everything' = Everything
    BY <1>3, <1>11, <1>26, <1>31, <1>32, Zenon
       DEF AfterExceptions, AfterCallbacks, AfterHandlers, Everything
  <1>. QED BY <1>3, <1>4, <1>7, <1>11, <1>16, <1>17, <1>20, <1>24, <1>26, <1>29, <1>31, <1>33, Zenon

\* When the sections are mapped the segments stay.
LEMMA SegmentsStay ==
  ASSUME [Next]_vars, pc # "sections"
  PROVE  segments' = segments
  BY DEF Next, vars, Step, MapSection, SectionsMapped, ReadExports, ReadImports, ReadResources,
         ReadExceptions, ReadDebug, ReadTls, ReadConfig, SetEntryPoint, Classify,
         ExportsOpen, SkipExport, Export, ExportsDone,
         ImportsOpen, Descriptor, Thunk, ThunksDone, ImportsDone,
         ResourcesOpen, EnterDirectory, NoDirectory, Subdirectory, DataEntry, LeaveDirectory,
         ExceptionsOpen, ExceptionEntry, ExceptionsDone, DebugOpen, DebugEntry, DebugDone,
         TlsOpen, TlsCallback, TlsDone, ConfigOpen, SEHandler, ConfigDone,
         ClassifyImport, ClassifyDone, Classified

BehindTheExports ==
  {"imports", "descriptor", "thunk", "resources", "directory", "entry", "exceptions"}
BehindTheExceptions == {"debug", "debugentry", "tls"}
Behind == {"classify", "classified", "loaded"}

\* The reader is at entry n of the table of functions.
AtException(n) ==
  /\ reader.pos = ExceptionSlot(n) /\ EntriesUpTo(n)
  /\ out.functions = AllExported \cup UnwoundFunctions(n)
  /\ UnwindIsWritten => Infos(out) = UnwindInfos(n)

\* The reader is at a callback, and at a handler.
AtCallback ==
  /\ cur.i \in Nat /\ reader.pos = CallbackSlot(cur.i) /\ CallbacksUpTo(cur.i)
  /\ out.functions = AfterExceptions \cup CallbackFunctions(cur.i)
AtHandler ==
  /\ cur.i \in Nat /\ reader.pos = HandlerSlot(cur.i) /\ HandlersUpTo(cur.i)
  /\ out.functions = AfterCallbacks \cup HandlerFunctions(cur.i)

\* The functions up to the place of the reader have been found.
FunctionInv ==
  /\ pc \in BeforeExports => out.functions = {} /\ Infos(out) = {}
  /\ pc = "export" => out.functions = ExportedFunctions(cur.i) /\ Infos(out) = {}
  /\ pc \in BehindTheExports => out.functions = AllExported /\ Infos(out) = {}
  /\ pc = "exception" => \E n \in Nat : AtException(n)
  /\ pc \in BehindTheExceptions => out.functions = AfterExceptions
  /\ pc = "callback" => AtCallback
  /\ pc = "config" => out.functions = AfterCallbacks
  /\ pc = "handler" => AtHandler
  /\ pc = "entrypoint" => out.functions = AfterHandlers
  /\ pc \in Behind => out.functions = Everything
  /\ pc \in BehindTheExceptions \cup {"callback", "config", "handler", "entrypoint"} \cup Behind =>
       (UnwindIsWritten => Infos(out) = AllInfos)

\* At the start nothing is found.
LEMMA InitFunctions ==
  ASSUME Init
  PROVE  FunctionInv
  <1>1. pc = "sections" /\ out.functions = {} /\ out.types = {}
    BY DEF Init
  <1>2. Infos(out) = {}
    BY <1>1 DEF Infos
  <1>. QED BY <1>1, <1>2 DEF FunctionInv, BeforeExports, BehindTheExports, BehindTheExceptions, Behind

\* Where nothing has been found and nothing is read.
LEMMA FunctionsBefore ==
  ASSUME pc' \in BeforeExports, out'.functions = {}, Infos(out') = {}
  PROVE  FunctionInv'
  BY DEF FunctionInv, BeforeExports, BehindTheExports, BehindTheExceptions, Behind

\* The exports that are code are found.
LEMMA FunctionsOfExports ==
  ASSUME Shape, ExportInv, FunctionInv, ReadExports
  PROVE  FunctionInv'
  <1>1. image \in Images /\ image' = image
    BY ImageStays DEF Shape, Next, Step
  <1>2. segments' = segments /\ Infos(out') = Infos(out) /\ pc \in {"exports", "export"}
    <2>1. pc \in {"exports", "export"} /\ Infos(out') = Infos(out)
      BY ExportsSteps
    <2>. QED BY <2>1, SegmentsStay DEF Next, Step
  <1>3. Infos(out) = {}
    BY <1>2 DEF FunctionInv, BeforeExports
  <1>4. /\ pc' = "export" => out'.functions = ExportedFunctions(cur'.i)
        /\ pc' = "imports" => out'.functions = AllExported
        /\ pc' \in {"export", "imports"}
    <2>1. CASE ExportsOpen
      <3>1. out'.functions = {} /\ cur'.i = 0
        BY <2>1, ExportsOpenEffect DEF ExportsOpen, FunctionInv, BeforeExports, Quiet
      <3>2. CASE HasExports
        <4>1. pc' = "export"
          BY <2>1, <3>2, ExportsOpenEffect, Zenon DEF HasExports
        <4>2. ExportedFunctions(0) = {}
          BY ExportedGrow
        <4>. QED BY <3>1, <4>1, <4>2
      <3>3. CASE ~HasExports
        <4>1. pc' = "imports"
          BY <2>1, <3>3, ExportsOpenEffect, Zenon DEF HasExports
        <4>2. AllExported = {}
          BY <3>3, NoneAtAll
        <4>. QED BY <3>1, <4>1, <4>2
      <3>. QED BY <3>2, <3>3
    <2>2. CASE SkipExport
      <3> DEFINE n == cur.i
      <3>1. /\ pc = "export" /\ pc' = "export" /\ n \in Nat /\ reader.pos = FunctionSlot(n)
            /\ Item(FunctionSlot(n)) = 0 /\ out.functions = ExportedFunctions(n)
        BY <2>2 DEF SkipExport, ExportInv, FunctionInv
      <3>2. out'.functions = out.functions /\ cur'.i = n + 1
        BY <2>2, SkipExportEffect DEF Quiet
      <3>3. ~IsExportedFunction(n)
        BY <3>1 DEF IsExportedFunction, IsExported
      <3>4. ExportedFunctions(n + 1) = ExportedFunctions(n)
        <4> HIDE DEF n
        <4>. QED BY <3>1, <3>3, ExportedGrow
      <3>. QED BY <3>1, <3>2, <3>4
    <2>3. CASE Export
      <3> DEFINE n == cur.i
                 e == ExportVa(n)
      <3>1. /\ pc = "export" /\ pc' = "export" /\ n \in Nat /\ reader.pos = FunctionSlot(n)
            /\ HasExports /\ CanBeReadUpTo(n) /\ out.functions = ExportedFunctions(n)
        BY <2>3 DEF Export, ExportInv, FunctionInv
      <3>2. IsExported(n)
        <4>1. CanBeRead(n) /\ Item(FunctionSlot(n)) # 0
          BY <2>3, <3>1 DEF Export, MoreExports, CanBeRead
        <4>2. \A k \in 0..n : k \in 0..(n - 1) \/ k = n
          BY <3>1
        <4>. QED BY <3>1, <4>1, <4>2, Zenon DEF IsExported, IsInExports, CanBeReadUpTo
      <3>3. Item(reader.pos) = Item(FunctionSlot(n)) /\ FromRva(Item(reader.pos)) = e
        BY <3>1 DEF ExportVa
      <3>4. cur'.i = n + 1 /\ out'.functions = ExportedFunctions(n) \cup
              {x \in {e} : /\ ~IsForwarder(Item(FunctionSlot(n))) /\ Executable(e)
                           /\ ExportName(n) \notin Boundaries}
        BY <2>3, <3>1, <3>3, ExportEffect, Zenon
      <3>5. ExportName(n) \notin Boundaries <=> \A name \in Boundaries : ~IsNamed(n, name)
        BY <1>1, <3>1, NameIsFirst, Zenon
      <3>6. IsExportedFunction(n) <=> /\ ~IsForwarder(Item(FunctionSlot(n))) /\ Executable(e)
                                      /\ ExportName(n) \notin Boundaries
        BY <3>2, <3>5, Zenon DEF IsExportedFunction
      <3>7. ExportedFunctions(n + 1) = ExportedFunctions(n) \cup {a \in {e} : IsExportedFunction(n)}
        <4> HIDE DEF n
        <4>. QED BY <3>1, ExportedGrow
      <3>8. out'.functions = ExportedFunctions(n + 1)
        <4> HIDE DEF n, e
        <4>. QED BY <3>4, <3>6, <3>7
      <3>. QED BY <3>1, <3>4, <3>8
    <2>4. CASE ExportsDone
      <3> DEFINE n == cur.i
      <3>1. /\ pc = "export" /\ pc' = "imports" /\ n \in Nat /\ reader.pos = FunctionSlot(n)
            /\ out' = out /\ out.functions = ExportedFunctions(n)
        BY <2>4 DEF ExportsDone, GoTo, ExportInv, FunctionInv
      <3>2. ~CanBeRead(n)
        BY <2>4, <3>1 DEF ExportsDone, MoreExports, CanBeRead
      <3>3. ExportedFunctions(n) = AllExported
        <4> HIDE DEF n
        <4>. QED BY <3>1, <3>2, NoneBehind, ExportedGrow
      <3>. QED BY <3>1, <3>3
    <2>. QED BY <2>1, <2>2, <2>3, <2>4, Zenon DEF ReadExports
  <1>5. Infos(out') = {}
    BY <1>2, <1>3
  <1>6. /\ (pc = "export" => out.functions = ExportedFunctions(cur.i))'
        /\ (pc = "imports" => out.functions = AllExported)'
    BY <1>1, <1>2, <1>4, FunctionsFixed, Zenon
  <1>. QED BY <1>4, <1>5, <1>6
       DEF FunctionInv, BeforeExports, BehindTheExports, BehindTheExceptions, Behind

\* Imports and resources are no functions.
LEMMA FunctionsOfImports ==
  ASSUME Shape, FunctionInv, ReadImports \/ ReadResources
  PROVE  FunctionInv'
  <1>1. image' = image
    BY ImageStays DEF Next, Step
  <1>2. /\ out'.functions = out.functions /\ Infos(out') = Infos(out)
        /\ pc \in BehindTheExports /\ pc' \in BehindTheExports /\ pc # "sections"
    <2>1. CASE ReadImports
      BY <2>1, ImportsSteps DEF BehindTheExports
    <2>2. CASE ReadResources
      BY <2>2, ResourcesSteps DEF BehindTheExports, Quiet
    <2>. QED BY <2>1, <2>2
  <1>3. segments' = segments
    BY <1>2, SegmentsStay DEF Next, Step
  <1>4. out'.functions = AllExported /\ Infos(out') = {}
    BY <1>2 DEF FunctionInv
  <1>5. (out.functions = AllExported)'
    BY <1>1, <1>3, <1>4, FunctionsFixed, Zenon
  <1>. QED BY <1>2, <1>4, <1>5
       DEF FunctionInv, BeforeExports, BehindTheExports, BehindTheExceptions, Behind

\* The first entry of the table of functions is next, or there is none.
LEMMA ExceptionsOpenKeeps ==
  ASSUME Shape, FunctionInv, ExceptionsOpen
  PROVE  \/ pc' = "exception" /\ AtException(0)'
         \/ pc' = "debug" /\ out'.functions = AfterExceptions /\ Infos(out') = AllInfos
  <1>1. image \in Images /\ image' = image /\ segments' = segments /\ out' = out
    BY DEF Shape, ExceptionsOpen
  <1>2. out.functions = AllExported /\ Infos(out) = {}
    BY DEF ExceptionsOpen, FunctionInv, BehindTheExports
  <1>3. CASE HasExceptions
    <2>1. pc' = "exception" /\ reader' = To(reader, DirectoryVa("exceptions"))
      BY <1>3 DEF ExceptionsOpen, HasExceptions
    <2>2. reader'.pos = ExceptionSlot(0)
      BY <1>1, <2>1, Moved, NextException DEF Shape
    <2>3. UnwoundFunctions(0) = {} /\ UnwindInfos(0) = {}
      BY UnwoundGrow, InfosGrow
    <2>4. EntriesUpTo(0)
      BY <1>3 DEF EntriesUpTo
    <2>5. out'.functions = AllExported \cup UnwoundFunctions(0) /\ Infos(out') = UnwindInfos(0)
      BY <1>1, <1>2, <2>3
    <2>6. AtException(0)'
      BY <1>1, <2>2, <2>4, <2>5, FunctionsFixed, Zenon DEF AtException
    <2>. QED BY <2>1, <2>6
  <1>4. CASE ~HasExceptions
    <2>1. pc' = "debug"
      BY <1>4 DEF ExceptionsOpen, HasExceptions, GoTo
    <2>2. AllUnwound = {} /\ AllInfos = {}
      BY <1>4, NoneAtAll
    <2>. QED BY <1>1, <1>2, <2>1, <2>2 DEF AfterExceptions
  <1>. QED BY <1>3, <1>4

\* What unwind information names is found with its function.
LEMMA EntryInfos ==
  ASSUME UnwindIsWritten, NEW n \in Nat, IsInExceptions(n)
  PROVE  (IF Item(ExceptionSlot(n)).begin # 0 /\ Item(ExceptionSlot(n)).unwind # 0
          THEN FuncInfos(UnwindVa(n)) ELSE {}) =
         (IF IsHandled(n) THEN InfosAt(UnwindVa(n)) ELSE {})
  <1> DEFINE e == Item(ExceptionSlot(n))
             u == UnwindVa(n)
  <1>1. IsUnwound(n) <=> e.begin # 0
    BY DEF IsUnwound
  <1>2. CASE IsHandled(n)
    <2>1. u \in Nat /\ Item(u).codes \in Nat
      BY <1>2 DEF UnwindIsWritten
    <2>2. There(u) /\ Item(u).handler /\ e.begin # 0 /\ e.unwind # 0
      BY <1>1, <1>2 DEF IsHandled
    <2>3. FuncInfos(u) = InfosAt(u)
      <3> HIDE DEF u
      <3>. QED BY <2>1, <2>2, InfosAreRead
    <2>. QED BY <1>2, <2>2, <2>3
  <1>3. CASE ~IsHandled(n)
    <2>1. e.begin # 0 /\ e.unwind # 0 => ~There(u) \/ ~Item(u).handler
      BY <1>1, <1>3 DEF IsHandled
    <2>2. e.begin # 0 /\ e.unwind # 0 => FuncInfos(u) = {}
      <3> HIDE DEF u
      <3>. QED BY <2>1 DEF FuncInfos
    <2>. QED BY <1>3, <2>2
  <1>. QED BY <1>2, <1>3

\* An entry is followed by the next.
LEMMA ExceptionEntryKeeps ==
  ASSUME Shape, ExceptionEntry, NEW n \in Nat, AtException(n)
  PROVE  AtException(n + 1)'
  <1> DEFINE e == Item(ExceptionSlot(n))
             x == UnwoundVa(n)
             infos == IF e.begin # 0 /\ e.unwind # 0 THEN FuncInfos(UnwindVa(n)) ELSE {}
  <1>1. image \in Images /\ image' = image /\ segments' = segments
    BY DEF Shape, ExceptionEntry
  <1>2. /\ reader.pos = ExceptionSlot(n) /\ EntriesUpTo(n)
        /\ out.functions = AllExported \cup UnwoundFunctions(n)
        /\ UnwindIsWritten => Infos(out) = UnwindInfos(n)
    BY DEF AtException
  <1>3. IsEntry(n)
    BY <1>2 DEF ExceptionEntry, MoreIn, IsEntry
  <1>4. EntriesUpTo(n + 1) /\ IsInExceptions(n)
    BY <1>2, <1>3, OneMoreEntry
  <1>5. reader'.pos = ExceptionSlot(n + 1)
    BY <1>1, <1>2, ExceptionEntryEffect, NextException
  <1>6. /\ out'.functions = out.functions \cup {a \in {x} : e.begin # 0}
        /\ Infos(out') = Infos(out) \cup infos
    BY <1>2, ExceptionEntryEffect, Zenon DEF UnwoundVa, UnwindVa
  <1>7. IsUnwound(n) <=> e.begin # 0
    BY <1>4 DEF IsUnwound
  <1>8. out'.functions = AllExported \cup UnwoundFunctions(n + 1)
    <2>1. UnwoundFunctions(n + 1) = UnwoundFunctions(n) \cup {a \in {x} : IsUnwound(n)}
      BY UnwoundGrow
    <2> HIDE DEF x, e
    <2>. QED BY <1>2, <1>6, <1>7, <2>1
  <1>9. ASSUME UnwindIsWritten
        PROVE  Infos(out') = UnwindInfos(n + 1)
    <2>1. UnwindInfos(n + 1) = UnwindInfos(n) \cup (IF IsHandled(n) THEN InfosAt(UnwindVa(n)) ELSE {})
      BY InfosGrow
    <2>2. infos = (IF IsHandled(n) THEN InfosAt(UnwindVa(n)) ELSE {})
      BY <1>4, <1>9, EntryInfos, Zenon
    <2> HIDE DEF infos
    <2>. QED BY <1>2, <1>6, <1>9, <2>1, <2>2
  <1>10. (out.functions = AllExported \cup UnwoundFunctions(n + 1))'
    BY <1>1, <1>8, FunctionsFixed, Zenon
  <1>11. Infos(out)' = Infos(out')
    BY DEF Infos
  <1>12. UnwindIsWritten' <=> UnwindIsWritten
    BY <1>1, FunctionsFixed
  <1>13. UnwindIsWritten' => (Infos(out) = UnwindInfos(n + 1))'
    BY <1>1, <1>9, <1>11, <1>12, FunctionsFixed, Zenon
  <1>14. (reader.pos = ExceptionSlot(n + 1) /\ EntriesUpTo(n + 1))'
    BY <1>1, <1>4, <1>5, FunctionsFixed, Zenon
  <1>. QED BY <1>10, <1>13, <1>14, Zenon DEF AtException

\* Where the table ends its functions have been found.
LEMMA ExceptionsDoneKeeps ==
  ASSUME Shape, ExceptionsDone, NEW n \in Nat, AtException(n)
  PROVE  /\ out'.functions = AfterExceptions
         /\ UnwindIsWritten => Infos(out') = AllInfos
  <1>1. /\ reader.pos = ExceptionSlot(n) /\ out' = out
        /\ out.functions = AllExported \cup UnwoundFunctions(n)
        /\ UnwindIsWritten => Infos(out) = UnwindInfos(n)
    BY DEF AtException, ExceptionsDone
  <1>2. ~IsEntry(n)
    BY <1>1 DEF ExceptionsDone, MoreIn, IsEntry
  <1>3. UnwoundFunctions(n) = AllUnwound /\ UnwindInfos(n) = AllInfos
    BY <1>2, NoneBehind, UnwoundGrow, InfosGrow
  <1>. QED BY <1>1, <1>3 DEF AfterExceptions

\* The functions of the table are found.
LEMMA FunctionsOfExceptions ==
  ASSUME Shape, FunctionInv, ReadExceptions
  PROVE  FunctionInv'
  <1>1. image' = image
    BY ImageStays DEF Next, Step
  <1>2. segments' = segments
    <2>1. pc # "sections"
      BY ExceptionsSteps
    <2>. QED BY <2>1, SegmentsStay DEF Next, Step
  <1>3. \/ pc' = "exception" /\ \E n \in Nat : AtException(n)'
        \/ /\ pc' = "debug" /\ out'.functions = AfterExceptions
           /\ UnwindIsWritten => Infos(out') = AllInfos
    <2>1. CASE ExceptionsOpen
      <3>1. 0 \in Nat
        OBVIOUS
      <3>. QED BY <2>1, <3>1, ExceptionsOpenKeeps
    <2>2. CASE ExceptionEntry
      <3>1. PICK n \in Nat : AtException(n)
        BY <2>2 DEF ExceptionEntry, FunctionInv
      <3>2. pc' = "exception" /\ n + 1 \in Nat
        BY <2>2 DEF ExceptionEntry
      <3>3. AtException(n + 1)'
        BY <2>2, <3>1, ExceptionEntryKeeps
      <3>. QED BY <3>2, <3>3
    <2>3. CASE ExceptionsDone
      <3>1. PICK n \in Nat : AtException(n)
        BY <2>3 DEF ExceptionsDone, FunctionInv
      <3>2. pc' = "debug"
        BY <2>3 DEF ExceptionsDone, GoTo
      <3>. QED BY <2>3, <3>1, <3>2, ExceptionsDoneKeeps
    <2>. QED BY <2>1, <2>2, <2>3 DEF ReadExceptions
  <1>4. CASE pc' = "exception" /\ \E n \in Nat : AtException(n)'
    BY <1>4 DEF FunctionInv, BeforeExports, BehindTheExports, BehindTheExceptions, Behind
  <1>5. CASE /\ pc' = "debug" /\ out'.functions = AfterExceptions
             /\ UnwindIsWritten => Infos(out') = AllInfos
    <2>1. (out.functions = AfterExceptions)'
      BY <1>1, <1>2, <1>5, FunctionsFixed, Zenon
    <2>2. Infos(out)' = Infos(out')
      BY DEF Infos
    <2>3. UnwindIsWritten' <=> UnwindIsWritten
      BY <1>1, <1>2, FunctionsFixed
    <2>4. UnwindIsWritten' => (Infos(out) = AllInfos)'
      BY <1>1, <1>2, <1>5, <2>2, <2>3, FunctionsFixed, Zenon
    <2>. QED BY <1>5, <2>1, <2>4
         DEF FunctionInv, BeforeExports, BehindTheExports, BehindTheExceptions, Behind
  <1>. QED BY <1>3, <1>4, <1>5

\* What unwind information names stays found.
LEMMA InfosKeep ==
  ASSUME image' = image, segments' = segments, Infos(out') = Infos(out),
         UnwindIsWritten => Infos(out) = AllInfos
  PROVE  (UnwindIsWritten => Infos(out) = AllInfos)'
  <1>1. Infos(out)' = Infos(out')
    BY DEF Infos
  <1>2. UnwindIsWritten' <=> UnwindIsWritten
    BY FunctionsFixed
  <1>3. AllInfos' = AllInfos
    BY FunctionsFixed
  <1>4. UnwindIsWritten' => (Infos(out) = AllInfos)'
    BY <1>1, <1>2, <1>3, Zenon
  <1>. QED BY <1>4

\* The debug directory holds no functions.
LEMMA FunctionsOfDebug ==
  ASSUME Shape, FunctionInv, ReadDebug
  PROVE  FunctionInv'
  <1>1. /\ image' = image
        /\ Quiet /\ pc \in BehindTheExceptions /\ pc' \in BehindTheExceptions /\ pc # "sections"
    BY ImageStays, DebugSteps DEF Next, Step, BehindTheExceptions
  <1>2. segments' = segments
    BY <1>1, SegmentsStay DEF Next, Step
  <1>3. out'.functions = AfterExceptions /\ Infos(out') = Infos(out)
        /\ (UnwindIsWritten => Infos(out) = AllInfos)
    BY <1>1 DEF FunctionInv, Quiet
  <1>4. (out.functions = AfterExceptions)'
    BY <1>1, <1>2, <1>3, FunctionsFixed, Zenon
  <1>5. (UnwindIsWritten => Infos(out) = AllInfos)'
    BY <1>1, <1>2, <1>3, InfosKeep
  <1>. QED BY <1>1, <1>4, <1>5
       DEF FunctionInv, BeforeExports, BehindTheExports, BehindTheExceptions, Behind

\* The list of callbacks is next, or there is none.
LEMMA TlsOpenKeeps ==
  ASSUME Shape, FunctionInv, TlsOpen, segments' = segments
  PROVE  \/ pc' = "callback" /\ AtCallback'
         \/ pc' = "config" /\ out'.functions = AfterCallbacks
  <1>1. image \in Images /\ image' = image
    BY DEF Shape, TlsOpen
  <1>2. out'.functions = AfterExceptions /\ cur'.i = 0
    BY TlsOpenEffect DEF TlsOpen, FunctionInv, BehindTheExceptions, Quiet
  <1>3. CASE HasCallbacks
    <2>1. pc' = "callback" /\ reader'.pos = Item(DirectoryVa("tls")).callbacks
      BY <1>3, TlsOpenEffect, Zenon DEF HasCallbacks
    <2>2. reader'.pos = CallbackSlot(0)
      BY <1>1, <1>3, <2>1, NextCallback
    <2>3. CallbackFunctions(0) = {}
      BY CallbacksGrow
    <2>4. CallbacksUpTo(0)
      BY <1>3 DEF CallbacksUpTo
    <2>5. out'.functions = AfterExceptions \cup CallbackFunctions(0)
      BY <1>2, <2>3
    <2>6. (out.functions = AfterExceptions \cup CallbackFunctions(cur.i))'
      BY <1>1, <1>2, <2>5, FunctionsFixed, Zenon
    <2>7. (reader.pos = CallbackSlot(cur.i) /\ CallbacksUpTo(cur.i))'
      BY <1>1, <1>2, <2>2, <2>4, FunctionsFixed, Zenon
    <2>8. cur'.i \in Nat
      BY <1>2
    <2>. QED BY <2>1, <2>6, <2>7, <2>8, Zenon DEF AtCallback
  <1>4. CASE ~HasCallbacks
    <2>1. pc' = "config"
      BY <1>4, TlsOpenEffect, Zenon DEF HasCallbacks
    <2>2. AllCallbacks = {}
      BY <1>4, NoneAtAll
    <2>. QED BY <1>2, <2>1, <2>2 DEF AfterCallbacks
  <1>. QED BY <1>3, <1>4

\* A callback is followed by the next.
LEMMA TlsCallbackKeeps ==
  ASSUME Shape, AtCallback, TlsCallback, segments' = segments
  PROVE  AtCallback'
  <1> DEFINE n == cur.i
             x == CallbackVa(n)
  <1>1. image \in Images /\ image' = image
    BY DEF Shape, TlsCallback
  <1>2. /\ n \in Nat /\ reader.pos = CallbackSlot(n) /\ CallbacksUpTo(n)
        /\ out.functions = AfterExceptions \cup CallbackFunctions(n)
    BY DEF AtCallback
  <1>3. IsCalled(n)
    BY <1>2 DEF TlsCallback, MoreCallbacks, IsCalled
  <1>4. CallbacksUpTo(n + 1) /\ IsCallback(n) /\ HasCallbacks
    <2>1. HasCallbacks
      BY <1>2 DEF CallbacksUpTo
    <2> HIDE DEF n
    <2>. QED BY <1>2, <1>3, <2>1, OneMoreCallback
  <1>5. Normal(Plain(Item(reader.pos))) = x
    BY <1>2 DEF Plain, CallbackVa
  <1>6. /\ reader'.pos = reader.pos + ThunkSize /\ cur'.i = n + 1
        /\ out'.functions = out.functions \cup {x}
    BY <1>5, TlsCallbackEffect, Zenon
  <1> HIDE DEF n, x
  <1>7. reader'.pos = CallbackSlot(n + 1)
    BY <1>1, <1>2, <1>4, <1>6, NextCallback
  <1>8. out'.functions = AfterExceptions \cup CallbackFunctions(n + 1)
    <2>1. CallbackFunctions(n + 1) = CallbackFunctions(n) \cup {a \in {x} : IsCallback(n)}
      BY <1>2, CallbacksGrow DEF x
    <2>. QED BY <1>2, <1>4, <1>6, <2>1
  <1>9. (out.functions = AfterExceptions \cup CallbackFunctions(cur.i))'
    BY <1>1, <1>6, <1>8, FunctionsFixed, Zenon
  <1>10. (reader.pos = CallbackSlot(cur.i) /\ CallbacksUpTo(cur.i))'
    BY <1>1, <1>4, <1>6, <1>7, FunctionsFixed, Zenon
  <1>11. cur'.i \in Nat
    BY <1>2, <1>6
  <1>. QED BY <1>9, <1>10, <1>11, Zenon DEF AtCallback

\* The callbacks are found.
LEMMA FunctionsOfTls ==
  ASSUME Shape, FunctionInv, ReadTls
  PROVE  FunctionInv'
  <1>1. /\ image' = image /\ Infos(out') = Infos(out)
        /\ pc \in {"tls", "callback"} /\ pc' \in {"tls", "callback", "config"}
    BY ImageStays, TlsSteps DEF Next, Step
  <1>2. segments' = segments
    BY <1>1, SegmentsStay DEF Next, Step
  <1>3. UnwindIsWritten => Infos(out) = AllInfos
    BY <1>1 DEF FunctionInv, BehindTheExceptions
  <1>4. (UnwindIsWritten => Infos(out) = AllInfos)'
    BY <1>1, <1>2, <1>3, InfosKeep
  <1>5. \/ pc' = "callback" /\ AtCallback'
        \/ pc' = "config" /\ out'.functions = AfterCallbacks
    <2>1. CASE TlsOpen
      BY <1>2, <2>1, TlsOpenKeeps
    <2>2. CASE TlsCallback
      <3>1. AtCallback /\ pc' = "callback"
        BY <2>2 DEF TlsCallback, FunctionInv
      <3>. QED BY <1>2, <2>2, <3>1, TlsCallbackKeeps
    <2>3. CASE TlsDone
      <3> DEFINE n == cur.i
      <3>1. /\ pc' = "config" /\ out' = out /\ n \in Nat /\ reader.pos = CallbackSlot(n)
            /\ out.functions = AfterExceptions \cup CallbackFunctions(n)
        BY <2>3 DEF TlsDone, GoTo, FunctionInv, AtCallback
      <3>2. ~IsCalled(n)
        BY <2>3, <3>1 DEF TlsDone, MoreCallbacks, IsCalled
      <3>3. CallbackFunctions(n) = AllCallbacks
        <4> HIDE DEF n
        <4>. QED BY <3>1, <3>2, NoneBehind, CallbacksGrow
      <3>. QED BY <3>1, <3>3 DEF AfterCallbacks
    <2>. QED BY <2>1, <2>2, <2>3 DEF ReadTls
  <1>6. (pc = "config" => out.functions = AfterCallbacks)'
    BY <1>1, <1>2, <1>5, FunctionsFixed, Zenon
  <1>. QED BY <1>4, <1>5, <1>6
       DEF FunctionInv, BeforeExports, BehindTheExports, BehindTheExceptions, Behind

\* The table of handlers is next, or there is none.
LEMMA ConfigOpenKeeps ==
  ASSUME Shape, FunctionInv, ConfigOpen, segments' = segments
  PROVE  \/ pc' = "handler" /\ AtHandler'
         \/ pc' = "entrypoint" /\ out'.functions = AfterHandlers
  <1>1. image \in Images /\ image' = image
    BY DEF Shape, ConfigOpen
  <1>2. out'.functions = AfterCallbacks /\ cur'.i = 0
    BY ConfigOpenEffect DEF ConfigOpen, FunctionInv, Quiet
  <1>3. CASE HasHandlerTable
    <2>1. pc' = "handler" /\ reader'.pos = Item(DirectoryVa("config")).handlers
      BY <1>3, ConfigOpenEffect, Zenon DEF HasHandlerTable
    <2>2. reader'.pos = HandlerSlot(0)
      BY <1>1, <1>3, <2>1, NextHandler
    <2>3. HandlerFunctions(0) = {}
      BY HandlersGrow
    <2>4. HandlersUpTo(0)
      BY <1>3 DEF HandlersUpTo
    <2>5. out'.functions = AfterCallbacks \cup HandlerFunctions(0)
      BY <1>2, <2>3
    <2>6. (out.functions = AfterCallbacks \cup HandlerFunctions(cur.i))'
      BY <1>1, <1>2, <2>5, FunctionsFixed, Zenon
    <2>7. (reader.pos = HandlerSlot(cur.i) /\ HandlersUpTo(cur.i))'
      BY <1>1, <1>2, <2>2, <2>4, FunctionsFixed, Zenon
    <2>8. cur'.i \in Nat
      BY <1>2
    <2>. QED BY <2>1, <2>6, <2>7, <2>8, Zenon DEF AtHandler
  <1>4. CASE ~HasHandlerTable
    <2>1. pc' = "entrypoint"
      BY <1>4, ConfigOpenEffect, Zenon DEF HasHandlerTable
    <2>2. AllHandlers = {}
      BY <1>4, NoneAtAll
    <2>. QED BY <1>2, <2>1, <2>2 DEF AfterHandlers
  <1>. QED BY <1>3, <1>4

\* A handler is followed by the next.
LEMMA SEHandlerKeeps ==
  ASSUME Shape, AtHandler, SEHandler, segments' = segments
  PROVE  AtHandler'
  <1> DEFINE n == cur.i
             x == HandlerVa(n)
             r == Item(HandlerSlot(n))
  <1>1. image \in Images /\ image' = image
    BY DEF Shape, SEHandler
  <1>2. /\ n \in Nat /\ reader.pos = HandlerSlot(n) /\ HandlersUpTo(n)
        /\ out.functions = AfterCallbacks \cup HandlerFunctions(n)
    BY DEF AtHandler
  <1>3. IsCounted(n)
    BY <1>2 DEF SEHandler, MoreHandlers, IsCounted
  <1>4. HandlersUpTo(n + 1) /\ IsInHandlers(n) /\ HasHandlerTable
    <2>1. HasHandlerTable
      BY <1>2 DEF HandlersUpTo
    <2> HIDE DEF n
    <2>. QED BY <1>2, <1>3, <2>1, OneMoreHandler
  <1>5. Item(reader.pos) = r /\ FromRva(Item(reader.pos)) = x
    BY <1>2 DEF HandlerVa
  <1>6. /\ reader'.pos = reader.pos + ThunkSize /\ cur'.i = n + 1
        /\ out'.functions = out.functions \cup {a \in {x} : r # 0}
    BY <1>5, SEHandlerEffect, Zenon
  <1>7. IsHandler(n) <=> r # 0
    BY <1>4 DEF IsHandler
  <1> HIDE DEF n, x, r
  <1>8. reader'.pos = HandlerSlot(n + 1)
    BY <1>1, <1>2, <1>4, <1>6, NextHandler
  <1>9. out'.functions = AfterCallbacks \cup HandlerFunctions(n + 1)
    <2>1. HandlerFunctions(n + 1) = HandlerFunctions(n) \cup {a \in {x} : IsHandler(n)}
      BY <1>2, HandlersGrow DEF x
    <2>. QED BY <1>2, <1>6, <1>7, <2>1
  <1>10. (out.functions = AfterCallbacks \cup HandlerFunctions(cur.i))'
    BY <1>1, <1>6, <1>9, FunctionsFixed, Zenon
  <1>11. (reader.pos = HandlerSlot(cur.i) /\ HandlersUpTo(cur.i))'
    BY <1>1, <1>4, <1>6, <1>8, FunctionsFixed, Zenon
  <1>12. cur'.i \in Nat
    BY <1>2, <1>6
  <1>. QED BY <1>10, <1>11, <1>12, Zenon DEF AtHandler

\* The handlers are found.
LEMMA FunctionsOfConfig ==
  ASSUME Shape, FunctionInv, ReadConfig
  PROVE  FunctionInv'
  <1>1. /\ image' = image /\ Infos(out') = Infos(out)
        /\ pc \in {"config", "handler"} /\ pc' \in {"config", "handler", "entrypoint"}
    BY ImageStays, ConfigSteps DEF Next, Step
  <1>2. segments' = segments
    BY <1>1, SegmentsStay DEF Next, Step
  <1>3. UnwindIsWritten => Infos(out) = AllInfos
    BY <1>1 DEF FunctionInv
  <1>4. (UnwindIsWritten => Infos(out) = AllInfos)'
    BY <1>1, <1>2, <1>3, InfosKeep
  <1>5. \/ pc' = "handler" /\ AtHandler'
        \/ pc' = "entrypoint" /\ out'.functions = AfterHandlers
    <2>1. CASE ConfigOpen
      BY <1>2, <2>1, ConfigOpenKeeps
    <2>2. CASE SEHandler
      <3>1. AtHandler /\ pc' = "handler"
        BY <2>2 DEF SEHandler, FunctionInv
      <3>. QED BY <1>2, <2>2, <3>1, SEHandlerKeeps
    <2>3. CASE ConfigDone
      <3> DEFINE n == cur.i
      <3>1. /\ pc' = "entrypoint" /\ out' = out /\ n \in Nat /\ reader.pos = HandlerSlot(n)
            /\ out.functions = AfterCallbacks \cup HandlerFunctions(n)
        BY <2>3 DEF ConfigDone, GoTo, FunctionInv, AtHandler
      <3>2. ~IsCounted(n)
        BY <2>3, <3>1 DEF ConfigDone, MoreHandlers, IsCounted
      <3>3. HandlerFunctions(n) = AllHandlers
        <4> HIDE DEF n
        <4>. QED BY <3>1, <3>2, NoneBehind, HandlersGrow
      <3>. QED BY <3>1, <3>3 DEF AfterHandlers
    <2>. QED BY <2>1, <2>2, <2>3 DEF ReadConfig
  <1>6. (pc = "entrypoint" => out.functions = AfterHandlers)'
    BY <1>1, <1>2, <1>5, FunctionsFixed, Zenon
  <1>. QED BY <1>4, <1>5, <1>6
       DEF FunctionInv, BeforeExports, BehindTheExports, BehindTheExceptions, Behind

\* The entry point is the last function; pe_classify finds none.
LEMMA FunctionsOfEnd ==
  ASSUME Shape, FunctionInv, SetEntryPoint \/ Classify
  PROVE  FunctionInv'
  <1>1. /\ image' = image /\ Infos(out') = Infos(out) /\ pc # "sections" /\ pc' \in Behind
        /\ out'.functions = Everything /\ (UnwindIsWritten => Infos(out) = AllInfos)
    <2>1. CASE SetEntryPoint
      <3>1. pc = "entrypoint" /\ image' = image
        BY <2>1 DEF SetEntryPoint
      <3>2. out.functions = AfterHandlers /\ (UnwindIsWritten => Infos(out) = AllInfos)
        BY <3>1 DEF FunctionInv
      <3>3. /\ out'.functions = out.functions \cup EntryFunctions /\ Infos(out') = Infos(out)
            /\ pc' \in Behind
        BY <2>1, SetEntryPointEffect DEF EntryFunctions, Behind
      <3>. QED BY <3>1, <3>2, <3>3 DEF Everything
    <2>2. CASE Classify
      <3>1. image' = image
        BY <2>2, ImageStays DEF Next, Step
      <3>2. pc \in Behind /\ pc' \in Behind /\ Quiet /\ pc # "sections"
        BY <2>2, ClassifyEffect DEF Behind
      <3>. QED BY <3>1, <3>2 DEF FunctionInv, Quiet
    <2>. QED BY <2>1, <2>2
  <1>2. segments' = segments
    BY <1>1, SegmentsStay DEF Next, Step
  <1>3. (out.functions = Everything)'
    BY <1>1, <1>2, FunctionsFixed, Zenon
  <1>4. (UnwindIsWritten => Infos(out) = AllInfos)'
    BY <1>1, <1>2, InfosKeep
  <1>. QED BY <1>1, <1>3, <1>4
       DEF FunctionInv, BeforeExports, BehindTheExports, BehindTheExceptions, Behind

\* What is known of the functions stays when nothing changes.
LEMMA FunctionsStutter ==
  ASSUME FunctionInv, UNCHANGED vars
  PROVE  FunctionInv'
  <1>1. /\ image' = image /\ segments' = segments /\ pc' = pc /\ reader' = reader
        /\ cur' = cur /\ out' = out
    BY DEF vars
  <1>2. Infos(out)' = Infos(out)
    BY <1>1 DEF Infos
  <1>3. \A n : AtException(n)' <=> AtException(n)
    BY <1>1, <1>2, FunctionsFixed, Zenon DEF AtException
  <1>4. (AtCallback' <=> AtCallback) /\ (AtHandler' <=> AtHandler)
    BY <1>1, FunctionsFixed, Zenon DEF AtCallback, AtHandler
  <1>5. /\ BeforeExports' = BeforeExports /\ BehindTheExports' = BehindTheExports
        /\ BehindTheExceptions' = BehindTheExceptions /\ Behind' = Behind
    BY DEF BeforeExports, BehindTheExports, BehindTheExceptions, Behind
  <1>6. /\ ExportedFunctions(cur.i)' = ExportedFunctions(cur.i)
        /\ AllExported' = AllExported /\ AllInfos' = AllInfos
        /\ (UnwindIsWritten' <=> UnwindIsWritten)
        /\ AfterExceptions' = AfterExceptions /\ AfterCallbacks' = AfterCallbacks
        /\ AfterHandlers' = AfterHandlers /\ Everything' = Everything
    BY <1>1, FunctionsFixed
  <1>. QED BY <1>1, <1>2, <1>3, <1>4, <1>5, <1>6, Zenon DEF FunctionInv

\* Every step keeps what is known of the functions.
LEMMA FunctionsStay ==
  ASSUME Shape, ExportInv, FunctionInv, [Next]_vars
  PROVE  FunctionInv'
  <1>1. CASE UNCHANGED vars
    BY <1>1, FunctionsStutter
  <1>2. CASE MapSection \/ SectionsMapped
    <2>1. pc \in BeforeExports /\ pc' \in BeforeExports /\ Quiet
      BY <1>2, SectionsEffect DEF BeforeExports
    <2>. QED BY <2>1, FunctionsBefore DEF FunctionInv, Quiet
  <1>3. CASE ReadExports
    BY <1>3, FunctionsOfExports
  <1>4. CASE ReadImports \/ ReadResources
    BY <1>4, FunctionsOfImports
  <1>5. CASE ReadExceptions
    BY <1>5, FunctionsOfExceptions
  <1>6. CASE ReadDebug
    BY <1>6, FunctionsOfDebug
  <1>7. CASE ReadTls
    BY <1>7, FunctionsOfTls
  <1>8. CASE ReadConfig
    BY <1>8, FunctionsOfConfig
  <1>9. CASE SetEntryPoint \/ Classify
    BY <1>9, FunctionsOfEnd
  <1>. QED BY <1>1, <1>2, <1>3, <1>4, <1>5, <1>6, <1>7, <1>8, <1>9, Zenon DEF Next, Step

\* The functions found are the exports that are code, the functions with unwind
\* information, the callbacks, the handlers and the entry point (pe_read_*_dir,
\* pe_load), in every image with the functions that are wanted: damage to one
\* directory takes no function from another.
THEOREM FunctionsAreFound == Spec => [](FunctionsWritten => FunctionsFound)
  <1>1. Init => ExportInv /\ FunctionInv
    BY InitExports, InitFunctions
  <1>2. Shape /\ ExportInv /\ FunctionInv /\ [Next]_vars => (ExportInv /\ FunctionInv)'
    BY ExportsStay, FunctionsStay
  <1>3. ExportInv /\ FunctionInv => (FunctionsWritten => FunctionsFound)
    <2> SUFFICES ASSUME FunctionInv, FunctionsWritten, Loaded
                 PROVE  /\ \A d \in DOMAIN image.wants.functions :
                             d # image.damaged => image.wants.functions[d] \subseteq out.functions
                        /\ out.functions \subseteq
                             UNION {image.wants.functions[d] : d \in DOMAIN image.wants.functions}
                        /\ Infos(out) = image.wants.funcinfos
      BY DEF FunctionsFound, Infos
    <2>1. out.functions = Everything /\ Infos(out) = AllInfos
      BY DEF Loaded, FunctionInv, Behind, FunctionsWritten
    <2> DEFINE w == image.wants.functions
    <2>2. DOMAIN w = {"exports", "exceptions", "tls", "config", "entry"}
      BY DEF FunctionsWritten
    <2>3. Everything = (((AllExported \cup AllUnwound) \cup AllCallbacks) \cup AllHandlers) \cup EntryFunctions
      BY DEF Everything, AfterHandlers, AfterCallbacks, AfterExceptions
    <2>4. /\ AllExported \subseteq w["exports"] /\ AllUnwound \subseteq w["exceptions"]
          /\ AllCallbacks \subseteq w["tls"] /\ AllHandlers \subseteq w["config"]
          /\ EntryFunctions = w["entry"]
      BY DEF FunctionsWritten, AreMeant
    <2>5. /\ image.damaged # "exports" => w["exports"] \subseteq AllExported
          /\ image.damaged # "exceptions" => w["exceptions"] \subseteq AllUnwound
          /\ image.damaged # "tls" => w["tls"] \subseteq AllCallbacks
          /\ image.damaged # "config" => w["config"] \subseteq AllHandlers
      BY DEF FunctionsWritten, AreMeant
    <2>6. Infos(out) = image.wants.funcinfos
      BY <2>1 DEF FunctionsWritten
    <2> HIDE DEF w
    <2>7. \A d \in DOMAIN w : d # image.damaged => w[d] \subseteq out.functions
      BY <2>1, <2>2, <2>3, <2>4, <2>5
    <2>8. out.functions \subseteq UNION {w[d] : d \in DOMAIN w}
      BY <2>1, <2>2, <2>3, <2>4
    <2>. QED BY <2>6, <2>7, <2>8 DEF w
  <1>. QED BY <1>1, <1>2, <1>3, RecordsKeepTheirFields, PTL DEF Spec

-----------------------------------------------------------------------------
(* The resources.                                                          *)

EntrySlot(d, i) == d + 16 + 8 * i
Total(d) == (Item(d).named + Item(d).ids) % U16

\* An entry of a directory that can be read, and what it refers to.
IsSlot(d, i) == i < Total(d) /\ There(EntrySlot(d, i))
IsSub(d, i) == Item(EntrySlot(d, i)).dir
Target(d, i) == ResourceBase + Item(EntrySlot(d, i)).off

\* Behind data that cannot be read a directory is not read on.
GoesOn(d, i) == IsSlot(d, i) /\ (IsSub(d, i) \/ There(Target(d, i)))

\* A way through the tree: on each level a directory and an entry of it.
Level == [dir : Nat, i : Nat]

Way(p) ==
  /\ p \in Seq(Level) /\ Len(p) <= MaxDepth + 1
  /\ Len(p) > 0 => p[1].dir = ResourceBase
  /\ \A j \in 1..(Len(p) - 1) : p[j + 1].dir = Target(p[j].dir, p[j].i)
  /\ \A j \in 1..Len(p) : /\ There(p[j].dir)
                          /\ \A k \in 0..(p[j].i - 1) : GoesOn(p[j].dir, k)

\* On the first n levels the entries are directories.
Descends(p, n) == \A j \in 1..n : IsSlot(p[j].dir, p[j].i) /\ IsSub(p[j].dir, p[j].i)

\* The way to an entry.
IsWay(p) ==
  /\ Way(p) /\ Len(p) > 0 /\ Descends(p, Len(p) - 1)
  /\ IsSlot(p[Len(p)].dir, p[Len(p)].i)

EndOf(p) == Target(p[Len(p)].dir, p[Len(p)].i)

\* The way to data.
IsResource(p) ==
  /\ IsWay(p) /\ ~IsSub(p[Len(p)].dir, p[Len(p)].i)
  /\ There(EndOf(p)) /\ Item(EndOf(p)).rva # 0 /\ Item(EndOf(p)).size # 0

ResourceVa(p) == FromRva(Item(EndOf(p)).rva)

AllResources == {ResourceVa(p) : p \in {q \in Seq(Level) : Present("resources") /\ IsResource(q)}}

\* The image has the data that is wanted and no other.
ResourcesWritten ==
  /\ \A p \in Seq(Level) : IsWay(p) /\ IsSub(p[Len(p)].dir, p[Len(p)].i) => EndOf(p) \in Nat
  /\ AllResources = image.wants.resources

-----------------------------------------------------------------------------

\* A way that turns off before p on one of its first n levels, and one that goes
\* with p on those.
Ahead(q, p, n) ==
  \E j \in 1..n :
    /\ j <= Len(q) /\ \A k \in 1..(j - 1) : q[k] = p[k]
    /\ q[j].dir = p[j].dir /\ q[j].i < p[j].i
Inside(q, p, n) == n <= Len(q) /\ \A k \in 1..n : q[k] = p[k]

\* The data found before the reader comes to p.
Reached(p) == {ResourceVa(q) : q \in {r \in Seq(Level) : IsResource(r) /\ Ahead(r, p, Len(p))}}

\* The entry behind the one of level n.
Onwards(p, n) ==
  [j \in 1..n |-> IF j = n THEN [dir |-> p[n].dir, i |-> p[n].i + 1] ELSE p[j]]

\* A level is its directory and its entry.
LEMMA LevelFacts ==
  ASSUME NEW a \in Level
  PROVE  /\ a.dir \in Nat /\ a.i \in Nat
         /\ \A b \in Level : a = b <=> a.dir = b.dir /\ a.i = b.i
  <1>1. \A b \in Level : b = [dir |-> b.dir, i |-> b.i]
    BY DEF Level
  <1>2. a.dir \in Nat /\ a.i \in Nat
    BY DEF Level
  <1>3. ASSUME NEW b \in Level, a.dir = b.dir, a.i = b.i
        PROVE  a = b
    BY <1>1, <1>3, Zenon
  <1>. QED BY <1>2, <1>3

\* It is a way again.
LEMMA OnwardsFacts ==
  ASSUME NEW p \in Seq(Level), NEW n \in 1..Len(p)
  PROVE  /\ Onwards(p, n) \in Seq(Level) /\ Len(Onwards(p, n)) = n
         /\ \A j \in 1..(n - 1) : Onwards(p, n)[j] = p[j]
         /\ Onwards(p, n)[n].dir = p[n].dir /\ Onwards(p, n)[n].i = p[n].i + 1
  <1> DEFINE o == Onwards(p, n)
  <1>1. n \in Nat /\ n \in 1..n /\ \A j \in 1..n : j \in 1..Len(p)
    OBVIOUS
  <1>2. \A j \in 1..n : p[j] \in Level
    BY <1>1
  <1>3. [dir |-> p[n].dir, i |-> p[n].i + 1] \in Level
    BY <1>1, <1>2 DEF Level
  <1>4. o \in [1..n -> Level]
    BY <1>2, <1>3 DEF Onwards
  <1>5. o \in Seq(Level) /\ Len(o) = n
    <2> HIDE DEF o
    <2>. QED BY <1>1, <1>4
  <1>6. \A j \in 1..(n - 1) : o[j] = p[j]
    BY DEF Onwards
  <1>7. o[n] = [dir |-> p[n].dir, i |-> p[n].i + 1]
    BY <1>1 DEF Onwards
  <1>. QED BY <1>5, <1>6, <1>7

\* and one that can be read up to its entry.
LEMMA WayOnwards ==
  ASSUME NEW p, Way(p), NEW n \in 1..Len(p), GoesOn(p[n].dir, p[n].i)
  PROVE  Way(Onwards(p, n))
  <1> DEFINE o == Onwards(p, n)
  <1>1. p \in Seq(Level) /\ n \in Nat /\ Len(p) \in Nat
    BY DEF Way
  <1>2. /\ o \in Seq(Level) /\ Len(o) = n
        /\ \A j \in 1..(n - 1) : o[j] = p[j]
        /\ o[n].dir = p[n].dir /\ o[n].i = p[n].i + 1
    BY <1>1, OnwardsFacts, Zenon
  <1> HIDE DEF o
  <1>3. \A j \in 1..n : o[j].dir = p[j].dir
    BY <1>1, <1>2
  <1>4. Len(o) <= MaxDepth + 1 /\ (Len(o) > 0 => o[1].dir = ResourceBase)
    <2>1. Len(p) <= MaxDepth + 1 /\ p[1].dir = ResourceBase
      BY <1>1 DEF Way
    <2>. QED BY <1>1, <1>2, <1>3, <2>1 DEF MaxDepth
  <1>5. \A j \in 1..(Len(o) - 1) : o[j + 1].dir = Target(o[j].dir, o[j].i)
    <2>1. \A j \in 1..(n - 1) : p[j + 1].dir = Target(p[j].dir, p[j].i)
      BY <1>1 DEF Way
    <2>2. \A j \in 1..(n - 1) : j + 1 \in 1..n
      BY <1>1
    <2>. QED BY <1>2, <1>3, <2>1, <2>2
  <1>6. ASSUME NEW j \in 1..Len(o)
        PROVE  There(o[j].dir) /\ \A k \in 0..(o[j].i - 1) : GoesOn(o[j].dir, k)
    <2>1. There(p[j].dir) /\ \A k \in 0..(p[j].i - 1) : GoesOn(p[j].dir, k)
      BY <1>1, <1>2 DEF Way
    <2>2. CASE j = n
      <3>1. p[n].i \in Nat
        <4>1. p[n] \in Level
          BY <1>1
        <4>. QED BY <4>1 DEF Level
      <3>2. \A k \in 0..p[n].i : k \in 0..(p[n].i - 1) \/ k = p[n].i
        BY <3>1
      <3>3. o[n].i - 1 = p[n].i
        BY <1>2, <3>1
      <3>. QED BY <1>2, <2>1, <2>2, <3>2, <3>3
    <2>3. CASE j # n
      BY <1>1, <1>2, <2>1, <2>3
    <2>. QED BY <2>2, <2>3
  <1>. QED BY <1>2, <1>4, <1>5, <1>6 DEF Way, o

\* What is ahead of the entry behind the one of level n.
LEMMA AheadOnwards ==
  ASSUME NEW p \in Seq(Level), NEW n \in 1..Len(p), NEW q \in Seq(Level)
  PROVE  Ahead(q, Onwards(p, n), n) <=> Ahead(q, p, n) \/ Inside(q, p, n)
  <1> DEFINE o == Onwards(p, n)
             At(j) == /\ j <= Len(q) /\ \A k \in 1..(j - 1) : q[k] = p[k]
                      /\ q[j].dir = p[j].dir /\ q[j].i < p[j].i
             In == n <= Len(q) /\ \A k \in 1..n : q[k] = p[k]
             Ao(j) == /\ j <= Len(q) /\ \A k \in 1..(j - 1) : q[k] = o[k]
                      /\ q[j].dir = o[j].dir /\ q[j].i < o[j].i
  <1>1. /\ Len(o) = n /\ \A j \in 1..(n - 1) : o[j] = p[j]
        /\ o[n].dir = p[n].dir /\ o[n].i = p[n].i + 1
    BY OnwardsFacts, Zenon
  <1>2. n \in Nat /\ Len(q) \in Nat
    OBVIOUS
  <1>3. Ahead(q, o, n) <=> \E j \in 1..n : Ao(j)
    BY <1>1, Zenon DEF Ahead
  <1> HIDE DEF o
  <1>4. ASSUME NEW j \in 1..(n - 1)
        PROVE  Ao(j) <=> At(j)
    <2>1. \A k \in 1..(j - 1) : k \in 1..(n - 1)
      BY <1>2
    <2>. QED BY <1>1, <2>1, Zenon
  <1>5. Ao(n) <=> At(n) \/ In
    <2>1. (\A k \in 1..(n - 1) : q[k] = o[k]) <=> (\A k \in 1..(n - 1) : q[k] = p[k])
      BY <1>1
    <2>2. CASE ~(n <= Len(q))
      BY <2>2
    <2>3. CASE n <= Len(q)
      <3>1. q[n] \in Level /\ p[n] \in Level
        BY <1>2, <2>3
      <3>2. /\ q[n].i \in Nat /\ p[n].i \in Nat
            /\ q[n] = p[n] <=> q[n].dir = p[n].dir /\ q[n].i = p[n].i
        BY <3>1, LevelFacts
      <3>3. q[n].i < o[n].i <=> q[n].i < p[n].i \/ q[n].i = p[n].i
        BY <1>1, <3>2
      <3>4. In <=> (\A k \in 1..(n - 1) : q[k] = p[k]) /\ q[n] = p[n]
        BY <1>2, <2>3
      <3>. QED BY <1>1, <2>1, <2>3, <3>2, <3>3, <3>4
    <2>. QED BY <2>2, <2>3
  <1>6. \A j \in 1..n : j \in 1..(n - 1) \/ j = n
    BY <1>2
  <1>7. \A j \in 1..(n - 1) : j \in 1..n
    BY <1>2
  <1>8. n \in 1..n
    BY <1>2
  <1> HIDE DEF Ao, At, In
  <1>9. (\E j \in 1..n : Ao(j)) <=> (\E j \in 1..n : At(j)) \/ In
    BY <1>4, <1>5, <1>6, <1>7, <1>8, Zenon
  <1>. QED BY <1>3, <1>9, Zenon DEF o, At, In, Ahead, Inside

\* A resource is not behind another directory, nor behind more of them.
LEMMA ResourceFacts ==
  ASSUME NEW q \in Seq(Level), IsResource(q)
  PROVE  /\ Len(q) \in Nat \ {0} /\ Len(q) <= MaxDepth + 1 /\ q[1].dir = ResourceBase
         /\ \A j \in 1..(Len(q) - 1) :
              IsSub(q[j].dir, q[j].i) /\ q[j + 1].dir = Target(q[j].dir, q[j].i)
         /\ \A j \in 1..Len(q) : /\ There(q[j].dir) /\ IsSlot(q[j].dir, q[j].i)
                                 /\ q[j].i \in Nat
                                 /\ \A k \in Nat : k < q[j].i => GoesOn(q[j].dir, k)
  <1>1. Len(q) \in Nat \ {0} /\ Len(q) <= MaxDepth + 1 /\ q[1].dir = ResourceBase
    BY DEF IsResource, IsWay, Way
  <1>2. \A j \in 1..(Len(q) - 1) :
          IsSub(q[j].dir, q[j].i) /\ q[j + 1].dir = Target(q[j].dir, q[j].i)
    BY DEF IsResource, IsWay, Way, Descends
  <1>3. ASSUME NEW j \in 1..Len(q)
        PROVE  /\ There(q[j].dir) /\ IsSlot(q[j].dir, q[j].i)
               /\ q[j].i \in Nat
               /\ \A k \in Nat : k < q[j].i => GoesOn(q[j].dir, k)
    <2>1. q[j] \in Level
      BY <1>1
    <2>2. q[j].i \in Nat
      BY <2>1 DEF Level
    <2>3. There(q[j].dir) /\ \A k \in 0..(q[j].i - 1) : GoesOn(q[j].dir, k)
      BY DEF IsResource, IsWay, Way
    <2>4. IsSlot(q[j].dir, q[j].i)
      <3>1. j \in 1..(Len(q) - 1) \/ j = Len(q)
        BY <1>1
      <3>. QED BY <3>1 DEF IsResource, IsWay, Descends
    <2>5. \A k \in Nat : k < q[j].i => k \in 0..(q[j].i - 1)
      BY <2>2
    <2>. QED BY <2>2, <2>3, <2>4, <2>5
  <1>. QED BY <1>1, <1>2, <1>3

\* A way to data that goes with p to a directory goes on behind it.
LEMMA InsideGoesOn ==
  ASSUME NEW q \in Seq(Level), IsResource(q), NEW p \in Seq(Level), NEW n \in Nat,
         n <= Len(p), Descends(p, n), Inside(q, p, n)
  PROVE  /\ n + 1 <= Len(q) /\ There(q[n + 1].dir)
         /\ q[n + 1].dir = IF n = 0 THEN ResourceBase ELSE Target(p[n].dir, p[n].i)
  <1>1. Len(q) \in Nat \ {0} /\ n <= Len(q)
    BY ResourceFacts DEF Inside
  <1>2. CASE n = 0
    BY <1>1, <1>2, ResourceFacts
  <1>3. CASE n # 0
    <2>1. q[n] = p[n] /\ IsSub(p[n].dir, p[n].i)
      BY <1>3 DEF Inside, Descends
    <2>2. Len(q) # n
      BY <2>1 DEF IsResource
    <2>3. n + 1 <= Len(q) /\ n \in 1..(Len(q) - 1) /\ n + 1 \in 1..Len(q)
      BY <1>1, <1>3, <2>2
    <2>4. q[n + 1].dir = Target(q[n].dir, q[n].i) /\ There(q[n + 1].dir)
      BY <2>3, ResourceFacts
    <2>. QED BY <1>3, <2>1, <2>3, <2>4
  <1>. QED BY <1>2, <1>3

\* Where a directory ends all the data in it is ahead.
LEMMA LevelDone ==
  ASSUME NEW p, Way(p), NEW n \in Nat, Len(p) = n + 1, Descends(p, n),
         ~GoesOn(p[n + 1].dir, p[n + 1].i),
         NEW q \in Seq(Level), IsResource(q)
  PROVE  Ahead(q, p, n + 1) <=> Ahead(q, p, n) \/ Inside(q, p, n)
  <1>1. p \in Seq(Level)
    BY DEF Way
  <1>2. n + 1 \in 1..(n + 1) /\ n + 1 - 1 = n /\ \A j \in 1..n : j \in 1..(n + 1)
    OBVIOUS
  <1>3. ASSUME Ahead(q, p, n + 1)
        PROVE  Ahead(q, p, n) \/ Inside(q, p, n)
    <2>1. PICK j \in 1..(n + 1) :
            /\ j <= Len(q) /\ \A k \in 1..(j - 1) : q[k] = p[k]
            /\ q[j].dir = p[j].dir /\ q[j].i < p[j].i
      BY <1>3, Zenon DEF Ahead
    <2>2. CASE j = n + 1
      BY <1>2, <2>1, <2>2 DEF Inside
    <2>3. CASE j # n + 1
      <3>1. j \in 1..n
        BY <2>3
      <3>. QED BY <2>1, <3>1, Zenon DEF Ahead
    <2>. QED BY <2>2, <2>3
  <1>4. ASSUME Ahead(q, p, n)
        PROVE  Ahead(q, p, n + 1)
    BY <1>2, <1>4, Zenon DEF Ahead
  <1>5. ASSUME Inside(q, p, n)
        PROVE  Ahead(q, p, n + 1)
    <2>1. /\ n + 1 <= Len(q)
          /\ q[n + 1].dir = IF n = 0 THEN ResourceBase ELSE Target(p[n].dir, p[n].i)
      BY <1>1, <1>5, InsideGoesOn
    <2>2. p[n + 1].dir = IF n = 0 THEN ResourceBase ELSE Target(p[n].dir, p[n].i)
      BY DEF Way
    <2>3. p[n + 1] \in Level /\ p[n + 1].i \in Nat
      BY <1>1, LevelFacts
    <2>4. n + 1 \in 1..Len(q)
      BY <2>1
    <2>5. IsSlot(q[n + 1].dir, q[n + 1].i) /\ q[n + 1].i \in Nat
          /\ \A k \in Nat : k < q[n + 1].i => GoesOn(q[n + 1].dir, k)
      BY <2>4, ResourceFacts
    <2>6. GoesOn(q[n + 1].dir, q[n + 1].i)
      <3>1. CASE Len(q) = n + 1
        BY <2>5, <3>1 DEF IsResource, EndOf, GoesOn
      <3>2. CASE Len(q) # n + 1
        <4>1. n + 1 \in 1..(Len(q) - 1)
          BY <2>1, <3>2
        <4>. QED BY <2>5, <4>1, ResourceFacts DEF GoesOn
      <3>. QED BY <3>1, <3>2
    <2>7. q[n + 1].i < p[n + 1].i
      BY <2>1, <2>2, <2>3, <2>5, <2>6
    <2>8. \A k \in 1..(n + 1 - 1) : q[k] = p[k]
      BY <1>2, <1>5 DEF Inside
    <2>9. n + 1 \in 1..(n + 1) /\ n + 1 <= Len(q) /\ q[n + 1].dir = p[n + 1].dir
      BY <2>1, <2>2
    <2>10. \E j \in 1..(n + 1) :
             /\ j <= Len(q) /\ \A k \in 1..(j - 1) : q[k] = p[k]
             /\ q[j].dir = p[j].dir /\ q[j].i < p[j].i
      <3>1. n + 1 \in 1..(n + 1)
        OBVIOUS
      <3>. WITNESS n + 1 \in 1..(n + 1)
      <3>. QED BY <2>7, <2>8, <2>9
    <2>. QED BY <2>10, Zenon DEF Ahead
  <1>. QED BY <1>3, <1>4, <1>5

\* Where there is no directory there is no data.
LEMMA NothingInside ==
  ASSUME NEW p, Way(p), NEW n \in Nat, Len(p) = n, Descends(p, n),
         ~(n <= MaxDepth /\ There(IF n = 0 THEN ResourceBase ELSE Target(p[n].dir, p[n].i))),
         NEW q \in Seq(Level), IsResource(q)
  PROVE  ~Inside(q, p, n)
  <1> SUFFICES ASSUME Inside(q, p, n)
               PROVE  FALSE
    OBVIOUS
  <1>1. /\ n + 1 <= Len(q) /\ There(q[n + 1].dir)
        /\ q[n + 1].dir = IF n = 0 THEN ResourceBase ELSE Target(p[n].dir, p[n].i)
    BY InsideGoesOn DEF Way
  <1>2. Len(q) <= MaxDepth + 1 /\ Len(q) \in Nat
    BY ResourceFacts
  <1>3. n <= MaxDepth
    BY <1>1, <1>2 DEF MaxDepth
  <1>. QED BY <1>1, <1>3

\* Data is passed with its entry.
LEMMA DataInside ==
  ASSUME NEW p \in Seq(Level), NEW n \in 1..Len(p), Len(p) = n, ~IsSub(p[n].dir, p[n].i),
         NEW q \in Seq(Level), IsResource(q)
  PROVE  Inside(q, p, n) <=> q = p
  <1>1. Len(q) \in Nat \ {0}
    BY ResourceFacts
  <1>2. ASSUME Inside(q, p, n)
        PROVE  q = p
    <2>1. n <= Len(q) /\ \A k \in 1..n : q[k] = p[k]
      BY <1>2 DEF Inside
    <2>2. Len(q) = n
      <3>1. ~(n \in 1..(Len(q) - 1))
        BY <2>1, ResourceFacts
      <3>. QED BY <1>1, <2>1, <3>1
    <2>. QED BY <2>1, <2>2
  <1>. QED BY <1>2 DEF Inside

\* Behind an entry with data, that data has been found as well.
LEMMA ReachedData ==
  ASSUME NEW p \in Seq(Level), NEW n \in 1..Len(p), Len(p) = n, ~IsSub(p[n].dir, p[n].i)
  PROVE  Reached(Onwards(p, n)) = Reached(p) \cup {ResourceVa(q) : q \in {r \in {p} : IsResource(r)}}
  <1> DEFINE o == Onwards(p, n)
  <1>1. o \in Seq(Level) /\ Len(o) = n
    BY OnwardsFacts, Zenon
  <1>2. \A q \in Seq(Level) : IsResource(q) => (Ahead(q, o, n) <=> Ahead(q, p, n) \/ q = p)
    BY AheadOnwards, DataInside, Zenon
  <1> HIDE DEF o
  <1>3. \A x : x \in Reached(o) <=>
                 x \in Reached(p) \/ (IsResource(p) /\ x = ResourceVa(p))
    BY <1>1, <1>2, Zenon DEF Reached
  <1>. QED BY <1>3, Zenon DEF o

\* Behind a directory all that is in it has been found.
LEMMA ReachedUp ==
  ASSUME NEW p, Way(p), NEW n \in Nat \ {0}, Len(p) = n + 1, Descends(p, n),
         ~GoesOn(p[n + 1].dir, p[n + 1].i)
  PROVE  Reached(Onwards(p, n)) = Reached(p)
  <1> DEFINE o == Onwards(p, n)
  <1>1. n \in 1..Len(p) /\ p \in Seq(Level) /\ n \in Nat
    BY DEF Way
  <1>2. o \in Seq(Level) /\ Len(o) = n
    BY <1>1, OnwardsFacts, Zenon
  <1>3. \A q \in Seq(Level) : IsResource(q) => (Ahead(q, o, n) <=> Ahead(q, p, n) \/ Inside(q, p, n))
    BY <1>1, AheadOnwards, Zenon
  <1>4. \A q \in Seq(Level) : IsResource(q) => (Ahead(q, p, n + 1) <=> Ahead(q, p, n) \/ Inside(q, p, n))
    BY <1>1, LevelDone, Zenon
  <1> HIDE DEF o
  <1>5. \A q \in Seq(Level) : IsResource(q) => (Ahead(q, o, Len(o)) <=> Ahead(q, p, Len(p)))
    BY <1>2, <1>3, <1>4
  <1>. QED BY <1>5, Zenon DEF Reached, o

\* Behind an entry without a directory nothing more has been found.
LEMMA ReachedNothing ==
  ASSUME NEW p, Way(p), NEW n \in Nat \ {0}, Len(p) = n, Descends(p, n),
         ~(n <= MaxDepth /\ There(Target(p[n].dir, p[n].i)))
  PROVE  Reached(Onwards(p, n)) = Reached(p)
  <1> DEFINE o == Onwards(p, n)
  <1>1. n \in 1..Len(p) /\ p \in Seq(Level) /\ n \in Nat /\ n # 0
    BY DEF Way
  <1>2. o \in Seq(Level) /\ Len(o) = n
    BY <1>1, OnwardsFacts, Zenon
  <1>3. \A q \in Seq(Level) : IsResource(q) => (Ahead(q, o, n) <=> Ahead(q, p, n) \/ Inside(q, p, n))
    BY <1>1, AheadOnwards, Zenon
  <1>4. ~(n <= MaxDepth /\ There(IF n = 0 THEN ResourceBase ELSE Target(p[n].dir, p[n].i)))
    BY <1>1
  <1>5. \A q \in Seq(Level) : IsResource(q) => ~Inside(q, p, n)
    BY <1>1, <1>4, NothingInside, Zenon
  <1> HIDE DEF o
  <1>6. \A q \in Seq(Level) : IsResource(q) => (Ahead(q, o, Len(o)) <=> Ahead(q, p, Len(p)))
    BY <1>2, <1>3, <1>5
  <1>. QED BY <1>6, Zenon DEF Reached, o

\* In front of the first entry of a directory nothing more has been found.
LEMMA ReachedDown ==
  ASSUME NEW p \in Seq(Level), NEW d \in Nat
  PROVE  /\ Append(p, [dir |-> d, i |-> 0]) \in Seq(Level)
         /\ Reached(Append(p, [dir |-> d, i |-> 0])) = Reached(p)
  <1> DEFINE l == [dir |-> d, i |-> 0]
             o == Append(p, l)
             n == Len(p)
  <1>1. l \in Level
    BY DEF Level
  <1>2. l.i = 0
    OBVIOUS
  <1> HIDE DEF l
  <1>3. /\ o \in Seq(Level) /\ Len(o) = n + 1 /\ n \in Nat
        /\ \A j \in 1..n : o[j] = p[j]
        /\ o[n + 1] = l
    BY <1>1
  <1> HIDE DEF o, n
  <1>4. ASSUME NEW q \in Seq(Level), IsResource(q)
        PROVE  Ahead(q, o, n + 1) <=> Ahead(q, p, n)
    <2>1. ASSUME NEW j \in 1..n
          PROVE  /\ (\A k \in 1..(j - 1) : q[k] = o[k]) <=> (\A k \in 1..(j - 1) : q[k] = p[k])
                 /\ o[j] = p[j]
      <3>1. \A k \in 1..(j - 1) : k \in 1..n
        BY <1>3
      <3>. QED BY <1>3, <3>1
    <2>2. ~(n + 1 <= Len(q) /\ q[n + 1].i < o[n + 1].i)
      <3>1. n + 1 <= Len(q) => n + 1 \in 1..Len(q)
        BY <1>3, <1>4, ResourceFacts
      <3>2. \A j \in 1..Len(q) : q[j].i \in Nat
        BY <1>4, ResourceFacts
      <3>. QED BY <1>2, <1>3, <3>1, <3>2
    <2>3. \A j \in 1..(n + 1) : j \in 1..n \/ j = n + 1
      BY <1>3
    <2>4. \A j \in 1..n : j \in 1..(n + 1)
      BY <1>3
    <2>. QED BY <2>1, <2>2, <2>3, <2>4, Zenon DEF Ahead
  <1>5. \A q \in Seq(Level) : IsResource(q) => (Ahead(q, o, Len(o)) <=> Ahead(q, p, Len(p)))
    BY <1>3, <1>4 DEF n
  <1>6. Reached(o) = Reached(p)
    BY <1>5, Zenon DEF Reached
  <1>. QED BY <1>3, <1>6 DEF o, l

\* At the start nothing has been found, at the end everything.
LEMMA ReachedAtEnds ==
  /\ Reached(<<>>) = {}
  /\ \A p : Way(p) /\ Len(p) = 1 /\ ~GoesOn(p[1].dir, p[1].i) /\ Present("resources")
             => Reached(p) = AllResources
  /\ ~There(ResourceBase) \/ ~Present("resources") => AllResources = {}
  <1>1. Reached(<<>>) = {}
    <2>1. \A q : ~Ahead(q, <<>>, 0)
      BY DEF Ahead
    <2>. QED BY <2>1 DEF Reached
  <1>2. ASSUME NEW p, Way(p), Len(p) = 1, ~GoesOn(p[1].dir, p[1].i), Present("resources")
        PROVE  Reached(p) = AllResources
    <2>1. 0 \in Nat /\ Len(p) = 0 + 1 /\ ~GoesOn(p[0 + 1].dir, p[0 + 1].i) /\ 0 + 1 = 1
      BY <1>2
    <2>2. Descends(p, 0) /\ \A q \in Seq(Level) : Inside(q, p, 0)
      BY DEF Descends, Inside
    <2>3. \A q \in Seq(Level) : IsResource(q) => Ahead(q, p, 1)
      BY <1>2, <2>1, <2>2, LevelDone
    <2>. QED BY <1>2, <2>3, Zenon DEF Reached, AllResources
  <1>3. ~There(ResourceBase) \/ ~Present("resources") => AllResources = {}
    <2>1. ASSUME NEW q \in Seq(Level), IsResource(q)
          PROVE  There(ResourceBase)
      <3>1. 1 \in 1..Len(q)
        BY <2>1, ResourceFacts
      <3>. QED BY <2>1, <3>1, ResourceFacts
    <2>. QED BY <2>1, Zenon DEF AllResources
  <1>. QED BY <1>1, <1>2, <1>3

\* The data that has been found.
Data(o) == {n.addr : n \in {m \in o.names : m.name = "rsrc_data"}}

Named(as, name) == {[addr |-> a, name |-> name] : a \in as}

\* Names of other kinds are no data.
LEMMA OtherNames ==
  ASSUME NEW o, NEW p, NEW as, NEW name, name # "rsrc_data",
         p.names = o.names \cup Named(as, name)
  PROVE  Data(p) = Data(o)
  <1>1. \A m \in Named(as, name) : m.name # "rsrc_data"
    <2>1. \A a : [addr |-> a, name |-> name].name = name
      OBVIOUS
    <2>. QED BY <2>1 DEF Named
  <1>2. {m \in p.names : m.name = "rsrc_data"} = {m \in o.names : m.name = "rsrc_data"}
    BY <1>1
  <1>. QED BY <1>2, Zenon DEF Data

\* The steps of the exports find no data.
LEMMA NamesOfExports ==
  ASSUME Shape, ReadExports
  PROVE  out'.names = out.names
  <1>1. CASE ExportsOpen
    BY <1>1 DEF ExportsOpen, Shape
  <1>2. CASE SkipExport
    BY <1>2 DEF SkipExport
  <1>3. CASE Export
    <2>1. \E x, y, z : out' = [out EXCEPT !.exports = x, !.types = y, !.functions = z]
      BY <1>3, Zenon DEF Export
    <2>. QED BY <2>1 DEF Shape
  <1>4. CASE ExportsDone
    BY <1>4 DEF ExportsDone
  <1>. QED BY <1>1, <1>2, <1>3, <1>4 DEF ReadExports

\* Nor do those of the imports,
LEMMA NamesOfImports ==
  ASSUME Shape, ReadImports
  PROVE  out'.names = out.names
  <1>1. CASE ImportsOpen \/ ImportsDone
    BY <1>1 DEF ImportsOpen, ImportsDone
  <1>2. CASE Descriptor
    BY <1>2 DEF Descriptor, Shape
  <1>3. CASE Thunk
    <2>1. \E x, y : out' = [out EXCEPT !.imports = x, !.types = y]
      BY <1>3, Zenon DEF Thunk
    <2>. QED BY <2>1 DEF Shape
  <1>4. CASE ThunksDone
    <2>1. \E x : out' = [out EXCEPT !.types = x]
      BY <1>4, Zenon DEF ThunksDone
    <2>. QED BY <2>1 DEF Shape
  <1>. QED BY <1>1, <1>2, <1>3, <1>4 DEF ReadImports

\* of the exceptions,
LEMMA NamesOfExceptions ==
  ASSUME Shape, ReadExceptions
  PROVE  Data(out') = Data(out)
  <1>1. CASE ExceptionsOpen \/ ExceptionsDone
    BY <1>1 DEF ExceptionsOpen, ExceptionsDone, Data
  <1>2. CASE ExceptionEntry
    <2> DEFINE e == Item(reader.pos)
               f == {a \in {Normal(FromRva(e.begin))} : e.begin # 0}
               n == out.names \cup {[addr |-> a, name |-> "exc"] : a \in f}
    <2>1. \E x, y : out' = [Function(f) EXCEPT !.thumb = x, !.types = y, !.names = Function(f).names \cup {[addr |-> a, name |-> "exc"] : a \in f}]
      BY <1>2, Zenon DEF ExceptionEntry
    <2>2. "names" \in DOMAIN Function(f) /\ Function(f).names = out.names
      BY DEF Function, Shape
    <2> HIDE DEF f
    <2>3. out'.names = out.names \cup Named(f, "exc")
      BY <2>1, <2>2 DEF Named
    <2>4. "exc" # "rsrc_data"
      OBVIOUS
    <2>. QED BY ONLY <2>3, <2>4, OtherNames
  <1>. QED BY <1>1, <1>2 DEF ReadExceptions

\* of the debug directory,
LEMMA NamesOfDebug ==
  ASSUME Shape, ReadDebug
  PROVE  Data(out') = Data(out)
  <1>1. CASE DebugOpen \/ DebugDone
    BY <1>1 DEF DebugOpen, DebugDone, Data
  <1>2. CASE DebugEntry
    <2> DEFINE f == PdbNames(Item(reader.pos))
               n == out.names \cup {[addr |-> a, name |-> "pdb"] : a \in f}
    <2>1. \E x : out' = [out EXCEPT !.types = x, !.names = n]
      BY <1>2, Zenon DEF DebugEntry
    <2> HIDE DEF f
    <2>2. out'.names = out.names \cup Named(f, "pdb")
      BY <2>1 DEF Shape, Named
    <2>3. "pdb" # "rsrc_data"
      OBVIOUS
    <2>. QED BY ONLY <2>2, <2>3, OtherNames
  <1>. QED BY <1>1, <1>2 DEF ReadDebug

\* of the callbacks,
LEMMA NamesOfTls ==
  ASSUME Shape, ReadTls
  PROVE  Data(out') = Data(out)
  <1>1. CASE TlsOpen
    <2> DEFINE f == {Item(DirectoryVa("tls")).index} \ {0}
               n == out.names \cup {[addr |-> a, name |-> "_tls_index"] : a \in f}
    <2>1. CASE Present("tls") /\ There(DirectoryVa("tls"))
      <3>1. \E x : out' = [out EXCEPT !.types = x, !.names = n]
        BY <1>1, <2>1, Zenon DEF TlsOpen
      <3> HIDE DEF f
      <3>2. out'.names = out.names \cup Named(f, "_tls_index")
        BY <3>1 DEF Shape, Named
      <3>3. "_tls_index" # "rsrc_data"
        OBVIOUS
      <3>. QED BY ONLY <3>2, <3>3, OtherNames
    <2>2. CASE ~(Present("tls") /\ There(DirectoryVa("tls")))
      BY <1>1, <2>2 DEF TlsOpen, Data
    <2>. QED BY <2>1, <2>2
  <1>2. CASE TlsCallback
    <2> DEFINE c == Plain(Item(reader.pos))
               f == {Normal(c)}
    <2>1. \E x, y : out' = [Function(f) EXCEPT !.thumb = x, !.types = y,
                              !.names = Function(f).names \cup {[addr |-> Normal(c), name |-> "tls_callback"]}]
      BY <1>2, Zenon DEF TlsCallback
    <2>2. "names" \in DOMAIN Function(f) /\ Function(f).names = out.names
      BY DEF Function, Shape
    <2>3. {[addr |-> Normal(c), name |-> "tls_callback"]} = {[addr |-> a, name |-> "tls_callback"] : a \in f}
      <3> HIDE DEF c
      <3>. QED BY Zenon
    <2> HIDE DEF f, c
    <2>4. out'.names = out.names \cup Named(f, "tls_callback")
      BY <2>1, <2>2, <2>3 DEF Named
    <2>5. "tls_callback" # "rsrc_data"
      OBVIOUS
    <2>. QED BY ONLY <2>4, <2>5, OtherNames
  <1>3. CASE TlsDone
    BY <1>3 DEF TlsDone, Data
  <1>. QED BY <1>1, <1>2, <1>3 DEF ReadTls

\* of the load configuration,
LEMMA NamesOfConfig ==
  ASSUME Shape, ReadConfig
  PROVE  Data(out') = Data(out)
  <1>1. CASE ConfigOpen
    <2> DEFINE va == DirectoryVa("config")
               is == Present("config") /\ Directory("config").size # 0 /\ There(va) /\ Item(va).size >= 4
               cookie == IF HasCookie(Item(va)) THEN Item(va).cookie ELSE 0
               f == {cookie}
    <2>1. CASE is
      <3>1. \E x : out' = [out EXCEPT !.types = x,
                      !.names = out.names \cup {[addr |-> cookie, name |-> "__pe_security_cookie"]}]
        BY <1>1, <2>1, Zenon DEF ConfigOpen
      <3> HIDE DEF cookie
      <3>2. {[addr |-> cookie, name |-> "__pe_security_cookie"]} =
              {[addr |-> a, name |-> "__pe_security_cookie"] : a \in f}
        BY Zenon
      <3> HIDE DEF f
      <3>3. out'.names = out.names \cup Named(f, "__pe_security_cookie")
        BY <3>1, <3>2 DEF Shape, Named
      <3>4. "__pe_security_cookie" # "rsrc_data"
        OBVIOUS
      <3>. QED BY ONLY <3>3, <3>4, OtherNames
    <2>2. CASE ~is
      BY <1>1, <2>2 DEF ConfigOpen, Data
    <2>. QED BY <2>1, <2>2
  <1>2. CASE SEHandler
    <2>1. \E f, x : out' = [Function(f) EXCEPT !.types = x]
      BY <1>2, Zenon DEF SEHandler
    <2>2. out'.names = out.names
      BY <2>1 DEF Function, Shape
    <2>. QED BY <2>2 DEF Data
  <1>3. CASE ConfigDone
    BY <1>3 DEF ConfigDone, Data
  <1>. QED BY <1>1, <1>2, <1>3 DEF ReadConfig

\* and those before and behind all the directories.
LEMMA NamesOfEnd ==
  ASSUME Shape, SetEntryPoint \/ Classify \/ MapSection \/ SectionsMapped
  PROVE  out'.names = out.names
  <1>1. CASE SetEntryPoint
    <2>1. out' = out \/ \E f, x : out' = [Function(f) EXCEPT !.thumb = x]
      BY <1>1, Zenon DEF SetEntryPoint
    <2>. QED BY <2>1 DEF Function, Shape
  <1>2. CASE Classify \/ MapSection \/ SectionsMapped
    BY <1>2 DEF Classify, ClassifyImport, ClassifyDone, Classified, MapSection, SectionsMapped
  <1>. QED BY <1>1, <1>2

\* Where the loader is in front of the resources, and behind them.
BeforeResources ==
  {"sections", "rejected", "exports", "export", "imports", "descriptor", "thunk", "resources"}
BehindResources ==
  {"exceptions", "exception", "debug", "debugentry", "tls", "callback", "config", "handler",
   "entrypoint", "classify", "classified", "loaded"}

\* The other directories leave the data and the frames alone.
LEMMA DataElsewhere ==
  ASSUME Shape
  PROVE  /\ \/ MapSection \/ SectionsMapped \/ ReadExports \/ ReadImports
            => /\ Data(out') = Data(out) /\ frames' = frames
               /\ pc \in BeforeResources \ {"resources"} /\ pc' \in BeforeResources
         /\ \/ ReadExceptions \/ ReadDebug \/ ReadTls \/ ReadConfig \/ SetEntryPoint \/ Classify
            => Data(out') = Data(out) /\ pc \in BehindResources /\ pc' \in BehindResources
  <1>1. ASSUME MapSection \/ SectionsMapped \/ ReadExports \/ ReadImports
        PROVE  /\ Data(out') = Data(out) /\ frames' = frames
               /\ pc \in BeforeResources \ {"resources"} /\ pc' \in BeforeResources
    <2>1. out'.names = out.names
      BY <1>1, NamesOfEnd, NamesOfExports, NamesOfImports
    <2>2. frames' = frames
      BY <1>1 DEF MapSection, SectionsMapped, ReadExports, ReadImports, ExportsOpen, SkipExport,
                  Export, ExportsDone, ImportsOpen, Descriptor, Thunk, ThunksDone, ImportsDone
    <2>3. pc \in BeforeResources \ {"resources"} /\ pc' \in BeforeResources
      BY <1>1, SectionsEffect, ExportsSteps, ImportsSteps DEF BeforeResources
    <2>. QED BY <2>1, <2>2, <2>3 DEF Data
  <1>2. ASSUME ReadExceptions \/ ReadDebug \/ ReadTls \/ ReadConfig \/ SetEntryPoint \/ Classify
        PROVE  Data(out') = Data(out) /\ pc \in BehindResources /\ pc' \in BehindResources
    <2>1. CASE ReadExceptions
      BY <2>1, NamesOfExceptions, ExceptionsSteps DEF BehindResources
    <2>2. CASE ReadDebug
      BY <2>2, NamesOfDebug, DebugSteps DEF BehindResources
    <2>3. CASE ReadTls
      BY <2>3, NamesOfTls, TlsSteps DEF BehindResources
    <2>4. CASE ReadConfig
      BY <2>4, NamesOfConfig, ConfigSteps DEF BehindResources
    <2>5. CASE SetEntryPoint
      <3>1. pc = "entrypoint"
        BY <2>5 DEF SetEntryPoint
      <3>. QED BY <2>5, <3>1, NamesOfEnd, SetEntryPointEffect DEF BehindResources, Data
    <2>6. CASE Classify
      BY <2>6, NamesOfEnd, ClassifyEffect DEF BehindResources, Data
    <2>. QED BY <1>2, <2>1, <2>2, <2>3, <2>4, <2>5, <2>6
  <1>. QED BY <1>1, <1>2

\* What the image alone decides stays with it.
LEMMA ResourcesFixed ==
  ASSUME image' = image
  PROVE  /\ \A d : Total(d)' = Total(d) /\ There(d)' = There(d) /\ Item(d)' = Item(d)
         /\ \A p : Way(p)' = Way(p) /\ EndOf(p)' = EndOf(p) /\ Reached(p)' = Reached(p)
         /\ \A p, n : Descends(p, n)' = Descends(p, n)
         /\ ResourceBase' = ResourceBase /\ Present("resources")' = Present("resources")
         /\ AllResources' = AllResources /\ ResourcesWritten' = ResourcesWritten
  <1>1. \A a : There(a)' = There(a) /\ Item(a)' = Item(a) /\ FromRva(a)' = FromRva(a)
    BY DEF There, Item, FromRva
  <1>2. ResourceBase' = ResourceBase /\ Present("resources")' = Present("resources")
    BY DEF ResourceBase, DirectoryVa, Directory, FromRva, Present
  <1>3. \A d : Total(d)' = Total(d)
    BY <1>1, Zenon DEF Total
  <1>4. \A d, i : Item(EntrySlot(d, i))' = Item(EntrySlot(d, i))
                  /\ There(EntrySlot(d, i))' = There(EntrySlot(d, i))
    BY DEF There, Item, EntrySlot
  <1>5. \A d, i : IsSlot(d, i)' = IsSlot(d, i)
    BY <1>3, <1>4, Zenon DEF IsSlot
  <1>6. \A d, i : IsSub(d, i)' = IsSub(d, i)
    BY <1>4, Zenon DEF IsSub
  <1>7. \A d, i : Target(d, i)' = Target(d, i)
    BY <1>2, <1>4, Zenon DEF Target
  <1>8. \A d, i : There(Target(d, i))' = There(Target(d, i))
    BY <1>1, <1>7, Zenon
  <1>9. \A d, i : GoesOn(d, i)' = GoesOn(d, i)
    BY <1>5, <1>6, <1>8, Zenon DEF GoesOn
  <1>10. \A p : Way(p)' = Way(p)
    BY <1>1, <1>2, <1>7, <1>9, Zenon DEF Way
  <1>11. \A p, n : Descends(p, n)' = Descends(p, n)
    BY <1>5, <1>6, Zenon DEF Descends
  <1>12. \A p : IsWay(p)' = IsWay(p)
    BY <1>5, <1>10, <1>11, Zenon DEF IsWay
  <1>13. \A p : EndOf(p)' = EndOf(p)
    BY <1>7, Zenon DEF EndOf
  <1>14. \A p : Item(EndOf(p))' = Item(EndOf(p)) /\ There(EndOf(p))' = There(EndOf(p))
    BY <1>1, <1>13, Zenon
  <1>15. \A p : IsSub(p[Len(p)].dir, p[Len(p)].i)' = IsSub(p[Len(p)].dir, p[Len(p)].i)
    BY <1>6, Zenon
  <1>16. \A p : IsResource(p)' = IsResource(p)
    <2>1. \A p : (Item(EndOf(p)).rva # 0 /\ Item(EndOf(p)).size # 0)' <=>
                 (Item(EndOf(p)).rva # 0 /\ Item(EndOf(p)).size # 0)
      BY <1>14, Zenon
    <2>2. \A p : There(EndOf(p))' = There(EndOf(p))
      BY <1>14, Zenon
    <2>. QED BY ONLY <1>12, <1>15, <2>1, <2>2, SMT DEF IsResource
  <1>17. \A p : ResourceVa(p)' = ResourceVa(p)
    BY <1>1, <1>14, Zenon DEF ResourceVa
  <1>18. \A p : Reached(p)' = Reached(p)
    BY <1>16, <1>17, Zenon DEF Reached, Ahead
  <1>19. AllResources' = AllResources
    BY <1>2, <1>16, <1>17, Zenon DEF AllResources
  <1>20. ResourcesWritten' = ResourcesWritten
    BY <1>12, <1>13, <1>15, <1>19, SMTT(30) DEF ResourcesWritten
  <1>. QED BY <1>1, <1>2, <1>3, <1>10, <1>11, <1>13, <1>18, <1>19, <1>20, Zenon

-----------------------------------------------------------------------------
\* A directory that is being read.
Reading == [entry : Nat, i : Nat, total : {Total(d) : d \in Nat}]

\* The frames are those of the first n levels of the way.
Matches(fs, p, n) ==
  /\ fs \in Seq(Reading) /\ Len(fs) = n
  /\ \A j \in 1..n : fs[j].i = p[j].i /\ fs[j].total = Total(p[j].dir)

\* The reader comes back behind the entry of each of the first n levels.
Stacked(s, p, n) ==
  /\ s \in Seq(Nat) /\ Len(s) = n
  /\ \A j \in 1..n : s[j] = EntrySlot(p[j].dir, p[j].i) + 8

\* The loader is at the entry to which the way leads.
AtEntry(p) ==
  /\ Present("resources")
  /\ Way(p) /\ Len(p) # 0 /\ Descends(p, Len(p) - 1)
  /\ Matches(frames, p, Len(p))
  /\ Stacked(reader.stack, p, Len(p) - 1)
  /\ reader.pos = EntrySlot(p[Len(p)].dir, p[Len(p)].i)
  /\ Data(out) = Reached(p)

\* The loader is in front of the directory to which the way leads.
AtDirectory(p) ==
  /\ Present("resources")
  /\ Way(p) /\ Descends(p, Len(p))
  /\ Matches(frames, p, Len(p))
  /\ Stacked(reader.stack, p, Len(p))
  /\ cur.va \in Nat /\ cur.va = IF Len(p) = 0 THEN ResourceBase ELSE EndOf(p)
  /\ Data(out) = Reached(p)

\* The resources up to the one that is read have been found.
ResourceInv ==
  /\ pc \in BeforeResources => frames = <<>> /\ Data(out) = {}
  /\ pc \in BeforeResources \ {"thunk"} => reader.stack = <<>>
  /\ pc = "thunk" => \E x : reader.stack = <<x>>
  /\ ResourcesWritten =>
       /\ pc = "directory" => \E p : AtDirectory(p)
       /\ pc = "entry" => \E p : AtEntry(p)
       /\ pc \in BehindResources => Data(out) = AllResources

\* At the start there is none.
LEMMA InitResources ==
  ASSUME Init
  PROVE  ResourceInv
  BY DEF Init, ResourceInv, BeforeResources, BehindResources, Data

\* The frames match in the next state what they match in this one.
LEMMA MatchesFixed ==
  ASSUME image' = image
  PROVE  /\ Reading' = Reading
         /\ \A p, n : Matches(frames, p, n)' <=>
              /\ frames' \in Seq(Reading) /\ Len(frames') = n
              /\ \A j \in 1..n : frames'[j].i = p[j].i /\ frames'[j].total = Total(p[j].dir)
         /\ \A p, n : Stacked(reader.stack, p, n)' <=>
              /\ reader'.stack \in Seq(Nat) /\ Len(reader'.stack) = n
              /\ \A j \in 1..n : reader'.stack[j] = EntrySlot(p[j].dir, p[j].i) + 8
  <1>1. \A d : Total(d)' = Total(d)
    BY ResourcesFixed
  <1>2. Reading' = Reading
    BY <1>1, Zenon DEF Reading
  <1>. QED BY <1>1, <1>2, Zenon DEF Matches, Stacked, EntrySlot

\* Where the loader comes to after a step: an entry,
LEMMA NextAtEntry ==
  ASSUME image' = image, NEW p,
         Present("resources"), Way(p), Len(p) # 0, Descends(p, Len(p) - 1),
         Matches(frames', p, Len(p)), Stacked(reader'.stack, p, Len(p) - 1),
         reader'.pos = EntrySlot(p[Len(p)].dir, p[Len(p)].i),
         Data(out') = Reached(p)
  PROVE  AtEntry(p)'
  <1>1. Way(p)' /\ Descends(p, Len(p) - 1)' /\ Reached(p)' = Reached(p) /\ Present("resources")'
    BY ResourcesFixed, Zenon
  <1>2. Matches(frames, p, Len(p))' /\ Stacked(reader.stack, p, Len(p) - 1)'
    BY MatchesFixed, Zenon DEF Matches, Stacked
  <1>3. Data(out)' = Reached(p)'
    <2>1. Data(out)' = Data(out')
      BY Zenon DEF Data
    <2>. QED BY <1>1, <2>1
  <1>4. (reader.pos)' = EntrySlot(p[Len(p)].dir, p[Len(p)].i)'
    BY DEF EntrySlot
  <1>. QED BY <1>1, <1>2, <1>3, <1>4, Zenon DEF AtEntry

\* or a directory.
LEMMA NextAtDirectory ==
  ASSUME image' = image, NEW p,
         Present("resources"), Way(p), Descends(p, Len(p)),
         Matches(frames', p, Len(p)), Stacked(reader'.stack, p, Len(p)),
         cur'.va \in Nat, cur'.va = IF Len(p) = 0 THEN ResourceBase ELSE EndOf(p),
         Data(out') = Reached(p)
  PROVE  AtDirectory(p)'
  <1>1. /\ Way(p)' /\ Descends(p, Len(p))' /\ Reached(p)' = Reached(p) /\ Present("resources")'
        /\ ResourceBase' = ResourceBase /\ EndOf(p)' = EndOf(p)
    BY ResourcesFixed, Zenon
  <1>2. Matches(frames, p, Len(p))' /\ Stacked(reader.stack, p, Len(p))'
    BY MatchesFixed, Zenon DEF Matches, Stacked
  <1>3. Data(out)' = Reached(p)'
    <2>1. Data(out)' = Data(out')
      BY Zenon DEF Data
    <2>. QED BY <1>1, <2>1
  <1>4. (cur.va)' \in Nat /\ (cur.va)' = IF Len(p) = 0 THEN ResourceBase' ELSE EndOf(p)'
    BY <1>1
  <1>. QED BY <1>1, <1>2, <1>3, <1>4, Zenon DEF AtDirectory

\* An entry of a directory has eight bytes.
LEMMA NextSlot ==
  ASSUME NEW d \in Nat, NEW i \in Nat
  PROVE  EntrySlot(d, i) \in Nat /\ EntrySlot(d, i + 1) = EntrySlot(d, i) + 8
  BY DEF EntrySlot

\* The frame of the innermost directory goes on with its next entry.
LEMMA NextEntry ==
  ASSUME NEW p \in Seq(Level), NEW n \in 1..Len(p), NEW fs, Matches(fs, p, n), NEW x \in Nat
  PROVE  Matches([fs EXCEPT ![n].entry = x, ![n].i = @ + 1], Onwards(p, n), n)
  <1> DEFINE gs == [fs EXCEPT ![n].entry = x, ![n].i = @ + 1]
             o == Onwards(p, n)
  <1>1. n \in Nat /\ n \in 1..n
    OBVIOUS
  <1>2. /\ \A j \in 1..(n - 1) : o[j] = p[j]
        /\ o[n].dir = p[n].dir /\ o[n].i = p[n].i + 1
    BY OnwardsFacts, Zenon
  <1> HIDE DEF o
  <1>3. fs \in Seq(Reading) /\ Len(fs) = n
        /\ \A j \in 1..n : fs[j].i = p[j].i /\ fs[j].total = Total(p[j].dir)
    BY DEF Matches
  <1> DEFINE f == fs[n]
             g == [f EXCEPT !.entry = x, !.i = @ + 1]
  <1>4. f \in Reading
    BY <1>1, <1>3
  <1>5. g \in Reading /\ g.i = f.i + 1 /\ g.total = f.total
    <2> DEFINE T == {Total(d) : d \in Nat}
    <2>1. Reading = [entry : Nat, i : Nat, total : T]
      BY DEF Reading
    <2> HIDE DEF T, f
    <2>2. f = [entry |-> f.entry, i |-> f.i, total |-> f.total] /\ f.i \in Nat /\ f.total \in T
      BY <1>4, <2>1
    <2>3. g = [entry |-> x, i |-> f.i + 1, total |-> f.total]
      <3>1. DOMAIN f = {"entry", "i", "total"}
        BY <1>4, <2>1
      <3>2. /\ DOMAIN g = {"entry", "i", "total"}
            /\ g.entry = x /\ g.i = f.i + 1 /\ g.total = f.total
        BY <3>1
      <3> DEFINE h == [entry |-> x, i |-> f.i + 1, total |-> f.total]
      <3>3. g = [k \in DOMAIN f |-> g[k]]
        OBVIOUS
      <3>4. h = [k \in DOMAIN f |-> h[k]]
        BY <3>1
      <3> HIDE DEF g
      <3>5. \A k \in DOMAIN f : g[k] = h[k]
        BY <3>1, <3>2
      <3>. QED BY <3>3, <3>4, <3>5
    <2>4. x \in Nat /\ f.i + 1 \in Nat
      BY <2>2
    <2>. QED BY <2>1, <2>2, <2>3, <2>4
  <1>6. gs = [fs EXCEPT ![n] = g]
    <2>1. fs \in [1..n -> Reading]
      BY <1>3
    <2>. QED BY <1>1, <1>4, <2>1 DEF Reading
  <1> HIDE DEF g, gs
  <1>7. /\ gs \in Seq(Reading) /\ Len(gs) = n
        /\ gs[n] = g /\ \A j \in 1..(n - 1) : gs[j] = fs[j]
    BY <1>1, <1>3, <1>5, <1>6
  <1>8. \A j \in 1..n : j \in 1..(n - 1) \/ j = n
    BY <1>1
  <1>9. \A j \in 1..(n - 1) : j \in 1..n
    BY <1>1
  <1>10. Matches(gs, o, n)
    <2> HIDE DEF f
    <2>1. \A j \in 1..(n - 1) : gs[j].i = o[j].i /\ gs[j].total = Total(o[j].dir)
      BY <1>2, <1>3, <1>7, <1>9
    <2>2. gs[n].i = o[n].i /\ gs[n].total = Total(o[n].dir)
      BY <1>1, <1>2, <1>3, <1>5, <1>7 DEF f
    <2>. QED BY <1>7, <1>8, <2>1, <2>2 DEF Matches
  <1>. QED BY <1>10, Zenon DEF gs, o

\* Behind a directory, or what should be one, the caller goes on with its next entry.
LEMMA Resumed ==
  ASSUME NEW p \in Seq(Level), NEW n \in Nat \ {0}, n <= Len(p),
         NEW r, DOMAIN r = {"pos", "stack"}, Stacked(r.stack, p, n),
         NEW fs, Matches(fs, p, n), Resume(r, fs)
  PROVE  /\ pc' = "entry"
         /\ Matches(frames', Onwards(p, n), n)
         /\ Stacked(reader'.stack, Onwards(p, n), n - 1)
         /\ reader'.pos = EntrySlot(Onwards(p, n)[n].dir, Onwards(p, n)[n].i)
  <1> DEFINE o == Onwards(p, n)
             s == r.stack
             x == reader'.pos
  <1>1. n \in 1..Len(p) /\ n - 1 \in Nat /\ n \in 1..n
    OBVIOUS
  <1>2. /\ o \in Seq(Level) /\ Len(o) = n
        /\ \A j \in 1..(n - 1) : o[j] = p[j]
        /\ o[n].dir = p[n].dir /\ o[n].i = p[n].i + 1
    BY <1>1, OnwardsFacts, Zenon
  <1> HIDE DEF o
  <1>3. p[n] \in Level /\ p[n].dir \in Nat /\ p[n].i \in Nat
    BY <1>1, LevelFacts
  <1>4. s \in Seq(Nat) /\ Len(s) = n /\ \A j \in 1..n : s[j] = EntrySlot(p[j].dir, p[j].i) + 8
    BY DEF Stacked
  <1>5. fs \in Seq(Reading) /\ Len(fs) = n
        /\ \A j \in 1..n : fs[j].i = p[j].i /\ fs[j].total = Total(p[j].dir)
    BY DEF Matches
  <1>6. fs # <<>>
    BY <1>5
  <1>7. /\ reader' = Restored(r) /\ pc' = "entry"
        /\ frames' = [fs EXCEPT ![n].entry = x, ![n].i = @ + 1]
    BY <1>5, <1>6 DEF Resume
  <1>8. x = Last(s) /\ reader'.stack = Front(s)
    BY <1>7 DEF Restored
  <1> HIDE DEF s, x
  <1>9. Last(s) = s[n] /\ Front(s) \in Seq(Nat) /\ Len(Front(s)) = n - 1
        /\ \A j \in 1..(n - 1) : Front(s)[j] = s[j]
    BY <1>4 DEF Last, Front
  <1>10. x = EntrySlot(p[n].dir, p[n].i) + 8 /\ x \in Nat
    <2>1. x = EntrySlot(p[n].dir, p[n].i) + 8
      BY <1>1, <1>4, <1>8, <1>9, Zenon
    <2>2. EntrySlot(p[n].dir, p[n].i) \in Nat
      BY <1>3, NextSlot
    <2>. QED BY <2>1, <2>2
  <1>11. x = EntrySlot(o[n].dir, o[n].i)
    <2>1. EntrySlot(p[n].dir, p[n].i + 1) = EntrySlot(p[n].dir, p[n].i) + 8
      BY <1>3, NextSlot
    <2>. QED BY ONLY <1>2, <1>10, <2>1, Zenon
  <1>12. Stacked(reader'.stack, o, n - 1)
    <2>1. \A j \in 1..(n - 1) : Front(s)[j] = EntrySlot(o[j].dir, o[j].i) + 8
      <3>1. \A j \in 1..(n - 1) : j \in 1..n
        BY <1>1
      <3>. QED BY <1>2, <1>4, <1>9, <3>1
    <2>. QED BY <1>8, <1>9, <2>1 DEF Stacked
  <1>13. Matches(frames', o, n)
    BY <1>1, <1>7, <1>10, NextEntry, Zenon DEF o
  <1>. QED BY <1>7, <1>11, <1>12, <1>13 DEF x, o

\* and what has been found is what is in front of that entry.
LEMMA ComesBack ==
  ASSUME image' = image, Present("resources"),
         NEW p, Way(p), NEW n \in Nat \ {0}, n <= Len(p), Descends(p, n),
         NEW r, DOMAIN r = {"pos", "stack"}, Stacked(r.stack, p, n),
         NEW fs, Matches(fs, p, n), Resume(r, fs),
         Data(out') = Reached(Onwards(p, n))
  PROVE  pc' = "entry" /\ \E q : AtEntry(q)'
  <1> DEFINE o == Onwards(p, n)
  <1>1. p \in Seq(Level) /\ n \in 1..Len(p) /\ n \in Nat /\ n \in 1..n
    BY DEF Way
  <1>2. /\ pc' = "entry" /\ Matches(frames', o, n) /\ Stacked(reader'.stack, o, n - 1)
        /\ reader'.pos = EntrySlot(o[n].dir, o[n].i)
    BY <1>1, Resumed, Zenon
  <1>3. /\ o \in Seq(Level) /\ Len(o) = n
        /\ \A j \in 1..(n - 1) : o[j] = p[j]
    BY <1>1, OnwardsFacts, Zenon
  <1>4. Way(o)
    <2>1. GoesOn(p[n].dir, p[n].i)
      BY <1>1 DEF Descends, GoesOn
    <2>. QED BY <1>1, <2>1, WayOnwards, Zenon
  <1> HIDE DEF o
  <1>5. Descends(o, n - 1)
    <2>1. \A j \in 1..(n - 1) : j \in 1..n
      BY <1>1
    <2>. QED BY <1>3, <2>1, Zenon DEF Descends
  <1>6. n # 0 /\ Data(out') = Reached(o)
    BY DEF o
  <1>. QED BY <1>2, <1>3, <1>4, <1>5, <1>6, NextAtEntry, Zenon

\* Where the reader comes back to, whatever it has to come back to later.
LEMMA BackOnTheWay ==
  ASSUME NEW r, DOMAIN r = {"pos", "stack"}, r.stack \in Seq(Nat), r.pos \in Nat, NEW a
  PROVE  /\ Elsewhere(r, a).pos = r.pos /\ Elsewhere(r, a).stack = r.stack
         /\ DOMAIN Elsewhere(r, a) = {"pos", "stack"}
  <1> DEFINE p == r.pos
             t == r.stack
             q == Saved(r)
             s == To(q, a)
             u == Append(t, p)
  <1>1. q.stack = u /\ DOMAIN q = {"pos", "stack"}
    BY Moved
  <1> HIDE DEF q
  <1>2. s.stack = u
    BY <1>1, Moved
  <1> HIDE DEF s
  <1>3. Restored(s) = [pos |-> Last(u), stack |-> Front(u)]
    BY <1>2 DEF Restored
  <1>4. Last(u) = p /\ Front(u) = t
    <2> HIDE DEF p, t
    <2>1. t \in Seq(Nat) /\ p \in Nat
      BY DEF p, t
    <2>2. u \in Seq(Nat) /\ Len(u) = Len(t) + 1 /\ Len(t) \in Nat
          /\ u[Len(t) + 1] = p /\ \A j \in 1..Len(t) : u[j] = t[j]
      BY <2>1
    <2> HIDE DEF u
    <2>3. Front(u) \in Seq(Nat) /\ Len(Front(u)) = Len(t)
          /\ \A j \in 1..Len(t) : Front(u)[j] = u[j]
      BY <2>2 DEF Front
    <2>4. Front(u) = t
      <3> DEFINE f == Front(u)
      <3>1. f \in [1..Len(t) -> Nat] /\ t \in [1..Len(t) -> Nat]
        <4> HIDE DEF f
        <4>1. f \in [1..Len(f) -> Nat]
          BY <2>3 DEF f
        <4>. QED BY <2>1, <2>3, <4>1 DEF f
      <3>2. \A j \in 1..Len(t) : f[j] = t[j]
        BY <2>2, <2>3
      <3> HIDE DEF f
      <3>3. f = t
        BY <3>1, <3>2
      <3>. QED BY <3>3 DEF f
    <2>. QED BY <2>2, <2>4 DEF Last
  <1>. QED BY <1>3, <1>4 DEF Elsewhere, s, q

\* What is known of the entry the loader is at.
LEMMA AtEntryFacts ==
  ASSUME Shape, NEW p, AtEntry(p)
  PROVE  LET n == Len(p) IN
         /\ p \in Seq(Level) /\ n \in Nat \ {0} /\ n \in 1..n /\ n - 1 \in Nat
         /\ p[n] \in Level /\ p[n].dir \in Nat /\ p[n].i \in Nat
         /\ frames \in Seq(Reading) /\ Len(frames) = n
         /\ Frame.i = p[n].i /\ Frame.total = Total(p[n].dir)
         /\ reader.stack \in Seq(Nat) /\ reader.pos \in Nat
         /\ MoreEntries <=> IsSlot(p[n].dir, p[n].i)
         /\ MoreEntries => (Item(reader.pos).dir <=> IsSub(p[n].dir, p[n].i))
         /\ ResourceBase + Item(reader.pos).off = EndOf(p)
  <1> DEFINE n == Len(p)
  <1>1. p \in Seq(Level) /\ n \in Nat \ {0}
    BY DEF AtEntry, Way
  <1>2. n \in 1..n /\ n - 1 \in Nat /\ p[n] \in Level
    BY <1>1
  <1>3. p[n].dir \in Nat /\ p[n].i \in Nat
    BY <1>2, LevelFacts
  <1>4. frames \in Seq(Reading) /\ Len(frames) = n
        /\ \A j \in 1..n : frames[j].i = p[j].i /\ frames[j].total = Total(p[j].dir)
    BY DEF AtEntry, Matches
  <1>5. Frame = frames[n]
    BY <1>4 DEF Frame, Last
  <1>6. reader.pos = EntrySlot(p[n].dir, p[n].i) /\ reader.stack \in Seq(Nat)
    BY DEF AtEntry, Stacked
  <1>7. EntrySlot(p[n].dir, p[n].i) \in Nat
    BY <1>3, NextSlot
  <1>8. Frame.i = p[n].i /\ Frame.total = Total(p[n].dir)
    BY <1>2, <1>4, <1>5, Zenon
  <1>9. reader.pos \in Nat
    BY <1>6, <1>7, Zenon
  <1>10. MoreEntries <=> IsSlot(p[n].dir, p[n].i)
    BY <1>6, <1>8, Zenon DEF MoreEntries, IsSlot
  <1>11. Item(reader.pos).dir <=> IsSub(p[n].dir, p[n].i)
    BY <1>6, Zenon DEF IsSub
  <1>12. ResourceBase + Item(reader.pos).off = EndOf(p)
    BY <1>6, Zenon DEF EndOf, Target
  <1> HIDE DEF n
  <1>13. reader.stack \in Seq(Nat)
    BY <1>6
  <1>. QED BY <1>1, <1>2, <1>3, <1>4, <1>8, <1>9, <1>10, <1>11, <1>12, <1>13, Zenon DEF n

\* Without its last level the way matches the callers' frames.
LEMMA Callers ==
  ASSUME NEW p, NEW fs, NEW n \in Nat, Matches(fs, p, n + 1)
  PROVE  Matches(Front(fs), p, n)
  <1>1. fs \in Seq(Reading) /\ Len(fs) = n + 1
        /\ \A j \in 1..(n + 1) : fs[j].i = p[j].i /\ fs[j].total = Total(p[j].dir)
    BY DEF Matches
  <1>2. Front(fs) \in Seq(Reading) /\ Len(Front(fs)) = n
        /\ \A j \in 1..n : Front(fs)[j] = fs[j] /\ j \in 1..(n + 1)
    BY <1>1 DEF Front
  <1>. QED BY <1>1, <1>2 DEF Matches

\* A directory that is not read on.
LEMMA Leaves ==
  ASSUME Shape, image' = image, NEW p, AtEntry(p), ~GoesOn(p[Len(p)].dir, p[Len(p)].i),
         NEW r, DOMAIN r = {"pos", "stack"}, r.stack = reader.stack,
         Resume(r, Front(frames)), Data(out') = Data(out)
  PROVE  \/ pc' = "entry" /\ \E q : AtEntry(q)'
         \/ pc' = "exceptions" /\ Data(out') = AllResources
  <1> DEFINE n == Len(p) - 1
  <1>1. n \in Nat /\ Len(p) = n + 1 /\ p \in Seq(Level) /\ Len(frames) = n + 1
    BY AtEntryFacts
  <1>2. /\ Present("resources") /\ Way(p) /\ Descends(p, n) /\ Stacked(reader.stack, p, n)
        /\ Data(out) = Reached(p) /\ Matches(frames, p, n + 1)
    BY <1>1 DEF AtEntry
  <1>3. Matches(Front(frames), p, n)
    BY <1>1, <1>2, Callers, Zenon
  <1> HIDE DEF n
  <1>4. CASE n = 0
    <2>1. Front(frames) = <<>>
      BY <1>3, <1>4 DEF Matches
    <2>2. pc' = "exceptions"
      BY <2>1 DEF Resume, GoTo
    <2>3. Len(p) = 1 /\ ~GoesOn(p[1].dir, p[1].i)
      BY <1>1, <1>4
    <2>. QED BY <1>2, <2>2, <2>3, ReachedAtEnds
  <1>5. CASE n # 0
    <2>1. n \in Nat \ {0} /\ n <= Len(p)
      BY <1>1, <1>5
    <2>2. ~GoesOn(p[n + 1].dir, p[n + 1].i)
      BY <1>1
    <2>3. Data(out') = Reached(Onwards(p, n))
      BY <1>1, <1>2, <2>1, <2>2, ReachedUp
    <2>4. Stacked(r.stack, p, n)
      BY <1>2
    <2>. QED BY <1>2, <1>3, <2>1, <2>3, <2>4, ComesBack, Zenon
  <1>. QED BY <1>4, <1>5

\* The end of a directory.
LEMMA LeaveDirectoryKeeps ==
  ASSUME Shape, NEW p, AtEntry(p), LeaveDirectory
  PROVE  \/ pc' = "entry" /\ \E q : AtEntry(q)'
         \/ pc' = "exceptions" /\ Data(out') = AllResources
  <1>1. image' = image /\ out' = out /\ ~MoreEntries /\ Resume(reader, Front(frames))
    BY DEF LeaveDirectory
  <1>2. ~GoesOn(p[Len(p)].dir, p[Len(p)].i)
    BY <1>1, AtEntryFacts DEF GoesOn
  <1>3. Data(out') = Data(out) /\ DOMAIN reader = {"pos", "stack"}
    BY <1>1 DEF Shape
  <1>. QED BY <1>1, <1>2, <1>3, Leaves, Zenon

\* What is named at the end of a way is the data of a resource.
LEMMA DataNamed ==
  ASSUME Shape, NEW p, AtEntry(p), DataEntry
  PROVE  /\ ~IsSub(p[Len(p)].dir, p[Len(p)].i) /\ IsSlot(p[Len(p)].dir, p[Len(p)].i)
         /\ Data(out') = Data(out) \cup {ResourceVa(q) : q \in {r \in {p} : IsResource(r)}}
         /\ ~There(EndOf(p)) => Data(out') = Data(out)
  <1> DEFINE a == EndOf(p)
             is == There(a) /\ Item(a).rva # 0 /\ Item(a).size # 0
             v == FromRva(Item(a).rva)
             named == IF is THEN {[addr |-> v, name |-> "rsrc_data"]} ELSE {}
             n == out.names \cup named
  <1>1. ~IsSub(p[Len(p)].dir, p[Len(p)].i) /\ IsSlot(p[Len(p)].dir, p[Len(p)].i)
    <2>1. MoreEntries /\ ~Item(reader.pos).dir
      BY DEF DataEntry
    <2>. QED BY <2>1, AtEntryFacts
  <1>2. IsResource(p) <=> is
    BY <1>1, AtEntryFacts DEF IsResource, IsWay, AtEntry
  <1>3. ResourceVa(p) = v
    BY DEF ResourceVa
  <1>4. ResourceBase + Item(reader.pos).off = a
    BY AtEntryFacts
  <1>5. \E x : out' = [out EXCEPT !.types = x, !.names = n]
    BY <1>4, Zenon DEF DataEntry
  <1> HIDE DEF a, v, is
  <1>6. out'.names = out.names \cup named
    BY <1>5 DEF Shape
  <1>7. CASE is
    <2>1. named = Named({v}, "rsrc_data")
      <3>1. {[addr |-> v, name |-> "rsrc_data"]} = {[addr |-> b, name |-> "rsrc_data"] : b \in {v}}
        BY Zenon
      <3>. QED BY <1>7, <3>1 DEF Named
    <2> HIDE DEF named
    <2>2. \A b : [addr |-> b, name |-> "rsrc_data"].addr = b
                 /\ [addr |-> b, name |-> "rsrc_data"].name = "rsrc_data"
      OBVIOUS
    <2>3. Data(out') = Data(out) \cup {v}
      <3>1. \A x : x \in Data(out') <=> \E m \in out'.names : m.name = "rsrc_data" /\ x = m.addr
        BY Zenon DEF Data
      <3>2. \A x : x \in Data(out) <=> \E m \in out.names : m.name = "rsrc_data" /\ x = m.addr
        BY Zenon DEF Data
      <3>3. \A m : m \in out'.names <=> m \in out.names \/ m = [addr |-> v, name |-> "rsrc_data"]
        BY <1>6, <2>1, Zenon DEF Named
      <3>4. ASSUME NEW x \in Data(out')
            PROVE  x \in Data(out) \cup {v}
        <4>1. PICK m \in out'.names : m.name = "rsrc_data" /\ x = m.addr
          BY <3>1, Zenon
        <4>2. CASE m \in out.names
          BY <3>2, <4>1, <4>2, Zenon
        <4>3. CASE m = [addr |-> v, name |-> "rsrc_data"]
          <5>1. m.addr = v
            BY <2>2, <4>3, Zenon
          <5>. QED BY <4>1, <5>1, Zenon
        <4>. QED BY <3>3, <4>2, <4>3, Zenon
      <3>5. Data(out) \subseteq Data(out')
        BY <3>1, <3>2, <3>3, Zenon
      <3>6. v \in Data(out')
        <4> DEFINE m == [addr |-> v, name |-> "rsrc_data"]
        <4>1. m.addr = v /\ m.name = "rsrc_data"
          BY <2>2, Zenon
        <4>2. m \in out'.names
          BY <3>3, Zenon
        <4> HIDE DEF m
        <4>. QED BY <3>1, <4>1, <4>2, Zenon
      <3>. QED BY <3>4, <3>5, <3>6, Zenon
    <2>4. {ResourceVa(q) : q \in {r \in {p} : IsResource(r)}} = {v}
      BY <1>2, <1>3, <1>7, Zenon
    <2>5. There(a)
      BY <1>7 DEF is
    <2>. QED BY <1>1, <2>3, <2>4, <2>5 DEF a
  <1>8. CASE ~is
    <2>1. out'.names = out.names
      BY <1>6, <1>8
    <2>2. Data(out') = Data(out)
      BY <2>1, Zenon DEF Data
    <2>3. {ResourceVa(q) : q \in {r \in {p} : IsResource(r)}} = {}
      BY <1>2, <1>8, Zenon
    <2>. QED BY <1>1, <2>2, <2>3
  <1>. QED BY <1>7, <1>8

\* The data of a resource.
LEMMA DataEntryKeeps ==
  ASSUME Shape, NEW p, AtEntry(p), DataEntry
  PROVE  \/ pc' = "entry" /\ \E q : AtEntry(q)'
         \/ pc' = "exceptions" /\ Data(out') = AllResources
  <1> DEFINE n == Len(p)
             o == Onwards(p, n)
             next == To(reader, reader.pos + 8)
             behind == Elsewhere(next, EndOf(p))
  <1>1. /\ p \in Seq(Level) /\ n \in Nat \ {0} /\ n \in 1..n /\ n - 1 \in Nat
        /\ p[n] \in Level /\ p[n].dir \in Nat /\ p[n].i \in Nat
        /\ frames \in Seq(Reading) /\ Len(frames) = n
        /\ reader.stack \in Seq(Nat) /\ reader.pos \in Nat
        /\ ResourceBase + Item(reader.pos).off = EndOf(p)
    BY AtEntryFacts
  <1>2. DOMAIN next = {"pos", "stack"} /\ next.pos = reader.pos + 8 /\ next.stack = reader.stack
    BY Moved DEF Shape
  <1>3. /\ DOMAIN behind = {"pos", "stack"} /\ behind.pos = reader.pos + 8
        /\ behind.stack = reader.stack
    <2>1. next.pos \in Nat /\ next.stack \in Seq(Nat)
      BY <1>1, <1>2
    <2> HIDE DEF next
    <2>. QED BY <1>2, <2>1, BackOnTheWay
  <1>4. image' = image
    BY DEF DataEntry
  <1>5. IF There(EndOf(p))
        THEN /\ reader' = behind /\ pc' = "entry"
             /\ frames' = [frames EXCEPT ![n].entry = behind.pos, ![n].i = @ + 1]
        ELSE Resume(behind, Front(frames))
    BY <1>1 DEF DataEntry, Depth
  <1> HIDE DEF behind, next
  <1>6. CASE ~There(EndOf(p))
    <2>1. ~GoesOn(p[n].dir, p[n].i)
      BY <1>6, DataNamed DEF GoesOn, EndOf
    <2>2. Data(out') = Data(out)
      BY <1>6, DataNamed
    <2>3. Resume(behind, Front(frames))
      BY <1>5, <1>6
    <2>. QED BY <1>3, <1>4, <2>1, <2>2, <2>3, Leaves
  <1>7. CASE There(EndOf(p))
    <2>1. GoesOn(p[n].dir, p[n].i)
      BY <1>7, DataNamed DEF GoesOn, EndOf
    <2>2. Present("resources") /\ Way(p) /\ Descends(p, n - 1) /\ Stacked(reader.stack, p, n - 1)
          /\ Data(out) = Reached(p) /\ Matches(frames, p, n)
          /\ reader.pos = EntrySlot(p[n].dir, p[n].i)
      BY DEF AtEntry
    <2>3. /\ o \in Seq(Level) /\ Len(o) = n
          /\ \A j \in 1..(n - 1) : o[j] = p[j]
          /\ o[n].dir = p[n].dir /\ o[n].i = p[n].i + 1
      BY <1>1, OnwardsFacts, Zenon
    <2>4. Way(o)
      BY <1>1, <2>1, <2>2, WayOnwards, Zenon
    <2>5. Reached(o) = Data(out')
      BY <1>1, <2>2, DataNamed, ReachedData
    <2>6. Matches(frames', o, n)
      <3>1. behind.pos \in Nat
        BY <1>1, <1>3
      <3> DEFINE x == behind.pos
      <3>2. Matches([frames EXCEPT ![n].entry = x, ![n].i = @ + 1], o, n)
        <4>1. x \in Nat
          BY <3>1
        <4> HIDE DEF x, n
        <4>. QED BY <1>1, <2>2, <4>1, NextEntry, Zenon DEF n
      <3>3. frames' = [frames EXCEPT ![n].entry = x, ![n].i = @ + 1]
        BY <1>5, <1>7
      <3>. QED BY <3>2, <3>3, Zenon
    <2> HIDE DEF o
    <2>7. Descends(o, n - 1)
      BY <2>2, <2>3, Zenon DEF Descends
    <2>8. Stacked(reader'.stack, o, n - 1)
      BY <1>3, <1>5, <1>7, <2>2, <2>3, Zenon DEF Stacked
    <2>9. reader'.pos = EntrySlot(o[n].dir, o[n].i)
      <3>1. reader'.pos = EntrySlot(p[n].dir, p[n].i) + 8
        BY <1>3, <1>5, <1>7, <2>2, Zenon
      <3>2. EntrySlot(p[n].dir, p[n].i + 1) = EntrySlot(p[n].dir, p[n].i) + 8
        BY <1>1, NextSlot
      <3>. QED BY ONLY <2>3, <3>1, <3>2, Zenon
    <2>10. n # 0 /\ pc' = "entry"
      BY <1>1, <1>5, <1>7
    <2>. QED BY <1>4, <2>2, <2>3, <2>4, <2>5, <2>6, <2>7, <2>8, <2>9, <2>10, NextAtEntry, Zenon
  <1>. QED BY <1>6, <1>7

\* More types are no data.
LEMMA DataOfTypes ==
  ASSUME Shape, NEW t, out' = [out EXCEPT !.types = t]
  PROVE  Data(out') = Data(out)
  <1>1. out'.names = out.names
    BY DEF Shape
  <1>. QED BY <1>1, Zenon DEF Data

\* A directory in a directory: the way goes on into it.
LEMMA SubdirectoryKeeps ==
  ASSUME Shape, ResourcesWritten, NEW p, AtEntry(p), Subdirectory
  PROVE  pc' = "directory" /\ AtDirectory(p)'
  <1> DEFINE n == Len(p)
             next == To(reader, reader.pos + 8)
  <1>1. /\ p \in Seq(Level) /\ n \in Nat \ {0} /\ n \in 1..n /\ n - 1 \in Nat
        /\ p[n] \in Level /\ p[n].dir \in Nat /\ p[n].i \in Nat
        /\ reader.stack \in Seq(Nat) /\ reader.pos \in Nat
        /\ ResourceBase + Item(reader.pos).off = EndOf(p)
    BY AtEntryFacts
  <1>2. /\ Present("resources") /\ Way(p) /\ Descends(p, n - 1) /\ Stacked(reader.stack, p, n - 1)
        /\ Data(out) = Reached(p) /\ Matches(frames, p, n)
        /\ reader.pos = EntrySlot(p[n].dir, p[n].i)
    BY DEF AtEntry
  <1>3. image' = image /\ frames' = frames /\ pc' = "directory" /\ reader' = Saved(next)
    BY DEF Subdirectory
  <1>4. cur'.va = EndOf(p)
    BY <1>1 DEF Subdirectory, Shape
  <1>5. IsSlot(p[n].dir, p[n].i) /\ IsSub(p[n].dir, p[n].i)
    <2>1. MoreEntries /\ Item(reader.pos).dir
      BY DEF Subdirectory
    <2>. QED BY <2>1, AtEntryFacts
  <1>6. EndOf(p) \in Nat
    <2>1. IsWay(p)
      BY <1>1, <1>2, <1>5 DEF IsWay
    <2>. QED BY <1>1, <1>5, <2>1 DEF ResourcesWritten
  <1>7. DOMAIN next = {"pos", "stack"} /\ next.pos = reader.pos + 8 /\ next.stack = reader.stack
    BY Moved DEF Shape
  <1> HIDE DEF next
  <1>8. reader'.stack = Append(reader.stack, reader.pos + 8)
    BY <1>3, <1>7, Moved
  <1>9. \A j \in 1..n : j \in 1..(n - 1) \/ j = n
    BY <1>1
  <1>10. Descends(p, n)
    BY <1>2, <1>5, <1>9, Zenon DEF Descends
  <1>11. Stacked(reader'.stack, p, n)
    <2> DEFINE s == reader.stack
               x == reader.pos + 8
    <2>1. s \in Seq(Nat) /\ Len(s) = n - 1 /\ x \in Nat
          /\ \A j \in 1..(n - 1) : s[j] = EntrySlot(p[j].dir, p[j].i) + 8
      BY <1>1, <1>2 DEF Stacked
    <2>2. x = EntrySlot(p[n].dir, p[n].i) + 8
      BY <1>2
    <2> HIDE DEF s, x
    <2>3. /\ Append(s, x) \in Seq(Nat) /\ Len(Append(s, x)) = n
          /\ Append(s, x)[n] = x /\ \A j \in 1..(n - 1) : Append(s, x)[j] = s[j]
      BY <1>1, <2>1
    <2>4. \A j \in 1..n : Append(s, x)[j] = EntrySlot(p[j].dir, p[j].i) + 8
      BY <1>9, <2>1, <2>2, <2>3
    <2>. QED BY <1>8, <2>3, <2>4 DEF Stacked, s, x
  <1>12. Data(out') = Reached(p)
    <2>1. out' = [out EXCEPT !.types = @ \cup EntryTypes]
      BY DEF Subdirectory
    <2>. QED BY <1>2, <2>1, DataOfTypes
  <1>13. cur'.va \in Nat /\ cur'.va = IF n = 0 THEN ResourceBase ELSE EndOf(p)
    BY <1>1, <1>4, <1>6
  <1>14. Matches(frames', p, n)
    BY <1>2, <1>3
  <1>. QED BY <1>2, <1>3, <1>10, <1>11, <1>12, <1>13, <1>14, NextAtDirectory, Zenon

\* The directory begins: its first entry is next.
LEMMA EnterDirectoryKeeps ==
  ASSUME Shape, NEW p, AtDirectory(p), EnterDirectory
  PROVE  pc' = "entry" /\ \E q : AtEntry(q)'
  <1> DEFINE n == Len(p)
             d == cur.va
             l == [dir |-> d, i |-> 0]
             q == Append(p, l)
  <1>1. /\ Present("resources") /\ Way(p) /\ Descends(p, n) /\ Stacked(reader.stack, p, n)
        /\ d \in Nat /\ d = IF n = 0 THEN ResourceBase ELSE EndOf(p)
        /\ Data(out) = Reached(p) /\ Matches(frames, p, n)
    BY DEF AtDirectory
  <1>2. p \in Seq(Level) /\ n \in Nat /\ n + 1 - 1 = n /\ n + 1 # 0 /\ n + 1 \in 1..(n + 1)
    BY <1>1 DEF Way
  <1>3. frames \in Seq(Reading) /\ Len(frames) = n
        /\ \A j \in 1..n : frames[j].i = p[j].i /\ frames[j].total = Total(p[j].dir)
    BY <1>1 DEF Matches
  <1>4. /\ image' = image /\ pc' = "entry" /\ n <= MaxDepth /\ There(d)
        /\ reader' = To(reader, d + 16)
        /\ frames' = Append(frames, [entry |-> d + 16, i |-> 0, total |-> Total(d)])
    BY <1>3 DEF EnterDirectory, IsDirectory, Depth, Total
  <1>5. q \in Seq(Level) /\ Reached(q) = Reached(p)
    BY <1>1, <1>2, ReachedDown
  <1>6. l \in Level /\ l.dir = d /\ l.i = 0
    BY <1>1 DEF Level
  <1> HIDE DEF l
  <1>7. Len(q) = n + 1 /\ q[n + 1] = l /\ \A j \in 1..n : q[j] = p[j]
    BY <1>2, <1>6
  <1> HIDE DEF q, d
  <1>8. \A j \in 1..(n + 1) : j \in 1..n \/ j = n + 1
    BY <1>2
  <1>9. Way(q)
    <2>1. Len(q) <= MaxDepth + 1 /\ q[1].dir = ResourceBase
      <3>1. q[1].dir = ResourceBase
        <4>1. CASE n = 0
          BY <1>1, <1>6, <1>7, <4>1
        <4>2. CASE n # 0
          <5>1. 1 \in 1..n /\ n > 0
            BY <1>2, <4>2
          <5>. QED BY <1>1, <1>7, <5>1 DEF Way
        <4>. QED BY <4>1, <4>2
      <3>. QED BY <1>2, <1>4, <1>7, <3>1 DEF MaxDepth
    <2>2. ASSUME NEW j \in 1..(Len(q) - 1)
          PROVE  q[j + 1].dir = Target(q[j].dir, q[j].i)
      <3>1. j \in 1..n
        BY <1>2, <1>7
      <3>2. CASE j = n
        <4>1. d = EndOf(p)
          BY <1>1, <3>1, <3>2
        <4>. QED BY <1>6, <1>7, <3>1, <3>2, <4>1 DEF EndOf
      <3>3. CASE j # n
        <4>1. j \in 1..(n - 1) /\ j + 1 \in 1..n
          BY <3>1, <3>3
        <4>2. p[j + 1].dir = Target(p[j].dir, p[j].i)
          BY <1>1, <4>1 DEF Way
        <4>. QED BY <1>7, <3>1, <4>1, <4>2
      <3>. QED BY <3>2, <3>3
    <2>3. ASSUME NEW j \in 1..Len(q)
          PROVE  There(q[j].dir) /\ \A k \in 0..(q[j].i - 1) : GoesOn(q[j].dir, k)
      <3>1. CASE j \in 1..n
        BY <1>1, <1>7, <3>1 DEF Way
      <3>2. CASE j = n + 1
        <4>1. \A k \in 0..(l.i - 1) : FALSE
          BY <1>6
        <4>. QED BY <1>4, <1>6, <1>7, <3>2, <4>1
      <3>. QED BY <1>7, <1>8, <3>1, <3>2
    <2>. QED BY <1>5, <2>1, <2>2, <2>3 DEF Way
  <1>10. Descends(q, n)
    BY <1>1, <1>7, Zenon DEF Descends
  <1>11. reader'.pos = d + 16 /\ reader'.stack = reader.stack
    BY <1>4, Moved DEF Shape
  <1>12. reader'.pos = EntrySlot(q[n + 1].dir, q[n + 1].i)
    BY <1>1, <1>6, <1>7, <1>11 DEF EntrySlot
  <1>13. Stacked(reader'.stack, q, n)
    BY <1>1, <1>7, <1>11, Zenon DEF Stacked
  <1>14. Matches(frames', q, n + 1)
    <2> DEFINE f == [entry |-> d + 16, i |-> 0, total |-> Total(d)]
    <2>1. f \in Reading
      <3>1. Total(d) \in {Total(c) : c \in Nat}
        BY <1>1
      <3> DEFINE T == {Total(c) : c \in Nat}
      <3> HIDE DEF T
      <3>2. d + 16 \in Nat
        BY <1>1
      <3>3. Total(d) \in T
        BY <3>1 DEF T
      <3>4. f \in [entry : Nat, i : Nat, total : T]
        BY <3>2, <3>3
      <3>. QED BY <3>4 DEF Reading, T
    <2>2. f.i = 0 /\ f.total = Total(d)
      OBVIOUS
    <2> HIDE DEF f
    <2>3. /\ Append(frames, f) \in Seq(Reading) /\ Len(Append(frames, f)) = n + 1
          /\ Append(frames, f)[n + 1] = f /\ \A j \in 1..n : Append(frames, f)[j] = frames[j]
      BY <1>3, <2>1
    <2>4. frames' = Append(frames, f)
      BY <1>4 DEF f
    <2>5. \A j \in 1..(n + 1) : frames'[j].i = q[j].i /\ frames'[j].total = Total(q[j].dir)
      BY <1>3, <1>6, <1>7, <1>8, <2>2, <2>3, <2>4
    <2>. QED BY <2>3, <2>4, <2>5 DEF Matches
  <1>15. Data(out') = Reached(q)
    <2>1. out' = [out EXCEPT !.types = @ \cup Typed({cur.va}, "directory")]
      BY DEF EnterDirectory
    <2>. QED BY <1>1, <1>5, <2>1, DataOfTypes
  <1>16. Len(q) # 0 /\ Len(q) - 1 = n
    BY <1>2, <1>7
  <1>17. \E r : AtEntry(r)'
    <2>1. /\ Descends(q, Len(q) - 1) /\ Matches(frames', q, Len(q))
          /\ Stacked(reader'.stack, q, Len(q) - 1)
          /\ reader'.pos = EntrySlot(q[Len(q)].dir, q[Len(q)].i)
      BY <1>7, <1>10, <1>12, <1>13, <1>14, <1>16
    <2>. QED BY <1>1, <1>4, <1>9, <1>15, <1>16, <2>1, NextAtEntry, Zenon
  <1>. QED BY <1>4, <1>17

\* It is none, or too deep: the caller goes on.
LEMMA NoDirectoryKeeps ==
  ASSUME Shape, NEW p, AtDirectory(p), NoDirectory
  PROVE  \/ pc' = "entry" /\ \E q : AtEntry(q)'
         \/ pc' = "exceptions" /\ Data(out') = AllResources
  <1> DEFINE n == Len(p)
  <1>1. /\ Present("resources") /\ Way(p) /\ Descends(p, n) /\ Stacked(reader.stack, p, n)
        /\ cur.va = IF n = 0 THEN ResourceBase ELSE EndOf(p)
        /\ Data(out) = Reached(p) /\ Matches(frames, p, n)
    BY DEF AtDirectory
  <1>2. p \in Seq(Level) /\ n \in Nat /\ n <= n
    BY <1>1 DEF Way
  <1>3. /\ image' = image /\ out' = out /\ Resume(reader, frames)
        /\ ~(n <= MaxDepth /\ There(cur.va))
    BY <1>1 DEF NoDirectory, IsDirectory, Depth, Matches
  <1>4. Data(out') = Reached(p) /\ DOMAIN reader = {"pos", "stack"}
    BY <1>1, <1>3 DEF Shape
  <1>5. CASE n = 0
    <2>1. p = <<>> /\ frames = <<>>
      BY <1>1, <1>2, <1>5 DEF Matches
    <2>2. pc' = "exceptions"
      BY <1>3, <2>1 DEF Resume, GoTo
    <2>3. ~There(ResourceBase)
      BY <1>1, <1>3, <1>5 DEF MaxDepth
    <2>. QED BY <1>4, <2>1, <2>2, <2>3, ReachedAtEnds
  <1>6. CASE n # 0
    <2>1. n \in Nat \ {0}
      BY <1>2, <1>6
    <2>2. ~(n <= MaxDepth /\ There(Target(p[n].dir, p[n].i)))
      BY <1>1, <1>3, <1>6 DEF EndOf
    <2>3. Reached(Onwards(p, n)) = Reached(p)
      BY <1>1, <2>1, <2>2, ReachedNothing
    <2>4. Data(out') = Reached(Onwards(p, n))
      BY <1>4, <2>3
    <2>. QED BY <1>1, <1>2, <1>3, <1>4, <2>1, <2>4, ComesBack, Zenon
  <1>. QED BY <1>5, <1>6

\* The root, or there is none.
LEMMA ResourcesOpenKeeps ==
  ASSUME Shape, ResourceInv, ResourcesOpen
  PROVE  \/ pc' = "directory" /\ \E q : AtDirectory(q)'
         \/ pc' = "exceptions" /\ Data(out') = AllResources
  <1>1. pc = "resources" /\ image' = image /\ reader' = reader /\ frames' = frames /\ out' = out
    BY DEF ResourcesOpen
  <1>2. frames = <<>> /\ Data(out) = {} /\ reader.stack = <<>>
    BY <1>1 DEF ResourceInv, BeforeResources
  <1>3. CASE ~Present("resources")
    BY <1>1, <1>2, <1>3, ReachedAtEnds DEF ResourcesOpen, GoTo
  <1>4. CASE Present("resources")
    <2>1. pc' = "directory" /\ cur'.va = ResourceBase
      BY <1>4 DEF ResourcesOpen, Shape
    <2>2. ResourceBase \in Nat
      <3>1. image.base \in Nat /\ image.dirs["resources"].va \in Nat
        BY ImagesAssumption DEF Shape
      <3>. QED BY <3>1 DEF ResourceBase, DirectoryVa, Directory, FromRva
    <2> DEFINE p == <<>>
    <2>3. Way(p) /\ Descends(p, Len(p)) /\ Len(p) = 0
      <3>1. p \in Seq(Level) /\ Len(p) = 0
        OBVIOUS
      <3>2. \A j \in 1..0 : FALSE
        OBVIOUS
      <3>3. \A j \in 1..(0 - 1) : FALSE
        OBVIOUS
      <3>4. Len(p) <= MaxDepth + 1 /\ ~(Len(p) > 0)
        BY DEF MaxDepth
      <3> HIDE DEF p
      <3>5. Way(p)
        BY <3>1, <3>2, <3>3, <3>4 DEF Way
      <3>6. Descends(p, 0)
        BY <3>2 DEF Descends
      <3>. QED BY <3>1, <3>5, <3>6
    <2>4. Matches(frames', p, 0) /\ Stacked(reader'.stack, p, 0)
      BY <1>1, <1>2 DEF Matches, Stacked
    <2>5. Data(out') = Reached(p)
      BY <1>1, <1>2, ReachedAtEnds
    <2> HIDE DEF p
    <2>6. /\ Descends(p, Len(p)) /\ Matches(frames', p, Len(p)) /\ Stacked(reader'.stack, p, Len(p))
          /\ cur'.va \in Nat /\ cur'.va = IF Len(p) = 0 THEN ResourceBase ELSE EndOf(p)
      BY <2>1, <2>2, <2>3, <2>4
    <2>7. \E q : AtDirectory(q)'
      BY <1>1, <1>4, <2>3, <2>5, <2>6, NextAtDirectory, Zenon
    <2>. QED BY <2>1, <2>7
  <1>. QED BY <1>3, <1>4

\* In front of the resources the reader has come back from everywhere, but for the
\* thunks of a descriptor.
LEMMA ImportsComeBack ==
  ASSUME Shape, ReadImports, pc # "thunk" => reader.stack = <<>>,
         pc = "thunk" => \E x : reader.stack = <<x>>
  PROVE  /\ pc' # "thunk" => reader'.stack = <<>>
         /\ pc' = "thunk" => \E x : reader'.stack = <<x>>
  <1>1. CASE ImportsOpen
    <2>1. pc # "thunk" /\ pc' # "thunk"
      BY <1>1 DEF ImportsOpen, GoTo
    <2>2. reader'.stack = reader.stack
      BY <1>1, Moved DEF ImportsOpen, Shape
    <2>. QED BY <2>1, <2>2
  <1>2. CASE ImportsDone
    <2>1. pc # "thunk" /\ pc' # "thunk" /\ reader' = reader
      BY <1>2 DEF ImportsDone, GoTo
    <2>. QED BY <2>1
  <1>3. CASE Descriptor
    <2> DEFINE d == Item(reader.pos)
               behind == To(reader, reader.pos + DescriptorSize)
               x == reader.pos + DescriptorSize
    <2>1. reader.stack = <<>>
      BY <1>3 DEF Descriptor
    <2>2. CASE There(FromRva(d.name))
      <3>1. pc' = "thunk" /\ reader'.stack = Append(<<>>, x)
        BY <1>3, <2>1, <2>2, DescriptorEffect
      <3>2. Append(<<>>, x) = <<x>>
        OBVIOUS
      <3> HIDE DEF x
      <3>. QED BY <3>1, <3>2
    <2>3. CASE ~There(FromRva(d.name))
      <3>1. pc' = "descriptor" /\ reader' = Elsewhere(behind, FromRva(d.name))
        BY <1>3, <2>3, DescriptorEffect
      <3>2. DOMAIN behind = {"pos", "stack"} /\ behind.stack = <<>>
        BY <2>1, Moved DEF Shape
      <3> HIDE DEF behind
      <3>. QED BY <3>1, <3>2, BackFromElsewhere
    <2>. QED BY <2>2, <2>3
  <1>4. CASE Thunk
    <2>1. pc = "thunk" /\ pc' = "thunk" /\ reader' = To(reader, cur.ft)
      BY <1>4 DEF Thunk
    <2>2. reader'.stack = reader.stack
      BY <2>1, Moved DEF Shape
    <2>. QED BY <2>1, <2>2
  <1>5. CASE ThunksDone
    <2>1. pc = "thunk" /\ pc' = "descriptor" /\ reader' = Restored(reader)
      BY <1>5 DEF ThunksDone
    <2>2. PICK x : reader.stack = <<x>>
      BY <2>1
    <2>3. reader'.stack = Front(<<x>>)
      BY <2>1, <2>2 DEF Restored
    <2>4. Front(<<x>>) = <<>>
      BY DEF Front
    <2>. QED BY <2>1, <2>3, <2>4
  <1>. QED BY <1>1, <1>2, <1>3, <1>4, <1>5, Zenon DEF ReadImports

\* The resources are not read twice.
LEMMA ResourcesGoOn ==
  ASSUME Shape, ReadResources
  PROVE  pc' \in {"directory", "entry", "exceptions"}
  <1>1. CASE ResourcesOpen
    BY <1>1 DEF ResourcesOpen, GoTo
  <1>2. CASE EnterDirectory \/ Subdirectory
    BY <1>2 DEF EnterDirectory, Subdirectory
  <1>3. CASE NoDirectory \/ LeaveDirectory
    BY <1>3, LeaveDirectoryEffect
  <1>4. CASE DataEntry
    BY <1>4, DataEntryEffect
  <1>. QED BY <1>1, <1>2, <1>3, <1>4 DEF ReadResources

\* The steps of the resources keep to the way.
LEMMA ReadResourcesKeeps ==
  ASSUME Shape, ResourceInv, ResourcesWritten, ReadResources
  PROVE  \/ pc' = "directory" /\ \E q : AtDirectory(q)'
         \/ pc' = "entry" /\ \E q : AtEntry(q)'
         \/ pc' = "exceptions" /\ Data(out') = AllResources
  <1>1. CASE ResourcesOpen
    BY <1>1, ResourcesOpenKeeps
  <1>2. CASE EnterDirectory
    <2>1. PICK p : AtDirectory(p)
      BY <1>2 DEF EnterDirectory, ResourceInv
    <2>. QED BY <1>2, <2>1, EnterDirectoryKeeps
  <1>3. CASE NoDirectory
    <2>1. PICK p : AtDirectory(p)
      BY <1>3 DEF NoDirectory, ResourceInv
    <2>. QED BY <1>3, <2>1, NoDirectoryKeeps
  <1>4. CASE Subdirectory
    <2>1. PICK p : AtEntry(p)
      BY <1>4 DEF Subdirectory, ResourceInv
    <2>. QED BY <1>4, <2>1, SubdirectoryKeeps, Zenon
  <1>5. CASE DataEntry
    <2>1. PICK p : AtEntry(p)
      BY <1>5 DEF DataEntry, ResourceInv
    <2>. QED BY <1>5, <2>1, DataEntryKeeps
  <1>6. CASE LeaveDirectory
    <2>1. PICK p : AtEntry(p)
      BY <1>6 DEF LeaveDirectory, ResourceInv
    <2>. QED BY <1>6, <2>1, LeaveDirectoryKeeps
  <1>. QED BY <1>1, <1>2, <1>3, <1>4, <1>5, <1>6, Zenon DEF ReadResources

\* Nothing happens.
LEMMA ResourcesStutter ==
  ASSUME ResourceInv, UNCHANGED vars
  PROVE  ResourceInv'
  <1>1. image' = image /\ pc' = pc /\ reader' = reader /\ cur' = cur /\ frames' = frames /\ out' = out
    BY DEF vars
  <1>2. Data(out)' = Data(out) /\ ResourcesWritten' = ResourcesWritten /\ AllResources' = AllResources
    BY <1>1, ResourcesFixed, Zenon DEF Data
  <1>3. ASSUME NEW p, AtEntry(p)
        PROVE  AtEntry(p)'
    <2>1. Data(out') = Data(out)
      BY <1>1
    <2>. QED BY <1>1, <1>3, <2>1, NextAtEntry, Zenon DEF AtEntry
  <1>4. ASSUME NEW p, AtDirectory(p)
        PROVE  AtDirectory(p)'
    <2>1. Data(out') = Data(out)
      BY <1>1
    <2>. QED BY <1>1, <1>4, <2>1, NextAtDirectory, Zenon DEF AtDirectory
  <1>. QED BY <1>1, <1>2, <1>3, <1>4, Zenon DEF ResourceInv, BeforeResources, BehindResources

\* Every step keeps what is known of the resources.
LEMMA ResourcesStay ==
  ASSUME Shape, ResourceInv, [Next]_vars
  PROVE  ResourceInv'
  <1>1. image' = image /\ ResourcesWritten' = ResourcesWritten /\ AllResources' = AllResources
    BY ImageStays, ResourcesFixed
  <1>2. Data(out)' = Data(out')
    BY Zenon DEF Data
  <1>3. CASE UNCHANGED vars
    BY <1>3, ResourcesStutter
  <1>4. CASE MapSection \/ SectionsMapped \/ ReadExports \/ ReadImports
    <2>1. /\ Data(out') = Data(out) /\ frames' = frames
          /\ pc \in BeforeResources \ {"resources"} /\ pc' \in BeforeResources
      BY <1>4, DataElsewhere
    <2>2. frames' = <<>> /\ Data(out') = {}
      BY <2>1 DEF ResourceInv
    <2>3. /\ pc' # "thunk" => reader'.stack = <<>>
          /\ pc' = "thunk" => \E x : reader'.stack = <<x>>
      <3>1. CASE MapSection \/ SectionsMapped
        <4>1. pc # "thunk" /\ pc' # "thunk" /\ reader' = reader
          BY <3>1 DEF MapSection, SectionsMapped
        <4>. QED BY <2>1, <4>1 DEF ResourceInv
      <3>2. CASE ReadExports
        <4>1. pc # "thunk" /\ pc' # "thunk"
          BY <3>2, ExportsSteps
        <4>2. reader.stack = <<>>
          BY <2>1, <4>1 DEF ResourceInv
        <4>. QED BY <3>2, <4>1, <4>2, ExportsKeepStack
      <3>3. CASE ReadImports
        <4>1. /\ pc # "thunk" => reader.stack = <<>>
              /\ pc = "thunk" => \E x : reader.stack = <<x>>
          BY <2>1 DEF ResourceInv
        <4>. QED BY <3>3, <4>1, ImportsComeBack
      <3>. QED BY <1>4, <3>1, <3>2, <3>3
    <2>4. pc' \notin BehindResources /\ pc' # "directory" /\ pc' # "entry"
      BY <2>1 DEF BeforeResources, BehindResources
    <2>. QED BY <1>2, <2>2, <2>3, <2>4 DEF ResourceInv, BeforeResources, BehindResources
  <1>5. CASE ReadResources
    <2>1. pc' \in {"directory", "entry", "exceptions"}
      BY <1>5, ResourcesGoOn
    <2>2. pc' \notin BeforeResources /\ pc' # "thunk"
      BY <2>1 DEF BeforeResources
    <2>3. ResourcesWritten =>
            /\ pc' = "directory" => \E q : AtDirectory(q)'
            /\ pc' = "entry" => \E q : AtEntry(q)'
            /\ pc' \in BehindResources => Data(out') = AllResources
      <3> SUFFICES ASSUME ResourcesWritten
                   PROVE  /\ pc' = "directory" => \E q : AtDirectory(q)'
                          /\ pc' = "entry" => \E q : AtEntry(q)'
                          /\ pc' \in BehindResources => Data(out') = AllResources
        OBVIOUS
      <3>1. \/ pc' = "directory" /\ \E q : AtDirectory(q)'
            \/ pc' = "entry" /\ \E q : AtEntry(q)'
            \/ pc' = "exceptions" /\ Data(out') = AllResources
        BY <1>5, ReadResourcesKeeps
      <3>. QED BY <3>1 DEF BehindResources
    <2>. QED BY <1>1, <1>2, <2>2, <2>3 DEF ResourceInv, BeforeResources, BehindResources
  <1>6. CASE ReadExceptions \/ ReadDebug \/ ReadTls \/ ReadConfig \/ SetEntryPoint \/ Classify
    <2>1. Data(out') = Data(out) /\ pc \in BehindResources /\ pc' \in BehindResources
      BY <1>6, DataElsewhere
    <2>2. ResourcesWritten => Data(out') = AllResources
      BY <2>1 DEF ResourceInv
    <2>3. pc' \notin BeforeResources /\ pc' # "thunk" /\ pc' # "directory" /\ pc' # "entry"
      BY <2>1 DEF BeforeResources, BehindResources
    <2>. QED BY <1>1, <1>2, <2>2, <2>3 DEF ResourceInv, BeforeResources, BehindResources
  <1>. QED BY <1>3, <1>4, <1>5, <1>6, Zenon DEF Next, Step

\* The data of every resource up to the depth that is read is found and nothing
\* else (pe_read_resources_dir, _pe_resource_read_dirs), in every image with the
\* resources that are wanted: the reader comes back behind the entry of every
\* directory, also of one that is none or too deep, and data that cannot be read
\* ends its own directory and no other.
THEOREM ResourcesAreFound == Spec => [](ResourcesWritten => ResourcesFound)
  <1>1. Init => ResourceInv
    BY InitResources
  <1>2. Shape /\ ResourceInv /\ [Next]_vars => ResourceInv'
    BY ResourcesStay
  <1>3. ResourceInv => (ResourcesWritten => ResourcesFound)
    <2> SUFFICES ASSUME ResourceInv, ResourcesWritten, Loaded
                 PROVE  Data(out) = image.wants.resources
      BY Zenon DEF ResourcesFound, Data
    <2>1. pc \in BehindResources
      BY DEF Loaded, BehindResources
    <2>. QED BY <2>1 DEF ResourceInv, ResourcesWritten
  <1>. QED BY <1>1, <1>2, <1>3, RecordsKeepTheirFields, PTL DEF Spec

=============================================================================
