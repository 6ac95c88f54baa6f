# A verification development of the REDasm loaders

The repository is a set of plugins, written in C, for the REDasm disassembler
engine: loaders (DEX, MZ/COM/NE/LE/PE, ELF, Game Boy, GBA, ZX Spectrum,
PlayStation, NES, Xbox), the processors that belong to two of them (Dalvik and
SM83) and the platforms that know what runs there.  There are no tests in the
repository.  This directory holds TLA+ models of those parts that keep state of
their own, the TLC configurations that check them on small instances, and
theorems about them that TLAPS checks for every value of the constants.

Contents

1. The system: components, state, operations, interactions
2. Modules and how they correspond to the code
3. What each run checks, its bounds, and why they are enough
4. Fairness
5. What is proved, and how
6. Divergences between the code and its comments
7. What is not modelled, and why
8. Plan

## 1. The system

Everything runs on one thread, called by the engine: `*_parse` decides whether
a file is of the loader's format and fills the loader's context, `*_load` then
builds the address space and names things, a processor's `decode` and `emulate`
follow the code.  There is no concurrency.  What makes the code hard is
elsewhere:

- **One reader, many tables.**  A reader (`RDReader`) has a position, a stack
  of saved positions and an error that sticks until the next seek.  Tables
  refer to tables elsewhere in the file, so a loop seeks away in the middle and
  every way back to the head of the loop has to put the reader where the next
  record is.
- **The engine may refuse.**  `rd_map_segment` and `rd_map_input` fail when the
  range is empty or overlaps; loaders log it and go on, so later steps see a
  space with a piece missing.
- **Input is anything.**  Counts, offsets and lengths come from the file.
  The code's own checks are the only thing between them and the loops.
- **The same thing known twice.**  The Dalvik processor reads the DEX map again
  through the address space; a tape is measured in one pass and mapped in
  another; two tables of a PE describe one import; a relocation patches bytes *and* adds a cross
  reference; the platform of the Game Boy learns of interrupts from what the
  processor reports.  The two must agree.
- **Synthetic addresses.**  Imports and banks are given addresses the file does
  not have; they must not meet each other or the program.

| Component | State it keeps | Operations | Talks to | What makes it correct |
|---|---|---|---|---|
| DEX loader (`src/android/dex`) | header, map (`DEXMap`), reader | `dex_parse`, `dex_load`: `dex_read_map`, `dex_map_segments` | engine; Dalvik processor through the address space | accepted maps are strictly ordered; segments show the file at its own offsets, without holes |
| DEX names and classes | two scratch buffers, one reader | `dex_walk_classes`, `dex_method_name` and its siblings, `_dex_name_*` | engine's names, functions, references | each entry gets its own name; every method is declared; handlers can be reached |
| DEX sections | the reader | `dex_type_sections` | engine's types | every item of a variable-length section is typed where it is |
| Dalvik processor (`src/android/dalvik`) | its own header and two tables | `dalvik_setup`, `decode`, `emulate` | address space, DEX reader, engine: references, types, where to go on | its tables are the loader's tables or empty; operands are the fields of the format; an index never becomes an item of another table; decoding goes where execution does and not into payloads |
| NE loader (`src/mz/ne`) | segment table, import modules with `next_off`, entry table | `ne_load`: segments, imports, relocations, exports, entry point | engine; Win16 ordinals | every record of a table is handled once; an import has one address; a patch and its cross reference agree |
| LE/VxD loader (`src/mz/le`) | objects, import slots with `next_off`, the pages and what fixups wrote there | `le_load`: imports, objects, pages, fixups, exports, entry point, VxD | engine; its own memory through the address space | the reader comes back to each table; fixups survive the mapping of later pages; an import has one address; services are read where fixups have written |
| PE loader (`src/mz/pe`) | sections, data directories, one reader | `pe_load` and eight directories | engine; its own sections through the address space | imports, exports, functions and resources are the ones in the tables; what stops one directory does not show in another |
| MZ, COM, the choice of a loader | DOS header | `mz_match_signature`, `*_parse` | all loaders of the family | exactly one accepts |
| SM83 processor (`src/gameboy/sm83`) | the engine's register values | `decode`, `emulate` | engine: references, bus writes, regvals | what it keeps for a register is true |
| Game Boy loader and platform (`src/gameboy/gb`) | header, segments, symbol file | `gb_parse`, `gb_load`, `gb_sym_load`, hook on the bus | engine; SM83 through bus writes | banks do not meet; names get their own bank; only enabled interrupts have handlers |
| GBA loader | header | `gba_parse`, `gba_load` | engine | a fixed list of segments |
| ELF loader | header, sections or program headers | `elf_parse`, `elf_load` | engine | segments of the headers, entry point by type |
| ZX Spectrum (Z80, SNA, TAP, BASIC) | snapshot, scratch buffer of a page, tape cursor, header seen last | `*_parse`, `*_load` | engine | memory is what was saved; blocks of a tape do not meet and fit the RAM measured for them; a header speaks for one block |
| PlayStation | registers seen by hooks | PS-EXE load, BIOS call hooks | engine | a call is named by the table and the number in `t1` |
| NES (iNES, NROM) | header | load | engine | mirrors show the same bank |
| Xbox executable | header, sections, kernel thunks | load | engine | thunks are named once |

`PROJECT.json` lists the same components with the state of the work on each,
and under `hazards` the places where a mistake would hardly show in a test,
each with the properties that would catch it.

## 2. Modules and how they correspond to the code

Each module models whole handlers: a turn of a loop is one action, with
everything the turn changes.  A variable `pc` (or a phase) stands for the place
in the calling function.  Data the properties do not tell apart (names, bytes,
layout of a record) are model values or numbers.

**`AddressSpace`** is abstract: a space is a set of segments that lie under a
limit, never overlap, and only ever become more.  It is what every loader has
to implement; `DexLoad` and `LeLoad`, whose segments come from tables of the
file, are shown to, with a refinement mapping each (`AddressSpaceSpec`).

**`DexLoad`** models `dex_parse`, `dex_load` and what `dalvik_setup` repeats.
`dex_read_map` has two callers, so the actions `ReadMapCount`, `ReadMapItem`
(one turn of the loop, with its four checks) and `ReadMapReturn` are
parameterised by `caller`; the loader reads the input, the processor what the
loader mapped (`Backing`).  `MapSegment` is one turn of `dex_map_segments`, in
which the engine may refuse; then the map entry has no segment.  The second
reading may thus fail at any byte, and `Setup` says what is left of the
processor's state.  Files are a constant set; theorems are about every set.

**`DexClasses`** models the rest of `dex_load`: `dex_walk_classes` and the naming
of prototypes, methods, types and fields.  The nested loops are `OpenClass`
(class data and its counts), `SkipField`, `NextList`, the records of
`_dex_walk_methods` (`EmitExternal`, `RejectCode`, `EmitFunction`, `BadMethod`,
all of which name the method first), the try items (`PassTry`, `OpenTry`) and
their handlers (`EmitHandler`, `HandlersDone`, `HandlersTruncated`); a position is
a table with an offset and the numbers read from there.  `bufs` holds the two
scratch buffers: `MethodNamed`, `FieldNamed`, `TypeNamed` and `ProtoNamed` read a
string into one and append it to the other, in the order of the code, and leave
both as they are where they give up.  Seven skip rules are three: two with a
common beginning and one without.

**`NeRelocs`** models `ne_load` up to the exports: the segments, the synthetic
import segments behind them, the loop over segments and that over records in
`ne_load_relocs`, and the entry point with the segment registers.  The
reader is a position: at record n of the table, in the imported names, or
somewhere else.  What a read delivers there (`Delivered`) is the record, or
any record ("junk", bounded by `records`), or an error.  `Resolve` is
`ne_moduleslice_resolve_import` with its wrap around of a 16 bit offset (`Slot`
stands for 64 KB).  `fixups` is history: what was written at a site and what
the cross reference says.

**`NeEntries`** models `ne_entryslice_create` (bundles, entries, ordinals that
are skipped) and `ne_load_exports`, which looks ordinals up in it.  Accesses to
the allocation are recorded so that they can be held against its length.

**`LeLoad`** models `le_load`: `le_importslice_create` (`CreateImport`), the two
loops of `le_segments_load` (`ReadObject`, `OpenObject`), a turn of
`_le_object_map_pages` (`MapPage`) and one of `le_fixup_apply` (`ApplyFixup`,
`TruncatedFixup`), the name tables, the entry point and `le_load_vxd`.  The
position of the reader is the entry of a table or a name, with its stack of
saved positions; memory is a function from addresses to cells, each from the
file, filled, or written by a fixup.  A page has four cells, a u32 two.  What
`_le_entry_address` reads is a walk over the bundles (`WalkBundle`).  `seen` is
history: which pages and fixups were handled with which record, and the target.

**`DalvikCode`** models `dalvik_decode` and `dalvik_emulate` under an engine that
decodes what it was told to go on at, in any order (`todo`).  There is one
operator per decoder of `formats.c` (`Decode10t` to `Decode51l`), chosen by
`FormatOf`, the opcode table; `Index` resolves an index to the address of an item
or keeps it; `Shown` is what rendering makes of an operand.  The actions are the
branches of `dalvik_emulate`: `EmulateSwitch` with the payload of a switch,
`EmulateFillArray`, `EmulateOther`, and `DecodeFails` where there is no
instruction.  The formats are written down a second time, as the instruction set
describes them: a format is a list of letters, one per nibble, and an argument
names a letter (`Layout`, `Arguments`).  The properties hold the decoders against
that.

**`ZxLoad`** models the three loaders of the ZX Spectrum.  A Z80 snapshot is read a
byte or a run per step (`ExpandV1`, `Expand`), with what a block leaves behind
(`SkipBlock`, `RawBlock`, `OpenBlock`, `CloseBlock`).  A tape is a list of declared
blocks; `TapParse` is the pass that measures, and `TapHeader`, `TapProgram`,
`TapCode`, `TapOther` the turns of the pass that maps.  A length below two wraps
around, and the payload with it.

**`PeDirs`** models `pe_load`: sections, then exports, imports, resources,
exceptions, debug, TLS and configuration, then the entry point and `pe_classify`.
A turn of each loop is an action; the reader (position and saved positions) is
carried from one directory to the next as the code does.  The resource tree is
recursive in the code: `frames` is its stack.  The image is a function from
addresses to structures, and reading where it is not defined fails.

**`GbLoad`** models `gb_parse`, `gb_load` and `gb_sym_load`: the list of
segments the header asks for, one mapped per step, and the lines of the symbol
file.  Addresses have their real values (`Banked` is `GB_BANKED`).

**`Sm83`** runs `sm83_emulate` beside the CPU.  `known` is the engine's regval
map with the pairs and halves of `SM83_REGISTERS`, `cpu` the registers of the
machine, `claims` what an instruction was reported to do (references, bus
writes, jumps, whether the path goes on) and `deeds` what it did.  There is one
action per group of `sm83_emulate`: `Ld`, `Arithmetic`, `Call`, `Rst`, `Jump`,
`JumpHL`, `Push`, `Return`; each changes both sides.  `_gb_bus_write` and
`_gb_enable_interrupt` of the platform are `BusHook`.  The CPU is external: it
is written down from what the code assumes of each instruction.

**`GameBoy`** puts the two together: when an image is loaded, the processor
follows its program (`FollowProgram`); an image that is rejected has none.

`MC*` modules give the constants values.  Operators marked `\* mutant` are
deliberate mistakes of the kind the code could have; each property is known to
fail when its mutant takes the place of the right definition (the list is in
`PROJECT.json`).

## 3. Runs, bounds, and why they are enough

| Run | What it shows | States | Bounds |
|---|---|---|---|
| `dex_load` | what `DexLoad` promises of maps, segments and the processor's tables, and that it implements `AddressSpace` | 86422 | headers at the limits of each check; maps of up to three entries of three types with offsets at the limits |
| `dex_classes` | names are an entry's own, every method of a class is declared, handlers have their edges | 134305 | two classes, any three methods in two lists, two protected ranges with any of eight lists, six strings |
| `dalvik_code` | operands are those of the format, references name one item, decoding follows execution | 79801 | every opcode with three high bytes and four tails, cut off anywhere; pairs of instructions with an index; methods of two or three branches, a payload of every kind |
| `ne_relocs` | no record of an intact table is lost, imports are unique, patches and cross references agree | 296073 | two segments, two modules, every table of three records out of twelve; a slot of 8 bytes |
| `ne_entries` | ordinals are filed in order, exports are entries, the loops end | 13538 | three bundles out of all kinds |
| `le_load` | the reader walks every table, fixups stay, imports are unique, exports and services are the right ones; it implements `AddressSpace` | 221393 | two objects of two or three pages; any three fixups out of fifteen kinds; three bundles; two modules |
| `pe_dirs` | imports, exports, functions and resources are the ones in the tables, whichever other directory is damaged | 24887 | four machines; images with and without exports and imports, bound or not; a forwarder in a segment of code, an odd export on ARM; two resource trees; seven kinds of damage |
| `game_boy` | every byte of the image is in one bank, banks do not meet, names stay in their bank and are not lost; what the processor knows is true, what is reported happens, stores are reported | 97089 | images at the limits of one and of two banks, all RAM sizes, two symbol lines; a, c, h, l, sp; a byte of two values; paths of any length |
| `zx_load` | snapshots restore what was saved, tapes are mapped apart, within the RAM, and by their headers | 150010 | pages of 4 bytes out of three values; snapshots of every version; tapes of any three blocks |
| `sm83_rst`, `sm83_jp`, `gb_wram_symbol` | a disagreement each, section 6 | | the instructions or the file it takes |

Why these bounds:

- *DEX.*  The checks of `dex_read_map` compare an entry with the one before it
  and with the types seen; three entries are the least for which a comparison
  with the predecessor and one with all predecessors differ.  The theorems of
  section 5 need no bound at all.
- *DEX classes.*  A method is handled with what is left of the one before it: the
  index, the position, the buffers.  Three methods in two lists allow any
  method between two of any kind and a list that starts after each of them.  Two
  protected ranges, the second of which reads after the first, do the same for
  handlers.  The widths are 1000 and 900 in place of 2^64 and 2^32; no sum of
  counts in the run wraps (section 6).  Strings with the same short name but
  another package are among the six, so that a mistaken buffer shows.
- *NE relocations.*  The state carried from record to record is the reader's
  position and the import offsets.  Three records allow a disturbance, a
  victim, and a repetition of the disturbance's symbol; the second segment shows
  what is carried from one table to the next.  The slot has room for four
  imports and the run never fills it: what happens then is in section 6.
- *NE entries.*  A bundle influences the next only by the ordinal and the
  position; three bundles have one in the middle with neighbours of any kind.
  The number of ordinals in a bundle is kept where `data` is allocated for them;
  section 6 is about the rest.
- *LE.*  A fixup can reach into the page before, the page after or an import
  slot; two objects of two pages have each neighbour, and the three fixups are on
  the two pages of one object and on the other object.  The objects end below
  the first import slot (or the file is a VxD, whose objects are elsewhere);
  section 6 is about the rest.  A page at the very start of the file, an object
  without a size and one whose part of the page map begins in front of the map
  are among the files.  Ordinals stay below 2^16.  `TablesWalked`
  follows tables as far as they are in the file; `FixupsLand` speaks of records
  that are whole.
- *SM83.*  The code copies, forgets, steps and compares values, and its only
  arithmetic on them is the engine's.  A byte of two values has both a value
  that is written and one that is not, carries from l into h, and puts
  `0xFFFF`, `0xFF00 + c`, a constant and a byte of RAM at four different
  addresses.  One pair is enough as the pairs never meet.  The run follows a
  path until `lapsed`: rst, a push or pop with sp known, a step of hl with one
  half known, and `ld hl, sp+e8` change a register without the code noticing
  (section 6).  The constraint `MCFollowed` stops there, and the properties say
  `~lapsed`, for behind it they do not hold.  In the passing run no `jp` has a
  condition, `set`/`res` have their operand in a register, and only `bits` reads
  l or h; `sm83_jp` runs the branches with a condition, and finds `FlowKept`
  violated by jp.
- *Dalvik.*  A decoder looks at the units of one instruction only, so all opcodes
  with the high bytes that carry a sign, a count of five and a nibble above nine
  show each of them; the tails hold a value with and without the sign bit in every
  unit.  Tables lie one behind the other in the file, so an index past the end
  of one would be an item of the next.  Control flow is carried only by `todo`
  and the payload at hand: two pieces give a branch before and behind a switch,
  forwards, backwards and into the middle of it, and payloads are of either kind,
  empty, cut off, or none.
- *ZX Spectrum.*  A run, a single `ED`, an `ED` at the end of a page and the end
  marker need three byte values and four bytes; a block in front of another, of a page
  that is skipped or raw, shows what it leaves behind.  A tape carries the cursor and
  the header from block to block; three blocks allow a header, its block and one
  that must not take it.  A snapshot carries what was saved and how it was
  packed, so that what is loaded can be held against it.  Among the files are one of
  each of the two kinds that are not restored (`IsMistaken`); version 1 snapshots
  that are not compressed are left out (section 6).
- *PE.*  Each directory is read once, and only the reader and the list of what
  was found pass from one to the next; one damaged directory per image, of each
  kind, is what can disturb another.  A u16 is of 8, the number of callbacks
  looked for 3; trees are one of three levels and one that contains itself.
- *Game Boy.*  Every size is one of the code's tables; lengths are the limits of
  one bank and of two, and one below and above them; symbol files come with a
  second bank of one byte.  The processor is followed through one image
  (`MCGameBoyFollowed`), as it looks at nothing of an image but the constant
  `Rom`.  The theorems of section 5 need no bound.

`CHECK_DEADLOCK` is on everywhere: where the code is done, a step that changes
nothing says so.

## 4. Fairness

The code is sequential and called by the engine, which does not leave a function
half way.  `NeEntries`, whose loops are bounded by nothing but what the file
says, therefore has a specification with weak fairness of the next step
(`FairSpec`); the step that says "done" is not part of it.  `Termination` is that
the loops end whatever the file contains; it fails for a way back to the head of
a loop that has not moved on (`ReadBundle_PosLast`).  The other loaders count
over a list whose end they know, and have no liveness property; which path of the
program the engine follows through the SM83, and how far, is not the processor's
choice.

## 5. What is proved

Eight modules of proofs, each named after what it is about.  A theorem
holds for every value of the constants that the assumptions of its module
allow: files with tables of any length, tapes of any number of blocks, a byte of
any size.  The assumptions only say what the fields of a file are (numbers,
sequences, records) and how the sizes of the code relate; TLC evaluates them in
each run.  39 of the 40 properties the runs check are theorems; where the code itself
leaves a case out, the condition is in the theorem and named:

| Condition | Says | The code |
|---|---|---|
| `Room` (`NeRelocs`, `LeLoad`) | no module has more imports than its slot holds | does not check it (section 6) |
| `DistinctModules` (`NeRelocs`) | no two module references have one name | looks names up without the module (section 6) |
| `FirstOperands` (`Sm83`) | an instruction that changes memory has it as its first operand, which `set n, [hl]` and `res n, [hl]` have not | does not report what those store (section 6) |
| `PagesFit` (`LeLoad`) | the pages of an object are not more than the object takes | does not check it |
| `Whole` (`LeLoad`, also in the property) | no record of a fixup is truncated | applies one with what the locals hold |
| `BlockIsClear` (`LeLoad`) | over each address of a description block and its table there is one record, or none and the file has a 0 | reads what is there |
| `IsMistaken` (`ZxLoad`, in the property) | the header of a snapshot has 55 bytes, or a page ends in a single ED and the length of the next block begins with one | restores other bytes (section 6) |
| `ExportsWritten`, `ImportsWritten`, `FunctionsWritten`, `ResourcesWritten` (`PeDirs`) | the image has the structures that `wants` lists, and no others; exports, imports and functions of a damaged directory may be missing, and of resources `wants` lists those in front of an entry that cannot be read; tables and directories are at addresses that are numbers | knows nothing of `wants` |
| `TablesApart` (`DalvikCode`) | the tables of a file and its strings lie apart, as the sections of a file do (TLC evaluates it for the files of the run) | does not check it |
| `Fits` (`LeLoad`) | objects and import slots are below the limit and apart, pages are not larger than objects are aligned to, something is mapped | checks nothing of it (section 6) |

In each module of proofs there is an inductive invariant, a lemma per action
that keeps it, with a step per conjunct the action can disturb, and the theorems
that follow from it.

**`DexProofs`** about `DexLoad`, from `MaxMapItemsAssumption` (the limit is a positive number)
and the fields of `File`:

| Theorem | States |
|---|---|
| `InductiveInvariant`, `TypeCorrect` | `Spec => []IInv`, `Spec => []TypeOK` |
| `MapsAreWellFormed` | `Spec => []MapWellFormed` |
| `SegmentsAreOneToOne` | `Spec => []SegmentsOneToOne` |
| `SpaceIsGapFree` | `Spec => []GapFree` |
| `ProcessorUsesTheLoadersTables` | `Spec => []TablesAreTheLoaders` |
| `UnmappedHeaderStaysInvalid` | `Spec => []UnmappedHeaderIsInvalid` |
| `ProcessorFindsTheLoadersMap` | `Spec => []ProcessorFindsTheMap` |
| `ImplementsAddressSpace` | `Spec => AddressSpaceSpec` |

That two segments do not overlap needs to know that each is the extent of an
entry already passed by `mapIdx`, that the entries ascend, that the reader of an
unfinished `dex_read_map` stands behind the last entry accepted, and that what
the second caller reads are the same entries.  `IInv` is the conjunction of
those facts, one definition per phase (`Phases`, `Reading`, `FromTable`,
`Complete`, `Kept`, `Mapped`).  `ProcessorFindsTheLoadersMap` is the converse of
`ProcessorUsesTheLoadersTables` and needs two more invariants: what the first
reading has checked (`Checked`), and that where the engine has refused nothing
the space reads like the file (`WholeReadsAsFile`), so that every check passes
again (`SecondReading`).

**`DexProofs`** about `DalvikCode`, whose specification is `CodeSpec`, from
`MethodsAssumption` (code is units, tables and strings are at addresses that are
numbers):

| Theorem | States |
|---|---|
| `OperandsAreSpecified` | `CodeSpec => []OperandsAsSpecified` |
| `SuccessorsAreFollowed` | `CodeSpec => []CodeIsFollowed` |
| `ReferencesNameOneItem` | `TablesApart => (CodeSpec => []ReferencesAreOneToOne)` for the tables of every method |

The run tries some units for each opcode; the theorems are about all of them
(const-wide/high16 aside, as in the property). The property counts in nibbles,
the decoders in shifts of units. What joins them is arithmetic: a unit is its
four digits (`Digits`), the number of a field of one, two, four or eight nibbles
is what its bytes and units make, with their sign (`Number8`, `Signed8`), a
literal of any width is what the decoder extends it to (`Literal1` to
`Literal8`), and the five registers of a list come out of one number as they
went in (`FiveDigitsShown`). `Layouts` says where each format has its fields,
and there is a lemma per format (`Format10t` to `Format51l`) that its operands
are its arguments.

`CodeInv` is that the engine has decoded what is there.  `FollowInv`: of each
instruction decoded, every address it is followed to is known or still to be
done, jumps are shown as such, and every address known or to be done is the
first or one that an instruction is followed to.  It is kept by any order of the
engine.  Where the code follows an instruction to is then where execution goes
(`FollowsAreSuccessors`): opcodes that jump are those of the formats with a target
(`FlowFormats`, `Flows`), and the cases of a payload are the same counted from
its end or from its start, up to the first that cannot be read
(`PayloadCases`).

An operand that names an item does so by an index that has passed the check of
its table (`OperandsNamed`), its address is in the table (`ItemInTable`), and
where tables are apart it is that of one item (`OneItem`).

**`DexClassesProofs`**, from `InputsAssumption` (tables of ids have no gaps, fields
are unsigned, lists of handlers and class data are lists of numbers),
`PrefixesAssumption` (a string that begins like a support package begins like one
of Android, and none begins like both Android and Java) and `WidthAssumption`:

| Theorem | States |
|---|---|
| `NamesInvariant`, `NamesAreOwn` | `Spec => []NamesInv`, `Spec => []NamesAreTheirOwn` |
| `HandlersInvariant`, `HandlersHaveEdges` | `Spec => []HandlersInv`, `Spec => []HandlersAreReached` |
| `MethodsInvariant`, `AllMethodsAreDeclared` | `Spec => []MethodsInv`, `Spec => []MethodsAreDeclared` |

The names rest on four lemmas about the scratch buffers (`ProtoIsNamed`,
`MethodIsNamed`, `TypeIsNamed`, `FieldIsNamed`): whatever is in the buffers when
a call begins, what it returns is made of the strings of its own entry, or the
call says that it failed.  They follow the order in which one buffer is filled
while the other is read.  `NamesInv` adds which entries the loops have passed
(`IsPast`).  `HandlersInv` says where the reader is inside a table (`AtTable`)
and a list (`InList`): as many numbers of the list are read as the code counts,
the edges to those are there and no others, and every entry passed has all of
its own (`EntriesHaveEdges`).  `ElsewhereAndBack` is that the reader comes back
from the list to the next try item, `Padding` that the alignment behind an odd
number of instructions is the one the format asks for.

`MethodsInv` says where the reader stands in the data of the class at hand, or
will stand again when it comes back from the code of a method (`ClassPos`), how
many methods of the data are `Behind` it, and that `methodidx` is the sum of
the differences read so far, modulo its width (`IsAt`).  The sums the format
speaks of are a recursive function (`SumsOf`), whose equation is shown with a
least counterexample (`SumsFacts`); that the code reduces at every step and the
format only at the end makes no difference (`RemainderAdds`).  `Declared` ties
this to the imports and functions: those declared are the methods of the
classes passed and those behind the reader in this one.  What the checks of
the walk let through is a sound record (`GoodIsSound`), and the class
rules skip by the first that matches, which is left out exactly if the most
specific package is (`SkippedIsLeftOut`).

**`NeRelocsProofs`**, from `SlotAssumption` and `InputsAssumption`:

| Theorem | States |
|---|---|
| `InductiveInvariant` | `Spec => []IInv` |
| `TablesAreWalked` | `Spec => []IntactTablesWalked` |
| `ImportsAreBound` | `Spec => []ImportsBound` |
| `PatchesMatchXrefs` | `Spec => [](DistinctModules => PatchMatchesXref)` |
| `ImportsAreUnique` | `Spec => [](Room => ImportsUnique)` |

That a record is taken from its own place depends on where the reader stands;
that it stands there depends on each import by name having been resolved; and
that depends on the slot having been mapped where `next_off` points.  `IInv`
ties the three together (`AtRecord`, `TablesDone`, `NamesInSlots`,
`SlotsMapped`).  Uniqueness needs that `next_off` has not gone round, which is
counted: a module with n imports has `next_off` at most 2n (`NextIsFresh`).

**`NeEntriesProofs`**, from `SizesAssumption` and `InputsAssumption`:

| Theorem | States |
|---|---|
| `InductiveInvariant` | `Spec => []IInv` |
| `EntriesAreFiledInOrder` | `Spec => []FiledInOrder` |
| `ExportsAreTheirEntries` | `Spec => []ExportsAreEntries` |
| `LoopsAreBounded`, `LoopsGoOn` | `Spec => []LoopBounds`, `Spec => [][GoesOn]_vars` |

`Addresses` is the list of the addresses of all bundles, joined.  The invariant
says that `ordinal` is the place in this list where the bundle at hand begins
(`Begin`) plus the entries of it that have been read.  What is found at such a
place of joined sequences is a lemma about `FlattenSeq`, which is recursive
inside; the existence of its partial results is shown with a least
counterexample.

**`LeLoadProofs`**, from `SizeAssumption` and `InputsAssumption`:

| Theorem | States |
|---|---|
| `WalkIsTracked` | `Spec => [](TypeInv /\ WalkInv)` |
| `TablesAreWalked` | `Spec => []TablesWalked` |
| `SlotsAreInOrder` | `Spec => []SlotInv` |
| `ImportsAreUnique` | `Spec => [](Room => ImportsUnique)` |
| `LayoutIsInOrder` | `Spec => []LayoutInv` |
| `ImplementsAddressSpace` | `Spec /\ []Fits => AddressSpaceSpec` |
| `ExportsAreTheirEntries` | `Spec => []ExportsAreEntries` |
| `FixupsStay` | `Spec => [](PagesFit => FixupsLand)` |
| `ServicesAreFilledIn` | `Spec => [](PagesFit /\ Whole /\ BlockIsClear => ServicesAreFixedUp)` |

`WalkInv` has for each phase the position of the reader, its stack of saved
positions, and what part of the tables has been handled; leaving the page map
for the fixups and the fixups for names, the stack says where it goes on.
`SlotInv`: each address handed out in a slot ends at or before its `next_off`.
`LayoutInv`: objects lie behind one another up to `cursor`, and what has been
mapped is a part of what is to be.  The refinement of `AddressSpace` maps the
creation of import slots and the mapping of objects to its one action, every
other step to a stutter.  `_le_entry_address` counts ordinals through the bundles
before the one it looks for: that a walk has counted those of all bundles behind
it (`BundleCounted`), and so stops only at an entry with its ordinal, is an
induction over the bundles, done with a least counterexample.  Its `ord` is a
u16 in the code and a number here: the tables are those with fewer than 2^16 ordinals.

That a fixup stays (`LandInv`) is a matter of order: a page is mapped before its
own fixups are applied, and never over a page in front of it (`PagesAreBehind`),
which rests on where `LayoutInv` has put the objects and on all records handled
being those of pages passed (`PlacesInv`).  A record that is applied
writes what one of its sources asks for and nothing else (`ApplyFixupAsks`), and
where all records are whole none is applied with what the locals happen to
hold (`WholePagesEnd`).  The services of a VxD follow: an address that one
record fills is read as that record has it, one that none writes as the file
has it (`CellInv`), and `FunctionInv` keeps the block `le_load_vxd` has read.

**`GameBoyProofs`** about `Sm83`, from `SizeAssumption`, `RomAssumption`, `NamesAssumption` (the
pairs are the ones there are), `BitsAssumption` (interrupts are bits of a byte),
`AluAssumption` (results are numbers) and `InstructionsAssumption` (the shape of
the entries of the opcode tables):

| Theorem | States |
|---|---|
| `InductiveInvariant` | `Spec => []IInv` |
| `KnownIsTrueUntilLapsed` | `Spec => []KnownUntilLapsed` |
| `ClaimsHappen` | `Spec => []ClaimsAreDeeds` |
| `OnlyEnabledHandlers` | `Spec => []HandlersAreEnabled` |
| `TracedStoresAreReported` | `FirstOperands => (Spec => []StoresAreReported)` |
| `OnlyConditionalJpLosesFlow` | `Spec => [][FlowKept' \/ LosesFlow]_vars` |

Until `lapsed`, a register is unknown or has the value of the CPU (`Agree`).
Lemmas carry agreement through the operations on register files (`Get`, `Set`,
`Forget`, `Step`, `Address`); pairs and halves are where it is hard, for a pair
is known only if both halves are, and a word has to be put together from what
it was taken apart into.  The arithmetic of the engine is any function, so
nothing depends on what an instruction computes.

**`GameBoyProofs`** about `GbLoad`, whose specification is `GbSpec`, from `ImagesAssumption` (lengths, banks and addresses are
numbers):

| Theorem | States |
|---|---|
| `WindowsAreShared` | `GbSpec => []BanksShareWindows` |
| `NamesKeepTheirBank` | `GbSpec => []NamesAreInTheirBank` |
| `ImageIsMappedOnce` | `GbSpec => []ImageMappedOnce` |
| `PartsStayThemselves` | `GameBoySpec => GbSpec /\ Spec`: the theorems about either part hold of the whole |

Every segment mapped or still to be mapped is a bank of one of nine windows, and
window and bank determine the rest of it (`Form`, `LowFacts`,
`BankDetermines`).  `ImageIsMappedOnce` needs `Progress` too: what is mapped and
what is still to be mapped make up the layout.

**`ZxLoadProofs`**, from `TapesAssumption` (lengths are numbers),
`SnapshotsAssumption` (bytes and places are numbers) and `PageSizeAssumption`:

| Theorem | States |
|---|---|
| `InductiveInvariant`, `BlocksAreApart` | `Spec => []IInv`, `Spec => []BlocksApart` |
| `BlocksAreInRam` | `Spec => []BlocksInRam` |
| `HeadersSpeakOnce` | `Spec => []HeadersDescribeNextBlock` |
| `SnapshotsAreRestored` | `Spec => []PagesRestored` |

The cursor is on a boundary of 16 and every area ends at or before it.  The
cursor does not go back, not even over a block whose length wraps around to -1
or -2, because it is rounded up to a boundary: the lemma `CursorGoesOn`.  For
`BlocksAreInRam` the cursor of the second pass is held against that of the
first in front of the same block (`RamInv`), and for `HeadersSpeakOnce` the
header that is kept is the block right in front, or there is none (`HeaderInv`).

Which bytes a page may be packed to is a grammar, and a file says how it was
used: the cuts of a page are where the writer has ended a run or a literal, and
how many bytes of the page are done there.  `IsWritten` is first-order over the
cuts: from each to the next there is a run, or a literal that is none.  So the
reader is always at a cut with as many bytes restored as the cut says (`AtCut`,
`Tracked`), one token takes it to the next (`TokenIsSeen`,
`TokenIsExpanded`), and in the end memory is the one that was saved, for
pages of any length and any division of them (`SnapshotInv`).  The proof found
one of the two exceptions `IsMistaken` names: a run is looked for across the end of
a block.

**`PeDirsProofs`**, from `ImagesAssumption` (addresses, sizes and counts are
numbers):

| Theorem | States |
|---|---|
| `ExportsAreResolved` | `Spec => [](ExportsWritten => ExportsResolved)` |
| `ImportsAreResolved` | `Spec => [](ImportsWritten => ImportsResolved)` |
| `FunctionsAreFound` | `Spec => [](FunctionsWritten => FunctionsFound)` |
| `ResourcesAreFound` | `Spec => [](ResourcesWritten => ResourcesFound)` |

The properties compare what is found with `wants`, which the images of the run
are built from.  For every image that needs the meaning of the structures
themselves, which the four conditions give: the structures that can be read, each
by its number and not by the place a reader has come to, and a structure behind
one that is missing is not there.  All 449 images of the run satisfy them.
They share no walk with the loader: the name of function `i` is the one at the
first place whose ordinal is `i` (`IsNamed`), what is imported by thunk `k` of
descriptor `n` is `ImportAt(n, k)`, and behind unwind codes the handler is at
the even one of two places (`InfosAt`), and a resource is a way through the tree, on
each level a directory and an entry of it, whose end is data (`IsResource`).

The invariants then say where the one reader is.  In the exports it is at slot
`cur.i` of the table, and the exports found are those of the functions in front
(`ExportInv`).  In the imports it is at descriptor `n` with an empty stack, or
inside the thunks of descriptor `n` with the next descriptor on the stack, and
both tables are at thunk `k` (`ImportInv`).  For the functions each directory adds
its own to those of the directories before it (`FunctionInv`), so the last state
has them all, whatever else was damaged; `FunctionsFixed` is that none of this
meaning depends on anything but the image and the segments.  An effect lemma per
action says what it does to the five things found.

The resources are directories in directories, and no induction over the tree is
needed: the loader is always on one way `p` (`AtEntry`, `AtDirectory`).  The frames
hold its entries, the stack of the reader holds the place behind each of them
(`Matches`, `Stacked`), and what has been found is the data on all ways that turn
off before `p` (`Reached`).  Each step moves `p`: down to a first entry
(`ReachedDown`), on behind data (`ReachedData`), up behind the entry of the
caller when a directory ends (`ReachedUp`) or is none (`ReachedNothing`); at the root
`Reached` is everything (`ReachedAtEnds`).  `LevelDone` is why: at the end of a
directory every way that goes into it turns off before its last entry.  The stack is empty when
the resources begin because exports and imports have come back from everywhere
(`ImportsComeBack`).

Only model-checked:

- `Termination` of `NeEntries`: liveness under fairness is outside what the
  prover does.  What it rests on is proved: no step leaves the reader where it
  was, in an order of function, bundle, entry and name (`LoopsGoOn`), each of
  which has an end (`LoopsAreBounded`).
- The cases outside `Room`, `DistinctModules`, `PagesFit`, `Fits` and
  `FirstOperands`, for which the properties are not true (section 6), and outside
  `TablesApart`, where two tables may share an item.

## 6. Divergences between the code and its comments

With a run that shows them:

| Run | Code | What happens | What the source says |
|---|---|---|---|
| `sm83_rst` | `src/gameboy/sm83/sm83.c:484` | values survive `rst`, which is a call | `sm83.c:332` |
| `sm83_jp` | `src/gameboy/sm83/sm83.c:194` | a `jp` with a condition has the flow of one without, so what is behind it is not analysed | `tables.c:199`, and `sm83.c:196-216` for jr, call and ret |
| `gb_wram_symbol` | `src/gameboy/gb/sym.c:112` | a symbol in bank 1 of WRAM is dropped though the bank is mapped | `sym.c:115`, `loader.c:155` |

Seen while modelling, described by the models but without a run of their own:

- `src/mz/ne/relocs.c:185`: the `break` behind an empty name leaves the reader
  in the names, and later records are read from there, against `relocs.c:74` and
  `:208`.  `IntactTablesWalked` speaks of tables without such a name.
- `src/mz/ne/entries.c:78`: ordinals that are skipped take no room in the
  allocation but count, so a table with many of them is written outside of it,
  against `entries.c:6`; an entry of ordinal 0 lies in front of it.
- `src/mz/le/imports.c:5`: there is one slot per object whatever its size, so
  pages of an object over 64 KB lie in an import slot, against `imports.c:41`.
- `src/mz/ne/ne.c:94` adds a length of 0 as 0, so the relocations of a segment of
  64 KB are looked for at its data, against `ne.c:91-93`.  `TableThere` is false
  for such a segment, and what is read there is anything.
- `src/android/dex/classes.c:277` adds 64-bit counts from the file: a sum that
  wraps around passes the check that "a corrupt count must not turn into a long
  walk over garbage" (`:276`).  The walk then ends where the data do or at the
  first method whose index is out of range.
- `src/android/dex/classes.c:189` formats the name of the entry without a look at
  whether it is NULL, a line above where the code does look.  `EntryOf`
  may carry `NoName`.
- `src/mz/ne/relocs.c:162`: symbols are looked up by name alone
  (`modules.c:83`), so with two references to one module name the patch names the
  slot of the second and the cross reference the slot of the first.
  `PatchMatchesXref` fails for such a file; the passing run has none.
- `src/mz/ne/modules.c:96`: `next_off` is a u16, so a slot that is exactly full
  starts over and two symbols get one address, against `modules.c:89`.
  `ImportsUnique` fails with one symbol more than the slot holds.
- `src/mz/le/objects.c:93` compares the size of each page with that of the whole
  object: "map only required data" holds for objects of one page only.
- `src/mz/le/imports.c:65` looks a name up without its module: two modules with
  a symbol of one name share the address of the first.
- `src/mz/le/imports.c:69`: `next_off` is not held against the slot, so an
  import after the last that fits lies in the slot of the next module.
- `src/mz/le/objects.c:55-56`: an object that says its part of the page map starts at
  0 gets what lies in front of the map for its first page, and its fixups are
  looked for outside of the file, where `fixup.c:69-71` leaves two locals as they were.
- An LE file with neither objects nor modules is loaded with nothing mapped.
- `src/mz/le/exports.c:138`: a file without resident names (`resname_off` 0) has
  its header read as names.
- `src/mz/ne/relocs.c:39,44` write the number of a segment where the comment
  (36-37) speaks of a paragraph, and `src/mz/ne/ne.c:27-29` seeds the segment
  registers with paragraphs.
- `src/gameboy/sm83/sm83.c:347`: a step of `[hli]` with only one half of hl known
  leaves that half as it was; `sm83.c:439`: `ld hl, sp+e8` is taken for
  `ld hl, sp`; push and pop do not move a known sp.  These are what `lapsed`
  records.
- `src/gameboy/sm83/sm83.c:403`: `set n, [hl]` and `res n, [hl]` are not reported
  as bus writes, as only operand 0 is taken for a store, against `:402`.
  `StoresAreReported` fails for such an instruction; the passing run has none.
- `src/gameboy/gb/loader.c:129`: bank 1 of the ROM has no plain address, though
  `loader.h:8-9` says the default bank of every window does.
- `src/android/dalvik/formats.c:134` looks at `instr->id`, which is set behind the
  decoder (`dalvik.c:231`): the constant of `const-wide/high16` is shifted by 16 in
  place of 48.  `OperandsAsSpecified` makes an exception of it.
- `src/android/dalvik/dalvik.c:253-257`: every address of a call gets a call
  reference, and so does the prototype of `invoke-polymorphic`.
- `src/android/dalvik/formats.c:88-91` keeps the index of every operand "because
  an address does not lead back to it"; format 35c has code of its own and does
  not keep it with an address.  A 3rc with a count of 0 shows a register.
- `src/zxspectrum/z80/z80_format.c:79`: the last run of a block may reach behind its
  declared length, and the block after it is then read from there.  A block that
  ends in a single ED is read together with the length of the next one: if that
  begins with ED the two are taken for a run (`:19-43`).  `PagesRestored` leaves
  such files out (`IsMistaken`).
- `src/zxspectrum/z80/z80_format.c:4`: the flag that a snapshot is compressed is
  never looked at; a version 1 snapshot without it is expanded all the same.
- `src/zxspectrum/z80/z80_format.c:171`: the fields of version 3 are read for a
  header of 54 bytes only, so with one of 55 the pages are looked for too early
  (`IsMistaken` again).
- `src/zxspectrum/sna/sna.c`: snapshots of 128K are accepted, and nothing of
  them is loaded.
- `src/zxspectrum/basic.c:44` clears the buffer that `:90-91` has put the line
  number into.
- `src/mz/pe/dirs/exports.c:73-77`: without a table of names, which a file that
  exports by ordinal has no need of, no function is looked at.  Of two names
  with one ordinal only the first is found.
- `src/mz/pe/dirs/exports.c:147`: the function of an export, and that of a handler,
  keeps the bit of the instruction set on ARM, which callbacks lose (`tls.c`).
  `FunctionsFound` has an odd export on ARM as the code has it.
- `src/mz/pe/dirs/resources.c:66-69`: data that cannot be read end the directory they are
  in, and the entries behind them are not found; those of other directories are.
- `src/mz/pe/pe.c:143` takes the raw size for a virtual size of 0, `:154` does
  not: such a segment has its size and shows nothing.
- `src/mz/pe/dirs/resources.c:35`: "max 3 levels deep", but depths 0 to 3 are read.
- `src/mz/pe/dirs/config.c:104,129`: where there is no cookie address 0 is typed
  and named.
- `src/mz/ne/modules.c:71` calls `mod_idx` 1-based; the function takes it
  0-based (its callers subtract one).

## 7. What is not modelled, and why

- Rendering of instructions (but for what an operand of Dalvik shows as),
  logging, the text of names and of BASIC lines: no property depends on it.
- Initial registers of snapshots; what the command of the COFF symbols and the
  scan for wide strings of PE do in the engine; the rich header, which is a
  field of the image.  Where the name of an import or an export
  cannot be read, `pe/dirs` goes on with a local variable that was never set; no
  image of the run has such a name.
- Of the engine under Dalvik it is assumed that it goes on where `rd_flow` and
  jumps tell it to, in any order.
- Checksums and signatures of DEX: they only warn.
- Tables of data: mnemonics, Win16 ordinals (a function given as a constant),
  BIOS call names.
- The engine: only what the loaders see of it, marked external in the map.
- The components of the plan below.

## 8. Plan

Modelled first was what the most code rests on: address spaces, tables and
readers, then the processors.  To come, in this order:

1. `DexSections`: the walk of the variable-length sections, composed with
   `DexClasses`, which it shares the reader with.
2. `ElfLoad` (segments from sections or program headers, the names of modules),
   `XbeLoad` (thunks), `MzDispatch` (exactly one loader of the family accepts a
   file).
3. `PsxHooks` and `NesLoad`: calls named by the hooks, mirrors of banks.
4. A composition of `DexLoad` and `DalvikCode`: the tables of `dalvik_setup` are
   those that resolve an index.
