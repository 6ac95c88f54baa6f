------------------------------- MODULE ZxLoad -------------------------------
(***************************************************************************)
(* The loaders of the ZX Spectrum: Z80 snapshots with their compressed     *)
(* pages, SNA snapshots, and TAP tapes.                                    *)
(*                                                                         *)
(* A Z80 file is its header and the bytes behind it, and, where a program  *)
(* saved it, what it saved and how (see the promises below); a page has    *)
(* PageSize bytes in place of 16384.  A tape is the list of its blocks, as their    *)
(* declared lengths define it: [len, flag, type, lines].                   *)
(***************************************************************************)
EXTENDS Integers, Sequences, FiniteSets

CONSTANTS
  PageSize,   \* bytes of a page
  Files       \* the files; tag says of which kind

ASSUME PageSizeAssumption == PageSize \in Nat \ {0}

\* The declared length of a block is a number.
ASSUME TapesAssumption ==
  \A f \in Files : f.tag = "tap" =>
    /\ Len(f.blocks) \in Nat
    /\ \A k \in 1..Len(f.blocks) : f.blocks[k].len \in Nat

\* So are the bytes of a snapshot and the places that the file names.
ASSUME SnapshotsAssumption ==
  \A f \in Files : f.tag = "z80" =>
    /\ f.start \in Nat /\ f.bytes \in Seq(Nat)
    /\ Len(f.pieces) \in Nat
    /\ \A k \in 1..Len(f.pieces) :
         LET p == f.pieces[k] IN
         /\ p.from \in Nat /\ p.to \in Nat
         /\ p.cuts \in Seq([at : Nat, done : Nat])

VARIABLES
  file,       \* the file, an element of Files
  pc,         \* where the loader is
  pos,        \* the position of the reader: a byte, or the block of a tape
  out,        \* the scratch buffer of a page
  block,      \* the block being expanded: [start, len, addr]
  mem,        \* memory that was written, by address
  cursor,     \* where the next block of the tape goes
  header,     \* the header of the tape seen last: the block, 0 for none
  areas,      \* input mapped: [block, from, to]
  marks       \* entry points, functions and comments: [kind, addr, block, line]

vars == <<file, pc, pos, out, block, mem, cursor, header, areas, marks>>
tape == <<cursor, header, areas>>
snapshot == <<out, block, mem>>

ED == 237
RawLength == 65535

-----------------------------------------------------------------------------
(* Memory                                                                  *)

\* zx_set_entry_point: not in the ROM.
EntryPoint(a) ==
  IF a < PageSize THEN {} ELSE {[kind |-> "entry", addr |-> a, block |-> 0, line |-> 0]}

\* rd_write: bytes from address a on.
Write(a, bytes) ==
  [x \in DOMAIN mem \cup a..(a + Len(bytes) - 1) |->
     IF x \in a..(a + Len(bytes) - 1) THEN bytes[x - a + 1] ELSE mem[x]]

\* A loader ends.
Return(result) == pc' = result

-----------------------------------------------------------------------------
(* Z80 snapshots: the header                                               *)

BaseHeader == 30

\* Version 1 has a program counter in the base header.
Version ==
  CASE file.pc # 0 -> 1
    [] file.pc = 0 /\ file.length = 23 -> 2
    [] file.pc = 0 /\ file.length \in {54, 55} -> 3
    [] OTHER -> 0

\* The bytes z80_read_header_ext reads: the fields of version 3 for one of its
\* two lengths only.
ExtHeader ==
  25 + (CASE file.length = 54 -> 31 [] file.length = 55 -> 1 [] OTHER -> 0)

Z80Parses ==
  /\ file.im <= 2
  /\ Version # 0
  /\ Version # 1 => file.hw <= 1

Z80Parse ==
  /\ pc = "parse" /\ file.tag = "z80"
  /\ IF Z80Parses
     THEN /\ pc' = IF Version = 1 THEN "v1" ELSE "blocks"
          /\ pos' = IF Version = 1 THEN BaseHeader ELSE BaseHeader + ExtHeader
     ELSE Return("rejected") /\ UNCHANGED pos
  /\ UNCHANGED <<file, snapshot, tape, marks>>

-----------------------------------------------------------------------------
(* Decompression                                                           *)

\* The bytes of the file by position; the header was read before.
Size == file.start + Len(file.bytes)
CanRead(p) == p < Size
Byte(p) == file.bytes[p - file.start + 1]

\* _z80_try_expand_run at a byte read from p: two EDs begin a run.
IsRun(p) == Byte(p) = ED /\ CanRead(p + 1) /\ Byte(p + 1) = ED
RunThere(p) == CanRead(p + 3)
Run(p) == [i \in 1..Byte(p + 2) |-> Byte(p + 3)]

\* mutant: the zero is not looked at.
IsMarker_Short(p) ==
  /\ CanRead(p + 2)
  /\ Byte(p) = 0 /\ Byte(p + 1) = ED /\ Byte(p + 2) = ED

\* The end marker 00 ED ED 00.
IsMarker(p) ==
  /\ CanRead(p + 3)
  /\ Byte(p) = 0 /\ Byte(p + 1) = ED /\ Byte(p + 2) = ED /\ Byte(p + 3) = 0

\* A byte that is neither a marker nor the beginning of a run.
PushByte(p) ==
  /\ out' = Append(out, Byte(p))
  /\ pos' = p + 1
  /\ UNCHANGED pc

\* A run; in a file that ends in it there is no page.
PushRun(p) ==
  IF RunThere(p)
  THEN /\ out' = out \o Run(p)
       /\ pos' = p + 4
       /\ UNCHANGED pc
  ELSE Return("failed") /\ UNCHANGED <<out, pos>>

\* One turn of _z80_decompress_v1.
ExpandV1 ==
  /\ pc = "v1" /\ Len(out) < 3 * PageSize
  /\ IF ~CanRead(pos) THEN Return("failed") /\ UNCHANGED <<out, pos>>
     ELSE IF IsMarker(pos) THEN pc' = "v1end" /\ UNCHANGED <<out, pos>>
     ELSE IF IsRun(pos) THEN PushRun(pos) ELSE PushByte(pos)
  /\ UNCHANGED <<file, block, mem, tape, marks>>

\* z80_load_v1 behind it: the 48K are the RAM.
EndV1 ==
  /\ pc = "v1end" \/ (pc = "v1" /\ Len(out) >= 3 * PageSize)
  /\ IF Len(out) = 3 * PageSize
     THEN /\ mem' = Write(PageSize, out)
          /\ marks' = marks \cup EntryPoint(file.pc)
          /\ Return("loaded")
     ELSE Return("failed") /\ UNCHANGED <<mem, marks>>
  /\ UNCHANGED <<file, pos, out, block, tape>>

\* The pages of a 48K machine.
PageAddress(page) ==
  CASE page = 0 -> 0
    [] page = 8 -> PageSize
    [] page = 4 -> 2 * PageSize
    [] page = 5 -> 3 * PageSize
HasAddress(page) == page \in {0, 4, 5, 8}

BlockLength == Byte(pos) + 256 * Byte(pos + 1)
BlockPage == Byte(pos + 2)

\* The header of a block is in the file; the loop ends where it is not.
MoreBlocks == pc = "blocks" /\ CanRead(pos + 2)

\* The bytes of the block at the reader.
BlockBytes == IF BlockLength = RawLength THEN PageSize ELSE BlockLength

\* Behind it.
Behind == pos + 3 + BlockBytes

\* A page of another machine is skipped.
SkipBlock ==
  /\ MoreBlocks /\ ~HasAddress(BlockPage)
  /\ pos' = Behind
  /\ UNCHANGED <<file, pc, snapshot, tape, marks>>

\* A page that is not compressed.
RawBlock ==
  /\ MoreBlocks /\ HasAddress(BlockPage) /\ BlockLength = RawLength
  /\ IF CanRead(pos + 3 + PageSize - 1)
     THEN /\ mem' = Write(PageAddress(BlockPage),
                          [i \in 1..PageSize |-> Byte(pos + 2 + i)])
          /\ pos' = pos + 3 + PageSize
          /\ UNCHANGED pc
     ELSE Return("failed") /\ UNCHANGED <<mem, pos>>
  /\ UNCHANGED <<file, out, block, tape, marks>>

\* A compressed page begins.
OpenBlock ==
  /\ MoreBlocks /\ HasAddress(BlockPage) /\ BlockLength # RawLength
  /\ block' = [start |-> pos + 3, len |-> BlockLength,
               addr |-> PageAddress(BlockPage)]
  /\ out' = <<>>
  /\ pos' = pos + 3
  /\ pc' = "expand"
  /\ UNCHANGED <<file, mem, tape, marks>>

InBlock == pc = "expand" /\ pos - block.start < block.len

\* One turn of _z80_decompress_block.
Expand ==
  /\ InBlock
  /\ IF ~CanRead(pos) THEN Return("failed") /\ UNCHANGED <<out, pos>>
     ELSE IF IsRun(pos) THEN PushRun(pos) ELSE PushByte(pos)
  /\ UNCHANGED <<file, block, mem, tape, marks>>

\* A whole page came out.
IsPage == Len(out) = PageSize

\* The block is over and its page is written.
CloseBlock ==
  /\ pc = "expand" /\ ~InBlock
  /\ IF IsPage
     THEN mem' = Write(block.addr, out) /\ pc' = "blocks"
     ELSE Return("failed") /\ UNCHANGED mem
  /\ UNCHANGED <<file, pos, out, block, tape, marks>>

\* z80_load_v2_v3 behind its loop.
BlocksDone ==
  /\ pc = "blocks" /\ ~CanRead(pos + 2)
  /\ marks' = marks \cup EntryPoint(file.extpc)
  /\ Return("loaded")
  /\ UNCHANGED <<file, pos, snapshot, tape>>

-----------------------------------------------------------------------------
(* SNA snapshots                                                           *)

SnaParses ==
  /\ file.size \in {"48K", "128K", "128KExt"}
  /\ file.int \in {0, 4} /\ file.mode <= 2
  /\ file.border \in 0..7 \cup {\h71, \hC9}

\* Only the snapshot of 48K is loaded; its entry point is on the stack, which is
\* read through the address space.
SnaLoad ==
  /\ pc = "parse" /\ file.tag = "sna"
  /\ IF ~SnaParses THEN Return("rejected") /\ UNCHANGED <<mem, marks>>
     ELSE /\ Return("loaded")
          /\ IF file.size # "48K" THEN UNCHANGED <<mem, marks>>
             ELSE /\ mem' = Write(PageSize, file.bytes)
                  /\ marks' = marks \cup
                       IF file.sp \in DOMAIN mem' /\ file.sp + 1 \in DOMAIN mem'
                       THEN EntryPoint(mem'[file.sp] + 256 * mem'[file.sp + 1])
                       ELSE {}
  /\ UNCHANGED <<file, pos, out, block, tape>>

-----------------------------------------------------------------------------
(* TAP tapes                                                               *)

RamBase == \h4000
HeaderSize == 19
Program == 0
Code == 3

AlignUp(n, m) == ((n + m - 1) \div m) * m

Blocks == file.blocks

\* Where block k begins, and where the list ends.
Start(k) ==
  LET start[i \in 1..k] == IF i = 1 THEN 0 ELSE start[i - 1] + 2 + Blocks[i - 1].len
  IN  start[k]

\* The reader is at the end of the input.
AtEnd(k) == k > Len(Blocks) \/ Start(k) >= file.size

\* Length and flag of block k can be read.
BlockThere(k) == Start(k) + 3 <= file.size

\* The flag; of an empty block, the length behind it is taken for the flag.
Flag(k) ==
  IF Blocks[k].len = 0 /\ k < Len(Blocks) THEN Blocks[k + 1].len % 256
  ELSE Blocks[k].flag

IsHeader(k) == Flag(k) = 0

\* The payload of a block; a length below two wraps around to
\* nearly 2^64, with which the cursor is where it was.
Payload(k) == Blocks[k].len - 2
IsHuge(k) == Payload(k) < 0

Taken(k) == IF IsHeader(k) THEN HeaderSize ELSE Payload(k)

\* mutant: to no boundary.
Advanced_Unrounded(c, k) == c + Taken(k)

Advanced(c, k) == AlignUp(c + Taken(k), 16)

\* mutant: headers take nothing.
Counted_Headers(c, k) == IF IsHeader(k) THEN c ELSE AlignUp(c + Taken(k), 16)

\* The same sum in the first pass.
Counted(c, k) == AlignUp(c + Taken(k), 16)

\* _tap_compute_ram_size: the cursor over all blocks; 0 where it fails.
RamEnd ==
  LET end[k \in 1..(Len(Blocks) + 1)] ==
        IF k = 1 THEN RamBase ELSE Counted(end[k - 1], k - 1)
      n == CHOOSE k \in 1..(Len(Blocks) + 1) :
             AtEnd(k) /\ \A j \in 1..(k - 1) : ~AtEnd(j)
  IN  IF \A k \in 1..(n - 1) : BlockThere(k) THEN AlignUp(end[n], \h1000) ELSE 0

\* The first block of a tape.
TapParses ==
  /\ file.size >= 4
  /\ LET b == Blocks[1] IN
       /\ b.len # 0 /\ b.len + 2 <= file.size
       /\ IF b.flag = 0 THEN b.len = 19 /\ b.type <= 3 /\ b.sum = 0
          ELSE b.flag = 255

TapParse ==
  /\ pc = "parse" /\ file.tag = "tap"
  /\ IF ~TapParses THEN Return("rejected")
     ELSE IF RamEnd = 0 THEN Return("failed") ELSE pc' = "tape"
  /\ pos' = 1
  /\ UNCHANGED <<file, snapshot, tape, marks>>

\* To the next block.
NextBlock ==
  /\ cursor' = Advanced(cursor, pos)
  /\ pos' = pos + 1
  /\ UNCHANGED <<file, pc, snapshot>>

InTape == pc = "tape" /\ ~AtEnd(pos)

\* A header: it is kept for the next block.
TapHeader ==
  /\ InTape /\ BlockThere(pos) /\ IsHeader(pos)
  /\ Start(pos) + 3 + 18 <= file.size
  /\ header' = pos
  /\ NextBlock
  /\ UNCHANGED <<areas, marks>>

\* rd_map_input_n: the whole payload, or nothing.
MapInput ==
  areas' = areas \cup
    IF ~IsHuge(pos) /\ Payload(pos) > 0 /\ Start(pos) + 3 + Payload(pos) <= file.size
    THEN {[block |-> pos, from |-> cursor, to |-> cursor + Payload(pos)]}
    ELSE {}

HeaderType == IF header = 0 THEN 255 ELSE Blocks[header].type

Mark(kind) == [kind |-> kind, addr |-> cursor, block |-> header, line |-> 0]

\* zx_basic_attach_lines: a comment per line that is whole.
BasicLines ==
  LET lines == Blocks[pos].lines
      end[i \in 0..Len(lines)] == IF i = 0 THEN 0 ELSE end[i - 1] + 4 + lines[i]
  IN  {i \in 1..Len(lines) : end[i] <= Payload(pos)}

\* mutant: it is kept.
HeaderBehind_Kept == header

\* The header belongs to one block.
HeaderBehind == 0

\* The program that follows its header: all of it is read.
TapProgram ==
  /\ InTape /\ BlockThere(pos) /\ ~IsHeader(pos) /\ HeaderType = Program
  /\ MapInput
  /\ IF ~IsHuge(pos) /\ Start(pos) + 3 + Payload(pos) <= file.size
     THEN /\ marks' = marks \cup {Mark("name")}
                        \cup {[Mark("line") EXCEPT !.line = i] : i \in BasicLines}
          /\ header' = HeaderBehind
          /\ NextBlock
     ELSE /\ marks' = marks \cup {Mark("name")}
          /\ Return("failed")
          /\ UNCHANGED <<file, pos, snapshot, cursor, header>>

\* Code: the first is the entry point.
TapCode ==
  /\ InTape /\ BlockThere(pos) /\ ~IsHeader(pos) /\ HeaderType = Code
  /\ MapInput
  /\ LET entrySet == \E m \in marks : m.kind = "entry" IN
       marks' = marks \cup {Mark("comment"), Mark(IF entrySet THEN "function" ELSE "entry")}
  /\ header' = HeaderBehind
  /\ NextBlock

\* Anything else, and blocks without a header.
TapOther ==
  /\ InTape /\ BlockThere(pos) /\ ~IsHeader(pos) /\ HeaderType \notin {Program, Code}
  /\ MapInput
  /\ header' = HeaderBehind
  /\ NextBlock
  /\ UNCHANGED marks

\* A block that cannot be read.
TapTruncated ==
  /\ InTape
  /\ \/ ~BlockThere(pos)
     \/ IsHeader(pos) /\ Start(pos) + 3 + 18 > file.size
  /\ Return("failed")
  /\ UNCHANGED <<file, pos, snapshot, tape, marks>>

TapDone ==
  /\ pc = "tape" /\ AtEnd(pos)
  /\ Return("loaded")
  /\ UNCHANGED <<file, pos, snapshot, tape, marks>>

-----------------------------------------------------------------------------
Init ==
  /\ file \in Files
  /\ pc = "parse" /\ pos = 0
  /\ out = <<>> /\ mem = <<>>
  /\ block = [start |-> 0, len |-> 0, addr |-> 0]
  /\ cursor = RamBase /\ header = 0
  /\ areas = {} /\ marks = {}

Z80Load ==
  \/ Z80Parse \/ ExpandV1 \/ EndV1
  \/ SkipBlock \/ RawBlock \/ OpenBlock \/ Expand \/ CloseBlock \/ BlocksDone

TapLoad ==
  TapParse \/ TapHeader \/ TapProgram \/ TapCode \/ TapOther \/ TapTruncated \/ TapDone

Step == Z80Load \/ SnaLoad \/ TapLoad

Ended == pc \in {"loaded", "failed", "rejected"}

Next == Step \/ (Ended /\ UNCHANGED vars)

Spec == Init /\ [][Next]_vars

-----------------------------------------------------------------------------
(* What a load promises                                                    *)

\* What a program writes that saves the memory `saved', by address: pieces, one
\* behind the other, each with the number of its page, the place of its bytes
\* and, if they are compressed, the cuts between the tokens: where a token
\* begins and how many bytes are in front of it.  Version 1 has one piece for
\* the whole RAM, the others a header in front of each.
Pieces == file.pieces
Ahead == IF Version = 1 THEN 0 ELSE 3
Body == IF Version = 1 THEN BaseHeader ELSE BaseHeader + 2 + file.length
PieceEnd(k) == IF k = 0 THEN Body ELSE Pieces[k].to

IsKept(k) == Version = 1 \/ HasAddress(Pieces[k].page)
IsPacked(k) == Version = 1 \/ Pieces[k].cuts # <<>>
Base(k) == IF Version = 1 THEN PageSize ELSE PageAddress(Pieces[k].page)
Span == IF Version = 1 THEN 3 * PageSize ELSE PageSize
Area(k) == IF IsKept(k) THEN Base(k)..(Base(k) + Span - 1) ELSE {}

\* A byte for itself.  One that would begin a run with the byte behind it, if
\* that is of this piece, is written as a run.
IsSingle(k, c, d) ==
  /\ d.at = c.at + 1 /\ d.done = c.done + 1
  /\ Byte(c.at) = file.saved[Base(k) + c.done]
  /\ Byte(c.at) = ED /\ d.at < Pieces[k].to => Byte(d.at) # ED

IsRepeated(k, c, d) ==
  /\ Byte(c.at) = ED /\ Byte(c.at + 1) = ED /\ Byte(c.at + 2) > 0
  /\ d.at = c.at + 4 /\ d.done = c.done + Byte(c.at + 2)
  /\ \A i \in c.done..(d.done - 1) : Byte(c.at + 3) = file.saved[Base(k) + i]

\* The tokens of a piece make up its part of the memory.
IsCompressed(k) ==
  LET p == Pieces[k]
      n == Len(p.cuts)
  IN  /\ n > 0
      /\ p.cuts[1] = [at |-> p.from, done |-> 0]
      /\ p.cuts[n] = [at |-> p.to, done |-> Span]
      /\ \A j \in 1..n : p.cuts[j].at \in p.from..p.to /\ p.cuts[j].done \in 0..Span
      /\ \A j \in 1..(n - 1) : \/ IsSingle(k, p.cuts[j], p.cuts[j + 1])
                               \/ IsRepeated(k, p.cuts[j], p.cuts[j + 1])

IsCopied(k) ==
  \A i \in 0..(PageSize - 1) : Byte(Pieces[k].from + i) = file.saved[Base(k) + i]

HasHeader(k) ==
  LET p == Pieces[k]
      length == Byte(p.from - 3) + 256 * Byte(p.from - 2)
  IN  /\ Byte(p.from - 1) = p.page
      /\ IF IsPacked(k) THEN length = p.to - p.from /\ length # RawLength
         ELSE length = RawLength /\ p.to - p.from = PageSize

IsWritten ==
  /\ file.start <= Body
  /\ Version = 1 => Len(Pieces) = 1 /\ IsMarker(Pieces[1].to)
  /\ Version # 1 => PieceEnd(Len(Pieces)) = Size
  /\ \A k \in 1..Len(Pieces) :
       /\ Pieces[k].from = PieceEnd(k - 1) + Ahead
       /\ Pieces[k].from <= Pieces[k].to /\ Pieces[k].to <= Size
       /\ Version # 1 => HasHeader(k)
       /\ IsKept(k) => IF IsPacked(k) THEN IsCompressed(k) ELSE IsCopied(k)
  /\ DOMAIN file.saved = UNION {Area(k) : k \in 1..Len(Pieces)}

\* Where the loader looks for a piece other than it is written: the header of 55
\* bytes is read as one of 24, and an ED at the end of a piece is taken for the
\* beginning of a run if the length of the next piece begins with an ED.
IsMistaken ==
  \/ Version = 3 /\ file.length = 55
  \/ \E k \in 1..(Len(Pieces) - 1) :
       LET p == Pieces[k] IN
       /\ IsKept(k) /\ Len(p.cuts) > 1 /\ p.cuts[Len(p.cuts) - 1].at = p.to - 1
       /\ Byte(p.to - 1) = ED /\ Byte(p.to) = ED

\* A snapshot that a program of its format wrote is loaded, and the memory is
\* what was saved: runs, single EDs, EDs at the end of a page and zeros that
\* only begin like the end marker included; skipped pages do not shift those
\* behind them.
PagesRestored ==
  (file.tag = "z80" /\ Z80Parses /\ IsWritten /\ ~IsMistaken) =>
    /\ pc # "failed"
    /\ pc = "loaded" => /\ DOMAIN mem = DOMAIN file.saved
                        /\ \A x \in DOMAIN mem : mem[x] = file.saved[x]

\* The blocks of a tape are mapped one behind the other, on boundaries of 16
\* bytes, none over another.
BlocksApart ==
  /\ \A a, b \in areas : a.block < b.block => a.to <= b.from
  /\ \A a \in areas : a.from % 16 = 0

\* The pass that measures and the pass that maps agree on every block: the RAM
\* that the first one maps holds all that the second one puts there.
BlocksInRam ==
  \A a \in areas : RamBase <= a.from /\ a.to <= RamEnd

\* A header speaks for the block right behind it and for no other: what a block
\* becomes is decided by the header in front of it, one code block of a tape is
\* the entry point, and each of the others is a function.
HeadersDescribeNextBlock ==
  LET spoken == {k \in 2..Len(Blocks) : IsHeader(k - 1) /\ ~IsHeader(k)}
      done(type) == {k - 1 : k \in {j \in spoken : j < pos /\ Blocks[j - 1].type = type}}
      of(kinds) == {m.block : m \in {n \in marks : n.kind \in kinds}}
      entries == {m \in marks : m.kind = "entry"}
      code == {m \in marks : m.kind \in {"entry", "function"}}
  IN  file.tag = "tap" /\ pc \in {"tape", "loaded"} =>
        /\ of({"name"}) = done(Program)
        /\ of({"comment"}) = done(Code)
        /\ of({"entry", "function"}) = done(Code)
        /\ Cardinality(code) = Cardinality(done(Code))
        /\ Cardinality(entries) <= 1
        /\ \A m \in entries : \A h \in done(Code) : m.block <= h

=============================================================================
