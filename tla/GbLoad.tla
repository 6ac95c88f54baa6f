-------------------------------- MODULE GbLoad --------------------------------
(***************************************************************************)
(* The Game Boy loader: gb_parse accepts an image by its header, gb_load   *)
(* maps its banks and the memories of the console, then names what the     *)
(* symbol file beside the image names.                                     *)
(*                                                                         *)
(* An address is (bank << 16) | address on the bus.  Sizes and addresses   *)
(* are those of the code.                                                  *)
(***************************************************************************)
EXTENDS Naturals, Sequences

CONSTANTS
  Images     \* the files the loader may be given, with their symbol files

\* Lengths, banks and addresses are numbers.
ASSUME ImagesAssumption ==
  \A im \in Images :
    /\ im.length \in Nat
    /\ Len(im.symbols) \in Nat
    /\ \A k \in 1 .. Len(im.symbols) :
         im.symbols[k].bank \in Nat /\ im.symbols[k].addr \in Nat

MinRomSize == 336        \* GB_MIN_ROM_SIZE, 0x150

BankSize == 16384        \* GB_ROM_BANK_SIZE

Bus == 65536

\* GB_BANKED
Banked(bank, addr) == bank * Bus + addr

VARIABLES
  image,      \* the file
  pc,         \* "parse", "map", "symbols", then "loaded" or "rejected"
  todo,       \* the segments gb_load has still to map
  segments,   \* those it has mapped: [name, bank, base, size, rom, input]
  line,       \* the line of the symbol file at hand
  names,      \* rd_library_name: [at, name]
  dropped     \* history: the named symbols given up as not mapped

gbvars == <<image, pc, todo, segments, line, names, dropped>>
-------------------------------------------------------------------------------
(* The segments, in the order gb_load maps them.                           *)

Seg(name, bank, addr, size) ==
  [name |-> name, bank |-> bank, base |-> Banked(bank, addr), size |-> size,
   rom |-> FALSE, input |-> 0]

\* A bank of the ROM shows the file from an offset on.
RomSeg(bank, addr, in) ==
  [Seg("ROM", bank, addr, BankSize) EXCEPT !.rom = TRUE, !.input = in]

\* rd_align_up(length, GB_ROM_BANK_SIZE) / GB_ROM_BANK_SIZE
RomBanks_Down(im) == im.length \div BankSize           \* mutant: rounded down

RomBanks(im) == (im.length + BankSize - 1) \div BankSize

\* Bank 0 is always there; the others live in the window at 0x4000.
RomSegments(im) ==
  [n \in 1 .. IF RomBanks(im) > 1 THEN RomBanks(im) ELSE 1 |->
     IF n = 1 THEN RomSeg(0, 0, 0)
     ELSE RomSeg(n - 1, 16384, (n - 1) * BankSize)]

\* _gb_sram_banks
SramBanks(im) ==
  CASE im.ram_size = 2 -> 1
    [] im.ram_size = 3 -> 4
    [] im.ram_size = 4 -> 16
    [] im.ram_size = 5 -> 8
    [] OTHER           -> 0

Plain == << Seg("VRAM", 0, 32768, 8192),
            Seg("ERAM", 0, 40960, 8192),
            Seg("WRAM0", 0, 49152, 4096),
            Seg("WRAM", 0, 53248, 4096) >>

\* SRAM bank 0 is the plain one.
Sram_Vram(im) ==                                      \* mutant: another window
  [n \in 1 .. IF SramBanks(im) > 1 THEN SramBanks(im) - 1 ELSE 0 |->
     Seg("ERAM", n, 36864, 8192)]

Sram(im) ==
  [n \in 1 .. IF SramBanks(im) > 1 THEN SramBanks(im) - 1 ELSE 0 |->
     Seg("ERAM", n, 40960, 8192)]

\* A second bank of VRAM, banks 2 to 7 of WRAM.
Cgb(im) ==
  IF ~im.cgb THEN <<>>
  ELSE <<Seg("VRAM", 1, 32768, 8192)>> \o
       [n \in 1 .. 6 |-> Seg("WRAM", n + 1, 53248, 4096)]

Fixed == << Seg("OAM", 0, 65024, 160),
            Seg("IOPORTS", 0, 65280, 128),
            Seg("HRAM", 0, 65408, 128) >>

Layout(im) == RomSegments(im) \o Plain \o Sram(im) \o Cgb(im) \o Fixed
-------------------------------------------------------------------------------

\* gb_parse: the header is all there is to go by.
Accepted(im) ==
  /\ im.length >= MinRomSize
  /\ im.header_checksum
  /\ im.mapper
  /\ im.rom_size

Parse ==
  /\ pc = "parse"
  /\ IF Accepted(image)
       THEN pc' = "map" /\ todo' = Layout(image)
       ELSE pc' = "rejected" /\ UNCHANGED todo
  /\ UNCHANGED <<image, segments, line, names, dropped>>

MapSegment ==
  /\ pc = "map"
  /\ todo # <<>>
  /\ segments' = segments \cup {Head(todo)}
  /\ todo' = Tail(todo)
  /\ UNCHANGED <<image, pc, line, names, dropped>>

\* The entry point is set; the symbols are loaded unless the option is off or
\* there is no such file.
LayoutMapped ==
  /\ pc = "map"
  /\ todo = <<>>
  /\ pc' = IF image.load_sym THEN "symbols" ELSE "loaded"
  /\ UNCHANGED <<image, todo, segments, line, names, dropped>>

\* rd_is_address
IsAddress(a) == \E s \in segments : a >= s.base /\ a < s.base + s.size

\* _gb_sym_parse_line: a line without a second token, of the boot rom, whose
\* location is not a number, that is not on the bus or that is not a name.
Ignored(l) ==
  \/ l.tokens < 2
  \/ l.boot
  \/ ~l.hex
  \/ l.addr >= Bus
  \/ ~l.is_name

Location_Plain(l) == l.addr                \* mutant: the bank is forgotten

Location(l) == IF l.bank # 0 THEN Banked(l.bank, l.addr) ELSE l.addr

ReadLine ==
  /\ pc = "symbols"
  /\ line <= Len(image.symbols)
  /\ LET l == image.symbols[line]
         s == [at |-> Location(l), name |-> l.name]
     IN  IF Ignored(l) THEN UNCHANGED <<names, dropped>>
         ELSE IF IsAddress(s.at)
           THEN names' = names \cup {s} /\ UNCHANGED dropped
           ELSE dropped' = dropped \cup {l} /\ UNCHANGED names
  /\ line' = line + 1
  /\ UNCHANGED <<image, pc, todo, segments>>

SymbolsRead ==
  /\ pc = "symbols"
  /\ line > Len(image.symbols)
  /\ pc' = "loaded"
  /\ UNCHANGED <<image, todo, segments, line, names, dropped>>

GbInit ==
  /\ image \in Images
  /\ pc = "parse"
  /\ todo = <<>>
  /\ segments = {}
  /\ line = 1
  /\ names = {}
  /\ dropped = {}

Work == Parse \/ MapSegment \/ LayoutMapped \/ ReadLine \/ SymbolsRead

Terminating == pc \in {"loaded", "rejected"} /\ UNCHANGED gbvars

GbNext == Work \/ Terminating

GbSpec == GbInit /\ [][GbNext]_gbvars
-------------------------------------------------------------------------------
(* Correctness.                                                            *)

\* The byte of the image at this offset is in the segment.
Shows(s, at) == s.input <= at /\ at < s.input + s.size

\* When the segments are mapped, which is before the symbols are read, every byte
\* of the image is in exactly one segment of the ROM, and none of them starts
\* behind the image.
ImageMappedOnce ==
  pc = "symbols" =>
    LET rom == {s \in segments : s.rom} IN
    /\ \A s \in rom : s.input < image.length
    /\ \A at \in 0 .. image.length - 1 :
         \E s \in rom : Shows(s, at) /\ \A t \in rom : Shows(t, at) => t = s

\* "The low 16 bits are always the address the CPU puts on the bus": segments
\* that meet on the bus are banks of one window.
OnBus(s) == s.base % Bus

BanksShareWindows ==
  \A s, t \in segments :
    OnBus(s) < OnBus(t) + t.size /\ OnBus(t) < OnBus(s) + s.size =>
      s.name = t.name /\ OnBus(s) = OnBus(t) /\ s.size = t.size /\ (s # t => s.bank # t.bank)

\* A segment of this bank is there at this address on the bus.
Holds(s, bank, addr) ==
  s.bank = bank /\ OnBus(s) <= addr /\ addr < OnBus(s) + s.size

\* A symbol that gets a name gets it where the symbol file says it is, in a
\* segment of that bank; and a line that names something in a bank that is
\* mapped under its own number is not lost.
NamesAreInTheirBank ==
  /\ \A n \in names : \E k \in 1 .. line - 1 :
       LET l == image.symbols[k] IN
       /\ l.name = n.name /\ ~l.boot
       /\ n.at = Banked(l.bank, l.addr)
       /\ \E s \in segments : Holds(s, l.bank, l.addr)
  /\ \A k \in 1 .. line - 1 :
       LET l == image.symbols[k] IN
       ~Ignored(l) /\ (\E s \in segments : Holds(s, l.bank, l.addr))
         => [at |-> Banked(l.bank, l.addr), name |-> l.name] \in names

\* "Unmapped (a bank the image doesn't have, or a region we don't map)": a
\* symbol is dropped only if its bank is not there under any address.  Bank 1 of
\* WRAM is.
DroppedAreUnmapped ==
  \A l \in dropped :
    ~ \E s \in segments :
        \/ Holds(s, l.bank, l.addr)
        \/ s.name = "WRAM" /\ l.bank = 1 /\ Holds(s, 0, l.addr)
===============================================================================
