---------------------------- MODULE GameBoyProofs ----------------------------
(***************************************************************************)
(* Theorems about the two parts of the Game Boy: what gb_load maps         *)
(* (GbLoad), for images of any length, and what sm83_emulate knows (Sm83), *)
(* for bytes of any size and any instructions of the shapes the opcode     *)
(* tables have.                                                            *)
(*                                                                         *)
(* LayoutInv: a segment's window and bank determine all the rest of it; so *)
(* whatever meets on the bus is banks of one window, and a symbol gets its *)
(* name in its own bank.  That every byte of the image is mapped once      *)
(* needs to know too that nothing of the layout is lost on the way         *)
(* (Progress).                                                             *)
(*                                                                         *)
(* IInv says what the registers are, and that until lapsed what is known   *)
(* of them agrees with the CPU.  The claims of an instruction are made     *)
(* with what is known before it: the lemmas carry agreement through the    *)
(* operations on register files (Get, Set, Forget, Step, Address), and     *)
(* there is one lemma for each kind of instruction.                        *)
(***************************************************************************)
EXTENDS GameBoy, Integers, TLAPS

-----------------------------------------------------------------------------
(* What gb_load maps.                                                      *)

\* The banks of a window.
Ram(name, addr, size) == {Seg(name, bank, addr, size) : bank \in Nat}

\* A bank of the ROM shows the image at its number.
Rest == {RomSeg(bank, 16384, bank * BankSize) : bank \in Nat \ {0}}

Roms == {RomSeg(0, 0, 0)} \cup Rest

Rams ==
  UNION {
    Ram("VRAM", 32768, 8192), Ram("ERAM", 40960, 8192),
    Ram("WRAM0", 49152, 4096), Ram("WRAM", 53248, 4096),
    Ram("OAM", 65024, 160), Ram("IOPORTS", 65280, 128), Ram("HRAM", 65408, 128) }

Shaped == Roms \cup Rams

\* Where the symbol file puts the symbol of a line.
Entry(k) == [at |-> Banked(image.symbols[k].bank, image.symbols[k].addr),
             name |-> image.symbols[k].name]

\* The names given so far are those of the lines read, where the lines put them:
\* of all that name something mapped, and of no others.
Named ==
  /\ \A n \in names : \E k \in 1 .. line - 1 :
       n = Entry(k) /\ ~Ignored(image.symbols[k]) /\ IsAddress(n.at)
  /\ \A k \in 1 .. line - 1 :
       ~Ignored(image.symbols[k]) /\ IsAddress(Entry(k).at) => Entry(k) \in names

LayoutInv ==
  /\ image \in Images
  /\ line \in 1 .. Len(image.symbols) + 1
  /\ pc \in {"parse", "map"} => line = 1
  /\ todo \in Seq(Shaped)
  /\ segments \subseteq Shaped
  /\ Named

-----------------------------------------------------------------------------
\* The banks of the ROM are numbered by where they are in the image.
LEMMA RomShaped ==
  ASSUME NEW im, im.length \in Nat
  PROVE  RomSegments(im) \in Seq(Roms)
  <1> DEFINE banks == IF RomBanks(im) > 1 THEN RomBanks(im) ELSE 1
  <1>1. banks \in Nat
    BY DEF RomBanks, BankSize
  <1>2. RomSeg(0, 0, 0) \in Roms
    BY DEF Roms
  <1>3. ASSUME NEW n \in 1 .. banks, n # 1
        PROVE  RomSeg(n - 1, 16384, (n - 1) * BankSize) \in Roms
    <2>1. n - 1 \in Nat \ {0}
      BY <1>1, <1>3
    <2>2. RomSeg(n - 1, 16384, (n - 1) * BankSize) \in Rest
      BY <2>1 DEF Rest
    <2>. QED BY <2>2 DEF Roms
  <1>4. RomSegments(im) = [n \in 1 .. banks |->
                     IF n = 1 THEN RomSeg(0, 0, 0)
                     ELSE RomSeg(n - 1, 16384, (n - 1) * BankSize)]
    BY DEF RomSegments
  <1> HIDE DEF banks
  <1>5. RomSegments(im) \in [1 .. banks -> Roms]
    BY <1>2, <1>3, <1>4
  <1>. QED BY <1>1, <1>5

\* The memories of the console lie in their windows, banked or not.
LEMMA RamShaped ==
  ASSUME NEW im
  PROVE  /\ Plain \in Seq(Rams) /\ Fixed \in Seq(Rams)
         /\ Sram(im) \in Seq(Rams) /\ Cgb(im) \in Seq(Rams)
  <1>1. ASSUME NEW n \in Nat
        PROVE  /\ Seg("VRAM", n, 32768, 8192) \in Rams
               /\ Seg("ERAM", n, 40960, 8192) \in Rams
               /\ Seg("WRAM0", n, 49152, 4096) \in Rams
               /\ Seg("WRAM", n, 53248, 4096) \in Rams
               /\ Seg("OAM", n, 65024, 160) \in Rams
               /\ Seg("IOPORTS", n, 65280, 128) \in Rams
               /\ Seg("HRAM", n, 65408, 128) \in Rams
    BY DEF Rams, Ram
  <1>4. Plain \in Seq(Rams)
    BY <1>1 DEF Plain
  <1>5. Fixed \in Seq(Rams)
    BY <1>1 DEF Fixed
  <1>6. Sram(im) \in Seq(Rams)
    <2> DEFINE banks == IF SramBanks(im) > 1 THEN SramBanks(im) - 1 ELSE 0
    <2>1. banks \in Nat
      BY DEF SramBanks
    <2>2. Sram(im) = [n \in 1 .. banks |-> Seg("ERAM", n, 40960, 8192)]
      BY DEF Sram
    <2> HIDE DEF banks
    <2>3. Sram(im) \in [1 .. banks -> Rams]
      BY <1>1, <2>1, <2>2
    <2>. QED BY <2>1, <2>3
  <1>7. Cgb(im) \in Seq(Rams)
    <2> DEFINE wram == [n \in 1 .. 6 |-> Seg("WRAM", n + 1, 53248, 4096)]
    <2>1. wram \in [1 .. 6 -> Rams]
      BY <1>1
    <2>2. wram \in Seq(Rams)
      BY <2>1
    <2>3. <<Seg("VRAM", 1, 32768, 8192)>> \in Seq(Rams)
      BY <1>1
    <2>4. <<>> \in Seq(Rams)
      OBVIOUS
    <2> HIDE DEF wram
    <2>5. Cgb(im) = IF ~im.cgb THEN <<>> ELSE <<Seg("VRAM", 1, 32768, 8192)>> \o wram
      BY DEF Cgb, wram
    <2>. QED BY <2>2, <2>3, <2>4, <2>5
  <1>. QED BY <1>4, <1>5, <1>6, <1>7

\* All that gb_load maps is a bank in its window.
LEMMA LayoutShaped ==
  ASSUME NEW im, im.length \in Nat
  PROVE  /\ Layout(im) \in Seq(Shaped)
         /\ RomSegments(im) \in Seq(Shaped) /\ Plain \in Seq(Shaped) /\ Fixed \in Seq(Shaped)
         /\ Sram(im) \in Seq(Shaped) /\ Cgb(im) \in Seq(Shaped)
  <1>1. Seq(Roms) \subseteq Seq(Shaped) /\ Seq(Rams) \subseteq Seq(Shaped)
    BY DEF Shaped
  <1>2. /\ RomSegments(im) \in Seq(Shaped) /\ Plain \in Seq(Shaped) /\ Fixed \in Seq(Shaped)
        /\ Sram(im) \in Seq(Shaped) /\ Cgb(im) \in Seq(Shaped)
    BY <1>1, RomShaped, RamShaped
  <1>. QED BY <1>2 DEF Layout

-----------------------------------------------------------------------------
\* An accepted image gets a layout of banks in their windows.
LEMMA ParseIInv ==
  ASSUME LayoutInv, Parse
  PROVE  LayoutInv'
  <1>1. Layout(image) \in Seq(Shaped)
    BY LayoutShaped, ImagesAssumption DEF LayoutInv
  <1>2. Named'
    BY DEF LayoutInv, Named, Parse, IsAddress, Entry
  <1>. QED BY <1>1, <1>2 DEF LayoutInv, Parse

\* A segment mapped was one of the layout; no line has been read yet.
LEMMA MapSegmentIInv ==
  ASSUME LayoutInv, MapSegment
  PROVE  LayoutInv'
  <1>1. Head(todo) \in Shaped /\ Tail(todo) \in Seq(Shaped)
    BY DEF LayoutInv, MapSegment
  <1>2. line = 1 /\ line' = 1 /\ names' = names
    BY DEF LayoutInv, MapSegment
  <1>3. Named'
    BY <1>2 DEF LayoutInv, Named
  <1>. QED BY <1>1, <1>3 DEF LayoutInv, MapSegment

\* What a line says is a place of a bank.
LEMMA LineFacts ==
  ASSUME image \in Images, NEW k \in 1 .. Len(image.symbols)
  PROVE  LET l == image.symbols[k] IN
         /\ l.bank \in Nat /\ l.addr \in Nat
         /\ Location(l) = Banked(l.bank, l.addr)
         /\ Banked(l.bank, l.addr) = l.bank * Bus + l.addr
  <1>1. image.symbols[k].bank \in Nat /\ image.symbols[k].addr \in Nat
    BY ImagesAssumption
  <1>. QED BY <1>1 DEF Location, Banked, Bus

\* A line of the symbol file names what it locates, if that is mapped.
LEMMA ReadLineIInv ==
  ASSUME LayoutInv, ReadLine
  PROVE  LayoutInv'
  <1> DEFINE l == image.symbols[line]
  <1>1. /\ Len(image.symbols) \in Nat
        /\ line \in 1 .. Len(image.symbols) /\ line' = line + 1
        /\ pc' = pc /\ pc = "symbols" /\ UNCHANGED <<image, todo, segments>>
    BY ImagesAssumption DEF LayoutInv, ReadLine
  <1>2. Entry(line) = [at |-> Location(l), name |-> l.name]
    BY <1>1, LineFacts DEF Entry, LayoutInv
  <1>3. Entry(line).at = Location(l)
    BY <1>2
  <1>4. names' = IF ~Ignored(l) /\ IsAddress(Entry(line).at)
                   THEN names \cup {Entry(line)} ELSE names
    BY <1>2, <1>3 DEF ReadLine
  <1>6. \A k : Entry(k)' = Entry(k)
    BY <1>1 DEF Entry
  <1>7. \A a : IsAddress(a)' = IsAddress(a)
    BY <1>1 DEF IsAddress
  <1>8. \A k \in 1 .. line' - 1 : k \in 1 .. line - 1 \/ k = line
    BY <1>1
  <1>9. line \in 1 .. line' - 1 /\ \A k \in 1 .. line - 1 : k \in 1 .. line' - 1
    BY <1>1
  <1>10. ASSUME NEW n \in names'
         PROVE  \E k \in 1 .. line' - 1 :
                  n = Entry(k) /\ ~Ignored(image.symbols[k]) /\ IsAddress(n.at)
    <2>1. CASE n \in names
      BY <1>9, <2>1 DEF LayoutInv, Named
    <2>2. CASE n \notin names
      <3>1. n = Entry(line) /\ ~Ignored(l) /\ IsAddress(n.at)
        BY <1>4, <2>2
      <3>. QED BY <1>9, <3>1
    <2>. QED BY <2>1, <2>2
  <1>11. ASSUME NEW k \in 1 .. line' - 1, ~Ignored(image.symbols[k]), IsAddress(Entry(k).at)
         PROVE  Entry(k) \in names'
    BY <1>4, <1>8, <1>11 DEF LayoutInv, Named
  <1>12. Named'
    BY <1>1, <1>6, <1>7, <1>10, <1>11 DEF Named, Ignored
  <1>13. line' \in 1 .. Len(image'.symbols) + 1
    BY <1>1
  <1>. QED BY <1>1, <1>12, <1>13 DEF LayoutInv

\* Every segment mapped or still to be mapped is a bank in a window, and names
\* are given where the symbol file says.
THEOREM WindowsInvariant == GbSpec => []LayoutInv
  <1>1. GbInit => LayoutInv
    BY ImagesAssumption DEF GbInit, LayoutInv, Named
  <1>2. LayoutInv /\ [GbNext]_gbvars => LayoutInv'
    <2> SUFFICES ASSUME LayoutInv, [GbNext]_gbvars
                 PROVE  LayoutInv'
      OBVIOUS
    <2>1. CASE LayoutMapped
      BY <2>1 DEF LayoutInv, LayoutMapped, Named, IsAddress, Entry
    <2>2. CASE SymbolsRead
      BY <2>2 DEF LayoutInv, SymbolsRead, Named, IsAddress, Entry
    <2>3. CASE UNCHANGED gbvars
      BY <2>3 DEF LayoutInv, gbvars, Named, IsAddress, Entry
    <2>. QED BY <2>1, <2>2, <2>3, ParseIInv, MapSegmentIInv, ReadLineIInv
             DEF GbNext, Work, Terminating
  <1>. QED BY <1>1, <1>2, PTL DEF GbSpec

-----------------------------------------------------------------------------
\* What the fields of a segment are.
LEMMA RamFields ==
  ASSUME NEW name, NEW bank, NEW addr, NEW size
  PROVE  LET s == Seg(name, bank, addr, size) IN
         /\ s.name = name /\ s.bank = bank /\ s.base = bank * Bus + addr
         /\ s.size = size
  BY DEF Seg, Banked

\* What the fields of a bank of the ROM are.
LEMMA RomFields ==
  ASSUME NEW bank, NEW addr, NEW in
  PROVE  LET s == RomSeg(bank, addr, in) IN
         /\ s.name = "ROM" /\ s.bank = bank /\ s.base = bank * Bus + addr
         /\ s.size = 16384
  BY DEF RomSeg, Seg, Banked, BankSize

\* The bank of a segment of the console determines the rest of it.
LEMMA RamForm ==
  ASSUME NEW name, NEW addr, NEW size, NEW s \in Ram(name, addr, size)
  PROVE  s.bank \in Nat /\ s = Seg(name, s.bank, addr, size)
  BY RamFields DEF Ram

\* The bank of a segment determines the rest of it, within its window.
LEMMA Form ==
  ASSUME NEW s \in Shaped
  PROVE  /\ s.bank \in Nat
         /\ \/ s = RomSeg(0, 0, 0)
            \/ s.bank # 0 /\ s = RomSeg(s.bank, 16384, s.bank * BankSize)
            \/ s = Seg("VRAM", s.bank, 32768, 8192)
            \/ s = Seg("ERAM", s.bank, 40960, 8192)
            \/ s = Seg("WRAM0", s.bank, 49152, 4096)
            \/ s = Seg("WRAM", s.bank, 53248, 4096)
            \/ s = Seg("OAM", s.bank, 65024, 160)
            \/ s = Seg("IOPORTS", s.bank, 65280, 128)
            \/ s = Seg("HRAM", s.bank, 65408, 128)
  <1>1. CASE s \in {RomSeg(0, 0, 0)}
    BY <1>1, RomFields
  <1>2. CASE s \in Rest
    BY <1>2, RomFields DEF Rest
  <1>3. CASE s \in Ram("VRAM", 32768, 8192)
    BY <1>3, RamForm
  <1>4. CASE s \in Ram("ERAM", 40960, 8192)
    BY <1>4, RamForm
  <1>5. CASE s \in Ram("WRAM0", 49152, 4096)
    BY <1>5, RamForm
  <1>6. CASE s \in Ram("WRAM", 53248, 4096)
    BY <1>6, RamForm
  <1>7. CASE s \in Ram("OAM", 65024, 160)
    BY <1>7, RamForm
  <1>8. CASE s \in Ram("IOPORTS", 65280, 128)
    BY <1>8, RamForm
  <1>9. CASE s \in Ram("HRAM", 65408, 128)
    BY <1>9, RamForm
  <1>. QED BY <1>1, <1>2, <1>3, <1>4, <1>5, <1>6, <1>7, <1>8, <1>9
           DEF Shaped, Roms, Rams

\* Where a bank of a window is on the bus.
LEMMA LowOfBanked ==
  ASSUME NEW bank \in Nat, NEW addr \in 0 .. Bus - 1
  PROVE  (bank * Bus + addr) % Bus = addr /\ (bank * Bus + addr) \div Bus = bank
  <1> DEFINE a == bank * Bus + addr
             q == a \div Bus
             r == a % Bus
  <1>1. addr \in Nat /\ 0 <= addr /\ addr < 65536 /\ a = bank * 65536 + addr
    BY DEF Bus
  <1>2. a \in Nat
    BY <1>1
  <1> HIDE DEF a
  <1>3. q \in Nat /\ r \in Nat /\ a = q * 65536 + r /\ 0 <= r /\ r < 65536
    BY <1>2 DEF Bus
  <1> HIDE DEF q, r
  <1>4. bank = q /\ addr = r
    BY <1>1, <1>3
  <1>. QED BY <1>4 DEF q, r, a

\* Where each window is on the bus.
LEMMA LowFacts ==
  ASSUME NEW s \in Shaped
  PROVE  /\ s.bank \in Nat
         /\ s.base = s.bank * Bus + OnBus(s)
         /\ \/ s.name = "ROM" /\ OnBus(s) = 0 /\ s.size = 16384
            \/ s.name = "ROM" /\ OnBus(s) = 16384 /\ s.size = 16384
            \/ s.name = "VRAM" /\ OnBus(s) = 32768 /\ s.size = 8192
            \/ s.name = "ERAM" /\ OnBus(s) = 40960 /\ s.size = 8192
            \/ s.name = "WRAM0" /\ OnBus(s) = 49152 /\ s.size = 4096
            \/ s.name = "WRAM" /\ OnBus(s) = 53248 /\ s.size = 4096
            \/ s.name = "OAM" /\ OnBus(s) = 65024 /\ s.size = 160
            \/ s.name = "IOPORTS" /\ OnBus(s) = 65280 /\ s.size = 128
            \/ s.name = "HRAM" /\ OnBus(s) = 65408 /\ s.size = 128
  <1>1. ASSUME NEW addr \in 0 .. Bus - 1, s.base = s.bank * Bus + addr
        PROVE  OnBus(s) = addr
    BY <1>1, Form, LowOfBanked DEF OnBus
  <1>2. \A addr \in {0, 16384, 32768, 40960, 49152, 53248, 65024, 65280, 65408} : addr \in 0 .. Bus - 1
    BY DEF Bus
  <1>3. CASE s = RomSeg(0, 0, 0)
    BY <1>1, <1>2, <1>3, Form, RomFields
  <1>4. CASE s.bank # 0 /\ s = RomSeg(s.bank, 16384, s.bank * BankSize)
    BY <1>1, <1>2, <1>4, Form, RomFields
  <1>5. CASE s = Seg("VRAM", s.bank, 32768, 8192)
    BY <1>1, <1>2, <1>5, Form, RamFields
  <1>6. CASE s = Seg("ERAM", s.bank, 40960, 8192)
    BY <1>1, <1>2, <1>6, Form, RamFields
  <1>7. CASE s = Seg("WRAM0", s.bank, 49152, 4096)
    BY <1>1, <1>2, <1>7, Form, RamFields
  <1>8. CASE s = Seg("WRAM", s.bank, 53248, 4096)
    BY <1>1, <1>2, <1>8, Form, RamFields
  <1>9. CASE s = Seg("OAM", s.bank, 65024, 160)
    BY <1>1, <1>2, <1>9, Form, RamFields
  <1>10. CASE s = Seg("IOPORTS", s.bank, 65280, 128)
    BY <1>1, <1>2, <1>10, Form, RamFields
  <1>11. CASE s = Seg("HRAM", s.bank, 65408, 128)
    BY <1>1, <1>2, <1>11, Form, RamFields
  <1>. QED BY Form, <1>3, <1>4, <1>5, <1>6, <1>7, <1>8, <1>9, <1>10, <1>11

\* Two banks of one number in one window are one segment.
LEMMA BankDetermines ==
  ASSUME NEW s \in Shaped, NEW t \in Shaped,
         s.name = t.name, s.bank = t.bank
  PROVE  s = t
  BY Form, RomFields, RamFields

\* "The low 16 bits are always the address the CPU puts on the bus" (loader.h):
\* segments that meet there are different banks of one window, for an image of
\* any length.
THEOREM WindowsAreShared == GbSpec => []BanksShareWindows
  <1>1. LayoutInv => BanksShareWindows
    <2> SUFFICES ASSUME LayoutInv, NEW s \in segments, NEW t \in segments,
                        OnBus(s) < OnBus(t) + t.size, OnBus(t) < OnBus(s) + s.size
                 PROVE  /\ s.name = t.name /\ OnBus(s) = OnBus(t) /\ s.size = t.size
                        /\ s # t => s.bank # t.bank
      BY DEF BanksShareWindows
    <2>1. s \in Shaped /\ t \in Shaped
      BY DEF LayoutInv
    <2>2. s.name = t.name /\ OnBus(s) = OnBus(t) /\ s.size = t.size
      BY <2>1, LowFacts
    <2>. QED BY <2>1, <2>2, BankDetermines
  <1>. QED BY <1>1, WindowsInvariant, PTL

\* A place of a bank is mapped exactly if a segment of that bank holds it.
LEMMA MappedIsHeld ==
  ASSUME LayoutInv, NEW k \in 1 .. line - 1, image.symbols[k].addr < Bus
  PROVE  IsAddress(Entry(k).at)
           <=> \E s \in segments : Holds(s, image.symbols[k].bank, image.symbols[k].addr)
  <1> DEFINE bank == image.symbols[k].bank
             addr == image.symbols[k].addr
  <1>1. k \in 1 .. Len(image.symbols)
    BY ImagesAssumption DEF LayoutInv
  <1>2. /\ bank \in Nat /\ addr \in Nat /\ addr < 65536
        /\ Entry(k).at = bank * 65536 + addr
    BY <1>1, LineFacts DEF LayoutInv, Entry, Bus
  <1> HIDE DEF bank, addr
  <1>3. ASSUME NEW s \in segments
        PROVE  (Entry(k).at >= s.base /\ Entry(k).at < s.base + s.size)
                 <=> Holds(s, bank, addr)
    <2>1. s \in Shaped
      BY DEF LayoutInv
    <2>2. /\ s.bank \in Nat /\ s.base = s.bank * 65536 + OnBus(s)
          /\ OnBus(s) \in Nat /\ s.size \in Nat /\ OnBus(s) + s.size <= 65536
          /\ s.size > 0
      BY <2>1, LowFacts DEF Bus
    <2> DEFINE b == s.bank
               o == OnBus(s)
               z == s.size
               a == Entry(k).at
    <2>3. /\ b \in Nat /\ o \in Nat /\ z \in Nat /\ o + z <= 65536
          /\ a = bank * 65536 + addr /\ s.base = b * 65536 + o
      BY <1>2, <2>2
    <2> HIDE DEF b, o, z, a
    <2>4. (a >= b * 65536 + o /\ a < b * 65536 + o + z)
            <=> (b = bank /\ o <= addr /\ addr < o + z)
      BY <1>2, <2>3
    <2>. QED BY <2>3, <2>4 DEF Holds, b, o, z, a
  <1>. QED BY <1>3 DEF IsAddress, bank, addr

\* A symbol that gets a name gets it where the symbol file says, in a bank that is
\* there, and one of a bank mapped under its own number is not lost, whatever the
\* symbol file says (gb_sym_load).
THEOREM NamesKeepTheirBank == GbSpec => []NamesAreInTheirBank
  <1>1. LayoutInv => NamesAreInTheirBank
    <2> SUFFICES ASSUME LayoutInv
                 PROVE  NamesAreInTheirBank
      OBVIOUS
    <2>1. ASSUME NEW n \in names
          PROVE  \E k \in 1 .. line - 1 :
                   LET l == image.symbols[k] IN
                   /\ l.name = n.name /\ ~l.boot /\ n.at = Banked(l.bank, l.addr)
                   /\ \E s \in segments : Holds(s, l.bank, l.addr)
      <3>1. PICK k \in 1 .. line - 1 :
              n = Entry(k) /\ ~Ignored(image.symbols[k]) /\ IsAddress(n.at)
        BY DEF LayoutInv, Named
      <3>2. ~image.symbols[k].boot /\ image.symbols[k].addr < Bus
        <4>1. k \in 1 .. Len(image.symbols)
          BY ImagesAssumption DEF LayoutInv
        <4>2. image.symbols[k].addr \in Nat
          BY <4>1, LineFacts DEF LayoutInv
        <4>3. ~image.symbols[k].boot /\ ~(image.symbols[k].addr >= Bus)
          BY <3>1, Zenon DEF Ignored
        <4>. QED BY <4>2, <4>3 DEF Bus
      <3>3. \E s \in segments : Holds(s, image.symbols[k].bank, image.symbols[k].addr)
        BY <3>1, <3>2, MappedIsHeld
      <3>4. n.name = image.symbols[k].name
            /\ n.at = Banked(image.symbols[k].bank, image.symbols[k].addr)
        BY <3>1 DEF Entry
      <3>. QED BY <3>2, <3>3, <3>4
    <2>2. ASSUME NEW k \in 1 .. line - 1, ~Ignored(image.symbols[k]),
                 \E s \in segments : Holds(s, image.symbols[k].bank, image.symbols[k].addr)
          PROVE  Entry(k) \in names
      <3>1. k \in 1 .. Len(image.symbols)
        BY ImagesAssumption DEF LayoutInv
      <3>2. image.symbols[k].addr < Bus
        BY <2>2, <3>1, LineFacts DEF LayoutInv, Ignored, Bus
      <3>3. IsAddress(Entry(k).at)
        BY <2>2, <3>2, MappedIsHeld
      <3>. QED BY <2>2, <3>3 DEF LayoutInv, Named
    <2>. QED BY <2>1, <2>2 DEF NamesAreInTheirBank, Entry
  <1>. QED BY <1>1, WindowsInvariant, PTL

-----------------------------------------------------------------------------
(* Every byte of the image is mapped once.                                 *)

Elements(q) == {q[i] : i \in 1 .. Len(q)}

\* A concatenation has the elements of both sequences.
LEMMA ElementsOfConcat ==
  ASSUME NEW S, NEW q \in Seq(S), NEW r \in Seq(S)
  PROVE  Elements(q \o r) = Elements(q) \cup Elements(r)
  <1>1. Len(q) \in Nat /\ Len(r) \in Nat /\ Len(q \o r) = Len(q) + Len(r)
    OBVIOUS
  <1>2. ASSUME NEW i \in 1 .. Len(q \o r)
        PROVE  (q \o r)[i] \in Elements(q) \cup Elements(r)
    <2>1. CASE i <= Len(q)
      BY <1>1, <2>1 DEF Elements
    <2>2. CASE i > Len(q)
      <3>1. i - Len(q) \in 1 .. Len(r) /\ (q \o r)[i] = r[i - Len(q)]
        BY <1>1, <2>2
      <3>. QED BY <3>1 DEF Elements
    <2>. QED BY <1>1, <2>1, <2>2
  <1>3. ASSUME NEW i \in 1 .. Len(q)
        PROVE  q[i] \in Elements(q \o r)
    <2>1. i \in 1 .. Len(q \o r) /\ (q \o r)[i] = q[i]
      BY <1>1
    <2>. QED BY <2>1 DEF Elements
  <1>4. ASSUME NEW i \in 1 .. Len(r)
        PROVE  r[i] \in Elements(q \o r)
    <2>1. Len(q) + i \in 1 .. Len(q \o r) /\ (q \o r)[Len(q) + i] = r[i]
      BY <1>1
    <2>. QED BY <2>1 DEF Elements
  <1>5. Elements(q \o r) \subseteq Elements(q) \cup Elements(r)
    BY <1>2 DEF Elements
  <1>6. Elements(q) \cup Elements(r) \subseteq Elements(q \o r)
    BY <1>3, <1>4 DEF Elements
  <1>. QED BY <1>5, <1>6

\* A sequence has its head and the elements of its tail.
LEMMA ElementsOfTail ==
  ASSUME NEW S, NEW q \in Seq(S), q # <<>>
  PROVE  Elements(q) = {Head(q)} \cup Elements(Tail(q))
  <1>1. /\ Len(q) \in Nat \ {0} /\ Head(q) = q[1] /\ Len(Tail(q)) = Len(q) - 1
        /\ \A i \in 1 .. Len(q) - 1 : Tail(q)[i] = q[i + 1]
    OBVIOUS
  <1>2. ASSUME NEW i \in 1 .. Len(q)
        PROVE  q[i] \in {Head(q)} \cup Elements(Tail(q))
    <2>1. CASE i = 1
      BY <1>1, <2>1
    <2>2. CASE i # 1
      <3>1. i - 1 \in 1 .. Len(Tail(q)) /\ Tail(q)[i - 1] = q[i]
        BY <1>1, <2>2
      <3>. QED BY <3>1 DEF Elements
    <2>. QED BY <2>1, <2>2
  <1>3. ASSUME NEW i \in 1 .. Len(Tail(q))
        PROVE  Tail(q)[i] \in Elements(q)
    <2>1. i + 1 \in 1 .. Len(q) /\ Tail(q)[i] = q[i + 1]
      BY <1>1
    <2>. QED BY <2>1 DEF Elements
  <1>4. Head(q) \in Elements(q)
    BY <1>1 DEF Elements
  <1>5. Elements(q) \subseteq {Head(q)} \cup Elements(Tail(q))
    BY <1>2 DEF Elements
  <1>6. Elements(Tail(q)) \subseteq Elements(q)
    BY <1>3 DEF Elements
  <1>. QED BY <1>4, <1>5, <1>6

\* What is mapped and what is still to be mapped make up the layout.
Progress ==
  /\ pc \in {"parse", "rejected"} => segments = {}
  /\ pc \in {"map", "symbols", "loaded"} =>
       /\ image.length >= MinRomSize
       /\ segments \cup Elements(todo) = Elements(Layout(image))
  /\ pc \in {"symbols", "loaded"} => todo = <<>>
  /\ pc \in {"parse", "map", "symbols", "loaded", "rejected"}

\* Every step keeps what is mapped and what is to be mapped together.
LEMMA ProgressKept ==
  ASSUME LayoutInv, Progress, [GbNext]_gbvars
  PROVE  Progress'
  <1>1. CASE Parse
    BY <1>1 DEF Parse, Progress, Accepted
  <1>2. CASE MapSegment
    <2>1. todo \in Seq(Shaped) /\ todo # <<>>
      BY <1>2 DEF LayoutInv, MapSegment
    <2>2. segments' \cup Elements(todo') = segments \cup Elements(todo)
      BY <1>2, <2>1, ElementsOfTail DEF MapSegment
    <2>. QED BY <1>2, <2>2 DEF MapSegment, Progress
  <1>3. CASE LayoutMapped
    BY <1>3 DEF LayoutMapped, Progress
  <1>4. CASE ReadLine
    BY <1>4 DEF ReadLine, Progress
  <1>5. CASE SymbolsRead
    BY <1>5 DEF SymbolsRead, Progress
  <1>6. CASE UNCHANGED gbvars
    BY <1>6 DEF gbvars, Progress
  <1>. QED BY <1>1, <1>2, <1>3, <1>4, <1>5, <1>6 DEF GbNext, Work, Terminating

\* A bank of the ROM shows the input it was made for.
LEMMA RomInput ==
  ASSUME NEW bank, NEW addr, NEW in
  PROVE  RomSeg(bank, addr, in).input = in /\ RomSeg(bank, addr, in).rom
  BY DEF RomSeg, Seg

Banks(im) == IF RomBanks(im) > 1 THEN RomBanks(im) ELSE 1

\* The segments of the ROM are the banks of the image.
LEMMA RomElements ==
  ASSUME NEW im, im.length \in Nat
  PROVE  {s \in Elements(Layout(im)) : s.rom} = Elements(RomSegments(im))
  <1>1. Elements(Layout(im)) =
          Elements(RomSegments(im)) \cup Elements(Plain) \cup Elements(Sram(im))
            \cup Elements(Cgb(im)) \cup Elements(Fixed)
    <2> DEFINE two == RomSegments(im) \o Plain
               three == two \o Sram(im)
               four == three \o Cgb(im)
    <2>1. two \in Seq(Shaped) /\ Elements(two) = Elements(RomSegments(im)) \cup Elements(Plain)
      BY LayoutShaped, ElementsOfConcat
    <2> HIDE DEF two
    <2>2. three \in Seq(Shaped) /\ Elements(three) = Elements(two) \cup Elements(Sram(im))
      BY <2>1, LayoutShaped, ElementsOfConcat
    <2> HIDE DEF three
    <2>3. four \in Seq(Shaped) /\ Elements(four) = Elements(three) \cup Elements(Cgb(im))
      BY <2>2, LayoutShaped, ElementsOfConcat
    <2> HIDE DEF four
    <2>4. Elements(four \o Fixed) = Elements(four) \cup Elements(Fixed)
      BY <2>3, LayoutShaped, ElementsOfConcat
    <2>5. Layout(im) = four \o Fixed
      BY DEF Layout, two, three, four
    <2>. QED BY <2>1, <2>2, <2>3, <2>4, <2>5
  <1>2. ASSUME NEW q \in Seq(Rams), NEW s \in Elements(q)
        PROVE  ~s.rom
    <2>1. s \in Rams
      BY <1>2 DEF Elements
    <2>2. PICK name, bank, addr, size : s = Seg(name, bank, addr, size)
      BY <2>1 DEF Rams, Ram
    <2>3. Seg(name, bank, addr, size).rom = FALSE
      BY DEF Seg
    <2>. QED BY <2>2, <2>3
  <1>3. ASSUME NEW s \in Elements(RomSegments(im))
        PROVE  s.rom
    <2>1. s \in Roms
      BY RomShaped DEF Elements
    <2>2. PICK bank, addr, in : s = RomSeg(bank, addr, in)
      BY <2>1 DEF Roms, Rest
    <2>. QED BY <2>2, RomInput
  <1>. QED BY <1>1, <1>2, <1>3, RamShaped

\* Which bank shows what.
LEMMA RomBank ==
  ASSUME NEW im, im.length \in Nat
  PROVE  /\ Banks(im) \in Nat
         /\ Len(RomSegments(im)) = Banks(im)
         /\ \A n \in 1 .. Banks(im) :
              RomSegments(im)[n].input = (n - 1) * 16384 /\ RomSegments(im)[n].size = 16384
  <1>1. Banks(im) \in Nat
    BY DEF Banks, RomBanks, BankSize
  <1>2. RomSegments(im) = [n \in 1 .. Banks(im) |->
                     IF n = 1 THEN RomSeg(0, 0, 0)
                     ELSE RomSeg(n - 1, 16384, (n - 1) * BankSize)]
    BY DEF RomSegments, Banks
  <1>3. ASSUME NEW n \in 1 .. Banks(im)
        PROVE  RomSegments(im)[n].input = (n - 1) * 16384 /\ RomSegments(im)[n].size = 16384
    <2>1. CASE n = 1
      BY <1>2, <2>1, RomInput, RomFields
    <2>2. CASE n # 1
      BY <1>2, <2>2, RomInput, RomFields DEF BankSize
    <2>. QED BY <2>1, <2>2
  <1>. QED BY <1>1, <1>2, <1>3

\* As many banks as the image fills, the last one perhaps in part.
LEMMA BanksFit ==
  ASSUME NEW im, im.length \in Nat, im.length > 0
  PROVE  /\ Banks(im) \in Nat \ {0}
         /\ (Banks(im) - 1) * 16384 < im.length
         /\ im.length <= Banks(im) * 16384
  BY DEF Banks, RomBanks, BankSize

\* Once gb_load is done every byte of the image is in exactly one bank of the ROM
\* and no bank starts behind the image, for an image of any length.
THEOREM ImageIsMappedOnce == GbSpec => []ImageMappedOnce
  <1>1. GbInit => Progress
    BY DEF GbInit, Progress
  <1>2. LayoutInv /\ Progress => ImageMappedOnce
    <2> SUFFICES ASSUME LayoutInv, Progress, pc = "symbols"
                 PROVE  ImageMappedOnce
      BY DEF ImageMappedOnce
    <2> DEFINE rom == {s \in segments : s.rom}
               banks == Banks(image)
               bank(n) == RomSegments(image)[n]
    <2>1. image.length \in Nat /\ image.length >= 336
      BY ImagesAssumption DEF LayoutInv, Progress, MinRomSize
    <2>2. Elements(todo) = {}
      BY DEF Progress, Elements
    <2>3. rom = {bank(n) : n \in 1 .. banks}
      <3>1. segments = Elements(Layout(image))
        BY <2>2 DEF Progress
      <3>2. rom = Elements(RomSegments(image))
        BY <2>1, <3>1, RomElements
      <3>3. Len(RomSegments(image)) = banks
        BY <2>1, RomBank
      <3>. QED BY <3>2, <3>3, Zenon DEF Elements
    <2>4. \A n \in 1 .. banks : bank(n).input = (n - 1) * 16384 /\ bank(n).size = 16384
      BY <2>1, RomBank
    <2>5. /\ banks \in Nat \ {0} /\ (banks - 1) * 16384 < image.length
          /\ image.length <= banks * 16384
      BY <2>1, BanksFit
    <2> HIDE DEF rom, banks, bank
    <2>6. \A s \in rom : s.input < image.length
      BY <2>1, <2>3, <2>4, <2>5
    <2>7. ASSUME NEW at \in 0 .. image.length - 1
          PROVE  \E s \in rom : Shows(s, at) /\ \A t \in rom : Shows(t, at) => t = s
      <3> DEFINE n == at \div 16384 + 1
      <3>1. n \in 1 .. banks /\ (n - 1) * 16384 <= at /\ at < (n - 1) * 16384 + 16384
        BY <2>1, <2>5
      <3> HIDE DEF n
      <3>2. bank(n) \in rom /\ Shows(bank(n), at)
        BY <2>3, <2>4, <3>1 DEF Shows
      <3>3. ASSUME NEW m \in 1 .. banks, Shows(bank(m), at)
            PROVE  m = n
        BY <2>1, <2>4, <2>5, <3>1, <3>3 DEF Shows
      <3>4. \A t \in rom : Shows(t, at) => t = bank(n)
        BY <2>3, <3>3
      <3>. QED BY <3>2, <3>4
    <2>. QED BY <2>6, <2>7 DEF ImageMappedOnce, rom
  <1>. QED BY <1>1, <1>2, WindowsInvariant, ProgressKept, PTL DEF GbSpec

-----------------------------------------------------------------------------
(* What sm83_emulate knows.                                                *)

File == Halves \cup {"sp"}

\* The registers of the CPU: halves are bytes.
IsCpu(c) == c \in [File -> Words] /\ \A r \in Halves : c[r] \in Bytes

\* k knows of c nothing that is not so.
Agree(k, c) ==
  /\ k \in [File -> Words \cup {Unknown}]
  /\ \A r \in File : k[r] \in {Unknown, c[r]}

IInv ==
  /\ IsCpu(cpu)
  /\ ~lapsed => Agree(known, cpu) /\ ClaimsAreDeeds /\ HandlersAreEnabled

\* The instructions that occur, one by one.
IsInstruction(in) ==
  /\ in.dst \in Operand /\ in.src \in Operand /\ in.offset \in Nat
  /\ \A op \in {in.dst, in.src} : op.kind = "displ" => op.reg \in {"c"} \cup Pairs
  /\ ~(IsMemory(in.dst) /\ IsMemory(in.src))
  /\ in.id = "ld" => in.dst.kind = "reg" \/ IsMemory(in.dst)
  /\ in.id \in Arithmetics => Target(in).kind = "reg" \/ IsMemory(Target(in))
  /\ in.id \in {"bits"} \cup ImplicitA => ~IsMemory(in.dst)
  /\ in.id = "jphl" => "hl" \in Pairs

-------------------------------------------------------------------------------
(* Numbers.                                                                *)

\* Unknown is no word, and bytes are words.
LEMMA Values ==
  /\ Byte \in Nat /\ Byte > 1
  /\ Bytes \subseteq Words /\ Words \subseteq Nat /\ Unknown \notin Words
  /\ 0 \in Bytes /\ 1 \in Bytes
<1>1. Byte \in Nat /\ Byte > 1
  BY SizeAssumption
<1>2. Byte * Byte \in Nat /\ Byte * Byte >= Byte
  BY <1>1
<1>3. Bytes \subseteq Words /\ Words \subseteq Nat
  BY <1>1, <1>2 DEF Bytes, Words
<1>4. 0 \in Bytes /\ 1 \in Bytes
  BY <1>1 DEF Bytes
<1> QED
  BY <1>1, <1>3, <1>4, NamesAssumption

\* The halves of a word are bytes (_sm83_step_hl, rd_set_regval_id).
LEMMA HalvesOfWord ==
  ASSUME NEW w \in Words
  PROVE  /\ w \div Byte \in Bytes
         /\ w % Byte \in Bytes
         /\ (w \div Byte) * Byte + (w % Byte) = w
<1> DEFINE q == w \div Byte
           r == w % Byte
<1>1. Byte \in Nat /\ Byte > 1 /\ w \in Nat
  BY Values
<1>2. w < Byte * Byte
  <2> DEFINE s == Byte * Byte
  <2>1. s \in Nat /\ w \in 0 .. s - 1
    BY <1>1 DEF Words
  <2> HIDE DEF s
  <2>2. w < s
    BY <2>1, <1>1
  <2> QED
    BY <2>2 DEF s
<1>3. q \in Int /\ r \in Nat /\ r < Byte /\ w = q * Byte + r
  BY <1>1
<1> HIDE DEF q, r
<1>4. q >= 0
  <2> SUFFICES ASSUME q <= 0 - 1 PROVE FALSE
    BY <1>3
  <2>1. q * Byte <= (0 - 1) * Byte
    BY <1>1, <1>3
  <2> QED
    BY <2>1, <1>1, <1>3
<1>5. q < Byte
  <2> SUFFICES ASSUME q >= Byte PROVE FALSE
    BY <1>1, <1>3
  <2>1. q * Byte >= Byte * Byte
    BY <1>1, <1>3
  <2> QED
    BY <2>1, <1>1, <1>2, <1>3
<1>6. q \in Bytes /\ r \in Bytes
  BY <1>1, <1>3, <1>4, <1>5 DEF Bytes
<1> QED
  BY <1>3, <1>6 DEF q, r

\* A number cut to the size of a register is a word, or a byte.
LEMMA Cut ==
  ASSUME NEW v \in Nat, NEW r
  PROVE  /\ v % Size(r) \in Words
         /\ r \notin Pairs \cup {"sp"} => v % Size(r) \in Bytes
<1>1. Byte \in Nat /\ Byte > 1 /\ Bytes \subseteq Words
  BY Values
<1>2. Byte * Byte \in Nat /\ Byte * Byte > 0
  BY <1>1
<1>3. v % Byte \in Bytes
  BY <1>1 DEF Bytes
<1> DEFINE s == Byte * Byte
<1>4. s \in Nat /\ s > 0 /\ Words = 0 .. s - 1
  BY <1>2 DEF Words
<1> HIDE DEF s
<1>5. v % s \in Words
  BY <1>4
<1> QED
  BY <1>1, <1>3, <1>5 DEF Size, s

\* The high byte and the low byte make a word.
LEMMA Joined ==
  ASSUME NEW h \in Bytes, NEW l \in Bytes
  PROVE  h * Byte + l \in Words
<1>1. Byte \in Nat /\ Byte > 1
  BY Values
<1>2. h \in Nat /\ l \in Nat /\ h <= Byte - 1 /\ l <= Byte - 1
  BY <1>1 DEF Bytes
<1>3. h * Byte <= (Byte - 1) * Byte
  BY <1>1, <1>2
<1>4. (Byte - 1) * Byte = Byte * Byte - Byte
  BY <1>1
<1>5. h * Byte \in Nat /\ Byte * Byte \in Nat
  BY <1>1, <1>2
<1> QED
  BY <1>1, <1>2, <1>3, <1>4, <1>5 DEF Words

-------------------------------------------------------------------------------
(* Register files.                                                         *)

\* The two halves of a pair are registers of the file, and the pair is none.
LEMMA PairNames ==
  ASSUME NEW p \in Pairs
  PROVE  /\ High(p) \in Halves /\ Low(p) \in Halves /\ High(p) # Low(p)
         /\ p \notin File /\ High(p) # "sp" /\ Low(p) # "sp"
<1>1. p \in {"bc", "de", "hl"} /\ Pairs \subseteq {"bc", "de", "hl"}
  BY NamesAssumption
<1>2. /\ High("bc") = "b" /\ High("de") = "d" /\ High("hl") = "h"
      /\ Low("bc") = "c" /\ Low("de") = "e" /\ Low("hl") = "l"
  BY DEF High, Low
<1>3. /\ High(p) \in {"b", "d", "h"} /\ Low(p) \in {"c", "e", "l"}
      /\ \A x \in Pairs : High(x) \in {"b", "d", "h"} /\ Low(x) \in {"c", "e", "l"}
  BY <1>1, <1>2
<1>4. High(p) \in Halves /\ Low(p) \in Halves
  BY DEF Halves
<1>5. p \notin File
  BY <1>1, <1>3 DEF File, Halves
<1> QED
  BY <1>3, <1>4, <1>5

\* A register is a pair or a register of the file, and sp is no half.
LEMMA RegisterKinds ==
  /\ \A r \in Registers : r \in Pairs \/ (r \in File /\ r \notin Pairs)
  /\ "sp" \notin Halves /\ "sp" \notin Pairs
  /\ \A r \in Halves : r \notin Pairs
  /\ "a" \in File /\ "c" \in File /\ "a" \in Halves /\ "c" \in Halves
<1>1. Pairs \subseteq {"bc", "de", "hl"}
  BY NamesAssumption
<1>2. \A p \in Pairs : p \notin File /\ High(p) # "sp" /\ Low(p) # "sp"
  BY PairNames
<1> QED
  BY <1>1, <1>2 DEF Registers, File, Halves

\* What the CPU has in a register is a word.
LEMMA GetOfCpu ==
  ASSUME NEW c, IsCpu(c), NEW r \in Registers
  PROVE  Get(c, r) \in Words /\ Get(c, r) # Unknown
<1>1. CASE r \in Pairs
  <2>1. High(r) \in Halves /\ Low(r) \in Halves
    BY <1>1, PairNames
  <2>2. c[High(r)] \in Bytes /\ c[Low(r)] \in Bytes
    BY <2>1 DEF IsCpu
  <2>3. Unknown \notin {c[High(r)], c[Low(r)]}
    BY <2>2, Values
  <2>4. c[High(r)] * Byte + c[Low(r)] \in Words
    BY <2>2, Joined
  <2> QED
    BY <1>1, <2>3, <2>4, Values DEF Get
<1>2. CASE r \in File /\ r \notin Pairs
  BY <1>2, Values DEF Get, IsCpu
<1> QED
  BY <1>1, <1>2, RegisterKinds

\* What is known of a register is what is there (rd_get_regval).
LEMMA GetAgrees ==
  ASSUME NEW k, NEW c, Agree(k, c), NEW r \in Registers
  PROVE  Get(k, r) \in {Unknown, Get(c, r)}
<1>1. CASE r \in Pairs
  <2>1. High(r) \in File /\ Low(r) \in File
    BY <1>1, PairNames DEF File
  <2>2. CASE Unknown \in {k[High(r)], k[Low(r)]}
    BY <1>1, <2>2 DEF Get
  <2>3. CASE Unknown \notin {k[High(r)], k[Low(r)]}
    <3>1. k[High(r)] = c[High(r)] /\ k[Low(r)] = c[Low(r)]
      BY <2>1, <2>3 DEF Agree
    <3> QED
      BY <3>1, <1>1 DEF Get
  <2> QED
    BY <2>2, <2>3
<1>2. CASE r \in File /\ r \notin Pairs
  BY <1>2 DEF Get, Agree
<1> QED
  BY <1>1, <1>2, RegisterKinds

\* The halves of a word written to a pair.
LEMMA SetPair ==
  ASSUME NEW f, NEW r \in Pairs, NEW v \in Nat
  PROVE  LET w == v % Size(r) IN
         /\ Set(f, r, v) = [f EXCEPT ![High(r)] = w \div Byte, ![Low(r)] = w % Byte]
         /\ w \div Byte \in Bytes /\ w % Byte \in Bytes
<1>1. v % Size(r) \in Words
  BY Cut
<1> QED
  BY <1>1, HalvesOfWord DEF Set

\* Written, a register file of the CPU is one.
LEMMA SetIsCpu ==
  ASSUME NEW c, IsCpu(c), NEW r \in Registers, NEW v \in Nat
  PROVE  IsCpu(Set(c, r, v))
<1>1. CASE r \in Pairs
  <2> DEFINE w == v % Size(r)
  <2>1. High(r) \in Halves /\ Low(r) \in Halves
    BY <1>1, PairNames
  <2>2. /\ Set(c, r, v) = [c EXCEPT ![High(r)] = w \div Byte, ![Low(r)] = w % Byte]
        /\ w \div Byte \in Bytes /\ w % Byte \in Bytes
    BY <1>1, SetPair
  <2> HIDE DEF w
  <2> QED
    BY <2>1, <2>2, Values DEF IsCpu, File
<1>2. CASE r \in File /\ r \notin Pairs
  <2> DEFINE w == v % Size(r)
  <2>1. Set(c, r, v) = [c EXCEPT ![r] = w]
    BY <1>2 DEF Set
  <2>2. w \in Words /\ (r \in Halves => w \in Bytes)
    BY Cut, RegisterKinds
  <2> HIDE DEF w
  <2> QED
    BY <2>1, <2>2 DEF IsCpu, File
<1> QED
  BY <1>1, <1>2, RegisterKinds

\* Written on both sides, files that agree go on to agree (rd_set_regval_id).
LEMMA SetAgrees ==
  ASSUME NEW k, NEW c, IsCpu(c), Agree(k, c), NEW r \in Registers, NEW v \in Nat
  PROVE  Agree(Set(k, r, v), Set(c, r, v))
<1>1. CASE r \in Pairs
  <2> DEFINE w == v % Size(r)
  <2>1. High(r) \in File /\ Low(r) \in File
    BY <1>1, PairNames DEF File
  <2>2. /\ Set(c, r, v) = [c EXCEPT ![High(r)] = w \div Byte, ![Low(r)] = w % Byte]
        /\ Set(k, r, v) = [k EXCEPT ![High(r)] = w \div Byte, ![Low(r)] = w % Byte]
        /\ w \div Byte \in Bytes /\ w % Byte \in Bytes
    BY <1>1, SetPair
  <2> HIDE DEF w
  <2> QED
    BY <2>1, <2>2, Values DEF IsCpu, Agree
<1>2. CASE r \in File /\ r \notin Pairs
  <2> DEFINE w == v % Size(r)
  <2>1. Set(c, r, v) = [c EXCEPT ![r] = w] /\ Set(k, r, v) = [k EXCEPT ![r] = w]
    BY <1>2 DEF Set
  <2>2. w \in Words
    BY Cut
  <2> HIDE DEF w
  <2> QED
    BY <1>2, <2>1, <2>2 DEF IsCpu, Agree
<1> QED
  BY <1>1, <1>2, RegisterKinds

\* What is forgotten agrees with whatever is written (rd_del_regval_id).
LEMMA ForgetAgrees ==
  ASSUME NEW k, NEW c, IsCpu(c), Agree(k, c), NEW r \in Registers, NEW v \in Nat
  PROVE  Agree(Forget(k, r), Set(c, r, v))
<1>1. CASE r \in Pairs
  <2> DEFINE w == v % Size(r)
  <2>1. High(r) \in File /\ Low(r) \in File
    BY <1>1, PairNames DEF File
  <2>2. Set(c, r, v) = [c EXCEPT ![High(r)] = w \div Byte, ![Low(r)] = w % Byte]
    BY <1>1, SetPair
  <2>3. Forget(k, r) = [k EXCEPT ![High(r)] = Unknown, ![Low(r)] = Unknown]
    BY <1>1 DEF Forget
  <2> HIDE DEF w
  <2> QED
    BY <2>1, <2>2, <2>3 DEF IsCpu, Agree
<1>2. CASE r \in File /\ r \notin Pairs
  <2> DEFINE w == v % Size(r)
  <2>1. Set(c, r, v) = [c EXCEPT ![r] = w] /\ Forget(k, r) = [k EXCEPT ![r] = Unknown]
    BY <1>2 DEF Set, Forget
  <2> HIDE DEF w
  <2> QED
    BY <1>2, <2>1 DEF IsCpu, Agree
<1> QED
  BY <1>1, <1>2, RegisterKinds

\* A value the code found, or none.
LEMMA SetOrForgetAgrees ==
  ASSUME NEW k, NEW c, IsCpu(c), Agree(k, c), NEW r \in Registers, NEW v \in Nat,
         NEW u \in {Unknown, v}
  PROVE  Agree(SetOrForget(k, r, u), Set(c, r, v))
<1>1. CASE u = Unknown
  BY <1>1, ForgetAgrees DEF SetOrForget
<1>2. CASE u = v /\ u # Unknown
  BY <1>2, SetAgrees DEF SetOrForget
<1> QED
  BY <1>1, <1>2

-------------------------------------------------------------------------------
(* Operands.                                                               *)

\* An operand of an instruction: a memory operand has a pair or c for register.
WellFormed(op) == op \in Operand /\ (op.kind = "displ" => op.reg \in {"c"} \cup Pairs)

\* The fields of an operand.
LEMMA OperandFields ==
  ASSUME NEW op, WellFormed(op)
  PROVE  /\ op.kind \in {"none", "reg", "mem", "displ", "cnst", "imm"}
         /\ op.reg \in Registers /\ op.value \in Words /\ op.step \in Words
BY DEF WellFormed, Operand

\* The operands of an instruction that occurs are such.
LEMMA InstructionOperands ==
  ASSUME NEW in \in Instructions
  PROVE  IsInstruction(in) /\ WellFormed(in.dst) /\ WellFormed(in.src)
<1>1. IsInstruction(in)
  BY InstructionsAssumption DEF IsInstruction
<1> QED
  BY <1>1 DEF IsInstruction, WellFormed

\* An address the code found is the one the CPU uses (_sm83_mem_address).
LEMMA AddressAgrees ==
  ASSUME NEW k, NEW c, IsCpu(c), Agree(k, c), NEW op, WellFormed(op)
  PROVE  Address(k, op) \in {Unknown, Address(c, op)}
<1>1. "c" \notin Pairs /\ "c" \in File
  BY RegisterKinds
<1>2. CASE op.kind = "mem"
  BY <1>2 DEF Address
<1>3. CASE op.kind = "displ" /\ op.reg = "c"
  <2>1. k["c"] \in {Unknown, c["c"]} /\ c["c"] # Unknown
    BY <1>1, Values DEF Agree, IsCpu
  <2>2. /\ Address(k, op) = IF k["c"] = Unknown THEN Unknown ELSE IO + k["c"]
        /\ Address(c, op) = IF c["c"] = Unknown THEN Unknown ELSE IO + c["c"]
    BY <1>1, <1>3, Zenon DEF Address
  <2> QED
    BY <2>1, <2>2
<1>4. CASE op.kind = "displ" /\ op.reg \in Pairs
  <2>1. Address(k, op) = Get(k, op.reg) /\ Address(c, op) = Get(c, op.reg)
    BY <1>1, <1>4 DEF Address
  <2> QED
    BY <2>1, <1>4, GetAgrees DEF Registers
<1>5. CASE op.kind \notin {"mem", "displ"}
  BY <1>5 DEF Address
<1> QED
  BY <1>2, <1>3, <1>4, <1>5 DEF WellFormed

\* Only memory operands have addresses.
LEMMA AddressOfMemory ==
  ASSUME NEW f, NEW op, Address(f, op) # Unknown
  PROVE  IsMemory(op)
BY DEF Address, IsMemory

\* Where hl is not moved, nothing is.
LEMMA NoStep ==
  ASSUME NEW f, NEW op, ~IsMemory(op)
  PROVE  Step(f, op) = f
BY DEF Step, IsMemory

\* hl moved, the CPU's registers are its registers.
LEMMA StepIsCpu ==
  ASSUME NEW c, IsCpu(c), NEW op, WellFormed(op)
  PROVE  IsCpu(Step(c, op))
<1>1. CASE op.kind = "displ" /\ op.reg = "hl" /\ op.step # 0 /\ Get(c, "hl") # Unknown
  <2>1. "hl" \in Registers
    BY <1>1, OperandFields
  <2>2. Get(c, "hl") \in Nat /\ op.step \in Nat
    BY <2>1, GetOfCpu, OperandFields, Values
  <2>3. Get(c, "hl") + op.step \in Nat
    BY <2>2
  <2>4. Step(c, op) = Set(c, "hl", Get(c, "hl") + op.step)
    BY <1>1 DEF Step
  <2> QED
    BY <2>1, <2>3, <2>4, SetIsCpu
<1>2. CASE ~(op.kind = "displ" /\ op.reg = "hl" /\ op.step # 0 /\ Get(c, "hl") # Unknown)
  BY <1>2 DEF Step
<1> QED
  BY <1>1, <1>2

\* With hl known, or unknown in both halves, what is known of it moves with it.
LEMMA StepAgrees ==
  ASSUME NEW k, NEW c, IsCpu(c), Agree(k, c), NEW op, WellFormed(op),
         ~(Steps(op) /\ Get(k, "hl") = Unknown /\ k[High("hl")] # k[Low("hl")])
  PROVE  Agree(Step(k, op), Step(c, op))
<1>1. CASE ~Steps(op)
  <2>1. Step(k, op) = k /\ Step(c, op) = c
    BY <1>1 DEF Step, Steps
  <2> QED
    BY <2>1
<1>2. CASE Steps(op)
  <2>1. op.kind = "displ" /\ op.reg = "hl" /\ op.step # 0
    BY <1>2 DEF Steps
  <2>2. "c" # "hl"
    OBVIOUS
  <2>3. "hl" \in Pairs /\ "hl" \in Registers
    BY <2>1, <2>2, OperandFields DEF WellFormed
  <2>4. Get(c, "hl") \in Words /\ Get(c, "hl") # Unknown /\ op.step \in Words
    BY <2>3, GetOfCpu, OperandFields
  <2> DEFINE v == Get(c, "hl") + op.step
  <2>5. v \in Nat
    <3>1. Get(c, "hl") \in Nat /\ op.step \in Nat
      BY <2>4, Values
    <3> QED
      BY <3>1
  <2>6. Step(c, op) = Set(c, "hl", v)
    BY <2>1, <2>4 DEF Step
  <2>7. CASE Get(k, "hl") # Unknown
    <3>1. Get(k, "hl") = Get(c, "hl")
      BY <2>3, <2>7, GetAgrees
    <3>2. Step(k, op) = Set(k, "hl", v)
      BY <2>1, <2>7, <3>1 DEF Step
    <3> HIDE DEF v
    <3> QED
      BY <2>3, <2>5, <2>6, <3>2, SetAgrees
  <2>8. CASE Get(k, "hl") = Unknown
    <3>1. k[High("hl")] = k[Low("hl")]
      BY <1>2, <2>8
    <3>2. High("hl") \in File /\ Low("hl") \in File
      BY <2>3, PairNames DEF File
    <3>3. k[High("hl")] = Unknown /\ k[Low("hl")] = Unknown
      <4>1. Unknown \in {k[High("hl")], k[Low("hl")]}
        <5> SUFFICES ASSUME Unknown \notin {k[High("hl")], k[Low("hl")]} PROVE FALSE
          OBVIOUS
        <5>1. k[High("hl")] = c[High("hl")] /\ k[Low("hl")] = c[Low("hl")]
          BY <3>2 DEF Agree
        <5>2. Get(k, "hl") = Get(c, "hl")
          BY <5>1, <2>3 DEF Get
        <5> QED
          BY <5>2, <2>4, <2>8
      <4> QED
        BY <4>1, <3>1
    <3>4. Forget(k, "hl") = [k EXCEPT ![High("hl")] = Unknown, ![Low("hl")] = Unknown]
      BY <2>3 DEF Forget
    <3>5. Forget(k, "hl") = k
      BY <3>2, <3>3, <3>4 DEF Agree
    <3>6. Step(k, op) = k
      BY <2>8 DEF Step
    <3> HIDE DEF v
    <3>7. Agree(Forget(k, "hl"), Set(c, "hl", v))
      BY <2>3, <2>5, ForgetAgrees
    <3> QED
      BY <2>6, <3>5, <3>6, <3>7
  <2> QED
    BY <2>7, <2>8
<1> QED
  BY <1>1, <1>2

-------------------------------------------------------------------------------
(* Bits.                                                                   *)

\* The quotient is determined by a remainder below the divisor.
LEMMA QuotientUnique ==
  ASSUME NEW p \in Nat, p > 0, NEW x \in Nat, NEW t \in Nat, t < p,
         NEW a \in Nat, a = x * p + t
  PROVE  a \div p = x
<1> DEFINE y == a \div p
           u == a % p
<1>1. y \in Int /\ u \in Nat /\ u < p /\ a = y * p + u
  OBVIOUS
<1> HIDE DEF y, u
<1>2. ~(y >= x + 1)
  <2> SUFFICES ASSUME y >= x + 1 PROVE FALSE
    OBVIOUS
  <2>1. y * p >= (x + 1) * p
    BY <1>1
  <2>2. (x + 1) * p = x * p + p
    OBVIOUS
  <2>3. x * p \in Nat /\ y * p \in Int
    BY <1>1
  <2> QED
    BY <2>1, <2>2, <2>3, <1>1
<1>3. ~(x >= y + 1)
  <2> SUFFICES ASSUME x >= y + 1 PROVE FALSE
    OBVIOUS
  <2>1. x * p >= (y + 1) * p
    BY <1>1
  <2>2. (y + 1) * p = y * p + p
    BY <1>1
  <2>3. x * p \in Nat /\ y * p \in Int
    BY <1>1
  <2> QED
    BY <2>1, <2>2, <2>3, <1>1
<1>4. y = x
  BY <1>1, <1>2, <1>3
<1> QED
  BY <1>4 DEF y

\* The bits of the interrupts are in the low byte of what is written.
LEMMA BitOfByte ==
  ASSUME NEW v \in Nat, NEW b \in Bits, HasBit(v, b)
  PROVE  HasBit(v % Byte, b)
<1> DEFINE p == 2^b
           m == Byte \div (2 * p)
           q == v \div Byte
           r == v % Byte
           s == r \div p
           t == r % p
<1>1. p \in Nat /\ p > 0 /\ Byte % (2 * p) = 0
  BY BitsAssumption
<1>2. Byte \in Nat /\ Byte > 0
  BY Values
<1>3. q \in Nat /\ r \in Nat /\ r < Byte /\ v = q * Byte + r
  BY <1>2
<1> HIDE DEF p, q, r
<1>4. s \in Nat /\ t \in Nat /\ t < p /\ r = s * p + t
  BY <1>1, <1>3
<1>5. 2 * p \in Nat /\ 2 * p > 0
  BY <1>1
<1> HIDE DEF s, t
<1>6. m \in Nat /\ Byte = m * (2 * p)
  <2> DEFINE d == 2 * p
  <2>1. d \in Nat /\ d > 0 /\ Byte % d = 0
    BY <1>1, <1>5
  <2> HIDE DEF d
  <2>2. Byte \div d \in Nat /\ Byte = (Byte \div d) * d
    BY <2>1, <1>2
  <2> QED
    BY <2>2 DEF d
<1> HIDE DEF m
<1> DEFINE x == q * m
<1>7. x \in Nat /\ q * Byte = x * (2 * p)
  <2>1. q * (m * (2 * p)) = (q * m) * (2 * p)
    BY <1>1, <1>3, <1>6
  <2>2. q * m \in Nat
    BY <1>3, <1>6
  <2> QED
    BY <2>1, <2>2, <1>6
<1> HIDE DEF x
<1>8. v = (2 * x + s) * p + t
  <2>1. (2 * x + s) * p = x * (2 * p) + s * p
    BY <1>1, <1>4, <1>7
  <2>2. s * p \in Nat /\ x * (2 * p) \in Nat
    BY <1>1, <1>4, <1>7
  <2> QED
    BY <2>1, <2>2, <1>3, <1>4, <1>7
<1>9. v \div p = 2 * x + s
  <2> DEFINE z == 2 * x + s
  <2>1. z \in Nat /\ v = z * p + t
    BY <1>4, <1>7, <1>8
  <2> HIDE DEF z
  <2>2. v \div p = z
    BY <2>1, <1>1, <1>4, QuotientUnique
  <2> QED
    BY <2>2 DEF z
<1>10. (2 * x + s) % 2 = s % 2
  BY <1>4, <1>7
<1> QED
  BY <1>9, <1>10 DEF HasBit, p, r, s

\* What the platform takes to be enabled by a write that happens is enabled
\* (_gb_bus_write).
LEMMA RequestedIsEnabled ==
  ASSUME NEW v \in Nat, NEW at, NEW size, NEW bus,
         \A w \in bus : w.at = at /\ w.value \in {Unknown, v}
  PROVE  Requested(bus) \subseteq Enables(at, v, size)
<1> SUFFICES ASSUME NEW b \in Requested(bus)
             PROVE  b \in Enables(at, v, size)
  OBVIOUS
<1>1. PICK w \in bus : w.at = IE /\ w.value # Unknown /\ b \in Bits /\ HasBit(w.value, b)
  BY Zenon DEF Requested
<1>2. at = IE /\ w.value = v
  BY <1>1
<1>3. HasBit(v % Byte, b)
  BY <1>1, <1>2, BitOfByte
<1> QED
  BY <1>1, <1>2, <1>3, Zenon DEF Enables

-------------------------------------------------------------------------------
(* What is claimed of an instruction.                                      *)

\* The references reported for an instruction are of accesses it may make, at
\* the addresses at which it makes them (_sm83_access).
LEMMA AccessesAreAt ==
  ASSUME IsCpu(cpu), Agree(known, cpu), NEW in \in Instructions, NEW store, NEW rmw,
         NEW ref \in Accesses(in, store, rmw)
  PROVE  \/ IsMemory(in.dst) /\ ref = Ref("write", Address(cpu, in.dst))
         \/ IsMemory(in.dst) /\ rmw /\ ref = Ref("read", Address(cpu, in.dst))
         \/ IsMemory(in.src) /\ ref = Ref("read", Address(cpu, in.src))
<1>1. WellFormed(in.dst) /\ WellFormed(in.src)
  BY InstructionOperands
<1>2. \A op \in {in.dst, in.src} :
        Reported(op) => IsMemory(op) /\ Address(known, op) = Address(cpu, op)
  <2> SUFFICES ASSUME NEW op \in {in.dst, in.src}, Reported(op)
               PROVE  IsMemory(op) /\ Address(known, op) = Address(cpu, op)
    OBVIOUS
  <2>1. Address(known, op) # Unknown
    BY DEF Reported
  <2> QED
    BY <1>1, <2>1, AddressAgrees, AddressOfMemory
<1>3. \/ Reported(in.dst) /\ ref = Ref("write", Address(known, in.dst))
      \/ Reported(in.dst) /\ rmw /\ ref = Ref("read", Address(known, in.dst))
      \/ Reported(in.src) /\ ref = Ref("read", Address(known, in.src))
  BY Zenon DEF Accesses
<1> QED
  BY <1>2, <1>3, Zenon

\* A write on the bus is of a store, at its address (_sm83_bus_write).
LEMMA BusWritesAreAt ==
  ASSUME IsCpu(cpu), Agree(known, cpu), NEW in \in Instructions, NEW store, NEW rmw,
         NEW w \in BusWrites(in, store, rmw)
  PROVE  /\ IsMemory(in.dst)
         /\ w.at = Address(cpu, in.dst)
         /\ w.value = IF rmw THEN Unknown ELSE StoredValue(in.src)
<1>1. /\ IsMemory(in.dst) /\ (store \/ rmw) /\ Address(known, in.dst) # Unknown
      /\ w = Write(Address(known, in.dst), IF rmw THEN Unknown ELSE StoredValue(in.src))
  BY Zenon DEF BusWrites
<1>2. Address(known, in.dst) = Address(cpu, in.dst)
  BY <1>1, InstructionOperands, AddressAgrees
<1> QED
  BY <1>1, <1>2 DEF Write

\* What an operand reads as is a word.
LEMMA SourceWords ==
  ASSUME IsCpu(cpu), NEW op, WellFormed(op), NEW v \in SourceValues(op)
  PROVE  v \in Words
<1>1. CASE Constant(op)
  BY <1>1, OperandFields DEF SourceValues, Constant
<1>2. CASE ~Constant(op) /\ op.kind = "reg"
  BY <1>2, OperandFields, GetOfCpu DEF SourceValues
<1>3. CASE ~Constant(op) /\ op.kind # "reg"
  <2>1. v \in Read(Address(cpu, op))
    BY <1>3 DEF SourceValues
  <2> QED
    BY <2>1, RomAssumption, Values DEF Read
<1> QED
  BY <1>1, <1>2, <1>3

\* The value the code takes to be loaded, if any, is the value there is
\* (_sm83_emu_ld).
LEMMA LoadedAgrees ==
  ASSUME IsCpu(cpu), Agree(known, cpu), NEW op, WellFormed(op), NEW v \in SourceValues(op)
  PROVE  LoadedValue(op) \in {Unknown, v} /\ StoredValue(op) \in {Unknown, v}
<1>1. CASE Constant(op)
  <2>1. LoadedValue(op) = op.value /\ v = op.value
    BY <1>1 DEF LoadedValue, SourceValues, Constant
  <2>2. StoredValue(op) \in {Unknown, op.value}
    BY <1>1 DEF StoredValue, Constant
  <2> QED
    BY <2>1, <2>2
<1>2. CASE ~Constant(op) /\ op.kind = "reg"
  <2>1. LoadedValue(op) = Get(known, op.reg) /\ v = Get(cpu, op.reg)
    BY <1>2 DEF LoadedValue, SourceValues
  <2>2. StoredValue(op) = Get(known, op.reg)
    BY <1>2 DEF StoredValue
  <2> QED
    BY <2>1, <2>2, OperandFields, GetAgrees
<1>3. CASE ~Constant(op) /\ op.kind # "reg"
  <2>1. v \in Read(Address(cpu, op))
    BY <1>3 DEF SourceValues
  <2>2. StoredValue(op) = Unknown
    BY <1>3 DEF StoredValue, Constant
  <2>3. LoadedValue(op) =
          IF Address(known, op) # Unknown /\ Address(known, op) \in DOMAIN Rom
            THEN Rom[Address(known, op)] ELSE Unknown
    BY <1>3 DEF LoadedValue
  <2>4. CASE Address(known, op) # Unknown /\ Address(known, op) \in DOMAIN Rom
    <3>1. Address(known, op) = Address(cpu, op)
      BY <2>4, AddressAgrees
    <3> QED
      BY <2>1, <2>2, <2>3, <2>4, <3>1 DEF Read
  <2> QED
    BY <2>2, <2>3, <2>4
<1> QED
  BY <1>1, <1>2, <1>3

-------------------------------------------------------------------------------
(* LD, LDH.                                                                *)

\* A load or store leaves true what is known (_sm83_emu_ld).
LEMMA LdRegisters ==
  ASSUME IInv, NEW in \in Instructions, Ld(in)
  PROVE  IsCpu(cpu)' /\ (~lapsed' => Agree(known, cpu)')
<1>1. IsInstruction(in) /\ WellFormed(in.dst) /\ WellFormed(in.src) /\ in.id = "ld"
  BY InstructionOperands DEF Ld
<1>2. IsCpu(cpu) /\ (~lapsed => Agree(known, cpu))
  BY DEF IInv
<1>3. known' = Load(in) /\ lapsed' = (lapsed \/ Missed(in))
  BY DEF Ld
<1> DEFINE stepped == Step(Step(cpu, in.dst), in.src)
<1>4. PICK v \in SourceValues(in.src) :
        IF IsMemory(in.dst) THEN cpu' = stepped
                            ELSE cpu' = Set(stepped, in.dst.reg, v + in.offset)
  BY Zenon DEF Ld
<1>5. v \in Nat /\ in.offset \in Nat
  BY <1>1, <1>2, SourceWords, Values DEF IsInstruction
<1>6. IsCpu(stepped)
  <2>1. IsCpu(Step(cpu, in.dst))
    BY <1>1, <1>2, StepIsCpu
  <2> QED
    BY <2>1, <1>1, StepIsCpu
<1>7. v + in.offset \in Nat
  BY <1>5
<1>8. IsCpu(cpu)'
  <2>1. CASE IsMemory(in.dst)
    BY <2>1, <1>4, <1>6 DEF IsCpu
  <2>2. CASE ~IsMemory(in.dst)
    <3>1. IsCpu(Set(stepped, in.dst.reg, v + in.offset))
      BY <1>1, <1>6, <1>7, OperandFields, SetIsCpu
    <3> HIDE DEF stepped
    <3> QED
      BY <3>1, <2>2, <1>4 DEF IsCpu
  <2> QED
    BY <2>1, <2>2
<1>9. ASSUME ~lapsed' PROVE Agree(known, cpu)'
  <2>1. ~lapsed /\ ~Missed(in)
    BY <1>3, <1>9
  <2>2. Agree(known, cpu)
    BY <1>2, <2>1
  <2> DEFINE kstepped == Step(Step(known, in.dst), in.src)
  <2>3. \A op \in {in.dst, in.src} : Agree(Step(known, op), Step(cpu, op))
    <3> SUFFICES ASSUME NEW op \in {in.dst, in.src}
                 PROVE  Agree(Step(known, op), Step(cpu, op))
      OBVIOUS
    <3>1. ~(Steps(op) /\ HalfKnown("hl")) /\ WellFormed(op)
      BY <2>1, <1>1, Zenon DEF Missed
    <3> QED
      BY <3>1, <1>2, <2>2, StepAgrees DEF HalfKnown
  <2>4. Agree(kstepped, stepped)
    <3>1. CASE ~IsMemory(in.src)
      BY <3>1, <2>3, NoStep
    <3>2. CASE ~IsMemory(in.dst)
      BY <3>2, <2>3, NoStep
    <3> QED
      BY <3>1, <3>2, <1>1 DEF IsInstruction
  <2> HIDE DEF stepped, kstepped
  <2>5. Load(in) = IF in.dst.kind # "reg" THEN kstepped
                   ELSE SetOrForget(kstepped, in.dst.reg, LoadedValue(in.src))
    BY DEF Load, kstepped
  <2>6. CASE IsMemory(in.dst)
    <3>1. in.dst.kind # "reg"
      BY <2>6 DEF IsMemory
    <3> QED
      BY <3>1, <2>4, <2>5, <2>6, <1>3, <1>4 DEF Agree
  <2>7. CASE ~IsMemory(in.dst)
    <3>1. in.dst.kind = "reg"
      BY <2>7, <1>1 DEF IsInstruction
    <3>2. LoadedValue(in.src) \in {Unknown, v}
      BY <1>1, <1>2, <2>2, LoadedAgrees
    <3>3. LoadedValue(in.src) \in {Unknown, v + in.offset}
      <4>1. CASE LoadedValue(in.src) = Unknown
        BY <4>1
      <4>2. CASE LoadedValue(in.src) # Unknown
        <5>1. in.offset = 0
          BY <4>2, <2>1 DEF Missed
        <5> QED
          BY <5>1, <3>2, <1>5
      <4> QED
        BY <4>1, <4>2
    <3>4. Agree(SetOrForget(kstepped, in.dst.reg, LoadedValue(in.src)),
                Set(stepped, in.dst.reg, v + in.offset))
      BY <3>3, <2>4, <1>1, <1>6, <1>7, OperandFields, SetOrForgetAgrees DEF stepped
    <3> QED
      BY <3>1, <3>4, <2>5, <2>7, <1>3, <1>4 DEF Agree
  <2> QED
    BY <2>6, <2>7
<1> QED
  BY <1>8, <1>9

\* What is claimed of a load or store happens (_sm83_access).
LEMMA LdClaims ==
  ASSUME IInv, NEW in \in Instructions, Ld(in), ~lapsed
  PROVE  ClaimsAreDeeds' /\ HandlersAreEnabled'
<1>1. IsInstruction(in) /\ WellFormed(in.dst) /\ WellFormed(in.src)
  BY InstructionOperands
<1>2. IsCpu(cpu) /\ Agree(known, cpu) /\ named \subseteq enabled
  BY DEF IInv, HandlersAreEnabled
<1> DEFINE bus == BusWrites(in, TRUE, FALSE)
           at  == Address(cpu, in.dst)
<1>3. PICK v \in SourceValues(in.src) :
        IF IsMemory(in.dst)
          THEN /\ Deed({Ref("write", at)}, {Stored(in.dst, v)}, {}, TRUE)
               /\ enabled' = enabled \cup Enables(at, v, WriteSize(in.src))
          ELSE /\ Deed(IF IsMemory(in.src) THEN {Ref("read", Address(cpu, in.src))}
                       ELSE {}, {}, {}, TRUE)
               /\ UNCHANGED enabled
  BY Zenon DEF Ld
<1>4. /\ claims'.refs = Accesses(in, TRUE, FALSE) /\ claims'.bus = bus
      /\ claims'.jumps = {}
  BY DEF Ld, Claim
<1>5. v \in Nat /\ StoredValue(in.src) \in {Unknown, v}
  BY <1>1, <1>2, SourceWords, LoadedAgrees, Values
<1>6. \A w \in bus : IsMemory(in.dst) /\ w.at = at /\ w.value \in {Unknown, v}
  <2>1. \A w \in bus : /\ IsMemory(in.dst) /\ w.at = at
                       /\ w.value = StoredValue(in.src)
    BY <1>2, BusWritesAreAt
  <2> QED
    BY <2>1, <1>5
<1>7. named' = named \cup (Requested(bus) \ functions)
  BY DEF Ld, BusHook
<1>8. CASE IsMemory(in.dst)
  <2>1. /\ deeds'.refs = {Ref("write", at)} /\ deeds'.bus = {Stored(in.dst, v)}
        /\ deeds'.jumps = {}
    BY <1>3, <1>8 DEF Deed
  <2>2. ~IsMemory(in.src)
    BY <1>1, <1>8 DEF IsInstruction
  <2>3. claims'.refs \subseteq deeds'.refs
    <3>1. \A ref \in Accesses(in, TRUE, FALSE) : ref = Ref("write", at)
      BY <2>2, <1>2, AccessesAreAt
    <3> QED
      BY <3>1, <2>1, <1>4
  <2>4. Stored(in.dst, v).at = at /\ Stored(in.dst, v).value = v
    BY DEF Stored
  <2>5. Requested(bus) \subseteq Enables(at, v, WriteSize(in.src))
    <3> HIDE DEF bus, at
    <3> QED
      BY <1>5, <1>6, RequestedIsEnabled
  <2> HIDE DEF bus, at
  <2>6. ClaimsAreDeeds'
    BY <2>1, <2>3, <2>4, <1>4, <1>6 DEF ClaimsAreDeeds
  <2>7. HandlersAreEnabled'
    <3>1. enabled' = enabled \cup Enables(at, v, WriteSize(in.src))
      BY <1>3, <1>8 DEF at
    <3> QED
      BY <3>1, <2>5, <1>2, <1>7 DEF HandlersAreEnabled
  <2> QED
    BY <2>6, <2>7
<1>9. CASE ~IsMemory(in.dst)
  <2>1. bus = {}
    BY <1>6, <1>9
  <2>2. Requested(bus) = {}
    BY <2>1, Zenon DEF Requested
  <2>3. claims'.refs \subseteq deeds'.refs
    <3>1. \A ref \in Accesses(in, TRUE, FALSE) :
            IsMemory(in.src) /\ ref = Ref("read", Address(cpu, in.src))
      BY <1>9, <1>2, AccessesAreAt
    <3>2. IsMemory(in.src) => deeds'.refs = {Ref("read", Address(cpu, in.src))}
      BY <1>3, <1>9 DEF Deed
    <3> QED
      BY <3>1, <3>2, <1>4
  <2> HIDE DEF bus, at
  <2>4. ClaimsAreDeeds'
    BY <2>1, <2>3, <1>4 DEF ClaimsAreDeeds
  <2>5. HandlersAreEnabled'
    BY <2>2, <1>2, <1>3, <1>7, <1>9 DEF HandlersAreEnabled
  <2> QED
    BY <2>4, <2>5
<1> QED
  BY <1>8, <1>9

\* Loads and stores.
LEMMA LdIInv ==
  ASSUME IInv, NEW in \in Instructions, Ld(in)
  PROVE  IInv'
<1>1. IsCpu(cpu)' /\ (~lapsed' => Agree(known, cpu)')
  BY LdRegisters
<1>2. ~lapsed' => ~lapsed
  BY DEF Ld
<1>3. ~lapsed' => ClaimsAreDeeds' /\ HandlersAreEnabled'
  BY <1>2, LdClaims
<1> QED
  BY <1>1, <1>3 DEF IInv

-------------------------------------------------------------------------------
(* The arithmetic instructions.                                            *)

\* What is written and what is read of an arithmetic instruction are operands.
LEMMA TargetAndArgument ==
  ASSUME NEW in \in Instructions
  PROVE  WellFormed(Target(in)) /\ WellFormed(Argument(in))
<1>1. WellFormed(in.dst) /\ WellFormed(in.src)
  BY InstructionOperands
<1>2. 0 \in Words /\ 1 \in Words /\ "a" \in Registers
  BY Values, RegisterKinds DEF Registers, File
<1>3. WellFormed(One)
  BY <1>2 DEF WellFormed, Operand, One
<1>4. WellFormed([kind |-> "reg", reg |-> "a", value |-> 0, step |-> 0])
  BY <1>2 DEF WellFormed, Operand
<1>5. Target(in) \in {in.src, in.dst, [kind |-> "reg", reg |-> "a", value |-> 0, step |-> 0]}
  BY DEF Target
<1>6. Argument(in) \in {in.src, in.dst, One}
  BY DEF Argument
<1> QED
  BY <1>1, <1>3, <1>4, <1>5, <1>6

\* The second operand of the arithmetic, as the CPU may read it.
Arguments(in) ==
  IF IsMemory(Argument(in)) THEN Read(Address(cpu, Argument(in)))
  ELSE SourceValues(Argument(in))

\* Such an operand is a word, and the one the code knows if it knows one.
LEMMA ArgumentAgrees ==
  ASSUME IsCpu(cpu), NEW in \in Instructions, NEW y \in Arguments(in)
  PROVE  /\ y \in Words
         /\ Agree(known, cpu) =>
              /\ Argument(in).kind = "reg" => Get(known, Argument(in).reg) \in {Unknown, y}
              /\ Argument(in).kind = "cnst" => Argument(in).value = y
<1> DEFINE op == Argument(in)
<1>1. WellFormed(op)
  BY TargetAndArgument
<1>2. CASE IsMemory(op)
  <2>1. y \in Words
    BY <1>2, RomAssumption, Values DEF Arguments, Read
  <2> QED
    BY <2>1, <1>2 DEF IsMemory
<1>3. CASE ~IsMemory(op)
  <2>1. y \in SourceValues(op)
    BY <1>3 DEF Arguments
  <2> HIDE DEF op
  <2>2. y \in Words
    BY <1>1, <2>1, SourceWords
  <2>3. op.kind = "cnst" => y = op.value
    BY <2>1 DEF SourceValues, Constant
  <2>4. op.kind = "reg" => y = Get(cpu, op.reg)
    BY <2>1 DEF SourceValues, Constant
  <2>5. Agree(known, cpu) /\ op.kind = "reg" => Get(known, op.reg) \in {Unknown, y}
    BY <2>4, <1>1, OperandFields, GetAgrees
  <2> QED
    BY <2>2, <2>3, <2>5 DEF op
<1> QED
  BY <1>2, <1>3

\* The results of an arithmetic instruction: a register is written, with what
\* the code computes if it computes it.
LEMMA ResultsAgree ==
  ASSUME IsCpu(cpu), NEW in \in Instructions, in.id \in Arithmetics,
         Target(in).kind = "reg", NEW c \in Results(in)
  PROVE  /\ IsCpu(c)
         /\ Agree(known, cpu) /\ ~(in.id = "pop" /\ known["sp"] # Unknown) =>
              Agree(Compute(in), c)
<1> DEFINE r  == Target(in).reg
           at == IF in.id = "pop" THEN Set(cpu, "sp", cpu["sp"] + 2) ELSE cpu
           vs == IF in.id \in NotComputed THEN 0 .. Size(r) - 1
                 ELSE {Alu(in.id, Get(cpu, r), y) : y \in Arguments(in)}
<1>1. r \in Registers
  BY TargetAndArgument, OperandFields
<1>2. "sp" \in Registers /\ "sp" \in File
  BY DEF Registers, File
<1>3. cpu["sp"] \in Nat
  BY <1>2, Values DEF IsCpu
<1>4. cpu["sp"] + 2 \in Nat
  BY <1>3
<1>5. IsCpu(at)
  BY <1>2, <1>4, SetIsCpu
<1>6. Results(in) = IF in.id \in ReadOnly THEN {cpu} ELSE {Set(at, r, v) : v \in vs}
  BY Zenon DEF Results, Arguments
<1>7. CASE in.id \in ReadOnly
  <2>1. c = cpu
    BY <1>6, <1>7
  <2>2. Compute(in) = known
    BY <1>7 DEF Compute
  <2> QED
    BY <2>1, <2>2
<1>8. CASE in.id \notin ReadOnly
  <2>1. PICK v \in vs : c = Set(at, r, v)
    BY <1>6, <1>8
  <2>2. v \in Nat
    <3>1. CASE in.id \in NotComputed
      <4>1. Size(r) \in Nat
        BY Values DEF Size
      <4> QED
        BY <4>1, <3>1
    <3>2. CASE in.id \notin NotComputed
      <4>1. PICK y \in Arguments(in) : v = Alu(in.id, Get(cpu, r), y)
        BY <3>2
      <4>2. y \in Words /\ Get(cpu, r) \in Words
        BY <1>1, ArgumentAgrees, GetOfCpu
      <4> QED
        BY <4>1, <4>2, AluAssumption
    <3> QED
      BY <3>1, <3>2
  <2> HIDE DEF at
  <2>3. IsCpu(c)
    BY <2>1, <2>2, <1>1, <1>5, SetIsCpu
  <2>4. ASSUME Agree(known, cpu), ~(in.id = "pop" /\ known["sp"] # Unknown)
        PROVE  Agree(Compute(in), c)
    <3>1. Agree(known, at)
      <4>1. CASE in.id # "pop"
        BY <4>1, <2>4 DEF at
      <4>2. CASE in.id = "pop"
        <5>1. Forget(known, "sp") = known
          BY <4>2, <2>4, <1>2, RegisterKinds DEF Forget, Agree
        <5>2. Agree(Forget(known, "sp"), Set(cpu, "sp", cpu["sp"] + 2))
          BY <2>4, <1>2, <1>4, ForgetAgrees
        <5> QED
          BY <4>2, <5>1, <5>2 DEF at
      <4> QED
        BY <4>1, <4>2
    <3>2. Compute(in) = SetOrForget(known, r, AluResult(in))
      BY <1>8 DEF Compute
    <3>3. AluResult(in) \in {Unknown, v}
      <4>1. CASE in.id \in NotComputed
        BY <4>1 DEF AluResult
      <4>2. CASE in.id \notin NotComputed
        <5>1. PICK y \in Arguments(in) : v = Alu(in.id, Get(cpu, r), y)
          BY <4>2
        <5> DEFINE z == CASE Argument(in).kind = "reg"  -> Get(known, Argument(in).reg)
                          [] Argument(in).kind = "cnst" -> Argument(in).value
                          [] OTHER                      -> Unknown
        <5>2. z \in {Unknown, y}
          BY <2>4, ArgumentAgrees
        <5>3. AluResult(in) = IF Unknown \in {Get(known, r), z} THEN Unknown
                              ELSE Alu(in.id, Get(known, r), z)
          BY <4>2, Zenon DEF AluResult
        <5>4. Get(known, r) \in {Unknown, Get(cpu, r)}
          BY <2>4, <1>1, GetAgrees
        <5> HIDE DEF z, r
        <5> QED
          BY <5>1, <5>2, <5>3, <5>4
      <4> QED
        BY <4>1, <4>2
    <3>4. Agree(SetOrForget(known, r, AluResult(in)), Set(at, r, v))
      BY <3>1, <3>3, <2>2, <1>1, <1>5, SetOrForgetAgrees
    <3> QED
      BY <3>2, <3>4, <2>1
  <2> QED
    BY <2>3, <2>4
<1> QED
  BY <1>7, <1>8

\* The arithmetic instructions leave true what is known (_sm83_emu_alu,
\* _sm83_emu_implicit_a).
LEMMA ArithmeticRegisters ==
  ASSUME IInv, NEW in \in Instructions, Arithmetic(in)
  PROVE  IsCpu(cpu)' /\ (~lapsed' => Agree(known, cpu)')
<1>1. IsInstruction(in) /\ in.id \in Arithmetics
  BY InstructionOperands DEF Arithmetic
<1>2. IsCpu(cpu) /\ (~lapsed => Agree(known, cpu))
  BY DEF IInv
<1>3. /\ known' = Compute(in)
      /\ lapsed' = (lapsed \/ (in.id = "pop" /\ known["sp"] # Unknown))
  BY DEF Arithmetic
<1>4. CASE IsMemory(Target(in))
  <2>1. cpu' = cpu
    BY <1>4, Zenon DEF Arithmetic
  <2>2. Target(in).kind # "reg"
    BY <1>4 DEF IsMemory
  <2>3. Compute(in) = known
    BY <2>2 DEF Compute
  <2> QED
    BY <1>2, <1>3, <2>1, <2>3 DEF IsCpu, Agree
<1>5. CASE ~IsMemory(Target(in))
  <2>1. cpu' \in Results(in)
    BY <1>5, Zenon DEF Arithmetic
  <2>2. Target(in).kind = "reg"
    BY <1>1, <1>5 DEF IsInstruction
  <2>3. /\ IsCpu(cpu')
        /\ Agree(known, cpu) /\ ~(in.id = "pop" /\ known["sp"] # Unknown) =>
             Agree(Compute(in), cpu')
    BY <1>1, <1>2, <2>1, <2>2, ResultsAgree
  <2>4. ~lapsed' => Agree(known', cpu')
    BY <1>2, <1>3, <2>3
  <2> QED
    BY <2>3, <2>4 DEF IsCpu, Agree
<1> QED
  BY <1>4, <1>5

\* What is claimed of an arithmetic instruction happens.
LEMMA ArithmeticClaims ==
  ASSUME IInv, NEW in \in Instructions, Arithmetic(in), ~lapsed
  PROVE  ClaimsAreDeeds' /\ HandlersAreEnabled'
<1>1. IsInstruction(in) /\ in.id \in Arithmetics
  BY InstructionOperands DEF Arithmetic
<1>2. IsCpu(cpu) /\ Agree(known, cpu) /\ named \subseteq enabled
  BY DEF IInv, HandlersAreEnabled
<1> DEFINE rmw == in.id \in InPlace
           bus == BusWrites(in, FALSE, rmw)
           op  == Target(in)
           at  == Address(cpu, op)
<1>3. /\ claims'.refs = Accesses(in, FALSE, rmw) /\ claims'.bus = bus
      /\ claims'.jumps = {}
      /\ named' = named \cup (Requested(bus) \ functions)
  BY DEF Arithmetic, Claim, BusHook
<1>4. IsMemory(in.dst) => op = in.dst
  BY <1>1 DEF Target, IsInstruction
<1>5. \A w \in bus : IsMemory(in.dst) /\ w.at = Address(cpu, in.dst) /\ w.value = Unknown
  <2> SUFFICES ASSUME NEW w \in bus
               PROVE  IsMemory(in.dst) /\ w.at = Address(cpu, in.dst) /\ w.value = Unknown
    OBVIOUS
  <2>1. CASE in.id \in InPlace
    <3>1. bus = BusWrites(in, FALSE, TRUE)
      BY <2>1 DEF BusWrites
    <3> HIDE DEF bus
    <3>2. /\ IsMemory(in.dst) /\ w.at = Address(cpu, in.dst)
          /\ w.value = IF TRUE THEN Unknown ELSE StoredValue(in.src)
      BY <3>1, <1>2, BusWritesAreAt
    <3> QED
      BY <3>2
  <2>2. CASE in.id \notin InPlace
    BY <2>2 DEF BusWrites
  <2> QED
    BY <2>1, <2>2
<1>6. Requested(bus) = {}
  BY <1>5, Zenon DEF Requested
<1>7. \A ref \in Accesses(in, FALSE, rmw) :
        \/ IsMemory(in.dst) /\ ref = Ref("write", Address(cpu, in.dst))
        \/ IsMemory(in.dst) /\ ref = Ref("read", Address(cpu, in.dst))
        \/ IsMemory(in.src) /\ ref = Ref("read", Address(cpu, in.src))
  <2> HIDE DEF rmw
  <2> QED
    BY <1>2, AccessesAreAt
<1>8. CASE IsMemory(op)
  <2>1. PICK v \in Bytes : /\ Deed({Ref("read", at), Ref("write", at)}, {Stored(op, v)}, {}, TRUE)
                           /\ enabled' = enabled \cup Enables(at, v, 1)
    BY <1>8, Zenon DEF Arithmetic
  <2>2. /\ deeds'.refs = {Ref("read", at), Ref("write", at)}
        /\ deeds'.bus = {Stored(op, v)} /\ deeds'.jumps = {}
    BY <2>1 DEF Deed
  <2>3. Stored(op, v).at = at
    BY DEF Stored
  <2>4. IsMemory(in.src) => op = in.src
    <3>1. op \in {in.dst, in.src} \/ op.kind = "reg"
      BY DEF Target
    <3>2. op.kind # "reg"
      BY <1>8 DEF IsMemory
    <3>3. IsMemory(in.src) => op # in.dst
      BY <1>1, <1>8 DEF IsInstruction
    <3> QED
      BY <3>1, <3>2, <3>3
  <2>5. claims'.refs \subseteq deeds'.refs
    BY <1>3, <1>4, <1>7, <2>2, <2>4
  <2> HIDE DEF bus, at, op
  <2>6. ClaimsAreDeeds'
    BY <1>3, <1>4, <1>5, <2>2, <2>3, <2>5 DEF ClaimsAreDeeds, at
  <2>7. HandlersAreEnabled'
    BY <1>2, <1>3, <1>6, <2>1 DEF HandlersAreEnabled
  <2> QED
    BY <2>6, <2>7
<1>9. CASE ~IsMemory(op)
  <2>1. /\ Deed(IF IsMemory(in.src) THEN {Ref("read", Address(cpu, in.src))}
                ELSE {}, {}, {}, TRUE)
        /\ UNCHANGED enabled
    BY <1>9, Zenon DEF Arithmetic
  <2>2. ~IsMemory(in.dst)
    BY <1>4, <1>9
  <2>3. claims'.refs \subseteq deeds'.refs
    BY <1>3, <1>7, <2>1, <2>2 DEF Deed
  <2>4. bus = {}
    BY <1>5, <2>2
  <2> HIDE DEF bus
  <2>5. ClaimsAreDeeds'
    BY <1>3, <2>3, <2>4 DEF ClaimsAreDeeds
  <2>6. HandlersAreEnabled'
    BY <1>2, <1>3, <1>6, <2>1 DEF HandlersAreEnabled
  <2> QED
    BY <2>5, <2>6
<1> QED
  BY <1>8, <1>9

\* The arithmetic instructions.
LEMMA ArithmeticIInv ==
  ASSUME IInv, NEW in \in Instructions, Arithmetic(in)
  PROVE  IInv'
<1>1. IsCpu(cpu)' /\ (~lapsed' => Agree(known, cpu)')
  BY ArithmeticRegisters
<1>2. ~lapsed' => ~lapsed
  BY DEF Arithmetic
<1>3. ~lapsed' => ClaimsAreDeeds' /\ HandlersAreEnabled'
  BY <1>2, ArithmeticClaims
<1> QED
  BY <1>1, <1>3 DEF IInv

-------------------------------------------------------------------------------
(* Branches and the stack.                                                 *)

\* Whatever called code leaves in the registers.
LEMMA AnyRegistersIsCpu ==
  ASSUME NEW sp \in Words, NEW c \in AnyRegisters(sp)
  PROVE  IsCpu(c) /\ c["sp"] = sp
<1>1. PICK f \in [Halves -> Bytes] :
        c = [r \in Halves \cup {"sp"} |-> IF r = "sp" THEN sp ELSE f[r]]
  BY Zenon DEF AnyRegisters
<1>2. "sp" \notin Halves
  BY RegisterKinds
<1> QED
  BY <1>1, <1>2, Values DEF IsCpu, File

\* An instruction that leaves the platform alone and claims no more than happens.
LEMMA Quiet ==
  ASSUME IInv, UNCHANGED <<named, enabled>>, ~lapsed' => ~lapsed,
         claims'.refs = {}, claims'.bus = {}, claims'.jumps \subseteq deeds'.jumps,
         IsCpu(cpu)' /\ (~lapsed' => Agree(known, cpu)')
  PROVE  IInv'
<1>1. ClaimsAreDeeds'
  BY DEF ClaimsAreDeeds
<1>2. ~lapsed' => HandlersAreEnabled'
  BY DEF IInv, HandlersAreEnabled
<1> QED
  BY <1>1, <1>2 DEF IInv

\* Where nothing happens to the registers, what is known stays true.
LEMMA SameRegisters ==
  ASSUME IInv, UNCHANGED <<cpu, known, lapsed>>
  PROVE  IsCpu(cpu)' /\ (~lapsed' => Agree(known, cpu)')
BY DEF IInv, IsCpu, Agree

\* call: all but sp is forgotten (_sm83_forget_all).
LEMMA CallIInv ==
  ASSUME IInv, NEW in \in Instructions, Call(in)
  PROVE  IInv'
<1>1. IsCpu(cpu) /\ (~lapsed => Agree(known, cpu))
  BY DEF IInv
<1>2. "sp" \in File /\ cpu["sp"] \in Words
  BY <1>1 DEF IsCpu, File
<1>3. IsCpu(cpu') /\ cpu'["sp"] = cpu["sp"]
  <2>1. cpu' \in AnyRegisters(cpu["sp"]) \cup {cpu}
    BY DEF Call
  <2> QED
    BY <2>1, <1>1, <1>2, AnyRegistersIsCpu
<1>4. ASSUME ~lapsed' PROVE Agree(known', cpu')
  <2>1. Agree(known, cpu)
    BY <1>1, <1>4 DEF Call
  <2>2. known' = [r \in File |-> IF r = "sp" THEN known[r] ELSE Unknown]
    BY <2>1 DEF Call, ForgetAll, Agree
  <2> QED
    BY <2>1, <2>2, <1>2, <1>3 DEF Agree
<1>5. IsCpu(cpu)' /\ (~lapsed' => Agree(known, cpu)')
  BY <1>3, <1>4 DEF IsCpu, Agree
<1>6. /\ claims'.refs = {} /\ claims'.bus = {} /\ claims'.jumps = deeds'.jumps
      /\ UNCHANGED <<named, enabled, lapsed>>
  BY DEF Call, Claim, Deed
<1> QED
  BY <1>5, <1>6, Quiet

\* rst: nothing is forgotten, so nothing may have been known.
LEMMA RstIInv ==
  ASSUME IInv, NEW in \in Instructions, Rst(in)
  PROVE  IInv'
<1>1. IsCpu(cpu) /\ (~lapsed => Agree(known, cpu))
  BY DEF IInv
<1>2. "sp" \in File /\ cpu["sp"] \in Words
  BY <1>1 DEF IsCpu, File
<1>3. IsCpu(cpu') /\ cpu'["sp"] = cpu["sp"]
  BY <1>2, AnyRegistersIsCpu DEF Rst
<1>4. ASSUME ~lapsed' PROVE Agree(known', cpu')
  <2>1. ~lapsed /\ (\A r \in Halves : known[r] = Unknown) /\ known' = known
    BY <1>4 DEF Rst
  <2>2. Agree(known, cpu)
    BY <1>1, <2>1
  <2> QED
    BY <2>1, <2>2, <1>3 DEF Agree, File
<1>5. IsCpu(cpu)' /\ (~lapsed' => Agree(known, cpu)')
  BY <1>3, <1>4 DEF IsCpu, Agree
<1>6. /\ claims'.refs = {} /\ claims'.bus = {} /\ claims'.jumps = {}
      /\ UNCHANGED <<named, enabled>> /\ (~lapsed' => ~lapsed)
  BY DEF Rst, Claim
<1>7. claims'.jumps \subseteq deeds'.jumps
  BY <1>6
<1> QED
  BY <1>5, <1>6, <1>7, Quiet

\* jp nn, jr e8, ret, reti: the registers are left alone.
LEMMA FlowIInv ==
  ASSUME IInv, NEW in \in Instructions, Jump(in) \/ Return(in)
  PROVE  IInv'
<1>1. /\ claims'.refs = {} /\ claims'.bus = {} /\ claims'.jumps = deeds'.jumps
      /\ UNCHANGED <<cpu, known, named, enabled, lapsed>>
  BY DEF Jump, Return, Claim, Deed
<1>2. IsCpu(cpu)' /\ (~lapsed' => Agree(known, cpu)')
  BY <1>1, SameRegisters
<1> QED
  BY <1>1, <1>2, Quiet

\* jp hl: what is known of hl is where it goes.
LEMMA JumpHLIInv ==
  ASSUME IInv, NEW in \in Instructions, JumpHL(in)
  PROVE  IInv'
<1>1. /\ claims'.refs = {} /\ claims'.bus = {}
      /\ claims'.jumps \subseteq {Get(known, "hl")} \ {Unknown}
      /\ deeds'.jumps = {Get(cpu, "hl")}
      /\ UNCHANGED <<cpu, known, named, enabled, lapsed>>
  BY DEF JumpHL, Claim, Deed
<1>2. IsCpu(cpu)' /\ (~lapsed' => Agree(known, cpu)')
  BY <1>1, SameRegisters
<1>3. "hl" \in Registers
  BY InstructionOperands DEF IsInstruction, JumpHL, Registers
<1>4. CASE ~lapsed
  <2>1. Get(known, "hl") \in {Unknown, Get(cpu, "hl")}
    BY <1>3, <1>4, GetAgrees DEF IInv
  <2>2. claims'.jumps \subseteq deeds'.jumps
    BY <2>1, <1>1
  <2> QED
    BY <2>2, <1>1, <1>2, Quiet
<1>5. CASE lapsed
  BY <1>1, <1>2, <1>5 DEF IInv
<1> QED
  BY <1>4, <1>5

\* push, with a ret behind it or without: sp moves.
LEMMA PushIInv ==
  ASSUME IInv, NEW in \in Instructions, Push(in)
  PROVE  IInv'
<1> DEFINE v == cpu["sp"] + Size("sp") - 2
<1>1. IsCpu(cpu) /\ (~lapsed => Agree(known, cpu))
  BY DEF IInv
<1>2. "sp" \in File /\ "sp" \in Registers /\ in.dst.reg \in Registers
  BY InstructionOperands, OperandFields DEF File, Registers
<1>3. v \in Nat
  <2>1. cpu["sp"] \in Nat
    BY <1>1, <1>2, Values DEF IsCpu
  <2>2. Byte \in Nat /\ Byte >= 2
    BY Values
  <2>3. Byte * Byte >= 2 * Byte
    BY <2>2
  <2>4. Size("sp") = Byte * Byte /\ Byte * Byte \in Nat
    BY <2>2 DEF Size
  <2> QED
    BY <2>1, <2>2, <2>3, <2>4
<1>4. /\ claims'.refs = {} /\ claims'.bus = {}
      /\ claims'.jumps = IF in.ret /\ Get(known, in.dst.reg) # Unknown
                           THEN {Get(known, in.dst.reg)} ELSE {}
      /\ deeds'.jumps = IF in.ret THEN {Get(cpu, in.dst.reg)} ELSE {}
      /\ cpu' = Set(cpu, "sp", v)
      /\ lapsed' = (lapsed \/ known["sp"] # Unknown)
      /\ UNCHANGED <<known, named, enabled>>
  BY DEF Push, Claim, Deed
<1> HIDE DEF v
<1>5. IsCpu(cpu')
  BY <1>1, <1>2, <1>3, <1>4, SetIsCpu
<1>6. ASSUME ~lapsed' PROVE Agree(known', cpu')
  <2>1. Agree(known, cpu) /\ known["sp"] = Unknown
    BY <1>1, <1>4, <1>6
  <2>2. Forget(known, "sp") = known
    BY <2>1, <1>2, RegisterKinds DEF Forget, Agree
  <2>3. Agree(Forget(known, "sp"), Set(cpu, "sp", v))
    BY <2>1, <1>1, <1>2, <1>3, ForgetAgrees
  <2> QED
    BY <2>2, <2>3, <1>4
<1>7. IsCpu(cpu)' /\ (~lapsed' => Agree(known, cpu)')
  BY <1>5, <1>6 DEF IsCpu, Agree
<1>8. CASE ~lapsed
  <2>1. Get(known, in.dst.reg) \in {Unknown, Get(cpu, in.dst.reg)}
    BY <1>1, <1>2, <1>8, GetAgrees
  <2>2. claims'.jumps \subseteq deeds'.jumps
    BY <2>1, <1>4
  <2> QED
    BY <2>2, <1>4, <1>7, <1>8, Quiet
<1>9. CASE lapsed
  BY <1>4, <1>7, <1>9 DEF IInv
<1> QED
  BY <1>8, <1>9

-------------------------------------------------------------------------------
(* The theorems.                                                           *)

\* Nothing is known at first (rd_del_regval_id of every register).
LEMMA InitIInv ==
  ASSUME Init
  PROVE  IInv
<1>1. IsCpu(cpu)
  BY AnyRegistersIsCpu DEF Init
<1>2. Agree(known, cpu)
  BY DEF Init, Agree, File
<1>3. ClaimsAreDeeds /\ HandlersAreEnabled
  BY DEF Init, Nothing, ClaimsAreDeeds, HandlersAreEnabled
<1> QED
  BY <1>1, <1>2, <1>3 DEF IInv

\* A state that does not change keeps what it is.
LEMMA StutterIInv ==
  ASSUME IInv, UNCHANGED vars
  PROVE  IInv'
BY DEF IInv, vars, IsCpu, Agree, ClaimsAreDeeds, HandlersAreEnabled

\* The registers are bytes and words, and until lapsed what sm83_emulate knows
\* of them agrees with the CPU, and what it claims happens.
THEOREM InductiveInvariant == Spec => []IInv
<1>1. Init => IInv
  BY InitIInv
<1>2. IInv /\ [Next]_vars => IInv'
  <2> SUFFICES ASSUME IInv, [Next]_vars PROVE IInv'
    OBVIOUS
  <2>1. CASE Emulate
    <3>1. PICK in \in Instructions :
            \/ Ld(in) \/ Arithmetic(in) \/ Call(in) \/ Rst(in)
            \/ Jump(in) \/ JumpHL(in) \/ Push(in) \/ Return(in)
      BY <2>1, Zenon DEF Emulate
    <3>2. CASE Ld(in)
      BY <3>2, LdIInv
    <3>3. CASE Arithmetic(in)
      BY <3>3, ArithmeticIInv
    <3>4. CASE Call(in)
      BY <3>4, CallIInv
    <3>5. CASE Rst(in)
      BY <3>5, RstIInv
    <3>6. CASE Jump(in) \/ Return(in)
      BY <3>6, FlowIInv
    <3>7. CASE JumpHL(in)
      BY <3>7, JumpHLIInv
    <3>8. CASE Push(in)
      BY <3>8, PushIInv
    <3> QED
      BY <3>1, <3>2, <3>3, <3>4, <3>5, <3>6, <3>7, <3>8
  <2>2. CASE PathEnds \/ UNCHANGED vars
    BY <2>2, StutterIInv DEF PathEnds
  <2> QED
    BY <2>1, <2>2 DEF Next
<1> QED
  BY <1>1, <1>2, PTL DEF Spec

\* Until a register has changed behind the code's back, what it knows of the
\* registers is what the CPU has there, whatever instructions came before.
THEOREM KnownIsTrueUntilLapsed == Spec => []KnownUntilLapsed
<1>1. IInv => KnownUntilLapsed
  BY DEF IInv, Agree, File, KnownUntilLapsed, KnownIsTrue
<1> QED
  BY <1>1, InductiveInvariant, PTL

\* Every reference, bus write and jump reported of an instruction is one it makes.
THEOREM ClaimsHappen == Spec => []ClaimsAreDeeds
<1>1. IInv => ClaimsAreDeeds
  BY DEF IInv, ClaimsAreDeeds
<1> QED
  BY <1>1, InductiveInvariant, PTL

\* The handlers that become functions are of interrupts the program has enabled.
THEOREM OnlyEnabledHandlers == Spec => []HandlersAreEnabled
<1>1. IInv => HandlersAreEnabled
  BY DEF IInv, HandlersAreEnabled
<1> QED
  BY <1>1, InductiveInvariant, PTL

\* _sm83_categorize looks for a condition in jr, call and ret, not in jp.
LosesFlow ==
  \E in \in Instructions : in.id = "jp" /\ in.cond /\ Jump(in)

\* Any other instruction is followed wherever the CPU may go on.
LEMMA FlowStep ==
  ASSUME Emulate
  PROVE  FlowKept' \/ LosesFlow
<1>1. PICK in \in Instructions :
        \/ Ld(in) \/ Arithmetic(in) \/ Call(in) \/ Rst(in)
        \/ Jump(in) \/ JumpHL(in) \/ Push(in) \/ Return(in)
  BY Zenon DEF Emulate
<1>2. CASE Ld(in) \/ Arithmetic(in) \/ Call(in) \/ Rst(in) \/ Push(in)
  <2>1. \E refs, bus, jumps, marks : Claim(refs, bus, jumps, marks, TRUE)
    <3>1. Ld(in) => Claim(Accesses(in, TRUE, FALSE), BusWrites(in, TRUE, FALSE),
                          {}, Marks(in), TRUE)
      BY Zenon DEF Ld
    <3>2. Arithmetic(in) => \E refs, bus, marks : Claim(refs, bus, {}, marks, TRUE)
      BY Zenon DEF Arithmetic
    <3>3. Call(in) \/ Rst(in) => \E jumps : Claim({}, {}, jumps, {}, TRUE)
      BY Zenon DEF Call, Rst
    <3>4. Push(in) => \E jumps : Claim({}, {}, jumps, {}, TRUE)
      BY Zenon DEF Push
    <3> QED
      BY <1>2, <3>1, <3>2, <3>3, <3>4, Zenon
  <2>2. claims'.flow = TRUE
    BY <2>1 DEF Claim
  <2> QED
    BY <2>2 DEF FlowKept
<1>3. CASE JumpHL(in)
  <2>1. deeds'.flow = FALSE
    BY <1>3 DEF JumpHL, Deed
  <2> QED
    BY <2>1 DEF FlowKept
<1>4. CASE Return(in)
  <2>1. claims'.flow = in.cond /\ deeds'.flow = in.cond
    BY <1>4 DEF Return, Claim, Deed
  <2> QED
    BY <2>1 DEF FlowKept
<1>5. CASE Jump(in)
  <2>1. /\ claims'.flow = (in.id = "jr" /\ in.cond) /\ deeds'.flow = in.cond
        /\ in.id \in {"jp", "jr"}
    BY <1>5 DEF Jump, Claim, Deed
  <2>2. CASE in.id = "jp" /\ in.cond
    BY <1>5, <2>2, Zenon DEF LosesFlow
  <2>3. CASE ~(in.id = "jp" /\ in.cond)
    BY <2>1, <2>3 DEF FlowKept
  <2> QED
    BY <2>2, <2>3
<1> QED
  BY <1>1, <1>2, <1>3, <1>4, <1>5

\* Only a jp with a condition ever has the analysis stop where the CPU may go on.
THEOREM OnlyConditionalJpLosesFlow == Spec => [][FlowKept' \/ LosesFlow]_vars
<1>1. [Next]_vars => [FlowKept' \/ LosesFlow]_vars
  BY FlowStep, Zenon DEF Next, PathEnds
<1> QED
  BY <1>1, PTL DEF Spec

\* What an arithmetic instruction changes in memory is its first operand: so in
\* the opcode tables, but for set and res of [hl].
FirstOperands ==
  \A in \in Instructions :
    in.id \in Arithmetics /\ IsMemory(Target(in)) => in.id \in InPlace \ {"bits"}

\* A load or store that reaches memory is on the bus if its address is known.
LEMMA LdReports ==
  ASSUME IInv, NEW in \in Instructions, Ld(in)
  PROVE  StoresAreReported'
<1> SUFFICES ASSUME ~lapsed', NEW d \in deeds'.bus, d.traced
             PROVE  \E w \in claims'.bus : w.at = d.at
  BY DEF StoresAreReported
<1>1. Agree(known, cpu) /\ IsCpu(cpu)
  BY DEF IInv, Ld
<1>2. PICK v \in SourceValues(in.src) :
        IF IsMemory(in.dst)
          THEN Deed({Ref("write", Address(cpu, in.dst))}, {Stored(in.dst, v)}, {}, TRUE)
          ELSE Deed(IF IsMemory(in.src) THEN {Ref("read", Address(cpu, in.src))}
                    ELSE {}, {}, {}, TRUE)
  BY Zenon DEF Ld
<1>3. IsMemory(in.dst) /\ d = Stored(in.dst, v)
  BY <1>2 DEF Deed
<1>4. d.at = Address(cpu, in.dst) /\ Address(known, in.dst) # Unknown
  BY <1>3 DEF Stored
<1>5. Address(known, in.dst) = d.at
  BY <1>1, <1>4, InstructionOperands, AddressAgrees
<1>6. claims'.bus = {Write(d.at, StoredValue(in.src))}
  BY <1>3, <1>4, <1>5 DEF Ld, Claim, BusWrites
<1> QED
  BY <1>6 DEF Write

\* So is what an arithmetic instruction changes in memory.
LEMMA ArithmeticReports ==
  ASSUME FirstOperands, IInv, NEW in \in Instructions, Arithmetic(in)
  PROVE  StoresAreReported'
<1> SUFFICES ASSUME ~lapsed', NEW d \in deeds'.bus, d.traced
             PROVE  \E w \in claims'.bus : w.at = d.at
  BY DEF StoresAreReported
<1>1. Agree(known, cpu) /\ IsCpu(cpu) /\ in.id \in Arithmetics
  BY DEF IInv, Arithmetic
<1>2. IsMemory(Target(in)) /\ \E v \in Bytes : d = Stored(Target(in), v)
  <2>1. CASE IsMemory(Target(in))
    <3>1. \E v \in Bytes : Deed({Ref("read", Address(cpu, Target(in))),
                                Ref("write", Address(cpu, Target(in)))},
                               {Stored(Target(in), v)}, {}, TRUE)
      BY <2>1, Zenon DEF Arithmetic
    <3> QED
      BY <2>1, <3>1 DEF Deed
  <2>2. CASE ~IsMemory(Target(in))
    <3>1. Deed(IF IsMemory(in.src) THEN {Ref("read", Address(cpu, in.src))} ELSE {},
               {}, {}, TRUE)
      BY <2>2, Zenon DEF Arithmetic
    <3> QED
      BY <3>1 DEF Deed
  <2> QED
    BY <2>1, <2>2
<1>3. in.id \in InPlace \ {"bits"}
  BY <1>1, <1>2 DEF FirstOperands
<1>4. Target(in) = in.dst
  BY <1>3 DEF Target, InPlace, ImplicitA
<1>5. d.at = Address(cpu, in.dst) /\ Address(known, in.dst) # Unknown
  <2>1. PICK v \in Bytes : d = Stored(in.dst, v)
    BY <1>2, <1>4
  <2>2. d.at = Address(cpu, in.dst) /\ d.traced = (Address(known, in.dst) # Unknown)
    BY <2>1 DEF Stored
  <2> QED
    BY <2>2
<1>6. Address(known, in.dst) = d.at
  BY <1>1, <1>5, InstructionOperands, AddressAgrees
<1>7. claims'.bus = BusWrites(in, FALSE, TRUE)
  BY <1>3 DEF Arithmetic, Claim
<1>8. claims'.bus = {Write(d.at, Unknown)}
  BY <1>2, <1>4, <1>5, <1>6, <1>7 DEF BusWrites
<1> QED
  BY <1>8 DEF Write

\* In code without such a set or res, a store whose address the code can tell is
\* always written on the bus, at that address, until lapsed.
THEOREM TracedStoresAreReported == FirstOperands => (Spec => []StoresAreReported)
<1> SUFFICES ASSUME FirstOperands PROVE Spec => []StoresAreReported
  OBVIOUS
<1>1. Init => StoresAreReported
  BY DEF Init, Nothing, StoresAreReported
<1>2. IInv /\ StoresAreReported /\ [Next]_vars => StoresAreReported'
  <2> SUFFICES ASSUME IInv, StoresAreReported, [Next]_vars PROVE StoresAreReported'
    OBVIOUS
  <2>1. CASE Emulate
    <3>1. PICK in \in Instructions :
            \/ Ld(in) \/ Arithmetic(in) \/ Call(in) \/ Rst(in)
            \/ Jump(in) \/ JumpHL(in) \/ Push(in) \/ Return(in)
      BY <2>1, Zenon DEF Emulate
    <3>2. CASE Ld(in)
      BY <3>2, LdReports
    <3>3. CASE Arithmetic(in)
      BY <3>3, ArithmeticReports
    <3>4. CASE Call(in) \/ Rst(in) \/ Jump(in) \/ JumpHL(in) \/ Push(in) \/ Return(in)
      <4>1. \E jumps, flow : Deed({}, {}, jumps, flow)
        <5>1. Call(in) \/ Rst(in) => Deed({}, {}, {in.to}, TRUE)
          BY Zenon DEF Call, Rst
        <5>2. Jump(in) => Deed({}, {}, {in.to}, in.cond)
          BY Zenon DEF Jump
        <5>3. JumpHL(in) => Deed({}, {}, {Get(cpu, "hl")}, FALSE)
          BY Zenon DEF JumpHL
        <5>4. Push(in) => Deed({}, {}, IF in.ret THEN {Get(cpu, in.dst.reg)} ELSE {}, TRUE)
          BY Zenon DEF Push
        <5>5. Return(in) => Deed({}, {}, {}, in.cond)
          BY Zenon DEF Return
        <5> QED
          BY <3>4, <5>1, <5>2, <5>3, <5>4, <5>5, Zenon
      <4>2. deeds'.bus = {}
        BY <4>1 DEF Deed
      <4> QED
        BY <4>2 DEF StoresAreReported
    <3> QED
      BY <3>1, <3>2, <3>3, <3>4
  <2>2. CASE PathEnds \/ UNCHANGED vars
    BY <2>2 DEF PathEnds, vars, StoresAreReported
  <2> QED
    BY <2>1, <2>2 DEF Next
<1> QED
  BY <1>1, <1>2, InductiveInvariant, PTL DEF Spec

-----------------------------------------------------------------------------
(* The Game Boy as a whole.                                                *)

\* The loader does in it what it does alone, and so does the processor: what
\* holds of either holds there.
THEOREM PartsStayThemselves == GameBoySpec => GbSpec /\ Spec
  <1>1. GameBoyInit => GbInit /\ Init
    BY DEF GameBoyInit
  <1>2. [GameBoyNext]_<<gbvars, vars>> => [GbNext]_gbvars /\ [Next]_vars
    BY Zenon DEF GameBoyNext, LoadImage, FollowProgram
  <1>. QED BY <1>1, <1>2, PTL DEF GameBoySpec, GbSpec, Spec
===============================================================================
