---------------------------- MODULE NeRelocsProofs ----------------------------
(***************************************************************************)
(* The relocations of a New Executable, for files of any size: what the    *)
(* walk over the tables does with the tables that are intact, and what the *)
(* slots of the imports are good for.                                      *)
(*                                                                         *)
(* IntactTablesWalked is not inductive: that a record is taken from its    *)
(* own place depends on where the reader stands, which depends on every    *)
(* import by name having been resolved, which depends on the room that     *)
(* next_off says is left in a slot.  IInv ties the three together.         *)
(***************************************************************************)
EXTENDS NeRelocs, FiniteSets, FiniteSetTheorems, TLAPS

Loops == {"relocs", "records", "entry", "loaded"}

TypeInv ==
  /\ input \in Inputs
  /\ pc \in Loops \cup {"segments", "imports", "rejected"}
  /\ seg \in Nat \ {0} /\ i \in Nat /\ count \in Nat /\ reader \in Nat
  /\ next_off \in [1 .. Len(input.mods) -> Nat]
  /\ seen \subseteq Nat \X Nat \X Record

\* Nothing is relocated before the slots of the imports are there, and no
\* record is handled ahead of the loops.
InPhase ==
  /\ pc \notin Loops => seen = {} /\ DOMAIN named = {}
  /\ pc = "records" => seg <= SegCount
  /\ \A h \in seen : /\ pc = "relocs" => h[1] < seg
                     /\ pc = "records" => h[1] <= seg

\* The first n records of the table of segment s are done, each as itself.
Walked(s, n) ==
  /\ \A k \in 0 .. n - 1 : <<s, k, input.segs[s].table[k + 1]>> \in seen
  /\ \A h \in seen : h[1] = s =>
       h[2] \in 0 .. n - 1 /\ h[3] = input.segs[s].table[h[2] + 1]

\* In an intact table the reader stands at the record of the iteration.
AtRecord ==
  pc = "records" /\ Intact(seg) =>
    /\ count = input.segs[seg].count
    /\ reader = i + 1
    /\ i <= count
    /\ Walked(seg, i)

Past(s) == pc \in {"entry", "loaded"} \/ (pc \in {"relocs", "records"} /\ s < seg)

TablesDone ==
  \A s \in 1 .. SegCount : Past(s) /\ Intact(s) => Walked(s, input.segs[s].count)

SlotBase(m) == SegAddress(ModuleSlot(m), 0)

\* There is always room for one more import, if need be at the start again.
NextInSlot ==
  \A m \in 1 .. Len(input.mods) : \E k \in Nat : next_off[m] = 2 * k /\ 2 * k < Slot

\* An address handed out is in the slot of a module of the name's module name.
InSlot(a, m) == \E k \in Nat : k + 2 <= Slot /\ a = SegAddress(ModuleSlot(m), k)

NamesInSlots ==
  \A n \in DOMAIN named :
    \E m \in 1 .. Len(input.mods) :
      KnownModule(m) /\ n[1] = ModuleName(m) /\ InSlot(named[n], m)

SlotsMapped ==
  \A m \in 1 .. Len(input.mods) :
    pc \in Loops \/ (pc = "imports" /\ m < seg) =>
      \E t \in segments : t.base = SlotBase(m) /\ t.size = Slot

\* Every import record that was handled has its call site patched.
Applied(s, rec) ==
  \E f \in fixups :
    /\ f.rec = rec
    /\ f.site = SegAddress(s, rec.site)
    /\ Asked(rec) \in DOMAIN named
    /\ f.to = named[Asked(rec)]

RecordsApplied ==
  \A h \in seen :
    ImportRecord(h[3]) /\ (h[3].target = "name" => input.names[h[3].name] # Empty) =>
      Applied(h[1], h[3])

\* The inductive invariant.
IInv ==
  /\ TypeInv
  /\ InPhase
  /\ AtRecord
  /\ TablesDone
  /\ NextInSlot
  /\ NamesInSlots
  /\ SlotsMapped
  /\ RecordsApplied

-----------------------------------------------------------------------------
(* Room in the slots.                                                      *)

\* The imports that carry the name of module reference m.
NamesOf(m) == {n \in DOMAIN named : n[1] = ModuleName(m)}

\* No module has more imports than its slot has room for.
Room == \A m \in 1 .. Len(input.mods) : 2 * Cardinality(NamesOf(m)) <= Slot

\* As long as there is room next_off has not gone round, and is behind all
\* addresses handed out in its slot.
NextIsFresh ==
  /\ IsFiniteSet(DOMAIN named)
  /\ \A m \in 1 .. Len(input.mods) :
       KnownModule(m) /\ 2 * Cardinality(NamesOf(m)) < Slot =>
         /\ next_off[m] <= 2 * Cardinality(NamesOf(m))
         /\ \A n \in DOMAIN named : InSlot(named[n], m) =>
              named[n] < SlotBase(m) + next_off[m]

\* No two module references have the same name.
DistinctModules ==
  \A m, n \in 1 .. Len(input.mods) :
    KnownModule(m) /\ KnownModule(n) /\ ModuleName(m) = ModuleName(n) => m = n

-----------------------------------------------------------------------------
(* What the file fixes.                                                    *)

\* The tables of a file have lengths, and so have the tables of relocations.
LEMMA TableLengths ==
  ASSUME input \in Inputs
  PROVE  /\ SegCount \in Nat /\ Len(input.mods) \in Nat
         /\ \A s \in 1 .. SegCount :
              /\ input.segs[s].count \in Nat
              /\ Len(input.segs[s].table) \in Nat
              /\ \A k \in 1 .. Len(input.segs[s].table) :
                   input.segs[s].table[k] \in Record
         /\ input.records \subseteq Record
  <1> DEFINE S == [sector : Nat, bytes : Nat, alloc : Nat, relocs : BOOLEAN,
                   count : Nat, table : Seq(Record)]
  <1>1. /\ input.segs \in Seq(S)
        /\ input.mods \in Seq(Modules \cup {Eof, Empty})
        /\ input.records \subseteq Record
    BY InputsAssumption
  <1>2. \A x \in S : x.count \in Nat /\ x.table \in Seq(Record)
    OBVIOUS
  <1> HIDE DEF S
  <1>3. \A s \in 1 .. Len(input.segs) : input.segs[s] \in S
    BY <1>1
  <1>4. \A t \in Seq(Record) : Len(t) \in Nat /\ \A k \in 1 .. Len(t) : t[k] \in Record
    OBVIOUS
  <1>. QED BY <1>1, <1>2, <1>3, <1>4 DEF SegCount

\* What is said of the file does not change with the state.
LEMMA FileStays ==
  ASSUME input' = input
  PROVE  /\ SegCount' = SegCount
         /\ \A s : Intact(s)' <=> Intact(s)
         /\ \A s : HasRelocs(s)' <=> HasRelocs(s)
         /\ \A m : KnownModule(m)' <=> KnownModule(m)
         /\ \A m : ModuleName(m)' = ModuleName(m)
         /\ \A m : SlotBase(m)' = SlotBase(m)
         /\ \A a, m : InSlot(a, m)' <=> InSlot(a, m)
         /\ \A rec : Asked(rec)' = Asked(rec)
         /\ \A rec : ImportRecord(rec)' <=> ImportRecord(rec)
  <1>1. SegCount' = SegCount
    BY DEF SegCount
  <1>2. \A m : ModuleName(m)' = ModuleName(m)
    BY DEF ModuleName
  <1>3. \A m : KnownModule(m)' <=> KnownModule(m)
    BY <1>2 DEF KnownModule
  <1>4. \A s : HasRelocs(s)' <=> HasRelocs(s)
    BY DEF HasRelocs
  <1>5. \A s : TableThere(s)' <=> TableThere(s)
    BY DEF TableThere
  <1>6. ASSUME NEW s PROVE Intact(s)' <=> Intact(s)
    BY <1>3, <1>4, <1>5 DEF Intact
  <1>7. \A m : ModuleSlot(m)' = ModuleSlot(m)
    BY <1>1 DEF ModuleSlot
  <1>8. \A m : SlotBase(m)' = SlotBase(m)
    BY <1>7 DEF SlotBase
  <1>9. \A a, m : InSlot(a, m)' <=> InSlot(a, m)
    BY <1>7 DEF InSlot
  <1>10. \A rec : Asked(rec)' = Asked(rec)
    BY <1>2 DEF Asked, ImportName
  <1>11. \A rec : ImportRecord(rec)' <=> ImportRecord(rec)
    BY <1>3 DEF ImportRecord
  <1>. QED BY <1>1, <1>2, <1>3, <1>4, <1>6, <1>8, <1>9, <1>10, <1>11

\* The file is never changed.
LEMMA InputStays ==
  ASSUME [Next]_vars
  PROVE  input' = input
  BY DEF Next, Step, Terminating, vars, LoadSegment, SegmentsLoaded, NoSegments, BuildImport,
         ImportsBuilt, SkipSegment, BeginRelocs, HandleRecord, EndRelocs, RelocsLoaded,
         SetEntryPoint, NextPhase, InternalRef, ImportByOrdinal, ImportByName, OtherReloc,
         Advance

-----------------------------------------------------------------------------
(* Slots.                                                                  *)

\* Addresses of a flat space of slots are those of one slot and one offset.
LEMMA SlotsAreApart ==
  ASSUME NEW s \in Nat, NEW t \in Nat, NEW a \in Nat, NEW b \in Nat,
         a < Slot, b < Slot, SegAddress(s, a) = SegAddress(t, b)
  PROVE  s = t /\ a = b
  <1>1. Slot \in Nat /\ s * Slot + a = t * Slot + b
    BY SlotAssumption DEF SegAddress
  <1>2. ASSUME NEW x \in Nat, NEW y \in Nat, x < y
        PROVE  x * Slot + Slot <= y * Slot
    <2>1. PICK d \in Nat : y = x + 1 + d
      <3>1. y - x - 1 \in Nat /\ y = x + 1 + (y - x - 1)
        BY <1>2
      <3>. QED BY <3>1
    <2>2. y * Slot = x * Slot + Slot + d * Slot
      BY <1>1, <2>1
    <2>3. d * Slot \in Nat /\ x * Slot \in Nat
      BY <1>1
    <2>. QED BY <1>1, <2>2, <2>3
  <1>3. s * Slot \in Nat /\ t * Slot \in Nat
    BY <1>1
  <1>4. ~(s < t)
    BY <1>1, <1>2, <1>3
  <1>5. ~(t < s)
    BY <1>1, <1>2, <1>3
  <1>6. s = t
    BY <1>4, <1>5
  <1>. QED BY <1>1, <1>3, <1>6

\* "import_addr & 0xFFFF" is the offset in the slot.
LEMMA OffsetInSlot ==
  ASSUME NEW s \in Nat, NEW a \in Nat, a < Slot
  PROVE  SegAddress(s, a) % Slot = a
  <1> DEFINE x == s * Slot + a
             q == x \div Slot
             r == x % Slot
  <1>1. Slot \in Nat /\ Slot > 0
    BY SlotAssumption
  <1>2. x \in Nat
    BY <1>1
  <1>3. q \in Nat /\ r \in Nat /\ r < Slot /\ x = q * Slot + r
    BY <1>1, <1>2
  <1>4. SegAddress(s, a) = x /\ SegAddress(q, r) = q * Slot + r
    BY DEF SegAddress
  <1>5. SegAddress(s, a) = SegAddress(q, r)
    BY <1>3, <1>4
  <1> HIDE DEF q, r, x
  <1>6. a = r
    BY <1>3, <1>5, SlotsAreApart
  <1>. QED BY <1>4, <1>6 DEF r

\* Offsets that are even never come upon the end of a slot with one byte left.
LEMMA EvenRoom ==
  ASSUME NEW k \in Nat, 2 * k < Slot
  PROVE  /\ 2 * k + 2 <= Slot
         /\ \E j \in Nat : (2 * k + 2) % Slot = 2 * j /\ 2 * j < Slot
         /\ 2 * k + 2 < Slot => (2 * k + 2) % Slot = 2 * k + 2
  <1> DEFINE h == Slot \div 2
  <1>1. Slot \in Nat /\ Slot > 0 /\ Slot % 2 = 0
    BY SlotAssumption
  <1>2. h \in Nat /\ Slot = 2 * h
    BY <1>1
  <1> HIDE DEF h
  <1>3. 2 * k + 2 <= Slot
    BY <1>2
  <1>4. CASE 2 * k + 2 < Slot
    <2>1. (2 * k + 2) % Slot = 2 * k + 2
      BY <1>1, <1>4
    <2> DEFINE j == k + 1
    <2>2. j \in Nat /\ (2 * k + 2) % Slot = 2 * j /\ 2 * j < Slot
      BY <1>4, <2>1
    <2> HIDE DEF j
    <2>3. \E x \in Nat : (2 * k + 2) % Slot = 2 * x /\ 2 * x < Slot
      BY <2>2, Zenon
    <2>. QED BY <1>3, <2>1, <2>3, Zenon
  <1>5. CASE 2 * k + 2 = Slot
    <2>1. (2 * k + 2) % Slot = 0
      BY <1>1, <1>5
    <2>2. 0 \in Nat /\ 0 = 2 * 0 /\ 2 * 0 < Slot
      BY <1>1
    <2>3. \E x \in Nat : (2 * k + 2) % Slot = 2 * x /\ 2 * x < Slot
      BY <2>1, <2>2, Zenon
    <2>4. ~(2 * k + 2 < Slot)
      BY <1>1, <1>5
    <2>. QED BY <1>3, <2>3, <2>4, Zenon
  <1>6. 2 * k + 2 < Slot \/ 2 * k + 2 = Slot
    BY <1>1, <1>3
  <1>. QED BY <1>4, <1>5, <1>6, Zenon

\* Resolving an import of a module that is there yields an address in the slot
\* of a module of that name, and moves no name that has one.
LEMMA Resolved ==
  ASSUME TypeInv, NextInSlot, NamesInSlots, NEW m, KnownModule(m), NEW sym
  PROVE  LET name == ImportName(m, sym)
             res  == Resolve(m, name)
         IN  /\ res.addr # 0
             /\ DOMAIN res.named = DOMAIN named \cup {name}
             /\ res.named[name] = res.addr
             /\ \A n \in DOMAIN named : res.named[n] = named[n]
             /\ \E p \in 1 .. Len(input.mods) :
                  KnownModule(p) /\ ModuleName(p) = ModuleName(m) /\ InSlot(res.addr, p)
             /\ res.next \in Nat
             /\ \E k \in Nat : res.next = 2 * k /\ 2 * k < Slot
             /\ name \notin DOMAIN named => res.addr = SegAddress(ModuleSlot(m), next_off[m])
  <1> DEFINE name == ImportName(m, sym)
             off  == next_off[m]
             addr == SegAddress(ModuleSlot(m), off)
  <1>1. m \in 1 .. Len(input.mods) /\ Len(input.mods) \in Nat /\ SegCount \in Nat
    BY TableLengths DEF TypeInv, KnownModule
  <1>2. PICK k \in Nat : off = 2 * k /\ 2 * k < Slot
    BY <1>1 DEF NextInSlot
  <1>3. name[1] = ModuleName(m)
    BY DEF ImportName
  <1>4. Slot \in Nat /\ Slot > 0 /\ off \in Nat /\ off + 2 <= Slot
    BY <1>2, EvenRoom, SlotAssumption
  <1>5. ModuleSlot(m) \in Nat \ {0}
    BY <1>1 DEF ModuleSlot
  <1>6. \A a, p : p \in 1 .. Len(input.mods) /\ InSlot(a, p) => a # 0
    <2> SUFFICES ASSUME NEW p \in 1 .. Len(input.mods), NEW o \in Nat
                 PROVE  SegAddress(ModuleSlot(p), o) # 0
      BY DEF InSlot
    <2>1. ModuleSlot(p) \in Nat \ {0}
      BY <1>1 DEF ModuleSlot
    <2>2. ModuleSlot(p) * Slot > 0
      BY <1>4, <2>1
    <2>. QED BY <2>2, <1>4, <2>1 DEF SegAddress
  <1> HIDE DEF name, addr
  <1>7. CASE name \in DOMAIN named
    <2>1. Resolve(m, name) = [addr |-> named[name], next |-> off, named |-> named]
      BY <1>7 DEF Resolve
    <2>2. PICK p \in 1 .. Len(input.mods) :
            KnownModule(p) /\ name[1] = ModuleName(p) /\ InSlot(named[name], p)
      BY <1>7 DEF NamesInSlots
    <2>3. named[name] # 0
      BY <1>6, <2>2
    <2>4. DOMAIN named = DOMAIN named \cup {name}
      BY <1>7
    <2>5. \E j \in Nat : off = 2 * j /\ 2 * j < Slot
      BY <1>2, Zenon
    <2>6. ModuleName(p) = ModuleName(m)
      BY <1>3, <2>2
    <2> DEFINE res == Resolve(m, name)
    <2>7. res.addr = named[name] /\ res.next = off /\ res.named = named
      BY <2>1
    <2> HIDE DEF res, off
    <2>. QED BY <1>4, <1>7, <2>2, <2>3, <2>4, <2>5, <2>6, <2>7 DEF name, res
  <1>8. CASE name \notin DOMAIN named
    <2>1. Resolve(m, name) =
            [addr |-> addr, next |-> (off + 2) % Slot,
             named |-> [n \in DOMAIN named \cup {name} |->
                          IF n = name THEN addr ELSE named[n]]]
      <3>1. ~(off + 2 > Slot)
        BY <1>4
      <3>. QED BY <1>8, <3>1 DEF Resolve, addr
    <2>2. InSlot(addr, m)
      BY <1>4 DEF InSlot, addr
    <2>3. PICK j \in Nat : (off + 2) % Slot = 2 * j /\ 2 * j < Slot
      BY <1>2, EvenRoom
    <2>4. (off + 2) % Slot \in Nat
      BY <2>3
    <2>. QED BY <1>1, <1>6, <1>8, <2>1, <2>2, <2>3, <2>4 DEF name, addr
  <1>. QED BY <1>7, <1>8

-----------------------------------------------------------------------------
(* Steps that relocate nothing.                                            *)

\* Where no import and no record is handled, what is said of them stays.
LEMMA NothingRelocated ==
  ASSUME NextInSlot, NamesInSlots, RecordsApplied, input' = input,
         named' = named, fixups' = fixups, seen' = seen, next_off' = next_off
  PROVE  NextInSlot' /\ NamesInSlots' /\ RecordsApplied'
  <1>1. NextInSlot'
    BY DEF NextInSlot
  <1>2. NamesInSlots'
    BY FileStays DEF NamesInSlots
  <1>3. ASSUME NEW s, NEW rec PROVE Applied(s, rec)' <=> Applied(s, rec)
    BY FileStays DEF Applied
  <1>4. RecordsApplied'
    BY <1>3, FileStays DEF RecordsApplied
  <1>. QED BY <1>1, <1>2, <1>4

\* Nor does what has been walked change.
LEMMA WalkedStays ==
  ASSUME input' = input, seen' = seen
  PROVE  \A s, n : Walked(s, n)' <=> Walked(s, n)
  BY DEF Walked

\* At the start nothing is mapped, named or handled.
LEMMA InitIInv ==
  ASSUME Init
  PROVE  IInv
  <1>1. Len(input.mods) \in Nat
    BY TableLengths DEF Init
  <1>2. DOMAIN named = {} /\ seen = {}
    BY DEF Init
  <1>3. TypeInv
    BY <1>1 DEF Init, TypeInv, Loops, Astray
  <1>4. Slot > 0 /\ Slot \in Nat
    BY SlotAssumption
  <1>5. NextInSlot
    <2>1. 0 \in Nat /\ 0 = 2 * 0 /\ 2 * 0 < Slot
      BY <1>4
    <2>2. \A m \in 1 .. Len(input.mods) : next_off[m] = 0
      BY DEF Init
    <2>. QED BY <2>1, <2>2 DEF NextInSlot
  <1>6. pc = "segments"
    BY DEF Init
  <1>7. InPhase /\ AtRecord /\ TablesDone /\ SlotsMapped
    BY <1>2, <1>6 DEF InPhase, AtRecord, TablesDone, Past, SlotsMapped, Loops
  <1>8. NamesInSlots /\ RecordsApplied
    BY <1>2 DEF NamesInSlots, RecordsApplied
  <1>. QED BY <1>3, <1>5, <1>7, <1>8 DEF IInv

\* Mapping segments, with and without file data.
LEMMA LoadSegmentIInv ==
  ASSUME IInv, LoadSegment \/ SegmentsLoaded \/ NoSegments
  PROVE  IInv'
  <1> USE DEF LoadSegment, SegmentsLoaded, NoSegments, NextPhase
  <1>1. /\ input' = input /\ named' = named /\ fixups' = fixups /\ seen' = seen
        /\ next_off' = next_off /\ UNCHANGED <<i, count, reader>>
        /\ pc = "segments" /\ pc' \in {"segments", "imports", "rejected"}
        /\ seg' \in Nat \ {0}
        /\ pc' = "imports" => seg' = 1
    BY DEF IInv, TypeInv
  <1>2. TypeInv'
    BY <1>1 DEF IInv, TypeInv, Loops
  <1>3. seen = {} /\ DOMAIN named = {}
    BY <1>1 DEF IInv, InPhase, Loops
  <1>4. InPhase' /\ AtRecord' /\ TablesDone'
    BY <1>1, <1>3 DEF InPhase, AtRecord, TablesDone, Past, Loops
  <1>5. \A m \in 1 .. Len(input'.mods) : ~(m < 1)
    BY <1>1, TableLengths DEF IInv, TypeInv
  <1>6. SlotsMapped'
    BY <1>1, <1>5 DEF SlotsMapped, Loops
  <1>7. NextInSlot' /\ NamesInSlots' /\ RecordsApplied'
    BY <1>1, NothingRelocated DEF IInv
  <1>. QED BY <1>2, <1>4, <1>6, <1>7 DEF IInv

\* A slot for one more module, with nothing in it.
LEMMA BuildImportIInv ==
  ASSUME IInv, BuildImport
  PROVE  IInv'
  <1> USE DEF BuildImport
  <1>1. /\ input' = input /\ named' = named /\ fixups' = fixups /\ seen' = seen
        /\ UNCHANGED <<i, count, reader>>
        /\ pc = "imports" /\ pc' = "imports" /\ seg' = seg + 1
        /\ seg \in Nat \ {0} /\ seg <= Len(input.mods) /\ Len(input.mods) \in Nat
        /\ next_off \in [1 .. Len(input.mods) -> Nat]
    BY TableLengths DEF IInv, TypeInv
  <1>2. TypeInv'
    <2>1. next_off' \in [1 .. Len(input.mods) -> Nat]
      BY <1>1
    <2>. QED BY <1>1, <2>1 DEF IInv, TypeInv
  <1>3. seen = {} /\ DOMAIN named = {}
    BY <1>1 DEF IInv, InPhase, Loops
  <1>4. InPhase' /\ AtRecord' /\ TablesDone' /\ NamesInSlots' /\ RecordsApplied'
    BY <1>1, <1>3 DEF InPhase, AtRecord, TablesDone, Past, Loops, NamesInSlots, RecordsApplied
  <1>5. NextInSlot'
    <2>1. 0 \in Nat /\ 0 = 2 * 0 /\ 2 * 0 < Slot
      BY SlotAssumption
    <2>2. \A m \in 1 .. Len(input.mods) : next_off'[m] = next_off[m] \/ next_off'[m] = 0
      BY <1>1
    <2>. QED BY <1>1, <2>1, <2>2 DEF IInv, NextInSlot
  <1>6. SlotsMapped'
    <2> SUFFICES ASSUME NEW m \in 1 .. Len(input.mods), m < seg + 1
                 PROVE  \E t \in segments' : t.base = SlotBase(m) /\ t.size = Slot
      BY <1>1, FileStays DEF SlotsMapped, Loops
    <2> DEFINE new == [base |-> SlotBase(seg), size |-> Slot, sector |-> 0, bytes |-> 0]
    <2>1. segments' = segments \cup {new}
      BY DEF SlotBase
    <2>2. new.base = SlotBase(seg) /\ new.size = Slot
      OBVIOUS
    <2> HIDE DEF new
    <2>3. CASE m = seg
      BY <2>1, <2>2, <2>3
    <2>4. CASE m < seg
      BY <1>1, <2>1, <2>4 DEF IInv, SlotsMapped
    <2>. QED BY <1>1, <2>3, <2>4
  <1>. QED BY <1>2, <1>4, <1>5, <1>6 DEF IInv

\* The slots are complete and the first relocation table is next.
LEMMA ImportsBuiltIInv ==
  ASSUME IInv, ImportsBuilt
  PROVE  IInv'
  <1> USE DEF ImportsBuilt, NextPhase
  <1>1. /\ input' = input /\ named' = named /\ fixups' = fixups /\ seen' = seen
        /\ next_off' = next_off /\ UNCHANGED <<i, count, reader, segments>>
        /\ pc = "imports" /\ pc' = "relocs" /\ seg' = 1
        /\ seg > Len(input.mods) /\ seg \in Nat /\ Len(input.mods) \in Nat
        /\ SegCount \in Nat
    BY TableLengths DEF IInv, TypeInv
  <1>2. TypeInv'
    BY <1>1 DEF IInv, TypeInv, Loops
  <1>3. seen = {} /\ DOMAIN named = {}
    BY <1>1 DEF IInv, InPhase, Loops
  <1>4. InPhase' /\ AtRecord' /\ TablesDone'
    BY <1>1, <1>3, FileStays DEF InPhase, AtRecord, TablesDone, Past, Loops
  <1>6. SlotsMapped'
    BY <1>1, FileStays DEF IInv, SlotsMapped, Loops
  <1>7. NextInSlot' /\ NamesInSlots' /\ RecordsApplied'
    BY <1>1, NothingRelocated DEF IInv
  <1>. QED BY <1>2, <1>4, <1>6, <1>7 DEF IInv

\* Segments without relocations count as walked.
LEMMA SkipSegmentIInv ==
  ASSUME IInv, SkipSegment
  PROVE  IInv'
  <1> USE DEF SkipSegment
  <1>1. /\ input' = input /\ named' = named /\ fixups' = fixups /\ seen' = seen
        /\ next_off' = next_off /\ UNCHANGED <<i, count, reader, segments>>
        /\ pc = "relocs" /\ pc' = "relocs" /\ seg' = seg + 1 /\ ~HasRelocs(seg)
        /\ seg \in Nat /\ seg <= SegCount /\ SegCount \in Nat
    BY TableLengths DEF IInv, TypeInv
  <1>2. TypeInv'
    BY <1>1 DEF IInv, TypeInv, Loops
  <1>3. \A h \in seen : h[1] \in Nat
    BY DEF IInv, TypeInv
  <1>4. InPhase' /\ AtRecord'
    BY <1>1, <1>3 DEF IInv, InPhase, AtRecord, Loops
  <1>5. TablesDone'
    <2> SUFFICES ASSUME NEW s \in 1 .. SegCount, s < seg + 1, Intact(s)
                 PROVE  Walked(s, input.segs[s].count)
      BY <1>1, FileStays, WalkedStays DEF TablesDone, Past
    <2>1. s # seg
      BY <1>1 DEF Intact
    <2>2. s < seg
      BY <1>1, <2>1
    <2>. QED BY <1>1, <2>2 DEF IInv, TablesDone, Past
  <1>6. SlotsMapped'
    BY <1>1, FileStays DEF IInv, SlotsMapped, Loops
  <1>7. NextInSlot' /\ NamesInSlots' /\ RecordsApplied'
    BY <1>1, NothingRelocated DEF IInv
  <1>. QED BY <1>2, <1>4, <1>5, <1>6, <1>7 DEF IInv

\* The reader goes to the table, if there is one where the code looks.
LEMMA BeginRelocsIInv ==
  ASSUME IInv, BeginRelocs
  PROVE  IInv'
  <1> USE DEF BeginRelocs
  <1>1. /\ input' = input /\ named' = named /\ fixups' = fixups /\ seen' = seen
        /\ next_off' = next_off /\ UNCHANGED <<seg, segments>>
        /\ pc = "relocs" /\ pc' = "records" /\ i' = 0 /\ reader' \in Nat
        /\ seg \in Nat \ {0} /\ seg <= SegCount /\ SegCount \in Nat
        /\ input.segs[seg].count \in Nat
    BY TableLengths DEF IInv, TypeInv, Astray
  <1>2. count' \in Nat /\ (TableThere(seg) => count' = input.segs[seg].count /\ reader' = 1)
    <2>1. PICK c \in (IF TableThere(seg) THEN {input.segs[seg].count} ELSE 0 .. MaxJunkCount) :
            count' = c
      OBVIOUS
    <2>2. 0 .. MaxJunkCount \subseteq Nat
      OBVIOUS
    <2>. QED BY <1>1, <2>1, <2>2
  <1>3. TypeInv'
    BY <1>1, <1>2 DEF IInv, TypeInv, Loops
  <1>4. \A h \in seen : h[1] \in Nat /\ h[1] < seg
    BY <1>1 DEF IInv, TypeInv, InPhase
  <1>5. InPhase'
    BY <1>1, <1>4, FileStays DEF InPhase, Loops
  <1>6. AtRecord'
    <2>1. SUFFICES ASSUME Intact(seg)
                   PROVE  count' = input.segs[seg].count /\ reader' = 1 /\ Walked(seg, 0)
      BY <1>1, <1>2, FileStays, WalkedStays DEF AtRecord
    <2>2. TableThere(seg)
      BY <2>1 DEF Intact
    <2>3. Walked(seg, 0)
      BY <1>1, <1>4 DEF Walked
    <2>. QED BY <1>2, <2>2, <2>3
  <1>7. TablesDone'
    BY <1>1, FileStays, WalkedStays DEF IInv, TablesDone, Past
  <1>8. SlotsMapped'
    BY <1>1, FileStays DEF IInv, SlotsMapped, Loops
  <1>9. NextInSlot' /\ NamesInSlots' /\ RecordsApplied'
    BY <1>1, NothingRelocated DEF IInv
  <1>. QED BY <1>3, <1>5, <1>6, <1>7, <1>8, <1>9 DEF IInv

\* An intact table is not left before its last record: the reader is neither
\* astray nor at its end, and no name of it runs off the file.
LEMMA IntactTableIsFinished ==
  ASSUME IInv, EndRelocs, Intact(seg)
  PROVE  Walked(seg, input.segs[seg].count)
  <1>1. /\ count = input.segs[seg].count /\ reader = i + 1 /\ i <= count /\ Walked(seg, i)
        /\ i \in Nat /\ count \in Nat
    BY DEF IInv, TypeInv, AtRecord, EndRelocs
  <1>2. /\ seg \in 1 .. SegCount
        /\ Len(input.segs[seg].table) \in Nat /\ count <= Len(input.segs[seg].table)
    BY <1>1, TableLengths DEF IInv, TypeInv, InPhase, EndRelocs, Intact
  <1>3. ASSUME i < count PROVE FALSE
    <2> DEFINE rec == input.segs[seg].table[reader]
    <2>1. reader # Astray /\ reader \in 1 .. count /\ reader <= Len(input.segs[seg].table)
      BY <1>1, <1>2, <1>3 DEF Astray
    <2>2. Delivered = {rec}
      BY <2>1 DEF Delivered
    <2>3. rec.target = "name" /\ KnownModule(rec.mod) => input.names[rec.name] # Eof
      BY <1>1, <2>1 DEF Intact
    <2>4. ~(i >= count)
      BY <1>1, <1>3
    <2> HIDE DEF rec
    <2>. QED BY <2>1, <2>2, <2>3, <2>4 DEF EndRelocs
  <1>4. i = count
    BY <1>1, <1>3
  <1>. QED BY <1>1, <1>4

\* The walk of a table is over.
LEMMA EndRelocsIInv ==
  ASSUME IInv, EndRelocs
  PROVE  IInv'
  <1>1. /\ input' = input /\ named' = named /\ fixups' = fixups /\ seen' = seen
        /\ next_off' = next_off /\ UNCHANGED <<i, count, reader, segments>>
        /\ pc = "records" /\ pc' = "relocs" /\ seg' = seg + 1
        /\ seg \in Nat \ {0} /\ seg <= SegCount /\ SegCount \in Nat
    BY TableLengths DEF IInv, TypeInv, InPhase, EndRelocs
  <1>2. TypeInv'
    BY <1>1 DEF IInv, TypeInv, Loops
  <1>3. \A h \in seen : h[1] \in Nat /\ h[1] <= seg
    BY <1>1 DEF IInv, TypeInv, InPhase
  <1>4. InPhase' /\ AtRecord'
    BY <1>1, <1>3 DEF InPhase, AtRecord, Loops
  <1>5. TablesDone'
    <2> SUFFICES ASSUME NEW s \in 1 .. SegCount, s < seg + 1, Intact(s)
                 PROVE  Walked(s, input.segs[s].count)
      BY <1>1, FileStays, WalkedStays DEF TablesDone, Past
    <2>1. CASE s = seg
      BY <2>1, IntactTableIsFinished
    <2>2. CASE s < seg
      BY <1>1, <2>2 DEF IInv, TablesDone, Past
    <2>. QED BY <1>1, <2>1, <2>2
  <1>6. SlotsMapped'
    BY <1>1, FileStays DEF IInv, SlotsMapped, Loops
  <1>7. NextInSlot' /\ NamesInSlots' /\ RecordsApplied'
    BY <1>1, NothingRelocated DEF IInv
  <1>. QED BY <1>2, <1>4, <1>5, <1>6, <1>7 DEF IInv

\* All tables are behind the loader, which sets the entry point.
LEMMA FinishIInv ==
  ASSUME IInv, RelocsLoaded \/ SetEntryPoint \/ UNCHANGED vars
  PROVE  IInv'
  <1> USE DEF RelocsLoaded, NextPhase, SetEntryPoint
  <1>1. CASE UNCHANGED vars
    <2>1. /\ input' = input /\ named' = named /\ fixups' = fixups /\ seen' = seen
          /\ next_off' = next_off /\ UNCHANGED <<pc, seg, i, count, reader, segments>>
      BY <1>1 DEF vars
    <2>2. TypeInv' /\ InPhase'
      BY <2>1, FileStays DEF IInv, TypeInv, InPhase
    <2>3. AtRecord' /\ TablesDone'
      BY <2>1, FileStays, WalkedStays DEF IInv, AtRecord, TablesDone, Past
    <2>4. SlotsMapped'
      BY <2>1, FileStays DEF IInv, SlotsMapped
    <2>5. NextInSlot' /\ NamesInSlots' /\ RecordsApplied'
      BY <2>1, NothingRelocated DEF IInv
    <2>. QED BY <2>2, <2>3, <2>4, <2>5 DEF IInv
  <1>2. CASE RelocsLoaded \/ SetEntryPoint
    <2>1. /\ input' = input /\ named' = named /\ fixups' = fixups /\ seen' = seen
          /\ next_off' = next_off /\ UNCHANGED <<i, count, reader, segments>>
          /\ seg' \in Nat \ {0} /\ seg \in Nat \ {0}
          /\ (pc = "relocs" /\ pc' = "entry" /\ seg > SegCount) \/
             (pc = "entry" /\ pc' = "loaded")
      BY <1>2 DEF IInv, TypeInv
    <2>2. SegCount \in Nat
      BY TableLengths DEF IInv, TypeInv
    <2>3. TypeInv'
      BY <2>1 DEF IInv, TypeInv, Loops
    <2>4. InPhase' /\ AtRecord'
      BY <2>1 DEF InPhase, AtRecord, Loops
    <2>5. TablesDone'
      <3> SUFFICES ASSUME NEW s \in 1 .. SegCount, Intact(s)
                   PROVE  Walked(s, input.segs[s].count)
        BY <2>1, FileStays, WalkedStays DEF TablesDone, Past
      <3>1. Past(s)
        BY <2>1, <2>2 DEF Past
      <3>. QED BY <3>1 DEF IInv, TablesDone
    <2>6. SlotsMapped'
      BY <2>1, FileStays DEF IInv, SlotsMapped, Loops
    <2>7. NextInSlot' /\ NamesInSlots' /\ RecordsApplied'
      BY <2>1, NothingRelocated DEF IInv
    <2>. QED BY <2>3, <2>4, <2>5, <2>6, <2>7 DEF IInv
  <1>. QED BY <1>1, <1>2

-----------------------------------------------------------------------------
(* One record.                                                             *)

\* Where an import is resolved, the slots keep their form and every name its
\* address.
LEMMA ImportApplied ==
  ASSUME IInv, input' = input, NEW rec, NEW sym, KnownModule(rec.mod),
         ApplyImport(rec, sym), seen' = seen \cup {<<seg, i, rec>>}
  PROVE  /\ next_off' \in [1 .. Len(input.mods) -> Nat]
         /\ NextInSlot' /\ NamesInSlots'
         /\ Resolve(rec.mod, ImportName(rec.mod, sym)).addr # 0
         /\ \A s, r : Applied(s, r) => Applied(s, r)'
         /\ \E f \in fixups' :
              /\ f.rec = rec
              /\ f.site = SegAddress(seg, rec.site)
              /\ ImportName(rec.mod, sym) \in DOMAIN named'
              /\ f.to = named'[ImportName(rec.mod, sym)]
  <1> DEFINE m    == rec.mod
             name == ImportName(m, sym)
             res  == Resolve(m, name)
  <1>1. TypeInv /\ NextInSlot /\ NamesInSlots
    BY DEF IInv
  <1>2. m \in 1 .. Len(input.mods) /\ Len(input.mods) \in Nat
    BY <1>1, TableLengths DEF TypeInv, KnownModule
  <1>3. /\ res.addr # 0
        /\ DOMAIN res.named = DOMAIN named \cup {name}
        /\ res.named[name] = res.addr
        /\ \A n \in DOMAIN named : res.named[n] = named[n]
        /\ \E p \in 1 .. Len(input.mods) :
             KnownModule(p) /\ ModuleName(p) = ModuleName(m) /\ InSlot(res.addr, p)
        /\ res.next \in Nat
        /\ \E k \in Nat : res.next = 2 * k /\ 2 * k < Slot
    BY <1>1, Resolved
  <1>4. name[1] = ModuleName(m)
    BY DEF ImportName
  <1> DEFINE f == [rec |-> rec, site |-> Site(rec), seg |-> ImportSeg(m),
                   off |-> res.addr % Slot, to |-> res.addr]
  <1>5. /\ next_off' = [next_off EXCEPT ![m] = res.next]
        /\ named' = res.named
        /\ fixups' = fixups \cup {f}
    BY <1>3 DEF ApplyImport, Fixup
  <1>6. f.rec = rec /\ f.site = SegAddress(seg, rec.site) /\ f.to = res.addr
    BY DEF Site
  <1> HIDE DEF f, res, name, m
  <1>7. /\ next_off' \in [1 .. Len(input.mods) -> Nat]
        /\ \A p \in 1 .. Len(input.mods) :
             next_off'[p] = next_off[p] \/ next_off'[p] = res.next
    BY <1>1, <1>2, <1>3, <1>5 DEF TypeInv
  <1>8. NextInSlot'
    BY <1>1, <1>3, <1>7 DEF NextInSlot
  <1>9. NamesInSlots'
    <2> SUFFICES ASSUME NEW n \in DOMAIN named'
                 PROVE  \E p \in 1 .. Len(input.mods) :
                          KnownModule(p) /\ n[1] = ModuleName(p) /\ InSlot(named'[n], p)
      BY FileStays DEF NamesInSlots
    <2>1. CASE n \in DOMAIN named
      BY <1>1, <1>3, <1>5, <2>1 DEF NamesInSlots
    <2>2. CASE n = name
      BY <1>3, <1>4, <1>5, <2>2
    <2>. QED BY <1>3, <1>5, <2>1, <2>2
  <1>10. \A s, r : Applied(s, r) => Applied(s, r)'
    BY <1>3, <1>5, FileStays DEF Applied
  <1>11. f \in fixups' /\ name \in DOMAIN named' /\ f.to = named'[name]
    BY <1>3, <1>5, <1>6
  <1>. QED BY <1>3, <1>6, <1>7, <1>8, <1>9, <1>10, <1>11 DEF res, name, m

\* Not an import whose name is missing.
NamesItsImport(rec) ==
  rec.target = "name" /\ KnownModule(rec.mod) => input.names[rec.name] \notin {Eof, Empty}

\* What the four kinds of records have in common: the slots keep their form, no
\* call site is lost, the record is applied if it can be, and in an intact table
\* the reader goes on to the next one.
RecordStep(rec) ==
  /\ UNCHANGED <<input, pc, seg, count, segments>>
  /\ i' = i + 1
  /\ reader' \in Nat
  /\ seen' = seen \cup {<<seg, i, rec>>}
  /\ next_off' \in [1 .. Len(input.mods) -> Nat]
  /\ NextInSlot' /\ NamesInSlots'
  /\ \A s, r : Applied(s, r) => Applied(s, r)'
  /\ ImportRecord(rec) /\ (rec.target = "name" => input.names[rec.name] # Empty) =>
       Applied(seg, rec)'
  /\ Intact(seg) /\ reader = i + 1 /\ NamesItsImport(rec) => reader' = i + 2

\* Where the reader may go is a place in a table or astray.
LEMMA ReaderPlaces ==
  ASSUME TypeInv
  PROVE  /\ AfterRead \in Nat /\ NextRecord \in Nat /\ Astray \in Nat
         /\ Intact(seg) /\ reader = i + 1 => AfterRead = i + 2 /\ NextRecord = i + 2
  <1>1. i \in Nat /\ reader \in Nat
    BY DEF TypeInv
  <1>2. AfterRead \in Nat /\ (reader = i + 1 => AfterRead = i + 2)
    BY <1>1 DEF AfterRead, Astray
  <1>3. NextRecord \in Nat /\ (Intact(seg) => NextRecord = i + 2)
    BY <1>1 DEF NextRecord, Astray, Intact
  <1>. QED BY <1>2, <1>3 DEF Astray

\* A reference into the module, and a fixup of the operating system.
LEMMA NoImportStep ==
  ASSUME IInv, NEW rec, InternalRef(rec) \/ OtherReloc(rec)
  PROVE  RecordStep(rec)
  <1>1. TypeInv
    BY DEF IInv
  <1>2. /\ UNCHANGED <<input, pc, seg, count, segments, next_off, named>>
        /\ i' = i + 1 /\ seen' = seen \cup {<<seg, i, rec>>}
        /\ ~ImportRecord(rec)
    BY DEF InternalRef, OtherReloc, Handled, Advance, ImportRecord
  <1>3. reader' \in {AfterRead, NextRecord}
    BY DEF InternalRef, OtherReloc, Advance
  <1>4. fixups \subseteq fixups'
    <2>1. CASE OtherReloc(rec)
      BY <2>1 DEF OtherReloc
    <2>2. CASE InternalRef(rec)
      BY <2>2 DEF InternalRef, Fixup
    <2>. QED BY <2>1, <2>2
  <1>5. NextInSlot' /\ NamesInSlots'
    BY <1>2, FileStays DEF IInv, NextInSlot, NamesInSlots
  <1>6. \A s, r : Applied(s, r) => Applied(s, r)'
    BY <1>2, <1>4, FileStays DEF Applied
  <1>7. next_off' \in [1 .. Len(input.mods) -> Nat]
    BY <1>1, <1>2 DEF TypeInv
  <1>. QED BY <1>1, <1>2, <1>3, <1>5, <1>6, <1>7, ReaderPlaces DEF RecordStep

\* An import by ordinal.
LEMMA ImportByOrdinalStep ==
  ASSUME IInv, NEW rec, ImportByOrdinal(rec)
  PROVE  RecordStep(rec)
  <1> USE DEF ImportByOrdinal
  <1>1. TypeInv
    BY DEF IInv
  <1>2. /\ UNCHANGED <<input, pc, seg, count, segments>>
        /\ i' = i + 1 /\ seen' = seen \cup {<<seg, i, rec>>}
        /\ reader' = AfterRead /\ rec.target = "ordinal"
    BY DEF Handled, Advance
  <1>3. CASE KnownModule(rec.mod)
    <2> DEFINE sym == OrdinalName[rec.ordinal]
    <2>1. ApplyImport(rec, sym)
      BY <1>3
    <2>2. Asked(rec)' = ImportName(rec.mod, sym)
      BY <1>2, FileStays DEF Asked
    <2> HIDE DEF sym
    <2>3. /\ next_off' \in [1 .. Len(input.mods) -> Nat]
          /\ NextInSlot' /\ NamesInSlots'
          /\ \A s, r : Applied(s, r) => Applied(s, r)'
          /\ \E f \in fixups' :
               /\ f.rec = rec
               /\ f.site = SegAddress(seg, rec.site)
               /\ ImportName(rec.mod, sym) \in DOMAIN named'
               /\ f.to = named'[ImportName(rec.mod, sym)]
      BY <1>2, <1>3, <2>1, ImportApplied
    <2>4. Applied(seg, rec)'
      BY <1>2, <2>2, <2>3 DEF Applied
    <2>. QED BY <1>1, <1>2, <2>3, <2>4, ReaderPlaces DEF RecordStep
  <1>4. CASE ~KnownModule(rec.mod)
    <2>1. UNCHANGED <<next_off, named, fixups>> /\ ~ImportRecord(rec)
      BY <1>4 DEF ImportRecord
    <2>2. NextInSlot' /\ NamesInSlots'
      BY <1>2, <2>1, FileStays DEF IInv, NextInSlot, NamesInSlots
    <2>3. \A s, r : Applied(s, r) => Applied(s, r)'
      BY <1>2, <2>1, FileStays DEF Applied
    <2>4. next_off' \in [1 .. Len(input.mods) -> Nat]
      BY <1>1, <2>1 DEF TypeInv
    <2>. QED BY <1>1, <1>2, <2>1, <2>2, <2>3, <2>4, ReaderPlaces DEF RecordStep
  <1>. QED BY <1>3, <1>4

\* An import by name: the reader comes back, unless there was no name.
LEMMA ImportByNameStep ==
  ASSUME IInv, NEW rec, ImportByName(rec)
  PROVE  RecordStep(rec)
  <1> USE DEF ImportByName
  <1>1. TypeInv
    BY DEF IInv
  <1>2. /\ UNCHANGED <<input, pc, seg, count, segments>>
        /\ i' = i + 1 /\ seen' = seen \cup {<<seg, i, rec>>}
        /\ rec.target = "name"
    BY DEF Handled, Advance
  <1>3. CASE KnownModule(rec.mod) /\ input.names[rec.name] # Empty
    <2> DEFINE sym == input.names[rec.name]
    <2>1. /\ ApplyImport(rec, sym)
          /\ reader' = IF Resolve(rec.mod, ImportName(rec.mod, sym)).addr = 0
                         THEN Astray ELSE NextRecord
      BY <1>3 DEF Advance
    <2>2. Asked(rec)' = ImportName(rec.mod, sym)
      BY <1>2, FileStays DEF Asked
    <2> HIDE DEF sym
    <2>3. /\ next_off' \in [1 .. Len(input.mods) -> Nat]
          /\ NextInSlot' /\ NamesInSlots'
          /\ Resolve(rec.mod, ImportName(rec.mod, sym)).addr # 0
          /\ \A s, r : Applied(s, r) => Applied(s, r)'
          /\ \E f \in fixups' :
               /\ f.rec = rec
               /\ f.site = SegAddress(seg, rec.site)
               /\ ImportName(rec.mod, sym) \in DOMAIN named'
               /\ f.to = named'[ImportName(rec.mod, sym)]
      BY <1>2, <1>3, <2>1, ImportApplied
    <2>4. Applied(seg, rec)'
      BY <1>2, <2>2, <2>3 DEF Applied
    <2>. QED BY <1>1, <1>2, <2>1, <2>3, <2>4, ReaderPlaces DEF RecordStep
  <1>4. CASE ~(KnownModule(rec.mod) /\ input.names[rec.name] # Empty)
    <2>1. UNCHANGED <<next_off, named, fixups>>
      BY <1>4
    <2>2. reader' = IF KnownModule(rec.mod) THEN Astray ELSE AfterRead
      BY <1>4 DEF Advance
    <2>3. NextInSlot' /\ NamesInSlots'
      BY <1>2, <2>1, FileStays DEF IInv, NextInSlot, NamesInSlots
    <2>4. \A s, r : Applied(s, r) => Applied(s, r)'
      BY <1>2, <2>1, FileStays DEF Applied
    <2>5. next_off' \in [1 .. Len(input.mods) -> Nat]
      BY <1>1, <2>1 DEF TypeInv
    <2>6. ~(ImportRecord(rec) /\ (rec.target = "name" => input.names[rec.name] # Empty))
      BY <1>2, <1>4 DEF ImportRecord
    <2>7. NamesItsImport(rec) => ~KnownModule(rec.mod)
      BY <1>2, <1>4 DEF NamesItsImport
    <2>. QED BY <1>1, <1>2, <2>2, <2>3, <2>4, <2>5, <2>6, <2>7, ReaderPlaces DEF RecordStep
  <1>. QED BY <1>3, <1>4

\* In an intact table the record at hand is that of the iteration.
LEMMA HandleRecordIInv ==
  ASSUME IInv, HandleRecord
  PROVE  IInv'
  <1>1. PICK rec \in Delivered : /\ pc = "records" /\ i < count
                                 /\ \/ InternalRef(rec) \/ ImportByOrdinal(rec)
                                    \/ ImportByName(rec) \/ OtherReloc(rec)
    BY DEF HandleRecord
  <1>2. RecordStep(rec)
    BY <1>1, NoImportStep, ImportByOrdinalStep, ImportByNameStep
  <1>3. TypeInv /\ InPhase
    BY DEF IInv
  <1>4. /\ i \in Nat /\ count \in Nat /\ seg \in 1 .. SegCount /\ reader \in Nat
        /\ SegCount \in Nat
    BY <1>1, <1>3, TableLengths DEF TypeInv, InPhase
  <1>5. rec \in Record
    BY <1>1, <1>3, <1>4, TableLengths DEF Delivered, TypeInv, Astray
  <1>6. /\ UNCHANGED <<input, pc, seg, count, segments>> /\ i' = i + 1
        /\ seen' = seen \cup {<<seg, i, rec>>} /\ reader' \in Nat
    BY <1>2 DEF RecordStep
  <1>7. TypeInv'
    <2>1. seen' \subseteq Nat \X Nat \X Record
      BY <1>3, <1>4, <1>5, <1>6 DEF TypeInv
    <2>2. next_off' \in [1 .. Len(input.mods) -> Nat]
      BY <1>2 DEF RecordStep
    <2>. QED BY <1>3, <1>4, <1>6, <2>1, <2>2 DEF TypeInv
  <1>8. InPhase'
    BY <1>1, <1>3, <1>4, <1>6, FileStays DEF InPhase, Loops
  <1>9. AtRecord'
    <2> SUFFICES ASSUME Intact(seg)
                 PROVE  /\ count = input.segs[seg].count /\ reader' = i + 2 /\ i + 1 <= count
                        /\ Walked(seg, i)'
      <3>1. Intact(seg)' <=> Intact(seg)
        BY <1>6, FileStays
      <3>2. (i + 1) + 1 = i + 2
        BY <1>4
      <3>. QED BY <1>6, <3>1, <3>2 DEF AtRecord
    <2>1. count = input.segs[seg].count /\ reader = i + 1 /\ Walked(seg, i)
      BY <1>1 DEF IInv, AtRecord
    <2>2. reader <= count /\ count <= Len(input.segs[seg].table)
      BY <1>1, <1>4, <2>1 DEF Intact
    <2>3. rec = input.segs[seg].table[i + 1]
      BY <1>1, <1>4, <2>1, <2>2, TableLengths, <1>3 DEF Delivered, Astray, TypeInv
    <2>4. NamesItsImport(rec)
      BY <1>4, <2>1, <2>2, <2>3 DEF Intact, NamesItsImport
    <2>5. reader' = i + 2
      BY <1>2, <2>1, <2>4 DEF RecordStep
    <2>6. Walked(seg, i)'
      <3>1. ASSUME NEW k \in 0 .. i PROVE <<seg, k, input.segs[seg].table[k + 1]>> \in seen'
        BY <1>4, <1>6, <2>1, <2>3, <3>1 DEF Walked
      <3>2. ASSUME NEW h \in seen', h[1] = seg
            PROVE  h[2] \in 0 .. i /\ h[3] = input.segs[seg].table[h[2] + 1]
        BY <1>4, <1>6, <2>1, <2>3, <3>2 DEF Walked
      <3>. QED BY <1>4, <1>6, <3>1, <3>2 DEF Walked
    <2>. QED BY <1>1, <1>4, <2>1, <2>5, <2>6
  <1>10. TablesDone'
    <2> SUFFICES ASSUME NEW s \in 1 .. SegCount, s < seg, Intact(s)
                 PROVE  Walked(s, input.segs[s].count)'
      BY <1>1, <1>6, FileStays DEF TablesDone, Past
    <2>1. Walked(s, input.segs[s].count)
      BY <1>1 DEF IInv, TablesDone, Past
    <2>. QED BY <1>4, <1>6, <2>1 DEF Walked
  <1>11. SlotsMapped'
    BY <1>6, FileStays DEF IInv, SlotsMapped
  <1>12. RecordsApplied'
    <2> SUFFICES ASSUME NEW h \in seen', ImportRecord(h[3]),
                        h[3].target = "name" => input.names[h[3].name] # Empty
                 PROVE  Applied(h[1], h[3])'
      BY <1>6, FileStays DEF RecordsApplied
    <2>1. CASE h \in seen
      BY <1>2, <2>1 DEF IInv, RecordsApplied, RecordStep
    <2>2. CASE h = <<seg, i, rec>>
      BY <1>2, <2>2 DEF RecordStep
    <2>. QED BY <1>6, <2>1, <2>2
  <1>. QED BY <1>2, <1>7, <1>8, <1>9, <1>10, <1>11, <1>12 DEF IInv, RecordStep

\* The bookkeeping of the walk over the tables and of the import slots.
THEOREM InductiveInvariant == Spec => []IInv
  <1>1. Init => IInv
    BY InitIInv
  <1>2. IInv /\ [Next]_vars => IInv'
    BY LoadSegmentIInv, BuildImportIInv, ImportsBuiltIInv, SkipSegmentIInv, BeginRelocsIInv,
       HandleRecordIInv, EndRelocsIInv, FinishIInv DEF Next, Step, Terminating
  <1>. QED BY <1>1, <1>2, PTL DEF Spec

-----------------------------------------------------------------------------
(* What follows from the walk.                                             *)

\* In every state, the records handled of an intact table are its own, and all
\* of them once the loader is past it.
LEMMA IntactTablesAreWalked ==
  ASSUME IInv
  PROVE  IntactTablesWalked
  <1> SUFFICES ASSUME NEW s \in 1 .. SegCount, Intact(s)
               PROVE  /\ \A h \in seen : h[1] = s => h[3] = input.segs[s].table[h[2] + 1]
                      /\ pc \in {"entry", "loaded"} =>
                           {h[2] : h \in {g \in seen : g[1] = s}} = 0 .. input.segs[s].count - 1
    BY DEF IntactTablesWalked
  <1>1. TypeInv /\ InPhase
    BY DEF IInv
  <1>2. SegCount \in Nat /\ seg \in Nat /\ \A h \in seen : h[1] \in Nat
    BY <1>1, TableLengths DEF TypeInv
  <1>3. CASE Past(s)
    <2>1. Walked(s, input.segs[s].count)
      BY <1>3 DEF IInv, TablesDone
    <2>2. \A h \in seen : h[1] = s => h[3] = input.segs[s].table[h[2] + 1]
      BY <2>1 DEF Walked
    <2>3. \A h \in seen : h[1] = s => h[2] \in 0 .. input.segs[s].count - 1
      BY <2>1 DEF Walked
    <2>4. ASSUME NEW k \in 0 .. input.segs[s].count - 1
          PROVE  \E h \in seen : h[1] = s /\ h[2] = k
      <3> DEFINE h == <<s, k, input.segs[s].table[k + 1]>>
      <3>1. h \in seen /\ h[1] = s /\ h[2] = k
        BY <2>1 DEF Walked
      <3>. QED BY <3>1
    <2>. QED BY <2>2, <2>3, <2>4
  <1>4. CASE pc = "records" /\ s = seg
    BY <1>4 DEF IInv, AtRecord, Walked
  <1>5. CASE ~Past(s) /\ ~(pc = "records" /\ s = seg)
    <2>1. pc \notin {"entry", "loaded"}
      BY <1>5 DEF Past
    <2>2. CASE pc \notin Loops
      BY <1>1, <2>1, <2>2 DEF InPhase
    <2>3. CASE pc = "relocs" \/ pc = "records"
      <3>1. s > seg \/ (s >= seg /\ pc = "relocs")
        BY <1>2, <1>5, <2>3 DEF Past
      <3>2. \A h \in seen : h[1] # s
        BY <1>1, <1>2, <2>3, <3>1 DEF InPhase
      <3>. QED BY <2>1, <3>2
    <2>. QED BY <2>1, <2>2, <2>3 DEF Loops
  <1>. QED BY <1>3, <1>4, <1>5

\* Every import record of an intact table has its call site, at the address that
\* carries the symbol's name, in a segment mapped for imports.
LEMMA ImportsAreApplied ==
  ASSUME IInv
  PROVE  ImportsBound
  <1> SUFFICES ASSUME NEW s \in 1 .. SegCount, Intact(s), pc \in {"entry", "loaded"},
                      NEW n \in 1 .. input.segs[s].count,
                      ImportRecord(input.segs[s].table[n])
               PROVE  \E f \in fixups :
                        /\ f.rec = input.segs[s].table[n]
                        /\ f.site = SegAddress(s, input.segs[s].table[n].site)
                        /\ Asked(input.segs[s].table[n]) \in DOMAIN named
                        /\ f.to = named[Asked(input.segs[s].table[n])]
                        /\ \E t \in segments :
                             t.base > SegAddress(SegCount, 0) /\ f.to - t.base \in 0 .. t.size - 2
    BY Zenon DEF ImportsBound
  <1> DEFINE rec == input.segs[s].table[n]
  <1>1. TypeInv /\ SegCount \in Nat /\ input.segs[s].count \in Nat /\ Slot \in Nat \ {0}
    BY TableLengths, SlotAssumption DEF IInv, TypeInv
  <1>2. <<s, n - 1, rec>> \in seen
    <2>1. Walked(s, input.segs[s].count)
      BY DEF IInv, TablesDone, Past
    <2>2. n - 1 \in 0 .. input.segs[s].count - 1 /\ (n - 1) + 1 = n
      BY <1>1
    <2>. QED BY <2>1, <2>2 DEF Walked
  <1>3. ImportRecord(rec) /\ (rec.target = "name" => input.names[rec.name] # Empty)
    BY DEF Intact, ImportRecord
  <1> HIDE DEF rec
  <1>4. Applied(s, rec)
    <2> DEFINE h == <<s, n - 1, rec>>
    <2>1. h \in seen /\ h[1] = s /\ h[3] = rec
      BY <1>2
    <2> HIDE DEF h
    <2>. QED BY <1>3, <2>1 DEF IInv, RecordsApplied
  <1>5. PICK f \in fixups : /\ f.rec = rec
                            /\ f.site = SegAddress(s, rec.site)
                            /\ Asked(rec) \in DOMAIN named
                            /\ f.to = named[Asked(rec)]
    BY <1>4 DEF Applied
  <1>6. PICK m \in 1 .. Len(input.mods) : InSlot(f.to, m)
    BY <1>5 DEF IInv, NamesInSlots
  <1>7. PICK k \in Nat : k + 2 <= Slot /\ f.to = SegAddress(ModuleSlot(m), k)
    BY <1>6 DEF InSlot
  <1>8. PICK t \in segments : t.base = SlotBase(m) /\ t.size = Slot
    BY DEF IInv, SlotsMapped, Loops
  <1>9. ModuleSlot(m) = SegCount + m /\ m \in Nat /\ m >= 1
    BY <1>1, TableLengths DEF TypeInv, ModuleSlot
  <1>10. /\ SlotBase(m) = (SegCount + m) * Slot
         /\ SegAddress(SegCount, 0) = SegCount * Slot
         /\ f.to = (SegCount + m) * Slot + k
    BY <1>1, <1>7, <1>9 DEF SlotBase, SegAddress
  <1>11. (SegCount + m) * Slot = SegCount * Slot + m * Slot /\ m * Slot >= Slot
    BY <1>1, <1>9
  <1>12. SegCount * Slot \in Nat /\ m * Slot \in Nat
    BY <1>1, <1>9
  <1>13. t.base > SegAddress(SegCount, 0) /\ f.to - t.base \in 0 .. t.size - 2
    BY <1>1, <1>7, <1>8, <1>10, <1>11, <1>12
  <1>. QED BY <1>5, <1>13 DEF rec

\* Seeking away for a name and back loses no record of an intact table, repeats
\* none and takes none for another, for tables of any length.
THEOREM TablesAreWalked == Spec => []IntactTablesWalked
  <1>1. IInv => IntactTablesWalked
    BY IntactTablesAreWalked
  <1>. QED BY <1>1, InductiveInvariant, PTL

\* Every import of an intact table is patched in at the one address that carries
\* its name, and that address is in a slot of its module, however many there are.
THEOREM ImportsAreBound == Spec => []ImportsBound
  <1>1. IInv => ImportsBound
    BY ImportsAreApplied
  <1>. QED BY <1>1, InductiveInvariant, PTL

-----------------------------------------------------------------------------
(* What is patched in, and what the cross reference says.                  *)

XrefInv == DistinctModules => PatchMatchesXref

\* Names of module references that are all different determine their slot.
LEMMA ImportXref ==
  ASSUME IInv, XrefInv, input' = input, NEW rec, NEW sym, KnownModule(rec.mod),
         ApplyImport(rec, sym)
  PROVE  XrefInv'
  <1> DEFINE m   == rec.mod
             res == Resolve(m, ImportName(m, sym))
             f   == [rec |-> rec, site |-> Site(rec), seg |-> ImportSeg(m),
                     off |-> res.addr % Slot, to |-> res.addr]
  <1>1. TypeInv /\ NextInSlot /\ NamesInSlots
    BY DEF IInv
  <1>2. m \in 1 .. Len(input.mods) /\ Len(input.mods) \in Nat /\ SegCount \in Nat
    BY <1>1, TableLengths DEF TypeInv, KnownModule
  <1>3. /\ res.addr # 0
        /\ \E p \in 1 .. Len(input.mods) :
             KnownModule(p) /\ ModuleName(p) = ModuleName(m) /\ InSlot(res.addr, p)
    BY <1>1, Resolved
  <1>4. fixups' = fixups \cup {f}
    BY <1>3 DEF ApplyImport, Fixup
  <1>5. f.seg = ModuleSlot(m) /\ f.off = res.addr % Slot /\ f.to = res.addr
    BY DEF ImportSeg, ModuleSlot
  <1>6. DistinctModules' <=> DistinctModules
    BY FileStays DEF DistinctModules
  <1> HIDE DEF f, res, m
  <1>7. DistinctModules => f.to = SegAddress(f.seg, f.off)
    <2> SUFFICES ASSUME DistinctModules
                 PROVE  res.addr = SegAddress(ModuleSlot(m), res.addr % Slot)
      BY <1>5
    <2>1. InSlot(res.addr, m)
      BY <1>2, <1>3 DEF DistinctModules, m
    <2>2. PICK k \in Nat : k + 2 <= Slot /\ res.addr = SegAddress(ModuleSlot(m), k)
      BY <2>1 DEF InSlot
    <2>3. ModuleSlot(m) \in Nat /\ k < Slot
      BY <1>2, <2>2, SlotAssumption DEF ModuleSlot
    <2>4. SegAddress(ModuleSlot(m), k) % Slot = k
      BY <2>3, OffsetInSlot
    <2>. QED BY <2>2, <2>4
  <1>. QED BY <1>4, <1>6, <1>7 DEF XrefInv, PatchMatchesXref

\* No other step says where something points.
LEMMA XrefStep ==
  ASSUME IInv, XrefInv, [Next]_vars
  PROVE  XrefInv'
  <1>1. input' = input
    BY InputStays
  <1>2. DistinctModules' <=> DistinctModules
    BY <1>1, FileStays DEF DistinctModules
  <1>3. CASE fixups' = fixups
    BY <1>2, <1>3 DEF XrefInv, PatchMatchesXref
  <1>4. CASE HandleRecord
    <2>1. PICK rec : InternalRef(rec) \/ ImportByOrdinal(rec) \/ ImportByName(rec)
                     \/ OtherReloc(rec)
      BY <1>4 DEF HandleRecord
    <2>2. CASE InternalRef(rec)
      <3>1. \A off : [rec |-> rec, site |-> Site(rec), seg |-> rec.seg, off |-> off,
                      to |-> SegAddress(rec.seg, off)].to = SegAddress(rec.seg, off)
        OBVIOUS
      <3>2. fixups' = fixups \/ \E off :
              fixups' = fixups \cup
                {[rec |-> rec, site |-> Site(rec), seg |-> rec.seg, off |-> off,
                  to |-> SegAddress(rec.seg, off)]}
        BY <2>2 DEF InternalRef, Fixup
      <3>. QED BY <1>2, <3>2 DEF XrefInv, PatchMatchesXref
    <2>3. CASE ImportByOrdinal(rec)
      BY <1>1, <1>3, <2>3, ImportXref DEF ImportByOrdinal
    <2>4. CASE ImportByName(rec)
      BY <1>1, <1>3, <2>4, ImportXref DEF ImportByName
    <2>5. CASE OtherReloc(rec)
      BY <1>3, <2>5 DEF OtherReloc
    <2>. QED BY <2>1, <2>2, <2>3, <2>4, <2>5
  <1>5. fixups' = fixups \/ HandleRecord
    BY DEF Next, Step, Terminating, vars, LoadSegment, SegmentsLoaded, NoSegments, BuildImport,
           ImportsBuilt, SkipSegment, BeginRelocs, EndRelocs, RelocsLoaded, SetEntryPoint,
           NextPhase
  <1>. QED BY <1>3, <1>4, <1>5

\* In a file whose modules have different names, every site points where its
\* cross reference says, whatever the slots of the imports hold.
THEOREM PatchesMatchXrefs == Spec => [](DistinctModules => PatchMatchesXref)
  <1>1. Init => XrefInv
    BY DEF Init, XrefInv, PatchMatchesXref
  <1>2. IInv /\ XrefInv /\ [Next]_vars => XrefInv'
    BY XrefStep
  <1>3. XrefInv => (DistinctModules => PatchMatchesXref)
    BY DEF XrefInv
  <1>. QED BY <1>1, <1>2, <1>3, InductiveInvariant, PTL DEF Spec

-----------------------------------------------------------------------------
(* Symbols and their addresses.                                            *)

FreshInv == NextIsFresh /\ (Room => ImportsUnique)

\* One more import takes an address that no other one has, while there is room.
LEMMA FreshAddress ==
  ASSUME IInv, FreshInv, input' = input, NEW m, NEW sym, KnownModule(m),
         ImportName(m, sym) \notin DOMAIN named,
         next_off' = [next_off EXCEPT ![m] = Resolve(m, ImportName(m, sym)).next],
         named' = Resolve(m, ImportName(m, sym)).named
  PROVE  FreshInv'
  <1> DEFINE name == ImportName(m, sym)
             off  == next_off[m]
             addr == SegAddress(ModuleSlot(m), off)
             mods == 1 .. Len(input.mods)
             c(p) == Cardinality(NamesOf(p))
             d(p) == Cardinality(NamesOf(p)')
  <1>1. TypeInv /\ NextInSlot /\ NextIsFresh /\ (Room => ImportsUnique)
    BY DEF IInv, FreshInv
  <1>2. m \in mods /\ Len(input.mods) \in Nat /\ SegCount \in Nat
    BY <1>1, TableLengths DEF TypeInv, KnownModule
  <1>3. Slot \in Nat /\ Slot > 0
    BY SlotAssumption
  <1>4. PICK k \in Nat : off = 2 * k /\ 2 * k < Slot
    BY <1>1, <1>2 DEF NextInSlot
  <1>5. off \in Nat /\ off + 2 <= Slot /\ (off + 2 < Slot => (off + 2) % Slot = off + 2)
    BY <1>4, EvenRoom
  <1>6. /\ next_off' = [next_off EXCEPT ![m] = (off + 2) % Slot]
        /\ DOMAIN named' = DOMAIN named \cup {name}
        /\ named'[name] = addr
        /\ \A n \in DOMAIN named : named'[n] = named[n]
    <2> DEFINE next  == (off + 2) % Slot
               names == [n \in DOMAIN named \cup {name} |-> IF n = name THEN addr ELSE named[n]]
    <2>1. name \notin DOMAIN named /\ ~(off + 2 > Slot)
      BY <1>3, <1>5
    <2>2. /\ next_off' = [next_off EXCEPT ![m] = Resolve(m, name).next]
          /\ named' = Resolve(m, name).named
      OBVIOUS
    <2> HIDE DEF name, addr
    <2>3. Resolve(m, name) = [addr |-> addr, next |-> next, named |-> names]
      BY <2>1, Zenon DEF Resolve, addr
    <2> HIDE DEF next, names
    <2>4. Resolve(m, name).next = next /\ Resolve(m, name).named = names
      BY <2>3
    <2>5. next_off' = [next_off EXCEPT ![m] = next] /\ named' = names
      BY <2>2, <2>4
    <2>. QED BY <2>1, <2>5 DEF next, names
  <1>7. name[1] = ModuleName(m) /\ name \notin DOMAIN named
    BY DEF ImportName
  <1>8. /\ next_off'[m] = (off + 2) % Slot
        /\ \A p \in mods : p # m => next_off'[p] = next_off[p]
        /\ \A p \in mods : next_off[p] \in Nat
    BY <1>1, <1>2, <1>6 DEF TypeInv
  <1>9. \A p \in mods : ModuleSlot(p) \in Nat /\ SlotBase(p) \in Nat
                        /\ \A o \in Nat : SegAddress(ModuleSlot(p), o) = SlotBase(p) + o
    <2>1. \A p \in mods : ModuleSlot(p) \in Nat
      BY <1>2 DEF ModuleSlot
    <2>2. \A p \in mods : ModuleSlot(p) * Slot \in Nat
      BY <1>3, <2>1
    <2>. QED BY <2>1, <2>2 DEF SlotBase, SegAddress
  <1>10. addr = SlotBase(m) + off /\ InSlot(addr, m)
    BY <1>2, <1>5, <1>9 DEF InSlot
  <1>11. \A p \in mods : InSlot(addr, p) => p = m
    <2> SUFFICES ASSUME NEW p \in mods, NEW o \in Nat, o + 2 <= Slot,
                        addr = SegAddress(ModuleSlot(p), o)
                 PROVE  p = m
      BY DEF InSlot
    <2>1. ModuleSlot(p) = ModuleSlot(m)
      <3> HIDE DEF off
      <3>1. ModuleSlot(p) \in Nat /\ ModuleSlot(m) \in Nat
        BY <1>2 DEF ModuleSlot
      <3>2. off < Slot /\ o < Slot
        BY <1>3, <1>5
      <3>. QED BY <1>5, <3>1, <3>2, SlotsAreApart
    <2>. QED BY <1>2, <2>1 DEF ModuleSlot
  <1> HIDE DEF addr, off
  <1>12. \A p \in mods : /\ IsFiniteSet(NamesOf(p)) /\ c(p) \in Nat /\ d(p) \in Nat
                         /\ c(p) <= d(p)
                         /\ p = m => d(p) = c(p) + 1
    <2> SUFFICES ASSUME NEW p \in mods
                 PROVE  /\ IsFiniteSet(NamesOf(p)) /\ c(p) \in Nat /\ d(p) \in Nat
                        /\ c(p) <= d(p)
                        /\ p = m => d(p) = c(p) + 1
      OBVIOUS
    <2>1. IsFiniteSet(NamesOf(p))
      <3>1. NamesOf(p) \subseteq DOMAIN named
        BY DEF NamesOf
      <3>2. IsFiniteSet(DOMAIN named)
        BY <1>1 DEF NextIsFresh
      <3>. QED BY <3>1, <3>2, FS_Subset
    <2>2. c(p) \in Nat
      BY <2>1, FS_CardinalityType
    <2>3. NamesOf(p)' = IF ModuleName(p) = ModuleName(m) THEN NamesOf(p) \cup {name}
                        ELSE NamesOf(p)
      BY <1>6, <1>7, FileStays DEF NamesOf
    <2>4. name \notin NamesOf(p)
      BY <1>7 DEF NamesOf
    <2>5. Cardinality(NamesOf(p) \cup {name}) = c(p) + 1
      BY <2>1, <2>4, FS_AddElement
    <2>. QED BY <2>1, <2>2, <2>3, <2>5
  <1>13. IsFiniteSet(DOMAIN named')
    <2>1. IsFiniteSet(DOMAIN named)
      BY <1>1 DEF NextIsFresh
    <2>. QED BY <1>6, <2>1, FS_AddElement
  <1> HIDE DEF c, d, mods, name
  <1>14. ASSUME NEW p \in mods, KnownModule(p), 2 * c(p) < Slot
         PROVE  /\ next_off[p] <= 2 * c(p)
                /\ \A n \in DOMAIN named : InSlot(named[n], p) =>
                     named[n] < SlotBase(p) + next_off[p]
    BY <1>1, <1>14 DEF NextIsFresh, c, mods
  <1>15. ASSUME NEW p \in mods, KnownModule(p), 2 * d(p) < Slot
         PROVE  /\ next_off'[p] <= 2 * d(p)
                /\ \A n \in DOMAIN named' : InSlot(named'[n], p) =>
                     named'[n] < SlotBase(p) + next_off'[p]
    <2>1. /\ next_off[p] <= 2 * c(p)
          /\ \A n \in DOMAIN named : InSlot(named[n], p) =>
               named[n] < SlotBase(p) + next_off[p]
      <3>1. 2 * c(p) < Slot
        BY <1>3, <1>12, <1>15
      <3>. QED BY <1>14, <1>15, <3>1
    <2>2. CASE p = m
      <3>1. off + 2 < Slot /\ off + 2 <= 2 * d(p)
        BY <1>3, <1>5, <1>12, <1>15, <2>1, <2>2 DEF off
      <3>2. next_off'[p] = off + 2
        BY <1>5, <1>8, <2>2, <3>1
      <3>3. ASSUME NEW n \in DOMAIN named, InSlot(named[n], p)
            PROVE  named[n] < SlotBase(p) + (off + 2)
        <4>1. PICK o \in Nat : named[n] = SegAddress(ModuleSlot(p), o)
          BY <3>3 DEF InSlot
        <4>2. named[n] = SlotBase(p) + o /\ SlotBase(p) \in Nat
          BY <1>9, <4>1
        <4>3. named[n] < SlotBase(p) + off
          BY <2>1, <2>2, <3>3 DEF off
        <4>. QED BY <1>5, <4>2, <4>3
      <3>4. addr < SlotBase(p) + (off + 2)
        BY <1>5, <1>9, <1>10, <2>2
      <3>. QED BY <1>6, <3>1, <3>2, <3>3, <3>4
    <2>3. CASE p # m
      <3>1. next_off'[p] = next_off[p]
        BY <1>8, <2>3
      <3>2. next_off[p] <= 2 * d(p)
        BY <1>8, <1>12, <2>1
      <3>3. ~InSlot(addr, p)
        BY <1>11, <2>3
      <3>. QED BY <1>6, <2>1, <3>1, <3>2, <3>3
    <2>. QED BY <2>2, <2>3
  <1>16. NextIsFresh'
    BY <1>13, <1>15, FileStays DEF NextIsFresh, d, mods
  <1>17. Room' => ImportsUnique'
    <2> SUFFICES ASSUME Room' PROVE ImportsUnique'
      OBVIOUS
    <2>1. \A p \in mods : 2 * d(p) <= Slot
      BY DEF Room, d, mods
    <2>2. Room
      <3>1. \A p \in mods : 2 * c(p) <= Slot
        BY <1>3, <1>12, <2>1
      <3>. QED BY <3>1 DEF Room, c, mods
    <2>3. 2 * c(m) < Slot
      BY <1>2, <1>3, <1>12, <2>1
    <2>4. \A n \in DOMAIN named : named[n] # addr
      <3>1. \A n \in DOMAIN named : InSlot(named[n], m) => named[n] < SlotBase(m) + off
        BY <1>2, <1>14, <2>3 DEF off
      <3>2. ~(addr < SlotBase(m) + off)
        BY <1>2, <1>5, <1>9, <1>10
      <3>. QED BY <1>10, <3>1, <3>2
    <2>5. ImportsUnique
      BY <1>1, <2>2
    <2>. QED BY <1>6, <2>4, <2>5 DEF ImportsUnique
  <1>. QED BY <1>16, <1>17 DEF FreshInv

\* A step that resolves an import.
LEMMA ImportFresh ==
  ASSUME IInv, FreshInv, input' = input, NEW m, NEW sym, KnownModule(m),
         next_off' = [next_off EXCEPT ![m] = Resolve(m, ImportName(m, sym)).next],
         named' = Resolve(m, ImportName(m, sym)).named
  PROVE  FreshInv'
  <1> DEFINE name == ImportName(m, sym)
  <1>1. CASE name \notin DOMAIN named
    BY <1>1, FreshAddress
  <1>2. CASE name \in DOMAIN named
    <2> HIDE DEF name
    <2>1. Resolve(m, name) = [addr |-> named[name], next |-> next_off[m], named |-> named]
      BY <1>2 DEF Resolve
    <2>2. next_off' = [next_off EXCEPT ![m] = next_off[m]] /\ named' = named
      BY <2>1 DEF name
    <2>3. next_off' = next_off
      BY <2>2 DEF IInv, TypeInv
    <2>. QED BY <2>2, <2>3, FileStays DEF FreshInv, NextIsFresh, Room, ImportsUnique, NamesOf
  <1>. QED BY <1>1, <1>2

\* No other step names an import or moves next_off on.
LEMMA FreshStep ==
  ASSUME IInv, FreshInv, [Next]_vars
  PROVE  FreshInv'
  <1>1. input' = input
    BY InputStays
  <1>2. CASE next_off' = next_off /\ named' = named
    BY <1>1, <1>2, FileStays DEF FreshInv, NextIsFresh, Room, ImportsUnique, NamesOf
  <1>3. CASE BuildImport
    <2>1. named' = named /\ next_off' = [next_off EXCEPT ![seg] = 0]
      BY <1>3 DEF BuildImport
    <2>2. DOMAIN named = {}
      BY <1>3 DEF BuildImport, IInv, InPhase, Loops
    <2>3. \A m \in 1 .. Len(input.mods) :
            next_off[m] \in Nat /\ (next_off'[m] = next_off[m] \/ next_off'[m] = 0)
      BY <2>1 DEF IInv, TypeInv
    <2>4. Slot \in Nat /\ Slot > 0
      BY SlotAssumption
    <2>5. \A m : NamesOf(m) = {} /\ NamesOf(m)' = {}
      BY <2>1, <2>2 DEF NamesOf
    <2>6. Cardinality({}) = 0 /\ IsFiniteSet({})
      BY FS_EmptySet
    <2>7. NextIsFresh'
      <3>0. \A m : 2 * Cardinality(NamesOf(m)) = 0 /\ 2 * Cardinality(NamesOf(m)') = 0
        BY <2>5, <2>6
      <3>1. \A m \in 1 .. Len(input.mods) : KnownModule(m) => next_off[m] <= 0
        BY <2>4, <3>0 DEF FreshInv, NextIsFresh
      <3>2. \A m \in 1 .. Len(input.mods) : KnownModule(m) => next_off'[m] <= 0
        BY <2>3, <3>1
      <3>. QED BY <1>1, <2>1, <2>2, <2>6, <3>0, <3>2, FileStays DEF NextIsFresh
    <2>8. ImportsUnique'
      BY <2>1, <2>2 DEF ImportsUnique
    <2>. QED BY <2>7, <2>8 DEF FreshInv
  <1>4. CASE HandleRecord
    <2>1. PICK rec : InternalRef(rec) \/ ImportByOrdinal(rec) \/ ImportByName(rec)
                     \/ OtherReloc(rec)
      BY <1>4 DEF HandleRecord
    <2>2. CASE InternalRef(rec) \/ OtherReloc(rec)
      BY <1>2, <2>2 DEF InternalRef, OtherReloc
    <2>3. CASE ImportByOrdinal(rec)
      <3>1. (next_off' = next_off /\ named' = named) \/
            (KnownModule(rec.mod) /\ \E sym : ApplyImport(rec, sym))
        BY <2>3 DEF ImportByOrdinal
      <3>. QED BY <1>1, <1>2, <3>1, ImportFresh DEF ApplyImport
    <2>4. CASE ImportByName(rec)
      <3>1. (next_off' = next_off /\ named' = named) \/
            (KnownModule(rec.mod) /\ \E sym : ApplyImport(rec, sym))
        BY <2>4 DEF ImportByName
      <3>. QED BY <1>1, <1>2, <3>1, ImportFresh DEF ApplyImport
    <2>. QED BY <2>1, <2>2, <2>3, <2>4
  <1>5. (next_off' = next_off /\ named' = named) \/ BuildImport \/ HandleRecord
    BY DEF Next, Step, Terminating, vars, LoadSegment, SegmentsLoaded, NoSegments,
           ImportsBuilt, SkipSegment, BeginRelocs, EndRelocs, RelocsLoaded, SetEntryPoint,
           NextPhase
  <1>. QED BY <1>2, <1>3, <1>4, <1>5

\* As long as no module has more imports than half the bytes of its slot, no two
\* symbols share an address, in whatever order they come up.  Beyond that
\* next_off, a u16, has gone round and its check "off + 2 > NE_SEG_SLOT" never
\* fails, so that this is the most that can be said.
THEOREM ImportsAreUnique == Spec => [](Room => ImportsUnique)
  <1>1. Init => FreshInv
    <2> SUFFICES ASSUME Init PROVE FreshInv
      OBVIOUS
    <2>1. DOMAIN named = {}
      BY DEF Init
    <2>2. Cardinality({}) = 0 /\ IsFiniteSet({})
      BY FS_EmptySet
    <2>3. \A m : NamesOf(m) = {}
      BY <2>1 DEF NamesOf
    <2>4. \A m \in 1 .. Len(input.mods) : next_off[m] = 0
      BY DEF Init
    <2>5. \A m : 2 * Cardinality(NamesOf(m)) = 0
      BY <2>2, <2>3
    <2>6. NextIsFresh
      BY <2>1, <2>2, <2>4, <2>5 DEF NextIsFresh
    <2>. QED BY <2>1, <2>6 DEF FreshInv, ImportsUnique
  <1>2. IInv /\ FreshInv /\ [Next]_vars => FreshInv'
    BY FreshStep
  <1>3. FreshInv => (Room => ImportsUnique)
    BY DEF FreshInv
  <1>. QED BY <1>1, <1>2, <1>3, InductiveInvariant, PTL DEF Spec

===============================================================================
