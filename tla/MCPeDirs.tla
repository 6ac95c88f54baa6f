------------------------------ MODULE MCPeDirs ------------------------------
(***************************************************************************)
(* Instances of PeDirs: images put together from directories, for four     *)
(* machines; at most one directory of an image is damaged.                 *)
(***************************************************************************)
EXTENDS PeDirs, TLC

Callbacks == 3
Words == 8
LinkerSymbols == {"_etext"}
Compilers == "msvcrt" :> "visual studio" @@ "msvbvm60" :> "visual basic"

Base == 10000
VA(rva) == Base + rva
VAs(rvas) == {VA(x) : x \in rvas}
Loadable(mem) == [a \in VAs(DOMAIN mem) |-> mem[a - Base]]

\* The numbers of a table from a on.
Table(a, width, s) == [x \in {a + width * (i - 1) : i \in DOMAIN s} |-> s[(x - a) \div width + 1]]

Without(mem, as) == [a \in DOMAIN mem \ as |-> mem[a]]

None == [va |-> 0, size |-> 0]
Dir(va, size) == [va |-> va, size |-> size]

-----------------------------------------------------------------------------
\* Six functions: two with code, one of them without a name and on ARM odd; a gap;
\* a forwarder; a boundary; data.  One ordinal belongs to the gap.
ExportMem(bit) ==
  1000 :> [functions |-> 1200, nfunctions |-> 6, ordinals |-> 1300, names |-> 1400,
           nnames |-> 5, base |-> 5]
  @@ Table(1200, 4, <<110, 0, 120 + bit, 1050, 130, 310>>)
  @@ Table(1300, 2, <<3, 0, 1, 5, 4>>)
  @@ Table(1400, 4, <<1500, 1502, 1504, 1506, 1508>>)
  @@ Table(1500, 2, <<"fwd", "a", "gap", "d", "_etext">>)
  @@ 1050 :> "dll.f"

ExportWants(bit) ==
  {[addr |-> VA(110), ord |-> 5, name |-> "a"], [addr |-> VA(120 + bit), ord |-> 7, name |-> ""],
   [addr |-> VA(1050), ord |-> 8, name |-> "fwd"], [addr |-> VA(130), ord |-> 9, name |-> "_etext"],
   [addr |-> VA(310), ord |-> 10, name |-> "d"]}

ByName(rva) == [ord |-> FALSE, value |-> rva]
ByOrdinal(n) == [ord |-> TRUE, value |-> n]
Last0 == ByName(0)
Desc(name, oft, ft) == [name |-> name, oft |-> oft, ft |-> ft]

\* The module that the second descriptor names.
Second(bound) == IF bound THEN "user32" ELSE "msvcrt"

\* The first module has both tables, the second the one that is not 0.
ImportMem(w, bound) ==
  Table(2000, 20, <<Desc(2600, 2100, 2200),
                    IF bound THEN Desc(2610, 2400, 0) ELSE Desc(2610, 0, 2400), Desc(0, 0, 0)>>)
  @@ Table(2100, w, <<ByName(2300), ByOrdinal(7), ByName(2320), Last0>>)
  @@ Table(2200, w, IF bound THEN <<ByName(99000), ByName(99004), ByName(99008), Last0>>
                    ELSE <<ByName(2300), ByOrdinal(7), ByName(2320), Last0>>)
  @@ Table(2400, w, <<ByName(2310), Last0>>)
  @@ 2300 :> "f" @@ 2310 :> "g" @@ 2320 :> "h" @@ 2600 :> "kernel32" @@ 2610 :> Second(bound)

ImportWants(w, bound) ==
  {[addr |-> VA(2200), module |-> "kernel32", ord |-> 0, name |-> "f"],
   [addr |-> VA(2200 + w), module |-> "kernel32", ord |-> 7, name |-> ""],
   [addr |-> VA(2200 + 2 * w), module |-> "kernel32", ord |-> 0, name |-> "h"],
   [addr |-> VA(2400), module |-> Second(bound), ord |-> 0, name |-> "g"]}

ResDir(named, ids) == [named |-> named, ids |-> ids]
Sub(off) == [dir |-> TRUE, off |-> off]
Leaf(off) == [dir |-> FALSE, off |-> off]

\* Two types, two names, two languages.
TreeMem ==
  3000 :> ResDir(1, 1) @@ Table(3016, 8, <<Sub(100), Sub(200)>>)
  @@ 3100 :> ResDir(0, 2) @@ Table(3116, 8, <<Sub(300), Sub(400)>>)
  @@ 3200 :> ResDir(1, 0) @@ Table(3216, 8, <<Sub(600)>>)
  @@ 3300 :> ResDir(0, 1) @@ Table(3316, 8, <<Leaf(500)>>)
  @@ 3400 :> ResDir(0, 2) @@ Table(3416, 8, <<Leaf(510), Leaf(520)>>)
  @@ 3600 :> ResDir(0, 1) @@ Table(3616, 8, <<Leaf(530)>>)
  @@ Table(3500, 10, <<[rva |-> 310, size |-> 4], [rva |-> 320, size |-> 0],
                       [rva |-> 330, size |-> 1], [rva |-> 340, size |-> 1]>>)

\* The root refers to itself before it refers to data.
LoopMem ==
  3000 :> ResDir(1, 2) @@ Table(3016, 8, <<Sub(0), Leaf(510), Leaf(500)>>)
  @@ Table(3500, 10, <<[rva |-> 310, size |-> 4], [rva |-> 320, size |-> 0]>>)

Trees == {TreeMem, LoopMem}

\* With the damage, the data behind the entry that cannot be read is lost.
ResourceWants(tree, damage) ==
  CASE tree = TreeMem /\ damage # "resources" -> {310, 330, 340}
    [] tree = TreeMem /\ damage = "resources" -> {310, 340}
    [] tree = LoopMem /\ damage # "resources" -> {310}
    [] tree = LoopMem /\ damage = "resources" -> {}

ExceptionMem(bit) ==
  Table(4000, 12, <<[begin |-> 140 + bit, unwind |-> 4100], [begin |-> 0, unwind |-> 4100],
                    [begin |-> 150, unwind |-> 4200], [begin |-> 160, unwind |-> 0]>>)
  @@ 4100 :> [handler |-> TRUE, codes |-> 3] @@ Table(4112, 4, <<100, 340>>)
  @@ 4200 :> [handler |-> FALSE, codes |-> 1] @@ Table(4208, 4, <<100, 350>>)

DebugMem ==
  Table(5000, 28, <<[type |-> "codeview", rva |-> 5100], [type |-> "misc", rva |-> 5200],
                    [type |-> "codeview", rva |-> 5300]>>)
  @@ 5100 :> "RSDS" @@ 5124 :> "pdb" @@ 5300 :> "NB10" @@ 5316 :> "pdb"

\* Addresses; on ARM with the bit of the instruction set.
TlsMem(w, bit) ==
  6000 :> [index |-> VA(350), callbacks |-> VA(6100)]
  @@ Table(6100, w, <<VA(170) + bit, VA(180), 0>>)

ConfigMem(w, size) ==
  7000 :> [size |-> size, cookie |-> VA(360), handlers |-> VA(7100), count |-> 3]
  @@ Table(7100, w, <<190, 0, 195>>)

-----------------------------------------------------------------------------
Section(va, vsize, raw, exec) ==
  [va |-> va, vsize |-> vsize, raw |-> raw, ptr |-> 1, exec |-> exec]

\* The second one is code around the exports.  The last two are refused: empty,
\* and over another one.
MCSections ==
  <<Section(100, 90, 120, FALSE), Section(1000, 100, 100, TRUE), Section(300, 0, 100, FALSE),
    Section(500, 0, 0, TRUE), Section(350, 80, 80, TRUE)>>

Damages == {"none", "exports", "imports", "resources", "exceptions", "tls", "config"}

\* What cannot be read where a directory is damaged: the ordinals from the second
\* on, the name of the first module, a data entry in front of another, the second function, the
\* directory of the callbacks, the handlers from the second on.
Lost(damage, w) ==
  CASE damage = "exports" -> {1302, 1304, 1306, 1308}
    [] damage = "imports" -> {2600}
    [] damage = "resources" -> {3510}
    [] damage = "exceptions" -> {4012}
    [] damage = "tls" -> {6000}
    [] damage = "config" -> {7100 + w}
    [] OTHER -> {}

PE(machine, exports, bound, imports, tree, damage, version) ==
  LET wide == machine \in {"amd64", "arm64"}
      w == IF wide THEN 8 ELSE 4
      bit == IF machine \in {"arm", "arm64"} THEN 1 ELSE 0
      size == IF wide THEN 148 ELSE 72
      mem == ExportMem(bit) @@ ImportMem(w, bound) @@ tree @@ ExceptionMem(bit) @@ DebugMem
             @@ TlsMem(w, bit) @@ ConfigMem(w, size)
  IN  [machine |-> machine, base |-> Base, align |-> 10, entry |-> 104 + bit,
       dotnet |-> version, rich |-> "visual studio", sections |-> MCSections,
       damaged |-> damage, mem |-> Loadable(Without(mem, Lost(damage, w))),
       dirs |-> [exports |-> IF exports THEN Dir(1000, 100) ELSE None,
                 imports |-> IF imports THEN Dir(2000, 60) ELSE None,
                 resources |-> Dir(3000, 1000), exceptions |-> Dir(4000, 48),
                 debug |-> Dir(5000, 84), tls |-> Dir(6000, 24), config |-> Dir(7000, 64)],
       wants |-> [exports |-> IF exports THEN ExportWants(bit) ELSE {},
                  imports |-> IF imports THEN ImportWants(w, bound) ELSE {},
                  resources |-> VAs(ResourceWants(tree, damage)),
                  funcinfos |-> IF wide THEN VAs({340}) ELSE {},
                  functions |->
                    [exports |-> IF exports THEN VAs({110, 120 + bit}) ELSE {},
                     exceptions |-> IF wide THEN VAs({140, 150, 160}) ELSE {},
                     tls |-> VAs({170, 180}),
                     config |-> IF bit = 1 THEN {} ELSE VAs({190, 195}),
                     entry |-> {VA(104)}]]]

MCImages ==
  {PE(machine, exports, bound, imports, tree, damage, 0) :
     machine \in {"x86", "amd64", "arm", "arm64"}, exports \in BOOLEAN, bound \in BOOLEAN,
     imports \in BOOLEAN, tree \in Trees, damage \in Damages}
  \cup {PE("x86", TRUE, FALSE, TRUE, TreeMem, "none", 2)}
=============================================================================
