----------------------------- MODULE DalvikCode -----------------------------
(***************************************************************************)
(* The Dalvik processor: dalvik_decode with its instruction formats, and   *)
(* dalvik_emulate with the payloads of switches and arrays, driven by the  *)
(* engine over the addresses it was told to go on at.                      *)
(*                                                                         *)
(* Code is in units of 16 bits; mem maps the even byte addresses of a      *)
(* method's code to units.  A 64-bit constant is the sequence of its four  *)
(* units, the least significant first.                                     *)
(***************************************************************************)
EXTENDS Integers, Sequences

CONSTANT
  Methods   \* [code, tables]: units by address, and what dalvik_setup has left:
            \* [valid, table, strings]

Word == 65536

\* A table of the file, and where the text of a string is: leb bytes of length
\* in front of it.
IsTable(t) == t.off \in Nat /\ t.size \in Nat
IsText(s) == s.readable => s.data \in Nat /\ s.leb \in Nat

ASSUME MethodsAssumption ==
  \A m \in Methods :
    /\ DOMAIN m.code # {}
    /\ \A a \in DOMAIN m.code : a \in Nat /\ m.code[a] \in 0..(Word - 1)
    /\ m.tables.valid =>
         /\ "STRING" \in DOMAIN m.tables.table
         /\ \A kind \in DOMAIN m.tables.table : IsTable(m.tables.table[kind])
         /\ \A i \in 0..(m.tables.table["STRING"].size - 1) :
              IsText(m.tables.strings[i])

VARIABLES
  mem,      \* the code of the method
  dex,      \* the header and the tables of the map
  todo,     \* addresses the engine will decode
  decoded,  \* the instructions decoded so far; length 0 where there is none
  xrefs,    \* cross references added
  types     \* types set in the space: [addr, type, count]

codevars == <<mem, dex, todo, decoded, xrefs, types>>

-----------------------------------------------------------------------------
(* The opcode table                                                        *)

\* The operators from neg-int on.
Arithmetic == \h7B..\h8F \cup \h90..\hE2

\* The formats of unary, binary, two-address and literal operators.
ArithmeticFormat(op) ==
  CASE op \in \h7B..\h8F \cup \hB0..\hCF -> "12x"
    [] op \in \h90..\hAF -> "23x"
    [] op \in \hD0..\hD7 -> "22s"
    [] op \in \hD8..\hE2 -> "22b"

\* The format of an opcode; what has no mnemonic is unused.
FormatOf(op) ==
  CASE op \in Arithmetic -> ArithmeticFormat(op)
    [] op \in {\h00, \h0E} -> "10x"
    [] op \in {\h01, \h04, \h07, \h21} -> "12x"
    [] op = \h12 -> "11n"
    [] op \in \h0A..\h0D \cup \h0F..\h11 \cup {\h1D, \h1E, \h27} -> "11x"
    [] op = \h28 -> "10t"
    [] op = \h29 -> "20t"
    [] op \in {\h02, \h05, \h08} -> "22x"
    [] op \in \h38..\h3D -> "21t"
    [] op \in {\h13, \h16} -> "21s"
    [] op \in {\h15, \h19} -> "21h"
    [] op \in {\h1A, \h1C, \h1F, \h22, \hFE, \hFF} \cup \h60..\h6D -> "21c"
    [] op \in \h2D..\h31 \cup \h44..\h51 -> "23x"
    [] op \in \h32..\h37 -> "22t"
    [] op \in {\h20, \h23} \cup \h52..\h5F -> "22c"
    [] op = \h2A -> "30t"
    [] op \in {\h03, \h06, \h09} -> "32x"
    [] op \in {\h14, \h17} -> "31i"
    [] op \in {\h26, \h2B, \h2C} -> "31t"
    [] op = \h1B -> "31c"
    [] op \in {\h24, \hFC} \cup \h6E..\h72 -> "35c"
    [] op \in {\h25, \hFD} \cup \h74..\h78 -> "3rc"
    [] op = \hFA -> "45cc"
    [] op = \hFB -> "4rcc"
    [] op = \h18 -> "51l"
    [] OTHER -> "unused"

\* What the index of an opcode counts.
IndexKind(op) ==
  CASE op \in {\h1A, \h1B} -> "STRING"
    [] op \in {\h1C, \h1F, \h20} \cup \h22..\h25 -> "TYPE"
    [] op \in \h52..\h6D -> "FIELD"
    [] op \in \h6E..\h78 -> "METHOD"
    [] op \in {\hFA, \hFB} -> "METHOD_PROTO"
    [] op \in {\hFC, \hFD} -> "CALL_SITE"
    [] op = \hFE -> "METHOD_HANDLE"
    [] op = \hFF -> "PROTO"
    [] OTHER -> "NONE"

\* Where an opcode goes on.
FlowOf(op) ==
  CASE op = \h00 -> "NOP"
    [] op \in \h0E..\h11 \cup {\h27} -> "STOP"
    [] op \in \h28..\h2A -> "JUMP"
    [] op \in {\h2B, \h2C} \cup \h32..\h3D -> "JUMP_COND"
    [] op \in \h6E..\h78 \cup \hFA..\hFD -> "CALL"
    [] OTHER -> "NONE"

\* The units of an instruction.
Units(f) ==
  CASE f \in {"10x", "12x", "11n", "11x", "10t"} -> 1
    [] f \in {"20t", "22x", "21t", "21s", "21h", "21c", "23x", "22b", "22t",
              "22s", "22c"} -> 2
    [] f \in {"30t", "32x", "31i", "31t", "31c", "35c", "3rc"} -> 3
    [] f \in {"45cc", "4rcc"} -> 4
    [] f = "51l" -> 5

FillArrayData == \h26
PackedSwitch == \h2B
SparseSwitch == \h2C

-----------------------------------------------------------------------------
(* Reading and numbers                                                     *)

Readable(a) == a \in DOMAIN mem
Unit(a, k) == mem[a + 2 * k]
Opcode(a) == Unit(a, 0) % 256
AA(a) == Unit(a, 0) \div 256
A(a) == AA(a) % 16
B(a) == AA(a) \div 16

Signed(n, w) == IF 2 * n < w THEN n ELSE n - w
Signed32(lo, hi) == Signed(hi, Word) * Word + lo

\* A sign-extended constant of 32 bits, and one of up to 16 bits.
Const32(lo, hi) ==
  LET sign == IF 2 * hi < Word THEN 0 ELSE Word - 1 IN <<lo, hi, sign, sign>>
Const16(n) == Const32(n % Word, IF n < 0 THEN Word - 1 ELSE 0)

-----------------------------------------------------------------------------
(* Indices into the tables of the file                                     *)

TableOf(kind) == IF kind = "METHOD_PROTO" THEN "METHOD" ELSE kind

Stride(kind) ==
  CASE kind \in {"TYPE", "CALL_SITE"} -> 4
    [] kind \in {"FIELD", "METHOD", "METHOD_HANDLE"} -> 8
    [] kind = "PROTO" -> 12

\* mutant: an index may be the number of items.
Resolves_Last(kind, idx) ==
  /\ dex.valid
  /\ IF kind = "STRING"
     THEN idx < dex.table["STRING"].size /\ dex.strings[idx].readable
     ELSE /\ TableOf(kind) \in DOMAIN dex.table
          /\ idx <= dex.table[TableOf(kind)].size

\* An index has an address if the header is there, the table has such an item
\* and, for a string, its data can be read.
Resolves(kind, idx) ==
  /\ dex.valid
  /\ IF kind = "STRING"
     THEN idx < dex.table["STRING"].size /\ dex.strings[idx].readable
     ELSE /\ TableOf(kind) \in DOMAIN dex.table
          /\ idx < dex.table[TableOf(kind)].size

ItemAddress(kind, idx) ==
  IF kind = "STRING"
  THEN dex.strings[idx].data + dex.strings[idx].leb
  ELSE dex.table[TableOf(kind)].off + idx * Stride(TableOf(kind))

-----------------------------------------------------------------------------
(* Operands                                                                *)

Reg(n) == [kind |-> "REG", reg |-> n]
Cnst(v) == [kind |-> "CNST", cnst |-> v]
Addr(a) == [kind |-> "ADDR", addr |-> a, of |-> <<>>]
RegList(n, v) == [kind |-> "REGLIST", count |-> n, cnst |-> v]
RegRange(r, n) == [kind |-> "REGRANGE", reg |-> r, count |-> n]

\* An index operand; of is what userdata1 and userdata2 keep.
Index(kind, idx) ==
  IF Resolves(kind, idx)
  THEN [kind |-> "ADDR", addr |-> ItemAddress(kind, idx), of |-> <<kind, idx>>]
  ELSE [kind |-> "INDEX", cnst |-> idx, of |-> <<kind, idx>>]

\* The one of 35c, which has code of its own: no userdata with an address.
Index35c(kind, idx) ==
  IF Resolves(kind, idx)
  THEN Addr(ItemAddress(kind, idx))
  ELSE [kind |-> "INDEX", cnst |-> idx, of |-> <<kind, 0>>]

\* The registers that rendering shows for an operand.
ReglistReg(v, i) == (v \div 16 ^ i) % 16

Shown(op) ==
  CASE op.kind = "REG" -> <<op.reg>>
    [] op.kind = "REGLIST" -> [i \in 1..op.count |-> ReglistReg(op.cnst, i - 1)]
    [] op.kind = "REGRANGE" ->
         IF op.count > 1 THEN <<op.reg, op.reg + op.count - 1>> ELSE <<op.reg>>
    [] OTHER -> <<>>

-----------------------------------------------------------------------------
(* The decoders, one per format                                            *)

Decode10t(a) == <<Addr(a + 2 * Signed(AA(a), 256))>>

\* instr->id is set behind the decoder, so the shift by 48 is never taken.
Decode21h(a) == <<Reg(AA(a)), Cnst(Const32(0, Unit(a, 1)))>>

Decode21s(a) == <<Reg(AA(a)), Cnst(Const16(Signed(Unit(a, 1), Word)))>>

\* mutant: the literal of 11n is taken as it is.
Decode11n_Unsigned(a) == <<Reg(A(a)), Cnst(Const16(B(a)))>>

Decode11n(a) == <<Reg(A(a)), Cnst(Const16(Signed(B(a), 16)))>>

Decode11x(a) == <<Reg(AA(a))>>

Decode12x(a) == <<Reg(A(a)), Reg(B(a))>>

Decode20t(a) == <<Addr(a + 2 * Signed(Unit(a, 1), Word))>>

Decode21c(a) == <<Reg(AA(a)), Index(IndexKind(Opcode(a)), Unit(a, 1))>>

Decode21t(a) == <<Reg(AA(a)), Addr(a + 2 * Signed(Unit(a, 1), Word))>>

Decode22b(a) ==
  <<Reg(AA(a)), Reg(Unit(a, 1) % 256),
    Cnst(Const16(Signed(Unit(a, 1) \div 256, 256)))>>

Decode22c(a) ==
  <<Reg(A(a)), Reg(B(a)), Index(IndexKind(Opcode(a)), Unit(a, 1))>>

Decode22s(a) == <<Reg(A(a)), Reg(B(a)), Cnst(Const16(Signed(Unit(a, 1), Word)))>>

Decode22t(a) == <<Reg(A(a)), Reg(B(a)), Addr(a + 2 * Signed(Unit(a, 1), Word))>>

Decode22x(a) == <<Reg(AA(a)), Reg(Unit(a, 1))>>

Decode23x(a) ==
  <<Reg(AA(a)), Reg(Unit(a, 1) % 256), Reg(Unit(a, 1) \div 256)>>

Decode30t(a) == <<Addr(a + 2 * Signed32(Unit(a, 1), Unit(a, 2)))>>

Decode31c(a) ==
  <<Reg(AA(a)), Index(IndexKind(Opcode(a)), Unit(a, 2) * Word + Unit(a, 1))>>

Decode31i(a) == <<Reg(AA(a)), Cnst(Const32(Unit(a, 1), Unit(a, 2)))>>

Decode31t(a) ==
  <<Reg(AA(a)), Addr(a + 2 * Signed32(Unit(a, 1), Unit(a, 2)))>>

Decode32x(a) == <<Reg(Unit(a, 1)), Reg(Unit(a, 2))>>

\* The fifth register of a list comes from the first unit.
Packed(a) == A(a) * Word + Unit(a, 2)

Decode35c(a) ==
  <<RegList(B(a), Packed(a)), Index35c(IndexKind(Opcode(a)), Unit(a, 1))>>

Decode3rc(a) ==
  <<RegRange(Unit(a, 2), AA(a)), Index(IndexKind(Opcode(a)), Unit(a, 1))>>

Decode45cc(a) ==
  <<RegList(B(a), Packed(a)), Index("METHOD", Unit(a, 1)),
    Index("PROTO", Unit(a, 3))>>

Decode4rcc(a) ==
  <<RegRange(Unit(a, 2), AA(a)), Index("METHOD", Unit(a, 1)),
    Index("PROTO", Unit(a, 3))>>

Decode51l(a) == <<Reg(AA(a)), Cnst([k \in 1..4 |-> Unit(a, k)])>>

-----------------------------------------------------------------------------
(* dalvik_decode                                                           *)

Operands(a) ==
  LET f == FormatOf(Opcode(a)) IN
  CASE f = "10x" -> <<>>
    [] f = "10t" -> Decode10t(a)
    [] f = "11n" -> Decode11n(a)
    [] f = "11x" -> Decode11x(a)
    [] f = "12x" -> Decode12x(a)
    [] f = "20t" -> Decode20t(a)
    [] f = "21c" -> Decode21c(a)
    [] f = "21h" -> Decode21h(a)
    [] f = "21s" -> Decode21s(a)
    [] f = "21t" -> Decode21t(a)
    [] f = "22b" -> Decode22b(a)
    [] f = "22c" -> Decode22c(a)
    [] f = "22s" -> Decode22s(a)
    [] f = "22t" -> Decode22t(a)
    [] f = "22x" -> Decode22x(a)
    [] f = "23x" -> Decode23x(a)
    [] f = "30t" -> Decode30t(a)
    [] f = "31c" -> Decode31c(a)
    [] f = "31i" -> Decode31i(a)
    [] f = "31t" -> Decode31t(a)
    [] f = "32x" -> Decode32x(a)
    [] f = "35c" -> Decode35c(a)
    [] f = "3rc" -> Decode3rc(a)
    [] f = "45cc" -> Decode45cc(a)
    [] f = "4rcc" -> Decode4rcc(a)
    [] f = "51l" -> Decode51l(a)

\* The first unit of a payload has the opcode of nop.
IsPayload(a) == Opcode(a) = 0 /\ AA(a) # 0

\* The format's registers are at most five.
CountFits(a) == FormatOf(Opcode(a)) \in {"35c", "45cc"} => B(a) <= 5

\* There is an instruction: every path of dalvik_decode that does not return.
Decodes(a) ==
  /\ Readable(a)
  /\ ~IsPayload(a)
  /\ FormatOf(Opcode(a)) # "unused"
  /\ \A k \in 1..(Units(FormatOf(Opcode(a))) - 1) : Readable(a + 2 * k)
  /\ CountFits(a)

Instruction(a) ==
  [id |-> Opcode(a), length |-> 2 * Units(FormatOf(Opcode(a))),
   flow |-> FlowOf(Opcode(a)), operands |-> Operands(a)]

NoInstruction == [id |-> 0, length |-> 0, flow |-> "NONE", operands |-> <<>>]

-----------------------------------------------------------------------------
(* The engine: it decodes the addresses it is told of, once each, in an    *)
(* order of its own, and goes on at the targets of jumps.                  *)

CanFlow(in) == in.flow \notin {"JUMP", "STOP"}
IsJump(in) == in.flow \in {"JUMP", "JUMP_COND"}
IsCall(in) == in.flow = "CALL"

Known == DOMAIN decoded

\* Address a is dealt with; the engine goes on at those of targets it can read.
Visited(a, in, targets) ==
  /\ decoded' = [x \in Known \cup {a} |-> IF x = a THEN in ELSE decoded[x]]
  /\ todo' = (todo \cup {t \in targets : Readable(t)}) \ (Known \cup {a})

-----------------------------------------------------------------------------
(* dalvik_emulate                                                          *)

\* rd_flow to the next instruction.
Onward(a, in) == IF CanFlow(in) THEN {a + in.length} ELSE {}

Addresses(in) ==
  {in.operands[i].addr :
     i \in {j \in DOMAIN in.operands : in.operands[j].kind = "ADDR"}}

Xref(from, to, type) == [from |-> from, to |-> to, type |-> type]
Type(addr, type, count) == [addr |-> addr, type |-> type, count |-> count]

\* A field of a payload of 32 bits.
Readable32(p) == Readable(p) /\ Readable(p + 2)
Read32(p) == Signed32(mem[p], mem[p + 2])

\* Where the targets of the payload at p are.
TargetsAt(p) ==
  IF mem[p] = \h0100 THEN p + 8 ELSE p + 4 + 4 * mem[p + 2]

\* _dalvik_switch_payload goes past its early returns.
IsSwitchPayload(p) ==
  /\ Readable(p) /\ Readable(p + 2)
  /\ mem[p + 2] # 0
  /\ mem[p] \in {\h0100, \h0200}

\* mutant: relative to the payload.
Cases_Payload(a, p) ==
  LET t == TargetsAt(p)
      read == {i \in 0..(mem[p + 2] - 1) :
                 \A j \in 0..i : Readable32(t + 4 * j)}
  IN  {p + 2 * Read32(t + 4 * i) : i \in read}

\* The cases: up to the first target that cannot be read, each relative to the
\* instruction.
Cases(a, p) ==
  LET t == TargetsAt(p)
      read == {i \in 0..(mem[p + 2] - 1) :
                 \A j \in 0..i : Readable32(t + 4 * j)}
  IN  {a + 2 * Read32(t + 4 * i) : i \in read}

SwitchTypes(p) ==
  IF mem[p] = \h0100
  THEN {Type(p, "DALVIK_PACKED_SWITCH", 0), Type(TargetsAt(p), "i32", mem[p + 2])}
  ELSE {Type(p, "DALVIK_SPARSE_SWITCH", 0), Type(p + 4, "i32", mem[p + 2]),
        Type(TargetsAt(p), "i32", mem[p + 2])}

\* _dalvik_fill_array_data goes past its early returns.
IsArrayPayload(p) ==
  /\ Readable(p) /\ Readable(p + 2) /\ Readable32(p + 4)
  /\ mem[p] = \h0300 /\ mem[p + 2] # 0 /\ Read32(p + 4) # 0

ArrayTypes(p) ==
  {Type(p, "DALVIK_FILL_ARRAY_DATA", 0)}
    \cup IF mem[p + 2] \in {1, 2, 4, 8}
         THEN {Type(p + 8, mem[p + 2], Read32(p + 4))} ELSE {}

\* An address with no instruction.
DecodeFails(a) ==
  /\ a \in todo
  /\ ~Decodes(a)
  /\ Visited(a, NoInstruction, {})
  /\ UNCHANGED <<mem, dex, xrefs, types>>

\* The branch of packed-switch and sparse-switch.
EmulateSwitch(a) ==
  /\ a \in todo /\ Decodes(a)
  /\ Opcode(a) \in {PackedSwitch, SparseSwitch}
  /\ LET in == Instruction(a)
         p == in.operands[2].addr
         cases == IF IsSwitchPayload(p) THEN Cases(a, p) ELSE {}
     IN  /\ Visited(a, in, cases \cup Onward(a, in))
         /\ xrefs' = xrefs \cup {Xref(a, p, "DR_ADDRESS")}
                           \cup {Xref(a, c, "CR_JUMP") : c \in cases}
         /\ types' = types \cup IF IsSwitchPayload(p) THEN SwitchTypes(p) ELSE {}
  /\ UNCHANGED <<mem, dex>>

\* The branch of fill-array-data.
EmulateFillArray(a) ==
  /\ a \in todo /\ Decodes(a)
  /\ Opcode(a) = FillArrayData
  /\ LET in == Instruction(a)
         p == in.operands[2].addr
     IN  /\ Visited(a, in, Onward(a, in))
         /\ xrefs' = xrefs \cup {Xref(a, p, "DR_ADDRESS")}
         /\ types' = types \cup IF IsArrayPayload(p) THEN ArrayTypes(p) ELSE {}
  /\ UNCHANGED <<mem, dex>>

\* Every other instruction.
EmulateOther(a) ==
  /\ a \in todo /\ Decodes(a)
  /\ Opcode(a) \notin {PackedSwitch, SparseSwitch, FillArrayData}
  /\ LET in == Instruction(a)
         type == IF IsCall(in) THEN "CR_CALL"
                 ELSE IF IsJump(in) THEN "CR_JUMP" ELSE "DR_ADDRESS"
         jumps == IF IsJump(in) THEN Addresses(in) ELSE {}
     IN  /\ Visited(a, in, jumps \cup Onward(a, in))
         /\ xrefs' = xrefs \cup {Xref(a, t, type) : t \in Addresses(in)}
  /\ UNCHANGED <<mem, dex, types>>

\* The engine has nothing left to decode.
Done == todo = {} /\ UNCHANGED codevars

-----------------------------------------------------------------------------
\* A method: the engine starts at its first instruction.
CodeInit ==
  /\ \E m \in Methods : mem = m.code /\ dex = m.tables
  /\ todo = {CHOOSE a \in DOMAIN mem : \A b \in DOMAIN mem : a <= b}
  /\ decoded = <<>>
  /\ xrefs = {}
  /\ types = {}

CodeNext ==
  \/ \E a \in todo :
       \/ DecodeFails(a)
       \/ EmulateSwitch(a)
       \/ EmulateFillArray(a)
       \/ EmulateOther(a)
  \/ Done

CodeSpec == CodeInit /\ [][CodeNext]_codevars

-----------------------------------------------------------------------------
(* What the instruction set says: the fields of a format are the nibbles   *)
(* that carry their letter, lowest first, and the arguments name fields.   *)

Layout(f) ==
  CASE f = "10x" -> <<"op", "op", "-", "-">>
    [] f \in {"12x", "11n"} -> <<"op", "op", "A", "B">>
    [] f \in {"11x", "10t"} -> <<"op", "op", "A", "A">>
    [] f = "20t" -> <<"op", "op", "-", "-", "A", "A", "A", "A">>
    [] f \in {"22x", "21t", "21s", "21h", "21c"} ->
         <<"op", "op", "A", "A", "B", "B", "B", "B">>
    [] f \in {"23x", "22b"} -> <<"op", "op", "A", "A", "B", "B", "C", "C">>
    [] f \in {"22t", "22s", "22c"} ->
         <<"op", "op", "A", "B", "C", "C", "C", "C">>
    [] f = "30t" ->
         <<"op", "op", "-", "-", "A", "A", "A", "A", "A", "A", "A", "A">>
    [] f = "32x" ->
         <<"op", "op", "-", "-", "A", "A", "A", "A", "B", "B", "B", "B">>
    [] f \in {"31i", "31t", "31c"} ->
         <<"op", "op", "A", "A", "B", "B", "B", "B", "B", "B", "B", "B">>
    [] f = "35c" ->
         <<"op", "op", "G", "A", "B", "B", "B", "B", "C", "D", "E", "F">>
    [] f = "3rc" ->
         <<"op", "op", "A", "A", "B", "B", "B", "B", "C", "C", "C", "C">>
    [] f = "45cc" ->
         <<"op", "op", "G", "A", "B", "B", "B", "B", "C", "D", "E", "F",
           "H", "H", "H", "H">>
    [] f = "4rcc" ->
         <<"op", "op", "A", "A", "B", "B", "B", "B", "C", "C", "C", "C",
           "H", "H", "H", "H">>
    [] f = "51l" ->
         <<"op", "op", "A", "A", "B", "B", "B", "B", "B", "B", "B", "B",
           "B", "B", "B", "B", "B", "B", "B", "B">>

Arguments(f) ==
  LET reg(x) == <<"register", x>> IN
  CASE f = "10x" -> <<>>
    [] f \in {"12x", "22x", "32x"} -> <<reg("A"), reg("B")>>
    [] f = "11x" -> <<reg("A")>>
    [] f \in {"11n", "21s", "31i", "51l"} -> <<reg("A"), <<"literal", "B">>>>
    [] f = "21h" -> <<reg("A"), <<"high", "B">>>>
    [] f \in {"10t", "20t", "30t"} -> <<<<"target", "A">>>>
    [] f \in {"21t", "31t"} -> <<reg("A"), <<"target", "B">>>>
    [] f \in {"21c", "31c"} -> <<reg("A"), <<"item", "B">>>>
    [] f = "23x" -> <<reg("A"), reg("B"), reg("C")>>
    [] f \in {"22b", "22s"} -> <<reg("A"), reg("B"), <<"literal", "C">>>>
    [] f = "22t" -> <<reg("A"), reg("B"), <<"target", "C">>>>
    [] f = "22c" -> <<reg("A"), reg("B"), <<"item", "C">>>>
    [] f = "35c" -> <<<<"list", "A">>, <<"item", "B">>>>
    [] f = "3rc" -> <<<<"range", "C">>, <<"item", "B">>>>
    [] f = "45cc" -> <<<<"list", "A">>, <<"item", "B">>, <<"proto", "H">>>>
    [] f = "4rcc" -> <<<<"range", "C">>, <<"item", "B">>, <<"proto", "H">>>>

Nibble(a, k) == (Unit(a, k \div 4) \div 16 ^ (k % 4)) % 16

\* The nibbles of a field of the instruction at a, which follow one another.
Field(a, x) ==
  LET layout == Layout(FormatOf(Opcode(a)))
      places == {k \in DOMAIN layout : layout[k] = x}
      first == CHOOSE k \in places : \A l \in places : k <= l
  IN  [i \in {k - first + 1 : k \in places} |-> Nibble(a, first + i - 2)]

Number(s) ==
  LET sum[i \in 0..Len(s)] ==
        IF i = 0 THEN 0 ELSE sum[i - 1] + s[i] * 16 ^ (i - 1)
  IN  sum[Len(s)]

\* The same with the sign of the highest nibble.
SignedNumber(s) ==
  Number([s EXCEPT ![Len(s)] = IF @ < 8 THEN @ ELSE @ - 16])

\* The four units of a literal, its highest nibble repeated.
Literal(s) ==
  LET nibble(i) ==
        IF i <= Len(s) THEN s[i] ELSE IF s[Len(s)] < 8 THEN 0 ELSE 15
  IN  [k \in 1..4 |-> Number([i \in 1..4 |-> nibble(4 * (k - 1) + i)])]

IsItem(op, kind, idx) ==
  IF Resolves(kind, idx)
  THEN op.kind = "ADDR" /\ op.addr = ItemAddress(kind, idx)
  ELSE op.kind = "INDEX" /\ op.cnst = idx
       /\ TableOf(op.of[1]) = TableOf(kind)

\* Operand op of the instruction at a is the argument arg.
IsArgument(op, arg, a) ==
  LET s == Field(a, arg[2])
      count == Number(Field(a, "A"))
  IN
  CASE arg[1] = "register" -> op = Reg(Number(s))
    [] arg[1] = "literal" -> op = Cnst(Literal(s))
    [] arg[1] = "high" ->
         Opcode(a) = \h15 => op = Cnst(Literal(<<0, 0, 0, 0>> \o s))
    [] arg[1] = "target" -> op = Addr(a + 2 * SignedNumber(s))
    [] arg[1] = "item" -> IsItem(op, IndexKind(Opcode(a)), Number(s))
    [] arg[1] = "proto" -> IsItem(op, "PROTO", Number(s))
    [] arg[1] = "list" ->
         LET all == Field(a, "C") \o Field(a, "D") \o Field(a, "E")
                      \o Field(a, "F") \o Field(a, "G")
         IN  Shown(op) = SubSeq(all, 1, Number(s))
    [] arg[1] = "range" ->
         count > 0 => Shown(op) = IF count = 1 THEN <<Number(s)>>
                                  ELSE <<Number(s), Number(s) + count - 1>>

Instructions == {a \in Known : decoded[a].length > 0}

\* Where the branch, the goto or the cases of the instruction at a lead.  A
\* payload's targets are its last units: two for each of its size.
Branches(a) ==
  LET f == FormatOf(Opcode(a))
      p == a + 2 * SignedNumber(Field(a, "B"))
      units == IF mem[p] = \h0100 THEN 4 + 2 * mem[p + 2] ELSE 2 + 4 * mem[p + 2]
      target(i) == p + 2 * (units - 2 * (mem[p + 2] - i))
      read == {i \in 0..(mem[p + 2] - 1) : \A j \in 0..i : Readable32(target(j))}
  IN
  CASE f \in {"10t", "20t", "30t"} -> {a + 2 * SignedNumber(Field(a, "A"))}
    [] f = "21t" -> {a + 2 * SignedNumber(Field(a, "B"))}
    [] f = "22t" -> {a + 2 * SignedNumber(Field(a, "C"))}
    [] Opcode(a) \in {PackedSwitch, SparseSwitch} ->
         IF Readable32(p) /\ mem[p] \in {\h0100, \h0200}
         THEN {a + 2 * SignedNumber([k \in 1..8 |-> Nibble(target(i), k - 1)]) : i \in read}
         ELSE {}
    [] OTHER -> {}

\* Execution goes from a to the instruction behind it.
FallsThrough(a) ==
  FormatOf(Opcode(a)) \notin {"10t", "20t", "30t"}
    /\ Opcode(a) \notin \h0E..\h11 \cup {\h27}

Successors(a) ==
  Branches(a) \cup IF FallsThrough(a)
                   THEN {a + Len(Layout(FormatOf(Opcode(a)))) \div 2} ELSE {}

-----------------------------------------------------------------------------
(* Properties                                                              *)

\* The operands of an instruction are the arguments of its format, whatever
\* bits its units have: nibbles in the right order, signs, the fifth register
\* of a list, the units of a constant.  (const-wide/high16 is an exception.)
OperandsAsSpecified ==
  \A a \in Instructions :
    LET in == decoded[a]
        args == Arguments(FormatOf(in.id))
    IN  /\ in.length * 2 = Len(Layout(FormatOf(in.id)))
        /\ Len(in.operands) = Len(args)
        /\ \A i \in DOMAIN args : IsArgument(in.operands[i], args[i], a)

\* The kinds of what an index of an operand counts, strings apart.
ItemKinds == {"TYPE", "PROTO", "FIELD", "METHOD", "CALL_SITE", "METHOD_HANDLE"}

\* Where the table of a kind ends.
ItemsEnd(d, kind) == d.table[kind].off + d.table[kind].size * Stride(kind)

Texts(d) == {i \in 0..(d.table["STRING"].size - 1) : d.strings[i].readable}

\* The tables of the file and the strings it has are apart from one another, as
\* the sections of a file are; a string has a byte at least behind its length.
\* Nothing checks it.
TablesApart(d) ==
  d.valid =>
    /\ \A k, l \in ItemKinds \cap DOMAIN d.table : k # l =>
         ItemsEnd(d, k) <= d.table[l].off \/ ItemsEnd(d, l) <= d.table[k].off
    /\ \A i, j \in Texts(d) : i # j =>
         \/ d.strings[i].data + d.strings[i].leb < d.strings[j].data
         \/ d.strings[j].data + d.strings[j].leb < d.strings[i].data
    /\ \A i \in Texts(d), k \in ItemKinds \cap DOMAIN d.table :
         \/ d.strings[i].data + d.strings[i].leb < d.table[k].off
         \/ ItemsEnd(d, k) <= d.strings[i].data

\* Two operands refer to one address only if they name one item: an index that
\* is not of its table never becomes an item of the next.  (If TablesApart.)
ReferencesAreOneToOne ==
  \A a, b \in Instructions :
    \A i \in DOMAIN decoded[a].operands, j \in DOMAIN decoded[b].operands :
      LET x == decoded[a].operands[i]
          y == decoded[b].operands[j]
          Names(op) == op.kind = "ADDR" /\ op.of # <<>>
      IN  Names(x) /\ Names(y) /\ x.addr = y.addr
            => /\ TableOf(x.of[1]) = TableOf(y.of[1])
               /\ x.of[2] = y.of[2]

\* Decoding goes where execution can go and nowhere else: to the targets of
\* branches and gotos, which are shown as jumps, to all cases of a switch and to
\* the next instruction.  An instruction is the first one or the successor of
\* another, never a payload that execution would run into.
CodeIsFollowed ==
  \A a \in Instructions :
    /\ \A t \in Successors(a) : Readable(t) => t \in Known \cup todo
    /\ \A t \in Branches(a) : Xref(a, t, "CR_JUMP") \in xrefs
    /\ mem[a] \notin {\h0100, \h0200, \h0300}
    /\ \/ \A b \in DOMAIN mem : a <= b
       \/ \E b \in Instructions : a \in Successors(b)

=============================================================================
