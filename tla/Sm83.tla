--------------------------------- MODULE Sm83 ---------------------------------
(***************************************************************************)
(* sm83_emulate follows a path of Game Boy code and keeps what it knows of *)
(* the registers.  What it knows decides what it tells the engine: data    *)
(* and code references, writes on the bus and, through the hook of the     *)
(* platform (gb/platform.c), which interrupt handlers are functions.       *)
(*                                                                         *)
(* Beside it runs the CPU itself, as the instructions are documented, so   *)
(* that what the code claims can be held against what happens.  A value    *)
(* the code does not model (a flag, memory that can be written) is any.    *)
(*                                                                         *)
(* A byte has Byte values; the 16 bit registers are pairs of halves.       *)
(***************************************************************************)
EXTENDS Naturals

CONSTANTS
  Byte,          \* how many values a byte has
  Pairs,         \* the pairs that occur: "bc", "de", "hl"
  Instructions,  \* the instructions that occur
  Rom,           \* the constants of the image: a function on their addresses
  Mapped,        \* the addresses of the engine's address space
  Alu(_, _, _),  \* what an instruction the engine's rd_alu computes results in
  Bits,          \* the interrupts: bits of the interrupt enable register
  Unknown        \* no value

Bytes == 0 .. Byte - 1

Words == 0 .. Byte * Byte - 1

ASSUME SizeAssumption == Byte \in Nat /\ Byte > 1

ASSUME RomAssumption == DOMAIN Rom \subseteq Words /\ \A a \in DOMAIN Rom : Rom[a] \in Bytes

High(p) == CASE p = "bc" -> "b" [] p = "de" -> "d" [] p = "hl" -> "h"

Low(p) == CASE p = "bc" -> "c" [] p = "de" -> "e" [] p = "hl" -> "l"

Halves == {"a", "c"} \cup {High(p) : p \in Pairs} \cup {Low(p) : p \in Pairs}

Registers == Halves \cup Pairs \cup {"sp"}

ASSUME NamesAssumption == Pairs \subseteq {"bc", "de", "hl"} /\ Unknown \notin Nat

\* The bits of the interrupts are bits of a byte.
ASSUME BitsAssumption ==
  \A b \in Bits : 2^b \in Nat \ {0} /\ Byte % (2 * 2^b) = 0

VARIABLES
  cpu,        \* the CPU: a value for each half and for sp
  known,      \* the regval map of the engine: Unknown where it has none
  claims,     \* what the last instruction was reported to do
  deeds,      \* what it did
  functions,  \* the interrupts whose handlers are functions
  named,      \* those that _gb_enable_interrupt made functions and named
  enabled,    \* history: the interrupts the program has enabled
  path,       \* "open" while the path of code goes on
  lapsed      \* history: a known register has changed behind the code's back

vars == <<cpu, known, claims, deeds, functions, named, enabled, path, lapsed>>

-------------------------------------------------------------------------------
(* Register files: "cpu", or "known" with Unknown.                         *)

Get(file, r) ==
  IF r \in Pairs
    THEN IF Unknown \in {file[High(r)], file[Low(r)]} THEN Unknown
         ELSE file[High(r)] * Byte + file[Low(r)]
    ELSE file[r]

Size(r) == IF r \in Pairs \cup {"sp"} THEN Byte * Byte ELSE Byte

Set(file, r, v) ==
  LET w == v % Size(r) IN
  IF r \in Pairs
    THEN [file EXCEPT ![High(r)] = w \div Byte, ![Low(r)] = w % Byte]
    ELSE [file EXCEPT ![r] = w]

\* rd_del_regval_id.
Forget(file, r) ==
  IF r \in Pairs
    THEN [file EXCEPT ![High(r)] = Unknown, ![Low(r)] = Unknown]
    ELSE [file EXCEPT ![r] = Unknown]

SetOrForget(file, r, v) == IF v = Unknown THEN Forget(file, r) ELSE Set(file, r, v)

\* _sm83_forget_all leaves sp alone.
ForgetAll(file) == [r \in DOMAIN file |-> IF r = "sp" THEN file[r] ELSE Unknown]

-------------------------------------------------------------------------------
(* Operands: [kind, reg, value, step].                                     *)

IO == (Byte - 1) * Byte     \* $FF00

IE == Byte * Byte - 1       \* $FFFF

\* The address of a memory operand: of a constant, of a pair, $FF00 + c.
Address(file, op) ==
  CASE op.kind = "mem" -> op.value
    [] op.kind = "displ" /\ op.reg = "c" ->
         IF file["c"] = Unknown THEN Unknown ELSE IO + file["c"]
    [] op.kind = "displ" /\ op.reg \in Pairs -> Get(file, op.reg)
    [] OTHER -> Unknown

IsMemory(op) == op.kind \in {"mem", "displ"}

Operand ==
  [kind : {"none", "reg", "mem", "displ", "cnst", "imm"}, reg : Registers,
   value : Words, step : Words]

Constant(op) == op.kind \in {"cnst", "imm"}

\* _sm83_step_hl for one operand.
Step(file, op) ==
  IF op.kind = "displ" /\ op.reg = "hl" /\ op.step # 0 /\ Get(file, "hl") # Unknown
    THEN Set(file, "hl", Get(file, "hl") + op.step)
    ELSE file

-------------------------------------------------------------------------------
(* _sm83_access: the memory accesses an instruction is reported to make.   *)

Ref(kind, at) == [kind |-> kind, at |-> at]

Write(at, value) == [at |-> at, value |-> value]

\* A constant address is always reported, one in a register if it is mapped.
Reported(op) ==
  /\ Address(known, op) # Unknown
  /\ op.kind = "mem" \/ Address(known, op) \in Mapped

Accesses(in, store, rmw) ==
  {Ref("write", Address(known, op)) :
     op \in {o \in {in.dst} : Reported(o) /\ (o.kind = "mem" \/ store \/ rmw)}} \cup
  {Ref("read", Address(known, op)) :
     op \in {o \in {in.dst} : Reported(o) /\ o.kind # "mem" /\ rmw}} \cup
  {Ref("read", Address(known, op)) : op \in {o \in {in.src} : Reported(o)}}

\* _sm83_stored_value.
StoredValue(src) ==
  CASE src.kind = "cnst" -> src.value
    [] src.kind = "reg"  -> Get(known, src.reg)
    [] OTHER             -> Unknown

BusWrites_Addressable(in, store, rmw) ==   \* mutant: rd_is_address is asked first
  IF IsMemory(in.dst) /\ Reported(in.dst) /\ (store \/ rmw)
    THEN {Write(Address(known, in.dst),
                IF rmw THEN Unknown ELSE StoredValue(in.src))}
    ELSE {}

BusWrites(in, store, rmw) ==
  IF IsMemory(in.dst) /\ Address(known, in.dst) # Unknown /\ (store \/ rmw)
    THEN {Write(Address(known, in.dst),
                IF rmw THEN Unknown ELSE StoredValue(in.src))}
    ELSE {}

\* rd_mark_regval_address: the pairs that hold addresses.
Marks(in) ==
  {op.reg : op \in {o \in {in.dst, in.src} :
                      o.kind = "displ" /\ o.reg \in Pairs /\ Reported(o)}}

\* The claims of an instruction that goes on to the next one.
Claim(refs, bus, jumps, marks, flow) ==
  claims' = [refs |-> refs, bus |-> bus, jumps |-> jumps, marks |-> marks,
             flow |-> flow]

Deed(refs, bus, jumps, flow) ==
  deeds' = [refs |-> refs, bus |-> bus, jumps |-> jumps, flow |-> flow]

-------------------------------------------------------------------------------
(* The platform: _gb_bus_write and _gb_enable_interrupt.                   *)

HasBit(v, b) == (v \div 2^b) % 2 = 1

\* The interrupts the writes on the bus enable, as far as their values are
\* known.
Requested_AnyAddress(bus) ==                \* mutant: the address is not looked at
  UNION {{b \in Bits : HasBit(w.value, b)} : w \in {x \in bus : x.value # Unknown}}

Requested(bus) ==
  UNION {{b \in Bits : HasBit(w.value, b)} :
           w \in {x \in bus : x.at = IE /\ x.value # Unknown}}

BusHook(bus) ==
  /\ named' = named \cup (Requested(bus) \ functions)
  /\ functions' = functions \cup Requested(bus)

-------------------------------------------------------------------------------
(* What the CPU does, external to the code.                                *)

\* The bits of the byte at IE after a write of a value of this size.
Enables(at, value, size) ==
  IF at = IE THEN {b \in Bits : HasBit(value % Byte, b)}
  ELSE IF size = 2 /\ at + 1 = IE THEN {b \in Bits : HasBit(value \div Byte, b)}
  ELSE {}

\* Memory that is not a constant of the image reads as any byte.
Read(at) == IF at \in DOMAIN Rom THEN {Rom[at]} ELSE Bytes

SourceValues(op) ==
  CASE Constant(op)   -> {op.value}
    [] op.kind = "reg" -> {Get(cpu, op.reg)}
    [] OTHER           -> Read(Address(cpu, op))

\* A store, and whether the code could tell where it goes.
Stored(op, v) ==
  [at |-> Address(cpu, op), value |-> v, traced |-> Address(known, op) # Unknown]

WriteSize(op) == IF op.kind = "reg" /\ op.reg = "sp" THEN 2 ELSE 1

-------------------------------------------------------------------------------
(* LD, LDH.                                                                *)

\* What the code takes the value loaded into a register to be.
LoadedValue_Ram(src) ==        \* mutant: rd_is_writable is not asked
  CASE Constant(src)    -> src.value
    [] src.kind = "reg" -> Get(known, src.reg)
    [] OTHER            -> LET a == Address(known, src) IN
                           IF a = Unknown THEN Unknown
                           ELSE IF a \in DOMAIN Rom THEN Rom[a] ELSE 0

LoadedValue(src) ==
  CASE Constant(src)    -> src.value
    [] src.kind = "reg" -> Get(known, src.reg)
    [] OTHER            -> LET a == Address(known, src) IN
                           IF a # Unknown /\ a \in DOMAIN Rom THEN Rom[a] ELSE Unknown

\* What _sm83_emu_ld does not follow: a step of hl with one half known, and the
\* offset of "ld hl, sp+e8".
HalfKnown(p) == Get(known, p) = Unknown /\ known[High(p)] # known[Low(p)]

Steps(op) == op.kind = "displ" /\ op.reg = "hl" /\ op.step # 0

Missed(in) ==
  \/ (Steps(in.dst) \/ Steps(in.src)) /\ HalfKnown("hl")
  \/ in.offset # 0 /\ LoadedValue(in.src) # Unknown

\* _sm83_emu_ld on the regval map: hl moves after the address is taken and
\* before the register is loaded.
Load(in) ==
  LET stepped == Step(Step(known, in.dst), in.src) IN
  IF in.dst.kind # "reg" THEN stepped
  ELSE SetOrForget(stepped, in.dst.reg, LoadedValue(in.src))

\* "ld hl, sp+e8" has its offset in a third operand.
Ld(in) ==
  /\ in.id = "ld"
  /\ known' = Load(in)
  /\ Claim(Accesses(in, TRUE, FALSE), BusWrites(in, TRUE, FALSE), {}, Marks(in), TRUE)
  /\ BusHook(BusWrites(in, TRUE, FALSE))
  /\ \E v \in SourceValues(in.src) :
       LET stepped == Step(Step(cpu, in.dst), in.src)
           at == Address(cpu, in.dst)
       IN  IF IsMemory(in.dst)
             THEN /\ cpu' = stepped
                  /\ Deed({Ref("write", at)}, {Stored(in.dst, v)}, {}, TRUE)
                  /\ enabled' = enabled \cup Enables(at, v, WriteSize(in.src))
             ELSE /\ cpu' = Set(stepped, in.dst.reg, v + in.offset)
                  /\ Deed(IF IsMemory(in.src) THEN {Ref("read", Address(cpu, in.src))}
                          ELSE {}, {}, {}, TRUE)
                  /\ UNCHANGED enabled
  /\ lapsed' = (lapsed \/ Missed(in))
  /\ UNCHANGED path

-------------------------------------------------------------------------------
(* The arithmetic instructions.                                            *)

Binary == {"add", "sub", "and", "or", "xor", "adc"}

InPlace == {"inc", "dec", "shift", "rl", "bits"}     \* SM83_ALU_RMW

ReadOnly == {"cp"}                                    \* SM83_ALU_READ

\* adc, sbc, rl, rr and daa need the carry, pop the stack.
NotComputed == {"adc", "rl", "pop", "daa"}

ImplicitA == {"cpl", "daa"}

Arithmetics == Binary \cup InPlace \cup ReadOnly \cup NotComputed \cup ImplicitA

ASSUME AluAssumption ==
  \A id \in Arithmetics : \A x, y \in Words : Alu(id, x, y) \in Nat

\* What is written: a bit instruction has the bit first.
Target(in) ==
  CASE in.id = "bits"         -> in.src
    [] in.id \in ImplicitA    -> [kind |-> "reg", reg |-> "a", value |-> 0, step |-> 0]
    [] OTHER                  -> in.dst

\* The instructions of the opcode tables: at most one of their operands is in
\* memory, and they write to a register or to memory.
ASSUME InstructionsAssumption ==
  \A in \in Instructions :
    /\ in.dst \in Operand /\ in.src \in Operand /\ in.offset \in Nat
    /\ \A op \in {in.dst, in.src} : op.kind = "displ" => op.reg \in {"c"} \cup Pairs
    /\ ~(IsMemory(in.dst) /\ IsMemory(in.src))
    /\ in.id = "ld" => in.dst.kind = "reg" \/ IsMemory(in.dst)
    /\ in.id \in Arithmetics => Target(in).kind = "reg" \/ IsMemory(Target(in))
    /\ in.id \in {"bits"} \cup ImplicitA => ~IsMemory(in.dst)
    /\ in.id = "jphl" => "hl" \in Pairs

One == [kind |-> "cnst", reg |-> "a", value |-> 1, step |-> 0]

Argument(in) ==
  CASE in.id = "bits"      -> in.dst
    [] in.id \in Binary    -> in.src
    [] OTHER               -> One

\* rd_alu skips what it is not told how to compute, what has an operand it
\* does not know, and anything but a register as its destination.
AluResult(in) ==
  LET x == Get(known, Target(in).reg)
      y == CASE Argument(in).kind = "reg"  -> Get(known, Argument(in).reg)
             [] Argument(in).kind = "cnst" -> Argument(in).value
             [] OTHER                      -> Unknown
  IN  IF in.id \in NotComputed \/ Unknown \in {x, y} THEN Unknown ELSE Alu(in.id, x, y)

\* The register is set, or forgotten where the result is not known.
Compute_Keep(in) ==     \* mutant: RD_ALU_SKIP is not looked at
  IF in.id \in ReadOnly \/ Target(in).kind # "reg" \/ AluResult(in) = Unknown
    THEN known
    ELSE Set(known, Target(in).reg, AluResult(in))

Compute(in) ==
  IF in.id \in ReadOnly \/ Target(in).kind # "reg" THEN known
  ELSE SetOrForget(known, Target(in).reg, AluResult(in))

\* _sm83_base_index: "add a, l" with hl known makes hl the base of a table.
Base(in) ==
  IF in.id = "add" /\ in.dst.kind = "reg" /\ in.dst.reg = "a" /\ in.src.kind = "reg"
    THEN {p \in Pairs : in.src.reg \in {High(p), Low(p)}}
    ELSE {}

\* The registers of the CPU afterwards.  A result that rd_alu would not compute
\* is any; pop also moves sp.
Results(in) ==
  LET r    == Target(in).reg
      args == IF IsMemory(Argument(in)) THEN Read(Address(cpu, Argument(in)))
              ELSE SourceValues(Argument(in))
      vs   == IF in.id \in NotComputed THEN 0 .. Size(r) - 1
              ELSE {Alu(in.id, Get(cpu, r), y) : y \in args}
      at   == IF in.id = "pop" THEN Set(cpu, "sp", cpu["sp"] + 2) ELSE cpu
  IN  IF in.id \in ReadOnly THEN {cpu} ELSE {Set(at, r, v) : v \in vs}

\* _sm83_emu_alu, _sm83_emu_implicit_a.
Arithmetic(in) ==
  /\ in.id \in Arithmetics
  /\ known' = Compute(in)
  /\ LET rmw == in.id \in InPlace IN
     /\ Claim(Accesses(in, FALSE, rmw), BusWrites(in, FALSE, rmw), {},
              Marks(in) \cup Base(in), TRUE)
     /\ BusHook(BusWrites(in, FALSE, rmw))
  /\ LET op == Target(in)
         at == Address(cpu, op)
     IN  IF IsMemory(op)
           THEN \E v \in Bytes :
                  /\ Deed({Ref("read", at), Ref("write", at)}, {Stored(op, v)}, {}, TRUE)
                  /\ enabled' = enabled \cup Enables(at, v, 1)
                  /\ UNCHANGED cpu
           ELSE /\ cpu' \in Results(in)
                /\ Deed(IF IsMemory(in.src) THEN {Ref("read", Address(cpu, in.src))}
                        ELSE {}, {}, {}, TRUE)
                /\ UNCHANGED enabled
  /\ lapsed' = (lapsed \/ (in.id = "pop" /\ known["sp"] # Unknown))
  /\ UNCHANGED path

-------------------------------------------------------------------------------
(* Branches: _sm83_emu_branch, _sm83_categorize, _sm83_emu_push.           *)

\* The registers after a call has returned: any, but for sp.
AnyRegisters(sp) ==
  {[r \in Halves \cup {"sp"} |-> IF r = "sp" THEN sp ELSE f[r]] :
     f \in [Halves -> Bytes]}

\* A call is followed and comes back; one that has a condition may not be taken.
Call(in) ==
  /\ in.id = "call"
  /\ known' = ForgetAll(known)
  /\ cpu' \in AnyRegisters(cpu["sp"]) \cup (IF in.cond THEN {cpu} ELSE {})
  /\ Claim({}, {}, {in.to}, {}, TRUE)
  /\ Deed({}, {}, {in.to}, TRUE)
  /\ UNCHANGED <<functions, named, enabled, path, lapsed>>

\* rst calls a fixed address.  Its operand is not an address and it is not
\* given a flow: no reference, and nothing is forgotten.
Rst(in) ==
  /\ in.id = "rst"
  /\ cpu' \in AnyRegisters(cpu["sp"])
  /\ Claim({}, {}, {}, {}, TRUE)
  /\ Deed({}, {}, {in.to}, TRUE)
  /\ lapsed' = (lapsed \/ \E r \in Halves : known[r] # Unknown)
  /\ UNCHANGED <<known, functions, named, enabled, path>>

\* jp nn, jr e8, with or without a condition.  Only jr looks for one.
Jump(in) ==
  /\ in.id \in {"jp", "jr"}
  /\ LET flow == in.id = "jr" /\ in.cond IN
     /\ Claim({}, {}, {in.to}, {}, flow)
     /\ Deed({}, {}, {in.to}, in.cond)
     /\ path' = IF flow THEN path ELSE "closed"
  /\ UNCHANGED <<cpu, known, functions, named, enabled, lapsed>>

\* jp hl goes where hl points.
JumpHL(in) ==
  /\ in.id = "jphl"
  /\ LET hl == Get(known, "hl")
         to == IF hl # Unknown /\ hl \in Mapped THEN {hl} ELSE {}
     IN  Claim({}, {}, to, IF to = {} THEN {} ELSE {"hl"}, FALSE)
  /\ Deed({}, {}, {Get(cpu, "hl")}, FALSE)
  /\ path' = "closed"
  /\ UNCHANGED <<cpu, known, functions, named, enabled, lapsed>>

\* push rr: with a ret behind it, a jump to rr.  The ret ends the path.
Push(in) ==
  /\ in.id = "push"
  /\ LET to == Get(known, in.dst.reg) IN
     Claim({}, {}, IF in.ret /\ to # Unknown THEN {to} ELSE {}, {}, TRUE)
  /\ Deed({}, {}, IF in.ret THEN {Get(cpu, in.dst.reg)} ELSE {}, TRUE)
  /\ cpu' = Set(cpu, "sp", cpu["sp"] + Size("sp") - 2)
  /\ path' = IF in.ret THEN "closed" ELSE path
  /\ lapsed' = (lapsed \/ known["sp"] # Unknown)
  /\ UNCHANGED <<known, functions, named, enabled>>

\* ret, reti.
Return(in) ==
  /\ in.id = "ret"
  /\ Claim({}, {}, {}, {}, in.cond)
  /\ Deed({}, {}, {}, in.cond)
  /\ path' = IF in.cond THEN path ELSE "closed"
  /\ UNCHANGED <<cpu, known, functions, named, enabled, lapsed>>

-------------------------------------------------------------------------------

Nothing == [refs |-> {}, bus |-> {}, jumps |-> {}, flow |-> TRUE]

Init ==
  /\ \E sp \in Words : cpu \in AnyRegisters(sp)
  /\ known = [r \in Halves \cup {"sp"} |-> Unknown]
  /\ claims = [refs |-> {}, bus |-> {}, jumps |-> {}, marks |-> {}, flow |-> TRUE]
  /\ deeds = Nothing
  /\ functions \in SUBSET Bits
  /\ named = {}
  /\ enabled = {}
  /\ path = "open"
  /\ lapsed = FALSE

Emulate ==
  /\ path = "open"
  /\ \E in \in Instructions :
       \/ Ld(in)
       \/ Arithmetic(in)
       \/ Call(in)
       \/ Rst(in)
       \/ Jump(in)
       \/ JumpHL(in)
       \/ Push(in)
       \/ Return(in)

PathEnds == path = "closed" /\ UNCHANGED vars

Next == Emulate \/ PathEnds

Spec == Init /\ [][Next]_vars
-------------------------------------------------------------------------------
(* Correctness.                                                            *)

\* A value the code keeps for a register is the value the CPU has there, after
\* any instructions: "after a call the callee may have changed anything".
KnownIsTrue == \A r \in Halves \cup {"sp"} : known[r] \in {Unknown, cpu[r]}

\* The same, until rst, a push or pop with sp known, or a load with a step or an
\* offset that is not followed has changed a register behind the code's back.
KnownUntilLapsed == ~lapsed => KnownIsTrue

\* No reference, bus write or jump is reported that does not happen, at that
\* address and with that value: registers are read as they were before the
\* instruction, though [hli] and [hld] move hl.
ClaimsAreDeeds ==
  ~lapsed =>
    /\ claims.refs \subseteq deeds.refs
    /\ \A w \in claims.bus :
         \E d \in deeds.bus : d.at = w.at /\ w.value \in {Unknown, d.value}
    /\ claims.jumps \subseteq deeds.jumps

\* "The only evidence is the program enabling them in IE": a handler the
\* platform made a function belongs to an interrupt the program enabled.
HandlersAreEnabled == ~lapsed => named \subseteq enabled

\* "The bus sees every store, addressable or not ($FFFF is not memory)": a store
\* to an address the code can tell is written on the bus there, or the platform
\* would not learn of it.
StoresAreReported ==
  ~lapsed => \A d \in deeds.bus : d.traced => \E w \in claims.bus : w.at = d.at

\* Where the CPU may go on behind the instruction, so does the analysis.
FlowKept == deeds.flow => claims.flow
===============================================================================
