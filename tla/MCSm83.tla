-------------------------------- MODULE MCSm83 --------------------------------
(* Instructions for Sm83, on bytes of Byte values: a, c and hl.              *)
EXTENDS Sm83

Reg(r)       == [kind |-> "reg", reg |-> r, value |-> 0, step |-> 0]
Ind(r, step) == [kind |-> "displ", reg |-> r, value |-> 0, step |-> step]
Mem(a)       == [kind |-> "mem", reg |-> "a", value |-> a, step |-> 0]
Cnst(v)      == [kind |-> "cnst", reg |-> "a", value |-> v, step |-> 0]
Imm(v)       == [kind |-> "imm", reg |-> "a", value |-> v, step |-> 0]
None         == [kind |-> "none", reg |-> "a", value |-> 0, step |-> 0]

Instruction(id, dst, src) ==
  [id |-> id, dst |-> dst, src |-> src, offset |-> 0, cond |-> FALSE,
   ret |-> FALSE, to |-> 0]

Branch(id, cond) == [Instruction(id, None, None) EXCEPT !.cond = cond, !.to = 1]

Hli == Ind("hl", 1)

Hld == Ind("hl", Byte * Byte - 1)

Hl == Ind("hl", 0)

\* Loads and arithmetic that change hl as a whole, and move it by steps.
MCPairs ==
  {Instruction("ld", Reg("a"), s) : s \in {Cnst(1), Ind("c", 0), Hli, Hld, Mem(0)}} \cup
  {Instruction("ld", d, Reg("a")) : d \in {Reg("c"), Ind("c", 0), Hli, Mem(IE)}} \cup
  {Instruction("ld", Hld, Cnst(1)), Instruction("ld", Reg("hl"), Imm(IE)),
   Instruction("add", Reg("hl"), Reg("hl")), Instruction("pop", Reg("hl"), None),
   Instruction("cpl", None, None), Instruction("inc", Hl, None)}

\* Those that change its halves.
MCHalves ==
  {Instruction("ld", Reg("l"), s) : s \in {Cnst(1), Reg("c"), Hl}} \cup
  {Instruction(id, Reg("a"), s) : id \in {"add", "cp"}, s \in {Reg("l"), Hl}} \cup
  {Instruction("rl", Reg("l"), None), Instruction("bits", Cnst(0), Reg("h"))}

\* Those that use the stack, or leave the path.
MCStack ==
  {Branch("call", FALSE), Branch("call", TRUE), Branch("jr", FALSE), Branch("jr", TRUE),
   Branch("jp", FALSE), Branch("jphl", FALSE), Branch("ret", FALSE), Branch("ret", TRUE),
   Branch("rst", FALSE), Instruction("ld", Mem(2), Reg("sp")),
   Instruction("ld", Reg("sp"), Imm(2)),
   [Instruction("ld", Reg("hl"), Reg("sp")) EXCEPT !.offset = 1],
   [Instruction("push", Reg("hl"), None) EXCEPT !.ret = TRUE],
   Instruction("push", Reg("hl"), None)}

MCInstructions == MCPairs \cup MCHalves \cup MCStack

\* Bound: a path is followed until the code has missed a change of a register.
MCFollowed == ~lapsed

\* The image is one constant; behind it are memory, a port that is not mapped,
\* and the interrupt enable register, that is not either.
MCRom == [a \in {0} |-> 1]

MCMapped == {0, 1}

MCAlu(id, x, y) ==
  CASE id \in {"add", "inc"} -> x + y
    [] id \in {"sub", "dec"} -> x + Byte * Byte - y
    [] id = "cpl"            -> Byte * Byte - 1 - x
    [] OTHER                 -> x + 2 * y

\* The instructions of the runs that show where the code does not do what its
\* comments or its opcode tables say: rst, a jp with a condition.
MCRst == {Instruction("ld", Reg("a"), Cnst(1)), Branch("rst", FALSE)}

MCJp == {Branch("jp", TRUE), Branch("jr", TRUE), Branch("call", TRUE), Branch("ret", TRUE)}
===============================================================================
