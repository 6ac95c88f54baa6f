---------------------------- MODULE ZxLoadProofs ----------------------------
(***************************************************************************)
(* What holds of every tape, and of every snapshot.                        *)
(*                                                                         *)
(* The blocks never meet in memory, whatever lengths they declare.         *)
(* BlocksApart is not inductive: that a new area is behind every other one *)
(* follows from where the cursor is, and the cursor never goes back, not   *)
(* even over a block whose length wraps around, because it is on a         *)
(* boundary of 16 bytes.                                                   *)
(*                                                                         *)
(* The RAM holds them all: the cursor of the second pass is that of the    *)
(* first one in front of the same block.                                   *)
(*                                                                         *)
(* A block becomes what the header right in front of it says: the header   *)
(* that is kept is that block, or there is none.                           *)
(*                                                                         *)
(* A snapshot is restored byte for byte: in front of each token of a piece *)
(* the buffer is what the tokens before it stand for, the loader sees each *)
(* token for what it is (TokenIsSeen), and memory is the pieces passed.    *)
(***************************************************************************)
EXTENDS ZxLoad, FiniteSetTheorems, WellFoundedInduction, TLAPS

Aligned(c) == c \in Nat /\ c % 16 = 0

\* An area ends where the cursor has been, and its block has been passed.
Passed ==
  \A a \in areas :
    /\ a.block \in Nat /\ a.from \in Nat /\ a.to \in Nat
    /\ a.to <= cursor
    /\ pc = "tape" => a.block < pos

OnTape == pc = "tape" => file.tag = "tap" /\ pos \in Nat \ {0}

\* The inductive invariant.
IInv ==
  /\ file \in Files
  /\ Aligned(cursor)
  /\ OnTape
  /\ areas # {} => pc \in {"tape", "loaded", "failed"}
  /\ Passed
  /\ BlocksApart

-----------------------------------------------------------------------------
\* Rounding up an integer yields a boundary that is less than 16 bytes away.
LEMMA AlignUpBounds ==
  ASSUME NEW n \in Int
  PROVE  /\ AlignUp(n, 16) \in Int
         /\ AlignUp(n, 16) % 16 = 0
         /\ n <= AlignUp(n, 16) /\ AlignUp(n, 16) < n + 16
  <1> DEFINE q == (n + 15) \div 16
  <1>1. q \in Int /\ 16 * q <= n + 15 /\ n + 15 < 16 * q + 16
    OBVIOUS
  <1>2. AlignUp(n, 16) = q * 16
    BY DEF AlignUp
  <1>3. (q * 16) % 16 = 0
    BY <1>1
  <1>. QED BY <1>1, <1>2, <1>3

\* From one boundary the cursor only goes on to another one, behind the payload,
\* and stays where it is when the length of the block wraps around.
LEMMA CursorGoesOn ==
  ASSUME IInv, pc = "tape", ~AtEnd(pos)
  PROVE  /\ Payload(pos) \in Int
         /\ Aligned(Advanced(cursor, pos))
         /\ cursor <= Advanced(cursor, pos)
         /\ ~IsHeader(pos) => cursor + Payload(pos) <= Advanced(cursor, pos)
  <1>1. /\ file \in Files /\ file.tag = "tap" /\ pos \in Nat \ {0}
        /\ cursor \in Nat /\ cursor % 16 = 0
    BY DEF IInv, OnTape, Aligned
  <1>2. /\ Len(Blocks) \in Nat
        /\ \A k \in 1..Len(Blocks) : Blocks[k].len \in Nat
    BY <1>1, TapesAssumption, Zenon DEF Blocks
  <1>3. pos \in 1..Len(Blocks)
    <2>1. ~(pos > Len(Blocks))
      BY DEF AtEnd
    <2>. QED BY <1>1, <1>2, <2>1
  <1>a. Blocks[pos].len \in Nat
    BY <1>2, <1>3, Zenon
  <1>4. Payload(pos) \in Int /\ Payload(pos) >= 0 - 2
    BY <1>a DEF Payload
  <1>5. Taken(pos) \in Int /\ Taken(pos) >= 0 - 2
    BY <1>4 DEF Taken, HeaderSize
  <1>6. ~IsHeader(pos) => Taken(pos) = Payload(pos)
    BY DEF Taken
  <1> DEFINE to == Advanced(cursor, pos)
  <1>7. to \in Int /\ to % 16 = 0 /\ cursor + Taken(pos) <= to
    BY <1>1, <1>5, AlignUpBounds DEF Advanced
  <1>8. cursor <= to
    BY <1>1, <1>5, <1>7
  <1>9. to \in Nat
    BY <1>1, <1>7, <1>8
  <1>. QED BY <1>1, <1>4, <1>6, <1>7, <1>8, <1>9 DEF Aligned

\* A mapped area starts at the cursor and ends with the payload of its block.
LEMMA MappedArea ==
  ASSUME MapInput, NEW a \in areas', a \notin areas
  PROVE  /\ a = [block |-> pos, from |-> cursor, to |-> cursor + Payload(pos)]
         /\ ~IsHuge(pos) /\ Payload(pos) > 0 /\ Start(pos) + 3 + Payload(pos) <= file.size
  BY DEF MapInput

\* Passing a block with the area mapped for it, or without one, keeps the
\* invariant.
LEMMA PassBlock ==
  ASSUME IInv, InTape, NextBlock,
         areas' = areas \/ (~IsHeader(pos) /\ MapInput)
  PROVE  IInv'
  <1>1. pc = "tape" /\ ~AtEnd(pos)
    BY DEF InTape
  <1>2. /\ Payload(pos) \in Int
        /\ Aligned(Advanced(cursor, pos))
        /\ cursor <= Advanced(cursor, pos)
        /\ ~IsHeader(pos) => cursor + Payload(pos) <= Advanced(cursor, pos)
    BY <1>1, CursorGoesOn
  <1>3. /\ cursor' = Advanced(cursor, pos) /\ pos' = pos + 1
        /\ file' = file /\ pc' = pc
    BY DEF NextBlock
  <1>4. file \in Files /\ file.tag = "tap" /\ pos \in Nat \ {0}
        /\ cursor \in Nat /\ cursor' \in Nat
    BY <1>1, <1>2, <1>3 DEF IInv, OnTape, Aligned
  <1>5. ASSUME NEW a \in areas', a \notin areas
        PROVE  /\ a.block = pos /\ a.from = cursor /\ a.to \in Nat
               /\ a.to <= cursor' /\ a.from % 16 = 0
    BY <1>2, <1>3, <1>4, <1>5, MappedArea DEF IsHuge, IInv, Aligned
  <1>6. ASSUME NEW a \in areas, a \in areas'
        PROVE  /\ a.block \in Nat /\ a.from \in Nat /\ a.to \in Nat
               /\ a.to <= cursor /\ a.block < pos
    BY <1>1, <1>6 DEF IInv, Passed
  <1>7. Passed'
    <2>1. ASSUME NEW a \in areas'
          PROVE  /\ a.block \in Nat /\ a.from \in Nat /\ a.to \in Nat
                 /\ a.to <= cursor' /\ a.block < pos'
      <3>1. CASE a \in areas
        BY <1>2, <1>3, <1>4, <1>6, <3>1
      <3>2. CASE a \notin areas
        BY <1>3, <1>4, <1>5, <3>2
      <3>. QED BY <3>1, <3>2
    <2>. QED BY <2>1 DEF Passed
  <1>8. BlocksApart'
    <2>1. ASSUME NEW a \in areas', NEW b \in areas', a.block < b.block
          PROVE  a.to <= b.from
      <3>1. CASE a \in areas /\ b \in areas
        BY <2>1, <3>1 DEF IInv, BlocksApart
      <3>2. CASE a \in areas /\ b \notin areas
        BY <1>5, <1>6, <3>2
      <3>3. CASE a \notin areas
        <4>1. a.block = pos
          BY <1>5, <3>3
        <4>2. b.block \in Nat /\ b.block < pos + 1
          BY <1>3, <1>1, <1>7, <1>4 DEF Passed
        <4>. QED BY <1>4, <2>1, <4>1, <4>2
      <3>. QED BY <3>1, <3>2, <3>3
    <2>2. \A a \in areas' : a.from % 16 = 0
      BY <1>5 DEF IInv, BlocksApart
    <2>. QED BY <2>1, <2>2 DEF BlocksApart
  <1>. QED BY <1>1, <1>2, <1>3, <1>4, <1>7, <1>8 DEF IInv, OnTape, Aligned

-----------------------------------------------------------------------------
\* Before a file is looked at nothing is mapped and the cursor is at the RAM.
LEMMA InitIInv ==
  ASSUME Init
  PROVE  IInv
  <1>1. RamBase \in Nat /\ RamBase % 16 = 0
    BY DEF RamBase
  <1>. QED BY <1>1 DEF Init, IInv, Aligned, OnTape, Passed, BlocksApart

\* The loaders of snapshots and the end of a tape map nothing.
LEMMA NoBlockIInv ==
  ASSUME IInv, UNCHANGED <<file, cursor, areas>>,
         pc' = "tape" => pc = "parse" /\ pos' = 1 /\ file.tag = "tap",
         areas # {} => pc' \in {"loaded", "failed"}
  PROVE  IInv'
  <1>1. Aligned(cursor)'
    BY DEF IInv, Aligned
  <1>2. OnTape'
    BY DEF OnTape
  <1>3. Passed'
    BY DEF IInv, Passed
  <1>4. BlocksApart'
    BY DEF IInv, BlocksApart
  <1>. QED BY <1>1, <1>2, <1>3, <1>4 DEF IInv

\* In the middle of a snapshot nothing of a tape is there.
LEMMA SnapshotIInv ==
  ASSUME IInv, UNCHANGED <<file, tape>>, pc \notin {"tape", "loaded", "failed"}, pc' # "tape"
  PROVE  IInv'
  BY NoBlockIInv DEF IInv, tape
-----------------------------------------------------------------------------
\* Z80 snapshots leave the tape alone.
LEMMA Z80LoadIInv ==
  ASSUME IInv, Z80Load
  PROVE  IInv'
  <1>1. CASE Z80Parse
    BY <1>1, SnapshotIInv DEF Z80Parse, Return
  <1>2. CASE ExpandV1
    BY <1>2, SnapshotIInv DEF ExpandV1, PushRun, PushByte, Return
  <1>3. CASE EndV1
    BY <1>3, SnapshotIInv DEF EndV1, Return
  <1>4. CASE SkipBlock
    BY <1>4, SnapshotIInv DEF SkipBlock, MoreBlocks, snapshot
  <1>5. CASE RawBlock
    BY <1>5, SnapshotIInv DEF RawBlock, MoreBlocks, Return
  <1>6. CASE OpenBlock
    BY <1>6, SnapshotIInv DEF OpenBlock, MoreBlocks
  <1>7. CASE Expand
    BY <1>7, SnapshotIInv DEF Expand, InBlock, PushRun, PushByte, Return
  <1>8. CASE CloseBlock
    BY <1>8, SnapshotIInv DEF CloseBlock, Return
  <1>9. CASE BlocksDone
    BY <1>9, SnapshotIInv DEF BlocksDone, Return
  <1>. QED BY <1>1, <1>2, <1>3, <1>4, <1>5, <1>6, <1>7, <1>8, <1>9 DEF Z80Load

\* So do SNA snapshots.
LEMMA SnaLoadIInv ==
  ASSUME IInv, SnaLoad
  PROVE  IInv'
  BY SnapshotIInv DEF SnaLoad, Return

\* Every step of the two passes over a tape keeps the invariant.
LEMMA TapLoadIInv ==
  ASSUME IInv, TapLoad
  PROVE  IInv'
  <1>1. CASE TapParse
    BY <1>1, SnapshotIInv, NoBlockIInv DEF TapParse, IInv, tape, Return
  <1>2. CASE TapHeader
    BY <1>2, PassBlock DEF TapHeader
  <1>3. CASE TapProgram
    <2>1. CASE NextBlock
      BY <1>3, <2>1, PassBlock DEF TapProgram
    <2>2. CASE ~NextBlock
      <3>1. /\ MapInput /\ ~(~IsHuge(pos) /\ Start(pos) + 3 + Payload(pos) <= file.size)
            /\ Return("failed") /\ UNCHANGED <<file, cursor>>
        BY <1>3, <2>2 DEF TapProgram
      <3>2. areas' = areas
        BY <3>1 DEF MapInput
      <3>. QED BY <3>1, <3>2, NoBlockIInv DEF Return
    <2>. QED BY <2>1, <2>2
  <1>4. CASE TapCode
    BY <1>4, PassBlock DEF TapCode
  <1>5. CASE TapOther
    BY <1>5, PassBlock DEF TapOther
  <1>6. CASE TapTruncated
    BY <1>6, NoBlockIInv DEF TapTruncated, tape, Return
  <1>7. CASE TapDone
    BY <1>7, NoBlockIInv DEF TapDone, tape, Return
  <1>. QED BY <1>1, <1>2, <1>3, <1>4, <1>5, <1>6, <1>7 DEF TapLoad

\* What the loop over the blocks of a tape carries from block to block, and what
\* the loaders of snapshots never disturb.
THEOREM InductiveInvariant == Spec => []IInv
  <1>1. Init => IInv
    BY InitIInv
  <1>2. IInv /\ [Next]_vars => IInv'
    <2>1. ASSUME IInv, UNCHANGED vars
          PROVE  IInv'
      BY <2>1 DEF IInv, Aligned, OnTape, Passed, BlocksApart, vars
    <2>. QED BY <2>1, Z80LoadIInv, SnaLoadIInv, TapLoadIInv DEF Next, Step
  <1>. QED BY <1>1, <1>2, PTL DEF Spec

\* No block of a tape is mapped over another one or off a boundary of 16 bytes,
\* whatever lengths the tape declares, those below two included (tap_load).
THEOREM BlocksAreApart == Spec => []BlocksApart
  <1>1. IInv => BlocksApart
    BY DEF IInv
  <1>. QED BY <1>1, InductiveInvariant, PTL

-----------------------------------------------------------------------------
\* A set of natural numbers has a least one.
LEMMA LeastNumber ==
  ASSUME NEW T \in SUBSET Nat, T # {}
  PROVE  \E x \in T : \A y \in T : x <= y
  <1> DEFINE Less == {ss \in Nat \X Nat : ss[1] < ss[2]}
  <1>1. IsWellFoundedOn(Less, Nat)
    <2>1. Less = OpToRel(<, Nat)
      BY DEF Less, OpToRel
    <2>. QED BY <2>1, NatLessThanWellFounded
  <1> HIDE DEF Less
  <1>2. PICK x \in T : \A y \in T : ~(<<y, x>> \in Less)
    BY <1>1, WFMin, Zenon
  <1>3. ASSUME NEW y \in T
        PROVE  x <= y
    <2>1. x \in Nat /\ y \in Nat
      BY <1>2
    <2>2. y < x => <<y, x>> \in Less
      BY <2>1 DEF Less
    <2>. QED BY <1>2, <2>1, <2>2
  <1>. QED BY <1>3

\* What is defined step by step from what the step before left is defined.
LEMMA StepByStep ==
  ASSUME NEW n \in Nat, NEW first \in Int, NEW G \in [Int \X (1..n) -> Int]
  PROVE  \E f \in [1..(n + 1) -> Int] :
           f[1] = first /\ \A k \in 1..n : f[k + 1] = G[<<f[k], k>>]
  <1> DEFINE Path(m) ==
        \E f \in [1..(m + 1) -> Int] :
          f[1] = first /\ \A k \in 1..m : f[k + 1] = G[<<f[k], k>>]
             T == {m \in 0..n : ~Path(m)}
  <1>1. ASSUME T # {}
        PROVE  FALSE
    <2>0. T \in SUBSET Nat
      OBVIOUS
    <2>1. PICK m \in T : \A y \in T : m <= y
      BY <1>1, <2>0, LeastNumber
    <2>2. Path(0)
      <3> DEFINE f == [k \in 1..(0 + 1) |-> first]
      <3>1. f \in [1..(0 + 1) -> Int] /\ f[1] = first
        OBVIOUS
      <3>2. \A k \in 1..0 : f[k + 1] = G[<<f[k], k>>]
        OBVIOUS
      <3> HIDE DEF f
      <3>. QED BY <3>1, <3>2
    <2>m. m \in 0..n /\ ~Path(m)
      OBVIOUS
    <2>n. m # 0
      BY <2>m, <2>2, Zenon
    <2>3. m # 0 /\ m \in 1..n
      BY <2>m, <2>n
    <2>4. Path(m - 1)
      <3>1. m - 1 \in 0..n /\ ~(m <= m - 1)
        BY <2>3
      <3>. QED BY <2>1, <3>1
    <2>5. PICK f \in [1..m -> Int] :
            f[1] = first /\ \A k \in 1..(m - 1) : f[k + 1] = G[<<f[k], k>>]
      <3>1. (m - 1) + 1 = m
        BY <2>3
      <3>. QED BY <2>4, <3>1
    <2> DEFINE g == [k \in 1..(m + 1) |-> IF k = m + 1 THEN G[<<f[m], m>>] ELSE f[k]]
    <2>6. g \in [1..(m + 1) -> Int]
      <3>1. G[<<f[m], m>>] \in Int
        BY <2>3, <2>5
      <3>2. \A k \in 1..(m + 1) : k # m + 1 => f[k] \in Int
        BY <2>3, <2>5
      <3>. QED BY <3>1, <3>2
    <2>7. g[1] = first
      BY <2>3, <2>5
    <2>8. ASSUME NEW k \in 1..m
          PROVE  g[k + 1] = G[<<g[k], k>>]
      <3>1. g[k] = f[k]
        BY <2>3
      <3>2. CASE k = m
        <4>1. g[m + 1] = G[<<f[m], m>>]
          BY <2>3
        <4> HIDE DEF g
        <4>. QED BY <3>1, <3>2, <4>1
      <3>3. CASE k # m
        <4>1. k \in 1..(m - 1) /\ k + 1 \in 1..(m + 1) /\ k + 1 # m + 1
          BY <3>3, <2>3
        <4>2. g[k + 1] = f[k + 1]
          BY <4>1
        <4> HIDE DEF g
        <4>. QED BY <4>1, <4>2, <3>1, <2>5
      <3>. QED BY <3>2, <3>3
    <2>. QED BY <2>1, <2>6, <2>7, <2>8
  <1>2. n \in 0..n
    OBVIOUS
  <1>3. Path(n)
    BY <1>1, <1>2
  <1>. QED BY <1>3

-----------------------------------------------------------------------------
(* The first pass over a tape                                              *)

\* The cursor of the first pass in front of block k.
End[k \in 1..(Len(Blocks) + 1)] ==
  IF k = 1 THEN RamBase ELSE Counted(End[k - 1], k - 1)

\* The first block that is not there.
Last ==
  CHOOSE k \in 1..(Len(Blocks) + 1) : AtEnd(k) /\ \A j \in 1..(k - 1) : ~AtEnd(j)

\* The file is a tape.
IsTape == file \in Files /\ file.tag = "tap"

\* A tape has a number of blocks, whose lengths are numbers.
LEMMA BlocksOfTape ==
  ASSUME IsTape
  PROVE  /\ Len(Blocks) \in Nat
         /\ \A k \in 1..Len(Blocks) : Blocks[k].len \in Nat
                                      /\ Taken(k) \in Int /\ Taken(k) >= 0 - 2
  <1>1. /\ Len(Blocks) \in Nat
        /\ \A k \in 1..Len(Blocks) : Blocks[k].len \in Nat
    BY TapesAssumption, Zenon DEF Blocks, IsTape
  <1>2. ASSUME NEW k \in 1..Len(Blocks)
        PROVE  Taken(k) \in Int /\ Taken(k) >= 0 - 2
    <2>1. Blocks[k].len \in Nat
      BY <1>1, <1>2
    <2>. QED BY <2>1 DEF Taken, Payload, HeaderSize
  <1>. QED BY <1>1, <1>2

\* Wherever it stands, the first pass goes on to a number.
LEMMA CountedIsInt ==
  ASSUME IsTape, NEW k \in 1..Len(Blocks), NEW c \in Int
  PROVE  Counted(c, k) \in Int
  <1>1. c + Taken(k) \in Int
    BY BlocksOfTape
  <1>. QED BY <1>1, AlignUpBounds DEF Counted

\* There is a function of the kind End defines.
LEMMA EndIsDefined ==
  ASSUME IsTape
  PROVE  /\ End[1] = RamBase
         /\ \A k \in 1..Len(Blocks) : End[k + 1] = Counted(End[k], k)
         /\ \A k \in 1..(Len(Blocks) + 1) : End[k] \in Int
  <1> DEFINE n == Len(Blocks)
             G == [p \in Int \X (1..n) |-> Counted(p[1], p[2])]
             Def(e) == [k \in 1..(n + 1) |-> IF k = 1 THEN RamBase ELSE Counted(e[k - 1], k - 1)]
  <1>1. n \in Nat
    BY BlocksOfTape
  <1>2. G \in [Int \X (1..n) -> Int]
    <2>1. ASSUME NEW p \in Int \X (1..n)
          PROVE  Counted(p[1], p[2]) \in Int
      <3>1. p[1] \in Int /\ p[2] \in 1..Len(Blocks)
        BY <2>1
      <3>. QED BY <3>1, CountedIsInt
    <2>. QED BY <2>1
  <1>3. \A c \in Int, k \in 1..n : G[<<c, k>>] = Counted(c, k)
    OBVIOUS
  <1>4. RamBase \in Int
    BY DEF RamBase
  <1> HIDE DEF G
  <1>5. PICK f \in [1..(n + 1) -> Int] :
          f[1] = RamBase /\ \A k \in 1..n : f[k + 1] = G[<<f[k], k>>]
    <2> HIDE DEF n
    <2>. QED BY <1>1, <1>2, <1>4, StepByStep
  <1>6. \A k \in 1..n : f[k + 1] = Counted(f[k], k)
    <2>1. ASSUME NEW k \in 1..n
          PROVE  f[k + 1] = Counted(f[k], k)
      <3>1. f[k] \in Int
        BY <1>1, <1>5
      <3>. QED BY <3>1, <1>3, <1>5
    <2>. QED BY <2>1
  <1>7. f = Def(f)
    <2>1. ASSUME NEW k \in 1..(n + 1)
          PROVE  f[k] = IF k = 1 THEN RamBase ELSE Counted(f[k - 1], k - 1)
      <3>1. CASE k = 1
        BY <1>5, <3>1
      <3>2. CASE k # 1
        <4>1. k - 1 \in 1..n /\ (k - 1) + 1 = k
          BY <1>1, <3>2
        <4>2. f[(k - 1) + 1] = Counted(f[k - 1], k - 1)
          BY <4>1, <1>6
        <4>. QED BY <4>1, <4>2, <3>2
      <3>. QED BY <3>1, <3>2
    <2> DEFINE d == Def(f)
    <2>2. DOMAIN d = 1..(n + 1) /\ \A k \in 1..(n + 1) : d[k] = f[k]
      BY <2>1
    <2>3. d = [k \in 1..(n + 1) |-> d[k]] /\ f = [k \in 1..(n + 1) |-> f[k]]
      BY <1>5
    <2> HIDE DEF d
    <2>. QED BY <2>2, <2>3, Zenon DEF d
  <1>8. End = CHOOSE e : e = Def(e)
    BY DEF End
  <1>9. End = Def(End)
    <2> HIDE DEF Def
    <2>. QED BY <1>7, <1>8, Zenon
  <1>10. /\ End[1] = RamBase
         /\ \A k \in 1..n : End[k + 1] = Counted(End[k], k)
    <2>1. End[1] = RamBase
      BY <1>9, <1>1
    <2>2. ASSUME NEW k \in 1..n
          PROVE  End[k + 1] = Counted(End[k], k)
      <3>1. k + 1 \in 1..(n + 1) /\ k + 1 # 1 /\ (k + 1) - 1 = k
        BY <1>1
      <3>2. End[k + 1] = Counted(End[(k + 1) - 1], (k + 1) - 1)
        BY <1>9, <3>1
      <3>. QED BY <3>1, <3>2
    <2>. QED BY <2>1, <2>2
  <1>11. ASSUME {k \in 1..(n + 1) : End[k] \notin Int} # {}
         PROVE  FALSE
    <2> DEFINE T == {k \in 1..(n + 1) : End[k] \notin Int}
    <2>1. T \in SUBSET Nat /\ T # {}
      BY <1>11
    <2>2. PICK k \in T : \A y \in T : k <= y
      BY <2>1, LeastNumber
    <2>3. k # 1
      BY <2>2, <1>10, <1>4
    <2>4. k - 1 \in 1..n /\ (k - 1) + 1 = k /\ k - 1 \in 1..(n + 1) /\ ~(k <= k - 1)
      BY <1>1, <2>3
    <2>5. End[k - 1] \in Int
      BY <2>2, <2>4
    <2>6. End[k] = Counted(End[k - 1], k - 1)
      BY <2>4, <1>10
    <2>. QED BY <2>4, <2>5, <2>6, CountedIsInt
  <1>. QED BY <1>10, <1>11

\* There is a first block that is not there, at the latest the one behind the
\* list.
LEMMA LastIsThere ==
  ASSUME IsTape
  PROVE  /\ Last \in 1..(Len(Blocks) + 1)
         /\ AtEnd(Last)
         /\ \A j \in 1..(Last - 1) : ~AtEnd(j)
  <1> DEFINE n == Len(Blocks)
             T == {k \in 1..(n + 1) : AtEnd(k)}
  <1>1. n \in Nat
    BY BlocksOfTape
  <1>2. n + 1 \in T /\ T \in SUBSET Nat
    <2>1. AtEnd(n + 1)
      BY <1>1 DEF AtEnd
    <2>. QED BY <1>1, <2>1
  <1>3. PICK k \in T : \A y \in T : k <= y
    BY <1>2, LeastNumber
  <1>4. k \in 1..(n + 1) /\ AtEnd(k)
    OBVIOUS
  <1>5. ASSUME NEW j \in 1..(k - 1)
        PROVE  ~AtEnd(j)
    <2>1. j \in 1..(n + 1) /\ ~(k <= j)
      BY <1>1, <1>4
    <2>. QED BY <2>1, <1>3
  <1>6. \E m \in 1..(Len(Blocks) + 1) : AtEnd(m) /\ \A j \in 1..(m - 1) : ~AtEnd(j)
    BY <1>4, <1>5
  <1>. QED BY <1>6, Zenon DEF Last

\* The first pass only stands on boundaries, and goes on from each to one that
\* is not before the block it has counted.
LEMMA CountedGoesOn ==
  ASSUME IsTape, NEW k \in 1..Len(Blocks), NEW c \in Nat, c % 16 = 0
  PROVE  /\ Aligned(Counted(c, k))
         /\ c <= Counted(c, k) /\ c + Taken(k) <= Counted(c, k)
  <1>1. Taken(k) \in Int /\ Taken(k) >= 0 - 2
    BY BlocksOfTape
  <1> DEFINE to == Counted(c, k)
  <1> DEFINE behind == c + Taken(k)
  <1>a. behind \in Int /\ to = AlignUp(behind, 16)
    BY <1>1 DEF Counted
  <1>2. to \in Int /\ to % 16 = 0 /\ c + Taken(k) <= to
    <2> HIDE DEF to
    <2>1. to \in Int /\ to % 16 = 0 /\ behind <= to
      <3> HIDE DEF behind
      <3>. QED BY <1>a, AlignUpBounds
    <2>. QED BY <2>1
  <1> HIDE DEF to
  <1>3. c <= to
    BY <1>1, <1>2
  <1>4. to \in Nat
    BY <1>2, <1>3
  <1>. QED BY <1>2, <1>3, <1>4 DEF Aligned, to

\* So do all its positions.
LEMMA EndIsAligned ==
  ASSUME IsTape
  PROVE  \A k \in 1..(Len(Blocks) + 1) : Aligned(End[k]) /\ RamBase <= End[k]
  <1> DEFINE n == Len(Blocks)
             Good(k) == Aligned(End[k]) /\ RamBase <= End[k]
             T == {k \in 1..(n + 1) : ~Good(k)}
  <1>1. n \in Nat /\ RamBase \in Nat /\ RamBase % 16 = 0
    BY BlocksOfTape DEF RamBase
  <1>2. ASSUME T # {}
        PROVE  FALSE
    <2>1. T \in SUBSET Nat
      BY <1>1
    <2>2. PICK k \in T : \A y \in T : k <= y
      BY <1>2, <2>1, LeastNumber
    <2>3. k # 1
      BY <2>2, EndIsDefined, <1>1 DEF Aligned
    <2>4. k - 1 \in 1..n /\ (k - 1) + 1 = k /\ k - 1 \in 1..(n + 1) /\ ~(k <= k - 1)
      BY <1>1, <2>3
    <2>5. Good(k - 1)
      BY <2>2, <2>4
    <2>6. End[k] = Counted(End[k - 1], k - 1)
      BY <2>4, EndIsDefined
    <2>7. Aligned(End[k]) /\ End[k - 1] <= End[k]
      BY <2>4, <2>5, <2>6, CountedGoesOn DEF Aligned
    <2>8. Good(k)
      BY <1>1, <2>5, <2>7 DEF Aligned
    <2>9. ~Good(k)
      BY <2>2
    <2>. QED BY <2>8, <2>9
  <1>. QED BY <1>2

\* The end of the first pass is behind all its positions.
LEMMA EndIsMonotone ==
  ASSUME IsTape, NEW m \in 1..(Len(Blocks) + 1)
  PROVE  \A k \in m..(Len(Blocks) + 1) : End[m] <= End[k]
  <1> DEFINE n == Len(Blocks)
             T == {k \in m..(n + 1) : ~(End[m] <= End[k])}
  <1>1. n \in Nat
    BY BlocksOfTape
  <1>0. \A k \in 1..(n + 1) : End[k] \in Nat
    BY EndIsAligned DEF Aligned
  <1>2. ASSUME T # {}
        PROVE  FALSE
    <2>1. T \in SUBSET Nat
      BY <1>1
    <2>2. PICK k \in T : \A y \in T : k <= y
      BY <1>2, <2>1, LeastNumber
    <2>k. k \in m..(n + 1) /\ ~(End[m] <= End[k])
      OBVIOUS
    <2>3. k # m
      BY <2>k, <1>0
    <2>4. k - 1 \in 1..n /\ (k - 1) + 1 = k /\ k - 1 \in m..(n + 1) /\ ~(k <= k - 1)
          /\ k - 1 \in 1..(n + 1)
      BY <1>1, <2>3, <2>k
    <2>5. End[m] <= End[k - 1]
      BY <2>2, <2>4
    <2>6. End[k] = Counted(End[k - 1], k - 1)
      BY <2>4, EndIsDefined
    <2>7. Aligned(End[k - 1])
      BY <2>4, EndIsAligned
    <2>8. End[k - 1] <= End[k]
      BY <2>4, <2>6, <2>7, CountedGoesOn DEF Aligned
    <2>. QED BY <1>0, <2>k, <2>4, <2>5, <2>8
  <1>. QED BY <1>2

\* The RAM that is mapped holds all positions of the first pass.
LEMMA RamHoldsEnd ==
  ASSUME IsTape, RamEnd # 0, NEW k \in 1..Last
  PROVE  End[k] \in Nat /\ End[Last] \in Nat /\ RamEnd \in Int /\ End[k] <= RamEnd
  <1>1. Len(Blocks) \in Nat /\ Last \in 1..(Len(Blocks) + 1)
    BY BlocksOfTape, LastIsThere
  <1>2. k \in 1..(Len(Blocks) + 1) /\ Last \in k..(Len(Blocks) + 1)
    BY <1>1
  <1>3. End[k] \in Nat /\ End[Last] \in Nat /\ End[k] <= End[Last]
    BY <1>1, <1>2, EndIsAligned, EndIsMonotone DEF Aligned
  <1>4. RamEnd = AlignUp(End[Last], 4096)
    <2>1. RamEnd = IF \A j \in 1..(Last - 1) : BlockThere(j)
                     THEN AlignUp(End[Last], 4096) ELSE 0
      BY DEF RamEnd, Last, End
    <2>. QED BY <2>1
  <1> DEFINE e == End[Last]
             q == (e + 4096 - 1) \div 4096
  <1>5. q \in Int /\ q * 4096 >= e
    <2> HIDE DEF e
    <2>1. e \in Nat
      BY <1>3 DEF e
    <2>. QED BY <2>1
  <1>6. RamEnd = q * 4096
    BY <1>4 DEF AlignUp
  <1> HIDE DEF q, e
  <1>7. RamEnd \in Int /\ e <= RamEnd
    BY <1>5, <1>6, <1>3 DEF e
  <1>. QED BY <1>3, <1>7 DEF e

-----------------------------------------------------------------------------
(* The second pass keeps up with the first                                 *)

\* Before a file is looked at nothing is mapped; then the second pass stands
\* where the first one stood, and what it has mapped is in the RAM.
RamInv ==
  /\ pc = "parse" => cursor = RamBase
  /\ pc = "tape" => RamEnd # 0 /\ pos \in 1..Last /\ cursor = End[pos]
  /\ areas # {} => IsTape
  /\ BlocksInRam

\* What is computed from the file stays as long as the file does.
LEMMA PassStays ==
  ASSUME file' = file
  PROVE  /\ RamEnd' = RamEnd /\ Last' = Last /\ End' = End /\ (IsTape <=> IsTape')
         /\ \A k : AtEnd(k)' <=> AtEnd(k)
  <1>1. RamEnd' = RamEnd
    BY DEF RamEnd, Blocks, Counted, Taken, IsHeader, Flag, Payload, AtEnd, BlockThere,
           Start
  <1>2. Last' = Last
    BY DEF Last, AtEnd, Start, Blocks
  <1>3. End' = End
    BY DEF End, Counted, Taken, IsHeader, Flag, Payload, Blocks
  <1>4. \A k : AtEnd(k)' <=> AtEnd(k)
    BY DEF AtEnd, Start, Blocks
  <1>5. IsTape <=> IsTape'
    BY DEF IsTape
  <1>. QED BY <1>1, <1>2, <1>3, <1>4, <1>5, Zenon

\* Nothing of this changes where the second pass neither starts nor goes on.
LEMMA NoBlockRamInv ==
  ASSUME RamInv, UNCHANGED <<file, areas>>, pc' # "parse", pc' # "tape"
  PROVE  RamInv'
  <1>1. BlocksInRam'
    BY PassStays DEF RamInv, BlocksInRam
  <1>. QED BY <1>1, PassStays DEF RamInv

\* A block is passed by both passes to the same place.
LEMMA PassBlockRamInv ==
  ASSUME IInv, RamInv, InTape, NextBlock,
         areas' = areas \/ (~IsHeader(pos) /\ MapInput)
  PROVE  RamInv'
  <1>1. pc = "tape" /\ ~AtEnd(pos) /\ IsTape
    BY DEF InTape, IInv, OnTape, IsTape
  <1>2. /\ cursor' = Advanced(cursor, pos) /\ pos' = pos + 1
        /\ file' = file /\ pc' = pc
    BY DEF NextBlock
  <1>3. RamEnd # 0 /\ pos \in 1..Last /\ cursor = End[pos]
    BY <1>1 DEF RamInv
  <1>4. Last \in 1..(Len(Blocks) + 1) /\ AtEnd(Last) /\ Len(Blocks) \in Nat
    BY <1>1, LastIsThere, BlocksOfTape
  <1>5. pos # Last
    BY <1>1, <1>4
  <1>6. pos \in 1..Len(Blocks) /\ pos + 1 \in 1..Last
    BY <1>3, <1>4, <1>5
  <1>7. Advanced(cursor, pos) = Counted(cursor, pos)
    BY DEF Advanced, Counted
  <1>8. cursor' = End[pos + 1]
    BY <1>1, <1>2, <1>3, <1>6, <1>7, EndIsDefined
  <1>9. BlocksInRam'
    <2>1. ASSUME NEW a \in areas'
          PROVE  RamBase <= a.from /\ a.to <= RamEnd
      <3>1. CASE a \in areas
        BY <3>1 DEF RamInv, BlocksInRam
      <3>2. CASE a \notin areas
        <4>0. ~IsHeader(pos) /\ MapInput
          BY <3>2
        <4>1. a.from = cursor /\ a.to = cursor + Payload(pos)
          BY <4>0, <3>2, MappedArea
        <4>2. RamBase <= cursor /\ cursor \in Nat
          BY <1>1, <1>3, <1>6, <1>4, EndIsAligned DEF Aligned
        <4>3. cursor + Payload(pos) <= cursor'
          BY <1>1, <1>2, <4>0, CursorGoesOn
        <4>4. cursor' \in Nat /\ RamEnd \in Int /\ cursor' <= RamEnd
          BY <1>1, <1>3, <1>6, <1>8, RamHoldsEnd
        <4>5. Payload(pos) \in Int
          BY <1>1, CursorGoesOn
        <4>. QED BY <4>1, <4>2, <4>3, <4>4, <4>5
      <3>. QED BY <3>1, <3>2
    <2>. QED BY <2>1, <1>2, PassStays DEF BlocksInRam
  <1>. QED BY <1>1, <1>2, <1>3, <1>6, <1>8, <1>9, PassStays DEF RamInv

\* Every step keeps the second pass where the first one was.
LEMMA StepRamInv ==
  ASSUME IInv, RamInv, Step
  PROVE  RamInv'
  <1>1. CASE Z80Load
    <2>1. UNCHANGED <<file, areas, cursor>> /\ pc # "tape"
      BY <1>1 DEF Z80Load, Z80Parse, ExpandV1, EndV1, SkipBlock, RawBlock, OpenBlock,
                  Expand, CloseBlock, BlocksDone, MoreBlocks, InBlock, PushByte, PushRun,
                  Return, tape, snapshot
    <2>2. pc' # "parse" /\ pc' # "tape"
      BY <1>1 DEF Z80Load, Z80Parse, ExpandV1, EndV1, SkipBlock, RawBlock, OpenBlock,
                  Expand, CloseBlock, BlocksDone, MoreBlocks, InBlock, PushByte, PushRun,
                  Return, tape, snapshot
    <2>. QED BY <2>1, <2>2, NoBlockRamInv
  <1>2. CASE SnaLoad
    <2>1. UNCHANGED <<file, areas>> /\ pc' # "parse" /\ pc' # "tape"
      BY <1>2 DEF SnaLoad, Return, tape
    <2>. QED BY <2>1, NoBlockRamInv
  <1>3. CASE TapParse
    <2>1. UNCHANGED <<file, areas, cursor>> /\ pc = "parse" /\ pos' = 1
          /\ file.tag = "tap"
      BY <1>3 DEF TapParse, tape
    <2>2. CASE pc' # "tape"
      <3>1. pc' # "parse"
        BY <1>3, <2>2 DEF TapParse, Return
      <3>. QED BY <2>1, <2>2, <3>1, NoBlockRamInv
    <2>3. CASE pc' = "tape"
      <3>1. RamEnd # 0 /\ IsTape
        BY <1>3, <2>1, <2>3 DEF TapParse, Return, IInv, IsTape
      <3>2. 1 \in 1..Last /\ End[1] = RamBase
        BY <3>1, LastIsThere, BlocksOfTape, EndIsDefined
      <3>3. cursor' = End[1]
        BY <2>1, <3>2 DEF RamInv
      <3>4. BlocksInRam'
        BY <2>1, PassStays DEF RamInv, BlocksInRam
      <3>. QED BY <2>1, <2>3, <3>1, <3>2, <3>3, <3>4, PassStays DEF RamInv
    <2>. QED BY <2>2, <2>3
  <1>4. CASE TapHeader
    BY <1>4, PassBlockRamInv DEF TapHeader
  <1>5. CASE TapProgram
    <2>1. CASE NextBlock
      BY <1>5, <2>1, PassBlockRamInv DEF TapProgram
    <2>2. CASE ~NextBlock
      <3>1. /\ MapInput /\ ~(~IsHuge(pos) /\ Start(pos) + 3 + Payload(pos) <= file.size)
            /\ Return("failed") /\ UNCHANGED <<file, cursor>>
        BY <1>5, <2>2 DEF TapProgram
      <3>2. areas' = areas
        BY <3>1 DEF MapInput
      <3>. QED BY <3>1, <3>2, NoBlockRamInv DEF Return
    <2>. QED BY <2>1, <2>2
  <1>6. CASE TapCode
    BY <1>6, PassBlockRamInv DEF TapCode
  <1>7. CASE TapOther
    BY <1>7, PassBlockRamInv DEF TapOther
  <1>8. CASE TapTruncated
    BY <1>8, NoBlockRamInv DEF TapTruncated, tape, Return
  <1>9. CASE TapDone
    BY <1>9, NoBlockRamInv DEF TapDone, tape, Return
  <1>. QED BY <1>1, <1>2, <1>3, <1>4, <1>5, <1>6, <1>7, <1>8, <1>9
           DEF Step, TapLoad

\* The RAM that the first pass over a tape measures (_tap_compute_ram_size) holds
\* every block the second one (tap_load) maps, whatever the tape.
THEOREM BlocksAreInRam == Spec => []BlocksInRam
  <1>1. Init => RamInv
    BY DEF Init, RamInv, BlocksInRam
  <1>2. IInv /\ RamInv /\ [Next]_vars => RamInv'
    <2>1. ASSUME RamInv, UNCHANGED vars
          PROVE  RamInv'
      <3>1. UNCHANGED <<file, pc, pos, cursor, areas>>
        BY <2>1 DEF vars
      <3>2. BlocksInRam'
        BY <2>1, <3>1, PassStays DEF RamInv, BlocksInRam
      <3>. QED BY <2>1, <3>1, <3>2, PassStays DEF RamInv
    <2>2. ASSUME IInv, RamInv, Next
          PROVE  RamInv'
      BY <2>1, <2>2, StepRamInv DEF Next
    <2>. QED BY <2>1, <2>2
  <1>3. RamInv => BlocksInRam
    BY DEF RamInv
  <1>. QED BY <1>1, <1>2, <1>3, InductiveInvariant, PTL DEF Spec

-----------------------------------------------------------------------------
(* What headers speak for                                                  *)

\* Blocks of data right behind a header.
Spoken == {k \in 2..Len(Blocks) : IsHeader(k - 1) /\ ~IsHeader(k)}

\* The headers of a type whose block has been passed.
Done(type) == {k - 1 : k \in {j \in Spoken : j < pos /\ Blocks[j - 1].type = type}}

\* The headers that marks of some kinds are about.
HeadersOf(kinds) == {m.block : m \in {n \in marks : n.kind \in kinds}}

Entries == {m \in marks : m.kind = "entry"}

CodeMarks == {m \in marks : m.kind \in {"entry", "function"}}

\* The header that is kept is the one of the block in front of the reader.
HeaderInFront == header = IF pos # 1 /\ IsHeader(pos - 1) THEN pos - 1 ELSE 0

\* The marks made so far are those the headers passed call for.
MarksOfHeaders ==
  /\ HeadersOf({"name"}) = Done(Program)
  /\ HeadersOf({"comment"}) = Done(Code)
  /\ HeadersOf({"entry", "function"}) = Done(Code)
  /\ IsFiniteSet(CodeMarks) /\ IsFiniteSet(Done(Code))
  /\ Cardinality(CodeMarks) = Cardinality(Done(Code))
  /\ Cardinality(Entries) <= 1
  /\ Entries = {} => Done(Code) = {}
  /\ \A m \in Entries : \A h \in Done(Code) : m.block <= h

\* Before a file is looked at there is no header and no mark; on a tape both are
\* what the blocks passed say.
HeaderInv ==
  /\ pc = "parse" => header = 0 /\ marks = {}
  /\ file.tag = "tap" => pc \in {"parse", "tape", "loaded", "failed", "rejected"}
  /\ pc = "tape" => HeaderInFront
  /\ file.tag = "tap" /\ pc \in {"tape", "loaded"} => MarksOfHeaders

\* With a block one more header may have been spoken for.
LEMMA PassedHeader ==
  ASSUME file' = file, IsTape, pos \in 1..Len(Blocks), pos' = pos + 1, NEW type
  PROVE  Done(type)' = Done(type) \cup
           (IF pos \in Spoken /\ Blocks[pos - 1].type = type THEN {pos - 1} ELSE {})
  <1>1. /\ Blocks' = Blocks /\ Spoken' = Spoken
    BY DEF Blocks, Spoken, IsHeader, Flag
  <1>2. \A j \in Spoken : j \in Nat
    BY BlocksOfTape DEF Spoken
  <1>3. \A j \in Spoken : j < pos + 1 <=> j < pos \/ j = pos
    BY <1>2, BlocksOfTape
  <1> DEFINE Old == {j \in Spoken : j < pos /\ Blocks[j - 1].type = type}
             New == {j \in Spoken : j < pos + 1 /\ Blocks[j - 1].type = type}
  <1>4. Done(type)' = {k - 1 : k \in New} /\ Done(type) = {k - 1 : k \in Old}
    BY <1>1 DEF Done
  <1>5. CASE pos \in Spoken /\ Blocks[pos - 1].type = type
    <2>1. New = Old \cup {pos}
      BY <1>3, <1>5
    <2> HIDE DEF New, Old
    <2>. QED BY <1>4, <1>5, <2>1
  <1>6. CASE ~(pos \in Spoken /\ Blocks[pos - 1].type = type)
    <2>1. New = Old
      BY <1>3, <1>6
    <2> HIDE DEF New, Old
    <2>. QED BY <1>4, <1>6, <2>1
  <1>. QED BY <1>5, <1>6

\* Whoever speaks for the block at the reader is the header that is kept.
LEMMA WhoSpeaks ==
  ASSUME IsTape, pos \in 1..Len(Blocks), HeaderInFront, ~IsHeader(pos)
  PROVE  /\ header # 0 => header = pos - 1 /\ pos \in Spoken
                          /\ HeaderType = Blocks[pos - 1].type
         /\ header = 0 => pos \notin Spoken /\ HeaderType = 255
  <1>1. Len(Blocks) \in Nat
    BY BlocksOfTape
  <1>2. pos \in Spoken <=> pos # 1 /\ IsHeader(pos - 1)
    BY <1>1 DEF Spoken
  <1>3. pos # 1 => pos - 1 # 0
    BY <1>1
  <1>. QED BY <1>1, <1>2, <1>3 DEF HeaderInFront, HeaderType

\* Headers that have been passed are in front of the block at the reader.
LEMMA DoneIsBefore ==
  ASSUME IsTape, pos \in Nat \ {0}, NEW type
  PROVE  \A h \in Done(type) : h \in Nat /\ h < pos - 1
  <1>1. \A j \in Spoken : j \in Nat \ {0}
    BY BlocksOfTape DEF Spoken
  <1>2. ASSUME NEW j \in Spoken, j < pos
        PROVE  j - 1 \in Nat /\ j - 1 < pos - 1
    BY <1>1, <1>2
  <1>. QED BY <1>2 DEF Done

\* Where no header is spoken for nothing has to be marked.
LEMMA NothingSaid ==
  ASSUME MarksOfHeaders, Done(Program)' = Done(Program), Done(Code)' = Done(Code),
         marks' = marks
  PROVE  MarksOfHeaders'
  <1>1. CodeMarks' = CodeMarks /\ Entries' = Entries
        /\ \A kinds : HeadersOf(kinds)' = HeadersOf(kinds)
    BY DEF CodeMarks, Entries, HeadersOf
  <1> DEFINE p == Done(Program)
             c == Done(Code)
  <1>2. p' = p /\ c' = c
    OBVIOUS
  <1>3. /\ HeadersOf({"name"}) = p /\ HeadersOf({"comment"}) = c
        /\ HeadersOf({"entry", "function"}) = c
        /\ IsFiniteSet(CodeMarks) /\ IsFiniteSet(c)
        /\ Cardinality(CodeMarks) = Cardinality(c)
        /\ Cardinality(Entries) <= 1 /\ (Entries = {} => c = {})
        /\ \A m \in Entries : \A h \in c : m.block <= h
    BY DEF MarksOfHeaders
  <1>4. /\ HeadersOf({"name"})' = p' /\ HeadersOf({"comment"})' = c'
        /\ HeadersOf({"entry", "function"})' = c'
        /\ IsFiniteSet(CodeMarks') /\ IsFiniteSet(c')
        /\ Cardinality(CodeMarks') = Cardinality(c')
        /\ Cardinality(Entries') <= 1 /\ (Entries' = {} => c' = {})
        /\ \A m \in Entries' : \A h \in c' : m.block <= h
    <2> HIDE DEF p, c
    <2>. QED BY <1>1, <1>2, <1>3
  <1>. QED BY <1>4 DEF MarksOfHeaders

\* A program gets a name, and its lines comments of their own.
LEMMA ProgramSaid ==
  ASSUME MarksOfHeaders, NEW lines,
         Done(Program)' = Done(Program) \cup {header}, Done(Code)' = Done(Code),
         marks' = marks \cup {Mark("name")}
                        \cup {[Mark("line") EXCEPT !.line = k] : k \in lines}
  PROVE  MarksOfHeaders'
  <1> DEFINE N == {[Mark("line") EXCEPT !.line = k] : k \in lines}
             x == Mark("name")
  <1>1. x.kind = "name" /\ x.block = header
    BY DEF Mark
  <1>2. \A m \in N : m.kind = "line"
    BY DEF Mark
  <1>3. marks' = marks \cup {x} \cup N
    OBVIOUS
  <1> HIDE DEF N, x
  <1>4. CodeMarks' = CodeMarks
    BY <1>1, <1>2, <1>3 DEF CodeMarks
  <1>5. Entries' = Entries
    BY <1>1, <1>2, <1>3 DEF Entries
  <1>6. HeadersOf({"name"})' = HeadersOf({"name"}) \cup {header}
    <2>1. {n \in marks' : n.kind \in {"name"}} = {n \in marks : n.kind \in {"name"}} \cup {x}
      BY <1>1, <1>2, <1>3
    <2>. QED BY <2>1, <1>1 DEF HeadersOf
  <1>7. HeadersOf({"comment"})' = HeadersOf({"comment"})
    BY <1>1, <1>2, <1>3 DEF HeadersOf
  <1>8. HeadersOf({"entry", "function"})' = HeadersOf({"entry", "function"})
    BY <1>1, <1>2, <1>3 DEF HeadersOf
  <1> DEFINE p == Done(Program)
             c == Done(Code)
  <1>9. p' = p \cup {header} /\ c' = c
    OBVIOUS
  <1>10. /\ HeadersOf({"name"}) = p /\ HeadersOf({"comment"}) = c
         /\ HeadersOf({"entry", "function"}) = c
         /\ IsFiniteSet(CodeMarks) /\ IsFiniteSet(c)
         /\ Cardinality(CodeMarks) = Cardinality(c)
         /\ Cardinality(Entries) <= 1 /\ (Entries = {} => c = {})
         /\ \A m \in Entries : \A h \in c : m.block <= h
    BY DEF MarksOfHeaders
  <1>11. /\ HeadersOf({"name"})' = p' /\ HeadersOf({"comment"})' = c'
         /\ HeadersOf({"entry", "function"})' = c'
         /\ IsFiniteSet(CodeMarks') /\ IsFiniteSet(c')
         /\ Cardinality(CodeMarks') = Cardinality(c')
         /\ Cardinality(Entries') <= 1 /\ (Entries' = {} => c' = {})
         /\ \A m \in Entries' : \A h \in c' : m.block <= h
    <2> HIDE DEF p, c
    <2>. QED BY <1>4, <1>5, <1>6, <1>7, <1>8, <1>9, <1>10
  <1>. QED BY <1>11 DEF MarksOfHeaders

\* Code gets a comment and is the entry point, or a function if there is one.
LEMMA CodeSaid ==
  ASSUME MarksOfHeaders, header \in Nat, \A h \in Done(Code) : h \in Nat /\ h < header,
         Done(Program)' = Done(Program), Done(Code)' = Done(Code) \cup {header},
         marks' = marks \cup {Mark("comment"),
                     Mark(IF \E m \in marks : m.kind = "entry" THEN "function" ELSE "entry")}
  PROVE  MarksOfHeaders'
  <1> DEFINE kind == IF \E m \in marks : m.kind = "entry" THEN "function" ELSE "entry"
             x == Mark("comment")
             y == Mark(kind)
             p == Done(Program)
             c == Done(Code)
  <1>1. x.kind = "comment" /\ x.block = header /\ y.kind = kind /\ y.block = header
    BY DEF Mark
  <1>2. marks' = marks \cup {x, y}
    OBVIOUS
  <1>3. kind = IF Entries = {} THEN "entry" ELSE "function"
    BY DEF Entries
  <1> HIDE DEF x, y, kind
  <1>4. CodeMarks' = CodeMarks \cup {y}
    BY <1>1, <1>2, <1>3 DEF CodeMarks
  <1>5. /\ Entries = {} => Entries' = {y}
        /\ Entries # {} => Entries' = Entries
    BY <1>1, <1>2, <1>3 DEF Entries
  <1>6. HeadersOf({"name"})' = HeadersOf({"name"})
    BY <1>1, <1>2, <1>3 DEF HeadersOf
  <1>7. HeadersOf({"comment"})' = HeadersOf({"comment"}) \cup {header}
    <2>1. {n \in marks' : n.kind \in {"comment"}}
            = {n \in marks : n.kind \in {"comment"}} \cup {x}
      BY <1>1, <1>2, <1>3
    <2>. QED BY <2>1, <1>1 DEF HeadersOf
  <1>8. HeadersOf({"entry", "function"})' = HeadersOf({"entry", "function"}) \cup {header}
    <2>1. {n \in marks' : n.kind \in {"entry", "function"}}
            = {n \in marks : n.kind \in {"entry", "function"}} \cup {y}
      BY <1>1, <1>2, <1>3
    <2>. QED BY <2>1, <1>1 DEF HeadersOf
  <1>9. p' = p /\ c' = c \cup {header} /\ (\A h \in c : h \in Nat /\ h < header)
    OBVIOUS
  <1>10. /\ HeadersOf({"name"}) = p /\ HeadersOf({"comment"}) = c
         /\ HeadersOf({"entry", "function"}) = c
         /\ IsFiniteSet(CodeMarks) /\ IsFiniteSet(c)
         /\ Cardinality(CodeMarks) = Cardinality(c)
         /\ Cardinality(Entries) <= 1 /\ (Entries = {} => c = {})
         /\ \A m \in Entries : \A h \in c : m.block <= h
    BY DEF MarksOfHeaders
  <1>a. y \notin CodeMarks
    <2>1. y \in CodeMarks => header \in HeadersOf({"entry", "function"})
      BY <1>1 DEF CodeMarks, HeadersOf
    <2> HIDE DEF p, c
    <2>2. header \notin c
      BY <1>9
    <2>. QED BY <2>1, <2>2, <1>10
  <1>b. \A m \in Entries : m.block \in c
    <2>1. \A m \in Entries : m.block \in HeadersOf({"entry", "function"})
      BY DEF Entries, HeadersOf
    <2>. QED BY <2>1, <1>10
  <1> HIDE DEF p, c
  <1>11. /\ HeadersOf({"name"})' = p' /\ HeadersOf({"comment"})' = c'
         /\ HeadersOf({"entry", "function"})' = c'
    BY <1>6, <1>7, <1>8, <1>9, <1>10
  <1>12. /\ IsFiniteSet(CodeMarks') /\ IsFiniteSet(c')
         /\ Cardinality(CodeMarks') = Cardinality(c')
    <2>1. header \notin c
      BY <1>9
    <2>2. /\ IsFiniteSet(CodeMarks \cup {y})
          /\ Cardinality(CodeMarks \cup {y}) = Cardinality(CodeMarks) + 1
      BY <1>10, <1>a, FS_AddElement
    <2>3. /\ IsFiniteSet(c \cup {header})
          /\ Cardinality(c \cup {header}) = Cardinality(c) + 1
      BY <1>10, <2>1, FS_AddElement
    <2>. QED BY <1>4, <1>9, <1>10, <2>2, <2>3
  <1>13. Cardinality(Entries') <= 1 /\ (Entries' = {} => c' = {})
    <2>1. CASE Entries = {}
      <3>1. Entries' = {y} /\ Cardinality({y}) = 1
        BY <2>1, <1>5, FS_Singleton
      <3>. QED BY <3>1
    <2>2. CASE Entries # {}
      BY <2>2, <1>5, <1>10
    <2>. QED BY <2>1, <2>2
  <1>14. \A m \in Entries' : \A h \in c' : m.block <= h
    <2>1. CASE Entries = {}
      <3>1. c' = {header} /\ Entries' = {y}
        BY <2>1, <1>5, <1>9, <1>10
      <3>. QED BY <3>1, <1>1
    <2>2. CASE Entries # {}
      <3>1. ASSUME NEW m \in Entries, NEW h \in c'
            PROVE  m.block <= h
        BY <1>9, <1>10, <1>b
      <3>. QED BY <3>1, <2>2, <1>5
    <2>. QED BY <2>1, <2>2
  <1>. QED BY <1>11, <1>12, <1>13, <1>14 DEF MarksOfHeaders, p, c

\* A step that ends the tape, or that is no step of a tape, has nothing to say.
LEMMA QuietHeaderInv ==
  ASSUME HeaderInv, file' = file, pc' # "parse", pc' # "tape",
         file.tag = "tap" => pc' \in {"failed", "rejected"}
  PROVE  HeaderInv'
  BY DEF HeaderInv

\* The loaders of snapshots are not at work on a tape.
LEMMA SnapshotHeaderInv ==
  ASSUME HeaderInv, Z80Load \/ SnaLoad
  PROVE  HeaderInv'
  <1>1. file' = file /\ file.tag # "tap"
    BY DEF HeaderInv, Z80Load, Z80Parse, ExpandV1, EndV1, SkipBlock, RawBlock, OpenBlock,
           Expand, CloseBlock, BlocksDone, MoreBlocks, InBlock, SnaLoad
  <1>2. pc' # "parse" /\ pc' # "tape"
    BY <1>1 DEF HeaderInv, Z80Load, Z80Parse, ExpandV1, EndV1, SkipBlock, RawBlock, OpenBlock,
           Expand, CloseBlock, BlocksDone, MoreBlocks, InBlock, SnaLoad, PushByte, PushRun,
           Return
  <1>. QED BY <1>1, <1>2, QuietHeaderInv

\* In front of the first block there is no header and nothing has been said.
LEMMA TapParseHeaderInv ==
  ASSUME IInv, HeaderInv, TapParse
  PROVE  HeaderInv'
  <1>1. /\ file' = file /\ marks' = marks /\ header' = header /\ pc = "parse"
        /\ file.tag = "tap" /\ pos' = 1 /\ pc' \in {"rejected", "failed", "tape"}
    BY DEF TapParse, tape, Return
  <1>2. header = 0 /\ marks = {}
    BY <1>1 DEF HeaderInv
  <1>3. HeaderInFront'
    BY <1>1, <1>2 DEF HeaderInFront
  <1>4. CodeMarks' = {} /\ Entries' = {} /\ \A kinds : HeadersOf(kinds)' = {}
    BY <1>1, <1>2 DEF CodeMarks, Entries, HeadersOf
  <1>5. \A type : Done(type)' = {}
    <2>1. IsTape'
      BY <1>1 DEF IInv, IsTape
    <2>2. \A j \in Spoken' : j \in Nat /\ j >= 2
      <3>1. IsTape => \A j \in Spoken : j \in Nat /\ j >= 2
        BY BlocksOfTape DEF Spoken
      <3>2. IsTape /\ Spoken' = Spoken
        BY <1>1 DEF IInv, IsTape, Spoken, Blocks, IsHeader, Flag
      <3>. QED BY <3>1, <3>2
    <2>. QED BY <1>1, <2>2 DEF Done
  <1>6. MarksOfHeaders'
    <2>1. IsFiniteSet({}) /\ Cardinality({}) = 0
      BY FS_EmptySet
    <2> DEFINE p == Done(Program)
               c == Done(Code)
    <2>2. p' = {} /\ c' = {}
      BY <1>5
    <2>3. /\ HeadersOf({"name"})' = p' /\ HeadersOf({"comment"})' = c'
          /\ HeadersOf({"entry", "function"})' = c'
          /\ IsFiniteSet(CodeMarks') /\ IsFiniteSet(c')
          /\ Cardinality(CodeMarks') = Cardinality(c')
          /\ Cardinality(Entries') <= 1 /\ (Entries' = {} => c' = {})
          /\ \A m \in Entries' : \A h \in c' : m.block <= h
      <3> HIDE DEF p, c
      <3>. QED BY <1>4, <2>1, <2>2
    <2>. QED BY <2>3 DEF MarksOfHeaders
  <1>. QED BY <1>1, <1>3, <1>6 DEF HeaderInv

\* What holds of a block of a tape before it is passed.
LEMMA AtBlock ==
  ASSUME IInv, HeaderInv, InTape
  PROVE  /\ IsTape /\ pc = "tape" /\ pos \in 1..Len(Blocks) /\ Len(Blocks) \in Nat
         /\ HeaderInFront /\ MarksOfHeaders
  <1>1. IsTape /\ pc = "tape" /\ pos \in Nat \ {0} /\ ~AtEnd(pos)
    BY DEF InTape, IInv, OnTape, IsTape
  <1>2. Len(Blocks) \in Nat
    BY <1>1, BlocksOfTape
  <1>3. pos \in 1..Len(Blocks)
    BY <1>1, <1>2 DEF AtEnd
  <1>. QED BY <1>1, <1>2, <1>3 DEF HeaderInv, IsTape

\* Behind a block the header that is kept is that block, or there is none.
LEMMA PassBlockHeaderInv ==
  ASSUME IInv, HeaderInv, InTape, NextBlock, MarksOfHeaders',
         header' = IF IsHeader(pos) THEN pos ELSE 0
  PROVE  HeaderInv'
  <1>1. /\ IsTape /\ pc = "tape" /\ pos \in 1..Len(Blocks) /\ Len(Blocks) \in Nat
    BY AtBlock
  <1>2. pos' = pos + 1 /\ file' = file /\ pc' = pc
    BY DEF NextBlock
  <1>3. HeaderInFront'
    <2>1. pos + 1 # 1 /\ (pos + 1) - 1 = pos
      BY <1>1
    <2>2. pos' - 1 = pos /\ pos' # 1
      BY <1>2, <2>1
    <2>. QED BY <1>2, <2>2 DEF HeaderInFront, IsHeader, Flag, Blocks
  <1>. QED BY <1>1, <1>2, <1>3 DEF HeaderInv, IsTape

\* A header speaks for the block behind it, not for itself.
LEMMA TapHeaderHeaderInv ==
  ASSUME IInv, HeaderInv, TapHeader
  PROVE  HeaderInv'
  <1>1. InTape /\ NextBlock /\ IsHeader(pos) /\ header' = pos /\ marks' = marks
    BY DEF TapHeader
  <1>2. /\ IsTape /\ pos \in 1..Len(Blocks) /\ MarksOfHeaders
        /\ file' = file /\ pos' = pos + 1
    BY <1>1, AtBlock DEF NextBlock
  <1>3. pos \notin Spoken
    BY <1>1 DEF Spoken
  <1>4. \A type : Done(type)' = Done(type)
    <2>1. ASSUME NEW type
          PROVE  Done(type)' = Done(type)
      BY <1>2, <1>3, PassedHeader
    <2>. QED BY <2>1
  <1>5. MarksOfHeaders'
    BY <1>1, <1>2, <1>4, NothingSaid
  <1>. QED BY <1>1, <1>5, PassBlockHeaderInv

\* The program behind its header is named after it.
LEMMA TapProgramHeaderInv ==
  ASSUME IInv, HeaderInv, TapProgram
  PROVE  HeaderInv'
  <1>1. InTape /\ ~IsHeader(pos) /\ HeaderType = Program
    BY DEF TapProgram
  <1>2. /\ IsTape /\ pos \in 1..Len(Blocks) /\ MarksOfHeaders /\ HeaderInFront
        /\ pc = "tape"
    BY <1>1, AtBlock
  <1>3. header = pos - 1 /\ pos \in Spoken /\ Blocks[pos - 1].type = Program
    BY <1>1, <1>2, WhoSpeaks DEF Program
  <1>4. CASE ~(~IsHuge(pos) /\ Start(pos) + 3 + Payload(pos) <= file.size)
    <2>1. pc' = "failed" /\ file' = file
      BY <1>4 DEF TapProgram, Return
    <2>. QED BY <2>1, QuietHeaderInv
  <1>5. CASE ~IsHuge(pos) /\ Start(pos) + 3 + Payload(pos) <= file.size
    <2>1. /\ NextBlock /\ header' = 0
          /\ marks' = marks \cup {Mark("name")}
                            \cup {[Mark("line") EXCEPT !.line = k] : k \in BasicLines}
      BY <1>5 DEF TapProgram, HeaderBehind
    <2>2. file' = file /\ pos' = pos + 1
      BY <2>1 DEF NextBlock
    <2>3. Done(Program)' = Done(Program) \cup {header}
      BY <1>2, <1>3, <2>2, PassedHeader
    <2>4. Done(Code)' = Done(Code)
      <3>1. Blocks[pos - 1].type # Code
        BY <1>3 DEF Program, Code
      <3>. QED BY <1>2, <3>1, <2>2, PassedHeader
    <2>5. MarksOfHeaders'
      <3> DEFINE lines == BasicLines
      <3>1. marks' = marks \cup {Mark("name")}
                           \cup {[Mark("line") EXCEPT !.line = k] : k \in lines}
        BY <2>1
      <3> HIDE DEF lines
      <3>. QED BY <1>2, <2>3, <2>4, <3>1, ProgramSaid
    <2>. QED BY <1>1, <2>1, <2>5, PassBlockHeaderInv
  <1>. QED BY <1>4, <1>5

\* The code behind its header is commented and becomes an entry or a function.
LEMMA TapCodeHeaderInv ==
  ASSUME IInv, HeaderInv, TapCode
  PROVE  HeaderInv'
  <1>1. /\ InTape /\ ~IsHeader(pos) /\ HeaderType = Code /\ NextBlock /\ header' = 0
        /\ marks' = marks \cup {Mark("comment"),
                     Mark(IF \E m \in marks : m.kind = "entry" THEN "function" ELSE "entry")}
    BY DEF TapCode, HeaderBehind
  <1>2. /\ IsTape /\ pos \in 1..Len(Blocks) /\ MarksOfHeaders /\ HeaderInFront
        /\ Len(Blocks) \in Nat /\ file' = file /\ pos' = pos + 1
    BY <1>1, AtBlock DEF NextBlock
  <1>3. header = pos - 1 /\ pos \in Spoken /\ Blocks[pos - 1].type = Code
    BY <1>1, <1>2, WhoSpeaks DEF Code
  <1>4. Done(Code)' = Done(Code) \cup {header}
    BY <1>2, <1>3, PassedHeader
  <1>5. Done(Program)' = Done(Program)
    <2>1. Blocks[pos - 1].type # Program
      BY <1>3 DEF Program, Code
    <2>. QED BY <1>2, <2>1, PassedHeader
  <1>6. header \in Nat /\ \A h \in Done(Code) : h \in Nat /\ h < header
    BY <1>2, <1>3, DoneIsBefore
  <1>7. MarksOfHeaders'
    BY <1>1, <1>2, <1>4, <1>5, <1>6, CodeSaid
  <1>. QED BY <1>1, <1>7, PassBlockHeaderInv

\* Nothing is said of other data, nor of data without a header.
LEMMA TapOtherHeaderInv ==
  ASSUME IInv, HeaderInv, TapOther
  PROVE  HeaderInv'
  <1>1. /\ InTape /\ ~IsHeader(pos) /\ HeaderType \notin {Program, Code} /\ NextBlock
        /\ header' = 0 /\ marks' = marks
    BY DEF TapOther, HeaderBehind
  <1>2. /\ IsTape /\ pos \in 1..Len(Blocks) /\ MarksOfHeaders /\ HeaderInFront
        /\ file' = file /\ pos' = pos + 1
    BY <1>1, AtBlock DEF NextBlock
  <1>3. ~(pos \in Spoken /\ Blocks[pos - 1].type \in {Program, Code})
    BY <1>1, <1>2, WhoSpeaks
  <1>4. Done(Program)' = Done(Program) /\ Done(Code)' = Done(Code)
    BY <1>2, <1>3, PassedHeader
  <1>5. MarksOfHeaders'
    BY <1>1, <1>2, <1>4, NothingSaid
  <1>. QED BY <1>1, <1>5, PassBlockHeaderInv

\* At the end of the list nothing changes but that the tape is loaded.
LEMMA TapDoneHeaderInv ==
  ASSUME HeaderInv, TapDone
  PROVE  HeaderInv'
  <1>1. /\ pc = "tape" /\ pc' = "loaded" /\ file' = file /\ pos' = pos /\ marks' = marks
    BY DEF TapDone, Return
  <1>2. \A type : Done(type)' = Done(type)
    BY <1>1 DEF Done, Spoken, Blocks, IsHeader, Flag
  <1>3. file.tag = "tap" => MarksOfHeaders'
    BY <1>1, <1>2, NothingSaid DEF HeaderInv
  <1>. QED BY <1>1, <1>3 DEF HeaderInv

\* What a block of a tape becomes is decided by the header right in front of it
\* and by no other (tap_load).
THEOREM HeadersSpeakOnce == Spec => []HeadersDescribeNextBlock
  <1>1. Init => HeaderInv
    BY DEF Init, HeaderInv
  <1>2. IInv /\ HeaderInv /\ [Next]_vars => HeaderInv'
    <2>1. ASSUME HeaderInv, UNCHANGED vars
          PROVE  HeaderInv'
      <3>1. UNCHANGED <<file, pc, pos, header, marks>>
        BY <2>1 DEF vars
      <3>2. \A type : Done(type)' = Done(type)
        BY <3>1 DEF Done, Spoken, Blocks, IsHeader, Flag
      <3>3. MarksOfHeaders => MarksOfHeaders'
        BY <3>1, <3>2, NothingSaid
      <3>4. HeaderInFront => HeaderInFront'
        BY <3>1 DEF HeaderInFront, IsHeader, Flag, Blocks
      <3>. QED BY <2>1, <3>1, <3>3, <3>4 DEF HeaderInv
    <2>2. ASSUME IInv, HeaderInv, TapTruncated
          PROVE  HeaderInv'
      BY <2>2, QuietHeaderInv DEF TapTruncated, Return
    <2>. QED BY <2>1, <2>2, SnapshotHeaderInv, TapParseHeaderInv, TapHeaderHeaderInv,
                TapProgramHeaderInv, TapCodeHeaderInv, TapOtherHeaderInv, TapDoneHeaderInv
             DEF Next, Step, TapLoad
  <1>3. HeaderInv => HeadersDescribeNextBlock
    BY Zenon DEF HeaderInv, MarksOfHeaders, HeadersDescribeNextBlock, HeadersOf, CodeMarks,
           Entries, Done, Spoken
  <1>. QED BY <1>1, <1>2, <1>3, InductiveInvariant, PTL DEF Spec

-----------------------------------------------------------------------------
(* Snapshots                                                               *)

IsSnapshot == file.tag = "z80" /\ Z80Parses /\ IsWritten /\ ~IsMistaken

Count(k) == Len(Pieces[k].cuts)

\* A memory that has what the first k pieces hold.
Restored(m, k) ==
  /\ \A x : x \in DOMAIN m <=> \E j \in 1..k : x \in Area(j)
  /\ \A x \in DOMAIN m : m[x] = file.saved[x]

\* A reader at p with the buffer o, in front of the token j of piece k.
AtCut(k, j, p, o) ==
  /\ p = Pieces[k].cuts[j].at
  /\ o \in Seq(Nat)
  /\ Len(o) = Pieces[k].cuts[j].done
  /\ \A i \in 1..Len(o) : o[i] = file.saved[Base(k) + i - 1]

\* Where the loader is in a piece that it expands.
Opened(k) ==
  /\ k \in 1..Len(Pieces) /\ IsKept(k) /\ IsPacked(k)
  /\ Restored(mem, k - 1)
  /\ \E j \in 1..Count(k) : AtCut(k, j, pos, out)

BlockOf(k) ==
  [start |-> Pieces[k].from, len |-> Pieces[k].to - Pieces[k].from, addr |-> Base(k)]

Tracked ==
  /\ pc \in {"parse", "v1", "blocks", "expand", "loaded"}
  /\ pc = "parse" => Restored(mem, 0) /\ out = <<>>
  /\ pc = "v1" => Version = 1 /\ Opened(1)
  /\ pc = "blocks" => /\ Version # 1
                      /\ \E k \in 0..Len(Pieces) : pos = PieceEnd(k) /\ Restored(mem, k)
  /\ pc = "expand" => /\ Version # 1
                      /\ \E k \in 1..Len(Pieces) : Opened(k) /\ block = BlockOf(k)
  /\ pc = "loaded" => Restored(mem, Len(Pieces))

SnapshotInv == file \in Files /\ (IsSnapshot => Tracked)

\* What is assumed of a snapshot that was written.
LEMMA PieceFacts ==
  ASSUME file \in Files, IsSnapshot
  PROVE  /\ file.start \in Nat /\ file.bytes \in Seq(Nat)
         /\ Len(Pieces) \in Nat /\ Size \in Nat
         /\ Version \in {1, 2, 3}
         /\ Body \in Nat /\ file.start <= Body
         /\ Body = IF Version = 1 THEN BaseHeader ELSE BaseHeader + ExtHeader
         /\ Ahead \in Nat
         /\ Span \in Nat /\ Span > 0
         /\ \A k \in 1..Len(Pieces) :
              /\ Pieces[k].from \in Nat /\ Pieces[k].to \in Nat
              /\ Pieces[k].from <= Pieces[k].to /\ Pieces[k].to <= Size
              /\ Pieces[k].from = PieceEnd(k - 1) + Ahead
              /\ Pieces[k].cuts \in Seq([at : Nat, done : Nat])
              /\ Count(k) \in Nat
              /\ Version # 1 => HasHeader(k)
              /\ IsKept(k) => Base(k) \in Nat
              /\ IsKept(k) => IF IsPacked(k) THEN IsCompressed(k) ELSE IsCopied(k)
  <1>1. file.tag = "z80" /\ Z80Parses /\ IsWritten /\ ~IsMistaken
    BY DEF IsSnapshot
  <1>2. /\ file.start \in Nat /\ file.bytes \in Seq(Nat)
        /\ Len(Pieces) \in Nat
        /\ \A k \in 1..Len(Pieces) :
             /\ Pieces[k].from \in Nat /\ Pieces[k].to \in Nat
             /\ Pieces[k].cuts \in Seq([at : Nat, done : Nat])
    BY <1>1, SnapshotsAssumption, Zenon DEF Pieces
  <1>3. Len(file.bytes) \in Nat
    BY <1>2
  <1>4. Size \in Nat
    BY <1>2, <1>3 DEF Size
  <1>5. Version \in {1, 2, 3}
    BY <1>1 DEF Z80Parses, Version
  <1>6. Version = 2 => file.length = 23
    BY DEF Version
  <1>7. Version = 3 => file.length = 54
    BY <1>1 DEF Version, IsMistaken
  <1>8. /\ Body \in Nat
        /\ Body = IF Version = 1 THEN BaseHeader ELSE BaseHeader + ExtHeader
    BY <1>5, <1>6, <1>7 DEF Body, BaseHeader, ExtHeader
  <1>9. Ahead \in Nat /\ Span \in Nat /\ Span > 0
    BY PageSizeAssumption DEF Ahead, Span
  <1>10. file.start <= Body
    BY <1>1 DEF IsWritten
  <1>11. ASSUME NEW k \in 1..Len(Pieces)
         PROVE  /\ Pieces[k].from <= Pieces[k].to /\ Pieces[k].to <= Size
                /\ Pieces[k].from = PieceEnd(k - 1) + Ahead
                /\ Count(k) \in Nat
                /\ Version # 1 => HasHeader(k)
                /\ IsKept(k) => Base(k) \in Nat
                /\ IsKept(k) => IF IsPacked(k) THEN IsCompressed(k) ELSE IsCopied(k)
    <2>1. Count(k) \in Nat
      BY <1>2 DEF Count
    <2>2. IsKept(k) => Base(k) \in Nat
      BY PageSizeAssumption DEF IsKept, Base, HasAddress, PageAddress
    <2>. QED BY <1>1, <2>1, <2>2, Zenon DEF IsWritten
  <1>. QED BY <1>2, <1>4, <1>5, <1>8, <1>9, <1>10, <1>11

-----------------------------------------------------------------------------
\* No piece begins in front of the first byte.
LEMMA PiecesAreBehind ==
  ASSUME file \in Files, IsSnapshot, NEW n \in 0..Len(Pieces)
  PROVE  /\ PieceEnd(n) \in Nat /\ file.start <= PieceEnd(n)
         /\ n > 0 => PieceEnd(n) <= Size /\ file.start <= Pieces[n].from
  <1> DEFINE Bad == {k \in 0..Len(Pieces) : ~(PieceEnd(k) \in Nat /\ file.start <= PieceEnd(k))}
  <1>1. Len(Pieces) \in Nat /\ file.start \in Nat
    BY PieceFacts, Zenon
  <1>2. ASSUME NEW k \in 0..Len(Pieces), k # 0, k - 1 \notin Bad
        PROVE  /\ k \notin Bad
               /\ PieceEnd(k) <= Size /\ file.start <= Pieces[k].from
    <2>1. k \in 1..Len(Pieces) /\ k - 1 \in 0..Len(Pieces)
      BY <1>1, <1>2
    <2>2. PieceEnd(k - 1) \in Nat /\ file.start <= PieceEnd(k - 1)
      BY <1>2, <2>1
    <2>3. /\ Pieces[k].from \in Nat /\ Pieces[k].to \in Nat
          /\ Pieces[k].from <= Pieces[k].to /\ Pieces[k].to <= Size
          /\ Pieces[k].from = PieceEnd(k - 1) + Ahead
          /\ Ahead \in Nat
      BY <2>1, PieceFacts, Zenon
    <2>4. PieceEnd(k) = Pieces[k].to
      BY <1>2 DEF PieceEnd
    <2>. QED BY <1>1, <2>2, <2>3, <2>4
  <1>3. 0 \notin Bad
    BY PieceFacts DEF PieceEnd
  <1> HIDE DEF Bad
  <1>4. Bad = {}
    <2>1. SUFFICES ASSUME Bad # {} PROVE FALSE
      OBVIOUS
    <2>2. Bad \in SUBSET Nat
      BY <1>1 DEF Bad
    <2>3. PICK x \in Bad : \A y \in Bad : x <= y
      BY <2>1, <2>2, LeastNumber, Zenon
    <2>4. x \in 0..Len(Pieces) /\ x # 0
      BY <1>3, <2>3 DEF Bad
    <2>5. x - 1 \notin Bad
      BY <1>1, <2>3, <2>4
    <2>. QED BY <1>2, <2>3, <2>4, <2>5
  <1>5. n \notin Bad /\ (n # 0 => n - 1 \notin Bad)
    BY <1>4
  <1>. QED BY <1>1, <1>2, <1>5 DEF Bad

\* What is read between the first byte and the last is a number.
LEMMA ByteIsNumber ==
  ASSUME file \in Files, IsSnapshot, NEW p \in Nat, file.start <= p, p < Size
  PROVE  Byte(p) \in Nat
  <1>1. file.start \in Nat /\ file.bytes \in Seq(Nat)
    BY PieceFacts, Zenon
  <1>2. p - file.start + 1 \in 1..Len(file.bytes)
    BY <1>1 DEF Size
  <1>. QED BY <1>1, <1>2, SMTT(30) DEF Byte

-----------------------------------------------------------------------------
\* The cuts of a piece that is compressed.
LEMMA CutFacts ==
  ASSUME file \in Files, IsSnapshot, NEW k \in 1..Len(Pieces), IsKept(k), IsPacked(k)
  PROVE  /\ Count(k) \in Nat /\ Count(k) > 0
         /\ Pieces[k].cuts[1].at = Pieces[k].from /\ Pieces[k].cuts[1].done = 0
         /\ Pieces[k].cuts[Count(k)].at = Pieces[k].to
         /\ Pieces[k].cuts[Count(k)].done = Span
         /\ \A j \in 1..Count(k) :
              /\ Pieces[k].cuts[j].at \in Nat /\ Pieces[k].cuts[j].done \in Nat
              /\ Pieces[k].from <= Pieces[k].cuts[j].at /\ Pieces[k].cuts[j].at <= Pieces[k].to
              /\ Pieces[k].cuts[j].done <= Span
         /\ \A j \in 1..(Count(k) - 1) :
              \/ IsSingle(k, Pieces[k].cuts[j], Pieces[k].cuts[j + 1])
              \/ IsRepeated(k, Pieces[k].cuts[j], Pieces[k].cuts[j + 1])
  <1>1. /\ IsCompressed(k) /\ Span \in Nat
        /\ Pieces[k].from \in Nat /\ Pieces[k].to \in Nat
        /\ Pieces[k].cuts \in Seq([at : Nat, done : Nat])
    BY PieceFacts, Zenon
  <1> DEFINE cuts == Pieces[k].cuts
             n == Len(cuts)
  <1>2. /\ n > 0
        /\ cuts[1] = [at |-> Pieces[k].from, done |-> 0]
        /\ cuts[n] = [at |-> Pieces[k].to, done |-> Span]
        /\ \A j \in 1..n : cuts[j].at \in Pieces[k].from..Pieces[k].to /\ cuts[j].done \in 0..Span
        /\ \A j \in 1..(n - 1) : IsSingle(k, cuts[j], cuts[j + 1]) \/ IsRepeated(k, cuts[j], cuts[j + 1])
    BY <1>1 DEF IsCompressed
  <1>3. n \in Nat /\ Count(k) = n
    BY <1>1 DEF Count
  <1>5. cuts[1].at = Pieces[k].from /\ cuts[1].done = 0 /\ cuts[n].at = Pieces[k].to /\ cuts[n].done = Span
    BY <1>2
  <1> HIDE DEF cuts, n
  <1>4. ASSUME NEW j \in 1..n
        PROVE  /\ cuts[j].at \in Nat /\ cuts[j].done \in Nat
               /\ Pieces[k].from <= cuts[j].at /\ cuts[j].at <= Pieces[k].to
               /\ cuts[j].done <= Span
    BY <1>1, <1>2
  <1>6. /\ Count(k) \in Nat /\ Count(k) > 0
        /\ cuts[1].at = Pieces[k].from /\ cuts[1].done = 0
        /\ cuts[Count(k)].at = Pieces[k].to /\ cuts[Count(k)].done = Span
    BY <1>2, <1>3, <1>5
  <1>7. \A j \in 1..Count(k) :
              /\ cuts[j].at \in Nat /\ cuts[j].done \in Nat
              /\ Pieces[k].from <= cuts[j].at /\ cuts[j].at <= Pieces[k].to
              /\ cuts[j].done <= Span
    BY <1>3, <1>4, Zenon
  <1>8. \A j \in 1..(Count(k) - 1) :
              IsSingle(k, cuts[j], cuts[j + 1]) \/ IsRepeated(k, cuts[j], cuts[j + 1])
    BY <1>2, <1>3, Zenon
  <1>. QED BY <1>6, <1>7, <1>8, Zenon DEF cuts

\* What is behind a single ED that ends its piece is not an ED.
LEMMA LastIsSingle ==
  ASSUME file \in Files, IsSnapshot, NEW k \in 1..Len(Pieces), IsKept(k), IsPacked(k),
         NEW j \in 1..(Count(k) - 1),
         Pieces[k].cuts[j].at = Pieces[k].to - 1, Byte(Pieces[k].to - 1) = ED,
         CanRead(Pieces[k].to)
  PROVE  Byte(Pieces[k].to) # ED
  <1>1. /\ IsWritten /\ ~IsMistaken
        /\ Len(Pieces) \in Nat
        /\ Pieces[k].to \in Nat /\ Size \in Nat
    BY PieceFacts, Zenon DEF IsSnapshot
  <1> DEFINE cuts == Pieces[k].cuts
             n == Count(k)
  <1>2. n \in Nat /\ cuts[n].at = Pieces[k].to
    BY CutFacts, Zenon
  <1>3. \A i \in 1..n : cuts[i].at \in Nat /\ cuts[i].at <= Pieces[k].to
    BY CutFacts, Zenon
  <1>4. \A i \in 1..(n - 1) : cuts[i + 1].at > cuts[i].at
    <2>1. ASSUME NEW i \in 1..(n - 1)
          PROVE  cuts[i + 1].at > cuts[i].at
      <3>1. IsSingle(k, cuts[i], cuts[i + 1]) \/ IsRepeated(k, cuts[i], cuts[i + 1])
        BY CutFacts, Zenon
      <3>2. cuts[i].at \in Nat
        BY <1>2, <1>3
      <3>. QED BY <3>1, <3>2 DEF IsSingle, IsRepeated
    <2>. QED BY <2>1
  <1>5. j = n - 1
    <2>1. SUFFICES ASSUME j + 1 < n PROVE FALSE
      BY <1>2
    <2>2. j + 1 \in 1..(n - 1) /\ j \in 1..(n - 1) /\ j + 1 + 1 \in 1..n /\ j + 1 \in 1..n /\ j \in 1..n
      BY <1>2, <2>1
    <2> DEFINE b == j + 1
               c == b + 1
    <2>3. cuts[b].at > cuts[j].at /\ cuts[c].at > cuts[b].at /\ cuts[c].at <= Pieces[k].to
          /\ cuts[j].at \in Nat /\ cuts[b].at \in Nat /\ cuts[c].at \in Nat
          /\ cuts[j].at = Pieces[k].to - 1
      BY <1>3, <1>4, <2>2
    <2> HIDE DEF b, c, cuts
    <2>. QED BY <2>3, <1>1, SMTT(30)
  <1>6. CASE Version = 1
    <2>a. Len(Pieces) = 1 /\ IsMarker(Pieces[1].to)
      BY <1>1, <1>6, Zenon DEF IsWritten
    <2>1. k = 1 /\ IsMarker(Pieces[1].to)
      BY <2>a
    <2>. QED BY <2>1 DEF IsMarker, ED
  <1>7. CASE Version # 1
    <2>1. k < Len(Pieces)
      <3>1. SUFFICES ASSUME k = Len(Pieces) PROVE FALSE
        BY <1>1
      <3>2. Pieces[k].to = Size
        BY <1>1, <1>7, <3>1 DEF IsWritten, PieceEnd
      <3>. QED BY <3>2, <1>1 DEF CanRead
    <2>2. k \in 1..(Len(Pieces) - 1)
      BY <1>1, <2>1
    <2>3. Len(cuts) = n /\ n > 1 /\ Pieces[k].cuts[Len(Pieces[k].cuts) - 1].at = Pieces[k].to - 1
      BY <1>2, <1>5 DEF Count
    <2>. QED BY <1>1, <2>2, <2>3 DEF IsMistaken
  <1>. QED BY <1>6, <1>7

\* What the loader sees in front of a token: a run exactly if one was written.
IsSeen(k, c, d) ==
  /\ c.at \in Nat /\ c.done \in Nat /\ CanRead(c.at) /\ Byte(c.at) \in Nat
  /\ c.at < Pieces[k].to /\ c.done < Span
  /\ IF IsRun(c.at)
     THEN RunThere(c.at) /\ Byte(c.at + 2) \in Nat /\ Byte(c.at + 3) \in Nat
          /\ IsRepeated(k, c, d)
     ELSE IsSingle(k, c, d)

\* Every token of a snapshot that was written is seen for what it is.
LEMMA TokenIsSeen ==
  ASSUME file \in Files, IsSnapshot, NEW k \in 1..Len(Pieces), IsKept(k), IsPacked(k),
         NEW j \in 1..(Count(k) - 1)
  PROVE  IsSeen(k, Pieces[k].cuts[j], Pieces[k].cuts[j + 1])
  <1> DEFINE c == Pieces[k].cuts[j]
             d == Pieces[k].cuts[j + 1]
  <1>1. /\ Count(k) \in Nat
        /\ \A i \in 1..Count(k) :
              /\ Pieces[k].cuts[i].at \in Nat /\ Pieces[k].cuts[i].done \in Nat
              /\ Pieces[k].from <= Pieces[k].cuts[i].at /\ Pieces[k].cuts[i].at <= Pieces[k].to
              /\ Pieces[k].cuts[i].done <= Span
    BY CutFacts, Zenon
  <1>2. j \in 1..Count(k) /\ j + 1 \in 1..Count(k)
    BY <1>1
  <1>3. /\ c.at \in Nat /\ c.done \in Nat /\ d.at \in Nat /\ d.done \in Nat
        /\ Pieces[k].from <= c.at /\ c.at <= Pieces[k].to
        /\ d.at <= Pieces[k].to /\ d.done <= Span
    BY <1>1, <1>2, Zenon
  <1>4. IsSingle(k, c, d) \/ IsRepeated(k, c, d)
    BY CutFacts, Zenon
  <1>a. Byte(c.at) = ED => ~(c.at = Pieces[k].to - 1 /\ CanRead(Pieces[k].to) /\ Byte(Pieces[k].to) = ED)
    BY LastIsSingle
  <1> HIDE DEF c, d
  <1>5. /\ Pieces[k].to \in Nat /\ Pieces[k].from \in Nat /\ Size \in Nat /\ Span \in Nat
        /\ Pieces[k].to <= Size
    BY PieceFacts, Zenon
  <1>6. file.start \in Nat /\ file.start <= Pieces[k].from
    <2>1. k \in 0..Len(Pieces) /\ k > 0
      OBVIOUS
    <2>. QED BY <2>1, PiecesAreBehind, PieceFacts, Zenon
  <1>7. ASSUME NEW p \in Nat, c.at <= p, p < d.at
        PROVE  CanRead(p) /\ Byte(p) \in Nat
    <2>1. p < Size /\ file.start <= p
      BY <1>3, <1>5, <1>6, <1>7, SMTT(30)
    <2>. QED BY <2>1, ByteIsNumber DEF CanRead
  <1>8. ASSUME IsRepeated(k, c, d)
        PROVE  IsSeen(k, c, d)
    <2>1. Byte(c.at) = ED /\ Byte(c.at + 1) = ED /\ Byte(c.at + 2) > 0
          /\ d.at = c.at + 4 /\ d.done = c.done + Byte(c.at + 2)
      BY <1>8 DEF IsRepeated
    <2>2. CanRead(c.at) /\ Byte(c.at) \in Nat
      BY <1>3, <1>7, <2>1, SMTT(30)
    <2>3. CanRead(c.at + 1)
      BY <1>3, <1>7, <2>1, SMTT(30)
    <2>4. Byte(c.at + 2) \in Nat
      BY <1>3, <1>7, <2>1, SMTT(30)
    <2>5. CanRead(c.at + 3) /\ Byte(c.at + 3) \in Nat
      <3>1. c.at + 3 \in Nat /\ c.at <= c.at + 3 /\ c.at + 3 < d.at
        BY <1>3, <2>1, SMTT(30)
      <3>. QED BY <1>7, <3>1
    <2>6. c.at < Pieces[k].to
      BY <1>3, <1>5, <2>1, SMTT(30)
    <2>7. c.done < Span
      BY <1>3, <1>5, <2>1, <2>4
    <2>8. IsRun(c.at) /\ RunThere(c.at)
      BY <2>1, <2>3, <2>5 DEF IsRun, RunThere
    <2>. QED BY <1>3, <1>8, <2>2, <2>4, <2>5, <2>6, <2>7, <2>8, Zenon DEF IsSeen
  <1>9. ASSUME IsSingle(k, c, d)
        PROVE  IsSeen(k, c, d)
    <2>1. /\ d.at = c.at + 1 /\ d.done = c.done + 1
          /\ Byte(c.at) = ED /\ d.at < Pieces[k].to => Byte(d.at) # ED
      BY <1>9 DEF IsSingle
    <2>2. CanRead(c.at) /\ Byte(c.at) \in Nat
      BY <1>3, <1>7, <2>1
    <2>3. c.at < Pieces[k].to /\ c.done < Span
      BY <1>3, <1>5, <2>1
    <2>4. ~IsRun(c.at)
      <3>1. SUFFICES ASSUME Byte(c.at) = ED, CanRead(c.at + 1), Byte(c.at + 1) = ED PROVE FALSE
        BY DEF IsRun
      <3>2. ~(d.at < Pieces[k].to)
        BY <2>1, <3>1
      <3>3. d.at = Pieces[k].to /\ c.at = Pieces[k].to - 1 /\ c.at + 1 = Pieces[k].to
        BY <1>3, <1>5, <2>1, <3>2, SMTT(30)
      <3>. QED BY <1>a, <3>1, <3>3
    <2>. QED BY <1>3, <1>9, <2>2, <2>3, <2>4, Zenon DEF IsSeen
  <1>. QED BY <1>4, <1>8, <1>9, Zenon DEF c, d

\* Where the elements of a sequence are when another one is put behind it.
LEMMA JoinedFacts ==
  ASSUME NEW s \in Seq(Nat), NEW r \in Seq(Nat)
  PROVE  /\ s \o r \in Seq(Nat) /\ Len(s \o r) = Len(s) + Len(r)
         /\ \A i \in 1..Len(s) : (s \o r)[i] = s[i]
         /\ \A i \in 1..Len(r) : (s \o r)[Len(s) + i] = r[i]
  OBVIOUS

\* A turn of the expansion takes the loader from one token to the next.
LEMMA TokenIsExpanded ==
  ASSUME file \in Files, IsSnapshot, NEW k \in 1..Len(Pieces), IsKept(k), IsPacked(k),
         NEW j \in 1..(Count(k) - 1), AtCut(k, j, pos, out),
         IF IsRun(pos) THEN PushRun(pos) ELSE PushByte(pos)
  PROVE  AtCut(k, j + 1, pos', out') /\ pc' = pc
  <1> DEFINE c == Pieces[k].cuts[j]
             d == Pieces[k].cuts[j + 1]
  <1>1. IsSeen(k, c, d)
    BY TokenIsSeen
  <1>2. /\ pos = c.at /\ out \in Seq(Nat) /\ Len(out) = c.done
        /\ \A i \in 1..Len(out) : out[i] = file.saved[Base(k) + i - 1]
    BY DEF AtCut
  <1>3. Base(k) \in Nat
    BY PieceFacts, Zenon
  <1>4. SUFFICES /\ pos' = d.at /\ out' \in Seq(Nat) /\ Len(out') = d.done
                 /\ \A i \in 1..Len(out') : out'[i] = file.saved[Base(k) + i - 1]
                 /\ pc' = pc
    BY Zenon DEF AtCut
  <1> HIDE DEF c, d
  <1>5. c.at \in Nat /\ c.done \in Nat /\ Byte(c.at) \in Nat
    BY <1>1 DEF IsSeen
  <1>6. CASE ~IsRun(pos)
    <2>1. out' = Append(out, Byte(pos)) /\ pos' = pos + 1 /\ pc' = pc
      BY <1>6 DEF PushByte
    <2>2. /\ d.at = c.at + 1 /\ d.done = c.done + 1
          /\ Byte(c.at) = file.saved[Base(k) + c.done]
      BY <1>1, <1>2, <1>6 DEF IsSeen, IsSingle
    <2>3. out' \in Seq(Nat) /\ Len(out') = d.done
      <3> DEFINE v == Byte(pos)
      <3>1. v \in Nat
        BY <1>2, <1>5
      <3> HIDE DEF v
      <3>2. out' = Append(out, v)
        BY <2>1 DEF v
      <3>3. Append(out, v) \in Seq(Nat) /\ Len(Append(out, v)) = Len(out) + 1
        BY <1>2, <3>1
      <3>. QED BY <1>2, <2>2, <3>2, <3>3
    <2>4. ASSUME NEW i \in 1..Len(out')
          PROVE  out'[i] = file.saved[Base(k) + i - 1]
      <3>1. CASE i \in 1..Len(out)
        BY <1>2, <1>5, <2>1, <3>1
      <3>2. CASE i \notin 1..Len(out)
        <4>1. i = Len(out) + 1
          BY <1>2, <1>5, <2>2, <2>3, <3>2
        <4>2. out'[i] = Byte(c.at)
          BY <1>2, <2>1, <4>1
        <4>3. Base(k) + i - 1 = Base(k) + c.done
          BY <1>2, <1>3, <1>5, <4>1
        <4>. QED BY <2>2, <4>2, <4>3
      <3>. QED BY <3>1, <3>2
    <2>. QED BY <1>2, <2>1, <2>2, <2>3, <2>4
  <1>7. CASE IsRun(pos)
    <2>1. /\ RunThere(c.at) /\ Byte(c.at + 2) \in Nat /\ Byte(c.at + 3) \in Nat
          /\ d.at = c.at + 4 /\ d.done = c.done + Byte(c.at + 2)
          /\ \A i \in c.done..(d.done - 1) : Byte(c.at + 3) = file.saved[Base(k) + i]
      BY <1>1, <1>2, <1>7, Zenon DEF IsSeen, IsRepeated
    <2>2. out' = out \o Run(pos) /\ pos' = pos + 4 /\ pc' = pc
      BY <1>2, <1>7, <2>1 DEF PushRun
    <2> DEFINE n == Byte(c.at + 2)
               v == Byte(c.at + 3)
    <2>3. Run(pos) = [i \in 1..n |-> v]
      BY <1>2 DEF Run
    <2>a. n \in Nat /\ v \in Nat /\ d.done = c.done + n
      BY <2>1
    <2>b. \A i \in c.done..(d.done - 1) : v = file.saved[Base(k) + i]
      BY <2>1
    <2> HIDE DEF n, v
    <2>4. Run(pos) \in Seq(Nat) /\ Len(Run(pos)) = n /\ \A i \in 1..n : Run(pos)[i] = v
      BY <2>3, <2>a
    <2> DEFINE r == Run(pos)
    <2> HIDE DEF r
    <2>c. r \in Seq(Nat) /\ Len(r) = n /\ (\A i \in 1..n : r[i] = v) /\ out' = out \o r
      BY <2>4, <2>2 DEF r
    <2>5. out' \in Seq(Nat) /\ Len(out') = d.done
      <3>1. out \o r \in Seq(Nat) /\ Len(out \o r) = Len(out) + Len(r)
        BY <1>2, <2>c, JoinedFacts
      <3>. QED BY <1>2, <2>a, <2>c, <3>1
    <2>6. ASSUME NEW i \in 1..Len(out')
          PROVE  out'[i] = file.saved[Base(k) + i - 1]
      <3>1. CASE i \in 1..Len(out)
        BY <1>2, <1>5, <2>c, <3>1
      <3>2. CASE i \notin 1..Len(out)
        <4>5. Len(out) = c.done
          BY <1>2
        <4>6. Len(out') = c.done + n
          BY <2>5, <2>a
        <4>7. i \in 1..(c.done + n) /\ i \notin 1..c.done
          BY <3>2, <4>5, <4>6
        <4>8. i \in Nat /\ i > c.done /\ i <= c.done + n
          BY <1>5, <2>a, <4>7
        <4>1. i - c.done \in 1..n /\ i \in Nat /\ i > Len(out)
          BY <1>5, <2>a, <4>5, <4>8
        <4>2. out'[i] = r[i - c.done]
          BY <1>2, <1>5, <2>a, <2>c, <4>1, SMTT(30)
        <4>3. i - 1 \in c.done..(d.done - 1) /\ Base(k) + (i - 1) = Base(k) + i - 1
          BY <1>3, <1>5, <2>a, <4>1, SMTT(30)
        <4>4. v = file.saved[Base(k) + (i - 1)]
          BY <2>b, <4>3
        <4>. QED BY <2>c, <4>1, <4>2, <4>3, <4>4
      <3>. QED BY <3>1, <3>2
    <2>. QED BY <1>2, <2>1, <2>2, <2>5, <2>6
  <1>. QED BY <1>6, <1>7

\* No token of version 1 looks like the end marker.
LEMMA NoMarker ==
  ASSUME file \in Files, IsSnapshot, Version = 1, NEW j \in 1..(Count(1) - 1)
  PROVE  ~IsMarker(Pieces[1].cuts[j].at)
  <1>1. IsKept(1) /\ IsPacked(1)
    BY DEF IsKept, IsPacked
  <1>2. Len(Pieces) = 1 /\ IsMarker(Pieces[1].to)
    BY Zenon DEF IsSnapshot, IsWritten
  <1>3. 1 \in 1..Len(Pieces) /\ Byte(Pieces[1].to) = 0
    BY <1>2 DEF IsMarker
  <1> DEFINE cuts == Pieces[1].cuts
             n == Count(1)
             to == Pieces[1].to
  <1>4. /\ n \in Nat /\ to \in Nat
        /\ cuts[n].at = to
        /\ \A i \in 1..n : cuts[i].at \in Nat /\ cuts[i].at <= to
        /\ \A i \in 1..(n - 1) : IsSingle(1, cuts[i], cuts[i + 1]) \/ IsRepeated(1, cuts[i], cuts[i + 1])
    BY <1>1, <1>3, CutFacts, PieceFacts, Zenon
  <1>5. \A c, d : IsSingle(1, c, d) =>
          d.at = c.at + 1 /\ (Byte(c.at) = ED /\ d.at < to => Byte(d.at) # ED)
    BY DEF IsSingle
  <1>6. \A c, d : IsRepeated(1, c, d) => Byte(c.at) = ED /\ Byte(c.at + 2) > 0
    BY DEF IsRepeated
  <1>7. Byte(to) # ED
    BY <1>3 DEF ED
  <1> HIDE DEF cuts, n, to
  <1>8. SUFFICES ASSUME IsMarker(cuts[j].at) PROVE FALSE
    BY DEF cuts
  <1> DEFINE p == cuts[j].at
  <1>9. Byte(p) = 0 /\ Byte(p + 1) = ED /\ Byte(p + 2) = ED /\ Byte(p + 3) = 0 /\ p \in Nat
    BY <1>4, <1>8 DEF IsMarker, n
  <1>10. j \in 1..(n - 1)
    BY DEF n
  <1>11. IsSingle(1, cuts[j], cuts[j + 1])
    <2>1. Byte(cuts[j].at) # ED
      BY <1>9 DEF ED
    <2>. QED BY <1>4, <1>6, <1>10, <2>1, Zenon
  <1>12. cuts[j + 1].at = p + 1
    BY <1>5, <1>11
  <1> HIDE DEF p
  <1>13. CASE j + 1 = n
    BY <1>4, <1>7, <1>9, <1>12, <1>13
  <1>14. CASE j + 1 # n
    <2> DEFINE b == j + 1
    <2>1. b \in 1..(n - 1) /\ b + 1 \in 1..n
      BY <1>4, <1>10, <1>14
    <2>2. cuts[b].at = p + 1
      BY <1>12
    <2> HIDE DEF b
    <2>3. CASE IsSingle(1, cuts[b], cuts[b + 1])
      <3>1. cuts[b + 1].at = p + 2 /\ ~(cuts[b + 1].at < to)
        BY <1>5, <1>9, <2>2, <2>3
      <3>2. cuts[b + 1].at = to
        BY <1>4, <2>1, <3>1
      <3>. QED BY <1>7, <1>9, <3>1, <3>2
    <2>4. CASE IsRepeated(1, cuts[b], cuts[b + 1])
      <3>1. Byte(p + 1 + 2) > 0 /\ p + 1 + 2 = p + 3
        BY <1>6, <1>9, <2>2, <2>4
      <3>. QED BY <1>9, <3>1
    <2>. QED BY <1>4, <2>1, <2>3, <2>4
  <1>. QED BY <1>13, <1>14

\* Writing its bytes restores one piece more.
LEMMA PieceIsWritten ==
  ASSUME file \in Files, IsSnapshot, NEW k \in 1..Len(Pieces), IsKept(k), Restored(mem, k - 1),
         NEW bytes, Len(bytes) = Span,
         \A i \in 1..Span : bytes[i] = file.saved[Base(k) + i - 1]
  PROVE  Restored(Write(Base(k), bytes), k)
  <1> DEFINE b == Base(k)
             w == Write(b, bytes)
  <1>1. b \in Nat /\ Span \in Nat /\ Len(Pieces) \in Nat
    BY PieceFacts, Zenon
  <1>2. w = [x \in DOMAIN mem \cup b..(b + Span - 1) |->
               IF x \in b..(b + Span - 1) THEN bytes[x - b + 1] ELSE mem[x]]
    BY DEF Write
  <1>3. Area(k) = b..(b + Span - 1)
    BY DEF Area
  <1>4. /\ \A x : x \in DOMAIN mem <=> \E j \in 1..(k - 1) : x \in Area(j)
        /\ \A x \in DOMAIN mem : mem[x] = file.saved[x]
    BY DEF Restored
  <1>5. DOMAIN w = DOMAIN mem \cup Area(k)
    BY <1>2, <1>3
  <1>6. \A x : x \in DOMAIN w <=> \E j \in 1..k : x \in Area(j)
    <2>1. \A j : j \in 1..k <=> j \in 1..(k - 1) \/ j = k
      BY <1>1
    <2>. QED BY <1>4, <1>5, <2>1, Zenon
  <1>7. ASSUME NEW x \in DOMAIN w
        PROVE  w[x] = file.saved[x]
    <2>1. CASE x \in b..(b + Span - 1)
      <3>1. w[x] = bytes[x - b + 1]
        BY <1>2, <2>1
      <3>2. x - b + 1 \in 1..Span /\ b + (x - b + 1) - 1 = x
        BY <1>1, <2>1
      <3>3. bytes[x - b + 1] = file.saved[b + (x - b + 1) - 1]
        BY <3>2
      <3>. QED BY <3>1, <3>2, <3>3
    <2>2. CASE x \notin b..(b + Span - 1)
      <3>1. x \in DOMAIN mem /\ w[x] = mem[x]
        BY <1>2, <1>5, <1>3, <2>2
      <3>. QED BY <1>4, <3>1
    <2>. QED BY <2>1, <2>2
  <1>. QED BY <1>6, <1>7 DEF Restored

\* What is said of a file stays true of it.
LEMMA FileStays ==
  ASSUME file' = file
  PROVE  /\ IsSnapshot' = IsSnapshot /\ Version' = Version /\ Pieces' = Pieces
         /\ \A k : PieceEnd(k)' = PieceEnd(k)
         /\ \A k : IsKept(k)' = IsKept(k)
         /\ \A k : IsPacked(k)' = IsPacked(k)
         /\ \A k : Base(k)' = Base(k)
         /\ \A k : Area(k)' = Area(k)
         /\ \A k : Count(k)' = Count(k)
  <1>1. Version' = Version /\ Pieces' = Pieces /\ Size' = Size
    BY Zenon DEF Version, Pieces, Size
  <1>2. \A p : Byte(p)' = Byte(p)
    BY Zenon DEF Byte
  <1>3. \A p : CanRead(p)' = CanRead(p)
    BY <1>1, Zenon DEF CanRead
  <1>4. \A p : IsMarker(p)' = IsMarker(p)
    BY <1>2, <1>3, Zenon DEF IsMarker
  <1>5. Body' = Body /\ Ahead' = Ahead /\ Span' = Span
    BY <1>1, Zenon DEF Body, Ahead, Span
  <1>6. \A k : PieceEnd(k)' = PieceEnd(k)
    BY <1>1, <1>5, Zenon DEF PieceEnd
  <1>7. \A k : IsKept(k)' = IsKept(k)
    BY <1>1, Zenon DEF IsKept
  <1>8. \A k : IsPacked(k)' = IsPacked(k)
    BY <1>1, Zenon DEF IsPacked
  <1>9. \A k : Base(k)' = Base(k)
    BY <1>1, Zenon DEF Base
  <1>10. \A k : Area(k)' = Area(k)
    BY <1>5, <1>7, <1>9, Zenon DEF Area
  <1>11. \A k, c, d : IsSingle(k, c, d)' = IsSingle(k, c, d)
    BY <1>1, <1>2, <1>9, Zenon DEF IsSingle
  <1>12. \A k, c, d : IsRepeated(k, c, d)' = IsRepeated(k, c, d)
    BY <1>2, <1>9, ZenonT(30) DEF IsRepeated
  <1>13. \A k : IsCompressed(k)' = IsCompressed(k)
    BY <1>1, <1>5, <1>11, <1>12, Zenon DEF IsCompressed
  <1>14. \A k : IsCopied(k)' = IsCopied(k)
    BY <1>1, <1>2, <1>9, Zenon DEF IsCopied
  <1>15. \A k : HasHeader(k)' = HasHeader(k)
    BY <1>1, <1>2, <1>8 DEF HasHeader
  <1>16. IsWritten' = IsWritten
    BY <1>1, <1>4, <1>5, <1>6, <1>7, <1>8, <1>10, <1>13, <1>14, <1>15, Zenon DEF IsWritten
  <1>17. IsMistaken' = IsMistaken
    BY <1>1, <1>2, <1>7, Zenon DEF IsMistaken
  <1>18. Z80Parses' = Z80Parses
    BY <1>1, Zenon DEF Z80Parses
  <1>19. IsSnapshot' = IsSnapshot
    BY <1>16, <1>17, <1>18, Zenon DEF IsSnapshot
  <1>20. \A k : Count(k)' = Count(k)
    BY <1>1, Zenon DEF Count
  <1>. QED BY <1>1, <1>6, <1>7, <1>8, <1>9, <1>10, <1>19, <1>20, Zenon

\* So do the pieces that have been restored, if the memory has them.
LEMMA RestoredThen ==
  ASSUME file' = file, NEW k, Restored(mem', k)
  PROVE  Restored(mem, k)'
  <1>1. \A j : Area(j)' = Area(j)
    BY FileStays, Zenon
  <1>. QED BY <1>1, Zenon DEF Restored

\* And where the loader is in a piece.
LEMMA OpenedThen ==
  ASSUME file' = file, NEW k \in 1..Len(Pieces), IsKept(k), IsPacked(k), Restored(mem', k - 1),
         NEW j \in 1..Count(k), AtCut(k, j, pos', out')
  PROVE  Opened(k)'
  <1>1. /\ Pieces' = Pieces /\ IsKept(k)' /\ IsPacked(k)' /\ Count(k)' = Count(k)
        /\ Base(k)' = Base(k)
    BY FileStays, Zenon
  <1>2. Restored(mem, k - 1)'
    BY RestoredThen
  <1>3. AtCut(k, j, pos, out)'
    BY <1>1, Zenon DEF AtCut
  <1>. QED BY <1>1, <1>2, <1>3, Zenon DEF Opened

\* A turn inside a piece that is not over keeps the loader in it.
LEMMA OpenedGoesOn ==
  ASSUME file \in Files, IsSnapshot, NEW k, Opened(k), UNCHANGED <<file, mem>>,
         pos # Pieces[k].to \/ Len(out) # Span,
         IF IsRun(pos) THEN PushRun(pos) ELSE PushByte(pos)
  PROVE  Opened(k)' /\ pc' = pc
  <1>1. /\ k \in 1..Len(Pieces) /\ IsKept(k) /\ IsPacked(k) /\ Restored(mem, k - 1)
    BY DEF Opened
  <1>2. PICK j \in 1..Count(k) : AtCut(k, j, pos, out)
    BY DEF Opened
  <1>3. /\ Count(k) \in Nat
        /\ Pieces[k].cuts[Count(k)].at = Pieces[k].to
        /\ Pieces[k].cuts[Count(k)].done = Span
    BY <1>1, CutFacts, Zenon
  <1>4. j # Count(k)
    BY <1>2, <1>3 DEF AtCut
  <1>5. j \in 1..(Count(k) - 1) /\ j + 1 \in 1..Count(k)
    BY <1>3, <1>4
  <1>6. AtCut(k, j + 1, pos', out') /\ pc' = pc
    BY <1>1, <1>2, <1>5, TokenIsExpanded
  <1>7. Restored(mem', k - 1)
    BY <1>1
  <1>. QED BY <1>1, <1>5, <1>6, <1>7, OpenedThen

\* In front of its first token a piece is open.
LEMMA FirstToken ==
  ASSUME file \in Files, IsSnapshot, NEW k \in 1..Len(Pieces), IsKept(k), IsPacked(k),
         file' = file, Restored(mem', k - 1), pos' = Pieces[k].from, out' = <<>>
  PROVE  Opened(k)'
  <1>1. Count(k) \in Nat /\ Count(k) > 0 /\ Pieces[k].cuts[1].at = Pieces[k].from
        /\ Pieces[k].cuts[1].done = 0
    BY CutFacts, Zenon
  <1>2. 1 \in 1..Count(k)
    BY <1>1
  <1>3. AtCut(k, 1, pos', out')
    BY <1>1 DEF AtCut
  <1>. QED BY <1>2, <1>3, OpenedThen

\* When a piece is over all of it is there.
LEMMA OpenedEnds ==
  ASSUME file \in Files, IsSnapshot, NEW k, Opened(k), pos = Pieces[k].to \/ Len(out) = Span
  PROVE  /\ pos = Pieces[k].to /\ Len(out) = Span
         /\ \A i \in 1..Span : out[i] = file.saved[Base(k) + i - 1]
  <1>1. /\ k \in 1..Len(Pieces) /\ IsKept(k) /\ IsPacked(k) /\ Restored(mem, k - 1)
    BY DEF Opened
  <1>2. PICK j \in 1..Count(k) : AtCut(k, j, pos, out)
    BY DEF Opened
  <1>3. /\ Count(k) \in Nat
        /\ Pieces[k].cuts[Count(k)].at = Pieces[k].to
        /\ Pieces[k].cuts[Count(k)].done = Span
    BY <1>1, CutFacts, Zenon
  <1>4. j = Count(k)
    <2>1. SUFFICES ASSUME j # Count(k) PROVE FALSE
      OBVIOUS
    <2>2. j \in 1..(Count(k) - 1)
      BY <1>3, <2>1
    <2>3. IsSeen(k, Pieces[k].cuts[j], Pieces[k].cuts[j + 1])
      BY <1>1, <2>2, TokenIsSeen
    <2>4. /\ Pieces[k].cuts[j].at \in Nat /\ Pieces[k].cuts[j].done \in Nat
          /\ Pieces[k].cuts[j].at < Pieces[k].to /\ Pieces[k].cuts[j].done < Span
      BY <2>3 DEF IsSeen
    <2>5. Pieces[k].to \in Nat /\ Span \in Nat
      BY <1>1, PieceFacts, Zenon
    <2>. QED BY <1>2, <2>4, <2>5 DEF AtCut
  <1>. QED BY <1>2, <1>3, <1>4 DEF AtCut

\* Where a loader is that goes on with the next piece.
LEMMA AtPieceThen ==
  ASSUME file' = file, Version # 1, NEW k \in 0..Len(Pieces), pos' = PieceEnd(k),
         Restored(mem', k), pc' = "blocks"
  PROVE  Tracked'
  <1>1. Pieces' = Pieces /\ Version' = Version /\ PieceEnd(k)' = PieceEnd(k)
    BY FileStays, Zenon
  <1>2. Restored(mem, k)'
    BY RestoredThen
  <1>3. \E n \in 0..Len(Pieces') : pos' = PieceEnd(n)' /\ Restored(mem, n)'
    BY <1>1, <1>2, Zenon
  <1>. QED BY <1>1, <1>3 DEF Tracked

\* The parser finds the first piece, and nothing is in memory.
LEMMA ParseTracked ==
  ASSUME file \in Files, IsSnapshot, Tracked, Z80Parse
  PROVE  Tracked'
  <1>1. pc = "parse" /\ Z80Parses /\ Restored(mem, 0) /\ out = <<>>
    BY DEF Z80Parse, IsSnapshot, Tracked
  <1>2. /\ pc' = IF Version = 1 THEN "v1" ELSE "blocks"
        /\ pos' = IF Version = 1 THEN BaseHeader ELSE BaseHeader + ExtHeader
        /\ UNCHANGED <<file, out, block, mem>>
    BY <1>1, Zenon DEF Z80Parse, snapshot
  <1>3. pos' = Body /\ Len(Pieces) \in Nat
    BY <1>2, PieceFacts, Zenon
  <1>4. CASE Version = 1
    <2>1. Len(Pieces) = 1
      BY <1>4, Zenon DEF IsSnapshot, IsWritten
    <2>2. 1 \in 1..Len(Pieces) /\ IsKept(1) /\ IsPacked(1)
      BY <1>4, <2>1 DEF IsKept, IsPacked
    <2>3. Pieces[1].from = PieceEnd(0) + Ahead /\ Ahead = 0 /\ Body \in Nat
      <3>1. Pieces[1].from = PieceEnd(1 - 1) + Ahead
        BY <2>2, PieceFacts, Zenon
      <3>. QED BY <1>4, <3>1, PieceFacts DEF Ahead
    <2>4. pos' = Pieces[1].from
      BY <1>3, <2>3 DEF PieceEnd
    <2>5. Opened(1)'
      BY <1>1, <1>2, <2>2, <2>4, FirstToken
    <2>6. Version' = 1 /\ pc' = "v1"
      BY <1>2, <1>4, FileStays
    <2>. QED BY <2>5, <2>6 DEF Tracked
  <1>5. CASE Version # 1
    <2>1. 0 \in 0..Len(Pieces) /\ pos' = PieceEnd(0)
      BY <1>3 DEF PieceEnd
    <2>. QED BY <1>1, <1>2, <1>5, <2>1, AtPieceThen
  <1>. QED BY <1>4, <1>5

\* A piece that is not over can be read on, and is no marker.
LEMMA OpenedReads ==
  ASSUME file \in Files, IsSnapshot, NEW k, Opened(k)
  PROVE  /\ k \in 1..Len(Pieces) /\ IsKept(k) /\ IsPacked(k) /\ Restored(mem, k - 1)
         /\ pos \in Nat /\ pos <= Pieces[k].to /\ Len(out) \in Nat /\ Len(out) <= Span
         /\ pos # Pieces[k].to \/ Len(out) # Span =>
              CanRead(pos) /\ (Version = 1 => ~IsMarker(pos))
  <1>1. /\ k \in 1..Len(Pieces) /\ IsKept(k) /\ IsPacked(k) /\ Restored(mem, k - 1)
    BY DEF Opened
  <1>2. PICK j \in 1..Count(k) : AtCut(k, j, pos, out)
    BY DEF Opened
  <1>3. /\ Count(k) \in Nat
        /\ Pieces[k].cuts[Count(k)].at = Pieces[k].to
        /\ Pieces[k].cuts[Count(k)].done = Span
        /\ Pieces[k].cuts[j].at \in Nat /\ Pieces[k].cuts[j].at <= Pieces[k].to
        /\ Pieces[k].cuts[j].done \in Nat /\ Pieces[k].cuts[j].done <= Span
    BY <1>1, CutFacts, Zenon
  <1>4. /\ pos = Pieces[k].cuts[j].at /\ Len(out) = Pieces[k].cuts[j].done
    BY <1>2 DEF AtCut
  <1>5. ASSUME pos # Pieces[k].to \/ Len(out) # Span
        PROVE  CanRead(pos) /\ (Version = 1 => ~IsMarker(pos))
    <2>1. j \in 1..(Count(k) - 1)
      BY <1>3, <1>4, <1>5
    <2>2. CanRead(pos)
      BY <1>1, <1>4, <2>1, TokenIsSeen DEF IsSeen
    <2>3. ASSUME Version = 1 PROVE ~IsMarker(pos)
      <3>1. k = 1
        <4>1. Len(Pieces) = 1
          BY <2>3, Zenon DEF IsSnapshot, IsWritten
        <4>. QED BY <1>1, <4>1
      <3>. QED BY <1>4, <2>1, <2>3, <3>1, NoMarker
    <2>. QED BY <2>2, <2>3
  <1>. QED BY <1>1, <1>3, <1>4, <1>5

\* Version 1: token by token.
LEMMA ExpandV1Tracked ==
  ASSUME file \in Files, IsSnapshot, Tracked, ExpandV1
  PROVE  Tracked'
  <1>1. pc = "v1" /\ Len(out) < 3 * PageSize /\ UNCHANGED <<file, block, mem>>
    BY DEF ExpandV1
  <1>2. Version = 1 /\ Opened(1)
    BY <1>1 DEF Tracked
  <1>3. Span = 3 * PageSize
    BY <1>2 DEF Span
  <1>4. Len(out) # Span
    BY <1>1, <1>2, <1>3, OpenedReads, PageSizeAssumption
  <1>5. CanRead(pos) /\ ~IsMarker(pos)
    BY <1>2, <1>4, OpenedReads, Zenon
  <1>6. IF IsRun(pos) THEN PushRun(pos) ELSE PushByte(pos)
    BY <1>5, Zenon DEF ExpandV1
  <1>7. Opened(1)' /\ pc' = pc
    BY <1>1, <1>2, <1>4, <1>6, OpenedGoesOn
  <1>8. Version' = 1
    BY <1>1, <1>2, FileStays
  <1>. QED BY <1>1, <1>7, <1>8 DEF Tracked

\* Its end: the RAM is there.
LEMMA EndV1Tracked ==
  ASSUME file \in Files, IsSnapshot, Tracked, EndV1
  PROVE  Tracked'
  <1>1. pc = "v1" /\ Len(out) >= 3 * PageSize /\ file' = file
    BY DEF EndV1, Tracked
  <1>2. Version = 1 /\ Opened(1)
    BY <1>1 DEF Tracked
  <1>3. Span = 3 * PageSize /\ Base(1) = PageSize
    BY <1>2 DEF Span, Base
  <1>4. /\ 1 \in 1..Len(Pieces) /\ IsKept(1) /\ Restored(mem, 1 - 1)
        /\ Len(out) \in Nat /\ Len(out) <= Span
    BY <1>2, OpenedReads, Zenon
  <1>5. Len(out) = Span
    BY <1>1, <1>3, <1>4, PageSizeAssumption
  <1>6. \A i \in 1..Span : out[i] = file.saved[Base(1) + i - 1]
    BY <1>2, <1>5, OpenedEnds, Zenon
  <1>7. mem' = Write(Base(1), out) /\ pc' = "loaded"
    BY <1>3, <1>5 DEF EndV1, Return
  <1>8. Restored(mem', 1)
    BY <1>4, <1>5, <1>6, <1>7, PieceIsWritten
  <1>9. Len(Pieces) = 1 /\ Pieces' = Pieces
    BY <1>1, <1>2, FileStays, Zenon DEF IsSnapshot, IsWritten
  <1>10. Restored(mem, 1)'
    BY <1>1, <1>8, RestoredThen
  <1>. QED BY <1>7, <1>9, <1>10 DEF Tracked

\* The header of a block is that of the next piece.
LEMMA NextPiece ==
  ASSUME file \in Files, IsSnapshot, Version # 1, NEW k \in 0..Len(Pieces), pos = PieceEnd(k),
         CanRead(pos + 2)
  PROVE  /\ k + 1 \in 1..Len(Pieces) /\ pos \in Nat
         /\ Pieces[k + 1].from = pos + 3
         /\ IsKept(k + 1) <=> HasAddress(BlockPage)
         /\ IsKept(k + 1) => Base(k + 1) = PageAddress(BlockPage)
         /\ BlockLength = RawLength <=> ~IsPacked(k + 1)
         /\ BlockLength # RawLength => BlockLength = Pieces[k + 1].to - Pieces[k + 1].from
         /\ BlockLength = RawLength => Pieces[k + 1].to = Pieces[k + 1].from + PageSize
  <1>1. Len(Pieces) \in Nat /\ pos \in Nat /\ Size \in Nat
    BY PieceFacts, PiecesAreBehind, Zenon
  <1>2. k # Len(Pieces)
    <2>1. PieceEnd(Len(Pieces)) = Size
      BY Zenon DEF IsSnapshot, IsWritten
    <2>. QED BY <1>1, <2>1 DEF CanRead
  <1> DEFINE q == k + 1
  <1>3. q \in 1..Len(Pieces) /\ q - 1 = k
    BY <1>1, <1>2
  <1>4. /\ Pieces[q].from = PieceEnd(q - 1) + Ahead /\ HasHeader(q)
        /\ Pieces[q].from \in Nat /\ Pieces[q].to \in Nat
    BY <1>3, PieceFacts, Zenon
  <1>5. Pieces[q].from = pos + 3
    BY <1>3, <1>4 DEF Ahead
  <1> HIDE DEF q
  <1>6. Pieces[q].from - 3 = pos /\ Pieces[q].from - 2 = pos + 1 /\ Pieces[q].from - 1 = pos + 2
    BY <1>1, <1>5
  <1>7. /\ BlockPage = Pieces[q].page
        /\ IF IsPacked(q) THEN BlockLength = Pieces[q].to - Pieces[q].from /\ BlockLength # RawLength
           ELSE BlockLength = RawLength /\ Pieces[q].to - Pieces[q].from = PageSize
    BY <1>4, <1>6, ZenonT(30) DEF HasHeader, BlockLength, BlockPage
  <1>8. ~IsPacked(q) => Pieces[q].to = Pieces[q].from + PageSize
    BY <1>4, <1>7, PageSizeAssumption
  <1>9. /\ IsKept(q) <=> HasAddress(BlockPage)
        /\ IsKept(q) => Base(q) = PageAddress(BlockPage)
    BY <1>7, Zenon DEF IsKept, Base
  <1>. QED BY <1>1, <1>3, <1>5, <1>7, <1>8, <1>9, Zenon DEF q

\* A piece of another machine holds nothing of this memory.
LEMMA SkipBlockTracked ==
  ASSUME file \in Files, IsSnapshot, Tracked, SkipBlock
  PROVE  Tracked'
  <1>1. /\ pc = "blocks" /\ CanRead(pos + 2) /\ ~HasAddress(BlockPage)
        /\ pos' = Behind /\ UNCHANGED <<file, pc, mem>>
    BY DEF SkipBlock, MoreBlocks, snapshot
  <1>2. Version # 1
    BY <1>1 DEF Tracked
  <1>3. PICK k \in 0..Len(Pieces) : pos = PieceEnd(k) /\ Restored(mem, k)
    BY <1>1 DEF Tracked
  <1> DEFINE q == k + 1
  <1>4. /\ q \in 1..Len(Pieces) /\ pos \in Nat
        /\ Pieces[q].from = pos + 3 /\ ~IsKept(q)
        /\ BlockLength # RawLength => BlockLength = Pieces[q].to - Pieces[q].from
        /\ BlockLength = RawLength => Pieces[q].to = Pieces[q].from + PageSize
    BY <1>1, <1>2, <1>3, NextPiece, Zenon
  <1>5. Pieces[q].to \in Nat /\ Pieces[q].from \in Nat /\ Len(Pieces) \in Nat
    BY <1>4, PieceFacts, Zenon
  <1>6. PieceEnd(q) = Pieces[q].to
    BY <1>3 DEF PieceEnd
  <1>7. pos' = PieceEnd(q)
    BY <1>1, <1>4, <1>5, <1>6, PageSizeAssumption DEF Behind, BlockBytes
  <1>8. Restored(mem', q)
    <2>1. Area(q) = {}
      BY <1>4 DEF Area
    <2>2. \A j : j \in 1..q <=> j \in 1..k \/ j = q
      BY <1>3
    <2>3. \A x : (\E j \in 1..q : x \in Area(j)) <=> \E j \in 1..k : x \in Area(j)
      BY <2>1, <2>2, Zenon
    <2>4. Restored(mem, q)
      BY <1>3, <2>3, Zenon DEF Restored
    <2>. QED BY <1>1, <2>4
  <1>9. q \in 0..Len(Pieces)
    BY <1>4
  <1> HIDE DEF q
  <1>. QED BY <1>1, <1>2, <1>7, <1>8, <1>9, AtPieceThen

\* A piece that is not compressed is copied.
LEMMA RawBlockTracked ==
  ASSUME file \in Files, IsSnapshot, Tracked, RawBlock
  PROVE  Tracked'
  <1>1. /\ pc = "blocks" /\ CanRead(pos + 2) /\ HasAddress(BlockPage) /\ BlockLength = RawLength
        /\ file' = file
    BY DEF RawBlock, MoreBlocks
  <1>2. Version # 1
    BY <1>1 DEF Tracked
  <1>3. PICK k \in 0..Len(Pieces) : pos = PieceEnd(k) /\ Restored(mem, k)
    BY <1>1 DEF Tracked
  <1> DEFINE q == k + 1
  <1>4. /\ q \in 1..Len(Pieces) /\ pos \in Nat
        /\ Pieces[q].from = pos + 3 /\ IsKept(q) /\ ~IsPacked(q)
        /\ Base(q) = PageAddress(BlockPage)
        /\ Pieces[q].to = Pieces[q].from + PageSize
    BY <1>1, <1>2, <1>3, NextPiece, Zenon
  <1>5. Pieces[q].to \in Nat /\ Pieces[q].to <= Size /\ Size \in Nat /\ IsCopied(q)
        /\ Len(Pieces) \in Nat
    BY <1>4, PieceFacts, Zenon
  <1>6. q \in 0..Len(Pieces) /\ q - 1 = k /\ Span = PageSize
    BY <1>2, <1>3, <1>4, <1>5 DEF Span
  <1>7. PieceEnd(q) = Pieces[q].to
    BY <1>3 DEF PieceEnd
  <1> HIDE DEF q
  <1>8. CanRead(pos + 3 + PageSize - 1)
    BY <1>4, <1>5, PageSizeAssumption DEF CanRead
  <1> DEFINE bytes == [i \in 1..PageSize |-> Byte(pos + 2 + i)]
  <1>9. mem' = Write(Base(q), bytes) /\ pos' = pos + 3 + PageSize /\ pc' = "blocks"
    BY <1>1, <1>4, <1>8, Zenon DEF RawBlock
  <1>10. Len(bytes) = Span
    BY <1>6, PageSizeAssumption
  <1>11. ASSUME NEW i \in 1..Span
         PROVE  bytes[i] = file.saved[Base(q) + i - 1]
    <2>1. i - 1 \in 0..(PageSize - 1) /\ i \in Int /\ Base(q) \in Nat
      BY <1>4, <1>6, PieceFacts, PageSizeAssumption
    <2>2. Byte(Pieces[q].from + (i - 1)) = file.saved[Base(q) + (i - 1)]
      BY <1>5, <2>1 DEF IsCopied
    <2>3. Pieces[q].from + (i - 1) = pos + 2 + i /\ Base(q) + (i - 1) = Base(q) + i - 1
      BY <1>4, <2>1
    <2>. QED BY <1>6, <2>2, <2>3
  <1> HIDE DEF bytes
  <1>12. Restored(mem, q - 1)
    BY <1>3, <1>6
  <1>13. Restored(mem', q)
    BY <1>4, <1>9, <1>10, <1>11, <1>12, PieceIsWritten
  <1>14. pos' = PieceEnd(q)
    BY <1>4, <1>7, <1>9, PageSizeAssumption
  <1>. QED BY <1>1, <1>2, <1>6, <1>9, <1>13, <1>14, AtPieceThen

\* A compressed piece is opened at its first token.
LEMMA OpenBlockTracked ==
  ASSUME file \in Files, IsSnapshot, Tracked, OpenBlock
  PROVE  Tracked'
  <1>1. /\ pc = "blocks" /\ CanRead(pos + 2) /\ HasAddress(BlockPage) /\ BlockLength # RawLength
        /\ block' = [start |-> pos + 3, len |-> BlockLength, addr |-> PageAddress(BlockPage)]
        /\ out' = <<>> /\ pos' = pos + 3 /\ pc' = "expand" /\ UNCHANGED <<file, mem>>
    BY DEF OpenBlock, MoreBlocks
  <1>2. Version # 1
    BY <1>1 DEF Tracked
  <1>3. PICK k \in 0..Len(Pieces) : pos = PieceEnd(k) /\ Restored(mem, k)
    BY <1>1 DEF Tracked
  <1> DEFINE q == k + 1
  <1>4. /\ q \in 1..Len(Pieces)
        /\ Pieces[q].from = pos + 3 /\ IsKept(q) /\ IsPacked(q)
        /\ Base(q) = PageAddress(BlockPage)
        /\ BlockLength = Pieces[q].to - Pieces[q].from
    BY <1>1, <1>2, <1>3, NextPiece, Zenon
  <1>5. q - 1 = k
    BY <1>3
  <1> HIDE DEF q
  <1>6. Opened(q)'
    <2>1. Restored(mem', q - 1) /\ pos' = Pieces[q].from
      BY <1>1, <1>3, <1>4, <1>5
    <2>. QED BY <1>1, <1>4, <2>1, FirstToken
  <1>7. Pieces' = Pieces /\ Version' = Version /\ Base(q)' = Base(q)
    BY <1>1, FileStays, Zenon
  <1>8. block' = BlockOf(q)'
    BY <1>1, <1>4, <1>7 DEF BlockOf
  <1>9. \E n \in 1..Len(Pieces') : Opened(n)' /\ block' = BlockOf(n)'
    BY <1>4, <1>6, <1>7, <1>8, Zenon
  <1>. QED BY <1>1, <1>2, <1>7, <1>9 DEF Tracked

\* It is expanded token by token.
LEMMA ExpandTracked ==
  ASSUME file \in Files, IsSnapshot, Tracked, Expand
  PROVE  Tracked'
  <1>1. pc = "expand" /\ pos - block.start < block.len /\ UNCHANGED <<file, block, mem>>
    BY DEF Expand, InBlock
  <1>2. Version # 1
    BY <1>1 DEF Tracked
  <1>3. PICK k \in 1..Len(Pieces) : Opened(k) /\ block = BlockOf(k)
    BY <1>1 DEF Tracked
  <1>4. Pieces[k].from \in Nat /\ Pieces[k].to \in Nat /\ pos \in Nat
    BY <1>3, PieceFacts, OpenedReads, Zenon
  <1>5. pos # Pieces[k].to
    <2>1. block.start = Pieces[k].from /\ block.len = Pieces[k].to - Pieces[k].from
      BY <1>3 DEF BlockOf
    <2>. QED BY <1>1, <1>4, <2>1
  <1>6. CanRead(pos)
    BY <1>3, <1>5, OpenedReads, Zenon
  <1>7. IF IsRun(pos) THEN PushRun(pos) ELSE PushByte(pos)
    BY <1>6, Zenon DEF Expand
  <1>8. Opened(k)' /\ pc' = pc
    BY <1>1, <1>3, <1>5, <1>7, OpenedGoesOn
  <1>9. Pieces' = Pieces /\ Version' = Version /\ Base(k)' = Base(k)
    BY <1>1, FileStays, Zenon
  <1>10. block' = BlockOf(k)'
    BY <1>1, <1>3, <1>9 DEF BlockOf
  <1>11. \E n \in 1..Len(Pieces') : Opened(n)' /\ block' = BlockOf(n)'
    BY <1>8, <1>9, <1>10, Zenon
  <1>. QED BY <1>1, <1>2, <1>8, <1>9, <1>11 DEF Tracked

\* And written when it is over.
LEMMA CloseBlockTracked ==
  ASSUME file \in Files, IsSnapshot, Tracked, CloseBlock
  PROVE  Tracked'
  <1>1. pc = "expand" /\ ~(pos - block.start < block.len) /\ UNCHANGED <<file, pos>>
    BY DEF CloseBlock, InBlock
  <1>2. Version # 1
    BY <1>1 DEF Tracked
  <1>3. PICK k \in 1..Len(Pieces) : Opened(k) /\ block = BlockOf(k)
    BY <1>1 DEF Tracked
  <1>4. Pieces[k].from \in Nat /\ Pieces[k].to \in Nat /\ Len(Pieces) \in Nat
    BY <1>3, PieceFacts, Zenon
  <1>5. /\ pos \in Nat /\ pos <= Pieces[k].to /\ IsKept(k) /\ Restored(mem, k - 1)
    BY <1>3, OpenedReads, Zenon
  <1>6. block.start = Pieces[k].from /\ block.len = Pieces[k].to - Pieces[k].from /\ block.addr = Base(k)
    BY <1>3 DEF BlockOf
  <1>7. pos = Pieces[k].to
    BY <1>1, <1>4, <1>5, <1>6
  <1>8. Len(out) = Span /\ \A i \in 1..Span : out[i] = file.saved[Base(k) + i - 1]
    BY <1>3, <1>7, OpenedEnds, Zenon
  <1>9. IsPage
    BY <1>2, <1>8 DEF IsPage, Span
  <1>10. mem' = Write(Base(k), out) /\ pc' = "blocks"
    BY <1>6, <1>9 DEF CloseBlock
  <1>11. Restored(mem', k)
    BY <1>5, <1>8, <1>10, PieceIsWritten
  <1>12. k \in 0..Len(Pieces) /\ pos' = PieceEnd(k)
    BY <1>1, <1>4, <1>7 DEF PieceEnd
  <1>. QED BY <1>1, <1>2, <1>10, <1>11, <1>12, AtPieceThen

\* Behind the last piece everything is there.
LEMMA BlocksDoneTracked ==
  ASSUME file \in Files, IsSnapshot, Tracked, BlocksDone
  PROVE  Tracked'
  <1>1. pc = "blocks" /\ ~CanRead(pos + 2) /\ pc' = "loaded" /\ UNCHANGED <<file, mem>>
    BY DEF BlocksDone, Return, snapshot
  <1>2. Version # 1
    BY <1>1 DEF Tracked
  <1>3. PICK k \in 0..Len(Pieces) : pos = PieceEnd(k) /\ Restored(mem, k)
    BY <1>1 DEF Tracked
  <1>4. Len(Pieces) \in Nat /\ Size \in Nat /\ PieceEnd(k) \in Nat
    BY PieceFacts, PiecesAreBehind, Zenon
  <1>5. k = Len(Pieces)
    <2>1. SUFFICES ASSUME k # Len(Pieces) PROVE FALSE
      OBVIOUS
    <2> DEFINE q == k + 1
    <2>2. q \in 1..Len(Pieces) /\ q - 1 = k
      BY <1>4, <2>1
    <2>3. /\ Pieces[q].from = PieceEnd(q - 1) + Ahead
          /\ Pieces[q].from <= Pieces[q].to /\ Pieces[q].to <= Size
          /\ Pieces[q].from \in Nat /\ Pieces[q].to \in Nat
      BY <2>2, PieceFacts, Zenon
    <2> HIDE DEF q
    <2>4. pos + 2 < Size
      BY <1>2, <1>3, <1>4, <2>2, <2>3 DEF Ahead
    <2>. QED BY <1>1, <2>4 DEF CanRead
  <1>6. Restored(mem, k)'
    BY <1>1, <1>3, RestoredThen
  <1>7. Pieces' = Pieces
    BY <1>1, FileStays, Zenon
  <1>. QED BY <1>1, <1>5, <1>6, <1>7 DEF Tracked

\* A step that changes nothing of it leaves the loader where it is.
LEMMA StutterTracked ==
  ASSUME Tracked, UNCHANGED <<file, pc, pos, out, block, mem>>
  PROVE  Tracked'
  <1>1. /\ Version' = Version /\ Pieces' = Pieces /\ \A k : PieceEnd(k)' = PieceEnd(k)
        /\ \A k : IsKept(k)' = IsKept(k)
        /\ \A k : IsPacked(k)' = IsPacked(k)
        /\ \A k : Area(k)' = Area(k)
        /\ \A k : Base(k)' = Base(k)
        /\ \A k : Count(k)' = Count(k)
    BY FileStays, Zenon
  <1>2. \A k : Restored(mem, k)' = Restored(mem, k)
    BY <1>1, Zenon DEF Restored
  <1>3. \A k, j : AtCut(k, j, pos, out)' = AtCut(k, j, pos, out)
    BY <1>1, Zenon DEF AtCut
  <1>4. \A k : Opened(k)' = Opened(k)
    BY <1>1, <1>2, <1>3, Zenon DEF Opened
  <1>5. \A k : BlockOf(k)' = BlockOf(k)
    BY <1>1, Zenon DEF BlockOf
  <1>. QED BY <1>1, <1>2, <1>4, <1>5, Zenon DEF Tracked

\* What the loader of a snapshot keeps from piece to piece and token to token.
LEMMA StepSnapshotInv ==
  ASSUME SnapshotInv, [Next]_vars
  PROVE  SnapshotInv'
  <1>1. file \in Files /\ (IsSnapshot => Tracked)
    BY DEF SnapshotInv
  <1>2. file' = file
    BY DEF Next, Step, Z80Load, TapLoad, vars, Z80Parse, ExpandV1, EndV1, SkipBlock, RawBlock,
           OpenBlock, Expand, CloseBlock, BlocksDone, SnaLoad, TapParse, TapHeader, TapProgram,
           TapCode, TapOther, TapTruncated, TapDone, NextBlock
  <1>a. IsSnapshot' = IsSnapshot
    BY <1>2, FileStays, Zenon
  <1>3. SUFFICES ASSUME IsSnapshot PROVE Tracked'
    <2>1. file' \in Files
      BY <1>1, <1>2
    <2>. QED BY <1>a, <2>1 DEF SnapshotInv
  <1>4. Tracked /\ file.tag = "z80"
    BY <1>1, <1>3 DEF IsSnapshot
  <1>5. CASE UNCHANGED vars
    <2>1. UNCHANGED <<file, pc, pos, out, block, mem>>
      BY <1>5 DEF vars
    <2>. QED BY <1>4, <2>1, FileStays, StutterTracked
  <1>6. CASE Z80Load
    BY <1>1, <1>3, <1>4, <1>6, ParseTracked, ExpandV1Tracked, EndV1Tracked, SkipBlockTracked,
       RawBlockTracked, OpenBlockTracked, ExpandTracked, CloseBlockTracked, BlocksDoneTracked,
       Zenon DEF Z80Load
  <1>7. ~SnaLoad /\ ~TapLoad
    <2>1. ~SnaLoad /\ ~TapParse
      BY <1>4 DEF SnaLoad, TapParse
    <2>2. pc # "tape"
      BY <1>4 DEF Tracked
    <2>. QED BY <2>1, <2>2 DEF TapLoad, TapHeader, TapProgram, TapCode, TapOther, TapTruncated, TapDone, InTape
  <1>. QED BY <1>5, <1>6, <1>7 DEF Next, Step

\* A snapshot that a program wrote, compressed by any choice of runs and single bytes, into
\* pages of any size, is restored byte for byte (z80_load_v1, z80_load_v2_v3).
THEOREM SnapshotsAreRestored == Spec => []PagesRestored
  <1>1. Init => SnapshotInv
    <2>1. SUFFICES ASSUME Init, IsSnapshot PROVE Tracked
      BY DEF Init, SnapshotInv
    <2>2. pc = "parse" /\ out = <<>> /\ mem = <<>>
      BY <2>1 DEF Init
    <2>3. Restored(mem, 0)
      BY <2>2 DEF Restored
    <2>. QED BY <2>2, <2>3 DEF Tracked
  <1>2. SnapshotInv /\ [Next]_vars => SnapshotInv'
    BY StepSnapshotInv
  <1>3. SnapshotInv => PagesRestored
    <2>1. SUFFICES ASSUME file \in Files, IsSnapshot, Tracked
                   PROVE  /\ pc # "failed"
                          /\ pc = "loaded" => /\ DOMAIN mem = DOMAIN file.saved
                                              /\ \A x \in DOMAIN mem : mem[x] = file.saved[x]
      BY DEF SnapshotInv, PagesRestored, IsSnapshot
    <2>2. pc # "failed"
      BY <2>1 DEF Tracked
    <2>3. ASSUME pc = "loaded"
          PROVE  /\ DOMAIN mem = DOMAIN file.saved
                 /\ \A x \in DOMAIN mem : mem[x] = file.saved[x]
      <3>1. Restored(mem, Len(Pieces))
        BY <2>1, <2>3 DEF Tracked
      <3>2. DOMAIN file.saved = UNION {Area(k) : k \in 1..Len(Pieces)}
        BY <2>1, Zenon DEF IsSnapshot, IsWritten
      <3>. QED BY <3>1, <3>2, Zenon DEF Restored
    <2>. QED BY <2>2, <2>3
  <1>. QED BY <1>1, <1>2, <1>3, PTL DEF Spec

=============================================================================
