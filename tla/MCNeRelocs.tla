------------------------------ MODULE MCNeRelocs ------------------------------
(* Small New Executables for NeRelocs: a slot of eight bytes has room for   *)
(* four imports.                                                            *)
EXTENDS NeRelocs, TLC

CONSTANTS Kernel, User, Sym1, Sym2, Sym3, Sym4, Sym5

MCModules == {Kernel, User}

MCSymbols == {Sym1, Sym2, Sym3, Sym4, Sym5}

MCOffsets == 1 .. 7

MCOrdinals == {1, 2}

MCOrdinalName == 1 :> Sym1 @@ 2 :> Sym2

Names == 1 :> Sym1 @@ 2 :> Sym2 @@ 3 :> Sym3 @@ 4 :> Sym4 @@ 5 :> Sym5
         @@ 6 :> Empty @@ 7 :> Eof

ByName(m, o)    == [target |-> "name", src |-> "farptr", site |-> 2, mod |-> m,
                    name |-> o]
ByOrdinal(m, o) == [target |-> "ordinal", src |-> "offset", site |-> 3, mod |-> m,
                    ordinal |-> o]
Internal(s, a)  == [target |-> "internal", src |-> "selector", site |-> 0,
                    additive |-> a, seg |-> s, off |-> 6]
Osfixup         == [target |-> "other", src |-> "other", site |-> 1]

Segment(table) == [sector |-> 1, bytes |-> 5, alloc |-> 6, relocs |-> TRUE,
                   count |-> Len(table), table |-> table]

Data == [sector |-> 0, bytes |-> 0, alloc |-> 0, relocs |-> TRUE, count |-> 0,
         table |-> <<>>]

File(segs, mods) ==
  [segs |-> segs, mods |-> mods, names |-> Names, readable |-> Len(segs),
   records |-> {ByName(1, 1), Osfixup}, cs |-> 1, ip |-> 4, ss |-> 2, ds |-> 2]

MCRecords == {ByName(1, 1), ByName(1, 2), ByName(2, 2), ByName(1, 6), ByName(1, 7),
              ByName(3, 1), ByOrdinal(1, 1), ByOrdinal(2, 2), ByOrdinal(0, 1),
              Internal(2, FALSE), Internal(3, FALSE), Osfixup}

\* Any table of three records, then a segment that shares an import with it,
\* for two modules, or one whose name is missing.
MCFiles ==
  {File(<<Segment(t), Segment(<<ByOrdinal(2, 2), Internal(1, TRUE)>>)>>, m) :
     t \in [1 .. 3 -> MCRecords],
     m \in {<<Kernel, User>>, <<Empty, User>>, <<Kernel, Eof>>}}
  \cup
  {[File(<<Segment(<<ByName(1, 1), ByName(1, 1)>>), Data>>, <<User>>) EXCEPT
      !.segs[1].count = c, !.segs[1].bytes = b, !.readable = r, !.cs = s, !.ss = s] :
     c \in 0 .. 3, b \in {0, 5}, r \in 1 .. 2, s \in {0, 1, 3}}
  \cup {File(<<>>, <<>>)}
===============================================================================
