------------------------------ MODULE MCZxLoad ------------------------------
(***************************************************************************)
(* Instances of ZxLoad: snapshots with every page of four bytes, written   *)
(* as the format wants them; damaged snapshots; short tapes.               *)
(***************************************************************************)
EXTENDS ZxLoad, SequencesExt

Bytes == {0, 7, ED}
Page == 4
Pages == [1..Page -> Bytes]

\* How many bytes at the beginning are alike.
Alike(s) ==
  CHOOSE n \in 1..Len(s) :
    /\ \A i \in 1..n : s[i] = s[1]
    /\ n < Len(s) => s[n + 1] # s[1]

\* A page as a writer of snapshots compresses it, token by token [bytes, n]: EDs
\* side by side are a run always, another byte from min repeats on, and the byte
\* behind a single ED belongs to no run.
Tokens(s, min) ==
  LET from[i \in 1..(Len(s) + 1), afterED \in BOOLEAN] ==
        IF i > Len(s) THEN <<>>
        ELSE LET n == Alike(SubSeq(s, i, Len(s))) IN
             IF ~afterED /\ n >= (IF s[i] = ED THEN 2 ELSE min)
             THEN <<[bytes |-> <<ED, ED, n, s[i]>>, n |-> n]>> \o from[i + n, FALSE]
             ELSE <<[bytes |-> <<s[i]>>, n |-> 1]>> \o from[i + 1, s[i] = ED]
  IN  from[1, FALSE]

Joined(tokens) == FoldLeft(LAMBDA bytes, t : bytes \o t.bytes, <<>>, tokens)

\* The cuts of tokens that begin at a position.
Cuts(tokens, at) ==
  FoldLeft(LAMBDA cuts, t :
             Append(cuts, [at |-> Last(cuts).at + Len(t.bytes), done |-> Last(cuts).done + t.n]),
           <<[at |-> at, done |-> 0]>>, tokens)

\* Pages by address as the memory they are.
Memory(pages) ==
  [x \in UNION {a..(a + Page - 1) : a \in DOMAIN pages} |->
     LET a == CHOOSE b \in DOMAIN pages : x \in b..(b + Page - 1) IN pages[a][x - a + 1]]

Mins == {2, 5}

Z80(main, length, hw, im, bytes, pieces, saved) ==
  [tag |-> "z80", pc |-> main, length |-> length, hw |-> hw, im |-> im,
   extpc |-> 6, start |-> CASE main # 0 -> 30 [] length = 54 -> 86 [] length = 55 -> 56 [] OTHER -> 55,
   bytes |-> bytes, pieces |-> pieces, saved |-> saved]

Zeros == <<0, 0, 0, 0>>
Mixed == <<7, 0, ED, 7>>
EDs == <<ED, ED, ED, ED>>
Marker == <<0, ED, ED, 0>>

\* Version 1: the RAM in one piece.
V1(tokens, saved) ==
  LET bytes == Joined(tokens) IN
  Z80(6, 0, 0, 1, bytes \o Marker,
      <<[page |-> 0, from |-> 30, to |-> 30 + Len(bytes), cuts |-> Cuts(tokens, 30)]>>, saved)

V1s ==
  {V1(Tokens(p \o q \o r, min), Memory(4 :> p @@ 8 :> q @@ 12 :> r)) :
     p \in Pages, q \in {Zeros, Mixed}, r \in {Mixed, EDs, Zeros}, min \in Mins}

\* A block: its page and the tokens of it, or all its bytes as they are.
Packed(page, s, min) == [page |-> page, raw |-> FALSE, tokens |-> Tokens(s, min), content |-> s]
Raw(page, s) == [page |-> page, raw |-> TRUE, tokens |-> <<[bytes |-> s, n |-> Len(s)]>>, content |-> s]

\* One of another machine with a length to choose.
Sized(n) ==
  [page |-> 1, raw |-> FALSE, tokens |-> <<[bytes |-> [i \in 1..n |-> 7], n |-> n]>>,
   content |-> <<>>]

BytesOfBlock(b) ==
  LET data == Joined(b.tokens) IN
  (IF b.raw THEN <<255, 255, b.page>> ELSE <<Len(data) % 256, Len(data) \div 256, b.page>>) \o data

BytesOf(blocks) == FoldLeft(LAMBDA bytes, b : bytes \o BytesOfBlock(b), <<>>, blocks)

PiecesOf(blocks, start) ==
  [k \in 1..Len(blocks) |->
     LET at == start + Len(BytesOf(SubSeq(blocks, 1, k - 1))) + 3 IN
     [page |-> blocks[k].page, from |-> at, to |-> at + Len(Joined(blocks[k].tokens)),
      cuts |-> IF blocks[k].raw THEN <<>> ELSE Cuts(blocks[k].tokens, at)]]

AddressOf == 0 :> 0 @@ 8 :> 4 @@ 4 :> 8 @@ 5 :> 12

\* What the header has in it where the loader takes it for shorter.
Unread(length) == IF length = 55 THEN [i \in 1..31 |-> 0] ELSE <<>>

V2(length, blocks) ==
  Z80(0, length, 0, 1, Unread(length) \o BytesOf(blocks), PiecesOf(blocks, 32 + length),
      LET kept == {k \in DOMAIN blocks : blocks[k].page \in DOMAIN AddressOf}
          of(a) == blocks[CHOOSE k \in kept : AddressOf[blocks[k].page] = a].content
      IN  Memory([a \in {AddressOf[blocks[k].page] : k \in kept} |-> of(a)]))

\* A block in front, which may be one of another machine.
Fronts ==
  {<<>>, <<Packed(1, <<>>, 2)>>, <<Packed(6, <<7>>, 2)>>, <<Raw(1, EDs)>>, <<Raw(4, Mixed)>>,
   <<Packed(4, Mixed, 2)>>}

V2s ==
  {V2(length, f \o <<Packed(8, p, min), Packed(5, q, 2)>>) :
     p \in Pages, q \in {EDs, Mixed}, min \in Mins, length \in {23, 54}, f \in Fronts}

\* Those that are mistaken: a header of 55 bytes, and a length that looks like
\* the second byte of a run.
Mistaken ==
  {V2(length, <<Packed(8, Mixed, 2)>>) : length \in {23, 55}} \cup
  {V2(23, <<Packed(8, <<7, 0, 7, b>>, 2), Sized(n), Packed(5, EDs, 2)>>) :
     b \in {7, ED}, n \in {236, 237}}

\* Damage: the file is cut, or a byte of it is another.
Whole ==
  {Joined(Tokens(EDs \o Mixed \o Zeros, 2)) \o Marker,
   BytesOf(<<Packed(8, EDs, 2), Packed(1, <<7>>, 2), Raw(0, Mixed)>>)}

Cut ==
  {Z80(main, 23, 0, 1, SubSeq(w, 1, Len(w) - n), <<>>, <<>>) :
     main \in {0, 5, 6}, w \in Whole, n \in 0..14}

Changed ==
  {Z80(main, 54, 1, 2, [w EXCEPT ![n] = b], <<>>, <<>>) :
     main \in {0, 6}, w \in Whole, n \in 1..14, b \in {0, 4, ED, 255}}

Others == {Z80(0, 24, 0, 1, <<>>, <<>>, <<>>), Z80(0, 23, 2, 1, <<>>, <<>>, <<>>),
           Z80(6, 0, 0, 3, <<>>, <<>>, <<>>)}

SNAs ==
  {[tag |-> "sna", size |-> size, int |-> int, mode |-> 1, border |-> 7, sp |-> sp,
    bytes |-> Mixed \o Zeros \o EDs] :
     size \in {"48K", "128K"}, int \in {0, 1}, sp \in {3, 4, 7, 15}}

-----------------------------------------------------------------------------
Head0(type) == [len |-> 19, flag |-> 0, type |-> type, sum |-> 0, lines |-> <<>>]
Data(len, lines) == [len |-> len, flag |-> 255, type |-> 0, sum |-> 0, lines |-> lines]
Long == [Head0(3) EXCEPT !.len = 21]

BlockSet ==
  {Head0(0), Head0(1), Head0(3), Long, Data(0, <<>>), Data(1, <<>>), Data(2, <<>>),
   Data(20, <<5, 5>>), Data(4070, <<3, 5000>>)}

TapeSize(bs) == FoldLeft(LAMBDA n, b : n + 2 + b.len, 0, bs)

\* Two empty blocks in a row would make a header out of the lengths behind them.
IsTape(bs) == \A k \in 2..Len(bs) : bs[k - 1].len = 0 => bs[k].len # 0

Tapes ==
  {[tag |-> "tap", size |-> TapeSize(bs) - cut, blocks |-> bs] :
     bs \in {t \in UNION {[1..n -> BlockSet] : n \in 1..4} : IsTape(t)},
     cut \in {0, 1, 19}}

MCFiles ==
  V1s \cup V2s \cup Mistaken \cup Cut \cup Changed \cup Others \cup SNAs \cup Tapes
=============================================================================
