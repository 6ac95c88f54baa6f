----------------------------- MODULE LeLoadProofs -----------------------------
(***************************************************************************)
(* Loading a Linear Executable, for files of any size: one reader walks    *)
(* the page map, the fixups and the names and none of them is lost; no two *)
(* imports share an address; what is mapped is an address space; and names *)
(* are exported as the entries with their ordinals.  What fixups have      *)
(* written stays, and the functions of a VxD are what they have filled in. *)
(*                                                                         *)
(* None of these is inductive.  WalkInv says of every phase where the      *)
(* reader stands, what is on its stack, and which part of the tables is    *)
(* behind it.  SlotInv says that next_off is behind all addresses handed   *)
(* out in a slot, and LayoutInv that cursor is behind all objects; LandInv *)
(* is about the cells of the fixups that have been applied.                *)
(***************************************************************************)
EXTENDS LeLoad, SequenceTheorems, WellFoundedInduction, TLAPS

Phases == {"imports", "objects", "segments", "pages", "fixups", "exports", "vxd",
           "loaded", "rejected"}

TypeInv ==
  /\ input \in Inputs
  /\ pc \in Phases
  /\ obj \in Nat \ {0} /\ page \in Nat
  /\ pc \in {"pages", "fixups"} => obj <= NumObjects /\ IsMapped(obj)

-----------------------------------------------------------------------------
(* The walk over the tables.                                               *)

Handled == {<<h[1], h[2], h[3]>> : h \in seen}

\* What handling page i of object o leaves in Handled: the page, and n of
\* its fixups.
PageWalk(o, i, n) ==
  {<<o, i, PageEntry(input.objects[o].mapidx + i)>>} \cup
    {<<o, i, FixupOf(input.objects[o].mapidx + i, k)>> : k \in 1 .. n}

FixupsWalked(o, i) ==
  IF HasData(o, i) THEN FixupCount(input.objects[o].mapidx + i) ELSE 0

\* The pages of object o before page n, and the mapped objects before object n.
PagesBefore(o, n) ==
  UNION {PageWalk(o, i, FixupsWalked(o, i)) : i \in {j \in PagesOf(o) : j < n}}

ObjectsBefore(n) ==
  UNION {PagesBefore(o, input.objects[o].mapsize) : o \in {x \in 1 .. NumObjects : IsMapped(x) /\ x < n}}

\* The pages before this one are all in the page map.
InPageMap == \A j \in 0 .. page - 1 : j \in PagesOf(obj)

AtPage ==
  /\ reader = [pos |-> PageEntry(FixupPage), stack |-> <<ObjectTable>>]
  /\ InPageMap
  /\ page <= input.objects[obj].mapsize
  /\ Handled = ObjectsBefore(obj) \cup PagesBefore(obj, page)

\* Behind k - 1 fixups of this page, none of them truncated.
AtFixup ==
  /\ InPageMap /\ page \in PagesOf(obj) /\ HasData(obj, page)
  /\ \E k \in 1 .. Len(FixupsOf(FixupPage)) + 1 :
       /\ reader = [pos |-> FixupOf(FixupPage, k),
                    stack |-> <<ObjectTable, PageEntry(FixupPage + 1)>>]
       /\ \A j \in 1 .. k - 1 : FixupsOf(FixupPage)[j] # Eof
       /\ Handled = ObjectsBefore(obj) \cup PagesBefore(obj, page) \cup PageWalk(obj, page, k - 1)

WalkInv ==
  /\ pc \in {"imports", "objects"} => Handled = {}
  /\ pc = "imports" => reader = [pos |-> <<"start">>, stack |-> <<>>]
  /\ pc = "objects" => reader = [pos |-> ObjectTable, stack |-> <<ObjectTable>>]
  /\ pc = "segments" => /\ reader = [pos |-> ObjectTable, stack |-> <<>>]
                        /\ Handled = ObjectsBefore(obj)
  /\ pc = "pages" => AtPage
  /\ pc = "fixups" => AtFixup
  /\ pc \in {"exports", "vxd", "loaded"} => Handled = ObjectsBefore(NumObjects + 1)

-----------------------------------------------------------------------------
(* What the file fixes.                                                    *)

\* The tables of a file have lengths, and what is in them are numbers.
LEMMA InputFacts ==
  ASSUME input \in Inputs
  PROVE  /\ NumObjects \in Nat /\ Len(input.mods) \in Nat
         /\ PageSize \in Nat \ {0}
         /\ input.page_off \in Nat /\ input.last_page \in Nat
         /\ \A o \in 1 .. NumObjects :
              /\ input.objects[o].size \in Nat
              /\ input.objects[o].mapidx \in Nat
              /\ input.objects[o].mapsize \in Nat
         /\ Len(input.pages) \in Nat
         /\ \A p \in 0 .. Len(input.pages) :
              /\ PageAt(p) # Eof
              /\ input.lx => PageAt(p).off \in Nat /\ PageAt(p).size \in Nat
              /\ ~input.lx => PageAt(p).num \in Nat
  <1> DEFINE O == [size : Nat, perm : BOOLEAN, mapidx : Nat, mapsize : Nat]
             M == ToSet(input.mods)
             P == {input.before} \cup ToSet(input.pages)
  <1>1. /\ input.page_size \in Nat /\ input.page_off \in Nat /\ input.last_page \in Nat
        /\ input.mods \in Seq(M) /\ input.objects \in Seq(O)
        /\ input.pages \in Seq(ToSet(input.pages)) /\ Eof \notin P
        /\ \A e \in P : IF input.lx THEN e.off \in Nat /\ e.size \in Nat ELSE e.num \in Nat
    BY InputsAssumption
  <1>2. PageSize \in Nat \ {0}
    BY <1>1, SizeAssumption DEF PageSize
  <1>3. \A x \in O : x.size \in Nat /\ x.mapidx \in Nat /\ x.mapsize \in Nat
    OBVIOUS
  <1>4. \A o \in 1 .. Len(input.objects) :
          input.objects[o] \in O /\ input.objects[o] \in ToSet(input.objects)
    <2> HIDE DEF O
    <2>. QED BY <1>1 DEF ToSet
  <1>5. \A p \in 0 .. Len(input.pages) : PageAt(p) \in P
    <2> DEFINE T == ToSet(input.pages)
    <2>1. input.pages \in Seq(T)
      BY <1>1
    <2>2. T \subseteq P /\ input.before \in P
      OBVIOUS
    <2> HIDE DEF T, P
    <2>3. \A p \in 1 .. Len(input.pages) : input.pages[p] \in P
      BY <2>1, <2>2
    <2>. QED BY <2>1, <2>2, <2>3 DEF PageAt
  <1>7. input.pages \in Seq(ToSet(input.pages)) /\ input.mods \in Seq(M)
    BY <1>1
  <1> HIDE DEF O, M, P
  <1>6. Len(input.mods) \in Nat /\ Len(input.pages) \in Nat /\ Len(input.objects) \in Nat
    BY <1>1, <1>7
  <1>. QED BY <1>1, <1>2, <1>3, <1>4, <1>5, <1>6 DEF NumObjects

\* The fixups of a page are a sequence.
LEMMA FixupFacts ==
  ASSUME input \in Inputs, NEW p
  PROVE  /\ Len(FixupsOf(p)) \in Nat
         /\ DOMAIN FixupsOf(p) = 1 .. Len(FixupsOf(p))
         /\ \A k \in DOMAIN FixupsOf(p) : FixupsOf(p)[k] # Eof =>
              /\ FixupsOf(p)[k].target \in {"internal", "ordinal", "name", "entry"}
              /\ FixupsOf(p)[k].offs \in Seq(Int)
              /\ FixupsOf(p)[k].target = "internal" =>
                   FixupsOf(p)[k].obj \in Nat /\ FixupsOf(p)[k].off \in Nat
  <1>1. CASE FixupsOf(p) = <<>>
    BY <1>1
  <1>2. CASE FixupsOf(p) # <<>>
    <2>1. p \in DOMAIN input.fixups /\ FixupsOf(p) = input.fixups[p]
      BY <1>2 DEF FixupsOf
    <2> DEFINE S == ToSet(input.fixups[p])
    <2>2. input.fixups[p] \in Seq(S)
      BY <2>1, InputsAssumption
    <2>3. \A k \in DOMAIN input.fixups[p] : input.fixups[p][k] \in S
      BY DEF ToSet
    <2> HIDE DEF S
    <2>4. Len(input.fixups[p]) \in Nat /\ DOMAIN input.fixups[p] = 1 .. Len(input.fixups[p])
      BY <2>2
    <2>5. \A x \in S \ {Eof} :
            /\ x.target \in {"internal", "ordinal", "name", "entry"} /\ x.offs \in Seq(Int)
            /\ x.target = "internal" => x.obj \in Nat /\ x.off \in Nat
      BY <2>1, InputsAssumption, Zenon DEF S
    <2>. QED BY <2>1, <2>3, <2>4, <2>5
  <1>. QED BY <1>1, <1>2

\* No step changes the file.
LEMMA InputStays ==
  ASSUME [Next]_vars
  PROVE  input' = input
  BY DEF Next, Work, Terminating, vars, CreateImport, ImportsCreated, ReadObject, ObjectsRead,
         OpenObject, PagesDone, CloseObject, MapPage, ApplyFixup, TruncatedFixup,
         FixupsDone, EndPage, SegmentsLoaded, ReadName, NextNameTable, SetEntryPoint, LoadVxd

\* So the number of records before a truncated one stays.
LEMMA FixupCountStays ==
  ASSUME input' = input, NEW p
  PROVE  FixupCount(p)' = FixupCount(p)
  <1> DEFINE cut == {k \in DOMAIN FixupsOf(p) : FixupsOf(p)[k] = Eof}
             Top(c) == CHOOSE j \in {x - 1 : x \in c} : \A x \in c : j < x
  <1>1. FixupsOf(p)' = FixupsOf(p)
    BY DEF FixupsOf
  <1>2. cut' = cut
    BY <1>1
  <1>3. FixupCount(p) = IF cut = {} THEN Len(FixupsOf(p)) ELSE Top(cut)
    BY Zenon DEF FixupCount
  <1>4. FixupCount(p)' = IF cut' = {} THEN Len(FixupsOf(p)') ELSE Top(cut')
    BY Zenon DEF FixupCount
  <1> HIDE DEF cut, Top
  <1>. QED BY <1>1, <1>2, <1>3, <1>4

\* So what the tables say stays too.
LEMMA TablesStay ==
  ASSUME input' = input
  PROVE  /\ NumObjects' = NumObjects /\ PageSize' = PageSize
         /\ \A p : FixupsOf(p)' = FixupsOf(p)
         /\ \A o : IsMapped(o)' <=> IsMapped(o)
         /\ \A o : PagesOf(o)' = PagesOf(o)
         /\ \A o, i : HasData(o, i)' <=> HasData(o, i)
         /\ \A o, i, n : PageWalk(o, i, n)' = PageWalk(o, i, n)
         /\ \A o, n : PagesBefore(o, n)' = PagesBefore(o, n)
         /\ \A n : ObjectsBefore(n)' = ObjectsBefore(n)
  <1>1. NumObjects' = NumObjects /\ PageSize' = PageSize
    BY DEF NumObjects, PageSize
  <1>2. ASSUME NEW p PROVE FixupsOf(p)' = FixupsOf(p)
    BY DEF FixupsOf
  <1>3. ASSUME NEW o PROVE IsMapped(o)' <=> IsMapped(o)
    BY <1>1 DEF IsMapped
  <1>4. ASSUME NEW o PROVE PagesOf(o)' = PagesOf(o)
    BY DEF PagesOf
  <1>5. ASSUME NEW o, NEW i PROVE HasData(o, i)' <=> HasData(o, i)
    BY <1>1 DEF HasData, PageAt
  <1>6. ASSUME NEW p PROVE FixupCount(p)' = FixupCount(p)
    BY FixupCountStays
  <1>7. ASSUME NEW o, NEW i PROVE FixupsWalked(o, i)' = FixupsWalked(o, i)
    BY <1>5, <1>6 DEF FixupsWalked
  <1>8. ASSUME NEW o, NEW i, NEW n PROVE PageWalk(o, i, n)' = PageWalk(o, i, n)
    BY DEF PageWalk
  <1>9. ASSUME NEW o, NEW n PROVE PagesBefore(o, n)' = PagesBefore(o, n)
    BY <1>4, <1>7, <1>8 DEF PagesBefore
  <1>10. ASSUME NEW n PROVE ObjectsBefore(n)' = ObjectsBefore(n)
    BY <1>1, <1>3, <1>9 DEF ObjectsBefore
  <1>. QED BY <1>1, <1>2, <1>3, <1>4, <1>5, <1>8, <1>9, <1>10

-----------------------------------------------------------------------------
(* How the parts of the walk follow each other.                            *)

\* What is handled next is added to what has been handled.
LEMMA HandledNext ==
  ASSUME NEW a, NEW b, NEW c, NEW d, seen' = seen \cup {<<a, b, c, d>>}
  PROVE  Handled' = Handled \cup {<<a, b, c>>}
  <1> DEFINE x == <<a, b, c, d>>
  <1>1. x[1] = a /\ x[2] = b /\ x[3] = c
    OBVIOUS
  <1> HIDE DEF x
  <1>2. seen' = seen \cup {x}
    BY DEF x
  <1>3. Handled' = Handled \cup {<<x[1], x[2], x[3]>>}
    BY <1>2, Zenon DEF Handled
  <1>. QED BY <1>1, <1>3

\* A page is handled with no fixups at first, then with one more each time.
LEMMA PageWalkNext ==
  ASSUME NEW o, NEW i, NEW k \in Nat \ {0}
  PROVE  /\ PageWalk(o, i, 0) = {<<o, i, PageEntry(input.objects[o].mapidx + i)>>}
         /\ PageWalk(o, i, k) =
              PageWalk(o, i, k - 1) \cup {<<o, i, FixupOf(input.objects[o].mapidx + i, k)>>}
  <1>1. 1 .. 0 = {} /\ 1 .. k = (1 .. k - 1) \cup {k}
    OBVIOUS
  <1>2. PageWalk(o, i, 0) = {<<o, i, PageEntry(input.objects[o].mapidx + i)>>}
    BY <1>1 DEF PageWalk
  <1>3. PageWalk(o, i, k) =
          PageWalk(o, i, k - 1) \cup {<<o, i, FixupOf(input.objects[o].mapidx + i, k)>>}
    BY <1>1, Zenon DEF PageWalk
  <1>. QED BY <1>2, <1>3

\* The next page of an object.
LEMMA PagesBeforeNext ==
  ASSUME NEW o, NEW i \in PagesOf(o)
  PROVE  /\ PagesBefore(o, 0) = {}
         /\ PagesBefore(o, i + 1) = PagesBefore(o, i) \cup PageWalk(o, i, FixupsWalked(o, i))
  <1>1. PagesOf(o) \subseteq Int /\ \A j \in PagesOf(o) : j >= 0
    BY DEF PagesOf
  <1>2. {j \in PagesOf(o) : j < 0} = {}
    BY <1>1
  <1>3. {j \in PagesOf(o) : j < i + 1} = {j \in PagesOf(o) : j < i} \cup {i}
    BY <1>1
  <1>4. PagesBefore(o, 0) = {}
    BY <1>2 DEF PagesBefore
  <1>5. PagesBefore(o, i + 1) = PagesBefore(o, i) \cup PageWalk(o, i, FixupsWalked(o, i))
    BY <1>3, Zenon DEF PagesBefore
  <1>. QED BY <1>4, <1>5

\* No page is before the first.
LEMMA NoPagesBefore ==
  ASSUME NEW o
  PROVE  PagesBefore(o, 0) = {}
  <1>1. {j \in PagesOf(o) : j < 0} = {}
    BY DEF PagesOf
  <1>. QED BY <1>1 DEF PagesBefore

\* Behind the last page of an object all of its pages are done.
LEMMA AllPages ==
  ASSUME input \in Inputs, NEW o \in 1 .. NumObjects, NEW n \in Nat,
         \A i \in PagesOf(o) : i < n
  PROVE  PagesBefore(o, n) = PagesBefore(o, input.objects[o].mapsize)
  <1>1. \A i \in PagesOf(o) : i < input.objects[o].mapsize
    BY InputFacts DEF PagesOf
  <1>2. {j \in PagesOf(o) : j < n} = {j \in PagesOf(o) : j < input.objects[o].mapsize}
    BY <1>1
  <1>. QED BY <1>2, Zenon DEF PagesBefore

\* The next object, which is passed over if it has no permissions.
LEMMA ObjectsBeforeNext ==
  ASSUME input \in Inputs, NEW o \in 1 .. NumObjects
  PROVE  ObjectsBefore(o + 1) =
           ObjectsBefore(o) \cup
             IF IsMapped(o) THEN PagesBefore(o, input.objects[o].mapsize) ELSE {}
  <1>1. NumObjects \in Nat
    BY InputFacts
  <1> DEFINE Part(n) == {x \in 1 .. NumObjects : IsMapped(x) /\ x < n}
  <1>2. CASE IsMapped(o)
    <2>1. Part(o + 1) = Part(o) \cup {o}
      BY <1>1, <1>2
    <2>. QED BY <1>2, <2>1, Zenon DEF ObjectsBefore
  <1>3. CASE ~IsMapped(o)
    <2>1. Part(o + 1) = Part(o)
      BY <1>1, <1>3
    <2>. QED BY <1>3, <2>1, Zenon DEF ObjectsBefore
  <1>. QED BY <1>2, <1>3

\* No object is before the first, and all are before one that is not there.
LEMMA ObjectsBeforeEnds ==
  ASSUME input \in Inputs, NEW n \in Nat, n > NumObjects
  PROVE  /\ ObjectsBefore(1) = {}
         /\ ObjectsBefore(n) = ObjectsBefore(NumObjects + 1)
  <1>1. NumObjects \in Nat
    BY InputFacts
  <1> DEFINE Part(m) == {x \in 1 .. NumObjects : IsMapped(x) /\ x < m}
  <1>2. Part(1) = {} /\ Part(n) = Part(NumObjects + 1)
    BY <1>1
  <1>3. ObjectsBefore(1) = {}
    BY <1>2 DEF ObjectsBefore
  <1>4. ObjectsBefore(n) = ObjectsBefore(NumObjects + 1)
    BY <1>2, Zenon DEF ObjectsBefore
  <1>. QED BY <1>3, <1>4

\* The fixups of a page end with the last, or before one that is truncated.
LEMMA FixupsEnd ==
  ASSUME input \in Inputs, NEW p, NEW k \in 1 .. Len(FixupsOf(p)) + 1,
         \A j \in 1 .. k - 1 : FixupsOf(p)[j] # Eof,
         k = Len(FixupsOf(p)) + 1 \/ FixupsOf(p)[k] = Eof
  PROVE  FixupCount(p) = k - 1
  <1> DEFINE n == Len(FixupsOf(p))
             cut == {j \in DOMAIN FixupsOf(p) : FixupsOf(p)[j] = Eof}
  <1>1. n \in Nat /\ DOMAIN FixupsOf(p) = 1 .. n
    BY FixupFacts
  <1>2. CASE k = n + 1
    <2>1. cut = {}
      BY <1>1, <1>2
    <2>2. FixupCount(p) = n
      BY <2>1, Zenon DEF FixupCount
    <2>. QED BY <1>1, <1>2, <2>2
  <1>3. CASE k # n + 1
    <2>1. k \in 1 .. n /\ FixupsOf(p)[k] = Eof
      BY <1>1, <1>3
    <2>2. k \in cut /\ \A c \in cut : c \in Int /\ k <= c
      BY <1>1, <2>1
    <2> DEFINE D == {c - 1 : c \in cut}
               Q(j) == \A c \in cut : j < c
    <2>3. k - 1 \in D /\ Q(k - 1)
      BY <2>2
    <2>4. \A j \in D : Q(j) => j = k - 1
      BY <2>2
    <2>5. FixupCount(p) = CHOOSE j \in D : Q(j)
      BY <2>2, Zenon DEF FixupCount
    <2> HIDE DEF D, Q
    <2>6. \E j : j \in D /\ Q(j)
      BY <2>3
    <2>7. (CHOOSE j \in D : Q(j)) \in D /\ Q(CHOOSE j \in D : Q(j))
      BY <2>6, Zenon
    <2>. QED BY <2>4, <2>5, <2>7, Zenon
  <1>. QED BY <1>2, <1>3

-----------------------------------------------------------------------------
(* The reader.                                                             *)

\* What is saved comes last.
LEMMA Pushed ==
  ASSUME NEW p, NEW q, NEW r
  PROVE  /\ Append(<<>>, p) = <<p>>
         /\ Append(<<p>>, q) = <<p, q>>
         /\ Append(<<p, q>>, r) = <<p, q, r>>
  <1> DEFINE S == {p, q, r}
             one == Append(<<p>>, q)
             two == Append(<<p, q>>, r)
  <1>1. p \in S /\ q \in S /\ r \in S
    OBVIOUS
  <1> HIDE DEF S
  <1>2. <<p>> \in Seq(S) /\ <<p, q>> \in Seq(S) /\ <<p, q, r>> \in Seq(S)
    BY <1>1
  <1>3. one \in Seq(S) /\ two \in Seq(S)
    BY <1>1, <1>2, AppendProperties
  <1>4. Len(<<p>>) = 1 /\ Len(<<p, q>>) = 2 /\ Len(<<p, q, r>>) = 3
    OBVIOUS
  <1>5. Len(one) = 2 /\ one[1] = p /\ one[2] = q
    BY <1>1, <1>2, <1>4, AppendProperties
  <1>6. Len(two) = 3 /\ two[1] = p /\ two[2] = q /\ two[3] = r
    BY <1>1, <1>2, <1>4, AppendProperties
  <1> HIDE DEF one, two
  <1>7. \A i \in 1 .. Len(one) : one[i] = <<p, q>>[i]
    BY <1>5
  <1>8. \A i \in 1 .. Len(two) : two[i] = <<p, q, r>>[i]
    BY <1>6
  <1>9. one = <<p, q>>
    BY <1>2, <1>3, <1>4, <1>5, <1>7, SeqEqual
  <1>10. two = <<p, q, r>>
    BY <1>2, <1>3, <1>4, <1>6, <1>8, SeqEqual
  <1>11. Append(<<>>, p) = <<p>>
    OBVIOUS
  <1>. QED BY <1>9, <1>10, <1>11 DEF one, two

\* Saving keeps the place.
LEMMA SavedReader ==
  ASSUME NEW p, NEW s
  PROVE  Saved([pos |-> p, stack |-> s]) = [pos |-> p, stack |-> Append(s, p)]
  BY DEF Saved

\* After a name the reader is where it was.
LEMMA NameKeepsReader ==
  ASSUME NEW p, NEW q, NEW x, NEW off
  PROVE  AfterName([pos |-> x, stack |-> <<p, q>>], off) = [pos |-> x, stack |-> <<p, q>>]
  <1>1. Saved([pos |-> x, stack |-> <<p, q>>]) = [pos |-> x, stack |-> <<p, q, x>>]
    <2>1. Append(<<p, q>>, x) = <<p, q, x>>
      BY Pushed, Zenon
    <2>. QED BY <2>1, SavedReader, Zenon
  <1>2. At([pos |-> x, stack |-> <<p, q, x>>], <<"names", off>>) =
          [pos |-> <<"names", off>>, stack |-> <<p, q, x>>]
    BY DEF At
  <1>3. Restored([pos |-> <<"names", off>>, stack |-> <<p, q, x>>]) =
          [pos |-> x, stack |-> <<p, q>>]
    BY DEF Restored, Last, Front
  <1>. QED BY <1>1, <1>2, <1>3, Zenon DEF AfterName

-----------------------------------------------------------------------------
(* Every step keeps TypeInv and WalkInv.                                   *)

\* At the start nothing has been handled.
LEMMA InitWalk ==
  ASSUME Init
  PROVE  TypeInv /\ WalkInv
  BY DEF Init, TypeInv, WalkInv, Phases, Handled

\* The imports: the reader goes to the object table.
LEMMA ImportsWalk ==
  ASSUME TypeInv, WalkInv, CreateImport \/ ImportsCreated
  PROVE  TypeInv' /\ WalkInv'
  <1>1. /\ input' = input /\ seen' = seen /\ page' = page
        /\ pc = "imports" /\ pc' \in {"imports", "objects", "exports"}
        /\ obj' \in Nat \ {0}
        /\ pc' = "exports" => NumObjects = 0
        /\ pc' = "objects" => reader' = Saved(At(reader, ObjectTable))
    BY DEF CreateImport, ImportsCreated, TypeInv
  <1>2. TypeInv' /\ (pc' = "imports" => reader' = reader)
    BY <1>1 DEF TypeInv, Phases, CreateImport, ImportsCreated
  <1>3. Handled' = {}
    BY <1>1 DEF WalkInv, Handled
  <1>4. CASE pc' = "objects"
    <2>1. reader = [pos |-> <<"start">>, stack |-> <<>>]
      BY <1>1 DEF WalkInv
    <2>2. reader' = [pos |-> ObjectTable, stack |-> <<ObjectTable>>]
      <3>1. At(reader, ObjectTable) = [pos |-> ObjectTable, stack |-> <<>>]
        BY <2>1 DEF At
      <3>2. reader' = [pos |-> ObjectTable, stack |-> Append(<<>>, ObjectTable)]
        BY <1>1, <1>4, <3>1, SavedReader, Zenon
      <3>. QED BY <3>2, Pushed, Zenon
    <2>. QED BY <1>2, <1>3, <1>4, <2>2 DEF WalkInv
  <1>5. CASE pc' = "exports"
    <2>1. ObjectsBefore(NumObjects + 1) = {}
      <3>1. NumObjects = 0
        BY <1>1, <1>5
      <3>2. ObjectsBefore(1) = {} /\ 0 + 1 = 1
        BY <3>1, ObjectsBeforeEnds DEF TypeInv
      <3>. QED BY <3>1, <3>2
    <2>2. ObjectsBefore(NumObjects + 1)' = ObjectsBefore(NumObjects + 1)
      BY <1>1, TablesStay
    <2>. QED BY <1>2, <1>3, <1>5, <2>1, <2>2 DEF WalkInv
  <1>6. CASE pc' = "imports"
    BY <1>1, <1>2, <1>3, <1>6 DEF WalkInv
  <1>. QED BY <1>1, <1>2, <1>4, <1>5, <1>6

\* Reading the object table.
LEMMA ObjectsWalk ==
  ASSUME TypeInv, WalkInv, ReadObject \/ ObjectsRead
  PROVE  TypeInv' /\ WalkInv'
  <1>1. /\ input' = input /\ seen' = seen /\ page' = page /\ pc = "objects"
        /\ pc' \in {"objects", "rejected", "segments"}
        /\ obj' \in Nat \ {0}
        /\ pc' \in {"objects", "rejected"} => reader' = reader
        /\ pc' = "segments" => reader' = Restored(reader) /\ obj' = 1
    BY DEF ReadObject, ObjectsRead, TypeInv
  <1>2. TypeInv'
    BY <1>1 DEF TypeInv, Phases
  <1>3. Handled' = {}
    BY <1>1 DEF WalkInv, Handled
  <1>4. reader = [pos |-> ObjectTable, stack |-> <<ObjectTable>>]
    BY <1>1 DEF WalkInv
  <1>5. CASE pc' = "segments"
    <2>1. Restored(reader) = [pos |-> ObjectTable, stack |-> <<>>]
      BY <1>4 DEF Restored, Last, Front
    <2>2. NumObjects \in Nat
      BY InputFacts DEF TypeInv
    <2>3. ObjectsBefore(1) = {}
      BY <2>2, ObjectsBeforeEnds DEF TypeInv
    <2>4. ObjectsBefore(1)' = ObjectsBefore(1)
      BY <1>1, TablesStay
    <2>5. ObjectsBefore(obj)' = ObjectsBefore(1)'
      BY <1>1, <1>5
    <2>. QED BY <1>1, <1>2, <1>3, <1>5, <2>1, <2>3, <2>4, <2>5 DEF WalkInv
  <1>6. CASE pc' # "segments"
    BY <1>1, <1>2, <1>3, <1>4, <1>6 DEF WalkInv
  <1>. QED BY <1>5, <1>6

\* An object is passed over, or its part of the page map is gone to.
LEMMA OpenWalk ==
  ASSUME TypeInv, WalkInv, OpenObject
  PROVE  TypeInv' /\ WalkInv'
  <1>1. /\ input' = input /\ seen' = seen /\ pc = "segments" /\ obj \in 1 .. NumObjects
        /\ NumObjects \in Nat
    BY InputFacts DEF OpenObject, TypeInv
  <1>2. Handled' = Handled /\ Handled = ObjectsBefore(obj)
    BY <1>1 DEF WalkInv, Handled
  <1>3. reader = [pos |-> ObjectTable, stack |-> <<>>]
    BY <1>1 DEF WalkInv
  <1>4. CASE ~IsMapped(obj)
    <2>1. pc' = "segments" /\ reader' = reader /\ obj' = obj + 1 /\ page' = page
      BY <1>1, <1>4 DEF OpenObject, IsMapped
    <2>2. ObjectsBefore(obj + 1) = ObjectsBefore(obj)
      BY <1>1, <1>4, ObjectsBeforeNext DEF TypeInv
    <2>3. ObjectsBefore(obj)' = ObjectsBefore(obj')
      BY <1>1, TablesStay, Zenon DEF ObjectsBefore
    <2>4. ObjectsBefore(obj)' = Handled'
      BY <1>2, <2>1, <2>2, <2>3
    <2>5. TypeInv'
      BY <1>1, <2>1 DEF TypeInv, Phases
    <2>. QED BY <1>3, <2>1, <2>4, <2>5 DEF WalkInv
  <1>5. CASE IsMapped(obj)
    <2>1. /\ pc' = "pages" /\ obj' = obj /\ page' = 0
          /\ reader' = At(Saved(reader), PageEntry(input.objects[obj].mapidx))
      BY <1>1, <1>5 DEF OpenObject, IsMapped
    <2>2. reader' = [pos |-> PageEntry(input.objects[obj].mapidx), stack |-> <<ObjectTable>>]
      <3>1. Saved(reader) = [pos |-> ObjectTable, stack |-> Append(<<>>, ObjectTable)]
        BY <1>3, SavedReader, Zenon
      <3>2. Saved(reader) = [pos |-> ObjectTable, stack |-> <<ObjectTable>>]
        BY <3>1, Pushed, Zenon
      <3>. QED BY <2>1, <3>2 DEF At
    <2>3. /\ input.objects[obj].mapidx \in Nat /\ input.objects[obj].mapsize \in Nat
      BY <1>1, InputFacts DEF TypeInv
    <2>4. FixupPage' = input.objects[obj].mapidx
      BY <1>1, <2>1, <2>3 DEF FixupPage
    <2>5. InPageMap'
      BY <2>1 DEF InPageMap
    <2>6. TypeInv'
      BY <1>1, <1>5, <2>1, TablesStay DEF TypeInv, Phases
    <2>7. PagesBefore(obj, page)' = {}
      <3>1. PagesBefore(obj, page)' = PagesBefore(obj, 0)
        BY <1>1, <2>1, TablesStay
      <3>. QED BY <3>1, NoPagesBefore
    <2>8. ObjectsBefore(obj)' = ObjectsBefore(obj)
      BY <1>1, <2>1, TablesStay
    <2>9. AtPage'
      BY <1>1, <1>2, <2>1, <2>2, <2>3, <2>4, <2>5, <2>7, <2>8 DEF AtPage
    <2>. QED BY <2>1, <2>6, <2>9 DEF WalkInv
  <1>. QED BY <1>4, <1>5

\* The object is done with the pages that the page map has of it.
LEMMA PagesDoneWalk ==
  ASSUME TypeInv, WalkInv, PagesDone
  PROVE  TypeInv' /\ WalkInv'
  <1>1. /\ input' = input /\ seen' = seen /\ page' = page
        /\ pc = "pages" /\ pc' = "segments" /\ obj' = obj + 1
        /\ reader' = Restored(reader)
        /\ page >= input.objects[obj].mapsize \/ Delivered = Eof
    BY DEF PagesDone, CloseObject
  <1>2. AtPage /\ obj \in 1 .. NumObjects /\ NumObjects \in Nat /\ IsMapped(obj)
        /\ input \in Inputs /\ page \in Nat
    BY <1>1, InputFacts DEF WalkInv, TypeInv
  <1>3. Restored(reader) = [pos |-> ObjectTable, stack |-> <<>>]
    BY <1>2 DEF AtPage, Restored, Last, Front
  <1> DEFINE size == input.objects[obj].mapsize
             idx  == input.objects[obj].mapidx
  <1>4. /\ size \in Nat /\ idx \in Nat /\ Len(input.pages) \in Nat
        /\ \A p \in 0 .. Len(input.pages) : PageAt(p) # Eof
    BY <1>2, InputFacts
  <1>5. \A i \in PagesOf(obj) : i < page
    <2>1. CASE page >= size
      BY <1>2, <1>4, <2>1 DEF PagesOf
    <2>2. CASE page < size
      <3>1. reader.pos = <<"map", idx + page>>
        BY <1>2 DEF AtPage, PageEntry, FixupPage
      <3>2. Delivered = Eof
        BY <1>1, <1>2, <1>4, <2>2
      <3>3. ~(idx + page \in 0 .. Len(input.pages))
        BY <1>4, <3>1, <3>2 DEF Delivered
      <3>4. idx + page > Len(input.pages)
        BY <1>2, <1>4, <2>2, <3>3
      <3>. QED BY <1>2, <1>4, <3>4, SMTT(30) DEF PagesOf
    <2>. QED BY <1>2, <1>4, <2>1, <2>2
  <1>6. PagesBefore(obj, page) = PagesBefore(obj, size)
    BY <1>2, <1>5, AllPages
  <1>7. Handled = ObjectsBefore(obj + 1)
    BY <1>2, <1>6, ObjectsBeforeNext DEF AtPage
  <1>8. Handled' = ObjectsBefore(obj)'
    <2>1. Handled' = Handled
      BY <1>1 DEF Handled
    <2>2. ObjectsBefore(obj)' = ObjectsBefore(obj')
      BY <1>1, TablesStay, Zenon DEF ObjectsBefore
    <2>. QED BY <1>1, <1>7, <2>1, <2>2
  <1>9. TypeInv'
    BY <1>1 DEF TypeInv, Phases
  <1>. QED BY <1>1, <1>3, <1>8, <1>9 DEF WalkInv

\* What the page map delivers for a page of an object that is there.
LEMMA PageDelivered ==
  ASSUME TypeInv, pc = "pages", AtPage, page < input.objects[obj].mapsize, Delivered # Eof
  PROVE  /\ page \in PagesOf(obj)
         /\ Delivered = PageAt(FixupPage)
         /\ HasData(obj, page) <=>
              ~(PlaceOf(Delivered).off = 0 \/ PlaceOf(Delivered).size = 0)
         /\ FixupPage \in Nat
  <1> DEFINE size == input.objects[obj].mapsize
             idx  == input.objects[obj].mapidx
             e    == PageAt(idx + page)
  <1>1. /\ obj \in 1 .. NumObjects /\ NumObjects \in Nat /\ input \in Inputs /\ page \in Nat
    BY InputFacts DEF TypeInv
  <1>2. /\ size \in Nat /\ idx \in Nat /\ Len(input.pages) \in Nat
    BY <1>1, InputFacts
  <1>3. reader.pos = <<"map", idx + page>> /\ FixupPage = idx + page
    BY DEF AtPage, PageEntry, FixupPage
  <1>4. idx + page \in 0 .. Len(input.pages) /\ Delivered = e
    BY <1>3 DEF Delivered
  <1>5. page \in PagesOf(obj)
    BY <1>1, <1>2, <1>4 DEF PagesOf
  <1>6. /\ PageSize \in Nat \ {0} /\ input.page_off \in Nat /\ input.last_page \in Nat
        /\ input.lx => e.off \in Nat /\ e.size \in Nat
        /\ ~input.lx => e.num \in Nat
    BY <1>1, <1>4, InputFacts
  <1>7. HasData(obj, page) <=> IF input.lx THEN input.page_off + e.off # 0 /\ e.size > 0
                               ELSE e.num > 0 /\ input.page_off + (e.num - 1) * PageSize # 0
    BY DEF HasData
  <1>8. CASE input.lx
    <2>1. PlaceOf(e).off = input.page_off + e.off /\ PlaceOf(e).size = e.size
      BY <1>8 DEF PlaceOf
    <2>2. e.size > 0 <=> e.size # 0
      BY <1>6, <1>8
    <2> HIDE DEF e, idx, size
    <2>. QED BY <1>2, <1>1, <1>3, <1>4, <1>5, <1>7, <1>8, <2>1, <2>2 DEF idx, e
  <1>9. CASE ~input.lx
    <2>1. /\ PlaceOf(e).off = IF e.num = 0 THEN 0 ELSE input.page_off + (e.num - 1) * PageSize
          /\ PlaceOf(e).size = IF e.num = input.num_pages /\ input.last_page # 0
                                 THEN input.last_page ELSE PageSize
      BY <1>9 DEF PlaceOf
    <2>2. PlaceOf(e).size # 0
      BY <1>6, <2>1
    <2>3. e.num > 0 <=> e.num # 0
      BY <1>6, <1>9
    <2> DEFINE off == input.page_off + (e.num - 1) * PageSize
    <2>4. /\ HasData(obj, page) <=> e.num # 0 /\ off # 0
          /\ PlaceOf(e).off = IF e.num = 0 THEN 0 ELSE off
      BY <1>7, <1>9, <2>1, <2>3
    <2> HIDE DEF off, e
    <2>5. HasData(obj, page) <=> ~(PlaceOf(e).off = 0 \/ PlaceOf(e).size = 0)
      BY <2>2, <2>4
    <2>. QED BY <1>1, <1>2, <1>3, <1>4, <1>5, <2>5 DEF e
  <1>. QED BY <1>8, <1>9

\* A page is passed over, or mapped and its fixups gone to.
LEMMA MapPageWalk ==
  ASSUME TypeInv, WalkInv, MapPage
  PROVE  TypeInv' /\ WalkInv'
  <1> DEFINE e == Delivered
             p == FixupPage
  <1>1. /\ input' = input /\ obj' = obj /\ pc = "pages"
        /\ page < input.objects[obj].mapsize /\ e # Eof
        /\ seen' = seen \cup {<<obj, page, reader.pos, 0>>}
    BY DEF MapPage
  <1>2. /\ AtPage /\ obj \in 1 .. NumObjects /\ NumObjects \in Nat /\ input \in Inputs
        /\ page \in Nat /\ IsMapped(obj) /\ input.objects[obj].mapsize \in Nat
        /\ input.objects[obj].mapidx \in Nat
    BY <1>1, InputFacts DEF WalkInv, TypeInv
  <1>3. /\ page \in PagesOf(obj) /\ p \in Nat
        /\ HasData(obj, page) <=> ~(PlaceOf(e).off = 0 \/ PlaceOf(e).size = 0)
    BY <1>1, <1>2, PageDelivered
  <1>4. reader = [pos |-> PageEntry(p), stack |-> <<ObjectTable>>] /\ reader.pos[2] = p
    BY <1>2 DEF AtPage, PageEntry
  <1>5. NextPage(reader) = [pos |-> PageEntry(p + 1), stack |-> <<ObjectTable>>]
    BY <1>4 DEF NextPage, At
  <1>6. PageWalk(obj, page, 0) = {<<obj, page, PageEntry(p)>>}
    BY PageWalkNext DEF FixupPage
  <1>7. Handled' = ObjectsBefore(obj) \cup PagesBefore(obj, page) \cup PageWalk(obj, page, 0)
    <2>1. Handled' = Handled \cup {<<obj, page, PageEntry(p)>>}
      BY <1>1, <1>4, HandledNext
    <2>. QED BY <1>2, <1>6, <2>1 DEF AtPage
  <1>8. TypeInv'
    <2>1. pc' \in {"pages", "fixups"} /\ page' \in Nat
      BY <1>1, <1>2 DEF MapPage
    <2>. QED BY <1>1, <1>2, <2>1, TablesStay DEF TypeInv, Phases
  <1> HIDE DEF e
  <1>9. CASE ~HasData(obj, page)
    <2>1. pc' = "pages" /\ page' = page + 1 /\ reader' = NextPage(reader)
      BY <1>1, <1>3, <1>9 DEF MapPage, e
    <2>2. FixupPage' = p + 1
      BY <1>1, <1>2, <2>1 DEF FixupPage
    <2>3. InPageMap'
      <3>1. \A j \in 0 .. page : j \in PagesOf(obj)
        BY <1>2, <1>3 DEF AtPage, InPageMap
      <3>. QED BY <1>1, <1>2, <2>1, <3>1, TablesStay DEF InPageMap
    <2>4. PagesBefore(obj, page)' = PagesBefore(obj, page) \cup PageWalk(obj, page, 0)
      <3>1. PagesBefore(obj, page + 1) = PagesBefore(obj, page) \cup PageWalk(obj, page, 0)
        BY <1>3, <1>9, PagesBeforeNext DEF FixupsWalked
      <3>2. PagesBefore(obj, page)' = PagesBefore(obj, page + 1)
        BY <1>1, <2>1, TablesStay
      <3>. QED BY <3>1, <3>2
    <2>5. ObjectsBefore(obj)' = ObjectsBefore(obj)
      BY <1>1, TablesStay
    <2>6. AtPage'
      <3>1. page + 1 <= input.objects[obj].mapsize
        BY <1>1, <1>2
      <3>. QED BY <1>1, <1>5, <1>7, <2>1, <2>2, <2>3, <2>4, <2>5, <3>1 DEF AtPage
    <2>. QED BY <1>8, <2>1, <2>6 DEF WalkInv
  <1>10. CASE HasData(obj, page)
    <2>1. pc' = "fixups" /\ page' = page
          /\ reader' = At(Saved(NextPage(reader)), FixupOf(p, 1))
      BY <1>1, <1>3, <1>10 DEF MapPage, e
    <2>2. reader' = [pos |-> FixupOf(p, 1), stack |-> <<ObjectTable, PageEntry(p + 1)>>]
      <3>1. Saved(NextPage(reader)) =
              [pos |-> PageEntry(p + 1), stack |-> Append(<<ObjectTable>>, PageEntry(p + 1))]
        BY <1>5, SavedReader, Zenon
      <3>2. Saved(NextPage(reader)) =
              [pos |-> PageEntry(p + 1), stack |-> <<ObjectTable, PageEntry(p + 1)>>]
        BY <3>1, Pushed, Zenon
      <3>. QED BY <2>1, <3>2 DEF At
    <2>3. FixupPage' = p
      BY <1>1, <2>1 DEF FixupPage
    <2>4. /\ InPageMap' /\ (page \in PagesOf(obj))' /\ HasData(obj, page)'
      BY <1>1, <1>2, <1>3, <1>10, <2>1, TablesStay DEF InPageMap, AtPage
    <2>5. /\ ObjectsBefore(obj)' = ObjectsBefore(obj)
          /\ PagesBefore(obj, page)' = PagesBefore(obj, page)
          /\ PageWalk(obj, page, 0)' = PageWalk(obj, page, 0)
          /\ FixupsOf(FixupPage)' = FixupsOf(p)
      BY <1>1, <2>1, <2>3, TablesStay
    <2>6. Len(FixupsOf(p)) \in Nat
      BY <1>2, FixupFacts
    <2>7. 1 \in 1 .. Len(FixupsOf(p)) + 1 /\ 1 .. 1 - 1 = {} /\ 1 - 1 = 0
      BY <2>6
    <2>8. AtFixup'
      BY <1>7, <2>2, <2>3, <2>4, <2>5, <2>7 DEF AtFixup
    <2>. QED BY <1>8, <2>1, <2>8 DEF WalkInv
  <1>. QED BY <1>9, <1>10

\* One more fixup, whose name may be elsewhere.
LEMMA ApplyFixupWalk ==
  ASSUME TypeInv, WalkInv, ApplyFixup
  PROVE  TypeInv' /\ WalkInv'
  <1> DEFINE p == FixupPage
             f == FixupsOf(p)[reader.pos[3]]
  <1>1. /\ input' = input /\ obj' = obj /\ page' = page /\ pc = "fixups" /\ pc' = pc
        /\ reader.pos[3] <= Len(FixupsOf(p)) /\ f # Eof
        /\ reader' = IF f.target = "name" THEN AfterName(NextFixup(reader), f.name)
                     ELSE NextFixup(reader)
        /\ \E to : seen' = seen \cup {<<obj, page, reader.pos, to>>}
    BY Zenon DEF ApplyFixup, InFixups
  <1>2. AtFixup /\ input \in Inputs
    BY <1>1 DEF WalkInv, TypeInv
  <1>3. PICK k \in 1 .. Len(FixupsOf(p)) + 1 :
          /\ reader = [pos |-> FixupOf(p, k), stack |-> <<ObjectTable, PageEntry(p + 1)>>]
          /\ \A j \in 1 .. k - 1 : FixupsOf(p)[j] # Eof
          /\ Handled = ObjectsBefore(obj) \cup PagesBefore(obj, page) \cup PageWalk(obj, page, k - 1)
    BY <1>2 DEF AtFixup
  <1>4. Len(FixupsOf(p)) \in Nat
    BY <1>2, FixupFacts
  <1>5. reader.pos[2] = p /\ reader.pos[3] = k /\ reader.pos = FixupOf(p, k)
    BY <1>3 DEF FixupOf
  <1>6. k \in 1 .. Len(FixupsOf(p)) /\ k + 1 \in 1 .. Len(FixupsOf(p)) + 1
    BY <1>1, <1>4, <1>5
  <1>7. NextFixup(reader) = [pos |-> FixupOf(p, k + 1), stack |-> <<ObjectTable, PageEntry(p + 1)>>]
    BY <1>3, <1>5 DEF NextFixup, At
  <1>8. reader' = [pos |-> FixupOf(p, k + 1), stack |-> <<ObjectTable, PageEntry(p + 1)>>]
    <2>1. AfterName(NextFixup(reader), f.name) = NextFixup(reader)
      BY <1>7, NameKeepsReader, Zenon
    <2>. QED BY <1>1, <1>7, <2>1
  <1>9. Handled' = ObjectsBefore(obj) \cup PagesBefore(obj, page) \cup PageWalk(obj, page, k)
    <2>1. Handled' = Handled \cup {<<obj, page, FixupOf(p, k)>>}
      <3>1. PICK to : seen' = seen \cup {<<obj, page, reader.pos, to>>}
        BY <1>1
      <3>. QED BY <1>5, <3>1, HandledNext
    <2>2. PageWalk(obj, page, k) = PageWalk(obj, page, k - 1) \cup {<<obj, page, FixupOf(p, k)>>}
      BY <1>6, PageWalkNext DEF FixupPage
    <2>. QED BY <1>3, <2>1, <2>2
  <1>10. FixupPage' = p
    BY <1>1 DEF FixupPage
  <1>11. /\ ObjectsBefore(obj)' = ObjectsBefore(obj)
         /\ PagesBefore(obj, page)' = PagesBefore(obj, page)
         /\ PageWalk(obj, page, k)' = PageWalk(obj, page, k)
         /\ FixupsOf(FixupPage)' = FixupsOf(p)
    BY <1>1, <1>10, TablesStay
  <1>12. InPageMap' /\ (page \in PagesOf(obj))' /\ HasData(obj, page)'
    BY <1>1, <1>2, TablesStay DEF AtFixup, InPageMap
  <1>13. \A j \in 1 .. k : FixupsOf(p)[j] # Eof
    <2>1. f = FixupsOf(p)[k]
      BY <1>5
    <2>. QED BY <1>1, <1>3, <1>6, <2>1
  <1> DEFINE n == k + 1
  <1>14. n \in 1 .. Len(FixupsOf(p)) + 1 /\ n - 1 = k
    BY <1>6
  <1> HIDE DEF n
  <1>15. /\ reader' = [pos |-> FixupOf(p, n), stack |-> <<ObjectTable, PageEntry(p + 1)>>]
         /\ \A j \in 1 .. n - 1 : FixupsOf(p)[j] # Eof
         /\ Handled' = ObjectsBefore(obj) \cup PagesBefore(obj, page) \cup PageWalk(obj, page, n - 1)
    BY <1>8, <1>9, <1>13, <1>14 DEF n
  <1>16. AtFixup'
    BY <1>10, <1>11, <1>12, <1>14, <1>15 DEF AtFixup
  <1>17. TypeInv'
    BY <1>1, TablesStay DEF TypeInv
  <1>. QED BY <1>1, <1>16, <1>17 DEF WalkInv

\* The fixups of a page end, and the reader is back in the page map.
LEMMA EndPageWalk ==
  ASSUME TypeInv, WalkInv, TruncatedFixup \/ FixupsDone
  PROVE  TypeInv' /\ WalkInv'
  <1> DEFINE p == FixupPage
  <1>1. /\ input' = input /\ obj' = obj /\ seen' = seen /\ page' = page + 1
        /\ pc = "fixups" /\ pc' = "pages" /\ reader' = Restored(reader)
        /\ \/ ~InFixups
           \/ InFixups /\ FixupsOf(p)[reader.pos[3]] = Eof
    BY DEF TruncatedFixup, FixupsDone, EndPage, InFixups
  <1>2. /\ AtFixup /\ input \in Inputs /\ page \in Nat /\ obj \in 1 .. NumObjects
        /\ IsMapped(obj) /\ page \in PagesOf(obj) /\ HasData(obj, page)
        /\ input.objects[obj].mapsize \in Nat /\ input.objects[obj].mapidx \in Nat
    <2>1. AtFixup /\ input \in Inputs /\ page \in Nat /\ IsMapped(obj)
      BY <1>1 DEF WalkInv, TypeInv
    <2>2. obj \in 1 .. NumObjects
      BY <2>1 DEF IsMapped
    <2>. QED BY <2>1, <2>2, InputFacts DEF AtFixup
  <1>3. PICK k \in 1 .. Len(FixupsOf(p)) + 1 :
          /\ reader = [pos |-> FixupOf(p, k), stack |-> <<ObjectTable, PageEntry(p + 1)>>]
          /\ \A j \in 1 .. k - 1 : FixupsOf(p)[j] # Eof
          /\ Handled = ObjectsBefore(obj) \cup PagesBefore(obj, page) \cup PageWalk(obj, page, k - 1)
    BY <1>2 DEF AtFixup
  <1>4. Len(FixupsOf(p)) \in Nat
    BY <1>2, FixupFacts
  <1>5. reader.pos[1] = "fixups" /\ reader.pos[3] = k
    BY <1>3 DEF FixupOf
  <1>6. k = Len(FixupsOf(p)) + 1 \/ FixupsOf(p)[k] = Eof
    BY <1>1, <1>4, <1>5 DEF InFixups
  <1>7. FixupCount(p) = k - 1
    BY <1>2, <1>3, <1>6, FixupsEnd
  <1>8. FixupsWalked(obj, page) = k - 1
    BY <1>2, <1>7 DEF FixupsWalked, FixupPage
  <1>9. PagesBefore(obj, page + 1) = PagesBefore(obj, page) \cup PageWalk(obj, page, k - 1)
    BY <1>2, <1>8, PagesBeforeNext
  <1>10. reader' = [pos |-> PageEntry(p + 1), stack |-> <<ObjectTable>>]
    BY <1>1, <1>3 DEF Restored, Last, Front
  <1>11. Handled' = ObjectsBefore(obj) \cup PagesBefore(obj, page + 1)
    BY <1>1, <1>3, <1>9 DEF Handled
  <1>12. FixupPage' = p + 1
    BY <1>1, <1>2 DEF FixupPage
  <1>13. /\ ObjectsBefore(obj)' = ObjectsBefore(obj)
         /\ PagesBefore(obj, page)' = PagesBefore(obj, page + 1)
    BY <1>1, TablesStay
  <1>14. InPageMap'
    <2>1. \A j \in 0 .. page : j \in PagesOf(obj)
      BY <1>2 DEF AtFixup, InPageMap
    <2>. QED BY <1>1, <1>2, <2>1, TablesStay DEF InPageMap
  <1>15. page + 1 <= input.objects[obj].mapsize
    BY <1>2 DEF PagesOf
  <1>16. AtPage'
    BY <1>1, <1>10, <1>11, <1>12, <1>13, <1>14, <1>15 DEF AtPage
  <1>17. TypeInv'
    BY <1>1, <1>2, TablesStay DEF TypeInv, Phases
  <1>. QED BY <1>1, <1>16, <1>17 DEF WalkInv

\* Nothing is walked behind the objects.
LEMMA LateWalk ==
  ASSUME TypeInv, WalkInv,
         SegmentsLoaded \/ ReadName \/ NextNameTable \/ SetEntryPoint \/ LoadVxd
  PROVE  TypeInv' /\ WalkInv'
  <1>1. /\ input' = input /\ seen' = seen
        /\ pc \in {"segments", "exports", "vxd"}
        /\ pc' \in {"exports", "vxd", "loaded"}
        /\ obj' \in Nat \ {0} /\ page' \in Nat
        /\ pc = "segments" => obj > NumObjects
    BY DEF SegmentsLoaded, ReadName, NextNameTable, SetEntryPoint, LoadVxd, NamesLeft, TypeInv
  <1>2. TypeInv'
    BY <1>1 DEF TypeInv, Phases
  <1>3. Handled = ObjectsBefore(NumObjects + 1)
    <2>1. CASE pc = "segments"
      <3>1. Handled = ObjectsBefore(obj) /\ obj \in Nat
        BY <2>1 DEF WalkInv, TypeInv
      <3>. QED BY <1>1, <2>1, <3>1, ObjectsBeforeEnds DEF TypeInv
    <2>2. CASE pc # "segments"
      BY <1>1, <2>2 DEF WalkInv
    <2>. QED BY <2>1, <2>2
  <1>4. Handled' = ObjectsBefore(NumObjects + 1)'
    BY <1>1, <1>3, TablesStay DEF Handled
  <1>. QED BY <1>1, <1>2, <1>4 DEF WalkInv

\* So both are inductive.
LEMMA WalkStep ==
  ASSUME TypeInv, WalkInv, [Next]_vars
  PROVE  TypeInv' /\ WalkInv'
  <1>1. CASE UNCHANGED vars
    <2>1. input' = input /\ pc' = pc /\ obj' = obj /\ page' = page /\ reader' = reader
          /\ seen' = seen
      BY <1>1 DEF vars
    <2>2. Handled' = Handled /\ FixupPage' = FixupPage
      BY <2>1 DEF Handled, FixupPage
    <2>3. TypeInv'
      BY <2>1, TablesStay DEF TypeInv
    <2>4. /\ ObjectsBefore(obj)' = ObjectsBefore(obj)
          /\ ObjectsBefore(NumObjects + 1)' = ObjectsBefore(NumObjects + 1)
          /\ PagesBefore(obj, page)' = PagesBefore(obj, page)
      BY <2>1, TablesStay
    <2>5. InPageMap' <=> InPageMap
      BY <2>1, TablesStay DEF InPageMap
    <2>6. AtPage => AtPage'
      BY <2>1, <2>2, <2>4, <2>5 DEF AtPage
    <2>7. AtFixup => AtFixup'
      <3>1. /\ (page \in PagesOf(obj))' <=> page \in PagesOf(obj)
            /\ HasData(obj, page)' <=> HasData(obj, page)
            /\ FixupsOf(FixupPage)' = FixupsOf(FixupPage)
            /\ \A n : PageWalk(obj, page, n)' = PageWalk(obj, page, n)
        BY <2>1, <2>2, TablesStay
      <3>. QED BY <2>1, <2>2, <2>4, <2>5, <3>1 DEF AtFixup
    <2>. QED BY <2>1, <2>2, <2>3, <2>4, <2>6, <2>7 DEF WalkInv
  <1>2. CASE Work
    BY <1>2, ImportsWalk, ObjectsWalk, OpenWalk, PagesDoneWalk, MapPageWalk, ApplyFixupWalk,
       EndPageWalk, LateWalk DEF Work
  <1>. QED BY <1>1, <1>2 DEF Next, Terminating

\* When all is loaded the walk is what the tables ask for.
LEMMA WalkIsComplete ==
  ASSUME TypeInv, WalkInv
  PROVE  TablesWalked
  <1> SUFFICES ASSUME Loaded PROVE TablesWalked
    BY DEF TablesWalked
  <1> DEFINE Fixed(o, i) ==
               {<<o, i, FixupOf(input.objects[o].mapidx + i, k)>> :
                  k \in IF HasData(o, i) THEN 1 .. FixupCount(input.objects[o].mapidx + i) ELSE {}}
             Part(o) == UNION {{<<o, i, PageEntry(input.objects[o].mapidx + i)>>} \cup Fixed(o, i) :
                                 i \in PagesOf(o)}
             Objects == {x \in 1 .. NumObjects : IsMapped(x)}
  <1>1. ASSUME NEW o, NEW i
        PROVE  PageWalk(o, i, FixupsWalked(o, i)) =
                 {<<o, i, PageEntry(input.objects[o].mapidx + i)>>} \cup Fixed(o, i)
    <2>1. CASE HasData(o, i)
      BY <2>1, Zenon DEF PageWalk, FixupsWalked
    <2>2. CASE ~HasData(o, i)
      <3>1. 1 .. 0 = {}
        OBVIOUS
      <3>2. FixupsWalked(o, i) = 0 /\ Fixed(o, i) = {}
        BY <2>2 DEF FixupsWalked
      <3>. QED BY <3>1, <3>2 DEF PageWalk
    <2>. QED BY <2>1, <2>2
  <1>2. ASSUME NEW o \in 1 .. NumObjects
        PROVE  PagesBefore(o, input.objects[o].mapsize) = Part(o)
    <2>1. {j \in PagesOf(o) : j < input.objects[o].mapsize} = PagesOf(o)
      BY InputFacts DEF PagesOf, TypeInv
    <2> HIDE DEF Fixed
    <2>. QED BY <1>1, <2>1, Zenon DEF PagesBefore
  <1>3. {x \in 1 .. NumObjects : IsMapped(x) /\ x < NumObjects + 1} = Objects
    BY InputFacts DEF TypeInv
  <1> HIDE DEF Part
  <1>4. ObjectsBefore(NumObjects + 1) = UNION {Part(o) : o \in Objects}
    <2>1. ObjectsBefore(NumObjects + 1) =
            UNION {PagesBefore(o, input.objects[o].mapsize) : o \in Objects}
      BY <1>3, Zenon DEF ObjectsBefore
    <2>. QED BY <1>2, <2>1
  <1>5. Handled = UNION {Part(o) : o \in Objects}
    BY <1>4 DEF Loaded, WalkInv
  <1>. QED BY <1>5, Zenon DEF TablesWalked, Handled, Part

\* Loading keeps track of what the reader has read.
THEOREM WalkIsTracked == Spec => [](TypeInv /\ WalkInv)
  <1>1. Init => TypeInv /\ WalkInv
    BY InitWalk
  <1>2. TypeInv /\ WalkInv /\ [Next]_vars => (TypeInv /\ WalkInv)'
    BY WalkStep
  <1>. QED BY <1>1, <1>2, PTL DEF Spec

\* The one reader that walks the page map, the fixups of a page and the names
\* of imports always comes back: each page of a mapped object and each of its
\* fixups is handled, with its own entry and its own record.
THEOREM TablesAreWalked == Spec => []TablesWalked
  <1>1. TypeInv /\ WalkInv => TablesWalked
    BY WalkIsComplete
  <1>. QED BY <1>1, WalkIsTracked, PTL

-----------------------------------------------------------------------------
(* Import slots.                                                           *)

Modules == 1 .. Len(input.mods)

\* next_off is behind an address handed out in the slot of module m.
Taken(a, m) ==
  /\ ModuleThere(m) /\ a \in Nat
  /\ ModuleSlot(m) <= a /\ a + Wide <= ModuleSlot(m) + next_off[m]

\* No module has more imports than its slot has room for.
Room == \A m \in Modules : next_off[m] <= Slot

\* No import has the address of another.
Apart ==
  /\ \A x, y \in DOMAIN named : named[x] = named[y] => x = y
  /\ \A x, y \in DOMAIN ordinals : ordinals[x] = ordinals[y] => x = y
  /\ \A x \in DOMAIN named, y \in DOMAIN ordinals : named[x] # ordinals[y]

NamesTaken == \A x \in DOMAIN named : \E m \in Modules : Taken(named[x], m)

OrdinalsTaken ==
  \A y \in DOMAIN ordinals :
    \E m \in Modules : input.mods[m] = y[1] /\ Taken(ordinals[y], m)

SlotInv ==
  /\ input \in Inputs
  /\ next_off \in [Modules -> Nat]
  /\ NamesTaken
  /\ OrdinalsTaken
  /\ Room => Apart

\* One slot ends where the next begins, or before.
LEMMA SlotsAreApart ==
  ASSUME input \in Inputs, NEW m \in Modules, NEW n \in Modules
  PROVE  /\ ModuleSlot(m) \in Nat /\ ModuleSlot(m) >= NumObjects * Slot + Slot
         /\ ModuleSlot(m) + Slot <= (NumObjects + Len(input.mods) + 1) * Slot
         /\ m < n => ModuleSlot(m) + Slot <= ModuleSlot(n)
  <1>1. /\ NumObjects \in Nat /\ Len(input.mods) \in Nat /\ Slot \in Nat \ {0}
        /\ m \in Nat \ {0} /\ n \in Nat \ {0} /\ m <= Len(input.mods)
    BY InputFacts, SizeAssumption DEF Modules
  <1>2. ASSUME NEW x \in Nat, NEW y \in Nat, x < y
        PROVE  x * Slot + Slot <= y * Slot /\ x * Slot \in Nat /\ y * Slot \in Nat
    <2>1. PICK d \in Nat : y = x + 1 + d
      <3>1. y - x - 1 \in Nat /\ y = x + 1 + (y - x - 1)
        BY <1>2
      <3>. QED BY <3>1
    <2>2. y * Slot = x * Slot + Slot + d * Slot
      BY <1>1, <2>1
    <2>3. d * Slot \in Nat /\ x * Slot \in Nat /\ y * Slot \in Nat
      BY <1>1
    <2>. QED BY <1>1, <2>2, <2>3
  <1> DEFINE a == NumObjects
             b == NumObjects + m
             c == NumObjects + n
             d == NumObjects + Len(input.mods) + 1
  <1>3. a \in Nat /\ b \in Nat /\ c \in Nat /\ d \in Nat /\ a < b /\ b < d /\ (m < n => b < c)
    BY <1>1
  <1>4. ModuleSlot(m) = b * Slot /\ ModuleSlot(n) = c * Slot
    BY DEF ModuleSlot
  <1> HIDE DEF a, b, c, d
  <1>5. a * Slot + Slot <= b * Slot /\ b * Slot + Slot <= d * Slot /\ b * Slot \in Nat
    BY <1>2, <1>3
  <1>6. m < n => b * Slot + Slot <= c * Slot
    BY <1>2, <1>3
  <1>. QED BY <1>4, <1>5, <1>6 DEF a, d

\* A fresh address is behind those of its slot, and in no other.
LEMMA FreshIsFresh ==
  ASSUME SlotInv, Room, NEW m \in Modules, ModuleThere(m), next_off[m] + Wide <= Slot,
         NEW n \in Modules, NEW a, Taken(a, n)
  PROVE  a # Fresh(m)
  <1>1. /\ Wide \in Nat \ {0} /\ Slot \in Nat /\ input \in Inputs
        /\ next_off[m] \in Nat /\ next_off[n] \in Nat /\ m \in Int /\ n \in Int
    BY SizeAssumption DEF SlotInv, Modules
  <1>2. ModuleSlot(m) \in Nat /\ ModuleSlot(n) \in Nat
    BY <1>1, SlotsAreApart
  <1>3. Fresh(m) = ModuleSlot(m) + next_off[m]
    BY DEF Fresh, ModuleBase
  <1>4. /\ a \in Nat /\ ModuleSlot(n) <= a /\ a + Wide <= ModuleSlot(n) + next_off[n]
        /\ next_off[n] <= Slot
    BY DEF Taken, Room
  <1>5. CASE m = n
    BY <1>1, <1>2, <1>3, <1>4, <1>5
  <1>6. CASE m < n
    <2>1. ModuleSlot(m) + Slot <= ModuleSlot(n)
      BY <1>1, <1>6, SlotsAreApart
    <2>. QED BY <1>1, <1>2, <1>3, <1>4, <2>1
  <1>7. CASE n < m
    <2>1. ModuleSlot(n) + Slot <= ModuleSlot(m)
      BY <1>1, <1>7, SlotsAreApart
    <2>. QED BY <1>1, <1>2, <1>3, <1>4, <2>1
  <1>. QED BY <1>1, <1>5, <1>6, <1>7

\* What the slots mean depends on the file, and on nothing a step changes.
LEMMA SlotsStay ==
  ASSUME input' = input
  PROVE  /\ Modules' = Modules
         /\ \A m : ModuleSlot(m)' = ModuleSlot(m)
         /\ \A m : ModuleThere(m)' <=> ModuleThere(m)
  BY DEF Modules, ModuleSlot, NumObjects, ModuleThere

\* An address that is taken stays so as next_off goes on.
LEMMA TakenStays ==
  ASSUME SlotInv, input' = input, next_off' \in [Modules -> Nat],
         \A m \in Modules : next_off[m] <= next_off'[m]
  PROVE  \A m \in Modules : \A a : Taken(a, m) => Taken(a, m)'
  <1> SUFFICES ASSUME NEW m \in Modules, NEW a, Taken(a, m) PROVE Taken(a, m)'
    OBVIOUS
  <1>1. /\ next_off[m] \in Nat /\ next_off'[m] \in Nat /\ next_off[m] <= next_off'[m]
        /\ ModuleSlot(m) \in Nat /\ Wide \in Nat
    BY SlotsAreApart, SizeAssumption DEF SlotInv
  <1>2. a \in Nat /\ ModuleSlot(m) <= a /\ a + Wide <= ModuleSlot(m) + next_off[m]
    BY DEF Taken
  <1>3. a + Wide <= ModuleSlot(m) + next_off'[m]
    BY <1>1, <1>2
  <1>. QED BY <1>2, <1>3, SlotsStay DEF Taken

\* Nothing is resolved, or to an address that is known.
LEMMA NothingResolved ==
  ASSUME SlotInv, input' = input, next_off' = next_off, named' = named, ordinals' = ordinals
  PROVE  SlotInv'
  <1>1. next_off' \in [Modules -> Nat] /\ \A m \in Modules : next_off[m] <= next_off'[m]
    BY DEF SlotInv
  <1>2. \A m \in Modules : \A a : Taken(a, m) => Taken(a, m)'
    BY <1>1, TakenStays
  <1>3. Modules' = Modules
    BY SlotsStay
  <1>. QED BY <1>1, <1>2, <1>3 DEF SlotInv, NamesTaken, OrdinalsTaken, Room, Apart

\* next_off goes on in one module.
LEMMA Advanced ==
  ASSUME SlotInv, input' = input, NEW m \in Modules,
         next_off' = [next_off EXCEPT ![m] = @ + Wide]
  PROVE  /\ next_off' \in [Modules -> Nat] /\ Modules' = Modules
         /\ \A n \in Modules : \A a : Taken(a, n) => Taken(a, n)'
         /\ Room' => Room /\ next_off[m] + Wide <= Slot
         /\ \A a : ModuleThere(m) /\ a = Fresh(m) => Taken(a, m)'
  <1>1. Wide \in Nat \ {0} /\ Slot \in Nat /\ next_off[m] \in Nat
        /\ \A n \in Modules : next_off[n] \in Nat
    BY SizeAssumption DEF SlotInv
  <1>2. /\ next_off' \in [Modules -> Nat]
        /\ \A n \in Modules : next_off[n] <= next_off'[n]
        /\ next_off'[m] = next_off[m] + Wide
    BY <1>1 DEF SlotInv
  <1>3. Modules' = Modules
    BY SlotsStay
  <1>4. \A n \in Modules : \A a : Taken(a, n) => Taken(a, n)'
    BY <1>2, TakenStays
  <1>5. Room' => Room /\ next_off[m] + Wide <= Slot
    BY <1>1, <1>2, <1>3 DEF Room
  <1>6. ASSUME ModuleThere(m), NEW a, a = Fresh(m) PROVE Taken(a, m)'
    <2>1. ModuleThere(m)' /\ ModuleSlot(m)' = ModuleSlot(m) /\ ModuleSlot(m) \in Nat
      BY <1>6, SlotsStay, SlotsAreApart DEF SlotInv
    <2>2. a = ModuleSlot(m) + next_off[m]
      BY <1>6 DEF Fresh, ModuleBase
    <2>3. a \in Nat /\ ModuleSlot(m) <= a /\ a + Wide <= ModuleSlot(m) + next_off'[m]
      BY <1>1, <1>2, <2>1, <2>2
    <2>. QED BY <2>1, <2>3 DEF Taken
  <1>. QED BY <1>2, <1>3, <1>4, <1>5, <1>6

\* An import without a name gets an address that the engine does not keep.
LEMMA NamelessResolved ==
  ASSUME SlotInv, input' = input, NEW m \in Modules,
         next_off' = [next_off EXCEPT ![m] = @ + Wide], named' = named, ordinals' = ordinals
  PROVE  SlotInv'
  <1>1. /\ next_off' \in [Modules -> Nat] /\ Modules' = Modules /\ (Room' => Room)
        /\ \A n \in Modules : \A a : Taken(a, n) => Taken(a, n)'
    BY Advanced
  <1>. QED BY <1>1 DEF SlotInv, NamesTaken, OrdinalsTaken, Apart

\* An import by name gets the next address of the slot.
LEMMA NameResolved ==
  ASSUME SlotInv, input' = input, NEW m \in Modules, ModuleThere(m),
         next_off' = [next_off EXCEPT ![m] = @ + Wide],
         NEW sym, sym \notin DOMAIN named,
         named' = Bind(named, sym, Fresh(m)), ordinals' = ordinals
  PROVE  SlotInv'
  <1> DEFINE new == Fresh(m)
  <1>1. /\ next_off' \in [Modules -> Nat] /\ Modules' = Modules
        /\ Room' => Room /\ next_off[m] + Wide <= Slot
        /\ \A n \in Modules : \A a : Taken(a, n) => Taken(a, n)'
        /\ \A a : a = new => Taken(a, m)'
    BY Advanced
  <1>2. Room' => \A n \in Modules : \A a : Taken(a, n) => a # new
    BY <1>1, FreshIsFresh
  <1>3. /\ DOMAIN named' = DOMAIN named \cup {sym}
        /\ named'[sym] = new
        /\ \A x \in DOMAIN named : named'[x] = named[x]
    BY DEF Bind
  <1> HIDE DEF new
  <1>4. NamesTaken'
    BY <1>1, <1>3 DEF SlotInv, NamesTaken
  <1>5. OrdinalsTaken'
    BY <1>1 DEF SlotInv, OrdinalsTaken
  <1>6. Room' => Apart'
    <2> SUFFICES ASSUME Room' PROVE Apart'
      OBVIOUS
    <2>1. Apart /\ \A n \in Modules : \A a : Taken(a, n) => a # new
      BY <1>1, <1>2 DEF SlotInv
    <2>2. /\ \A x \in DOMAIN named : named[x] # new
          /\ \A y \in DOMAIN ordinals : ordinals[y] # new
      BY <2>1 DEF SlotInv, NamesTaken, OrdinalsTaken
    <2>. QED BY <1>3, <2>1, <2>2 DEF Apart
  <1>. QED BY <1>1, <1>4, <1>5, <1>6 DEF SlotInv

\* And so does one by ordinal.
LEMMA OrdinalResolved ==
  ASSUME SlotInv, input' = input, NEW m \in Modules, ModuleThere(m),
         next_off' = [next_off EXCEPT ![m] = @ + Wide],
         NEW import, import \notin DOMAIN ordinals, import[1] = input.mods[m],
         ordinals' = Bind(ordinals, import, Fresh(m)), named' = named
  PROVE  SlotInv'
  <1> DEFINE new == Fresh(m)
  <1>1. /\ next_off' \in [Modules -> Nat] /\ Modules' = Modules
        /\ Room' => Room /\ next_off[m] + Wide <= Slot
        /\ \A n \in Modules : \A a : Taken(a, n) => Taken(a, n)'
        /\ \A a : a = new => Taken(a, m)'
    BY Advanced
  <1>2. Room' => \A n \in Modules : \A a : Taken(a, n) => a # new
    BY <1>1, FreshIsFresh
  <1>3. /\ DOMAIN ordinals' = DOMAIN ordinals \cup {import}
        /\ ordinals'[import] = new
        /\ \A x \in DOMAIN ordinals : ordinals'[x] = ordinals[x]
    BY DEF Bind
  <1> HIDE DEF new
  <1>4. NamesTaken'
    BY <1>1 DEF SlotInv, NamesTaken
  <1>5. OrdinalsTaken'
    BY <1>1, <1>3 DEF SlotInv, OrdinalsTaken
  <1>6. Room' => Apart'
    <2> SUFFICES ASSUME Room' PROVE Apart'
      OBVIOUS
    <2>1. Apart /\ \A n \in Modules : \A a : Taken(a, n) => a # new
      BY <1>1, <1>2 DEF SlotInv
    <2>2. /\ \A x \in DOMAIN named : named[x] # new
          /\ \A y \in DOMAIN ordinals : ordinals[y] # new
      BY <2>1 DEF SlotInv, NamesTaken, OrdinalsTaken
    <2>. QED BY <1>3, <2>1, <2>2 DEF Apart
  <1>. QED BY <1>1, <1>4, <1>5, <1>6 DEF SlotInv

\* What a name is resolved to, and what that takes.
LEMMA NameFields ==
  ASSUME NEW m, NEW sym
  PROVE  LET res == ResolveName(m, sym) IN
         /\ ~IsModule(m) \/ sym \in DOMAIN named =>
              res.next_off = next_off /\ res.named = named /\ res.ordinals = ordinals
         /\ IsModule(m) /\ sym \notin DOMAIN named =>
              /\ res.next_off = [next_off EXCEPT ![m] = @ + Wide]
              /\ res.ordinals = ordinals
              /\ res.named = IF sym = NoName \/ ~ModuleThere(m) THEN named
                             ELSE Bind(named, sym, Fresh(m))
  <1> DEFINE res == ResolveName(m, sym)
             new == [Found(Fresh(m)) EXCEPT
                       !.next_off[m] = @ + Wide,
                       !.named = IF sym = NoName \/ ~ModuleThere(m) THEN @ ELSE Bind(@, sym, Fresh(m))]
  <1>1. CASE ~IsModule(m)
    <2>1. res = Found(0)
      BY <1>1, Zenon DEF ResolveName
    <2>. QED BY <1>1, <2>1 DEF Found
  <1>2. CASE IsModule(m) /\ sym \in DOMAIN named
    <2>1. res = Found(named[sym])
      BY <1>2, Zenon DEF ResolveName
    <2>. QED BY <1>2, <2>1 DEF Found
  <1>3. CASE IsModule(m) /\ sym \notin DOMAIN named
    <2>1. res = new
      BY <1>3, Zenon DEF ResolveName
    <2>2. /\ new.next_off = [next_off EXCEPT ![m] = @ + Wide]
          /\ new.ordinals = ordinals
          /\ new.named = IF sym = NoName \/ ~ModuleThere(m) THEN named
                         ELSE Bind(named, sym, Fresh(m))
      BY DEF Found
    <2>. QED BY <1>3, <2>1, <2>2
  <1>. QED BY <1>1, <1>2, <1>3

\* And an ordinal.
LEMMA OrdinalFields ==
  ASSUME NEW m, NEW ord
  PROVE  LET res    == ResolveOrdinal(m, ord)
             import == <<ModuleName(m), ord>>
         IN  /\ ~IsModule(m) \/ import \in DOMAIN ordinals =>
                  res.next_off = next_off /\ res.named = named /\ res.ordinals = ordinals
             /\ IsModule(m) /\ import \notin DOMAIN ordinals =>
                  /\ res.next_off = [next_off EXCEPT ![m] = @ + Wide]
                  /\ res.named = named
                  /\ res.ordinals = IF ModuleThere(m) THEN Bind(ordinals, import, Fresh(m))
                                    ELSE ordinals
  <1> DEFINE res == ResolveOrdinal(m, ord)
             import == <<ModuleName(m), ord>>
             new == [Found(Fresh(m)) EXCEPT
                       !.next_off[m] = @ + Wide,
                       !.ordinals = IF ModuleThere(m) THEN Bind(@, import, Fresh(m)) ELSE @]
  <1>1. CASE ~IsModule(m)
    <2>1. res = Found(0)
      BY <1>1, Zenon DEF ResolveOrdinal
    <2>. QED BY <1>1, <2>1 DEF Found
  <1>2. CASE IsModule(m) /\ import \in DOMAIN ordinals
    <2>1. res = Found(ordinals[import])
      BY <1>2, Zenon DEF ResolveOrdinal
    <2>. QED BY <1>2, <2>1 DEF Found
  <1>3. CASE IsModule(m) /\ import \notin DOMAIN ordinals
    <2>1. res = new
      BY <1>3, Zenon DEF ResolveOrdinal
    <2>2. /\ new.next_off = [next_off EXCEPT ![m] = @ + Wide]
          /\ new.named = named
          /\ new.ordinals = IF ModuleThere(m) THEN Bind(ordinals, import, Fresh(m))
                            ELSE ordinals
      BY DEF Found
    <2>. QED BY <1>3, <2>1, <2>2
  <1>. QED BY <1>1, <1>2, <1>3

\* Whatever the target of a fixup, the slots stay in order.
LEMMA FixupResolved ==
  ASSUME SlotInv, input' = input,
         NEW f, f.target \in {"internal", "ordinal", "name", "entry"},
         next_off' = Target(f).next_off, named' = Target(f).named,
         ordinals' = Target(f).ordinals
  PROVE  SlotInv'
  <1>1. CASE f.target \in {"internal", "entry"}
    <2>1. \E to : Target(f) = Found(to)
      BY <1>1 DEF Target
    <2>2. next_off' = next_off /\ named' = named /\ ordinals' = ordinals
      BY <2>1 DEF Found
    <2>. QED BY <2>2, NothingResolved
  <1>2. CASE f.target = "name"
    <2> DEFINE m == f.mod
               sym == ProcName(f.name)
    <2>1. Target(f) = ResolveName(m, sym)
      BY <1>2 DEF Target
    <2> HIDE DEF m, sym
    <2>2. CASE ~IsModule(m) \/ sym \in DOMAIN named
      <3>1. next_off' = next_off /\ named' = named /\ ordinals' = ordinals
        <4> DEFINE res == ResolveName(m, sym)
        <4>1. res.next_off = next_off /\ res.named = named /\ res.ordinals = ordinals
          BY <2>2, NameFields, Zenon
        <4>. QED BY <2>1, <4>1
      <3>. QED BY <3>1, NothingResolved
    <2>3. CASE IsModule(m) /\ sym \notin DOMAIN named
      <3>1. m \in Modules
        BY <2>3 DEF IsModule, Modules
      <3>2. /\ next_off' = [next_off EXCEPT ![m] = @ + Wide]
            /\ ordinals' = ordinals
            /\ named' = IF sym = NoName \/ ~ModuleThere(m) THEN named
                        ELSE Bind(named, sym, Fresh(m))
        BY <2>1, <2>3, NameFields
      <3>3. CASE sym = NoName \/ ~ModuleThere(m)
        BY <3>1, <3>2, <3>3, NamelessResolved
      <3>4. CASE ~(sym = NoName \/ ~ModuleThere(m))
        BY <2>3, <3>1, <3>2, <3>4, NameResolved
      <3>. QED BY <3>3, <3>4
    <2>. QED BY <2>2, <2>3
  <1>3. CASE f.target = "ordinal"
    <2> DEFINE m == f.mod
               import == <<ModuleName(m), f.ord>>
    <2>1. Target(f) = ResolveOrdinal(m, f.ord)
      BY <1>3 DEF Target
    <2> HIDE DEF m
    <2>2. CASE ~IsModule(m) \/ import \in DOMAIN ordinals
      <3>1. next_off' = next_off /\ named' = named /\ ordinals' = ordinals
        <4> DEFINE res == ResolveOrdinal(m, f.ord)
        <4>1. res.next_off = next_off /\ res.named = named /\ res.ordinals = ordinals
          BY <2>2, OrdinalFields, Zenon
        <4>. QED BY <2>1, <4>1
      <3>. QED BY <3>1, NothingResolved
    <2>3. CASE IsModule(m) /\ import \notin DOMAIN ordinals
      <3>1. m \in Modules
        BY <2>3 DEF IsModule, Modules
      <3>2. /\ next_off' = [next_off EXCEPT ![m] = @ + Wide]
            /\ named' = named
            /\ ordinals' = IF ModuleThere(m) THEN Bind(ordinals, import, Fresh(m))
                           ELSE ordinals
        BY <2>1, <2>3, OrdinalFields
      <3>3. CASE ~ModuleThere(m)
        BY <3>1, <3>2, <3>3, NamelessResolved
      <3>4. CASE ModuleThere(m)
        <4>1. import[1] = input.mods[m]
          BY <3>4 DEF ModuleName
        <4> HIDE DEF import
        <4>. QED BY <2>3, <3>1, <3>2, <3>4, <4>1, OrdinalResolved
      <3>. QED BY <3>3, <3>4
    <2>. QED BY <2>2, <2>3
  <1>. QED BY <1>1, <1>2, <1>3

\* At the start no slot is in use.
LEMMA InitSlots ==
  ASSUME Init
  PROVE  SlotInv
  BY DEF Init, SlotInv, NamesTaken, OrdinalsTaken, Apart, Modules

\* Only the fixups resolve imports.
LEMMA SlotStep ==
  ASSUME SlotInv, TypeInv, WalkInv, [Next]_vars
  PROVE  SlotInv'
  <1>1. input' = input
    BY InputStays
  <1>2. CASE ApplyFixup
    <2> DEFINE p == FixupPage
               k == reader.pos[3]
               f == FixupsOf(p)[k]
    <2>1. /\ f # Eof /\ next_off' = Target(f).next_off /\ named' = Target(f).named
          /\ ordinals' = Target(f).ordinals
      BY <1>2 DEF ApplyFixup
    <2>2. k \in DOMAIN FixupsOf(p)
      <3>1. k <= Len(FixupsOf(p)) /\ AtFixup
        BY <1>2 DEF ApplyFixup, InFixups, WalkInv
      <3>2. PICK j \in 1 .. Len(FixupsOf(p)) + 1 : reader.pos = FixupOf(p, j)
        BY <3>1 DEF AtFixup
      <3>3. k = j
        BY <3>2 DEF FixupOf
      <3>. QED BY <3>1, <3>2, <3>3, FixupFacts DEF SlotInv
    <2>3. f.target \in {"internal", "ordinal", "name", "entry"}
      BY <2>1, <2>2, FixupFacts DEF SlotInv
    <2> HIDE DEF f
    <2>. QED BY <1>1, <2>1, <2>3, FixupResolved
  <1>3. CASE TruncatedFixup
    <2>1. PICK f \in input.junk : /\ next_off' = Target(f).next_off /\ named' = Target(f).named
                                  /\ ordinals' = Target(f).ordinals
      BY <1>3 DEF TruncatedFixup
    <2>2. f.target \in {"internal", "ordinal", "name", "entry"}
      BY InputsAssumption, Zenon DEF SlotInv
    <2>. QED BY <1>1, <2>1, <2>2, FixupResolved
  <1>4. CASE ~ApplyFixup /\ ~TruncatedFixup
    <2>1. next_off' = next_off /\ named' = named /\ ordinals' = ordinals
      BY <1>4 DEF Next, Work, Terminating, vars, CreateImport, ImportsCreated, ReadObject,
         ObjectsRead, OpenObject, PagesDone, CloseObject, MapPage, FixupsDone,
         SegmentsLoaded, ReadName, NextNameTable, SetEntryPoint, LoadVxd
    <2>. QED BY <1>1, <2>1, NothingResolved
  <1>. QED BY <1>2, <1>3, <1>4

\* As long as there is room in the slots, no two imports share an address, and
\* an import by ordinal is in the slot of a module with its name.
LEMMA SlotsAreUnique ==
  ASSUME SlotInv, Room
  PROVE  ImportsUnique
  <1>1. Apart
    BY DEF SlotInv
  <1>2. ASSUME NEW y \in DOMAIN ordinals
        PROVE  \E m \in 1 .. Len(input.mods) :
                 input.mods[m] = y[1] /\ ordinals[y] \in Cells(ModuleSlot(m), Slot - Wide + 1)
    <2>1. PICK m \in Modules : input.mods[m] = y[1] /\ Taken(ordinals[y], m)
      BY DEF SlotInv, OrdinalsTaken
    <2>2. /\ next_off[m] \in Nat /\ next_off[m] <= Slot /\ Slot \in Nat /\ Wide \in Nat
          /\ ModuleSlot(m) \in Nat
      BY SizeAssumption, SlotsAreApart DEF SlotInv, Room
    <2>3. ordinals[y] \in Cells(ModuleSlot(m), Slot - Wide + 1)
      BY <2>1, <2>2 DEF Taken, Cells
    <2>. QED BY <2>1, <2>3 DEF Modules
  <1>. QED BY <1>1, <1>2 DEF Apart, ImportsUnique

\* The addresses of imports are behind one another in the slots of modules.
THEOREM SlotsAreInOrder == Spec => []SlotInv
  <1>1. Init => SlotInv
    BY InitSlots
  <1>2. SlotInv /\ TypeInv /\ WalkInv /\ [Next]_vars => SlotInv'
    BY SlotStep
  <1>. QED BY <1>1, <1>2, WalkIsTracked, PTL DEF Spec

\* No two imports share an address unless a module has more imports than its
\* slot has room for: next_off never goes back.
THEOREM ImportsAreUnique == Spec => [](Room => ImportsUnique)
  <1>1. SlotInv => (Room => ImportsUnique)
    BY SlotsAreUnique
  <1>. QED BY <1>1, SlotsAreInOrder, PTL

-----------------------------------------------------------------------------
(* The address space.                                                      *)

\* What an object takes of the address space.
Extent(o) == AlignUp(input.objects[o].size, Align)

\* Module m's slot, or object o, has had its turn.
SlotPassed(m) == pc = "imports" => m < obj

ObjectPassed(o) ==
  /\ pc \in {"segments", "pages", "fixups", "exports", "vxd", "loaded"}
  /\ pc = "segments" => o < obj
  /\ pc \in {"pages", "fixups"} => o <= obj

\* The objects read so far are behind one another, and before cursor.
ObjectsInLine ==
  /\ addr \in Seq(Nat) /\ cursor \in Nat /\ UnboundBase <= cursor
  /\ \A o \in DOMAIN addr : UnboundBase <= addr[o] /\ addr[o] + Extent(o) <= cursor
  /\ \A o, p \in DOMAIN addr : o < p => addr[o] + Extent(o) <= addr[p]

ObjectsCounted ==
  /\ pc \in {"imports", "objects", "rejected"} => Len(addr) <= NumObjects
  /\ pc = "imports" => addr = <<>>
  /\ pc = "objects" => Len(addr) = obj - 1
  /\ pc \notin {"imports", "objects", "rejected"} => Len(addr) = NumObjects

IsSlot(s, m) == ModuleThere(m) /\ s.base = ModuleSlot(m) /\ s.size = Slot

IsObject(s, o) == s.base = addr[o] /\ s.size = AlignUp(input.objects[o].size, PageSize)

\* Every segment is a slot or an object that has had its turn.
SegmentsPlaced ==
  \A s \in segments :
    /\ s.input = 0
    /\ \/ \E m \in Modules : SlotPassed(m) /\ IsSlot(s, m)
       \/ \E o \in 1 .. NumObjects : ObjectPassed(o) /\ IsObject(s, o)

HasContent(o) == input.objects[o].perm /\ input.objects[o].size > 0

\* And a slot or an object with something in it that has had its turn left one.
SegmentsLeft ==
  /\ \A m \in Modules : SlotPassed(m) /\ ModuleThere(m) => segments # {}
  /\ \A o \in 1 .. NumObjects : ObjectPassed(o) /\ HasContent(o) => segments # {}

LayoutInv == ObjectsInLine /\ ObjectsCounted /\ SegmentsPlaced /\ SegmentsLeft

\* What a file must respect for its objects and imports to fit together: le_load
\* does not look.  No slot is among the objects, a page is not larger than what
\* objects are aligned to, and there is something to map.
Fits ==
  /\ cursor <= SystemArena * 2
  /\ Align % PageSize = 0
  /\ \A m \in Modules : ModuleThere(m) =>
       /\ ModuleSlot(m) + Slot <= SystemArena * 2
       /\ cursor <= ModuleSlot(m) \/ ModuleSlot(m) + Slot <= UnboundBase
  /\ (\E m \in Modules : ModuleThere(m)) \/ (\E o \in 1 .. NumObjects : HasContent(o))

\* Rounding up gives the next multiple.
LEMMA RoundedUp ==
  ASSUME NEW n \in Nat, NEW to \in Nat \ {0}
  PROVE  /\ AlignUp(n, to) \in Nat /\ n <= AlignUp(n, to) /\ AlignUp(n, to) < n + to
         /\ \E q \in Nat : AlignUp(n, to) = q * to
  <1> DEFINE x == n + to - 1
             q == x \div to
             r == x % to
  <1>1. x \in Nat
    OBVIOUS
  <1> HIDE DEF x
  <1>2. q \in Nat /\ r \in Nat /\ r < to /\ x = q * to + r
    BY <1>1
  <1>3. AlignUp(n, to) = q * to
    BY DEF AlignUp, x
  <1> HIDE DEF q, r
  <1> DEFINE y == q * to
  <1>4. y \in Nat
    BY <1>2
  <1>5. x = y + r
    BY <1>2
  <1>6. \E z \in Nat : AlignUp(n, to) = z * to
    BY <1>2, <1>3
  <1> HIDE DEF y
  <1>7. n <= y /\ y < n + to
    BY <1>1, <1>2, <1>4, <1>5 DEF x
  <1>. QED BY <1>3, <1>4, <1>6, <1>7 DEF y

\* Rounding up to a divisor gives less.
LEMMA RoundedLess ==
  ASSUME NEW n \in Nat, NEW p \in Nat \ {0}, NEW a \in Nat \ {0}, a % p = 0
  PROVE  AlignUp(n, p) <= AlignUp(n, a)
  <1>1. PICK c \in Nat : a = c * p
    <2> DEFINE d == a \div p
    <2>1. d \in Nat /\ a = d * p
      BY SMT
    <2>. QED BY <2>1
  <1>2. PICK q \in Nat : AlignUp(n, p) = q * p
    BY RoundedUp
  <1>3. PICK s \in Nat : AlignUp(n, a) = s * a
    BY RoundedUp
  <1> DEFINE t == s * c
  <1>4. t \in Nat /\ AlignUp(n, a) = t * p
    BY <1>1, <1>3
  <1>5. /\ AlignUp(n, p) \in Nat /\ AlignUp(n, a) \in Nat
        /\ AlignUp(n, p) < n + p /\ n <= AlignUp(n, a)
    BY RoundedUp
  <1> HIDE DEF t
  <1>6. ~(q > t)
    <2> SUFFICES ASSUME q > t PROVE FALSE
      OBVIOUS
    <2>1. PICK d \in Nat : q = t + 1 + d
      <3>1. q - t - 1 \in Nat /\ q = t + 1 + (q - t - 1)
        BY <1>4
      <3>. QED BY <3>1
    <2>2. q * p = t * p + p + d * p
      BY <1>4, <2>1
    <2>3. d * p \in Nat /\ t * p \in Nat
      BY <1>4
    <2>. QED BY <1>2, <1>4, <1>5, <2>2, <2>3
  <1>7. PICK d \in Nat : t = q + d
    <2>1. t - q \in Nat /\ t = q + (t - q)
      BY <1>4, <1>6
    <2>. QED BY <2>1
  <1>8. t * p = q * p + d * p /\ d * p \in Nat /\ q * p \in Nat
    BY <1>7
  <1>. QED BY <1>2, <1>4, <1>8

\* What the layout says of the file stays, as the file does.
LEMMA LayoutStays ==
  ASSUME input' = input
  PROVE  /\ UnboundBase' = UnboundBase
         /\ \A o : Extent(o)' = Extent(o)
         /\ \A o : HasContent(o)' <=> HasContent(o)
         /\ \A s : \A m : IsSlot(s, m)' <=> IsSlot(s, m)
  BY SlotsStay DEF UnboundBase, Extent, HasContent, IsSlot

\* A segment that is added is placed as it should be, and the others stay.
LEMMA PlacedNext ==
  ASSUME LayoutInv, input' = input, NEW base, NEW size, NEW object,
         MapSegment(base, size, 0, object),
         \A m \in Modules : SlotPassed(m) => SlotPassed(m)',
         \A o \in 1 .. NumObjects : ObjectPassed(o) => ObjectPassed(o)' /\ addr'[o] = addr[o],
         size > 0 =>
           \/ \E m \in Modules :
                SlotPassed(m)' /\ ModuleThere(m) /\ base = ModuleSlot(m) /\ size = Slot
           \/ \E o \in 1 .. NumObjects :
                /\ ObjectPassed(o)' /\ base = addr'[o]
                /\ size = AlignUp(input.objects[o].size, PageSize)
  PROVE  SegmentsPlaced'
  <1>1. \A s \in segments' :
          s \in segments \/ (size > 0 /\ s.base = base /\ s.size = size /\ s.input = 0)
    BY DEF MapSegment
  <1>2. Modules' = Modules /\ NumObjects' = NumObjects /\ PageSize' = PageSize
    BY SlotsStay, TablesStay
  <1>3. ASSUME NEW s \in segments
        PROVE  /\ s.input = 0
               /\ \/ \E m \in Modules : SlotPassed(m)' /\ IsSlot(s, m)'
                  \/ \E o \in 1 .. NumObjects : ObjectPassed(o)' /\ IsObject(s, o)'
    <2>1. s.input = 0
      BY DEF LayoutInv, SegmentsPlaced
    <2>2. CASE \E m \in Modules : SlotPassed(m) /\ IsSlot(s, m)
      BY <2>1, <2>2, LayoutStays
    <2>3. CASE \E o \in 1 .. NumObjects : ObjectPassed(o) /\ IsObject(s, o)
      <3>1. PICK o \in 1 .. NumObjects : ObjectPassed(o) /\ IsObject(s, o)
        BY <2>3
      <3>2. ObjectPassed(o)' /\ IsObject(s, o)'
        BY <1>2, <3>1 DEF IsObject
      <3>. QED BY <2>1, <3>2
    <2>. QED BY <2>2, <2>3 DEF LayoutInv, SegmentsPlaced
  <1>4. ASSUME NEW s \in segments', s.base = base, s.size = size, size > 0
        PROVE  \/ \E m \in Modules : SlotPassed(m)' /\ IsSlot(s, m)'
               \/ \E o \in 1 .. NumObjects : ObjectPassed(o)' /\ IsObject(s, o)'
    <2>1. CASE \E m \in Modules :
                 SlotPassed(m)' /\ ModuleThere(m) /\ base = ModuleSlot(m) /\ size = Slot
      BY <1>4, <2>1, SlotsStay DEF IsSlot
    <2>2. CASE \E o \in 1 .. NumObjects :
                 /\ ObjectPassed(o)' /\ base = addr'[o]
                 /\ size = AlignUp(input.objects[o].size, PageSize)
      BY <1>2, <1>4, <2>2 DEF IsObject
    <2>. QED BY <1>4, <2>1, <2>2
  <1>. QED BY <1>1, <1>2, <1>3, <1>4 DEF SegmentsPlaced

\* At the start there is nothing.
LEMMA InitLayout ==
  ASSUME Init
  PROVE  LayoutInv
  <1>1. /\ pc = "imports" /\ obj = 1 /\ addr = <<>> /\ segments = {} /\ cursor = UnboundBase
        /\ input \in Inputs
    BY DEF Init
  <1>2. UnboundBase \in Nat
    BY SizeAssumption DEF UnboundBase
  <1>3. ObjectsInLine
    BY <1>1, <1>2 DEF ObjectsInLine
  <1>4. ObjectsCounted
    BY <1>1, InputFacts DEF ObjectsCounted
  <1>5. SegmentsPlaced
    BY <1>1 DEF SegmentsPlaced
  <1>6. SegmentsLeft
    BY <1>1 DEF SegmentsLeft, SlotPassed, ObjectPassed, Modules
  <1>. QED BY <1>3, <1>4, <1>5, <1>6 DEF LayoutInv

\* A slot is mapped.
LEMMA CreateImportLayout ==
  ASSUME TypeInv, LayoutInv, CreateImport
  PROVE  LayoutInv'
  <1>1. /\ input' = input /\ pc = "imports" /\ pc' = pc /\ obj' = obj + 1
        /\ UNCHANGED <<addr, cursor>>
        /\ obj \in Modules /\ ModuleThere(obj)
        /\ MapSegment(ModuleSlot(obj), Slot, 0, 0)
    BY DEF CreateImport, MoreModules, TypeInv, Modules
  <1>2. \A m \in Modules : (SlotPassed(m) => SlotPassed(m)') /\ m \in Int /\ obj \in Nat
    BY <1>1 DEF SlotPassed, TypeInv, Modules
  <1>3. \A o : ~ObjectPassed(o) /\ ~ObjectPassed(o)'
    BY <1>1 DEF ObjectPassed
  <1>4. (\A m \in Modules : m = obj => SlotPassed(m)') /\ Slot > 0
    BY <1>1, <1>2, SizeAssumption DEF SlotPassed
  <1>5. ObjectsInLine' /\ ObjectsCounted'
    BY <1>1, LayoutStays, TablesStay DEF LayoutInv, ObjectsInLine, ObjectsCounted
  <1>6. SegmentsPlaced'
    BY <1>1, <1>2, <1>3, <1>4, PlacedNext
  <1>7. SegmentsLeft'
    <2> DEFINE x == [base |-> ModuleSlot(obj), size |-> Slot, input |-> 0, object |-> 0]
    <2>1. x \in segments'
      <3>1. x.size > 0
        BY <1>4
      <3> HIDE DEF x
      <3>2. segments' = segments \cup {s \in {x} : s.size > 0}
        BY <1>1 DEF MapSegment, x
      <3>. QED BY <3>1, <3>2
    <2>. QED BY <2>1 DEF SegmentsLeft
  <1>. QED BY <1>5, <1>6, <1>7 DEF LayoutInv

\* Steps that map nothing and read no object, and pass over nothing that would
\* have left a segment.
LEMMA NothingMapped ==
  ASSUME TypeInv, LayoutInv, input' = input, addr' = addr, cursor' = cursor,
         segments' = segments, ObjectsCounted',
         \A m \in Modules : SlotPassed(m) => SlotPassed(m)',
         \A o \in 1 .. NumObjects : ObjectPassed(o) => ObjectPassed(o)',
         \A m \in Modules : SlotPassed(m)' /\ ModuleThere(m) => SlotPassed(m),
         \A o \in 1 .. NumObjects :
           ObjectPassed(o)' /\ HasContent(o) => ObjectPassed(o) \/ segments # {}
  PROVE  LayoutInv'
  <1>1. /\ Modules' = Modules /\ NumObjects' = NumObjects /\ PageSize' = PageSize
        /\ \A m : ModuleThere(m)' <=> ModuleThere(m)
    BY SlotsStay, TablesStay
  <1>2. ObjectsInLine'
    BY LayoutStays DEF LayoutInv, ObjectsInLine
  <1>3. SegmentsLeft'
    BY <1>1, LayoutStays DEF LayoutInv, SegmentsLeft
  <1>4. ASSUME NEW s \in segments
        PROVE  /\ s.input = 0
               /\ \/ \E m \in Modules : SlotPassed(m)' /\ IsSlot(s, m)'
                  \/ \E o \in 1 .. NumObjects : ObjectPassed(o)' /\ IsObject(s, o)'
    <2>1. \A o : IsObject(s, o)' <=> IsObject(s, o)
      BY <1>1 DEF IsObject
    <2>. QED BY <2>1, LayoutStays DEF LayoutInv, SegmentsPlaced
  <1>5. SegmentsPlaced'
    BY <1>1, <1>4 DEF SegmentsPlaced
  <1>. QED BY <1>2, <1>3, <1>5 DEF LayoutInv

\* All slots are there.
LEMMA ImportsCreatedLayout ==
  ASSUME TypeInv, LayoutInv, ImportsCreated
  PROVE  LayoutInv'
  <1>1. /\ input' = input /\ pc = "imports" /\ obj' = 1
        /\ UNCHANGED <<addr, cursor, segments>> /\ ~MoreModules
        /\ pc' = IF NumObjects = 0 THEN "exports" ELSE "objects"
        /\ obj \in Nat /\ NumObjects \in Nat
    BY InputFacts DEF ImportsCreated, TypeInv
  <1>2. \A m \in Modules : ModuleThere(m) => m < obj
    <2> SUFFICES ASSUME NEW m \in Modules, ModuleThere(m), ~(m < obj) PROVE FALSE
      OBVIOUS
    <2>1. obj \in 1 .. m /\ obj <= Len(input.mods)
      BY <1>1, InputFacts DEF Modules, TypeInv
    <2>2. ModuleThere(obj)
      BY <2>1 DEF ModuleThere, Modules
    <2>. QED BY <1>1, <2>1, <2>2 DEF MoreModules
  <1>3. ObjectsCounted'
    BY <1>1, TablesStay DEF LayoutInv, ObjectsCounted
  <1>4. \A m \in Modules : SlotPassed(m)' /\ (ModuleThere(m) => SlotPassed(m))
    BY <1>1, <1>2 DEF SlotPassed
  <1>5. \A o \in 1 .. NumObjects : ~ObjectPassed(o) /\ ~ObjectPassed(o)'
    BY <1>1 DEF ObjectPassed
  <1>. QED BY <1>1, <1>3, <1>4, <1>5, NothingMapped

\* One more object is read, and takes what it needs from cursor on.
LEMMA ReadObjectLayout ==
  ASSUME TypeInv, LayoutInv, ReadObject
  PROVE  LayoutInv'
  <1>1. /\ input' = input /\ segments' = segments /\ pc = "objects" /\ obj \in 1 .. NumObjects
        /\ NumObjects \in Nat /\ pc' \in {"objects", "rejected"}
    BY InputFacts DEF ReadObject, TypeInv
  <1>2. CASE pc' = "rejected"
    <2>1. UNCHANGED <<addr, cursor, obj>>
      BY <1>2, <1>1 DEF ReadObject
    <2>2. ObjectsCounted'
      BY <1>1, <1>2, <2>1, TablesStay DEF LayoutInv, ObjectsCounted
    <2>3. \A m \in Modules : SlotPassed(m)' /\ SlotPassed(m)
      BY <1>1, <1>2 DEF SlotPassed
    <2>4. \A o \in 1 .. NumObjects : ~ObjectPassed(o) /\ ~ObjectPassed(o)'
      BY <1>1, <1>2 DEF ObjectPassed
    <2>. QED BY <1>1, <2>1, <2>2, <2>3, <2>4, NothingMapped
  <1>3. CASE pc' = "objects"
    <2> DEFINE n == Len(addr)
               size == Extent(obj)
    <2>1. /\ addr' = Append(addr, cursor) /\ cursor' = cursor + size /\ obj' = obj + 1
      BY <1>1, <1>3 DEF ReadObject, Extent
    <2>2. /\ addr \in Seq(Nat) /\ cursor \in Nat /\ n = obj - 1 /\ n \in Nat
          /\ n + 1 = obj /\ DOMAIN addr = 1 .. n
      BY <1>1 DEF LayoutInv, ObjectsInLine, ObjectsCounted
    <2>3. /\ addr' \in Seq(Nat) /\ DOMAIN addr' = 1 .. n + 1 /\ Len(addr') = n + 1
          /\ \A o \in 1 .. n : addr'[o] = addr[o]
          /\ addr'[n + 1] = cursor
      BY <2>1, <2>2
    <2>4. \A o \in 1 .. n + 1 : Extent(o) \in Nat
      <3>1. \A o \in 1 .. NumObjects : input.objects[o].size \in Nat
        BY InputFacts DEF TypeInv
      <3>2. Align \in Nat \ {0}
        BY SizeAssumption
      <3>3. \A o \in 1 .. n + 1 : o \in 1 .. NumObjects
        BY <1>1, <2>2
      <3>. QED BY <3>1, <3>2, <3>3, RoundedUp DEF Extent
    <2>5. UnboundBase \in Nat /\ UnboundBase <= cursor
      BY SizeAssumption DEF UnboundBase, LayoutInv, ObjectsInLine
    <2>6. /\ \A o \in 1 .. n : UnboundBase <= addr[o] /\ addr[o] + Extent(o) <= cursor
          /\ \A o \in 1 .. n : \A p \in 1 .. n : o < p => addr[o] + Extent(o) <= addr[p]
          /\ \A o \in 1 .. n : addr[o] \in Nat
      <3>1. ObjectsInLine /\ DOMAIN addr = 1 .. n
        BY <2>2 DEF LayoutInv
      <3>2. \A o \in 1 .. n : addr[o] \in Nat
        BY <2>2
      <3> HIDE DEF n
      <3>. QED BY <3>1, <3>2, Zenon DEF ObjectsInLine
    <2> HIDE DEF n, size
    <2>7. size \in Nat /\ Extent(n + 1) = size
      BY <2>2, <2>4 DEF size
    <2>8. cursor' \in Nat /\ UnboundBase <= cursor' /\ cursor <= cursor'
      BY <2>1, <2>2, <2>5, <2>7
    <2>9. ASSUME NEW o \in 1 .. n + 1
          PROVE  UnboundBase <= addr'[o] /\ addr'[o] + Extent(o) <= cursor'
      <3>1. CASE o = n + 1
        BY <2>1, <2>2, <2>3, <2>5, <2>7, <2>8, <3>1
      <3>2. CASE o # n + 1
        <4>1. o \in 1 .. n
          BY <2>2, <3>2
        <4>2. addr'[o] = addr[o] /\ addr[o] \in Nat /\ Extent(o) \in Nat
          BY <2>3, <2>4, <2>6, <4>1
        <4>3. UnboundBase <= addr[o] /\ addr[o] + Extent(o) <= cursor
          BY <2>6, <4>1
        <4>. QED BY <2>2, <2>8, <4>2, <4>3
      <3>. QED BY <3>1, <3>2
    <2>10. ASSUME NEW o \in 1 .. n + 1, NEW p \in 1 .. n + 1, o < p
           PROVE  addr'[o] + Extent(o) <= addr'[p]
      <3>1. o \in 1 .. n
        BY <2>2, <2>10
      <3>2. CASE p = n + 1
        BY <2>3, <2>6, <3>1, <3>2
      <3>3. CASE p # n + 1
        <4>1. p \in 1 .. n
          BY <2>2, <3>3
        <4>. QED BY <2>3, <2>6, <2>10, <3>1, <4>1
      <3>. QED BY <3>2, <3>3
    <2>11. ObjectsInLine'
      <3>1. /\ \A o \in DOMAIN addr' : UnboundBase <= addr'[o] /\ addr'[o] + Extent(o) <= cursor'
            /\ \A o, p \in DOMAIN addr' : o < p => addr'[o] + Extent(o) <= addr'[p]
        BY <2>3, <2>9, <2>10
      <3>. QED BY <1>1, <2>3, <2>8, <3>1, LayoutStays DEF ObjectsInLine
    <2>12. ObjectsCounted'
      <3>1. Len(addr') = obj' - 1 /\ Len(addr') <= NumObjects
        BY <1>1, <2>1, <2>2, <2>3
      <3>. QED BY <1>1, <1>3, <3>1, TablesStay DEF ObjectsCounted
    <2>13. \A m \in Modules : SlotPassed(m)' /\ SlotPassed(m)
      BY <1>1, <1>3 DEF SlotPassed
    <2>14. \A o : ~ObjectPassed(o) /\ ~ObjectPassed(o)'
      BY <1>1, <1>3 DEF ObjectPassed
    <2>15. SegmentsLeft'
      BY <1>1, <2>13, <2>14, SlotsStay DEF LayoutInv, SegmentsLeft
    <2>16. SegmentsPlaced'
      <3>1. Modules' = Modules
        BY <1>1, SlotsStay
      <3>2. ASSUME NEW s \in segments
            PROVE  s.input = 0 /\ \E m \in Modules : SlotPassed(m)' /\ IsSlot(s, m)'
        BY <1>1, <2>13, <2>14, LayoutStays DEF LayoutInv, SegmentsPlaced
      <3>. QED BY <1>1, <3>1, <3>2 DEF SegmentsPlaced
    <2>. QED BY <2>11, <2>12, <2>15, <2>16 DEF LayoutInv
  <1>. QED BY <1>1, <1>2, <1>3

\* An object is mapped, or passed over.
LEMMA OpenObjectLayout ==
  ASSUME TypeInv, LayoutInv, OpenObject
  PROVE  LayoutInv'
  <1>1. /\ input' = input /\ UNCHANGED <<addr, cursor>> /\ pc = "segments"
        /\ obj \in 1 .. NumObjects /\ NumObjects \in Nat
        /\ pc' \in {"segments", "pages"}
    BY InputFacts DEF OpenObject, TypeInv
  <1>2. \A m \in Modules : SlotPassed(m)' /\ SlotPassed(m)
    BY <1>1 DEF SlotPassed
  <1>3. ObjectsCounted'
    BY <1>1, TablesStay DEF LayoutInv, ObjectsCounted
  <1>4. CASE ~input.objects[obj].perm
    <2>1. pc' = "segments" /\ obj' = obj + 1 /\ segments' = segments
      BY <1>4 DEF OpenObject
    <2>2. \A o \in 1 .. NumObjects : ObjectPassed(o) => ObjectPassed(o)'
      BY <1>1, <2>1 DEF ObjectPassed
    <2>3. ASSUME NEW o \in 1 .. NumObjects, ObjectPassed(o)', HasContent(o)
          PROVE  ObjectPassed(o)
      <3>1. o # obj
        BY <1>4, <2>3 DEF HasContent
      <3>2. o < obj + 1
        BY <2>1, <2>3 DEF ObjectPassed
      <3>3. o < obj
        BY <1>1, <3>1, <3>2
      <3>. QED BY <1>1, <3>3 DEF ObjectPassed
    <2>. QED BY <1>1, <1>2, <1>3, <2>1, <2>2, <2>3, NothingMapped
  <1>5. CASE input.objects[obj].perm
    <2> DEFINE size == AlignUp(input.objects[obj].size, PageSize)
    <2>1. pc' = "pages" /\ obj' = obj /\ MapSegment(addr[obj], size, 0, obj)
      BY <1>5 DEF OpenObject
    <2>2. \A o \in 1 .. NumObjects : ObjectPassed(o) => ObjectPassed(o)' /\ addr'[o] = addr[o]
      BY <1>1, <2>1 DEF ObjectPassed
    <2>3. ObjectPassed(obj)'
      BY <1>1, <2>1 DEF ObjectPassed
    <2>4. SegmentsPlaced'
      <3>1. \E o \in 1 .. NumObjects :
              /\ ObjectPassed(o)' /\ addr[obj] = addr'[o]
              /\ size = AlignUp(input.objects[o].size, PageSize)
        <4>1. ASSUME NEW o \in 1 .. NumObjects, o = obj PROVE ObjectPassed(o)'
          BY <2>1, <2>3, <4>1
        <4>. QED BY <1>1, <4>1
      <3> HIDE DEF size
      <3>. QED BY <1>1, <1>2, <2>1, <2>2, <3>1, PlacedNext
    <2>5. SegmentsLeft'
      <3>1. segments \subseteq segments'
        BY <2>1 DEF MapSegment
      <3>2. ASSUME NEW o \in 1 .. NumObjects, ObjectPassed(o)', HasContent(o)
            PROVE  segments' # {}
        <4>1. CASE o = obj
          <5>1. size > 0
            <6>1. input.objects[obj].size \in Nat /\ input.objects[obj].size > 0
                  /\ PageSize \in Nat \ {0}
              BY <1>1, <3>2, <4>1, InputFacts DEF HasContent, TypeInv
            <6>2. size \in Nat /\ input.objects[obj].size <= size
              BY <6>1, RoundedUp
            <6> HIDE DEF size
            <6>. QED BY <6>1, <6>2
          <5> DEFINE x == [base |-> addr[obj], size |-> size, input |-> 0, object |-> obj]
          <5> HIDE DEF size
          <5>2. x.size > 0
            BY <5>1
          <5>3. segments' = segments \cup {s \in {x} : s.size > 0}
            BY <2>1 DEF MapSegment
          <5> HIDE DEF x
          <5>. QED BY <5>2, <5>3
        <4>2. CASE o # obj
          <5>1. ObjectPassed(o)
            BY <1>1, <2>1, <3>2, <4>2 DEF ObjectPassed
          <5>. QED BY <3>1, <3>2, <5>1 DEF LayoutInv, SegmentsLeft
        <4>. QED BY <4>1, <4>2
      <3>3. ASSUME NEW m \in Modules, ModuleThere(m) PROVE segments' # {}
        BY <1>2, <3>1, <3>3 DEF LayoutInv, SegmentsLeft
      <3>. QED BY <1>1, <3>2, <3>3, SlotsStay, TablesStay, LayoutStays DEF SegmentsLeft
    <2>6. ObjectsInLine'
      BY <1>1, LayoutStays DEF LayoutInv, ObjectsInLine
    <2>. QED BY <1>3, <2>4, <2>5, <2>6 DEF LayoutInv
  <1>. QED BY <1>4, <1>5

\* All other steps map nothing.
LEMMA LayoutStep ==
  ASSUME TypeInv, LayoutInv, [Next]_vars
  PROVE  LayoutInv'
  <1> DEFINE Others == ObjectsRead \/ PagesDone \/ MapPage \/ ApplyFixup \/ TruncatedFixup \/ FixupsDone
                       \/ SegmentsLoaded \/ ReadName \/ NextNameTable \/ SetEntryPoint \/ LoadVxd
                       \/ UNCHANGED vars
  <1>1. CASE Others
    <2>1. /\ input' = input /\ addr' = addr /\ cursor' = cursor /\ segments' = segments
          /\ pc = "imports" => pc' = pc /\ obj' = obj
          /\ pc # "imports" => pc' # "imports"
          /\ pc = "rejected" => pc' = pc
      BY <1>1 DEF ObjectsRead, PagesDone, CloseObject, MapPage, ApplyFixup, TruncatedFixup, FixupsDone,
         EndPage, InFixups, SegmentsLoaded, ReadName, NamesLeft, NextNameTable, SetEntryPoint,
         LoadVxd, vars
    <2>2. \A m \in Modules : SlotPassed(m)' <=> SlotPassed(m)
      BY <2>1 DEF SlotPassed
    <2>3. /\ NumObjects \in Nat /\ obj \in Nat \ {0} /\ pc \in Phases
      BY InputFacts DEF TypeInv
    <2>4. ObjectsCounted'
      <3>1. CASE ObjectsRead
        <4>1. Len(addr) = NumObjects
          BY <2>3, <3>1 DEF ObjectsRead, LayoutInv, ObjectsCounted
        <4>. QED BY <2>1, <3>1, <4>1, TablesStay DEF ObjectsRead, ObjectsCounted
      <3>2. CASE UNCHANGED vars
        BY <3>2, TablesStay DEF vars, LayoutInv, ObjectsCounted
      <3>3. CASE ~ObjectsRead /\ ~UNCHANGED vars
        <4>1. /\ pc \in {"segments", "pages", "fixups", "exports", "vxd", "loaded"}
              /\ pc' \in {"segments", "pages", "fixups", "exports", "vxd", "loaded"}
          BY <1>1, <3>3 DEF PagesDone, CloseObject, MapPage, ApplyFixup, TruncatedFixup, FixupsDone,
             EndPage, InFixups, SegmentsLoaded, ReadName, NamesLeft, NextNameTable, SetEntryPoint,
             LoadVxd
        <4>. QED BY <2>1, <4>1, TablesStay DEF LayoutInv, ObjectsCounted
      <3>. QED BY <3>1, <3>2, <3>3
    <2>5. ASSUME NEW o \in 1 .. NumObjects PROVE ObjectPassed(o)' <=> ObjectPassed(o)
      <3>1. CASE ObjectsRead
        BY <2>3, <3>1 DEF ObjectsRead, ObjectPassed
      <3>2. CASE PagesDone
        BY <2>3, <3>2 DEF PagesDone, CloseObject, ObjectPassed
      <3>3. CASE MapPage \/ ApplyFixup \/ TruncatedFixup \/ FixupsDone
        <4>1. /\ obj' = obj /\ pc \in {"pages", "fixups"} /\ pc' \in {"pages", "fixups"}
          BY <3>3 DEF MapPage, ApplyFixup, TruncatedFixup, FixupsDone, EndPage, InFixups
        <4>. QED BY <4>1 DEF ObjectPassed
      <3>4. CASE SegmentsLoaded
        BY <2>3, <3>4 DEF SegmentsLoaded, ObjectPassed
      <3>5. CASE ReadName \/ NextNameTable \/ SetEntryPoint \/ LoadVxd
        <4>1. pc \in {"exports", "vxd", "loaded"} /\ pc' \in {"exports", "vxd", "loaded"}
          BY <3>5 DEF ReadName, NamesLeft, NextNameTable, SetEntryPoint, LoadVxd
        <4>. QED BY <4>1 DEF ObjectPassed
      <3>6. CASE UNCHANGED vars
        BY <3>6 DEF vars, ObjectPassed
      <3>. QED BY <1>1, <3>1, <3>2, <3>3, <3>4, <3>5, <3>6
    <2>. QED BY <2>1, <2>2, <2>4, <2>5, NothingMapped
  <1>2. CASE CreateImport \/ ImportsCreated \/ ReadObject \/ OpenObject
    BY <1>2, CreateImportLayout, ImportsCreatedLayout, ReadObjectLayout, OpenObjectLayout
  <1>. QED BY <1>1, <1>2 DEF Next, Work, Terminating

-----------------------------------------------------------------------------
(* LeLoad implements AddressSpace.                                         *)

Loading == {"imports", "objects", "segments", "pages", "fixups"}

\* A segment that is apart from the others is one more of the address space.
LEMMA MapImplementsSpace ==
  ASSUME NEW base \in Nat, NEW size \in Nat, NEW object,
         MapSegment(base, size, 0, object), base + size <= SystemArena * 2,
         \A t \in segments : base + size <= t.base \/ t.base + t.size <= base,
         pc \in Loading, pc' \in Loading
  PROVE  [Space!Next]_(Space!vars)
  <1> USE DEF Space!vars
  <1> DEFINE x == [base |-> base, size |-> size, input |-> 0, object |-> object]
             y == [base |-> base, size |-> size, input |-> 0]
             All == {[base |-> s.base, size |-> s.size, input |-> s.input] : s \in segments}
             AllNext == {[base |-> s.base, size |-> s.size, input |-> s.input] : s \in segments'}
  <1>1. x.base = base /\ x.size = size /\ x.input = 0
    OBVIOUS
  <1>2. segments' = segments \cup {s \in {x} : s.size > 0}
    BY DEF MapSegment
  <1>3. CASE size = 0
    <2>1. segments' = segments
      <3> HIDE DEF x
      <3>. QED BY <1>1, <1>2, <1>3
    <2>. QED BY <2>1 DEF Loading
  <1>4. CASE size > 0
    <2>1. AllNext = All \cup {y}
      <3>1. y = [base |-> x.base, size |-> x.size, input |-> x.input]
        BY <1>1
      <3> HIDE DEF x, y
      <3>2. segments' = segments \cup {x}
        BY <1>1, <1>2, <1>4
      <3>. QED BY <3>1, <3>2
    <2>2. y \in Space!Segment /\ y.size > 0 /\ y.base + y.size <= SystemArena * 2
      BY <1>4 DEF Space!Segment
    <2>3. \A t \in All : Space!DisjointFrom(y, t)
      BY DEF Space!DisjointFrom
    <2> HIDE DEF y, All, AllNext
    <2>4. y \in AllNext
      BY <2>1
    <2>5. Space!Map
      BY <2>1, <2>2, <2>3, <2>4 DEF Space!Map, Loading, All, AllNext
    <2>. QED BY <2>5 DEF Space!Next
  <1>. QED BY <1>3, <1>4

\* The next slot is apart from those before.
LEMMA SlotImplementsSpace ==
  ASSUME TypeInv, LayoutInv, Fits, CreateImport
  PROVE  [Space!Next]_(Space!vars)
  <1>1. /\ pc = "imports" /\ pc' = "imports" /\ obj \in Modules /\ ModuleThere(obj)
        /\ MapSegment(ModuleSlot(obj), Slot, 0, 0) /\ input \in Inputs
    BY DEF CreateImport, MoreModules, TypeInv, Modules
  <1>2. ModuleSlot(obj) \in Nat /\ Slot \in Nat /\ ModuleSlot(obj) + Slot <= SystemArena * 2
    BY <1>1, SlotsAreApart, SizeAssumption DEF Fits
  <1>3. ASSUME NEW t \in segments
        PROVE  t.base + t.size <= ModuleSlot(obj)
    <2>1. PICK m \in Modules : SlotPassed(m) /\ IsSlot(t, m)
      BY <1>1 DEF LayoutInv, SegmentsPlaced, ObjectPassed
    <2>2. m < obj
      BY <1>1, <2>1 DEF SlotPassed
    <2>3. ModuleSlot(m) + Slot <= ModuleSlot(obj)
      BY <1>1, <2>2, SlotsAreApart
    <2>. QED BY <2>1, <2>3 DEF IsSlot
  <1>. QED BY <1>1, <1>2, <1>3, MapImplementsSpace DEF Loading

\* The next object is apart from those before, and from the slots.
LEMMA ObjectImplementsSpace ==
  ASSUME TypeInv, LayoutInv, Fits, OpenObject, input.objects[obj].perm
  PROVE  [Space!Next]_(Space!vars)
  <1> DEFINE Size(o) == AlignUp(input.objects[o].size, PageSize)
  <1>1. /\ pc = "segments" /\ pc' = "pages" /\ obj \in 1 .. NumObjects
        /\ MapSegment(addr[obj], Size(obj), 0, obj) /\ input \in Inputs /\ NumObjects \in Nat
    BY InputFacts DEF OpenObject, TypeInv
  <1>2. DOMAIN addr = 1 .. NumObjects /\ \A o \in 1 .. NumObjects : addr[o] \in Nat
    <2>1. addr \in Seq(Nat) /\ Len(addr) = NumObjects
      BY <1>1 DEF LayoutInv, ObjectsInLine, ObjectsCounted
    <2>. QED BY <2>1
  <1>3. ASSUME NEW o \in 1 .. NumObjects
        PROVE  Size(o) \in Nat /\ Extent(o) \in Nat /\ Size(o) <= Extent(o)
    <2>1. /\ input.objects[o].size \in Nat /\ PageSize \in Nat \ {0} /\ Align \in Nat \ {0}
          /\ Align % PageSize = 0
      BY <1>1, InputFacts, SizeAssumption DEF Fits
    <2>. QED BY <2>1, RoundedUp, RoundedLess DEF Extent
  <1> HIDE DEF Size
  <1>4. UnboundBase \in Nat /\ cursor \in Nat /\ cursor <= SystemArena * 2 /\ SystemArena \in Nat
        /\ Slot \in Nat
    BY SizeAssumption DEF UnboundBase, LayoutInv, ObjectsInLine, Fits
  <1>5. /\ UnboundBase <= addr[obj] /\ addr[obj] + Extent(obj) <= cursor
        /\ \A o \in 1 .. NumObjects : o < obj => addr[o] + Extent(o) <= addr[obj]
    BY <1>1, <1>2 DEF LayoutInv, ObjectsInLine
  <1>6. addr[obj] + Size(obj) <= cursor
    BY <1>1, <1>2, <1>3, <1>4, <1>5
  <1>7. ASSUME NEW t \in segments
        PROVE  addr[obj] + Size(obj) <= t.base \/ t.base + t.size <= addr[obj]
    <2>1. CASE \E m \in Modules : SlotPassed(m) /\ IsSlot(t, m)
      <3>1. PICK m \in Modules : ModuleThere(m) /\ t.base = ModuleSlot(m) /\ t.size = Slot
        BY <2>1 DEF IsSlot
      <3>2. ModuleSlot(m) \in Nat
        BY <1>1, SlotsAreApart
      <3>3. cursor <= ModuleSlot(m) \/ ModuleSlot(m) + Slot <= UnboundBase
        BY <3>1 DEF Fits
      <3>. QED BY <1>1, <1>2, <1>3, <1>4, <1>5, <1>6, <3>1, <3>2, <3>3, SMTT(30)
    <2>2. CASE \E o \in 1 .. NumObjects : ObjectPassed(o) /\ IsObject(t, o)
      <3>1. PICK o \in 1 .. NumObjects : ObjectPassed(o) /\ IsObject(t, o)
        BY <2>2
      <3>2. o < obj /\ t.base = addr[o] /\ t.size = Size(o)
        BY <1>1, <3>1 DEF ObjectPassed, IsObject, Size
      <3>3. addr[o] + Extent(o) <= addr[obj]
        BY <1>5, <3>2
      <3>. QED BY <1>1, <1>2, <1>3, <3>2, <3>3, SMTT(30)
    <2>. QED BY <2>1, <2>2 DEF LayoutInv, SegmentsPlaced
  <1>8. addr[obj] \in Nat /\ Size(obj) \in Nat /\ addr[obj] + Size(obj) <= SystemArena * 2
    BY <1>1, <1>2, <1>3, <1>4, <1>6
  <1>. QED BY <1>1, <1>7, <1>8, MapImplementsSpace DEF Loading

\* When the exports are read something has been mapped.
LEMMA LoadedImplementsSpace ==
  ASSUME TypeInv, Fits, LayoutInv', input' = input, segments' = segments,
         pc \in Loading, pc' = "exports"
  PROVE  [Space!Next]_(Space!vars)
  <1>1. (\A m \in Modules : SlotPassed(m)') /\ (\A o \in 1 .. NumObjects : ObjectPassed(o)')
    BY DEF SlotPassed, ObjectPassed
  <1>2. segments # {}
    BY <1>1, SlotsStay, TablesStay, LayoutStays DEF Fits, LayoutInv, SegmentsLeft
  <1> DEFINE All == {[base |-> s.base, size |-> s.size, input |-> s.input] : s \in segments}
  <1>3. All # {}
    BY <1>2
  <1>4. Space!Finish
    BY <1>3 DEF Space!Finish, Loading
  <1>. QED BY <1>4 DEF Space!Next

\* Every step adds a segment, finishes or changes nothing of the address space.
LEMMA StepImplementsSpace ==
  ASSUME TypeInv, LayoutInv, LayoutInv', Fits, [Next]_vars
  PROVE  [Space!Next]_(Space!vars)
  <1>1. CASE CreateImport
    BY <1>1, SlotImplementsSpace
  <1>2. CASE OpenObject
    <2>1. CASE input.objects[obj].perm
      BY <1>2, <2>1, ObjectImplementsSpace
    <2>2. CASE ~input.objects[obj].perm
      BY <1>2, <2>2 DEF OpenObject, Space!vars
    <2>. QED BY <2>1, <2>2
  <1>3. CASE ImportsCreated
    <2>1. CASE NumObjects = 0
      BY <1>3, <2>1, LoadedImplementsSpace DEF ImportsCreated, Loading
    <2>2. CASE NumObjects # 0
      BY <1>3, <2>2 DEF ImportsCreated, Space!vars
    <2>. QED BY <2>1, <2>2
  <1>4. CASE SegmentsLoaded
    BY <1>4, LoadedImplementsSpace DEF SegmentsLoaded, Loading
  <1>5. CASE ReadObject
    <2>1. CASE pc' = "rejected"
      <3>1. Space!Finish
        BY <1>5, <2>1 DEF ReadObject, Space!Finish
      <3>. QED BY <3>1 DEF Space!Next
    <2>2. CASE pc' # "rejected"
      BY <1>5, <2>2 DEF ReadObject, Space!vars
    <2>. QED BY <2>1, <2>2
  <1>6. CASE ObjectsRead \/ PagesDone \/ MapPage \/ ApplyFixup \/ TruncatedFixup \/ FixupsDone
    <2>1. segments' = segments /\ pc \in Loading /\ pc' \in Loading
      BY <1>6 DEF ObjectsRead, PagesDone, CloseObject, MapPage, ApplyFixup, TruncatedFixup,
         FixupsDone, EndPage, InFixups, Loading
    <2>. QED BY <2>1 DEF Space!vars, Loading
  <1>7. CASE ReadName \/ NextNameTable \/ SetEntryPoint \/ LoadVxd
    <2>1. /\ segments' = segments
          /\ pc \in {"exports", "vxd", "loaded"} /\ pc' \in {"exports", "vxd", "loaded"}
      BY <1>7 DEF ReadName, NamesLeft, NextNameTable, SetEntryPoint, LoadVxd
    <2>. QED BY <2>1 DEF Space!vars
  <1>8. CASE UNCHANGED vars
    BY <1>8 DEF vars, Space!vars
  <1>. QED BY <1>1, <1>2, <1>3, <1>4, <1>5, <1>6, <1>7, <1>8 DEF Next, Work, Terminating

\* Objects and slots are placed in the order they are read.
THEOREM LayoutIsInOrder == Spec => []LayoutInv
  <1>1. Init => LayoutInv
    BY InitLayout
  <1>2. TypeInv /\ LayoutInv /\ [Next]_vars => LayoutInv'
    BY LayoutStep
  <1>. QED BY <1>1, <1>2, WalkIsTracked, PTL DEF Spec

\* Loading implements the promise every loader makes of its address space, for
\* files whose objects and imports fit together: segments that are disjoint and
\* stay, and success only with something mapped.
THEOREM ImplementsAddressSpace == Spec /\ []Fits => AddressSpaceSpec
  <1>1. Init => Space!Init
    BY SizeAssumption DEF Init, Space!Init
  <1>2. TypeInv /\ LayoutInv /\ LayoutInv' /\ Fits /\ [Next]_vars => [Space!Next]_(Space!vars)
    BY StepImplementsSpace
  <1>. QED BY <1>1, <1>2, WalkIsTracked, LayoutIsInOrder, PTL DEF Spec, AddressSpaceSpec, Space!Spec


-----------------------------------------------------------------------------
(* The exports.                                                            *)

\* A set of natural numbers has a least one.
LEMMA LeastNumber ==
  ASSUME NEW T \in SUBSET Nat, T # {}
  PROVE  \E x \in T : \A y \in T : x <= y
  <1> DEFINE Less == {ss \in Nat \X Nat : ss[1] < ss[2]}
  <1>1. IsWellFoundedOn(Less, Nat)
    <2>1. Less = OpToRel(<, Nat)
      BY DEF Less, OpToRel
    <2>. QED BY <2>1, NatLessThanWellFounded
  <1> HIDE DEF Less
  <1>2. PICK x \in T : \A y \in T : ~(<<y, x>> \in Less)
    BY <1>1, WFMin, Zenon
  <1>3. ASSUME NEW y \in T
        PROVE  x <= y
    <2>1. x \in Nat /\ y \in Nat
      BY <1>2
    <2>2. y < x => <<y, x>> \in Less
      BY <2>1 DEF Less
    <2>. QED BY <1>2, <2>1, <2>2
  <1>. QED BY <1>3

\* The bundles of the entry table, and the name tables, are sequences.
LEMMA BundleFacts ==
  ASSUME input \in Inputs
  PROVE  /\ Len(input.bundles) \in Nat
         /\ DOMAIN input.bundles = 1 .. Len(input.bundles)
         /\ \A n \in 1 .. Len(input.bundles) : input.bundles[n].count \in Nat
         /\ \A o \in 1 .. Len(input.nametables) : \A k \in 1 .. Len(input.nametables[o]) :
              input.nametables[o][k] # Eof => input.nametables[o][k].ord \in Nat
  <1> DEFINE B == ToSet(input.bundles)
             T == ToSet(input.nametables)
  <1>1. /\ input.bundles \in Seq(B) /\ \A b \in B : b.count \in Nat
        /\ input.nametables \in Seq(T)
        /\ \A t \in T : t \in Seq(ToSet(t)) /\ \A n \in ToSet(t) \ {Eof} : n.ord \in Nat
    BY InputsAssumption
  <1> HIDE DEF B, T
  <1>2. /\ Len(input.bundles) \in Nat
        /\ DOMAIN input.bundles = 1 .. Len(input.bundles)
        /\ \A n \in 1 .. Len(input.bundles) : input.bundles[n] \in B
    BY <1>1
  <1>3. ASSUME NEW o \in 1 .. Len(input.nametables), NEW k \in 1 .. Len(input.nametables[o]),
               input.nametables[o][k] # Eof
        PROVE  input.nametables[o][k].ord \in Nat
    <2> DEFINE t == input.nametables[o]
               U == ToSet(t)
    <2>1. t \in T
      BY <1>1
    <2>2. t \in Seq(U) /\ \A n \in U \ {Eof} : n.ord \in Nat
      BY <1>1, <2>1
    <2>3. t[k] # Eof /\ k \in 1 .. Len(t)
      BY <1>3
    <2> HIDE DEF U, t
    <2>4. t[k] \in U
      BY <2>2, <2>3
    <2>5. t[k].ord \in Nat
      BY <2>2, <2>3, <2>4
    <2>. QED BY <2>5 DEF t
  <1>. QED BY <1>1, <1>2, <1>3

\* The number of ordinals before a bundle grows by those of the bundle.
LEMMA OrdinalsCount ==
  ASSUME input \in Inputs
  PROVE  \A n \in 1 .. Len(input.bundles) :
           /\ OrdinalsBefore[n] \in Nat
           /\ n = 1 => OrdinalsBefore[n] = 0
           /\ n > 1 => OrdinalsBefore[n] = OrdinalsBefore[n - 1] + input.bundles[n - 1].count
  <1> DEFINE N == Len(input.bundles)
             Def(e) == [n \in 1 .. N |-> IF n = 1 THEN 0 ELSE e[n - 1] + input.bundles[n - 1].count]
             Path(m) == \E f : /\ DOMAIN f = 1 .. m
                               /\ \A n \in 1 .. m : f[n] = IF n = 1 THEN 0 ELSE f[n - 1] + input.bundles[n - 1].count
             T == {m \in 0 .. N : ~Path(m)}
  <1>1. N \in Nat /\ \A n \in 1 .. N : input.bundles[n].count \in Nat
    BY BundleFacts
  <1>2. ASSUME T # {} PROVE FALSE
    <2>1. PICK m \in T : \A y \in T : m <= y
      <3>1. T \in SUBSET Nat
        BY <1>1
      <3> HIDE DEF T
      <3>. QED BY <1>2, <3>1, LeastNumber
    <2>2. m \in 0 .. N /\ ~Path(m)
      OBVIOUS
    <2>3. Path(0)
      <3> DEFINE f == [n \in 1 .. 0 |-> 0]
      <3>1. DOMAIN f = 1 .. 0
        OBVIOUS
      <3>2. \A n \in 1 .. 0 : f[n] = IF n = 1 THEN 0 ELSE f[n - 1] + input.bundles[n - 1].count
        OBVIOUS
      <3> HIDE DEF f
      <3>. QED BY <3>1, <3>2
    <2>4. m # 0
      BY <2>2, <2>3, Zenon
    <2>5. m - 1 \in 0 .. N /\ ~(m <= m - 1) /\ m \in 1 .. N
      BY <1>1, <2>2, <2>4
    <2>6. Path(m - 1)
      BY <2>1, <2>5
    <2>7. PICK f : /\ DOMAIN f = 1 .. m - 1
                   /\ \A n \in 1 .. m - 1 : f[n] = IF n = 1 THEN 0 ELSE f[n - 1] + input.bundles[n - 1].count
      BY <2>6
    <2> DEFINE g == [n \in 1 .. m |-> IF n < m THEN f[n] ELSE IF n = 1 THEN 0
                                      ELSE f[n - 1] + input.bundles[n - 1].count]
    <2>8. DOMAIN g = 1 .. m
      OBVIOUS
    <2>9. ASSUME NEW n \in 1 .. m
          PROVE  g[n] = IF n = 1 THEN 0 ELSE g[n - 1] + input.bundles[n - 1].count
      <3>1. n > 1 => g[n - 1] = f[n - 1]
        BY <2>5
      <3>2. CASE n < m
        <4>1. g[n] = f[n] /\ n \in 1 .. m - 1
          BY <3>2, <2>5
        <4> HIDE DEF g
        <4>. QED BY <4>1, <3>1, <2>7
      <3>3. CASE ~(n < m)
        <4>1. g[n] = IF n = 1 THEN 0 ELSE f[n - 1] + input.bundles[n - 1].count
          BY <3>3
        <4> HIDE DEF g
        <4>. QED BY <4>1, <3>1
      <3>. QED BY <3>2, <3>3
    <2> HIDE DEF g
    <2>10. Path(m)
      BY <2>8, <2>9
    <2>. QED BY <2>2, <2>10
  <1>3. Path(N)
    BY <1>1, <1>2
  <1>4. PICK f : /\ DOMAIN f = 1 .. N
                 /\ \A n \in 1 .. N : f[n] = IF n = 1 THEN 0 ELSE f[n - 1] + input.bundles[n - 1].count
    BY <1>3
  <1> HIDE DEF Path, T
  <1> DEFINE h == [n \in 1 .. N |-> f[n]]
             ob == CHOOSE e : e = Def(e)
  <1>5. h = Def(h)
    <2>1. ASSUME NEW n \in 1 .. N
          PROVE  h[n] = IF n = 1 THEN 0 ELSE h[n - 1] + input.bundles[n - 1].count
      <3>1. h[n] = f[n] /\ (n # 1 => h[n - 1] = f[n - 1])
        BY <1>1
      <3> HIDE DEF h
      <3>. QED BY <1>4, <3>1
    <2> DEFINE d == Def(h)
    <2>2. DOMAIN d = 1 .. N /\ \A n \in 1 .. N : d[n] = h[n]
      <3> HIDE DEF h
      <3>. QED BY <2>1
    <2>3. d = [n \in 1 .. N |-> d[n]] /\ h = [n \in 1 .. N |-> h[n]]
      OBVIOUS
    <2> HIDE DEF d, h
    <2>. QED BY <2>2, <2>3, Zenon DEF d
  <1>6. ob = Def(ob)
    <2> HIDE DEF Def, h
    <2>. QED BY <1>5, Zenon
  <1>7. OrdinalsBefore = ob
    BY DEF OrdinalsBefore
  <1> HIDE DEF ob
  <1>8. \A n \in 1 .. N : ob[n] = IF n = 1 THEN 0 ELSE ob[n - 1] + input.bundles[n - 1].count
    BY <1>6
  <1> DEFINE Odd == {n \in 1 .. N : ob[n] \notin Nat}
  <1>9. ASSUME Odd # {} PROVE FALSE
    <2>1. PICK m \in Odd : \A y \in Odd : m <= y
      <3>1. Odd \in SUBSET Nat
        BY <1>1
      <3> HIDE DEF Odd
      <3>. QED BY <1>9, <3>1, LeastNumber
    <2>2. m \in 1 .. N /\ ob[m] \notin Nat
      OBVIOUS
    <2>3. m # 1
      BY <1>8, <2>2
    <2>4. m - 1 \in 1 .. N /\ ~(m <= m - 1)
      BY <1>1, <2>2, <2>3
    <2>5. ob[m - 1] \in Nat
      BY <2>1, <2>4
    <2>. QED BY <1>1, <1>8, <2>2, <2>3, <2>4, <2>5
  <1>10. \A n \in 1 .. N : ob[n] \in Nat
    BY <1>9
  <1>. QED BY <1>1, <1>7, <1>8, <1>10

\* Entry nth of bundle n has this ordinal, and may be read as this address.
IsEntry(n, ordinal, a) ==
  LET b   == input.bundles[n]
      nth == ordinal - OrdinalsBefore[n]
  IN  /\ nth \in 1 .. b.count
      /\ HasAddresses(b)
      /\ a \in {SegAddress(b.obj, EntryOffset(b, nth, junk)) : junk \in {0, 1}}

\* Behind n bundles the walk has counted their ordinals, or has found the entry.
Counted(w, n, ordinal) ==
  /\ w.found => \E k \in 1 .. n : IsEntry(k, ordinal, w.at)
  /\ ~w.found => w.at = 0
  /\ ~w.found /\ ~w.broken =>
       w.ord = 1 + (IF n = 0 THEN 0 ELSE OrdinalsBefore[n] + input.bundles[n].count)

\* One more bundle is counted, or the entry is in it.
LEMMA BundleCounted ==
  ASSUME input \in Inputs, NEW ordinal \in Nat, NEW junk \in {0, 1},
         NEW n \in 1 .. Len(input.bundles), NEW w, Counted(w, n - 1, ordinal)
  PROVE  Counted(WalkBundle(w, input.bundles[n], ordinal, junk), n, ordinal)
  <1> DEFINE b == input.bundles[n]
             v == WalkBundle(w, b, ordinal, junk)
             at == SegAddress(b.obj, EntryOffset(b, ordinal - w.ord + 1, junk))
  <1>1. /\ Len(input.bundles) \in Nat /\ b.count \in Nat
        /\ OrdinalsBefore[n] \in Nat
        /\ n = 1 => OrdinalsBefore[n] = 0
        /\ n > 1 => OrdinalsBefore[n] = OrdinalsBefore[n - 1] + input.bundles[n - 1].count
    BY BundleFacts, OrdinalsCount
  <1>2. CASE w.found \/ w.broken
    <2>1. v = w
      BY <1>2 DEF WalkBundle
    <2>2. w.found => \E k \in 1 .. n : IsEntry(k, ordinal, w.at)
      <3> SUFFICES ASSUME w.found PROVE \E k \in 1 .. n : IsEntry(k, ordinal, w.at)
        OBVIOUS
      <3>1. PICK k \in 1 .. n - 1 : IsEntry(k, ordinal, w.at)
        BY DEF Counted
      <3>2. k \in 1 .. n
        BY <1>1
      <3>. QED BY <3>1, <3>2
    <2>3. ~w.found => w.at = 0
      BY DEF Counted
    <2> HIDE DEF v
    <2>4. Counted(v, n, ordinal)
      BY <1>2, <2>1, <2>2, <2>3 DEF Counted
    <2>. QED BY <2>4 DEF v
  <1>3. CASE ~(w.found \/ w.broken)
    <2>1. w.ord = 1 + OrdinalsBefore[n]
      <3>1. w.ord = 1 + (IF n - 1 = 0 THEN 0 ELSE OrdinalsBefore[n - 1] + input.bundles[n - 1].count)
        BY <1>3 DEF Counted
      <3>. QED BY <1>1, <3>1
    <2>2. CASE HasAddresses(b) /\ ordinal - w.ord \in 0 .. b.count - 1
      <3>1. v = [ord |-> w.ord, found |-> TRUE, broken |-> FALSE, at |-> at]
        BY <1>3, <2>2 DEF WalkBundle
      <3>2. v.found /\ v.at = at
        <4> HIDE DEF v, at
        <4>. QED BY <3>1
      <3>3. ordinal - w.ord + 1 = ordinal - OrdinalsBefore[n]
        BY <1>1, <2>1
      <3>4. ordinal - OrdinalsBefore[n] \in 1 .. b.count
        <4> DEFINE x == w.ord
                   y == OrdinalsBefore[n]
                   c == b.count
        <4>1. x = 1 + y /\ y \in Nat /\ c \in Nat /\ ordinal - x \in 0 .. c - 1
          BY <1>1, <2>1, <2>2
        <4> HIDE DEF x, y, c
        <4>2. ordinal - y \in 1 .. c
          BY <4>1
        <4>. QED BY <4>2 DEF y, c
      <3>5. at \in {SegAddress(b.obj, EntryOffset(b, ordinal - OrdinalsBefore[n], j)) : j \in {0, 1}}
        BY <3>3
      <3>6. IsEntry(n, ordinal, at)
        <4> HIDE DEF at
        <4>. QED BY <2>2, <3>4, <3>5, Zenon DEF IsEntry
      <3>7. n \in 1 .. n
        BY <1>1
      <3> HIDE DEF v, at
      <3>8. Counted(v, n, ordinal)
        BY <3>2, <3>6, <3>7 DEF Counted
      <3>. QED BY <3>8 DEF v
    <2>3. CASE ~(HasAddresses(b) /\ ordinal - w.ord \in 0 .. b.count - 1)
      <3> DEFINE broken == b.type \in {"16bit", "32bit"} /\ Len(b.offs) < b.count
      <3>1. v = [ord |-> w.ord + b.count, found |-> FALSE, broken |-> broken, at |-> 0]
        BY <1>3, <2>3 DEF WalkBundle
      <3>2. ~v.found /\ v.at = 0 /\ v.ord = w.ord + b.count
        <4> HIDE DEF v, broken
        <4>. QED BY <3>1
      <3>3. v.ord = 1 + (OrdinalsBefore[n] + b.count) /\ n # 0
        <4> HIDE DEF v
        <4>. QED BY <1>1, <2>1, <3>2, SMTT(30)
      <3> HIDE DEF v
      <3>4. Counted(v, n, ordinal)
        BY <3>2, <3>3 DEF Counted
      <3>. QED BY <3>4 DEF v
    <2>. QED BY <2>2, <2>3
  <1>. QED BY <1>2, <1>3

\* _le_entry_address finds an entry with the ordinal or nothing.
LEMMA EntryIsFound ==
  ASSUME input \in Inputs, NEW ordinal \in Nat, NEW a \in EntryAddresses(ordinal), a # 0
  PROVE  \E n \in DOMAIN input.bundles : IsEntry(n, ordinal, a)
  <1> DEFINE N == Len(input.bundles)
             At0(j, e) == [n \in 0 .. N |-> IF n = 0 THEN AtFirstBundle
                                   ELSE WalkBundle(e[n - 1], input.bundles[n], ordinal, j)]
             Walk(j) == CHOOSE e : e = At0(j, e)
  <1>1. N \in Nat /\ DOMAIN input.bundles = 1 .. N
    BY BundleFacts
  <1>2. PICK junk \in {0, 1} : a = Walk(junk)[N].at
    BY DEF EntryAddresses
  <1> DEFINE Path(m) == \E f : /\ DOMAIN f = 0 .. m
                               /\ \A n \in 0 .. m : f[n] = IF n = 0 THEN AtFirstBundle
                                    ELSE WalkBundle(f[n - 1], input.bundles[n], ordinal, junk)
             T == {m \in 0 .. N : ~Path(m)}
  <1>3. ASSUME T # {} PROVE FALSE
    <2>1. PICK m \in T : \A y \in T : m <= y
      <3>1. T \in SUBSET Nat
        BY <1>1
      <3> HIDE DEF T
      <3>. QED BY <1>3, <3>1, LeastNumber
    <2>2. m \in 0 .. N /\ ~Path(m)
      OBVIOUS
    <2>3. Path(0)
      <3> DEFINE f == [n \in 0 .. 0 |-> AtFirstBundle]
      <3>1. DOMAIN f = 0 .. 0
        OBVIOUS
      <3>2. \A n \in 0 .. 0 : f[n] = IF n = 0 THEN AtFirstBundle
                                ELSE WalkBundle(f[n - 1], input.bundles[n], ordinal, junk)
        OBVIOUS
      <3> HIDE DEF f
      <3>. QED BY <3>1, <3>2
    <2>4. m # 0
      BY <2>2, <2>3, Zenon
    <2>5. m - 1 \in 0 .. N /\ ~(m <= m - 1) /\ m \in 1 .. N
      BY <1>1, <2>2, <2>4
    <2>6. Path(m - 1)
      BY <2>1, <2>5
    <2>7. PICK f : /\ DOMAIN f = 0 .. m - 1
                   /\ \A n \in 0 .. m - 1 : f[n] = IF n = 0 THEN AtFirstBundle
                        ELSE WalkBundle(f[n - 1], input.bundles[n], ordinal, junk)
      BY <2>6
    <2> DEFINE g == [n \in 0 .. m |-> IF n < m THEN f[n]
                        ELSE WalkBundle(f[n - 1], input.bundles[n], ordinal, junk)]
    <2>8. DOMAIN g = 0 .. m
      OBVIOUS
    <2>9. ASSUME NEW n \in 0 .. m
          PROVE  g[n] = IF n = 0 THEN AtFirstBundle
                        ELSE WalkBundle(g[n - 1], input.bundles[n], ordinal, junk)
      <3>1. n # 0 => g[n - 1] = f[n - 1]
        BY <2>5
      <3>2. CASE n < m
        <4>1. g[n] = f[n] /\ n \in 0 .. m - 1
          BY <3>2, <2>5
        <4> HIDE DEF g
        <4>. QED BY <4>1, <3>1, <2>7
      <3>3. CASE ~(n < m)
        <4>1. g[n] = WalkBundle(f[n - 1], input.bundles[n], ordinal, junk) /\ n # 0
          BY <3>3, <2>5
        <4> HIDE DEF g
        <4>. QED BY <4>1, <3>1
      <3>. QED BY <3>2, <3>3
    <2> HIDE DEF g
    <2>10. Path(m)
      BY <2>8, <2>9
    <2>. QED BY <2>2, <2>10
  <1>4. Path(N)
    <2>1. N \in 0 .. N
      BY <1>1
    <2>2. T = {}
      <3> HIDE DEF T
      <3>. QED BY <1>3
    <2> HIDE DEF Path, N
    <2>. QED BY <2>1, <2>2
  <1>5. PICK f : /\ DOMAIN f = 0 .. N
                 /\ \A n \in 0 .. N : f[n] = IF n = 0 THEN AtFirstBundle
                      ELSE WalkBundle(f[n - 1], input.bundles[n], ordinal, junk)
    BY <1>4
  <1> HIDE DEF Path, T
  <1> DEFINE h == [n \in 0 .. N |-> f[n]]
             walk == Walk(junk)
  <1>6. h = At0(junk, h)
    <2>1. ASSUME NEW n \in 0 .. N
          PROVE  h[n] = IF n = 0 THEN AtFirstBundle
                        ELSE WalkBundle(h[n - 1], input.bundles[n], ordinal, junk)
      <3>1. h[n] = f[n] /\ (n # 0 => h[n - 1] = f[n - 1])
        BY <1>1
      <3> HIDE DEF h
      <3>. QED BY <1>5, <3>1
    <2> DEFINE d == At0(junk, h)
    <2>2. DOMAIN d = 0 .. N /\ \A n \in 0 .. N : d[n] = h[n]
      <3> HIDE DEF h
      <3>. QED BY <2>1
    <2>3. d = [n \in 0 .. N |-> d[n]] /\ h = [n \in 0 .. N |-> h[n]]
      OBVIOUS
    <2> HIDE DEF d, h
    <2>. QED BY <2>2, <2>3, Zenon DEF d
  <1>7. walk = At0(junk, walk)
    <2> HIDE DEF At0, h
    <2>. QED BY <1>6, Zenon
  <1> HIDE DEF walk
  <1>8. \A n \in 0 .. N : walk[n] = IF n = 0 THEN AtFirstBundle
                            ELSE WalkBundle(walk[n - 1], input.bundles[n], ordinal, junk)
    BY <1>7
  <1> DEFINE Odd == {n \in 0 .. N : ~Counted(walk[n], n, ordinal)}
  <1>9. ASSUME Odd # {} PROVE FALSE
    <2>1. PICK m \in Odd : \A y \in Odd : m <= y
      <3>1. Odd \in SUBSET Nat
        BY <1>1
      <3> HIDE DEF Odd
      <3>. QED BY <1>9, <3>1, LeastNumber
    <2>2. m \in 0 .. N /\ ~Counted(walk[m], m, ordinal)
      OBVIOUS
    <2>3. Counted(walk[0], 0, ordinal)
      BY <1>1, <1>8 DEF Counted, AtFirstBundle
    <2>4. m # 0
      BY <2>2, <2>3
    <2>5. m - 1 \in 0 .. N /\ ~(m <= m - 1) /\ m \in 1 .. N
      BY <1>1, <2>2, <2>4
    <2>6. Counted(walk[m - 1], m - 1, ordinal)
      BY <2>1, <2>5
    <2>7. walk[m] = WalkBundle(walk[m - 1], input.bundles[m], ordinal, junk)
      BY <1>8, <2>2, <2>4
    <2>. QED BY <2>2, <2>5, <2>6, <2>7, BundleCounted
  <1>10. Counted(walk[N], N, ordinal) /\ a = walk[N].at
    <2>1. a = walk[N].at
      BY <1>2 DEF walk
    <2>2. N \in 0 .. N /\ Odd = {}
      BY <1>1, <1>9
    <2> HIDE DEF N
    <2>. QED BY <2>1, <2>2
  <1>11. \E k \in 1 .. N : IsEntry(k, ordinal, a)
    BY <1>10 DEF Counted
  <1>. QED BY <1>1, <1>11

\* Nothing is exported before the objects are where they stay, and what is exported
\* is an entry.
ExportInv ==
  /\ pc \in {"imports", "objects", "segments", "pages", "fixups"} => exports = {}
  /\ \A x \in exports : \E n \in DOMAIN input.bundles : IsEntry(n, x[1].ord, x[2])

\* Where nothing moves entries stay entries.
LEMMA EntriesStay ==
  ASSUME input' = input, addr' = addr, NEW n, NEW ordinal, NEW a, IsEntry(n, ordinal, a)
  PROVE  IsEntry(n, ordinal, a)'
  <1>1. OrdinalsBefore' = OrdinalsBefore
    BY DEF OrdinalsBefore
  <1>2. \A o, off : SegAddress(o, off)' = SegAddress(o, off)
    BY DEF SegAddress
  <1>. QED BY <1>1, <1>2 DEF IsEntry, HasAddresses, EntryOffset

\* Names are exported as entries, and nothing else is exported.
LEMMA ExportStep ==
  ASSUME ExportInv, TypeInv, [Next]_vars
  PROVE  ExportInv'
  <1>1. input' = input /\ input \in Inputs
    BY InputStays DEF TypeInv
  <1>2. CASE ReadName
    <2> DEFINE n == input.nametables[obj][page + 1]
    <2>1. /\ pc = "exports" /\ pc' = pc /\ addr' = addr
          /\ obj \in Nat \ {0} /\ obj <= Len(input.nametables)
          /\ page \in Nat /\ page < Len(input.nametables[obj]) /\ n # Eof
      BY <1>2 DEF ReadName, NamesLeft, TypeInv
    <2>2. PICK a \in IF n.ord = 0 THEN {0} ELSE EntryAddresses(n.ord) :
            exports' = IF a = 0 THEN exports ELSE exports \cup {<<n, a>>}
      BY <1>2 DEF ReadName
    <2>3. n.ord \in Nat
      <3>1. input.nametables \in Seq(ToSet(input.nametables))
        BY <1>1, InputsAssumption
      <3>2. Len(input.nametables) \in Nat
        BY <3>1
      <3>3. obj \in 1 .. Len(input.nametables)
        BY <2>1, <3>2
      <3>4. input.nametables[obj] \in Seq(ToSet(input.nametables[obj]))
        <4>1. input.nametables[obj] \in ToSet(input.nametables)
          BY <3>1, <3>3 DEF ToSet
        <4>. QED BY <1>1, <4>1, InputsAssumption
      <3>5. Len(input.nametables[obj]) \in Nat
        BY <3>4
      <3>6. page + 1 \in 1 .. Len(input.nametables[obj])
        BY <2>1, <3>5
      <3>. QED BY <1>1, <2>1, <3>3, <3>6, BundleFacts
    <2>4. a # 0 => \E m \in DOMAIN input.bundles : IsEntry(m, n.ord, a)
      BY <1>1, <2>2, <2>3, EntryIsFound
    <2> HIDE DEF n
    <2>5. ASSUME NEW x \in exports'
          PROVE  \E m \in DOMAIN input.bundles : IsEntry(m, x[1].ord, x[2])
      <3>1. CASE x \in exports
        BY <3>1 DEF ExportInv
      <3>2. CASE x \notin exports
        <4>1. x = <<n, a>> /\ a # 0
          BY <2>2, <3>2
        <4>2. x[1] = n /\ x[2] = a
          BY <4>1
        <4>. QED BY <2>4, <4>1, <4>2
      <3>. QED BY <3>1, <3>2
    <2>6. ASSUME NEW x \in exports'
          PROVE  \E m \in DOMAIN input'.bundles : IsEntry(m, x[1].ord, x[2])'
      <3>1. PICK m \in DOMAIN input.bundles : IsEntry(m, x[1].ord, x[2])
        BY <2>5
      <3>2. IsEntry(m, x[1].ord, x[2])'
        BY <1>1, <2>1, <3>1, EntriesStay
      <3>. QED BY <1>1, <3>1, <3>2
    <2>. QED BY <2>1, <2>6 DEF ExportInv
  <1>3. CASE pc \in {"imports", "objects", "segments", "pages", "fixups"}
    <2>0. ~ReadName
      BY <1>3 DEF ReadName, NamesLeft
    <2>a. CreateImport \/ ImportsCreated \/ ReadObject \/ ObjectsRead => exports' = exports
      BY DEF CreateImport, ImportsCreated, ReadObject, ObjectsRead
    <2>b. OpenObject \/ PagesDone \/ SegmentsLoaded => exports' = exports
      BY DEF OpenObject, PagesDone, CloseObject, SegmentsLoaded
    <2>c. MapPage => exports' = exports
      BY DEF MapPage
    <2>d. ApplyFixup \/ TruncatedFixup \/ FixupsDone => exports' = exports
      BY DEF ApplyFixup, TruncatedFixup, FixupsDone
    <2>e. NextNameTable \/ SetEntryPoint \/ LoadVxd \/ UNCHANGED vars => exports' = exports
      BY DEF NextNameTable, SetEntryPoint, LoadVxd, vars
    <2>f. exports' = exports
      BY <2>0, <2>a, <2>b, <2>c, <2>d, <2>e DEF Next, Work, Terminating
    <2>1. exports' = {}
      BY <1>3, <2>f DEF ExportInv
    <2>. QED BY <2>1 DEF ExportInv
  <1>4. CASE ~ReadName /\ pc \notin {"imports", "objects", "segments", "pages", "fixups"}
    <2>1. /\ exports' = exports /\ addr' = addr
          /\ pc' \notin {"imports", "objects", "segments", "pages", "fixups"}
      <3>1. \/ NextNameTable \/ SetEntryPoint \/ LoadVxd
            \/ UNCHANGED vars
        <4>1. \/ pc = "imports" /\ (CreateImport \/ ImportsCreated)
              \/ pc = "objects" /\ (ReadObject \/ ObjectsRead)
              \/ pc = "segments" /\ (OpenObject \/ SegmentsLoaded)
              \/ pc = "pages" /\ (PagesDone \/ MapPage)
              \/ pc = "fixups" /\ (ApplyFixup \/ TruncatedFixup \/ FixupsDone)
              \/ NextNameTable \/ SetEntryPoint \/ LoadVxd \/ UNCHANGED vars
          <5>1. /\ CreateImport \/ ImportsCreated => pc = "imports"
                /\ ReadObject \/ ObjectsRead => pc = "objects"
                /\ OpenObject \/ SegmentsLoaded => pc = "segments"
                /\ PagesDone \/ MapPage => pc = "pages"
            BY DEF CreateImport, ImportsCreated, ReadObject, ObjectsRead, OpenObject, SegmentsLoaded,
               PagesDone, MapPage
          <5>2. ApplyFixup \/ TruncatedFixup \/ FixupsDone => pc = "fixups"
            BY DEF ApplyFixup, TruncatedFixup, FixupsDone, InFixups
          <5>. QED BY <1>4, <5>1, <5>2 DEF Next, Work, Terminating
        <4>. QED BY <1>4, <4>1
      <3>2. CASE NextNameTable
        BY <1>4, <3>2 DEF NextNameTable
      <3>3. CASE SetEntryPoint
        BY <1>4, <3>3 DEF SetEntryPoint
      <3>4. CASE LoadVxd
        BY <1>4, <3>4 DEF LoadVxd
      <3>5. CASE UNCHANGED vars
        BY <1>4, <3>5 DEF vars
      <3>. QED BY <3>1, <3>2, <3>3, <3>4, <3>5
    <2>2. ASSUME NEW x \in exports
          PROVE  \E m \in DOMAIN input'.bundles : IsEntry(m, x[1].ord, x[2])'
      <3>1. PICK m \in DOMAIN input.bundles : IsEntry(m, x[1].ord, x[2])
        BY DEF ExportInv
      <3>2. IsEntry(m, x[1].ord, x[2])'
        BY <1>1, <2>1, <3>1, EntriesStay
      <3>. QED BY <1>1, <3>1, <3>2
    <2>. QED BY <2>1, <2>2 DEF ExportInv
  <1>. QED BY <1>2, <1>3, <1>4

\* Each exported name has the address of the entry with its ordinal.
THEOREM ExportsAreTheirEntries == Spec => []ExportsAreEntries
  <1>1. Init => ExportInv
    BY DEF Init, ExportInv
  <1>2. ExportInv /\ TypeInv /\ [Next]_vars => ExportInv'
    BY ExportStep
  <1>3. ExportInv => ExportsAreEntries
    BY Zenon DEF ExportInv, IsEntry, ExportsAreEntries
  <1>. QED BY <1>1, <1>2, <1>3, WalkIsTracked, PTL DEF Spec

-----------------------------------------------------------------------------
(* What the fixups have written.                                           *)

\* What a file must respect for its pages to stay apart: those of an object are
\* not more than the object takes.  le_load does not look.
PagesFit ==
  \A o \in 1 .. NumObjects : IsMapped(o) => input.objects[o].mapsize * PageSize <= Extent(o)

\* The place of a fixup that had a target: a record of a page behind the reader.
IsPassed(h) ==
  /\ h[1] \in 1 .. NumObjects /\ IsMapped(h[1])
  /\ h[2] \in Nat /\ h[2] < input.objects[h[1]].mapsize
  /\ FixupsOf(h[3][2])[h[3][3]].offs \in Seq(Int) /\ h[4] \in Int
  /\ pc = "segments" => h[1] < obj
  /\ pc = "pages" => h[1] < obj \/ (h[1] = obj /\ h[2] < page)
  /\ pc = "fixups" => h[1] < obj \/ (h[1] = obj /\ h[2] <= page)

PlacesInv == \A h \in seen : h[4] # 0 => IsPassed(h)

\* FixupsLand, at any time.
Landed ==
  \A p \in Patches : \A a \in DOMAIN p.cells : a < p.end =>
    /\ a \in DOMAIN memory
    /\ \E q \in Patches : a \in DOMAIN q.cells /\ memory[a] = q.cells[a]

LandInv == Whole /\ PagesFit => Landed

\* What source k of a record writes, and that a cell has what some source writes.
Source(f, k, to) == Patch(f.src, PageVA + f.offs[k], to)

IsSourced(f, to, a, v) ==
  \E j \in DOMAIN f.offs : a \in DOMAIN Source(f, j, to) /\ v = Source(f, j, to)[a]

\* Numbers up to n have a greatest.
LEMMA GreatestNumber ==
  ASSUME NEW n \in Nat, NEW T \in SUBSET (1 .. n), T # {}
  PROVE  Max(T) \in T
  <1> DEFINE D == {n - x : x \in T}
  <1>1. D \in SUBSET Nat /\ D # {}
    <2>1. \A x \in T : x \in 1 .. n
      OBVIOUS
    <2>2. \A x \in 1 .. n : n - x \in Nat
      OBVIOUS
    <2>3. \A x \in T : n - x \in Nat
      BY <2>1, <2>2
    <2>. QED BY <2>3, Zenon
  <1>2. PICK d \in D : \A y \in D : d <= y
    <2> HIDE DEF D
    <2>. QED BY <1>1, LeastNumber
  <1>3. PICK x \in T : d = n - x
    OBVIOUS
  <1>4. \A y \in T : x >= y
    <2> SUFFICES ASSUME NEW y \in T PROVE x >= y
      OBVIOUS
    <2>1. n - y \in D
      OBVIOUS
    <2>. QED BY <1>2, <1>3, <2>1
  <1>5. \E z \in T : \A y \in T : z >= y
    BY <1>4
  <1>. QED BY <1>5, Zenon DEF Max

\* A record that is applied writes what one of its sources asks for, into every
\* cell of each of them, and nothing else.
LEMMA PatchedFacts ==
  ASSUME NEW mem, NEW f, NEW to, to # 0, f.offs \in Seq(Int)
  PROVE  /\ DOMAIN mem \subseteq DOMAIN Patched(mem, f, to)
         /\ \A k \in DOMAIN f.offs : \A a \in DOMAIN Source(f, k, to) :
              a \in DOMAIN Patched(mem, f, to) /\ IsSourced(f, to, a, Patched(mem, f, to)[a])
         /\ \A a \in DOMAIN mem :
              Patched(mem, f, to)[a] = mem[a] \/ IsSourced(f, to, a, Patched(mem, f, to)[a])
         /\ \A a \in DOMAIN Patched(mem, f, to) :
              a \in DOMAIN mem \/ IsSourced(f, to, a, Patched(mem, f, to)[a])
  <1> DEFINE sites == UNION {DOMAIN Source(f, k, to) : k \in DOMAIN f.offs}
             cells == [a \in sites |-> Source(f, Max(SourcesOver(f, a)), to)[a]]
             new == Patched(mem, f, to)
  <1>1. new = Written(mem, cells)
    BY Zenon DEF Patched, Site, Source
  <1>2. \A k : DOMAIN Source(f, k, to) = Cells(PageVA + f.offs[k], Width(f.src))
    BY DEF Patch, Source
  <1>3. ASSUME NEW a \in sites
        PROVE  LET j == Max(SourcesOver(f, a)) IN
               j \in DOMAIN f.offs /\ a \in DOMAIN Source(f, j, to) /\ cells[a] = Source(f, j, to)[a]
    <2> DEFINE T == SourcesOver(f, a)
    <2>1. T = {k \in DOMAIN f.offs : a \in DOMAIN Source(f, k, to)}
      BY <1>2, Zenon DEF SourcesOver, Site
    <2>2. T # {}
      BY <2>1
    <2>3. T \in SUBSET (1 .. Len(f.offs)) /\ Len(f.offs) \in Nat
      BY <2>1
    <2> HIDE DEF T
    <2>4. Max(T) \in T
      BY <2>2, <2>3, GreatestNumber
    <2>. QED BY <2>1, <2>4 DEF T
  <1>4. DOMAIN cells = sites
    OBVIOUS
  <1> HIDE DEF cells
  <1>5. /\ DOMAIN new = DOMAIN mem \cup sites
        /\ \A a \in sites : new[a] = cells[a]
        /\ \A a \in DOMAIN mem \ sites : new[a] = mem[a]
    BY <1>1, <1>4 DEF Written
  <1> HIDE DEF new
  <1>6. \A a \in sites : \E j \in DOMAIN f.offs : a \in DOMAIN Source(f, j, to) /\ new[a] = Source(f, j, to)[a]
    BY <1>3, <1>5
  <1>. QED BY <1>5, <1>6 DEF new, IsSourced

\* What was asked for stays, where no record is applied.
LEMMA PatchesStay ==
  ASSUME input' = input, addr' = addr,
         {x \in seen' : x[4] # 0} = {x \in seen : x[4] # 0}
  PROVE  Patches' = Patches
  <1>1. \A o, i : VA(o, i)' = VA(o, i)
    BY TablesStay DEF VA
  <1>2. ASSUME NEW h PROVE PatchesOf(h)' = PatchesOf(h)
    <2>1. FixupsOf(h[3][2])' = FixupsOf(h[3][2]) /\ PageSize' = PageSize
      BY TablesStay
    <2>. QED BY <1>1, <2>1 DEF PatchesOf
  <1>. QED BY <1>2 DEF Patches


\* Where pages are mapped the objects have their addresses.
LEMMA AddressFacts ==
  ASSUME LayoutInv, pc \notin {"imports", "objects", "rejected"}
  PROVE  /\ DOMAIN addr = 1 .. NumObjects /\ \A x \in 1 .. NumObjects : addr[x] \in Nat
         /\ \A x, y \in 1 .. NumObjects : x < y => addr[x] + Extent(x) <= addr[y]
  <1>1. addr \in Seq(Nat)
    BY DEF LayoutInv, ObjectsInLine
  <1>2. Len(addr) = NumObjects
    BY DEF LayoutInv, ObjectsCounted
  <1>3. DOMAIN addr = 1 .. NumObjects /\ \A x \in DOMAIN addr : addr[x] \in Nat
    BY <1>1, <1>2
  <1>4. \A x, y \in DOMAIN addr : x < y => addr[x] + Extent(x) <= addr[y]
    BY DEF LayoutInv, ObjectsInLine
  <1>. QED BY <1>3, <1>4

\* Where a page is mapped nothing has been patched that belongs to a page behind.
LEMMA PagesAreBehind ==
  ASSUME TypeInv, LayoutInv, PagesFit, pc = "pages", NEW h, IsPassed(h)
  PROVE  /\ VA(h[1], h[2]) + PageSize <= PageVA
         /\ PageVA \in Nat /\ VA(h[1], h[2]) \in Nat
  <1> DEFINE o == h[1]
             i == h[2]
             s == PageSize
             n == input.objects[o].mapsize
  <1>1. /\ NumObjects \in Nat /\ s \in Nat \ {0} /\ o \in 1 .. NumObjects /\ obj \in 1 .. NumObjects
        /\ i \in Nat /\ n \in Nat /\ i < n /\ page \in Nat
        /\ o < obj \/ (o = obj /\ i < page)
    BY InputFacts DEF TypeInv, IsPassed, IsMapped
  <1>2. /\ DOMAIN addr = 1 .. NumObjects /\ \A x \in 1 .. NumObjects : addr[x] \in Nat
        /\ \A x, y \in 1 .. NumObjects : x < y => addr[x] + Extent(x) <= addr[y]
    BY AddressFacts
  <1>3. VA(o, i) = addr[o] + i * s /\ PageVA = addr[obj] + page * s
    BY DEF VA, PageVA
  <1>4. n * s <= Extent(o)
    BY <1>1 DEF PagesFit, IsPassed
  <1>5. Extent(o) \in Nat
    BY <1>1, InputFacts, RoundedUp, SizeAssumption DEF Extent, TypeInv
  <1>6. \A m \in Nat : i < m => i * s + s <= m * s
    <2> SUFFICES ASSUME NEW m \in Nat, i < m PROVE i * s + s <= m * s
      OBVIOUS
    <2>1. PICK d \in Nat : m = i + 1 + d
      <3>1. m - i - 1 \in Nat /\ m = i + 1 + (m - i - 1)
        BY <1>1
      <3>. QED BY <3>1
    <2> HIDE DEF i, s
    <2>2. m * s = i * s + s + d * s /\ d * s \in Nat /\ i * s \in Nat
      BY <1>1, <2>1
    <2>. QED BY <2>2, <1>1
  <1>7. i * s \in Nat /\ page * s \in Nat /\ n * s \in Nat
    <2> HIDE DEF i, s, n
    <2>. QED BY <1>1
  <1>8. addr[o] \in Nat /\ addr[obj] \in Nat
    BY <1>1, <1>2
  <1>9. CASE o < obj
    <2>1. addr[o] + Extent(o) <= addr[obj]
      BY <1>1, <1>2, <1>9
    <2>2. i * s + s <= n * s
      BY <1>1, <1>6
    <2> DEFINE x == i * s
               y == page * s
               z == n * s
    <2> HIDE DEF o, i, s, n, x, y, z
    <2>3. x \in Nat /\ y \in Nat /\ z \in Nat /\ x + s <= z /\ z <= Extent(o)
      BY <1>4, <1>7, <2>2 DEF x, y, z
    <2>4. VA(o, i) = addr[o] + x /\ PageVA = addr[obj] + y
      BY <1>3 DEF x, y
    <2>. QED BY <1>1, <1>5, <1>8, <2>1, <2>3, <2>4 DEF o, i, s
  <1>10. CASE o = obj /\ i < page
    <2>1. i * s + s <= page * s
      BY <1>1, <1>6, <1>10
    <2> DEFINE x == i * s
               y == page * s
    <2>2. addr[o] = addr[obj]
      BY <1>10
    <2> HIDE DEF o, i, s, n, x, y
    <2>3. x \in Nat /\ y \in Nat /\ x + s <= y
      BY <1>7, <2>1 DEF x, y
    <2>4. VA(o, i) = addr[o] + x /\ PageVA = addr[obj] + y
      BY <1>3 DEF x, y
    <2>. QED BY <1>1, <1>8, <2>2, <2>3, <2>4 DEF o, i, s
  <1>. QED BY <1>1, <1>9, <1>10

\* Mapping a page writes at the page and above.
LEMMA PageIsWritten ==
  ASSUME NEW flags, NEW va \in Int, NEW off, NEW n, NEW a \in DOMAIN PageCells(flags, va, off, n)
  PROVE  a >= va
  BY DEF PageCells, Cells

\* Where nothing is asked for and nothing is written all is as it was.
LEMMA LandedStays ==
  ASSUME input' = input, addr' = addr, memory' = memory,
         {x \in seen' : x[4] # 0} = {x \in seen : x[4] # 0}, Landed
  PROVE  Landed'
  <1>1. Patches' = Patches
    BY PatchesStay
  <1>. QED BY <1>1 DEF Landed

\* A page that is mapped leaves what its neighbours' fixups have written.
LEMMA MapPageLands ==
  ASSUME TypeInv, LayoutInv, PlacesInv, PagesFit, Landed, MapPage
  PROVE  Landed'
  <1>1. /\ input' = input /\ addr' = addr /\ pc = "pages"
        /\ seen' = seen \cup {<<obj, page, reader.pos, 0>>}
        /\ \/ memory' = memory
           \/ \E flags, off, n : memory' = Written(memory, PageCells(flags, PageVA, off, n))
    BY DEF MapPage
  <1>2. {x \in seen' : x[4] # 0} = {x \in seen : x[4] # 0}
    BY <1>1
  <1>3. Patches' = Patches
    BY <1>1, <1>2, PatchesStay
  <1>4. ASSUME NEW p \in Patches, NEW a \in DOMAIN p.cells, a < p.end
        PROVE  /\ a \in DOMAIN memory'
               /\ \E q \in Patches : a \in DOMAIN q.cells /\ memory'[a] = q.cells[a]
    <2>1. PICK h \in seen : h[4] # 0 /\ p \in PatchesOf(h)
      BY DEF Patches
    <2>2. IsPassed(h)
      BY <2>1 DEF PlacesInv
    <2>3. VA(h[1], h[2]) + PageSize <= PageVA /\ PageVA \in Nat /\ VA(h[1], h[2]) \in Nat
      BY <1>1, <2>2, PagesAreBehind
    <2>4. PICK off \in ToSet(FixupsOf(h[3][2])[h[3][3]].offs) :
            p = [end   |-> VA(h[1], h[2]) + PageSize,
                 cells |-> Patch(FixupsOf(h[3][2])[h[3][3]].src, VA(h[1], h[2]) + off, h[4])]
      BY <2>1, Zenon DEF PatchesOf
    <2>5. p.end = VA(h[1], h[2]) + PageSize
      BY <2>4
    <2>6. DOMAIN p.cells \subseteq Int
      <3>1. \A src, site, to : DOMAIN Patch(src, site, to) = Cells(site, Width(src))
        BY Zenon DEF Patch
      <3>2. \A va, n : Cells(va, n) \subseteq Int
        BY DEF Cells
      <3>. QED BY <2>4, <3>1, <3>2
    <2>7. VA(h[1], h[2]) + PageSize \in Int
      <3>1. PageSize \in Nat
        BY InputFacts DEF TypeInv
      <3>. QED BY <2>3, <3>1
    <2>8. a < PageVA /\ a \in Int
      BY <1>4, <2>3, <2>5, <2>6, <2>7
    <2>9. \A flags, off2, n : a \notin DOMAIN PageCells(flags, PageVA, off2, n)
      BY <2>3, <2>8, PageIsWritten
    <2>10. a \in DOMAIN memory /\ \E q \in Patches : a \in DOMAIN q.cells /\ memory[a] = q.cells[a]
      BY <1>4 DEF Landed
    <2>11. a \in DOMAIN memory' /\ memory'[a] = memory[a]
      <3>1. ASSUME NEW cells, a \notin DOMAIN cells
            PROVE  a \in DOMAIN Written(memory, cells) /\ Written(memory, cells)[a] = memory[a]
        BY <2>10, <3>1 DEF Written
      <3>. QED BY <1>1, <2>9, <2>10, <3>1
    <2>. QED BY <2>10, <2>11
  <1>. QED BY <1>3, <1>4 DEF Landed


\* A cell has what some record asked for.
IsAsked(a) == \E q \in Patches : a \in DOMAIN q.cells /\ memory[a] = q.cells[a]

\* A record that is applied writes what it asks for, and leaves everything else.
LEMMA ApplyFixupAsks ==
  ASSUME TypeInv, WalkInv, ApplyFixup
  PROVE  /\ input' = input /\ Patches \subseteq Patches' /\ DOMAIN memory \subseteq DOMAIN memory'
         /\ \A p \in Patches' : \A a \in DOMAIN p.cells :
              p \in Patches \/ (a \in DOMAIN memory' /\ IsAsked(a)')
         /\ \A a \in DOMAIN memory' :
              IsAsked(a)' \/ (a \in DOMAIN memory /\ memory'[a] = memory[a])
  <1> DEFINE f == FixupsOf(FixupPage)[reader.pos[3]]
             to == Target(f).to
             new == <<obj, page, reader.pos, to>>
  <1>1. /\ input' = input /\ addr' = addr /\ obj' = obj /\ page' = page /\ pc = "fixups"
        /\ seen' = seen \cup {new} /\ memory' = Patched(memory, f, to)
    BY Zenon DEF ApplyFixup, InFixups
  <1>2. /\ f # Eof /\ reader.pos[3] \in 1 .. Len(FixupsOf(FixupPage)) /\ reader.pos[2] = FixupPage
    <2>1. f # Eof /\ reader.pos[3] <= Len(FixupsOf(FixupPage))
      BY Zenon DEF ApplyFixup, InFixups
    <2>2. PICK k \in 1 .. Len(FixupsOf(FixupPage)) + 1 : reader.pos = FixupOf(FixupPage, k)
      BY <1>1 DEF WalkInv, AtFixup
    <2>3. reader.pos[2] = FixupPage /\ reader.pos[3] = k
      BY <2>2 DEF FixupOf
    <2>4. Len(FixupsOf(FixupPage)) \in Nat
      BY FixupFacts DEF TypeInv
    <2>. QED BY <2>1, <2>3, <2>4
  <1>3. f.offs \in Seq(Int)
    BY <1>2, FixupFacts DEF TypeInv
  <1>4. new[1] = obj /\ new[2] = page /\ new[3] = reader.pos /\ new[4] = to
    OBVIOUS
  <1> HIDE DEF new, to
  <1>5. PageVA = VA(obj, page) /\ \A h : PatchesOf(h)' = PatchesOf(h)
    <2>1. \A o, i : VA(o, i)' = VA(o, i)
      BY <1>1, TablesStay DEF VA
    <2>2. ASSUME NEW h PROVE PatchesOf(h)' = PatchesOf(h)
      <3>1. FixupsOf(h[3][2])' = FixupsOf(h[3][2]) /\ PageSize' = PageSize
        BY <1>1, TablesStay
      <3>. QED BY <2>1, <3>1 DEF PatchesOf
    <2>. QED BY <2>2 DEF VA, PageVA
  <1>6. Patches' = Patches \cup IF to = 0 THEN {} ELSE PatchesOf(new)
    <2>1. {x \in seen' : x[4] # 0} =
            {x \in seen : x[4] # 0} \cup IF to = 0 THEN {} ELSE {new}
      BY <1>1, <1>4
    <2>. QED BY <1>5, <2>1, Zenon DEF Patches
  <1>7. PatchesOf(new) =
          {[end |-> PageVA + PageSize, cells |-> Source(f, k, to)] : k \in DOMAIN f.offs}
    <2>1. FixupsOf(new[3][2])[new[3][3]] = f
      BY <1>2, <1>4
    <2>2. PatchesOf(new) = {[end   |-> PageVA + PageSize,
                             cells |-> Patch(f.src, PageVA + off, to)] : off \in ToSet(f.offs)}
      BY <1>4, <1>5, <2>1, Zenon DEF PatchesOf
    <2> HIDE DEF f
    <2>. QED BY <2>2, Zenon DEF ToSet, Source
  <1>8. CASE to = 0
    <2>1. memory' = memory
      BY <1>1, <1>8 DEF Patched
    <2>. QED BY <1>1, <1>6, <1>8, <2>1
  <1>9. CASE to # 0
    <2> HIDE DEF f
    <2>1. /\ DOMAIN memory \subseteq DOMAIN memory'
          /\ \A k \in DOMAIN f.offs : \A a \in DOMAIN Source(f, k, to) :
               a \in DOMAIN memory' /\ IsSourced(f, to, a, memory'[a])
          /\ \A a \in DOMAIN memory : memory'[a] = memory[a] \/ IsSourced(f, to, a, memory'[a])
          /\ \A a \in DOMAIN memory' : a \in DOMAIN memory \/ IsSourced(f, to, a, memory'[a])
      BY <1>1, <1>3, <1>9, PatchedFacts
    <2>2. ASSUME NEW a, IsSourced(f, to, a, memory'[a])
          PROVE  IsAsked(a)'
      <3>1. PICK j \in DOMAIN f.offs :
              a \in DOMAIN Source(f, j, to) /\ memory'[a] = Source(f, j, to)[a]
        BY <2>2 DEF IsSourced
      <3> DEFINE q == [end |-> PageVA + PageSize, cells |-> Source(f, j, to)]
      <3>2. q \in Patches' /\ q.cells = Source(f, j, to)
        BY <1>6, <1>7, <1>9
      <3>. QED BY <3>1, <3>2 DEF IsAsked
    <2>3. ASSUME NEW p \in Patches', NEW a \in DOMAIN p.cells, p \notin Patches
          PROVE  a \in DOMAIN memory' /\ IsAsked(a)'
      <3>1. PICK k \in DOMAIN f.offs : p.cells = Source(f, k, to)
        BY <1>6, <1>7, <1>9, <2>3
      <3>. QED BY <2>1, <2>2, <2>3, <3>1
    <2>4. Patches \subseteq Patches'
      BY <1>6
    <2>. QED BY <1>1, <2>1, <2>2, <2>3, <2>4
  <1>. QED BY <1>8, <1>9

\* So what has been asked for stays.
LEMMA ApplyFixupLands ==
  ASSUME TypeInv, WalkInv, Landed, ApplyFixup
  PROVE  Landed'
  <1>1. ASSUME NEW p \in Patches', NEW a \in DOMAIN p.cells, a < p.end
        PROVE  a \in DOMAIN memory' /\ IsAsked(a)'
    <2>1. CASE p \notin Patches
      BY <1>1, <2>1, ApplyFixupAsks
    <2>2. CASE p \in Patches
      <3>1. a \in DOMAIN memory /\ IsAsked(a)
        BY <1>1, <2>2 DEF Landed, IsAsked
      <3>2. a \in DOMAIN memory'
        BY <3>1, ApplyFixupAsks
      <3>3. IsAsked(a)' \/ memory'[a] = memory[a]
        BY <3>2, ApplyFixupAsks
      <3>4. memory'[a] = memory[a] => IsAsked(a)'
        BY <3>1, ApplyFixupAsks DEF IsAsked
      <3>. QED BY <3>2, <3>3, <3>4
    <2>. QED BY <2>1, <2>2
  <1>. QED BY <1>1 DEF Landed, IsAsked

\* A page whose records are whole has none that is truncated.
LEMMA WholePagesEnd ==
  ASSUME TypeInv, WalkInv, Whole
  PROVE  ~TruncatedFixup
  <1> SUFFICES ASSUME TruncatedFixup PROVE FALSE
    OBVIOUS
  <1> DEFINE p == FixupPage
             n == Len(FixupsOf(p))
  <1>1. pc = "fixups" /\ reader.pos[3] <= n /\ FixupsOf(p)[reader.pos[3]] = Eof
    BY Zenon DEF TruncatedFixup, InFixups
  <1>2. PICK k \in 1 .. n + 1 :
          reader.pos = FixupOf(p, k) /\ \A j \in 1 .. k - 1 : FixupsOf(p)[j] # Eof
    BY <1>1 DEF WalkInv, AtFixup
  <1>3. reader.pos[3] = k
    BY <1>2 DEF FixupOf
  <1>4. n \in Nat
    BY FixupFacts DEF TypeInv
  <1>5. FixupCount(p) = k - 1
    <2> HIDE DEF p
    <2>. QED BY <1>1, <1>2, <1>3, FixupsEnd DEF TypeInv
  <1>6. k \in 1 .. n
    BY <1>1, <1>3, <1>4
  <1>7. FixupsOf(p) # <<>>
    BY <1>6
  <1>8. p \in DOMAIN input.fixups /\ FixupsOf(p) = input.fixups[p]
    BY <1>7, Zenon DEF FixupsOf
  <1>9. FixupCount(p) = n
    BY <1>8 DEF Whole
  <1>. QED BY <1>4, <1>5, <1>6, <1>9


\* What is passed stays passed, as long as the reader does not go back.
LEMMA PassedStays ==
  ASSUME input' = input, NEW h, IsPassed(h),
         pc' = "segments" => h[1] < obj',
         pc' = "pages" => h[1] < obj' \/ (h[1] = obj' /\ h[2] < page'),
         pc' = "fixups" => h[1] < obj' \/ (h[1] = obj' /\ h[2] <= page')
  PROVE  IsPassed(h)'
  <1>1. /\ NumObjects' = NumObjects /\ (IsMapped(h[1])' <=> IsMapped(h[1]))
        /\ FixupsOf(h[3][2])' = FixupsOf(h[3][2])
    BY TablesStay
  <1>. QED BY <1>1 DEF IsPassed

\* What a fixup refers to is an address.
LEMMA TargetIsNumber ==
  ASSUME SlotInv, LayoutInv, NEW f, f.target \in {"internal", "ordinal", "name", "entry"},
         f.target = "internal" => f.obj \in Nat /\ f.off \in Nat
  PROVE  Target(f).to \in Int
  <1>1. Slot \in Nat \ {0}
    BY SizeAssumption
  <1>2. \A x : Found(x).to = x
    BY DEF Found
  <1>3. \A m \in Modules : Fresh(m) \in Int
    <2> SUFFICES ASSUME NEW m \in Modules PROVE Fresh(m) \in Int
      OBVIOUS
    <2>1. next_off[m] \in Nat /\ m \in Nat /\ NumObjects \in Nat
      BY InputFacts DEF SlotInv, Modules
    <2>2. ModuleSlot(m) \in Int
      BY <1>1, <2>1 DEF ModuleSlot
    <2>. QED BY <2>1, <2>2 DEF Fresh, ModuleBase
  <1>4. CASE f.target = "internal"
    <2>1. SegAddress(f.obj, f.off) \in Int
      <3>1. addr \in Seq(Nat)
        BY DEF LayoutInv, ObjectsInLine
      <3>2. f.obj \in 1 .. Len(addr) => addr[f.obj] \in Nat
        BY <3>1
      <3>. QED BY <1>4, <3>2 DEF SegAddress
    <2>2. f.obj * Slot + (f.off % Slot) \in Int
      BY <1>1, <1>4
    <2>. QED BY <1>2, <1>4, <2>1, <2>2 DEF Target
  <1>5. CASE f.target = "ordinal"
    <2> DEFINE m == f.mod
               import == <<ModuleName(m), f.ord>>
    <2>1. Target(f) = ResolveOrdinal(m, f.ord)
      BY <1>5 DEF Target
    <2> HIDE DEF m, import
    <2>2. CASE ~IsModule(m)
      BY <1>2, <2>1, <2>2 DEF ResolveOrdinal
    <2>3. CASE IsModule(m) /\ import \in DOMAIN ordinals
      <3>1. ordinals[import] \in Nat
        BY <2>3 DEF SlotInv, OrdinalsTaken, Taken
      <3>2. Target(f) = Found(ordinals[import])
        BY <2>1, <2>3, Zenon DEF ResolveOrdinal, import
      <3>. QED BY <1>2, <3>1, <3>2
    <2>4. CASE IsModule(m) /\ import \notin DOMAIN ordinals
      <3> DEFINE new == [Found(Fresh(m)) EXCEPT
                           !.next_off[m] = @ + Wide,
                           !.ordinals = IF ModuleThere(m) THEN Bind(@, import, Fresh(m)) ELSE @]
      <3>1. Target(f) = new
        BY <2>1, <2>4, Zenon DEF ResolveOrdinal, import
      <3>2. new.to = Fresh(m)
        BY DEF Found
      <3>. QED BY <1>3, <2>4, <3>1, <3>2 DEF IsModule, Modules
    <2>. QED BY <2>2, <2>3, <2>4
  <1>6. CASE f.target = "name"
    <2> DEFINE m == f.mod
               sym == ProcName(f.name)
    <2>1. Target(f) = ResolveName(m, sym)
      BY <1>6 DEF Target
    <2> HIDE DEF m, sym
    <2>2. CASE ~IsModule(m)
      BY <1>2, <2>1, <2>2 DEF ResolveName
    <2>3. CASE IsModule(m) /\ sym \in DOMAIN named
      <3>1. named[sym] \in Nat
        BY <2>3 DEF SlotInv, NamesTaken, Taken
      <3>2. Target(f) = Found(named[sym])
        BY <2>1, <2>3, Zenon DEF ResolveName
      <3>. QED BY <1>2, <3>1, <3>2
    <2>4. CASE IsModule(m) /\ sym \notin DOMAIN named
      <3> DEFINE new == [Found(Fresh(m)) EXCEPT
                           !.next_off[m] = @ + Wide,
                           !.named = IF sym = NoName \/ ~ModuleThere(m) THEN @
                                     ELSE Bind(@, sym, Fresh(m))]
      <3>1. Target(f) = new
        BY <2>1, <2>4, Zenon DEF ResolveName
      <3>2. new.to = Fresh(m)
        BY DEF Found
      <3>. QED BY <1>3, <2>4, <3>1, <3>2 DEF IsModule, Modules
    <2>. QED BY <2>2, <2>3, <2>4
  <1>7. CASE f.target = "entry"
    BY <1>2, <1>7 DEF Target
  <1>. QED BY <1>4, <1>5, <1>6, <1>7

\* Fixups are those of pages that have been passed, in every phase.
LEMMA PlacesStep ==
  ASSUME TypeInv, WalkInv, SlotInv, LayoutInv, PlacesInv, [Next]_vars
  PROVE  PlacesInv'
  <1>1. input' = input /\ input \in Inputs /\ obj \in Nat /\ page \in Nat
    BY InputStays DEF TypeInv
  <1>2. \A h \in seen : h[4] # 0 => IsPassed(h)
    BY DEF PlacesInv
  <1>3. \A h \in seen : h[4] # 0 => h[1] \in Nat /\ h[2] \in Nat
    BY <1>2, InputFacts DEF TypeInv, IsPassed
  <1>4. CASE CreateImport \/ ImportsCreated \/ ReadObject \/ ObjectsRead
    <2>1. pc \in {"imports", "objects"} /\ seen' = seen
      BY <1>4 DEF CreateImport, ImportsCreated, ReadObject, ObjectsRead
    <2>2. seen = {}
      BY <2>1 DEF WalkInv, Handled
    <2>. QED BY <2>1, <2>2 DEF PlacesInv
  <1>5. CASE OpenObject \/ PagesDone \/ TruncatedFixup \/ FixupsDone
    <2>1. /\ seen' = seen
          /\ \/ pc = "segments" /\ pc' = "segments" /\ obj' = obj + 1
             \/ pc = "segments" /\ pc' = "pages" /\ obj' = obj
             \/ pc = "pages" /\ pc' = "segments" /\ obj' = obj + 1
             \/ pc = "fixups" /\ pc' = "pages" /\ obj' = obj /\ page' = page + 1
      BY <1>5 DEF OpenObject, PagesDone, CloseObject, TruncatedFixup, FixupsDone, EndPage, InFixups
    <2>2. ASSUME NEW h \in seen, h[4] # 0 PROVE IsPassed(h)'
      <3>1. IsPassed(h) /\ h[1] \in Nat /\ h[2] \in Nat
        BY <1>2, <1>3, <2>2
      <3>2. /\ pc' = "segments" => h[1] < obj'
            /\ pc' = "pages" => h[1] < obj' \/ (h[1] = obj' /\ h[2] < page')
            /\ pc' # "fixups"
        BY <1>1, <2>1, <3>1 DEF IsPassed
      <3>. QED BY <1>1, <3>1, <3>2, PassedStays
    <2>. QED BY <2>1, <2>2 DEF PlacesInv
  <1>6. CASE MapPage
    <2>1. /\ seen' = seen \cup {<<obj, page, reader.pos, 0>>} /\ obj' = obj /\ pc = "pages"
          /\ (pc' = "pages" /\ page' = page + 1) \/ (pc' = "fixups" /\ page' = page)
      BY <1>6 DEF MapPage
    <2>2. ASSUME NEW h \in seen', h[4] # 0 PROVE IsPassed(h)'
      <3>1. h \in seen
        BY <2>1, <2>2
      <3>2. IsPassed(h) /\ h[1] \in Nat /\ h[2] \in Nat
        BY <1>2, <1>3, <2>2, <3>1
      <3>3. /\ pc' # "segments"
            /\ pc' = "pages" => h[1] < obj' \/ (h[1] = obj' /\ h[2] < page')
            /\ pc' = "fixups" => h[1] < obj' \/ (h[1] = obj' /\ h[2] <= page')
        BY <1>1, <2>1, <3>2 DEF IsPassed
      <3>. QED BY <1>1, <3>2, <3>3, PassedStays
    <2>. QED BY <2>2 DEF PlacesInv
  <1>7. CASE ApplyFixup
    <2> DEFINE to == Target(FixupsOf(FixupPage)[reader.pos[3]]).to
               new == <<obj, page, reader.pos, to>>
    <2>1. /\ seen' = seen \cup {new} /\ obj' = obj /\ page' = page
          /\ pc = "fixups" /\ pc' = "fixups"
          /\ reader.pos[3] <= Len(FixupsOf(FixupPage))
          /\ FixupsOf(FixupPage)[reader.pos[3]] # Eof
      BY <1>7, Zenon DEF ApplyFixup, InFixups
    <2>2. new[1] = obj /\ new[2] = page /\ new[3] = reader.pos /\ new[4] = to
      OBVIOUS
    <2> HIDE DEF new, to
    <2>3. IsPassed(new)
      <3>1. AtFixup
        BY <2>1 DEF WalkInv
      <3>2. PICK k \in 1 .. Len(FixupsOf(FixupPage)) + 1 : reader.pos = FixupOf(FixupPage, k)
        BY <3>1 DEF AtFixup
      <3>3. reader.pos[2] = FixupPage /\ reader.pos[3] = k
        BY <3>2 DEF FixupOf
      <3>4. DOMAIN FixupsOf(FixupPage) = 1 .. Len(FixupsOf(FixupPage))
            /\ Len(FixupsOf(FixupPage)) \in Nat
        BY <1>1, FixupFacts
      <3>5. FixupsOf(FixupPage)[k].offs \in Seq(Int)
        BY <1>1, <2>1, <3>2, <3>3, <3>4, FixupFacts
      <3>6. obj \in 1 .. NumObjects /\ IsMapped(obj)
        BY <2>1 DEF TypeInv, IsMapped
      <3>8. to \in Int
        <4> DEFINE f == FixupsOf(FixupPage)[reader.pos[3]]
        <4>1. /\ f.target \in {"internal", "ordinal", "name", "entry"}
              /\ f.target = "internal" => f.obj \in Nat /\ f.off \in Nat
          BY <1>1, <2>1, <3>2, <3>3, <3>4, FixupFacts
        <4>2. to = Target(f).to
          BY DEF to
        <4> HIDE DEF f
        <4>. QED BY <4>1, <4>2, TargetIsNumber
      <3>7. page < input.objects[obj].mapsize
        BY <1>1, <3>1, <3>6, InputFacts, SMTT(30) DEF AtFixup, PagesOf
      <3>. QED BY <1>1, <2>1, <2>2, <3>3, <3>5, <3>6, <3>7, <3>8 DEF IsPassed
    <2>4. ASSUME NEW h \in seen', h[4] # 0 PROVE IsPassed(h)'
      <3>1. IsPassed(h)
        BY <1>2, <2>1, <2>3, <2>4
      <3>. QED BY <1>1, <2>1, <3>1, PassedStays DEF IsPassed
    <2>. QED BY <2>4 DEF PlacesInv
  <1>8. CASE SegmentsLoaded \/ ReadName \/ NextNameTable \/ SetEntryPoint \/ LoadVxd
    <2>1. seen' = seen /\ pc' \notin {"segments", "pages", "fixups"}
      BY <1>8 DEF SegmentsLoaded, ReadName, NextNameTable, SetEntryPoint, LoadVxd, NamesLeft
    <2>2. ASSUME NEW h \in seen, h[4] # 0 PROVE IsPassed(h)'
      BY <1>1, <1>2, <2>1, <2>2, PassedStays
    <2>. QED BY <2>1, <2>2 DEF PlacesInv
  <1>9. CASE UNCHANGED vars
    <2>1. seen' = seen /\ pc' = pc /\ obj' = obj /\ page' = page
      BY <1>9 DEF vars
    <2>2. ASSUME NEW h \in seen, h[4] # 0 PROVE IsPassed(h)'
      <3>1. IsPassed(h)
        BY <1>2, <2>2
      <3>. QED BY <1>1, <2>1, <3>1, PassedStays DEF IsPassed
    <2>. QED BY <2>1, <2>2 DEF PlacesInv
  <1>. QED BY <1>4, <1>5, <1>6, <1>7, <1>8, <1>9 DEF Next, Work, Terminating

\* Only pages and records write, and neither takes what has been asked for.
LEMMA LandStep ==
  ASSUME TypeInv, WalkInv, LayoutInv, PlacesInv, LandInv, [Next]_vars
  PROVE  LandInv'
  <1>1. input' = input
    BY InputStays
  <1>2. (Whole' <=> Whole) /\ (PagesFit' <=> PagesFit)
    <2>1. \A p : FixupsOf(p)' = FixupsOf(p)
      BY <1>1, TablesStay
    <2>2. \A p : FixupCount(p)' = FixupCount(p)
      BY <1>1, FixupCountStays
    <2>3. \A o : Extent(o)' = Extent(o)
      BY <1>1, LayoutStays
    <2>4. \A o : IsMapped(o)' <=> IsMapped(o)
      BY <1>1, TablesStay
    <2>5. NumObjects' = NumObjects /\ PageSize' = PageSize
      BY <1>1, TablesStay
    <2>. QED BY <1>1, <2>2, <2>3, <2>4, <2>5 DEF Whole, PagesFit
  <1>3. SUFFICES ASSUME Whole, PagesFit, Landed PROVE Landed'
    BY <1>2 DEF LandInv
  <1>4. CASE CreateImport \/ ImportsCreated \/ ReadObject \/ ObjectsRead
    <2>1. pc \in {"imports", "objects"} /\ seen' = seen
      BY <1>4 DEF CreateImport, ImportsCreated, ReadObject, ObjectsRead
    <2>2. seen' = {}
      BY <2>1 DEF WalkInv, Handled
    <2>3. Patches' = {}
      BY <2>2 DEF Patches
    <2>. QED BY <2>3 DEF Landed
  <1>5. CASE OpenObject \/ PagesDone \/ FixupsDone \/ UNCHANGED vars
    <2>1. addr' = addr /\ memory' = memory /\ seen' = seen
      BY <1>5 DEF OpenObject, PagesDone, CloseObject, FixupsDone, EndPage, vars
    <2>. QED BY <1>1, <1>3, <2>1, LandedStays
  <1>6. CASE SegmentsLoaded \/ ReadName \/ NextNameTable \/ SetEntryPoint \/ LoadVxd
    <2>1. addr' = addr /\ memory' = memory /\ seen' = seen
      BY <1>6 DEF SegmentsLoaded, ReadName, NextNameTable, SetEntryPoint, LoadVxd
    <2>. QED BY <1>1, <1>3, <2>1, LandedStays
  <1>7. CASE MapPage
    BY <1>3, <1>7, MapPageLands
  <1>8. CASE ApplyFixup
    BY <1>3, <1>8, ApplyFixupLands
  <1>9. ~TruncatedFixup
    BY <1>3, WholePagesEnd
  <1>. QED BY <1>4, <1>5, <1>6, <1>7, <1>8, <1>9 DEF Next, Work, Terminating

\* Which records the file asks to be applied, and that what they have written is
\* never overwritten by a page that is mapped later or by the record of another
\* page: for every file whose objects have no more pages than room.
THEOREM FixupsStay == Spec => [](PagesFit => FixupsLand)
  <1>1. Init => PlacesInv /\ LandInv
    BY DEF Init, PlacesInv, LandInv, Landed, Patches
  <1>2. TypeInv /\ WalkInv /\ SlotInv /\ LayoutInv /\ PlacesInv /\ [Next]_vars => PlacesInv'
    BY PlacesStep
  <1>3. TypeInv /\ WalkInv /\ LayoutInv /\ PlacesInv /\ LandInv /\ [Next]_vars => LandInv'
    BY LandStep
  <1>4. LandInv => (PagesFit => FixupsLand)
    BY Zenon DEF LandInv, Landed, FixupsLand
  <1>. QED BY <1>1, <1>2, <1>3, <1>4, WalkIsTracked, SlotsAreInOrder, LayoutIsInOrder, PTL DEF Spec
-----------------------------------------------------------------------------
(* The functions of a VxD.                                                 *)

\* One value is asked for at an address, by all records that write there, and
\* it is the address of something.
IsFilled(a) ==
  \E v \in FixedUp(a) :
    /\ v # 0 /\ Mapped(v) /\ FixedUp(a) = {v}
    /\ \E q \in Patches : \A c \in Cells(a, Wide) : c \in DOMAIN q.cells /\ c < q.end
    /\ \A q \in Patches : \A c \in DOMAIN q.cells \cap Cells(a, Wide) :
         q.cells[c] = PatchCell(v, c - a)

\* Nothing is asked for there, and the file has a 0.
IsUntouched(a) ==
  input.raw = 0 /\ \A q \in Patches : DOMAIN q.cells \cap Cells(a, Wide) = {}

IsClear(a) == IsFilled(a) \/ IsUntouched(a)

\* What a description block and its table of services must respect for their
\* addresses to be those the fixups give.
BlockIsClear ==
  \A ddb \in EntryAddresses(1) : ddb # 0 =>
    /\ \A k \in DDBFields : IsClear(Field(ddb, k))
    /\ \A t \in FixedUp(Field(ddb, ServiceTable)), k \in 0 .. input.services - 1 :
         IsClear(t + k * Wide)

\* What no record has written is as the file has it.
CellInv ==
  Whole => \A c \in DOMAIN memory : IsAsked(c) \/ memory[c][1] # "patch"

\* What le_load_vxd has made of the description block.
IsBlock(ddb) ==
  /\ ddb # 0 /\ \A k \in DDBFields : Readable(memory, Field(ddb, k))
  /\ functions = {a \in {Value(memory, Field(ddb, k)) : k \in {Control, V86, Pm}} \cup
                          Services(memory, Value(memory, Field(ddb, ServiceTable))) :
                    a # 0 /\ Mapped(a)}

FunctionInv ==
  functions # {} => pc = "loaded" /\ \E ddb \in EntryAddresses(1) : IsBlock(ddb)

\* A page that is mapped writes nothing a record could have written.
LEMMA MapPageCells ==
  ASSUME CellInv, Whole, MapPage
  PROVE  \A c \in DOMAIN memory' : IsAsked(c)' \/ memory'[c][1] # "patch"
  <1>1. /\ input' = input /\ addr' = addr
        /\ seen' = seen \cup {<<obj, page, reader.pos, 0>>}
        /\ \/ memory' = memory
           \/ \E flags, off, n : memory' = Written(memory, PageCells(flags, PageVA, off, n))
    BY DEF MapPage
  <1>2. {x \in seen' : x[4] # 0} = {x \in seen : x[4] # 0}
    BY <1>1
  <1>3. Patches' = Patches
    BY <1>1, <1>2, PatchesStay
  <1>4. \A flags, off, n : \A c \in DOMAIN PageCells(flags, PageVA, off, n) :
          PageCells(flags, PageVA, off, n)[c][1] # "patch"
    BY DEF PageCells, InputCell, FillCell
  <1>5. ASSUME NEW c \in DOMAIN memory'
        PROVE  (c \in DOMAIN memory /\ memory'[c] = memory[c]) \/ memory'[c][1] # "patch"
    <2>1. ASSUME NEW cells, NEW d \in DOMAIN Written(memory, cells)
          PROVE  \/ d \in DOMAIN memory /\ Written(memory, cells)[d] = memory[d]
                 \/ d \in DOMAIN cells /\ Written(memory, cells)[d] = cells[d]
      BY DEF Written
    <2>. QED BY <1>1, <1>4, <2>1
  <1>6. \A c \in DOMAIN memory : IsAsked(c) \/ memory[c][1] # "patch"
    BY DEF CellInv
  <1>7. ASSUME NEW c \in DOMAIN memory', IsAsked(c), memory'[c] = memory[c]
        PROVE  IsAsked(c)'
    BY <1>3, <1>7 DEF IsAsked
  <1>. QED BY <1>5, <1>6, <1>7

\* Only records write what a record could have written.
LEMMA CellStep ==
  ASSUME TypeInv, WalkInv, CellInv, [Next]_vars
  PROVE  CellInv'
  <1>1. input' = input
    BY InputStays
  <1>2. Whole' <=> Whole
    <2>1. \A p : FixupCount(p)' = FixupCount(p)
      BY <1>1, FixupCountStays
    <2>. QED BY <1>1, <2>1 DEF Whole
  <1>3. SUFFICES ASSUME Whole
                 PROVE  \A c \in DOMAIN memory' : IsAsked(c)' \/ memory'[c][1] # "patch"
    BY <1>2 DEF CellInv
  <1>4. CASE CreateImport \/ ImportsCreated \/ ReadObject \/ ObjectsRead
    <2>1. pc \in {"imports", "objects"} /\ seen' = seen /\ memory' = memory
      BY <1>4 DEF CreateImport, ImportsCreated, ReadObject, ObjectsRead
    <2>2. seen = {}
      BY <2>1 DEF WalkInv, Handled
    <2>3. Patches = {}
      BY <2>2 DEF Patches
    <2>. QED BY <1>3, <2>1, <2>3 DEF CellInv, IsAsked
  <1>5. ASSUME addr' = addr, memory' = memory, seen' = seen
        PROVE  \A c \in DOMAIN memory' : IsAsked(c)' \/ memory'[c][1] # "patch"
    <2>1. Patches' = Patches
      BY <1>1, <1>5, PatchesStay
    <2>. QED BY <1>3, <1>5, <2>1 DEF CellInv, IsAsked
  <1>6. CASE OpenObject \/ PagesDone \/ FixupsDone \/ UNCHANGED vars
    <2>1. addr' = addr /\ memory' = memory /\ seen' = seen
      BY <1>6 DEF OpenObject, PagesDone, CloseObject, FixupsDone, EndPage, vars
    <2>. QED BY <1>5, <2>1
  <1>7. CASE SegmentsLoaded \/ ReadName \/ NextNameTable \/ SetEntryPoint \/ LoadVxd
    <2>1. addr' = addr /\ memory' = memory /\ seen' = seen
      BY <1>7 DEF SegmentsLoaded, ReadName, NextNameTable, SetEntryPoint, LoadVxd
    <2>. QED BY <1>5, <2>1
  <1>8. CASE MapPage
    BY <1>3, <1>8, MapPageCells
  <1>9. CASE ApplyFixup
    <2>1. \A c \in DOMAIN memory' : IsAsked(c)' \/ (c \in DOMAIN memory /\ memory'[c] = memory[c])
      BY <1>9, ApplyFixupAsks
    <2>2. \A c \in DOMAIN memory : IsAsked(c) => IsAsked(c)' \/ memory'[c] # memory[c]
      <3>1. Patches \subseteq Patches'
        BY <1>9, ApplyFixupAsks
      <3>. QED BY <3>1 DEF IsAsked
    <2>. QED BY <1>3, <2>1, <2>2 DEF CellInv
  <1>10. ~TruncatedFixup
    BY <1>3, WholePagesEnd
  <1>. QED BY <1>4, <1>6, <1>7, <1>8, <1>9, <1>10 DEF Next, Work, Terminating

\* What le_load_vxd has found stays.
LEMMA BlockStays ==
  ASSUME input' = input, addr' = addr, memory' = memory, segments' = segments
  PROVE  /\ EntryAddresses(1)' = EntryAddresses(1)
         /\ \A a : Value(memory, a)' = Value(memory, a)
         /\ \A t : Services(memory, t)' = Services(memory, t)
         /\ \A a : Mapped(a)' <=> Mapped(a)
  <1>3. EntryAddresses(1)' = EntryAddresses(1)
    BY DEF EntryAddresses, AtFirstBundle, WalkBundle, SegAddress, HasAddresses, EntryOffset
  <1>4. \A a : Value(memory, a)' = Value(memory, a)
    BY DEF Value
  <1>5. \A t : Services(memory, t)' = Services(memory, t)
    BY <1>4, Zenon DEF Services, Readable, Cells
  <1>6. \A a : Mapped(a)' <=> Mapped(a)
    BY DEF Mapped, Cells
  <1>. QED BY <1>3, <1>4, <1>5, <1>6

\* Functions are set at the end of loading, from the block as it is then.
LEMMA FunctionStep ==
  ASSUME FunctionInv, [Next]_vars
  PROVE  FunctionInv'
  <1>1. input' = input
    BY InputStays
  <1>2. CASE LoadVxd
    <2>1. /\ pc' = "loaded" /\ pc = "vxd"
          /\ addr' = addr /\ memory' = memory /\ segments' = segments
      BY <1>2 DEF LoadVxd
    <2>2. functions = {}
      BY <2>1 DEF FunctionInv
    <2>3. PICK ddb \in EntryAddresses(1) :
            IF ddb = 0 \/ \E k \in DDBFields : ~Readable(memory, Field(ddb, k))
              THEN UNCHANGED functions
              ELSE functions' =
                     {a \in {Value(memory, Field(ddb, k)) : k \in {Control, V86, Pm}} \cup
                              Services(memory, Value(memory, Field(ddb, ServiceTable))) :
                        a # 0 /\ Mapped(a)}
      BY <1>2, Zenon DEF LoadVxd
    <2>4. CASE functions' = {}
      BY <2>4 DEF FunctionInv
    <2>5. CASE functions' # {}
      <3>1. /\ ddb # 0 /\ \A k \in DDBFields : Readable(memory, Field(ddb, k))
            /\ functions' =
                 {a \in {Value(memory, Field(ddb, k)) : k \in {Control, V86, Pm}} \cup
                          Services(memory, Value(memory, Field(ddb, ServiceTable))) :
                    a # 0 /\ Mapped(a)}
        BY <2>2, <2>3, <2>5
      <3>2. /\ EntryAddresses(1)' = EntryAddresses(1)
            /\ \A a : Value(memory, a)' = Value(memory, a)
            /\ \A t : Services(memory, t)' = Services(memory, t)
            /\ \A a : Mapped(a)' <=> Mapped(a)
        BY <1>1, <2>1, BlockStays
      <3>3. (\A k \in DDBFields : Readable(memory, Field(ddb, k)))'
        BY <2>1, <3>1 DEF Readable, DDBFields, Field, Cells
      <3>4. IsBlock(ddb)'
        BY <3>1, <3>2, <3>3, Zenon DEF IsBlock
      <3>. QED BY <2>1, <3>2, <3>4 DEF FunctionInv
    <2>. QED BY <2>4, <2>5
  <1>3. CASE ~LoadVxd /\ pc # "loaded"
    <2>1. functions = {}
      BY <1>3 DEF FunctionInv
    <2>2. functions' = functions
      <3>1. CreateImport \/ ImportsCreated \/ ReadObject \/ ObjectsRead => functions' = functions
        BY DEF CreateImport, ImportsCreated, ReadObject, ObjectsRead
      <3>2. OpenObject \/ PagesDone \/ MapPage \/ SegmentsLoaded => functions' = functions
        BY DEF OpenObject, PagesDone, CloseObject, MapPage, SegmentsLoaded
      <3>3. ApplyFixup \/ TruncatedFixup \/ FixupsDone => functions' = functions
        BY DEF ApplyFixup, TruncatedFixup, FixupsDone
      <3>4. ReadName \/ NextNameTable \/ SetEntryPoint \/ UNCHANGED vars => functions' = functions
        BY DEF ReadName, NextNameTable, SetEntryPoint, vars
      <3>. QED BY <1>3, <3>1, <3>2, <3>3, <3>4 DEF Next, Work, Terminating
    <2>. QED BY <2>1, <2>2 DEF FunctionInv
  <1>4. CASE ~LoadVxd /\ pc = "loaded"
    <2>1. UNCHANGED vars
      <3>1. CreateImport \/ ImportsCreated \/ ReadObject \/ ObjectsRead => pc # "loaded"
        BY DEF CreateImport, ImportsCreated, ReadObject, ObjectsRead
      <3>2. OpenObject \/ PagesDone \/ MapPage \/ SegmentsLoaded => pc # "loaded"
        BY DEF OpenObject, PagesDone, MapPage, SegmentsLoaded
      <3>3. ApplyFixup \/ TruncatedFixup \/ FixupsDone => pc # "loaded"
        BY DEF ApplyFixup, TruncatedFixup, FixupsDone, InFixups
      <3>4. ReadName \/ NextNameTable \/ SetEntryPoint => pc # "loaded"
        BY DEF ReadName, NextNameTable, SetEntryPoint, NamesLeft
      <3>. QED BY <1>4, <3>1, <3>2, <3>3, <3>4 DEF Next, Work, Terminating
    <2>2. /\ pc' = pc /\ functions' = functions
          /\ addr' = addr /\ memory' = memory /\ segments' = segments
      BY <2>1 DEF vars
    <2>3. /\ EntryAddresses(1)' = EntryAddresses(1)
          /\ \A a : Value(memory, a)' = Value(memory, a)
          /\ \A t : Services(memory, t)' = Services(memory, t)
          /\ \A a : Mapped(a)' <=> Mapped(a)
      BY <1>1, <2>2, BlockStays
    <2>4. ASSUME NEW ddb, IsBlock(ddb) PROVE IsBlock(ddb)'
      <3>1. (\A k \in DDBFields : Readable(memory, Field(ddb, k)))'
        BY <2>2, <2>4 DEF IsBlock, Readable, DDBFields, Field, Cells
      <3>. QED BY <2>2, <2>3, <2>4, <3>1, Zenon DEF IsBlock
    <2>. QED BY <2>2, <2>3, <2>4 DEF FunctionInv
  <1>. QED BY <1>2, <1>3, <1>4

\* Where one value is asked for it is what is read.
LEMMA FilledIsRead ==
  ASSUME Landed, NEW a \in Int, IsFilled(a), NEW v \in FixedUp(a)
  PROVE  /\ Readable(memory, a) /\ Value(memory, a) = v
         /\ v # 0 /\ Mapped(v) /\ FixedUp(a) = {v}
  <1>1. /\ v # 0 /\ Mapped(v) /\ FixedUp(a) = {v}
        /\ \E q \in Patches : \A c \in Cells(a, Wide) : c \in DOMAIN q.cells /\ c < q.end
        /\ \A q \in Patches : \A c \in DOMAIN q.cells \cap Cells(a, Wide) :
             q.cells[c] = PatchCell(v, c - a)
    BY DEF IsFilled
  <1>2. \A c \in Cells(a, Wide) : c \in DOMAIN memory /\ memory[c] = PatchCell(v, c - a)
    <2>1. PICK q \in Patches : \A c \in Cells(a, Wide) : c \in DOMAIN q.cells /\ c < q.end
      BY <1>1
    <2>2. ASSUME NEW c \in Cells(a, Wide)
          PROVE  c \in DOMAIN memory /\ memory[c] = PatchCell(v, c - a)
      <3>1. c \in DOMAIN memory /\ \E p \in Patches : c \in DOMAIN p.cells /\ memory[c] = p.cells[c]
        BY <2>1 DEF Landed
      <3>. QED BY <1>1, <3>1
    <2>. QED BY <2>2
  <1>3. Readable(memory, a)
    BY <1>2 DEF Readable
  <1>4. \A k \in 0 .. Wide - 1 : a + k \in Cells(a, Wide) /\ (a + k) - a = k
    BY SizeAssumption DEF Cells
  <1>5. \A k \in 0 .. Wide - 1 : memory[a + k] = PatchCell(v, k)
    BY <1>2, <1>4
  <1>6. a \in Cells(a, Wide) /\ a - a = 0
    BY SizeAssumption DEF Cells
  <1>7. memory[a][2] = v
    BY <1>2, <1>6 DEF PatchCell
  <1>8. Value(memory, a) = v
    BY <1>5, <1>7 DEF Value
  <1>. QED BY <1>1, <1>3, <1>8

\* Where nothing is asked for the file's 0 is read.
LEMMA UntouchedIsZero ==
  ASSUME CellInv, Whole, NEW a \in Int, IsUntouched(a), Readable(memory, a)
  PROVE  Value(memory, a) = 0
  <1>1. a \in Cells(a, Wide) /\ 0 \in 0 .. Wide - 1 /\ a + 0 = a
    BY SizeAssumption DEF Cells
  <1>2. a \in DOMAIN memory
    BY <1>1 DEF Readable
  <1>3. ~IsAsked(a)
    BY <1>1 DEF IsUntouched, IsAsked
  <1>4. memory[a][1] # "patch"
    BY <1>2, <1>3 DEF CellInv
  <1>5. \A x : PatchCell(x, 0)[1] = "patch"
    BY DEF PatchCell
  <1>6. memory[a + 0] # PatchCell(memory[a][2], 0)
    BY <1>1, <1>4, <1>5
  <1>. QED BY <1>1, <1>6 DEF Value, IsUntouched

\* And no fixup is there.
LEMMA UntouchedHasNone ==
  ASSUME NEW a \in Int, IsUntouched(a)
  PROVE  FixedUp(a) = {}
  <1>1. a \in Cells(a, Wide)
    BY SizeAssumption DEF Cells
  <1>2. \A q \in Patches : DOMAIN q.cells # Cells(a, Wide)
    BY <1>1 DEF IsUntouched
  <1>. QED BY <1>2 DEF FixedUp

\* So a clear address gives what the fixups have put there, if anything.
LEMMA ClearIsRead ==
  ASSUME CellInv, Whole, Landed, NEW a \in Int, IsClear(a)
  PROVE  /\ FixedUp(a) = IF Readable(memory, a) /\ Value(memory, a) # 0 /\ Mapped(Value(memory, a))
                           THEN {Value(memory, a)} ELSE {}
         /\ FixedUp(a) = {} /\ Readable(memory, a) => Value(memory, a) = 0
  <1>1. CASE IsFilled(a)
    <2>1. PICK v \in FixedUp(a) : TRUE
      BY <1>1 DEF IsFilled
    <2>. QED BY <1>1, <2>1, FilledIsRead
  <1>2. CASE IsUntouched(a)
    BY <1>2, UntouchedHasNone, UntouchedIsZero
  <1>. QED BY <1>1, <1>2 DEF IsClear

\* The block is at an address.
LEMMA BlockIsAtNumber ==
  ASSUME TypeInv, LayoutInv, NEW ddb \in EntryAddresses(1), ddb # 0
  PROVE  ddb \in Int
  <1>1. input \in Inputs
    BY DEF TypeInv
  <1>2. PICK n \in DOMAIN input.bundles : IsEntry(n, 1, ddb)
    BY <1>1, EntryIsFound
  <1> DEFINE b == input.bundles[n]
             nth == 1 - OrdinalsBefore[n]
  <1>3. PICK junk \in {0, 1} : nth \in 1 .. b.count /\ ddb = SegAddress(b.obj, EntryOffset(b, nth, junk))
    BY <1>2, Zenon DEF IsEntry
  <1>4. b.offs \in Seq(Nat)
    <2>1. input.bundles \in Seq(ToSet(input.bundles)) /\ b \in ToSet(input.bundles)
      BY <1>1, InputsAssumption DEF ToSet
    <2>. QED BY <1>1, <2>1, InputsAssumption
  <1>5. EntryOffset(b, nth, junk) \in Int
    <2> HIDE DEF b, nth
    <2>. QED BY <1>3, <1>4 DEF EntryOffset
  <1>6. b.obj \in 1 .. Len(addr) => addr[b.obj] \in Int
    BY DEF LayoutInv, ObjectsInLine
  <1> HIDE DEF b, nth
  <1>. QED BY <1>3, <1>5, <1>6 DEF SegAddress

\* Where the block and its table are clear the functions are what the fixups give.
LEMMA FunctionsAreFixedUp ==
  ASSUME TypeInv, LayoutInv, LandInv, CellInv, FunctionInv, PagesFit, Whole, BlockIsClear
  PROVE  ServicesAreFixedUp
  <1> SUFFICES ASSUME functions # {}
               PROVE  ServicesAreFixedUp
    BY DEF ServicesAreFixedUp
  <1>1. PICK ddb \in EntryAddresses(1) : IsBlock(ddb)
    BY DEF FunctionInv
  <1>2. ddb # 0 /\ ddb \in Int /\ Landed
    BY <1>1, BlockIsAtNumber DEF IsBlock, LandInv
  <1>3. \A k \in DDBFields : Field(ddb, k) \in Int /\ IsClear(Field(ddb, k))
    BY <1>2, SizeAssumption DEF BlockIsClear, Field, DDBFields, Control, V86, Pm, ServiceTable
  <1> DEFINE Read(a) == IF Value(memory, a) # 0 /\ Mapped(Value(memory, a))
                          THEN {Value(memory, a)} ELSE {}
             table == Value(memory, Field(ddb, ServiceTable))
             tables == FixedUp(Field(ddb, ServiceTable))
             places == {k \in 0 .. input.services - 1 : Readable(memory, table + k * Wide)}
             listed == UNION {FixedUp(t + k * Wide) : t \in tables, k \in 0 .. input.services - 1}
  <1>4. \A k \in DDBFields : FixedUp(Field(ddb, k)) = Read(Field(ddb, k))
    BY <1>1, <1>2, <1>3, ClearIsRead DEF IsBlock
  <1>5. {Control, V86, Pm} \subseteq DDBFields /\ ServiceTable \in DDBFields
    BY DEF DDBFields
  <1>6. listed = {a \in Services(memory, table) : a # 0 /\ Mapped(a)}
    <2>1. CASE tables = {}
      <3>1. table = 0
        BY <1>1, <1>2, <1>3, <1>5, <2>1, ClearIsRead DEF IsBlock
      <3>2. Services(memory, table) = {}
        BY <3>1 DEF Services
      <3> HIDE DEF tables, table
      <3>. QED BY <2>1, <3>2
    <2>2. CASE tables # {}
      <3>1. tables = {table} /\ table # 0 /\ Mapped(table)
        BY <1>4, <1>5, <2>2
      <3>2. table \in Int
        BY <3>1 DEF Mapped, Cells
      <3>3. \A k \in 0 .. input.services - 1 : table + k * Wide \in Int /\ IsClear(table + k * Wide)
        <4>1. \A k \in 0 .. input.services - 1 : table + k * Wide \in Int
          BY <3>2, SizeAssumption
        <4>. QED BY <1>2, <3>1, <4>1 DEF BlockIsClear
      <3>4. \A k \in 0 .. input.services - 1 :
              FixedUp(table + k * Wide) = IF k \in places THEN Read(table + k * Wide) ELSE {}
        BY <1>2, <3>3, ClearIsRead
      <3>5. listed = UNION {Read(table + k * Wide) : k \in places}
        <4> HIDE DEF Read, table, tables
        <4>1. listed = UNION {FixedUp(table + k * Wide) : k \in 0 .. input.services - 1}
          BY <3>1
        <4>. QED BY <3>4, <4>1
      <3>6. Services(memory, table) = {Value(memory, table + k * Wide) : k \in places}
        BY <3>1, Zenon DEF Services
      <3> HIDE DEF table, listed, places
      <3>. QED BY <3>5, <3>6
    <2>. QED BY <2>1, <2>2
  <1>7. UNION {FixedUp(Field(ddb, k)) : k \in {Control, V86, Pm}} =
          {a \in {Value(memory, Field(ddb, k)) : k \in {Control, V86, Pm}} : a # 0 /\ Mapped(a)}
    <2>1. UNION {FixedUp(Field(ddb, k)) : k \in {Control, V86, Pm}} =
            UNION {Read(Field(ddb, k)) : k \in {Control, V86, Pm}}
      BY <1>4, <1>5
    <2>. QED BY <2>1
  <1>8. functions = {a \in {Value(memory, Field(ddb, k)) : k \in {Control, V86, Pm}} \cup
                            Services(memory, table) : a # 0 /\ Mapped(a)}
    BY <1>1, Zenon DEF IsBlock
  <1> DEFINE values == {Value(memory, Field(ddb, k)) : k \in {Control, V86, Pm}}
             fixed == UNION {FixedUp(Field(ddb, k)) : k \in {Control, V86, Pm}}
  <1>9. functions = fixed \cup listed
    <2>1. fixed = {a \in values : a # 0 /\ Mapped(a)}
      BY <1>7
    <2>2. functions = {a \in values \cup Services(memory, table) : a # 0 /\ Mapped(a)}
      BY <1>8
    <2> HIDE DEF table, listed, values, fixed
    <2>. QED BY <1>6, <2>1, <2>2
  <1>10. FixedUpFunctions(ddb) = fixed \cup listed
    BY DEF FixedUpFunctions
  <1> HIDE DEF fixed, listed
  <1>. QED BY <1>9, <1>10 DEF ServicesAreFixedUp

\* The functions of a VxD are the addresses its fixups have put into the block
\* and its table, for every file whose records are whole and whose block and
\* table have one record over each address or none.
THEOREM ServicesAreFilledIn ==
  Spec => [](PagesFit /\ Whole /\ BlockIsClear => ServicesAreFixedUp)
  <1>1. Init => PlacesInv /\ LandInv /\ CellInv /\ FunctionInv
    BY DEF Init, PlacesInv, LandInv, Landed, Patches, CellInv, FunctionInv
  <1>2. TypeInv /\ WalkInv /\ SlotInv /\ LayoutInv /\ PlacesInv /\ [Next]_vars => PlacesInv'
    BY PlacesStep
  <1>3. TypeInv /\ WalkInv /\ LayoutInv /\ PlacesInv /\ LandInv /\ [Next]_vars => LandInv'
    BY LandStep
  <1>4. TypeInv /\ WalkInv /\ CellInv /\ [Next]_vars => CellInv'
    BY CellStep
  <1>5. FunctionInv /\ [Next]_vars => FunctionInv'
    BY FunctionStep
  <1>6. TypeInv /\ LayoutInv /\ LandInv /\ CellInv /\ FunctionInv =>
          (PagesFit /\ Whole /\ BlockIsClear => ServicesAreFixedUp)
    BY FunctionsAreFixedUp
  <1>. QED
    BY <1>1, <1>2, <1>3, <1>4, <1>5, <1>6, WalkIsTracked, SlotsAreInOrder, LayoutIsInOrder, PTL
    DEF Spec
===============================================================================
