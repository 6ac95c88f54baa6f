--------------------------- MODULE DexClassesProofs ---------------------------
(***************************************************************************)
(* What is proved about DexClasses, for every file and every set of        *)
(* options: whatever is read into the two shared buffers and by the one    *)
(* reader in between,                                                      *)
(*   - every prototype, method, type and field is named after its own      *)
(*     strings, and all that have a name have got it in the end,           *)
(*   - the edges to exception handlers are those of the tables in the file,*)
(*   - the methods declared are those of the classes, each as an import or *)
(*     a function, with the index the format defines.                      *)
(***************************************************************************)
EXTENDS DexClasses, SequenceTheorems, WellFoundedInduction, TLAPS
-------------------------------------------------------------------------------
(* The shared buffers                                                      *)

\* The buffers of the loader.
IsBufs(b) == b = [string |-> b.string, name |-> b.name, ok |-> b.ok] /\ b.ok \in BOOLEAN

\* A part of the buffers that is replaced leaves the other two.
LEMMA Replaced ==
  ASSUME NEW s, NEW n, NEW o, NEW v
  PROVE  LET r == [string |-> s, name |-> n, ok |-> o] IN
         /\ [r EXCEPT !.string = v] = [string |-> v, name |-> n, ok |-> o]
         /\ [r EXCEPT !.name = v] = [string |-> s, name |-> v, ok |-> o]
         /\ [r EXCEPT !.ok = v] = [string |-> s, name |-> n, ok |-> v]
  OBVIOUS

\* A call begins.
LEMMA StartFacts ==
  ASSUME NEW b, IsBufs(b)
  PROVE  IsBufs(Start(b)) /\ Start(b).ok /\ Start(b).name = b.name
  <1> DEFINE s == b.string
             n == b.name
             o == b.ok
             v == TRUE
             r == [string |-> s, name |-> n, ok |-> o]
  <1>1. b = r
    BY DEF IsBufs
  <1>2. Start(r) = [r EXCEPT !.ok = v]
    BY DEF Start
  <1> HIDE DEF s, n, o, v
  <1>3. [r EXCEPT !.ok = v] = [string |-> s, name |-> n, ok |-> v]
    BY Replaced
  <1> DEFINE e == Start(b)
  <1>4. e = [string |-> s, name |-> n, ok |-> v]
    BY <1>1, <1>2, <1>3
  <1> HIDE DEF e
  <1>5. IsBufs(e) /\ e.ok /\ e.name = n
    BY <1>4 DEF IsBufs, v
  <1>. QED BY <1>5 DEF e, n

\* A call that fails leaves the buffers.
LEMMA FailedFacts ==
  ASSUME NEW b, IsBufs(b)
  PROVE  IsBufs(Failed(b)) /\ ~Failed(b).ok /\ Failed(b).name = b.name
  <1> DEFINE s == b.string
             n == b.name
             o == b.ok
             v == FALSE
             r == [string |-> s, name |-> n, ok |-> o]
  <1>1. b = r
    BY DEF IsBufs
  <1>2. Failed(r) = [r EXCEPT !.ok = v]
    BY DEF Failed
  <1> HIDE DEF s, n, o, v
  <1>3. [r EXCEPT !.ok = v] = [string |-> s, name |-> n, ok |-> v]
    BY Replaced
  <1> DEFINE e == Failed(b)
  <1>4. e = [string |-> s, name |-> n, ok |-> v]
    BY <1>1, <1>2, <1>3
  <1> HIDE DEF e
  <1>5. IsBufs(e) /\ ~e.ok /\ e.name = n
    BY <1>4 DEF IsBufs, v
  <1>. QED BY <1>5 DEF e, n

\* The buffer of names is emptied, or what a call that has failed left is kept.
LEMMA ClearedFacts ==
  ASSUME NEW b, IsBufs(b)
  PROVE  /\ IsBufs(Cleared(b)) /\ Cleared(b).ok = b.ok /\ Cleared(b).string = b.string
         /\ b.ok => Cleared(b).name = <<>>
  <1> DEFINE s == b.string
             n == b.name
             o == b.ok
             r == [string |-> s, name |-> n, ok |-> o]
  <1>1. b = r /\ o \in BOOLEAN
    BY DEF IsBufs
  <1> HIDE DEF s, n, o
  <1>2. Cleared(r) = [string |-> s, name |-> IF o THEN <<>> ELSE n, ok |-> o]
    BY DEF Cleared
  <1> DEFINE e == Cleared(b)
  <1>3. e = [string |-> s, name |-> IF o THEN <<>> ELSE n, ok |-> o]
    BY <1>1, <1>2
  <1> HIDE DEF e
  <1>4. IsBufs(e) /\ e.ok = o /\ e.string = s /\ (o => e.name = <<>>)
    BY <1>1, <1>3 DEF IsBufs
  <1>. QED BY <1>4 DEF e, s, o

\* A string is there afterwards, in place of the one before, if it can be read.
LEMMA ReadStringFacts ==
  ASSUME NEW b, IsBufs(b), NEW k
  PROVE  /\ IsBufs(ReadString(b, k)) /\ ReadString(b, k).name = b.name
         /\ ReadString(b, k).ok <=> b.ok /\ TextOf(k) # Bad
         /\ ReadString(b, k).ok => ReadString(b, k).string = TextOf(k)
  <1>1. CASE ~b.ok
    <2>1. ReadString(b, k) = b
      BY <1>1, Zenon DEF ReadString
    <2>. QED BY <1>1, <2>1
  <1>2. CASE b.ok /\ k \in DOMAIN input.strings /\ input.strings[k] # Bad
    <2> DEFINE s == b.string
               n == b.name
               o == b.ok
               x == input.strings[k]
               r == [string |-> s, name |-> n, ok |-> o]
    <2>1. b = r /\ o \in BOOLEAN
      BY DEF IsBufs
    <2>2. ReadString(b, k) = [b EXCEPT !.string = x]
      BY <1>2, Zenon DEF ReadString
    <2>3. TextOf(k) = x /\ x # Bad
      BY <1>2 DEF TextOf
    <2> HIDE DEF s, n, o, x
    <2>4. [r EXCEPT !.string = x] = [string |-> x, name |-> n, ok |-> o]
      OBVIOUS
    <2> DEFINE e == ReadString(b, k)
    <2>5. e = [string |-> x, name |-> n, ok |-> o]
      BY <2>1, <2>2, <2>4
    <2> HIDE DEF e
    <2>6. IsBufs(e) /\ e.name = n /\ e.ok = o /\ e.string = x
      BY <2>1, <2>5 DEF IsBufs
    <2>. QED BY <1>2, <2>3, <2>6 DEF e, n, o
  <1>3. CASE b.ok /\ ~(k \in DOMAIN input.strings /\ input.strings[k] # Bad)
    <2>1. ReadString(b, k) = Failed(b)
      BY <1>3, Zenon DEF ReadString
    <2>2. TextOf(k) = Bad
      BY <1>3 DEF TextOf
    <2>. QED BY <1>3, <2>1, <2>2, FailedFacts
  <1>. QED BY <1>1, <1>2, <1>3

\* The descriptor of a type, likewise.
LEMMA DescriptorFacts ==
  ASSUME NEW b, IsBufs(b), NEW t
  PROVE  /\ IsBufs(Descriptor(b, t)) /\ Descriptor(b, t).name = b.name
         /\ Descriptor(b, t).ok <=> b.ok /\ DescriptorOf(t) # Bad
         /\ Descriptor(b, t).ok => Descriptor(b, t).string = DescriptorOf(t)
  <1>1. CASE Readable(input.types, t)
    <2>1. /\ Descriptor(b, t) = ReadString(b, input.types[t])
          /\ DescriptorOf(t) = TextOf(input.types[t])
      BY <1>1, Zenon DEF Descriptor, DescriptorOf
    <2>. QED BY <2>1, ReadStringFacts
  <1>2. CASE ~Readable(input.types, t)
    <2>1. Descriptor(b, t) = Failed(b) /\ DescriptorOf(t) = Bad
      BY <1>2, Zenon DEF Descriptor, DescriptorOf
    <2>. QED BY <2>1, FailedFacts
  <1>. QED BY <1>1, <1>2

\* Appending goes on with what is in the other buffer.
LEMMA AppendFacts ==
  ASSUME NEW b, IsBufs(b)
  PROVE  /\ IsBufs(AppendType(b)) /\ AppendType(b).ok = b.ok
         /\ b.ok => AppendType(b).name = Append(b.name, TypeName[b.string])
         /\ IsBufs(AppendName(b)) /\ AppendName(b).ok = b.ok
         /\ b.ok => AppendName(b).name = Append(b.name, Sanitized[b.string])
  <1> DEFINE s == b.string
             n == b.name
             o == b.ok
             r == [string |-> s, name |-> n, ok |-> o]
             x == TypeName[s]
             y == Sanitized[s]
  <1>1. b = r /\ o \in BOOLEAN
    BY DEF IsBufs
  <1>2. /\ AppendType(b) = [b EXCEPT !.name = IF o THEN Append(@, x) ELSE @]
        /\ AppendName(b) = [b EXCEPT !.name = IF o THEN Append(@, y) ELSE @]
    BY DEF AppendType, AppendName
  <1> HIDE DEF s, n, o, x, y
  <1> DEFINE p == IF o THEN Append(n, x) ELSE n
             q == IF o THEN Append(n, y) ELSE n
  <1>3. r.name = n
    OBVIOUS
  <1>4. /\ [r EXCEPT !.name = IF o THEN Append(@, x) ELSE @] = [r EXCEPT !.name = p]
        /\ [r EXCEPT !.name = IF o THEN Append(@, y) ELSE @] = [r EXCEPT !.name = q]
    BY <1>3, Zenon
  <1> HIDE DEF p, q
  <1>5. /\ [r EXCEPT !.name = p] = [string |-> s, name |-> p, ok |-> o]
        /\ [r EXCEPT !.name = q] = [string |-> s, name |-> q, ok |-> o]
    OBVIOUS
  <1> DEFINE e == AppendType(b)
             f == AppendName(b)
  <1>6. /\ e = [string |-> s, name |-> p, ok |-> o]
        /\ f = [string |-> s, name |-> q, ok |-> o]
    BY <1>1, <1>2, <1>4, <1>5
  <1> HIDE DEF e, f
  <1>7. /\ IsBufs(e) /\ e.ok = o /\ e.name = p
        /\ IsBufs(f) /\ f.ok = o /\ f.name = q
    BY <1>1, <1>6 DEF IsBufs
  <1>8. (o => p = Append(n, x)) /\ (o => q = Append(n, y))
    BY DEF p, q
  <1>. QED BY <1>7, <1>8 DEF e, f, n, o, x, y, s

-------------------------------------------------------------------------------
(* What the four ways of naming return                                     *)

\* A name of one, two or three parts, put together by appending.
LEMMA AppendedParts ==
  ASSUME NEW a, NEW b, NEW c
  PROVE  /\ Append(<<>>, a) = <<a>>
         /\ Append(Append(<<>>, a), b) = <<a, b>>
         /\ Append(Append(Append(<<>>, a), b), c) = <<a, b, c>>
  <1> DEFINE S == {a, b, c}
  <1>1. a \in S /\ b \in S /\ c \in S
    OBVIOUS
  <1> HIDE DEF S
  <1>2. /\ <<a>> \in Seq(S) /\ <<a, b>> \in Seq(S) /\ <<a, b, c>> \in Seq(S)
    BY <1>1
  <1>3. Append(<<>>, a) = <<a>>
    BY <1>1
  <1>4. Append(<<a>>, b) = <<a, b>>
    <2> DEFINE s == Append(<<a>>, b)
    <2>1. s \in Seq(S) /\ Len(s) = 2 /\ s[1] = a /\ s[2] = b
      BY <1>1, <1>2, AppendProperties
    <2> HIDE DEF s
    <2>2. Len(<<a, b>>) = 2 /\ \A k \in 1 .. 2 : s[k] = <<a, b>>[k]
      BY <2>1
    <2>3. s = <<a, b>>
      BY <1>2, <2>1, <2>2, SeqEqual
    <2>. QED BY <2>3 DEF s
  <1>5. Append(<<a, b>>, c) = <<a, b, c>>
    <2> DEFINE s == Append(<<a, b>>, c)
    <2>1. s \in Seq(S) /\ Len(s) = 3 /\ s[1] = a /\ s[2] = b /\ s[3] = c
      BY <1>1, <1>2, AppendProperties
    <2> HIDE DEF s
    <2>2. Len(<<a, b, c>>) = 3 /\ \A k \in 1 .. 3 : s[k] = <<a, b, c>>[k]
      BY <2>1
    <2>3. s = <<a, b, c>>
      BY <1>2, <2>1, <2>2, SeqEqual
    <2>. QED BY <2>3 DEF s
  <1>. QED BY <1>3, <1>4, <1>5

\* What a call that names an entry must leave.
IsNamed(e, kind, i) ==
  IsBufs(e) /\ Result(e) = NameOf(kind, i) /\ (NameOf(kind, i) # NoName => e.ok)

\* A call that fails leaves the name of an entry of which a part cannot be read.
LEMMA FailedNames ==
  ASSUME NEW e, NEW kind, NEW i, IsBufs(e), ~e.ok,
         \E k \in DOMAIN PartsOf(kind, i) : PartsOf(kind, i)[k] = Bad
  PROVE  IsNamed(e, kind, i)
  <1>1. NameOf(kind, i) = NoName
    BY DEF NameOf
  <1>2. Result(e) = NoName
    BY DEF Result
  <1>. QED BY <1>1, <1>2 DEF IsNamed

\* The name of a prototype.
LEMMA OnePartName ==
  ASSUME NEW i, NEW p, PartsOf("proto", i) = <<p>>, p # Bad
  PROVE  NameOf("proto", i) = <<Sanitized[p]>>
  <1> DEFINE parts == PartsOf("proto", i)
             g == [k \in DOMAIN parts |->
                     IF k = 1 /\ "proto" # "proto" THEN TypeName[parts[k]] ELSE Sanitized[parts[k]]]
  <1>1. parts = <<p>> /\ DOMAIN parts = 1 .. 1 /\ parts[1] = p
    OBVIOUS
  <1>2. NameOf("proto", i) = g
    BY <1>1 DEF NameOf
  <1> HIDE DEF parts
  <1>3. g = <<Sanitized[p]>>
    BY <1>1
  <1>. QED BY <1>2, <1>3

\* The name of a type, of a field, of a method.
LEMMA TypedName ==
  ASSUME NEW kind, NEW i, NEW p, NEW q, NEW r, kind # "proto"
  PROVE  /\ PartsOf(kind, i) = <<p>> /\ p # Bad => NameOf(kind, i) = <<TypeName[p]>>
         /\ PartsOf(kind, i) = <<p, q>> /\ p # Bad /\ q # Bad =>
              NameOf(kind, i) = <<TypeName[p], Sanitized[q]>>
         /\ PartsOf(kind, i) = <<p, q, r>> /\ p # Bad /\ q # Bad /\ r # Bad =>
              NameOf(kind, i) = <<TypeName[p], Sanitized[q], Sanitized[r]>>
  <1> DEFINE parts == PartsOf(kind, i)
             g == [k \in DOMAIN parts |->
                     IF k = 1 /\ kind # "proto" THEN TypeName[parts[k]] ELSE Sanitized[parts[k]]]
             good == \A k \in DOMAIN parts : parts[k] # Bad
  <1>1. good => NameOf(kind, i) = g
    BY DEF NameOf
  <1> HIDE DEF parts
  <1>2. ASSUME parts = <<p>>, p # Bad
        PROVE  good /\ g = <<TypeName[p]>>
    BY <1>2
  <1>3. ASSUME parts = <<p, q>>, p # Bad, q # Bad
        PROVE  good /\ g = <<TypeName[p], Sanitized[q]>>
    BY <1>3
  <1>4. ASSUME parts = <<p, q, r>>, p # Bad, q # Bad, r # Bad
        PROVE  good /\ g = <<TypeName[p], Sanitized[q], Sanitized[r]>>
    BY <1>4
  <1>. QED BY <1>1, <1>2, <1>3, <1>4 DEF parts

\* The name of a method.
LEMMA ThreePartName ==
  ASSUME NEW i, NEW p, NEW q, NEW r, PartsOf("method", i) = <<p, q, r>>,
         p # Bad, q # Bad, r # Bad
  PROVE  NameOf("method", i) = <<TypeName[p], Sanitized[q], Sanitized[r]>>
  <1> DEFINE kind == "method"
  <1>1. kind # "proto"
    OBVIOUS
  <1> HIDE DEF kind
  <1>2. PartsOf(kind, i) = <<p, q, r>>
    BY DEF kind
  <1>3. NameOf(kind, i) = <<TypeName[p], Sanitized[q], Sanitized[r]>>
    BY <1>1, <1>2, TypedName
  <1>. QED BY <1>3 DEF kind

\* What is in the names of the entries of each table.
LEMMA PartsFacts ==
  ASSUME NEW i
  PROVE  /\ \A kind \in {"proto", "method", "type", "field"} :
              Table(kind)[i] = Eof => PartsOf(kind, i) = <<Bad>>
         /\ input.protos[i] # Eof => PartsOf("proto", i) = <<ShortyOf(i)>>
         /\ input.methods[i] # Eof =>
              PartsOf("method", i) = <<DescriptorOf(input.methods[i].class),
                                       TextOf(input.methods[i].name),
                                       ShortyOf(input.methods[i].proto)>>
         /\ input.types[i] # Eof => PartsOf("type", i) = <<DescriptorOf(i)>>
         /\ input.fields[i] # Eof =>
              PartsOf("field", i) = <<DescriptorOf(input.fields[i].class),
                                      TextOf(input.fields[i].name)>>
  <1>1. /\ Table("proto") = input.protos /\ Table("method") = input.methods
        /\ Table("type") = input.types /\ Table("field") = input.fields
    BY Zenon DEF Table
  <1>2. \A kind : Table(kind)[i] = Eof => PartsOf(kind, i) = <<Bad>>
    BY Zenon DEF PartsOf
  <1>3. input.protos[i] # Eof => PartsOf("proto", i) = <<ShortyOf(i)>>
    BY <1>1, Zenon DEF PartsOf
  <1>4. input.types[i] # Eof => PartsOf("type", i) = <<DescriptorOf(i)>>
    BY <1>1, Zenon DEF PartsOf
  <1>5. input.methods[i] # Eof =>
          PartsOf("method", i) = <<DescriptorOf(input.methods[i].class),
                                   TextOf(input.methods[i].name),
                                   ShortyOf(input.methods[i].proto)>>
    BY <1>1, Zenon DEF PartsOf
  <1>6. input.fields[i] # Eof =>
          PartsOf("field", i) = <<DescriptorOf(input.fields[i].class),
                                  TextOf(input.fields[i].name)>>
    BY <1>1, Zenon DEF PartsOf
  <1>. QED BY <1>2, <1>3, <1>4, <1>5, <1>6, Zenon

\* A part that cannot be read is a part.
LEMMA BadPart ==
  ASSUME NEW parts, NEW p, NEW q, NEW r
  PROVE  /\ parts = <<p>> /\ p = Bad => \E k \in DOMAIN parts : parts[k] = Bad
         /\ parts = <<p, q>> /\ (p = Bad \/ q = Bad) => \E k \in DOMAIN parts : parts[k] = Bad
         /\ parts = <<p, q, r>> /\ (p = Bad \/ q = Bad \/ r = Bad) =>
              \E k \in DOMAIN parts : parts[k] = Bad
  <1>1. parts = <<p>> => DOMAIN parts = 1 .. 1 /\ parts[1] = p
    OBVIOUS
  <1>2. parts = <<p, q>> => DOMAIN parts = 1 .. 2 /\ parts[1] = p /\ parts[2] = q
    OBVIOUS
  <1>3. parts = <<p, q, r>> =>
          DOMAIN parts = 1 .. 3 /\ parts[1] = p /\ parts[2] = q /\ parts[3] = r
    OBVIOUS
  <1>4. 1 \in 1 .. 1 /\ 1 \in 1 .. 2 /\ 2 \in 1 .. 2 /\ 1 \in 1 .. 3 /\ 2 \in 1 .. 3 /\ 3 \in 1 .. 3
    OBVIOUS
  <1>. QED BY <1>1, <1>2, <1>3, <1>4, Zenon

\* A prototype is named after its shorty.
LEMMA ProtoIsNamed ==
  ASSUME NEW b, IsBufs(b), NEW i \in DOMAIN input.protos
  PROVE  IsNamed(ProtoNamed(b, i), "proto", i)
  <1> DEFINE e == ProtoNamed(b, i)
             shorty == ShortyOf(i)
  <1>1. CASE input.protos[i] = Eof
    <2>1. e = Failed(b)
      BY <1>1, Zenon DEF ProtoNamed, Readable
    <2>2. PartsOf("proto", i) = <<Bad>>
      BY <1>1, PartsFacts, Zenon DEF Table
    <2>. QED BY <2>1, <2>2, FailedFacts, FailedNames, BadPart
  <1>2. CASE input.protos[i] # Eof
    <2> DEFINE s == Start(b)
               t == ReadString(s, input.protos[i].shorty)
               c == Cleared(t)
    <2>1. e = AppendName(c) /\ shorty = TextOf(input.protos[i].shorty)
      BY <1>2, Zenon DEF ProtoNamed, Readable, ShortyOf
    <2>2. PartsOf("proto", i) = <<shorty>>
      BY <1>2, PartsFacts, Zenon
    <2>3. IsBufs(s) /\ s.ok
      BY StartFacts
    <2> HIDE DEF s
    <2>4. IsBufs(t) /\ (t.ok <=> shorty # Bad) /\ (t.ok => t.string = shorty)
      BY <2>1, <2>3, ReadStringFacts
    <2> HIDE DEF t, shorty
    <2>5. IsBufs(c) /\ c.ok = t.ok /\ c.string = t.string /\ (t.ok => c.name = <<>>)
      BY <2>4, ClearedFacts
    <2> HIDE DEF c, e
    <2>6. IsBufs(e) /\ e.ok = c.ok /\ (c.ok => e.name = Append(c.name, Sanitized[c.string]))
      BY <2>1, <2>5, AppendFacts
    <2>7. CASE shorty = Bad
      BY <2>2, <2>4, <2>5, <2>6, <2>7, FailedNames, BadPart DEF e
    <2>8. CASE shorty # Bad
      <3>1. e.ok /\ e.name = <<Sanitized[shorty]>>
        BY <2>4, <2>5, <2>6, <2>8, AppendedParts
      <3>2. NameOf("proto", i) = <<Sanitized[shorty]>>
        BY <2>2, <2>8, OnePartName
      <3>. QED BY <2>6, <3>1, <3>2 DEF IsNamed, Result, e
    <2>. QED BY <2>7, <2>8
  <1>. QED BY <1>1, <1>2

\* A type is named after its descriptor.
LEMMA TypeIsNamed ==
  ASSUME NEW b, IsBufs(b), NEW i \in DOMAIN input.types
  PROVE  IsNamed(TypeNamed(b, i), "type", i)
  <1> DEFINE e == TypeNamed(b, i)
             text == DescriptorOf(i)
             s == Start(b)
             t == Descriptor(s, i)
             c == Cleared(t)
  <1>1. e = AppendType(c)
    BY DEF TypeNamed
  <1>2. IsBufs(s) /\ s.ok
    BY StartFacts
  <1> HIDE DEF s
  <1>3. IsBufs(t) /\ (t.ok <=> text # Bad) /\ (t.ok => t.string = text)
    BY <1>2, DescriptorFacts
  <1>4. (input.types[i] = Eof => text = Bad /\ PartsOf("type", i) = <<Bad>>)
        /\ (input.types[i] # Eof => PartsOf("type", i) = <<text>>)
    BY PartsFacts, Zenon DEF Table, DescriptorOf, Readable
  <1> HIDE DEF t, text
  <1>5. IsBufs(c) /\ c.ok = t.ok /\ c.string = t.string /\ (t.ok => c.name = <<>>)
    BY <1>3, ClearedFacts
  <1> HIDE DEF c, e
  <1>6. IsBufs(e) /\ e.ok = c.ok /\ (c.ok => e.name = Append(c.name, TypeName[c.string]))
    BY <1>1, <1>5, AppendFacts
  <1>7. PartsOf("type", i) = <<text>>
    BY <1>4
  <1>8. CASE text = Bad
    BY <1>3, <1>5, <1>6, <1>7, <1>8, FailedNames, BadPart DEF e
  <1>9. CASE text # Bad
    <2>1. e.ok /\ e.name = <<TypeName[text]>>
      BY <1>3, <1>5, <1>6, <1>9, AppendedParts
    <2>2. NameOf("type", i) = <<TypeName[text]>>
      BY <1>7, <1>9, TypedName
    <2>. QED BY <1>6, <2>1, <2>2 DEF IsNamed, Result, e
  <1>. QED BY <1>8, <1>9

\* A buffer of names that was just emptied, and then holds the name of a class.
LEMMA ClassNamed ==
  ASSUME NEW b, IsBufs(b), NEW t
  PROVE  LET e == AppendType(Descriptor(Cleared(Start(b)), t)) IN
         /\ IsBufs(e) /\ (e.ok <=> DescriptorOf(t) # Bad)
         /\ e.ok => e.name = Append(<<>>, TypeName[DescriptorOf(t)])
  <1> DEFINE s == Start(b)
             c == Cleared(s)
             d == Descriptor(c, t)
             e == AppendType(d)
             text == DescriptorOf(t)
  <1>1. IsBufs(s) /\ s.ok
    BY StartFacts
  <1> HIDE DEF s
  <1>2. IsBufs(c) /\ c.ok /\ c.name = <<>>
    BY <1>1, ClearedFacts
  <1> HIDE DEF c
  <1>3. IsBufs(d) /\ d.name = c.name /\ (d.ok <=> text # Bad) /\ (d.ok => d.string = text)
    BY <1>2, DescriptorFacts
  <1> HIDE DEF d, text
  <1>4. IsBufs(e) /\ e.ok = d.ok /\ (d.ok => e.name = Append(d.name, TypeName[d.string]))
    BY <1>3, AppendFacts
  <1> HIDE DEF e
  <1>5. IsBufs(e) /\ (e.ok <=> text # Bad) /\ (e.ok => e.name = Append(<<>>, TypeName[text]))
    BY <1>2, <1>3, <1>4
  <1>. QED BY <1>5 DEF e, d, c, s, text

\* Another string is read and appended.
LEMMA NextNamed ==
  ASSUME NEW b, IsBufs(b), NEW k
  PROVE  LET e == AppendName(ReadString(b, k)) IN
         /\ IsBufs(e) /\ (e.ok <=> b.ok /\ TextOf(k) # Bad)
         /\ e.ok => e.name = Append(b.name, Sanitized[TextOf(k)])
  <1> DEFINE d == ReadString(b, k)
             e == AppendName(d)
             text == TextOf(k)
  <1>1. IsBufs(d) /\ d.name = b.name /\ (d.ok <=> b.ok /\ text # Bad) /\ (d.ok => d.string = text)
    BY ReadStringFacts
  <1> HIDE DEF d, text
  <1>2. IsBufs(e) /\ e.ok = d.ok /\ (d.ok => e.name = Append(d.name, Sanitized[d.string]))
    BY <1>1, AppendFacts
  <1> HIDE DEF e
  <1>3. IsBufs(e) /\ (e.ok <=> b.ok /\ text # Bad) /\ (e.ok => e.name = Append(b.name, Sanitized[text]))
    BY <1>1, <1>2
  <1>. QED BY <1>3 DEF e, d, text

\* A field is named after its class and itself.
LEMMA FieldIsNamed ==
  ASSUME NEW b, IsBufs(b), NEW i \in DOMAIN input.fields
  PROVE  IsNamed(FieldNamed(b, i), "field", i)
  <1> DEFINE e == FieldNamed(b, i)
             id == input.fields[i]
             p == DescriptorOf(id.class)
             q == TextOf(id.name)
  <1>1. CASE id = Eof
    <2>1. e = Failed(b)
      BY <1>1, Zenon DEF FieldNamed, Readable
    <2>2. PartsOf("field", i) = <<Bad>>
      BY <1>1, PartsFacts, Zenon DEF Table
    <2>. QED BY <2>1, <2>2, FailedFacts, FailedNames, BadPart
  <1>2. CASE id # Eof
    <2> DEFINE class == AppendType(Descriptor(Cleared(Start(b)), id.class))
    <2>1. e = AppendName(ReadString(class, id.name))
      BY <1>2, Zenon DEF FieldNamed, Readable
    <2>2. PartsOf("field", i) = <<p, q>>
      BY <1>2, PartsFacts, Zenon
    <2>3. /\ IsBufs(class) /\ (class.ok <=> p # Bad)
          /\ class.ok => class.name = Append(<<>>, TypeName[p])
      BY ClassNamed
    <2> HIDE DEF class
    <2>4. /\ IsBufs(e) /\ (e.ok <=> class.ok /\ q # Bad)
          /\ e.ok => e.name = Append(class.name, Sanitized[q])
      BY <2>1, <2>3, NextNamed
    <2> HIDE DEF e, p, q
    <2>5. CASE p = Bad \/ q = Bad
      BY <2>2, <2>3, <2>4, <2>5, FailedNames, BadPart DEF e
    <2>6. CASE p # Bad /\ q # Bad
      <3>1. e.ok /\ e.name = <<TypeName[p], Sanitized[q]>>
        BY <2>3, <2>4, <2>6, AppendedParts
      <3>2. NameOf("field", i) = <<TypeName[p], Sanitized[q]>>
        BY <2>2, <2>6, TypedName
      <3>. QED BY <2>4, <3>1, <3>2 DEF IsNamed, Result, e
    <2>. QED BY <2>5, <2>6
  <1>. QED BY <1>1, <1>2

\* A method is named after its class, itself and the shorty of its prototype.
LEMMA MethodIsNamed ==
  ASSUME NEW b, IsBufs(b), NEW i \in DOMAIN input.methods
  PROVE  IsNamed(MethodNamed(b, i), "method", i)
  <1> DEFINE e == MethodNamed(b, i)
             id == input.methods[i]
             p == DescriptorOf(id.class)
             q == TextOf(id.name)
             r == ShortyOf(id.proto)
  <1>1. CASE id = Eof
    <2>1. e = Failed(b)
      BY <1>1, Zenon DEF MethodNamed, Readable
    <2>2. PartsOf("method", i) = <<Bad>>
      BY <1>1, PartsFacts, Zenon DEF Table
    <2>. QED BY <2>1, <2>2, FailedFacts, FailedNames, BadPart
  <1>2. CASE id # Eof /\ ~Readable(input.protos, id.proto)
    <2>1. e = Failed(b) /\ r = Bad
      BY <1>2, Zenon DEF MethodNamed, ShortyOf
    <2>2. PartsOf("method", i) = <<p, q, r>>
      BY <1>2, PartsFacts, Zenon
    <2>3. IsBufs(e) /\ ~e.ok
      BY <2>1, FailedFacts
    <2> HIDE DEF e, p, q, r
    <2>. QED BY <2>1, <2>2, <2>3, FailedNames, BadPart DEF e
  <1>3. CASE id # Eof /\ Readable(input.protos, id.proto)
    <2> DEFINE class == AppendType(Descriptor(Cleared(Start(b)), id.class))
               name == AppendName(ReadString(class, id.name))
               x == input.protos[id.proto].shorty
    <2>1. e = AppendName(ReadString(name, x))
      BY <1>3, Zenon DEF MethodNamed, Readable
    <2>2. PartsOf("method", i) = <<p, q, r>> /\ r = TextOf(x)
      BY <1>3, PartsFacts, Zenon DEF ShortyOf
    <2>3. /\ IsBufs(class) /\ (class.ok <=> p # Bad)
          /\ class.ok => class.name = Append(<<>>, TypeName[p])
      BY ClassNamed
    <2> HIDE DEF class
    <2>4. /\ IsBufs(name) /\ (name.ok <=> class.ok /\ q # Bad)
          /\ name.ok => name.name = Append(class.name, Sanitized[q])
      BY <2>3, NextNamed
    <2> HIDE DEF name, e, p, q, r, x, id
    <2>5. /\ IsBufs(e) /\ (e.ok <=> name.ok /\ TextOf(x) # Bad)
          /\ e.ok => e.name = Append(name.name, Sanitized[TextOf(x)])
      BY <2>1, <2>4, NextNamed
    <2>6. CASE p = Bad \/ q = Bad \/ r = Bad
      BY <2>2, <2>3, <2>4, <2>5, <2>6, FailedNames, BadPart DEF e
    <2>7. CASE p # Bad /\ q # Bad /\ r # Bad
      <3> DEFINE a == TypeName[p]
                 c == Sanitized[q]
                 d == Sanitized[r]
      <3>a. e.ok /\ e.name = Append(Append(Append(<<>>, a), c), d)
        BY <2>2, <2>3, <2>4, <2>5, <2>7
      <3> HIDE DEF a, c, d
      <3>b. Append(Append(Append(<<>>, a), c), d) = <<a, c, d>>
        BY AppendedParts
      <3>1. e.ok /\ e.name = <<TypeName[p], Sanitized[q], Sanitized[r]>>
        BY <3>a, <3>b DEF a, c, d
      <3>2. NameOf("method", i) = <<TypeName[p], Sanitized[q], Sanitized[r]>>
        BY <2>2, <2>7, ThreePartName
      <3>. QED BY <2>5, <3>1, <3>2 DEF IsNamed, Result, e
    <2>. QED BY <2>6, <2>7
  <1>. QED BY <1>1, <1>2, <1>3

-------------------------------------------------------------------------------
(* The names that are filed                                                *)

\* What the engine was told.
IsOut(o) == o = [externals |-> o.externals, functions |-> o.functions, names |-> o.names,
                 edges |-> o.edges, comments |-> o.comments]

\* A name that is filed for an entry is the entry's own.
IsOwn(n) == n.at[1] # "insns" => n.name = NameOf(n.at[1], n.at[2])

\* The loops have passed the entry.
IsPast(k, i) == k < next.kind \/ (k = next.kind /\ i < next.i)

\* The entry has its name, if it has one.
HasName(k, i) ==
  NameOf(Kinds[k], i) # NoName => AutoName(Entry(Kinds[k], i), NameOf(Kinds[k], i)) \in out.names

\* The invariant of the names: entries the loops have passed have theirs.
NamesInv ==
  /\ input \in Inputs
  /\ IsBufs(bufs)
  /\ IsOut(out)
  /\ next = [kind |-> next.kind, i |-> next.i] /\ next.kind \in Nat \ {0} /\ next.i \in Nat
  /\ pc = "done" => next.kind > 4
  /\ \A n \in out.names : IsOwn(n)
  /\ \A k \in 1 .. 4 : \A i \in DOMAIN Table(Kinds[k]) : IsPast(k, i) => HasName(k, i)

\* The order of the four loops.
LEMMA KindsFacts ==
  /\ Len(Kinds) = 4
  /\ Kinds[1] = "proto" /\ Kinds[2] = "method" /\ Kinds[3] = "type" /\ Kinds[4] = "field"
  /\ Table("proto") = input.protos /\ Table("method") = input.methods
  /\ Table("type") = input.types /\ Table("field") = input.fields
  <1>1. /\ Len(Kinds) = 4
        /\ Kinds[1] = "proto" /\ Kinds[2] = "method" /\ Kinds[3] = "type" /\ Kinds[4] = "field"
    BY DEF Kinds
  <1>2. /\ Table("proto") = input.protos /\ Table("method") = input.methods
        /\ Table("type") = input.types /\ Table("field") = input.fields
    BY Zenon DEF Table
  <1>. QED BY <1>1, <1>2

\* The tables have no gaps.
LEMMA TablesHaveNoGaps ==
  ASSUME input \in Inputs, NEW k \in 1 .. 4
  PROVE  \E n \in Nat : DOMAIN Table(Kinds[k]) = 0 .. n - 1
  <1>1. /\ IsTable(input.protos) /\ IsTable(input.methods)
        /\ IsTable(input.types) /\ IsTable(input.fields)
    BY InputsAssumption
  <1>2. \A table : IsTable(table) => \E n \in Nat : DOMAIN table = 0 .. n - 1
    BY Zenon DEF IsTable
  <1>3. k = 1 \/ k = 2 \/ k = 3 \/ k = 4
    OBVIOUS
  <1>. QED BY <1>1, <1>2, <1>3, KindsFacts, Zenon

\* The names the file calls for are those of the file, which does not change.
LEMMA SameNames ==
  ASSUME input' = input
  PROVE  /\ \A kind : Table(kind)' = Table(kind)
         /\ \A kind, i : NameOf(kind, i)' = NameOf(kind, i)
  <1>1. \A i : TextOf(i)' = TextOf(i)
    BY Zenon DEF TextOf
  <1>2. \A kind : Table(kind)' = Table(kind)
    BY Zenon DEF Table
  <1>3. \A t : DescriptorOf(t)' = DescriptorOf(t)
    BY Zenon DEF DescriptorOf, Readable, TextOf
  <1>4. \A p : ShortyOf(p)' = ShortyOf(p)
    BY Zenon DEF ShortyOf, Readable, TextOf
  <1>5. \A kind, i : PartsOf(kind, i)' = PartsOf(kind, i)
    BY <1>1, <1>2, <1>3, <1>4, Zenon DEF PartsOf
  <1>6. \A kind, i : NameOf(kind, i)' = NameOf(kind, i)
    BY <1>5, Zenon DEF NameOf
  <1>. QED BY <1>2, <1>6

\* Nothing is named yet.
LEMMA NamesBegin ==
  Init => NamesInv
  <1> SUFFICES ASSUME Init PROVE NamesInv
    OBVIOUS
  <1>1. /\ bufs = [string |-> NoName, name |-> <<>>, ok |-> FALSE]
        /\ out = [externals |-> {}, functions |-> {}, names |-> {}, edges |-> {}, comments |-> {}]
        /\ next = [kind |-> 1, i |-> 0] /\ pc = "classes" /\ input \in Inputs
    BY DEF Init
  <1>2. IsBufs(bufs)
    BY <1>1 DEF IsBufs
  <1>3. IsOut(out) /\ out.names = {}
    BY <1>1 DEF IsOut
  <1>4. next.kind = 1 /\ next.i = 0
    BY <1>1
  <1>5. \A k \in 1 .. 4 : \A i \in DOMAIN Table(Kinds[k]) : ~IsPast(k, i)
    <2> SUFFICES ASSUME NEW k \in 1 .. 4, NEW i \in DOMAIN Table(Kinds[k]) PROVE ~IsPast(k, i)
      OBVIOUS
    <2>1. i \in Nat
      BY <1>1, TablesHaveNoGaps
    <2>. QED BY <1>4, <2>1 DEF IsPast
  <1>. QED BY <1>1, <1>2, <1>3, <1>4, <1>5 DEF NamesInv

\* A step that does not go on to the next name keeps the invariant if the names it
\* files are the entries' own.
LEMMA NamesGrow ==
  ASSUME NamesInv, input' = input, next' = next, pc' = "done" => pc = "done",
         IsBufs(bufs'), IsOut(out'), out.names \subseteq out'.names,
         \A n \in out'.names : n \in out.names \/ IsOwn(n)
  PROVE  NamesInv'
  <1>1. \A n \in out'.names : IsOwn(n)
    BY DEF NamesInv
  <1>2. \A n \in out'.names : IsOwn(n)'
    <2> SUFFICES ASSUME NEW n \in out'.names PROVE IsOwn(n)'
      OBVIOUS
    <2>1. IsOwn(n)
      BY <1>1
    <2>2. NameOf(n.at[1], n.at[2])' = NameOf(n.at[1], n.at[2])
      BY SameNames
    <2>. QED BY <2>1, <2>2 DEF IsOwn
  <1>3. \A k \in 1 .. 4 : \A i \in (DOMAIN Table(Kinds[k]))' : IsPast(k, i)' => HasName(k, i)'
    <2> SUFFICES ASSUME NEW k \in 1 .. 4, NEW i \in (DOMAIN Table(Kinds[k]))', IsPast(k, i)'
                 PROVE  HasName(k, i)'
      OBVIOUS
    <2>1. Table(Kinds[k])' = Table(Kinds[k]) /\ NameOf(Kinds[k], i)' = NameOf(Kinds[k], i)
      BY SameNames, Zenon DEF Kinds
    <2>2. i \in DOMAIN Table(Kinds[k]) /\ IsPast(k, i)
      BY <2>1 DEF IsPast
    <2>3. HasName(k, i)
      BY <2>2 DEF NamesInv
    <2>4. Kinds' = Kinds
      BY DEF Kinds
    <2>. QED BY <2>1, <2>3, <2>4, Zenon DEF HasName
  <1>. QED BY <1>2, <1>3 DEF NamesInv

\* The buffers after a descriptor was read.
LEMMA DescriptorKeepsBufs ==
  ASSUME NEW t, IsBufs(bufs)
  PROVE  IsBufs(Descriptor(Start(bufs), t))
  BY StartFacts, DescriptorFacts

\* What the engine was told, after one of the things it is told was added.
WithExternal(o, x, y) == [o EXCEPT !.externals = x, !.names = y]

WithFunction(o, x, y) == [o EXCEPT !.functions = x, !.names = y]

WithEdge(o, x, y) == [o EXCEPT !.edges = x, !.comments = y]

WithComment(o, y) == [o EXCEPT !.comments = y]

WithName(o, y) == [o EXCEPT !.names = y]

\* An imported method and its name.
LEMMA WithExternalFacts ==
  ASSUME NEW o, IsOut(o), NEW x, NEW y
  PROVE  LET p == WithExternal(o, x, y) IN
         /\ IsOut(p) /\ p.externals = x
         /\ p.functions = o.functions /\ p.names = y /\ p.edges = o.edges
  <1> DEFINE a == o.externals
             b == o.functions
             c == o.names
             d == o.edges
             e == o.comments
             p == WithExternal(o, x, y)
             r == [externals |-> a, functions |-> b, names |-> c, edges |-> d, comments |-> e]
             q == [externals |-> x, functions |-> b, names |-> y, edges |-> d, comments |-> e]
  <1>1. o = r
    BY DEF IsOut
  <1>2. p = [r EXCEPT !.externals = x, !.names = y]
    BY <1>1, Zenon DEF WithExternal
  <1> HIDE DEF a, b, c, d, e, p
  <1>3. [r EXCEPT !.externals = x, !.names = y] = q
    <2> DEFINE u == [r EXCEPT !.externals = x]
    <2>1. [r EXCEPT !.externals = x, !.names = y] = [u EXCEPT !.names = y]
      OBVIOUS
    <2>2. u = [externals |-> x, functions |-> b, names |-> c, edges |-> d, comments |-> e]
      OBVIOUS
    <2> HIDE DEF u
    <2>. QED BY <2>1, <2>2
  <1>4. p = q
    BY <1>2, <1>3, Zenon
  <1>5. IsOut(q) /\ q.externals = x /\ q.functions = b /\ q.names = y /\ q.edges = d
    BY DEF IsOut
  <1> HIDE DEF q
  <1>. QED BY <1>4, <1>5 DEF p, a, b, c, d

\* A function and its names.
LEMMA WithFunctionFacts ==
  ASSUME NEW o, IsOut(o), NEW x, NEW y
  PROVE  LET p == WithFunction(o, x, y) IN
         /\ IsOut(p) /\ p.externals = o.externals
         /\ p.functions = x /\ p.names = y /\ p.edges = o.edges
  <1> DEFINE a == o.externals
             b == o.functions
             c == o.names
             d == o.edges
             e == o.comments
             p == WithFunction(o, x, y)
             r == [externals |-> a, functions |-> b, names |-> c, edges |-> d, comments |-> e]
             q == [externals |-> a, functions |-> x, names |-> y, edges |-> d, comments |-> e]
  <1>1. o = r
    BY DEF IsOut
  <1>2. p = [r EXCEPT !.functions = x, !.names = y]
    BY <1>1, Zenon DEF WithFunction
  <1> HIDE DEF a, b, c, d, e, p
  <1>3. [r EXCEPT !.functions = x, !.names = y] = q
    <2> DEFINE u == [r EXCEPT !.functions = x]
    <2>1. [r EXCEPT !.functions = x, !.names = y] = [u EXCEPT !.names = y]
      OBVIOUS
    <2>2. u = [externals |-> a, functions |-> x, names |-> c, edges |-> d, comments |-> e]
      OBVIOUS
    <2> HIDE DEF u
    <2>. QED BY <2>1, <2>2
  <1>4. p = q
    BY <1>2, <1>3, Zenon
  <1>5. IsOut(q) /\ q.externals = a /\ q.functions = x /\ q.names = y /\ q.edges = d
    BY DEF IsOut
  <1> HIDE DEF q
  <1>. QED BY <1>4, <1>5 DEF p, a, b, c, d

\* An edge and a comment.
LEMMA WithEdgeFacts ==
  ASSUME NEW o, IsOut(o), NEW x, NEW y
  PROVE  LET p == WithEdge(o, x, y) IN
         /\ IsOut(p) /\ p.externals = o.externals
         /\ p.functions = o.functions /\ p.names = o.names /\ p.edges = x
  <1> DEFINE a == o.externals
             b == o.functions
             c == o.names
             d == o.edges
             e == o.comments
             p == WithEdge(o, x, y)
             r == [externals |-> a, functions |-> b, names |-> c, edges |-> d, comments |-> e]
             q == [externals |-> a, functions |-> b, names |-> c, edges |-> x, comments |-> y]
  <1>1. o = r
    BY DEF IsOut
  <1>2. p = [r EXCEPT !.edges = x, !.comments = y]
    BY <1>1, Zenon DEF WithEdge
  <1> HIDE DEF a, b, c, d, e, p
  <1>3. [r EXCEPT !.edges = x, !.comments = y] = q
    <2> DEFINE u == [r EXCEPT !.edges = x]
    <2>1. [r EXCEPT !.edges = x, !.comments = y] = [u EXCEPT !.comments = y]
      OBVIOUS
    <2>2. u = [externals |-> a, functions |-> b, names |-> c, edges |-> x, comments |-> e]
      OBVIOUS
    <2> HIDE DEF u
    <2>. QED BY <2>1, <2>2
  <1>4. p = q
    BY <1>2, <1>3, Zenon
  <1>5. IsOut(q) /\ q.externals = a /\ q.functions = b /\ q.names = c /\ q.edges = x
    BY DEF IsOut
  <1> HIDE DEF q
  <1>. QED BY <1>4, <1>5 DEF p, a, b, c, d

\* A comment.
LEMMA WithCommentFacts ==
  ASSUME NEW o, IsOut(o), NEW y
  PROVE  LET p == WithComment(o, y) IN
         /\ IsOut(p) /\ p.externals = o.externals
         /\ p.functions = o.functions /\ p.names = o.names /\ p.edges = o.edges
  <1> DEFINE a == o.externals
             b == o.functions
             c == o.names
             d == o.edges
             e == o.comments
             p == WithComment(o, y)
             r == [externals |-> a, functions |-> b, names |-> c, edges |-> d, comments |-> e]
             q == [externals |-> a, functions |-> b, names |-> c, edges |-> d, comments |-> y]
  <1>1. o = r
    BY DEF IsOut
  <1>2. p = [r EXCEPT !.comments = y]
    BY <1>1, Zenon DEF WithComment
  <1> HIDE DEF a, b, c, d, e, p
  <1>3. [r EXCEPT !.comments = y] = q
    OBVIOUS
  <1>4. p = q
    BY <1>2, <1>3, Zenon
  <1>5. IsOut(q) /\ q.externals = a /\ q.functions = b /\ q.names = c /\ q.edges = d
    BY DEF IsOut
  <1> HIDE DEF q
  <1>. QED BY <1>4, <1>5 DEF p, a, b, c, d

\* A name.
LEMMA WithNameFacts ==
  ASSUME NEW o, IsOut(o), NEW y
  PROVE  LET p == WithName(o, y) IN
         /\ IsOut(p) /\ p.externals = o.externals
         /\ p.functions = o.functions /\ p.names = y /\ p.edges = o.edges
  <1> DEFINE a == o.externals
             b == o.functions
             c == o.names
             d == o.edges
             e == o.comments
             p == WithName(o, y)
             r == [externals |-> a, functions |-> b, names |-> c, edges |-> d, comments |-> e]
             q == [externals |-> a, functions |-> b, names |-> y, edges |-> d, comments |-> e]
  <1>1. o = r
    BY DEF IsOut
  <1>2. p = [r EXCEPT !.names = y]
    BY <1>1, Zenon DEF WithName
  <1> HIDE DEF a, b, c, d, e, p
  <1>3. [r EXCEPT !.names = y] = q
    OBVIOUS
  <1>4. p = q
    BY <1>2, <1>3, Zenon
  <1>5. IsOut(q) /\ q.externals = a /\ q.functions = b /\ q.names = y /\ q.edges = d
    BY DEF IsOut
  <1> HIDE DEF q
  <1>. QED BY <1>4, <1>5 DEF p, a, b, c, d

\* A method is filed under its own name.
LEMMA FiledMethods ==
  ASSUME NamesInv, NEW i \in DOMAIN input.methods
  PROVE  LET b == MethodNamed(bufs, i) IN
         /\ IsBufs(b)
         /\ b.ok => IsOwn(Library(Entry("method", i), b.name))
         /\ IsOwn(EntryOf(Entry("method", i), Result(b)))
         /\ \A name, insns : IsOwn(Library(Entry("insns", insns), name))
  <1> DEFINE b == MethodNamed(bufs, i)
             at == Entry("method", i)
  <1>1. IsBufs(b) /\ Result(b) = NameOf("method", i)
    BY MethodIsNamed DEF NamesInv, IsNamed
  <1>2. b.ok => b.name = Result(b)
    BY DEF Result
  <1> HIDE DEF b
  <1>3. at[1] = "method" /\ at[2] = i
    BY DEF Entry
  <1>4. \A insns : Entry("insns", insns)[1] = "insns"
    BY DEF Entry
  <1>5. \A x, name : /\ Library(x, name).at = x /\ Library(x, name).name = name
                     /\ EntryOf(x, name).at = x /\ EntryOf(x, name).name = name
    BY DEF Library, EntryOf
  <1> HIDE DEF at
  <1>6. b.ok => IsOwn(Library(at, b.name))
    BY <1>1, <1>2, <1>3, <1>5 DEF IsOwn
  <1>7. IsOwn(EntryOf(at, Result(b)))
    BY <1>1, <1>3, <1>5 DEF IsOwn
  <1>8. ASSUME NEW name, NEW insns
        PROVE  IsOwn(Library(Entry("insns", insns), name))
    <2> DEFINE n == Library(Entry("insns", insns), name)
    <2>1. n.at[1] = "insns"
      BY <1>4, <1>5
    <2>. QED BY <2>1 DEF IsOwn
  <1>. QED BY <1>1, <1>6, <1>7, <1>8 DEF b, at

\* Steps that name no entry: what is read for them is put in the same buffers.
LEMMA OtherStepsKeepNames ==
  ASSUME NamesInv,
         \/ PassClass \/ OpenClass \/ SkipField \/ FieldsTruncated \/ NextList \/ ListsDone
         \/ BadMethod \/ RejectCode \/ TriesDone \/ PassTry \/ OpenTry
         \/ EmitHandler \/ HandlersTruncated \/ HandlersDone \/ ClassesDone
  PROVE  NamesInv'
  <1> DEFINE C(t) == Comment(t, "try")
  <1>0. IsBufs(bufs) /\ IsOut(out) /\ input \in Inputs
    BY DEF NamesInv
  <1>1. CASE PassClass
    <2>1. PICK cd : bufs' = IF cd = Eof THEN bufs ELSE Descriptor(Start(bufs), cd.class)
      BY <1>1, Zenon DEF PassClass
    <2>2. IsBufs(bufs')
      BY <1>0, <2>1, DescriptorKeepsBufs
    <2>3. input' = input /\ next' = next /\ out' = out /\ pc' = pc
      BY <1>1 DEF PassClass
    <2>. QED BY <1>0, <2>2, <2>3, NamesGrow
  <1>2. CASE OpenClass
    <2>1. PICK cd : bufs' = Descriptor(Start(bufs), cd.class)
      BY <1>2, Zenon DEF OpenClass
    <2>2. IsBufs(bufs')
      BY <1>0, <2>1, DescriptorKeepsBufs
    <2>3. input' = input /\ next' = next /\ out' = out /\ pc' = "lists"
      BY <1>2 DEF OpenClass
    <2>. QED BY <1>0, <2>2, <2>3, NamesGrow
  <1>3. CASE SkipField \/ FieldsTruncated \/ NextList \/ ListsDone \/ BadMethod
    <2>1. /\ input' = input /\ next' = next /\ out' = out /\ bufs' = bufs
          /\ pc' = "done" => pc = "done"
      BY <1>3 DEF SkipField, FieldsTruncated, NextList, ListsDone, BadMethod, CloseClass
    <2>. QED BY <1>0, <2>1, NamesGrow
  <1>4. CASE RejectCode
    <2>1. MethodIndex \in DOMAIN input.methods /\ bufs' = MethodNamed(bufs, MethodIndex)
      BY <1>4, Zenon DEF RejectCode, EmitMethod, IsGoodMethod
    <2>2. IsBufs(bufs')
      BY <2>1, FiledMethods
    <2>3. input' = input /\ next' = next /\ out' = out /\ pc' = pc
      BY <1>4 DEF RejectCode
    <2>. QED BY <1>0, <2>2, <2>3, NamesGrow
  <1>5. CASE TriesDone \/ HandlersTruncated \/ ClassesDone
    <2>1. /\ input' = input /\ next' = next /\ out' = out /\ bufs' = bufs
          /\ pc' = "done" => pc = "done"
      BY <1>5 DEF TriesDone, HandlersTruncated, CloseList, ClassesDone
    <2>. QED BY <1>0, <2>1, NamesGrow
  <1>6. CASE PassTry \/ OpenTry
    <2>1. /\ input' = input /\ next' = next /\ bufs' = bufs
          /\ pc' = "done" => pc = "done"
      BY <1>6 DEF PassTry, OpenTry
    <2>a. out' = out \/ \E y : out' = WithComment(out, y)
      BY <1>6, Zenon DEF PassTry, OpenTry, WithComment
    <2>b. ASSUME NEW y, out' = WithComment(out, y)
          PROVE  IsOut(out') /\ out'.names = out.names
      BY <1>0, <2>b, WithCommentFacts
    <2>2. IsOut(out') /\ out'.names = out.names
      BY <1>0, <2>a, <2>b, Zenon
    <2>. QED BY <1>0, <2>1, <2>2, NamesGrow
  <1>7. CASE EmitHandler
    <2>1. PICK t : bufs' = Descriptor(Start(bufs), t)
      BY <1>7, Zenon DEF EmitHandler
    <2>2. IsBufs(bufs')
      BY <1>0, <2>1, DescriptorKeepsBufs
    <2>3. input' = input /\ next' = next /\ pc' = pc
      BY <1>7 DEF EmitHandler
    <2>4. \E x, y : out' = WithEdge(out, x, y)
      BY <1>7, Zenon DEF EmitHandler, WithEdge
    <2>a. PICK x, y : out' = WithEdge(out, x, y)
      BY <2>4, Zenon
    <2>5. IsOut(out') /\ out'.names = out.names
      BY <1>0, <2>a, WithEdgeFacts
    <2>. QED BY <2>2, <2>3, <2>5, NamesGrow
  <1>8. CASE HandlersDone
    <2>1. input' = input /\ next' = next /\ bufs' = bufs /\ pc' = "tries"
      BY <1>8 DEF HandlersDone, CloseList
    <2>2. out' = out \/ \E x, y : out' = WithEdge(out, x, y)
      BY <1>8, Zenon DEF HandlersDone, WithEdge
    <2>a. ASSUME NEW x, NEW y, out' = WithEdge(out, x, y)
          PROVE  IsOut(out') /\ out'.names = out.names
      BY <1>0, <2>a, WithEdgeFacts
    <2>3. IsOut(out') /\ out'.names = out.names
      BY <1>0, <2>2, <2>a, Zenon
    <2>. QED BY <1>0, <2>1, <2>3, NamesGrow
  <1>. QED BY <1>1, <1>2, <1>3, <1>4, <1>5, <1>6, <1>7, <1>8

\* Methods are filed under their own names, functions under any.
LEMMA MethodsKeepNames ==
  ASSUME NamesInv, EmitExternal \/ EmitFunction
  PROVE  NamesInv'
  <1> DEFINE i == MethodIndex
             at == Entry("method", i)
  <1>0. IsOut(out)
    BY DEF NamesInv
  <1>1. i \in DOMAIN input.methods /\ bufs' = MethodNamed(bufs, i)
    BY Zenon DEF EmitExternal, EmitFunction, EmitMethod, IsGoodMethod
  <1> HIDE DEF i
  <1>2. /\ IsBufs(bufs')
        /\ bufs'.ok => IsOwn(Library(at, bufs'.name))
        /\ IsOwn(EntryOf(at, Result(bufs')))
        /\ \A name, insns : IsOwn(Library(Entry("insns", insns), name))
    BY <1>1, FiledMethods
  <1>3. CASE EmitExternal
    <2> DEFINE names == IF bufs'.ok THEN out.names \cup {Library(at, bufs'.name)} ELSE out.names
    <2>1. input' = input /\ next' = next /\ pc' = pc
      BY <1>3 DEF EmitExternal
    <2>a. PICK x : out' = WithExternal(out, x, names)
      BY <1>3, Zenon DEF EmitExternal, i, WithExternal
    <2>2. IsOut(out') /\ out'.names = names
      BY <1>0, <2>a, WithExternalFacts
    <2>. QED BY <1>2, <2>1, <2>2, NamesGrow
  <1>4. CASE EmitFunction
    <2> DEFINE insns == Insns(CodeOff)
               name == Result(bufs')
               filed == IF name = NoName THEN {} ELSE {Library(Entry("insns", insns), name)}
               names == out.names \cup {EntryOf(at, name)} \cup filed
    <2>1. input' = input /\ next' = next
      BY <1>4 DEF EmitFunction
    <2>a. PICK x : out' = WithFunction(out, x, names)
      BY <1>4, Zenon DEF EmitFunction, i, WithFunction
    <2>2. pc' = "done" => pc = "done"
      BY <1>4 DEF EmitFunction
    <2>3. IsOut(out') /\ out'.names = names
      BY <1>0, <2>a, WithFunctionFacts
    <2>4. \A n \in filed : IsOwn(n)
      BY <1>2
    <2> HIDE DEF filed
    <2>. QED BY <1>2, <2>1, <2>2, <2>3, <2>4, NamesGrow
  <1>. QED BY <1>3, <1>4

\* The entry whose turn it is gets its own name.
LEMMA NextIsNamed ==
  ASSUME NamesInv, NameEntry
  PROVE  /\ IsNamed(bufs', Kinds[next.kind], next.i)
         /\ next.kind \in 1 .. 4 /\ Kinds[next.kind] # "insns"
  <1> DEFINE k == next.kind
             i == next.i
  <1>1. k \in Nat \ {0} /\ k <= 4 /\ i \in DOMAIN Table(Kinds[k])
    BY KindsFacts DEF NamesInv, NameEntry
  <1>2. bufs' = Named(Kinds[k], i) /\ IsBufs(bufs)
    BY Zenon DEF NameEntry, NamesInv
  <1> HIDE DEF k, i
  <1>3. k = 1 \/ k = 2 \/ k = 3 \/ k = 4
    BY <1>1
  <1>4. CASE k = 1
    <2>1. Kinds[k] = "proto" /\ Table(Kinds[k]) = input.protos
      BY <1>4, KindsFacts
    <2>2. bufs' = ProtoNamed(bufs, i)
      BY <1>2, <2>1, Zenon DEF Named
    <2>. QED BY <1>1, <1>2, <1>4, <2>1, <2>2, ProtoIsNamed DEF k, i
  <1>5. CASE k = 2
    <2>1. Kinds[k] = "method" /\ Table(Kinds[k]) = input.methods
      BY <1>5, KindsFacts
    <2>2. bufs' = MethodNamed(bufs, i)
      BY <1>2, <2>1, Zenon DEF Named
    <2>. QED BY <1>1, <1>2, <1>5, <2>1, <2>2, MethodIsNamed DEF k, i
  <1>6. CASE k = 3
    <2>1. Kinds[k] = "type" /\ Table(Kinds[k]) = input.types
      BY <1>6, KindsFacts
    <2>2. bufs' = TypeNamed(bufs, i)
      BY <1>2, <2>1, Zenon DEF Named
    <2>. QED BY <1>1, <1>2, <1>6, <2>1, <2>2, TypeIsNamed DEF k, i
  <1>7. CASE k = 4
    <2>1. Kinds[k] = "field" /\ Table(Kinds[k]) = input.fields
      BY <1>7, KindsFacts
    <2>2. bufs' = FieldNamed(bufs, i)
      BY <1>2, <2>1, Zenon DEF Named
    <2>. QED BY <1>1, <1>2, <1>7, <2>1, <2>2, FieldIsNamed DEF k, i
  <1>. QED BY <1>3, <1>4, <1>5, <1>6, <1>7

\* A turn of the loops: one more entry has its name.
LEMMA NameEntryKeepsNames ==
  ASSUME NamesInv, NameEntry
  PROVE  NamesInv'
  <1> DEFINE k == next.kind
             i == next.i
             kind == Kinds[k]
             name == Result(bufs')
             at == Entry(kind, i)
             filed == {n \in {AutoName(at, name)} : bufs'.ok}
             names == out.names \cup filed
  <1>1. /\ IsNamed(bufs', kind, i)
        /\ k \in 1 .. 4 /\ kind # "insns" /\ i \in Nat
    BY NextIsNamed DEF NamesInv
  <1>2. IsBufs(bufs') /\ name = NameOf(kind, i) /\ (NameOf(kind, i) # NoName => bufs'.ok)
    BY <1>1 DEF IsNamed
  <1>3. out' = WithName(out, names) /\ pc' = pc /\ pc = "names" /\ input' = input
    BY Zenon DEF NameEntry, WithName
  <1>4. IsOut(out') /\ out'.names = names
    BY <1>3, WithNameFacts DEF NamesInv
  <1>5. next' = [kind |-> k, i |-> i + 1]
    BY DEF NameEntry, NamesInv
  <1>6. /\ next' = [kind |-> next'.kind, i |-> next'.i]
        /\ next'.kind = k /\ next'.i = i + 1
    BY <1>5
  <1>7. \A x \in out'.names : IsOwn(x)'
    <2> SUFFICES ASSUME NEW x \in out'.names PROVE IsOwn(x)'
      OBVIOUS
    <2>1. NameOf(x.at[1], x.at[2])' = NameOf(x.at[1], x.at[2])
      BY <1>3, SameNames
    <2>2. CASE x \in out.names
      BY <2>1, <2>2 DEF NamesInv, IsOwn
    <2>3. CASE x \in filed
      <3>1. x = AutoName(at, name)
        BY <2>3
      <3>2. x.at = <<kind, i>> /\ x.name = name
        BY <3>1 DEF AutoName, Entry
      <3> HIDE DEF kind, name, i
      <3>3. x.at[1] = kind /\ x.at[2] = i
        BY <3>2
      <3>. QED BY <1>2, <2>1, <3>2, <3>3 DEF IsOwn
    <2>. QED BY <1>4, <2>2, <2>3
  <1>8. \A l \in 1 .. 4 : \A j \in (DOMAIN Table(Kinds[l]))' : IsPast(l, j)' => HasName(l, j)'
    <2> SUFFICES ASSUME NEW l \in 1 .. 4, NEW j \in (DOMAIN Table(Kinds[l]))', IsPast(l, j)'
                 PROVE  HasName(l, j)'
      OBVIOUS
    <2>0. Kinds' = Kinds
      BY DEF Kinds
    <2>1. Table(Kinds[l])' = Table(Kinds[l]) /\ NameOf(Kinds[l], j)' = NameOf(Kinds[l], j)
      BY <1>3, SameNames, Zenon DEF Kinds
    <2>2. j \in DOMAIN Table(Kinds[l]) /\ j \in Nat
      <3>1. j \in DOMAIN Table(Kinds[l])
        BY <2>1
      <3>. QED BY <3>1, TablesHaveNoGaps DEF NamesInv
    <2>3. CASE l = k /\ j = i
      <3>1. NameOf(kind, i) # NoName => AutoName(at, NameOf(kind, i)) \in out'.names
        BY <1>2, <1>4
      <3>2. Kinds[l] = kind /\ Entry(Kinds[l], j) = at
        BY <2>3
      <3>3. NameOf(Kinds[l], j) # NoName =>
              AutoName(Entry(Kinds[l], j), NameOf(Kinds[l], j)) \in out'.names
        BY <2>3, <3>1, <3>2, Zenon
      <3>. QED BY <2>0, <2>1, <3>3, Zenon DEF HasName
    <2>4. CASE ~(l = k /\ j = i)
      <3>1. IsPast(l, j)
        BY <1>1, <1>6, <2>2, <2>4 DEF IsPast
      <3>2. HasName(l, j)
        BY <2>2, <3>1 DEF NamesInv
      <3>3. out.names \subseteq out'.names
        BY <1>4
      <3>. QED BY <2>0, <2>1, <3>2, <3>3, Zenon DEF HasName
    <2>. QED BY <2>3, <2>4
  <1>9. input' \in Inputs
    BY <1>3 DEF NamesInv
  <1> HIDE DEF k, i, names
  <1>. QED BY <1>1, <1>2, <1>3, <1>4, <1>6, <1>7, <1>8, <1>9 DEF NamesInv

\* The end of one loop: all entries of a table have their names.
LEMMA NextKindKeepsNames ==
  ASSUME NamesInv, NextKind
  PROVE  NamesInv'
  <1> DEFINE k == next.kind
             i == next.i
  <1>1. /\ k \in 1 .. 4 /\ i \notin DOMAIN Table(Kinds[k]) /\ i \in Nat
        /\ next' = [kind |-> k + 1, i |-> 0]
        /\ pc = "names" /\ pc' = IF k = 4 THEN "done" ELSE pc
    BY KindsFacts DEF NamesInv, NextKind
  <1>2. input' = input /\ bufs' = bufs /\ out' = out
    BY DEF NextKind
  <1>3. \A l \in 1 .. 4 : \A j \in DOMAIN Table(Kinds[l]) :
          (l < k + 1 \/ (l = k + 1 /\ j < 0)) => IsPast(l, j)
    <2> SUFFICES ASSUME NEW l \in 1 .. 4, NEW j \in DOMAIN Table(Kinds[l]),
                        l < k + 1 \/ (l = k + 1 /\ j < 0)
                 PROVE  IsPast(l, j)
      OBVIOUS
    <2>1. PICK n \in Nat : DOMAIN Table(Kinds[l]) = 0 .. n - 1
      BY TablesHaveNoGaps DEF NamesInv
    <2>2. j \in Nat /\ j < n
      BY <2>1
    <2>3. CASE l = k
      BY <1>1, <2>1, <2>2, <2>3 DEF IsPast
    <2>4. CASE l # k
      BY <1>1, <2>2, <2>4 DEF IsPast
    <2>. QED BY <2>3, <2>4
  <1>4. /\ next' = [kind |-> next'.kind, i |-> next'.i]
        /\ next'.kind = k + 1 /\ next'.i = 0
    BY <1>1
  <1> HIDE DEF k, i
  <1>5. \A l \in 1 .. 4 : \A j \in (DOMAIN Table(Kinds[l]))' : IsPast(l, j)' => HasName(l, j)'
    <2> SUFFICES ASSUME NEW l \in 1 .. 4, NEW j \in (DOMAIN Table(Kinds[l]))', IsPast(l, j)'
                 PROVE  HasName(l, j)'
      OBVIOUS
    <2>0. Kinds' = Kinds
      BY DEF Kinds
    <2>1. Table(Kinds[l])' = Table(Kinds[l]) /\ NameOf(Kinds[l], j)' = NameOf(Kinds[l], j)
      BY <1>2, SameNames, Zenon DEF Kinds
    <2>2. j \in DOMAIN Table(Kinds[l])
      BY <2>1
    <2>3. IsPast(l, j)
      BY <1>3, <1>4, <2>2 DEF IsPast
    <2>4. HasName(l, j)
      BY <2>2, <2>3 DEF NamesInv
    <2>. QED BY <1>2, <2>0, <2>1, <2>4, Zenon DEF HasName
  <1>6. \A x \in out'.names : IsOwn(x)'
    <2> SUFFICES ASSUME NEW x \in out'.names PROVE IsOwn(x)'
      OBVIOUS
    <2>1. NameOf(x.at[1], x.at[2])' = NameOf(x.at[1], x.at[2])
      BY <1>2, SameNames
    <2>. QED BY <1>2, <2>1 DEF NamesInv, IsOwn
  <1>7. input' \in Inputs /\ IsBufs(bufs') /\ IsOut(out')
    BY <1>2 DEF NamesInv
  <1>8. pc' = "done" => next'.kind > 4
    BY <1>1, <1>4
  <1>9. next'.kind \in Nat \ {0} /\ next'.i \in Nat
    BY <1>1, <1>4
  <1>. QED BY <1>4, <1>5, <1>6, <1>7, <1>8, <1>9 DEF NamesInv

\* The invariant of the names is one: every step keeps it, whatever is read.
THEOREM NamesInvariant == Spec => []NamesInv
  <1>1. Init => NamesInv
    BY NamesBegin
  <1>2. NamesInv /\ [Next]_vars => NamesInv'
    <2> SUFFICES ASSUME NamesInv, [Next]_vars PROVE NamesInv'
      OBVIOUS
    <2>1. CASE NameEntry
      BY <2>1, NameEntryKeepsNames
    <2>2. CASE NextKind
      BY <2>2, NextKindKeepsNames
    <2>3. CASE EmitExternal \/ EmitFunction
      BY <2>3, MethodsKeepNames
    <2>4. CASE \/ PassClass \/ OpenClass \/ SkipField \/ FieldsTruncated \/ NextList \/ ListsDone
               \/ BadMethod \/ RejectCode \/ TriesDone \/ PassTry \/ OpenTry
               \/ EmitHandler \/ HandlersTruncated \/ HandlersDone \/ ClassesDone
      BY <2>4, OtherStepsKeepNames
    <2>5. CASE UNCHANGED vars
      <3>1. /\ input' = input /\ next' = next /\ out' = out /\ bufs' = bufs /\ pc' = pc
        BY <2>5 DEF vars
      <3>. QED BY <3>1, NamesGrow DEF NamesInv
    <2>. QED BY <2>1, <2>2, <2>3, <2>4, <2>5, Zenon DEF Next, Work, Terminating
  <1>. QED BY <1>1, <1>2, PTL DEF Spec

\* Every entry is given its own name, made of its own strings, whatever was read
\* into the shared buffers before and in between, and in the end every entry whose
\* strings can be read has one.
THEOREM NamesAreOwn == Spec => []NamesAreTheirOwn
  <1>1. NamesInv => NamesAreTheirOwn
    <2> SUFFICES ASSUME NamesInv PROVE NamesAreTheirOwn
      OBVIOUS
    <2>1. \A n \in out.names : n.at[1] # "insns" => n.name = NameOf(n.at[1], n.at[2])
      BY DEF NamesInv, IsOwn
    <2>2. ASSUME Done, NEW k \in 1 .. Len(Kinds), NEW i \in DOMAIN Table(Kinds[k]),
                 NameOf(Kinds[k], i) # NoName
          PROVE  AutoName(Entry(Kinds[k], i), NameOf(Kinds[k], i)) \in out.names
      <3>1. k \in 1 .. 4 /\ k < next.kind
        BY <2>2, KindsFacts DEF NamesInv, Done
      <3>2. HasName(k, i)
        BY <3>1 DEF NamesInv, IsPast
      <3>. QED BY <2>2, <3>2 DEF HasName
    <2>. QED BY <2>1, <2>2 DEF NamesAreTheirOwn
  <1>. QED BY <1>1, NamesInvariant, PTL

-------------------------------------------------------------------------------
(* The reader                                                              *)

\* A position, and those to go back to.
IsReader(r) == r = [pos |-> r.pos, stack |-> r.stack] /\ \E S : r.stack \in Seq(S)

\* Going somewhere, ahead and back leaves a reader.
LEMMA ReaderMoves ==
  ASSUME NEW r, IsReader(r)
  PROVE  /\ \A pos : IsReader(At(r, pos)) /\ At(r, pos).pos = pos
         /\ \A n : IsReader(Ahead(r, n))
         /\ IsReader(Saved(r)) /\ IsReader(Restored(r))
  <1> DEFINE p == r.pos
             s == r.stack
             v == [pos |-> p, stack |-> s]
  <1>1. r = v
    BY DEF IsReader
  <1>2. PICK S : s \in Seq(S)
    BY DEF IsReader
  <1> HIDE DEF p, s
  <1>3. \A q, t, T : t \in Seq(T) => IsReader([pos |-> q, stack |-> t])
    BY DEF IsReader
  <1>4. ASSUME NEW pos
        PROVE  IsReader(At(r, pos)) /\ At(r, pos).pos = pos
    <2>1. [v EXCEPT !.pos = pos] = [pos |-> pos, stack |-> s]
      OBVIOUS
    <2>2. At(r, pos) = [pos |-> pos, stack |-> s]
      BY <1>1, <2>1, Zenon DEF At
    <2>. QED BY <1>2, <1>3, <2>2
  <1>5. ASSUME NEW n
        PROVE  IsReader(Ahead(r, n))
    <2> DEFINE q == [p EXCEPT ![3] = @ + n]
    <2>1. Ahead(r, n) = [v EXCEPT !.pos[3] = @ + n]
      BY <1>1, Zenon DEF Ahead
    <2>2. [v EXCEPT !.pos[3] = @ + n] = [v EXCEPT !.pos = q]
      BY Zenon
    <2> HIDE DEF q
    <2>3. [v EXCEPT !.pos = q] = [pos |-> q, stack |-> s]
      OBVIOUS
    <2>. QED BY <1>2, <1>3, <2>1, <2>2, <2>3
  <1>6. IsReader(Saved(r))
    <2> DEFINE t == Append(s, p)
    <2>1. Saved(r) = [v EXCEPT !.stack = t]
      <3>1. v.stack = s /\ v.pos = p
        OBVIOUS
      <3>. QED BY <1>1, <3>1, Zenon DEF Saved
    <2>2. t \in Seq(S \cup {p})
      <3>1. s \in Seq(S \cup {p}) /\ p \in S \cup {p}
        BY <1>2
      <3>. QED BY <3>1
    <2> HIDE DEF t
    <2>3. [v EXCEPT !.stack = t] = [pos |-> p, stack |-> t]
      OBVIOUS
    <2>. QED BY <1>3, <2>1, <2>2, <2>3
  <1>7. IsReader(Restored(r))
    <2> DEFINE q == s[Len(s)]
               t == SubSeq(s, 1, Len(s) - 1)
    <2>1. Restored(r) = [pos |-> q, stack |-> t]
      BY <1>1 DEF Restored
    <2>2. t \in Seq(S)
      BY <1>2
    <2> HIDE DEF q, t
    <2>. QED BY <1>3, <2>1, <2>2
  <1>. QED BY <1>4, <1>5, <1>6, <1>7

\* Reading elsewhere leaves the reader where it stood.
LEMMA ElsewhereAndBack ==
  ASSUME NEW r, IsReader(r), NEW pos
  PROVE  Elsewhere(r, pos) = r
  <1> DEFINE p == r.pos
             s == r.stack
             v == [pos |-> p, stack |-> s]
             t == Append(s, p)
  <1>1. r = v
    BY DEF IsReader
  <1>2. PICK S : s \in Seq(S)
    BY DEF IsReader
  <1> HIDE DEF p, s
  <1>3. Saved(r) = [pos |-> p, stack |-> t]
    <2>1. v.stack = s /\ v.pos = p
      OBVIOUS
    <2>2. Saved(r) = [v EXCEPT !.stack = t]
      BY <1>1, <2>1, Zenon DEF Saved
    <2> HIDE DEF t
    <2>3. [v EXCEPT !.stack = t] = [pos |-> p, stack |-> t]
      OBVIOUS
    <2>. QED BY <2>2, <2>3
  <1>4. /\ t \in Seq(S \cup {p}) /\ Len(t) = Len(s) + 1 /\ t[Len(t)] = p
        /\ \A k \in 1 .. Len(s) : t[k] = s[k]
    <2>1. s \in Seq(S \cup {p}) /\ p \in S \cup {p}
      BY <1>2
    <2>. QED BY <2>1, AppendProperties
  <1>5. SubSeq(t, 1, Len(t) - 1) = s
    <2> HIDE DEF t
    <2> DEFINE u == SubSeq(t, 1, Len(t) - 1)
    <2>1. Len(s) \in Nat /\ s \in Seq(S \cup {p})
      BY <1>2
    <2>2. u \in Seq(S \cup {p}) /\ Len(u) = Len(s) /\ \A k \in 1 .. Len(u) : u[k] = t[k]
      BY <1>4, <2>1
    <2> HIDE DEF u
    <2>3. u = s
      BY <1>4, <2>1, <2>2, SeqEqual
    <2>. QED BY <2>3 DEF u
  <1> HIDE DEF t
  <1>6. At(Saved(r), pos) = [pos |-> pos, stack |-> t]
    <2>1. [[pos |-> p, stack |-> t] EXCEPT !.pos = pos] = [pos |-> pos, stack |-> t]
      OBVIOUS
    <2>. QED BY <1>3, <2>1, Zenon DEF At
  <1>7. Elsewhere(r, pos) = [pos |-> t[Len(t)], stack |-> SubSeq(t, 1, Len(t) - 1)]
    BY <1>6 DEF Elsewhere, Restored
  <1>. QED BY <1>1, <1>4, <1>5, <1>7

\* There is a place to go back to, or none: the reader stays one.
LEMMA ReaderStays ==
  ASSUME IsReader(reader), [Next]_vars
  PROVE  IsReader(reader')
  <1>1. \A pos, n : /\ IsReader(Ahead(reader, n))
                    /\ IsReader(Ahead(At(Saved(reader), pos), n))
                    /\ Elsewhere(Ahead(reader, n), pos) = Ahead(reader, n)
    BY ReaderMoves, ElsewhereAndBack
  <1>2. IsReader(Restored(reader))
    BY ReaderMoves
  <1>3. CASE reader' = reader
    BY <1>3
  <1>4. CASE \/ FieldsTruncated \/ ListsDone \/ BadMethod
             \/ HandlersTruncated \/ HandlersDone
    <2>1. reader' = Restored(reader)
      BY <1>4, Zenon DEF FieldsTruncated, ListsDone, BadMethod, HandlersTruncated, HandlersDone,
                         CloseClass, CloseList
    <2>. QED BY <1>2, <2>1
  <1>5. CASE OpenClass
    <2>1. \E pos : reader' = Ahead(At(Saved(reader), pos), 4)
      BY <1>5, Zenon DEF OpenClass, ClassData
    <2>. QED BY <1>1, <2>1
  <1>6. CASE OpenTry
    <2>1. \E pos : reader' = Ahead(At(Saved(reader), pos), 1)
      BY <1>6, Zenon DEF OpenTry, ListOf
    <2>. QED BY <1>1, <2>1
  <1>7. CASE SkipField \/ EmitExternal
    <2>1. reader' = Ahead(reader, 2) \/ reader' = Ahead(reader, 3)
      BY <1>7, Zenon DEF SkipField, EmitExternal
    <2>. QED BY <1>1, <2>1
  <1>8. CASE RejectCode \/ EmitFunction
    <2>1. \E pos : reader' = Elsewhere(Ahead(reader, 3), pos)
      BY <1>8, Zenon DEF RejectCode, EmitFunction
    <2>. QED BY <1>1, <2>1
  <1>9. CASE EmitHandler
    <2>1. \E pos : reader' = Elsewhere(Ahead(reader, 2), pos)
      BY <1>9, Zenon DEF EmitHandler
    <2>. QED BY <1>1, <2>1
  <1>10. CASE \/ PassClass \/ NextList \/ TriesDone \/ PassTry \/ ClassesDone \/ NameEntry
              \/ NextKind \/ UNCHANGED vars
    <2>1. reader' = reader
      BY <1>10, Zenon DEF PassClass, NextList, TriesDone, PassTry, ClassesDone, NameEntry,
                          NextKind, vars
    <2>. QED BY <2>1
  <1>. QED BY <1>4, <1>5, <1>6, <1>7, <1>8, <1>9, <1>10, Zenon DEF Next, Work, Terminating

-------------------------------------------------------------------------------
(* The tables of handlers                                                  *)

\* The padding behind the instructions is that of the format.
LEMMA Padding ==
  ASSUME NEW n \in Nat
  PROVE  AlignUp(n, 4) \in Nat /\ PadTo4(n) = AlignUp(n, 4)
  <1> DEFINE m == (n + 3) \div 4
             a == m * 4
  <1>1. m \in Nat /\ 4 * m <= n + 3 /\ n + 3 < 4 * m + 4
    OBVIOUS
  <1>2. AlignUp(n, 4) = a
    <2>1. n + 4 - 1 = n + 3
      OBVIOUS
    <2>. QED BY <2>1 DEF AlignUp
  <1> HIDE DEF m
  <1>3. a \in n .. n + 3 /\ (a % 4) = 0
    BY <1>1
  <1> DEFINE Good(b) == b \in n .. n + 3 /\ (b % 4) = 0
  <1>4. ASSUME NEW b \in n .. n + 3, (b % 4) = 0
        PROVE  b = a
    <2>1. PICK q \in Int : b = 4 * q
      BY <1>4
    <2>2. q = m
      BY <1>1, <1>4, <2>1
    <2>. QED BY <2>1, <2>2
  <1>5. PadTo4(n) = a
    BY <1>3, <1>4 DEF PadTo4
  <1>. QED BY <1>1, <1>2, <1>5

\* A code_item whose code is in the file: where its instructions, its try_items and
\* its lists are.
LEMMA CodeFacts ==
  ASSUME input \in Inputs, NEW off, HasCode(off)
  PROVE  /\ off \in Nat /\ Insns(off) \in Nat /\ CodeOf(Insns(off)) = off
         /\ input.codes[off].tries_size \in Nat
         /\ TriesOf(off) \in Nat /\ TableOf(Insns(off)) = TriesOf(off)
  <1> DEFINE size == input.codes[off].insns_size
             tries == input.codes[off].tries_size
  <1>1. off \in Nat /\ size \in Nat /\ tries \in Nat
    BY InputsAssumption DEF HasCode, Readable
  <1>2. Insns(off) = off + 16 /\ CodeOf(Insns(off)) = off
    BY <1>1 DEF Insns, CodeOf, HeaderSize
  <1> DEFINE e == off + 16 + 2 * size
  <1>3. EndOf(off) = e /\ e \in Nat
    BY <1>1, <1>2 DEF EndOf
  <1>4. TableOf(Insns(off)) = PadTo4(e)
    BY <1>2 DEF TableOf
  <1>5. TriesOf(off) = AlignUp(e, 4)
    BY <1>3 DEF TriesOf
  <1> HIDE DEF size, e
  <1>. QED BY <1>1, <1>2, <1>3, <1>4, <1>5, Padding

\* The edges the table of a function calls for, for one try_item.
EdgesOf(f, i) ==
  LET t == TryAt(f, i) IN
  {<<f + 2 * t.start_addr, f + 2 * a>> :
     a \in IF t.handler_off = 0 THEN {} ELSE TargetsOf(ListAt(f, t))}

\* The table of the function ends within the file.
IsGuarded(f) == TableOf(f) + input.codes[CodeOf(f)].tries_size * TrySize < input.file_size

\* A list of handlers is its size, pairs, and the one for all types if the size is
\* not positive.
LEMMA TargetsFacts ==
  ASSUME NEW l, l # <<>>, NEW a
  PROVE  LET m == Magnitude(l[1]) IN
         a \in TargetsOf(l) <=>
           \/ \E k \in 1 .. m : 2 * k + 1 \in DOMAIN l /\ a = l[2 * k + 1]
           \/ l[1] <= 0 /\ 2 * m + 2 \in DOMAIN l /\ a = l[2 * m + 2]
  <1> DEFINE m == Magnitude(l[1])
             typed == {k \in 1 .. m : 2 * k + 1 \in DOMAIN l}
             rest == {x \in {l[1]} : x <= 0 /\ 2 * m + 2 \in DOMAIN l}
  <1>1. TargetsOf(l) = {l[2 * k + 1] : k \in typed} \cup {l[2 * m + 2] : n \in rest}
    BY DEF TargetsOf
  <1>2. a \in {l[2 * k + 1] : k \in typed} <=>
          \E k \in 1 .. m : 2 * k + 1 \in DOMAIN l /\ a = l[2 * k + 1]
    BY Zenon
  <1>3. a \in {l[2 * m + 2] : n \in rest} <=> rest # {} /\ a = l[2 * m + 2]
    BY Zenon
  <1>4. rest # {} <=> l[1] <= 0 /\ 2 * m + 2 \in DOMAIN l
    BY Zenon
  <1> HIDE DEF m
  <1>. QED BY <1>1, <1>2, <1>3, <1>4, Zenon DEF m

\* The list of a try_item as the reader meets it.
LEMMA ListFacts ==
  ASSUME input \in Inputs, NEW a, NEW n \in Int, NEW p \in Int, NEW r, r.pos = <<"list", a, p>>
  PROVE  /\ Leb(r, n) # Eof <=> a \in DOMAIN input.lists /\ p + n \in DOMAIN input.lists[a]
         /\ Leb(r, n) # Eof => Leb(r, n) = input.lists[a][p + n]
         /\ a \in DOMAIN input.lists =>
              /\ input.lists[a] \in Seq(Int)
              /\ \A k \in DOMAIN input.lists[a] : input.lists[a][k] # Eof
  <1>1. a \in DOMAIN input.lists =>
          /\ input.lists[a] \in Seq(Int)
          /\ \A k \in DOMAIN input.lists[a] : input.lists[a][k] # Eof
    BY InputsAssumption
  <1>2. r.pos[1] = "list" /\ r.pos[2] = a /\ r.pos[3] = p
    OBVIOUS
  <1>3. Leb(r, n) = Delivers(input.lists, r.pos, n)
    BY <1>2, "list" # "data", Zenon DEF Leb
  <1>4. Delivers(input.lists, r.pos, n) =
          IF a \in DOMAIN input.lists /\ p + n \in DOMAIN input.lists[a]
            THEN input.lists[a][p + n] ELSE Eof
    BY <1>2 DEF Delivers
  <1>. QED BY <1>1, <1>3, <1>4, Zenon

\* The tables of handlers are those of the file, which does not change.
LEMMA SameTables ==
  ASSUME input' = input
  PROVE  /\ \A f : TableOf(f)' = TableOf(f) /\ IsGuarded(f)' = IsGuarded(f)
                   /\ TriesIn(f)' = TriesIn(f)
         /\ \A f, i : TryAt(f, i)' = TryAt(f, i) /\ EdgesOf(f, i)' = EdgesOf(f, i)
         /\ \A f, t : ListAt(f, t)' = ListAt(f, t)
         /\ \A off : HasCode(off)' = HasCode(off)
  <1>1. \A f : TableOf(f)' = TableOf(f)
    BY Zenon DEF TableOf
  <1>2. \A f : IsGuarded(f)' = IsGuarded(f)
    BY <1>1, Zenon DEF IsGuarded
  <1>3. \A f, i : TryAt(f, i)' = TryAt(f, i)
    BY <1>1, Zenon DEF TryAt
  <1>4. \A f : TriesIn(f)' = TriesIn(f)
    BY <1>3, Zenon DEF TriesIn
  <1>5. \A f, t : ListAt(f, t)' = ListAt(f, t)
    BY <1>1, Zenon DEF ListAt
  <1>6. \A f, i : EdgesOf(f, i)' = EdgesOf(f, i)
    BY <1>3, <1>5, Zenon DEF EdgesOf
  <1>7. \A off : HasCode(off)' = HasCode(off)
    BY Zenon DEF HasCode, Readable, EndOf
  <1>. QED BY <1>1, <1>2, <1>3, <1>4, <1>5, <1>6, <1>7

\* The try_item at hand is entry i of the function's table.
AtTable ==
  /\ emit.insns \in out.functions /\ IsGuarded(emit.insns)
  /\ emit.tries = TableOf(emit.insns)
  /\ emit.n = input.codes[CodeOf(emit.insns)].tries_size
  /\ emit.i \in Nat /\ emit.i <= emit.n
  /\ \A j \in 0 .. emit.i - 1 : TryAt(emit.insns, j) # Eof

\* The list at hand is that of the try_item, and what was read of it has its edges.
InList ==
  LET t == TryAt(emit.insns, emit.i)
      a == TableOf(emit.insns) + emit.n * TrySize + t.handler_off
      l == input.lists[a]
      m == Magnitude(l[1])
  IN  /\ emit.i < emit.n /\ t # Eof /\ t.handler_off # 0
      /\ a \in DOMAIN input.lists /\ 1 \in DOMAIN l
      /\ emit.start = emit.insns + 2 * t.start_addr
      /\ emit.all = (l[1] <= 0)
      /\ emit.typed \in Nat /\ emit.typed <= m
      /\ reader.pos = <<"list", a, 1 + 2 * (m - emit.typed)>>
      /\ \A k \in 1 .. m - emit.typed :
           2 * k + 1 \in DOMAIN l /\ <<emit.start, HandlerAt(l[2 * k + 1])>> \in out.edges

\* The rest of a function's table is still to come.
IsOpen(f, i) == pc \in {"tries", "handlers"} /\ f = emit.insns /\ i >= emit.i

\* No edge without its entry, and every entry that is passed has its edges.
EdgesAreDue ==
  \A e \in out.edges : \E f \in out.functions :
    IsGuarded(f) /\ \E i \in TriesIn(f) : e \in EdgesOf(f, i)

EntriesHaveEdges ==
  \A f \in out.functions : IsGuarded(f) =>
    \A i \in TriesIn(f) : EdgesOf(f, i) \subseteq out.edges \/ IsOpen(f, i)

FunctionsHaveCode == \A f \in out.functions : f = Insns(CodeOf(f)) /\ HasCode(CodeOf(f))

\* The registers of a table that is walked.
IsEmit(e) == e = [insns |-> e.insns, tries |-> e.tries, n |-> e.n, i |-> e.i,
                  start |-> e.start, typed |-> e.typed, all |-> e.all]

\* The invariant of the edges.
HandlersInv ==
  /\ input \in Inputs
  /\ IsOut(out)
  /\ IsReader(reader)
  /\ IsEmit(emit)
  /\ FunctionsHaveCode
  /\ pc \in {"tries", "handlers"} => AtTable
  /\ pc = "handlers" => InList
  /\ EdgesAreDue
  /\ EntriesHaveEdges

\* Nothing is declared yet.
LEMMA HandlersBegin ==
  Init => HandlersInv
  <1> SUFFICES ASSUME Init PROVE HandlersInv
    OBVIOUS
  <1>1. /\ out = [externals |-> {}, functions |-> {}, names |-> {}, edges |-> {}, comments |-> {}]
        /\ emit = [insns |-> 0, tries |-> 0, n |-> 0, i |-> 0, start |-> 0, typed |-> 0,
                   all |-> FALSE]
        /\ reader = [pos |-> <<"start">>, stack |-> <<>>]
        /\ pc = "classes" /\ input \in Inputs
    BY DEF Init
  <1>2. IsOut(out) /\ out.functions = {} /\ out.edges = {}
    BY <1>1 DEF IsOut
  <1>3. IsEmit(emit)
    BY <1>1 DEF IsEmit
  <1>4. IsReader(reader)
    <2>1. <<>> \in Seq(Int)
      OBVIOUS
    <2>. QED BY <1>1, <2>1 DEF IsReader
  <1>. QED BY <1>1, <1>2, <1>3, <1>4 DEF HandlersInv, FunctionsHaveCode, EdgesAreDue, EntriesHaveEdges

\* A step adds edges that are due, and leaves none out of the entries it passes.
LEMMA EdgesGrow ==
  ASSUME HandlersInv, input' = input, out'.functions = out.functions,
         out.edges \subseteq out'.edges,
         \A e \in out'.edges : e \in out.edges \/
           \E f \in out.functions : IsGuarded(f) /\ \E i \in TriesIn(f) : e \in EdgesOf(f, i),
         \A f \in out.functions : IsGuarded(f) =>
           \A i \in TriesIn(f) : IsOpen(f, i) => EdgesOf(f, i) \subseteq out'.edges \/ IsOpen(f, i)'
  PROVE  FunctionsHaveCode' /\ EdgesAreDue' /\ EntriesHaveEdges'
  <1>1. FunctionsHaveCode'
    <2> SUFFICES ASSUME NEW f \in out.functions
                 PROVE  (f = Insns(CodeOf(f)) /\ HasCode(CodeOf(f)))'
      BY Zenon DEF FunctionsHaveCode
    <2>1. f = Insns(CodeOf(f)) /\ HasCode(CodeOf(f))
      BY DEF HandlersInv, FunctionsHaveCode
    <2>. QED BY <2>1, SameTables
  <1>2. EdgesAreDue'
    <2> SUFFICES ASSUME NEW e \in out'.edges
                 PROVE  \E f \in out.functions :
                          IsGuarded(f)' /\ \E i \in TriesIn(f)' : e \in EdgesOf(f, i)'
      BY Zenon DEF EdgesAreDue
    <2>1. \E f \in out.functions : IsGuarded(f) /\ \E i \in TriesIn(f) : e \in EdgesOf(f, i)
      BY DEF HandlersInv, EdgesAreDue
    <2>. QED BY <2>1, SameTables, Zenon
  <1>3. EntriesHaveEdges'
    <2> SUFFICES ASSUME NEW f \in out.functions, IsGuarded(f)', NEW i \in TriesIn(f)'
                 PROVE  EdgesOf(f, i)' \subseteq out'.edges \/ IsOpen(f, i)'
      BY Zenon DEF EntriesHaveEdges
    <2>1. IsGuarded(f) /\ i \in TriesIn(f) /\ EdgesOf(f, i)' = EdgesOf(f, i)
      BY SameTables, Zenon
    <2>2. EdgesOf(f, i) \subseteq out.edges \/ IsOpen(f, i)
      BY <2>1 DEF HandlersInv, EntriesHaveEdges
    <2>. QED BY <2>1, <2>2
  <1>. QED BY <1>1, <1>2, <1>3

\* Steps outside of the tables: classes, lists of methods, names.
LEMMA StepsOutsideTables ==
  ASSUME HandlersInv, IsReader(reader'), input' = input, emit' = emit, IsOut(out'),
         out'.functions = out.functions, out'.edges = out.edges,
         pc \notin {"tries", "handlers"}, pc' \notin {"tries", "handlers"}
  PROVE  HandlersInv'
  <1>1. \A f, i : ~IsOpen(f, i)
    BY DEF IsOpen
  <1>2. FunctionsHaveCode' /\ EdgesAreDue' /\ EntriesHaveEdges'
    BY <1>1, EdgesGrow
  <1>. QED BY <1>2 DEF HandlersInv

\* The other steps are such.
LEMMA OtherStepsKeepHandlers ==
  ASSUME HandlersInv, IsReader(reader'),
         \/ PassClass \/ OpenClass \/ SkipField \/ FieldsTruncated \/ NextList \/ ListsDone
         \/ BadMethod \/ RejectCode \/ EmitExternal \/ ClassesDone \/ NameEntry \/ NextKind
  PROVE  HandlersInv'
  <1>1. IsOut(out)
    BY DEF HandlersInv
  <1>2. CASE \/ PassClass \/ OpenClass \/ SkipField \/ FieldsTruncated \/ NextList \/ ListsDone
             \/ BadMethod \/ RejectCode \/ ClassesDone \/ NextKind
    <2>1. /\ input' = input /\ emit' = emit /\ out' = out
          /\ pc \in {"classes", "lists", "names"} /\ pc' \in {"classes", "lists", "names", "done"}
      BY <1>2 DEF PassClass, OpenClass, SkipField, FieldsTruncated, NextList, ListsDone, BadMethod,
                  RejectCode, ClassesDone, NextKind, CloseClass, EmitMethod, InFields, InMethods
    <2>. QED BY <1>1, <2>1, StepsOutsideTables
  <1>3. CASE EmitExternal
    <2>1. /\ input' = input /\ emit' = emit /\ pc = "lists" /\ pc' = "lists"
      BY <1>3 DEF EmitExternal, EmitMethod, InMethods
    <2>2. PICK x, y : out' = WithExternal(out, x, y)
      BY <1>3, Zenon DEF EmitExternal, WithExternal
    <2>3. IsOut(out') /\ out'.functions = out.functions /\ out'.edges = out.edges
      BY <1>1, <2>2, WithExternalFacts
    <2>. QED BY <2>1, <2>3, StepsOutsideTables
  <1>4. CASE NameEntry
    <2>1. /\ input' = input /\ emit' = emit /\ pc = "names" /\ pc' = "names"
      BY <1>4 DEF NameEntry
    <2>2. PICK y : out' = WithName(out, y)
      BY <1>4, Zenon DEF NameEntry, WithName
    <2>3. IsOut(out') /\ out'.functions = out.functions /\ out'.edges = out.edges
      BY <1>1, <2>2, WithNameFacts
    <2>. QED BY <2>1, <2>3, StepsOutsideTables
  <1>. QED BY <1>2, <1>3, <1>4

\* The registers when a table is opened, and when one entry, a list, a pair of it is
\* passed.
Opened(e, f, t, n) == [e EXCEPT !.insns = f, !.tries = t, !.n = n, !.i = 0]

Listed(e, s, m, a) == [e EXCEPT !.start = s, !.typed = m, !.all = a]

Passed(e) == [e EXCEPT !.i = @ + 1]

Paired(e) == [e EXCEPT !.typed = @ - 1]

\* What the registers of the emitter hold after each of these.
LEMMA EmitFacts ==
  ASSUME NEW e, IsEmit(e)
  PROVE  /\ \A f, t, n : LET p == Opened(e, f, t, n) IN
              /\ IsEmit(p) /\ p.insns = f /\ p.tries = t /\ p.n = n /\ p.i = 0
         /\ \A s, m, a : LET p == Listed(e, s, m, a) IN
              /\ IsEmit(p) /\ p.insns = e.insns /\ p.tries = e.tries /\ p.n = e.n /\ p.i = e.i
              /\ p.start = s /\ p.typed = m /\ p.all = a
         /\ LET p == Passed(e) IN
              /\ IsEmit(p) /\ p.insns = e.insns /\ p.tries = e.tries /\ p.n = e.n /\ p.i = e.i + 1
         /\ LET p == Paired(e) IN
              /\ IsEmit(p) /\ p.insns = e.insns /\ p.tries = e.tries /\ p.n = e.n /\ p.i = e.i
              /\ p.start = e.start /\ p.typed = e.typed - 1 /\ p.all = e.all
  <1> DEFINE f0 == e.insns
             t0 == e.tries
             n0 == e.n
             i0 == e.i
             s0 == e.start
             m0 == e.typed
             a0 == e.all
             r == [insns |-> f0, tries |-> t0, n |-> n0, i |-> i0, start |-> s0, typed |-> m0,
                   all |-> a0]
  <1>1. e = r
    BY DEF IsEmit
  <1> HIDE DEF f0, t0, n0, i0, s0, m0, a0
  <1>2. \A f, t, n, i, s, m, a :
          LET p == [insns |-> f, tries |-> t, n |-> n, i |-> i, start |-> s, typed |-> m, all |-> a]
          IN  /\ IsEmit(p) /\ p.insns = f /\ p.tries = t /\ p.n = n /\ p.i = i
              /\ p.start = s /\ p.typed = m /\ p.all = a
    BY DEF IsEmit
  <1>3. ASSUME NEW f, NEW t, NEW n
        PROVE  Opened(e, f, t, n) = [insns |-> f, tries |-> t, n |-> n, i |-> 0, start |-> s0,
                                     typed |-> m0, all |-> a0]
    <2> DEFINE zero == 0
               u == [r EXCEPT !.insns = f]
               v == [u EXCEPT !.tries = t]
               w == [v EXCEPT !.n = n]
    <2>1. Opened(e, f, t, n) = [w EXCEPT !.i = zero]
      BY <1>1, Zenon DEF Opened
    <2> HIDE DEF zero
    <2>2. u = [insns |-> f, tries |-> t0, n |-> n0, i |-> i0, start |-> s0, typed |-> m0,
               all |-> a0]
      OBVIOUS
    <2> HIDE DEF u
    <2>3. v = [insns |-> f, tries |-> t, n |-> n0, i |-> i0, start |-> s0, typed |-> m0,
               all |-> a0]
      BY <2>2
    <2> HIDE DEF v
    <2>4. w = [insns |-> f, tries |-> t, n |-> n, i |-> i0, start |-> s0, typed |-> m0,
               all |-> a0]
      BY <2>3
    <2> HIDE DEF w
    <2>5. [w EXCEPT !.i = zero] = [insns |-> f, tries |-> t, n |-> n, i |-> zero, start |-> s0,
                                   typed |-> m0, all |-> a0]
      BY <2>4
    <2>. QED BY <2>1, <2>5 DEF zero
  <1>4. ASSUME NEW s, NEW m, NEW a
        PROVE  Listed(e, s, m, a) = [insns |-> f0, tries |-> t0, n |-> n0, i |-> i0, start |-> s,
                                     typed |-> m, all |-> a]
    <2> DEFINE u == [r EXCEPT !.start = s]
               v == [u EXCEPT !.typed = m]
    <2>1. Listed(e, s, m, a) = [v EXCEPT !.all = a]
      BY <1>1, Zenon DEF Listed
    <2>2. u = [insns |-> f0, tries |-> t0, n |-> n0, i |-> i0, start |-> s, typed |-> m0,
               all |-> a0]
      OBVIOUS
    <2> HIDE DEF u
    <2>3. v = [insns |-> f0, tries |-> t0, n |-> n0, i |-> i0, start |-> s, typed |-> m,
               all |-> a0]
      BY <2>2
    <2> HIDE DEF v
    <2>4. [v EXCEPT !.all = a] = [insns |-> f0, tries |-> t0, n |-> n0, i |-> i0, start |-> s,
                                  typed |-> m, all |-> a]
      BY <2>3
    <2>. QED BY <2>1, <2>4
  <1>5. Passed(e) = [insns |-> f0, tries |-> t0, n |-> n0, i |-> i0 + 1, start |-> s0,
                     typed |-> m0, all |-> a0]
    <2> DEFINE x == i0 + 1
    <2>1. r.i = i0
      OBVIOUS
    <2>2. Passed(e) = [r EXCEPT !.i = x]
      BY <1>1, <2>1, Zenon DEF Passed
    <2> HIDE DEF x
    <2>3. [r EXCEPT !.i = x] = [insns |-> f0, tries |-> t0, n |-> n0, i |-> x, start |-> s0,
                                typed |-> m0, all |-> a0]
      OBVIOUS
    <2>. QED BY <2>2, <2>3 DEF x
  <1>6. Paired(e) = [insns |-> f0, tries |-> t0, n |-> n0, i |-> i0, start |-> s0,
                     typed |-> m0 - 1, all |-> a0]
    <2> DEFINE x == m0 - 1
    <2>1. r.typed = m0
      OBVIOUS
    <2>2. Paired(e) = [r EXCEPT !.typed = x]
      BY <1>1, <2>1, Zenon DEF Paired
    <2> HIDE DEF x
    <2>3. [r EXCEPT !.typed = x] = [insns |-> f0, tries |-> t0, n |-> n0, i |-> i0, start |-> s0,
                                    typed |-> x, all |-> a0]
      OBVIOUS
    <2>. QED BY <2>2, <2>3 DEF x
  <1>. QED BY <1>2, <1>3, <1>4, <1>5, <1>6 DEF f0, t0, n0, i0, s0, m0, a0

\* A function is declared, and its table opened if it has one within the file.
LEMMA EmitFunctionKeepsHandlers ==
  ASSUME HandlersInv, IsReader(reader'), EmitFunction
  PROVE  HandlersInv'
  <1> DEFINE off == CodeOff
             f == Insns(off)
             size == input.codes[off].tries_size
             opens == size > 0 /\ HandlersOf(off) < input.file_size
  <1>1. /\ input' = input /\ pc = "lists" /\ HasCode(off) /\ input \in Inputs
        /\ IsEmit(emit) /\ IsOut(out)
    BY DEF EmitFunction, EmitMethod, InMethods, HandlersInv
  <1>2. \E y : out' = WithFunction(out, out.functions \cup {f}, y)
    BY Zenon DEF EmitFunction, WithFunction
  <1>3. IF opens THEN pc' = "tries" /\ emit' = Opened(emit, f, TriesOf(off), size)
                 ELSE pc' = pc /\ emit' = emit
    BY Zenon DEF EmitFunction, Opened
  <1>4. /\ f \in Nat /\ CodeOf(f) = off /\ size \in Nat
        /\ TriesOf(off) \in Nat /\ TableOf(f) = TriesOf(off)
    BY <1>1, CodeFacts
  <1>5. IsGuarded(f) <=> HandlersOf(off) < input.file_size
    BY <1>4 DEF IsGuarded, HandlersOf
  <1>6. IsOut(out') /\ out'.functions = out.functions \cup {f} /\ out'.edges = out.edges
    BY <1>1, <1>2, WithFunctionFacts
  <1>7. TriesIn(f) \subseteq 0 .. size - 1
    BY <1>4 DEF TriesIn
  <1> HIDE DEF off, f, size
  <1>8. opens => /\ IsEmit(emit') /\ emit'.insns = f /\ emit'.tries = TriesOf(off)
                 /\ emit'.n = size /\ emit'.i = 0
    BY <1>1, <1>3, EmitFacts
  <1>9. IsEmit(emit')
    BY <1>1, <1>3, <1>8
  <1>10. FunctionsHaveCode'
    <2> SUFFICES ASSUME NEW g \in out'.functions
                 PROVE  (g = Insns(CodeOf(g)) /\ HasCode(CodeOf(g)))'
      BY Zenon DEF FunctionsHaveCode
    <2>1. g = Insns(CodeOf(g)) /\ HasCode(CodeOf(g))
      BY <1>1, <1>4, <1>6 DEF HandlersInv, FunctionsHaveCode, f
    <2>. QED BY <1>1, <2>1, SameTables
  <1>11. EdgesAreDue'
    <2> SUFFICES ASSUME NEW e \in out.edges
                 PROVE  \E g \in out'.functions :
                          IsGuarded(g)' /\ \E i \in TriesIn(g)' : e \in EdgesOf(g, i)'
      BY <1>6, Zenon DEF EdgesAreDue
    <2>1. \E g \in out.functions : IsGuarded(g) /\ \E i \in TriesIn(g) : e \in EdgesOf(g, i)
      BY DEF HandlersInv, EdgesAreDue
    <2>2. out.functions \subseteq out'.functions
      BY <1>6
    <2>. QED BY <1>1, <2>1, <2>2, SameTables, Zenon
  <1>12. EntriesHaveEdges'
    <2> SUFFICES ASSUME NEW g \in out'.functions, IsGuarded(g)', NEW i \in TriesIn(g)'
                 PROVE  EdgesOf(g, i)' \subseteq out'.edges \/ IsOpen(g, i)'
      BY Zenon DEF EntriesHaveEdges
    <2>1. IsGuarded(g) /\ i \in TriesIn(g) /\ EdgesOf(g, i)' = EdgesOf(g, i)
      BY <1>1, SameTables, Zenon
    <2>2. CASE g \in out.functions
      <3>1. ~IsOpen(g, i)
        BY <1>1 DEF IsOpen
      <3>. QED BY <1>6, <2>1, <2>2, <3>1 DEF HandlersInv, EntriesHaveEdges
    <2>3. CASE g = f
      <3>1. i \in 0 .. size - 1
        BY <1>7, <2>1, <2>3
      <3>2. opens
        BY <1>4, <1>5, <2>1, <2>3, <3>1
      <3>. QED BY <1>3, <1>8, <2>3, <3>1, <3>2 DEF IsOpen
    <2>. QED BY <1>6, <2>2, <2>3
  <1>13. pc' \in {"tries", "handlers"} => AtTable'
    <2> SUFFICES ASSUME opens PROVE AtTable'
      BY <1>1, <1>3
    <2>2. IsGuarded(emit.insns)' /\ TableOf(emit.insns)' = TriesOf(off)
      BY <1>1, <1>4, <1>5, <1>8, SameTables
    <2>3. /\ emit'.insns \in out'.functions
          /\ emit'.n = input'.codes[CodeOf(emit'.insns)].tries_size
          /\ 0 .. emit'.i - 1 = {}
      BY <1>1, <1>4, <1>6, <1>8 DEF size
    <2>4. emit'.i \in Nat /\ emit'.i <= emit'.n
      BY <1>4, <1>8
    <2>. QED BY <1>8, <2>2, <2>3, <2>4 DEF AtTable
  <1>14. pc' # "handlers"
    BY <1>1, <1>3
  <1>15. input' \in Inputs
    BY <1>1
  <1>. QED BY <1>6, <1>9, <1>10, <1>11, <1>12, <1>13, <1>14, <1>15 DEF HandlersInv

\* The try_item at hand is the entry of the table, which counts if it can be read.
LEMMA AtHand ==
  ASSUME HandlersInv, pc \in {"tries", "handlers"}
  PROVE  LET f == emit.insns IN
         /\ TryItem = TryAt(f, emit.i)
         /\ f \in out.functions /\ f \in Nat /\ IsGuarded(f) /\ emit.n \in Nat
         /\ TriesIn(f) \subseteq 0 .. emit.n - 1
         /\ TryItem = Eof => \A i \in TriesIn(f) : i < emit.i
         /\ TryItem # Eof /\ emit.i < emit.n =>
              /\ emit.i \in TriesIn(f)
              /\ TryItem.start_addr \in Nat /\ TryItem.handler_off \in Nat
  <1> DEFINE f == emit.insns
             a == TableOf(f) + emit.i * TrySize
             size == input.codes[CodeOf(f)].tries_size
  <1>1. AtTable /\ emit.n = size /\ f \in out.functions /\ IsGuarded(f) /\ input \in Inputs
    BY DEF HandlersInv, AtTable
  <1>2. emit.i \in Nat /\ emit.i <= emit.n /\ \A j \in 0 .. emit.i - 1 : TryAt(f, j) # Eof
    BY <1>1 DEF AtTable
  <1>3. HasCode(CodeOf(f)) /\ f = Insns(CodeOf(f))
    BY <1>1 DEF HandlersInv, FunctionsHaveCode
  <1>4. f \in Nat /\ size \in Nat
    BY <1>1, <1>3, CodeFacts
  <1>5. TryItem = (IF Readable(input.tries, a) THEN input.tries[a] ELSE Eof)
    BY <1>1 DEF TryItem, AtTable
  <1>6. TryAt(f, emit.i) = (IF a \in DOMAIN input.tries THEN input.tries[a] ELSE Eof)
    BY DEF TryAt
  <1>7. TryItem = TryAt(f, emit.i)
    BY <1>5, <1>6, Zenon DEF Readable
  <1>8. \A i : i \in TriesIn(f) <=> i \in 0 .. size - 1 /\ \A j \in 0 .. i : TryAt(f, j) # Eof
    BY DEF TriesIn
  <1> HIDE DEF f, size, a
  <1>9. TryItem = Eof => \A i \in TriesIn(f) : i < emit.i
    <2> SUFFICES ASSUME TryItem = Eof, NEW i \in TriesIn(f) PROVE i < emit.i
      OBVIOUS
    <2>1. i \in 0 .. size - 1 /\ \A j \in 0 .. i : TryAt(f, j) # Eof
      BY <1>8
    <2>2. emit.i \notin 0 .. i
      BY <1>7, <2>1
    <2>. QED BY <1>2, <1>4, <2>1, <2>2
  <1>10. TryItem # Eof /\ emit.i < emit.n =>
           /\ emit.i \in TriesIn(f)
           /\ TryItem.start_addr \in Nat /\ TryItem.handler_off \in Nat
    <2> SUFFICES ASSUME TryItem # Eof, emit.i < emit.n
                 PROVE  /\ emit.i \in TriesIn(f)
                        /\ TryItem.start_addr \in Nat /\ TryItem.handler_off \in Nat
      OBVIOUS
    <2>1. \A j \in 0 .. emit.i : TryAt(f, j) # Eof
      BY <1>2, <1>7
    <2>2. emit.i \in TriesIn(f)
      BY <1>1, <1>2, <1>4, <1>8, <2>1
    <2>3. a \in DOMAIN input.tries /\ TryItem = input.tries[a]
      BY <1>5 DEF Readable
    <2>4. TryItem.start_addr \in Nat /\ TryItem.handler_off \in Nat
      BY <1>1, <2>3, InputsAssumption
    <2>. QED BY <2>2, <2>4
  <1>11. TriesIn(f) \subseteq 0 .. emit.n - 1
    BY <1>1, <1>8
  <1>12. emit.n \in Nat
    BY <1>1, <1>4
  <1>. QED BY <1>1, <1>4, <1>7, <1>9, <1>10, <1>11, <1>12 DEF f

\* The table is passed, or the rest of it cannot be read.
LEMMA TriesDoneKeepsHandlers ==
  ASSUME HandlersInv, IsReader(reader'), TriesDone
  PROVE  HandlersInv'
  <1> DEFINE f == emit.insns
  <1>1. /\ input' = input /\ emit' = emit /\ out' = out /\ pc = "tries" /\ pc' = "lists"
        /\ emit.i = emit.n \/ TryItem = Eof
    BY DEF TriesDone
  <1>2. \A g, i : IsOpen(g, i) /\ i \in TriesIn(g) => FALSE
    <2> SUFFICES ASSUME NEW g, NEW i, IsOpen(g, i), i \in TriesIn(g) PROVE FALSE
      OBVIOUS
    <2>1. g = f /\ i >= emit.i
      BY DEF IsOpen
    <2>2. emit.i \in Nat /\ emit.n \in Nat /\ TriesIn(f) \subseteq 0 .. emit.n - 1
      BY <1>1, AtHand DEF HandlersInv, AtTable
    <2>3. i \in 0 .. emit.n - 1
      BY <2>1, <2>2
    <2>4. TryItem # Eof
      BY <1>1, <2>1, <2>2, <2>3, AtHand
    <2>. QED BY <1>1, <2>1, <2>2, <2>3, <2>4
  <1>3. FunctionsHaveCode' /\ EdgesAreDue' /\ EntriesHaveEdges'
    BY <1>1, <1>2, EdgesGrow
  <1>. QED BY <1>1, <1>3 DEF HandlersInv

\* What is kept when the reader goes on to the next entry: the entry it leaves has its
\* edges.
LEMMA EntryIsPassed ==
  ASSUME HandlersInv, IsReader(reader'), pc \in {"tries", "handlers"}, pc' = "tries",
         emit.i < emit.n, TryItem # Eof,
         input' = input, emit' = Passed(emit), IsOut(out'), out'.functions = out.functions,
         out.edges \subseteq out'.edges,
         EdgesOf(emit.insns, emit.i) \subseteq out'.edges,
         \A e \in out'.edges : e \in out.edges \/ e \in EdgesOf(emit.insns, emit.i)
  PROVE  HandlersInv'
  <1> DEFINE f == emit.insns
  <1>1. /\ f \in out.functions /\ IsGuarded(f) /\ emit.i \in TriesIn(f)
        /\ TryItem = TryAt(f, emit.i) /\ emit.n \in Nat
    BY AtHand
  <1>2. emit.i \in Nat /\ \A j \in 0 .. emit.i - 1 : TryAt(f, j) # Eof
    BY DEF HandlersInv, AtTable
  <1>3. /\ IsEmit(emit') /\ emit'.insns = f /\ emit'.tries = emit.tries
        /\ emit'.n = emit.n /\ emit'.i = emit.i + 1
    BY EmitFacts DEF HandlersInv
  <1>4. \A g \in out.functions : \A i \in TriesIn(g) :
          IsOpen(g, i) => EdgesOf(g, i) \subseteq out'.edges \/ IsOpen(g, i)'
    <2> SUFFICES ASSUME NEW g \in out.functions, NEW i \in TriesIn(g), IsOpen(g, i)
                 PROVE  EdgesOf(g, i) \subseteq out'.edges \/ IsOpen(g, i)'
      OBVIOUS
    <2>1. g = f /\ i >= emit.i
      BY DEF IsOpen
    <2>2. i \in Nat
      <3>1. TriesIn(f) \subseteq 0 .. emit.n - 1
        BY AtHand
      <3>. QED BY <1>1, <2>1, <3>1
    <2>3. CASE i = emit.i
      BY <2>1, <2>3
    <2>4. CASE i # emit.i
      BY <1>2, <1>3, <2>1, <2>2, <2>4 DEF IsOpen
    <2>. QED BY <2>3, <2>4
  <1>5. FunctionsHaveCode' /\ EdgesAreDue' /\ EntriesHaveEdges'
    BY <1>1, <1>4, EdgesGrow
  <1>6. AtTable'
    <2>1. /\ IsGuarded(emit.insns)' /\ TableOf(emit.insns)' = TableOf(f)
          /\ \A j : TryAt(emit.insns, j)' = TryAt(f, j)
      BY <1>1, <1>3, SameTables
    <2>2. /\ emit'.insns \in out'.functions
          /\ emit'.tries = TableOf(f)
          /\ emit'.n = input'.codes[CodeOf(emit'.insns)].tries_size
      BY <1>1, <1>3 DEF HandlersInv, AtTable
    <2>3. \A j \in 0 .. emit'.i - 1 : TryAt(f, j) # Eof
      BY <1>1, <1>2, <1>3
    <2>4. emit'.i \in Nat /\ emit'.i <= emit'.n
      BY <1>1, <1>2, <1>3
    <2>. QED BY <2>1, <2>2, <2>3, <2>4 DEF AtTable
  <1>7. input' \in Inputs
    BY DEF HandlersInv
  <1>. QED BY <1>3, <1>5, <1>6, <1>7 DEF HandlersInv

\* Where the list of the try_item at hand is.
ListAddress == emit.tries + emit.n * TrySize + TryItem.handler_off

\* The edges of the entry at hand, by the numbers in its list.
LEMMA EntryEdges ==
  ASSUME HandlersInv, pc \in {"tries", "handlers"}, emit.i < emit.n, TryItem # Eof,
         TryItem.handler_off # 0, ListAddress \in DOMAIN input.lists,
         1 \in DOMAIN input.lists[ListAddress], NEW e
  PROVE  LET l == input.lists[ListAddress]
             m == Magnitude(l[1])
         IN  e \in EdgesOf(emit.insns, emit.i) <=>
               \/ \E k \in 1 .. m : 2 * k + 1 \in DOMAIN l /\ e = <<TryStart, HandlerAt(l[2 * k + 1])>>
               \/ l[1] <= 0 /\ 2 * m + 2 \in DOMAIN l /\ e = <<TryStart, HandlerAt(l[2 * m + 2])>>
  <1> DEFINE f == emit.insns
             l == input.lists[ListAddress]
             m == Magnitude(l[1])
             t == TryItem
  <1>1. t = TryAt(f, emit.i)
    BY AtHand
  <1>2. ListAt(f, t) = l
    BY DEF ListAt, ListAddress, HandlersInv, AtTable
  <1>3. l # <<>>
    OBVIOUS
  <1>4. EdgesOf(f, emit.i) = {<<f + 2 * t.start_addr, f + 2 * a>> : a \in TargetsOf(l)}
    BY <1>1, <1>2, Zenon DEF EdgesOf
  <1>5. TryStart = f + 2 * t.start_addr /\ \A a : HandlerAt(a) = f + 2 * a
    BY DEF TryStart, HandlerAt
  <1> HIDE DEF f, l, t
  <1>6. e \in EdgesOf(f, emit.i) <=> \E a \in TargetsOf(l) : e = <<TryStart, HandlerAt(a)>>
    BY <1>4, <1>5
  <1>7. \A a : a \in TargetsOf(l) <=>
           \/ \E k \in 1 .. m : 2 * k + 1 \in DOMAIN l /\ a = l[2 * k + 1]
           \/ l[1] <= 0 /\ 2 * m + 2 \in DOMAIN l /\ a = l[2 * m + 2]
    BY <1>3, TargetsFacts
  <1> HIDE DEF m
  <1>8. e \in EdgesOf(f, emit.i) <=>
          \/ \E k \in 1 .. m : 2 * k + 1 \in DOMAIN l /\ e = <<TryStart, HandlerAt(l[2 * k + 1])>>
          \/ l[1] <= 0 /\ 2 * m + 2 \in DOMAIN l /\ e = <<TryStart, HandlerAt(l[2 * m + 2])>>
    BY <1>6, <1>7, Zenon
  <1>. QED BY <1>8 DEF f, l, m

\* An entry without handlers, or whose list cannot be read, calls for no edges.
LEMMA NoEntryEdges ==
  ASSUME HandlersInv, pc = "tries", TryItem # Eof,
         TryItem.handler_off = 0 \/ Leb(ListOf(TryItem), 1) = Eof
  PROVE  EdgesOf(emit.insns, emit.i) = {}
  <1> DEFINE f == emit.insns
             t == TryItem
  <1>1. t = TryAt(f, emit.i)
    BY AtHand
  <1>2. CASE t.handler_off = 0
    BY <1>1, <1>2, Zenon DEF EdgesOf
  <1>3. CASE t.handler_off # 0
    <2> DEFINE a == ListAddress
               r == ListOf(TryItem)
    <2>1. r.pos = <<"list", a, 0>>
      <3>1. IsReader(Saved(reader))
        BY ReaderMoves DEF HandlersInv
      <3>. QED BY <3>1, ReaderMoves DEF ListOf, ListAddress
    <2>2. ListAt(f, t) = IF a \in DOMAIN input.lists THEN input.lists[a] ELSE <<>>
      BY DEF ListAt, ListAddress, HandlersInv, AtTable
    <2>3. EdgesOf(f, emit.i) = {<<f + 2 * t.start_addr, f + 2 * x>> : x \in TargetsOf(ListAt(f, t))}
      BY <1>1, <1>3, Zenon DEF EdgesOf
    <2> HIDE DEF a, r
    <2>4. input \in Inputs /\ Leb(r, 1) = Eof
      BY <1>3 DEF HandlersInv, r
    <2>5. a \in DOMAIN input.lists => input.lists[a] \in Seq(Int) /\ 1 \notin DOMAIN input.lists[a]
      <3>1. 0 + 1 = 1
        OBVIOUS
      <3>. QED BY <2>1, <2>4, <3>1, ListFacts
    <2>6. \A s \in Seq(Int) : 1 \notin DOMAIN s => s = <<>>
      <3> SUFFICES ASSUME NEW s \in Seq(Int), 1 \notin DOMAIN s PROVE s = <<>>
        OBVIOUS
      <3>1. Len(s) \in Nat /\ DOMAIN s = 1 .. Len(s)
        OBVIOUS
      <3>2. Len(s) = 0
        BY <3>1
      <3>. QED BY <3>2, EmptySeq
    <2>7. ListAt(f, t) = <<>>
      BY <2>2, <2>5, <2>6
    <2>8. TargetsOf(<<>>) = {}
      BY Zenon DEF TargetsOf
    <2>. QED BY <2>3, <2>7, <2>8, Zenon
  <1>. QED BY <1>2, <1>3

\* A try item without a list of handlers, or with one that cannot be read, is passed.
LEMMA PassTryKeepsHandlers ==
  ASSUME HandlersInv, IsReader(reader'), PassTry
  PROVE  HandlersInv'
  <1>1. /\ pc = "tries" /\ pc' = "tries" /\ emit.i < emit.n /\ TryItem # Eof /\ input' = input
        /\ TryItem.handler_off = 0 \/ Leb(ListOf(TryItem), 1) = Eof
    BY DEF PassTry
  <1>2. emit' = Passed(emit)
    BY Zenon DEF PassTry, NextTry, Passed
  <1>3. out' = out \/ \E y : out' = WithComment(out, y)
    BY Zenon DEF PassTry, WithComment
  <1>4. IsOut(out') /\ out'.functions = out.functions /\ out'.edges = out.edges
    BY <1>3, WithCommentFacts DEF HandlersInv
  <1>5. EdgesOf(emit.insns, emit.i) = {}
    BY <1>1, NoEntryEdges
  <1>. QED BY <1>1, <1>2, <1>4, <1>5, EntryIsPassed

\* The reader goes ahead in a table.
LEMMA AheadFrom ==
  ASSUME NEW r, IsReader(r), NEW t, NEW a, NEW p, r.pos = <<t, a, p>>, NEW n
  PROVE  Ahead(r, n).pos = <<t, a, p + n>>
  <1> DEFINE s == r.stack
             q == <<t, a, p + n>>
             v == [pos |-> <<t, a, p>>, stack |-> s]
  <1>1. r = v
    BY DEF IsReader
  <1> HIDE DEF s
  <1>2. Ahead(r, n) = [v EXCEPT !.pos[3] = @ + n]
    BY <1>1, Zenon DEF Ahead
  <1>3. v.pos = <<t, a, p>> /\ v.pos[3] = p
    OBVIOUS
  <1>4. [v.pos EXCEPT ![3] = @ + n] = q
    BY <1>3
  <1>5. [v EXCEPT !.pos[3] = @ + n] = [v EXCEPT !.pos = [v.pos EXCEPT ![3] = @ + n]]
    BY Zenon
  <1>6. [v EXCEPT !.pos[3] = @ + n] = [v EXCEPT !.pos = q]
    BY <1>4, <1>5, Zenon
  <1> HIDE DEF q
  <1>7. [v EXCEPT !.pos = q].pos = q
    OBVIOUS
  <1>. QED BY <1>2, <1>6, <1>7 DEF q

\* The reader goes ahead in a list.
LEMMA AheadInList ==
  ASSUME NEW r, IsReader(r), NEW a, NEW p, r.pos = <<"list", a, p>>, NEW n
  PROVE  Ahead(r, n).pos = <<"list", a, p + n>>
  <1> DEFINE t == "list"
  <1>1. r.pos = <<t, a, p>>
    OBVIOUS
  <1> HIDE DEF t
  <1>2. Ahead(r, n).pos = <<t, a, p + n>>
    BY <1>1, AheadFrom
  <1>. QED BY <1>2 DEF t

\* A list is opened: its size is read.
LEMMA OpenTryKeepsHandlers ==
  ASSUME HandlersInv, IsReader(reader'), OpenTry
  PROVE  HandlersInv'
  <1> DEFINE t == TryItem
             r == ListOf(t)
             a == ListAddress
             l == input.lists[a]
             size == Leb(r, 1)
             f == emit.insns
  <1>1. /\ pc = "tries" /\ pc' = "handlers" /\ emit.i < emit.n /\ t # Eof /\ input' = input
        /\ t.handler_off # 0 /\ size # Eof /\ reader' = Ahead(r, 1) /\ input \in Inputs
    BY DEF OpenTry, HandlersInv
  <1>2. emit' = Listed(emit, TryStart, Magnitude(size), size <= 0)
    BY Zenon DEF OpenTry, Listed
  <1>3. \E y : out' = WithComment(out, y)
    BY Zenon DEF OpenTry, WithComment
  <1>4. IsOut(out') /\ out'.functions = out.functions /\ out'.edges = out.edges
    BY <1>3, WithCommentFacts DEF HandlersInv
  <1>5. IsReader(r) /\ r.pos = <<"list", a, 0>>
    <2>1. IsReader(Saved(reader))
      BY ReaderMoves DEF HandlersInv
    <2>. QED BY <2>1, ReaderMoves DEF ListOf, ListAddress
  <1>6. t = TryAt(f, emit.i) /\ f \in out.functions /\ IsGuarded(f)
    BY <1>1, AtHand
  <1>7. a = TableOf(f) + emit.n * TrySize + t.handler_off
    BY <1>1 DEF ListAddress, HandlersInv, AtTable
  <1>8. TryStart = f + 2 * t.start_addr
    BY DEF TryStart
  <1> HIDE DEF r, a, t, f
  <1>9. reader'.pos = <<"list", a, 1>>
    <2>1. 0 + 1 = 1
      OBVIOUS
    <2>. QED BY <1>1, <1>5, <2>1, AheadInList
  <1>10. a \in DOMAIN input.lists /\ 1 \in DOMAIN l /\ size = l[1] /\ l[1] \in Int
    <2>1. 0 + 1 = 1
      OBVIOUS
    <2>2. a \in DOMAIN input.lists /\ 1 \in DOMAIN l /\ size = l[1] /\ l \in Seq(Int)
      BY <1>1, <1>5, <2>1, ListFacts
    <2>. QED BY <2>2
  <1> HIDE DEF size, l
  <1>11. /\ IsEmit(emit') /\ emit'.insns = f /\ emit'.tries = emit.tries
         /\ emit'.n = emit.n /\ emit'.i = emit.i
         /\ emit'.start = TryStart /\ emit'.typed = Magnitude(size) /\ emit'.all = (size <= 0)
    BY <1>2, EmitFacts DEF HandlersInv, f
  <1>12. FunctionsHaveCode' /\ EdgesAreDue' /\ EntriesHaveEdges'
    <2>1. \A g, i : IsOpen(g, i) => IsOpen(g, i)'
      BY <1>1, <1>11 DEF IsOpen, f
    <2>. QED BY <1>1, <1>4, <2>1, EdgesGrow
  <1>13. AtTable'
    <2>1. /\ IsGuarded(emit.insns)' /\ TableOf(emit.insns)' = TableOf(f)
          /\ \A j : TryAt(emit.insns, j)' = TryAt(f, j)
      BY <1>1, <1>6, <1>11, SameTables
    <2>. QED BY <1>1, <1>4, <1>6, <1>11, <2>1 DEF HandlersInv, AtTable, f
  <1>14. InList'
    <2>1. TryAt(emit.insns, emit.i)' = t /\ TableOf(emit.insns)' = TableOf(f)
      BY <1>1, <1>6, <1>11, SameTables
    <2> DEFINE m == Magnitude(l[1])
    <2>2. m \in Nat /\ emit'.typed = m /\ m - m = 0 /\ 1 + 2 * 0 = 1 /\ 1 .. 0 = {}
      BY <1>10, <1>11 DEF Magnitude
    <2> HIDE DEF m
    <2>3. /\ emit'.i < emit'.n /\ t # Eof /\ t.handler_off # 0
          /\ a = TableOf(f) + emit'.n * TrySize + t.handler_off
          /\ emit'.start = emit'.insns + 2 * t.start_addr
          /\ emit'.all = (l[1] <= 0)
      BY <1>1, <1>7, <1>8, <1>10, <1>11
    <2>4. emit'.typed \in Nat /\ emit'.typed <= m
      BY <2>2
    <2>5. m - emit'.typed = 0
      BY <2>2
    <2>6. reader'.pos = <<"list", a, 1 + 2 * (m - emit'.typed)>>
      BY <1>9, <2>2, <2>5
    <2>7. \A k \in 1 .. m - emit'.typed : FALSE
      BY <2>2, <2>5
    <2>8. l = input'.lists[a] /\ a \in DOMAIN input'.lists /\ 1 \in DOMAIN l
      BY <1>1, <1>10 DEF l
    <2>9. m = Magnitude(l[1])
      BY DEF m
    <2>. QED BY <2>1, <2>3, <2>4, <2>6, <2>7, <2>8, <2>9 DEF InList
  <1>. QED BY <1>1, <1>4, <1>11, <1>12, <1>13, <1>14 DEF HandlersInv

\* What is known of the list at hand.
LEMMA InListFacts ==
  ASSUME HandlersInv, pc = "handlers"
  PROVE  LET a == ListAddress
             l == input.lists[a]
             m == Magnitude(l[1])
             p == 1 + 2 * (m - emit.typed)
         IN  /\ emit.i < emit.n /\ TryItem # Eof /\ TryItem.handler_off # 0
             /\ a \in DOMAIN input.lists /\ l \in Seq(Int) /\ 1 \in DOMAIN l /\ l[1] \in Int
             /\ m \in Nat /\ emit.typed \in Nat /\ emit.typed <= m
             /\ emit.start = TryStart /\ emit.all = (l[1] <= 0)
             /\ reader.pos = <<"list", a, p>>
             /\ \A k \in 1 .. m - emit.typed :
                  2 * k + 1 \in DOMAIN l /\ <<TryStart, HandlerAt(l[2 * k + 1])>> \in out.edges
             /\ \A n \in Nat : Leb(reader, n) # Eof <=> p + n \in DOMAIN l
             /\ \A n \in Nat : Leb(reader, n) # Eof => Leb(reader, n) = l[p + n]
  <1> DEFINE a == ListAddress
             l == input.lists[a]
             m == Magnitude(l[1])
             p == 1 + 2 * (m - emit.typed)
  <1>1. TryItem = TryAt(emit.insns, emit.i) /\ input \in Inputs
    BY AtHand DEF HandlersInv
  <1>2. a = TableOf(emit.insns) + emit.n * TrySize + TryItem.handler_off
    BY DEF HandlersInv, AtTable, ListAddress
  <1>3. InList
    BY DEF HandlersInv
  <1>4. TryStart = emit.insns + 2 * TryItem.start_addr
    BY DEF TryStart
  <1> HIDE DEF a
  <1>5. /\ emit.i < emit.n /\ TryItem # Eof /\ TryItem.handler_off # 0
        /\ a \in DOMAIN input.lists /\ 1 \in DOMAIN l
        /\ emit.typed \in Nat /\ emit.typed <= m
        /\ emit.start = TryStart /\ emit.all = (l[1] <= 0)
        /\ reader.pos = <<"list", a, p>>
        /\ \A k \in 1 .. m - emit.typed :
             2 * k + 1 \in DOMAIN l /\ <<emit.start, HandlerAt(l[2 * k + 1])>> \in out.edges
    BY <1>1, <1>2, <1>3, <1>4, Zenon DEF InList
  <1>6. l \in Seq(Int)
    BY <1>1, <1>5, InputsAssumption
  <1>7. l[1] \in Int
    BY <1>5, <1>6
  <1>8. m \in Nat
    BY <1>7 DEF Magnitude
  <1> HIDE DEF l, m
  <1>9. p \in Int
    BY <1>5, <1>8
  <1> HIDE DEF p
  <1>10. ASSUME NEW n \in Nat
         PROVE  /\ Leb(reader, n) # Eof <=> p + n \in DOMAIN l
                /\ Leb(reader, n) # Eof => Leb(reader, n) = l[p + n]
    BY <1>1, <1>5, <1>9, ListFacts DEF l
  <1>. QED BY <1>5, <1>6, <1>7, <1>8, <1>10 DEF a, l, m, p

\* A pair is read: its handler has an edge.
LEMMA EmitHandlerKeepsHandlers ==
  ASSUME HandlersInv, IsReader(reader'), EmitHandler
  PROVE  HandlersInv'
  <1> DEFINE a == ListAddress
             l == input.lists[a]
             m == Magnitude(l[1])
             f == emit.insns
             t == TryItem
             j == m - emit.typed + 1
             edge == <<TryStart, HandlerAt(l[2 * j + 1])>>
  <1>1. /\ pc = "handlers" /\ pc' = "handlers" /\ input' = input /\ emit.typed > 0
        /\ ~Truncated(2) /\ input \in Inputs /\ IsReader(reader)
    BY DEF EmitHandler, HandlersInv
  <1>2. /\ emit.i < emit.n /\ t # Eof /\ t.handler_off # 0
        /\ a \in DOMAIN input.lists /\ l \in Seq(Int) /\ 1 \in DOMAIN l
        /\ m \in Nat /\ emit.typed \in Nat /\ emit.typed <= m
        /\ emit.start = TryStart /\ emit.all = (l[1] <= 0)
        /\ reader.pos = <<"list", a, 1 + 2 * (m - emit.typed)>>
        /\ \A k \in 1 .. m - emit.typed :
             2 * k + 1 \in DOMAIN l /\ <<TryStart, HandlerAt(l[2 * k + 1])>> \in out.edges
    BY <1>1, InListFacts
  <1>3. Leb(reader, 2) # Eof
    BY <1>1 DEF Truncated
  <1>4. 1 + 2 * (m - emit.typed) + 2 \in DOMAIN l /\ Leb(reader, 2) = l[1 + 2 * (m - emit.typed) + 2]
    BY <1>1, <1>3, InListFacts
  <1>5. emit' = Paired(emit)
    BY Zenon DEF EmitHandler, Paired
  <1>6. \E y : out' = WithEdge(out, out.edges \cup {<<emit.start, HandlerAt(Leb(reader, 2))>>}, y)
    BY Zenon DEF EmitHandler, WithEdge
  <1>7. reader' = Ahead(reader, 2)
    <2>1. \E pos : reader' = Elsewhere(Ahead(reader, 2), pos)
      BY Zenon DEF EmitHandler
    <2>2. IsReader(Ahead(reader, 2))
      BY <1>1, ReaderMoves
    <2>. QED BY <2>1, <2>2, ElsewhereAndBack
  <1>8. /\ t = TryAt(f, emit.i) /\ f \in out.functions /\ IsGuarded(f)
        /\ emit.i \in TriesIn(f)
    BY <1>1, <1>2, AtHand
  <1>9. a = TableOf(f) + emit.n * TrySize + t.handler_off /\ TryStart = f + 2 * t.start_addr
    BY <1>1 DEF ListAddress, TryStart, HandlersInv, AtTable
  <1>10. \A e : (\E k \in 1 .. m : 2 * k + 1 \in DOMAIN l /\ e = <<TryStart, HandlerAt(l[2 * k + 1])>>)
                  => e \in EdgesOf(f, emit.i)
    BY <1>1, <1>2, EntryEdges
  <1> HIDE DEF a, t, f, m
  <1>11. j \in 1 .. m /\ 2 * j + 1 = 1 + 2 * (m - emit.typed) + 2
    <2> DEFINE v == emit.typed
    <2>1. m \in Nat /\ v \in Nat /\ v <= m /\ v > 0 /\ j = m - v + 1
      BY <1>1, <1>2
    <2> HIDE DEF v, j
    <2>2. j \in 1 .. m /\ 2 * j + 1 = 1 + 2 * (m - v) + 2
      BY <2>1
    <2>. QED BY <2>2 DEF v
  <1>12. reader'.pos = <<"list", a, 1 + 2 * (m - (emit.typed - 1))>>
    <2> DEFINE p == 1 + 2 * (m - emit.typed)
    <2>1. reader.pos = <<"list", a, p>>
      BY <1>2
    <2>2. 1 + 2 * (m - (emit.typed - 1)) = p + 2
      BY <1>2
    <2> HIDE DEF p
    <2>3. reader'.pos = <<"list", a, p + 2>>
      BY <1>1, <1>7, <2>1, AheadInList
    <2>. QED BY <2>2, <2>3
  <1>13. 2 * j + 1 \in DOMAIN l /\ Leb(reader, 2) = l[2 * j + 1]
    BY <1>4, <1>11
  <1>14. IsOut(out') /\ out'.functions = out.functions /\ out'.edges = out.edges \cup {edge}
    <2>1. <<emit.start, HandlerAt(Leb(reader, 2))>> = edge
      BY <1>2, <1>13
    <2>. QED BY <1>6, <2>1, WithEdgeFacts DEF HandlersInv
  <1>15. edge \in EdgesOf(f, emit.i)
    BY <1>10, <1>11, <1>13
  <1>16. /\ IsEmit(emit') /\ emit'.insns = f /\ emit'.tries = emit.tries
         /\ emit'.n = emit.n /\ emit'.i = emit.i
         /\ emit'.start = TryStart /\ emit'.typed = emit.typed - 1 /\ emit'.all = emit.all
    BY <1>2, <1>5, EmitFacts DEF HandlersInv, f
  <1>17. \A k \in 1 .. m - (emit.typed - 1) :
           2 * k + 1 \in DOMAIN l /\ <<TryStart, HandlerAt(l[2 * k + 1])>> \in out'.edges
    <2> SUFFICES ASSUME NEW k \in 1 .. m - (emit.typed - 1)
                 PROVE  2 * k + 1 \in DOMAIN l /\ <<TryStart, HandlerAt(l[2 * k + 1])>> \in out'.edges
      OBVIOUS
    <2>1. k = j \/ k \in 1 .. m - emit.typed
      <3> DEFINE v == emit.typed
      <3>1. m \in Nat /\ v \in Nat /\ v <= m /\ j = m - v + 1 /\ k \in 1 .. m - (v - 1)
        BY <1>2
      <3> HIDE DEF v, j
      <3>2. k = j \/ k \in 1 .. m - v
        BY <3>1
      <3>. QED BY <3>2 DEF v
    <2>2. CASE k = j
      BY <1>13, <1>14, <2>2
    <2>3. CASE k \in 1 .. m - emit.typed
      BY <1>2, <1>14, <2>3
    <2>. QED BY <2>1, <2>2, <2>3
  <1> HIDE DEF edge, j
  <1>18. FunctionsHaveCode' /\ EdgesAreDue' /\ EntriesHaveEdges'
    <2>1. \A g, i : IsOpen(g, i) => IsOpen(g, i)'
      BY <1>1, <1>16 DEF IsOpen, f
    <2>2. \A e \in out'.edges : e \in out.edges \/
            \E g \in out.functions : IsGuarded(g) /\ \E i \in TriesIn(g) : e \in EdgesOf(g, i)
      BY <1>8, <1>14, <1>15
    <2>3. out.edges \subseteq out'.edges
      BY <1>14
    <2>. QED BY <1>1, <1>14, <2>1, <2>2, <2>3, EdgesGrow
  <1>19. AtTable'
    <2>1. /\ IsGuarded(emit.insns)' /\ TableOf(emit.insns)' = TableOf(f)
          /\ \A i : TryAt(emit.insns, i)' = TryAt(f, i)
      BY <1>1, <1>8, <1>16, SameTables
    <2>. QED BY <1>1, <1>8, <1>14, <1>16, <2>1 DEF HandlersInv, AtTable, f
  <1>20. InList'
    <2>1. TryAt(emit.insns, emit.i)' = t /\ TableOf(emit.insns)' = TableOf(f)
      BY <1>1, <1>8, <1>16, SameTables
    <2>2. /\ emit'.i < emit'.n /\ t # Eof /\ t.handler_off # 0
          /\ a = TableOf(f) + emit'.n * TrySize + t.handler_off
          /\ emit'.start = emit'.insns + 2 * t.start_addr
          /\ emit'.all = (l[1] <= 0)
      BY <1>2, <1>9, <1>16
    <2>3. emit'.typed \in Nat /\ emit'.typed <= m
      BY <1>1, <1>2, <1>16
    <2>4. /\ reader'.pos = <<"list", a, 1 + 2 * (m - emit'.typed)>>
          /\ \A k \in 1 .. m - emit'.typed :
               2 * k + 1 \in DOMAIN l /\ <<emit'.start, emit'.insns + 2 * l[2 * k + 1]>> \in out'.edges
      BY <1>12, <1>16, <1>17 DEF HandlerAt, f
    <2>5. l = input'.lists[a] /\ a \in DOMAIN input'.lists /\ 1 \in DOMAIN l
      BY <1>1, <1>2
    <2> HIDE DEF l
    <2>6. m = Magnitude(l[1])
      BY DEF m, l
    <2>. QED BY <2>1, <2>2, <2>3, <2>4, <2>5, <2>6 DEF InList, HandlerAt
  <1>. QED BY <1>1, <1>14, <1>16, <1>18, <1>19, <1>20 DEF HandlersInv

\* The list ends before its size says: what is left of it cannot be read.
LEMMA HandlersTruncatedKeepsHandlers ==
  ASSUME HandlersInv, IsReader(reader'), HandlersTruncated
  PROVE  HandlersInv'
  <1> DEFINE l == input.lists[ListAddress]
             m == Magnitude(l[1])
             v == emit.typed
             p == 1 + 2 * (m - v)
             f == emit.insns
  <1>1. /\ pc = "handlers" /\ pc' = "tries" /\ input' = input /\ out' = out
        /\ \/ v > 0 /\ Truncated(2)
           \/ v = 0 /\ emit.all /\ Truncated(1)
    BY DEF HandlersTruncated, CloseList
  <1>2. emit' = Passed(emit)
    BY Zenon DEF HandlersTruncated, CloseList, NextTry, Passed
  <1>3. /\ emit.i < emit.n /\ TryItem # Eof /\ TryItem.handler_off # 0
        /\ ListAddress \in DOMAIN input.lists /\ l \in Seq(Int) /\ 1 \in DOMAIN l
        /\ m \in Nat /\ v \in Nat /\ v <= m /\ emit.all = (l[1] <= 0)
        /\ \A k \in 1 .. m - v :
             2 * k + 1 \in DOMAIN l /\ <<TryStart, HandlerAt(l[2 * k + 1])>> \in out.edges
    BY <1>1, InListFacts
  <1>4. \A n \in Nat : Leb(reader, n) # Eof <=> p + n \in DOMAIN l
    BY <1>1, InListFacts
  <1>5. ASSUME NEW e \in EdgesOf(f, emit.i) PROVE e \in out.edges
    <2>1. \/ \E k \in 1 .. m : 2 * k + 1 \in DOMAIN l /\ e = <<TryStart, HandlerAt(l[2 * k + 1])>>
          \/ l[1] <= 0 /\ 2 * m + 2 \in DOMAIN l /\ e = <<TryStart, HandlerAt(l[2 * m + 2])>>
      BY <1>1, <1>3, <1>5, EntryEdges
    <2>2. \E n \in Nat : Len(l) = n /\ DOMAIN l = 1 .. n
      BY <1>3
    <2>3. \E n \in {1, 2} : p + n \notin DOMAIN l /\ (n = 2 => v > 0)
      <3>1. CASE v > 0 /\ Truncated(2)
        <4>1. PICK n \in 1 .. 2 : Leb(reader, n) = Eof
          BY <3>1 DEF Truncated
        <4>2. n \in {1, 2} /\ n \in Nat
          OBVIOUS
        <4>. QED BY <1>4, <3>1, <4>1, <4>2
      <3>2. CASE v = 0 /\ Truncated(1)
        <4>1. PICK n \in 1 .. 1 : Leb(reader, n) = Eof
          BY <3>2 DEF Truncated
        <4>2. n = 1
          OBVIOUS
        <4>. QED BY <1>4, <4>1, <4>2
      <3>. QED BY <1>1, <3>1, <3>2
    <2> HIDE DEF l, m, v
    <2>4. PICK n \in Nat : DOMAIN l = 1 .. n
      BY <2>2
    <2>5. p >= 1 /\ p \in Int
      BY <1>3
    <2>6. \A k \in 1 .. m : 2 * k + 1 <= n => k \in 1 .. m - v
      <3> SUFFICES ASSUME NEW k \in 1 .. m, 2 * k + 1 <= n, k > m - v PROVE FALSE
        BY <1>3
      <3>1. v > 0 /\ p + 2 <= 2 * k + 1
        BY <1>3
      <3>2. p + 1 \in 1 .. n /\ p + 2 \in 1 .. n
        BY <2>4, <2>5, <3>1
      <3>. QED BY <2>3, <2>4, <3>2
    <2>7. ~(2 * m + 2 <= n)
      <3> SUFFICES ASSUME 2 * m + 2 <= n PROVE FALSE
        OBVIOUS
      <3>1. p + 1 <= 2 * m + 2 /\ (v > 0 => p + 2 <= 2 * m + 2)
        BY <1>3
      <3>2. p + 1 \in 1 .. n /\ (v > 0 => p + 2 \in 1 .. n)
        BY <1>3, <2>4, <2>5, <3>1
      <3>. QED BY <2>3, <2>4, <3>2
    <2>8. 2 * m + 2 \notin DOMAIN l
      BY <2>4, <2>7
    <2>9. PICK k \in 1 .. m : 2 * k + 1 \in DOMAIN l /\ e = <<TryStart, HandlerAt(l[2 * k + 1])>>
      BY <2>1, <2>8
    <2>10. k \in 1 .. m - v
      BY <2>4, <2>6, <2>9
    <2>. QED BY <1>3, <2>9, <2>10
  <1> HIDE DEF l, m, v
  <1>6. IsOut(out')
    BY <1>1 DEF HandlersInv
  <1>. QED BY <1>1, <1>2, <1>3, <1>5, <1>6, EntryIsPassed

\* The list is read to its end.
LEMMA HandlersDoneKeepsHandlers ==
  ASSUME HandlersInv, IsReader(reader'), HandlersDone
  PROVE  HandlersInv'
  <1> DEFINE l == input.lists[ListAddress]
             m == Magnitude(l[1])
             f == emit.insns
             last == <<TryStart, HandlerAt(l[2 * m + 2])>>
  <1>1. /\ pc = "handlers" /\ pc' = "tries" /\ input' = input /\ emit.typed = 0
        /\ ~(emit.all /\ Truncated(1))
    BY DEF HandlersDone, CloseList
  <1>2. emit' = Passed(emit)
    BY Zenon DEF HandlersDone, CloseList, NextTry, Passed
  <1>3. /\ emit.i < emit.n /\ TryItem # Eof /\ TryItem.handler_off # 0
        /\ ListAddress \in DOMAIN input.lists /\ 1 \in DOMAIN l
        /\ m \in Nat /\ m - emit.typed = m /\ emit.all = (l[1] <= 0) /\ emit.start = TryStart
        /\ \A k \in 1 .. m - emit.typed :
             2 * k + 1 \in DOMAIN l /\ <<TryStart, HandlerAt(l[2 * k + 1])>> \in out.edges
    BY <1>1, InListFacts
  <1>4. emit.all => 2 * m + 2 \in DOMAIN l /\ Leb(reader, 1) = l[2 * m + 2]
    <2> SUFFICES ASSUME emit.all
                 PROVE  2 * m + 2 \in DOMAIN l /\ Leb(reader, 1) = l[2 * m + 2]
      OBVIOUS
    <2>1. Leb(reader, 1) # Eof
      BY <1>1 DEF Truncated
    <2>2. /\ 1 + 2 * (m - emit.typed) + 1 \in DOMAIN l
          /\ Leb(reader, 1) = l[1 + 2 * (m - emit.typed) + 1]
      BY <1>1, <2>1, InListFacts
    <2> HIDE DEF l, m
    <2>3. 1 + 2 * (m - emit.typed) + 1 = 2 * m + 2
      BY <1>3
    <2>. QED BY <2>2, <2>3
  <1>5. \A e : e \in EdgesOf(f, emit.i) <=>
          \/ \E k \in 1 .. m : 2 * k + 1 \in DOMAIN l /\ e = <<TryStart, HandlerAt(l[2 * k + 1])>>
          \/ l[1] <= 0 /\ 2 * m + 2 \in DOMAIN l /\ e = <<TryStart, HandlerAt(l[2 * m + 2])>>
    BY <1>1, <1>3, EntryEdges
  <1>6. IF emit.all
          THEN \E y : out' = WithEdge(out, out.edges \cup {<<emit.start, HandlerAt(Leb(reader, 1))>>}, y)
          ELSE out' = out
    BY Zenon DEF HandlersDone, WithEdge
  <1> HIDE DEF l, m
  <1>7. /\ IsOut(out') /\ out'.functions = out.functions
        /\ out'.edges = IF emit.all THEN out.edges \cup {last} ELSE out.edges
    <2>1. emit.all => <<emit.start, HandlerAt(Leb(reader, 1))>> = last
      BY <1>3, <1>4
    <2> HIDE DEF last
    <2>2. IsOut(out)
      BY DEF HandlersInv
    <2>3. CASE emit.all
      BY <1>6, <2>1, <2>2, <2>3, WithEdgeFacts
    <2>4. CASE ~emit.all
      BY <1>6, <2>2, <2>4
    <2>. QED BY <2>3, <2>4
  <1>8. ASSUME NEW e \in EdgesOf(f, emit.i) PROVE e \in out'.edges
    <2>1. CASE \E k \in 1 .. m : 2 * k + 1 \in DOMAIN l /\ e = <<TryStart, HandlerAt(l[2 * k + 1])>>
      BY <1>3, <1>7, <2>1
    <2>2. CASE l[1] <= 0 /\ e = last
      BY <1>3, <1>7, <2>2
    <2>. QED BY <1>5, <2>1, <2>2
  <1>9. \A e \in out'.edges : e \in out.edges \/ e \in EdgesOf(f, emit.i)
    BY <1>3, <1>4, <1>5, <1>7
  <1>10. out.edges \subseteq out'.edges
    BY <1>7
  <1> HIDE DEF last
  <1>. QED BY <1>1, <1>2, <1>3, <1>7, <1>8, <1>9, <1>10, EntryIsPassed

\* The invariant of the edges is one.
THEOREM HandlersInvariant == Spec => []HandlersInv
  <1>1. Init => HandlersInv
    BY HandlersBegin
  <1>2. HandlersInv /\ [Next]_vars => HandlersInv'
    <2> SUFFICES ASSUME HandlersInv, [Next]_vars PROVE HandlersInv'
      OBVIOUS
    <2>1. IsReader(reader')
      BY ReaderStays DEF HandlersInv
    <2>2. CASE EmitFunction
      BY <2>1, <2>2, EmitFunctionKeepsHandlers
    <2>3. CASE TriesDone
      BY <2>1, <2>3, TriesDoneKeepsHandlers
    <2>4. CASE PassTry
      BY <2>1, <2>4, PassTryKeepsHandlers
    <2>5. CASE OpenTry
      BY <2>1, <2>5, OpenTryKeepsHandlers
    <2>6. CASE EmitHandler
      BY <2>1, <2>6, EmitHandlerKeepsHandlers
    <2>7. CASE HandlersTruncated
      BY <2>1, <2>7, HandlersTruncatedKeepsHandlers
    <2>8. CASE HandlersDone
      BY <2>1, <2>8, HandlersDoneKeepsHandlers
    <2>9. CASE \/ PassClass \/ OpenClass \/ SkipField \/ FieldsTruncated \/ NextList \/ ListsDone
               \/ BadMethod \/ RejectCode \/ EmitExternal \/ ClassesDone \/ NameEntry \/ NextKind
      BY <2>1, <2>9, OtherStepsKeepHandlers
    <2>10. CASE UNCHANGED vars
      <3>1. /\ input' = input /\ emit' = emit /\ out' = out /\ pc' = pc /\ reader' = reader
        BY <2>10 DEF vars
      <3>2. FunctionsHaveCode' /\ EdgesAreDue' /\ EntriesHaveEdges'
        <4>1. \A g, i : IsOpen(g, i) => IsOpen(g, i)'
          BY <3>1 DEF IsOpen
        <4>. QED BY <3>1, <4>1, EdgesGrow
      <3>3. AtTable => AtTable'
        <4>1. AtTable' = AtTable
          BY <3>1, Zenon DEF AtTable, IsGuarded, TableOf, TryAt
        <4>. QED BY <4>1
      <3>4. InList => InList'
        <4>1. /\ TryAt(emit.insns, emit.i)' = TryAt(emit.insns, emit.i)
              /\ TableOf(emit.insns)' = TableOf(emit.insns)
          BY <3>1, SameTables
        <4>2. input' = input /\ emit' = emit /\ out' = out /\ reader' = reader
          BY <3>1
        <4>. QED BY <4>1, <4>2 DEF InList, HandlerAt
      <3>. QED BY <3>1, <3>2, <3>3, <3>4 DEF HandlersInv
    <2>. QED BY <2>2, <2>3, <2>4, <2>5, <2>6, <2>7, <2>8, <2>9, <2>10, Zenon
         DEF Next, Work, Terminating
  <1>. QED BY <1>1, <1>2, PTL DEF Spec

\* In the end each handler of each protected range has an edge from the start of the
\* range, and there are no other edges.
THEOREM HandlersHaveEdges == Spec => []HandlersAreReached
  <1>1. HandlersInv => HandlersAreReached
    <2> SUFFICES ASSUME HandlersInv, Done PROVE HandlersAreReached
      BY DEF HandlersAreReached
    <2> DEFINE due == UNION {UNION {EdgesOf(f, i) : i \in TriesIn(f)} :
                               f \in {x \in out.functions : IsGuarded(x)}}
    <2>1. \A f, i : ~IsOpen(f, i)
      BY DEF IsOpen, Done
    <2>2. due \subseteq out.edges
      BY <2>1 DEF HandlersInv, EntriesHaveEdges
    <2>3. out.edges \subseteq due
      BY DEF HandlersInv, EdgesAreDue
    <2>4. out.edges = due
      BY <2>2, <2>3
    <2>. QED BY <2>4, Zenon DEF HandlersAreReached, EdgesOf, IsGuarded
  <1>. QED BY <1>1, HandlersInvariant, PTL
-------------------------------------------------------------------------------
(* The methods of a class                                                  *)

\* A set of numbers that is not empty has a least one.
LEMMA LeastNumber ==
  ASSUME NEW T \in SUBSET Nat, T # {}
  PROVE  \E x \in T : \A y \in T : x <= y
  <1> DEFINE Less == {ss \in Nat \X Nat : ss[1] < ss[2]}
  <1>1. IsWellFoundedOn(Less, Nat)
    <2>1. Less = OpToRel(<, Nat)
      BY DEF Less, OpToRel
    <2>. QED BY <2>1, NatLessThanWellFounded
  <1> HIDE DEF Less
  <1>2. PICK x \in T : \A y \in T : ~(<<y, x>> \in Less)
    BY <1>1, WFMin, Zenon
  <1>3. ASSUME NEW y \in T
        PROVE  x <= y
    <2>1. x \in Nat /\ y \in Nat
      BY <1>2
    <2>2. y < x => <<y, x>> \in Less
      BY <2>1 DEF Less
    <2>. QED BY <1>2, <2>1, <2>2
  <1>. QED BY <1>3

\* A multiple of what a number is divided by does not change the remainder.
LEMMA RemainderAdds ==
  ASSUME NEW a \in Nat, NEW d \in Nat, NEW u \in Nat \ {0}
  PROVE  ((a % u) + d) % u = (a + d) % u
  <1> DEFINE q == a \div u
             r == a % u
             s == (r + d) \div u
             t == (r + d) % u
             w == (a + d) \div u
             v == (a + d) % u
  <1>1. q \in Int /\ r \in Nat /\ a = u * q + r
    OBVIOUS
  <1>2. s \in Int /\ t \in Nat /\ t < u /\ r + d = u * s + t
    BY <1>1
  <1>3. w \in Int /\ v \in Nat /\ v < u /\ a + d = u * w + v
    OBVIOUS
  <1> HIDE DEF q, r, s, t, w, v
  <1> DEFINE e == q + s - w
  <1>4. u * e = v - t /\ e \in Int
    BY <1>1, <1>2, <1>3
  <1>5. \A x \in Int : x >= 1 => u * x >= u
    OBVIOUS
  <1>6. \A x \in Int : u * (-x) = -(u * x)
    OBVIOUS
  <1> HIDE DEF e
  <1>7. ~(e >= 1)
    BY <1>2, <1>3, <1>4, <1>5
  <1>8. ~(e <= -1)
    <2>1. e <= -1 => u * (-e) >= u
      BY <1>4, <1>5
    <2>. QED BY <1>2, <1>3, <1>4, <1>6, <2>1
  <1>9. e = 0
    BY <1>4, <1>7, <1>8
  <1>10. v = t
    BY <1>2, <1>3, <1>4, <1>9
  <1>. QED BY <1>10 DEF v, t, r

\* How many methods a class has, and where the code of one is.
NumMethods(c) == LebOf(c, 3) + LebOf(c, 4)

CodeAt(c, k) == LebOf(c, MethodAt(c, k) + 3)

\* The difference in one record, and the sum of those up to it in its list.
Difference(c, k) == LebOf(c, MethodAt(c, k) + 1)

Begins(c, k) == k = ListStart(c, k)

SumAt(c, k) == SumsOf(c)[k]

\* The sums exist, and each is the one before it and one difference.
LEMMA SumsFacts ==
  ASSUME NEW c, LebOf(c, 3) \in Nat, LebOf(c, 4) \in Nat
  PROVE  \A k \in 1 .. NumMethods(c) :
           SumAt(c, k) = Difference(c, k) + (IF Begins(c, k) THEN 0 ELSE SumAt(c, k - 1))
  <1> DEFINE N == NumMethods(c)
             D(k) == Difference(c, k)
             B(k) == Begins(c, k)
             Def(e) == [k \in 1 .. N |-> D(k) + (IF B(k) THEN 0 ELSE e[k - 1])]
             Path(m) == \E f : /\ DOMAIN f = 1 .. m
                               /\ \A n \in 1 .. m : f[n] = D(n) + (IF B(n) THEN 0 ELSE f[n - 1])
             T == {m \in 0 .. N : ~Path(m)}
             sums == CHOOSE e : e = Def(e)
  <1>1. N \in Nat /\ B(1)
    BY DEF NumMethods, Begins, ListStart
  <1>2. SumsOf(c) = sums
    BY DEF SumsOf, NumMethods, Difference, Begins
  <1> HIDE DEF N, D, B
  <1>3. ASSUME T # {} PROVE FALSE
    <2>1. PICK m \in T : \A y \in T : m <= y
      <3>1. T \in SUBSET Nat
        BY <1>1
      <3> HIDE DEF T
      <3>. QED BY <1>3, <3>1, LeastNumber
    <2>2. m \in 0 .. N /\ ~Path(m)
      OBVIOUS
    <2>3. m # 0
      <3>1. Path(0)
        <4> DEFINE f == [n \in 1 .. 0 |-> 0]
        <4>1. DOMAIN f = 1 .. 0
          OBVIOUS
        <4>2. \A n \in 1 .. 0 : f[n] = D(n) + (IF B(n) THEN 0 ELSE f[n - 1])
          OBVIOUS
        <4> HIDE DEF f
        <4>. QED BY <4>1, <4>2
      <3>. QED BY <2>2, <3>1, Zenon
    <2>4. m - 1 \in 0 .. N /\ ~(m <= m - 1) /\ m \in 1 .. N
      BY <1>1, <2>2, <2>3
    <2>5. Path(m - 1)
      BY <2>1, <2>4
    <2>6. PICK f : /\ DOMAIN f = 1 .. m - 1
                   /\ \A n \in 1 .. m - 1 : f[n] = D(n) + (IF B(n) THEN 0 ELSE f[n - 1])
      BY <2>5
    <2> DEFINE last == D(m) + (IF B(m) THEN 0 ELSE f[m - 1])
               g == [n \in 1 .. m |-> IF n < m THEN f[n] ELSE last]
    <2>7. DOMAIN g = 1 .. m
      OBVIOUS
    <2>8. ASSUME NEW n \in 1 .. m
          PROVE  g[n] = D(n) + (IF B(n) THEN 0 ELSE g[n - 1])
      <3>1. n # 1 => g[n - 1] = f[n - 1]
        BY <2>4
      <3>2. CASE n < m
        <4>1. g[n] = f[n] /\ n \in 1 .. m - 1
          BY <3>2, <2>4
        <4> HIDE DEF g
        <4>. QED BY <4>1, <3>1, <2>6, <1>1
      <3>3. CASE ~(n < m)
        <4>1. g[n] = last /\ n = m
          BY <3>3
        <4> HIDE DEF g
        <4>. QED BY <4>1, <3>1, <1>1
      <3>. QED BY <3>2, <3>3
    <2> HIDE DEF g
    <2>9. Path(m)
      BY <2>7, <2>8
    <2>. QED BY <2>2, <2>9
  <1>4. PICK f : /\ DOMAIN f = 1 .. N
                 /\ \A n \in 1 .. N : f[n] = D(n) + (IF B(n) THEN 0 ELSE f[n - 1])
    <2>1. N \in 0 .. N /\ N \notin T
      BY <1>1, <1>3
    <2>2. Path(N)
      BY <2>1
    <2>. QED BY <2>2
  <1> HIDE DEF Path, T
  <1> DEFINE h == [n \in 1 .. N |-> f[n]]
  <1>5. h = Def(h)
    <2>1. ASSUME NEW n \in 1 .. N
          PROVE  h[n] = D(n) + (IF B(n) THEN 0 ELSE h[n - 1])
      <3>1. h[n] = f[n] /\ (n # 1 => h[n - 1] = f[n - 1])
        BY <1>1
      <3> HIDE DEF h
      <3>. QED BY <1>1, <1>4, <3>1
    <2> DEFINE d == Def(h)
    <2>2. DOMAIN d = 1 .. N /\ \A n \in 1 .. N : d[n] = h[n]
      <3> HIDE DEF h
      <3>. QED BY <2>1
    <2>3. d = [n \in 1 .. N |-> d[n]] /\ h = [n \in 1 .. N |-> h[n]]
      OBVIOUS
    <2> HIDE DEF d, h
    <2>. QED BY <2>2, <2>3, Zenon DEF d
  <1>6. sums = Def(sums)
    <2> HIDE DEF Def, h
    <2>. QED BY <1>5, Zenon
  <1> HIDE DEF sums
  <1>7. \A k \in 1 .. N : sums[k] = D(k) + (IF B(k) THEN 0 ELSE sums[k - 1])
    BY <1>6
  <1>. QED BY <1>2, <1>7, Zenon DEF SumAt, N, D, B

\* Where the data of a class begin.
DataOf(c) == input.classes[c].data

\* A class whose methods are declared, said without the reader.
Walked(c) ==
  /\ c \in DOMAIN input.classes
  /\ input.classes[c] # Eof
  /\ DataOf(c) # 0 /\ DataOf(c) < input.file_size
  /\ \A k \in 1 .. 4 : LebOf(c, k) # Eof
  /\ ~Implausible([k \in 1 .. 4 |-> LebOf(c, k)])

\* Numbers of class data are natural; where the reader stands in them it reads them.
LEMMA DataFacts ==
  ASSUME input \in Inputs, NEW c, NEW p \in Nat, NEW n \in Nat
  PROVE  /\ LebOf(c, n) # Eof => LebOf(c, n) \in Nat
         /\ \A r : r.pos = <<"data", DataOf(c), p>> => Leb(r, n) = LebOf(c, p + n)
  <1> DEFINE a == DataOf(c)
             start == <<"data", a, 0>>
  <1>1. start[2] = a /\ start[3] + n = n
    OBVIOUS
  <1>2. LebOf(c, n) = Delivers(input.data, start, n)
    BY DEF LebOf, DataOf
  <1> HIDE DEF start
  <1>3. LebOf(c, n) # Eof => LebOf(c, n) \in Nat
    <2>1. LebOf(c, n) # Eof => a \in DOMAIN input.data /\ n \in DOMAIN input.data[a]
                               /\ LebOf(c, n) = input.data[a][n]
      BY <1>1, <1>2 DEF Delivers
    <2>2. \A x \in DOMAIN input.data : input.data[x] \in Seq(Nat)
      BY InputsAssumption
    <2> HIDE DEF a
    <2>. QED BY <2>1, <2>2
  <1>4. ASSUME NEW r, r.pos = <<"data", a, p>>
        PROVE  Leb(r, n) = LebOf(c, p + n)
    <2> DEFINE q == <<"data", a, p>>
               z == <<"data", a, 0>>
    <2>1. q[1] = "data" /\ q[2] = a /\ q[3] = p
      OBVIOUS
    <2>2. z[2] = a /\ z[3] = 0
      OBVIOUS
    <2>3. LebOf(c, p + n) = Delivers(input.data, z, p + n)
      BY DEF LebOf, DataOf
    <2> HIDE DEF q, z, a
    <2>4. r.pos = q
      BY <1>4 DEF q
    <2>5. Leb(r, n) = Delivers(input.data, q, n)
      BY <2>1, <2>4, Zenon DEF Leb
    <2>6. 0 + (p + n) = p + n
      OBVIOUS
    <2>7. Delivers(input.data, q, n) = Delivers(input.data, z, p + n)
      BY <2>1, <2>2, <2>6, Zenon DEF Delivers
    <2>. QED BY <2>3, <2>5, <2>7
  <1>. QED BY <1>3, <1>4

\* The reader at the data of a class, wherever it was.
LEMMA WalkedFacts ==
  ASSUME input \in Inputs, IsReader(reader), NEW c \in DOMAIN input.classes
  PROVE  LET cd == input.classes[c] IN
         /\ ClassData(cd).pos = <<"data", DataOf(c), 0>>
         /\ IsReader(ClassData(cd))
         /\ \A n \in 1 .. 4 : Leb(ClassData(cd), n) = LebOf(c, n)
         /\ Counts(ClassData(cd)) = [k \in 1 .. 4 |-> LebOf(c, k)]
         /\ IsWalked(cd) <=> Walked(c)
         /\ Walked(c) => \A k \in 1 .. 4 : LebOf(c, k) \in Nat
  <1> DEFINE cd == input.classes[c]
             r == ClassData(cd)
  <1>1. r.pos = <<"data", DataOf(c), 0>> /\ IsReader(r)
    <2>1. IsReader(Saved(reader))
      BY ReaderMoves
    <2>. QED BY <2>1, ReaderMoves DEF ClassData, DataOf
  <1> HIDE DEF r
  <1>2. \A n \in 1 .. 4 : Leb(r, n) = LebOf(c, n)
    <2> SUFFICES ASSUME NEW n \in 1 .. 4 PROVE Leb(r, n) = LebOf(c, n)
      OBVIOUS
    <2>1. n \in Nat /\ 0 \in Nat /\ 0 + n = n
      OBVIOUS
    <2>. QED BY <1>1, <2>1, DataFacts
  <1>3. Counts(r) = [k \in 1 .. 4 |-> LebOf(c, k)]
    BY <1>2, Zenon DEF Counts
  <1>4. IsWalked(cd) <=> Walked(c)
    BY <1>2, <1>3, Zenon DEF IsWalked, Walked, DataOf, r
  <1>5. Walked(c) => \A k \in 1 .. 4 : LebOf(c, k) \in Nat
    <2>1. \A k \in 1 .. 4 : k \in Nat
      OBVIOUS
    <2>. QED BY <2>1, DataFacts DEF Walked
  <1>. QED BY <1>1, <1>2, <1>3, <1>4, <1>5 DEF r

\* What the file says of its methods does not change.
LEMMA SameMethods ==
  ASSUME input' = input
  PROVE  /\ \A c, n : LebOf(c, n)' = LebOf(c, n)
         /\ \A c : Walked(c)' = Walked(c) /\ DataOf(c)' = DataOf(c)
         /\ \A c : NumMethods(c)' = NumMethods(c) /\ IsLeftOut(c)' = IsLeftOut(c)
         /\ \A c, k : IsSound(c, k)' = IsSound(c, k) /\ IndexOf(c, k)' = IndexOf(c, k)
         /\ \A c, k : SumAt(c, k)' = SumAt(c, k) /\ CodeAt(c, k)' = CodeAt(c, k)
         /\ \A c, k : MethodAt(c, k)' = MethodAt(c, k)
         /\ \A off : HasCode(off)' = HasCode(off)
  <1>1. \A c, n : LebOf(c, n)' = LebOf(c, n)
    BY Zenon DEF LebOf
  <1>2. \A c : DataOf(c)' = DataOf(c) /\ Walked(c)' = Walked(c)
    <2>1. \A n : Implausible(n)' = Implausible(n)
      BY Zenon DEF Implausible, FieldIds, MethodIds
    <2>. QED BY <1>1, <2>1, Zenon DEF DataOf, Walked
  <1>3. \A c, k : MethodAt(c, k)' = MethodAt(c, k) /\ ListStart(c, k)' = ListStart(c, k)
    BY <1>1, Zenon DEF MethodAt, ListStart
  <1>4. \A c : NumMethods(c)' = NumMethods(c)
    BY <1>1, Zenon DEF NumMethods
  <1>5. \A c : IsLeftOut(c)' = IsLeftOut(c)
    BY Zenon DEF IsLeftOut, DescriptorOf, TextOf, Readable
  <1>6. \A c : SumsOf(c)' = SumsOf(c)
    BY <1>1, <1>3, Zenon DEF SumsOf
  <1>7. \A c, k : IndexOf(c, k)' = IndexOf(c, k) /\ SumAt(c, k)' = SumAt(c, k)
    BY <1>6, Zenon DEF IndexOf, SumAt
  <1>8. \A c, k : IsSound(c, k)' = IsSound(c, k) /\ CodeAt(c, k)' = CodeAt(c, k)
    BY <1>1, <1>3, <1>7, Zenon DEF IsSound, IsPresent, CodeAt
  <1>9. \A off : HasCode(off)' = HasCode(off)
    BY Zenon DEF HasCode, Readable, EndOf
  <1>. QED BY <1>1, <1>2, <1>3, <1>4, <1>5, <1>7, <1>8, <1>9

\* The first rule that matches is that of the most specific package.
LEMMA SkippedIsLeftOut ==
  ASSUME input \in Inputs, NEW c, DescriptorOf(input.classes[c].class) # Bad
  PROVE  IsSkipped(DescriptorOf(input.classes[c].class)) <=> IsLeftOut(c)
  <1> DEFINE text == DescriptorOf(input.classes[c].class)
             support == "Landroid/support/"
             android == "Landroid/"
             java == "Ljava/"
             P == Prefixes[text]
             Has(k) == SkipRules[k].option \in input.options
  <1>1. text \in DOMAIN Prefixes
    <2>1. PICK i \in DOMAIN input.strings : text = input.strings[i] /\ input.strings[i] # Bad
      BY Zenon DEF DescriptorOf, TextOf
    <2>. QED BY <2>1, InputsAssumption
  <1>2. /\ DOMAIN SkipRules = 1 .. 3
        /\ SkipRules[1].prefix = support /\ SkipRules[2].prefix = android
        /\ SkipRules[3].prefix = java
        /\ SkipRules[1].option = "skip_support" /\ SkipRules[2].option = "skip_android"
        /\ SkipRules[3].option = "skip_java"
    BY DEF SkipRules, Rule
  <1>3. \/ P = {}
        \/ P = {java}
        \/ P = {android}
        \/ P = {android, support}
    BY <1>1, PrefixesAssumption
  <1>4. \A k \in 1 .. 3 : Matches(k, text) <=> SkipRules[k].prefix \in P
    BY DEF Matches
  <1>5. IsLeftOut(c) <=> CASE support \in P     -> Has(1)
                           [] java \in P        -> Has(3)
                           [] P = {android}     -> Has(2)
                           [] OTHER             -> FALSE
    BY <1>2, Zenon DEF IsLeftOut
  <1>6. support # android /\ support # java /\ android # java
    OBVIOUS
  <1>7. IsSkipped(text) <=> \/ Matches(1, text) /\ Has(1)
                            \/ Matches(2, text) /\ ~Matches(1, text) /\ Has(2)
                            \/ Matches(3, text) /\ ~Matches(1, text) /\ ~Matches(2, text) /\ Has(3)
    <2>1. /\ \A j : j \in 1 .. 1 - 1 <=> FALSE
          /\ \A j : j \in 1 .. 2 - 1 <=> j = 1
          /\ \A j : j \in 1 .. 3 - 1 <=> j = 1 \/ j = 2
          /\ \A j : j \in 1 .. 3 <=> j = 1 \/ j = 2 \/ j = 3
      OBVIOUS
    <2>2. IsSkipped(text) <=> \E k \in 1 .. 3 : /\ Matches(k, text)
                                                /\ \A j \in 1 .. k - 1 : ~Matches(j, text)
                                                /\ Has(k)
      BY <1>2, Zenon DEF IsSkipped
    <2> HIDE DEF text, Has
    <2>. QED BY <2>1, <2>2, Zenon
  <1> HIDE DEF text, support, android, java, P, Has
  <1>8. /\ Matches(1, text) <=> support \in P
        /\ Matches(2, text) <=> android \in P
        /\ Matches(3, text) <=> java \in P
    BY <1>2, <1>4
  <1>9. IsSkipped(text) <=> IsLeftOut(c)
    <2>1. CASE P = {}
      BY <1>5, <1>6, <1>7, <1>8, <2>1
    <2>2. CASE P = {java}
      BY <1>5, <1>6, <1>7, <1>8, <2>2
    <2>3. CASE P = {android}
      BY <1>5, <1>6, <1>7, <1>8, <2>3
    <2>4. CASE P = {android, support}
      BY <1>5, <1>6, <1>7, <1>8, <2>4
    <2>. QED BY <1>3, <2>1, <2>2, <2>3, <2>4
  <1>. QED BY <1>9 DEF text

\* The registers of the walk, and what becomes of them.
IsWalk(w) == w = [class |-> w.class, skip |-> w.skip, counts |-> w.counts, list |-> w.list,
                  left |-> w.left, method |-> w.method]

AtClass(w, s, n, l) == [w EXCEPT !.skip = s, !.counts = n, !.list = 1, !.left = l, !.method = 0]

AtList(w, l, n, m) == [w EXCEPT !.list = l, !.left = n, !.method = m]

AtRecord(w, n, m) == [w EXCEPT !.left = n, !.method = m]

AtField(w, n) == [w EXCEPT !.left = n]

PastClass(w, c) == [w EXCEPT !.class = c]

\* What the registers hold after each of these.
LEMMA WalkFacts ==
  ASSUME NEW w, IsWalk(w)
  PROVE  /\ \A s, n, l : LET p == AtClass(w, s, n, l) IN
              /\ IsWalk(p) /\ p.class = w.class /\ p.skip = s /\ p.counts = n
              /\ p.list = 1 /\ p.left = l /\ p.method = 0
         /\ \A l, n, m : LET p == AtList(w, l, n, m) IN
              /\ IsWalk(p) /\ p.class = w.class /\ p.skip = w.skip /\ p.counts = w.counts
              /\ p.list = l /\ p.left = n /\ p.method = m
         /\ \A n, m : LET p == AtRecord(w, n, m) IN
              /\ IsWalk(p) /\ p.class = w.class /\ p.skip = w.skip /\ p.counts = w.counts
              /\ p.list = w.list /\ p.left = n /\ p.method = m
         /\ \A n : LET p == AtField(w, n) IN
              /\ IsWalk(p) /\ p.class = w.class /\ p.skip = w.skip /\ p.counts = w.counts
              /\ p.list = w.list /\ p.left = n /\ p.method = w.method
         /\ \A c : LET p == PastClass(w, c) IN IsWalk(p) /\ p.class = c
  <1> DEFINE c0 == w.class
             s0 == w.skip
             n0 == w.counts
             l0 == w.list
             f0 == w.left
             m0 == w.method
             R(c, s, n, l, f, m) == [class |-> c, skip |-> s, counts |-> n, list |-> l, left |-> f,
                                     method |-> m]
             r == R(c0, s0, n0, l0, f0, m0)
  <1>1. w = r
    BY DEF IsWalk
  <1> HIDE DEF c0, s0, n0, l0, f0, m0
  <1>2. \A c, s, n, l, f, m :
          LET p == R(c, s, n, l, f, m)
          IN  /\ IsWalk(p) /\ p.class = c /\ p.skip = s /\ p.counts = n
              /\ p.list = l /\ p.left = f /\ p.method = m
    BY DEF IsWalk
  <1>3. ASSUME NEW s, NEW n, NEW l
        PROVE  AtClass(w, s, n, l) = R(c0, s, n, 1, l, 0)
    <2> DEFINE u == [r EXCEPT !.skip = s]
               v == [u EXCEPT !.counts = n]
               x == [v EXCEPT !.list = 1]
               y == [x EXCEPT !.left = l]
               z == [y EXCEPT !.method = 0]
    <2>1. AtClass(w, s, n, l) = z
      BY <1>1, Zenon DEF AtClass
    <2>2. u = R(c0, s, n0, l0, f0, m0)
      OBVIOUS
    <2> HIDE DEF u
    <2>3. v = R(c0, s, n, l0, f0, m0)
      BY <2>2
    <2> HIDE DEF v
    <2>4. x = R(c0, s, n, 1, f0, m0)
      BY <2>3
    <2> HIDE DEF x
    <2>5. y = R(c0, s, n, 1, l, m0)
      BY <2>4
    <2> HIDE DEF y
    <2>6. z = R(c0, s, n, 1, l, 0)
      BY <2>5
    <2> HIDE DEF z
    <2>. QED BY <2>1, <2>6
  <1>4. ASSUME NEW l, NEW n, NEW m
        PROVE  AtList(w, l, n, m) = R(c0, s0, n0, l, n, m)
    <2> DEFINE u == [r EXCEPT !.list = l]
               v == [u EXCEPT !.left = n]
               x == [v EXCEPT !.method = m]
    <2>1. AtList(w, l, n, m) = x
      BY <1>1, Zenon DEF AtList
    <2>2. u = R(c0, s0, n0, l, f0, m0)
      OBVIOUS
    <2> HIDE DEF u
    <2>3. v = R(c0, s0, n0, l, n, m0)
      BY <2>2
    <2> HIDE DEF v
    <2>4. x = R(c0, s0, n0, l, n, m)
      BY <2>3
    <2> HIDE DEF x
    <2>. QED BY <2>1, <2>4
  <1>5. ASSUME NEW n, NEW m
        PROVE  AtRecord(w, n, m) = R(c0, s0, n0, l0, n, m)
    <2> DEFINE u == [r EXCEPT !.left = n]
               v == [u EXCEPT !.method = m]
    <2>1. AtRecord(w, n, m) = v
      BY <1>1, Zenon DEF AtRecord
    <2>2. u = R(c0, s0, n0, l0, n, m0)
      OBVIOUS
    <2> HIDE DEF u
    <2>3. v = R(c0, s0, n0, l0, n, m)
      BY <2>2
    <2> HIDE DEF v
    <2>. QED BY <2>1, <2>3
  <1>6. ASSUME NEW n
        PROVE  AtField(w, n) = R(c0, s0, n0, l0, n, m0)
    <2> DEFINE u == [r EXCEPT !.left = n]
    <2>1. AtField(w, n) = u
      BY <1>1, Zenon DEF AtField
    <2>2. u = R(c0, s0, n0, l0, n, m0)
      OBVIOUS
    <2> HIDE DEF u
    <2>. QED BY <2>1, <2>2
  <1>7. ASSUME NEW c
        PROVE  PastClass(w, c) = R(c, s0, n0, l0, f0, m0)
    <2> DEFINE u == [r EXCEPT !.class = c]
    <2>1. PastClass(w, c) = u
      BY <1>1, Zenon DEF PastClass
    <2>2. u = R(c, s0, n0, l0, f0, m0)
      OBVIOUS
    <2> HIDE DEF u
    <2>. QED BY <2>1, <2>2
  <1> HIDE DEF R
  <1>. QED BY <1>2, <1>3, <1>4, <1>5, <1>6, <1>7 DEF c0, s0, n0, l0, f0, m0

-------------------------------------------------------------------------------
(* The walk over the classes                                               *)

\* How many methods of the class have been passed, and where the next record begins.
Behind(w) ==
  CASE w.list = 3 -> LebOf(w.class, 3) - w.left
    [] w.list = 4 -> NumMethods(w.class) - w.left
    [] OTHER      -> 0

Offset(w) ==
  CASE w.list = 1 -> 4 + 2 * (LebOf(w.class, 1) - w.left)
    [] w.list = 2 -> 4 + 2 * (LebOf(w.class, 1) + LebOf(w.class, 2) - w.left)
    [] OTHER      -> MethodAt(w.class, Behind(w) + 1)

\* The class at hand is walked by the counts it has; what is behind the reader was
\* there; methodidx is the sum so far.
IsAt(w, pos) ==
  /\ Walked(w.class)
  /\ w.skip \in BOOLEAN /\ (w.skip <=> IsLeftOut(w.class))
  /\ w.counts = [k \in 1 .. 4 |-> LebOf(w.class, k)]
  /\ w.list \in 1 .. 4 /\ w.left \in 0 .. LebOf(w.class, w.list)
  /\ \A j \in 1 .. Behind(w) : IsSound(w.class, j)
  /\ \A n \in 1 .. Offset(w) : LebOf(w.class, n) # Eof
  /\ pos = <<"data", DataOf(w.class), Offset(w)>>
  /\ w.list \in 3 .. 4 =>
       IF w.left = LebOf(w.class, w.list)
         THEN w.method = 0
         ELSE SumAt(w.class, Behind(w)) \in Nat /\ w.method = SumAt(w.class, Behind(w)) % U64

\* Method k of class c, all before which are sound, has been passed by the walk.
IsPassed(w, inside, c, k) ==
  /\ Walked(c)
  /\ k \in 1 .. NumMethods(c)
  /\ \A j \in 1 .. k : IsSound(c, j)
  /\ \/ c < w.class
     \/ c = w.class /\ inside /\ k <= Behind(w)

IsImported(c, k) == IsLeftOut(c) \/ CodeAt(c, k) = 0

HasBody(c, k) == ~IsImported(c, k) /\ HasCode(CodeAt(c, k))

InClass == pc \in {"lists", "tries", "handlers"}

\* Where the reader stands in the class data, or goes back to from a list of handlers.
ClassPos == IF pc = "handlers" THEN reader.stack[Len(reader.stack)] ELSE reader.pos

\* The methods that have been declared are those that were passed.
Declared(w, inside) ==
  /\ \A x : x \in out.externals <=>
       \E c, k : IsPassed(w, inside, c, k) /\ IsImported(c, k) /\ x = IndexOf(c, k)
  /\ \A x : x \in out.functions <=>
       \E c, k : IsPassed(w, inside, c, k) /\ HasBody(c, k) /\ x = Insns(CodeAt(c, k))

\* The invariant of the methods.
MethodsInv ==
  /\ IsWalk(walk)
  /\ walk.class \in Nat
  /\ InClass => IsAt(walk, ClassPos)
  /\ pc \in {"names", "done"} => walk.class \notin DOMAIN input.classes
  /\ Declared(walk, InClass)

\* The counts of a class are numbers.
LEMMA CountsFacts ==
  ASSUME input \in Inputs, NEW c, Walked(c)
  PROVE  /\ LebOf(c, 1) \in Nat /\ LebOf(c, 2) \in Nat /\ LebOf(c, 3) \in Nat /\ LebOf(c, 4) \in Nat
         /\ NumMethods(c) \in Nat /\ NumMethods(c) = LebOf(c, 3) + LebOf(c, 4)
         /\ \A k \in Nat : /\ MethodAt(c, k + 1) = MethodAt(c, k) + 3
                           /\ MethodAt(c, k + 1) \in Nat
                           /\ MethodAt(c, k + 1) = 4 + 2 * (LebOf(c, 1) + LebOf(c, 2)) + 3 * k
         /\ input.classes[c] # Eof /\ c \in DOMAIN input.classes
  <1>1. \A n \in 1 .. 4 : LebOf(c, n) \in Nat
    <2>1. \A n \in 1 .. 4 : n \in Nat
      OBVIOUS
    <2>. QED BY <2>1, DataFacts DEF Walked
  <1>2. LebOf(c, 1) \in Nat /\ LebOf(c, 2) \in Nat /\ LebOf(c, 3) \in Nat /\ LebOf(c, 4) \in Nat
    BY <1>1
  <1>3. \A k \in Nat : /\ MethodAt(c, k + 1) = MethodAt(c, k) + 3
                       /\ MethodAt(c, k + 1) \in Nat
                       /\ MethodAt(c, k + 1) = 4 + 2 * (LebOf(c, 1) + LebOf(c, 2)) + 3 * k
    BY <1>2 DEF MethodAt
  <1>4. NumMethods(c) \in Nat /\ NumMethods(c) = LebOf(c, 3) + LebOf(c, 4)
    BY <1>2 DEF NumMethods
  <1>5. input.classes[c] # Eof /\ c \in DOMAIN input.classes
    BY Zenon DEF Walked
  <1>. QED BY <1>2, <1>3, <1>4, <1>5

\* Where the walk of a class is.
LEMMA PlaceFacts ==
  ASSUME input \in Inputs, NEW w, NEW pos, IsAt(w, pos)
  PROVE  LET c == w.class IN
         /\ Behind(w) \in Nat /\ Behind(w) <= NumMethods(c)
         /\ Offset(w) \in Nat
         /\ w.list \in 1 .. 4 /\ w.left \in Nat
         /\ w.list \in 1 .. 2 => Behind(w) = 0
         /\ w.list \in 3 .. 4 =>
              /\ Offset(w) = MethodAt(c, Behind(w) + 1)
              /\ w.left > 0 => Behind(w) + 1 \in 1 .. NumMethods(c)
              /\ w.left > 0 => (Begins(c, Behind(w) + 1) <=> w.left = LebOf(c, w.list))
  <1> DEFINE c == w.class
             b == Behind(w)
  <1>1. /\ LebOf(c, 1) \in Nat /\ LebOf(c, 2) \in Nat /\ LebOf(c, 3) \in Nat /\ LebOf(c, 4) \in Nat
        /\ NumMethods(c) = LebOf(c, 3) + LebOf(c, 4)
        /\ \A k \in Nat : MethodAt(c, k + 1) \in Nat
    BY CountsFacts DEF IsAt
  <1>2. w.list \in 1 .. 4 /\ w.left \in 0 .. LebOf(c, w.list)
    BY DEF IsAt
  <1>3. CASE w.list = 1
    <2>1. b = 0 /\ Offset(w) = 4 + 2 * (LebOf(c, 1) - w.left)
      BY <1>3 DEF Behind, Offset
    <2> HIDE DEF b
    <2>. QED BY <1>1, <1>2, <1>3, <2>1 DEF b
  <1>4. CASE w.list = 2
    <2>1. b = 0 /\ Offset(w) = 4 + 2 * (LebOf(c, 1) + LebOf(c, 2) - w.left)
      BY <1>4 DEF Behind, Offset
    <2> HIDE DEF b
    <2>. QED BY <1>1, <1>2, <1>4, <2>1 DEF b
  <1>5. CASE w.list = 3
    <2>1. b = LebOf(c, 3) - w.left /\ Offset(w) = MethodAt(c, b + 1)
      BY <1>5 DEF Behind, Offset
    <2>2. Begins(c, b + 1) <=> b + 1 = IF b + 1 <= LebOf(c, 3) THEN 1 ELSE LebOf(c, 3) + 1
      BY DEF Begins, ListStart
    <2> HIDE DEF b
    <2>3. w.left \in 0 .. LebOf(c, 3)
      BY <1>2, <1>5
    <2>4. b \in Nat /\ b <= NumMethods(c) /\ Offset(w) \in Nat
      BY <1>1, <2>1, <2>3
    <2>5. w.left > 0 => /\ b + 1 \in 1 .. NumMethods(c)
                        /\ Begins(c, b + 1) <=> w.left = LebOf(c, w.list)
      BY <1>1, <1>5, <2>1, <2>2, <2>3
    <2>. QED BY <1>2, <1>5, <2>1, <2>3, <2>4, <2>5 DEF b
  <1>6. CASE w.list = 4
    <2>1. b = NumMethods(c) - w.left /\ Offset(w) = MethodAt(c, b + 1)
      BY <1>6 DEF Behind, Offset
    <2>2. Begins(c, b + 1) <=> b + 1 = IF b + 1 <= LebOf(c, 3) THEN 1 ELSE LebOf(c, 3) + 1
      BY DEF Begins, ListStart
    <2> HIDE DEF b
    <2>. QED BY <1>1, <1>2, <1>6, <2>1, <2>2 DEF b
  <1>. QED BY <1>2, <1>3, <1>4, <1>5, <1>6

\* The places of the file do not move.
LEMMA SamePlaces ==
  ASSUME input' = input
  PROVE  /\ \A w : Behind(w)' = Behind(w)
         /\ \A w, pos : IsAt(w, pos)' = IsAt(w, pos)
         /\ \A w, inside, c, k : IsPassed(w, inside, c, k)' = IsPassed(w, inside, c, k)
         /\ \A c, k : IsImported(c, k)' = IsImported(c, k) /\ HasBody(c, k)' = HasBody(c, k)
  <1>1. \A w : Behind(w)' = Behind(w)
    BY SameMethods, Zenon DEF Behind
  <1>2. \A w : Offset(w)' = Offset(w)
    BY <1>1, SameMethods, Zenon DEF Offset
  <1>3. ASSUME NEW w, NEW pos
        PROVE  IsAt(w, pos)' = IsAt(w, pos)
    <2> DEFINE c == w.class
               b == Behind(w)
    <2>1. /\ Walked(c)' = Walked(c) /\ IsLeftOut(c)' = IsLeftOut(c) /\ DataOf(c)' = DataOf(c)
          /\ \A n : LebOf(c, n)' = LebOf(c, n)
          /\ \A j : IsSound(c, j)' = IsSound(c, j)
          /\ b' = b /\ Offset(w)' = Offset(w) /\ SumAt(c, b)' = SumAt(c, b)
      BY <1>1, <1>2, SameMethods
    <2>. QED BY <2>1 DEF IsAt
  <1>4. ASSUME NEW w, NEW inside, NEW c, NEW k
        PROVE  IsPassed(w, inside, c, k)' = IsPassed(w, inside, c, k)
    <2>1. /\ Walked(c)' = Walked(c) /\ NumMethods(c)' = NumMethods(c) /\ Behind(w)' = Behind(w)
          /\ \A j : IsSound(c, j)' = IsSound(c, j)
      BY <1>1, SameMethods
    <2>. QED BY <2>1 DEF IsPassed
  <1>5. \A c, k : IsImported(c, k)' = IsImported(c, k) /\ HasBody(c, k)' = HasBody(c, k)
    BY SameMethods, Zenon DEF IsImported, HasBody
  <1>. QED BY <1>1, <1>3, <1>4, <1>5

\* The record where the reader stands is that of the next method.
LEMMA RecordAtHand ==
  ASSUME input \in Inputs, NEW w, NEW r, IsAt(w, r.pos), w.list \in 3 .. 4, w.left > 0
  PROVE  LET c == w.class
             k == Behind(w) + 1
         IN  /\ Leb(r, 1) = Difference(c, k) /\ Leb(r, 3) = CodeAt(c, k)
             /\ (\A n \in 1 .. 3 : Leb(r, n) # Eof) <=> IsPresent(c, k)
             /\ Leb(r, 1) # Eof => Difference(c, k) \in Nat
  <1> DEFINE c == w.class
             k == Behind(w) + 1
             p == MethodAt(c, k)
  <1>1. r.pos = <<"data", DataOf(c), p>> /\ p \in Nat
    BY PlaceFacts DEF IsAt
  <1>2. \A n \in 1 .. p : LebOf(c, n) # Eof
    BY PlaceFacts DEF IsAt
  <1>3. Difference(c, k) = LebOf(c, p + 1) /\ CodeAt(c, k) = LebOf(c, p + 3)
    BY DEF Difference, CodeAt
  <1>4. IsPresent(c, k) <=> \A n \in 1 .. p + 3 : LebOf(c, n) # Eof
    BY DEF IsPresent
  <1> HIDE DEF p, k
  <1>5. /\ Leb(r, 1) = LebOf(c, p + 1) /\ Leb(r, 2) = LebOf(c, p + 2) /\ Leb(r, 3) = LebOf(c, p + 3)
        /\ LebOf(c, p + 1) # Eof => LebOf(c, p + 1) \in Nat
    <2>1. 1 \in Nat /\ 2 \in Nat /\ 3 \in Nat /\ p + 1 \in Nat
      BY <1>1
    <2>. QED BY <1>1, <2>1, DataFacts
  <1>6. \A n : n \in 1 .. p + 3 <=> n \in 1 .. p \/ n = p + 1 \/ n = p + 2 \/ n = p + 3
    BY <1>1
  <1>7. \A n : n \in 1 .. 3 <=> n = 1 \/ n = 2 \/ n = 3
    OBVIOUS
  <1>8. (\A n \in 1 .. 3 : Leb(r, n) # Eof) <=> IsPresent(c, k)
    BY <1>2, <1>4, <1>5, <1>6, <1>7
  <1>. QED BY <1>3, <1>5, <1>8 DEF k

\* What passes the checks of the walk is a sound record, and the index is that of
\* the format.
LEMMA GoodIsSound ==
  ASSUME input \in Inputs, IsAt(walk, reader.pos), InMethods
  PROVE  LET c == walk.class
             k == Behind(walk) + 1
         IN  /\ IsGoodMethod <=> IsSound(c, k)
             /\ IsGoodMethod => /\ MethodIndex = IndexOf(c, k) /\ CodeOff = CodeAt(c, k)
                                /\ SumAt(c, k) \in Nat
  <1> DEFINE c == walk.class
             k == Behind(walk) + 1
             d == Leb(reader, 1)
             b == Behind(walk)
  <1>1. walk.list \in 3 .. 4 /\ walk.left > 0
    BY DEF InMethods
  <1>2. /\ d = Difference(c, k) /\ CodeOff = CodeAt(c, k)
        /\ ~Truncated(3) <=> IsPresent(c, k)
        /\ ~Truncated(3) => d \in Nat
    <2>1. ~Truncated(3) <=> \A n \in 1 .. 3 : Leb(reader, n) # Eof
      BY Zenon DEF Truncated
    <2>2. 1 \in 1 .. 3
      OBVIOUS
    <2>. QED BY <1>1, <2>1, <2>2, RecordAtHand DEF CodeOff
  <1>3. /\ b \in Nat /\ k \in 1 .. NumMethods(c) /\ k - 1 = b
        /\ Begins(c, k) <=> walk.left = LebOf(c, walk.list)
    BY <1>1, PlaceFacts
  <1>4. LebOf(c, 3) \in Nat /\ LebOf(c, 4) \in Nat
    BY CountsFacts DEF IsAt
  <1>5. SumAt(c, k) = d + (IF Begins(c, k) THEN 0 ELSE SumAt(c, b))
    BY <1>2, <1>3, <1>4, SumsFacts
  <1>6. IF Begins(c, k) THEN walk.method = 0
        ELSE SumAt(c, b) \in Nat /\ walk.method = SumAt(c, b) % U64
    BY <1>1, <1>3 DEF IsAt
  <1>7. U64 \in Nat \ {0}
    BY WidthAssumption
  <1>8. MethodIndex = (walk.method + d) % U64
    BY DEF MethodIndex
  <1>9. IndexOf(c, k) = SumAt(c, k) % U64
    BY DEF IndexOf, SumAt
  <1> HIDE DEF d, b, k
  <1>10. d \in Nat => MethodIndex = IndexOf(c, k) /\ SumAt(c, k) \in Nat
    <2> SUFFICES ASSUME d \in Nat PROVE MethodIndex = IndexOf(c, k) /\ SumAt(c, k) \in Nat
      OBVIOUS
    <2>1. CASE Begins(c, k)
      <3>1. SumAt(c, k) = d /\ 0 + d = d
        BY <1>5, <2>1
      <3>2. MethodIndex = d % U64
        BY <1>6, <1>8, <2>1, <3>1
      <3>. QED BY <1>9, <3>1, <3>2
    <2>2. CASE ~Begins(c, k)
      <3> DEFINE a == SumAt(c, b)
      <3>1. a \in Nat /\ walk.method = a % U64 /\ SumAt(c, k) = d + a
        BY <1>5, <1>6, <2>2
      <3> HIDE DEF a
      <3>2. d + a = a + d /\ d + a \in Nat
        BY <3>1
      <3>3. ((a % U64) + d) % U64 = (a + d) % U64
        BY <1>7, <3>1, RemainderAdds
      <3>. QED BY <1>8, <1>9, <3>1, <3>2, <3>3
    <2>. QED BY <2>1, <2>2
  <1>11. IsSound(c, k) <=> /\ IsPresent(c, k)
                           /\ IndexOf(c, k) \in DOMAIN input.methods
                           /\ CodeAt(c, k) < U32
    BY DEF IsSound, CodeAt
  <1>12. IsGoodMethod <=> ~Truncated(3) /\ MethodIndex \in DOMAIN input.methods /\ CodeOff < U32
    BY Zenon DEF IsGoodMethod
  <1>13. IsGoodMethod <=> IsSound(c, k)
    BY <1>2, <1>10, <1>11, <1>12
  <1>. QED BY <1>2, <1>10, <1>12, <1>13 DEF k

\* A method has been read.
LEMMA AfterRecord ==
  ASSUME input \in Inputs, NEW w, IsWalk(w), NEW r, IsReader(r), IsAt(w, r.pos),
         w.list \in 3 .. 4, w.left > 0,
         IsSound(w.class, Behind(w) + 1), SumAt(w.class, Behind(w) + 1) \in Nat
  PROVE  LET v == AtRecord(w, w.left - 1, IndexOf(w.class, Behind(w) + 1)) IN
         IsWalk(v) /\ IsAt(v, Ahead(r, 3).pos) /\ Behind(v) = Behind(w) + 1 /\ v.class = w.class
  <1> DEFINE c == w.class
             k == Behind(w) + 1
             v == AtRecord(w, w.left - 1, IndexOf(c, k))
  <1>1. /\ IsWalk(v) /\ v.class = c /\ v.skip = w.skip /\ v.counts = w.counts
        /\ v.list = w.list /\ v.left = w.left - 1 /\ v.method = IndexOf(c, k)
    BY WalkFacts
  <1> HIDE DEF v
  <1>2. /\ k \in Nat /\ k - 1 = Behind(w) /\ Behind(w) \in Nat
        /\ Offset(w) \in Nat /\ Offset(w) = MethodAt(c, k)
        /\ w.left \in Nat
    BY PlaceFacts
  <1>3. w.left \in 0 .. LebOf(c, w.list) /\ Walked(c)
    BY DEF IsAt
  <1>4. /\ LebOf(c, 3) \in Nat /\ LebOf(c, 4) \in Nat /\ NumMethods(c) \in Nat
        /\ MethodAt(c, k + 1) = MethodAt(c, k) + 3
    BY <1>2, <1>3, CountsFacts
  <1>5. Behind(v) = k
    <2>1. CASE w.list = 3
      <3>1. Behind(w) = LebOf(c, 3) - w.left /\ Behind(v) = LebOf(c, 3) - (w.left - 1)
        BY <1>1, <2>1 DEF Behind
      <3>. QED BY <1>2, <1>4, <3>1
    <2>2. CASE w.list = 4
      <3>1. Behind(w) = NumMethods(c) - w.left /\ Behind(v) = NumMethods(c) - (w.left - 1)
        BY <1>1, <2>2 DEF Behind
      <3>. QED BY <1>2, <1>4, <3>1
    <2>. QED BY <2>1, <2>2
  <1>6. Offset(v) = Offset(w) + 3
    <2>1. Offset(v) = MethodAt(c, k + 1)
      BY <1>1, <1>5 DEF Offset
    <2>. QED BY <1>2, <1>4, <2>1
  <1>7. IsSound(c, k) /\ IsPresent(c, k)
    BY DEF IsSound
  <1>8. \A n \in 1 .. Offset(v) : LebOf(c, n) # Eof
    BY <1>2, <1>6, <1>7 DEF IsPresent
  <1>9. \A j \in 1 .. Behind(v) : IsSound(c, j)
    <2>1. \A j \in 1 .. Behind(w) : IsSound(c, j)
      BY DEF IsAt
    <2> HIDE DEF c
    <2>2. \A j : j \in 1 .. k => j \in 1 .. Behind(w) \/ j = k
      BY <1>2
    <2> HIDE DEF k
    <2>. QED BY <1>5, <1>7, <2>1, <2>2
  <1>10. Ahead(r, 3).pos = <<"data", DataOf(c), Offset(v)>>
    <2> DEFINE t == "data"
               q == Offset(w)
    <2>1. r.pos = <<t, DataOf(c), q>>
      BY DEF IsAt
    <2> HIDE DEF t, q
    <2>2. Ahead(r, 3).pos = <<t, DataOf(c), q + 3>>
      BY <2>1, AheadFrom
    <2>. QED BY <1>6, <2>2 DEF t, q
  <1>11. v.left \in 0 .. LebOf(c, v.list) /\ v.left # LebOf(c, v.list)
    <2> DEFINE L == LebOf(c, w.list)
               n == w.left
    <2>1. L \in Nat
      BY <1>4
    <2>2. n \in 0 .. L /\ n > 0 /\ v.left = n - 1 /\ LebOf(c, v.list) = L
      BY <1>1, <1>3
    <2> HIDE DEF L, n
    <2>. QED BY <2>1, <2>2
  <1>12. v.method = SumAt(c, k) % U64
    BY <1>1 DEF IndexOf, SumAt
  <1>13. v.skip \in BOOLEAN /\ (v.skip <=> IsLeftOut(c)) /\ v.counts = [n \in 1 .. 4 |-> LebOf(c, n)]
    BY <1>1, Zenon DEF IsAt
  <1>14. v.list \in 1 .. 4
    BY <1>1
  <1>15. IsAt(v, Ahead(r, 3).pos)
    <2> HIDE DEF c, k
    <2>1. SumAt(c, k) \in Nat
      BY DEF c, k
    <2>. QED BY <1>1, <1>3, <1>5, <1>8, <1>9, <1>10, <1>11, <1>12, <1>13, <1>14, <2>1 DEF IsAt
  <1>. QED BY <1>1, <1>5, <1>15 DEF v, k

\* A field has been skipped.
LEMMA AfterField ==
  ASSUME input \in Inputs, NEW w, IsWalk(w), NEW r, IsReader(r), IsAt(w, r.pos),
         w.list \in 1 .. 2, w.left > 0, Leb(r, 1) # Eof, Leb(r, 2) # Eof
  PROVE  LET v == AtField(w, w.left - 1) IN
         IsWalk(v) /\ IsAt(v, Ahead(r, 2).pos) /\ Behind(v) = Behind(w) /\ v.class = w.class
  <1> DEFINE c == w.class
             v == AtField(w, w.left - 1)
  <1>1. /\ IsWalk(v) /\ v.class = c /\ v.skip = w.skip /\ v.counts = w.counts
        /\ v.list = w.list /\ v.left = w.left - 1
    BY WalkFacts
  <1> HIDE DEF v
  <1>2. Offset(w) \in Nat /\ w.left \in Nat /\ Behind(w) = 0
    BY PlaceFacts
  <1>3. w.left \in 0 .. LebOf(c, w.list) /\ Walked(c)
    BY DEF IsAt
  <1>4. LebOf(c, 1) \in Nat /\ LebOf(c, 2) \in Nat
    BY <1>3, CountsFacts
  <1>5. Behind(v) = 0
    BY <1>1 DEF Behind
  <1>6. Offset(v) = Offset(w) + 2
    <2>1. CASE w.list = 1
      <3>1. /\ Offset(w) = 4 + 2 * (LebOf(c, 1) - w.left)
            /\ Offset(v) = 4 + 2 * (LebOf(c, 1) - (w.left - 1))
        BY <1>1, <2>1 DEF Offset
      <3>. QED BY <1>2, <1>4, <3>1
    <2>2. CASE w.list = 2
      <3>1. /\ Offset(w) = 4 + 2 * (LebOf(c, 1) + LebOf(c, 2) - w.left)
            /\ Offset(v) = 4 + 2 * (LebOf(c, 1) + LebOf(c, 2) - (w.left - 1))
        BY <1>1, <2>2 DEF Offset
      <3>. QED BY <1>2, <1>4, <3>1
    <2>. QED BY <2>1, <2>2
  <1> DEFINE t == "data"
             q == Offset(w)
  <1>7. r.pos = <<t, DataOf(c), q>>
    BY DEF IsAt
  <1>8. LebOf(c, q + 1) # Eof /\ LebOf(c, q + 2) # Eof
    <2>1. 1 \in Nat /\ 2 \in Nat /\ r.pos = <<"data", DataOf(c), q>>
      BY <1>7
    <2> HIDE DEF c
    <2>. QED BY <1>2, <2>1, DataFacts
  <1>9. \A n \in 1 .. Offset(v) : LebOf(c, n) # Eof
    <2>1. \A n \in 1 .. q : LebOf(c, n) # Eof
      BY DEF IsAt
    <2>2. \A n : n \in 1 .. q + 2 => n \in 1 .. q \/ n = q + 1 \/ n = q + 2
      BY <1>2
    <2>. QED BY <1>6, <1>8, <2>1, <2>2
  <1>10. Ahead(r, 2).pos = <<"data", DataOf(c), Offset(v)>>
    <2> HIDE DEF t, q
    <2>1. Ahead(r, 2).pos = <<t, DataOf(c), q + 2>>
      BY <1>7, AheadFrom
    <2>. QED BY <1>6, <2>1 DEF t, q
  <1>11. v.left \in 0 .. LebOf(c, v.list)
    <2> DEFINE L == LebOf(c, w.list)
               n == w.left
    <2>1. L \in Nat
      BY <1>4
    <2>2. n \in 0 .. L /\ n > 0 /\ v.left = n - 1 /\ LebOf(c, v.list) = L
      BY <1>1, <1>3
    <2> HIDE DEF L, n
    <2>. QED BY <2>1, <2>2
  <1>12. v.skip \in BOOLEAN /\ (v.skip <=> IsLeftOut(c)) /\ v.counts = [n \in 1 .. 4 |-> LebOf(c, n)]
    BY <1>1, Zenon DEF IsAt
  <1>13. v.list \in 1 .. 4 /\ v.list \notin 3 .. 4
    BY <1>1
  <1>14. IsAt(v, Ahead(r, 2).pos)
    <2>1. 1 .. 0 = {}
      OBVIOUS
    <2> HIDE DEF c, t, q
    <2>. QED BY <1>1, <1>3, <1>5, <1>9, <1>10, <1>11, <1>12, <1>13, <2>1 DEF IsAt
  <1>. QED BY <1>1, <1>2, <1>5, <1>14 DEF v

\* The next list begins where the one before ends.
LEMMA AfterList ==
  ASSUME input \in Inputs, NEW w, IsWalk(w), NEW pos, IsAt(w, pos), w.list < 4, w.left = 0
  PROVE  LET v == AtList(w, w.list + 1, w.counts[w.list + 1], 0) IN
         IsWalk(v) /\ IsAt(v, pos) /\ Behind(v) = Behind(w) /\ v.class = w.class
  <1> DEFINE c == w.class
             l == w.list + 1
             v == AtList(w, l, w.counts[l], 0)
  <1>1. /\ IsWalk(v) /\ v.class = c /\ v.skip = w.skip /\ v.counts = w.counts
        /\ v.list = l /\ v.left = w.counts[l] /\ v.method = 0
    BY WalkFacts
  <1> HIDE DEF v
  <1>2. w.list \in 1 .. 4 /\ w.counts = [n \in 1 .. 4 |-> LebOf(c, n)] /\ Walked(c)
    BY DEF IsAt
  <1>3. l \in 2 .. 4 /\ v.left = LebOf(c, l)
    BY <1>1, <1>2
  <1>4. /\ LebOf(c, 1) \in Nat /\ LebOf(c, 2) \in Nat /\ LebOf(c, 3) \in Nat /\ LebOf(c, 4) \in Nat
        /\ NumMethods(c) = LebOf(c, 3) + LebOf(c, 4)
        /\ \A k \in Nat : MethodAt(c, k + 1) = 4 + 2 * (LebOf(c, 1) + LebOf(c, 2)) + 3 * k
    BY <1>2, CountsFacts
  <1>5. Behind(v) = Behind(w) /\ Offset(v) = Offset(w)
    <2>1. CASE w.list = 1
      <3>1. /\ Behind(v) = 0 /\ Behind(w) = 0
            /\ Offset(w) = 4 + 2 * (LebOf(c, 1) - 0)
            /\ Offset(v) = 4 + 2 * (LebOf(c, 1) + LebOf(c, 2) - LebOf(c, 2))
        BY <1>1, <1>3, <2>1 DEF Behind, Offset
      <3>. QED BY <1>4, <3>1
    <2>2. CASE w.list = 2
      <3>1. /\ Behind(v) = LebOf(c, 3) - LebOf(c, 3) /\ Behind(w) = 0
            /\ Offset(w) = 4 + 2 * (LebOf(c, 1) + LebOf(c, 2) - 0)
            /\ Offset(v) = MethodAt(c, Behind(v) + 1)
        BY <1>1, <1>3, <2>2 DEF Behind, Offset
      <3>2. Behind(v) = 0
        BY <1>4, <3>1
      <3>3. Offset(v) = 4 + 2 * (LebOf(c, 1) + LebOf(c, 2)) + 3 * 0
        BY <1>4, <3>1, <3>2
      <3>. QED BY <1>4, <3>1, <3>2, <3>3
    <2>3. CASE w.list = 3
      <3>1. /\ Behind(v) = NumMethods(c) - LebOf(c, 4) /\ Behind(w) = LebOf(c, 3) - 0
            /\ Offset(w) = MethodAt(c, Behind(w) + 1)
            /\ Offset(v) = MethodAt(c, Behind(v) + 1)
        BY <1>1, <1>3, <2>3 DEF Behind, Offset
      <3>2. Behind(v) = Behind(w)
        BY <1>4, <3>1
      <3>. QED BY <3>1, <3>2
    <2>. QED BY <1>2, <2>1, <2>2, <2>3
  <1>6. v.left \in 0 .. LebOf(c, v.list) /\ v.list \in 1 .. 4
    <2>1. LebOf(c, l) \in Nat
      BY <1>3, <1>4
    <2> HIDE DEF l
    <2>. QED BY <1>1, <1>3, <2>1
  <1>7. v.skip \in BOOLEAN /\ (v.skip <=> IsLeftOut(c)) /\ v.counts = [n \in 1 .. 4 |-> LebOf(c, n)]
    BY <1>1, Zenon DEF IsAt
  <1>8. IsAt(v, pos)
    <2>1. v.left = LebOf(c, v.list) /\ v.method = 0
      BY <1>1, <1>3
    <2>2. /\ \A j \in 1 .. Behind(w) : IsSound(c, j)
          /\ \A n \in 1 .. Offset(w) : LebOf(c, n) # Eof
          /\ pos = <<"data", DataOf(c), Offset(w)>>
      BY DEF IsAt
    <2> HIDE DEF c, l
    <2>. QED BY <1>1, <1>2, <1>5, <1>6, <1>7, <2>1, <2>2 DEF IsAt
  <1>. QED BY <1>1, <1>5, <1>8 DEF v, l

\* A class has been opened.
LEMMA AtFirstField ==
  ASSUME input \in Inputs, NEW w, IsWalk(w), Walked(w.class), NEW s \in BOOLEAN,
         s <=> IsLeftOut(w.class)
  PROVE  LET c == w.class
             v == AtClass(w, s, [k \in 1 .. 4 |-> LebOf(c, k)], LebOf(c, 1))
         IN  IsWalk(v) /\ IsAt(v, <<"data", DataOf(c), 4>>) /\ Behind(v) = 0 /\ v.class = c
  <1> DEFINE c == w.class
             n == [k \in 1 .. 4 |-> LebOf(c, k)]
             v == AtClass(w, s, n, LebOf(c, 1))
  <1>1. /\ IsWalk(v) /\ v.class = c /\ v.skip = s /\ v.counts = n
        /\ v.list = 1 /\ v.left = LebOf(c, 1) /\ v.method = 0
    BY WalkFacts
  <1> HIDE DEF v
  <1>2. LebOf(c, 1) \in Nat
    BY CountsFacts
  <1>3. Behind(v) = 0
    BY <1>1 DEF Behind
  <1>4. Offset(v) = 4
    <2>1. Offset(v) = 4 + 2 * (LebOf(c, 1) - LebOf(c, 1))
      BY <1>1 DEF Offset
    <2>. QED BY <1>2, <2>1
  <1>5. \A k \in 1 .. 4 : LebOf(c, k) # Eof
    BY DEF Walked
  <1>6. v.list \in 1 .. 4 /\ v.list \notin 3 .. 4 /\ 1 .. 0 = {} /\ v.left \in 0 .. LebOf(c, v.list)
    BY <1>1, <1>2
  <1>7. IsAt(v, <<"data", DataOf(c), 4>>)
    <2> HIDE DEF c
    <2>1. Walked(c)
      BY DEF c
    <2>2. v.skip \in BOOLEAN /\ (v.skip <=> IsLeftOut(c))
      BY <1>1, Zenon DEF c
    <2>. QED BY <1>1, <1>3, <1>4, <1>5, <1>6, <2>1, <2>2 DEF IsAt
  <1>. QED BY <1>1, <1>3, <1>7 DEF v
\* Nothing is declared where the walk passes no method.
LEMMA DeclaredStays ==
  ASSUME Declared(walk, InClass), input' = input,
         out'.externals = out.externals, out'.functions = out.functions,
         \A c, k : IsPassed(walk', InClass', c, k) <=> IsPassed(walk, InClass, c, k)
  PROVE  Declared(walk, InClass)'
  <1>1. \A c, k : IsPassed(walk, InClass, c, k)' <=> IsPassed(walk, InClass, c, k)
    BY SamePlaces
  <1>2. /\ \A c, k : IsImported(c, k)' <=> IsImported(c, k)
        /\ \A c, k : HasBody(c, k)' <=> HasBody(c, k)
        /\ \A c, k : IndexOf(c, k)' = IndexOf(c, k)
        /\ \A c, k : CodeAt(c, k)' = CodeAt(c, k)
    BY SamePlaces, SameMethods
  <1>3. \A off : Insns(off)' = Insns(off)
    BY DEF Insns, HeaderSize
  <1>4. ASSUME NEW x
        PROVE  x \in out'.externals <=>
                 \E c, k : IsPassed(walk, InClass, c, k)' /\ IsImported(c, k)' /\ x = IndexOf(c, k)'
    <2>1. x \in out.externals <=>
            \E c, k : IsPassed(walk, InClass, c, k) /\ IsImported(c, k) /\ x = IndexOf(c, k)
      BY DEF Declared
    <2>. QED BY <1>1, <1>2, <2>1
  <1>5. ASSUME NEW x
        PROVE  x \in out'.functions <=>
                 \E c, k : IsPassed(walk, InClass, c, k)' /\ HasBody(c, k)' /\ x = Insns(CodeAt(c, k))'
    <2>1. x \in out.functions <=>
            \E c, k : IsPassed(walk, InClass, c, k) /\ HasBody(c, k) /\ x = Insns(CodeAt(c, k))
      BY DEF Declared
    <2>. QED BY <1>1, <1>2, <1>3, <2>1
  <1>. QED BY <1>4, <1>5 DEF Declared

\* A method that is passed is declared as what it is.
LEMMA DeclaredGrows ==
  ASSUME Declared(walk, InClass), input' = input, NEW d, NEW n,
         \A x : x \in out'.externals <=>
                  x \in out.externals \/ (IsImported(d, n) /\ x = IndexOf(d, n)),
         \A x : x \in out'.functions <=>
                  x \in out.functions \/ (HasBody(d, n) /\ x = Insns(CodeAt(d, n))),
         \A c, k : IsPassed(walk', InClass', c, k) <=>
                     IsPassed(walk, InClass, c, k) \/ (c = d /\ k = n)
  PROVE  Declared(walk, InClass)'
  <1>1. \A c, k : IsPassed(walk, InClass, c, k)' <=> IsPassed(walk, InClass, c, k) \/ (c = d /\ k = n)
    BY SamePlaces
  <1>2. /\ \A c, k : IsImported(c, k)' <=> IsImported(c, k)
        /\ \A c, k : HasBody(c, k)' <=> HasBody(c, k)
        /\ \A c, k : IndexOf(c, k)' = IndexOf(c, k)
        /\ \A c, k : CodeAt(c, k)' = CodeAt(c, k)
    BY SamePlaces, SameMethods
  <1>3. \A off : Insns(off)' = Insns(off)
    BY DEF Insns, HeaderSize
  <1>4. ASSUME NEW x
        PROVE  x \in out'.externals <=>
                 \E c, k : IsPassed(walk, InClass, c, k)' /\ IsImported(c, k)' /\ x = IndexOf(c, k)'
    <2>1. x \in out.externals <=>
            \E c, k : IsPassed(walk, InClass, c, k) /\ IsImported(c, k) /\ x = IndexOf(c, k)
      BY DEF Declared
    <2>. QED BY <1>1, <1>2, <2>1
  <1>5. ASSUME NEW x
        PROVE  x \in out'.functions <=>
                 \E c, k : IsPassed(walk, InClass, c, k)' /\ HasBody(c, k)' /\ x = Insns(CodeAt(c, k))'
    <2>1. x \in out.functions <=>
            \E c, k : IsPassed(walk, InClass, c, k) /\ HasBody(c, k) /\ x = Insns(CodeAt(c, k))
      BY DEF Declared
    <2>. QED BY <1>1, <1>2, <1>3, <2>1
  <1>. QED BY <1>4, <1>5 DEF Declared

\* Classes are numbered from 0.
LEMMA ClassesFacts ==
  ASSUME input \in Inputs
  PROVE  \E n \in Nat : DOMAIN input.classes = 0 .. n - 1
  <1>1. IsTable(input.classes)
    BY InputsAssumption
  <1>2. \A table : IsTable(table) => \E n \in Nat : DOMAIN table = 0 .. n - 1
    BY Zenon DEF IsTable
  <1>. QED BY <1>1, <1>2

\* Going on to the next class, from outside of one or with no method left in it.
LEMMA NextClassKeepsMethods ==
  ASSUME MethodsInv, input \in Inputs, input' = input, out' = out, pc' = "classes",
         walk' = NextClass,
         \A k \in 1 .. NumMethods(walk.class) :
           Walked(walk.class) /\ (\A j \in 1 .. k : IsSound(walk.class, j)) =>
             InClass /\ k <= Behind(walk)
  PROVE  MethodsInv'
  <1> DEFINE c0 == walk.class
  <1>1. walk' = PastClass(walk, c0 + 1)
    BY Zenon DEF NextClass, PastClass
  <1>2. IsWalk(walk) /\ c0 \in Nat /\ Declared(walk, InClass)
    BY DEF MethodsInv
  <1>3. IsWalk(walk') /\ walk'.class = c0 + 1
    BY <1>1, <1>2, WalkFacts
  <1>4. ~InClass'
    BY DEF InClass
  <1>5. ASSUME NEW c, NEW k
        PROVE  IsPassed(walk', InClass', c, k) <=> IsPassed(walk, InClass, c, k)
    <2>1. c \in DOMAIN input.classes => c \in Int
      BY ClassesFacts
    <2>2. CASE Walked(c) /\ k \in 1 .. NumMethods(c) /\ \A j \in 1 .. k : IsSound(c, j)
      <3>1. c \in Int
        BY <2>1, <2>2 DEF Walked
      <3>2. IsPassed(walk', InClass', c, k) <=> c < c0 + 1
        BY <1>3, <1>4, <2>2 DEF IsPassed
      <3>3. IsPassed(walk, InClass, c, k) <=> c < c0 \/ c = c0
        BY <2>2 DEF IsPassed
      <3>. QED BY <1>2, <3>1, <3>2, <3>3
    <2>3. CASE ~(Walked(c) /\ k \in 1 .. NumMethods(c) /\ \A j \in 1 .. k : IsSound(c, j))
      BY <2>3 DEF IsPassed
    <2>. QED BY <2>2, <2>3
  <1>6. Declared(walk, InClass)'
    BY <1>2, <1>5, DeclaredStays
  <1>. QED BY <1>2, <1>3, <1>4, <1>6 DEF MethodsInv

\* A class that is not walked.
LEMMA PassClassKeepsMethods ==
  ASSUME MethodsInv, HandlersInv, PassClass
  PROVE  MethodsInv'
  <1>1. /\ pc' = "classes" /\ walk' = NextClass /\ input' = input /\ out' = out
        /\ walk.class \in DOMAIN input.classes /\ ~IsWalked(input.classes[walk.class])
    BY DEF PassClass
  <1>2. input \in Inputs /\ IsReader(reader)
    BY DEF HandlersInv
  <1>3. ~Walked(walk.class)
    BY <1>1, <1>2, WalkedFacts
  <1>. QED BY <1>1, <1>2, <1>3, NextClassKeepsMethods

\* The end of a class: its lists have been read, or the next record is no good.
LEMMA CloseClassKeepsMethods ==
  ASSUME MethodsInv, HandlersInv, FieldsTruncated \/ ListsDone \/ BadMethod
  PROVE  MethodsInv'
  <1> DEFINE c == walk.class
  <1>1. /\ pc = "lists" /\ pc' = "classes" /\ walk' = NextClass /\ input' = input /\ out' = out
    BY DEF FieldsTruncated, ListsDone, BadMethod, CloseClass, InFields, InMethods
  <1>2. input \in Inputs
    BY DEF HandlersInv
  <1>3. IsAt(walk, reader.pos) /\ InClass
    BY <1>1 DEF MethodsInv, InClass, ClassPos
  <1>4. NumMethods(c) \in Nat /\ Behind(walk) \in Nat
    BY <1>2, <1>3, CountsFacts, PlaceFacts DEF IsAt
  <1>5. ASSUME NEW k \in 1 .. NumMethods(c), \A j \in 1 .. k : IsSound(c, j)
        PROVE  k <= Behind(walk)
    <2> SUFFICES ASSUME k > Behind(walk) PROVE FALSE
      BY <1>4
    <2>1. IsSound(c, Behind(walk) + 1)
      BY <1>4, <1>5
    <2>2. CASE FieldsTruncated
      <3>1. walk.list \in 1 .. 2 /\ walk.left > 0 /\ Truncated(2)
        BY <2>2 DEF FieldsTruncated, InFields
      <3>2. PICK n \in 1 .. 2 : Leb(reader, n) = Eof
        BY <3>1 DEF Truncated
      <3>3. /\ Behind(walk) = 0 /\ Offset(walk) \in Nat
            /\ reader.pos = <<"data", DataOf(c), Offset(walk)>>
        BY <1>2, <1>3, <3>1, PlaceFacts DEF IsAt
      <3>4. LebOf(c, Offset(walk) + n) = Eof
        <4> HIDE DEF c
        <4>1. n \in Nat
          OBVIOUS
        <4>. QED BY <1>2, <3>2, <3>3, <4>1, DataFacts
      <3>5. Offset(walk) + n \in 1 .. MethodAt(c, 1) + 3
        <4>1. /\ LebOf(c, 1) \in Nat /\ LebOf(c, 2) \in Nat
              /\ \A i \in Nat : MethodAt(c, i + 1) = 4 + 2 * (LebOf(c, 1) + LebOf(c, 2)) + 3 * i
          BY <1>2, <1>3, CountsFacts DEF IsAt
        <4>2. MethodAt(c, 0 + 1) = 4 + 2 * (LebOf(c, 1) + LebOf(c, 2)) + 3 * 0
          BY <4>1
        <4>3. walk.left \in Nat
          BY <1>2, <1>3, PlaceFacts
        <4>4. CASE walk.list = 1
          <5>1. Offset(walk) = 4 + 2 * (LebOf(c, 1) - walk.left)
            BY <4>4 DEF Offset
          <5>. QED BY <3>1, <3>3, <4>1, <4>2, <4>3, <5>1
        <4>5. CASE walk.list = 2
          <5>1. Offset(walk) = 4 + 2 * (LebOf(c, 1) + LebOf(c, 2) - walk.left)
            BY <4>5 DEF Offset
          <5>. QED BY <3>1, <3>3, <4>1, <4>2, <4>3, <5>1
        <4>. QED BY <3>1, <4>4, <4>5
      <3>6. IsPresent(c, 1)
        BY <2>1, <3>3 DEF IsSound
      <3>. QED BY <3>4, <3>5, <3>6 DEF IsPresent
    <2>3. CASE ListsDone
      <3>1. walk.left = 0 /\ walk.list = 4
        BY <2>3 DEF ListsDone
      <3>2. Behind(walk) = NumMethods(c) - 0
        BY <3>1 DEF Behind
      <3>. QED BY <1>4, <3>2
    <2>4. CASE BadMethod
      <3>1. InMethods /\ ~IsGoodMethod
        BY <2>4 DEF BadMethod
      <3>. QED BY <1>2, <1>3, <2>1, <3>1, GoodIsSound
    <2>. QED BY <2>2, <2>3, <2>4
  <1>. QED BY <1>1, <1>2, <1>3, <1>5, NextClassKeepsMethods

\* Within a class, where no method is passed.
LEMMA StepsInClass ==
  ASSUME MethodsInv, input \in Inputs, input' = input, InClass, InClass',
         out'.externals = out.externals, out'.functions = out.functions,
         IsWalk(walk'), IsAt(walk', ClassPos'), Behind(walk') = Behind(walk),
         walk'.class = walk.class
  PROVE  MethodsInv'
  <1>1. Declared(walk, InClass) /\ walk.class \in Nat
    BY DEF MethodsInv
  <1>2. ASSUME NEW c, NEW k
        PROVE  IsPassed(walk', InClass', c, k) <=> IsPassed(walk, InClass, c, k)
    BY DEF IsPassed
  <1>3. Declared(walk, InClass)'
    BY <1>1, <1>2, DeclaredStays
  <1>4. IsAt(walk, ClassPos)'
    BY SamePlaces
  <1>5. pc' \notin {"names", "done"}
    BY DEF InClass
  <1>. QED BY <1>1, <1>3, <1>4, <1>5 DEF MethodsInv

\* A field is skipped, or the next list begun.
LEMMA ListsKeepMethods ==
  ASSUME MethodsInv, HandlersInv, SkipField \/ NextList
  PROVE  MethodsInv'
  <1>1. /\ pc = "lists" /\ pc' = "lists" /\ input' = input /\ out' = out
    BY DEF SkipField, NextList, InFields
  <1>2. input \in Inputs /\ IsReader(reader) /\ IsWalk(walk)
    BY DEF HandlersInv, MethodsInv
  <1>3. IsAt(walk, reader.pos) /\ InClass /\ InClass' /\ ClassPos' = reader'.pos
    BY <1>1 DEF MethodsInv, InClass, ClassPos
  <1>4. CASE SkipField
    <2>1. walk' = AtField(walk, walk.left - 1)
      BY <1>4, Zenon DEF SkipField, AtField
    <2>2. walk.list \in 1 .. 2 /\ walk.left > 0 /\ ~Truncated(2) /\ reader' = Ahead(reader, 2)
      BY <1>4 DEF SkipField, InFields
    <2>3. Leb(reader, 1) # Eof /\ Leb(reader, 2) # Eof
      BY <2>2 DEF Truncated
    <2>4. /\ IsWalk(walk') /\ IsAt(walk', reader'.pos) /\ Behind(walk') = Behind(walk)
          /\ walk'.class = walk.class
      BY <1>2, <1>3, <2>1, <2>2, <2>3, AfterField
    <2>. QED BY <1>1, <1>2, <1>3, <2>4, StepsInClass
  <1>5. CASE NextList
    <2>1. walk' = AtList(walk, walk.list + 1, walk.counts[walk.list + 1], 0)
      BY <1>5, Zenon DEF NextList, AtList, FirstMethod
    <2>2. walk.list < 4 /\ walk.left = 0 /\ reader' = reader
      BY <1>5 DEF NextList
    <2>3. /\ IsWalk(walk') /\ IsAt(walk', reader.pos) /\ Behind(walk') = Behind(walk)
          /\ walk'.class = walk.class
      BY <1>2, <1>3, <2>1, <2>2, AfterList
    <2>. QED BY <1>1, <1>2, <1>3, <2>2, <2>3, StepsInClass
  <1>. QED BY <1>4, <1>5
\* A class is opened: it is left out if its package is.
LEMMA OpenClassKeepsMethods ==
  ASSUME MethodsInv, HandlersInv, NamesInv, OpenClass
  PROVE  MethodsInv'
  <1> DEFINE c == walk.class
             cd == input.classes[c]
             b == Descriptor(Start(bufs), cd.class)
             n == [k \in 1 .. 4 |-> LebOf(c, k)]
             s == b.ok /\ IsSkipped(b.string)
  <1>1. /\ pc = "classes" /\ pc' = "lists" /\ input' = input /\ out' = out
        /\ c \in DOMAIN input.classes /\ IsWalked(cd) /\ bufs' = b
        /\ reader' = Ahead(ClassData(cd), 4)
    BY DEF OpenClass
  <1>2. input \in Inputs /\ IsReader(reader) /\ IsWalk(walk) /\ c \in Nat /\ IsBufs(bufs)
    BY DEF HandlersInv, MethodsInv, NamesInv
  <1>3. walk' = AtClass(walk, bufs'.ok /\ IsSkipped(bufs'.string), Counts(ClassData(cd)),
                        Leb(ClassData(cd), 1))
    BY Zenon DEF OpenClass, AtClass
  <1>4. /\ Walked(c) /\ Counts(ClassData(cd)) = n /\ Leb(ClassData(cd), 1) = LebOf(c, 1)
        /\ IsReader(ClassData(cd)) /\ ClassData(cd).pos = <<"data", DataOf(c), 0>>
    <2>1. 1 \in 1 .. 4
      OBVIOUS
    <2>. QED BY <1>1, <1>2, <2>1, WalkedFacts
  <1>5. s \in BOOLEAN /\ (s <=> IsLeftOut(c))
    <2> DEFINE text == DescriptorOf(cd.class)
    <2>1. IsBufs(Start(bufs)) /\ Start(bufs).ok
      BY <1>2, StartFacts
    <2>2. (b.ok <=> text # Bad) /\ (b.ok => b.string = text)
      BY <2>1, DescriptorFacts
    <2>3. text # Bad => (IsSkipped(text) <=> IsLeftOut(c))
      BY <1>2, SkippedIsLeftOut
    <2>4. IsLeftOut(c) => text # Bad
      BY Zenon DEF IsLeftOut
    <2>5. b.ok \in BOOLEAN
      <3>1. IsBufs(b)
        BY <2>1, DescriptorFacts
      <3>. QED BY <3>1 DEF IsBufs
    <2> HIDE DEF b, text, c, cd
    <2>6. s <=> b.ok /\ IsSkipped(b.string)
      OBVIOUS
    <2>. QED BY <2>2, <2>3, <2>4, <2>5, <2>6, Zenon
  <1>6. walk' = AtClass(walk, s, n, LebOf(c, 1))
    BY <1>1, <1>3, <1>4, Zenon
  <1> HIDE DEF s, n, b, cd
  <1>7. /\ IsWalk(walk') /\ IsAt(walk', <<"data", DataOf(c), 4>>) /\ Behind(walk') = 0
        /\ walk'.class = c
    <2>1. AtClass(walk, s, [k \in 1 .. 4 |-> LebOf(c, k)], LebOf(c, 1)) = walk'
      BY <1>6 DEF n
    <2>. QED BY <1>2, <1>4, <1>5, <2>1, AtFirstField
  <1>8. reader'.pos = <<"data", DataOf(c), 4>>
    <2> DEFINE t == "data"
    <2>1. ClassData(cd).pos = <<t, DataOf(c), 0>>
      BY <1>4
    <2> HIDE DEF t
    <2>2. reader'.pos = <<t, DataOf(c), 0 + 4>> /\ 0 + 4 = 4
      BY <1>1, <1>4, <2>1, AheadFrom
    <2>. QED BY <2>2 DEF t
  <1>9. ClassPos' = reader'.pos /\ InClass' /\ ~InClass
    BY <1>1 DEF ClassPos, InClass
  <1>10. ASSUME NEW d, NEW k
         PROVE  IsPassed(walk', InClass', d, k) <=> IsPassed(walk, InClass, d, k)
    <2>1. k \in 1 .. NumMethods(d) /\ Walked(d) => ~(k <= 0)
      <3>1. Walked(d) => NumMethods(d) \in Nat
        BY <1>2, CountsFacts
      <3>. QED BY <3>1
    <2>. QED BY <1>7, <1>9, <2>1 DEF IsPassed
  <1>11. Declared(walk, InClass)'
    BY <1>1, <1>10, DeclaredStays DEF MethodsInv
  <1>12. IsAt(walk, ClassPos)'
    BY <1>1, <1>7, <1>8, <1>9, SamePlaces
  <1>. QED BY <1>1, <1>2, <1>7, <1>11, <1>12 DEF MethodsInv

\* What a method that is passed is declared as, whatever becomes of it.
LEMMA EmitKeepsMethods ==
  ASSUME MethodsInv, HandlersInv, EmitExternal \/ RejectCode \/ EmitFunction
  PROVE  MethodsInv'
  <1> DEFINE c == walk.class
             k == Behind(walk) + 1
  <1>1. /\ pc = "lists" /\ pc' \in {"lists", "tries"} /\ input' = input
        /\ InMethods /\ IsGoodMethod
    <2>1. EmitMethod
      BY Zenon DEF EmitExternal, RejectCode, EmitFunction
    <2>2. pc' = pc \/ pc' = "tries"
      BY Zenon DEF EmitExternal, RejectCode, EmitFunction
    <2>3. input' = input
      BY Zenon DEF EmitExternal, RejectCode, EmitFunction
    <2>4. InMethods /\ IsGoodMethod
      BY <2>1, Zenon DEF EmitMethod
    <2>5. pc = "lists"
      BY <2>4 DEF InMethods
    <2>. QED BY <2>2, <2>3, <2>4, <2>5
  <1>2. input \in Inputs /\ IsReader(reader) /\ IsWalk(walk) /\ IsOut(out) /\ c \in Nat
    BY DEF HandlersInv, MethodsInv
  <1>3. IsAt(walk, reader.pos) /\ InClass /\ InClass' /\ ClassPos' = reader'.pos
    BY <1>1 DEF MethodsInv, InClass, ClassPos
  <1>4. /\ IsSound(c, k) /\ MethodIndex = IndexOf(c, k) /\ CodeOff = CodeAt(c, k)
        /\ SumAt(c, k) \in Nat
    BY <1>1, <1>2, <1>3, GoodIsSound
  <1>5. reader' = Ahead(reader, 3)
    <2>1. IsReader(Ahead(reader, 3))
      BY <1>2, ReaderMoves
    <2>2. \E pos : reader' = Ahead(reader, 3) \/ reader' = Elsewhere(Ahead(reader, 3), pos)
      BY Zenon DEF EmitExternal, RejectCode, EmitFunction
    <2>. QED BY <2>1, <2>2, ElsewhereAndBack
  <1>6. walk' = AtRecord(walk, walk.left - 1, MethodIndex)
    <2>1. EmitMethod
      BY Zenon DEF EmitExternal, RejectCode, EmitFunction
    <2>. QED BY <2>1, Zenon DEF EmitMethod, AtRecord
  <1>7. walk.list \in 3 .. 4 /\ walk.left > 0
    BY <1>1 DEF InMethods
  <1>8. /\ IsWalk(walk') /\ IsAt(walk', reader'.pos) /\ Behind(walk') = k /\ walk'.class = c
    BY <1>2, <1>3, <1>4, <1>5, <1>6, <1>7, AfterRecord
  <1>9. k \in 1 .. NumMethods(c) /\ Behind(walk) \in Nat /\ NumMethods(c) \in Nat
    BY <1>2, <1>3, <1>7, PlaceFacts, CountsFacts DEF IsAt
  <1>10. Walked(c) /\ \A j \in 1 .. k : IsSound(c, j)
    <2>1. Walked(c) /\ \A j \in 1 .. Behind(walk) : IsSound(c, j)
      BY <1>3 DEF IsAt
    <2>2. \A j : j \in 1 .. k => j \in 1 .. Behind(walk) \/ j = k
      BY <1>9
    <2> HIDE DEF k, c
    <2>. QED BY <1>4, <2>1, <2>2
  <1>11. ASSUME NEW d, NEW n
         PROVE  IsPassed(walk', InClass', d, n) <=> IsPassed(walk, InClass, d, n) \/ (d = c /\ n = k)
    <2>1. CASE d = c
      <3>1. c \notin {x \in Nat : x < c}
        OBVIOUS
      <3>2. IsPassed(walk', InClass', d, n) <=>
              /\ n \in 1 .. NumMethods(c) /\ (\A j \in 1 .. n : IsSound(c, j)) /\ n <= k
        BY <1>2, <1>3, <1>8, <1>10, <2>1 DEF IsPassed
      <3>3. IsPassed(walk, InClass, d, n) <=>
              /\ n \in 1 .. NumMethods(c) /\ (\A j \in 1 .. n : IsSound(c, j)) /\ n <= Behind(walk)
        BY <1>2, <1>3, <1>10, <2>1 DEF IsPassed
      <3>4. n \in 1 .. NumMethods(c) => (n <= k <=> n <= Behind(walk) \/ n = k)
        BY <1>9
      <3>. QED BY <1>9, <1>10, <2>1, <3>2, <3>3, <3>4
    <2>2. CASE d # c
      BY <1>8, <2>2 DEF IsPassed
    <2>. QED BY <2>1, <2>2
  <1>12. IsExternal <=> IsImported(c, k)
    <2>1. walk.skip <=> IsLeftOut(c)
      BY <1>3 DEF IsAt
    <2>. QED BY <1>4, <2>1 DEF IsExternal, IsImported
  <1>13. /\ \A x : x \in out'.externals <=>
                     x \in out.externals \/ (IsImported(c, k) /\ x = IndexOf(c, k))
         /\ \A x : x \in out'.functions <=>
                     x \in out.functions \/ (HasBody(c, k) /\ x = Insns(CodeAt(c, k)))
    <2>1. CASE EmitExternal
      <3>1. IsExternal
        BY <2>1, Zenon DEF EmitExternal
      <3>2. PICK y : out' = WithExternal(out, out.externals \cup {MethodIndex}, y)
        BY <2>1, Zenon DEF EmitExternal, WithExternal
      <3>3. out'.externals = out.externals \cup {MethodIndex} /\ out'.functions = out.functions
        BY <1>2, <3>2, WithExternalFacts
      <3>. QED BY <1>4, <1>12, <3>1, <3>3 DEF HasBody
    <2>2. CASE RejectCode
      <3>1. ~IsExternal /\ ~HasCode(CodeOff) /\ out' = out
        BY <2>2, Zenon DEF RejectCode
      <3>. QED BY <1>4, <1>12, <3>1 DEF HasBody
    <2>3. CASE EmitFunction
      <3>1. ~IsExternal /\ HasCode(CodeOff)
        BY <2>3, Zenon DEF EmitFunction
      <3>2. PICK y : out' = WithFunction(out, out.functions \cup {Insns(CodeOff)}, y)
        BY <2>3, Zenon DEF EmitFunction, WithFunction
      <3>3. out'.functions = out.functions \cup {Insns(CodeOff)} /\ out'.externals = out.externals
        BY <1>2, <3>2, WithFunctionFacts
      <3>. QED BY <1>4, <1>12, <3>1, <3>3 DEF HasBody
    <2>. QED BY <2>1, <2>2, <2>3
  <1>14. Declared(walk, InClass)'
    <2>1. Declared(walk, InClass)
      BY DEF MethodsInv
    <2> HIDE DEF k, c
    <2>. QED BY <1>1, <1>11, <1>13, <2>1, DeclaredGrows
  <1>15. IsAt(walk, ClassPos)'
    BY <1>1, <1>3, <1>8, SamePlaces
  <1>16. pc' \notin {"names", "done"} /\ walk'.class \in Nat
    BY <1>1, <1>2, <1>8
  <1>. QED BY <1>8, <1>14, <1>15, <1>16 DEF MethodsInv
\* Where the reader stands when it goes elsewhere is on top of its stack, and going
\* ahead leaves the stack.
LEMMA SavedFacts ==
  ASSUME NEW r, IsReader(r)
  PROVE  /\ \A n : Ahead(r, n).stack = r.stack
         /\ \A pos, n : LET q == Ahead(At(Saved(r), pos), n) IN q.stack[Len(q.stack)] = r.pos
  <1>1. ASSUME NEW v, IsReader(v), NEW n
        PROVE  Ahead(v, n).stack = v.stack
    <2> DEFINE p == v.pos
               s == v.stack
               w == [pos |-> p, stack |-> s]
               q == [p EXCEPT ![3] = @ + n]
    <2>1. v = w
      BY <1>1 DEF IsReader
    <2> HIDE DEF p, s
    <2>2. Ahead(v, n) = [w EXCEPT !.pos[3] = @ + n]
      BY <2>1, Zenon DEF Ahead
    <2>3. [w EXCEPT !.pos[3] = @ + n] = [w EXCEPT !.pos = q]
      BY Zenon
    <2> HIDE DEF q
    <2>4. [w EXCEPT !.pos = q].stack = s
      OBVIOUS
    <2>. QED BY <2>2, <2>3, <2>4 DEF s
  <1>2. ASSUME NEW pos, NEW n
        PROVE  LET q == Ahead(At(Saved(r), pos), n) IN q.stack[Len(q.stack)] = r.pos
    <2> DEFINE p == r.pos
               s == r.stack
               v == [pos |-> p, stack |-> s]
               t == Append(s, p)
               u == At(Saved(r), pos)
    <2>1. r = v
      BY DEF IsReader
    <2>2. PICK S : s \in Seq(S)
      BY DEF IsReader
    <2> HIDE DEF p, s
    <2>3. t[Len(t)] = p
      <3>1. s \in Seq(S \cup {p}) /\ p \in S \cup {p}
        BY <2>2
      <3>. QED BY <3>1
    <2>4. Saved(r) = [pos |-> p, stack |-> t]
      <3>1. v.stack = s /\ v.pos = p
        OBVIOUS
      <3>2. Saved(r) = [v EXCEPT !.stack = t]
        BY <2>1, <3>1, Zenon DEF Saved
      <3> HIDE DEF t
      <3>3. [v EXCEPT !.stack = t] = [pos |-> p, stack |-> t]
        OBVIOUS
      <3>. QED BY <3>2, <3>3
    <2> HIDE DEF t
    <2>5. u.stack = t
      <3>1. [[pos |-> p, stack |-> t] EXCEPT !.pos = pos].stack = t
        OBVIOUS
      <3>2. u = [[pos |-> p, stack |-> t] EXCEPT !.pos = pos]
        BY <2>4, Zenon DEF At
      <3>. QED BY <3>1, <3>2
    <2>6. IsReader(u)
      <3>1. IsReader(Saved(r))
        BY ReaderMoves
      <3>. QED BY <3>1, ReaderMoves
    <2> HIDE DEF u
    <2>7. Ahead(u, n).stack = t
      BY <1>1, <2>5, <2>6
    <2>. QED BY <2>3, <2>7 DEF u, p
  <1>. QED BY <1>1, <1>2

\* The try_items and the handlers of a method: the walk of the class waits.
LEMMA HandlersKeepMethods ==
  ASSUME MethodsInv, HandlersInv,
         TriesDone \/ PassTry \/ OpenTry \/ EmitHandler \/ HandlersTruncated \/ HandlersDone
  PROVE  MethodsInv'
  <1>1. /\ input' = input /\ walk' = walk /\ pc \in {"tries", "handlers"}
        /\ pc' \in {"lists", "tries", "handlers"}
    <2>1. CASE TriesDone
      BY <2>1 DEF TriesDone
    <2>2. CASE PassTry
      BY <2>2 DEF PassTry
    <2>3. CASE OpenTry
      BY <2>3 DEF OpenTry
    <2>4. CASE EmitHandler
      BY <2>4 DEF EmitHandler
    <2>5. CASE HandlersTruncated
      BY <2>5 DEF HandlersTruncated, CloseList
    <2>6. CASE HandlersDone
      BY <2>6 DEF HandlersDone, CloseList
    <2>. QED BY <2>1, <2>2, <2>3, <2>4, <2>5, <2>6
  <1>2. input \in Inputs /\ IsReader(reader) /\ IsWalk(walk) /\ IsOut(out)
    BY DEF HandlersInv, MethodsInv
  <1>3. InClass /\ InClass' /\ IsAt(walk, ClassPos)
    BY <1>1 DEF InClass, MethodsInv
  <1>4. out'.externals = out.externals /\ out'.functions = out.functions
    <2>1. \/ out' = out
          \/ \E y : out' = WithComment(out, y)
          \/ \E x, y : out' = WithEdge(out, x, y)
      <3>1. TriesDone \/ HandlersTruncated => out' = out
        BY Zenon DEF TriesDone, HandlersTruncated
      <3>2. PassTry => out' = out \/ \E y : out' = WithComment(out, y)
        BY Zenon DEF PassTry, WithComment
      <3>3. OpenTry => \E y : out' = WithComment(out, y)
        BY Zenon DEF OpenTry, WithComment
      <3>4. EmitHandler => \E x, y : out' = WithEdge(out, x, y)
        BY Zenon DEF EmitHandler, WithEdge
      <3>5. HandlersDone => out' = out \/ \E x, y : out' = WithEdge(out, x, y)
        BY Zenon DEF HandlersDone, WithEdge
      <3>. QED BY <3>1, <3>2, <3>3, <3>4, <3>5
    <2>. QED BY <1>2, <2>1, WithCommentFacts, WithEdgeFacts
  <1>5. ClassPos' = ClassPos
    <2>1. CASE TriesDone \/ PassTry
      <3>1. reader' = reader /\ pc = "tries" /\ pc' \in {"lists", "tries"}
        BY <2>1 DEF TriesDone, PassTry
      <3>. QED BY <3>1 DEF ClassPos
    <2>2. CASE OpenTry
      <3>1. pc = "tries" /\ pc' = "handlers" /\ \E pos : reader' = Ahead(At(Saved(reader), pos), 1)
        BY <2>2, Zenon DEF OpenTry, ListOf
      <3>2. reader'.stack[Len(reader'.stack)] = reader.pos
        BY <1>2, <3>1, SavedFacts
      <3>. QED BY <3>1, <3>2 DEF ClassPos
    <2>3. CASE EmitHandler
      <3>1. pc = "handlers" /\ pc' = "handlers"
        BY <2>3 DEF EmitHandler
      <3>2. \E pos : reader' = Elsewhere(Ahead(reader, 2), pos)
        BY <2>3, Zenon DEF EmitHandler
      <3>3. reader' = Ahead(reader, 2)
        <4>1. IsReader(Ahead(reader, 2))
          BY <1>2, ReaderMoves
        <4>. QED BY <3>2, <4>1, ElsewhereAndBack
      <3>4. reader'.stack = reader.stack
        BY <1>2, <3>3, SavedFacts
      <3>. QED BY <3>1, <3>4 DEF ClassPos
    <2>4. CASE HandlersTruncated \/ HandlersDone
      <3>1. pc = "handlers" /\ pc' = "tries" /\ reader' = Restored(reader)
        BY <2>4, Zenon DEF HandlersTruncated, HandlersDone, CloseList
      <3>2. reader'.pos = reader.stack[Len(reader.stack)]
        BY <3>1 DEF Restored
      <3>. QED BY <3>1, <3>2 DEF ClassPos
    <2>. QED BY <2>1, <2>2, <2>3, <2>4
  <1>. QED BY <1>1, <1>2, <1>3, <1>4, <1>5, StepsInClass

\* Before the walk has begun, and after it: nothing is passed, nothing declared.
LEMMA NamesKeepMethods ==
  ASSUME MethodsInv, HandlersInv, ClassesDone \/ NameEntry \/ NextKind \/ UNCHANGED vars
  PROVE  MethodsInv'
  <1>1. input' = input /\ walk' = walk
    BY Zenon DEF ClassesDone, NameEntry, NextKind, vars
  <1>2. \/ pc = "classes" /\ pc' = "names" /\ walk.class \notin DOMAIN input.classes
        \/ pc = "names" /\ pc' \in {"names", "done"}
        \/ pc' = pc /\ reader' = reader
    <2>1. ClassesDone => pc = "classes" /\ pc' = "names" /\ walk.class \notin DOMAIN input.classes
      BY DEF ClassesDone
    <2>2. NameEntry => pc' = pc /\ reader' = reader
      BY DEF NameEntry
    <2>3. NextKind => pc = "names" /\ pc' \in {"names", "done"}
      BY DEF NextKind
    <2>4. UNCHANGED vars => pc' = pc /\ reader' = reader
      BY DEF vars
    <2>. QED BY <2>1, <2>2, <2>3, <2>4
  <1>3. input \in Inputs /\ IsWalk(walk) /\ IsOut(out)
    BY DEF HandlersInv, MethodsInv
  <1>4. out'.externals = out.externals /\ out'.functions = out.functions
    <2>1. out' = out \/ \E y : out' = WithName(out, y)
      BY Zenon DEF ClassesDone, NameEntry, NextKind, vars, WithName
    <2>. QED BY <1>3, <2>1, WithNameFacts
  <1>5. InClass' <=> InClass
    BY <1>2 DEF InClass
  <1>6. ASSUME NEW c, NEW k
        PROVE  IsPassed(walk', InClass', c, k) <=> IsPassed(walk, InClass, c, k)
    BY <1>1, <1>5 DEF IsPassed
  <1>7. Declared(walk, InClass)'
    BY <1>1, <1>4, <1>6, DeclaredStays DEF MethodsInv
  <1>8. InClass' => IsAt(walk, ClassPos)'
    <2> SUFFICES ASSUME InClass' PROVE IsAt(walk, ClassPos)'
      OBVIOUS
    <2>1. pc' = pc /\ reader' = reader
      BY <1>2 DEF InClass
    <2>2. ClassPos' = ClassPos /\ IsAt(walk, ClassPos)
      BY <1>5, <2>1 DEF ClassPos, MethodsInv
    <2>. QED BY <1>1, <2>2, SamePlaces
  <1>9. pc' \in {"names", "done"} => walk'.class \notin DOMAIN input'.classes
    BY <1>1, <1>2 DEF MethodsInv
  <1>. QED BY <1>1, <1>7, <1>8, <1>9 DEF MethodsInv

\* Nothing is declared yet.
LEMMA MethodsBegin ==
  Init => MethodsInv
  <1> SUFFICES ASSUME Init PROVE MethodsInv
    OBVIOUS
  <1>1. /\ pc = "classes" /\ input \in Inputs
        /\ walk = [class |-> 0, skip |-> FALSE, counts |-> <<0, 0, 0, 0>>, list |-> 1, left |-> 0,
                   method |-> 0]
        /\ out = [externals |-> {}, functions |-> {}, names |-> {}, edges |-> {}, comments |-> {}]
    BY DEF Init
  <1>2. IsWalk(walk) /\ walk.class = 0
    BY <1>1 DEF IsWalk
  <1>3. out.externals = {} /\ out.functions = {}
    BY <1>1
  <1>4. ~InClass
    BY <1>1 DEF InClass
  <1>5. ASSUME NEW c, NEW k
        PROVE  ~IsPassed(walk, InClass, c, k)
    <2>1. c \in DOMAIN input.classes => ~(c < 0)
      BY <1>1, ClassesFacts
    <2>. QED BY <1>2, <1>4, <2>1 DEF IsPassed, Walked
  <1>6. Declared(walk, InClass)
    BY <1>3, <1>5 DEF Declared
  <1>. QED BY <1>1, <1>2, <1>4, <1>6 DEF MethodsInv

\* The invariant of the methods is one.
THEOREM MethodsInvariant == Spec => []MethodsInv
  <1>1. Init => MethodsInv
    BY MethodsBegin
  <1>2. MethodsInv /\ HandlersInv /\ NamesInv /\ [Next]_vars => MethodsInv'
    <2> SUFFICES ASSUME MethodsInv, HandlersInv, NamesInv, [Next]_vars PROVE MethodsInv'
      OBVIOUS
    <2>1. CASE PassClass
      BY <2>1, PassClassKeepsMethods
    <2>2. CASE OpenClass
      BY <2>2, OpenClassKeepsMethods
    <2>3. CASE SkipField \/ NextList
      BY <2>3, ListsKeepMethods
    <2>4. CASE FieldsTruncated \/ ListsDone \/ BadMethod
      BY <2>4, CloseClassKeepsMethods
    <2>5. CASE EmitExternal \/ RejectCode \/ EmitFunction
      BY <2>5, EmitKeepsMethods
    <2>6. CASE TriesDone \/ PassTry \/ OpenTry \/ EmitHandler \/ HandlersTruncated \/ HandlersDone
      BY <2>6, HandlersKeepMethods
    <2>7. CASE ClassesDone \/ NameEntry \/ NextKind \/ UNCHANGED vars
      BY <2>7, NamesKeepMethods
    <2>. QED BY <2>1, <2>2, <2>3, <2>4, <2>5, <2>6, <2>7, Zenon DEF Next, Work, Terminating
  <1>. QED BY <1>1, <1>2, HandlersInvariant, NamesInvariant, PTL DEF Spec

\* In the end the methods declared as imported are those without code or of a class
\* left out, and the functions are all others whose code is in the file.
THEOREM AllMethodsAreDeclared == Spec => []MethodsAreDeclared
  <1>1. MethodsInv /\ HandlersInv => MethodsAreDeclared
    <2> SUFFICES ASSUME MethodsInv, HandlersInv, Done PROVE MethodsAreDeclared
      BY DEF MethodsAreDeclared
    <2>1. input \in Inputs /\ IsReader(reader) /\ walk.class \in Nat /\ ~InClass
          /\ walk.class \notin DOMAIN input.classes
      BY DEF MethodsInv, HandlersInv, Done, InClass
    <2>2. ASSUME NEW c
          PROVE  /\ c \in WalkedClasses <=> Walked(c)
                 /\ Walked(c) => c < walk.class
      <3>1. c \in WalkedClasses <=> Walked(c)
        BY <2>1, WalkedFacts DEF WalkedClasses, Walked
      <3>2. c \in DOMAIN input.classes => c < walk.class
        BY <2>1, ClassesFacts
      <3>. QED BY <3>1, <3>2 DEF Walked
    <2>3. ASSUME NEW c, NEW k
          PROVE  IsPassed(walk, InClass, c, k) <=>
                   /\ c \in WalkedClasses
                   /\ k \in {n \in 1 .. NumMethods(c) : \A j \in 1 .. n : IsSound(c, j)}
      BY <2>1, <2>2 DEF IsPassed
    <2>4. ASSUME NEW c, NEW m
          PROVE  m \in MethodsOf(c) <=>
                   \E k \in {n \in 1 .. NumMethods(c) : \A j \in 1 .. n : IsSound(c, j)} :
                     m = [method |-> IndexOf(c, k), code |-> CodeAt(c, k)]
      BY Zenon DEF MethodsOf, NumMethods, CodeAt
    <2> DEFINE E == UNION {{m.method : m \in {x \in MethodsOf(c) : IsLeftOut(c) \/ x.code = 0}} :
                             c \in WalkedClasses}
               F == UNION {{Insns(m.code) : m \in {x \in MethodsOf(c) : x.code # 0 /\ HasCode(x.code)}} :
                             c \in {x \in WalkedClasses : ~IsLeftOut(x)}}
    <2>5. ASSUME NEW x
          PROVE  x \in E <=> x \in out.externals
      <3>1. x \in E <=> \E c \in WalkedClasses : \E m \in MethodsOf(c) :
                          (IsLeftOut(c) \/ m.code = 0) /\ x = m.method
        OBVIOUS
      <3>2. x \in out.externals <=>
              \E c, k : IsPassed(walk, InClass, c, k) /\ IsImported(c, k) /\ x = IndexOf(c, k)
        BY DEF MethodsInv, Declared
      <3> HIDE DEF E
      <3>3. \A y, z : LET m == [method |-> y, code |-> z] IN m.method = y /\ m.code = z
        OBVIOUS
      <3>4. x \in E => x \in out.externals
        <4> SUFFICES ASSUME x \in E PROVE x \in out.externals
          OBVIOUS
        <4>0. PICK c \in WalkedClasses : \E m \in MethodsOf(c) :
                (IsLeftOut(c) \/ m.code = 0) /\ x = m.method
          BY <3>1
        <4>1. PICK m \in MethodsOf(c) : (IsLeftOut(c) \/ m.code = 0) /\ x = m.method
          BY <4>0
        <4>2. PICK k \in {n \in 1 .. NumMethods(c) : \A j \in 1 .. n : IsSound(c, j)} :
                m = [method |-> IndexOf(c, k), code |-> CodeAt(c, k)]
          BY <2>4
        <4>3. IsPassed(walk, InClass, c, k)
          BY <2>3
        <4>4. IsImported(c, k) /\ x = IndexOf(c, k)
          BY <3>3, <4>1, <4>2 DEF IsImported
        <4>. QED BY <3>2, <4>3, <4>4
      <3>5. x \in out.externals => x \in E
        <4> SUFFICES ASSUME x \in out.externals PROVE x \in E
          OBVIOUS
        <4>1. PICK c, k : IsPassed(walk, InClass, c, k) /\ IsImported(c, k) /\ x = IndexOf(c, k)
          BY <3>2
        <4> DEFINE m == [method |-> IndexOf(c, k), code |-> CodeAt(c, k)]
        <4>2. c \in WalkedClasses /\ m \in MethodsOf(c)
          BY <2>3, <2>4, <4>1
        <4>3. m.method = IndexOf(c, k) /\ m.code = CodeAt(c, k)
          OBVIOUS
        <4> HIDE DEF m
        <4>4. (IsLeftOut(c) \/ m.code = 0) /\ x = m.method
          BY <4>1, <4>3 DEF IsImported
        <4>. QED BY <3>1, <4>2, <4>4
      <3>. QED BY <3>4, <3>5
    <2>6. ASSUME NEW x
          PROVE  x \in F <=> x \in out.functions
      <3>1. x \in F <=> \E c \in WalkedClasses : ~IsLeftOut(c) /\ \E m \in MethodsOf(c) :
                          m.code # 0 /\ HasCode(m.code) /\ x = Insns(m.code)
        OBVIOUS
      <3>2. x \in out.functions <=>
              \E c, k : IsPassed(walk, InClass, c, k) /\ HasBody(c, k) /\ x = Insns(CodeAt(c, k))
        BY DEF MethodsInv, Declared
      <3> HIDE DEF F
      <3>3. \A y, z : LET m == [method |-> y, code |-> z] IN m.method = y /\ m.code = z
        OBVIOUS
      <3>4. x \in F => x \in out.functions
        <4> SUFFICES ASSUME x \in F PROVE x \in out.functions
          OBVIOUS
        <4>0. PICK c \in WalkedClasses : ~IsLeftOut(c) /\ \E m \in MethodsOf(c) :
                m.code # 0 /\ HasCode(m.code) /\ x = Insns(m.code)
          BY <3>1
        <4>1. PICK m \in MethodsOf(c) :
                ~IsLeftOut(c) /\ m.code # 0 /\ HasCode(m.code) /\ x = Insns(m.code)
          BY <4>0
        <4>2. PICK k \in {n \in 1 .. NumMethods(c) : \A j \in 1 .. n : IsSound(c, j)} :
                m = [method |-> IndexOf(c, k), code |-> CodeAt(c, k)]
          BY <2>4
        <4>3. IsPassed(walk, InClass, c, k)
          BY <2>3
        <4>4. m.code = CodeAt(c, k)
          BY <3>3, <4>2
        <4>5. HasBody(c, k) /\ x = Insns(CodeAt(c, k))
          BY <4>1, <4>4 DEF HasBody, IsImported
        <4>. QED BY <3>2, <4>3, <4>5
      <3>5. x \in out.functions => x \in F
        <4> SUFFICES ASSUME x \in out.functions PROVE x \in F
          OBVIOUS
        <4>1. PICK c, k : IsPassed(walk, InClass, c, k) /\ HasBody(c, k) /\ x = Insns(CodeAt(c, k))
          BY <3>2
        <4> DEFINE m == [method |-> IndexOf(c, k), code |-> CodeAt(c, k)]
        <4>2. c \in WalkedClasses /\ m \in MethodsOf(c)
          BY <2>3, <2>4, <4>1
        <4>3. m.code = CodeAt(c, k)
          OBVIOUS
        <4> HIDE DEF m
        <4>4. ~IsLeftOut(c) /\ m.code # 0 /\ HasCode(m.code) /\ x = Insns(m.code)
          BY <4>1, <4>3 DEF HasBody, IsImported
        <4>. QED BY <3>1, <4>2, <4>4
      <3>. QED BY <3>4, <3>5
    <2>7. out.externals = E /\ out.functions = F
      <3> HIDE DEF E, F
      <3>. QED BY <2>5, <2>6
    <2>. QED BY <2>7, Zenon DEF MethodsAreDeclared
  <1>. QED BY <1>1, MethodsInvariant, HandlersInvariant, PTL
===============================================================================
