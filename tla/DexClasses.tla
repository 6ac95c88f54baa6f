------------------------------ MODULE DexClasses ------------------------------
(***************************************************************************)
(* What the DEX loader does once the segments are there: it walks the      *)
(* classes, declares every method as imported or as a function with the    *)
(* edges to its exception handlers, and then names prototypes, methods,    *)
(* types and fields.                                                       *)
(*                                                                         *)
(* One reader is in the middle of a class_data_item, a list of handlers,   *)
(* or both, when names or code are read elsewhere.  All names are built in *)
(* two scratch buffers of the loader: what dex_type_descriptor returns is  *)
(* gone when the next string is read.                                      *)
(*                                                                         *)
(* The file is read through the address space; an entry of a table that is *)
(* not mapped is Eof.  Indices are 0-based as in the file.                 *)
(***************************************************************************)
EXTENDS Integers, Sequences, FiniteSets

CONSTANTS
  Inputs,     \* the files the loader may be given
  U64, U32,   \* one more than the largest value of each type
  Eof,        \* a read that fails
  Bad,        \* a string that is out of bounds, truncated or malformed
  NoName,     \* the name that is NULL
  TypeName,   \* of a descriptor: _dex_append_type_name drops its package
  Sanitized,  \* of a string: _dex_append_sanitized
  Prefixes    \* of a descriptor: the prefixes of the rules that it starts with

ASSUME WidthAssumption == U32 \in Nat \ {0} /\ U64 \in Nat /\ U32 < U64

\* A string has the prefixes of its prefixes, and two packages are not mixed up.
ASSUME PrefixesAssumption ==
  \A text \in DOMAIN Prefixes :
    \/ Prefixes[text] = {}
    \/ Prefixes[text] = {"Ljava/"}
    \/ Prefixes[text] = {"Landroid/"}
    \/ Prefixes[text] = {"Landroid/", "Landroid/support/"}

\* The tables of ids have no gaps, the fields of code and tries are unsigned, and
\* class data and a list of handlers are lists of numbers.
IsTable(table) ==
  LET n == Cardinality(DOMAIN table) IN n \in Nat /\ DOMAIN table = 0 .. n - 1

ASSUME InputsAssumption ==
  \A f \in Inputs :
    /\ IsTable(f.protos) /\ IsTable(f.methods) /\ IsTable(f.types) /\ IsTable(f.fields)
    /\ IsTable(f.classes)
    /\ \A i \in DOMAIN f.strings : f.strings[i] # Bad => f.strings[i] \in DOMAIN Prefixes
    /\ \A a \in DOMAIN f.data :
         f.data[a] \in Seq(Nat) /\ \A n \in DOMAIN f.data[a] : f.data[a][n] # Eof
    /\ \A a \in DOMAIN f.codes : f.codes[a] # Eof =>
         a \in Nat /\ f.codes[a].insns_size \in Nat /\ f.codes[a].tries_size \in Nat
    /\ \A a \in DOMAIN f.tries : f.tries[a] # Eof =>
         f.tries[a].start_addr \in Nat /\ f.tries[a].handler_off \in Nat
    /\ \A a \in DOMAIN f.lists :
         f.lists[a] \in Seq(Int) /\ \A n \in DOMAIN f.lists[a] : f.lists[a][n] # Eof

VARIABLES
  input,    \* the file and the loader's options, never changed
  pc,       \* where dex_walk_classes is, then "names", then "done"
  walk,     \* the class at hand: [class, skip, counts, list, left, method]
  emit,     \* the method at hand: [insns, tries, n, i, start, typed, all]
  next,     \* the name to be given next: [kind, i]
  reader,   \* [pos, stack]
  bufs,     \* [string_buf, name_buf, ok]
  out       \* what the engine was told: [externals, functions, names, edges, comments]

vars == <<input, pc, walk, emit, next, reader, bufs, out>>

-------------------------------------------------------------------------------
(* The reader.                                                             *)

At(r, pos) == [r EXCEPT !.pos = pos]

Saved(r) == [r EXCEPT !.stack = Append(@, r.pos)]

Restored(r) == [pos |-> r.stack[Len(r.stack)], stack |-> SubSeq(r.stack, 1, Len(r.stack) - 1)]

\* A position in a list of LEB128 numbers: the table, its offset, how many are read.
Ahead(r, n) == [r EXCEPT !.pos[3] = @ + n]

Delivers(table, pos, n) ==
  IF pos[2] \in DOMAIN table /\ pos[3] + n \in DOMAIN table[pos[2]]
    THEN table[pos[2]][pos[3] + n]
    ELSE Eof

\* The n-th number from where the reader stands.
Leb(r, n) ==
  CASE r.pos[1] = "data" -> Delivers(input.data, r.pos, n)
    [] r.pos[1] = "list" -> Delivers(input.lists, r.pos, n)
    [] OTHER             -> Eof

\* Something is read elsewhere.
Elsewhere(r, pos) == Restored(At(Saved(r), pos))

-------------------------------------------------------------------------------
(* Names.  ok is whether the calls so far have returned a string; nothing  *)
(* is called after one that has not.                                       *)

Start(b) == [b EXCEPT !.ok = TRUE]

Cleared(b) == [b EXCEPT !.name = IF b.ok THEN <<>> ELSE @]

Failed(b) == [b EXCEPT !.ok = FALSE]

\* The entry i of a table of ids.
Readable(table, i) == i \in DOMAIN table /\ table[i] # Eof

\* dex_read_string into string_buf.
ReadString(b, i) ==
  CASE ~b.ok                                                            -> b
    [] b.ok /\ i \in DOMAIN input.strings /\ input.strings[i] # Bad     ->
         [b EXCEPT !.string = input.strings[i]]
    [] OTHER                                                            -> Failed(b)

Descriptor(b, type) ==
  IF Readable(input.types, type) THEN ReadString(b, input.types[type]) ELSE Failed(b)

\* Append what string_buf holds to name_buf.
AppendType(b) == [b EXCEPT !.name = IF b.ok THEN Append(@, TypeName[b.string]) ELSE @]

AppendName(b) == [b EXCEPT !.name = IF b.ok THEN Append(@, Sanitized[b.string]) ELSE @]

TypeNamed(b, i) == AppendType(Cleared(Descriptor(Start(b), i)))

ProtoNamed(b, i) ==
  IF Readable(input.protos, i)
    THEN AppendName(Cleared(ReadString(Start(b), input.protos[i].shorty)))
    ELSE Failed(b)

\* mutant: the strings are fetched first and appended later
MethodNamed_Aliased(b, i) ==
  IF Readable(input.methods, i) /\ Readable(input.protos, input.methods[i].proto)
    THEN LET id == input.methods[i]
             fetched == ReadString(ReadString(Descriptor(Cleared(Start(b)), id.class), id.name),
                                   input.protos[id.proto].shorty)
         IN  AppendName(AppendName(AppendType(fetched)))
    ELSE Failed(b)

MethodNamed(b, i) ==
  IF Readable(input.methods, i) /\ Readable(input.protos, input.methods[i].proto)
    THEN LET id == input.methods[i]
             class == AppendType(Descriptor(Cleared(Start(b)), id.class))
             name  == AppendName(ReadString(class, id.name))
         IN  AppendName(ReadString(name, input.protos[id.proto].shorty))
    ELSE Failed(b)

FieldNamed(b, i) ==
  IF Readable(input.fields, i)
    THEN LET id == input.fields[i]
             class == AppendType(Descriptor(Cleared(Start(b)), id.class))
         IN  AppendName(ReadString(class, id.name))
    ELSE Failed(b)

\* What the caller gets.
Result(b) == IF b.ok THEN b.name ELSE NoName

Entry(kind, i) == <<kind, i>>

\* Library names, and those with "_entry" at the end, are never NULL but in one
\* place: rd_format is given the name of a function unchecked.
Library(at, name) == [level |-> "library", at |-> at, name |-> name]

EntryOf(at, name) == [level |-> "entry", at |-> at, name |-> name]

AutoName(at, name) == [level |-> "auto", at |-> at, name |-> name]

-------------------------------------------------------------------------------
(* dex_walk_classes.                                                       *)

Rule(option, prefix) == [option |-> option, prefix |-> prefix]

\* DEX_SKIP_RULES; the rules without a common beginning are all alike.
SkipRules ==
  <<Rule("skip_support", "Landroid/support/"), Rule("skip_android", "Landroid/"),
    Rule("skip_java", "Ljava/")>>

Matches(k, text) == SkipRules[k].prefix \in Prefixes[text]

\* _dex_class_is_skipped: the first rule that matches decides.
IsSkipped(text) ==
  \E k \in DOMAIN SkipRules :
    /\ Matches(k, text)
    /\ \A j \in 1 .. k - 1 : ~Matches(j, text)
    /\ SkipRules[k].option \in input.options

FieldIds == Cardinality(DOMAIN input.fields)

MethodIds == Cardinality(DOMAIN input.methods)

\* "declares implausible counts": n is static, instance, direct, virtual.
Implausible(n) ==
  \/ (n[1] + n[2]) % U64 > FieldIds
  \/ (n[3] + n[4]) % U64 > MethodIds

Counts(r) == [k \in 1 .. 4 |-> Leb(r, k)]

ClassData(cd) == At(Saved(reader), <<"data", cd.data, 0>>)

\* A class is not walked if it cannot be read, has no data, or has data that are
\* out of bounds, truncated or implausible.
IsWalked(cd) ==
  /\ cd # Eof
  /\ cd.data # 0 /\ cd.data < input.file_size
  /\ \A k \in 1 .. 4 : Leb(ClassData(cd), k) # Eof
  /\ ~Implausible(Counts(ClassData(cd)))

NextClass == [walk EXCEPT !.class = @ + 1]

PassClass ==
  /\ pc = "classes"
  /\ walk.class \in DOMAIN input.classes
  /\ LET cd == input.classes[walk.class] IN
     /\ ~IsWalked(cd)
     /\ bufs' = IF cd = Eof THEN bufs ELSE Descriptor(Start(bufs), cd.class)
  /\ walk' = NextClass
  /\ UNCHANGED <<input, pc, emit, next, reader, out>>

OpenClass ==
  /\ pc = "classes"
  /\ walk.class \in DOMAIN input.classes
  /\ LET cd == input.classes[walk.class] IN
     /\ IsWalked(cd)
     /\ bufs' = Descriptor(Start(bufs), cd.class)
     /\ walk' = [walk EXCEPT !.skip = bufs'.ok /\ IsSkipped(bufs'.string),
                             !.counts = Counts(ClassData(cd)), !.list = 1,
                             !.left = Leb(ClassData(cd), 1), !.method = 0]
     /\ reader' = Ahead(ClassData(cd), 4)
  /\ pc' = "lists"
  /\ UNCHANGED <<input, emit, next, out>>

\* The end of _dex_walk_class_data, regular or not.
CloseClass ==
  /\ pc' = "classes"
  /\ walk' = NextClass
  /\ reader' = Restored(reader)

Truncated(n) == \E k \in 1 .. n : Leb(reader, k) = Eof

InFields == pc = "lists" /\ walk.list \in 1 .. 2 /\ walk.left > 0

InMethods == pc = "lists" /\ walk.list \in 3 .. 4 /\ walk.left > 0

\* A turn of _dex_skip_fields.
SkipField ==
  /\ InFields
  /\ ~Truncated(2)
  /\ reader' = Ahead(reader, 2)
  /\ walk' = [walk EXCEPT !.left = @ - 1]
  /\ UNCHANGED <<input, pc, emit, next, bufs, out>>

FieldsTruncated ==
  /\ InFields
  /\ Truncated(2)
  /\ CloseClass
  /\ UNCHANGED <<input, emit, next, bufs, out>>

FirstMethod_KeepsIndex(w) == w.method             \* mutant: not reset for the second list

\* methodidx at the start of a list.
FirstMethod(w) == 0

NextList ==
  /\ pc = "lists"
  /\ walk.left = 0
  /\ walk.list < 4
  /\ walk' = [walk EXCEPT !.list = @ + 1, !.left = walk.counts[walk.list + 1],
                          !.method = FirstMethod(walk)]
  /\ UNCHANGED <<input, pc, emit, next, reader, bufs, out>>

ListsDone ==
  /\ pc = "lists"
  /\ walk.left = 0
  /\ walk.list = 4
  /\ CloseClass
  /\ UNCHANGED <<input, emit, next, bufs, out>>

\* The record of _dex_walk_methods where the reader stands.
MethodIndex == (walk.method + Leb(reader, 1)) % U64

CodeOff == Leb(reader, 3)

IsGoodMethod == ~Truncated(3) /\ MethodIndex \in DOMAIN input.methods /\ CodeOff < U32

BadMethod ==
  /\ InMethods
  /\ ~IsGoodMethod
  /\ CloseClass
  /\ UNCHANGED <<input, emit, next, bufs, out>>

\* _dex_emit_method, whatever becomes of the method: it is named first.
EmitMethod ==
  /\ InMethods
  /\ IsGoodMethod
  /\ bufs' = MethodNamed(bufs, MethodIndex)
  /\ walk' = [walk EXCEPT !.left = @ - 1, !.method = MethodIndex]

IsExternal == walk.skip \/ CodeOff = 0

\* The instructions begin behind the header of a code_item, in units of 2 bytes.
HeaderSize == 16

TrySize == 8

Insns(off) == off + HeaderSize

AlignUp(n, to) == ((n + to - 1) \div to) * to

EndOf(off) == Insns(off) + 2 * input.codes[off].insns_size

HasCode(off) ==
  /\ off < input.file_size
  /\ Readable(input.codes, off)
  /\ input.codes[off].insns_size > 0
  /\ EndOf(off) <= input.file_size

TriesOf_Unaligned(off) == EndOf(off)                  \* mutant: no padding

TriesOf(off) == AlignUp(EndOf(off), 4)

HandlersOf(off) == TriesOf(off) + input.codes[off].tries_size * TrySize

EmitExternal ==
  /\ EmitMethod
  /\ IsExternal
  /\ LET at == Entry("method", MethodIndex) IN
     out' = [out EXCEPT !.externals = @ \cup {MethodIndex},
               !.names = IF bufs'.ok THEN @ \cup {Library(at, bufs'.name)} ELSE @]
  /\ reader' = Ahead(reader, 3)
  /\ UNCHANGED <<input, pc, emit, next>>

\* The code is out of bounds or truncated: the method is left as it is.
RejectCode ==
  /\ EmitMethod
  /\ ~IsExternal
  /\ ~HasCode(CodeOff)
  /\ reader' = Elsewhere(Ahead(reader, 3), <<"code", CodeOff>>)
  /\ UNCHANGED <<input, pc, emit, next, out>>

EmitFunction ==
  /\ EmitMethod
  /\ ~IsExternal
  /\ HasCode(CodeOff)
  /\ LET insns == Insns(CodeOff)
         name == Result(bufs')
     IN  /\ out' = [out EXCEPT !.functions = @ \cup {insns},
                      !.names = @ \cup {EntryOf(Entry("method", MethodIndex), name)} \cup
                                (IF name = NoName THEN {} ELSE {Library(Entry("insns", insns), name)})]
         /\ IF input.codes[CodeOff].tries_size > 0 /\ HandlersOf(CodeOff) < input.file_size
              THEN /\ pc' = "tries"
                   /\ emit' = [emit EXCEPT !.insns = insns, !.tries = TriesOf(CodeOff),
                                 !.n = input.codes[CodeOff].tries_size, !.i = 0]
              ELSE UNCHANGED <<pc, emit>>
  /\ reader' = Elsewhere(Ahead(reader, 3), <<"code", CodeOff>>)
  /\ UNCHANGED <<input, next>>

-------------------------------------------------------------------------------
(* _dex_emit_handlers, _dex_emit_handler_list.                             *)

\* The try_item at hand.
TryItem ==
  LET a == emit.tries + emit.i * TrySize IN
  IF Readable(input.tries, a) THEN input.tries[a] ELSE Eof

ListOf(t) == At(Saved(reader), <<"list", emit.tries + emit.n * TrySize + t.handler_off, 0>>)

NextTry == [emit EXCEPT !.i = @ + 1]

Comment(at, text) == <<at, text>>

TriesDone ==
  /\ pc = "tries"
  /\ emit.i = emit.n \/ TryItem = Eof
  /\ pc' = "lists"
  /\ UNCHANGED <<input, walk, emit, next, reader, bufs, out>>

TryStart == emit.insns + 2 * TryItem.start_addr

\* A try_item without handlers, or whose list cannot be read.
PassTry ==
  /\ pc = "tries"
  /\ emit.i < emit.n
  /\ TryItem # Eof
  /\ TryItem.handler_off = 0 \/ Leb(ListOf(TryItem), 1) = Eof
  /\ emit' = NextTry
  /\ out' = IF TryItem.handler_off = 0 THEN out
            ELSE [out EXCEPT !.comments = @ \cup {Comment(TryStart, "try")}]
  /\ UNCHANGED <<input, pc, walk, next, reader, bufs>>

Magnitude(n) == IF n < 0 THEN -n ELSE n

OpenTry ==
  /\ pc = "tries"
  /\ emit.i < emit.n
  /\ TryItem # Eof
  /\ TryItem.handler_off # 0
  /\ LET size == Leb(ListOf(TryItem), 1) IN
     /\ size # Eof
     /\ emit' = [emit EXCEPT !.start = TryStart, !.typed = Magnitude(size), !.all = size <= 0]
  /\ reader' = Ahead(ListOf(TryItem), 1)
  /\ out' = [out EXCEPT !.comments = @ \cup {Comment(TryStart, "try")}]
  /\ pc' = "handlers"
  /\ UNCHANGED <<input, walk, next, bufs>>

HandlerAt(units) == emit.insns + 2 * units

CloseList ==
  /\ reader' = Restored(reader)
  /\ emit' = NextTry
  /\ pc' = "tries"

EmitHandler ==
  /\ pc = "handlers"
  /\ emit.typed > 0
  /\ ~Truncated(2)
  /\ bufs' = Descriptor(Start(bufs), Leb(reader, 1) % U32)
  /\ LET handler == HandlerAt(Leb(reader, 2)) IN
     out' = [out EXCEPT !.edges = @ \cup {<<emit.start, handler>>},
               !.comments = @ \cup {Comment(handler, IF bufs'.ok THEN bufs'.string ELSE "?")}]
  /\ reader' = Elsewhere(Ahead(reader, 2), <<"types", Leb(reader, 1)>>)
  /\ emit' = [emit EXCEPT !.typed = @ - 1]
  /\ UNCHANGED <<input, pc, walk, next>>

HandlersTruncated ==
  /\ pc = "handlers"
  /\ \/ emit.typed > 0 /\ Truncated(2)
     \/ emit.typed = 0 /\ emit.all /\ Truncated(1)
  /\ CloseList
  /\ UNCHANGED <<input, walk, next, bufs, out>>

HandlersDone ==
  /\ pc = "handlers"
  /\ emit.typed = 0
  /\ ~(emit.all /\ Truncated(1))
  /\ LET handler == HandlerAt(Leb(reader, 1)) IN
     out' = IF emit.all
              THEN [out EXCEPT !.edges = @ \cup {<<emit.start, handler>>},
                      !.comments = @ \cup {Comment(handler, "all")}]
              ELSE out
  /\ CloseList
  /\ UNCHANGED <<input, walk, next, bufs>>

-------------------------------------------------------------------------------
(* The names dex_load gives after the walk.                                *)

ClassesDone ==
  /\ pc = "classes"
  /\ walk.class \notin DOMAIN input.classes
  /\ pc' = "names"
  /\ UNCHANGED <<input, walk, emit, next, reader, bufs, out>>

Kinds == <<"proto", "method", "type", "field">>

Table(kind) ==
  CASE kind = "proto"  -> input.protos
    [] kind = "method" -> input.methods
    [] kind = "type"   -> input.types
    [] kind = "field"  -> input.fields

Named(kind, i) ==
  CASE kind = "proto"  -> ProtoNamed(bufs, i)
    [] kind = "method" -> MethodNamed(bufs, i)
    [] kind = "type"   -> TypeNamed(bufs, i)
    [] kind = "field"  -> FieldNamed(bufs, i)

\* A turn of the loops of _dex_name_protos and the others.
NameEntry ==
  /\ pc = "names"
  /\ next.kind <= Len(Kinds)
  /\ next.i \in DOMAIN Table(Kinds[next.kind])
  /\ bufs' = Named(Kinds[next.kind], next.i)
  /\ out' = [out EXCEPT !.names = @ \cup
       {n \in {AutoName(Entry(Kinds[next.kind], next.i), Result(bufs'))} : bufs'.ok}]
  /\ next' = [next EXCEPT !.i = @ + 1]
  /\ UNCHANGED <<input, pc, walk, emit, reader>>

NextKind ==
  /\ pc = "names"
  /\ next.kind <= Len(Kinds)
  /\ next.i \notin DOMAIN Table(Kinds[next.kind])
  /\ next' = [kind |-> next.kind + 1, i |-> 0]
  /\ pc' = IF next.kind = Len(Kinds) THEN "done" ELSE pc
  /\ UNCHANGED <<input, walk, emit, reader, bufs, out>>
-------------------------------------------------------------------------------

Init ==
  /\ input \in Inputs
  /\ pc = "classes"
  /\ walk = [class |-> 0, skip |-> FALSE, counts |-> <<0, 0, 0, 0>>, list |-> 1, left |-> 0,
             method |-> 0]
  /\ emit = [insns |-> 0, tries |-> 0, n |-> 0, i |-> 0, start |-> 0, typed |-> 0, all |-> FALSE]
  /\ next = [kind |-> 1, i |-> 0]
  /\ reader = [pos |-> <<"start">>, stack |-> <<>>]
  /\ bufs = [string |-> NoName, name |-> <<>>, ok |-> FALSE]
  /\ out = [externals |-> {}, functions |-> {}, names |-> {}, edges |-> {}, comments |-> {}]

Work ==
  \/ PassClass \/ OpenClass
  \/ SkipField \/ FieldsTruncated \/ NextList \/ ListsDone
  \/ BadMethod \/ EmitExternal \/ RejectCode \/ EmitFunction
  \/ TriesDone \/ PassTry \/ OpenTry
  \/ EmitHandler \/ HandlersTruncated \/ HandlersDone
  \/ ClassesDone \/ NameEntry \/ NextKind

Terminating == pc = "done" /\ UNCHANGED vars

Next == Work \/ Terminating

Spec == Init /\ [][Next]_vars
-------------------------------------------------------------------------------
(* Correctness.                                                            *)

Done == pc = "done"

\* The string with an index, or Bad.
TextOf(i) == IF i \in DOMAIN input.strings THEN input.strings[i] ELSE Bad

DescriptorOf(t) == IF Readable(input.types, t) THEN TextOf(input.types[t]) ELSE Bad

ShortyOf(p) == IF Readable(input.protos, p) THEN TextOf(input.protos[p].shorty) ELSE Bad

\* What is in the name of an entry, before it is made fit for a name: the type
\* first, where there is one.
PartsOf(kind, i) ==
  LET id == Table(kind)[i] IN
  CASE id = Eof        -> <<Bad>>
    [] id # Eof /\ kind = "proto"  -> <<ShortyOf(i)>>
    [] id # Eof /\ kind = "method" -> <<DescriptorOf(id.class), TextOf(id.name), ShortyOf(id.proto)>>
    [] id # Eof /\ kind = "type"   -> <<DescriptorOf(i)>>
    [] id # Eof /\ kind = "field"  -> <<DescriptorOf(id.class), TextOf(id.name)>>

NameOf(kind, i) ==
  LET parts == PartsOf(kind, i) IN
  IF \E k \in DOMAIN parts : parts[k] = Bad THEN NoName
  ELSE [k \in DOMAIN parts |->
          IF k = 1 /\ kind # "proto" THEN TypeName[parts[k]] ELSE Sanitized[parts[k]]]

\* Whatever was read into the shared buffers before and in between, an entry is
\* given its own name, made of its own strings, and in the end every entry whose
\* strings can be read has one.
NamesAreTheirOwn ==
  /\ \A n \in out.names : n.at[1] # "insns" => n.name = NameOf(n.at[1], n.at[2])
  /\ Done => \A k \in 1 .. Len(Kinds) : \A i \in DOMAIN Table(Kinds[k]) :
       NameOf(Kinds[k], i) # NoName =>
         AutoName(Entry(Kinds[k], i), NameOf(Kinds[k], i)) \in out.names

\* What a class says of its methods, as the format defines it: indices are sums of
\* the differences in one list.
LebOf(c, n) == Delivers(input.data, <<"data", input.classes[c].data, 0>>, n)

WalkedClasses == {c \in DOMAIN input.classes : IsWalked(input.classes[c])}

MethodAt(c, k) == 4 + 2 * (LebOf(c, 1) + LebOf(c, 2)) + 3 * (k - 1)

ListStart(c, k) == IF k <= LebOf(c, 3) THEN 1 ELSE LebOf(c, 3) + 1

IsPresent(c, k) == \A n \in 1 .. MethodAt(c, k) + 3 : LebOf(c, n) # Eof

SumsOf(c) ==
  LET sum[k \in 1 .. LebOf(c, 3) + LebOf(c, 4)] ==
        LebOf(c, MethodAt(c, k) + 1) + (IF k = ListStart(c, k) THEN 0 ELSE sum[k - 1])
  IN  sum

IndexOf(c, k) == SumsOf(c)[k] % U64

IsSound(c, k) ==
  /\ IsPresent(c, k)
  /\ IndexOf(c, k) \in DOMAIN input.methods
  /\ LebOf(c, MethodAt(c, k) + 3) < U32

\* Its methods up to the first one that is not sound.
MethodsOf(c) ==
  {[method |-> IndexOf(c, k), code |-> LebOf(c, MethodAt(c, k) + 3)] :
     k \in {n \in 1 .. LebOf(c, 3) + LebOf(c, 4) : \A j \in 1 .. n : IsSound(c, j)}}

\* A class is left out by the option for the most specific of its packages.
IsLeftOut(c) ==
  LET text == DescriptorOf(input.classes[c].class) IN
  text # Bad /\ (CASE "Landroid/support/" \in Prefixes[text] -> "skip_support" \in input.options
                   [] "Ljava/" \in Prefixes[text]            -> "skip_java" \in input.options
                   [] Prefixes[text] = {"Landroid/"}         -> "skip_android" \in input.options
                   [] OTHER                                  -> FALSE)

\* The walk of a class is not led astray by the code, the handlers and the strings
\* read in the middle of it: in the end the methods declared as imported are those
\* without code or of a class left out, and the functions are all others whose code
\* is in the file.
MethodsAreDeclared ==
  Done =>
    /\ out.externals =
         UNION {{m.method : m \in {x \in MethodsOf(c) : IsLeftOut(c) \/ x.code = 0}} :
                  c \in WalkedClasses}
    /\ out.functions =
         UNION {{Insns(m.code) : m \in {x \in MethodsOf(c) : x.code # 0 /\ HasCode(x.code)}} :
                  c \in {x \in WalkedClasses : ~IsLeftOut(x)}}

\* The lists of handlers in the file, by where a try_item and a list are: those of
\* the method whose instructions are at insns.
CodeOf(insns) == insns - HeaderSize

PadTo4(n) == CHOOSE a \in n .. n + 3 : a % 4 = 0

TableOf(insns) == PadTo4(insns + 2 * input.codes[CodeOf(insns)].insns_size)

TryAt(insns, i) ==
  LET a == TableOf(insns) + i * TrySize IN IF a \in DOMAIN input.tries THEN input.tries[a] ELSE Eof

ListAt(insns, t) ==
  LET a == TableOf(insns) + input.codes[CodeOf(insns)].tries_size * TrySize + t.handler_off
  IN  IF a \in DOMAIN input.lists THEN input.lists[a] ELSE <<>>

\* The numbers of a list are its size, pairs of type and address, and the address
\* for all other types if the size is not positive.
TargetsOf(list) ==
  LET size == Magnitude(list[1])
      typed == {k \in 1 .. size : 2 * k + 1 \in DOMAIN list}
  IN  IF list = <<>> THEN {}
      ELSE {list[2 * k + 1] : k \in typed} \cup
           {list[2 * size + 2] : n \in {x \in {list[1]} : x <= 0 /\ 2 * size + 2 \in DOMAIN list}}

TriesIn(insns) ==
  {i \in 0 .. input.codes[CodeOf(insns)].tries_size - 1 :
     \A j \in 0 .. i : TryAt(insns, j) # Eof}

\* Exception handlers can be reached: in the end each handler of each protected
\* range has an edge from the start of the range, and there are no other edges.
HandlersAreReached ==
  Done =>
    out.edges =
      UNION {UNION {LET t == TryAt(f, i) IN
                    {<<f + 2 * t.start_addr, f + 2 * a>> :
                       a \in IF t.handler_off = 0 THEN {} ELSE TargetsOf(ListAt(f, t))} :
                    i \in TriesIn(f)} :
             f \in {x \in out.functions :
                      TableOf(x) + input.codes[CodeOf(x)].tries_size * TrySize < input.file_size}}
===============================================================================
