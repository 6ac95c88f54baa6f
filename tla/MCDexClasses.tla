----------------------------- MODULE MCDexClasses -----------------------------
(* Small DEX files for DexClasses.                                           *)
EXTENDS DexClasses, TLC

CONSTANTS Support, Activity, Own, Plain, Run, Shorty

MCTypeName == Support :> "A" @@ Activity :> "B" @@ Own :> "A" @@ Plain :> "run" @@ Run :> "run"
              @@ Shorty :> "V"

MCSanitized == Support :> "s" @@ Activity :> "t" @@ Own :> "u" @@ Plain :> "p" @@ Run :> "run"
               @@ Shorty :> "V"

MCPrefixes == Support :> {"Landroid/support/", "Landroid/"} @@ Activity :> {"Landroid/"}
              @@ [x \in {Own, Plain, Run, Shorty} |-> {}]

\* Four methods of two classes; fields and prototypes share strings with them.
Base ==
  [options |-> {}, file_size |-> 300,
   strings |-> 0 :> Support @@ 1 :> Own @@ 2 :> Run @@ 3 :> Shorty @@ 4 :> Bad @@ 5 :> Activity,
   types   |-> 0 :> 0 @@ 1 :> 1 @@ 2 :> 4 @@ 3 :> Eof,
   protos  |-> 0 :> [shorty |-> 3] @@ 1 :> [shorty |-> 4],
   methods |-> 0 :> [class |-> 0, proto |-> 0, name |-> 2] @@ 1 :> [class |-> 1, proto |-> 0, name |-> 2]
               @@ 2 :> [class |-> 1, proto |-> 1, name |-> 3] @@ 3 :> [class |-> 3, proto |-> 0, name |-> 1],
   fields  |-> 0 :> [class |-> 1, name |-> 2] @@ 1 :> [class |-> 2, name |-> 2],
   classes |-> 0 :> [class |-> 0, data |-> 10] @@ 1 :> [class |-> 1, data |-> 30],
   data    |-> 10 :> <<0, 0, 1, 0, 0, 1, 100>> @@ 30 :> <<0, 0, 0, 1, 1, 1, 0>>,
   codes   |-> 100 :> [insns_size |-> 3, tries_size |-> 1] @@ 200 :> [insns_size |-> 2, tries_size |-> 0]
               @@ 290 :> [insns_size |-> 4, tries_size |-> 0] @@ 120 :> Eof,
   tries   |-> 124 :> [start_addr |-> 1, handler_off |-> 1],
   lists   |-> 133 :> <<1, 1, 2>>]

\* Class data: fields, then any three methods in two lists.
MCRecords == {<<0, 1, 100>>, <<1, 1, 200>>, <<2, 1, 0>>, <<1, 1, 290>>, <<1, 1, 120>>, <<1, 1, 950>>}

MCData ==
  {<<f, 1 - f, n, 3 - n>> \o <<0, 1>> \o a \o b \o c : f \in 0 .. 1, n \in 0 .. 3,
     a, b, c \in MCRecords}

MCLists == {[Base EXCEPT !.data[10] = d, !.options = o] : d \in MCData, o \in {{}, {"skip_support"}}}

\* Truncated and implausible ones.
MCTruncated ==
  {[Base EXCEPT !.data[10] = SubSeq(<<1, 1, 1, 2, 0, 1, 1, 1, 0, 1, 100, 1, 1, 0, 1, 1, 200>>, 1, k)] :
     k \in 0 .. 17}
  \cup {[Base EXCEPT !.data[10] = d] : d \in {<<2, 1, 0, 0>>, <<0, 0, 4, 1>>}}

MCClasses ==
  {[Base EXCEPT !.classes[0] = c, !.options = o, !.types[0] = t] :
     c \in {Eof, [class |-> 0, data |-> 0], [class |-> 2, data |-> 10], [class |-> 0, data |-> 400],
            [class |-> 0, data |-> 10]},
     o \in SUBSET {"skip_support", "skip_android", "skip_java"}, t \in {0, 1, 5}}

\* Any two protected ranges with any lists of handlers.
MCHandlers ==
  {<<>>, <<0>>, <<0, 3>>, <<2, 0, 1, 1, 2>>, <<-1, 1, 2, 3>>, <<-1, 2, 1>>, <<2, 1, 2, 0>>, <<1, 3, 2>>}

MCTries ==
  {[Base EXCEPT !.codes[100] = [insns_size |-> s, tries_size |-> 2],
      !.data[10] = <<0, 0, 2, 0, 0, 1, 100, 1, 1, 200>>,
      !.tries = [a \in {124, 132} |-> [start_addr |-> a % 5, handler_off |-> IF a = 124 THEN h ELSE 4]],
      !.lists = [a \in {141, 144} |-> IF a = 141 THEN l ELSE k], !.file_size = z] :
     s \in {3, 4}, l, k \in MCHandlers, h \in {0, 1}, z \in {140, 300}}
  \cup {[Base EXCEPT !.codes[100].tries_size = 2]}

MCStrings ==
  {[Base EXCEPT !.strings[i] = b, !.protos[1] = p] : i \in 0 .. 3, b \in {Bad, Plain}, p \in {Eof, [shorty |-> 2]}}

MCInputs == MCLists \cup MCTruncated \cup MCClasses \cup MCTries \cup MCStrings
===============================================================================
