----------------------------- MODULE MCNeEntries ------------------------------
(* Small entry tables for NeEntries: two segments, bundles of up to two      *)
(* ordinals, ordinals below six.                                             *)
EXTENDS NeEntries

Entry(s, off) == [seg |-> s, off |-> off]

MCBundles ==
  {[count |-> c, seg |-> Unused, entries |-> <<>>] : c \in 1 .. 2} \cup
  {[count |-> 2, seg |-> s, entries |-> <<Entry(2, 1), Entry(9, 5)>>] :
     s \in {Movable, 1, 2, 3}} \cup
  {[count |-> 2, seg |-> 1, entries |-> <<Entry(1, 3)>>],
   [count |-> 0, seg |-> Unused, entries |-> <<>>]}

NoEntries == [count |-> 0, seg |-> Unused, entries |-> <<>>]

Name(n, o) == [name |-> n, ordinal |-> o]

MCNames == <<Name("m", 1), Name("a", 1), Name("b", 2), Name("c", 0),
             Name("d", 3), Name("e", 4), Name("f", 6)>>

MCSegs == <<[size |-> 6, exec |-> TRUE], [size |-> 8, exec |-> FALSE]>>

NEFile(l, bundles, names) ==
  [length |-> l, bundles |-> bundles, names |-> names, segs |-> MCSegs]

MCFiles ==
  {NEFile(l, bs \o <<NoEntries>>, MCNames) :
     l \in {9, 18}, bs \in [1 .. 3 -> MCBundles]} \cup
  {NEFile(l, <<>>, names) : l \in {0, 3}, names \in {<<>>, MCNames}}
===============================================================================
