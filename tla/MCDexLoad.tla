------------------------------ MODULE MCDexLoad -------------------------------
(* Small DEX files for DexLoad: up to three map entries of three types.     *)
EXTENDS DexLoad

MCTypes == {0, 7, 8}

Items(offsets) ==
  {[type |-> t, size |-> 10 + t, offset |-> o] : t \in MCTypes, o \in offsets}

MCJunk == [type |-> 0, size |-> 99, offset |-> 1]

\* A file of 200 bytes with its map_list at 112 (three entries end at 152).
Plain == [length |-> 200, version |-> 35, header_size |-> HeaderSize,
          endian |-> "little", file_size |-> 200, map_off |-> 112,
          map_count |-> 3, junk |-> MCJunk,
          table |-> << [type |-> 0, size |-> 1, offset |-> 0],
                       [type |-> 7, size |-> 2, offset |-> 112],
                       [type |-> 8, size |-> 3, offset |-> 160] >>]

\* Any map: unsorted, repeated, out of bounds, not starting at the header,
\* with a border between segments in the header or in the map_list.
AnyMap ==
  {[Plain EXCEPT !.table = t, !.map_count = n, !.file_size = s] :
     t \in [1 .. 3 -> Items({0, 100, 130, 180})], n \in 1 .. 3, s \in {152, 200}}

\* Headers at the limits of each check.
AnyHeader ==
  {[Plain EXCEPT !.length = l, !.file_size = s, !.map_off = o,
                 !.map_count = n, !.table[1].offset = first] :
     l \in {111, 112, 114, 200}, s \in {60, 112, 151, 152, 200, 201},
     o \in {0, 4, 111, 112, 160}, n \in {0, 1, 2, 3, 4}, first \in {0, 1}}
  \cup
  {[Plain EXCEPT !.version = v, !.header_size = h, !.endian = e] :
     v \in {0, 35, 36, 41}, h \in {HeaderSize, 120},
     e \in {"little", "reverse", "other"}}

MCFiles == AnyMap \cup AnyHeader
===============================================================================
