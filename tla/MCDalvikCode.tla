---------------------------- MODULE MCDalvikCode ----------------------------
(* Methods for DalvikCode: every opcode with units of every kind, and        *)
(* methods of branches and switches.                                         *)
EXTENDS DalvikCode

\* The units of a method from address 0 on.
Method(units) == [a \in {2 * k : k \in 0..(Len(units) - 1)} |-> units[a \div 2 + 1]]

\* An opcode with the high byte and the tail behind it, cut short or followed
\* by an instruction with two indices.
Highs == {\h00, \h3D, \hF8}
Tails == {<<2, \hFFFF, \h8001, \h7FFF>>, <<\h8123, \h1256, 1, \hCDEF>>, <<1, 0, 3, 0>>}
Single ==
  {Method(<<op + 256 * high>> \o tail \o <<\hFA + 256 * \h20, 1, \h21, 0>>) :
     op \in (0..255) \ {\h1B}, high \in Highs, tail \in Tails}
  \cup {Method(SubSeq(<<op + 256 * \h21, 3, 2, 1, 0>>, 1, n)) : op \in 0..255, n \in 1..4}
  \cup {Method(<<\h1B + 256, i, j, \h1C, i>>) : i \in 0..4, j \in 0..1}

\* Two instructions with an index each, one of a range of methods or none.
Pairs ==
  {Method(<<x + 256, i, y + 256, j>>) :
     x, y \in {\h1A, \h1C, \h60, \hFE, \hFF}, i, j \in 0..3}
  \cup {Method(<<\h1C, i, \h74, j, 0, \hFD, k, 0>>) : i, j, k \in 0..3}

\* Two pieces of two or three units, a switch or none, returns, and a payload at
\* unit 10.
Pieces(at) ==
  {<<\h28 + 256 * k, \h0E>> : k \in {4, 256 - 2}}
  \cup {<<\h39, k, \h00>> : k \in {6, Word - 3, 10 - at}}
  \cup {<<\h34 + 256 * \h21, k, \h0E>> : k \in {4}}
  \cup {<<\h2A, k, IF k < 9 THEN 0 ELSE Word - 1>> : k \in {Word - 2}}
  \cup {<<op, 10 - at, 0>> : op \in {\h26, \h2B, \h2C}}
  \cup {<<\h0212, \h27>>}

Payloads ==
  {<<\h0100, 2, 7, 7, i, 0, j, 0>> : i \in {3, 7}, j \in {5, 9}}
  \cup {<<\h0100, 1, 3, 0, Word - 1, Word - 1>>, <<\h0100, 0, 3, 0, 6, 0>>}
  \cup {<<\h0200, 2, 4, 0, 6, 0, i, 0, j, 0>> : i \in {3, 7}, j \in {5, Word - 3}}
  \cup {<<\h0200, 2, 4, 0, 6, 0, 9, 0>>, <<\h0300, 2, 2, 0, \h28, \h0E>>,
        <<\h0300, 3, 1, 0, 5>>, <<\h0E, 2, 0, 0>>, <<\h0200>>}

Control ==
  UNION {
    {Method(SubSeq(p \o q \o r \o [k \in 1..6 |-> \h0E], 1, 10) \o payload) :
       r \in {<<>>, <<\h2C, 10 - Len(p) - Len(q), 0>>}, payload \in Payloads} :
    <<p, q>> \in UNION {{<<x, y>> : y \in Pieces(Len(x))} : x \in Pieces(0)}}

Table(off, size) == [off |-> off, size |-> size]
Text(data, leb) == [readable |-> TRUE, data |-> data, leb |-> leb]

\* Tables one behind the other, without call sites or with; one string cannot
\* be read, and one has a length of two bytes.
WholeFile ==
  LET base == [kind \in {"STRING", "TYPE", "PROTO", "FIELD", "METHOD"} |->
                 CASE kind = "STRING" -> Table(1000, 3)
                   [] kind = "TYPE" -> Table(1012, 2)
                   [] kind = "PROTO" -> Table(1020, 1)
                   [] kind = "FIELD" -> Table(1032, 3)
                   [] kind = "METHOD" -> Table(1056, 2)]
      more == [kind \in {"CALL_SITE", "METHOD_HANDLE"} |->
                 IF kind = "CALL_SITE" THEN Table(1072, 1) ELSE Table(1076, 2)]
      strings == [i \in 0..2 |->
                    CASE i = 0 -> Text(2000, 1)
                      [] i = 1 -> [readable |-> FALSE]
                      [] i = 2 -> Text(2010, 2)]
  IN  [valid |-> TRUE, strings |-> strings,
       table |-> [kind \in DOMAIN base \cup DOMAIN more |->
                    IF kind \in DOMAIN base THEN base[kind] ELSE more[kind]]]

NoHeader == [valid |-> FALSE, strings |-> <<>>, table |-> <<>>]

MCMethods ==
  [code : Single \cup Pairs, tables : {WholeFile, NoHeader}]
    \cup [code : Control, tables : {WholeFile}]

ASSUME TablesAssumption == \A m \in MCMethods : TablesApart(m.tables)

=============================================================================
