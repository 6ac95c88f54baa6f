------------------------------- MODULE MCLeLoad -------------------------------
(* Small Linear Executables for LeLoad: pages of four cells, a u32 is two.   *)
EXTENDS LeLoad, TLC

CONSTANTS Sym1, Sym2, ModA, ModB

Internal(src, offs, o, off) ==
  [src |-> src, offs |-> offs, target |-> "internal", obj |-> o, off |-> off]

Ordinal(offs, m, ord) ==
  [src |-> "off32", offs |-> offs, target |-> "ordinal", mod |-> m, ord |-> ord]

Name(offs, m, name) ==
  [src |-> "off32", offs |-> offs, target |-> "name", mod |-> m, name |-> name]

Via(offs) == [src |-> "off32", offs |-> offs, target |-> "entry"]

Object(size, mapidx, mapsize) ==
  [size |-> size, perm |-> TRUE, mapidx |-> mapidx, mapsize |-> mapsize]

Preload(num) == [num |-> num, flags |-> "preload"]

Bundle(type, count, o, offs) == [type |-> type, count |-> count, obj |-> o, offs |-> offs]

Names(ords) == [k \in DOMAIN ords |-> [sym |-> k, ord |-> ords[k]]]

\* Two objects of two pages; the second starts with the description block of a
\* VxD, and a table of services follows it.
Plain ==
  [vxd |-> FALSE, lx |-> FALSE, page_size |-> 0, page_off |-> 100, num_pages |-> 4,
   last_page |-> 0, mods |-> <<ModA, ModB>>, objects |-> <<Object(6, 1, 2), Object(8, 3, 2)>>,
   readable |-> 2, before |-> Preload(0), pages |-> [k \in 1 .. 4 |-> Preload(k)], has_fixups |-> TRUE,
   fixups |-> [k \in 1 .. 4 |-> <<>>], names |-> 1 :> Sym1 @@ 2 :> Sym2 @@ 3 :> NoName @@ 4 :> Eof,
   junk |-> {}, bundles |-> <<>>, nametables |-> <<<<>>, <<>>>>, eip |-> <<1, 0>>,
   esp |-> <<0, 0>>, services |-> 0, raw |-> 0]

\* A straddling fixup is in the tables of both pages.
MCRecords ==
  {Internal("off32", <<3>>, 2, 1), Internal("off16", <<0, 2>>, 1, 5),
   Internal("rel32", <<1>>, 2, 0), Internal("ptr32", <<0>>, 1, 2),
   Internal("other", <<0>>, 1, 2), Internal("off32", <<0>>, 3, 2),
   Ordinal(<<0>>, 1, 1), Ordinal(<<2>>, 2, 1), Ordinal(<<0>>, 3, 1),
   Name(<<0>>, 1, 1), Name(<<2>>, 2, 2), Name(<<2>>, 2, 1), Name(<<2>>, 1, 3), Name(<<0>>, 2, 4), Via(<<0>>)}

MCFixups ==
  {[Plain EXCEPT !.fixups[1] = <<f, g>>, !.fixups[3] = <<h>>, !.mods = m,
      !.fixups[2] = IF 3 \in {f.offs[1], g.offs[1]} THEN <<Internal("off32", <<-1>>, 2, 1), h>>
                    ELSE <<h>>] :
     f, g, h \in MCRecords, m \in {<<ModA, ModB>>, <<NoName, ModB>>}}

MCPages ==
  {[Plain EXCEPT !.pages = p, !.last_page = l, !.objects = o, !.page_size = z, !.readable = r,
      !.fixups = [k \in 1 .. 4 |-> <<Internal("off32", <<0>>, 1, k)>>]] :
     p \in {[k \in 1 .. n |-> IF k = 2 THEN e ELSE Preload(k)] :
              n \in 3 .. 4, e \in [num : {0, 2}, flags : {"preload", "zeroed", "other"}]},
     l \in {0, 3}, z \in {0, 2}, r \in 1 .. 2,
     o \in {<<Object(6, 1, 2), Object(8, 3, 2)>>, <<Object(3, 4, 1), Object(8, 1, 2)>>,
            <<[Object(6, 1, 2) EXCEPT !.perm = FALSE], Object(3, 3, 1)>>, <<>>}}

MCLx ==
  {[Plain EXCEPT !.lx = TRUE, !.has_fixups = f, !.page_off = o,
      !.before = [off |-> 0, size |-> 0, flags |-> "other"], !.pages =
      [k \in 1 .. 4 |-> [off |-> 4 * k - 4, size |-> IF k = 2 THEN n ELSE 4, flags |-> "preload"]],
      !.fixups = [k \in 1 .. 4 |-> <<Internal("off32", <<0>>, 1, k)>>]] :
     f \in BOOLEAN, o \in {0, 100}, n \in {0, 2, 4}}

\* A first page that is the start of the file, and an object of no size.
MCAtStart ==
  {[Plain EXCEPT !.page_off = 0, !.objects[1].size = s,
      !.fixups = [k \in 1 .. 4 |-> <<Internal("off32", <<0>>, 1, k)>>]] : s \in {0, 6}}

\* An object that takes what is in front of the page map for its first page, and
\* what was on the stack for its fixups.
MCInFront ==
  {[Plain EXCEPT !.objects[1].mapidx = 0, !.before = e,
      !.fixups = [k \in 0 .. 4 |-> IF k = 0 THEN f ELSE <<Internal("off32", <<0>>, 1, k)>>]] :
     e \in [num : {0, 2}, flags : {"preload", "zeroed", "other"}],
     f \in {<<>>} \cup [1 .. 1 -> MCRecords]}

MCTruncated ==
  {[Plain EXCEPT !.fixups[1] = <<f, Eof, f>>, !.junk = {Internal("off32", <<0>>, 1, 0), Ordinal(<<2>>, 2, 1)}] :
     f \in MCRecords}

\* Any table of three bundles, with a VxD whose block it may find.
MCBundles ==
  {Bundle("unused", 2, 0, <<>>), Bundle("16bit", 2, 1, <<1, 2>>), Bundle("32bit", 2, 2, <<0, 3>>),
   Bundle("286gate", 2, 1, <<>>), Bundle("32bit", 2, 2, <<4>>), Bundle("other", 1, 1, <<>>),
   Bundle("16bit", 1, 3, <<0>>)}

MCExports ==
  {[Plain EXCEPT !.bundles = b, !.nametables = <<Names(<<0, 1, o>>), <<Names(<<5>>)[1], Eof>>>>] :
     b \in UNION {[1 .. n -> MCBundles] : n \in 0 .. 3}, o \in 2 .. 4}

Block == <<Internal("off32", <<0>>, 1, 4), Internal("off32", <<2>>, 1, 1)>>

MCVxd ==
  {[Plain EXCEPT !.vxd = TRUE, !.objects[2] = Object(12, 3, 3), !.pages = [k \in 1 .. 5 |-> Preload(k)],
      !.num_pages = 5, !.bundles = <<b>>, !.raw = r, !.services = n,
      !.fixups = [k \in 1 .. 5 |-> CASE k = 3 -> Block
                                     [] k = 4 -> <<Internal("off32", <<0>>, 1, 2), s>>
                                     [] k = 5 -> <<Internal("off32", <<0>>, 1, 3), Internal("off32", <<2>>, 1, 0)>>
                                     [] OTHER -> <<>>]] :
     b \in MCBundles, r \in {0, 7}, n \in 0 .. 3,
     s \in {Internal("off32", <<2>>, 2, 8), Internal("other", <<2>>, 2, 8)}}

MCInputs == MCFixups \cup MCPages \cup MCLx \cup MCAtStart \cup MCInFront \cup MCTruncated \cup MCExports \cup MCVxd
===============================================================================
