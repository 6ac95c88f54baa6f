------------------------------- MODULE MCGbLoad -------------------------------
(* Game Boy images of one to three banks for GbLoad.                         *)
EXTENDS GbLoad

Symbol(bank, addr) ==
  [tokens |-> 2, boot |-> FALSE, hex |-> TRUE, bank |-> bank, addr |-> addr,
   is_name |-> TRUE, name |-> "s"]

Dmg == [length |-> 32768, header_checksum |-> TRUE, mapper |-> TRUE,
        rom_size |-> TRUE, ram_size |-> 0, cgb |-> FALSE, load_sym |-> FALSE,
        symbols |-> <<>>]

\* Lengths at the limits of a bank; every size of SRAM; both consoles.
MCMaps ==
  {[Dmg EXCEPT !.length = l, !.ram_size = r, !.cgb = c] :
     l \in {336, 16383, 16384, 16385, 32768, 32769}, r \in 0 .. 6, c \in BOOLEAN}

MCHeaders ==
  {[Dmg EXCEPT !.length = l, !.header_checksum = h, !.mapper = m, !.rom_size = r] :
     l \in {335, 336}, h \in BOOLEAN, m \in BOOLEAN, r \in BOOLEAN}

MCLines ==
  {Symbol(0, 336), Symbol(1, 16384), Symbol(2, 16384), Symbol(2, 53248),
   Symbol(0, 65535), [Symbol(0, 336) EXCEPT !.boot = TRUE],
   [Symbol(0, 336) EXCEPT !.tokens = 1], Symbol(0, 70000),
   [Symbol(1, 32768) EXCEPT !.is_name = FALSE]}

\* A second bank of a single byte is all the names need.
MCSymbols ==
  {[Dmg EXCEPT !.length = 16385, !.load_sym = TRUE, !.cgb = c, !.symbols = s] :
     c \in BOOLEAN, s \in [1 .. 2 -> MCLines]}

MCImages == MCMaps \cup MCHeaders \cup MCSymbols

\* The image of the run that shows where the code and its comments part.
MCWramSymbol == {[Dmg EXCEPT !.load_sym = TRUE, !.symbols = <<Symbol(1, 53248)>>]}
===============================================================================
