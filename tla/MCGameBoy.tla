------------------------------ MODULE MCGameBoy ------------------------------
(* The images of MCGbLoad and, for one of them, the programs of MCSm83.       *)
EXTENDS MCGbLoad, MCSm83, GameBoy

\* A ROM of a header and nothing else.
MCProgram == [Dmg EXCEPT !.length = 336]

\* Bound: the processor is followed through one image, as it looks at nothing of
\* an image but the constant Rom; and until it has missed a change of a register.
MCGameBoyFollowed ==
  /\ MCFollowed
  /\ image # MCProgram =>
       /\ cpu = [r \in DOMAIN cpu |-> 0] /\ functions = {}
       /\ path = "open" /\ deeds = Nothing
==============================================================================
