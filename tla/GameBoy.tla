------------------------------- MODULE GameBoy -------------------------------
(***************************************************************************)
(* The Game Boy as a whole: the engine has gb_load map the image and read  *)
(* its symbol file, and lets the processor follow the program when that is *)
(* done; an image that is rejected has none.  The loader's own steps are   *)
(* those of GbLoad, the processor's those of Sm83, and neither touches     *)
(* what the other keeps.                                                   *)
(***************************************************************************)
EXTENDS GbLoad, Sm83

GameBoyInit == GbInit /\ Init

LoadImage == GbNext /\ UNCHANGED vars

FollowProgram == pc = "loaded" /\ Next /\ UNCHANGED gbvars

GameBoyNext == LoadImage \/ FollowProgram

GameBoySpec == GameBoyInit /\ [][GameBoyNext]_<<gbvars, vars>>
==============================================================================
