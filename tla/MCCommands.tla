------------------------------ MODULE MCCommands ------------------------------
(***************************************************************************)
(* Commands for TLC, with a script and a few commands.                     *)
(***************************************************************************)
EXTENDS Commands, Samples
================================================================================
