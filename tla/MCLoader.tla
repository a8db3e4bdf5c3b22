------------------------------- MODULE MCLoader --------------------------------
(***************************************************************************)
(* Loader for TLC: a file with valid lines and lines that break the first  *)
(* and the last rule, and one whose header makes parseLine panic.          *)
(***************************************************************************)
EXTENDS Loader

MCFiles == { <<0, 0, 9, 0, 0, 1, 9, 0, 0, 9, 0, 0, 1, 0, 0, 0>>, <<1, Panic, 0>> }

================================================================================
