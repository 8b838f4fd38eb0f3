---------------------------- MODULE MCFileSync -----------------------------
(* Model checking of FileSync. The contents users write are numbered by     *)
(* their operations, Cozy files by their creations, so that no symmetry is  *)
(* left to declare.                                                         *)
EXTENDS FileSync

BothSides == {"local", "remote"}
=============================================================================
