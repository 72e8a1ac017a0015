---------------------------- MODULE MCTecnicoFS ----------------------------
(* Instances of TecnicoFS for TLC. *)
EXTENDS TecnicoFS, TLC

\* The modes the tests and the broker open files with.
OpenModes == {{}, {"CREAT"}, {"TRUNC", "CREAT"}, {"APPEND"}}

PlainModes == {{}, {"CREAT"}}

\* Malloc's junk: a zeroed name or any of the names.
AnyName == Names \cup {NULL}

ZeroedName == {NULL}

Symmetry == Permutations(Threads) \cup Permutations(Names)
=============================================================================
