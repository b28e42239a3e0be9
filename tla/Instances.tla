------------------------------ MODULE Instances ------------------------------
(***************************************************************************)
(* The processes of the program one user starts: what src/src/app/main.cpp  *)
(* is the life of.  They share files and settings and nothing else.         *)
(***************************************************************************)
CONSTANT Processes

Others(p) == Processes \ {p}
=============================================================================
