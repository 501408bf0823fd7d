--------------------------- MODULE MCRunSupervision ---------------------------
(***************************************************************************)
(* Instances of RunSupervision: the platforms they consider.               *)
(***************************************************************************)
EXTENDS RunSupervision

BothPlatforms == {"posix", "win32"}
Posix == {"posix"}
=============================================================================
