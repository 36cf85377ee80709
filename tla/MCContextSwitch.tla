--------------------------- MODULE MCContextSwitch ---------------------------
(***************************************************************************)
(* ContextSwitch on a small instance.  WORD is small so that the work      *)
(* counter wraps; the hardware implements no ASID bit, one (too few), two  *)
(* (just enough), three, or all sixteen.                                   *)
(***************************************************************************)
EXTENDS ContextSwitch

MCAsidLens == {0, 1, 2, 3, 16}

=============================================================================
