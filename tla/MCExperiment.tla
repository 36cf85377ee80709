----------------------------- MODULE MCExperiment -----------------------------
(***************************************************************************)
(* Experiment with a kernel that prints one other line before the header.  *)
(***************************************************************************)
EXTENDS Experiment

MCOutput == <<"text", "header", "row">>

=============================================================================
