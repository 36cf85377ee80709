--------------------------------- MODULE Boot ---------------------------------
(***************************************************************************)
(* What the kernel has set up when the first program runs.                 *)
(***************************************************************************)

CONSTANTS
    Pid,         \* of the shell, the only process
    HelloText    \* of the only file, created by fs_init

=============================================================================
