----------------------------- MODULE MCTrapPath -----------------------------
(***************************************************************************)
(* TrapPath with one register besides the four that the trap path uses,    *)
(* and register files in which every register differs from the others and  *)
(* from all addresses of the kernel stack, or is zero, the stack pointer   *)
(* of a program included.                                                  *)
(***************************************************************************)
EXTENDS TrapPath

MCFiles ==
    LET distinct == [r \in Regs |-> CASE r = "sp" -> 11 [] r = "t0" -> 12 [] r = "t6" -> 13
                                      [] r = "a0" -> 14 [] OTHER -> 15]
    IN  {distinct, [r \in Regs |-> 0], [r \in Regs |-> distinct[r] + 10]}

=============================================================================
