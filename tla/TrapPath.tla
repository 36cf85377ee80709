------------------------------ MODULE TrapPath ------------------------------
(***************************************************************************)
(* trap_entry.S and trap.c in the shell build: how a program, or the       *)
(* kernel itself, is interrupted by a trap and goes on.  The assembly is   *)
(* followed register by register, because what it may overwrite, and when, *)
(* is all that can be wrong in it.  ContextSwitch has the timer interrupt, *)
(* which this build masks, and Syscall what a call does.                   *)
(*                                                                         *)
(* Four registers are used on the way and have names here; the other 27    *)
(* are only saved and loaded, and are the set Others.  The kernel stack is *)
(* counted in trap frames.  The kernel may store to a bad address inside a *)
(* handler, by trigger_store_page_fault: nothing calls it any more, but it *)
(* is what the supervisor branch of trap_entry and the skipped instruction *)
(* in trap_handler are for.                                                *)
(* An address in a program counts half words, the unit of an instruction.  *)
(***************************************************************************)
EXTENDS Integers, Sequences

CONSTANTS
    Others,          \* registers that are neither sp, t0, t6 nor a0
    Files,           \* what the registers may hold while a program or C code computes
    Results,         \* what a system call may return
    Addresses,       \* where a program may trap
    STACK,           \* the frames a kernel stack holds; its top as an address
    NESTED,          \* bound: store faults of the kernel inside each other
    USER_ENTRY, USER_STACK_TOP,
    TRIGGER          \* where trigger_store_page_fault stores

Regs == {"sp", "t0", "t6", "a0"} \cup Others
Slots == Regs \cup {"sepc", "sstatus"}

ASSUME RegistersAssumption ==
    /\ Others \cap {"sp", "t0", "t6", "a0", "sepc", "sstatus"} = {}
    /\ Files # {} /\ Files \subseteq [Regs -> Int]
    /\ Results \subseteq Int

ASSUME StackAssumption ==
    /\ NESTED \in Nat
    /\ STACK \in Nat /\ STACK > 2 * NESTED + 1
    /\ Addresses \subseteq Int
    /\ USER_ENTRY \in Int /\ USER_STACK_TOP \in Int /\ TRIGGER \in Int

VARIABLES
    x,               \* the registers
    at,              \* where the program, or the kernel's C code, is
    pc,              \* "user", "kernel" (C code), a step of the trap path, or "parked"
    sscratch, sepc, scause,
    spp,             \* sstatus.SPP: 0 for U-mode, 1 for S-mode
    mem,             \* the kernel stack, from its lowest frame
    calls,           \* the calls of trap_handler under way, and their locals
    suspended        \* what each trap under way has interrupted (not in the code)

csrs == <<sscratch, sepc, scause, spp>>
vars == <<x, at, pc, csrs, mem, calls, suspended>>

Last(s) == s[Len(s)]
Front(s) == [i \in 1 .. Len(s) - 1 |-> s[i]]

\* An ecall has four bytes, as has the store of trigger_store_page_fault, which is
\* assembled without compression; a store of a program has four or two.
Lengths(cause) == IF cause = "store" THEN {1, 2} ELSE {2}

-----------------------------------------------------------------------------
(* Starting a process. *)

\* clear_frame, and the three fields process_create sets
FreshFrame ==
    [s \in Slots |-> CASE s = "sp" -> USER_STACK_TOP [] s = "sepc" -> USER_ENTRY [] OTHER -> 0]

\* process_start: trap_resume with the frame at the top of the new stack.
Init ==
    /\ \E y \in Files : x = [y EXCEPT !["a0"] = STACK - 1]
    /\ at = TRIGGER
    /\ pc = "restore"
    /\ sscratch = 0 /\ sepc = 0 /\ scause = "none" /\ spp = 0
    /\ mem = [[f \in 0 .. STACK - 1 |-> [s \in Slots |-> 0]] EXCEPT ![STACK - 1] = FreshFrame]
    /\ calls = <<>>
    /\ suspended = <<[x |-> [r \in Regs |-> FreshFrame[r]], at |-> USER_ENTRY, length |-> 0,
                      spp |-> 0, cause |-> "none"]>>

-----------------------------------------------------------------------------
(* The hardware. *)

Trap(file, address, length, mode, cause) ==
    /\ x' = file /\ at' = address
    /\ sepc' = address /\ scause' = cause /\ spp' = mode
    /\ pc' = "trap_entry"
    /\ suspended' = Append(suspended, [x |-> file, at |-> address, length |-> length,
                                       spp |-> mode, cause |-> cause])
    /\ UNCHANGED <<sscratch, mem, calls>>

\* A program computes, and traps.
UserTrap ==
    /\ pc = "user"
    /\ \E y \in Files, a \in Addresses, c \in {"ecall", "store", "other"} :
          \E l \in Lengths(c) : Trap(y, a, l, 0, c)

\* trigger_store_page_fault: C code has used some more of its stack, and stores.
KernelFault ==
    /\ pc = "kernel"
    /\ Len(calls) <= NESTED
    /\ \E y \in Files, used \in 0 .. 1 :
          Trap([y EXCEPT !["sp"] = Last(calls).frame - used], TRIGGER, 2, 1, "store")

-----------------------------------------------------------------------------
(* trap_entry *)

Swap ==
    /\ pc = "trap_entry"
    /\ x' = [x EXCEPT !["sp"] = sscratch]
    /\ sscratch' = x["sp"]
    /\ pc' = IF sscratch # 0 THEN "from_user" ELSE "from_kernel"
    /\ UNCHANGED <<at, sepc, scause, spp, mem, calls, suspended>>

\* The stack pointer goes back; the frame is put under the interrupted stack.
FromKernel ==
    /\ pc = "from_kernel"
    /\ LET f == sscratch - 1
       IN  /\ mem' = [mem EXCEPT ![f]["t0"] = x["t0"], ![f]["sp"] = f + 1]
           /\ x' = [x EXCEPT !["sp"] = f, !["t0"] = f + 1]
    /\ sscratch' = x["sp"]
    /\ pc' = "save"
    /\ UNCHANGED <<at, sepc, scause, spp, calls, suspended>>

FromUser ==
    /\ pc = "from_user"
    /\ LET f == x["sp"] - 1
       IN  /\ mem' = [mem EXCEPT ![f]["t0"] = x["t0"], ![f]["sp"] = sscratch]
           /\ x' = [x EXCEPT !["sp"] = f, !["t0"] = sscratch]
    /\ sscratch' = 0
    /\ pc' = "save"
    /\ UNCHANGED <<at, sepc, scause, spp, calls, suspended>>

\* Mutant: t0 is stored with the others, after it was used.
SaveT0 ==
    /\ pc = "save"
    /\ LET f == x["sp"]
       IN  /\ mem' = [mem EXCEPT ![f] =
                        [s \in Slots |-> CASE s = "sepc" -> sepc
                                           [] s = "sstatus" -> spp
                                           [] s = "sp" -> @[s]
                                           [] OTHER -> x[s]]]
           /\ x' = [x EXCEPT !["t0"] = spp, !["a0"] = f]
    /\ pc' = "trap_handler"
    /\ UNCHANGED <<at, csrs, calls, suspended>>

\* The other registers, and the two status registers by way of t0.
Save ==
    /\ pc = "save"
    /\ LET f == x["sp"]
       IN  /\ mem' = [mem EXCEPT ![f] =
                        [s \in Slots |-> CASE s = "sepc" -> sepc
                                           [] s = "sstatus" -> spp
                                           [] s \in {"sp", "t0"} -> @[s]
                                           [] OTHER -> x[s]]]
           /\ x' = [x EXCEPT !["t0"] = spp, !["a0"] = f]
    /\ pc' = "trap_handler"
    /\ UNCHANGED <<at, csrs, calls, suspended>>

-----------------------------------------------------------------------------
(* trap_handler *)

\* The cause is read first; what is not expected stops the machine.
TrapHandler ==
    /\ pc = "trap_handler"
    /\ calls' = Append(calls, [frame |-> x["a0"], cause |-> scause, advanced |-> FALSE])
    /\ pc' = IF scause = "other" \/ (scause = "ecall" /\ mem[x["a0"]]["sstatus"] = 1)
             THEN "parked" ELSE "kernel"
    /\ UNCHANGED <<x, at, csrs, mem, suspended>>

\* frame->sepc += 4, of a store fault, or first thing in syscall_handle
Advance ==
    /\ pc = "kernel" /\ ~Last(calls).advanced
    /\ mem' = [mem EXCEPT ![Last(calls).frame]["sepc"] = @ + 2]
    /\ calls' = [calls EXCEPT ![Len(calls)].advanced = TRUE]
    /\ UNCHANGED <<x, at, pc, csrs, suspended>>

\* exit, and a number that is no system call
Stop ==
    /\ pc = "kernel" /\ Last(calls).advanced /\ Last(calls).cause = "ecall"
    /\ pc' = "parked"
    /\ UNCHANGED <<x, at, csrs, mem, calls, suspended>>

\* The handler returns the frame; a system call has set its a0.  C code leaves
\* nothing but the stack pointer as it was.
Return ==
    /\ pc = "kernel" /\ Last(calls).advanced
    /\ LET f == Last(calls).frame
       IN  /\ IF Last(calls).cause = "ecall"
              THEN \E result \in Results : mem' = [mem EXCEPT ![f]["a0"] = result]
              ELSE UNCHANGED mem
           /\ \E y \in Files : x' = [y EXCEPT !["sp"] = f, !["a0"] = f]
    /\ calls' = Front(calls)
    /\ pc' = "restore"
    /\ UNCHANGED <<at, csrs, suspended>>

-----------------------------------------------------------------------------
(* trap_restore *)

\* Mutant: sscratch is left pointing at the frame.
RestoreCsrsFrame ==
    /\ pc = "restore"
    /\ LET f == x["a0"]
           status == mem[f]["sstatus"]
       IN  /\ sepc' = mem[f]["sepc"]
           /\ spp' = status
           /\ sscratch' = IF status = 0 THEN f ELSE 0
           /\ x' = [x EXCEPT !["t6"] = f, !["t0"] = IF status = 0 THEN f ELSE status]
    /\ pc' = "restore_registers"
    /\ UNCHANGED <<at, scause, mem, calls, suspended>>

RestoreCsrs ==
    /\ pc = "restore"
    /\ LET f == x["a0"]
           status == mem[f]["sstatus"]
       IN  /\ sepc' = mem[f]["sepc"]
           /\ spp' = status
           /\ sscratch' = IF status = 0 THEN f + 1 ELSE 0
           /\ x' = [x EXCEPT !["t6"] = f, !["t0"] = IF status = 0 THEN f + 1 ELSE status]
    /\ pc' = "restore_registers"
    /\ UNCHANGED <<at, scause, mem, calls, suspended>>

\* Every register but t6, which the loads go through.
RestoreRegisters ==
    /\ pc = "restore_registers"
    /\ x' = [r \in Regs |-> IF r = "t6" THEN x["t6"] ELSE mem[x["t6"]][r]]
    /\ pc' = "restore_t6"
    /\ UNCHANGED <<at, csrs, mem, calls, suspended>>

\* t6 last, and sret.
RestoreT6 ==
    /\ pc = "restore_t6"
    /\ x' = [x EXCEPT !["t6"] = mem[x["t6"]]["t6"]]
    /\ at' = sepc
    /\ pc' = IF spp = 0 THEN "user" ELSE "kernel"
    /\ spp' = 0
    /\ suspended' = Front(suspended)
    /\ UNCHANGED <<sscratch, sepc, scause, mem, calls>>

Parked == pc = "parked" /\ UNCHANGED vars

Next ==
    \/ UserTrap \/ KernelFault
    \/ Swap \/ FromKernel \/ FromUser \/ Save
    \/ TrapHandler \/ Advance \/ Stop \/ Return
    \/ RestoreCsrs \/ RestoreRegisters \/ RestoreT6
    \/ Parked

Spec == Init /\ [][Next]_vars

-----------------------------------------------------------------------------
(* Properties. *)

\* Whoever was interrupted goes on with all its registers as they were, except for the
\* result of a system call in a0, at the next instruction and in its own mode: however
\* its trap was interrupted by others.  A program whose faulting store is a compressed
\* one goes on two bytes behind its next instruction (trap.c:112).
TrapsAreTransparent ==
    [][pc = "restore_t6" =>
          LET c == Last(suspended)
          IN  /\ \A r \in Regs : x'[r] = c.x[r] \/ (r = "a0" /\ c.cause = "ecall")
              /\ at' = IF c.length = 1 THEN c.at + c.length + 1 ELSE c.at + c.length
              /\ pc' = IF c.spp = 0 THEN "user" ELSE "kernel"]_vars

\* A program can always trap, onto an empty kernel stack: nothing of it is lost from one
\* trap to the next.  C code of the kernel can trap too, is known not to be a program,
\* and every frame lies under the stack of the code it interrupted.
StackNeverLost ==
    /\ pc = "user" => sscratch = STACK /\ calls = <<>> /\ suspended = <<>>
    /\ pc = "kernel" =>
          /\ sscratch = 0
          /\ Len(calls) = Len(suspended)
          /\ calls[1].frame = STACK - 1
          /\ \A i \in 2 .. Len(calls) : calls[i].frame = suspended[i].x["sp"] - 1
                                        /\ calls[i].frame < calls[i - 1].frame

=============================================================================
