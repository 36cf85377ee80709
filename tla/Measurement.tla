----------------------------- MODULE Measurement -----------------------------
(***************************************************************************)
(* What the benchmark measures: research.c on the time register, from      *)
(* scheduler_start over the timer interrupts to the summary, in both       *)
(* builds.  ContextSwitch is the model of what a switch does to registers  *)
(* and translations; here a switch takes time, and the question is what    *)
(* the printed ticks say.                                                  *)
(*                                                                         *)
(* Time may pass between any two steps.  The user program runs whenever it *)
(* may; an enabled timer interrupt is taken before its next instruction,   *)
(* while the kernel, with SIE clear, leaves it pending.  The 64-bit time   *)
(* register does not wrap: it counts 58000 years.                          *)
(***************************************************************************)
EXTENDS Integers

CONSTANTS
    QUANTUM,      \* BENCHMARK_QUANTUM_TICKS
    SWITCHES,     \* BENCHMARK_SWITCHES
    ENTRY,        \* bound: ticks from an interrupt until trap_handler reads the time
    HANDLER       \* bound: ticks from an interrupt, or from the first arming, until sret

ASSUME TicksAssumption ==
    /\ QUANTUM \in Nat \ {0}
    /\ SWITCHES \in Nat \ {0}
    /\ ENTRY \in Nat /\ HANDLER \in Nat /\ ENTRY <= HANDLER

VARIABLES
    time, timer,        \* the time register and the time the timer expires at
    stie,               \* timer interrupts enabled
    pc,                 \* the next step of the kernel, "user", or "finished"
    spent, ran,         \* ticks of this stay in the kernel, of this turn of the program
    switch_count,
    total, max,         \* address_space_switch_ticks_total and _max
    began,              \* vm_enable's start
    benchmark_start_ticks,
    elapsed             \* elapsed_ticks, when printed

measured == <<switch_count, total, max, began, benchmark_start_ticks, elapsed>>
vars == <<time, timer, stie, pc, spent, ran, measured>>

Init ==
    /\ time = 0 /\ timer = 0
    /\ stie = TRUE
    /\ pc = "activate_first"
    /\ spent = 0 /\ ran = 0
    /\ switch_count = 0 /\ total = 0 /\ max = 0 /\ began = 0
    /\ benchmark_start_ticks = 0 /\ elapsed = 0

-----------------------------------------------------------------------------
(* Time. *)

Pending == stie /\ time >= timer

Bound == IF pc = "entry" THEN ENTRY ELSE HANDLER

\* A tick in the kernel.
KernelTick ==
    /\ pc \notin {"user", "finished"}
    /\ spent < Bound
    /\ time' = time + 1
    /\ spent' = spent + 1
    /\ UNCHANGED <<timer, stie, pc, ran, measured>>

\* A tick of the user program.
UserTick ==
    /\ pc = "user" /\ ~Pending
    /\ time' = time + 1
    /\ ran' = ran + 1
    /\ UNCHANGED <<timer, stie, pc, spent, measured>>

-----------------------------------------------------------------------------
(* scheduler_start *)

Record(ticks) ==
    /\ total' = total + ticks
    /\ max' = IF ticks > max THEN ticks ELSE max

\* process_activate(processes[0]): vm_enable reads the time on both sides of the
\* switch and records it, like every other.
ActivateFirst ==
    /\ pc = "activate_first"
    /\ began' = time
    /\ pc' = "activated_first"
    /\ UNCHANGED <<time, timer, stie, spent, ran, switch_count, total, max,
                   benchmark_start_ticks, elapsed>>

ActivatedFirst ==
    /\ pc = "activated_first"
    /\ Record(time - began)
    /\ pc' = "arm"
    /\ UNCHANGED <<time, timer, stie, spent, ran, switch_count, began,
                   benchmark_start_ticks, elapsed>>

Arm ==
    /\ pc = "arm"
    /\ timer' = time + QUANTUM
    /\ spent' = 0
    /\ pc' = "reset"
    /\ UNCHANGED <<time, stie, ran, measured>>

\* Mutant: what was recorded before the start stays.
ResetTime ==
    /\ pc = "reset"
    /\ switch_count' = 0
    /\ benchmark_start_ticks' = time
    /\ pc' = "resume"
    /\ UNCHANGED <<time, timer, stie, spent, ran, total, max, began, elapsed>>

\* research_reset
Reset ==
    /\ pc = "reset"
    /\ switch_count' = 0 /\ total' = 0 /\ max' = 0
    /\ benchmark_start_ticks' = time
    /\ pc' = "resume"
    /\ UNCHANGED <<time, timer, stie, spent, ran, began, elapsed>>

-----------------------------------------------------------------------------
(* A timer interrupt. *)

Interrupt ==
    /\ pc = "user" /\ Pending
    /\ spent' = 0
    /\ pc' = "entry"
    /\ UNCHANGED <<time, timer, stie, ran, measured>>

\* Mutant: the timer is left as it is, to be set when the switch is done.
SetTimerNot ==
    /\ pc = "entry"
    /\ pc' = "schedule"
    /\ UNCHANGED <<time, timer, stie, spent, ran, measured>>

\* trap_handler: the next quantum counts from here.
SetTimer ==
    /\ pc = "entry"
    /\ timer' = time + QUANTUM
    /\ pc' = "schedule"
    /\ UNCHANGED <<time, stie, spent, ran, measured>>

\* scheduler_on_timer, up to vm_enable's first look at the time
Schedule ==
    /\ pc = "schedule"
    /\ switch_count' = switch_count + 1
    /\ began' = time
    /\ pc' = "switching"
    /\ UNCHANGED <<time, timer, stie, spent, ran, total, max, benchmark_start_ticks, elapsed>>

\* vm_enable's second look
Switched ==
    /\ pc = "switching"
    /\ Record(time - began)
    /\ pc' = IF switch_count = SWITCHES THEN "summary" ELSE "resume"
    /\ UNCHANGED <<time, timer, stie, spent, ran, switch_count, began,
                   benchmark_start_ticks, elapsed>>

\* Mutant: the timer is set again on the way out.
ResumeArming ==
    /\ pc = "resume"
    /\ timer' = time + QUANTUM
    /\ ran' = 0
    /\ pc' = "user"
    /\ UNCHANGED <<time, stie, spent, measured>>

Resume ==
    /\ pc = "resume"
    /\ ran' = 0
    /\ pc' = "user"
    /\ UNCHANGED <<time, timer, stie, spent, measured>>

\* research_print_summary, and the timer interrupt is disabled; the program that is
\* resumed then runs for good.
Summary ==
    /\ pc = "summary"
    /\ elapsed' = time - benchmark_start_ticks
    /\ stie' = FALSE
    /\ pc' = "finished"
    /\ UNCHANGED <<time, timer, spent, ran, switch_count, total, max, began, benchmark_start_ticks>>

Finished == pc = "finished" /\ UNCHANGED vars

Next ==
    \/ KernelTick \/ UserTick
    \/ ActivateFirst \/ ActivatedFirst \/ Arm \/ Reset
    \/ Interrupt \/ SetTimer \/ Schedule \/ Switched \/ Resume \/ Summary
    \/ Finished

Spec == Init /\ [][Next]_vars

-----------------------------------------------------------------------------
(* Properties. *)

TypeOK ==
    /\ time \in Nat /\ timer \in Nat
    /\ stie \in BOOLEAN
    /\ pc \in {"activate_first", "activated_first", "arm", "reset", "user", "entry", "schedule",
               "switching", "resume", "summary", "finished"}
    /\ spent \in Nat /\ spent <= HANDLER
    /\ ran \in Nat
    /\ switch_count \in Nat /\ switch_count <= SWITCHES
    /\ total \in Nat /\ max \in Nat /\ elapsed \in Nat
    /\ began \in Nat /\ began <= time
    /\ benchmark_start_ticks \in Nat /\ benchmark_start_ticks <= time

\* The printed ticks are those of the SWITCHES measured switches and of nothing else,
\* the first activation excluded: they fit into the elapsed time, so that the fraction
\* of the time spent switching is one, and the maximum is not below the average
\* (scheduler.c:43-61, vm.c:360-440, research.c:166-212).
CostsFit ==
    pc = "finished" =>
        /\ switch_count = SWITCHES
        /\ max <= total /\ total <= SWITCHES * max
        /\ total <= elapsed

\* Quanta do not add up the time of the handlers: each is counted from the entry of
\* the interrupt before it, so a run of SWITCHES switches takes SWITCHES quanta, but for
\* what the entries cost and one handler at each end, unless handlers outlast quanta
\* (trap.c:62-77, scheduler.c:43-61).
QuantaKept ==
    pc = "finished" =>
        /\ elapsed + HANDLER >= SWITCHES * QUANTUM
        /\ HANDLER <= QUANTUM => elapsed <= SWITCHES * QUANTUM + SWITCHES * ENTRY + HANDLER

\* A program is interrupted only after it has run for what is left of its quantum, and
\* never twice without running when the handler is shorter than the quantum: both
\* programs get work done before the summary (trap.c:62-77).
TurnsAreWhole == pc = "entry" => ran + HANDLER >= QUANTUM

=============================================================================
