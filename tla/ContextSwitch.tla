---------------------------- MODULE ContextSwitch ----------------------------
(***************************************************************************)
(* The benchmark build of Mini-RVOS on one hart, from the end of process   *)
(* creation on: the ASID probe, scheduler_start, the two user programs,    *)
(* and the whole path of a timer interrupt (trap_entry, trap_handler,      *)
(* scheduler_on_timer, process_activate, vm_enable or vm_enable_asid,      *)
(* trap_restore).  One action is one step of that path; between two steps  *)
(* the hardware may walk the current page table and cache a translation,   *)
(* the timer may expire, and an enabled interrupt may be taken.            *)
(*                                                                         *)
(* Abstractions: a register file is the program it belongs to (`who`,      *)
(* standing for sepc, sp and every register but one) and s11, the work     *)
(* counter; a page table is the number of the process it was built for; a  *)
(* program's private memory is one page; an ASID is the set of its one     *)
(* bits, so that the unwritable bits of satp can be cut off; a user frame  *)
(* is named by the process whose kernel stack it is on.                    *)
(***************************************************************************)
EXTENDS Integers

CONSTANTS
    BENCHMARK_USE_ASID,  \* the switch mode the kernel is built with
    BENCHMARK_SWITCHES,  \* preemptions before the summary
    WORD,                \* number of values of a machine word
    ASIDLENS             \* ASID widths of the hardware considered

ASSUME ModeAssumption == BENCHMARK_USE_ASID \in BOOLEAN
ASSUME SwitchesAssumption ==
    BENCHMARK_SWITCHES \in Nat /\ BENCHMARK_SWITCHES >= 2 /\ BENCHMARK_SWITCHES % 2 = 0
ASSUME WordAssumption == WORD \in Nat \ {0}
ASSUME AsidLenAssumption == ASIDLENS \subseteq 0..16

PROCESS_COUNT == 2
Processes == 1..PROCESS_COUNT
Nested == PROCESS_COUNT + 1      \* the frame of a trap taken in S-mode
FrameSlots == Processes \cup {Nested}
NoRoot == 0                      \* satp in Bare mode
Kernel == 0                      \* the registers hold kernel values

VM_ASID_MAX == 0..15
AsidOf(p) == {p - 1}             \* asid = pid: 1 is {0}, 2 is {1}

VARIABLES
    \* the hart
    pc,                    \* the next kernel step, or "user"
    mode,                  \* "U" or "S"
    sstatus,               \* [sie, spie: BOOLEAN, spp: {"U", "S"}]
    stie,                  \* supervisor timer interrupt enabled
    sscratch,              \* 0, or the process whose kernel stack top it holds
    satp,                  \* [asid, root]
    regs,                  \* [who, s11]
    asidlen,               \* ASID bits the hardware implements
    tlb,                   \* cached translations of the private page: [asid, root]
    armed, stip,           \* the timer is running; its interrupt is pending
    \* memory
    page,                  \* page[p]: who last wrote p's private page
    frames,                \* frames[f]: [who, s11, sstatus]
    process_frame,         \* process->frame
    current_process,       \* process.c; 0 before the first activation
    current_index,         \* scheduler.c
    switch_count,          \* scheduler.c
    timer_ticks,           \* trap.c
    context_switch_count,  \* research.c
    sfence_count,          \* research.c
    summary,               \* what research_print_summary printed
    \* locals of the running handler
    asid_bits,             \* main.c: what the ASID probe found
    a0,                    \* the frame being handled or restored
    caller                 \* who called process_activate: "start" or "timer"

hart     == <<mode, sstatus, stie, sscratch, regs, asidlen>>
xlate    == <<satp, tlb>>
timer    == <<armed, stip>>
schedule == <<process_frame, current_index, switch_count>>
research == <<timer_ticks, context_switch_count, sfence_count, summary>>
vars == <<pc, hart, xlate, timer, page, frames, schedule, current_process,
          research, asid_bits, a0, caller>>

NoSummary == [printed |-> FALSE, p1 |-> 0, p2 |-> 0, switches |-> 0, sfences |-> 0]
Bare == [asid |-> {}, root |-> NoRoot]
ClearedStatus == [sie |-> FALSE, spie |-> FALSE, spp |-> "U"]
NewFrame(p) == [who |-> p, s11 |-> 0, sstatus |-> ClearedStatus]

\* kernel_main after both calls of process_create.  The firmware starts the
\* kernel with interrupts off, paging off and sscratch clear.
Init ==
    /\ pc = IF BENCHMARK_USE_ASID THEN "probe_fence" ELSE "scheduler_init"
    /\ mode = "S"
    /\ sstatus = [sie |-> FALSE, spie |-> FALSE, spp |-> "S"]
    /\ stie = FALSE
    /\ sscratch = 0
    /\ satp = Bare
    /\ regs = [who |-> Kernel, s11 |-> 0]
    /\ asidlen \in ASIDLENS
    /\ tlb = {}
    /\ armed = FALSE
    /\ stip = FALSE
    /\ page = [p \in Processes |-> 0]
    /\ frames = [f \in FrameSlots |-> NewFrame(IF f = Nested THEN Kernel ELSE f)]
    /\ process_frame = [p \in Processes |-> p]
    /\ current_process = 0
    /\ current_index = -1
    /\ switch_count = 0
    /\ timer_ticks = 0
    /\ context_switch_count = 0
    /\ sfence_count = 0
    /\ summary = NoSummary
    /\ asid_bits = 0
    /\ a0 = 1
    /\ caller = "start"

-----------------------------------------------------------------------------
(* The hardware. *)

\* csrw satp: ASID bits above the implemented width read back as zero.
WriteSatp(asid, root) == satp' = [asid |-> asid \cap (0 .. asidlen - 1), root |-> root]

\* sfence.vma zero, zero
Flush == tlb' = {}

\* The current page table may be walked and its translation cached at any
\* time, in either mode; nothing but a fence makes the hardware forget one.
CacheTranslation ==
    /\ satp.root # NoRoot
    /\ tlb' = tlb \cup {satp}
    /\ UNCHANGED <<pc, hart, satp, timer, page, frames, schedule, current_process,
                   research, asid_bits, a0, caller>>

\* sbi_set_timer clears a pending timer interrupt and starts the timer again.
SetTimer == armed' = TRUE /\ stip' = FALSE

TimerExpires ==
    /\ armed
    /\ armed' = FALSE
    /\ stip' = TRUE
    /\ UNCHANGED <<pc, hart, xlate, page, frames, schedule, current_process,
                   research, asid_bits, a0, caller>>

\* The trap and trap_entry: sie does not hold an interrupt back in U-mode.  The
\* frame goes below sscratch, or below the interrupted kernel's sp if it is 0.
TakeTimer ==
    /\ stip /\ stie
    /\ mode = "U" \/ sstatus.sie
    /\ sstatus' = [sie |-> FALSE, spie |-> sstatus.sie, spp |-> mode]
    /\ mode' = "S"
    /\ a0' = IF sscratch = 0 THEN Nested ELSE sscratch
    /\ frames' = [frames EXCEPT ![a0'] =
                    [who |-> regs.who, s11 |-> regs.s11, sstatus |-> sstatus']]
    /\ sscratch' = 0
    /\ regs' = [who |-> Kernel, s11 |-> 0]
    /\ pc' = "trap_handler"
    /\ UNCHANGED <<stie, asidlen, xlate, timer, page, schedule, current_process,
                   research, asid_bits, caller>>

-----------------------------------------------------------------------------
(* The user programs: user_benchmark_main. *)

\* What an access to the private page may be translated to.
Translations == {e \in tlb \cup {satp} : e.asid = satp.asid}

UserStore ==
    /\ mode = "U"
    /\ \E e \in Translations :
          /\ page' = [page EXCEPT ![e.root] = regs.who]
          /\ tlb' = tlb \cup {e}
    /\ UNCHANGED <<pc, hart, satp, timer, frames, schedule, current_process,
                   research, asid_bits, a0, caller>>

UserCount ==
    /\ mode = "U"
    /\ regs' = [regs EXCEPT !.s11 = (@ + 1) % WORD]
    /\ UNCHANGED <<pc, mode, sstatus, stie, sscratch, asidlen, xlate, timer, page, frames,
                   schedule, current_process, research, asid_bits, a0, caller>>

-----------------------------------------------------------------------------
(* vm_detect_asid_bits, called by kernel_main with the table of process 1. *)

ProbeFence ==
    /\ pc = "probe_fence"
    /\ Flush
    /\ pc' = "probe_write"
    /\ UNCHANGED <<hart, satp, timer, page, frames, schedule, current_process,
                   research, asid_bits, a0, caller>>

ProbeWrite ==
    /\ pc = "probe_write"
    /\ WriteSatp(VM_ASID_MAX, 1)
    /\ pc' = "probe_read"
    /\ UNCHANGED <<hart, tlb, timer, page, frames, schedule, current_process,
                   research, asid_bits, a0, caller>>

\* The number of low one bits in a row.
LowOnes(mask) == CHOOSE n \in 0..16 : n \notin mask /\ 0 .. (n - 1) \subseteq mask

\* The readback, and original_satp again: paging was off.
ProbeRead ==
    /\ pc = "probe_read"
    /\ asid_bits' = LowOnes(satp.asid)
    /\ satp' = Bare
    /\ pc' = "probe_flush"
    /\ UNCHANGED <<hart, tlb, timer, page, frames, schedule, current_process,
                   research, a0, caller>>

\* Mutant: kernel_main goes on without looking at the number of ASID bits.
ProbeFlushUnchecked ==
    /\ pc = "probe_flush"
    /\ Flush
    /\ pc' = "scheduler_init"
    /\ UNCHANGED <<hart, satp, timer, page, frames, schedule, current_process,
                   research, asid_bits, a0, caller>>

\* The second fence, and the check in kernel_main: ASIDs 1 and 2 need two bits.
ProbeFlush ==
    /\ pc = "probe_flush"
    /\ Flush
    /\ pc' = IF asid_bits < 2 THEN "hang" ELSE "scheduler_init"
    /\ UNCHANGED <<hart, satp, timer, page, frames, schedule, current_process,
                   research, asid_bits, a0, caller>>

\* for (;;) { }
Hang == pc = "hang" /\ UNCHANGED vars

-----------------------------------------------------------------------------
(* The rest of kernel_main, and scheduler_start. *)

SchedulerInit ==
    /\ pc = "scheduler_init"
    /\ current_index' = -1
    /\ switch_count' = 0
    /\ pc' = "mask"
    /\ UNCHANGED <<hart, xlate, timer, page, frames, process_frame, current_process,
                   research, asid_bits, a0, caller>>

\* Mutant: supervisor interrupts enabled instead of masked, as the benchmark did
\* before the race of docs/08-asid-research-report.md section 5.1 was found.
MaskInterruptsEnabled ==
    /\ pc = "mask"
    /\ sstatus' = [sstatus EXCEPT !.sie = TRUE]
    /\ pc' = "enable"
    /\ UNCHANGED <<mode, stie, sscratch, regs, asidlen, xlate, timer, page, frames, schedule,
                   current_process, research, asid_bits, a0, caller>>

MaskInterrupts ==
    /\ pc = "mask"
    /\ sstatus' = [sstatus EXCEPT !.sie = FALSE]
    /\ pc' = "enable"
    /\ UNCHANGED <<mode, stie, sscratch, regs, asidlen, xlate, timer, page, frames, schedule,
                   current_process, research, asid_bits, a0, caller>>

EnableTimer ==
    /\ pc = "enable"
    /\ stie' = TRUE
    /\ pc' = "start"
    /\ UNCHANGED <<mode, sstatus, sscratch, regs, asidlen, xlate, timer, page, frames, schedule,
                   current_process, research, asid_bits, a0, caller>>

SchedulerStart ==
    /\ pc = "start"
    /\ current_index' = 0
    /\ caller' = "start"
    /\ pc' = "activate"
    /\ UNCHANGED <<hart, xlate, timer, page, frames, process_frame, switch_count,
                   current_process, research, asid_bits, a0>>

\* Mutant: the first timer is never armed.
ArmFirstTimerForgotten ==
    /\ pc = "arm"
    /\ pc' = "reset"
    /\ UNCHANGED <<hart, xlate, timer, page, frames, schedule, current_process,
                   research, asid_bits, a0, caller>>

ArmFirstTimer ==
    /\ pc = "arm"
    /\ SetTimer
    /\ pc' = "reset"
    /\ UNCHANGED <<hart, xlate, page, frames, schedule, current_process,
                   research, asid_bits, a0, caller>>

\* Mutant: the counters keep what the initial activation added.
ResearchResetForgotten ==
    /\ pc = "reset"
    /\ a0' = process_frame[1]
    /\ pc' = "trap_restore"
    /\ UNCHANGED <<hart, xlate, timer, page, frames, schedule, current_process,
                   research, asid_bits, caller>>

\* research_reset, and the call of trap_resume
ResearchReset ==
    /\ pc = "reset"
    /\ context_switch_count' = 0
    /\ sfence_count' = 0
    /\ a0' = process_frame[1]
    /\ pc' = "trap_restore"
    /\ UNCHANGED <<hart, xlate, timer, page, frames, schedule, current_process,
                   timer_ticks, summary, asid_bits, caller>>

-----------------------------------------------------------------------------
(* process_activate, vm_enable and vm_enable_asid. *)

\* The process the scheduler has chosen: processes[current_index].
Chosen == current_index + 1

Activated == IF caller = "start" THEN "arm" ELSE "finish"

ProcessActivate ==
    /\ pc = "activate"
    /\ current_process' = Chosen
    /\ pc' = IF BENCHMARK_USE_ASID THEN "write_satp" ELSE "fence_before"
    /\ UNCHANGED <<hart, xlate, timer, page, frames, schedule, research, asid_bits, a0, caller>>

FenceBefore ==
    /\ pc = "fence_before"
    /\ Flush
    /\ pc' = "write_satp"
    /\ UNCHANGED <<hart, satp, timer, page, frames, schedule, current_process,
                   research, asid_bits, a0, caller>>

SwitchSatp ==
    /\ pc = "write_satp"
    /\ IF BENCHMARK_USE_ASID
       THEN /\ WriteSatp(AsidOf(current_process), current_process)
            /\ pc' = Activated
       ELSE /\ WriteSatp({}, current_process)
            /\ pc' = "fence_after"
    /\ UNCHANGED <<hart, tlb, timer, page, frames, schedule, current_process,
                   research, asid_bits, a0, caller>>

\* Mutant: the second fence is left out (but counted).
FenceAfterSkipped ==
    /\ pc = "fence_after"
    /\ sfence_count' = sfence_count + 2
    /\ pc' = Activated
    /\ UNCHANGED <<hart, xlate, timer, page, frames, schedule, current_process,
                   timer_ticks, context_switch_count, summary, asid_bits, a0, caller>>

FenceAfter ==
    /\ pc = "fence_after"
    /\ Flush
    /\ sfence_count' = sfence_count + 2
    /\ pc' = Activated
    /\ UNCHANGED <<hart, satp, timer, page, frames, schedule, current_process,
                   timer_ticks, context_switch_count, summary, asid_bits, a0, caller>>

-----------------------------------------------------------------------------
(* trap_handler and scheduler_on_timer. *)

TrapHandler ==
    /\ pc = "trap_handler"
    /\ timer_ticks' = timer_ticks + 1
    /\ SetTimer
    /\ pc' = "on_timer"
    /\ UNCHANGED <<hart, xlate, page, frames, schedule, current_process,
                   context_switch_count, sfence_count, summary, asid_bits, a0, caller>>

\* The timer interrupted the kernel: report it, disable the timer and hang.
RejectSupervisorFrame ==
    /\ stie' = FALSE
    /\ pc' = "hang"
    /\ UNCHANGED <<mode, sstatus, sscratch, regs, asidlen, schedule, context_switch_count, caller>>

\* Nothing is scheduled: go on with the interrupted frame.
KeepFrame ==
    /\ pc' = "trap_restore"
    /\ UNCHANGED <<hart, schedule, context_switch_count, caller>>

\* Mutant: the index comes back to where it was.
ChooseNextSame ==
    /\ process_frame' = [process_frame EXCEPT ![Chosen] = a0]
    /\ current_index' = (current_index + 2) % PROCESS_COUNT
    /\ switch_count' = switch_count + 1
    /\ context_switch_count' = context_switch_count + 1
    /\ caller' = "timer"
    /\ pc' = "activate"
    /\ UNCHANGED hart

ChooseNext ==
    /\ process_frame' = [process_frame EXCEPT ![Chosen] = a0]
    /\ current_index' = (current_index + 1) % PROCESS_COUNT
    /\ switch_count' = switch_count + 1
    /\ context_switch_count' = context_switch_count + 1
    /\ caller' = "timer"
    /\ pc' = "activate"
    /\ UNCHANGED hart

SchedulerOnTimer ==
    /\ pc = "on_timer"
    /\ IF frames[a0].sstatus.spp = "S" THEN RejectSupervisorFrame
       ELSE IF current_index \notin 0 .. PROCESS_COUNT - 1 THEN KeepFrame
       ELSE ChooseNext
    /\ UNCHANGED <<xlate, timer, page, frames, current_process, timer_ticks,
                   sfence_count, summary, asid_bits, a0>>

\* Mutant: the timer stays enabled.
FinishSwitchTimerOn ==
    /\ pc = "finish"
    /\ summary' = IF switch_count = BENCHMARK_SWITCHES
                  THEN [printed |-> TRUE,
                        p1 |-> frames[process_frame[1]].s11,
                        p2 |-> frames[process_frame[2]].s11,
                        switches |-> context_switch_count,
                        sfences |-> sfence_count]
                  ELSE summary
    /\ a0' = process_frame[Chosen]
    /\ pc' = "trap_restore"
    /\ UNCHANGED <<hart, xlate, timer, page, frames, schedule, current_process, timer_ticks,
                   context_switch_count, sfence_count, asid_bits, caller>>

\* After the last switch: the summary, then no timer any more.
FinishSwitch ==
    /\ pc = "finish"
    /\ IF switch_count = BENCHMARK_SWITCHES
       THEN /\ summary' = [printed |-> TRUE,
                           p1 |-> frames[process_frame[1]].s11,
                           p2 |-> frames[process_frame[2]].s11,
                           switches |-> context_switch_count,
                           sfences |-> sfence_count]
            /\ stie' = FALSE
       ELSE UNCHANGED <<summary, stie>>
    /\ a0' = process_frame[Chosen]
    /\ pc' = "trap_restore"
    /\ UNCHANGED <<mode, sstatus, sscratch, regs, asidlen, xlate, timer, page, frames, schedule,
                   current_process, timer_ticks, context_switch_count, sfence_count,
                   asid_bits, caller>>

-----------------------------------------------------------------------------
(* trap_restore. *)

\* Mutant: sscratch stays zero on the way to U-mode.
RestoreCsrsNoStack ==
    /\ pc = "trap_restore"
    /\ sstatus' = frames[a0].sstatus
    /\ sscratch' = 0
    /\ pc' = "sret"
    /\ UNCHANGED <<mode, stie, regs, asidlen, xlate, timer, page, frames, schedule,
                   current_process, research, asid_bits, a0, caller>>

\* sstatus from the frame; sscratch becomes the kernel stack top again, but
\* only on the way to U-mode.
RestoreCsrs ==
    /\ pc = "trap_restore"
    /\ sstatus' = frames[a0].sstatus
    /\ sscratch' = IF frames[a0].sstatus.spp = "U" THEN a0 ELSE 0
    /\ pc' = "sret"
    /\ UNCHANGED <<mode, stie, regs, asidlen, xlate, timer, page, frames, schedule,
                   current_process, research, asid_bits, a0, caller>>

\* Mutant: s11 is not loaded.
RestoreRegistersNoS11 ==
    /\ pc = "sret"
    /\ regs' = [who |-> frames[a0].who, s11 |-> regs.s11]
    /\ mode' = sstatus.spp
    /\ sstatus' = [sie |-> sstatus.spie, spie |-> TRUE, spp |-> "U"]
    /\ pc' = "user"
    /\ UNCHANGED <<stie, sscratch, asidlen, xlate, timer, page, frames, schedule,
                   current_process, research, asid_bits, a0, caller>>

\* The registers from the frame, and sret.
RestoreRegisters ==
    /\ pc = "sret"
    /\ regs' = [who |-> frames[a0].who, s11 |-> frames[a0].s11]
    /\ mode' = sstatus.spp
    /\ sstatus' = [sie |-> sstatus.spie, spie |-> TRUE, spp |-> "U"]
    /\ pc' = "user"
    /\ UNCHANGED <<stie, sscratch, asidlen, xlate, timer, page, frames, schedule,
                   current_process, research, asid_bits, a0, caller>>

-----------------------------------------------------------------------------

KernelStep ==
    \/ ProbeFence \/ ProbeWrite \/ ProbeRead \/ ProbeFlush
    \/ SchedulerInit \/ MaskInterrupts \/ EnableTimer \/ SchedulerStart
    \/ ArmFirstTimer \/ ResearchReset
    \/ ProcessActivate \/ FenceBefore \/ SwitchSatp \/ FenceAfter
    \/ TrapHandler \/ SchedulerOnTimer \/ FinishSwitch
    \/ RestoreCsrs \/ RestoreRegisters

Next ==
    \/ KernelStep
    \/ Hang
    \/ UserStore \/ UserCount
    \/ CacheTranslation \/ TimerExpires \/ TakeTimer

Spec == Init /\ [][Next]_vars

\* The hart executes instructions, time passes, and a pending interrupt that
\* is enabled is taken.  User programs need not do anything.
Fairness ==
    /\ WF_vars(KernelStep)
    /\ WF_vars(TimerExpires)
    /\ WF_vars(TakeTimer)

FairSpec == Spec /\ Fairness

-----------------------------------------------------------------------------
(* Properties. *)

Labels ==
    {"probe_fence", "probe_write", "probe_read", "probe_flush", "hang",
     "scheduler_init", "mask", "enable", "start", "arm", "reset",
     "activate", "fence_before", "write_satp", "fence_after",
     "trap_handler", "on_timer", "finish", "trap_restore", "sret", "user"}

Status == [sie : BOOLEAN, spie : BOOLEAN, spp : {"U", "S"}]
Frame == [who : {Kernel} \cup Processes, s11 : 0 .. WORD - 1, sstatus : Status]
Translation == [asid : SUBSET VM_ASID_MAX, root : {NoRoot} \cup Processes]

HartTypes ==
    /\ pc \in Labels
    /\ mode \in {"U", "S"}
    /\ sstatus \in Status
    /\ stie \in BOOLEAN
    /\ sscratch \in {0} \cup Processes
    /\ regs \in [who : {Kernel} \cup Processes, s11 : 0 .. WORD - 1]
    /\ armed \in BOOLEAN /\ stip \in BOOLEAN

TranslationTypes ==
    /\ asidlen \in ASIDLENS
    /\ satp \in Translation
    /\ tlb \in SUBSET [asid : SUBSET VM_ASID_MAX, root : Processes]
    /\ page \in [Processes -> {0} \cup Processes]
    /\ asid_bits \in 0..16

KernelTypes ==
    /\ frames \in [FrameSlots -> Frame]
    /\ process_frame \in [Processes -> FrameSlots]
    /\ current_process \in {0} \cup Processes
    /\ current_index \in -1 .. PROCESS_COUNT - 1
    /\ switch_count \in Nat /\ timer_ticks \in Nat
    /\ context_switch_count \in Nat /\ sfence_count \in Nat
    /\ summary \in [printed : BOOLEAN, p1 : 0 .. WORD - 1, p2 : 0 .. WORD - 1,
                    switches : Nat, sfences : Nat]
    /\ a0 \in FrameSlots
    /\ caller \in {"start", "timer"}

\* Types: every CSR, frame, TLB entry and kernel variable is in its range, and a
\* cached translation always belongs to some process's page table.
TypeOK == HartTypes /\ TranslationTypes /\ KernelTypes

\* The timer never interrupts the kernel (scheduler.c:77-100, main.c:174-181): the
\* scheduler's refusal of a supervisor frame is never reached, and the only way to
\* hang is to ask for ASIDs on hardware with fewer than two ASID bits.
NeverStuck == pc = "hang" => BENCHMARK_USE_ASID /\ asidlen < 2

\* Whenever a program computes, the kernel's idea of who runs (current_process,
\* current_index), the address space, the registers and the stack of its next trap
\* all belong to that program, interrupts are masked for the trap path, and the
\* other program's registers wait in the frame its process->frame points to.
UserContext ==
    mode = "U" =>
        /\ current_process \in Processes
        /\ current_index + 1 = current_process
        /\ regs.who = current_process
        /\ satp.root = current_process
        /\ sscratch = current_process
        /\ process_frame[current_process] = current_process
        /\ \A q \in Processes \ {current_process} :
              /\ frames[process_frame[q]].who = q
              /\ frames[process_frame[q]].sstatus.spp = "U"
        /\ ~sstatus.sie

\* While a program computes no cached translation that its accesses may use comes
\* from another page table: by the two fences of vm_enable, or by the unique ASIDs
\* of vm_enable_asid (the "benchmark invariant" of vm.c:412-424).
TlbCoherent == mode = "U" => \A e \in Translations : e.root = satp.root

\* So no program ever writes to the private page of the other.
PrivatePages == \A p \in Processes : page[p] \in {0, p}

\* The counters agree with each other whenever a program computes: one timer tick
\* and one recorded switch per switch, and two fences per switch with full flush,
\* none with ASIDs, the initial activation not counted; and the summary shows that
\* for exactly BENCHMARK_SWITCHES switches.
FencesFor(n) == IF BENCHMARK_USE_ASID THEN 0 ELSE 2 * n

Accounting ==
    /\ mode = "U" =>
          /\ timer_ticks = switch_count
          /\ context_switch_count = switch_count
          /\ sfence_count = FencesFor(switch_count)
    /\ summary.printed =>
          /\ summary.switches = BENCHMARK_SWITCHES
          /\ summary.sfences = FencesFor(BENCHMARK_SWITCHES)

\* Once a program runs after the summary nothing preempts it any more: the timer
\* interrupt is off for good, no further tick, switch or summary happens.
QuietAfterSummary ==
    [][summary.printed /\ mode = "U" =>
          mode' = "U" /\ UNCHANGED <<timer_ticks, switch_count, summary, current_process>>]_vars

\* The work a program has done: in the registers while they are its own, else in
\* the frame that process->frame points to.
WorkOf(p) == IF regs.who = p THEN regs.s11 ELSE frames[process_frame[p]].s11

\* The kernel gives the two programs what RoundRobin promises: only the program
\* whose turn it is computes, none of its work is lost or changed by a switch, the
\* turns alternate, and the summary is the work done at the last switch.
RR == INSTANCE RoundRobin WITH
        turn     <- current_index + 1,
        work     <- [p \in Processes |-> WorkOf(p)],
        quanta   <- [p \in Processes |-> (switch_count + 2 - p) \div 2],
        reported <- summary.printed,
        summary  <- [p \in Processes |-> IF p = 1 THEN summary.p1 ELSE summary.p2]

ImplementsRoundRobin == RR!Spec

\* On hardware with enough ASID bits the benchmark always completes: the summary is
\* printed.
Completes == (BENCHMARK_USE_ASID => asidlen >= 2) => <>summary.printed

\* Until the summary a running program is always preempted, and the other one runs.
TakeTurns ==
    \A p \in Processes :
        mode = "U" /\ regs.who = p /\ ~summary.printed ~> mode = "U" /\ regs.who = 3 - p

-----------------------------------------------------------------------------
(* The inductive invariant: what holds between any two steps of the kernel. *)

Probing    == {"probe_fence", "probe_write", "probe_read", "probe_flush"}
SettingUp  == {"scheduler_init", "mask", "enable", "start"}
Activating == {"activate", "fence_before", "write_satp", "fence_after"}
Starting   == {"arm", "reset"}
Trapped    == {"trap_handler", "on_timer"}
Resuming   == {"trap_restore", "sret"}
Scheduled  == Activating \cup Starting \cup Trapped \cup Resuming \cup {"finish", "user"}
InNewSpace == (Scheduled \ Activating) \cup {"fence_after"}

\* The ASID that satp holds for p.
AsidInUse(p) == IF BENCHMARK_USE_ASID THEN AsidOf(p) ELSE {}

\* Interrupts stay masked in S-mode, and each process is stored in its own frame.
InvContext ==
    /\ mode = "U" <=> pc = "user"
    /\ ~sstatus.sie
    /\ pc = "sret" => sstatus = ClearedStatus
    /\ \A p \in Processes :
          /\ process_frame[p] = p
          /\ frames[p].who = p
          /\ frames[p].sstatus = ClearedStatus
    /\ regs.who = IF pc = "user" THEN current_process ELSE Kernel
    /\ a0 \in Processes

\* Who runs, at every step of the way from one program to the other.
InvCurrent ==
    /\ pc \notin Scheduled => current_process = 0 /\ current_index = -1 /\ sscratch = 0
    /\ pc \in Scheduled => current_index \in 0..1
    /\ pc \in Scheduled \ {"activate"} => current_process = Chosen
    /\ pc \in Trapped \cup Resuming => a0 = Chosen
    /\ sscratch = IF pc \in {"user", "sret"} THEN Chosen ELSE 0
    /\ pc \in Activating /\ caller = "start" => current_index = 0
    /\ pc \in Starting => caller = "start" /\ current_index = 0

\* The probe finds out how many ASID bits there are; only full flush fences.
InvProbe ==
    /\ pc \in Probing => BENCHMARK_USE_ASID
    /\ pc = "probe_read" => satp.asid = 0 .. asidlen - 1
    /\ pc = "probe_flush" => asid_bits = asidlen /\ satp = Bare
    /\ BENCHMARK_USE_ASID /\ pc \notin Probing \cup {"hang"} => asidlen >= 2
    /\ pc = "hang" => BENCHMARK_USE_ASID /\ asidlen < 2
    /\ pc \in {"fence_before", "fence_after"} => ~BENCHMARK_USE_ASID

\* What the TLB may hold: after the probe's fence only what the ASIDs keep apart,
\* and with full flush, except between the new satp and its fence, nothing of any
\* other table.
InvTranslation ==
    /\ pc \in SettingUp => satp = Bare
    /\ pc \in InNewSpace => satp = [asid |-> AsidInUse(Chosen), root |-> Chosen]
    /\ pc \in Scheduled \cup SettingUp =>
          /\ satp # Bare => satp.root \in Processes /\ satp.asid = AsidInUse(satp.root)
          /\ \A e \in tlb : e.asid = AsidInUse(e.root)
          /\ ~BENCHMARK_USE_ASID /\ pc # "fence_after" => \A e \in tlb : e.root = satp.root
    /\ PrivatePages

\* The counters at every step, and when the timer is off for good.
InvCounters ==
    /\ pc \notin Scheduled \/ pc \in Starting \/ (pc \in Activating /\ caller = "start")
          => switch_count = 0
    /\ pc \in Activating /\ caller = "timer" =>
          /\ switch_count >= 1
          /\ sfence_count = FencesFor(switch_count - 1)
    /\ pc \in Scheduled \ (Activating \cup Starting) => sfence_count = FencesFor(switch_count)
    /\ timer_ticks = IF pc = "on_timer" THEN switch_count + 1 ELSE switch_count
    /\ context_switch_count = switch_count
    /\ pc \in Scheduled => switch_count % 2 = current_index
    /\ switch_count <= BENCHMARK_SWITCHES
    /\ pc \in Trapped => switch_count < BENCHMARK_SWITCHES
    /\ pc \in Resuming \cup {"user"} => (summary.printed <=> switch_count = BENCHMARK_SWITCHES)
    /\ summary.printed => pc \in Resuming \cup {"user"} /\ ~stie
    /\ summary.printed =>
          /\ summary.switches = BENCHMARK_SWITCHES
          /\ summary.sfences = FencesFor(BENCHMARK_SWITCHES)

IInv == TypeOK /\ InvContext /\ InvCurrent /\ InvProbe /\ InvTranslation /\ InvCounters

=============================================================================
