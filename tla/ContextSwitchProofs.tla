------------------------- MODULE ContextSwitchProofs -------------------------
(***************************************************************************)
(* Proofs about ContextSwitch, for every number of switches, word size,    *)
(* switch mode and ASID width: IInv is inductive, and from it follow the   *)
(* invariants and the action property that the runs check.                 *)
(***************************************************************************)
EXTENDS ContextSwitch, TLAPS

\* Every process number is 1 or 2, and ASIDs 1 and 2 differ in one bit each.
LEMMA ConstantFacts ==
    /\ Processes = {1, 2}
    /\ FrameSlots = {1, 2, 3}
    /\ \A p \in Processes : AsidInUse(p) \in SUBSET VM_ASID_MAX
    /\ BENCHMARK_USE_ASID => \A p, q \in Processes : AsidInUse(p) = AsidInUse(q) => p = q
  BY DEF Processes, PROCESS_COUNT, FrameSlots, Nested, AsidInUse, AsidOf, VM_ASID_MAX

\* What the hardware keeps of an ASID that is in use, once two bits are there.
LEMMA AsidKept ==
    ASSUME NEW p \in Processes, NEW len \in 0..16, BENCHMARK_USE_ASID => len >= 2
    PROVE  AsidInUse(p) \cap (0 .. len - 1) = AsidInUse(p)
  BY ConstantFacts DEF AsidInUse, AsidOf

\* Written as all ones, the ASID field reads back with asidlen ones.
LEMMA ProbeReadback ==
    ASSUME NEW len \in 0..16
    PROVE  VM_ASID_MAX \cap (0 .. len - 1) = 0 .. len - 1
<1>1. \A k \in 0 .. len - 1 : k \in 0..15
  OBVIOUS
<1> QED
  BY <1>1 DEF VM_ASID_MAX

\* The readback of the probe has asidlen low one bits.
LEMMA ProbeCounts ==
    ASSUME NEW len \in 0..16
    PROVE  LowOnes(0 .. len - 1) = len
<1>1. len \notin 0 .. len - 1 /\ 0 .. (len - 1) \subseteq 0 .. len - 1
  OBVIOUS
<1>2. ASSUME NEW n \in 0..16, n \notin 0 .. len - 1, 0 .. (n - 1) \subseteq 0 .. len - 1
      PROVE  n = len
  <2>1. ~(n < len)
    BY <1>2
  <2>2. ~(len < n)
    <3>1. SUFFICES ASSUME len < n PROVE FALSE
      OBVIOUS
    <3>2. len \in 0 .. (n - 1)
      BY <3>1
    <3> QED
      BY <1>2, <3>2
  <2> QED
    BY <2>1, <2>2
<1> QED
  BY <1>1, <1>2 DEF LowOnes

\* The kernel starts in the inductive invariant: nothing activated, nothing cached, the
\* timer off.
LEMMA InitInv == Init => IInv
<1> SUFFICES ASSUME Init PROVE IInv
  OBVIOUS
<1> USE ConstantFacts, ModeAssumption, WordAssumption, SwitchesAssumption, AsidLenAssumption
<1>1. TypeOK
  <2>1. HartTypes
    <3>1. pc \in Labels
      BY DEF Init, Labels
    <3>2. sstatus \in Status /\ regs \in [who : {Kernel} \cup Processes, s11 : 0 .. WORD - 1]
      BY DEF Init, Status
    <3> QED
      BY <3>1, <3>2 DEF Init, HartTypes
  <2>2. TranslationTypes
    BY DEF Init, TranslationTypes, Translation, Bare, NoRoot
  <2>3. frames \in [FrameSlots -> Frame]
    <3>1. \A f \in FrameSlots : NewFrame(IF f = Nested THEN Kernel ELSE f) \in Frame
      BY DEF NewFrame, ClearedStatus, Kernel, Nested, PROCESS_COUNT, Frame, Status
    <3> QED
      BY <3>1 DEF Init
  <2>4. summary \in [printed : BOOLEAN, p1 : 0 .. WORD - 1, p2 : 0 .. WORD - 1,
                     switches : Nat, sfences : Nat]
    BY DEF Init, NoSummary
  <2>5. KernelTypes
    BY <2>3, <2>4 DEF Init, KernelTypes, PROCESS_COUNT
  <2> QED
    BY <2>1, <2>2, <2>5 DEF TypeOK
<1>2. InvContext
  <2>1. pc # "user" /\ pc # "sret"
    BY DEF Init
  <2>2. ASSUME NEW p \in Processes
        PROVE  process_frame[p] = p /\ frames[p].who = p /\ frames[p].sstatus = ClearedStatus
    BY <2>2 DEF Init, NewFrame, Nested, PROCESS_COUNT
  <2> QED
    BY <2>1, <2>2 DEF Init, InvContext
<1>3. InvCurrent
  BY DEF Init, InvCurrent, Scheduled, Activating, Starting, Trapped, Resuming, Chosen
<1>4. InvProbe
  BY DEF Init, InvProbe, Probing
<1>5. InvTranslation
  BY DEF Init, InvTranslation, PrivatePages, SettingUp, Scheduled, Activating, Starting, Trapped,
     Resuming, InNewSpace
<1>6. InvCounters
  BY DEF Init, InvCounters, NoSummary, Scheduled, Activating, Starting, Trapped, Resuming
<1> QED
  BY <1>1, <1>2, <1>3, <1>4, <1>5, <1>6 DEF IInv

\* Every step keeps the registers and control registers of the hart in range.
LEMMA HartTypesStep == IInv /\ [Next]_vars => HartTypes'
<1> SUFFICES ASSUME IInv, [Next]_vars PROVE HartTypes'
  OBVIOUS
<1> USE ConstantFacts, ModeAssumption, WordAssumption, SwitchesAssumption, AsidLenAssumption
    DEF IInv, TypeOK, HartTypes, TranslationTypes, KernelTypes, Labels, Status, Frame, Kernel, vars, hart, xlate, timer, schedule, research
<1>1. CASE ProbeFence
  BY <1>1 DEF ProbeFence, Flush
<1>2. CASE ProbeWrite
  BY <1>2 DEF ProbeWrite, WriteSatp
<1>3. CASE ProbeRead
  BY <1>3 DEF ProbeRead, Bare
<1>4. CASE ProbeFlush
  BY <1>4 DEF ProbeFlush, Flush
<1>5. CASE SchedulerInit
  BY <1>5 DEF SchedulerInit
<1>6. CASE MaskInterrupts
  BY <1>6 DEF MaskInterrupts
<1>7. CASE EnableTimer
  BY <1>7 DEF EnableTimer
<1>8. CASE SchedulerStart
  BY <1>8 DEF SchedulerStart
<1>9. CASE ArmFirstTimer
  BY <1>9 DEF ArmFirstTimer, SetTimer
<1>10. CASE ResearchReset
  BY <1>10 DEF ResearchReset
<1>11. CASE ProcessActivate
  BY <1>11 DEF ProcessActivate
<1>12. CASE FenceBefore
  BY <1>12 DEF FenceBefore, Flush
<1>13. CASE SwitchSatp
  BY <1>13 DEF SwitchSatp, WriteSatp, Activated
<1>14. CASE FenceAfter
  BY <1>14 DEF FenceAfter, Flush, Activated
<1>15. CASE TrapHandler
  BY <1>15 DEF TrapHandler, SetTimer
<1>16. CASE SchedulerOnTimer
  BY <1>16 DEF SchedulerOnTimer, RejectSupervisorFrame, KeepFrame, ChooseNext, PROCESS_COUNT
<1>17. CASE FinishSwitch
  BY <1>17 DEF FinishSwitch
<1>18. CASE RestoreCsrs
  <2>1. frames[a0] \in Frame
    OBVIOUS
  <2>2. frames[a0].sstatus \in Status /\ sstatus' \in Status
    BY <2>1, <1>18 DEF RestoreCsrs
  <2>3. sscratch' \in {0} \cup Processes
    BY <1>18 DEF RestoreCsrs, InvContext
  <2> QED
    BY <1>18, <2>2, <2>3 DEF RestoreCsrs
<1>19. CASE RestoreRegisters
  BY <1>19 DEF RestoreRegisters
<1>20. CASE Hang
  BY <1>20 DEF Hang
<1>21. CASE UserStore
  BY <1>21 DEF UserStore, Translations
<1>22. CASE UserCount
  BY <1>22 DEF UserCount
<1>23. CASE CacheTranslation
  BY <1>23 DEF CacheTranslation
<1>24. CASE TimerExpires
  BY <1>24 DEF TimerExpires
<1>25. CASE TakeTimer
  BY <1>25 DEF TakeTimer, Nested, PROCESS_COUNT
<1>26. CASE UNCHANGED vars
  BY <1>26
<1> QED
  BY <1>1, <1>2, <1>3, <1>4, <1>5, <1>6, <1>7, <1>8, <1>9, <1>10, <1>11, <1>12, <1>13, <1>14, <1>15, <1>16, <1>17, <1>18, <1>19, <1>20, <1>21, <1>22, <1>23, <1>24, <1>25, <1>26 DEF Next, KernelStep

\* Every step keeps satp, the TLB and the private pages in range.
LEMMA TranslationTypesStep == IInv /\ [Next]_vars => TranslationTypes'
<1> SUFFICES ASSUME IInv, [Next]_vars PROVE TranslationTypes'
  OBVIOUS
<1> USE ConstantFacts, ModeAssumption, WordAssumption, SwitchesAssumption, AsidLenAssumption
    DEF IInv, TypeOK, HartTypes, TranslationTypes, Translation, NoRoot, vars, hart, xlate, timer, schedule, research
<1>1. CASE ProbeFence
  BY <1>1 DEF ProbeFence, Flush
<1>2. CASE ProbeWrite
  BY <1>2 DEF ProbeWrite, WriteSatp
<1>3. CASE ProbeRead
  <2>1. asidlen \in 0..16 /\ satp.asid = 0 .. asidlen - 1
    BY <1>3 DEF ProbeRead, InvProbe
  <2>2. asid_bits' \in 0..16
    BY <1>3, <2>1, ProbeCounts DEF ProbeRead
  <2>3. satp' \in Translation
    BY <1>3 DEF ProbeRead, Bare
  <2> QED
    BY <1>3, <2>2, <2>3 DEF ProbeRead
<1>4. CASE ProbeFlush
  BY <1>4 DEF ProbeFlush, Flush
<1>5. CASE SchedulerInit
  BY <1>5 DEF SchedulerInit
<1>6. CASE MaskInterrupts
  BY <1>6 DEF MaskInterrupts
<1>7. CASE EnableTimer
  BY <1>7 DEF EnableTimer
<1>8. CASE SchedulerStart
  BY <1>8 DEF SchedulerStart
<1>9. CASE ArmFirstTimer
  BY <1>9 DEF ArmFirstTimer, SetTimer
<1>10. CASE ResearchReset
  BY <1>10 DEF ResearchReset
<1>11. CASE ProcessActivate
  BY <1>11 DEF ProcessActivate
<1>12. CASE FenceBefore
  BY <1>12 DEF FenceBefore, Flush
<1>13. CASE SwitchSatp
  <2>1. current_process \in Processes
    BY <1>13 DEF SwitchSatp, InvCurrent, Chosen, Scheduled, Activating
  <2>2. satp' = [asid |-> AsidInUse(current_process) \cap (0 .. asidlen - 1), root |-> current_process]
    BY <1>13 DEF SwitchSatp, WriteSatp, AsidInUse
  <2>3. satp' \in Translation
    BY <2>1, <2>2
  <2> QED
    BY <1>13, <2>3 DEF SwitchSatp
<1>14. CASE FenceAfter
  BY <1>14 DEF FenceAfter, Flush, Activated
<1>15. CASE TrapHandler
  BY <1>15 DEF TrapHandler, SetTimer
<1>16. CASE SchedulerOnTimer
  BY <1>16 DEF SchedulerOnTimer, RejectSupervisorFrame, KeepFrame, ChooseNext, PROCESS_COUNT
<1>17. CASE FinishSwitch
  BY <1>17 DEF FinishSwitch
<1>18. CASE RestoreCsrs
  BY <1>18 DEF RestoreCsrs
<1>19. CASE RestoreRegisters
  BY <1>19 DEF RestoreRegisters
<1>20. CASE Hang
  BY <1>20 DEF Hang
<1>21. CASE UserStore
  <2>1. satp.root \in Processes
    BY <1>21 DEF UserStore, InvContext, InvCurrent, InvTranslation, Chosen, InNewSpace, Scheduled,
       Activating, Starting, Trapped, Resuming
  <2>2. satp \in [asid : SUBSET VM_ASID_MAX, root : Processes]
    BY <2>1
  <2>3. PICK e \in Translations : /\ page' = [page EXCEPT ![e.root] = regs.who]
                                 /\ tlb' = tlb \cup {e}
    BY <1>21 DEF UserStore
  <2>4. e \in [asid : SUBSET VM_ASID_MAX, root : Processes]
    BY <2>2, <2>3 DEF Translations
  <2>5. regs.who \in {0} \cup Processes
    BY DEF Kernel
  <2> QED
    BY <1>21, <2>3, <2>4, <2>5 DEF UserStore
<1>22. CASE UserCount
  BY <1>22 DEF UserCount
<1>23. CASE CacheTranslation
  BY <1>23 DEF CacheTranslation
<1>24. CASE TimerExpires
  BY <1>24 DEF TimerExpires
<1>25. CASE TakeTimer
  BY <1>25 DEF TakeTimer, Nested, PROCESS_COUNT
<1>26. CASE UNCHANGED vars
  BY <1>26
<1> QED
  BY <1>1, <1>2, <1>3, <1>4, <1>5, <1>6, <1>7, <1>8, <1>9, <1>10, <1>11, <1>12, <1>13, <1>14, <1>15, <1>16, <1>17, <1>18, <1>19, <1>20, <1>21, <1>22, <1>23, <1>24, <1>25, <1>26 DEF Next, KernelStep

\* Every step keeps the frames and the variables of the kernel in range.
LEMMA KernelTypesStep == IInv /\ [Next]_vars => KernelTypes'
<1> SUFFICES ASSUME IInv, [Next]_vars PROVE KernelTypes'
  OBVIOUS
<1> USE ConstantFacts, ModeAssumption, WordAssumption, SwitchesAssumption, AsidLenAssumption
    DEF IInv, TypeOK, HartTypes, KernelTypes, Frame, Status, Kernel, PROCESS_COUNT, vars, hart, xlate, timer, schedule, research
<1>1. CASE ProbeFence
  BY <1>1 DEF ProbeFence, Flush
<1>2. CASE ProbeWrite
  BY <1>2 DEF ProbeWrite, WriteSatp
<1>3. CASE ProbeRead
  BY <1>3 DEF ProbeRead, Bare
<1>4. CASE ProbeFlush
  BY <1>4 DEF ProbeFlush, Flush
<1>5. CASE SchedulerInit
  BY <1>5 DEF SchedulerInit
<1>6. CASE MaskInterrupts
  BY <1>6 DEF MaskInterrupts
<1>7. CASE EnableTimer
  BY <1>7 DEF EnableTimer
<1>8. CASE SchedulerStart
  BY <1>8 DEF SchedulerStart
<1>9. CASE ArmFirstTimer
  BY <1>9 DEF ArmFirstTimer, SetTimer
<1>10. CASE ResearchReset
  BY <1>10 DEF ResearchReset
<1>11. CASE ProcessActivate
  <2>1. current_process' \in Processes
    BY <1>11 DEF ProcessActivate, InvCurrent, Chosen, Scheduled, Activating
  <2> QED
    BY <1>11, <2>1 DEF ProcessActivate
<1>12. CASE FenceBefore
  BY <1>12 DEF FenceBefore, Flush
<1>13. CASE SwitchSatp
  BY <1>13 DEF SwitchSatp, WriteSatp, Activated
<1>14. CASE FenceAfter
  BY <1>14 DEF FenceAfter, Flush, Activated
<1>15. CASE TrapHandler
  BY <1>15 DEF TrapHandler, SetTimer
<1>16. CASE SchedulerOnTimer
  BY <1>16 DEF SchedulerOnTimer, RejectSupervisorFrame, KeepFrame, ChooseNext, PROCESS_COUNT
<1>17. CASE FinishSwitch
  <2>1. \A p \in Processes : frames[process_frame[p]].s11 \in 0 .. WORD - 1
    OBVIOUS
  <2>2. summary' \in [printed : BOOLEAN, p1 : 0 .. WORD - 1, p2 : 0 .. WORD - 1,
                      switches : Nat, sfences : Nat]
    <3>1. CASE switch_count = BENCHMARK_SWITCHES
      <4>1. summary' = [printed |-> TRUE, p1 |-> frames[process_frame[1]].s11,
                        p2 |-> frames[process_frame[2]].s11,
                        switches |-> context_switch_count, sfences |-> sfence_count]
        BY <1>17, <3>1 DEF FinishSwitch
      <4> QED
        BY <2>1, <4>1
    <3>2. CASE switch_count # BENCHMARK_SWITCHES
      BY <1>17, <3>2 DEF FinishSwitch
    <3> QED
      BY <3>1, <3>2
  <2>3. Chosen \in Processes
    BY <1>17 DEF FinishSwitch, InvCurrent, Chosen, Scheduled
  <2>4. a0' \in FrameSlots
    BY <1>17, <2>3 DEF FinishSwitch
  <2> QED
    BY <1>17, <2>2, <2>4 DEF FinishSwitch
<1>18. CASE RestoreCsrs
  BY <1>18 DEF RestoreCsrs
<1>19. CASE RestoreRegisters
  BY <1>19 DEF RestoreRegisters
<1>20. CASE Hang
  BY <1>20 DEF Hang
<1>21. CASE UserStore
  BY <1>21 DEF UserStore, Translations
<1>22. CASE UserCount
  BY <1>22 DEF UserCount
<1>23. CASE CacheTranslation
  BY <1>23 DEF CacheTranslation
<1>24. CASE TimerExpires
  BY <1>24 DEF TimerExpires
<1>25. CASE TakeTimer
  BY <1>25 DEF TakeTimer, Nested, PROCESS_COUNT
<1>26. CASE UNCHANGED vars
  BY <1>26
<1> QED
  BY <1>1, <1>2, <1>3, <1>4, <1>5, <1>6, <1>7, <1>8, <1>9, <1>10, <1>11, <1>12, <1>13, <1>14, <1>15, <1>16, <1>17, <1>18, <1>19, <1>20, <1>21, <1>22, <1>23, <1>24, <1>25, <1>26 DEF Next, KernelStep

\* Every step keeps interrupts masked in the kernel, the mode, and each process's frame on
\* its own stack.
LEMMA InvContextStep == IInv /\ [Next]_vars => InvContext'
<1> SUFFICES ASSUME IInv, [Next]_vars PROVE InvContext'
  OBVIOUS
<1> USE ConstantFacts, ModeAssumption, WordAssumption, SwitchesAssumption, AsidLenAssumption
    DEF IInv, TypeOK, HartTypes, KernelTypes, InvContext, InvCurrent, ClearedStatus, Kernel, Chosen, Probing, SettingUp, Activating, Starting, Trapped, Resuming, Scheduled, vars, hart, xlate, timer, schedule, research
<1>1. CASE ProbeFence
  BY <1>1 DEF ProbeFence, Flush
<1>2. CASE ProbeWrite
  BY <1>2 DEF ProbeWrite, WriteSatp
<1>3. CASE ProbeRead
  BY <1>3 DEF ProbeRead, Bare
<1>4. CASE ProbeFlush
  BY <1>4 DEF ProbeFlush, Flush
<1>5. CASE SchedulerInit
  BY <1>5 DEF SchedulerInit
<1>6. CASE MaskInterrupts
  BY <1>6 DEF MaskInterrupts
<1>7. CASE EnableTimer
  BY <1>7 DEF EnableTimer
<1>8. CASE SchedulerStart
  BY <1>8 DEF SchedulerStart
<1>9. CASE ArmFirstTimer
  BY <1>9 DEF ArmFirstTimer, SetTimer
<1>10. CASE ResearchReset
  BY <1>10 DEF ResearchReset
<1>11. CASE ProcessActivate
  BY <1>11 DEF ProcessActivate
<1>12. CASE FenceBefore
  BY <1>12 DEF FenceBefore, Flush
<1>13. CASE SwitchSatp
  BY <1>13 DEF SwitchSatp, WriteSatp, Activated
<1>14. CASE FenceAfter
  BY <1>14 DEF FenceAfter, Flush, Activated
<1>15. CASE TrapHandler
  BY <1>15 DEF TrapHandler, SetTimer
<1>16. CASE SchedulerOnTimer
  BY <1>16 DEF SchedulerOnTimer, RejectSupervisorFrame, KeepFrame, ChooseNext, PROCESS_COUNT
<1>17. CASE FinishSwitch
  BY <1>17 DEF FinishSwitch
<1>18. CASE RestoreCsrs
  BY <1>18 DEF RestoreCsrs
<1>19. CASE RestoreRegisters
  BY <1>19 DEF RestoreRegisters
<1>20. CASE Hang
  BY <1>20 DEF Hang
<1>21. CASE UserStore
  BY <1>21 DEF UserStore, Translations
<1>22. CASE UserCount
  BY <1>22 DEF UserCount
<1>23. CASE CacheTranslation
  BY <1>23 DEF CacheTranslation
<1>24. CASE TimerExpires
  BY <1>24 DEF TimerExpires
<1>25. CASE TakeTimer
  <2>1. mode = "U" /\ pc = "user" /\ sscratch = Chosen /\ current_process = Chosen
        /\ regs.who = Chosen /\ Chosen \in Processes
    BY <1>25 DEF TakeTimer
  <2>2. a0' = Chosen
    BY <1>25, <2>1 DEF TakeTimer
  <2>3. sstatus' = ClearedStatus
    <3>1. sstatus.sie = FALSE
      OBVIOUS
    <3> QED
      BY <1>25, <2>1, <3>1 DEF TakeTimer
  <2>4. frames' = [frames EXCEPT ![Chosen] =
                     [who |-> Chosen, s11 |-> regs.s11, sstatus |-> ClearedStatus]]
    BY <1>25, <2>1, <2>2, <2>3 DEF TakeTimer
  <2>5. ASSUME NEW p \in Processes
        PROVE  process_frame'[p] = p /\ frames'[p].who = p /\ frames'[p].sstatus = ClearedStatus
    <3>1. CASE p = Chosen
      <4>1. frames'[p] = [who |-> Chosen, s11 |-> regs.s11, sstatus |-> ClearedStatus]
        BY <2>1, <2>4, <3>1
      <4>2. process_frame'[p] = p
        BY <1>25 DEF TakeTimer
      <4> QED
        BY <3>1, <4>1, <4>2
    <3>2. CASE p # Chosen
      BY <1>25, <2>4, <3>2 DEF TakeTimer
    <3> QED
      BY <3>1, <3>2
  <2> QED
    BY <1>25, <2>1, <2>2, <2>3, <2>5 DEF TakeTimer
<1>26. CASE UNCHANGED vars
  BY <1>26
<1> QED
  BY <1>1, <1>2, <1>3, <1>4, <1>5, <1>6, <1>7, <1>8, <1>9, <1>10, <1>11, <1>12, <1>13, <1>14, <1>15, <1>16, <1>17, <1>18, <1>19, <1>20, <1>21, <1>22, <1>23, <1>24, <1>25, <1>26 DEF Next, KernelStep

\* Every step keeps the current process, the index, a0 and sscratch in the relation that its
\* pc asks for.
LEMMA InvCurrentStep == IInv /\ [Next]_vars => InvCurrent'
<1> SUFFICES ASSUME IInv, [Next]_vars PROVE InvCurrent'
  OBVIOUS
<1> USE ConstantFacts, ModeAssumption, WordAssumption, SwitchesAssumption, AsidLenAssumption
    DEF IInv, TypeOK, HartTypes, KernelTypes, InvContext, InvCurrent, Chosen, Probing, SettingUp, Activating, Starting, Trapped, Resuming, Scheduled, vars, hart, xlate, timer, schedule, research
<1>1. CASE ProbeFence
  BY <1>1 DEF ProbeFence, Flush
<1>2. CASE ProbeWrite
  BY <1>2 DEF ProbeWrite, WriteSatp
<1>3. CASE ProbeRead
  BY <1>3 DEF ProbeRead, Bare
<1>4. CASE ProbeFlush
  BY <1>4 DEF ProbeFlush, Flush
<1>5. CASE SchedulerInit
  BY <1>5 DEF SchedulerInit
<1>6. CASE MaskInterrupts
  BY <1>6 DEF MaskInterrupts
<1>7. CASE EnableTimer
  BY <1>7 DEF EnableTimer
<1>8. CASE SchedulerStart
  BY <1>8 DEF SchedulerStart
<1>9. CASE ArmFirstTimer
  BY <1>9 DEF ArmFirstTimer, SetTimer
<1>10. CASE ResearchReset
  BY <1>10 DEF ResearchReset
<1>11. CASE ProcessActivate
  BY <1>11 DEF ProcessActivate
<1>12. CASE FenceBefore
  BY <1>12 DEF FenceBefore, Flush
<1>13. CASE SwitchSatp
  BY <1>13 DEF SwitchSatp, WriteSatp, Activated
<1>14. CASE FenceAfter
  BY <1>14 DEF FenceAfter, Flush, Activated
<1>15. CASE TrapHandler
  BY <1>15 DEF TrapHandler, SetTimer
<1>16. CASE SchedulerOnTimer
  <2>1. frames[a0].sstatus.spp = "U"
    BY <1>16 DEF SchedulerOnTimer, InvContext, ClearedStatus
  <2>2. current_index \in 0 .. PROCESS_COUNT - 1
    BY <1>16 DEF SchedulerOnTimer, InvCurrent, Scheduled, Trapped, PROCESS_COUNT
  <2>3. ChooseNext
    BY <1>16, <2>1, <2>2 DEF SchedulerOnTimer
  <2> QED
    BY <1>16, <2>2, <2>3 DEF SchedulerOnTimer, ChooseNext, PROCESS_COUNT
<1>17. CASE FinishSwitch
  BY <1>17 DEF FinishSwitch
<1>18. CASE RestoreCsrs
  <2>1. frames[a0].sstatus.spp = "U"
    BY <1>18 DEF InvContext, ClearedStatus
  <2>2. pc' = "sret" /\ sscratch' = Chosen
    BY <1>18, <2>1 DEF RestoreCsrs
  <2> QED
    BY <1>18, <2>2 DEF RestoreCsrs
<1>19. CASE RestoreRegisters
  BY <1>19 DEF RestoreRegisters
<1>20. CASE Hang
  BY <1>20 DEF Hang
<1>21. CASE UserStore
  BY <1>21 DEF UserStore, Translations
<1>22. CASE UserCount
  BY <1>22 DEF UserCount
<1>23. CASE CacheTranslation
  BY <1>23 DEF CacheTranslation
<1>24. CASE TimerExpires
  BY <1>24 DEF TimerExpires
<1>25. CASE TakeTimer
  BY <1>25 DEF TakeTimer, Nested, PROCESS_COUNT
<1>26. CASE UNCHANGED vars
  BY <1>26
<1> QED
  BY <1>1, <1>2, <1>3, <1>4, <1>5, <1>6, <1>7, <1>8, <1>9, <1>10, <1>11, <1>12, <1>13, <1>14, <1>15, <1>16, <1>17, <1>18, <1>19, <1>20, <1>21, <1>22, <1>23, <1>24, <1>25, <1>26 DEF Next, KernelStep

\* Every step keeps what the ASID probe has found out: the bits it reads back are those the
\* hardware has.
LEMMA InvProbeStep == IInv /\ [Next]_vars => InvProbe'
<1> SUFFICES ASSUME IInv, [Next]_vars PROVE InvProbe'
  OBVIOUS
<1> USE ConstantFacts, ModeAssumption, WordAssumption, SwitchesAssumption, AsidLenAssumption
    DEF IInv, TypeOK, HartTypes, TranslationTypes, InvContext, InvProbe, InvTranslation, ClearedStatus, Probing, SettingUp, Activating, Starting, Trapped, Resuming, Scheduled, vars, hart, xlate, timer, schedule, research
<1>1. CASE ProbeFence
  BY <1>1 DEF ProbeFence, Flush
<1>2. CASE ProbeWrite
  <2>1. VM_ASID_MAX \cap (0 .. asidlen - 1) = 0 .. asidlen - 1
    <3>1. asidlen \in 0..16
      OBVIOUS
    <3> QED
      BY <3>1, ProbeReadback
  <2>2. satp'.asid = 0 .. asidlen - 1
    BY <1>2, <2>1 DEF ProbeWrite, WriteSatp
  <2> QED
    BY <1>2, <2>2 DEF ProbeWrite
<1>3. CASE ProbeRead
  <2>1. asidlen \in 0..16 /\ satp.asid = 0 .. asidlen - 1
    BY <1>3 DEF ProbeRead
  <2>2. asid_bits' = asidlen
    BY <1>3, <2>1, ProbeCounts DEF ProbeRead
  <2> QED
    BY <1>3, <2>2 DEF ProbeRead
<1>4. CASE ProbeFlush
  BY <1>4 DEF ProbeFlush, Flush
<1>5. CASE SchedulerInit
  BY <1>5 DEF SchedulerInit
<1>6. CASE MaskInterrupts
  BY <1>6 DEF MaskInterrupts
<1>7. CASE EnableTimer
  BY <1>7 DEF EnableTimer
<1>8. CASE SchedulerStart
  BY <1>8 DEF SchedulerStart
<1>9. CASE ArmFirstTimer
  BY <1>9 DEF ArmFirstTimer, SetTimer
<1>10. CASE ResearchReset
  BY <1>10 DEF ResearchReset
<1>11. CASE ProcessActivate
  BY <1>11 DEF ProcessActivate
<1>12. CASE FenceBefore
  BY <1>12 DEF FenceBefore, Flush
<1>13. CASE SwitchSatp
  BY <1>13 DEF SwitchSatp, WriteSatp, Activated
<1>14. CASE FenceAfter
  BY <1>14 DEF FenceAfter, Flush, Activated
<1>15. CASE TrapHandler
  BY <1>15 DEF TrapHandler, SetTimer
<1>16. CASE SchedulerOnTimer
  BY <1>16 DEF SchedulerOnTimer, RejectSupervisorFrame, KeepFrame, ChooseNext, PROCESS_COUNT
<1>17. CASE FinishSwitch
  BY <1>17 DEF FinishSwitch
<1>18. CASE RestoreCsrs
  BY <1>18 DEF RestoreCsrs
<1>19. CASE RestoreRegisters
  BY <1>19 DEF RestoreRegisters
<1>20. CASE Hang
  BY <1>20 DEF Hang
<1>21. CASE UserStore
  BY <1>21 DEF UserStore, Translations
<1>22. CASE UserCount
  BY <1>22 DEF UserCount
<1>23. CASE CacheTranslation
  BY <1>23 DEF CacheTranslation
<1>24. CASE TimerExpires
  BY <1>24 DEF TimerExpires
<1>25. CASE TakeTimer
  BY <1>25 DEF TakeTimer, Nested, PROCESS_COUNT
<1>26. CASE UNCHANGED vars
  BY <1>26
<1> QED
  BY <1>1, <1>2, <1>3, <1>4, <1>5, <1>6, <1>7, <1>8, <1>9, <1>10, <1>11, <1>12, <1>13, <1>14, <1>15, <1>16, <1>17, <1>18, <1>19, <1>20, <1>21, <1>22, <1>23, <1>24, <1>25, <1>26 DEF Next, KernelStep

\* Every step, the hardware's own page walks included, keeps satp and the TLB free of what
\* the running program must not use.
LEMMA InvTranslationStep == IInv /\ [Next]_vars => InvTranslation'
<1> SUFFICES ASSUME IInv, [Next]_vars PROVE InvTranslation'
  OBVIOUS
<1> USE ConstantFacts, ModeAssumption, WordAssumption, SwitchesAssumption, AsidLenAssumption
    DEF IInv, TypeOK, TranslationTypes, InvContext, InvCurrent, InvProbe, InvTranslation, PrivatePages, Chosen, InNewSpace, Probing, SettingUp, Activating, Starting, Trapped, Resuming, Scheduled, vars, hart, xlate, timer, schedule, research
<1>1. CASE ProbeFence
  BY <1>1 DEF ProbeFence, Flush
<1>2. CASE ProbeWrite
  BY <1>2 DEF ProbeWrite, WriteSatp
<1>3. CASE ProbeRead
  BY <1>3 DEF ProbeRead, Bare
<1>4. CASE ProbeFlush
  <2>1. tlb' = {} /\ pc' \in {"hang", "scheduler_init"}
    BY <1>4 DEF ProbeFlush, Flush
  <2>2. satp' = Bare
    BY <1>4 DEF ProbeFlush
  <2> QED
    BY <1>4, <2>1, <2>2 DEF ProbeFlush
<1>5. CASE SchedulerInit
  BY <1>5 DEF SchedulerInit
<1>6. CASE MaskInterrupts
  BY <1>6 DEF MaskInterrupts
<1>7. CASE EnableTimer
  BY <1>7 DEF EnableTimer
<1>8. CASE SchedulerStart
  BY <1>8 DEF SchedulerStart
<1>9. CASE ArmFirstTimer
  BY <1>9 DEF ArmFirstTimer, SetTimer
<1>10. CASE ResearchReset
  BY <1>10 DEF ResearchReset
<1>11. CASE ProcessActivate
  BY <1>11 DEF ProcessActivate
<1>12. CASE FenceBefore
  BY <1>12 DEF FenceBefore, Flush
<1>13. CASE SwitchSatp
  <2>1. current_process = Chosen /\ Chosen \in Processes
    BY <1>13 DEF SwitchSatp
  <2>2. AsidInUse(Chosen) \cap (0 .. asidlen - 1) = AsidInUse(Chosen)
    BY <1>13, <2>1, AsidKept DEF SwitchSatp
  <2>3. satp' = [asid |-> AsidInUse(Chosen), root |-> Chosen]
    BY <1>13, <2>1, <2>2 DEF SwitchSatp, WriteSatp, AsidInUse
  <2>4. /\ pc' \in {"arm", "finish", "fence_after"}
        /\ ~BENCHMARK_USE_ASID => pc' = "fence_after"
        /\ current_index' = current_index
        /\ tlb' = tlb /\ page' = page
    BY <1>13 DEF SwitchSatp, Activated
  <2> QED
    BY <1>13, <2>1, <2>3, <2>4 DEF SwitchSatp
<1>14. CASE FenceAfter
  BY <1>14 DEF FenceAfter, Flush, Activated
<1>15. CASE TrapHandler
  BY <1>15 DEF TrapHandler, SetTimer
<1>16. CASE SchedulerOnTimer
  BY <1>16 DEF SchedulerOnTimer, RejectSupervisorFrame, KeepFrame, ChooseNext, PROCESS_COUNT
<1>17. CASE FinishSwitch
  BY <1>17 DEF FinishSwitch
<1>18. CASE RestoreCsrs
  BY <1>18 DEF RestoreCsrs
<1>19. CASE RestoreRegisters
  BY <1>19 DEF RestoreRegisters
<1>20. CASE Hang
  BY <1>20 DEF Hang
<1>21. CASE UserStore
  BY <1>21 DEF UserStore, Translations
<1>22. CASE UserCount
  BY <1>22 DEF UserCount
<1>23. CASE CacheTranslation
  <2>1. pc' = pc /\ satp' = satp /\ page' = page /\ current_index' = current_index
    BY <1>23 DEF CacheTranslation
  <2>2. satp # Bare
    BY <1>23 DEF CacheTranslation, Bare
  <2>3. ASSUME pc \in Scheduled \cup SettingUp, NEW e \in tlb'
        PROVE  /\ e.asid = AsidInUse(e.root)
               /\ ~BENCHMARK_USE_ASID /\ pc # "fence_after" => e.root = satp.root
    BY <1>23, <2>2, <2>3 DEF CacheTranslation
  <2> QED
    BY <2>1, <2>3
<1>24. CASE TimerExpires
  BY <1>24 DEF TimerExpires
<1>25. CASE TakeTimer
  BY <1>25 DEF TakeTimer, Nested, PROCESS_COUNT
<1>26. CASE UNCHANGED vars
  BY <1>26
<1> QED
  BY <1>1, <1>2, <1>3, <1>4, <1>5, <1>6, <1>7, <1>8, <1>9, <1>10, <1>11, <1>12, <1>13, <1>14, <1>15, <1>16, <1>17, <1>18, <1>19, <1>20, <1>21, <1>22, <1>23, <1>24, <1>25, <1>26 DEF Next, KernelStep

\* Every step keeps ticks, switches and fences in step with the pc.
LEMMA InvCountersStep == IInv /\ [Next]_vars => InvCounters'
<1> SUFFICES ASSUME IInv, [Next]_vars PROVE InvCounters'
  OBVIOUS
<1> USE ConstantFacts, ModeAssumption, WordAssumption, SwitchesAssumption, AsidLenAssumption
    DEF IInv, TypeOK, KernelTypes, InvContext, InvCurrent, InvCounters, ClearedStatus, FencesFor, Chosen, Probing, SettingUp, Activating, Starting, Trapped, Resuming, Scheduled, vars, hart, xlate, timer, schedule, research
<1>1. CASE ProbeFence
  BY <1>1 DEF ProbeFence, Flush
<1>2. CASE ProbeWrite
  BY <1>2 DEF ProbeWrite, WriteSatp
<1>3. CASE ProbeRead
  BY <1>3 DEF ProbeRead, Bare
<1>4. CASE ProbeFlush
  BY <1>4 DEF ProbeFlush, Flush
<1>5. CASE SchedulerInit
  BY <1>5 DEF SchedulerInit
<1>6. CASE MaskInterrupts
  BY <1>6 DEF MaskInterrupts
<1>7. CASE EnableTimer
  BY <1>7 DEF EnableTimer
<1>8. CASE SchedulerStart
  BY <1>8 DEF SchedulerStart
<1>9. CASE ArmFirstTimer
  BY <1>9 DEF ArmFirstTimer, SetTimer
<1>10. CASE ResearchReset
  BY <1>10 DEF ResearchReset
<1>11. CASE ProcessActivate
  BY <1>11 DEF ProcessActivate
<1>12. CASE FenceBefore
  BY <1>12 DEF FenceBefore, Flush
<1>13. CASE SwitchSatp
  BY <1>13 DEF SwitchSatp, WriteSatp, Activated
<1>14. CASE FenceAfter
  <2>1. ~BENCHMARK_USE_ASID
    BY <1>14 DEF FenceAfter, InvProbe
  <2> QED
    BY <1>14, <2>1 DEF FenceAfter, Activated
<1>15. CASE TrapHandler
  BY <1>15 DEF TrapHandler, SetTimer
<1>16. CASE SchedulerOnTimer
  BY <1>16 DEF SchedulerOnTimer, RejectSupervisorFrame, KeepFrame, ChooseNext, PROCESS_COUNT
<1>17. CASE FinishSwitch
  BY <1>17 DEF FinishSwitch
<1>18. CASE RestoreCsrs
  BY <1>18 DEF RestoreCsrs
<1>19. CASE RestoreRegisters
  BY <1>19 DEF RestoreRegisters
<1>20. CASE Hang
  BY <1>20 DEF Hang
<1>21. CASE UserStore
  BY <1>21 DEF UserStore, Translations
<1>22. CASE UserCount
  BY <1>22 DEF UserCount
<1>23. CASE CacheTranslation
  BY <1>23 DEF CacheTranslation
<1>24. CASE TimerExpires
  BY <1>24 DEF TimerExpires
<1>25. CASE TakeTimer
  BY <1>25 DEF TakeTimer, Nested, PROCESS_COUNT
<1>26. CASE UNCHANGED vars
  BY <1>26
<1> QED
  BY <1>1, <1>2, <1>3, <1>4, <1>5, <1>6, <1>7, <1>8, <1>9, <1>10, <1>11, <1>12, <1>13, <1>14, <1>15, <1>16, <1>17, <1>18, <1>19, <1>20, <1>21, <1>22, <1>23, <1>24, <1>25, <1>26 DEF Next, KernelStep

-----------------------------------------------------------------------------

\* Every step of the kernel, the programs, the timer and the hardware preserves
\* the inductive invariant.
LEMMA InvStep == IInv /\ [Next]_vars => IInv'
  BY HartTypesStep, TranslationTypesStep, KernelTypesStep, InvContextStep, InvCurrentStep,
     InvProbeStep, InvTranslationStep, InvCountersStep
  DEF IInv, TypeOK

\* IInv holds between any two steps of the kernel, whatever the switch mode, the
\* ASID width, the number of switches and the moments at which the timer expires.
THEOREM InductiveInvariant == Spec => []IInv
<1>1. Init => IInv
  BY InitInv
<1>2. IInv /\ [Next]_vars => IInv'
  BY InvStep
<1> QED
  BY <1>1, <1>2, PTL DEF Spec

\* Type correctness.
THEOREM TypeCorrect == Spec => []TypeOK
<1>1. IInv => TypeOK
  BY DEF IInv
<1> QED
  BY <1>1, InductiveInvariant, PTL

\* The scheduler never sees a supervisor frame, and the benchmark kernel hangs on
\* nothing but missing ASID hardware.
THEOREM KernelNeverStuck == Spec => []NeverStuck
<1>1. IInv => NeverStuck
  BY DEF IInv, InvProbe, NeverStuck
<1> QED
  BY <1>1, InductiveInvariant, PTL

\* Whenever a program computes, every register, CSR and kernel variable that names
\* a process names it.
THEOREM UserContextCorrect == Spec => []UserContext
<1>1. IInv => UserContext
  <2> SUFFICES ASSUME IInv, mode = "U" PROVE UserContext
    BY DEF UserContext
  <2>1. pc = "user" /\ pc \in Scheduled \ {"activate"} /\ pc \in InNewSpace
    BY DEF IInv, InvContext, Scheduled, Activating, Starting, Trapped, Resuming, InNewSpace
  <2>2. current_process = Chosen /\ sscratch = Chosen /\ satp.root = Chosen
        /\ current_index \in 0..1
    BY <2>1 DEF IInv, InvCurrent, InvTranslation
  <2>3. Chosen \in Processes
    BY <2>2, ConstantFacts DEF Chosen
  <2> QED
    BY <2>1, <2>2, <2>3 DEF IInv, InvContext, UserContext, ClearedStatus, Chosen
<1> QED
  BY <1>1, InductiveInvariant, PTL

\* Two translations under one ASID are of one page table: full flush leaves none of
\* another table, and with ASIDs equal ASIDs are of the same process.
LEMMA IInvCoherent == IInv => TlbCoherent
<1> SUFFICES ASSUME IInv, mode = "U", NEW e \in Translations PROVE e.root = satp.root
  BY DEF TlbCoherent
<1> USE ConstantFacts
<1>1. pc = "user" /\ pc \in Scheduled /\ pc \in InNewSpace
  BY DEF IInv, InvContext, Scheduled, Activating, Starting, Trapped, Resuming, InNewSpace
<1>2. satp = [asid |-> AsidInUse(Chosen), root |-> Chosen] /\ Chosen \in Processes
  BY <1>1 DEF IInv, InvTranslation, InvCurrent, Chosen
<1>3. e.asid = satp.asid /\ (e \in tlb \/ e = satp)
  BY DEF Translations
<1>4. CASE e \in tlb
  <2>1. e.root \in Processes /\ e.asid = AsidInUse(e.root)
    BY <1>1, <1>4 DEF IInv, TypeOK, TranslationTypes, InvTranslation
  <2>2. CASE BENCHMARK_USE_ASID
    BY <2>1, <2>2, <1>2, <1>3
  <2>3. CASE ~BENCHMARK_USE_ASID
    BY <1>1, <1>4, <2>3 DEF IInv, InvTranslation
  <2> QED
    BY <2>2, <2>3
<1> QED
  BY <1>3, <1>4

\* While a program computes, no translation of the other one's page table can be
\* used: both switch modes separate the address spaces.
THEOREM TranslationsCoherent == Spec => []TlbCoherent
  BY IInvCoherent, InductiveInvariant, PTL

\* No program ever writes to the other one's private page.
THEOREM PagesStayPrivate == Spec => []PrivatePages
<1>1. IInv => PrivatePages
  BY DEF IInv, InvTranslation
<1> QED
  BY <1>1, InductiveInvariant, PTL

\* The benchmark's counters agree, and the summary shows what was asked for.
THEOREM CountersAgree == Spec => []Accounting
<1>1. IInv => Accounting
  BY DEF IInv, InvContext, InvCounters, Accounting, Scheduled, Activating, Starting, Trapped,
     Resuming
<1> QED
  BY <1>1, InductiveInvariant, PTL

\* After the summary no step ticks, switches or prints again.
THEOREM StaysQuiet == Spec => QuietAfterSummary
<1> DEFINE Quiet == summary.printed /\ mode = "U" =>
                      mode' = "U" /\ UNCHANGED <<timer_ticks, switch_count, summary, current_process>>
<1>1. IInv /\ [Next]_vars => [Quiet]_vars
  <2> SUFFICES ASSUME IInv, [Next]_vars, summary.printed, mode = "U"
               PROVE  mode' = "U" /\ UNCHANGED <<timer_ticks, switch_count, summary, current_process>>
    OBVIOUS
  <2>1. pc = "user" /\ ~stie
    BY DEF IInv, InvContext, InvCounters
  <2> USE DEF hart, xlate, timer, schedule, research
  <2>2. ~KernelStep /\ ~Hang /\ ~TakeTimer
    BY <2>1 DEF KernelStep, Hang, TakeTimer, ProbeFence, ProbeWrite, ProbeRead, ProbeFlush,
       SchedulerInit, MaskInterrupts, EnableTimer, SchedulerStart, ArmFirstTimer, ResearchReset,
       ProcessActivate, FenceBefore, SwitchSatp, FenceAfter, TrapHandler, SchedulerOnTimer,
       FinishSwitch, RestoreCsrs, RestoreRegisters
  <2>3. CASE UserStore \/ UserCount \/ CacheTranslation \/ TimerExpires
    BY <2>3 DEF UserStore, UserCount, CacheTranslation, TimerExpires
  <2>4. CASE UNCHANGED vars
    BY <2>4 DEF vars
  <2> QED
    BY <2>2, <2>3, <2>4 DEF Next
<1> QED
  BY <1>1, InductiveInvariant, PTL DEF Spec, QuietAfterSummary

-----------------------------------------------------------------------------
(* The refinement of RoundRobin. *)

\* The kernel's initial states are initial states of RoundRobin.
LEMMA RefinementInit == Init => RR!Init
<1> SUFFICES ASSUME Init PROVE RR!Init
  OBVIOUS
<1> USE ConstantFacts DEF RR!Programs
<1>1. \A p \in Processes : WorkOf(p) = 0
  BY DEF Init, WorkOf, NewFrame, Kernel, Nested, PROCESS_COUNT
<1>2. \A p \in Processes : (switch_count + 2 - p) \div 2 = 0
  BY DEF Init
<1> QED
  BY <1>1, <1>2 DEF Init, RR!Init, NoSummary

\* What RoundRobin sees of a state; a step that changes none of it is a stutter.
LEMMA Stutter ==
    ASSUME current_index' = current_index, switch_count' = switch_count,
           page' = page, summary' = summary,
           \A p \in Processes : WorkOf(p)' = WorkOf(p)
    PROVE  UNCHANGED RR!vars
  BY DEF RR!vars

\* Saving the registers of the running program in its frame, and loading them
\* again, neither loses nor changes work.
LEMMA TrapKeepsWork ==
    ASSUME IInv, TakeTimer, NEW p \in Processes
    PROVE  WorkOf(p)' = WorkOf(p)
<1> USE ConstantFacts
<1>1. mode = "U" /\ pc = "user"
  BY DEF IInv, InvContext, TakeTimer
<1>2. sscratch = Chosen /\ regs.who = Chosen /\ Chosen \in Processes
  BY <1>1 DEF IInv, InvContext, InvCurrent, Chosen, Scheduled
<1>3. a0' = Chosen /\ regs' = [who |-> Kernel, s11 |-> 0] /\ process_frame' = process_frame
  BY <1>2 DEF TakeTimer, schedule
<1>4. frames' = [frames EXCEPT ![Chosen] =
                   [who |-> regs.who, s11 |-> regs.s11, sstatus |-> sstatus']]
  BY <1>3 DEF TakeTimer
<1>5. process_frame[p] = p /\ frames \in [FrameSlots -> Frame]
  BY DEF IInv, InvContext, TypeOK, KernelTypes
<1>6. WorkOf(p)' = frames'[p].s11
  BY <1>3, <1>5 DEF WorkOf, Kernel
<1>7. CASE p = Chosen
  BY <1>2, <1>4, <1>5, <1>6, <1>7 DEF WorkOf
<1>8. CASE p # Chosen
  BY <1>2, <1>4, <1>5, <1>6, <1>8 DEF WorkOf
<1> QED
  BY <1>7, <1>8

\* Loading the saved registers changes no program's work: the program goes on where it was.
LEMMA RestoreKeepsWork ==
    ASSUME IInv, RestoreRegisters, NEW p \in Processes
    PROVE  WorkOf(p)' = WorkOf(p)
<1> USE ConstantFacts
<1>1. a0 = Chosen /\ Chosen \in Processes /\ regs.who = Kernel
  BY DEF IInv, InvContext, InvCurrent, RestoreRegisters, Scheduled, Resuming, Chosen
<1>2. regs' = [who |-> frames[a0].who, s11 |-> frames[a0].s11]
      /\ frames' = frames /\ process_frame' = process_frame
  BY DEF RestoreRegisters, schedule
<1>3. process_frame[p] = p /\ frames[a0].who = a0
  BY <1>1 DEF IInv, InvContext
<1> QED
  BY <1>1, <1>2, <1>3 DEF WorkOf, Kernel

\* The program's own increment is the computing step of RoundRobin.
LEMMA CountsWork ==
    ASSUME IInv, UserCount
    PROVE  RR!Compute
<1> USE ConstantFacts
<1>1. regs.who = Chosen /\ Chosen \in Processes /\ pc = "user"
  BY DEF UserCount, IInv, InvContext, InvCurrent, Chosen, Scheduled
<1>2. regs' = [regs EXCEPT !.s11 = (@ + 1) % WORD] /\ UNCHANGED <<frames, process_frame>>
      /\ UNCHANGED <<current_index, switch_count, page, summary>>
  BY DEF UserCount, schedule, research
<1>3. regs.s11 \in 0 .. WORD - 1 /\ regs'.who = Chosen /\ regs'.s11 = (regs.s11 + 1) % WORD
  BY <1>1, <1>2 DEF IInv, TypeOK, HartTypes
<1>4. [p \in Processes |-> WorkOf(p)]' =
        [[p \in Processes |-> WorkOf(p)] EXCEPT ![current_index + 1] = (@ + 1) % WORD]
  BY <1>1, <1>2, <1>3 DEF WorkOf, Chosen
<1>5. switch_count <= BENCHMARK_SWITCHES
      /\ (summary.printed <=> switch_count = BENCHMARK_SWITCHES)
  BY <1>1 DEF IInv, InvCounters, Resuming
<1>6. RR!Running
  <2>1. RR!Turns = switch_count
    BY DEF RR!Turns, IInv, TypeOK, KernelTypes
  <2> QED
    BY <1>1, <1>5, <2>1, SwitchesAssumption DEF RR!Running, RR!Programs, Chosen, IInv, TypeOK, KernelTypes
<1> QED
  BY <1>2, <1>4, <1>6 DEF RR!Compute

\* A store of the running program is a store to its own page.
LEMMA StoresOwnPage ==
    ASSUME IInv, UserStore
    PROVE  RR!Store
<1> USE ConstantFacts
<1>1. pc = "user" /\ mode = "U" /\ regs.who = Chosen /\ Chosen \in Processes
  BY DEF UserStore, IInv, InvContext, InvCurrent, Chosen, Scheduled
<1>2. satp.root = Chosen
  BY <1>1 DEF IInv, InvTranslation, InNewSpace, Scheduled, Activating, Starting, Trapped, Resuming
<1>3. \A e \in Translations : e.root = satp.root
  BY <1>1, IInvCoherent DEF TlbCoherent
<1>4. page' = [page EXCEPT ![Chosen] = Chosen]
  BY <1>1, <1>2, <1>3 DEF UserStore
<1>5. UNCHANGED <<regs, frames, process_frame, current_index, switch_count, summary>>
  BY DEF UserStore, hart, schedule, research
<1>6. RR!Running
  <2>1. RR!Turns = switch_count
    BY DEF RR!Turns, IInv, TypeOK, KernelTypes
  <2>2. switch_count <= BENCHMARK_SWITCHES
        /\ (summary.printed <=> switch_count = BENCHMARK_SWITCHES)
    BY <1>1 DEF IInv, InvCounters, Resuming
  <2> QED
    BY <1>1, <2>1, <2>2, SwitchesAssumption
    DEF RR!Running, RR!Programs, Chosen, IInv, TypeOK, KernelTypes
<1> QED
  BY <1>4, <1>5, <1>6 DEF RR!Store, WorkOf, Chosen

\* scheduler_start is the start of RoundRobin, with the first program.
LEMMA StartsFirst ==
    ASSUME IInv, SchedulerStart
    PROVE  RR!Start
<1>1. current_index = -1 /\ current_index' = 0
  BY DEF IInv, InvCurrent, SchedulerStart, Scheduled, Activating, Starting, Trapped, Resuming
<1>2. UNCHANGED <<regs, frames, process_frame, switch_count, page, summary>>
  BY DEF SchedulerStart, hart, research
<1> QED
  BY <1>1, <1>2 DEF RR!Start, WorkOf

\* A number is twice its half and its parity: for counting each program's turns.
LEMMA Halves ==
    ASSUME NEW n \in Nat, NEW b \in 0..1, n % 2 = b
    PROVE  \E half \in Nat : n = 2 * half + b
<1>1. PICK half \in Nat : n = 2 * half \/ n = 2 * half + 1
  <2>1. n \div 2 \in Nat /\ (n = 2 * (n \div 2) \/ n = 2 * (n \div 2) + 1)
    OBVIOUS
  <2> QED
    BY <2>1
<1>2. n = 2 * half => n % 2 = 0
  OBVIOUS
<1>3. n = 2 * half + 1 => n % 2 = 1
  OBVIOUS
<1> QED
  BY <1>1, <1>2, <1>3

\* A switch completes the turn of the program it interrupted.
LEMMA PreemptsOther ==
    ASSUME IInv, SchedulerOnTimer
    PROVE  RR!Preempt
<1> USE ConstantFacts
<1>1. pc = "on_timer" /\ a0 = Chosen /\ Chosen \in Processes /\ current_index \in 0..1
  BY DEF SchedulerOnTimer, IInv, InvCurrent, Scheduled, Trapped, Chosen
<1>2. ChooseNext
  BY <1>1 DEF SchedulerOnTimer, IInv, InvContext, ClearedStatus, PROCESS_COUNT
<1>3. process_frame' = process_frame
  BY <1>1, <1>2 DEF ChooseNext, IInv, InvContext, TypeOK, KernelTypes
<1>4. UNCHANGED <<regs, frames, page, summary>>
  BY <1>2 DEF SchedulerOnTimer, ChooseNext, hart
<1>5. current_index' + 1 = 3 - (current_index + 1) /\ switch_count' = switch_count + 1
  BY <1>1, <1>2 DEF ChooseNext, PROCESS_COUNT
<1>6. switch_count \in Nat /\ switch_count < BENCHMARK_SWITCHES
      /\ switch_count % 2 = current_index
  BY <1>1 DEF IInv, InvCounters, Trapped, Scheduled, TypeOK, KernelTypes
<1>7. RR!Turns = switch_count
  BY <1>6 DEF RR!Turns
<1>8. [p \in Processes |-> (switch_count' + 2 - p) \div 2] =
        [[p \in Processes |-> (switch_count + 2 - p) \div 2]
            EXCEPT ![current_index + 1] = @ + 1]
  <2>1. PICK half \in Nat : switch_count = 2 * half + current_index
    BY <1>1, <1>6, Halves
  <2>2. (switch_count + 1) \div 2 = half + current_index /\ switch_count \div 2 = half
    BY <1>1, <2>1
  <2>3. (switch_count' + 1) \div 2 = half + 1 /\ switch_count' \div 2 = half + current_index
    BY <1>1, <1>5, <2>1
  <2>4. \A p \in Processes :
          /\ (switch_count + 2 - p) \div 2 = IF p = 1 THEN half + current_index ELSE half
          /\ (switch_count' + 2 - p) \div 2 = IF p = 1 THEN half + 1 ELSE half + current_index
    BY <1>5, <1>6, <2>2, <2>3
  <2> QED
    BY <1>1, <2>1, <2>4
<1> QED
  BY <1>1, <1>3, <1>4, <1>5, <1>6, <1>7, <1>8
  DEF RR!Preempt, RR!Programs, WorkOf, Chosen

\* The summary holds the work saved in the two frames: nobody's registers are live.
LEMMA ReportsWork ==
    ASSUME IInv, FinishSwitch
    PROVE  RR!Report \/ UNCHANGED RR!vars
<1> USE ConstantFacts
<1>1. regs.who = Kernel /\ pc = "finish" /\ ~summary.printed
  BY DEF FinishSwitch, IInv, InvContext, InvCounters, Resuming
<1>2. UNCHANGED <<regs, frames, process_frame, current_index, switch_count, page>>
  BY DEF FinishSwitch, schedule
<1>3. \A p \in Processes : WorkOf(p) = frames[process_frame[p]].s11 /\ WorkOf(p)' = WorkOf(p)
  BY <1>1, <1>2 DEF WorkOf, Kernel
<1>4. CASE switch_count = BENCHMARK_SWITCHES
  <2>1. summary' = [printed |-> TRUE, p1 |-> frames[process_frame[1]].s11,
                    p2 |-> frames[process_frame[2]].s11,
                    switches |-> context_switch_count, sfences |-> sfence_count]
    BY <1>4 DEF FinishSwitch
  <2>2. [p \in Processes |-> IF p = 1 THEN summary'.p1 ELSE summary'.p2]
          = [p \in Processes |-> WorkOf(p)]
    BY <1>3, <2>1
  <2>3. RR!Turns = BENCHMARK_SWITCHES
    BY <1>4, SwitchesAssumption DEF RR!Turns
  <2> QED
    BY <1>1, <1>2, <1>3, <2>1, <2>2, <2>3 DEF RR!Report
<1>5. CASE switch_count # BENCHMARK_SWITCHES
  <2>1. summary' = summary
    BY <1>5 DEF FinishSwitch
  <2> QED
    BY <1>2, <1>3, <2>1, Stutter
<1> QED
  BY <1>4, <1>5

\* Every step is a step of RoundRobin or changes nothing it sees.
LEMMA RefinementStep == IInv /\ [Next]_vars => [RR!Next]_RR!vars
<1> SUFFICES ASSUME IInv, [Next]_vars PROVE RR!Next \/ UNCHANGED RR!vars
  OBVIOUS
<1> USE DEF vars, hart, xlate, timer, schedule, research
<1>1. CASE SchedulerStart
  BY <1>1, StartsFirst DEF RR!Next
<1>2. CASE SchedulerOnTimer
  BY <1>2, PreemptsOther DEF RR!Next
<1>3. CASE FinishSwitch
  BY <1>3, ReportsWork DEF RR!Next
<1>4. CASE UserStore
  BY <1>4, StoresOwnPage DEF RR!Next
<1>5. CASE UserCount
  BY <1>5, CountsWork DEF RR!Next
<1>6. CASE TakeTimer
  BY <1>6, TrapKeepsWork, Stutter DEF TakeTimer
<1>7. CASE RestoreRegisters
  BY <1>7, RestoreKeepsWork, Stutter DEF RestoreRegisters
<1>8. CASE SchedulerInit
  <2>1. current_index' = current_index /\ switch_count' = switch_count
    BY <1>8 DEF SchedulerInit, IInv, InvCurrent, InvCounters, Scheduled, Activating, Starting,
       Trapped, Resuming
  <2> QED
    BY <1>8, <2>1, Stutter DEF SchedulerInit, WorkOf
<1>9. CASE MaskInterrupts \/ EnableTimer \/ RestoreCsrs
  BY <1>9, Stutter DEF MaskInterrupts, EnableTimer, RestoreCsrs, WorkOf
<1>10. CASE ProbeFence \/ ProbeWrite \/ ProbeRead \/ ProbeFlush \/ Hang
  BY <1>10, Stutter DEF ProbeFence, ProbeWrite, ProbeRead, ProbeFlush, Hang, WorkOf
<1>11. CASE ArmFirstTimer \/ ResearchReset \/ ProcessActivate \/ TrapHandler
  BY <1>11, Stutter DEF ArmFirstTimer, ResearchReset, ProcessActivate, TrapHandler, WorkOf
<1>12. CASE FenceBefore \/ SwitchSatp \/ FenceAfter
  BY <1>12, Stutter DEF FenceBefore, SwitchSatp, FenceAfter, WorkOf
<1>13. CASE CacheTranslation \/ TimerExpires \/ UNCHANGED vars
  BY <1>13, Stutter DEF CacheTranslation, TimerExpires, WorkOf
<1> QED
  BY <1>1, <1>2, <1>3, <1>4, <1>5, <1>6, <1>7, <1>8, <1>9, <1>10, <1>11, <1>12, <1>13
  DEF Next, KernelStep

\* The benchmark kernel implements RoundRobin: alternating turns, no work lost or
\* invented, private pages, and one exact summary.
THEOREM KernelImplementsRoundRobin == Spec => ImplementsRoundRobin
<1>1. Init => RR!Init
  BY RefinementInit
<1>2. IInv /\ [Next]_vars => [RR!Next]_RR!vars
  BY RefinementStep
<1> QED
  BY <1>1, <1>2, InductiveInvariant, PTL DEF Spec, RR!Spec, ImplementsRoundRobin

=============================================================================
