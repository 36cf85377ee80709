-------------------------- MODULE MeasurementProofs --------------------------
(***************************************************************************)
(* What the summary of the benchmark says holds for every quantum, every   *)
(* number of switches and every bound on the kernel's own ticks.           *)
(***************************************************************************)
EXTENDS Measurement, TLAPS

Starting == pc \in {"activate_first", "activated_first", "arm", "reset"}

\* How far the run has come, by where the kernel is.
Stage ==
    /\ pc = "switching" => switch_count > 0
    /\ pc \in {"user", "entry", "schedule", "resume"} => switch_count < SWITCHES
    /\ pc \in {"summary", "finished"} => switch_count = SWITCHES
    /\ pc = "entry" => spent <= ENTRY

\* The recorded ticks lie between the start of the measurement and now, without
\* overlap; a switch that has begun is counted and not yet recorded.
Costs ==
    /\ ~Starting =>
          /\ max <= total
          /\ pc # "switching" =>
                total <= switch_count * max /\ total + benchmark_start_ticks <= time
          /\ pc = "switching" =>
                total <= (switch_count - 1) * max /\ total + benchmark_start_ticks <= began
    /\ pc = "finished" => elapsed = time - benchmark_start_ticks

\* The quanta that have been started since the start of the measurement.
Quanta == IF pc = "schedule" THEN switch_count + 2 ELSE switch_count + 1

\* Where the time is between the expirations of the timer, and where the timer is
\* between the bounds on the quanta started so far.
Clock ==
    /\ pc \in {"reset", "resume", "schedule", "switching", "summary", "finished"} =>
          timer <= time + QUANTUM /\ time + QUANTUM <= timer + spent
    /\ pc = "user" => time + QUANTUM <= timer + HANDLER + ran
    /\ pc = "user" /\ HANDLER <= QUANTUM => time <= timer
    /\ pc # "finished" => stie
    /\ pc = "entry" => timer <= time /\ QUANTUM <= HANDLER + ran
    /\ pc = "entry" /\ HANDLER <= QUANTUM => time <= timer + spent
    /\ ~Starting => benchmark_start_ticks + Quanta * QUANTUM <= timer + HANDLER
    /\ ~Starting /\ HANDLER <= QUANTUM =>
          timer <= benchmark_start_ticks + Quanta * QUANTUM + switch_count * ENTRY
                   + (IF pc = "schedule" THEN ENTRY ELSE 0)

IInv == TypeOK /\ Stage /\ Costs /\ Clock

-----------------------------------------------------------------------------
(* Products of a count and a constant. *)

LEMMA Numbers == 0 \in Int /\ 1 \in Int /\ 2 \in Int /\ 0 <= 0
  OBVIOUS

LEMMA OneMore == ASSUME NEW n \in Int, NEW c \in Int PROVE (n + 1) * c = n * c + c
  OBVIOUS

LEMMA Larger == ASSUME NEW n \in Nat, NEW a \in Int, NEW b \in Int, a <= b PROVE n * a <= n * b
  OBVIOUS

LEMMA ProductInt == ASSUME NEW n \in Int, NEW c \in Int PROVE n * c \in Int
  OBVIOUS

LEMMA Chain ==
    ASSUME NEW t \in Int, NEW d \in Int, NEW m \in Int, NEW p \in Int, NEW q \in Int,
           t <= p, p <= q, d <= m
    PROVE  t + d <= q + m
BY SMT

-----------------------------------------------------------------------------
(* Types and stages. *)

LEMMA InitInv == Init => IInv
<1> SUFFICES ASSUME Init PROVE IInv
  OBVIOUS
<1> USE TicksAssumption, Numbers DEF Init
<1>1. TypeOK
  BY DEF TypeOK
<1>2. Stage
  BY DEF Stage
<1>3. Costs
  BY DEF Costs, Starting
<1>4. Clock
  BY DEF Clock, Starting
<1>5. QED
  BY <1>1, <1>2, <1>3, <1>4 DEF IInv

LEMMA StageNext ==
    ASSUME TypeOK, Stage, [Next]_vars
    PROVE  TypeOK' /\ Stage'
<1> USE TicksAssumption, Numbers
<1>1. TypeOK' /\ Stage'
  <2>1. CASE KernelTick
    BY <2>1 DEF KernelTick, TypeOK, Stage, measured, Bound
  <2>2. CASE UserTick
    BY <2>2 DEF UserTick, TypeOK, Stage, measured
  <2>3. CASE ActivateFirst
    BY <2>3 DEF ActivateFirst, TypeOK, Stage, measured
  <2>4. CASE ActivatedFirst
    BY <2>4 DEF ActivatedFirst, TypeOK, Stage, measured, Record
  <2>5. CASE Arm
    BY <2>5 DEF Arm, TypeOK, Stage, measured
  <2>6. CASE Reset
    BY <2>6 DEF Reset, TypeOK, Stage, measured
  <2>7. CASE Interrupt
    BY <2>7 DEF Interrupt, TypeOK, Stage, measured
  <2>8. CASE SetTimer
    BY <2>8 DEF SetTimer, TypeOK, Stage, measured
  <2>9. CASE Schedule
    BY <2>9 DEF Schedule, TypeOK, Stage, measured
  <2>10. CASE Switched
    BY <2>10 DEF Switched, TypeOK, Stage, measured, Record
  <2>11. CASE Resume
    BY <2>11 DEF Resume, TypeOK, Stage, measured
  <2>12. CASE Summary
    <3>1. elapsed' \in Nat
      BY <2>12 DEF Summary, TypeOK
    <3>2. Stage'
      BY <2>12 DEF Summary, Stage
    <3>3. QED
      BY <2>12, <3>1, <3>2 DEF Summary, TypeOK
  <2>13. CASE Finished \/ UNCHANGED vars
    BY <2>13 DEF Finished, vars, measured, TypeOK, Stage, measured
  <2>14. QED
    BY <2>1, <2>2, <2>3, <2>4, <2>5, <2>6, <2>7, <2>8, <2>9, <2>10, <2>11, <2>12, <2>13 DEF Next
<1>2. QED
  BY <1>1

-----------------------------------------------------------------------------
(* The recorded ticks. *)

LEMMA CostsNext ==
    ASSUME TypeOK, Stage, Costs, [Next]_vars
    PROVE  Costs'
<1> USE TicksAssumption, Numbers
<1>1. CASE KernelTick
  BY <1>1 DEF KernelTick, TypeOK, Stage, Costs, Starting, measured
<1>2. CASE UserTick
  BY <1>2 DEF UserTick, TypeOK, Stage, Costs, Starting, measured
<1>3. CASE ActivateFirst
  BY <1>3 DEF ActivateFirst, TypeOK, Stage, Costs, Starting, measured
<1>4. CASE ActivatedFirst
  BY <1>4 DEF ActivatedFirst, TypeOK, Stage, Costs, Starting, measured
<1>5. CASE Arm
  BY <1>5 DEF Arm, TypeOK, Stage, Costs, Starting, measured
<1>6. CASE Reset
  BY <1>6 DEF Reset, TypeOK, Stage, Costs, Starting, measured
<1>7. CASE Interrupt
  BY <1>7 DEF Interrupt, TypeOK, Stage, Costs, Starting, measured
<1>8. CASE SetTimer
  BY <1>8 DEF SetTimer, TypeOK, Stage, Costs, Starting, measured
<1>9. CASE Schedule
  BY <1>9 DEF Schedule, TypeOK, Stage, Costs, Starting, measured
<1>10. CASE Switched
  <2> DEFINE n == switch_count - 1
  <2>1. /\ n \in Nat /\ max \in Int /\ max' \in Int
        /\ max <= max' /\ time - began <= max' /\ max' <= total'
        /\ total <= n * max /\ total' = total + (time - began)
    BY <1>10 DEF Switched, Record, TypeOK, Stage, Costs, Starting
  <2>2. n * max <= n * max'
    BY <2>1, Larger
  <2>3. (n + 1) * max' = n * max' + max'
    BY <2>1, OneMore
  <2>4. n * max \in Int /\ n * max' \in Int /\ n + 1 = switch_count
    BY <2>1, ProductInt DEF TypeOK
  <2> HIDE DEF n
  <2>5. (n + 1) * max' = switch_count * max'
    BY <2>4
  <2>6. time - began \in Int /\ total \in Int /\ switch_count * max' \in Int
    BY <2>1, <2>3, <2>4, <2>5 DEF TypeOK
  <2>7. total' <= n * max' + max'
    BY <2>1, <2>2, <2>4, <2>6, Chain
  <2>8. total' <= switch_count * max'
    BY <2>3, <2>5, <2>7
  <2>9. QED
    BY <1>10, <2>1, <2>8 DEF Switched, Record, TypeOK, Stage, Costs, Starting
<1>11. CASE Resume
  BY <1>11 DEF Resume, TypeOK, Stage, Costs, Starting, measured
<1>12. CASE Summary
  BY <1>12 DEF Summary, TypeOK, Stage, Costs, Starting, measured
<1>13. CASE Finished \/ UNCHANGED vars
  BY <1>13 DEF Finished, vars, measured, TypeOK, Stage, Costs, Starting, measured
<1>14. QED
  BY <1>1, <1>2, <1>3, <1>4, <1>5, <1>6, <1>7, <1>8, <1>9, <1>10, <1>11, <1>12, <1>13 DEF Next

-----------------------------------------------------------------------------
(* The timer. *)

LEMMA ClockNext ==
    ASSUME TypeOK, Stage, Costs, Clock, [Next]_vars
    PROVE  Clock'
<1> USE TicksAssumption, Numbers
<1>1. CASE KernelTick
  BY <1>1 DEF KernelTick, TypeOK, Stage, Clock, Quanta, Starting, measured, Bound
<1>2. CASE UserTick
  BY <1>2 DEF UserTick, TypeOK, Stage, Clock, Quanta, Starting, measured, Pending
<1>3. CASE ActivateFirst
  BY <1>3 DEF ActivateFirst, TypeOK, Stage, Clock, Quanta, Starting, measured
<1>4. CASE ActivatedFirst
  BY <1>4 DEF ActivatedFirst, TypeOK, Stage, Clock, Quanta, Starting, measured
<1>5. CASE Arm
  BY <1>5 DEF Arm, TypeOK, Stage, Clock, Quanta, Starting, measured
<1>6. CASE Reset
  BY <1>6 DEF Reset, TypeOK, Stage, Clock, Quanta, Starting, measured
<1>7. CASE Interrupt
  BY <1>7 DEF Interrupt, TypeOK, Stage, Clock, Quanta, Starting, measured, Pending
<1>8. CASE SetTimer
  BY <1>8 DEF SetTimer, TypeOK, Stage, Clock, Quanta, Starting, measured
<1>9. CASE Schedule
  BY <1>9 DEF Schedule, TypeOK, Stage, Clock, Quanta, Starting, measured
<1>10. CASE Switched
  BY <1>10 DEF Switched, TypeOK, Stage, Clock, Quanta, Starting, measured
<1>11. CASE Resume
  BY <1>11 DEF Resume, TypeOK, Stage, Clock, Quanta, Starting, measured
<1>12. CASE Summary
  BY <1>12 DEF Summary, TypeOK, Stage, Clock, Quanta, Starting, measured
<1>13. CASE Finished \/ UNCHANGED vars
  BY <1>13 DEF Finished, vars, measured, TypeOK, Stage, Clock, Quanta, Starting, measured
<1>14. QED
  BY <1>1, <1>2, <1>3, <1>4, <1>5, <1>6, <1>7, <1>8, <1>9, <1>10, <1>11, <1>12, <1>13 DEF Next

-----------------------------------------------------------------------------
(* The theorems. *)

LEMMA Invariance == Spec => []IInv
<1>1. IInv /\ [Next]_vars => IInv'
  BY StageNext, CostsNext, ClockNext DEF IInv
<1>2. QED
  BY InitInv, <1>1, PTL DEF Spec

\* Every variable keeps its type; the clock never runs behind a recorded start.
THEOREM TypeCorrect == Spec => []TypeOK
<1>1. IInv => TypeOK
  BY DEF IInv
<1>2. QED
  BY Invariance, <1>1, PTL

\* The printed switching ticks fit into the printed elapsed ticks (research.c).
THEOREM CostsFitAlways == Spec => []CostsFit
<1>1. IInv => CostsFit
  BY TicksAssumption, Numbers DEF IInv, TypeOK, Stage, Costs, Starting, CostsFit
<1>2. QED
  BY Invariance, <1>1, PTL

\* A run takes its quanta, whatever the handlers cost (trap.c:62-77).
THEOREM QuantaKeptAlways == Spec => []QuantaKept
<1>1. ASSUME IInv, pc = "finished"
      PROVE  /\ elapsed + HANDLER >= SWITCHES * QUANTUM
             /\ HANDLER <= QUANTUM =>
                   elapsed <= SWITCHES * QUANTUM + SWITCHES * ENTRY + HANDLER
  <2>1. /\ Quanta = SWITCHES + 1
        /\ elapsed = time - benchmark_start_ticks
        /\ timer <= time + QUANTUM /\ time + QUANTUM <= timer + HANDLER
        /\ benchmark_start_ticks + (SWITCHES + 1) * QUANTUM <= timer + HANDLER
        /\ HANDLER <= QUANTUM =>
              timer <= benchmark_start_ticks + (SWITCHES + 1) * QUANTUM + SWITCHES * ENTRY
    BY <1>1, TicksAssumption, Numbers
    DEF IInv, TypeOK, Stage, Costs, Clock, Starting, Quanta
  <2>2. (SWITCHES + 1) * QUANTUM = SWITCHES * QUANTUM + QUANTUM
    BY OneMore, TicksAssumption
  <2>3. SWITCHES * QUANTUM \in Int /\ SWITCHES * ENTRY \in Int
    BY ProductInt, TicksAssumption
  <2>4. QED
    BY <1>1, <2>1, <2>2, <2>3, TicksAssumption DEF IInv, TypeOK
<1>2. IInv => QuantaKept
  BY <1>1 DEF QuantaKept
<1>3. QED
  BY Invariance, <1>2, PTL

\* No program is interrupted before it has had what is left of its quantum.
THEOREM TurnsAreWholeAlways == Spec => []TurnsAreWhole
<1>1. IInv => TurnsAreWhole
  BY TicksAssumption DEF IInv, TypeOK, Clock, TurnsAreWhole
<1>2. QED
  BY Invariance, <1>1, PTL

=============================================================================
