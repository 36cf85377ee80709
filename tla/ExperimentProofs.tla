-------------------------- MODULE ExperimentProofs --------------------------
(***************************************************************************)
(* Whatever kernels, emulators and clock do, results.csv holds what the    *)
(* runner means it to hold: for any number of runs, any conditions and any *)
(* output with a header before a last row.                                 *)
(***************************************************************************)
EXTENDS Experiment, FiniteSetTheorems, TLAPS

\* A run is under way.
InRun == pc \in {"check", "select", "read", "poll", "stop", "wait", "parse"}

Shuffled == \A i, j \in DOMAIN tasks : tasks[i] = tasks[j] => i = j

RowOf(k) == [order |-> k, task |-> tasks[k], row |-> "valid"]

Recorded ==
    /\ results = [k \in 1 .. order - 1 |-> RowOf(k)]
    /\ InRun => order <= TaskCount
    /\ pc = "complete" => order = TaskCount + 1

RowSeen == InRun /\ csv_row = "valid" => valid /\ emitted >= Halves - 1

IInv == TypeOK /\ Shuffled /\ Recorded /\ RowSeen /\ NoEmulatorLeft

-----------------------------------------------------------------------------
(* Numbers. *)

LEMMA TaskFact ==
    /\ TaskCount \in Nat
    /\ IsFiniteSet(Tasks) /\ Cardinality(Tasks) = TaskCount
<1>1. IsFiniteSet(Conditions) /\ Runs \in Nat \ {0}
  BY RunsAssumption
<1>2. Cardinality(Conditions) \in Nat
  BY <1>1, FS_CardinalityType
<1>3. IsFiniteSet(1 .. Runs) /\ Cardinality(1 .. Runs) = Runs
  BY <1>1, FS_Interval
<1>4. IsFiniteSet(Tasks) /\ Cardinality(Tasks) = Cardinality(1 .. Runs) * Cardinality(Conditions)
  BY <1>1, <1>3, FS_Product DEF Tasks
<1>5. QED
  BY <1>1, <1>2, <1>3, <1>4 DEF TaskCount

LEMMA OutputFact ==
    /\ Len(Output) \in Nat /\ Len(Output) >= 2
    /\ Halves \in Nat /\ Halves = 2 * Len(Output)
    /\ \A i \in 1 .. Len(Output) : Output[i] = "row" <=> i = Len(Output)
  BY OutputAssumption DEF Halves

\* A shuffled list of as many tasks as there are holds every one.
LEMMA AllTasks ==
    ASSUME TypeOK, Shuffled
    PROVE  \A t \in Tasks : \E k \in 1 .. TaskCount : tasks[k] = t
<1>1. tasks \in Injection(1 .. TaskCount, Tasks)
  BY DEF TypeOK, Shuffled, Injection, IsInjective
<1>2. Cardinality(1 .. TaskCount) = TaskCount
  BY TaskFact, FS_Interval
<1>3. tasks \in Surjection(1 .. TaskCount, Tasks)
  BY <1>1, <1>2, TaskFact, FS_Injection
<1>4. QED
  BY <1>3 DEF Surjection

-----------------------------------------------------------------------------

LEMMA InitInv == Init => IInv
<1> SUFFICES ASSUME Init PROVE IInv
  OBVIOUS
<1>1. TypeOK
  <2>1. tasks \in [1 .. TaskCount -> Tasks]
    BY DEF Init
  <2>2. order \in Nat /\ 1 <= order /\ order <= TaskCount + 1 /\ results \in Seq([order : 1 .. TaskCount, task : Tasks, row : {"valid"}])
    BY TaskFact DEF Init
  <2>3. /\ emitted \in Nat /\ fetched \in Nat /\ taken \in Nat
        /\ taken <= fetched /\ fetched <= emitted /\ emitted <= Halves
    BY OutputFact DEF Init
  <2>4. QED
    BY <2>1, <2>2, <2>3 DEF Init, TypeOK
<1>2. Shuffled
  BY DEF Init, Shuffled
<1>3. Recorded
  BY DEF Init, Recorded, InRun
<1>4. RowSeen /\ NoEmulatorLeft
  BY DEF Init, RowSeen, InRun, NoEmulatorLeft, Alive
<1>5. QED
  BY <1>1, <1>2, <1>3, <1>4 DEF IInv

-----------------------------------------------------------------------------
(* Types. *)

\* The line that is handed out is one of the output's.
LEMMA LineFact ==
    ASSUME TypeOK, taken < emitted
    PROVE  /\ taken \div 2 + 1 \in 1 .. Len(Output)
           /\ taken \div 2 + 1 = Len(Output) => taken + 1 >= Halves - 1
<1>1. taken \in Nat /\ emitted \in Nat /\ taken < emitted /\ emitted <= Halves
  BY OutputFact DEF TypeOK
<1>2. QED
  BY <1>1, OutputFact

LEMMA TookTypes ==
    ASSUME TypeOK, NEW k, NEW parts \in SUBSET {"nothing", "some", "all"}, Took(k, parts)
    PROVE  /\ csv_header' \in BOOLEAN /\ csv_row' \in {"none", "cut", "valid", "invalid"}
           /\ pc' \in {"stop", "poll"}
           /\ UNCHANGED <<tasks, built, order, results, failure, qemu, valid, expired>>
<1>1. PICK part \in parts :
         LET tagged == part # "nothing"
         IN  /\ csv_header' = (csv_header \/ (k = "header" /\ tagged))
             /\ csv_row' = IF ~(k = "row" /\ tagged) THEN csv_row
                           ELSE IF part = "some" THEN "cut" ELSE IF valid THEN "valid" ELSE "invalid"
             /\ Goto(IF k = "row" /\ tagged THEN "stop" ELSE "poll")
  BY DEF Took
<1>2. csv_header' \in BOOLEAN
  BY <1>1
<1>3. csv_row' \in {"none", "cut", "valid", "invalid"}
  BY <1>1 DEF TypeOK
<1>4. QED
  BY <1>1, <1>2, <1>3 DEF Goto

\* The results may only grow by the row of the current task.
LEMMA RecordFact ==
    ASSUME TypeOK, Recorded, Record, pc' # "failed"
    PROVE  /\ results' = Append(results, RowOf(order)) /\ order' = order + 1
           /\ pc' = "task" /\ csv_row = "valid" /\ csv_header
           /\ order \in 1 .. TaskCount /\ UNCHANGED <<tasks, failure>>
<1>1. order \in 1 .. TaskCount
  BY TaskFact DEF Record, Rejection, Recorded, InRun, TypeOK
<1>2. csv_header /\ csv_row = "valid"
  BY DEF Record, Rejection, Fail, TypeOK
<1>3. QED
  BY <1>1, <1>2 DEF Record, Rejection, RowOf

LEMMA TypesNext ==
    ASSUME IInv, [Next]_vars
    PROVE  TypeOK'
<1> DEFINE Row == [order : 1 .. TaskCount, task : Tasks, row : {"valid"}]
<1> USE TaskFact, OutputFact
<1>0. TypeOK
  BY DEF IInv
<1>1. CASE Emit
  <2>1. emitted' \in Nat /\ emitted' <= Halves /\ fetched' <= emitted'
    BY <1>0, <1>1 DEF Emit, TypeOK
  <2>2. QED
    BY <1>0, <1>1, <2>1 DEF Emit, TypeOK, csv
<1>2. CASE QemuExit \/ Deadline
  <2>1. CASE QemuExit
    BY <1>0, <2>1 DEF QemuExit, TypeOK, csv, lines
  <2>2. CASE Deadline
    BY <1>0, <2>2 DEF Deadline, TypeOK, csv, lines
  <2>3. QED
    BY <1>2, <2>1, <2>2
<1>3. CASE Build
  BY <1>0, <1>3 DEF Build, TypeOK, csv, lines
<1>4. CASE Launch
  <2>1. CASE tasks[order][2] \in built
    <3>1. /\ qemu' = "running" /\ emitted' = 0 /\ fetched' = 0 /\ taken' = 0
          /\ valid' \in BOOLEAN /\ csv_header' = FALSE /\ csv_row' = "none" /\ expired' = FALSE
          /\ pc' = "check" /\ UNCHANGED <<tasks, built, order, results, failure>>
      BY <1>4, <2>1 DEF Launch
    <3>2. /\ emitted' \in Nat /\ fetched' \in Nat /\ taken' \in Nat
          /\ taken' <= fetched' /\ fetched' <= emitted' /\ emitted' <= Halves
      BY <3>1
    <3>3. QED
      BY <1>0, <3>1, <3>2 DEF TypeOK
  <2>2. CASE tasks[order][2] \notin built
    <3>1. /\ pc' = "failed" /\ failure' = "no_kernel"
          /\ UNCHANGED <<tasks, built, order, results, qemu, emitted, fetched, taken, valid,
                         csv_header, csv_row, expired>>
      BY <1>4, <2>2 DEF Launch, Fail, csv, lines
    <3>2. QED
      BY <1>0, <3>1 DEF TypeOK
  <2>3. QED
    BY <2>1, <2>2
<1>5. CASE CheckDeadline \/ Select \/ Poll \/ Complete
  <2>1. /\ pc' \in {"check", "select", "read", "poll", "stop", "complete"}
        /\ UNCHANGED <<tasks, built, order, results, failure, qemu, valid, expired, lines, csv>>
    BY <1>5 DEF CheckDeadline, Select, Poll, Complete, Goto
  <2>2. UNCHANGED <<tasks, built, order, results, failure, qemu, valid, expired,
                    emitted, fetched, taken, csv_header, csv_row>>
    BY <2>1 DEF lines, csv
  <2>3. QED
    BY <1>0, <2>1, <2>2 DEF TypeOK
<1>6. CASE ReadLine
  <2>1. CASE /\ taken + 2 <= fetched /\ taken' = taken + 2
             /\ Took(Output[taken \div 2 + 1], {"all"}) /\ UNCHANGED <<emitted, fetched>>
    <3>1. taken' \in Nat /\ taken' <= fetched'
      BY <1>0, <2>1 DEF TypeOK
    <3>2. /\ csv_header' \in BOOLEAN /\ csv_row' \in {"none", "cut", "valid", "invalid"}
          /\ pc' \in {"stop", "poll"}
          /\ UNCHANGED <<tasks, built, order, results, failure, qemu, valid, expired>>
      BY <1>0, <2>1, TookTypes
    <3>3. QED
      BY <1>0, <2>1, <3>1, <3>2 DEF TypeOK
  <2>2. CASE /\ fetched' = emitted
             /\ UNCHANGED <<tasks, built, order, results, pc, failure, qemu, emitted, taken,
                            valid, csv, expired>>
    <3>1. fetched' \in Nat /\ fetched' <= emitted' /\ taken' <= fetched'
      BY <1>0, <2>2 DEF TypeOK
    <3>2. QED
      BY <1>0, <2>2, <3>1 DEF TypeOK, csv
  <2>3. CASE /\ taken' = fetched
             /\ IF taken < fetched
                THEN Took(Output[taken \div 2 + 1], {"nothing", "some", "all"})
                ELSE Goto("poll") /\ UNCHANGED csv
             /\ UNCHANGED <<emitted, fetched>>
    <3>1. taken' \in Nat /\ taken' <= fetched'
      BY <1>0, <2>3 DEF TypeOK
    <3>2. /\ csv_header' \in BOOLEAN /\ csv_row' \in {"none", "cut", "valid", "invalid"}
          /\ pc' \in {"stop", "poll"}
          /\ UNCHANGED <<tasks, built, order, results, failure, qemu, valid, expired>>
      <4>1. CASE taken < fetched
        BY <1>0, <2>3, <4>1, TookTypes
      <4>2. CASE ~(taken < fetched)
        BY <1>0, <2>3, <4>2 DEF Goto, csv, TypeOK
      <4>3. QED
        BY <4>1, <4>2
    <3>3. QED
      BY <1>0, <2>3, <3>1, <3>2 DEF TypeOK
  <2>4. QED
    BY <1>6, <2>1, <2>2, <2>3 DEF ReadLine
<1>7. CASE Terminate \/ Reap
  BY <1>0, <1>7 DEF Terminate, Reap, TypeOK, csv, lines
<1>8. CASE Record
  <2>1. CASE pc' = "failed"
    <3>1. UNCHANGED <<order, results>> /\ failure' \in {"no_header", "no_row", "bad_row"}
      BY <1>0, <1>8, <2>1 DEF Record, Rejection, Fail, TypeOK
    <3>2. QED
      BY <1>0, <1>8, <2>1, <3>1 DEF Record, Rejection, TypeOK, csv, lines
  <2>2. CASE pc' # "failed"
    <3>1. /\ results' = Append(results, RowOf(order)) /\ order' = order + 1 /\ pc' = "task"
          /\ order \in 1 .. TaskCount /\ UNCHANGED <<tasks, failure>>
      BY <1>8, <2>2, RecordFact DEF IInv
    <3>2. RowOf(order) \in Row
      BY <1>0, <3>1 DEF RowOf, TypeOK
    <3>3. results' \in Seq(Row)
      BY <1>0, <3>1, <3>2 DEF TypeOK
    <3>4. order' \in Nat /\ 1 <= order' /\ order' <= TaskCount + 1
      BY <3>1
    <3>5. QED
      BY <1>0, <1>8, <3>1, <3>3, <3>4 DEF Record, Rejection, TypeOK, csv, lines
  <2>3. QED
    BY <2>1, <2>2
<1>9. CASE Ended \/ UNCHANGED vars
  BY <1>0, <1>9 DEF Ended, vars, TypeOK, csv, lines
<1>10. QED
  BY <1>1, <1>2, <1>3, <1>4, <1>5, <1>6, <1>7, <1>8, <1>9 DEF Next, Runner

-----------------------------------------------------------------------------
(* The results, the row and the emulator. *)

LEMMA RecordedNext ==
    ASSUME IInv, [Next]_vars
    PROVE  Shuffled' /\ Recorded'
<1> USE TaskFact
<1>0. TypeOK /\ Shuffled /\ Recorded
  BY DEF IInv
<1>1. Shuffled'
  <2>1. UNCHANGED tasks
    BY DEF Next, Runner, Emit, QemuExit, Deadline, Build, Launch, CheckDeadline, Select, ReadLine,
           Took, Goto, Poll, Terminate, Reap, Record, Complete, Ended, vars
  <2>2. QED
    BY <1>0, <2>1 DEF Shuffled
<1>2. CASE Record
  <2>1. CASE pc' = "failed"
    <3>1. UNCHANGED <<order, results, tasks>>
      BY <1>0, <1>2, <2>1 DEF Record, Rejection, Fail, TypeOK
    <3>2. results' = [k \in 1 .. order' - 1 |-> RowOf(k)']
      BY <1>0, <3>1 DEF Recorded, RowOf
    <3>3. /\ InRun' => order' <= TaskCount
          /\ pc' = "complete" => order' = TaskCount + 1
      BY <2>1 DEF InRun
    <3>4. QED
      BY <1>1, <3>2, <3>3 DEF Recorded
  <2>2. CASE pc' # "failed"
    <3>1. /\ results' = Append(results, RowOf(order)) /\ order' = order + 1 /\ pc' = "task"
          /\ order \in 1 .. TaskCount /\ UNCHANGED <<tasks, failure>>
      BY <1>0, <1>2, <2>2, RecordFact
    <3>2. results = [k \in 1 .. order - 1 |-> RowOf(k)] /\ Len(results) = order - 1
      BY <1>0, <3>1 DEF Recorded
    <3>3. Append(results, RowOf(order)) = [k \in 1 .. order |-> RowOf(k)]
      BY <3>1, <3>2
    <3>4. \A k : RowOf(k)' = RowOf(k)
      BY <3>1 DEF RowOf
    <3>5. results' = [k \in 1 .. order' - 1 |-> RowOf(k)']
      BY <3>1, <3>3, <3>4
    <3>6. /\ InRun' => order' <= TaskCount
          /\ pc' = "complete" => order' = TaskCount + 1
      BY <3>1 DEF InRun
    <3>7. QED
      BY <1>1, <3>5, <3>6 DEF Recorded
  <2>3. QED
    BY <1>1, <2>1, <2>2
<1>3. CASE Next /\ ~Record
  <2>1. UNCHANGED <<order, results, tasks>>
    BY <1>3 DEF Next, Runner, Emit, QemuExit, Deadline, Build, Launch, Fail, CheckDeadline, Select,
           ReadLine, Took, Goto, Poll, Terminate, Reap, Complete, Ended, vars
  <2>2. InRun' => InRun \/ Launch
    BY <1>3 DEF InRun, Next, Runner, Emit, QemuExit, Deadline, Build, Fail, CheckDeadline, Select,
           ReadLine, Took, Goto, Poll, Terminate, Reap, Complete, Ended, vars
  <2>3. pc' = "complete" => pc = "complete" \/ Complete
    BY <1>3 DEF Next, Runner, Emit, QemuExit, Deadline, Build, Launch, Fail, CheckDeadline, Select,
           ReadLine, Took, Goto, Poll, Terminate, Reap, Ended, vars
  <2>4. InRun' => order' <= TaskCount
    BY <1>0, <2>1, <2>2 DEF Recorded, Launch
  <2>5. pc' = "complete" => order' = TaskCount + 1
    BY <1>0, <2>1, <2>3 DEF Recorded, Complete, TypeOK
  <2>6. results' = [k \in 1 .. order' - 1 |-> RowOf(k)']
    BY <1>0, <2>1 DEF Recorded, RowOf
  <2>7. QED
    BY <1>1, <2>4, <2>5, <2>6 DEF Recorded
<1>4. CASE UNCHANGED vars
  BY <1>0, <1>1, <1>4 DEF Recorded, InRun, RowOf, vars
<1>5. QED
  BY <1>1, <1>2, <1>3, <1>4

\* A row that was handed out whole has been printed whole.
LEMMA TookRow ==
    ASSUME TypeOK, NEW parts, taken < emitted, Took(Output[taken \div 2 + 1], parts)
    PROVE  csv_row' = "valid" => csv_row = "valid" \/ (valid /\ taken + 1 >= Halves - 1)
<1>1. csv_row' = "valid" => csv_row = "valid" \/ (valid /\ Output[taken \div 2 + 1] = "row")
  BY DEF Took, TypeOK
<1>2. QED
  BY <1>1, LineFact, OutputFact

LEMMA RowSeenNext ==
    ASSUME IInv, [Next]_vars
    PROVE  RowSeen'
<1> USE OutputFact
<1>0. TypeOK /\ RowSeen
  BY DEF IInv
<1>1. CASE Emit
  BY <1>0, <1>1 DEF Emit, RowSeen, InRun, csv, TypeOK
<1>2. CASE QemuExit \/ Deadline
  BY <1>0, <1>2 DEF QemuExit, Deadline, RowSeen, InRun, csv, lines
<1>3. CASE Build \/ Complete
  BY <1>3 DEF Build, Complete, Goto, RowSeen, InRun
<1>4. CASE Launch
  BY <1>4 DEF Launch, Fail, RowSeen, InRun
<1>5. CASE CheckDeadline \/ Select \/ Poll
  BY <1>0, <1>5 DEF CheckDeadline, Select, Poll, Goto, RowSeen, InRun, csv, lines
<1>6. CASE ReadLine
  <2>1. UNCHANGED <<emitted, valid>> /\ InRun
    BY <1>6 DEF ReadLine, Took, Goto, InRun
  <2>2. csv_row' = "valid" => csv_row = "valid" \/ (valid /\ taken + 1 >= Halves - 1 /\ taken < emitted)
    <3>1. CASE /\ taken + 2 <= fetched /\ Took(Output[taken \div 2 + 1], {"all"})
      <4>1. taken < emitted
        BY <1>0, <3>1 DEF TypeOK
      <4>2. QED
        BY <1>0, <3>1, <4>1, TookRow
    <3>2. CASE taken < fetched /\ Took(Output[taken \div 2 + 1], {"nothing", "some", "all"})
      <4>1. taken < emitted
        BY <1>0, <3>2 DEF TypeOK
      <4>2. QED
        BY <1>0, <3>2, <4>1, TookRow
    <3>3. CASE UNCHANGED csv
      BY <3>3 DEF csv
    <3>4. QED
      BY <1>6, <3>1, <3>2, <3>3 DEF ReadLine
  <2>3. csv_row' = "valid" => valid /\ emitted >= Halves - 1
    BY <1>0, <2>1, <2>2 DEF RowSeen, TypeOK
  <2>4. QED
    BY <2>1, <2>3 DEF RowSeen
<1>7. CASE Terminate \/ Reap
  BY <1>0, <1>7 DEF Terminate, Reap, RowSeen, InRun, csv, lines
<1>8. CASE Record
  BY <1>0, <1>8 DEF Record, Rejection, Fail, RowSeen, InRun, TypeOK
<1>9. CASE Ended \/ UNCHANGED vars
  BY <1>0, <1>9 DEF Ended, vars, RowSeen, InRun, csv, lines
<1>10. QED
  BY <1>1, <1>2, <1>3, <1>4, <1>5, <1>6, <1>7, <1>8, <1>9 DEF Next, Runner

LEMMA EmulatorNext ==
    ASSUME IInv, [Next]_vars
    PROVE  NoEmulatorLeft'
<1> USE DEF NoEmulatorLeft, Alive, Waiting
<1>0. TypeOK /\ NoEmulatorLeft
  BY DEF IInv
<1>1. CASE Emit \/ QemuExit \/ Deadline
  BY <1>0, <1>1 DEF Emit, QemuExit, Deadline
<1>2. CASE Build \/ Complete
  BY <1>0, <1>2 DEF Build, Complete, Goto
<1>3. CASE Launch
  BY <1>0, <1>3 DEF Launch, Fail
<1>4. CASE CheckDeadline \/ Select \/ Poll
  BY <1>0, <1>4 DEF CheckDeadline, Select, Poll, Goto
<1>5. CASE ReadLine
  BY <1>0, <1>5 DEF ReadLine, Took, Goto
<1>6. CASE Terminate \/ Reap
  BY <1>0, <1>6 DEF Terminate, Reap
<1>7. CASE Record
  BY <1>0, <1>7 DEF Record, Rejection, Fail, TypeOK
<1>8. CASE Ended \/ UNCHANGED vars
  BY <1>0, <1>8 DEF Ended, vars
<1>9. QED
  BY <1>1, <1>2, <1>3, <1>4, <1>5, <1>6, <1>7, <1>8 DEF Next, Runner

-----------------------------------------------------------------------------
(* The theorems. *)

LEMMA Invariance == Spec => []IInv
<1>1. IInv /\ [Next]_vars => IInv'
  BY TypesNext, RecordedNext, RowSeenNext, EmulatorNext DEF IInv
<1>2. QED
  BY InitInv, <1>1, PTL DEF Spec

\* Types: nothing is read that was not printed, nothing handed out that was not read.
THEOREM TypeCorrect == Spec => []TypeOK
<1>1. IInv => TypeOK
  BY DEF IInv
<1>2. QED
  BY Invariance, <1>1, PTL

\* results.csv holds the rows of the tasks done so far, in their order, and at the end
\* one of every task.
THEOREM ResultsFollowTasksAlways == Spec => []ResultsFollowTasks
<1>1. IInv => ResultsFollowTasks
  <2> SUFFICES ASSUME IInv PROVE ResultsFollowTasks
    OBVIOUS
  <2>1. results = [k \in 1 .. order - 1 |-> [order |-> k, task |-> tasks[k], row |-> "valid"]]
    BY DEF IInv, Recorded, RowOf
  <2>2. ASSUME pc = "complete", NEW t \in Tasks
        PROVE  \E k \in DOMAIN results : results[k].task = t
    <3>1. order = TaskCount + 1
      BY <2>2 DEF IInv, Recorded
    <3>2. DOMAIN results = 1 .. TaskCount
      BY <2>1, <3>1, TaskFact
    <3>3. PICK k \in 1 .. TaskCount : tasks[k] = t
      BY AllTasks DEF IInv
    <3>4. results[k].task = t
      BY <2>1, <3>2, <3>3
    <3>5. QED
      BY <3>2, <3>3, <3>4
  <2>3. QED
    BY <2>1, <2>2 DEF ResultsFollowTasks
<1>2. QED
  BY Invariance, <1>1, PTL

\* A row about to be recorded is a whole and valid one of this run.
THEOREM RowIsOfThisRunAlways == Spec => []RowIsOfThisRun
<1>1. IInv => RowIsOfThisRun
  BY DEF IInv, RowSeen, InRun, RowIsOfThisRun
<1>2. QED
  BY Invariance, <1>1, PTL

\* No emulator outlives its run.
THEOREM NoEmulatorLeftAlways == Spec => []NoEmulatorLeft
<1>1. IInv => NoEmulatorLeft
  BY DEF IInv
<1>2. QED
  BY Invariance, <1>1, PTL

=============================================================================
