------------------------------ MODULE Experiment ------------------------------
(***************************************************************************)
(* run_experiments.py: the kernels of all conditions are built, then every *)
(* task boots one under QEMU, waits for its row and appends it to          *)
(* results.csv.  The runner, the emulator, the pipe between them and the   *)
(* clock are actors of their own.                                          *)
(*                                                                         *)
(* A kernel prints the lines Output, each in two halves, of which the      *)
(* second has the newline; so everything that has left the emulator, has   *)
(* been taken out of the pipe, or has been handed out by readline is a     *)
(* number of halves.  subprocess.PIPE with text=True is a TextIOWrapper:   *)
(* its readline takes all that is in the pipe into a buffer of its own,    *)
(* and select sees the pipe only.                                          *)
(*                                                                         *)
(* Left out: the interrupt from the keyboard, Popen without a stdout, and  *)
(* the metadata and log files.                                             *)
(***************************************************************************)
EXTENDS Integers, Sequences, FiniteSets

CONSTANTS
    Conditions,     \* mode, quantum and working set
    Runs,           \* args.runs
    Output          \* the kinds of lines a kernel prints: the header, then the row, last

ASSUME RunsAssumption == Runs \in Nat \ {0} /\ IsFiniteSet(Conditions)
ASSUME OutputAssumption ==
    /\ Output \in Seq({"text", "header", "row"})
    /\ \E k \in 1 .. Len(Output) - 1 :
          \A i \in 1 .. Len(Output) :
              /\ Output[i] = "header" <=> i = k
              /\ Output[i] = "row" <=> i = Len(Output)

Tasks == (1 .. Runs) \X Conditions
TaskCount == Runs * Cardinality(Conditions)
Halves == 2 * Len(Output)

VARIABLES
    tasks,         \* the shuffled list
    built,         \* the conditions whose kernel.elf exists
    order,         \* execution_order
    results,       \* the rows of results.csv: [order, task, row]
    pc,            \* the runner's next step
    failure,       \* what it has stopped for, or "none"
    qemu,          \* "none", "running", "terminated" (SIGTERM sent) or "dead"
    emitted, fetched, taken,   \* halves printed, out of the pipe, returned by readline
    valid,         \* whether the kernel's row passes validate_result (not in the code)
    csv_header, csv_row,       \* csv_row: "none", "cut", or what the row says
    expired        \* time.monotonic() >= deadline

lines == <<emitted, fetched, taken>>
csv == <<csv_header, csv_row>>
vars == <<tasks, built, order, results, pc, failure, qemu, lines, valid, csv, expired>>

Init ==
    /\ tasks \in {t \in [1 .. TaskCount -> Tasks] : \A i, j \in DOMAIN t : t[i] = t[j] => i = j}
    /\ built = {}
    /\ order = 1
    /\ results = <<>>
    /\ pc = "build" /\ failure = "none"
    /\ qemu = "none"
    /\ emitted = 0 /\ fetched = 0 /\ taken = 0
    /\ valid = TRUE
    /\ csv_header = FALSE /\ csv_row = "none"
    /\ expired = FALSE

-----------------------------------------------------------------------------
(* The emulator and the clock. *)

Alive == qemu \in {"running", "terminated"}
Waiting == pc \in {"check", "select", "read", "poll"}

\* The kernel prints half a line; after the row it parks and QEMU keeps running.
Emit ==
    /\ Alive
    /\ emitted < Halves
    /\ emitted' = emitted + 1
    /\ UNCHANGED <<tasks, built, order, results, pc, failure, qemu, fetched, taken, valid, csv, expired>>

\* QEMU ends, after SIGTERM or of itself.
QemuExit ==
    /\ Alive
    /\ qemu' = "dead"
    /\ UNCHANGED <<tasks, built, order, results, pc, failure, lines, valid, csv, expired>>

Deadline ==
    /\ Waiting /\ ~expired
    /\ expired' = TRUE
    /\ UNCHANGED <<tasks, built, order, results, pc, failure, qemu, lines, valid, csv>>

-----------------------------------------------------------------------------
(* The runner. *)

Fail(reason) == pc' = "failed" /\ failure' = reason /\ UNCHANGED <<order, results>>

\* build_condition for the next one; when make fails the whole experiment stops.
Build ==
    /\ pc = "build"
    /\ IF built = Conditions THEN pc' = "task" /\ UNCHANGED <<built, failure>>
       ELSE \E c \in Conditions \ built :
               \/ built' = built \cup {c} /\ UNCHANGED <<pc, failure>>
               \/ pc' = "failed" /\ failure' = "build" /\ UNCHANGED built
    /\ UNCHANGED <<tasks, order, results, qemu, lines, valid, csv, expired>>

\* Mutant: the header and the row of the run before are still there.
LaunchStale ==
    /\ pc = "task" /\ order <= TaskCount
    /\ qemu' = "running"
    /\ emitted' = 0 /\ fetched' = 0 /\ taken' = 0
    /\ valid' \in BOOLEAN
    /\ expired' = FALSE
    /\ pc' = "check"
    /\ UNCHANGED <<tasks, built, order, results, failure, csv>>

\* execute_kernel starts QEMU, with an empty pipe and a deadline to come.
Launch ==
    /\ pc = "task" /\ order <= TaskCount
    /\ IF tasks[order][2] \in built
       THEN /\ qemu' = "running"
            /\ emitted' = 0 /\ fetched' = 0 /\ taken' = 0
            /\ valid' \in BOOLEAN
            /\ csv_header' = FALSE /\ csv_row' = "none"
            /\ expired' = FALSE
            /\ pc' = "check"
            /\ UNCHANGED <<order, results, failure>>
       ELSE Fail("no_kernel") /\ UNCHANGED <<qemu, lines, valid, csv, expired>>
    /\ UNCHANGED <<tasks, built>>

Goto(next) ==
    /\ pc' = next
    /\ UNCHANGED <<tasks, built, order, results, failure, qemu, valid, expired>>

CheckDeadline ==
    /\ pc = "check"
    /\ Goto(IF expired THEN "stop" ELSE "select")
    /\ UNCHANGED <<lines, csv>>

\* Mutant: select waits without a limit.
SelectForever ==
    /\ pc = "select"
    /\ Goto(IF fetched < emitted \/ qemu = "dead" THEN "read" ELSE "select")
    /\ UNCHANGED <<lines, csv>>

\* select: the pipe has data or has ended, or 0.2 s pass without either.
Select ==
    /\ pc = "select"
    /\ Goto(IF fetched < emitted \/ qemu = "dead" THEN "read" ELSE "poll")
    /\ UNCHANGED <<lines, csv>>

\* What execute_kernel does with a line of the kind k.  The end of the output may be
\* cut anywhere: before the end of the tag, after it, or at the newline.
Took(k, parts) ==
    \E part \in parts :
        LET tagged == part # "nothing"
        IN  /\ csv_header' = (csv_header \/ (k = "header" /\ tagged))
            /\ csv_row' = IF ~(k = "row" /\ tagged) THEN csv_row
                          ELSE IF part = "some" THEN "cut" ELSE IF valid THEN "valid" ELSE "invalid"
            /\ Goto(IF k = "row" /\ tagged THEN "stop" ELSE "poll")

\* readline: a line in the buffer, else all that is in the pipe, else it blocks until
\* there is more; at the end of the output it returns what is left.
ReadLine ==
    /\ pc = "read"
    /\ \/ /\ taken + 2 <= fetched
          /\ taken' = taken + 2
          /\ Took(Output[taken \div 2 + 1], {"all"})
          /\ UNCHANGED <<emitted, fetched>>
       \/ /\ taken + 2 > fetched /\ fetched < emitted
          /\ fetched' = emitted
          /\ UNCHANGED <<tasks, built, order, results, pc, failure, qemu, emitted, taken,
                         valid, csv, expired>>
       \/ /\ taken + 2 > fetched /\ fetched = emitted /\ qemu = "dead"
          /\ taken' = fetched
          /\ IF taken < fetched THEN Took(Output[taken \div 2 + 1], {"nothing", "some", "all"})
             ELSE Goto("poll") /\ UNCHANGED csv
          /\ UNCHANGED <<emitted, fetched>>

Poll ==
    /\ pc = "poll"
    /\ Goto(IF qemu = "dead" THEN "stop" ELSE "check")
    /\ UNCHANGED <<lines, csv>>

\* Mutant: only a run that gave no row is stopped.
TerminateFailed ==
    /\ pc = "stop"
    /\ IF qemu = "dead" \/ csv_row # "none" THEN pc' = "parse" /\ UNCHANGED qemu
       ELSE pc' = "wait" /\ qemu' = "terminated"
    /\ UNCHANGED <<tasks, built, order, results, failure, lines, valid, csv, expired>>

\* terminate_process, which the finally clause calls whatever ended the loop.
Terminate ==
    /\ pc = "stop"
    /\ IF qemu = "dead" THEN pc' = "parse" /\ UNCHANGED qemu
       ELSE pc' = "wait" /\ qemu' = "terminated"
    /\ UNCHANGED <<tasks, built, order, results, failure, lines, valid, csv, expired>>

\* QEMU has gone, or the two seconds have passed and it is killed.
Reap ==
    /\ pc = "wait"
    /\ pc' = "parse"
    /\ qemu' = "dead"
    /\ UNCHANGED <<tasks, built, order, results, failure, lines, valid, csv, expired>>

\* parse_result and validate_result: what is wrong with the output, or "none".
Rejection ==
    CASE ~csv_header -> "no_header"
      [] csv_header /\ csv_row = "none" -> "no_row"
      [] csv_header /\ csv_row \in {"cut", "invalid"} -> "bad_row"
      [] csv_header /\ csv_row = "valid" -> "none"

\* Mutant: a run without a usable row is left out and the next one is started.
RecordSkip ==
    /\ pc = "parse"
    /\ pc' = "task"
    /\ order' = order + 1
    /\ results' = IF csv_row = "valid"
                  THEN Append(results, [order |-> order, task |-> tasks[order], row |-> csv_row])
                  ELSE results
    /\ UNCHANGED <<tasks, built, failure, qemu, lines, valid, csv, expired>>

\* The first run whose output is rejected ends the experiment.
Record ==
    /\ pc = "parse"
    /\ IF Rejection # "none" THEN Fail(Rejection)
       ELSE /\ results' = Append(results, [order |-> order, task |-> tasks[order], row |-> csv_row])
            /\ order' = order + 1
            /\ pc' = "task"
            /\ UNCHANGED failure
    /\ UNCHANGED <<tasks, built, qemu, lines, valid, csv, expired>>

Complete ==
    /\ pc = "task" /\ order > TaskCount
    /\ Goto("complete")
    /\ UNCHANGED <<lines, csv>>

Ended == pc \in {"complete", "failed"} /\ UNCHANGED vars

Runner ==
    \/ Build \/ Launch \/ CheckDeadline \/ Select \/ ReadLine \/ Poll
    \/ Terminate \/ Reap \/ Record \/ Complete

Next == Emit \/ QemuExit \/ Deadline \/ Runner \/ Ended

Spec == Init /\ [][Next]_vars

\* Nothing is assumed of the emulator: it may stop for ever, also inside a line.
FairSpec == Spec /\ WF_vars(Runner) /\ WF_vars(Deadline)

-----------------------------------------------------------------------------
(* Properties. *)

TypeOK ==
    /\ tasks \in [1 .. TaskCount -> Tasks]
    /\ built \subseteq Conditions
    /\ order \in Nat /\ 1 <= order /\ order <= TaskCount + 1
    /\ results \in Seq([order : 1 .. TaskCount, task : Tasks, row : {"valid"}])
    /\ pc \in {"build", "task", "check", "select", "read", "poll", "stop", "wait", "parse",
              "complete", "failed"}
    /\ failure \in {"none", "build", "no_kernel", "no_header", "no_row", "bad_row"}
    /\ qemu \in {"none", "running", "terminated", "dead"}
    /\ emitted \in Nat /\ fetched \in Nat /\ taken \in Nat
    /\ taken <= fetched /\ fetched <= emitted /\ emitted <= Halves
    /\ valid \in BOOLEAN /\ csv_header \in BOOLEAN /\ expired \in BOOLEAN
    /\ csv_row \in {"none", "cut", "valid", "invalid"}

\* results.csv holds exactly the rows of the tasks done so far, each under its own
\* number and its own run index, in the shuffled order: a run that fails leaves no gap
\* for the later rows to slip into, because it ends the experiment
\* (run_experiments.py:677-796).
ResultsFollowTasks ==
    /\ results = [k \in 1 .. order - 1 |-> [order |-> k, task |-> tasks[k], row |-> "valid"]]
    /\ pc = "complete" => \A t \in Tasks : \E k \in DOMAIN results : results[k].task = t

\* A row that is about to be recorded was printed, to its last character, by the kernel
\* of this very run, and is one that validate_result accepts, however many lines come in
\* one piece and wherever the output is cut off (run_experiments.py:255-313).
RowIsOfThisRun ==
    pc \in {"stop", "wait", "parse"} /\ csv_row = "valid" => valid /\ emitted >= Halves - 1

\* No emulator is left running when the runner goes on to parse, to the next kernel or
\* to its end, whichever way the loop was left (run_experiments.py:204-219, 304-307):
\* two kernels at a time would disturb each other's ticks.
NoEmulatorLeft == Alive => Waiting \/ pc \in {"stop", "wait"}

\* readline waits for the rest of a line, of an emulator that lives.
InsideALine == pc = "read" /\ Alive /\ emitted % 2 = 1

\* The experiment ends, with all its rows or with an error, even when kernels stop
\* printing, die, or ignore SIGTERM.  There is one way for it to hang: an emulator that
\* lives on and stops for ever inside a line it has begun, because readline blocks
\* without regard to the deadline (run_experiments.py:274).
Ends == <>(pc \in {"complete", "failed"}) \/ <>[]InsideALine

\* When the time of a run is over and its emulator is still running, the runner says
\* "benchmark did not emit CSV row" (run_experiments.py:327).  But the row may have come
\* together with an earlier line, and lie in the buffer of readline, where select does
\* not see it; the kernel prints nothing after it.
ReportedMissingIsMissing ==
    pc = "stop" /\ qemu = "running" /\ csv_header /\ csv_row = "none" => fetched < Halves

=============================================================================
