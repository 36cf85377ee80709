----------------------------- MODULE RoundRobin -----------------------------
(***************************************************************************)
(* What the benchmark build of Mini-RVOS promises, with no kernel in it:   *)
(* two user programs, each computing in an address space of its own, take  *)
(* turns; after a fixed number of turns one summary is printed, and it     *)
(* holds exactly the work each program has done at that moment.            *)
(* ContextSwitch, the detailed model of the kernel, implements this.       *)
(***************************************************************************)
EXTENDS Integers

CONSTANTS
    BENCHMARK_SWITCHES,  \* preemptions before the summary (benchmark.h); even
    WORD                 \* number of values of a machine word (2^64)

Programs == 1..2

VARIABLES
    turn,      \* the program that may compute; 0 before the first turn
    work,      \* work[p]: units of work p has done, modulo WORD
    page,      \* page[p]: who last wrote p's private page; 0: nobody
    quanta,    \* quanta[p]: turns p has completed
    reported,  \* whether the summary has been printed
    summary    \* summary[p]: the work printed for p

vars == <<turn, work, page, quanta, reported, summary>>

Init ==
    /\ turn = 0
    /\ work = [p \in Programs |-> 0]
    /\ page = [p \in Programs |-> 0]
    /\ quanta = [p \in Programs |-> 0]
    /\ reported = FALSE
    /\ summary = [p \in Programs |-> 0]

Turns == quanta[1] + quanta[2]

\* Between the last preemption and the summary nobody computes.
Running == turn \in Programs /\ (Turns < BENCHMARK_SWITCHES \/ reported)

Start ==
    /\ turn = 0
    /\ turn' = 1
    /\ UNCHANGED <<work, page, quanta, reported, summary>>

Compute ==
    /\ Running
    /\ work' = [work EXCEPT ![turn] = (@ + 1) % WORD]
    /\ UNCHANGED <<turn, page, quanta, reported, summary>>

Store ==
    /\ Running
    /\ page' = [page EXCEPT ![turn] = turn]
    /\ UNCHANGED <<turn, work, quanta, reported, summary>>

Preempt ==
    /\ turn \in Programs
    /\ Turns < BENCHMARK_SWITCHES
    /\ turn' = 3 - turn
    /\ quanta' = [quanta EXCEPT ![turn] = @ + 1]
    /\ UNCHANGED <<work, page, reported, summary>>

Report ==
    /\ Turns = BENCHMARK_SWITCHES
    /\ ~reported
    /\ reported' = TRUE
    /\ summary' = work
    /\ UNCHANGED <<turn, work, page, quanta>>

Next == Start \/ Compute \/ Store \/ Preempt \/ Report

Spec == Init /\ [][Next]_vars

=============================================================================
