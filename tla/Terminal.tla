------------------------------- MODULE Terminal -------------------------------
(***************************************************************************)
(* What the user of the shell is promised: the banner, and after every     *)
(* line the answer to exactly that line, then the prompt.  Nothing is lost,*)
(* nothing is said twice, and no line is left without its answer.          *)
(***************************************************************************)
EXTENDS Commands

CONSTANTS Lines, NoLine

VARIABLES
    asked,    \* the last line, or NoLine before the first
    shown     \* what was written since

vars == <<asked, shown>>

Init == asked = NoLine /\ shown = <<>>

Promise ==
    CASE asked = NoLine -> banner \o prompt
      [] asked = exit_command -> <<>>
      [] OTHER -> Answer(asked) \o prompt

Show ==
    /\ \E k \in Len(shown) + 1 .. Len(Promise) : shown' = SubSeq(Promise, 1, k)
    /\ UNCHANGED asked

Ask(line) ==
    /\ shown = Promise
    /\ asked # exit_command
    /\ asked' = line
    /\ shown' = <<>>

Next == Show \/ \E line \in Lines : Ask(line)

Spec == Init /\ [][Next]_vars

FairSpec == Spec /\ WF_vars(Show)

=============================================================================
