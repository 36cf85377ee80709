------------------------------- MODULE Commands -------------------------------
(***************************************************************************)
(* The strings of user_shell.c and the answer each line of input asks for: *)
(* what Terminal promises and Shell has to work out from the bytes of its  *)
(* command buffer.  A string is a sequence of characters, without its NUL. *)
(***************************************************************************)
EXTENDS Integers, Sequences, SequencesExt, Boot

CONSTANTS
    banner, prompt,
    help_command, pid_command, memtest_command, exit_command, echo_command, cat_command,
    Space,                       \* echo_prefix and cat_prefix are the commands and a space
    help_text, unknown_text, cat_usage, cat_error, memtest_ok, memtest_fail, newline,
    Digit,                       \* the characters of 0 .. 9: [0 .. 9 -> characters]
    HelloPath                    \* of the only file

words == <<help_command, pid_command, memtest_command, exit_command, echo_command, cat_command>>
commands == {words[i] : i \in 1 .. 6}
echo_prefix == Append(echo_command, Space)
cat_prefix == Append(cat_command, Space)

ASSUME StringsAssumption ==
    /\ \A i, j \in 1 .. 6 : words[i] = words[j] => i = j
    /\ \A w \in commands : w # <<>> /\ ~IsPrefix(echo_prefix, w) /\ ~IsPrefix(cat_prefix, w)
    /\ ~IsPrefix(echo_prefix, cat_prefix) /\ ~IsPrefix(cat_prefix, echo_prefix)
    /\ HelloPath # <<>>
    /\ Pid \in Nat

\* The decimal digits of n.
Decimal[n \in Nat] == IF n < 10 THEN <<n>> ELSE Append(Decimal[n \div 10], n % 10)

\* Digits as characters.
Spelled(digits) == [k \in DOMAIN digits |-> Digit[digits[k]]]

After(prefix, line) == SubSeq(line, Len(prefix) + 1, Len(line))

\* What a line that is not "exit" is answered with.
Answer(line) ==
    CASE line = <<>> -> <<>>
      [] line = help_command -> help_text
      [] line = pid_command -> Spelled(Decimal[Pid]) \o newline
      [] line = memtest_command -> memtest_ok
      [] line = echo_command -> newline
      [] IsPrefix(echo_prefix, line) -> After(echo_prefix, line) \o newline
      [] line \in {cat_command, cat_prefix} -> cat_usage
      [] IsPrefix(cat_prefix, line) /\ line # cat_prefix ->
            IF After(cat_prefix, line) = HelloPath THEN HelloText ELSE cat_error
      [] OTHER -> unknown_text

=============================================================================
