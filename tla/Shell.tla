-------------------------------- MODULE Shell --------------------------------
(***************************************************************************)
(* user_shell.c, the program of the only process, running on the kernel:   *)
(* the system calls it makes are those of Syscall, step by step, on the    *)
(* file system fs_init has made, with somebody typing at the terminal.     *)
(* The shell computes while the kernel's pc is "user"; at is its own.      *)
(*                                                                         *)
(* Abstractions: what uart_putc shows of the keys themselves is left out;  *)
(* the number of bytes a file gives is in the result of read, so the       *)
(* buffer of command_cat is not kept apart from it.  The loop after        *)
(* user_exit is out of reach.                                              *)
(***************************************************************************)
EXTENDS Syscall, Commands

CONSTANTS
    OtherName,                   \* stands for every path but that of the file
    COMMAND_SIZE, CAT_SIZE,      \* the sizes of the two buffers
    Nul, NoLine

texts == {banner, prompt, help_text, unknown_text, cat_usage, cat_error, memtest_ok, memtest_fail, newline}

ASSUME SizesAssumption ==
    /\ COMMAND_SIZE \in 2 .. MAX_LENGTH + 1
    /\ CAT_SIZE \in 1 .. MAX_LENGTH
\* Every text the shell writes, and the path of the file, fit into one call.
ASSUME TextsAssumption ==
    /\ texts \cup commands \cup {HelloPath, <<Space>>} \subseteq Seq(Bytes)
    /\ Digit \in [0 .. 9 -> Bytes]
    /\ \A text \in texts : Len(text) <= MAX_LENGTH
    /\ Len(Decimal[Pid]) + Len(newline) <= MAX_LENGTH
    /\ Len(HelloPath) < FS_NAME_MAX
ASSUME CharactersAssumption ==
    /\ Printable \subseteq Bytes /\ Nul \in Bytes \ Printable /\ Blank \notin Bytes
    /\ NoLine \notin Seq(Bytes)
    /\ OtherName \in Names \ {HelloName}

VARIABLES
    at,         \* where the shell goes on when the kernel has returned
    command,    \* char command[128]: 1 .. COMMAND_SIZE, zeroed with the stack page
    data,       \* the bytes of the last write
    fd,         \* the descriptor of command_cat
    values,     \* what the calls of command_memtest returned
    asked, shown   \* the last line typed, and what was written since (not in the code)

locals == <<command, data, fd, values>>
screen == <<asked, shown>>
shell_vars == <<vars, at, locals, screen>>

ShellInit ==
    /\ Init
    /\ at = "banner"
    /\ command = [k \in 1 .. COMMAND_SIZE |-> Nul]
    /\ data = <<>> /\ fd = 0 /\ values = <<>>
    /\ asked = NoLine /\ shown = <<>>

-----------------------------------------------------------------------------
(* Strings. *)

\* The C string at the start of command: the bytes before the first NUL.
Entered ==
    LET ends == {k \in 1 .. COMMAND_SIZE : command[k] = Nul}
    IN  SubSeq(command, 1, IF ends = {} THEN COMMAND_SIZE ELSE FS!Least(ends) - 1)

string_equal(a, b) == a = b
string_starts_with(text, prefix) == IsPrefix(prefix, text)

\* command_pid: the digits from the lowest up, and then the other way round.
Lowest[value \in Nat] == IF value = 0 THEN <<>> ELSE <<value % 10>> \o Lowest[value \div 10]

Digits(value) == IF value = 0 THEN <<0>> ELSE Reverse(Lowest[value])

-----------------------------------------------------------------------------
(* The system calls of user space: user_syscall3 and its wrappers. *)

\* Pointers into the stack page, into .user.rodata, and to nothing the program may use.
OwnMemory == [null |-> FALSE, readable |-> MAX_LENGTH + FS_NAME_MAX, writable |-> MAX_LENGTH + FS_NAME_MAX]
Rodata == [OwnMemory EXCEPT !.writable = 0]
Forbidden == [null |-> FALSE, readable |-> 0, writable |-> 0]

Descriptor(n) == [high |-> 0, low |-> n]

\* ecall from a program that goes on at next.
user_syscall3(arguments, next) ==
    /\ pc = "user"
    /\ call' = arguments
    /\ result' = Nothing
    /\ pc' = "syscall"
    /\ at' = next
    /\ UNCHANGED <<tables, sum, fault, stdin, before, screen>>

user_write(text, next) ==
    /\ user_syscall3([NoCall EXCEPT !.number = "write", !.fd = Descriptor(1),
                                       !.pointer = OwnMemory, !.length = Len(text)], next)
    /\ data' = text
    /\ UNCHANGED <<command, fd, values>>

user_read(d, pointer, length, next) ==
    user_syscall3([NoCall EXCEPT !.number = "read", !.fd = Descriptor(d),
                                    !.pointer = pointer, !.length = length], next)

user_open(path, next) ==
    user_syscall3([NoCall EXCEPT !.number = "open", !.pointer = OwnMemory,
                       !.path = [name |-> IF path = HelloPath THEN HelloName ELSE OtherName,
                                 length |-> Len(path) + 1]], next)

user_close(next) ==
    user_syscall3([NoCall EXCEPT !.number = "close", !.fd = Descriptor(fd)], next)

\* A step of the shell that makes no call.
Compute(next) ==
    /\ pc = "user"
    /\ at' = next
    /\ UNCHANGED <<vars, screen>>

-----------------------------------------------------------------------------
(* The loop of user_shell_main. *)

Start == at = "banner" /\ user_write(banner, "prompt")

ShowPrompt == at = "prompt" /\ user_write(prompt, "ask")

\* The locals of a command that has returned are gone.
Forget == data' = <<>> /\ fd' = 0 /\ values' = <<>> /\ UNCHANGED command

\* Mutant: no byte is kept for the terminator.
ReadLineFull ==
    /\ at = "ask"
    /\ user_read(0, OwnMemory, COMMAND_SIZE, "line")
    /\ Forget

ReadLine ==
    /\ at = "ask"
    /\ user_read(0, OwnMemory, COMMAND_SIZE - 1, "line")
    /\ Forget

\* Mutant: the line is not ended, so an older, longer one shows behind it.
TerminateNot ==
    /\ at = "line"
    /\ Compute(IF result.value <= 0 THEN "prompt" ELSE "parse")
    /\ UNCHANGED locals

\* command[length] = '\0'; an empty line or an error leads back to the prompt.
Terminate ==
    /\ at = "line"
    /\ Compute(IF result.value <= 0 THEN "prompt" ELSE "parse")
    /\ command' = IF result.value < 0 THEN command ELSE [command EXCEPT ![result.value + 1] = Nul]
    /\ UNCHANGED <<data, fd, values>>

Is(word) == at = "parse" /\ string_equal(Entered, word)
Begins(prefix) == at = "parse" /\ string_starts_with(Entered, prefix)

Help == Is(help_command) /\ user_write(help_text, "prompt")

GetPid ==
    /\ Is(pid_command)
    /\ user_syscall3([NoCall EXCEPT !.number = "getpid"], "pid")
    /\ UNCHANGED locals

ShowPid == at = "pid" /\ user_write(Spelled(Digits(result.value)) \o newline, "prompt")

Exit ==
    /\ Is(exit_command)
    /\ user_syscall3([NoCall EXCEPT !.number = "exit"], "exited")
    /\ UNCHANGED locals

Echo == Is(echo_command) /\ user_write(newline, "prompt")

EchoText == Begins(echo_prefix) /\ user_write(After(echo_prefix, Entered), "newline")

EndEcho == at = "newline" /\ user_write(newline, "prompt")

Unknown ==
    /\ at = "parse"
    /\ \A w \in commands : ~string_equal(Entered, w)
    /\ ~string_starts_with(Entered, echo_prefix) /\ ~string_starts_with(Entered, cat_prefix)
    /\ user_write(unknown_text, "prompt")

-----------------------------------------------------------------------------
(* command_memtest: three calls the kernel has to refuse. *)

Memtest ==
    /\ Is(memtest_command)
    /\ user_syscall3([NoCall EXCEPT !.number = "write", !.fd = Descriptor(1),
                                       !.pointer = Forbidden, !.length = 1], "kernel address")
    /\ values' = <<>>
    /\ UNCHANGED <<command, data, fd>>

MemtestKernel ==
    /\ at = "kernel address"
    /\ user_syscall3([NoCall EXCEPT !.number = "write", !.fd = Descriptor(1),
                                       !.pointer = Forbidden, !.length = 1], "readonly buffer")
    /\ values' = Append(values, result.value)
    /\ UNCHANGED <<command, data, fd>>

MemtestReadonly ==
    /\ at = "readonly buffer"
    /\ user_read(0, Rodata, 1, "verdict")
    /\ values' = Append(values, result.value)
    /\ UNCHANGED <<command, data, fd>>

Verdict ==
    /\ at = "verdict"
    /\ user_write(IF Append(values, result.value) = <<-1, -1, -1>> THEN memtest_ok ELSE memtest_fail,
                  "prompt")

-----------------------------------------------------------------------------
(* command_cat *)

CatUsage ==
    /\ Is(cat_command) \/ (Begins(cat_prefix) /\ After(cat_prefix, Entered) = <<>>)
    /\ user_write(cat_usage, "prompt")

CatOpen ==
    /\ Begins(cat_prefix) /\ After(cat_prefix, Entered) # <<>>
    /\ user_open(After(cat_prefix, Entered), "opened")
    /\ UNCHANGED locals

Opened ==
    /\ at = "opened"
    /\ \/ result.value < 0 /\ user_write(cat_error, "prompt")
       \/ /\ result.value >= 0
          /\ Compute("cat")
          /\ fd' = result.value
          /\ UNCHANGED <<command, data, values>>

CatRead ==
    /\ at = "cat"
    /\ user_read(fd, OwnMemory, CAT_SIZE, "counted")
    /\ UNCHANGED locals

\* Mutant: the end of the file leaves the function.
CatLeak ==
    /\ at = "counted"
    /\ IF result.value = 0 THEN Compute("prompt") /\ UNCHANGED locals
       ELSE user_write(IF result.value < 0 THEN cat_error ELSE result.data,
                       IF result.value < 0 THEN "close" ELSE "cat")

\* The bytes just read go to the terminal; the end of the file or an error ends the loop.
Cat ==
    /\ at = "counted"
    /\ IF result.value = 0 THEN Compute("close") /\ UNCHANGED locals
       ELSE user_write(IF result.value < 0 THEN cat_error ELSE result.data,
                       IF result.value < 0 THEN "close" ELSE "cat")

CatClose ==
    /\ at = "close"
    /\ user_close("prompt")
    /\ UNCHANGED locals

-----------------------------------------------------------------------------
(* The kernel and the terminal. *)

\* The line sys_read_stdin has put into command: the keys it has stored are those of
\* its own buffer; where it has stored nothing, command keeps what it had.
Received == [k \in 1 .. COMMAND_SIZE |->
                 IF k <= MAX_LENGTH /\ line[k] # Blank THEN line[k] ELSE command[k]]

\* What was typed and not taken back, as far as there is room.
LineTyped ==
    [k \in 1 .. FS!Smaller(Cardinality(Kept), COMMAND_SIZE - 1) |->
        typed[CHOOSE i \in Kept : Cardinality({j \in Kept : j <= i}) = k]]

LineReturns == pc = "resume" /\ at = "line"

Kernel ==
    /\ KernelStep
    /\ command' = IF LineReturns THEN Received ELSE command
    /\ asked' = IF LineReturns THEN LineTyped ELSE asked
    /\ shown' = IF LineReturns THEN <<>> ELSE IF pc = "write" THEN shown \o data ELSE shown
    /\ UNCHANGED <<at, data, fd, values>>

Typing == \E c \in Keys : Key(c) /\ UNCHANGED <<at, locals, screen>>

Parked == Stopped /\ UNCHANGED <<at, locals, screen>>

Program ==
    \/ Start \/ ShowPrompt \/ ReadLine \/ Terminate
    \/ Help \/ GetPid \/ ShowPid \/ Exit \/ Echo \/ EchoText \/ EndEcho \/ Unknown
    \/ Memtest \/ MemtestKernel \/ MemtestReadonly \/ Verdict
    \/ CatUsage \/ CatOpen \/ Opened \/ CatRead \/ Cat \/ CatClose

ShellNext == Program \/ Kernel \/ Typing \/ Parked

ShellSpec == ShellInit /\ [][ShellNext]_shell_vars

\* The hart executes instructions, and whoever types a line ends it at last.
PressEnter == Key("Enter") /\ UNCHANGED <<at, locals, screen>>
ShellFairSpec ==
    ShellSpec /\ WF_shell_vars(Program) /\ WF_shell_vars(Kernel) /\ WF_shell_vars(PressEnter)

-----------------------------------------------------------------------------
(* Properties. *)

\* The terminator of a line lies in the buffer, too.
ShellTypeOK ==
    /\ TypeOK
    /\ pc = "user" /\ at = "line" => result.value + 1 \in DOMAIN command
    /\ command \in [1 .. COMMAND_SIZE -> Printable \cup {Nul}]
    /\ fd \in Nat
    /\ values \in {<<>>, <<-1>>, <<-1, -1>>}

\* Whenever the shell is about to prompt, every descriptor it has opened is closed
\* again, on the ways out of cat after an error too: the table of open files is shared
\* and small, and nothing else would ever free a slot (user_shell.c:357-400).
NoDescriptorLeft == pc = "user" /\ at = "prompt" => \A i \in DOMAIN open_files : ~open_files[i].used

\* What the buffer has room for.
Lines == UNION {[1 .. n -> Printable] : n \in 0 .. COMMAND_SIZE - 1}

T == INSTANCE Terminal

\* Every line is answered, completely and once, with what it asks for and not with
\* what an older line has left in the buffer; no write of the shell is refused, and
\* after the answer there is always the prompt (user_shell.c:407-559).
ImplementsTerminal == T!FairSpec

=============================================================================
