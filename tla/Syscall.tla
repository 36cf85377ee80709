------------------------------- MODULE Syscall -------------------------------
(***************************************************************************)
(* syscall.c over fs.c: what an ecall of the user program does, from the   *)
(* trap to the return.  The kernel runs with interrupts masked, so nothing *)
(* but the terminal takes part while a call is handled; the steps are cut  *)
(* where the kernel opens and closes user memory (sstatus.SUM), where it   *)
(* calls the file system, and at every key of a line.                      *)
(*                                                                         *)
(* Abstractions: a user pointer is whether it is null and how many bytes   *)
(* from it on the program may read and may write (UserRange is the model   *)
(* of the function that finds that out); a path is its name and the number *)
(* of bytes it takes with its terminator; a descriptor is its low 32 bits, *)
(* which the kernel casts it to, and whether the high ones are zero.       *)
(***************************************************************************)
EXTENDS Integers, Sequences, FiniteSets, Boot

CONSTANTS
    FS_MAX_FILES, FS_MAX_OPEN_FILES, FS_DATA_MAX, FS_NAME_MAX,
    Bytes, Blank, Names, NoName, CutName, HelloName,   \* as in FileSystem
    MAX_LENGTH,     \* MAX_WRITE_LENGTH and MAX_READ_LENGTH
    Pointers,       \* [null, readable, writable]
    Paths,          \* [name, length]
    Descriptors,    \* [high, low]
    Sizes,          \* third arguments
    Printable,      \* keys that are part of a line
    MAX_KEYS        \* bound: keys typed per line before it must end

ASSUME LimitsAssumption ==
    /\ FS_MAX_FILES \in Nat \ {0}
    /\ FS_MAX_OPEN_FILES \in Nat \ {0}
    /\ FS_DATA_MAX \in Nat \ {0}
    /\ FS_NAME_MAX \in Nat \ {0}
    /\ MAX_LENGTH \in Nat \ {0}
ASSUME InputsAssumption ==
    /\ Pid \in Nat
    /\ HelloName \in Names /\ HelloText \in Seq(Bytes) /\ Len(HelloText) <= FS_DATA_MAX
    /\ Pointers \subseteq [null : BOOLEAN, readable : Nat, writable : Nat]
    /\ Paths \subseteq [name : Names, length : Nat \ {0}]
    /\ Descriptors \subseteq [high : Nat, low : Nat]
    /\ Sizes \subseteq Nat
    /\ Printable \cap {"Enter", "CtrlD", "Backspace", "Escape"} = {}

VARIABLES
    inodes, open_files, inode_count,   \* fs.c
    result,    \* what the call returns: [value, data]
    pc,        \* the next step of the kernel, or "user"
    call,      \* the trap frame: [number, fd, pointer, path, length]
    sum,       \* sstatus.SUM
    fault,     \* whether the kernel ever touched user memory it may not
    line, count,     \* sys_read_stdin: the user buffer and its fill
    typed,     \* the keys of the current line but the one that ends it (not in the code)
    before     \* the tables when the program last ran (not in the code)

tables == <<inodes, open_files, inode_count>>
stdin == <<line, count, typed>>
vars == <<tables, result, pc, call, sum, fault, stdin, before>>

FS == INSTANCE FileSystem WITH
        reply <- result, LongNames <- {}, Pids <- {Pid}, Buffers <- {}, Lengths <- {}

Keys == Printable \cup {"Enter", "CtrlD", "Backspace", "Escape"}
Numbers == {"write", "getpid", "open", "read", "create", "close", "exit", "unknown"}
EmptyLine == [k \in 1 .. MAX_LENGTH |-> Blank]

Nothing == [value |-> 0, data |-> <<>>]
Tables == [inodes |-> inodes, open_files |-> open_files]

\* The trap frame of a program that is not in the kernel.
NoCall == [number |-> "getpid", fd |-> [high |-> 0, low |-> 0],
           pointer |-> [null |-> TRUE, readable |-> 0, writable |-> 0],
           path |-> [name |-> NoName, length |-> 0], length |-> 0]

\* The shell has been started and has not made a call yet.
Init ==
    /\ FS!Init
    /\ pc = "user"
    /\ call = NoCall
    /\ sum = FALSE
    /\ fault = FALSE
    /\ line = EmptyLine /\ count = 0 /\ typed = <<>>
    /\ before = Tables

\* The user program traps with the arguments its call has.
Ecall ==
    /\ pc = "user"
    /\ \E n \in Numbers :
          \/ /\ n \in {"write", "read"}
             /\ \E d \in Descriptors, p \in Pointers, length \in Sizes :
                   call' = [NoCall EXCEPT !.number = n, !.fd = d, !.pointer = p, !.length = length]
          \/ /\ n \in {"open", "create"}
             /\ \E p \in Pointers, path \in Paths :
                   call' = [NoCall EXCEPT !.number = n, !.pointer = p, !.path = path]
          \/ /\ n = "close"
             /\ \E d \in Descriptors : call' = [NoCall EXCEPT !.number = n, !.fd = d]
          \/ /\ n \in {"getpid", "exit", "unknown"}
             /\ call' = [NoCall EXCEPT !.number = n]
    /\ result' = Nothing
    /\ pc' = "syscall"
    /\ UNCHANGED <<tables, sum, fault, stdin, before>>

-----------------------------------------------------------------------------
(* Helpers. *)

Called(number) == pc = "syscall" /\ call.number = number

\* vm_user_range_valid with PTE_R and with PTE_W.
user_readable(n) == n <= call.pointer.readable
user_writable(n) == n <= call.pointer.writable

Give(value) == result' = [value |-> value, data |-> <<>>]

\* An error return before user memory is opened.
Refuse ==
    /\ Give(-1)
    /\ pc' = "resume"
    /\ UNCHANGED <<tables, call, sum, fault, stdin, before>>

\* riscv_enable_user_memory_access, then the step that copies.
OpenUserMemory(next) ==
    /\ sum' = TRUE
    /\ pc' = next
    /\ UNCHANGED <<tables, result, call, fault, before>>

\* The kernel reads or writes n bytes at the user pointer.
Reads(n) == fault' = (fault \/ (n > 0 /\ (~sum \/ ~user_readable(n))))
Writes(n) == fault' = (fault \/ (n > 0 /\ (~sum \/ ~user_writable(n))))

-----------------------------------------------------------------------------
(* write *)

WriteRefused == call.pointer.null \/ call.length > MAX_LENGTH \/ ~user_readable(call.length)

SysWrite ==
    /\ Called("write")
    /\ IF WriteRefused THEN Refuse ELSE OpenUserMemory("write") /\ UNCHANGED stdin

\* Standard output is descriptor 1 in all 64 bits; a file's is cast to int.
Write ==
    /\ pc = "write"
    /\ Reads(call.length)
    /\ IF call.fd.high = 0 /\ call.fd.low = 1
       THEN Give(call.length) /\ UNCHANGED tables
       ELSE \E buffer \in [1 .. call.length -> Bytes] : FS!fs_write(Pid, call.fd.low, buffer)
    /\ sum' = FALSE
    /\ pc' = "resume"
    /\ UNCHANGED <<call, stdin, before>>

-----------------------------------------------------------------------------
(* open and create *)

SysPath ==
    /\ Called("open") \/ Called("create")
    /\ IF call.pointer.null THEN Refuse ELSE OpenUserMemory("path") /\ UNCHANGED stdin

\* Mutant: only the first byte is checked.
PathLengthFirst ==
    IF call.pointer.readable = 0 THEN 0
    ELSE IF call.path.length <= FS_NAME_MAX THEN call.path.length ELSE FS_NAME_MAX

\* The bytes copy_user_path copies: up to the terminator, to the first byte the
\* program may not read, or to the end of the kernel's array.
PathLength ==
    CHOOSE n \in {call.path.length, FS_NAME_MAX, call.pointer.readable} :
        n <= call.path.length /\ n <= FS_NAME_MAX /\ n <= call.pointer.readable

\* Mutant: user memory stays open when the path is good.
CopyPathOpen ==
    /\ pc = "path"
    /\ Reads(PathLength)
    /\ IF PathLength = call.path.length
       THEN pc' = call.number /\ UNCHANGED <<result, sum>>
       ELSE pc' = "resume" /\ Give(-1) /\ sum' = FALSE
    /\ UNCHANGED <<tables, call, stdin, before>>

\* copy_user_path: the copy has to include the terminator.
CopyPath ==
    /\ pc = "path"
    /\ Reads(PathLength)
    /\ sum' = FALSE
    /\ IF PathLength = call.path.length
       THEN pc' = call.number /\ UNCHANGED result
       ELSE pc' = "resume" /\ Give(-1)
    /\ UNCHANGED <<tables, call, stdin, before>>

\* Mutant: the result of fs_create is not looked at.
CreateUnchecked ==
    /\ pc = "create"
    /\ FS!fs_create(call.path.name)
    /\ pc' = "open"
    /\ UNCHANGED <<call, sum, fault, stdin, before>>

Create ==
    /\ pc = "create"
    /\ FS!fs_create(call.path.name)
    /\ pc' = IF result'.value < 0 THEN "resume" ELSE "open"
    /\ UNCHANGED <<call, sum, fault, stdin, before>>

Open ==
    /\ pc = "open"
    /\ FS!fs_open(Pid, call.path.name)
    /\ pc' = "resume"
    /\ UNCHANGED <<call, sum, fault, stdin, before>>

-----------------------------------------------------------------------------
(* read *)

ReadRefused == call.pointer.null \/ call.length > MAX_LENGTH \/ ~user_writable(call.length)

\* Standard input is every descriptor whose low half is 0.
SysRead ==
    /\ Called("read")
    /\ IF ReadRefused \/ (call.fd.low = 0 /\ call.length = 0) THEN Refuse
       ELSE IF call.fd.low = 0
       THEN OpenUserMemory("line") /\ UNCHANGED stdin
       ELSE OpenUserMemory("read") /\ UNCHANGED stdin

Read ==
    /\ pc = "read"
    /\ FS!fs_read(Pid, call.fd.low, call.length)
    /\ Writes(Len(result'.data))
    /\ sum' = FALSE
    /\ pc' = "resume"
    /\ UNCHANGED <<call, stdin, before>>

EndLine ==
    /\ Give(count)
    /\ sum' = FALSE
    /\ pc' = "resume"
    /\ UNCHANGED <<line, count, fault>>

GoOn == UNCHANGED <<result, sum, pc>>

\* A printable key; in a full buffer it ends the line and is lost.
Store(c) ==
    IF count >= call.length THEN EndLine
    ELSE /\ line' = [line EXCEPT ![count + 1] = c]
         /\ count' = count + 1
         /\ Writes(count + 1)
         /\ GoOn

\* Mutant: backspace erases what is on the screen only.
EraseScreen == UNCHANGED <<line, count, fault>> /\ GoOn

Erase ==
    /\ count' = IF count > 0 THEN count - 1 ELSE count
    /\ UNCHANGED <<line, fault>>
    /\ GoOn

\* Mutant: a terminal that sends carriage returns is not thought of.
LineEndsCtrlD == {"CtrlD"}

LineEnds == {"Enter", "CtrlD"}

\* One pass of the loop of sys_read_stdin, for the key uart_getc returns.
Key(c) ==
    /\ pc = "line"
    /\ c \in LineEnds \/ Len(typed) < MAX_KEYS
    /\ typed' = IF c \in LineEnds THEN typed ELSE Append(typed, c)
    /\ CASE c \in LineEnds -> EndLine
         [] c = "Backspace" -> Erase
         [] c \in Printable -> Store(c)
         [] OTHER -> UNCHANGED <<line, count, fault>> /\ GoOn
    /\ UNCHANGED <<tables, call, before>>

-----------------------------------------------------------------------------
(* The other calls, and the way back. *)

SysGetpid ==
    /\ Called("getpid")
    /\ Give(Pid)
    /\ pc' = "resume"
    /\ UNCHANGED <<tables, call, sum, fault, stdin, before>>

SysClose ==
    /\ Called("close")
    /\ FS!fs_close(Pid, call.fd.low)
    /\ pc' = "resume"
    /\ UNCHANGED <<call, sum, fault, stdin, before>>

\* The timer is off and the hart waits for ever, or it loops after an unknown number.
Stop ==
    /\ Called("exit") \/ Called("unknown")
    /\ pc' = IF call.number = "exit" THEN "parked" ELSE "hung"
    /\ UNCHANGED <<tables, result, call, sum, fault, stdin, before>>

Stopped == pc \in {"parked", "hung"} /\ UNCHANGED vars

\* trap_restore: sstatus comes from the frame, where SUM is clear.  The frame and the
\* locals of the call are gone.
Resume ==
    /\ pc = "resume"
    /\ pc' = "user"
    /\ sum' = FALSE
    /\ call' = NoCall
    /\ line' = EmptyLine /\ count' = 0 /\ typed' = <<>>
    /\ before' = Tables
    /\ UNCHANGED <<tables, result, fault>>

KernelStep ==
    \/ SysWrite \/ Write \/ SysPath \/ CopyPath \/ Create \/ Open
    \/ SysRead \/ Read \/ SysGetpid \/ SysClose \/ Stop \/ Resume

Next ==
    \/ Ecall
    \/ KernelStep
    \/ \E c \in Keys : Key(c)
    \/ Stopped

Spec == Init /\ [][Next]_vars

\* The hart executes instructions, and whoever types a line ends it at last.
FairSpec == Spec /\ WF_vars(KernelStep) /\ WF_vars(Key("Enter"))

-----------------------------------------------------------------------------
(* Properties. *)

Copying == {"write", "path", "read", "line"}

TypeOK ==
    /\ FS!TypeOK
    /\ pc \in {"user", "syscall", "create", "open", "resume", "parked", "hung"} \cup Copying
    /\ call.number \in Numbers
    /\ sum \in BOOLEAN /\ fault \in BOOLEAN
    /\ line \in [1 .. MAX_LENGTH -> Printable \cup {Blank}]
    /\ count \in 0 .. MAX_LENGTH
    /\ typed \in Seq(Keys)

\* Whatever a program passes, the kernel reads and writes no byte of user memory that
\* the program may not read or write itself, and none while SUM is clear: neither would
\* be an error return, the hart would trap inside the kernel (syscall.c:39-327).
AccessesChecked == ~fault

\* User memory is open to the kernel exactly while a call copies: every way out of a
\* call, the early returns in the middle of a path included, closes it, and the file
\* system's tables are searched with it closed, but for a read or a write of a file.
SumOnlyWhileCopying == sum <=> pc \in Copying

\* A call that returns -1 has had no effect, but that create leaves a new empty file
\* behind when there is no free entry for the handle (syscall.c:162-186).
FailureIsClean ==
    pc = "resume" /\ result.value = -1 =>
        \/ Tables = before
        \/ /\ call.number = "create" /\ FS!FreeOpenSlots = {}
           /\ \E i \in FS!UsedSlots :
                 /\ ~before.inodes[i].used
                 /\ inodes[i].name = call.path.name /\ inodes[i].size = 0
                 /\ Tables = [before EXCEPT !.inodes[i] = inodes[i]]

\* A create that succeeds gives a handle at the start of a file that is empty and that
\* was not there before: create never opens somebody's file (syscall.c:162-186).
CreateGivesNewFile ==
    pc = "resume" /\ call.number = "create" /\ result.value # -1 =>
        /\ \A i \in DOMAIN inodes : ~(before.inodes[i].used /\ before.inodes[i].name = call.path.name)
        /\ LET f == FS!find_open_file(Pid, result.value)
               i == open_files[f].inode_index
           IN  /\ FS!Opened(Pid, result.value) # {} /\ ~before.open_files[f].used
               /\ inodes[i].name = call.path.name
               /\ inodes[i].size = 0 /\ open_files[f].offset = 0

\* The typed keys of S between the i-th and the j-th.
Between(S, i, j) == {k \in i + 1 .. j : typed[k] \in S}

\* The printable keys that no later backspace has taken back.
Kept ==
    {i \in 1 .. Len(typed) :
        /\ typed[i] \in Printable
        /\ \A j \in i .. Len(typed) :
              Cardinality(Between({"Backspace"}, i, j)) <= Cardinality(Between(Printable, i, j))}

\* A line of input is what was typed and not taken back, in order, as far as there is
\* room for it, whatever is erased from an empty or a full line (syscall.c:189-279).
LineIsWhatWasTyped ==
    pc = "line" \/ (pc = "resume" /\ call.number = "read" /\ call.fd.low = 0 /\ result.value # -1) =>
        /\ pc = "resume" => result.value = count
        /\ count = FS!Smaller(Cardinality(Kept), call.length)
        /\ \A i \in Kept :
              LET k == Cardinality({j \in Kept : j <= i})
              IN  k <= count => line[k] = typed[i]

\* Every call returns, or stops the machine as it is meant to.
CallsReturn == pc # "user" ~> pc \in {"user", "parked", "hung"}

=============================================================================
