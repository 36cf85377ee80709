------------------------------- MODULE FileApi -------------------------------
(***************************************************************************)
(* What the file system of Mini-RVOS promises its callers, without inodes, *)
(* tables or slots: files are named sequences of bytes that only grow, and *)
(* a handle, known by a process and a descriptor number, has a position in *)
(* one file.  Every call leaves its result in `reply`.  FileSystem, the    *)
(* model of fs.c, implements this.                                         *)
(***************************************************************************)
EXTENDS Integers, Sequences, FiniteSets

CONSTANTS
    FS_MAX_FILES, FS_MAX_OPEN_FILES, FS_DATA_MAX,   \* fs.h
    Names,      \* file names
    LongNames,  \* those that do not fit in FS_NAME_MAX bytes
    Pids,       \* processes
    Buffers,    \* what may be written in one call
    Lengths,    \* how much may be asked for in one call
    HelloName, HelloText   \* the file that fs_init creates

VARIABLES
    files,    \* name -> contents
    handles,  \* <<pid, fd>> -> [name, pos]
    reply     \* [value, data]: the result of the last call

vars == <<files, handles, reply>>

Fds == 2 .. 3 + FS_MAX_OPEN_FILES   \* every valid descriptor and one on each side
Smaller(a, b) == IF a <= b THEN a ELSE b
Answer(value) == reply' = [value |-> value, data |-> <<>>]
Refuse == Answer(-1) /\ UNCHANGED <<files, handles>>

Init ==
    /\ files = [n \in {HelloName} |-> HelloText]
    /\ handles = << >>
    /\ reply = [value |-> 0, data |-> <<>>]

\* A new empty file.  The number returned says which file it is and no more.
Create(n) ==
    IF n \in DOMAIN files \/ n \in LongNames \/ Cardinality(DOMAIN files) = FS_MAX_FILES
    THEN Refuse
    ELSE /\ files' = [m \in DOMAIN files \cup {n} |-> IF m = n THEN <<>> ELSE files[m]]
         /\ Answer(Cardinality(DOMAIN files))
         /\ UNCHANGED handles

\* The lowest descriptor from 3 on that the process does not have open.
NewFd(pid) == CHOOSE fd \in Fds :
                 /\ fd >= 3 /\ <<pid, fd>> \notin DOMAIN handles
                 /\ \A lower \in 3 .. fd - 1 : <<pid, lower>> \in DOMAIN handles

Open(pid, n) ==
    IF n \notin DOMAIN files \/ Cardinality(DOMAIN handles) = FS_MAX_OPEN_FILES
    THEN Refuse
    ELSE /\ handles' = [h \in DOMAIN handles \cup {<<pid, NewFd(pid)>>} |->
                          IF h = <<pid, NewFd(pid)>> THEN [name |-> n, pos |-> 0] ELSE handles[h]]
         /\ Answer(NewFd(pid))
         /\ UNCHANGED files

Close(pid, fd) ==
    IF <<pid, fd>> \notin DOMAIN handles
    THEN Refuse
    ELSE /\ handles' = [h \in DOMAIN handles \ {<<pid, fd>>} |-> handles[h]]
         /\ Answer(0)
         /\ UNCHANGED files

\* The next bytes of the file, as many as were asked for or as are left.
Read(pid, fd, length) ==
    IF <<pid, fd>> \notin DOMAIN handles
    THEN Refuse
    ELSE LET h == handles[<<pid, fd>>]
             count == Smaller(length, Len(files[h.name]) - h.pos)
         IN  /\ reply' = [value |-> count, data |-> SubSeq(files[h.name], h.pos + 1, h.pos + count)]
             /\ handles' = [handles EXCEPT ![<<pid, fd>>].pos = @ + count]
             /\ UNCHANGED files

\* Overwrites from the position on and extends the file, up to FS_DATA_MAX bytes.
Write(pid, fd, buffer) ==
    IF <<pid, fd>> \notin DOMAIN handles
    THEN Refuse
    ELSE LET h == handles[<<pid, fd>>]
             count == Smaller(Len(buffer), FS_DATA_MAX - h.pos)
             old == files[h.name]
         IN  /\ files' = [files EXCEPT ![h.name] =
                            SubSeq(old, 1, h.pos) \o SubSeq(buffer, 1, count)
                              \o SubSeq(old, h.pos + count + 1, Len(old))]
             /\ handles' = [handles EXCEPT ![<<pid, fd>>].pos = @ + count]
             /\ Answer(count)

Next ==
    \/ \E n \in Names : Create(n)
    \/ \E pid \in Pids :
          \/ \E n \in Names : Open(pid, n)
          \/ \E fd \in Fds :
                \/ Close(pid, fd)
                \/ \E length \in Lengths : Read(pid, fd, length)
                \/ \E buffer \in Buffers : Write(pid, fd, buffer)

Spec == Init /\ [][Next]_vars

=============================================================================
