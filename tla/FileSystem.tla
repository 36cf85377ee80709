------------------------------ MODULE FileSystem ------------------------------
(***************************************************************************)
(* fs.c: the table of inodes, the table of open files of all processes,    *)
(* and the calls that work on them.  Both tables are static arrays of      *)
(* fixed size, searched from the front; files are never deleted.           *)
(*                                                                         *)
(* Abstractions: a name is one value, and the names of FS_NAME_MAX bytes   *)
(* or more, which copy_name cuts, are the set LongNames; a byte of a       *)
(* static array that nobody has written is Blank.  The null-pointer checks *)
(* are left out: every caller in the kernel passes a buffer of its own or  *)
(* a checked user buffer.  The tables' indices are those of the code.      *)
(***************************************************************************)
EXTENDS Integers, Sequences, FiniteSets

CONSTANTS
    FS_MAX_FILES, FS_MAX_OPEN_FILES, FS_DATA_MAX,   \* fs.h
    Bytes, Blank,             \* bytes a program writes; a byte never written
    Names, LongNames,         \* names; those copy_name cannot store
    NoName, CutName,          \* the name in a zeroed slot; a long name, cut
    Pids, Buffers, Lengths,   \* the inputs of the calls
    HelloName, HelloText      \* what fs_init creates

ASSUME LimitsAssumption ==
    /\ FS_MAX_FILES \in Nat \ {0}
    /\ FS_MAX_OPEN_FILES \in Nat \ {0}
    /\ FS_DATA_MAX \in Nat \ {0}
ASSUME BytesAssumption == Blank \notin Bytes
ASSUME NamesAssumption ==
    /\ LongNames \subseteq Names
    /\ CutName \in Names
    /\ HelloName \in Names \ LongNames
ASSUME InputsAssumption ==
    /\ Pids \subseteq Nat
    /\ Buffers \subseteq Seq(Bytes)
    /\ Lengths \subseteq Nat
    /\ HelloText \in Seq(Bytes) /\ Len(HelloText) <= FS_DATA_MAX

Slots == 0 .. FS_MAX_FILES - 1            \* indices of inodes
OpenSlots == 0 .. FS_MAX_OPEN_FILES - 1   \* indices of open_files
Offsets == 0 .. FS_DATA_MAX - 1           \* indices of an inode's data
Fds == 2 .. 3 + FS_MAX_OPEN_FILES         \* every valid descriptor and one on each side

VARIABLES
    inodes,       \* [used, name, size, data]
    open_files,   \* [used, pid, fd, inode_index, offset]
    inode_count,
    reply         \* [value, data]: the result of the last call

vars == <<inodes, open_files, inode_count, reply>>

-----------------------------------------------------------------------------
(* Searching and changing the tables. *)

Least(S) == CHOOSE i \in S : \A j \in S : i <= j

UsedSlots == {i \in Slots : inodes[i].used}
FreeSlots == Slots \ UsedSlots
FreeOpenSlots == {i \in OpenSlots : ~open_files[i].used}

\* The slots whose name is n: find_inode returns the first, or -1 if none is.
SlotsNamed(n) == {i \in UsedSlots : inodes[i].name = n}
find_inode(n) == Least(SlotsNamed(n))

\* Mutant: the owner of the descriptor is not compared.
OpenedAnyPid(pid, fd) == {i \in OpenSlots : open_files[i].used /\ open_files[i].fd = fd}

\* The open files of pid with descriptor fd: find_open_file returns the first.
Opened(pid, fd) ==
    {i \in OpenSlots : open_files[i].used /\ open_files[i].pid = pid /\ open_files[i].fd = fd}
find_open_file(pid, fd) == Least(Opened(pid, fd))

\* Mutant: the copy stops one byte early.
OverwrittenShort(data, offset, buffer, count) ==
    [k \in Offsets |-> IF k \in offset .. offset + count - 2 THEN buffer[k - offset + 1] ELSE data[k]]

\* The data of an inode with a buffer written over it from an offset on.
Overwritten(data, offset, buffer, count) ==
    [k \in Offsets |-> IF k \in offset .. offset + count - 1 THEN buffer[k - offset + 1] ELSE data[k]]

Smaller(a, b) == IF a <= b THEN a ELSE b
Larger(a, b) == IF a >= b THEN a ELSE b

\* What fs_create stores in a free slot; data behind the new size stays.
Stored(inode, n, text) ==
    [used |-> TRUE, name |-> n, size |-> Len(text),
     data |-> Overwritten(inode.data, 0, text, Len(text))]

ZeroInode == [used |-> FALSE, name |-> NoName, size |-> 0, data |-> [k \in Offsets |-> Blank]]
ZeroOpenFile == [used |-> FALSE, pid |-> 0, fd |-> 0, inode_index |-> 0, offset |-> 0]

Return(value) == reply' = [value |-> value, data |-> <<>>]
Fail == Return(-1) /\ UNCHANGED <<inodes, open_files, inode_count>>

\* fs_init on zeroed static memory, with its call of fs_create.
Init ==
    /\ inodes = [i \in Slots |-> IF i = 0 THEN Stored(ZeroInode, HelloName, HelloText)
                                          ELSE ZeroInode]
    /\ open_files = [i \in OpenSlots |-> ZeroOpenFile]
    /\ inode_count = 1
    /\ reply = [value |-> 0, data |-> <<>>]

-----------------------------------------------------------------------------
(* The calls. *)

\* copy_name fails: the free slot keeps the cut name, and stays free.
NameTooLong(i) ==
    /\ inodes' = [inodes EXCEPT ![i].name = CutName]
    /\ Return(-1)
    /\ UNCHANGED <<open_files, inode_count>>

\* sys_create, its only caller after fs_init, passes no data.
fs_create(n) ==
    IF SlotsNamed(n) # {} \/ FreeSlots = {} THEN Fail
    ELSE LET i == Least(FreeSlots)
         IN  IF n \in LongNames THEN NameTooLong(i)
             ELSE /\ inodes' = [inodes EXCEPT ![i] = Stored(@, n, <<>>)]
                  /\ inode_count' = inode_count + 1
                  /\ Return(i)
                  /\ UNCHANGED open_files

\* The descriptors pid could get; fs_open takes the lowest.
FreeFds(pid) == {fd \in 3 .. 3 + FS_MAX_OPEN_FILES - 1 : Opened(pid, fd) = {}}

\* Mutants: the entry is taken before the file is found; a file is opened at its end.
fs_openFirst(pid, n) ==
    IF FreeFds(pid) = {} \/ FreeOpenSlots = {} THEN Fail
    ELSE LET fd == Least(FreeFds(pid))
         IN  /\ open_files' = [open_files EXCEPT ![Least(FreeOpenSlots)] =
                    [used |-> TRUE, pid |-> pid, fd |-> fd,
                     inode_index |-> IF SlotsNamed(n) = {} THEN 0 ELSE find_inode(n), offset |-> 0]]
             /\ Return(IF SlotsNamed(n) = {} THEN -1 ELSE fd)
             /\ UNCHANGED <<inodes, inode_count>>

fs_openAtEnd(pid, n) ==
    IF SlotsNamed(n) = {} \/ FreeFds(pid) = {} \/ FreeOpenSlots = {} THEN Fail
    ELSE LET fd == Least(FreeFds(pid))
         IN  /\ open_files' = [open_files EXCEPT ![Least(FreeOpenSlots)] =
                    [used |-> TRUE, pid |-> pid, fd |-> fd,
                     inode_index |-> find_inode(n), offset |-> inodes[find_inode(n)].size]]
             /\ Return(fd)
             /\ UNCHANGED <<inodes, inode_count>>

fs_open(pid, n) ==
    IF SlotsNamed(n) = {} \/ FreeFds(pid) = {} \/ FreeOpenSlots = {} THEN Fail
    ELSE LET fd == Least(FreeFds(pid))
         IN  /\ open_files' = [open_files EXCEPT ![Least(FreeOpenSlots)] =
                    [used |-> TRUE, pid |-> pid, fd |-> fd,
                     inode_index |-> find_inode(n), offset |-> 0]]
             /\ Return(fd)
             /\ UNCHANGED <<inodes, inode_count>>

\* At or behind the end: 0.  Else the next bytes, as many as there are.
fs_read(pid, fd, length) ==
    IF Opened(pid, fd) = {} THEN Fail
    ELSE LET f == find_open_file(pid, fd)
             offset == open_files[f].offset
             inode == inodes[open_files[f].inode_index]
             count == IF offset >= inode.size THEN 0 ELSE Smaller(length, inode.size - offset)
         IN  /\ open_files' = [open_files EXCEPT ![f].offset = offset + count]
             /\ reply' = [value |-> count, data |-> [k \in 1..count |-> inode.data[offset + k - 1]]]
             /\ UNCHANGED <<inodes, inode_count>>

\* Mutant: the size becomes the offset.
fs_writeTruncates(pid, fd, buffer) ==
    IF Opened(pid, fd) = {} THEN Fail
    ELSE LET f == find_open_file(pid, fd)
             i == open_files[f].inode_index
             offset == open_files[f].offset
             count == IF offset >= FS_DATA_MAX THEN 0 ELSE Smaller(Len(buffer), FS_DATA_MAX - offset)
         IN  /\ inodes' = [inodes EXCEPT
                    ![i].data = Overwritten(@, offset, buffer, count),
                    ![i].size = offset + count]
             /\ open_files' = [open_files EXCEPT ![f].offset = offset + count]
             /\ Return(count)
             /\ UNCHANGED inode_count

\* At the limit: 0.  Else as much as there is room for; the size only grows.
fs_write(pid, fd, buffer) ==
    IF Opened(pid, fd) = {} THEN Fail
    ELSE LET f == find_open_file(pid, fd)
             i == open_files[f].inode_index
             offset == open_files[f].offset
             count == IF offset >= FS_DATA_MAX THEN 0 ELSE Smaller(Len(buffer), FS_DATA_MAX - offset)
         IN  /\ inodes' = [inodes EXCEPT
                    ![i].data = Overwritten(@, offset, buffer, count),
                    ![i].size = Larger(@, offset + count)]
             /\ open_files' = [open_files EXCEPT ![f].offset = offset + count]
             /\ Return(count)
             /\ UNCHANGED inode_count

fs_close(pid, fd) ==
    IF Opened(pid, fd) = {} THEN Fail
    ELSE /\ open_files' = [open_files EXCEPT ![find_open_file(pid, fd)] = ZeroOpenFile]
         /\ Return(0)
         /\ UNCHANGED <<inodes, inode_count>>

Next ==
    \/ \E n \in Names : fs_create(n)
    \/ \E pid \in Pids :
          \/ \E n \in Names : fs_open(pid, n)
          \/ \E fd \in Fds :
                \/ fs_close(pid, fd)
                \/ \E length \in Lengths : fs_read(pid, fd, length)
                \/ \E buffer \in Buffers : fs_write(pid, fd, buffer)

Spec == Init /\ [][Next]_vars

-----------------------------------------------------------------------------
(* Properties. *)

Inode == [used : BOOLEAN, name : Names \cup {NoName}, size : 0 .. FS_DATA_MAX,
          data : [Offsets -> Bytes \cup {Blank}]]
OpenFile == [used : BOOLEAN, pid : Nat, fd : Nat, inode_index : Slots, offset : 0 .. FS_DATA_MAX]

\* Types: no size and no offset passes FS_DATA_MAX, so no access to an inode's
\* data is out of bounds, and every inode_index is a slot.
TypeOK ==
    /\ inodes \in [Slots -> Inode]
    /\ open_files \in [OpenSlots -> OpenFile]
    /\ inode_count \in Nat
    /\ reply \in [value : Int, data : Seq(Bytes \cup {Blank})]

\* No two files have one name: fs_create refuses a name in use, and the cut name
\* that a failed call leaves in a free slot never counts (fs.c:42-61, 99-115).
UniqueNames == \A i, j \in UsedSlots : inodes[i].name = inodes[j].name => i = j

\* A process never holds one descriptor twice, so find_open_file has one answer,
\* whatever was closed and opened before (fs.c:199-205, 234-251).
UniqueDescriptors ==
    \A i, j \in OpenSlots \ FreeOpenSlots :
        open_files[i].pid = open_files[j].pid /\ open_files[i].fd = open_files[j].fd => i = j

\* An open descriptor refers to a file that exists and its offset is inside it;
\* its number is one fs_open may give out.
OpenFilesValid ==
    \A i \in OpenSlots \ FreeOpenSlots :
        /\ open_files[i].inode_index \in UsedSlots
        /\ open_files[i].offset <= inodes[open_files[i].inode_index].size
        /\ open_files[i].fd \in 3 .. 3 + FS_MAX_OPEN_FILES - 1

\* Every byte inside a file was written by somebody: extending a file never
\* exposes what the static array held, and reading never returns it.
OnlyWrittenBytes ==
    /\ \A i \in UsedSlots : \A k \in 0 .. inodes[i].size - 1 : inodes[i].data[k] \in Bytes
    /\ reply.data \in Seq(Bytes)

\* inode_count is the number of files, and they fill the table from the front.
CountExact == UsedSlots = 0 .. inode_count - 1

\* A file is never lost, renamed or cut by any call of any process.
FilesOnlyGrow ==
    [][\A i \in UsedSlots :
          inodes'[i].used /\ inodes'[i].name = inodes[i].name /\ inodes'[i].size >= inodes[i].size]_vars

\* The files and handles a caller sees.
TextOf(i) == [k \in 1 .. inodes[i].size |-> inodes[i].data[k - 1]]
HandleOf(i) == [name |-> inodes[open_files[i].inode_index].name, pos |-> open_files[i].offset]

FilesSeen == [n \in {inodes[i].name : i \in UsedSlots} |-> TextOf(find_inode(n))]
HandlesSeen ==
    [h \in {<<open_files[i].pid, open_files[i].fd>> : i \in OpenSlots \ FreeOpenSlots} |->
        HandleOf(find_open_file(h[1], h[2]))]

\* fs.c implements FileApi: every call has, in every reachable state of the tables,
\* the result and the effect the interface promises, and a call that fails has none.
Api == INSTANCE FileApi WITH files <- FilesSeen, handles <- HandlesSeen

ImplementsFileApi == Api!Spec

=============================================================================
