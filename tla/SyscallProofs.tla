---------------------------- MODULE SyscallProofs ----------------------------
(***************************************************************************)
(* Proofs about Syscall, for every limit, pointer, path and descriptor:    *)
(* user memory is open only while a call copies, and no copy leaves what   *)
(* has been checked; a call that fails changes nothing, but for the file a *)
(* create could give no handle to, and a create that succeeds hands out a  *)
(* new file; and a line of input is what was typed and not taken back.     *)
(* And about Shell on top of it, for every text and every size of its      *)
(* buffers: it leaves no descriptor open, and what the terminal shows is   *)
(* what Terminal promises, answer for answer.                              *)
(***************************************************************************)
EXTENDS Shell, WellFoundedInduction, FiniteSetTheorems, SequenceTheorems, TLAPS

\* What a trap frame can hold.
Frame == [number : Numbers, fd : [high : Nat, low : Nat],
          pointer : [null : BOOLEAN, readable : Nat, writable : Nat],
          path : [name : Names \cup {NoName}, length : Nat], length : Nat]

\* What the kernel has found out about the arguments when it copies.
Checked ==
    /\ call \in Frame
    /\ pc = "path" => call.number \in {"open", "create"}
    /\ pc = "write" => user_readable(call.length)
    /\ pc = "read" => user_writable(call.length)
    /\ pc = "line" => user_writable(call.length) /\ call.length <= MAX_LENGTH /\ count <= call.length
    /\ pc \notin {"line", "resume"} => count = 0

\* The inductive invariant.
Inv == TypeOK /\ SumOnlyWhileCopying /\ AccessesChecked /\ Checked

-----------------------------------------------------------------------------
(* The calls of the file system keep its types. *)

\* A search from the front finds the first of a set of indices that is not empty.
LEMMA LeastFound ==
    ASSUME NEW S \in SUBSET Nat, S # {}
    PROVE  FS!Least(S) \in S /\ \A j \in S : FS!Least(S) <= j
<1> DEFINE Below == {ss \in Nat \X Nat : ss[1] < ss[2]}
<1>1. IsWellFoundedOn(Below, Nat)
  BY NatLessThanWellFounded, Zenon DEF OpToRel
<1>2. PICK i \in S : \A j \in S : ~(<<j, i>> \in Below)
  <2> HIDE DEF Below
  <2> QED
    BY <1>1, WFMin
<1>3. ASSUME NEW j \in S
      PROVE  i <= j
  <2>1. i \in Nat /\ j \in Nat /\ ~(<<j, i>> \in Below)
    BY <1>2
  <2>2. ~(j < i)
    BY <2>1
  <2> QED
    BY <2>1, <2>2
<1> QED
  BY <1>3 DEF FS!Least

\* A result without data is a result.
LEMMA ReplyType ==
    ASSUME NEW v \in Int
    PROVE  [value |-> v, data |-> <<>>] \in [value : Int, data : Seq(Bytes \cup {Blank})]
<1>1. <<>> \in Seq(Bytes \cup {Blank})
  OBVIOUS
<1> QED
  BY <1>1

\* A call that fails at once keeps the types.
LEMMA FailTypes == ASSUME FS!TypeOK, FS!Fail PROVE FS!TypeOK'
<1>1. -1 \in Int
  OBVIOUS
<1>2. [value |-> -1, data |-> <<>>] \in [value : Int, data : Seq(Bytes \cup {Blank})]
  BY <1>1, ReplyType
<1> QED
  BY <1>2 DEF FS!Fail, FS!Return, FS!TypeOK

\* Data written over stays data, when the buffer is long enough.
LEMMA OverwrittenType ==
    ASSUME NEW bytes \in [FS!Offsets -> Bytes \cup {Blank}], NEW buffer \in Seq(Bytes),
           NEW offset \in Nat, NEW n \in Nat, n <= Len(buffer)
    PROVE  FS!Overwritten(bytes, offset, buffer, n) \in [FS!Offsets -> Bytes \cup {Blank}]
<1>1. ASSUME NEW k \in FS!Offsets, k \in offset .. offset + n - 1
      PROVE  buffer[k - offset + 1] \in Bytes
  <2>1. k - offset + 1 \in 1 .. Len(buffer)
    BY <1>1 DEF FS!Offsets
  <2> QED
    BY <2>1
<1> QED
  BY <1>1 DEF FS!Overwritten

\* The tables of the file system when the shell is started.
LEMMA FSInitTypes == FS!Init => FS!TypeOK
<1> SUFFICES ASSUME FS!Init PROVE FS!TypeOK
  OBVIOUS
<1>1. HelloText \in Seq(Bytes) /\ Len(HelloText) \in 0 .. FS_DATA_MAX
  BY LimitsAssumption, InputsAssumption
<1>2. FS!ZeroInode \in FS!Inode
  BY LimitsAssumption DEF FS!ZeroInode, FS!Inode
<1>3. FS!Overwritten(FS!ZeroInode.data, 0, HelloText, Len(HelloText)) \in [FS!Offsets -> Bytes \cup {Blank}]
  <2>1. FS!ZeroInode.data \in [FS!Offsets -> Bytes \cup {Blank}]
    BY DEF FS!ZeroInode
  <2> QED
    BY <1>1, <2>1, OverwrittenType
<1>4. FS!Stored(FS!ZeroInode, HelloName, HelloText) \in FS!Inode
  BY <1>1, <1>3, InputsAssumption DEF FS!Stored, FS!Inode
<1>5. inodes \in [FS!Slots -> FS!Inode]
  BY <1>2, <1>4 DEF FS!Init
<1>6. open_files \in [FS!OpenSlots -> FS!OpenFile]
  BY LimitsAssumption DEF FS!Init, FS!ZeroOpenFile, FS!OpenFile, FS!Slots
<1>7. inode_count \in Nat /\ result \in [value : Int, data : Seq(Bytes \cup {Blank})]
  <2>1. 0 \in Int
    OBVIOUS
  <2> QED
    BY <2>1, ReplyType DEF FS!Init
<1> QED
  BY <1>5, <1>6, <1>7 DEF FS!TypeOK

\* fs_create keeps the types.
LEMMA CreateTypes ==
    ASSUME FS!TypeOK, NEW n \in Names \cup {NoName}, FS!fs_create(n)
    PROVE  FS!TypeOK'
<1>1. CASE FS!Fail
  BY <1>1, FailTypes
<1>2. ASSUME FS!FreeSlots # {}, ~FS!Fail
      PROVE  FS!TypeOK'
  <2> DEFINE i == FS!Least(FS!FreeSlots)
  <2>1. i \in FS!Slots
    <3>1. FS!FreeSlots \in SUBSET Nat
      BY DEF FS!FreeSlots, FS!Slots
    <3> QED
      BY <1>2, <3>1, LeastFound DEF FS!FreeSlots
  <2>2. inodes' = [inodes EXCEPT ![i] = FS!Stored(inodes[i], n, <<>>)]
        /\ inode_count' = inode_count + 1 /\ FS!Return(i) /\ open_files' = open_files
    BY <1>2 DEF FS!fs_create
  <2> HIDE DEF i
  <2>3. inodes \in [FS!Slots -> FS!Inode] /\ i \in Int
    BY <2>1 DEF FS!TypeOK, FS!Slots
  <2>4. FS!Stored(inodes[i], n, <<>>) \in FS!Inode
    <3>1. inodes[i].data \in [FS!Offsets -> Bytes \cup {Blank}]
      BY <2>1, <2>3 DEF FS!Inode
    <3>2. <<>> \in Seq(Bytes) /\ Len(<<>>) = 0 /\ Len(<<>>) \in Nat /\ Len(<<>>) <= Len(<<>>)
      OBVIOUS
    <3>3. FS!Overwritten(inodes[i].data, 0, <<>>, Len(<<>>)) \in [FS!Offsets -> Bytes \cup {Blank}]
      BY <3>1, <3>2, OverwrittenType
    <3> QED
      BY <3>2, <3>3, LimitsAssumption DEF FS!Stored, FS!Inode
  <2>5. inodes' \in [FS!Slots -> FS!Inode]
    BY <2>1, <2>2, <2>3, <2>4
  <2>6. result' \in [value : Int, data : Seq(Bytes \cup {Blank})]
    BY <2>2, <2>3, ReplyType DEF FS!Return
  <2> QED
    BY <2>2, <2>5, <2>6 DEF FS!TypeOK
<1> QED
  BY <1>1, <1>2 DEF FS!fs_create

\* fs_open keeps the types: what it finds is a slot.
LEMMA OpenTypes ==
    ASSUME FS!TypeOK, NEW n, FS!fs_open(Pid, n)
    PROVE  FS!TypeOK'
<1>1. CASE FS!Fail
  BY <1>1, FailTypes
<1>2. ASSUME FS!SlotsNamed(n) # {}, FS!FreeFds(Pid) # {}, FS!FreeOpenSlots # {}, ~FS!Fail
      PROVE  FS!TypeOK'
  <2> DEFINE d == FS!Least(FS!FreeFds(Pid))
             f == FS!Least(FS!FreeOpenSlots)
             i == FS!find_inode(n)
             entry == [used |-> TRUE, pid |-> Pid, fd |-> d, inode_index |-> i, offset |-> 0]
  <2>1. d \in Nat
    <3>1. FS!FreeFds(Pid) \in SUBSET Nat
      BY LimitsAssumption DEF FS!FreeFds
    <3> QED
      BY <1>2, <3>1, LeastFound
  <2>2. f \in FS!OpenSlots
    <3>1. FS!FreeOpenSlots \in SUBSET Nat /\ FS!FreeOpenSlots \subseteq FS!OpenSlots
      BY DEF FS!FreeOpenSlots, FS!OpenSlots
    <3> QED
      BY <1>2, <3>1, LeastFound
  <2>3. i \in FS!Slots
    <3>1. FS!SlotsNamed(n) \in SUBSET Nat /\ FS!SlotsNamed(n) \subseteq FS!Slots
      BY DEF FS!SlotsNamed, FS!UsedSlots, FS!Slots
    <3> QED
      BY <1>2, <3>1, LeastFound DEF FS!find_inode
  <2>4. open_files' = [open_files EXCEPT ![f] = entry] /\ FS!Return(d)
        /\ UNCHANGED <<inodes, inode_count>>
    BY <1>2 DEF FS!fs_open
  <2> HIDE DEF d, f, i
  <2>5. entry \in FS!OpenFile
    BY <2>1, <2>3, LimitsAssumption, InputsAssumption DEF FS!OpenFile
  <2>6. open_files' \in [FS!OpenSlots -> FS!OpenFile]
    BY <2>4, <2>5 DEF FS!TypeOK
  <2>7. result' \in [value : Int, data : Seq(Bytes \cup {Blank})]
    BY <2>1, <2>4, ReplyType DEF FS!Return
  <2> QED
    BY <2>4, <2>6, <2>7 DEF FS!TypeOK
<1> QED
  BY <1>1, <1>2 DEF FS!fs_open

\* An open descriptor is found in a slot.
LEMMA OpenedFound ==
    ASSUME FS!TypeOK, NEW d, FS!Opened(Pid, d) # {}
    PROVE  /\ FS!find_open_file(Pid, d) \in FS!OpenSlots
           /\ open_files[FS!find_open_file(Pid, d)] \in FS!OpenFile
<1>1. FS!Opened(Pid, d) \in SUBSET Nat /\ FS!Opened(Pid, d) \subseteq FS!OpenSlots
  BY DEF FS!Opened, FS!OpenSlots
<1>2. FS!find_open_file(Pid, d) \in FS!OpenSlots
  BY <1>1, LeastFound DEF FS!find_open_file
<1> QED
  BY <1>2 DEF FS!TypeOK

\* fs_close keeps the types.
LEMMA CloseTypes ==
    ASSUME FS!TypeOK, NEW d, FS!fs_close(Pid, d)
    PROVE  FS!TypeOK'
<1>1. CASE FS!Fail
  BY <1>1, FailTypes
<1>2. ASSUME FS!Opened(Pid, d) # {}
      PROVE  FS!TypeOK'
  <2>1. open_files' = [open_files EXCEPT ![FS!find_open_file(Pid, d)] = FS!ZeroOpenFile]
        /\ FS!Return(0) /\ UNCHANGED <<inodes, inode_count>>
    BY <1>2 DEF FS!fs_close
  <2>2. FS!ZeroOpenFile \in FS!OpenFile
    BY LimitsAssumption DEF FS!ZeroOpenFile, FS!OpenFile, FS!Slots
  <2>3. open_files' \in [FS!OpenSlots -> FS!OpenFile]
    BY <1>2, <2>1, <2>2, OpenedFound DEF FS!TypeOK
  <2>4. 0 \in Int
    OBVIOUS
  <2>5. result' \in [value : Int, data : Seq(Bytes \cup {Blank})]
    BY <2>1, <2>4, ReplyType DEF FS!Return
  <2> QED
    BY <2>1, <2>3, <2>5 DEF FS!TypeOK
<1> QED
  BY <1>1, <1>2 DEF FS!fs_close

\* fs_read keeps the types, and it never hands out more than it was asked for.
LEMMA ReadTypes ==
    ASSUME FS!TypeOK, NEW d, NEW n \in Nat, FS!fs_read(Pid, d, n)
    PROVE  FS!TypeOK' /\ Len(result'.data) \in 0 .. n
<1>1. CASE FS!Fail
  <2>1. FS!TypeOK'
    BY <1>1, FailTypes
  <2>2. result'.data = <<>>
    BY <1>1 DEF FS!Fail, FS!Return
  <2> QED
    BY <2>1, <2>2
<1>2. ASSUME FS!Opened(Pid, d) # {}
      PROVE  FS!TypeOK' /\ Len(result'.data) \in 0 .. n
  <2> DEFINE f == FS!find_open_file(Pid, d)
             offset == open_files[f].offset
             inode == inodes[open_files[f].inode_index]
             m == IF offset >= inode.size THEN 0 ELSE FS!Smaller(n, inode.size - offset)
             bytes == [k \in 1 .. m |-> inode.data[offset + k - 1]]
  <2>1. open_files' = [open_files EXCEPT ![f].offset = offset + m]
        /\ result' = [value |-> m, data |-> bytes] /\ UNCHANGED <<inodes, inode_count>>
    BY <1>2 DEF FS!fs_read
  <2>2. f \in FS!OpenSlots /\ open_files[f] \in FS!OpenFile
    BY <1>2, OpenedFound
  <2> HIDE DEF f
  <2>3. offset \in 0 .. FS_DATA_MAX /\ inode \in FS!Inode
    BY <2>2 DEF FS!TypeOK, FS!OpenFile
  <2>4. inode.size \in 0 .. FS_DATA_MAX /\ inode.data \in [FS!Offsets -> Bytes \cup {Blank}]
    BY <2>3 DEF FS!Inode
  <2> HIDE DEF offset, inode
  <2>5. m \in 0 .. n /\ offset + m \in 0 .. FS_DATA_MAX
        /\ \A k \in 1 .. m : offset + k - 1 \in FS!Offsets
    BY <2>3, <2>4, LimitsAssumption DEF FS!Smaller, FS!Offsets
  <2> HIDE DEF m
  <2>6. bytes \in [1 .. m -> Bytes \cup {Blank}]
    BY <2>4, <2>5
  <2>7. bytes \in Seq(Bytes \cup {Blank}) /\ Len(bytes) = m
    BY <2>5, <2>6
  <2>8. open_files' \in [FS!OpenSlots -> FS!OpenFile]
    BY <2>1, <2>2, <2>5 DEF FS!TypeOK, FS!OpenFile
  <2>9. m \in Int
    BY <2>5
  <2> HIDE DEF bytes
  <2> QED
    BY <2>1, <2>5, <2>7, <2>8, <2>9 DEF FS!TypeOK
<1> QED
  BY <1>1, <1>2 DEF FS!fs_read

\* fs_write keeps the types: what it stores fits the data of the file.
LEMMA WriteTypes ==
    ASSUME FS!TypeOK, NEW d, NEW buffer \in Seq(Bytes), FS!fs_write(Pid, d, buffer)
    PROVE  FS!TypeOK'
<1>1. CASE FS!Fail
  BY <1>1, FailTypes
<1>2. ASSUME FS!Opened(Pid, d) # {}
      PROVE  FS!TypeOK'
  <2> DEFINE f == FS!find_open_file(Pid, d)
             i == open_files[f].inode_index
             offset == open_files[f].offset
             m == IF offset >= FS_DATA_MAX THEN 0 ELSE FS!Smaller(Len(buffer), FS_DATA_MAX - offset)
             bytes == FS!Overwritten(inodes[i].data, offset, buffer, m)
             size == FS!Larger(inodes[i].size, offset + m)
  <2>1. inodes' = [inodes EXCEPT ![i].data = bytes, ![i].size = size]
        /\ open_files' = [open_files EXCEPT ![f].offset = offset + m]
        /\ FS!Return(m) /\ inode_count' = inode_count
    BY <1>2 DEF FS!fs_write
  <2>2. f \in FS!OpenSlots /\ open_files[f] \in FS!OpenFile
    BY <1>2, OpenedFound
  <2> HIDE DEF f
  <2>3. offset \in 0 .. FS_DATA_MAX /\ i \in FS!Slots /\ inodes[i] \in FS!Inode
    BY <2>2 DEF FS!TypeOK, FS!OpenFile
  <2>4. inodes[i].size \in 0 .. FS_DATA_MAX /\ inodes[i].data \in [FS!Offsets -> Bytes \cup {Blank}]
    BY <2>3 DEF FS!Inode
  <2>5. Len(buffer) \in Nat
    OBVIOUS
  <2> HIDE DEF offset, i
  <2>6. m \in Nat /\ m <= Len(buffer) /\ offset \in Nat /\ offset + m \in 0 .. FS_DATA_MAX
    BY <2>3, <2>5, LimitsAssumption DEF FS!Smaller
  <2> HIDE DEF m
  <2>7. bytes \in [FS!Offsets -> Bytes \cup {Blank}]
    BY <2>4, <2>6, OverwrittenType
  <2>8. size \in 0 .. FS_DATA_MAX
    BY <2>4, <2>6 DEF FS!Larger
  <2> HIDE DEF bytes, size
  <2>9. inodes' \in [FS!Slots -> FS!Inode]
    <3>1. [inodes[i] EXCEPT !.data = bytes, !.size = size] \in FS!Inode
      BY <2>3, <2>7, <2>8 DEF FS!Inode
    <3>2. inodes' = [inodes EXCEPT ![i] = [inodes[i] EXCEPT !.data = bytes, !.size = size]]
      BY <2>1, <2>3 DEF FS!TypeOK
    <3> QED
      BY <2>3, <3>1, <3>2 DEF FS!TypeOK
  <2>10. open_files' \in [FS!OpenSlots -> FS!OpenFile]
    BY <2>1, <2>2, <2>6 DEF FS!TypeOK, FS!OpenFile
  <2>11. result' \in [value : Int, data : Seq(Bytes \cup {Blank})]
    <3>1. m \in Int
      BY <2>6
    <3> QED
      BY <2>1, <3>1, ReplyType DEF FS!Return
  <2> QED
    BY <2>1, <2>9, <2>10, <2>11 DEF FS!TypeOK
<1> QED
  BY <1>1, <1>2 DEF FS!fs_write

\* A step that changes no table, and whose result is one, keeps the types.
LEMMA TablesKept ==
    ASSUME FS!TypeOK, UNCHANGED tables, result' \in [value : Int, data : Seq(Bytes \cup {Blank})]
    PROVE  FS!TypeOK'
  BY DEF FS!TypeOK, tables

\* So does a result without data.
LEMMA GiveKept ==
    ASSUME FS!TypeOK, UNCHANGED tables, NEW v \in Int, Give(v)
    PROVE  FS!TypeOK'
  BY ReplyType, TablesKept DEF Give

-----------------------------------------------------------------------------
(* The steps. *)

\* The shell starts in a state of the invariant.
LEMMA InitInv == Init => Inv
<1> SUFFICES ASSUME Init PROVE Inv
  OBVIOUS
<1>1. FS!TypeOK
  BY FSInitTypes DEF Init
<1>2. line \in [1 .. MAX_LENGTH -> Printable \cup {Blank}] /\ count \in 0 .. MAX_LENGTH
  BY LimitsAssumption DEF Init, EmptyLine
<1>3. typed \in Seq(Keys)
  BY DEF Init
<1>4. call \in Frame
  BY DEF Init, NoCall, Frame, Numbers
<1> QED
  BY <1>1, <1>2, <1>3, <1>4
  DEF Init, Inv, TypeOK, SumOnlyWhileCopying, AccessesChecked, Checked, Copying, NoCall, Numbers

\* A call that is refused leaves user memory as closed as it was.
LEMMA RefuseInv == ASSUME Inv, pc = "syscall", Refuse PROVE Inv'
<1>1. -1 \in Int
  OBVIOUS
<1>2. FS!TypeOK'
  BY <1>1, GiveKept DEF Refuse, Inv, TypeOK
<1> QED
  BY <1>2
  DEF Refuse, Inv, TypeOK, SumOnlyWhileCopying, AccessesChecked, Checked, Copying, stdin,
      user_readable, user_writable

\* Opening user memory is right when the arguments have been checked for the next step.
LEMMA OpenUserMemoryInv ==
    ASSUME Inv, pc = "syscall", NEW next \in Copying, OpenUserMemory(next), UNCHANGED stdin,
           next = "path" => call.number \in {"open", "create"},
           next = "write" => user_readable(call.length),
           next \in {"read", "line"} => user_writable(call.length),
           next = "line" => call.length <= MAX_LENGTH
    PROVE  Inv'
<1>1. FS!TypeOK'
  BY TablesKept DEF OpenUserMemory, Inv, TypeOK, FS!TypeOK
<1>2. call \in Frame /\ call.length \in Nat
  BY DEF Inv, Checked, Frame
<1> QED
  BY <1>1, <1>2
  DEF OpenUserMemory, Inv, TypeOK, SumOnlyWhileCopying, AccessesChecked, Checked, Copying, stdin,
      user_readable, user_writable

\* Whatever a program asks for, it hands over a frame.
Trap ==
    /\ pc = "user" /\ call' \in Frame /\ result' = Nothing /\ pc' = "syscall"
    /\ UNCHANGED <<tables, sum, fault, stdin, before>>

\* A program of any kind enters the kernel with a trap.
LEMMA EcallTraps == ASSUME Ecall PROVE Trap
<1>1. call' \in Frame
  <2>1. NoCall \in Frame
    BY DEF NoCall, Frame, Numbers
  <2>2. PICK n \in Numbers :
          \/ /\ n \in {"write", "read"}
             /\ \E d \in Descriptors, p \in Pointers, length \in Sizes :
                   call' = [NoCall EXCEPT !.number = n, !.fd = d, !.pointer = p, !.length = length]
          \/ /\ n \in {"open", "create"}
             /\ \E p \in Pointers, path \in Paths :
                   call' = [NoCall EXCEPT !.number = n, !.pointer = p, !.path = path]
          \/ /\ n = "close"
             /\ \E d \in Descriptors : call' = [NoCall EXCEPT !.number = n, !.fd = d]
          \/ /\ n \in {"getpid", "exit", "unknown"}
             /\ call' = [NoCall EXCEPT !.number = n]
    BY DEF Ecall
  <2>3. CASE \E d \in Descriptors, p \in Pointers, length \in Sizes :
                call' = [NoCall EXCEPT !.number = n, !.fd = d, !.pointer = p, !.length = length]
    BY <2>1, <2>3, InputsAssumption DEF Frame
  <2>4. CASE \E p \in Pointers, path \in Paths :
                call' = [NoCall EXCEPT !.number = n, !.pointer = p, !.path = path]
    <3>1. PICK p \in Pointers, path \in Paths :
             call' = [NoCall EXCEPT !.number = n, !.pointer = p, !.path = path]
      BY <2>4
    <3>2. path \in [name : Names \cup {NoName}, length : Nat]
      BY InputsAssumption
    <3>3. p \in [null : BOOLEAN, readable : Nat, writable : Nat]
      BY InputsAssumption
    <3> QED
      BY <2>1, <3>1, <3>2, <3>3 DEF Frame
  <2>5. CASE \E d \in Descriptors : call' = [NoCall EXCEPT !.number = n, !.fd = d]
    BY <2>1, <2>5, InputsAssumption DEF Frame
  <2>6. CASE call' = [NoCall EXCEPT !.number = n]
    BY <2>1, <2>6 DEF Frame
  <2> QED
    BY <2>2, <2>3, <2>4, <2>5, <2>6
<1> QED
  BY <1>1 DEF Ecall, Trap

\* A trap opens nothing, and its frame is typed.
LEMMA TrapInv == ASSUME Inv, Trap PROVE Inv'
<1>1. FS!TypeOK'
  <2>1. 0 \in Int
    OBVIOUS
  <2> QED
    BY <2>1, GiveKept DEF Trap, Nothing, Give, Inv, TypeOK
<1>2. call'.number \in Numbers
  BY DEF Trap, Frame
<1> QED
  BY <1>1, <1>2
  DEF Trap, Inv, TypeOK, SumOnlyWhileCopying, AccessesChecked, Checked, Copying, stdin

\* write: refused, or the buffer is readable.
LEMMA SysWriteInv == ASSUME Inv, SysWrite PROVE Inv'
<1>1. CASE Refuse
  BY <1>1, RefuseInv DEF SysWrite, Called
<1>2. CASE ~WriteRefused
  BY <1>2, OpenUserMemoryInv DEF SysWrite, Called, WriteRefused, Copying
<1> QED
  BY <1>1, <1>2 DEF SysWrite

\* The copy of write reads what has been found readable.
LEMMA WriteInv == ASSUME Inv, Write PROVE Inv'
<1>1. call \in Frame /\ call.length \in Nat /\ user_readable(call.length) /\ sum
  BY DEF Inv, Checked, Write, Frame, SumOnlyWhileCopying, Copying
<1>2. fault' = FALSE
  BY <1>1 DEF Inv, AccessesChecked, Write, Reads
<1>3. FS!TypeOK'
  <2>1. CASE Give(call.length) /\ UNCHANGED tables
    <3>1. call.length \in Int
      BY <1>1
    <3> QED
      BY <2>1, <3>1, GiveKept DEF Inv, TypeOK
  <2>2. CASE \E buffer \in [1 .. call.length -> Bytes] : FS!fs_write(Pid, call.fd.low, buffer)
    <3>1. PICK buffer \in [1 .. call.length -> Bytes] : FS!fs_write(Pid, call.fd.low, buffer)
      BY <2>2
    <3>2. buffer \in Seq(Bytes)
      BY <1>1
    <3> QED
      BY <3>1, <3>2, WriteTypes DEF Inv, TypeOK
  <2> QED
    BY <2>1, <2>2 DEF Write, tables
<1> QED
  BY <1>1, <1>2, <1>3
  DEF Write, Inv, TypeOK, SumOnlyWhileCopying, AccessesChecked, Checked, Copying, stdin

\* open and create look at the pointer only, and the call keeps its number.
LEMMA SysPathInv == ASSUME Inv, SysPath PROVE Inv'
<1>1. CASE Refuse
  BY <1>1, RefuseInv DEF SysPath, Called
<1>2. CASE OpenUserMemory("path") /\ UNCHANGED stdin
  BY <1>2, OpenUserMemoryInv DEF SysPath, Called, Copying
<1> QED
  BY <1>1, <1>2 DEF SysPath

\* The copy of a path ends before the first byte the program may not read.
LEMMA PathLengthReadable ==
    ASSUME call \in Frame
    PROVE  PathLength \in Nat /\ user_readable(PathLength)
<1>1. call.path.length \in Nat /\ FS_NAME_MAX \in Nat /\ call.pointer.readable \in Nat
  BY LimitsAssumption DEF Frame
<1>2. \E n \in {call.path.length, FS_NAME_MAX, call.pointer.readable} :
          n <= call.path.length /\ n <= FS_NAME_MAX /\ n <= call.pointer.readable
  BY <1>1
<1> QED
  BY <1>1, <1>2 DEF PathLength, user_readable

\* The copy of a path closes user memory on every way out.
LEMMA CopyPathInv == ASSUME Inv, CopyPath PROVE Inv'
<1>1. call \in Frame /\ call.number \in {"open", "create"} /\ sum
  BY DEF Inv, Checked, CopyPath, SumOnlyWhileCopying, Copying
<1>2. fault' = FALSE
  BY <1>1, PathLengthReadable DEF Inv, AccessesChecked, CopyPath, Reads
<1>3. FS!TypeOK'
  <2>1. CASE UNCHANGED result
    BY <2>1, TablesKept DEF CopyPath, Inv, TypeOK, FS!TypeOK
  <2>2. CASE Give(-1)
    <3>1. -1 \in Int
      OBVIOUS
    <3> QED
      BY <2>2, <3>1, GiveKept DEF CopyPath, Inv, TypeOK
  <2> QED
    BY <2>1, <2>2 DEF CopyPath
<1>4. pc' \in {"open", "create", "resume"}
  BY <1>1 DEF CopyPath
<1> QED
  BY <1>1, <1>2, <1>3, <1>4
  DEF CopyPath, Inv, TypeOK, SumOnlyWhileCopying, AccessesChecked, Checked, Copying, stdin

\* fs_create runs with user memory closed.
LEMMA CreateStepInv == ASSUME Inv, Create PROVE Inv'
<1>1. FS!TypeOK'
  BY CreateTypes DEF Create, Inv, TypeOK, Checked, Frame
<1>2. pc' \in {"open", "resume"}
  BY DEF Create
<1> QED
  BY <1>1, <1>2
  DEF Create, Inv, TypeOK, SumOnlyWhileCopying, AccessesChecked, Checked, Copying, stdin

\* fs_open runs with user memory closed.
LEMMA OpenStepInv == ASSUME Inv, Open PROVE Inv'
<1>1. FS!TypeOK'
  BY OpenTypes DEF Open, Inv, TypeOK
<1> QED
  BY <1>1 DEF Open, Inv, TypeOK, SumOnlyWhileCopying, AccessesChecked, Checked, Copying, stdin

\* read: refused, or the buffer is writable and no longer than a line may be.
LEMMA SysReadInv == ASSUME Inv, SysRead PROVE Inv'
<1>1. CASE Refuse
  BY <1>1, RefuseInv DEF SysRead, Called
<1>2. ASSUME ~ReadRefused, OpenUserMemory("line"), UNCHANGED stdin
      PROVE  Inv'
  <2>1. call.length \in Nat /\ call.length <= MAX_LENGTH /\ user_writable(call.length)
    BY <1>2, LimitsAssumption DEF ReadRefused, Inv, Checked, Frame
  <2> QED
    BY <1>2, <2>1, OpenUserMemoryInv DEF SysRead, Called, Copying
<1>3. ASSUME ~ReadRefused, OpenUserMemory("read"), UNCHANGED stdin
      PROVE  Inv'
  BY <1>3, OpenUserMemoryInv DEF SysRead, Called, Copying, ReadRefused
<1> QED
  BY <1>1, <1>2, <1>3 DEF SysRead

\* The copy of read writes no more than fs_read hands out.
LEMMA ReadInv == ASSUME Inv, Read PROVE Inv'
<1>1. call \in Frame /\ call.length \in Nat /\ user_writable(call.length) /\ sum
  BY DEF Inv, Checked, Read, Frame, SumOnlyWhileCopying, Copying
<1>2. FS!TypeOK' /\ Len(result'.data) \in 0 .. call.length
  BY <1>1, ReadTypes DEF Read, Inv, TypeOK
<1>3. user_writable(Len(result'.data))
  BY <1>1, <1>2 DEF user_writable, Frame
<1>4. fault' = FALSE
  BY <1>1, <1>3 DEF Inv, AccessesChecked, Read, Writes
<1> QED
  BY <1>1, <1>2, <1>4
  DEF Read, Inv, TypeOK, SumOnlyWhileCopying, AccessesChecked, Checked, Copying, stdin

\* A key of a line is stored inside the buffer the call was given.
LEMMA KeyInv == ASSUME Inv, NEW c \in Keys, Key(c) PROVE Inv'
<1>1. /\ call \in Frame /\ call.length \in Nat /\ call.length <= MAX_LENGTH
      /\ user_writable(call.length) /\ count \in Nat /\ count <= call.length
      /\ sum /\ fault = FALSE /\ line \in [1 .. MAX_LENGTH -> Printable \cup {Blank}] /\ FS!TypeOK
  BY LimitsAssumption
  DEF Inv, TypeOK, Checked, Key, Frame, SumOnlyWhileCopying, AccessesChecked, Copying
<1>2. typed' \in Seq(Keys)
  BY DEF Inv, TypeOK, Key
<1>3. CASE EndLine
  <2>1. FS!TypeOK'
    <3>1. count \in Int
      BY <1>1
    <3> QED
      BY <1>1, <1>3, <3>1, GiveKept DEF EndLine, Key
  <2> QED
    BY <1>1, <1>2, <1>3, <2>1
    DEF Key, EndLine, Inv, TypeOK, SumOnlyWhileCopying, AccessesChecked, Checked, Copying
<1>4. ASSUME GoOn, line' \in [1 .. MAX_LENGTH -> Printable \cup {Blank}],
             count' \in Nat, count' <= call.length, fault' = FALSE
      PROVE  Inv'
  <2>1. FS!TypeOK'
    BY <1>1, <1>4, TablesKept DEF GoOn, Key, FS!TypeOK
  <2>2. count' \in 0 .. MAX_LENGTH
    BY <1>1, <1>4, LimitsAssumption
  <2> QED
    BY <1>1, <1>2, <1>4, <2>1, <2>2
    DEF Key, GoOn, Inv, TypeOK, SumOnlyWhileCopying, AccessesChecked, Checked, Copying, user_writable
<1>5. CASE Erase
  <2>1. GoOn /\ line' = line /\ fault' = fault
    BY <1>5 DEF Erase
  <2>2. count' \in Nat /\ count' <= call.length
    BY <1>1, <1>5 DEF Erase
  <2> QED
    BY <1>1, <1>4, <2>1, <2>2
<1>6. ASSUME c \in Printable, Store(c), ~EndLine
      PROVE  Inv'
  <2>1. /\ count < call.length /\ line' = [line EXCEPT ![count + 1] = c]
        /\ count' = count + 1 /\ Writes(count + 1) /\ GoOn
    BY <1>1, <1>6 DEF Store
  <2>2. user_writable(count + 1)
    BY <1>1, <2>1 DEF user_writable, Frame
  <2>3. fault' = FALSE
    BY <1>1, <2>1, <2>2 DEF Writes
  <2>4. line' \in [1 .. MAX_LENGTH -> Printable \cup {Blank}]
    BY <1>1, <1>6, <2>1
  <2>5. count' \in Nat /\ count' <= call.length
    BY <1>1, <2>1
  <2> QED
    BY <1>4, <2>1, <2>3, <2>4, <2>5
<1>7. CASE UNCHANGED <<line, count, fault>> /\ GoOn
  BY <1>1, <1>4, <1>7
<1> QED
  BY <1>3, <1>5, <1>6, <1>7 DEF Key

\* getpid, and the calls that stop the machine.
LEMMA OtherInv == ASSUME Inv, SysGetpid \/ SysClose \/ Stop PROVE Inv'
<1>1. CASE SysGetpid
  <2>1. FS!TypeOK'
    <3>1. Pid \in Int
      BY InputsAssumption
    <3> QED
      BY <1>1, <3>1, GiveKept DEF SysGetpid, Inv, TypeOK
  <2> QED
    BY <1>1, <2>1 DEF SysGetpid, Called, Inv, TypeOK, SumOnlyWhileCopying, AccessesChecked, Checked,
       Copying, stdin
<1>2. CASE SysClose
  <2>1. FS!TypeOK'
    BY <1>2, CloseTypes DEF SysClose, Inv, TypeOK
  <2> QED
    BY <1>2, <2>1 DEF SysClose, Called, Inv, TypeOK, SumOnlyWhileCopying, AccessesChecked, Checked,
       Copying, stdin
<1>3. CASE Stop
  <2>1. FS!TypeOK'
    BY <1>3, TablesKept DEF Stop, Inv, TypeOK, FS!TypeOK
  <2> QED
    BY <1>3, <2>1 DEF Stop, Called, Inv, TypeOK, SumOnlyWhileCopying, AccessesChecked, Checked,
       Copying, stdin
<1> QED
  BY <1>1, <1>2, <1>3

\* The return to the program.
LEMMA ResumeInv == ASSUME Inv, Resume PROVE Inv'
<1>1. FS!TypeOK'
  BY TablesKept DEF Resume, Inv, TypeOK, FS!TypeOK
<1>2. NoCall \in Frame
  BY DEF NoCall, Frame, Numbers
<1>3. EmptyLine \in [1 .. MAX_LENGTH -> Printable \cup {Blank}] /\ <<>> \in Seq(Keys) /\ 0 \in 0 .. MAX_LENGTH
  BY LimitsAssumption DEF EmptyLine
<1> QED
  BY <1>1, <1>2, <1>3
  DEF Resume, Inv, TypeOK, SumOnlyWhileCopying, AccessesChecked, Checked, Copying, Frame

\* A step that changes nothing.
LEMMA StutterInv == ASSUME Inv, UNCHANGED vars PROVE Inv'
<1>1. FS!TypeOK'
  BY TablesKept DEF vars, Inv, TypeOK, FS!TypeOK
<1> QED
  BY <1>1 DEF vars, stdin, Inv, TypeOK, SumOnlyWhileCopying, AccessesChecked, Checked, Copying,
     user_readable, user_writable

\* The invariant is inductive.
LEMMA NextInv == Inv /\ [Next]_vars => Inv'
<1> SUFFICES ASSUME Inv, [Next]_vars PROVE Inv'
  OBVIOUS
<1>1. CASE Ecall
  BY <1>1, EcallTraps, TrapInv
<1>2. CASE KernelStep
  BY <1>2, SysWriteInv, WriteInv, SysPathInv, CopyPathInv, CreateStepInv, OpenStepInv, SysReadInv,
     ReadInv, OtherInv, ResumeInv
  DEF KernelStep
<1>3. CASE \E c \in Keys : Key(c)
  BY <1>3, KeyInv
<1>4. CASE Stopped
  BY <1>4, StutterInv DEF Stopped
<1>5. CASE UNCHANGED vars
  BY <1>5, StutterInv
<1> QED
  BY <1>1, <1>2, <1>3, <1>4, <1>5 DEF Next

-----------------------------------------------------------------------------
(* The theorems. *)

\* The invariant holds of every reachable state.
THEOREM InvCorrect == Spec => []Inv
  BY InitInv, NextInv, PTL DEF Spec

\* The state has its types: no line passes MAX_LENGTH and no file its array.
THEOREM TypeCorrect == Spec => []TypeOK
<1>1. Inv => TypeOK
  BY DEF Inv
<1> QED
  BY <1>1, InvCorrect, PTL

\* Whatever a program passes, no byte of user memory is touched that the program may
\* not touch itself, and none with SUM clear (syscall.c:39-327).
THEOREM AccessesCheckedCorrect == Spec => []AccessesChecked
<1>1. Inv => AccessesChecked
  BY DEF Inv
<1> QED
  BY <1>1, InvCorrect, PTL

\* User memory is open exactly while a call copies.
THEOREM SumOnlyWhileCopyingCorrect == Spec => []SumOnlyWhileCopying
<1>1. Inv => SumOnlyWhileCopying
  BY DEF Inv
<1> QED
  BY <1>1, InvCorrect, PTL

-----------------------------------------------------------------------------
(* What the calls leave in the file system. *)

\* The call has made a file, empty and new, in slot i, and done nothing else.
Created(i) ==
    /\ i \in FS!Slots /\ ~before.inodes[i].used
    /\ inodes[i].used /\ inodes[i].name = call.path.name /\ inodes[i].size = 0
    /\ before.open_files = open_files
    /\ before.inodes \in [FS!Slots -> FS!Inode]
    /\ inodes = [before.inodes EXCEPT ![i] = inodes[i]]
    /\ \A j \in FS!Slots : ~(before.inodes[j].used /\ before.inodes[j].name = call.path.name)

\* No call but create has changed a table before its last step.
Effect ==
    /\ before = [inodes |-> before.inodes, open_files |-> before.open_files]
    /\ pc \notin {"open", "resume"} => Tables = before
    /\ pc = "write" => call.number = "write"
    /\ pc \in {"read", "line"} => call.number = "read"
    /\ pc = "create" => call.number = "create"
    /\ pc = "open" => \/ call.number = "open" /\ Tables = before
                      \/ call.number = "create" /\ \E i \in FS!Slots : Created(i)
    /\ FailureIsClean
    /\ CreateGivesNewFile

EInv == Inv /\ Effect

-----------------------------------------------------------------------------
(* Handles. *)

\* A process that has no descriptor left holds every entry of the table: there are as
\* many descriptors as entries, and one entry has one descriptor.
LEMMA NoFdNoEntry ==
    ASSUME FS!TypeOK, FS!FreeFds(Pid) = {}
    PROVE  FS!FreeOpenSlots = {}
<1> DEFINE Given == 3 .. 3 + FS_MAX_OPEN_FILES - 1
           g == [d \in Given |-> CHOOSE i \in FS!OpenSlots :
                                     open_files[i].used /\ open_files[i].fd = d]
<1>1. ASSUME NEW d \in Given
      PROVE  g[d] \in FS!OpenSlots /\ open_files[g[d]].used /\ open_files[g[d]].fd = d
  <2>1. FS!Opened(Pid, d) # {}
    BY DEF FS!FreeFds
  <2>2. \E i \in FS!OpenSlots : open_files[i].used /\ open_files[i].fd = d
    BY <2>1 DEF FS!Opened
  <2> QED
    BY <2>2
<1>2. IsFiniteSet(Given) /\ IsFiniteSet(FS!OpenSlots) /\ Cardinality(Given) = Cardinality(FS!OpenSlots)
  <2>1. /\ 3 \in Int /\ 3 + FS_MAX_OPEN_FILES - 1 \in Int /\ 0 \in Int /\ FS_MAX_OPEN_FILES - 1 \in Int
        /\ ~(3 > 3 + FS_MAX_OPEN_FILES - 1) /\ ~(0 > FS_MAX_OPEN_FILES - 1)
        /\ (3 + FS_MAX_OPEN_FILES - 1) - 3 + 1 = FS_MAX_OPEN_FILES
        /\ (FS_MAX_OPEN_FILES - 1) - 0 + 1 = FS_MAX_OPEN_FILES
    BY LimitsAssumption
  <2>2. IsFiniteSet(Given) /\ Cardinality(Given) = FS_MAX_OPEN_FILES
    BY <2>1, FS_Interval
  <2>3. IsFiniteSet(0 .. FS_MAX_OPEN_FILES - 1)
        /\ Cardinality(0 .. FS_MAX_OPEN_FILES - 1) = FS_MAX_OPEN_FILES
    BY <2>1, FS_Interval
  <2> QED
    BY <2>2, <2>3 DEF FS!OpenSlots
<1>3. g \in [Given -> FS!OpenSlots] /\ DOMAIN g = Given
  BY <1>1
<1> HIDE DEF g, Given
<1>4. IsInjective(g)
  BY <1>1, <1>3 DEF IsInjective
<1>5. g \in Surjection(Given, FS!OpenSlots)
  BY <1>2, <1>3, <1>4, FS_Injection DEF Injection
<1>6. ASSUME NEW i \in FS!OpenSlots
      PROVE  open_files[i].used
  <2>1. \E d \in Given : g[d] = i
    BY <1>5 DEF Surjection
  <2> QED
    BY <1>1, <2>1
<1> QED
  BY <1>6 DEF FS!FreeOpenSlots

\* The value returned is the descriptor of the open file f and of no other.
HandleIs(f) == FS!Opened(Pid, result.value) = {f}

\* fs_open gives a handle of the file with the name, at its start and in an entry that
\* was free, or changes nothing.
LEMMA OpenResult ==
    ASSUME FS!TypeOK, NEW n, FS!fs_open(Pid, n)
    PROVE  /\ UNCHANGED <<inodes, inode_count>>
           /\ \/ /\ result'.value = -1 /\ open_files' = open_files
                 /\ FS!SlotsNamed(n) = {} \/ FS!FreeOpenSlots = {}
              \/ /\ result'.value \in Nat
                 /\ \E f \in FS!OpenSlots :
                       /\ HandleIs(f)' /\ ~open_files[f].used
                       /\ open_files'[f].inode_index \in FS!SlotsNamed(n)
                       /\ open_files'[f].offset = 0
<1>1. CASE FS!Fail /\ (FS!SlotsNamed(n) = {} \/ FS!FreeFds(Pid) = {} \/ FS!FreeOpenSlots = {})
  BY <1>1, NoFdNoEntry DEF FS!Fail, FS!Return
<1>2. ASSUME FS!SlotsNamed(n) # {}, FS!FreeFds(Pid) # {}, FS!FreeOpenSlots # {}
      PROVE  /\ UNCHANGED <<inodes, inode_count>>
             /\ result'.value \in Nat
             /\ \E f \in FS!OpenSlots :
                   /\ HandleIs(f)' /\ ~open_files[f].used
                   /\ open_files'[f].inode_index \in FS!SlotsNamed(n)
                   /\ open_files'[f].offset = 0
  <2>1. PICK d \in FS!FreeFds(Pid) : d = FS!Least(FS!FreeFds(Pid))
    <3>1. FS!FreeFds(Pid) \in SUBSET Nat
      BY LimitsAssumption DEF FS!FreeFds
    <3> QED
      BY <1>2, <3>1, LeastFound
  <2>2. PICK f \in FS!FreeOpenSlots : f = FS!Least(FS!FreeOpenSlots)
    <3>1. FS!FreeOpenSlots \in SUBSET Nat
      BY DEF FS!FreeOpenSlots, FS!OpenSlots
    <3> QED
      BY <1>2, <3>1, LeastFound
  <2>3. PICK i \in FS!SlotsNamed(n) : i = FS!find_inode(n)
    <3>1. FS!SlotsNamed(n) \in SUBSET Nat
      BY DEF FS!SlotsNamed, FS!UsedSlots, FS!Slots
    <3> QED
      BY <1>2, <3>1, LeastFound DEF FS!find_inode
  <2> DEFINE entry == [used |-> TRUE, pid |-> Pid, fd |-> d, inode_index |-> i, offset |-> 0]
  <2>4. open_files' = [open_files EXCEPT ![f] = entry] /\ FS!Return(d)
        /\ UNCHANGED <<inodes, inode_count>>
    BY <1>2, <2>1, <2>2, <2>3 DEF FS!fs_open
  <2>5. f \in FS!OpenSlots /\ ~open_files[f].used
    BY DEF FS!FreeOpenSlots
  <2>6. open_files'[f] = entry /\ \A j \in FS!OpenSlots \ {f} : open_files'[j] = open_files[j]
    BY <2>4, <2>5 DEF FS!TypeOK
  <2>7. result'.value = d /\ d \in Nat
    BY <2>4, LimitsAssumption DEF FS!Return, FS!FreeFds
  <2>8. HandleIs(f)'
    <3>1. FS!Opened(Pid, d) = {}
      BY DEF FS!FreeFds
    <3>2. \A j \in FS!OpenSlots \ {f} :
             ~(open_files'[j].used /\ open_files'[j].pid = Pid /\ open_files'[j].fd = d)
      BY <2>6, <3>1 DEF FS!Opened
    <3> QED
      BY <2>5, <2>6, <2>7, <3>2 DEF HandleIs, FS!Opened
  <2>9. open_files'[f].inode_index = i /\ open_files'[f].offset = 0
    BY <2>6
  <2> QED
    BY <2>4, <2>5, <2>7, <2>8, <2>9
<1> QED
  BY <1>1, <1>2 DEF FS!fs_open

-----------------------------------------------------------------------------
(* The results of the other calls of the file system. *)

\* fs_create makes an empty file under a new name, or changes nothing.
LEMMA CreateResult ==
    ASSUME FS!TypeOK, NEW n, FS!fs_create(n)
    PROVE  /\ open_files' = open_files
           /\ \/ result'.value = -1 /\ inodes' = inodes
              \/ /\ result'.value \in Nat /\ FS!SlotsNamed(n) = {}
                 /\ \E i \in FS!Slots :
                       /\ ~inodes[i].used
                       /\ inodes'[i].used /\ inodes'[i].name = n /\ inodes'[i].size = 0
                       /\ inodes' = [inodes EXCEPT ![i] = inodes'[i]]
<1>1. CASE FS!Fail
  BY <1>1 DEF FS!Fail, FS!Return
<1>2. ASSUME FS!FreeSlots # {}, ~FS!Fail
      PROVE  /\ open_files' = open_files
             /\ result'.value \in Nat /\ FS!SlotsNamed(n) = {}
             /\ \E i \in FS!Slots :
                   /\ ~inodes[i].used
                   /\ inodes'[i].used /\ inodes'[i].name = n /\ inodes'[i].size = 0
                   /\ inodes' = [inodes EXCEPT ![i] = inodes'[i]]
  <2>1. PICK i \in FS!FreeSlots : i = FS!Least(FS!FreeSlots)
    <3>1. FS!FreeSlots \in SUBSET Nat
      BY DEF FS!FreeSlots, FS!Slots
    <3> QED
      BY <1>2, <3>1, LeastFound
  <2>2. i \in FS!Slots /\ ~inodes[i].used /\ i \in Nat
    BY DEF FS!FreeSlots, FS!UsedSlots, FS!Slots
  <2>3. inodes' = [inodes EXCEPT ![i] = FS!Stored(inodes[i], n, <<>>)]
        /\ FS!Return(i) /\ open_files' = open_files /\ FS!SlotsNamed(n) = {}
    BY <1>2, <2>1 DEF FS!fs_create
  <2>4. inodes'[i] = FS!Stored(inodes[i], n, <<>>)
    BY <2>2, <2>3 DEF FS!TypeOK
  <2>5. inodes'[i].used /\ inodes'[i].name = n /\ inodes'[i].size = 0
    BY <2>4 DEF FS!Stored
  <2>6. result'.value = i
    BY <2>3 DEF FS!Return
  <2> QED
    BY <2>2, <2>3, <2>4, <2>5, <2>6
<1> QED
  BY <1>1, <1>2 DEF FS!fs_create

\* A read that fails changes nothing.
LEMMA ReadResult ==
    ASSUME FS!TypeOK, NEW d, NEW n \in Nat, FS!fs_read(Pid, d, n), result'.value = -1
    PROVE  UNCHANGED <<inodes, open_files>>
<1>1. CASE FS!Fail
  BY <1>1 DEF FS!Fail
<1>2. ASSUME FS!Opened(Pid, d) # {}
      PROVE  FALSE
  <2> DEFINE f == FS!find_open_file(Pid, d)
             offset == open_files[f].offset
             inode == inodes[open_files[f].inode_index]
             m == IF offset >= inode.size THEN 0 ELSE FS!Smaller(n, inode.size - offset)
  <2>1. result'.value = m
    BY <1>2 DEF FS!fs_read
  <2>2. open_files[f] \in FS!OpenFile
    BY <1>2, OpenedFound
  <2>3. offset \in 0 .. FS_DATA_MAX /\ inode.size \in 0 .. FS_DATA_MAX
    BY <2>2 DEF FS!TypeOK, FS!OpenFile, FS!Inode
  <2>4. m \in Nat
    BY <2>3, LimitsAssumption DEF FS!Smaller
  <2> QED
    BY <2>1, <2>4
<1> QED
  BY <1>1, <1>2 DEF FS!fs_read

\* So it is for a write.
LEMMA WriteResult ==
    ASSUME FS!TypeOK, NEW d, NEW buffer \in Seq(Bytes), FS!fs_write(Pid, d, buffer),
           result'.value = -1
    PROVE  UNCHANGED <<inodes, open_files>>
<1>1. CASE FS!Fail
  BY <1>1 DEF FS!Fail
<1>2. ASSUME FS!Opened(Pid, d) # {}
      PROVE  FALSE
  <2> DEFINE offset == open_files[FS!find_open_file(Pid, d)].offset
             m == IF offset >= FS_DATA_MAX THEN 0 ELSE FS!Smaller(Len(buffer), FS_DATA_MAX - offset)
  <2>1. result'.value = m
    BY <1>2 DEF FS!fs_write, FS!Return
  <2>2. offset \in 0 .. FS_DATA_MAX
    BY <1>2, OpenedFound DEF FS!OpenFile
  <2>3. Len(buffer) \in Nat
    OBVIOUS
  <2>4. m \in Nat
    BY <2>2, <2>3, LimitsAssumption DEF FS!Smaller
  <2> QED
    BY <2>1, <2>4
<1> QED
  BY <1>1, <1>2 DEF FS!fs_write

\* And for a close.
LEMMA CloseResult ==
    ASSUME NEW d, FS!fs_close(Pid, d), result'.value = -1
    PROVE  UNCHANGED <<inodes, open_files>>
  BY DEF FS!fs_close, FS!Fail, FS!Return

-----------------------------------------------------------------------------
(* The steps. *)

\* The shell starts with nothing done.
LEMMA InitEffect == Init => Effect
  BY DEF Init, Effect, Tables, FailureIsClean, CreateGivesNewFile

\* The last step of a call is right when its failure changed nothing, and when it is
\* not the success of a create.
LEMMA LastStep ==
    ASSUME Effect, pc' = "resume", UNCHANGED <<call, before>>,
           result'.value = -1 => UNCHANGED <<inodes, open_files>> /\ Tables = before,
           call.number # "create" \/ result'.value = -1
    PROVE  Effect'
  BY DEF Effect, FailureIsClean, CreateGivesNewFile, Tables

\* A step in the middle of a call is right when it changes no table.
LEMMA MiddleStep ==
    ASSUME Effect, UNCHANGED <<inodes, open_files, call, before>>, Tables = before,
           pc' \notin {"open", "resume"},
           pc' \in {"write", "create"} => call.number = pc',
           pc' \in {"read", "line"} => call.number = "read"
    PROVE  Effect'
  BY DEF Effect, FailureIsClean, CreateGivesNewFile, Tables

\* A call that is refused fails with nothing done.
LEMMA RefuseEffect == ASSUME Effect, pc = "syscall", Refuse PROVE Effect'
<1>1. result'.value = -1 /\ UNCHANGED <<inodes, open_files>> /\ Tables = before
  BY DEF Refuse, Give, tables, Effect
<1> QED
  BY <1>1, LastStep DEF Refuse

\* The trap changes no table.
LEMMA TrapEffect == ASSUME EInv, Trap PROVE Effect'
<1>1. Tables = before /\ pc' = "syscall" /\ UNCHANGED <<inodes, open_files, before>>
  BY DEF Trap, EInv, Effect, tables
<1> QED
  BY <1>1 DEF EInv, Effect, FailureIsClean, CreateGivesNewFile, Tables

\* Nor does the first step of a call.
LEMMA FirstStepEffect ==
    ASSUME EInv, SysWrite \/ SysPath \/ SysRead PROVE Effect'
<1>1. Effect /\ pc = "syscall"
  BY DEF EInv, SysWrite, SysPath, SysRead, Called
<1>2. CASE Refuse
  BY <1>1, <1>2, RefuseEffect
<1>3. ASSUME NEW next \in Copying, OpenUserMemory(next),
             next = "write" => call.number = "write",
             next \in {"read", "line"} => call.number = "read"
      PROVE  Effect'
  <2>1. UNCHANGED <<inodes, open_files, call, before>> /\ Tables = before /\ pc' = next
    BY <1>1, <1>3 DEF OpenUserMemory, tables, Effect
  <2> QED
    BY <1>1, <1>3, <2>1, MiddleStep DEF Copying
<1>4. CASE SysWrite
  BY <1>2, <1>3, <1>4 DEF SysWrite, Called, Copying
<1>5. CASE SysPath
  BY <1>2, <1>3, <1>5 DEF SysPath, Called, Copying
<1>6. CASE SysRead
  BY <1>2, <1>3, <1>6 DEF SysRead, Called, Copying
<1> QED
  BY <1>4, <1>5, <1>6

\* A write changes the tables only when it succeeds.
LEMMA WriteEffect == ASSUME EInv, Write PROVE Effect'
<1>1. Effect /\ Tables = before /\ call.number = "write" /\ call.length \in Nat
      /\ UNCHANGED <<call, before>> /\ pc' = "resume"
  BY DEF EInv, Effect, Write, Inv, Checked, Frame
<1>2. ASSUME result'.value = -1 PROVE UNCHANGED <<inodes, open_files>>
  <2>1. CASE UNCHANGED tables
    BY <2>1 DEF tables
  <2>2. CASE \E buffer \in [1 .. call.length -> Bytes] : FS!fs_write(Pid, call.fd.low, buffer)
    <3>1. PICK buffer \in [1 .. call.length -> Bytes] : FS!fs_write(Pid, call.fd.low, buffer)
      BY <2>2
    <3>2. buffer \in Seq(Bytes)
      BY <1>1
    <3> QED
      BY <1>2, <3>1, <3>2, WriteResult DEF EInv, Inv, TypeOK
  <2> QED
    BY <2>1, <2>2 DEF Write
<1> QED
  BY <1>1, <1>2, LastStep

\* A path that is copied goes on to the file system, another one fails.
LEMMA CopyPathEffect == ASSUME EInv, CopyPath PROVE Effect'
<1>1. Effect /\ Tables = before /\ call.number \in {"open", "create"}
      /\ UNCHANGED <<inodes, open_files, call, before>>
  BY DEF EInv, Effect, CopyPath, Inv, Checked, tables
<1>2. CASE pc' = "resume" /\ Give(-1)
  <2>1. result'.value = -1
    BY <1>2 DEF Give
  <2> QED
    BY <1>1, <1>2, <2>1, LastStep
<1>3. CASE pc' = call.number
  BY <1>1, <1>3 DEF Effect, FailureIsClean, CreateGivesNewFile, Tables
<1> QED
  BY <1>2, <1>3 DEF CopyPath

\* fs_create makes the file that the call is about to open, or fails.
LEMMA CreateEffect == ASSUME EInv, Create PROVE Effect'
<1>1. Effect /\ FS!TypeOK /\ Tables = before /\ call.number = "create" /\ UNCHANGED <<call, before>>
  BY DEF EInv, Effect, Create, Inv, TypeOK
<1>2. FS!fs_create(call.path.name)
  BY DEF Create
<1>3. CASE result'.value = -1 /\ inodes' = inodes /\ open_files' = open_files
  <2>1. pc' = "resume"
    BY <1>3 DEF Create
  <2> QED
    BY <1>1, <1>3, <2>1, LastStep
<1>4. ASSUME result'.value \in Nat, FS!SlotsNamed(call.path.name) = {}, open_files' = open_files,
             NEW i \in FS!Slots, ~inodes[i].used,
             inodes'[i].used, inodes'[i].name = call.path.name, inodes'[i].size = 0,
             inodes' = [inodes EXCEPT ![i] = inodes'[i]]
      PROVE  Effect'
  <2>1. pc' = "open"
    BY <1>4 DEF Create
  <2>2. before.inodes = inodes /\ before.open_files = open_files /\ inodes \in [FS!Slots -> FS!Inode]
    BY <1>1 DEF Tables, FS!TypeOK
  <2>3. \A j \in FS!Slots : ~(inodes[j].used /\ inodes[j].name = call.path.name)
    BY <1>4 DEF FS!SlotsNamed, FS!UsedSlots
  <2>4. Created(i)'
    BY <1>1, <1>4, <2>2, <2>3 DEF Created, FS!Slots, FS!Inode, FS!Offsets
  <2> QED
    BY <1>1, <2>1, <2>4 DEF Effect, FailureIsClean, CreateGivesNewFile, FS!Slots
<1> QED
  BY <1>1, <1>2, <1>3, <1>4, CreateResult

\* fs_open hands out the file of the call, or leaves the one a create has made.
LEMMA OpenEffect == ASSUME EInv, Open PROVE Effect'
<1>1. Effect /\ FS!TypeOK /\ UNCHANGED <<call, before>> /\ pc' = "resume"
      /\ FS!fs_open(Pid, call.path.name) /\ inodes' = inodes
  BY OpenResult DEF EInv, Effect, Open, Inv, TypeOK
<1>2. CASE call.number = "open" /\ Tables = before
  <2>1. result'.value = -1 => open_files' = open_files
    BY <1>1, OpenResult
  <2> QED
    BY <1>1, <1>2, <2>1, LastStep
<1>3. ASSUME call.number = "create", NEW i \in FS!Slots, Created(i)
      PROVE  Effect'
  <2>1. FS!SlotsNamed(call.path.name) = {i}
    <3>1. \A j \in FS!Slots \ {i} : inodes[j] = before.inodes[j]
      BY <1>3 DEF Created
    <3> QED
      BY <1>3, <3>1 DEF Created, FS!SlotsNamed, FS!UsedSlots
  <2>2. CASE result'.value = -1 /\ open_files' = open_files /\ FS!FreeOpenSlots = {}
    <3>1. FS!FreeOpenSlots' = {}
      BY <2>2 DEF FS!FreeOpenSlots, FS!OpenSlots
    <3>2. i \in FS!UsedSlots'
      BY <1>1, <1>3 DEF Created, FS!UsedSlots, FS!Slots
    <3>3. Tables' = [before EXCEPT !.inodes[i] = inodes[i]]
      BY <1>1, <1>3, <2>2 DEF Created, Effect, Tables
    <3>4. FailureIsClean'
      BY <1>1, <1>3, <3>1, <3>2, <3>3 DEF Created, FailureIsClean
    <3> QED
      BY <1>1, <2>2, <3>4 DEF Effect, CreateGivesNewFile
  <2>3. ASSUME result'.value \in Nat, NEW f \in FS!OpenSlots, HandleIs(f)', ~open_files[f].used,
               open_files'[f].inode_index = i, open_files'[f].offset = 0
        PROVE  Effect'
    <3>1. FS!Opened(Pid, result.value)' = {f}
      BY <2>3 DEF HandleIs
    <3>2. FS!find_open_file(Pid, result.value)' = f
      <4>1. f \in Nat
        BY DEF FS!OpenSlots
      <4> QED
        BY <3>1, <4>1, LeastFound DEF FS!find_open_file, FS!Least
    <3>3. ~before.open_files[f].used
      BY <1>3, <2>3 DEF Created
    <3>4. \A j \in DOMAIN inodes' : ~(before.inodes[j].used /\ before.inodes[j].name = call.path.name)
      BY <1>1, <1>3 DEF Created, FS!TypeOK
    <3>5. CreateGivesNewFile'
      BY <1>1, <1>3, <2>3, <3>1, <3>2, <3>3, <3>4 DEF CreateGivesNewFile, Created
    <3>6. FailureIsClean'
      BY <2>3 DEF FailureIsClean
    <3> QED
      BY <1>1, <3>5, <3>6 DEF Effect
  <2> QED
    BY <1>1, <2>1, <2>2, <2>3, OpenResult
<1> QED
  BY <1>2, <1>3 DEF Open, EInv, Effect

\* A read changes the offset only when it succeeds.
LEMMA ReadEffect == ASSUME EInv, Read PROVE Effect'
<1>1. Effect /\ Tables = before /\ call.number = "read" /\ call.length \in Nat
      /\ UNCHANGED <<call, before>> /\ pc' = "resume" /\ FS!TypeOK
      /\ FS!fs_read(Pid, call.fd.low, call.length)
  BY DEF EInv, Effect, Read, Inv, TypeOK, Checked, Frame
<1>2. result'.value = -1 => UNCHANGED <<inodes, open_files>>
  BY <1>1, ReadResult
<1> QED
  BY <1>1, <1>2, LastStep

\* A line of input changes no table.
LEMMA KeyEffect == ASSUME EInv, NEW c \in Keys, Key(c) PROVE Effect'
<1>1. Effect /\ Tables = before /\ call.number = "read"
      /\ UNCHANGED <<inodes, open_files, call, before>> /\ pc = "line"
  BY DEF EInv, Effect, Key, tables
<1>2. CASE EndLine
  BY <1>1, <1>2, LastStep DEF EndLine
<1>3. CASE GoOn
  BY <1>1, <1>3, MiddleStep DEF GoOn
<1> QED
  BY <1>2, <1>3 DEF Key, Erase, Store

\* The other calls change no table, but for a close that succeeds.
LEMMA OtherEffect == ASSUME EInv, SysGetpid \/ SysClose \/ Stop PROVE Effect'
<1>1. Effect /\ Tables = before /\ UNCHANGED <<call, before>>
      /\ call.number \in {"getpid", "close", "exit", "unknown"}
  BY DEF EInv, Effect, SysGetpid, SysClose, Stop, Called
<1>2. CASE SysGetpid
  BY <1>1, <1>2, LastStep DEF SysGetpid, tables
<1>3. CASE SysClose
  BY <1>1, <1>3, LastStep, CloseResult DEF SysClose
<1>4. CASE Stop
  BY <1>1, <1>4, MiddleStep DEF Stop, tables
<1> QED
  BY <1>2, <1>3, <1>4

\* The return begins a new account.
LEMMA ResumeEffect == ASSUME EInv, Resume PROVE Effect'
  BY DEF Resume, EInv, Effect, FailureIsClean, CreateGivesNewFile, Tables, tables

\* A step that changes nothing.
LEMMA StutterEffect == ASSUME Effect, UNCHANGED vars PROVE Effect'
<1>1. UNCHANGED <<inodes, open_files, pc, call, result, before>>
  BY DEF vars, tables
<1>2. FS!FreeOpenSlots' = FS!FreeOpenSlots /\ FS!UsedSlots' = FS!UsedSlots
  BY <1>1 DEF FS!FreeOpenSlots, FS!UsedSlots, FS!OpenSlots, FS!Slots
<1>3. FailureIsClean'
  BY <1>1, <1>2 DEF Effect, FailureIsClean, Tables
<1>4. CreateGivesNewFile'
  BY <1>1 DEF Effect, CreateGivesNewFile, FS!find_open_file, FS!Opened, FS!Least, FS!OpenSlots
<1>5. ASSUME NEW i \in FS!Slots, Created(i) PROVE Created(i)'
  BY <1>1, <1>5 DEF Created, FS!Slots, FS!Inode, FS!Offsets
<1>6. Tables' = Tables /\ FS!Slots' = FS!Slots
  BY <1>1 DEF Tables, FS!Slots
<1> QED
  BY <1>1, <1>3, <1>4, <1>5, <1>6 DEF Effect

\* Every step keeps what the calls may have done.
LEMMA NextEffect == EInv /\ [Next]_vars => Effect'
<1> SUFFICES ASSUME EInv, [Next]_vars PROVE Effect'
  OBVIOUS
<1>1. CASE Ecall
  BY <1>1, EcallTraps, TrapEffect
<1>2. CASE KernelStep
  BY <1>2, FirstStepEffect, WriteEffect, CopyPathEffect, CreateEffect, OpenEffect, ReadEffect,
     OtherEffect, ResumeEffect
  DEF KernelStep
<1>3. CASE \E c \in Keys : Key(c)
  BY <1>3, KeyEffect
<1>4. CASE Stopped \/ UNCHANGED vars
  BY <1>4, StutterEffect DEF Stopped, EInv
<1> QED
  BY <1>1, <1>2, <1>3, <1>4 DEF Next

-----------------------------------------------------------------------------
(* The theorems. *)

\* What the calls may have done holds in every reachable state.
THEOREM EffectCorrect == Spec => []EInv
<1>1. Init => EInv
  BY InitInv, InitEffect DEF EInv
<1>2. EInv /\ [Next]_vars => EInv'
  BY NextInv, NextEffect DEF EInv
<1> QED
  BY <1>1, <1>2, PTL DEF Spec

\* A call that returns -1 has changed no table, but that create leaves the new file
\* behind when every entry of the open files is taken (syscall.c:162-186).
THEOREM FailureIsCleanCorrect == Spec => []FailureIsClean
<1>1. EInv => FailureIsClean
  BY DEF EInv, Effect
<1> QED
  BY <1>1, EffectCorrect, PTL

\* A create that succeeds gives a handle, at the start, of an empty file that was not
\* there before (syscall.c:162-186).
THEOREM CreateGivesNewFileCorrect == Spec => []CreateGivesNewFile
<1>1. EInv => CreateGivesNewFile
  BY DEF EInv, Effect
<1> QED
  BY <1>1, EffectCorrect, PTL

-----------------------------------------------------------------------------
(* What is left of a line: the keys of s that are in S, between the i-th and the j-th, *)
(* and the printable ones that no later backspace has taken back.                      *)

CountIn(s, S, i, j) == Cardinality({k \in i + 1 .. j : s[k] \in S})

One(c, S) == IF c \in S THEN 1 ELSE 0

KeptOf(s) ==
    {i \in 1 .. Len(s) :
        /\ s[i] \in Printable
        /\ \A j \in i .. Len(s) : CountIn(s, {"Backspace"}, i, j) <= CountIn(s, Printable, i, j)}

Rank(S, i) == Cardinality({j \in S : j <= i})
Later(S, i) == Cardinality({j \in S : j > i})

\* Behind a key that is kept, every printable key is kept or taken back by a backspace.
Balanced(s) ==
    \A i \in KeptOf(s) :
        CountIn(s, Printable, i, Len(s)) = CountIn(s, {"Backspace"}, i, Len(s)) + Later(KeptOf(s), i)

\* One more key is counted where it is typed, and nowhere before.
LEMMA CountStep ==
    ASSUME NEW s \in Seq(Keys), NEW c \in Keys, NEW S, NEW i \in 1 .. Len(s)
    PROVE  /\ \A j \in i .. Len(s) : CountIn(Append(s, c), S, i, j) = CountIn(s, S, i, j)
           /\ CountIn(s, S, i, Len(s)) \in Nat
           /\ CountIn(Append(s, c), S, i, Len(s) + 1)
                = CountIn(s, S, i, Len(s)) + One(c, S)
<1> DEFINE n == Len(s)
           a == Append(s, c)
<1>1. n \in Nat /\ i \in Nat /\ i <= n /\ a[n + 1] = c /\ \A k \in 1 .. n : a[k] = s[k]
  OBVIOUS
<1> HIDE DEF n, a
<1>2. \A j \in i .. n : {k \in i + 1 .. j : a[k] \in S} = {k \in i + 1 .. j : s[k] \in S}
  <2> SUFFICES ASSUME NEW j \in i .. n, NEW k \in i + 1 .. j
               PROVE  a[k] = s[k]
    BY Zenon
  <2>1. k \in 1 .. n
    BY <1>1
  <2> QED
    BY <2>1, <1>1
<1> DEFINE U == {k \in i + 1 .. n : s[k] \in S}
<1>3. IsFiniteSet(U) /\ Cardinality(U) \in Nat
  <2>1. IsFiniteSet(i + 1 .. n)
    BY <1>1, FS_Interval
  <2>2. U \subseteq i + 1 .. n
    OBVIOUS
  <2> QED
    BY <2>1, <2>2, FS_Subset, FS_CardinalityType
<1>4. {k \in i + 1 .. n + 1 : a[k] \in S} = IF c \in S THEN U \cup {n + 1} ELSE U
  <2>1. i + 1 .. n + 1 = (i + 1 .. n) \cup {n + 1}
    BY <1>1
  <2>2. {k \in i + 1 .. n : a[k] \in S} = U
    BY <1>1, <1>2
  <2>3. {k \in i + 1 .. n + 1 : a[k] \in S}
          = {k \in i + 1 .. n : a[k] \in S} \cup {k \in {n + 1} : a[k] \in S}
    BY <2>1, Zenon
  <2> HIDE DEF U
  <2> QED
    BY <2>2, <2>3, <1>1
<1>5. n + 1 \notin U
  BY <1>1
<1>6. Cardinality(U \cup {n + 1}) = Cardinality(U) + 1
  <2> HIDE DEF U
  <2> QED
    BY <1>3, <1>5, FS_AddElement
<1> QED
  <2>1. \A j \in i .. n : CountIn(a, S, i, j) = CountIn(s, S, i, j)
    BY <1>2 DEF CountIn
  <2>2. CountIn(s, S, i, n) \in Nat
    BY <1>3 DEF CountIn
  <2>3. CountIn(a, S, i, n + 1) = CountIn(s, S, i, n) + One(c, S)
    <3>1. CountIn(s, S, i, n) = Cardinality(U)
      BY DEF CountIn
    <3> HIDE DEF U
    <3>2. CASE c \in S
      BY <3>1, <3>2, <1>4, <1>6 DEF CountIn, One
    <3>3. CASE c \notin S
      <4>1. CountIn(a, S, i, n + 1) = Cardinality(U)
        BY <3>3, <1>4 DEF CountIn
      <4>2. Cardinality(U) + 0 = Cardinality(U)
        BY <1>3
      <4> QED
        BY <3>1, <3>3, <4>1, <4>2 DEF One
    <3> QED
      BY <3>2, <3>3
  <2> QED
    BY <2>1, <2>2, <2>3 DEF n, a

\* Nothing is counted behind the last key.
LEMMA CountNone == \A s, S : \A i \in Nat : CountIn(s, S, i, i) = 0
<1> SUFFICES ASSUME NEW s, NEW S, NEW i \in Nat
             PROVE  CountIn(s, S, i, i) = 0
  OBVIOUS
<1>1. {k \in i + 1 .. i : s[k] \in S} = {}
  OBVIOUS
<1> QED
  BY <1>1, FS_EmptySet DEF CountIn

\* The keys kept are some of the keys.
LEMMA KeptFinite ==
    ASSUME NEW s \in Seq(Keys)
    PROVE  /\ KeptOf(s) \subseteq 1 .. Len(s) /\ IsFiniteSet(KeptOf(s))
           /\ Cardinality(KeptOf(s)) \in Nat
<1>1. KeptOf(s) \subseteq 1 .. Len(s) /\ 1 \in Int /\ Len(s) \in Int
  BY DEF KeptOf
<1> QED
  BY <1>1, FS_Interval, FS_Subset, FS_CardinalityType

\* Which keys are kept when one more is typed: i is one of the earlier ones.
LEMMA KeptStep ==
    ASSUME NEW s \in Seq(Keys), NEW c \in Keys, NEW i \in 1 .. Len(s)
    PROVE  i \in KeptOf(Append(s, c)) <=>
              /\ i \in KeptOf(s)
              /\ CountIn(s, {"Backspace"}, i, Len(s)) + One(c, {"Backspace"})
                   <= CountIn(s, Printable, i, Len(s)) + One(c, Printable)
<1> DEFINE n == Len(s)
           a == Append(s, c)
<1>1. /\ n \in Nat /\ Len(a) = n + 1 /\ a[i] = s[i] /\ i \in 1 .. n + 1
      /\ i .. n + 1 = (i .. n) \cup {n + 1}
  OBVIOUS
<1>2. /\ \A j \in i .. n : /\ CountIn(a, {"Backspace"}, i, j) = CountIn(s, {"Backspace"}, i, j)
                          /\ CountIn(a, Printable, i, j) = CountIn(s, Printable, i, j)
      /\ CountIn(a, {"Backspace"}, i, n + 1)
           = CountIn(s, {"Backspace"}, i, n) + One(c, {"Backspace"})
      /\ CountIn(a, Printable, i, n + 1) = CountIn(s, Printable, i, n) + One(c, Printable)
  BY CountStep
<1> HIDE DEF n, a
<1>3. i \in KeptOf(a) <=>
         /\ s[i] \in Printable
         /\ \A j \in i .. n : CountIn(a, {"Backspace"}, i, j) <= CountIn(a, Printable, i, j)
         /\ CountIn(a, {"Backspace"}, i, n + 1) <= CountIn(a, Printable, i, n + 1)
  BY <1>1 DEF KeptOf
<1>4. i \in KeptOf(s) <=>
         /\ s[i] \in Printable
         /\ \A j \in i .. n : CountIn(s, {"Backspace"}, i, j) <= CountIn(s, Printable, i, j)
  BY DEF KeptOf, n
<1>5. i \in KeptOf(a) <=>
         /\ i \in KeptOf(s)
         /\ CountIn(a, {"Backspace"}, i, n + 1) <= CountIn(a, Printable, i, n + 1)
  BY <1>2, <1>3, <1>4
<1> QED
  BY <1>2, <1>5 DEF n, a

\* The last key is kept if it is printable.
LEMMA KeptLast ==
    ASSUME NEW s \in Seq(Keys), NEW c \in Keys
    PROVE  Len(s) + 1 \in KeptOf(Append(s, c)) <=> c \in Printable
<1> DEFINE m == Len(s) + 1
           a == Append(s, c)
<1>1. m \in Nat /\ Len(a) = m /\ a[m] = c /\ m \in 1 .. m /\ m .. m = {m}
  OBVIOUS
<1> HIDE DEF m, a
<1>2. CountIn(a, {"Backspace"}, m, m) = 0 /\ CountIn(a, Printable, m, m) = 0
  BY <1>1, CountNone
<1> QED
  BY <1>1, <1>2 DEF KeptOf, m, a

\* A kept key has the others before or behind it.
LEMMA RankFacts ==
    ASSUME NEW s \in Seq(Keys), NEW i \in KeptOf(s), NEW m, m > Len(s), m \in Nat
    PROVE  /\ Rank(KeptOf(s), i) \in 1 .. Cardinality(KeptOf(s))
           /\ Later(KeptOf(s), i) \in Nat
           /\ Rank(KeptOf(s) \cup {m}, i) = Rank(KeptOf(s), i)
           /\ Rank(KeptOf(s) \cup {m}, m) = Cardinality(KeptOf(s)) + 1
           /\ Later(KeptOf(s) \cup {m}, i) = Later(KeptOf(s), i) + 1
           /\ Later(KeptOf(s) \cup {m}, m) = 0
<1> DEFINE K == KeptOf(s)
           L == {j \in K : j <= i}
           H == {j \in K : j > i}
<1>1. /\ K \subseteq Nat /\ i \in K /\ i \in Nat /\ \A j \in K : j < m
      /\ IsFiniteSet(K) /\ Cardinality(K) \in Nat
  BY KeptFinite
<1> HIDE DEF K
<1>2. /\ L \subseteq K /\ H \subseteq K /\ i \in L /\ m \notin K /\ m \notin H
      /\ {j \in K \cup {m} : j <= i} = L
      /\ {j \in K \cup {m} : j <= m} = K \cup {m}
      /\ {j \in K \cup {m} : j > i} = H \cup {m}
      /\ {j \in K \cup {m} : j > m} = {}
  <2>1. \A j \in K : j \in Nat /\ j < m /\ j <= m /\ ~(j > m) /\ j # m
    BY <1>1
  <2>2. m > i /\ ~(m <= i) /\ m <= m /\ ~(m > m) /\ i <= i
    BY <1>1
  <2>3. {j \in K \cup {m} : j <= i} = L
    BY <2>2
  <2>4. {j \in K \cup {m} : j <= m} = K \cup {m}
    BY <2>1, <2>2
  <2>5. {j \in K \cup {m} : j > i} = H \cup {m}
    BY <2>2
  <2>6. {j \in K \cup {m} : j > m} = {}
    BY <2>1, <2>2
  <2>7. L \subseteq K /\ H \subseteq K /\ i \in L /\ m \notin K /\ m \notin H
    BY <1>1, <2>1, <2>2
  <2> QED
    BY <2>3, <2>4, <2>5, <2>6, <2>7
<1> HIDE DEF L, H
<1>3. /\ IsFiniteSet(L) /\ Cardinality(L) \in Nat /\ Cardinality(L) <= Cardinality(K)
      /\ IsFiniteSet(H) /\ Cardinality(H) \in Nat
  BY <1>1, <1>2, FS_Subset, FS_CardinalityType
<1>4. Cardinality(L) # 0
  BY <1>2, <1>3, FS_EmptySet
<1>5. Cardinality(K \cup {m}) = Cardinality(K) + 1 /\ Cardinality(H \cup {m}) = Cardinality(H) + 1
  BY <1>1, <1>2, <1>3, FS_AddElement
<1>6. Cardinality({}) = 0
  BY FS_EmptySet
<1>7. /\ Rank(K, i) = Cardinality(L) /\ Later(K, i) = Cardinality(H)
      /\ Rank(K \cup {m}, i) = Cardinality(L) /\ Rank(K \cup {m}, m) = Cardinality(K \cup {m})
      /\ Later(K \cup {m}, i) = Cardinality(H \cup {m}) /\ Later(K \cup {m}, m) = Cardinality({})
  BY <1>2 DEF Rank, Later, L, H
<1>8. Cardinality(L) \in 1 .. Cardinality(K)
  BY <1>1, <1>3, <1>4
<1> QED
  BY <1>3, <1>5, <1>6, <1>7, <1>8 DEF K

\* A printable key is kept, and the others stay.
LEMMA PrintableTyped ==
    ASSUME NEW s \in Seq(Keys), NEW c \in Printable, Balanced(s)
    PROVE  /\ KeptOf(Append(s, c)) = KeptOf(s) \cup {Len(s) + 1}
           /\ Balanced(Append(s, c))
<1> DEFINE n == Len(s)
           a == Append(s, c)
           K == KeptOf(s)
<1>1. /\ c \in Keys /\ c # "Backspace" /\ c \notin {"Backspace"}
      /\ n \in Nat /\ n + 1 \in Nat /\ n + 1 > n /\ Len(a) = n + 1 /\ a \in Seq(Keys)
      /\ 1 .. n + 1 = (1 .. n) \cup {n + 1}
  BY InputsAssumption DEF Keys
<1>2. K \subseteq 1 .. n /\ KeptOf(a) \subseteq 1 .. n + 1
  BY <1>1, KeptFinite
<1>3. \A i \in K : /\ CountIn(s, {"Backspace"}, i, n) \in Nat /\ CountIn(s, Printable, i, n) \in Nat
                   /\ Later(K, i) \in Nat
                   /\ CountIn(s, Printable, i, n) = CountIn(s, {"Backspace"}, i, n) + Later(K, i)
  <2> SUFFICES ASSUME NEW i \in K
               PROVE  /\ CountIn(s, {"Backspace"}, i, n) \in Nat /\ CountIn(s, Printable, i, n) \in Nat
                      /\ Later(K, i) \in Nat
                      /\ CountIn(s, Printable, i, n) = CountIn(s, {"Backspace"}, i, n) + Later(K, i)
    OBVIOUS
  <2>1. CountIn(s, {"Backspace"}, i, n) \in Nat /\ CountIn(s, Printable, i, n) \in Nat
    BY <1>1, <1>2, CountStep DEF One
  <2>2. Later(K, i) \in Nat
    BY <1>1, RankFacts
  <2> QED
    BY <2>1, <2>2 DEF Balanced
<1>4. KeptOf(a) = K \cup {n + 1}
  <2>1. n + 1 \in KeptOf(a)
    BY <1>1, KeptLast
  <2>2. ASSUME NEW i \in 1 .. n
        PROVE  i \in KeptOf(a) <=> i \in K
    <3>1. i \in KeptOf(a) <=>
             /\ i \in K
             /\ CountIn(s, {"Backspace"}, i, n) + 0 <= CountIn(s, Printable, i, n) + 1
      BY <1>1, KeptStep DEF One
    <3>2. i \in K => CountIn(s, {"Backspace"}, i, n) + 0 <= CountIn(s, Printable, i, n) + 1
      <4> HIDE DEF K
      <4> QED
        BY <1>3
    <3> QED
      BY <3>1, <3>2
  <2> HIDE DEF a, K, n
  <2> QED
    BY <1>1, <1>2, <2>1, <2>2
<1>5. ASSUME NEW i \in KeptOf(a)
      PROVE  CountIn(a, Printable, i, n + 1)
               = CountIn(a, {"Backspace"}, i, n + 1) + Later(KeptOf(a), i)
  <2>1. CASE i \in K
    <3>1. /\ CountIn(a, Printable, i, n + 1) = CountIn(s, Printable, i, n) + 1
          /\ CountIn(a, {"Backspace"}, i, n + 1) = CountIn(s, {"Backspace"}, i, n) + 0
      BY <2>1, <1>1, <1>2, CountStep DEF One
    <3>2. Later(KeptOf(a), i) = Later(K, i) + 1
      <4>1. Later(KeptOf(s) \cup {n + 1}, i) = Later(KeptOf(s), i) + 1
        BY <2>1, <1>1, RankFacts
      <4> QED
        BY <4>1, <1>4
    <3> HIDE DEF K, a, n
    <3> QED
      BY <2>1, <3>1, <3>2, <1>3
  <2>2. CASE i = n + 1
    <3>1. CountIn(a, Printable, i, n + 1) = 0 /\ CountIn(a, {"Backspace"}, i, n + 1) = 0
      BY <2>2, <1>1, CountNone
    <3>2. Later(KeptOf(a), i) = 0
      <4>1. {j \in K \cup {n + 1} : j > n + 1} = {}
        <5> HIDE DEF K, n
        <5>1. \A j \in K \cup {n + 1} : ~(j > n + 1)
          BY <1>1, <1>2
        <5> QED
          BY <5>1
      <4> QED
        BY <2>2, <4>1, <1>4, FS_EmptySet DEF Later
    <3> QED
      BY <3>1, <3>2
  <2> QED
    BY <2>1, <2>2, <1>4
<1> QED
  BY <1>1, <1>4, <1>5 DEF Balanced

\* A key that is neither printable nor a backspace changes nothing.
LEMMA OtherTyped ==
    ASSUME NEW s \in Seq(Keys), NEW c \in Keys, c \notin Printable, c # "Backspace", Balanced(s)
    PROVE  KeptOf(Append(s, c)) = KeptOf(s) /\ Balanced(Append(s, c))
<1> DEFINE n == Len(s)
           a == Append(s, c)
           K == KeptOf(s)
<1>1. /\ c \notin {"Backspace"}
      /\ n \in Nat /\ Len(a) = n + 1 /\ a \in Seq(Keys) /\ 1 .. n + 1 = (1 .. n) \cup {n + 1}
  OBVIOUS
<1>2. K \subseteq 1 .. n /\ KeptOf(a) \subseteq 1 .. n + 1
  BY <1>1, KeptFinite
<1>3. \A i \in 1 .. n : /\ CountIn(s, {"Backspace"}, i, n) \in Nat /\ CountIn(s, Printable, i, n) \in Nat
                        /\ i \in K => CountIn(s, {"Backspace"}, i, n) <= CountIn(s, Printable, i, n)
  <2> SUFFICES ASSUME NEW i \in 1 .. n
               PROVE  /\ CountIn(s, {"Backspace"}, i, n) \in Nat /\ CountIn(s, Printable, i, n) \in Nat
                      /\ i \in K => CountIn(s, {"Backspace"}, i, n) <= CountIn(s, Printable, i, n)
    OBVIOUS
  <2>1. n \in i .. n
    BY <1>1
  <2>2. CountIn(s, {"Backspace"}, i, n) \in Nat /\ CountIn(s, Printable, i, n) \in Nat
    BY CountStep
  <2> QED
    BY <2>1, <2>2 DEF KeptOf
<1>4. KeptOf(a) = K
  <2>1. n + 1 \notin KeptOf(a)
    BY <1>1, KeptLast
  <2>2. ASSUME NEW i \in 1 .. n
        PROVE  i \in KeptOf(a) <=> i \in K
    <3>1. i \in KeptOf(a) <=>
             /\ i \in K
             /\ CountIn(s, {"Backspace"}, i, n) + 0 <= CountIn(s, Printable, i, n) + 0
      BY <1>1, KeptStep DEF One
    <3> HIDE DEF K
    <3> QED
      BY <3>1, <1>3
  <2> HIDE DEF a, K, n
  <2> QED
    BY <1>1, <1>2, <2>1, <2>2
<1>5. ASSUME NEW i \in K
      PROVE  CountIn(a, Printable, i, n + 1) = CountIn(a, {"Backspace"}, i, n + 1) + Later(K, i)
  <2>1. /\ CountIn(a, Printable, i, n + 1) = CountIn(s, Printable, i, n) + 0
        /\ CountIn(a, {"Backspace"}, i, n + 1) = CountIn(s, {"Backspace"}, i, n) + 0
    BY <1>1, <1>2, CountStep DEF One
  <2>2. CountIn(s, Printable, i, n) = CountIn(s, {"Backspace"}, i, n) + Later(K, i)
    BY DEF Balanced
  <2>3. i \in 1 .. n
    BY <1>2
  <2> HIDE DEF K, a, n
  <2> QED
    BY <2>1, <2>2, <2>3, <1>3
<1> QED
  BY <1>1, <1>4, <1>5 DEF Balanced

\* A set of indices that is not empty has a last one.
LEMMA LastOf ==
    ASSUME NEW n \in Nat, NEW S \in SUBSET (1 .. n), S # {}
    PROVE  \E m \in S : \A i \in S : i <= m
<1> DEFINE Below == {ss \in Nat \X Nat : ss[1] < ss[2]}
           U == {n - i : i \in S}
<1>1. IsWellFoundedOn(Below, Nat)
  BY NatLessThanWellFounded, Zenon DEF OpToRel
<1>2. U \in SUBSET Nat /\ U # {}
  <2>1. \A i \in S : i \in 1 .. n /\ n - i \in Nat
    OBVIOUS
  <2>2. PICK i \in S : TRUE
    OBVIOUS
  <2>3. n - i \in U
    BY <2>2
  <2>4. \A t \in U : t \in Nat
    BY <2>1
  <2> QED
    BY <2>3, <2>4
<1>3. PICK t \in U : \A u \in U : ~(<<u, t>> \in Below)
  <2> HIDE DEF Below, U
  <2> QED
    BY <1>1, <1>2, WFMin
<1>4. PICK m \in S : t = n - m
  OBVIOUS
<1>5. ASSUME NEW i \in S
      PROVE  i <= m
  <2>1. n - i \in U /\ n - i \in Nat /\ t \in Nat
    BY <1>2
  <2>2. ~(n - i < t)
    BY <2>1, <1>3
  <2> QED
    BY <2>2, <1>4
<1> QED
  BY <1>5

\* A backspace takes back the last key that is kept.
LEMMA BackspaceTyped ==
    ASSUME NEW s \in Seq(Keys), Balanced(s), NEW m \in KeptOf(s), \A i \in KeptOf(s) : i <= m
    PROVE  KeptOf(Append(s, "Backspace")) = KeptOf(s) \ {m} /\ Balanced(Append(s, "Backspace"))
<1> DEFINE n == Len(s)
           c == "Backspace"
           a == Append(s, c)
           K == KeptOf(s)
<1>1. /\ c \in Keys /\ c \notin Printable /\ c \in {"Backspace"}
      /\ n \in Nat /\ n + 1 \in Nat /\ n + 1 > n /\ Len(a) = n + 1 /\ a \in Seq(Keys)
      /\ 1 .. n + 1 = (1 .. n) \cup {n + 1}
  BY InputsAssumption DEF Keys
<1>2. /\ K \subseteq 1 .. n /\ KeptOf(a) \subseteq 1 .. n + 1 /\ K \subseteq Nat
      /\ IsFiniteSet(K) /\ m \in K
  <2>1. K \subseteq 1 .. n /\ IsFiniteSet(K)
    BY KeptFinite
  <2>2. KeptOf(a) \subseteq 1 .. n + 1
    BY <1>1, KeptFinite
  <2> QED
    BY <2>1, <2>2
<1>3. \A i \in K : /\ CountIn(s, {"Backspace"}, i, n) \in Nat /\ CountIn(s, Printable, i, n) \in Nat
                   /\ Later(K, i) \in Nat
                   /\ CountIn(s, Printable, i, n) = CountIn(s, {"Backspace"}, i, n) + Later(K, i)
  <2> SUFFICES ASSUME NEW i \in K
               PROVE  /\ CountIn(s, {"Backspace"}, i, n) \in Nat /\ CountIn(s, Printable, i, n) \in Nat
                      /\ Later(K, i) \in Nat
                      /\ CountIn(s, Printable, i, n) = CountIn(s, {"Backspace"}, i, n) + Later(K, i)
    OBVIOUS
  <2>1. CountIn(s, {"Backspace"}, i, n) \in Nat /\ CountIn(s, Printable, i, n) \in Nat
    BY <1>1, <1>2, CountStep DEF One
  <2>2. Later(K, i) \in Nat
    BY <1>1, RankFacts
  <2> QED
    BY <2>1, <2>2 DEF Balanced
<1>4. \A i \in K \ {m} : Later(K, i) # 0 /\ Later(K \ {m}, i) = Later(K, i) - 1
  <2> SUFFICES ASSUME NEW i \in K \ {m}
               PROVE  Later(K, i) # 0 /\ Later(K \ {m}, i) = Later(K, i) - 1
    OBVIOUS
  <2> DEFINE H == {j \in K : j > i}
  <2>1. m \in H /\ H \subseteq K /\ {j \in K \ {m} : j > i} = H \ {m}
    <3> HIDE DEF K
    <3>1. i <= m /\ i # m /\ i \in Nat /\ m \in Nat
      BY <1>2 DEF K
    <3> QED
      BY <3>1, <1>2
  <2>2. Later(K, i) = Cardinality(H) /\ Later(K \ {m}, i) = Cardinality(H \ {m})
    BY <2>1 DEF Later
  <2> HIDE DEF H, K
  <2>3. IsFiniteSet(H)
    BY <2>1, <1>2, FS_Subset
  <2> QED
    BY <2>1, <2>2, <2>3, FS_RemoveElement, FS_EmptySet
<1>5. Later(K, m) = 0
  <2>1. {j \in K : j > m} = {}
    BY <1>2
  <2> QED
    BY <2>1, FS_EmptySet DEF Later
<1>6. KeptOf(a) = K \ {m}
  <2>1. n + 1 \notin KeptOf(a)
    BY <1>1, KeptLast
  <2>2. ASSUME NEW i \in 1 .. n
        PROVE  i \in KeptOf(a) <=> i \in K \ {m}
    <3>1. i \in KeptOf(a) <=>
             /\ i \in K
             /\ CountIn(s, {"Backspace"}, i, n) + 1 <= CountIn(s, Printable, i, n) + 0
      BY <1>1, KeptStep DEF One
    <3> HIDE DEF K, a, n
    <3>2. CASE i \in K \ {m}
      BY <3>1, <3>2, <1>3, <1>4
    <3>3. CASE i = m
      BY <3>1, <3>3, <1>2, <1>3, <1>5
    <3> QED
      BY <3>1, <3>2, <3>3
  <2> HIDE DEF a, K, n
  <2> QED
    BY <1>1, <1>2, <2>1, <2>2
<1>7. ASSUME NEW i \in K \ {m}
      PROVE  CountIn(a, Printable, i, n + 1) = CountIn(a, {"Backspace"}, i, n + 1) + Later(K \ {m}, i)
  <2>1. /\ CountIn(a, Printable, i, n + 1) = CountIn(s, Printable, i, n) + 0
        /\ CountIn(a, {"Backspace"}, i, n + 1) = CountIn(s, {"Backspace"}, i, n) + 1
    BY <1>1, <1>2, CountStep DEF One
  <2> HIDE DEF K, a, n
  <2>2. /\ CountIn(s, {"Backspace"}, i, n) \in Nat /\ Later(K, i) \in Nat
        /\ CountIn(s, Printable, i, n) = CountIn(s, {"Backspace"}, i, n) + Later(K, i)
        /\ Later(K \ {m}, i) = Later(K, i) - 1
    BY <1>3, <1>4
  <2> DEFINE b == CountIn(s, {"Backspace"}, i, n)
             l == Later(K, i)
  <2>3. b + l + 0 = b + 1 + (l - 1)
    BY <2>2
  <2> QED
    BY <2>1, <2>2, <2>3
<1> QED
  BY <1>1, <1>6, <1>7 DEF Balanced

-----------------------------------------------------------------------------
(* The line that is read. *)

\* The buffer holds what is kept of the keys, as far as there is room.
LineHeld ==
    /\ count = FS!Smaller(Cardinality(KeptOf(typed)), call.length)
    /\ \A i \in KeptOf(typed) :
          Rank(KeptOf(typed), i) <= count => line[Rank(KeptOf(typed), i)] = typed[i]

\* While a line is read, no key that is kept is missing in the buffer.
LineRead ==
    /\ Balanced(typed)
    /\ Cardinality(KeptOf(typed)) = count
    /\ \A i \in KeptOf(typed) : line[Rank(KeptOf(typed), i)] = typed[i]

Line ==
    /\ pc \notin {"line", "resume"} => typed = <<>>
    /\ pc = "read" => call.fd.low # 0
    /\ pc = "line" => LineRead
    /\ pc = "resume" /\ call.number = "read" /\ call.fd.low = 0 /\ result.value # -1 =>
          result.value = count /\ LineHeld

LInv == EInv /\ Line

\* The keys kept are those of the whole line.
LEMMA KeptIs == Kept = KeptOf(typed)
  BY DEF Kept, KeptOf, Between, CountIn

\* A buffer with room for all that is kept holds it.
LEMMA AllHeld ==
    ASSUME LineRead, count \in Nat, call.length \in Nat, count <= call.length
    PROVE  LineHeld
  BY DEF LineRead, LineHeld, FS!Smaller

\* A step in which no line is read, and that returns no line.
LEMMA NoLineStep ==
    ASSUME Line, pc # "resume", pc # "line", typed' = typed, pc' # "line",
           pc' = "read" => call'.fd.low # 0,
           pc' = "resume" => call'.number # "read" \/ call'.fd.low # 0 \/ result'.value = -1
    PROVE  Line'
  BY DEF Line

\* Of no key nothing is kept.
LEMMA NothingTyped == KeptOf(<<>>) = {} /\ Balanced(<<>>)
  BY DEF KeptOf, Balanced

\* No key is stored before the first is typed.
LEMMA FirstStepLine == ASSUME LInv, Trap \/ SysWrite \/ SysPath \/ SysRead PROVE Line'
<1>1. /\ pc # "resume" /\ pc # "line" /\ typed' = typed /\ Line /\ typed = <<>> /\ count = 0
  BY DEF LInv, Line, EInv, Inv, Checked, Trap, SysWrite, SysPath, SysRead, Called, Refuse,
     OpenUserMemory, stdin
<1>2. CASE Trap
  BY <1>1, <1>2, NoLineStep DEF Trap
<1>3. CASE Refuse
  BY <1>1, <1>3, NoLineStep DEF Refuse, Give
<1>4. CASE OpenUserMemory("write") \/ OpenUserMemory("path")
  BY <1>1, <1>4, NoLineStep DEF OpenUserMemory
<1>5. CASE OpenUserMemory("read") /\ call.fd.low # 0
  BY <1>1, <1>5, NoLineStep DEF OpenUserMemory
<1>6. CASE OpenUserMemory("line") /\ UNCHANGED stdin
  <2>1. pc' = "line" /\ typed' = <<>> /\ count' = 0
    BY <1>1, <1>6 DEF OpenUserMemory, stdin
  <2>2. LineRead'
    BY <2>1, NothingTyped, FS_EmptySet DEF LineRead
  <2> QED
    BY <2>1, <2>2 DEF Line
<1> QED
  BY <1>2, <1>3, <1>4, <1>5, <1>6 DEF SysWrite, SysPath, SysRead

\* The other steps of a call.
LEMMA MiddleStepLine ==
    ASSUME LInv, Write \/ CopyPath \/ Create \/ Open \/ Read \/ SysGetpid \/ SysClose \/ Stop
    PROVE  Line'
<1>1. /\ pc # "resume" /\ pc # "line" /\ typed' = typed /\ call' = call /\ Line
  BY DEF LInv, Write, CopyPath, Create, Open, Read, SysGetpid, SysClose, Stop, Called, stdin
<1>2. CASE CopyPath
  <2>1. pc' \in {"open", "create"} \/ (pc' = "resume" /\ result'.value = -1)
    BY <1>2 DEF CopyPath, Give, LInv, EInv, Inv, Checked
  <2> QED
    BY <1>1, <2>1, NoLineStep
<1>3. CASE Read
  BY <1>1, <1>3, NoLineStep DEF Read, Line
<1>4. CASE Write \/ Create \/ Open \/ SysGetpid \/ SysClose
  <2>1. call.number # "read" /\ pc' \in {"resume", "open"}
    BY <1>4 DEF Write, Create, Open, SysGetpid, SysClose, Called, LInv, EInv, Effect
  <2> QED
    BY <1>1, <2>1, NoLineStep
<1>5. CASE Stop
  BY <1>1, <1>5, NoLineStep DEF Stop
<1> QED
  BY <1>2, <1>3, <1>4, <1>5

\* The line is not touched on the way back.
LEMMA ResumeLine == ASSUME LInv, Resume PROVE Line'
  BY DEF Resume, Line

\* A step in which nothing changes keeps it.
LEMMA StutterLine == ASSUME Line, UNCHANGED vars PROVE Line'
<1>1. UNCHANGED <<pc, call, result, line, count, typed>>
  BY DEF vars, stdin
<1>2. LineRead' <=> LineRead
  BY <1>1 DEF LineRead, Balanced, KeptOf, CountIn, Rank, Later
<1>3. LineHeld' <=> LineHeld
  BY <1>1 DEF LineHeld, KeptOf, CountIn, Rank, FS!Smaller
<1> QED
  BY <1>1, <1>2, <1>3 DEF Line

\* A key of the line.
LEMMA KeyLine == ASSUME LInv, NEW c \in Keys, Key(c) PROVE Line'
<1> DEFINE K == KeptOf(typed)
           n == Len(typed)
<1>1. /\ pc = "line" /\ call' = call /\ typed \in Seq(Keys) /\ LineRead
      /\ call.length \in Nat /\ call.length <= MAX_LENGTH /\ count \in Nat /\ count <= call.length
      /\ line \in [1 .. MAX_LENGTH -> Printable \cup {Blank}]
      /\ typed' = IF c \in LineEnds THEN typed ELSE Append(typed, c)
      /\ MAX_LENGTH \in Nat
  BY LimitsAssumption DEF LInv, Line, EInv, Inv, TypeOK, Checked, Frame, Key
<1>2. /\ Balanced(typed) /\ Cardinality(K) = count
      /\ \A i \in K : line[Rank(K, i)] = typed[i]
  BY <1>1 DEF LineRead
<1>3. /\ K \subseteq 1 .. n /\ IsFiniteSet(K) /\ n \in Nat /\ n + 1 \in Nat /\ n + 1 > n
      /\ \A k \in 1 .. n : Append(typed, c)[k] = typed[k]
      /\ Append(typed, c)[n + 1] = c
  BY <1>1, KeptFinite
<1> DEFINE Unchanged == UNCHANGED <<line, count, fault>> /\ GoOn
<1>8. /\ c \in LineEnds => EndLine
      /\ c = "Backspace" => Erase /\ c \notin LineEnds
      /\ c \in Printable => Store(c) /\ c \notin LineEnds
      /\ c \notin LineEnds /\ c # "Backspace" /\ c \notin Printable => Unchanged
  <2>1. /\ c \in LineEnds => c # "Backspace" /\ c \notin Printable
        /\ c = "Backspace" => c \notin Printable
    BY InputsAssumption DEF LineEnds
  <2>2. CASE c \in LineEnds
    BY <2>1, <2>2 DEF Key
  <2>3. CASE c = "Backspace"
    BY <2>1, <2>3 DEF Key
  <2>4. CASE c \in Printable
    BY <2>1, <2>4 DEF Key
  <2>5. CASE c \notin LineEnds /\ c # "Backspace" /\ c \notin Printable
    BY <2>5 DEF Key
  <2> QED
    BY <2>1, <2>2, <2>3, <2>4, <2>5
<1>4. CASE c \in LineEnds
  <2>1. /\ pc' = "resume" /\ typed' = typed /\ line' = line /\ count' = count
        /\ result'.value = count
    BY <1>1, <1>4, <1>8 DEF EndLine, Give
  <2>2. LineHeld'
    <3>1. LineHeld
      BY <1>1, AllHeld
    <3>2. KeptOf(typed') = KeptOf(typed)
      BY <2>1
    <3> QED
      BY <3>1, <3>2, <2>1, <1>1 DEF LineHeld
  <2> QED
    BY <2>1, <2>2 DEF Line
<1>5. CASE c = "Backspace"
  <2>1. /\ pc' = "line" /\ line' = line /\ count' = IF count > 0 THEN count - 1 ELSE count
        /\ typed' = Append(typed, c)
    BY <1>1, <1>5, <1>8 DEF Erase, GoOn
  <2>2. CASE K = {}
    <3>1. count = 0 /\ count' = 0
      BY <2>1, <2>2, <1>2, FS_EmptySet
    <3>2. KeptOf(typed') = {}
      <4>1. ASSUME NEW i \in KeptOf(typed') PROVE FALSE
        <5>1. i \in 1 .. n \/ i = n + 1
          BY <2>1, <1>1, <1>3 DEF KeptOf
        <5>2. i # n + 1
          BY <4>1, <2>1, <1>1, <1>5, KeptLast, InputsAssumption
        <5>3. i \in K
          BY <4>1, <5>1, <5>2, <2>1, <1>1, KeptStep
        <5> QED
          BY <5>3, <2>2
      <4> QED
        BY <4>1
    <3>3. LineRead'
      BY <3>1, <3>2, FS_EmptySet DEF LineRead, Balanced
    <3> QED
      BY <2>1, <3>3 DEF Line
  <2>3. CASE K # {}
    <3>1. PICK m \in K : \A i \in K : i <= m
      <4> HIDE DEF K, n
      <4> QED
        BY <2>3, <1>3, LastOf
    <3>2. KeptOf(typed') = K \ {m} /\ Balanced(typed')
      BY <3>1, <2>1, <1>1, <1>2, <1>5, BackspaceTyped
    <3>3. count # 0 /\ Cardinality(K \ {m}) = count - 1 /\ count' = count - 1
      <4>1. Cardinality(K) # 0 /\ Cardinality(K \ {m}) = Cardinality(K) - 1
        <5> HIDE DEF K
        <5> QED
          BY <3>1, <1>3, <2>3, FS_RemoveElement, FS_EmptySet
      <4> QED
        BY <4>1, <2>1, <1>1, <1>2
    <3>4. \A i \in K \ {m} : Rank(K \ {m}, i) = Rank(K, i) /\ typed'[i] = typed[i]
      <4> SUFFICES ASSUME NEW i \in K \ {m}
                   PROVE  Rank(K \ {m}, i) = Rank(K, i) /\ typed'[i] = typed[i]
        OBVIOUS
      <4>1. i \in 1 .. n /\ i \in Nat /\ m \in Nat /\ i <= m /\ i # m
        BY <3>1, <1>3
      <4>2. {j \in K \ {m} : j <= i} = {j \in K : j <= i}
        <5> HIDE DEF K
        <5> QED
          BY <4>1
      <4> QED
        BY <4>1, <4>2, <2>1, <1>3 DEF Rank
    <3>5. LineRead'
      <4> HIDE DEF K
      <4> QED
        BY <3>2, <3>3, <3>4, <2>1, <1>2 DEF LineRead
    <3> QED
      BY <2>1, <3>5 DEF Line
  <2> QED
    BY <2>2, <2>3
<1>6. CASE c \in Printable
  <2>1. Store(c) /\ typed' = Append(typed, c)
    BY <1>1, <1>6, <1>8
  <2>2. KeptOf(typed') = K \cup {n + 1} /\ Balanced(typed')
    BY <2>1, <1>1, <1>2, <1>6, PrintableTyped
  <2>3. Cardinality(K \cup {n + 1}) = count + 1
    <3>1. n + 1 \notin K
      <4> HIDE DEF K, n
      <4> QED
        BY <1>3
    <3> HIDE DEF K, n
    <3> QED
      BY <3>1, <1>2, <1>3, FS_AddElement
  <2>4. \A i \in K : /\ Rank(K, i) \in 1 .. count /\ Rank(K \cup {n + 1}, i) = Rank(K, i)
                     /\ typed'[i] = typed[i]
    <3> SUFFICES ASSUME NEW i \in K
                 PROVE  /\ Rank(K, i) \in 1 .. count /\ Rank(K \cup {n + 1}, i) = Rank(K, i)
                        /\ typed'[i] = typed[i]
      OBVIOUS
    <3>1. Rank(K, i) \in 1 .. count /\ Rank(K \cup {n + 1}, i) = Rank(K, i)
      BY <1>1, <1>2, <1>3, RankFacts
    <3> QED
      BY <3>1, <2>1, <1>3
  <2>5. Rank(K \cup {n + 1}, n + 1) = count + 1
    <3>1. {j \in K \cup {n + 1} : j <= n + 1} = K \cup {n + 1}
      <4> HIDE DEF K, n
      <4>1. ASSUME NEW j \in K \cup {n + 1}
            PROVE  j <= n + 1
        <5>1. CASE j \in K
          <6>1. j \in 1 .. n /\ n \in Nat
            BY <5>1, <1>3
          <6> QED
            BY <6>1
        <5>2. CASE j = n + 1
          BY <5>2, <1>3
        <5> QED
          BY <5>1, <5>2
      <4> QED
        BY <4>1
    <3> QED
      BY <3>1, <2>3 DEF Rank
  <2>6. typed'[n + 1] = c
    BY <2>1, <1>3
  <2> HIDE DEF K, n
  <2>7. CASE count >= call.length
    <3>1. /\ count = call.length /\ pc' = "resume" /\ line' = line /\ count' = count
          /\ result'.value = count
      BY <2>1, <2>7, <1>1 DEF Store, EndLine, Give
    <3>2. count' = FS!Smaller(Cardinality(KeptOf(typed')), call'.length)
      BY <3>1, <2>2, <2>3, <1>1 DEF FS!Smaller
    <3>3. ASSUME NEW i \in KeptOf(typed'), Rank(KeptOf(typed'), i) <= count'
          PROVE  line'[Rank(KeptOf(typed'), i)] = typed'[i]
      <4>1. i # n + 1
        BY <3>1, <3>3, <2>2, <2>5, <1>1
      <4> QED
        BY <4>1, <3>1, <2>2, <2>4, <1>2
    <3>4. LineHeld'
      BY <3>2, <3>3 DEF LineHeld
    <3> QED
      BY <3>1, <3>4 DEF Line
  <2>8. CASE ~(count >= call.length)
    <3>1. /\ line' = [line EXCEPT ![count + 1] = c] /\ count' = count + 1 /\ pc' = "line"
          /\ count + 1 \in 1 .. MAX_LENGTH
      BY <2>1, <2>8, <1>1 DEF Store, GoOn
    <3>2. line'[count + 1] = c /\ \A k \in 1 .. count : line'[k] = line[k]
      BY <3>1, <1>1
    <3>3. ASSUME NEW i \in KeptOf(typed')
          PROVE  line'[Rank(KeptOf(typed'), i)] = typed'[i]
      <4>1. CASE i = n + 1
        BY <4>1, <3>2, <2>2, <2>5, <2>6
      <4>2. CASE i \in K
        BY <4>2, <3>2, <2>2, <2>4, <1>2
      <4> QED
        BY <4>1, <4>2, <2>2
    <3>4. LineRead'
      BY <3>1, <3>3, <2>2, <2>3 DEF LineRead
    <3> QED
      BY <3>1, <3>4 DEF Line
  <2> QED
    BY <2>7, <2>8
<1>7. CASE c \notin LineEnds /\ c # "Backspace" /\ c \notin Printable
  <2>1. /\ pc' = "line" /\ line' = line /\ count' = count /\ typed' = Append(typed, c)
    BY <1>1, <1>7, <1>8 DEF GoOn
  <2>2. KeptOf(typed') = K /\ Balanced(typed')
    BY <2>1, <1>1, <1>2, <1>7, OtherTyped
  <2>3. \A i \in K : typed'[i] = typed[i]
    BY <2>1, <1>3
  <2>4. LineRead'
    <3> HIDE DEF K
    <3> QED
      BY <2>1, <2>2, <2>3, <1>2 DEF LineRead
  <2> QED
    BY <2>1, <2>4 DEF Line
<1> QED
  BY <1>4, <1>5, <1>6, <1>7

\* Every step keeps what the buffer holds.
LEMMA NextLine == LInv /\ [Next]_vars => Line'
<1> SUFFICES ASSUME LInv, [Next]_vars PROVE Line'
  OBVIOUS
<1>1. CASE Ecall
  BY <1>1, EcallTraps, FirstStepLine
<1>2. CASE KernelStep
  BY <1>2, FirstStepLine, MiddleStepLine, ResumeLine DEF KernelStep
<1>3. CASE \E c \in Keys : Key(c)
  BY <1>3, KeyLine
<1>4. CASE Stopped \/ UNCHANGED vars
  BY <1>4, StutterLine DEF Stopped, LInv
<1> QED
  BY <1>1, <1>2, <1>3, <1>4 DEF Next

\* What the buffer holds, in every reachable state.
THEOREM LineInvariant == Spec => []LInv
<1>1. Init => LInv
  BY InitInv, InitEffect DEF LInv, EInv, Init, Line
<1>2. LInv /\ [Next]_vars => LInv'
  BY NextInv, NextEffect, NextLine DEF LInv, EInv
<1> QED
  BY <1>1, <1>2, PTL DEF Spec

\* What the buffer holds is what was typed.
LEMMA HeldIsTyped == LInv => LineIsWhatWasTyped
<1> SUFFICES ASSUME LInv,
                    \/ pc = "line"
                    \/ pc = "resume" /\ call.number = "read" /\ call.fd.low = 0 /\ result.value # -1
             PROVE  (pc = "resume" => result.value = count) /\ LineHeld
  BY KeptIs DEF LineIsWhatWasTyped, LineHeld, Rank
<1>1. CASE pc = "line"
  <2>1. LineRead /\ call.length \in Nat /\ count \in Nat /\ count <= call.length
    BY <1>1, LimitsAssumption DEF LInv, Line, EInv, Inv, TypeOK, Checked, Frame
  <2> QED
    BY <1>1, <2>1, AllHeld
<1>2. CASE pc = "resume"
  BY <1>2 DEF LInv, Line
<1> QED
  BY <1>1, <1>2

\* A line of input is what was typed and not taken back, in order, as far as there is
\* room, however long it is and however often it is corrected (syscall.c:189-279).
THEOREM LineIsWhatWasTypedCorrect == Spec => []LineIsWhatWasTyped
  BY HeldIsTyped, LineInvariant, PTL

-----------------------------------------------------------------------------
(* The shell: what it has said and what it waits for, at each place it can be. *)

\* The calls of the shell.
WriteCall(n) == [NoCall EXCEPT !.number = "write", !.fd = Descriptor(1), !.pointer = OwnMemory, !.length = n]
ReadCall(d, n) == [NoCall EXCEPT !.number = "read", !.fd = Descriptor(d), !.pointer = OwnMemory, !.length = n]
RefusedCalls ==
    {[NoCall EXCEPT !.number = "write", !.fd = Descriptor(1), !.pointer = Forbidden, !.length = 1],
     [NoCall EXCEPT !.number = "read", !.fd = Descriptor(0), !.pointer = Rodata, !.length = 1]}
OpenCall(path) == [NoCall EXCEPT !.number = "open", !.pointer = OwnMemory,
                       !.path = [name |-> IF path = HelloPath THEN HelloName ELSE OtherName,
                                 length |-> Len(path) + 1]]
CloseCall == [NoCall EXCEPT !.number = "close", !.fd = Descriptor(3)]

\* The tables: the file of fs_init, and no open file, or the file with n bytes read.
Files == inodes = [i \in FS!Slots |-> IF i = 0 THEN FS!Stored(FS!ZeroInode, HelloName, HelloText)
                                                ELSE FS!ZeroInode]
NoneOpen == [i \in FS!OpenSlots |-> FS!ZeroOpenFile]
OneOpen(n) == [NoneOpen EXCEPT ![0] = [used |-> TRUE, pid |-> Pid, fd |-> 3, inode_index |-> 0, offset |-> n]]

\* What the terminal shows when the kernel has written what the shell has said.
Writing == pc \in {"syscall", "write", "resume"} /\ call = WriteCall(Len(data))
Saying == pc = "user" \/ (Writing /\ data \in Seq(Bytes) /\ Len(data) <= MAX_LENGTH)
Said == IF pc \in {"syscall", "write"} THEN shown \o data ELSE shown

\* The answer to the last line, or the greeting.
Body == IF asked = NoLine THEN banner ELSE Answer(asked)
Prompted == (asked = NoLine \/ asked \in Lines) /\ asked # exit_command

\* Before the first write.
AtBanner == at = "banner" /\ pc = "user" /\ asked = NoLine /\ shown = <<>> /\ open_files = NoneOpen

\* On the way to the prompt: the answer is being written, or command_cat is closing its file.
AtPrompt ==
    /\ at = "prompt" /\ Prompted
    /\ \/ Saying /\ Said = Body /\ open_files = NoneOpen
       \/ /\ call = CloseCall /\ shown = Body
          /\ \/ pc = "syscall" /\ \E n \in 0 .. FS_DATA_MAX : open_files = OneOpen(n)
             \/ pc = "resume" /\ open_files = NoneOpen

\* The prompt is being written.
AtAsk == at = "ask" /\ Prompted /\ Saying /\ Said = Body \o prompt /\ open_files = NoneOpen

\* A line is being typed, or it has come and is not ended.
AtLine ==
    /\ at = "line" /\ open_files = NoneOpen
    /\ \/ /\ pc \in {"syscall", "line", "resume"} /\ call = ReadCall(0, COMMAND_SIZE - 1)
          /\ pc = "resume" => result.value # -1
          /\ Prompted /\ shown = Body \o prompt
       \/ /\ pc = "user" /\ asked \in Lines /\ shown = <<>>
          /\ result.value = Len(asked)
          /\ \A k \in 1 .. Len(asked) : command[k] = asked[k]

\* What is in the buffer is the line.
AtParse ==
    /\ at = "parse" /\ pc = "user" /\ open_files = NoneOpen
    /\ asked \in Lines /\ asked # <<>> /\ shown = <<>> /\ Entered = asked

\* command_pid asks for its number.
AtPid ==
    /\ at = "pid" /\ open_files = NoneOpen
    /\ asked \in Lines /\ asked = pid_command /\ shown = <<>>
    /\ \/ pc = "syscall" /\ call.number = "getpid"
       \/ pc \in {"resume", "user"} /\ result.value = Pid

\* The shell has left.
AtExited ==
    /\ at = "exited" /\ open_files = NoneOpen
    /\ asked = exit_command /\ shown = <<>>
    /\ pc \in {"syscall", "parked"} /\ call.number = "exit"

\* echo has written, but for the end of the line.
AtNewline ==
    /\ at = "newline" /\ open_files = NoneOpen
    /\ asked \in Lines /\ IsPrefix(echo_prefix, asked)
    /\ Saying /\ Said = After(echo_prefix, asked)

\* command_memtest makes its three calls.
AtMemtest ==
    /\ open_files = NoneOpen
    /\ asked \in Lines /\ asked = memtest_command /\ shown = <<>>
    /\ \/ at = "kernel address" /\ values = <<>>
       \/ at = "readonly buffer" /\ values = <<-1>>
       \/ at = "verdict" /\ values = <<-1, -1>>
    /\ \/ pc = "syscall" /\ call \in RefusedCalls
       \/ pc \in {"resume", "user"} /\ result.value = -1

\* The path behind "cat ".
PathAsked == After(cat_prefix, asked)
Cats == asked \in Lines /\ IsPrefix(cat_prefix, asked) /\ PathAsked # <<>>

\* command_cat opens its path.
AtOpened ==
    /\ at = "opened" /\ Cats /\ shown = <<>>
    /\ \/ pc \in {"syscall", "path", "open"} /\ call = OpenCall(PathAsked) /\ open_files = NoneOpen
       \/ /\ pc \in {"resume", "user"}
          /\ \/ PathAsked = HelloPath /\ result.value = 3 /\ open_files = OneOpen(0)
             \/ PathAsked # HelloPath /\ result.value = -1 /\ open_files = NoneOpen

CatsFile == fd = 3 /\ Cats /\ PathAsked = HelloPath

\* The beginning of the file, of n bytes.
Beginning(n) == SubSeq(HelloText, 1, n)

\* As much of the file is written as was read.
AtCat ==
    /\ at = "cat" /\ CatsFile /\ Saying
    /\ \E n \in 0 .. Len(HelloText) : Said = Beginning(n) /\ open_files = OneOpen(n)

\* The next part of the file is being read, or it is in the buffer.
AtCounted ==
    /\ at = "counted" /\ CatsFile
    /\ \E n \in 0 .. Len(HelloText) :
          /\ shown = Beginning(n)
          /\ \/ /\ pc \in {"syscall", "read"} /\ call = ReadCall(3, CAT_SIZE)
                /\ open_files = OneOpen(n)
             \/ /\ pc \in {"resume", "user"}
                /\ result.value \in 0 .. CAT_SIZE /\ n + result.value <= Len(HelloText)
                /\ result.value = 0 => n = Len(HelloText)
                /\ result.data = SubSeq(HelloText, n + 1, n + result.value)
                /\ open_files = OneOpen(n + result.value)

\* All of the file is written.
AtClose ==
    /\ at = "close" /\ pc = "user" /\ CatsFile /\ shown = HelloText
    /\ open_files = OneOpen(Len(HelloText))

\* The shell is at one of these places.
Somewhere ==
    \/ AtBanner \/ AtPrompt \/ AtAsk \/ AtLine \/ AtParse \/ AtPid \/ AtExited \/ AtNewline
    \/ AtMemtest \/ AtOpened \/ AtCat \/ AtCounted \/ AtClose

\* The types of its locals.
LocalsOK ==
    /\ command \in [1 .. COMMAND_SIZE -> Printable \cup {Nul}]
    /\ fd \in Nat
    /\ values \in {<<>>, <<-1>>, <<-1, -1>>}

\* The inductive invariant of the kernel and the shell.
ShellInv == LInv /\ Files /\ LocalsOK /\ Somewhere

-----------------------------------------------------------------------------
(* Texts, lines and calls. *)

\* A line is a text of its length.
LEMMA LineIsText ==
    ASSUME NEW text \in Lines
    PROVE  /\ text \in Seq(Bytes) /\ text \in Seq(Printable) /\ Len(text) \in Nat /\ Len(text) < COMMAND_SIZE
           /\ DOMAIN text = 1 .. Len(text) /\ \A k \in 1 .. Len(text) : text[k] \in Printable
<1>1. PICK n \in 0 .. COMMAND_SIZE - 1 : text \in [1 .. n -> Printable]
  BY DEF Lines
<1>2. n \in Nat /\ n < COMMAND_SIZE
  BY <1>1, SizesAssumption, LimitsAssumption
<1>3. text \in Seq(Printable) /\ Len(text) = n /\ DOMAIN text = 1 .. n
  BY <1>1, <1>2
<1>4. text \in Seq(Bytes)
  BY <1>3, CharactersAssumption, SeqMonotonic
<1> QED
  BY <1>1, <1>2, <1>3, <1>4

\* The shell's texts fit into one call.
LEMMA TextsFit ==
    /\ \A text \in texts : text \in Seq(Bytes) /\ Len(text) \in Nat /\ Len(text) <= MAX_LENGTH
    /\ \A word \in commands : word \in Seq(Bytes)
    /\ HelloPath \in Seq(Bytes) /\ Space \in Bytes
    /\ echo_prefix \in Seq(Bytes) /\ Len(echo_prefix) \in Nat
    /\ cat_prefix \in Seq(Bytes) /\ Len(cat_prefix) \in Nat
<1>1. /\ \A text \in texts : text \in Seq(Bytes) /\ Len(text) \in Nat /\ Len(text) <= MAX_LENGTH
      /\ \A word \in commands : word \in Seq(Bytes)
      /\ HelloPath \in Seq(Bytes) /\ <<Space>> \in Seq(Bytes)
  <2>1. texts \subseteq Seq(Bytes) /\ \A text \in texts : Len(text) <= MAX_LENGTH
    BY TextsAssumption, Zenon
  <2>2. \A text \in texts : text \in Seq(Bytes) /\ Len(text) \in Nat /\ Len(text) <= MAX_LENGTH
    BY <2>1
  <2>3. commands \subseteq Seq(Bytes) /\ HelloPath \in Seq(Bytes) /\ <<Space>> \in Seq(Bytes)
    BY TextsAssumption, Zenon
  <2> QED
    BY <2>2, <2>3, Zenon
<1>2. Space \in Bytes
  BY <1>1, Len(<<Space>>) = 1, <<Space>>[1] = Space, ElementOfSeq, 1 \in 1 .. 1
<1>3. echo_command \in commands /\ cat_command \in commands
  <2>1. words[5] = echo_command /\ words[6] = cat_command /\ 5 \in 1 .. 6 /\ 6 \in 1 .. 6
    BY DEF words
  <2> QED
    BY <2>1 DEF commands
<1>4. echo_prefix \in Seq(Bytes) /\ cat_prefix \in Seq(Bytes)
  BY <1>1, <1>2, <1>3 DEF echo_prefix, cat_prefix
<1> QED
  BY <1>1, <1>2, <1>4

\* Each of them by its name.
LEMMA Named ==
    /\ banner \in texts /\ prompt \in texts /\ help_text \in texts /\ unknown_text \in texts
    /\ cat_usage \in texts /\ cat_error \in texts /\ memtest_ok \in texts /\ memtest_fail \in texts
    /\ newline \in texts
    /\ help_command \in commands /\ pid_command \in commands /\ memtest_command \in commands
    /\ exit_command \in commands /\ echo_command \in commands /\ cat_command \in commands
<1>1. /\ words[1] = help_command /\ words[2] = pid_command /\ words[3] = memtest_command
      /\ words[4] = exit_command /\ words[5] = echo_command /\ words[6] = cat_command
      /\ 1 \in 1 .. 6 /\ 2 \in 1 .. 6 /\ 3 \in 1 .. 6 /\ 4 \in 1 .. 6 /\ 5 \in 1 .. 6 /\ 6 \in 1 .. 6
  BY DEF words
<1> QED
  BY <1>1 DEF texts, commands

\* The calls are trap frames.
LEMMA CallsAreFrames ==
    /\ \A n \in Nat : WriteCall(n) \in Frame
    /\ \A d, n \in Nat : ReadCall(d, n) \in Frame
    /\ RefusedCalls \subseteq Frame
    /\ \A path \in Seq(Bytes) : OpenCall(path) \in Frame
    /\ CloseCall \in Frame
    /\ [NoCall EXCEPT !.number = "getpid"] \in Frame
    /\ [NoCall EXCEPT !.number = "exit"] \in Frame
<1>1. MAX_LENGTH + FS_NAME_MAX \in Nat
  BY LimitsAssumption
<1> DEFINE room == MAX_LENGTH + FS_NAME_MAX
<1>2. OwnMemory = [null |-> FALSE, readable |-> room, writable |-> room]
  BY DEF OwnMemory
<1> HIDE DEF room
<1>3. /\ OwnMemory \in [null : BOOLEAN, readable : Nat, writable : Nat]
      /\ Rodata \in [null : BOOLEAN, readable : Nat, writable : Nat]
      /\ Forbidden \in [null : BOOLEAN, readable : Nat, writable : Nat]
  <2>1. OwnMemory \in [null : BOOLEAN, readable : Nat, writable : Nat]
    BY <1>1, <1>2 DEF room
  <2> QED
    BY <2>1 DEF Rodata, Forbidden
<1>4. \A n \in Nat : Descriptor(n) \in [high : Nat, low : Nat]
  BY DEF Descriptor
<1>5. NoCall \in Frame
  BY DEF NoCall, Frame, Numbers
<1>6. \A n \in Nat : WriteCall(n) \in Frame
  BY <1>3, <1>4, <1>5 DEF WriteCall, Frame, Numbers
<1>7. \A d, n \in Nat : ReadCall(d, n) \in Frame
  BY <1>3, <1>4, <1>5 DEF ReadCall, Frame, Numbers
<1>8. RefusedCalls \subseteq Frame
  <2>1. [NoCall EXCEPT !.number = "write", !.fd = Descriptor(1), !.pointer = Forbidden, !.length = 1] \in Frame
    BY <1>3, <1>4, <1>5 DEF Frame, Numbers
  <2>2. [NoCall EXCEPT !.number = "read", !.fd = Descriptor(0), !.pointer = Rodata, !.length = 1] \in Frame
    BY <1>3, <1>4, <1>5 DEF Frame, Numbers
  <2> QED
    BY <2>1, <2>2 DEF RefusedCalls
<1>9. ASSUME NEW path \in Seq(Bytes) PROVE OpenCall(path) \in Frame
  <2>1. Len(path) + 1 \in Nat
    OBVIOUS
  <2>2. (IF path = HelloPath THEN HelloName ELSE OtherName) \in Names \cup {NoName}
    BY InputsAssumption, CharactersAssumption
  <2> QED
    BY <1>3, <1>5, <2>1, <2>2 DEF OpenCall, Frame, Numbers
<1>10. /\ CloseCall \in Frame
       /\ [NoCall EXCEPT !.number = "getpid"] \in Frame
       /\ [NoCall EXCEPT !.number = "exit"] \in Frame
  BY <1>4, <1>5 DEF CloseCall, Frame, Numbers
<1> QED
  BY <1>6, <1>7, <1>8, <1>9, <1>10

-----------------------------------------------------------------------------
(* The kernel's invariant. *)

\* A trap keeps what is proved of the kernel.
LEMMA TrapLInv == ASSUME LInv, Trap PROVE LInv'
  BY TrapInv, TrapEffect, FirstStepLine DEF LInv, EInv

\* So does a step of the kernel itself, and one that leaves it alone.
LEMMA NextLInv == LInv /\ [Next]_vars => LInv'
  BY NextInv, NextEffect, NextLine DEF LInv, EInv

\* A step in which nothing changes keeps it.
LEMMA StutterLInv == ASSUME LInv, UNCHANGED vars PROVE LInv'
  BY NextLInv

\* The locals and what the terminal shows are not the kernel's.
LEMMA SyscallTraps ==
    ASSUME LInv, NEW arguments \in Frame, NEW next, user_syscall3(arguments, next)
    PROVE  /\ LInv' /\ pc' = "syscall" /\ call' = arguments /\ at' = next
           /\ UNCHANGED <<inodes, open_files, asked, shown>>
<1>1. Trap
  BY DEF user_syscall3, Trap
<1> QED
  BY <1>1, TrapLInv DEF user_syscall3, tables, screen

\* What the shell writes is said when the kernel has been called.
LEMMA WriteTraps ==
    ASSUME LInv, NEW text \in Seq(Bytes), Len(text) <= MAX_LENGTH, NEW next, user_write(text, next)
    PROVE  /\ LInv' /\ at' = next /\ Saying' /\ Said' = shown \o text
           /\ UNCHANGED <<inodes, open_files, asked, command, fd, values>>
<1>1. Len(text) \in Nat
  OBVIOUS
<1>2. WriteCall(Len(text)) \in Frame
  BY <1>1, CallsAreFrames
<1>3. /\ LInv' /\ pc' = "syscall" /\ call' = WriteCall(Len(text)) /\ at' = next
      /\ UNCHANGED <<inodes, open_files, asked, shown>>
      /\ data' = text /\ UNCHANGED <<command, fd, values>>
  <2>1. user_syscall3(WriteCall(Len(text)), next) /\ data' = text /\ UNCHANGED <<command, fd, values>>
    BY DEF user_write, WriteCall
  <2> QED
    BY <1>2, <2>1, SyscallTraps
<1>4. Saying'
  BY <1>3 DEF Saying, Writing
<1>5. Said' = shown \o text
  BY <1>3 DEF Said
<1> QED
  BY <1>3, <1>4, <1>5

-----------------------------------------------------------------------------
(* The steps of the kernel in the shell's calls. *)

\* Which step of the kernel is next.
LEMMA StepIs ==
    ASSUME KernelStep
    PROVE  /\ pc \in {"syscall", "write", "path", "create", "open", "read", "resume"}
           /\ pc = "syscall" /\ call.number = "write" => SysWrite
           /\ pc = "syscall" /\ call.number = "read" => SysRead
           /\ pc = "syscall" /\ call.number = "open" => SysPath
           /\ pc = "syscall" /\ call.number = "close" => SysClose
           /\ pc = "syscall" /\ call.number = "getpid" => SysGetpid
           /\ pc = "syscall" /\ call.number = "exit" => Stop
           /\ pc = "write" => Write
           /\ pc = "path" => CopyPath
           /\ pc = "open" => Open
           /\ pc = "read" => Read
           /\ pc = "resume" => Resume
  BY DEF KernelStep, SysWrite, Write, SysPath, CopyPath, Create, Open, SysRead, Read, SysGetpid,
     SysClose, Stop, Resume, Called

\* The kernel keeps its invariant, and the shell's state but where it reads and writes.
LEMMA KernelKeeps ==
    ASSUME LInv, Kernel
    PROVE  /\ LInv' /\ UNCHANGED <<at, data, fd, values>>
           /\ at # "line" \/ pc # "resume" => UNCHANGED <<command, asked>>
           /\ pc # "write" /\ (at # "line" \/ pc # "resume") => UNCHANGED shown
  BY NextLInv DEF Kernel, Next, LineReturns

\* The arguments of the calls.
LEMMA WriteArguments ==
    ASSUME NEW n, call = WriteCall(n)
    PROVE  /\ call.number = "write" /\ call.fd.high = 0 /\ call.fd.low = 1 /\ ~call.pointer.null
           /\ call.length = n /\ call.pointer.readable = MAX_LENGTH + FS_NAME_MAX
  BY DEF WriteCall, NoCall, Descriptor, OwnMemory

\* The arguments of a read.
LEMMA ReadArguments ==
    ASSUME NEW d, NEW n, call = ReadCall(d, n)
    PROVE  /\ call.number = "read" /\ call.fd.low = d /\ ~call.pointer.null
           /\ call.length = n /\ call.pointer.writable = MAX_LENGTH + FS_NAME_MAX
  BY DEF ReadCall, NoCall, Descriptor, OwnMemory

\* The arguments of an open.
LEMMA OpenArguments ==
    ASSUME NEW p, call = OpenCall(p)
    PROVE  /\ call.number = "open" /\ ~call.pointer.null
           /\ call.pointer.readable = MAX_LENGTH + FS_NAME_MAX
           /\ call.path.length = Len(p) + 1
           /\ p = HelloPath => call.path.name = HelloName
           /\ p # HelloPath => call.path.name = OtherName
  BY DEF OpenCall, NoCall, OwnMemory

\* The arguments of a close.
LEMMA CloseArguments == call = CloseCall => call.number = "close" /\ call.fd.low = 3
  BY DEF CloseCall, NoCall, Descriptor

\* What the shell writes is on the terminal when the kernel returns.
LEMMA SayingKernel ==
    ASSUME LInv, Kernel, Saying, at # "line"
    PROVE  /\ Saying' /\ Said' = Said
           /\ UNCHANGED <<inodes, open_files, at, command, data, fd, values, asked>>
<1>1. /\ KernelStep /\ UNCHANGED <<at, command, data, fd, values, asked>>
      /\ shown' = IF pc = "write" THEN shown \o data ELSE shown
  BY DEF Kernel, LineReturns
<1>2. Writing /\ data \in Seq(Bytes) /\ Len(data) <= MAX_LENGTH /\ pc # "user"
  BY <1>1, StepIs DEF Saying
<1>3. /\ call.number = "write" /\ call.fd.high = 0 /\ call.fd.low = 1 /\ ~call.pointer.null
      /\ call.length = Len(data) /\ call.pointer.readable = MAX_LENGTH + FS_NAME_MAX
  BY <1>2, WriteArguments DEF Writing
<1>4. CASE pc = "syscall"
  <2>1. SysWrite
    BY <1>1, <1>3, <1>4, StepIs
  <2>2. ~WriteRefused
    <3>1. Len(data) \in Nat /\ Len(data) <= MAX_LENGTH + FS_NAME_MAX
      BY <1>2, LimitsAssumption
    <3> QED
      BY <1>2, <1>3, <3>1, LimitsAssumption DEF WriteRefused, user_readable
  <2>3. pc' = "write" /\ call' = call /\ UNCHANGED tables
    BY <2>1, <2>2 DEF SysWrite, OpenUserMemory
  <2> QED
    BY <1>1, <1>2, <1>4, <2>3 DEF Saying, Said, Writing, WriteCall, NoCall, tables
<1>5. CASE pc = "write"
  <2>1. Write
    BY <1>1, <1>5, StepIs
  <2>2. pc' = "resume" /\ call' = call /\ UNCHANGED tables
    BY <1>3, <2>1 DEF Write
  <2> QED
    BY <1>1, <1>2, <1>5, <2>2 DEF Saying, Said, Writing, WriteCall, NoCall, tables
<1>6. CASE pc = "resume"
  <2>1. Resume
    BY <1>1, <1>6, StepIs
  <2>2. pc' = "user" /\ UNCHANGED tables
    BY <2>1 DEF Resume
  <2> QED
    BY <1>1, <1>6, <2>2 DEF Saying, Said, tables
<1> QED
  BY <1>2, <1>4, <1>5, <1>6 DEF Writing

\* The return to the shell, with the result.
LEMMA Returned ==
    ASSUME LInv, Kernel, pc = "resume", at # "line"
    PROVE  /\ pc' = "user"
           /\ UNCHANGED <<inodes, open_files, result, at, command, data, fd, values, asked, shown>>
<1>1. Resume
  BY StepIs DEF Kernel
<1> QED
  BY <1>1 DEF Kernel, LineReturns, Resume, tables

\* getpid returns the shell's number.
LEMMA GetpidKernel ==
    ASSUME LInv, Kernel, pc = "syscall", call.number = "getpid"
    PROVE  /\ pc' = "resume" /\ result'.value = Pid
           /\ UNCHANGED <<inodes, open_files, at, command, data, fd, values, asked, shown>>
<1>1. SysGetpid
  BY StepIs DEF Kernel
<1> QED
  BY <1>1 DEF Kernel, LineReturns, SysGetpid, Give, tables

\* exit stops the machine.
LEMMA ExitKernel ==
    ASSUME LInv, Kernel, pc = "syscall", call.number = "exit"
    PROVE  /\ pc' = "parked" /\ call' = call
           /\ UNCHANGED <<inodes, open_files, at, command, data, fd, values, asked, shown>>
<1>1. Stop
  BY StepIs DEF Kernel
<1> QED
  BY <1>1 DEF Kernel, LineReturns, Stop, tables

\* The kernel refuses the three calls of command_memtest.
LEMMA RefusedKernel ==
    ASSUME LInv, Kernel, pc = "syscall", call \in RefusedCalls
    PROVE  /\ pc' = "resume" /\ result'.value = -1
           /\ UNCHANGED <<inodes, open_files, at, command, data, fd, values, asked, shown>>
<1>1. PICK c \in RefusedCalls : call = c
  OBVIOUS
<1>2. /\ call.length = 1
      /\ \/ call.number = "write" /\ call.pointer.readable = 0
         \/ call.number = "read" /\ call.pointer.writable = 0
  <2>1. CASE call = [NoCall EXCEPT !.number = "write", !.fd = Descriptor(1), !.pointer = Forbidden, !.length = 1]
    BY <2>1 DEF NoCall, Forbidden
  <2>2. CASE call = [NoCall EXCEPT !.number = "read", !.fd = Descriptor(0), !.pointer = Rodata, !.length = 1]
    BY <2>2 DEF NoCall, Rodata, OwnMemory
  <2> QED
    BY <2>1, <2>2 DEF RefusedCalls
<1>3. Refuse
  <2>1. CASE call.number = "write" /\ call.pointer.readable = 0
    <3>1. SysWrite /\ WriteRefused
      BY <1>2, <2>1, StepIs DEF Kernel, WriteRefused, user_readable
    <3> QED
      BY <3>1 DEF SysWrite
  <2>2. CASE call.number = "read" /\ call.pointer.writable = 0
    <3>1. SysRead /\ ReadRefused
      BY <1>2, <2>2, StepIs DEF Kernel, ReadRefused, user_writable
    <3> QED
      BY <3>1 DEF SysRead
  <2> QED
    BY <1>2, <2>1, <2>2
<1> QED
  BY <1>3 DEF Kernel, LineReturns, Refuse, Give, tables

-----------------------------------------------------------------------------
(* The file system under the shell. *)

\* A search from the front finds the first.
LEMMA LeastIs ==
    ASSUME NEW S \in SUBSET Int, NEW i \in S, \A j \in S : i <= j
    PROVE  FS!Least(S) = i
<1>1. FS!Least(S) \in S /\ \A j \in S : FS!Least(S) <= j
  <2>1. \E k \in S : \A j \in S : k <= j
    OBVIOUS
  <2> QED
    BY <2>1 DEF FS!Least
<1>2. FS!Least(S) <= i /\ i <= FS!Least(S) /\ i \in Int /\ FS!Least(S) \in Int
  BY <1>1
<1> QED
  BY <1>2

\* The only file is in the first slot.
LEMMA FileFound ==
    ASSUME Files
    PROVE  /\ inodes[0] = FS!Stored(FS!ZeroInode, HelloName, HelloText)
           /\ FS!SlotsNamed(HelloName) = {0} /\ FS!find_inode(HelloName) = 0
           /\ FS!SlotsNamed(OtherName) = {}
<1>1. 0 \in FS!Slots
  BY LimitsAssumption DEF FS!Slots
<1>2. inodes[0] = FS!Stored(FS!ZeroInode, HelloName, HelloText)
  BY <1>1 DEF Files
<1>3. inodes[0].used /\ inodes[0].name = HelloName
  BY <1>2 DEF FS!Stored
<1>4. \A i \in FS!Slots \ {0} : ~inodes[i].used
  BY DEF Files, FS!ZeroInode
<1>5. FS!UsedSlots = {0}
  BY <1>1, <1>3, <1>4 DEF FS!UsedSlots
<1>6. FS!SlotsNamed(HelloName) = {0} /\ FS!SlotsNamed(OtherName) = {}
  BY <1>3, <1>5, CharactersAssumption DEF FS!SlotsNamed
<1>7. FS!find_inode(HelloName) = 0
  <2>1. {0} \in SUBSET Int /\ 0 \in {0} /\ \A j \in {0} : 0 <= j
    OBVIOUS
  <2> QED
    BY <1>6, <2>1, LeastIs DEF FS!find_inode
<1> QED
  BY <1>2, <1>6, <1>7

\* No file is open.
LEMMA NoneOpened ==
    ASSUME open_files = NoneOpen
    PROVE  /\ FS!FreeFds(Pid) # {} /\ FS!Least(FS!FreeFds(Pid)) = 3
           /\ FS!FreeOpenSlots # {} /\ FS!Least(FS!FreeOpenSlots) = 0
<1>1. \A i \in FS!OpenSlots : ~open_files[i].used
  BY DEF NoneOpen, FS!ZeroOpenFile
<1>2. \A d : FS!Opened(Pid, d) = {}
  BY <1>1 DEF FS!Opened
<1>3. FS!FreeFds(Pid) = 3 .. 3 + FS_MAX_OPEN_FILES - 1
  BY <1>2 DEF FS!FreeFds
<1>4. FS!FreeOpenSlots = 0 .. FS_MAX_OPEN_FILES - 1
  BY <1>1 DEF FS!FreeOpenSlots, FS!OpenSlots
<1>5. 3 .. 3 + FS_MAX_OPEN_FILES - 1 \in SUBSET Int /\ 3 \in 3 .. 3 + FS_MAX_OPEN_FILES - 1
      /\ \A j \in 3 .. 3 + FS_MAX_OPEN_FILES - 1 : 3 <= j
  BY LimitsAssumption
<1>6. 0 .. FS_MAX_OPEN_FILES - 1 \in SUBSET Int /\ 0 \in 0 .. FS_MAX_OPEN_FILES - 1
      /\ \A j \in 0 .. FS_MAX_OPEN_FILES - 1 : 0 <= j
  BY LimitsAssumption
<1> QED
  BY <1>3, <1>4, <1>5, <1>6, LeastIs

\* The file is open, and it is found.
LEMMA OneOpened ==
    ASSUME NEW n, open_files = OneOpen(n)
    PROVE  /\ FS!Opened(Pid, 3) # {} /\ FS!find_open_file(Pid, 3) = 0
           /\ open_files[0] = [used |-> TRUE, pid |-> Pid, fd |-> 3, inode_index |-> 0, offset |-> n]
<1>1. 0 \in FS!OpenSlots
  BY LimitsAssumption DEF FS!OpenSlots
<1>2. open_files[0] = [used |-> TRUE, pid |-> Pid, fd |-> 3, inode_index |-> 0, offset |-> n]
  BY <1>1 DEF OneOpen, NoneOpen
<1>3. \A i \in FS!OpenSlots \ {0} : ~open_files[i].used
  BY DEF OneOpen, NoneOpen, FS!ZeroOpenFile
<1>4. FS!Opened(Pid, 3) = {0}
  BY <1>1, <1>2, <1>3 DEF FS!Opened
<1>5. {0} \in SUBSET Int /\ 0 \in {0} /\ \A j \in {0} : 0 <= j
  OBVIOUS
<1>6. FS!find_open_file(Pid, 3) = 0
  BY <1>4, <1>5, LeastIs DEF FS!find_open_file
<1> QED
  BY <1>2, <1>4, <1>6

\* The entry of the file, at another offset.
LEMMA Advanced ==
    ASSUME NEW n \in Int, NEW m \in Int, NEW entry,
           entry = [used |-> TRUE, pid |-> Pid, fd |-> 3, inode_index |-> 0, offset |-> n]
    PROVE  [entry EXCEPT !.offset = m]
             = [used |-> TRUE, pid |-> Pid, fd |-> 3, inode_index |-> 0, offset |-> m]
<1> DEFINE moved == [entry EXCEPT !.offset = m]
<1>1. entry \in [used : BOOLEAN, pid : Int, fd : Int, inode_index : Int, offset : Int]
  BY InputsAssumption
<1>2. /\ moved \in [used : BOOLEAN, pid : Int, fd : Int, inode_index : Int, offset : Int]
      /\ moved.used = TRUE /\ moved.pid = Pid /\ moved.fd = 3 /\ moved.inode_index = 0 /\ moved.offset = m
  BY <1>1
<1> HIDE DEF moved
<1>3. moved = [used |-> moved.used, pid |-> moved.pid, fd |-> moved.fd,
               inode_index |-> moved.inode_index, offset |-> moved.offset]
  BY <1>2
<1> QED
  BY <1>2, <1>3 DEF moved

-----------------------------------------------------------------------------
(* The calls that use it. *)

\* The call that reads a line waits for keys.
LEMMA StdinKernel ==
    ASSUME LInv, Kernel, pc = "syscall", call = ReadCall(0, COMMAND_SIZE - 1)
    PROVE  /\ pc' = "line" /\ call' = call
           /\ UNCHANGED <<inodes, open_files, at, command, data, fd, values, asked, shown>>
<1>1. SysRead
  BY ReadArguments, StepIs DEF Kernel
<1>2. ~ReadRefused /\ call.fd.low = 0 /\ call.length # 0
  BY ReadArguments, SizesAssumption, LimitsAssumption DEF ReadRefused, user_writable
<1>3. OpenUserMemory("line")
  BY <1>1, <1>2 DEF SysRead
<1> QED
  BY <1>3 DEF Kernel, LineReturns, OpenUserMemory, tables

\* A key goes to the line, or ends it.
LEMMA KeyTyped ==
    ASSUME LInv, Typing
    PROVE  /\ pc = "line" /\ pc' \in {"line", "resume"} /\ call' = call /\ LInv'
           /\ pc' = "resume" => result'.value # -1
           /\ UNCHANGED <<inodes, open_files, at, command, data, fd, values, asked, shown>>
<1>1. PICK c \in Keys : Key(c) /\ UNCHANGED <<at, locals, screen>>
  BY DEF Typing
<1>2. LInv'
  BY <1>1, NextLInv DEF Next
<1>3. pc' = "resume" => result'.value # -1
  <2>1. count \in Nat
    BY LimitsAssumption DEF LInv, EInv, Inv, TypeOK
  <2>2. pc' = pc \/ (pc' = "resume" /\ Give(count))
    BY <1>1 DEF Key, EndLine, Erase, Store, GoOn
  <2> QED
    BY <1>1, <2>1, <2>2 DEF Key, Give
<1>4. pc' \in {"line", "resume"}
  BY <1>1 DEF Key, EndLine, Erase, Store, GoOn
<1> QED
  BY <1>1, <1>2, <1>3, <1>4 DEF Key, tables, locals, screen

\* fs_open finds the file by its name, and no other.
LEMMA OpenKernel ==
    ASSUME LInv, Files, Kernel, pc \in {"syscall", "path", "open"}, NEW p \in Seq(Bytes),
           call = OpenCall(p), open_files = NoneOpen
    PROVE  /\ UNCHANGED <<inodes, at, command, data, fd, values, asked, shown>>
           /\ \/ pc' \in {"path", "open"} /\ call' = call /\ open_files' = open_files
              \/ pc' = "resume" /\ p = HelloPath /\ result'.value = 3 /\ open_files' = OneOpen(0)
              \/ pc' = "resume" /\ p # HelloPath /\ result'.value = -1 /\ open_files' = open_files
<1>1. UNCHANGED <<at, command, data, fd, values, asked, shown>>
  BY KernelKeeps
<1>2. /\ call.number = "open" /\ ~call.pointer.null
      /\ call.pointer.readable = MAX_LENGTH + FS_NAME_MAX
      /\ call.path.length = Len(p) + 1
      /\ p = HelloPath => call.path.name = HelloName
      /\ p # HelloPath => call.path.name = OtherName
  BY OpenArguments
<1>3. CASE pc = "syscall"
  <2>1. SysPath
    BY <1>2, <1>3, StepIs DEF Kernel
  <2>2. OpenUserMemory("path")
    BY <1>2, <2>1 DEF SysPath
  <2> QED
    BY <1>1, <2>2 DEF OpenUserMemory, tables
<1>4. CASE pc = "path"
  <2>1. CopyPath
    BY <1>4, StepIs DEF Kernel
  <2>2. ASSUME p = HelloPath PROVE PathLength = call.path.length
    <3>1. /\ call.path.length \in Nat /\ call.path.length <= FS_NAME_MAX
          /\ call.path.length <= call.pointer.readable
      <4>1. Len(p) \in Nat /\ Len(p) < FS_NAME_MAX
        BY <2>2, TextsAssumption
      <4> QED
        BY <1>2, <4>1, LimitsAssumption
    <3>2. FS_NAME_MAX \in Nat /\ call.pointer.readable \in Nat
      BY <1>2, LimitsAssumption
    <3> DEFINE S == {call.path.length, FS_NAME_MAX, call.pointer.readable}
               Q(n) == n <= call.path.length /\ n <= FS_NAME_MAX /\ n <= call.pointer.readable
    <3>3. call.path.length \in S /\ Q(call.path.length)
      BY <3>1
    <3>4. PathLength \in S /\ Q(PathLength)
      BY <3>3 DEF PathLength
    <3> QED
      BY <3>1, <3>2, <3>4
  <2>3. /\ UNCHANGED <<inodes, open_files>> /\ call' = call
        /\ pc' = "open" \/ (pc' = "resume" /\ result'.value = -1 /\ PathLength # call.path.length)
    BY <1>2, <2>1 DEF CopyPath, Give, tables
  <2> QED
    BY <1>1, <2>2, <2>3
<1>5. CASE pc = "open"
  <2>1. FS!fs_open(Pid, call.path.name) /\ pc' = "resume" /\ call' = call
    BY <1>5, StepIs DEF Kernel, Open
  <2>2. CASE p = HelloPath
    <3>1. FS!fs_open(Pid, HelloName)
      BY <1>2, <2>1, <2>2
    <3>2. FS!SlotsNamed(HelloName) # {} /\ FS!find_inode(HelloName) = 0
      BY FileFound
    <3>3. /\ open_files' = [open_files EXCEPT ![0] =
               [used |-> TRUE, pid |-> Pid, fd |-> 3, inode_index |-> 0, offset |-> 0]]
          /\ FS!Return(3) /\ inodes' = inodes
      BY <3>1, <3>2, NoneOpened DEF FS!fs_open
    <3> QED
      BY <1>1, <2>1, <2>2, <3>3 DEF OneOpen, FS!Return
  <2>3. CASE p # HelloPath
    <3>1. FS!fs_open(Pid, OtherName) /\ FS!SlotsNamed(OtherName) = {}
      BY <1>2, <2>1, <2>3, FileFound
    <3>2. FS!Fail
      BY <3>1 DEF FS!fs_open
    <3> QED
      BY <1>1, <2>1, <2>3, <3>2 DEF FS!Fail, FS!Return
  <2> QED
    BY <2>2, <2>3
<1> QED
  BY <1>3, <1>4, <1>5

\* fs_read hands out what comes next in the file.
LEMMA ReadKernel ==
    ASSUME LInv, Files, Kernel, pc \in {"syscall", "read"}, call = ReadCall(3, CAT_SIZE),
           NEW n \in 0 .. Len(HelloText), open_files = OneOpen(n)
    PROVE  /\ UNCHANGED <<inodes, at, command, data, fd, values, asked, shown>>
           /\ \/ pc' = "read" /\ call' = call /\ open_files' = open_files
              \/ /\ pc' = "resume" /\ result'.value \in 0 .. CAT_SIZE
                 /\ n + result'.value <= Len(HelloText)
                 /\ result'.value = 0 => n = Len(HelloText)
                 /\ result'.data = SubSeq(HelloText, n + 1, n + result'.value)
                 /\ open_files' = OneOpen(n + result'.value)
<1>1. UNCHANGED <<at, command, data, fd, values, asked, shown>>
  BY KernelKeeps
<1>2. /\ call.number = "read" /\ call.fd.low = 3 /\ ~call.pointer.null
      /\ call.length = CAT_SIZE /\ call.pointer.writable = MAX_LENGTH + FS_NAME_MAX
  BY ReadArguments
<1>3. CASE pc = "syscall"
  <2>1. SysRead
    BY <1>2, <1>3, StepIs DEF Kernel
  <2>2. ~ReadRefused /\ call.fd.low # 0
    BY <1>2, SizesAssumption, LimitsAssumption DEF ReadRefused, user_writable
  <2>3. OpenUserMemory("read")
    BY <2>1, <2>2 DEF SysRead
  <2> QED
    BY <1>1, <2>3 DEF OpenUserMemory, tables
<1>4. CASE pc = "read"
  <2>1. FS!fs_read(Pid, 3, CAT_SIZE) /\ pc' = "resume"
    BY <1>2, <1>4, StepIs DEF Kernel, Read
  <2> DEFINE size == Len(HelloText)
             m == IF n >= size THEN 0 ELSE FS!Smaller(CAT_SIZE, size - n)
             bytes == [k \in 1 .. m |-> inodes[0].data[n + k - 1]]
  <2>2. /\ FS!Opened(Pid, 3) # {} /\ FS!find_open_file(Pid, 3) = 0
        /\ open_files[0].offset = n /\ open_files[0].inode_index = 0
    <3>1. open_files[0] = [used |-> TRUE, pid |-> Pid, fd |-> 3, inode_index |-> 0, offset |-> n]
      BY OneOpened
    <3> QED
      BY <3>1, OneOpened
  <2>3. inodes[0].size = size /\ inodes[0].data = FS!Overwritten(FS!ZeroInode.data, 0, HelloText, size)
    BY FileFound DEF FS!Stored
  <2>4. /\ open_files' = [open_files EXCEPT ![0].offset = n + m]
        /\ result' = [value |-> m, data |-> bytes] /\ inodes' = inodes
    BY <2>1, <2>2, <2>3 DEF FS!fs_read
  <2>5. size \in Nat /\ n \in Nat /\ n <= size /\ size <= FS_DATA_MAX /\ CAT_SIZE \in Nat /\ CAT_SIZE >= 1
    BY InputsAssumption, SizesAssumption, LimitsAssumption
  <2>6. m \in 0 .. CAT_SIZE /\ n + m <= size /\ (m = 0 => n = size)
    BY <2>5 DEF FS!Smaller
  <2> HIDE DEF m
  <2>7. bytes = SubSeq(HelloText, n + 1, n + m)
    <3>1. \A k \in 1 .. m : inodes[0].data[n + k - 1] = HelloText[n + k]
      <4> TAKE k \in 1 .. m
      <4>1. n + k - 1 \in FS!Offsets /\ n + k - 1 \in 0 .. 0 + size - 1 /\ (n + k - 1) - 0 + 1 = n + k
        BY <2>5, <2>6, LimitsAssumption DEF FS!Offsets
      <4> QED
        BY <2>3, <4>1 DEF FS!Overwritten
    <3>2. bytes = [k \in 1 .. m |-> HelloText[n + k]]
      BY <3>1
    <3>3. SubSeq(HelloText, n + 1, n + m) = [k \in 1 .. m |-> HelloText[n + k]]
      <4> DEFINE i == n + 1
                 j == n + m
      <4>1. i \in Int /\ j \in Int /\ j - i + 1 = m /\ (i <= j => m = j - i + 1) /\ (~(i <= j) => m = 0)
            /\ \A k \in 1 .. m : i + k - 1 = n + k
        BY <2>5, <2>6
      <4>2. \A k \in i .. j : HelloText[k] \in Bytes
        BY <2>5, <2>6, InputsAssumption
      <4> HIDE DEF i, j
      <4>3. /\ SubSeq(HelloText, i, j) \in Seq(Bytes) /\ Len(SubSeq(HelloText, i, j)) = m
            /\ \A k \in 1 .. m : SubSeq(HelloText, i, j)[k] = HelloText[i + k - 1]
        BY <4>1, <4>2, SubSeqProperties
      <4>4. \A k \in 1 .. m : SubSeq(HelloText, i, j)[k] = HelloText[n + k]
        BY <4>1, <4>3
      <4>5. SubSeq(HelloText, i, j) = [k \in 1 .. m |-> HelloText[n + k]]
        BY <4>3, <4>4, LenProperties
      <4> QED
        BY <4>5 DEF i, j
    <3> QED
      BY <3>2, <3>3
  <2>8. open_files' = OneOpen(n + m)
    <3>1. 0 \in FS!OpenSlots
      BY LimitsAssumption DEF FS!OpenSlots
    <3> DEFINE entry(k) == [used |-> TRUE, pid |-> Pid, fd |-> 3, inode_index |-> 0, offset |-> k]
    <3>2. [open_files[0] EXCEPT !.offset = n + m] = entry(n + m)
      <4>1. n \in Int /\ n + m \in Int /\ open_files[0] = entry(n)
        BY <2>5, <2>6, OneOpened
      <4> QED
        BY <4>1, Advanced
    <3>3. open_files[0] = entry(n) /\ open_files = [NoneOpen EXCEPT ![0] = entry(n)]
      BY OneOpened DEF OneOpen
    <3>4. open_files' = [open_files EXCEPT ![0] = [open_files[0] EXCEPT !.offset = n + m]]
      BY <2>4
    <3>5. open_files' = [open_files EXCEPT ![0] = entry(n + m)]
      BY <3>2, <3>4
    <3> HIDE DEF entry
    <3>6. open_files' = [NoneOpen EXCEPT ![0] = entry(n + m)]
      BY <3>1, <3>3, <3>5 DEF NoneOpen
    <3> QED
      BY <3>6 DEF OneOpen, entry
  <2> HIDE DEF bytes
  <2>9. result'.value = m /\ result'.data = bytes
    BY <2>4
  <2> QED
    BY <1>1, <2>1, <2>4, <2>6, <2>7, <2>8, <2>9
<1> QED
  BY <1>3, <1>4

\* fs_close frees the entry.
LEMMA CloseKernel ==
    ASSUME LInv, Kernel, pc = "syscall", call = CloseCall, NEW n, open_files = OneOpen(n)
    PROVE  /\ pc' = "resume" /\ call' = call /\ open_files' = NoneOpen
           /\ UNCHANGED <<inodes, at, command, data, fd, values, asked, shown>>
<1>1. FS!fs_close(Pid, 3) /\ pc' = "resume" /\ call' = call
  BY CloseArguments, StepIs DEF Kernel, SysClose
<1>2. open_files' = [open_files EXCEPT ![0] = FS!ZeroOpenFile] /\ inodes' = inodes
  BY <1>1, OneOpened DEF FS!fs_close
<1>3. open_files' = NoneOpen
  BY <1>2 DEF OneOpen, NoneOpen
<1> QED
  BY <1>1, <1>2, <1>3, KernelKeeps

-----------------------------------------------------------------------------
(* The line the shell gets. *)

\* Of two keys that are kept, the later one has the higher rank.
LEMMA RanksDiffer ==
    ASSUME NEW s \in Seq(Keys), NEW i \in KeptOf(s), NEW j \in KeptOf(s), i < j
    PROVE  Rank(KeptOf(s), i) # Rank(KeptOf(s), j)
<1> DEFINE K == KeptOf(s)
           A == {k \in K : k <= i}
           B == {k \in K : k <= j}
<1>1. IsFiniteSet(K) /\ K \subseteq Nat /\ i \in Nat /\ j \in Nat
  BY KeptFinite
<1>2. A \in SUBSET B /\ j \in B /\ j \notin A /\ B \in SUBSET K
  BY <1>1
<1>3. IsFiniteSet(B)
  BY <1>1, <1>2, FS_Subset
<1> HIDE DEF A, B
<1>4. Cardinality(A) # Cardinality(B)
  BY <1>2, <1>3, FS_Subset
<1> QED
  BY <1>4 DEF Rank, A, B

\* Every rank up to the number of keys that are kept is one key's.
LEMMA RankFound ==
    ASSUME NEW s \in Seq(Keys), NEW k \in 1 .. Cardinality(KeptOf(s))
    PROVE  \E i \in KeptOf(s) : Rank(KeptOf(s), i) = k
<1> DEFINE K == KeptOf(s)
           R == 1 .. Cardinality(K)
           g == [i \in K |-> Rank(K, i)]
<1>1. IsFiniteSet(K) /\ K \subseteq Nat /\ Cardinality(K) \in Nat
  BY KeptFinite
<1>2. \A i \in K : Rank(K, i) \in R
  <2> TAKE i \in K
  <2>1. Len(s) + 1 > Len(s) /\ Len(s) + 1 \in Nat
    OBVIOUS
  <2> QED
    BY <2>1, RankFacts
<1>3. \A i, j \in K : Rank(K, i) = Rank(K, j) => i = j
  <2> TAKE i, j \in K
  <2>1. i \in Nat /\ j \in Nat
    BY <1>1
  <2>2. i < j \/ j < i \/ i = j
    BY <2>1
  <2> QED
    BY <2>2, RanksDiffer
<1>4. IsFiniteSet(R) /\ Cardinality(R) = Cardinality(K)
  <2>1. 1 \in Int /\ Cardinality(K) \in Int /\ (1 > Cardinality(K) => Cardinality(K) = 0)
        /\ Cardinality(K) - 1 + 1 = Cardinality(K)
    BY <1>1
  <2> HIDE DEF K
  <2> QED
    BY <2>1, FS_Interval
<1> HIDE DEF K, R
<1>5. g \in Injection(K, R)
  BY <1>2, <1>3 DEF Injection, IsInjective
<1>6. g \in Surjection(K, R)
  BY <1>1, <1>4, <1>5, FS_Injection
<1>7. k \in R
  BY DEF R, K
<1>8. \E i \in K : g[i] = k
  BY <1>6, <1>7 DEF Surjection
<1> QED
  BY <1>8 DEF K

\* The line that was typed is as long as the call says, and the buffer starts with it.
LEMMA LineGiven ==
    ASSUME LInv, LocalsOK, pc = "resume", call = ReadCall(0, COMMAND_SIZE - 1), result.value # -1
    PROVE  /\ LineTyped \in Lines /\ result.value = Len(LineTyped)
           /\ \A k \in 1 .. Len(LineTyped) : Received[k] = LineTyped[k]
           /\ Received \in [1 .. COMMAND_SIZE -> Printable \cup {Nul}]
<1> DEFINE K == KeptOf(typed)
<1>1. call.number = "read" /\ call.fd.low = 0 /\ call.length = COMMAND_SIZE - 1
  BY ReadArguments
<1>2. result.value = count /\ LineHeld
  BY <1>1 DEF LInv, Line
<1>3. /\ typed \in Seq(Keys) /\ count \in Nat
      /\ line \in [1 .. MAX_LENGTH -> Printable \cup {Blank}]
  BY LimitsAssumption DEF LInv, EInv, Inv, TypeOK
<1>4. K \subseteq Nat /\ Cardinality(K) \in Nat /\ \A i \in K : typed[i] \in Printable
  <2>1. K \subseteq 1 .. Len(typed) /\ Cardinality(K) \in Nat
    BY <1>3, KeptFinite
  <2>2. \A i \in K : typed[i] \in Printable
    BY DEF KeptOf
  <2> QED
    BY <2>1, <2>2
<1>5. /\ count = FS!Smaller(Cardinality(K), COMMAND_SIZE - 1)
      /\ \A i \in K : Rank(K, i) <= count => line[Rank(K, i)] = typed[i]
  BY <1>1, <1>2 DEF LineHeld
<1>6. count <= Cardinality(K) /\ count <= COMMAND_SIZE - 1 /\ COMMAND_SIZE - 1 \in Nat
      /\ COMMAND_SIZE - 1 <= MAX_LENGTH
  BY <1>4, <1>5, SizesAssumption, LimitsAssumption DEF FS!Smaller
<1> DEFINE key(k) == CHOOSE i \in K : Rank(K, i) = k
<1>7. ASSUME NEW k \in 1 .. count
      PROVE  typed[key(k)] \in Printable /\ line[k] = typed[key(k)]
  <2>1. k \in 1 .. Cardinality(K)
    BY <1>3, <1>4, <1>6
  <2>2. key(k) \in K /\ Rank(K, key(k)) = k
    BY <1>3, <2>1, RankFound
  <2> HIDE DEF key, K
  <2>3. Rank(K, key(k)) <= count
    BY <1>3, <2>2
  <2>4. line[Rank(K, key(k))] = typed[key(k)]
    BY <1>5, <2>2, <2>3
  <2> QED
    BY <1>4, <2>2, <2>4
<1>8. LineTyped = [k \in 1 .. count |-> typed[key(k)]]
  BY <1>5, KeptIs DEF LineTyped, Rank
<1> HIDE DEF key, K
<1>9. LineTyped \in [1 .. count -> Printable] /\ Len(LineTyped) = count
      /\ \A k \in 1 .. count : LineTyped[k] = line[k]
  BY <1>3, <1>7, <1>8
<1>10. LineTyped \in Lines
  <2>1. count \in 0 .. COMMAND_SIZE - 1
    BY <1>3, <1>6
  <2> QED
    BY <1>9, <2>1 DEF Lines
<1>11. ASSUME NEW k \in 1 .. Len(LineTyped)
       PROVE  Received[k] = LineTyped[k]
  <2>1. k \in 1 .. COMMAND_SIZE /\ k <= MAX_LENGTH
    BY <1>3, <1>6, <1>9, SizesAssumption, LimitsAssumption
  <2>2. k \in 1 .. count
    BY <1>9
  <2>3. line[k] = LineTyped[k] /\ line[k] \in Printable
    BY <1>9, <2>2
  <2>4. line[k] # Blank
    BY <2>3, CharactersAssumption
  <2> QED
    BY <2>1, <2>3, <2>4 DEF Received
<1>12. Received \in [1 .. COMMAND_SIZE -> Printable \cup {Nul}]
  <2>1. ASSUME NEW k \in 1 .. COMMAND_SIZE
        PROVE  (IF k <= MAX_LENGTH /\ line[k] # Blank THEN line[k] ELSE command[k]) \in Printable \cup {Nul}
    <3>1. CASE k <= MAX_LENGTH /\ line[k] # Blank
      <4>1. k \in 1 .. MAX_LENGTH
        BY <3>1
      <4>2. line[k] \in Printable
        BY <1>3, <3>1, <4>1
      <4> QED
        BY <3>1, <4>2
    <3>2. CASE ~(k <= MAX_LENGTH /\ line[k] # Blank)
      BY <3>2 DEF LocalsOK
    <3> QED
      BY <3>1, <3>2
  <2> QED
    BY <2>1 DEF Received
<1> QED
  BY <1>2, <1>9, <1>10, <1>11, <1>12

\* With its terminator behind it, the line is what the shell sees of its buffer.
LEMMA Terminated ==
    ASSUME NEW text \in Lines, command \in [1 .. COMMAND_SIZE -> Printable \cup {Nul}],
           \A k \in 1 .. Len(text) : command[k] = text[k],
           command' = [command EXCEPT ![Len(text) + 1] = Nul]
    PROVE  Entered' = text /\ command' \in [1 .. COMMAND_SIZE -> Printable \cup {Nul}]
<1> DEFINE n == Len(text)
           ends == {k \in 1 .. COMMAND_SIZE : command'[k] = Nul}
<1>1. /\ text \in Seq(Printable) /\ text \in Seq(Bytes) /\ n \in Nat /\ n < COMMAND_SIZE
      /\ COMMAND_SIZE \in Nat /\ n + 1 \in 1 .. COMMAND_SIZE
      /\ \A k \in 1 .. n : text[k] \in Printable
  BY LineIsText, SizesAssumption, LimitsAssumption
<1>2. /\ command'[n + 1] = Nul
      /\ \A k \in 1 .. n : command'[k] = text[k] /\ command'[k] \in Printable /\ command'[k] # Nul
  BY <1>1, CharactersAssumption
<1>3. command' \in [1 .. COMMAND_SIZE -> Printable \cup {Nul}]
  BY <1>1
<1>4. n + 1 \in ends /\ ends \in SUBSET Int /\ \A k \in ends : n + 1 <= k
  <2>1. ASSUME NEW k \in ends PROVE n + 1 <= k
    <3>1. k \in Nat /\ k >= 1 /\ ~(k \in 1 .. n)
      BY <1>1, <1>2
    <3> QED
      BY <1>1, <3>1
  <2> QED
    BY <1>1, <1>2, <2>1
<1> HIDE DEF ends
<1>5. FS!Least(ends) = n + 1 /\ ends # {}
  BY <1>4, LeastIs
<1>6. Entered' = SubSeq(command', 1, n)
  <2>1. Entered' = SubSeq(command', 1, FS!Least(ends) - 1)
    BY <1>5 DEF Entered, ends
  <2>2. FS!Least(ends) - 1 = n
    BY <1>1, <1>5
  <2> QED
    BY <2>1, <2>2
<1>7. SubSeq(command', 1, n) = text
  <2>1. 1 \in Int /\ n \in Int /\ n - 1 + 1 = n /\ (1 <= n => n = n - 1 + 1) /\ (~(1 <= n) => n = 0)
        /\ \A k \in 1 .. n : 1 + k - 1 = k
    BY <1>1
  <2>2. \A k \in 1 .. n : command'[k] \in Printable
    BY <1>2
  <2> HIDE DEF n
  <2>3. /\ SubSeq(command', 1, n) \in Seq(Printable) /\ Len(SubSeq(command', 1, n)) = n
        /\ \A k \in 1 .. n : SubSeq(command', 1, n)[k] = command'[1 + k - 1]
    BY <2>1, <2>2, SubSeqProperties
  <2>4. \A k \in 1 .. n : SubSeq(command', 1, n)[k] = text[k]
    BY <1>2, <2>1, <2>3
  <2> DEFINE sub == SubSeq(command', 1, n)
  <2>5. Len(sub) = Len(text) /\ sub \in Seq(Printable) /\ \A k \in 1 .. Len(sub) : sub[k] = text[k]
    BY <2>3, <2>4 DEF n
  <2> HIDE DEF sub
  <2>6. sub = text
    BY <1>1, <2>5, SeqEqual
  <2> QED
    BY <2>6 DEF sub
<1> QED
  BY <1>3, <1>6, <1>7

-----------------------------------------------------------------------------
(* Numbers in digits. *)

\* The digits that are left are those of a smaller number.
LEMMA TenthSmaller ==
    ASSUME NEW n \in Nat, n # 0
    PROVE  n \div 10 \in Nat /\ n \div 10 < n /\ n % 10 \in 0 .. 9
  OBVIOUS

\* What is left of a number without its last digit.
LEMMA TenthOf ==
    ASSUME NEW n \in Nat
    PROVE  /\ n < 10 => n \div 10 = 0 /\ n % 10 = n
           /\ n >= 10 => n \div 10 # 0
  OBVIOUS

\* f is what command_pid finds, for the numbers up to n.
Approximates(f, n) ==
    /\ f \in [0 .. n -> Seq(0 .. 9)]
    /\ f[0] = <<>>
    /\ \A v \in 1 .. n : f[v] = <<v % 10>> \o f[v \div 10]

\* Up to any number the digits are approximated.
LEMMA Approximated == \A n \in Nat : \E f : Approximates(f, n)
<1> DEFINE S == {n \in Nat : ~\E f : Approximates(f, n)}
<1> SUFFICES ASSUME S # {} PROVE FALSE
  OBVIOUS
<1>1. PICK n \in S : \A m \in S : n <= m
  BY LeastFound
<1>2. n \in Nat /\ ~\E f : Approximates(f, n)
  OBVIOUS
<1>3. CASE n = 0
  <2> DEFINE f == [v \in 0 .. 0 |-> <<>>]
  <2>1. <<>> \in Seq(0 .. 9)
    OBVIOUS
  <2>2. Approximates(f, 0)
    BY <2>1 DEF Approximates
  <2> QED
    BY <1>2, <1>3, <2>2
<1>4. CASE n # 0
  <2>1. n - 1 \in Nat /\ ~(n <= n - 1) /\ n \in 1 .. n /\ n \notin 0 .. n - 1 /\ 0 \in 0 .. n - 1
    BY <1>2, <1>4
  <2>2. n - 1 \notin S
    BY <1>1, <2>1
  <2>3. PICK g : Approximates(g, n - 1)
    BY <2>1, <2>2
  <2>4. n \div 10 \in 0 .. n - 1 /\ n % 10 \in 0 .. 9
    BY <1>2, <1>4, TenthSmaller
  <2> DEFINE f == [v \in 0 .. n |-> IF v = n THEN <<n % 10>> \o g[n \div 10] ELSE g[v]]
  <2>5. g \in [0 .. n - 1 -> Seq(0 .. 9)] /\ g[0] = <<>>
        /\ \A v \in 1 .. n - 1 : g[v] = <<v % 10>> \o g[v \div 10]
    BY <2>3 DEF Approximates
  <2>6. <<n % 10>> \o g[n \div 10] \in Seq(0 .. 9)
    <3>1. <<n % 10>> \in Seq(0 .. 9) /\ g[n \div 10] \in Seq(0 .. 9)
      BY <2>4, <2>5
    <3> QED
      BY <3>1, ConcatProperties
  <2>7. ASSUME NEW v \in 0 .. n, v # n
        PROVE  v \in 0 .. n - 1 /\ g[v] \in Seq(0 .. 9)
    BY <1>2, <2>5, <2>7
  <2>8. f \in [0 .. n -> Seq(0 .. 9)]
    BY <2>6, <2>7
  <2>9. f[n] = <<n % 10>> \o g[n \div 10] /\ \A v \in 0 .. n - 1 : f[v] = g[v]
    BY <1>2, <2>1
  <2> HIDE DEF f
  <2>10. f[0] = <<>>
    BY <2>1, <2>5, <2>9
  <2>11. ASSUME NEW v \in 1 .. n
         PROVE  f[v] = <<v % 10>> \o f[v \div 10]
    <3>1. v \in Nat /\ v # 0 /\ v \div 10 \in Nat /\ v \div 10 < v /\ v <= n
      BY TenthSmaller
    <3>2. v \div 10 \in 0 .. n - 1
      BY <1>2, <3>1
    <3>3. f[v \div 10] = g[v \div 10]
      BY <2>9, <3>2
    <3>4. CASE v = n
      BY <2>9, <3>3, <3>4
    <3>5. CASE v # n
      <4>1. v \in 1 .. n - 1 /\ v \in 0 .. n - 1
        BY <1>2, <3>1, <3>5
      <4> QED
        BY <2>5, <2>9, <3>3, <4>1
    <3> QED
      BY <3>4, <3>5
  <2>12. Approximates(f, n)
    BY <2>8, <2>10, <2>11 DEF Approximates
  <2> QED
    BY <1>2, <2>12
<1> QED
  BY <1>3, <1>4

\* Two of them agree on every number both are about.
LEMMA ApproximationsAgree ==
    ASSUME NEW n \in Nat, NEW m \in Nat, n <= m,
           NEW f, Approximates(f, n), NEW g, Approximates(g, m)
    PROVE  \A v \in 0 .. n : f[v] = g[v]
<1> DEFINE S == {v \in 0 .. n : f[v] # g[v]}
<1> SUFFICES ASSUME S # {} PROVE FALSE
  OBVIOUS
<1>1. S \in SUBSET Nat
  OBVIOUS
<1>2. PICK v \in S : \A u \in S : v <= u
  BY <1>1, LeastFound
<1>3. v \in 0 .. n /\ f[v] # g[v] /\ v \in Nat
  BY <1>1
<1>4. v # 0
  BY <1>3 DEF Approximates
<1>5. v \div 10 \in Nat /\ v \div 10 < v
  BY <1>3, <1>4, TenthSmaller
<1>6. v \div 10 \in 0 .. n /\ ~(v <= v \div 10)
  BY <1>3, <1>5
<1>7. f[v \div 10] = g[v \div 10]
  BY <1>2, <1>6
<1>8. v \in 1 .. n /\ v \in 1 .. m
  BY <1>3, <1>4
<1>9. f[v] = <<v % 10>> \o f[v \div 10] /\ g[v] = <<v % 10>> \o g[v \div 10]
  BY <1>8 DEF Approximates
<1> QED
  BY <1>3, <1>7, <1>9

\* What command_pid computes: its function exists.
LEMMA LowestIs ==
    /\ Lowest \in [Nat -> Seq(0 .. 9)]
    /\ Lowest[0] = <<>>
    /\ \A v \in Nat \ {0} : Lowest[v] = <<v % 10>> \o Lowest[v \div 10]
<1> DEFINE A(n) == CHOOSE f : Approximates(f, n)
           L == [n \in Nat |-> A(n)[n]]
           E(f) == f = [v \in Nat |-> IF v = 0 THEN <<>> ELSE <<v % 10>> \o f[v \div 10]]
<1>1. \A n \in Nat : Approximates(A(n), n)
  BY Approximated
<1> HIDE DEF A
<1>2. ASSUME NEW v \in Nat, v # 0
      PROVE  L[v] = <<v % 10>> \o L[v \div 10]
  <2>1. v \div 10 \in Nat /\ v \div 10 < v /\ v \div 10 <= v /\ v \div 10 \in 0 .. v \div 10
    BY <1>2, TenthSmaller
  <2>2. A(v)[v] = <<v % 10>> \o A(v)[v \div 10]
    <3>1. v \in 1 .. v
      BY <1>2
    <3> QED
      BY <1>1, <3>1 DEF Approximates
  <2>3. A(v \div 10)[v \div 10] = A(v)[v \div 10]
    BY <1>1, <2>1, ApproximationsAgree
  <2> QED
    BY <2>1, <2>2, <2>3
<1>3. L[0] = <<>>
  BY <1>1 DEF Approximates
<1>5. E(L)
  BY <1>2, <1>3
<1>6. E(Lowest)
  BY <1>5 DEF Lowest
<1>7. /\ DOMAIN Lowest = Nat /\ Lowest = [v \in Nat |-> Lowest[v]] /\ Lowest[0] = <<>>
      /\ \A v \in Nat \ {0} : Lowest[v] = <<v % 10>> \o Lowest[v \div 10]
  BY <1>6
<1> HIDE DEF L, E
<1> DEFINE S == {v \in Nat : Lowest[v] \notin Seq(0 .. 9)}
<1>8. ASSUME S # {} PROVE FALSE
  <2>1. PICK v \in S : \A u \in S : v <= u
    BY <1>8, LeastFound
  <2>2. v \in Nat /\ v # 0
    <3>1. <<>> \in Seq(0 .. 9)
      OBVIOUS
    <3> QED
      BY <1>7, <3>1
  <2>3. v \div 10 \in Nat /\ ~(v <= v \div 10) /\ v % 10 \in 0 .. 9
    BY <2>2, TenthSmaller
  <2>4. Lowest[v \div 10] \in Seq(0 .. 9) /\ <<v % 10>> \in Seq(0 .. 9)
    BY <2>1, <2>3
  <2>5. Lowest[v] \in Seq(0 .. 9)
    BY <1>7, <2>2, <2>4, ConcatProperties
  <2> QED
    BY <2>5
<1>9. \A v \in Nat : Lowest[v] \in Seq(0 .. 9)
  BY <1>8
<1> QED
  BY <1>7, <1>9

\* A sequence with one more in front, the other way round.
LEMMA ReverseLonger ==
    ASSUME NEW S, NEW a \in S, NEW s \in Seq(S)
    PROVE  /\ Reverse(s) \in Seq(S)
           /\ Reverse(<<a>> \o s) = Append(Reverse(s), a)
<1>1. Len(s) \in Nat /\ s \in [1 .. Len(s) -> S]
  BY LenProperties
<1> DEFINE n == Len(s)
           t == <<a>> \o s
<1>2. <<a>> \in Seq(S) /\ Len(<<a>>) = 1 /\ <<a>>[1] = a
  OBVIOUS
<1>3. /\ t \in Seq(S) /\ Len(t) = 1 + n
      /\ \A k \in 1 .. 1 + n : t[k] = IF k <= 1 THEN a ELSE s[k - 1]
  <2>1. /\ t \in Seq(S) /\ Len(t) = 1 + n
        /\ \A k \in 1 .. 1 + n : t[k] = IF k <= 1 THEN <<a>>[k] ELSE s[k - 1]
    BY <1>2, ConcatProperties
  <2> HIDE DEF t
  <2>2. ASSUME NEW k \in 1 .. 1 + n PROVE t[k] = IF k <= 1 THEN a ELSE s[k - 1]
    <3>1. k <= 1 => k = 1
      BY <1>1
    <3> QED
      BY <1>2, <2>1, <3>1
  <2> QED
    BY <2>1, <2>2
<1> HIDE DEF t, n
<1>4. n \in Nat /\ s \in [1 .. n -> S] /\ Len(s) = n
  BY <1>1 DEF n
<1>5. Reverse(s) = [k \in 1 .. n |-> s[(n - k) + 1]]
  BY <1>4 DEF Reverse
<1>6. \A k \in 1 .. n : (n - k) + 1 \in 1 .. n
  BY <1>4
<1>7. Reverse(s) \in [1 .. n -> S]
  BY <1>4, <1>5, <1>6
<1>8. Reverse(s) \in Seq(S) /\ Len(Reverse(s)) = n
  BY <1>4, <1>7
<1> DEFINE r == Reverse(s)
<1>9. /\ Append(r, a) \in Seq(S) /\ Len(Append(r, a)) = n + 1
      /\ \A k \in 1 .. n : Append(r, a)[k] = r[k]
      /\ Append(r, a)[n + 1] = a
  BY <1>8, AppendProperties
<1>10. /\ Reverse(t) = [k \in 1 .. 1 + n |-> t[((1 + n) - k) + 1]]
  BY <1>3 DEF Reverse
<1>11. ASSUME NEW k \in 1 .. 1 + n
       PROVE  t[((1 + n) - k) + 1] = Append(r, a)[k]
  <2>1. CASE k = n + 1
    <3>1. ((1 + n) - k) + 1 = 1 /\ 1 \in 1 .. 1 + n
      BY <1>4, <2>1
    <3>2. t[1] = a
      BY <1>3, <3>1
    <3> QED
      BY <1>9, <2>1, <3>1, <3>2
  <2>2. CASE k # n + 1
    <3>1. /\ k \in 1 .. n /\ ((1 + n) - k) + 1 \in 1 .. 1 + n /\ ~(((1 + n) - k) + 1 <= 1)
          /\ (((1 + n) - k) + 1) - 1 = (n - k) + 1
      BY <1>4, <2>2
    <3>2. t[((1 + n) - k) + 1] = s[(n - k) + 1]
      BY <1>3, <3>1
    <3>3. r[k] = s[(n - k) + 1]
      BY <1>5, <3>1
    <3> QED
      BY <1>9, <3>1, <3>2, <3>3
  <2> QED
    BY <2>1, <2>2
<1>12. Append(r, a) = [k \in 1 .. 1 + n |-> Append(r, a)[k]]
  <2>1. n + 1 = 1 + n
    BY <1>4
  <2> QED
    BY <1>9, <2>1, LenProperties
<1>13. Reverse(t) = Append(r, a)
  BY <1>10, <1>11, <1>12
<1> QED
  BY <1>8, <1>13 DEF t

\* The digits the other way round are the decimal digits.
LEMMA DigitsAre ==
    ASSUME NEW n \in Nat
    PROVE  /\ Digits(n) \in Seq(0 .. 9)
           /\ Digits(n) = IF n < 10 THEN <<n>> ELSE Append(Digits(n \div 10), n % 10)
<1>1. CASE n = 0
  <2>1. Digits(n) = <<n>>
    BY <1>1 DEF Digits
  <2>2. <<n>> \in Seq(0 .. 9)
    BY <1>1
  <2>3. n < 10
    BY <1>1
  <2> QED
    BY <2>1, <2>2, <2>3, Zenon
<1>2. CASE n # 0
  <2>1. n \div 10 \in Nat /\ n % 10 \in 0 .. 9
    BY <1>2, TenthSmaller
  <2>2. Digits(n) = Reverse(<<n % 10>> \o Lowest[n \div 10]) /\ Lowest[n \div 10] \in Seq(0 .. 9)
    BY <1>2, <2>1, LowestIs DEF Digits
  <2>3. /\ Reverse(Lowest[n \div 10]) \in Seq(0 .. 9)
        /\ Digits(n) = Append(Reverse(Lowest[n \div 10]), n % 10)
    BY <2>1, <2>2, ReverseLonger
  <2>4. Digits(n) \in Seq(0 .. 9)
    BY <2>1, <2>3, AppendProperties
  <2>5. CASE n < 10
    <3>1. n \div 10 = 0 /\ n % 10 = n
      BY <2>5, TenthOf
    <3>2. Reverse(Lowest[n \div 10]) = <<>>
      BY <3>1, LowestIs DEF Reverse
    <3>3. Append(<<>>, n) = <<n>>
      OBVIOUS
    <3> QED
      BY <2>3, <2>4, <2>5, <3>1, <3>2, <3>3
  <2>6. CASE ~(n < 10)
    <3>1. n \div 10 # 0
      BY <2>6, TenthOf
    <3> QED
      BY <2>3, <2>4, <2>6, <3>1 DEF Digits
  <2> QED
    BY <2>4, <2>5, <2>6
<1> QED
  BY <1>1, <1>2

\* The digits command_pid writes are the decimal digits (user_shell.c:313-340).
LEMMA DigitsDecimal ==
    /\ \A n \in Nat : Digits(n) = Decimal[n]
    /\ Decimal[Pid] \in Seq(0 .. 9)
<1> DEFINE D == [n \in Nat |-> Digits(n)]
           E(f) == f = [n \in Nat |-> IF n < 10 THEN <<n>> ELSE Append(f[n \div 10], n % 10)]
<1>1. E(D)
  <2>1. ASSUME NEW n \in Nat
        PROVE  D[n] = IF n < 10 THEN <<n>> ELSE Append(D[n \div 10], n % 10)
    <3>1. n \div 10 \in Nat
      OBVIOUS
    <3> QED
      BY <3>1, DigitsAre
  <2>2. D = [n \in Nat |-> D[n]]
    OBVIOUS
  <2> HIDE DEF D
  <2> QED
    BY <2>1, <2>2
<1> HIDE DEF D
<1>2. E(Decimal)
  BY <1>1 DEF Decimal
<1>3. \A n \in Nat : Decimal[n] = IF n < 10 THEN <<n>> ELSE Append(Decimal[n \div 10], n % 10)
  BY <1>2
<1> HIDE DEF E
<1> DEFINE S == {n \in Nat : Digits(n) # Decimal[n]}
<1>4. ASSUME S # {} PROVE FALSE
  <2>1. PICK n \in S : \A m \in S : n <= m
    BY <1>4, LeastFound
  <2>2. n \in Nat /\ Digits(n) # Decimal[n]
    OBVIOUS
  <2>3. CASE n < 10
    BY <1>3, <2>2, <2>3, DigitsAre
  <2>4. CASE ~(n < 10)
    <3>1. n # 0
      BY <2>2, <2>4
    <3>2. n \div 10 \in Nat /\ ~(n <= n \div 10)
      BY <2>2, <3>1, TenthSmaller
    <3>3. Digits(n \div 10) = Decimal[n \div 10]
      BY <2>1, <3>2
    <3> QED
      BY <1>3, <2>2, <2>4, <3>3, DigitsAre
  <2> QED
    BY <2>3, <2>4
<1>5. \A n \in Nat : Digits(n) = Decimal[n]
  BY <1>4
<1>6. Pid \in Nat
  BY InputsAssumption
<1> QED
  BY <1>5, <1>6, DigitsAre

\* The answer to "pid" fits into one call.
LEMMA PidText ==
    LET text == Spelled(Decimal[Pid]) \o newline
    IN  text = Spelled(Digits(Pid)) \o newline /\ text \in Seq(Bytes) /\ Len(text) <= MAX_LENGTH
<1> DEFINE digits == Decimal[Pid]
<1>1. digits = Digits(Pid) /\ digits \in Seq(0 .. 9)
  BY InputsAssumption, DigitsDecimal
<1> HIDE DEF digits
<1>2. Len(digits) \in Nat /\ digits \in [1 .. Len(digits) -> 0 .. 9] /\ DOMAIN digits = 1 .. Len(digits)
  BY <1>1
<1>3. Spelled(digits) \in [1 .. Len(digits) -> Bytes]
  BY <1>2, TextsAssumption DEF Spelled
<1>4. Spelled(digits) \in Seq(Bytes) /\ Len(Spelled(digits)) = Len(digits)
  BY <1>2, <1>3
<1>5. newline \in Seq(Bytes)
  BY TextsFit, Named
<1>6. Spelled(digits) \o newline \in Seq(Bytes)
      /\ Len(Spelled(digits) \o newline) = Len(digits) + Len(newline)
  <2> DEFINE spelled == Spelled(digits)
  <2> HIDE DEF spelled
  <2>1. spelled \in Seq(Bytes) /\ Len(spelled) = Len(digits)
    BY <1>4 DEF spelled
  <2>2. spelled \o newline \in Seq(Bytes) /\ Len(spelled \o newline) = Len(spelled) + Len(newline)
    BY <1>5, <2>1, ConcatProperties, Zenon
  <2> QED
    BY <2>1, <2>2 DEF spelled
<1>7. Len(digits) + Len(newline) <= MAX_LENGTH
  BY TextsAssumption DEF digits
<1> QED
  BY <1>1, <1>6, <1>7 DEF digits

-----------------------------------------------------------------------------
(* Commands and answers. *)

\* The commands differ, none is empty, and none begins with a prefix.
LEMMA WordsDiffer ==
    /\ help_command \notin {pid_command, memtest_command, exit_command, echo_command, cat_command}
    /\ pid_command \notin {memtest_command, exit_command, echo_command, cat_command}
    /\ memtest_command \notin {exit_command, echo_command, cat_command}
    /\ exit_command \notin {echo_command, cat_command}
    /\ echo_command # cat_command
    /\ commands = {help_command, pid_command, memtest_command, exit_command, echo_command, cat_command}
<1>1. /\ words[1] = help_command /\ words[2] = pid_command /\ words[3] = memtest_command
      /\ words[4] = exit_command /\ words[5] = echo_command /\ words[6] = cat_command
  BY DEF words
<1>2. \A i, j \in 1 .. 6 : words[i] = words[j] => i = j
  BY StringsAssumption
<1>3. 1 \in 1 .. 6 /\ 2 \in 1 .. 6 /\ 3 \in 1 .. 6 /\ 4 \in 1 .. 6 /\ 5 \in 1 .. 6 /\ 6 \in 1 .. 6
  OBVIOUS
<1>4. help_command \notin {pid_command, memtest_command, exit_command, echo_command, cat_command}
  BY <1>1, <1>2, <1>3
<1>5. pid_command \notin {memtest_command, exit_command, echo_command, cat_command}
  BY <1>1, <1>2, <1>3
<1>6. memtest_command \notin {exit_command, echo_command, cat_command}
  BY <1>1, <1>2, <1>3
<1>7. exit_command \notin {echo_command, cat_command} /\ echo_command # cat_command
  BY <1>1, <1>2, <1>3
<1>8. commands = {help_command, pid_command, memtest_command, exit_command, echo_command, cat_command}
  <2>1. 1 .. 6 = {1, 2, 3, 4, 5, 6}
    OBVIOUS
  <2> QED
    BY <1>1, <2>1 DEF commands
<1> QED
  BY <1>4, <1>5, <1>6, <1>7, <1>8

\* What follows a prefix.
LEMMA PrefixFacts ==
    ASSUME NEW p \in Seq(Bytes), NEW t \in Seq(Bytes), IsPrefix(p, t)
    PROVE  /\ After(p, t) \in Seq(Bytes) /\ Len(After(p, t)) = Len(t) - Len(p)
           /\ Len(p) <= Len(t) /\ \A k \in 1 .. Len(p) : t[k] = p[k]
           /\ After(p, t) = <<>> <=> t = p
<1> DEFINE m == Len(p)
           n == Len(t)
           i == m + 1
<1>1. m \in Nat /\ n \in Nat /\ m <= n /\ SubSeq(p, 1, m) = SubSeq(t, 1, m)
      /\ p \in [1 .. m -> Bytes] /\ t \in [1 .. n -> Bytes]
  BY LenProperties DEF IsPrefix
<1>2. /\ i \in Int /\ n \in Int /\ m \in Int /\ 1 \in Int /\ (i <= n => n - i + 1 = n - m)
      /\ (~(i <= n) => n - m = 0) /\ (n - m = 0 => m = n) /\ m - 1 + 1 = m /\ i >= 1
      /\ \A k \in 1 .. m : 1 + k - 1 = k /\ k \in 1 .. n
      /\ \A k \in i .. n : k \in 1 .. n
  <2>1. i \in Int /\ n \in Int /\ m \in Int /\ 1 \in Int /\ i = m + 1 /\ m <= n /\ 0 <= m
    BY <1>1
  <2> HIDE DEF i, n, m
  <2> QED
    BY <2>1
<1> HIDE DEF i, m, n
<1>3. \A k \in i .. n : t[k] \in Bytes
  BY <1>1, <1>2
<1>4. SubSeq(t, i, n) \in Seq(Bytes) /\ Len(SubSeq(t, i, n)) = n - m
  BY <1>2, <1>3, SubSeqProperties
<1>5. After(p, t) = SubSeq(t, i, n)
  BY DEF After, i, n, m
<1>6. \A k \in 1 .. m : t[k] = p[k]
  <2>1. \A k \in 1 .. m : p[k] \in Bytes /\ t[k] \in Bytes
    BY <1>1, <1>2
  <2>2. \A k \in 1 .. m - 1 + 1 : SubSeq(p, 1, m)[k] = p[1 + k - 1] /\ SubSeq(t, 1, m)[k] = t[1 + k - 1]
    BY <1>2, <2>1, SubSeqProperties
  <2> QED
    BY <1>1, <1>2, <2>2
<1>7. ASSUME n - m = 0 PROVE t = p
  <2>1. m = n
    BY <1>2, <1>7
  <2> QED
    BY <1>1, <1>6, <2>1, SeqEqual DEF m, n
<1>8. t = p => n - m = 0
  BY <1>1 DEF m, n
<1>9. After(p, t) = <<>> => n - m = 0
  BY <1>4, <1>5, EmptySeq
<1>10. ASSUME n - m = 0 PROVE After(p, t) = <<>>
  <2>1. Len(SubSeq(t, i, n)) = 0
    BY <1>4, <1>10
  <2> QED
    BY <1>4, <1>5, <2>1, EmptySeq
<1>11. After(p, t) = <<>> <=> t = p
  BY <1>7, <1>8, <1>9, <1>10
<1> QED
  BY <1>1, <1>4, <1>5, <1>6, <1>11 DEF m, n

\* It is enough to compare the characters.
LEMMA PrefixIf ==
    ASSUME NEW p \in Seq(Bytes), NEW t \in Seq(Bytes), Len(p) <= Len(t),
           \A k \in 1 .. Len(p) : t[k] = p[k]
    PROVE  IsPrefix(p, t)
<1> DEFINE m == Len(p)
           n == Len(t)
<1>1. m \in Nat /\ n \in Nat /\ p \in [1 .. m -> Bytes] /\ t \in [1 .. n -> Bytes]
  BY LenProperties
<1>2. 1 \in Int /\ m \in Int /\ m - 1 + 1 = m /\ (1 <= m => m = m - 1 + 1) /\ (~(1 <= m) => m = 0)
      /\ \A k \in 1 .. m : 1 + k - 1 = k /\ k \in 1 .. n
  BY <1>1
<1>3. \A k \in 1 .. m : p[k] \in Bytes /\ t[k] \in Bytes /\ t[k] = p[k]
  BY <1>1, <1>2
<1> HIDE DEF m, n
<1> DEFINE a == SubSeq(p, 1, m)
           b == SubSeq(t, 1, m)
<1>4. /\ a \in Seq(Bytes) /\ Len(a) = m /\ \A k \in 1 .. m : a[k] = p[1 + k - 1]
      /\ b \in Seq(Bytes) /\ Len(b) = m /\ \A k \in 1 .. m : b[k] = t[1 + k - 1]
  BY <1>2, <1>3, SubSeqProperties
<1>5. \A k \in 1 .. Len(a) : a[k] = b[k]
  BY <1>2, <1>3, <1>4
<1> HIDE DEF a, b
<1>6. a = b
  BY <1>4, <1>5, SeqEqual
<1> QED
  BY <1>6 DEF IsPrefix, a, b, m, n

\* No line begins with both prefixes, and no command with one of them.
LEMMA PrefixesDiffer ==
    ASSUME NEW t \in Seq(Bytes)
    PROVE  /\ ~(IsPrefix(echo_prefix, t) /\ IsPrefix(cat_prefix, t))
           /\ IsPrefix(echo_prefix, t) => t # <<>> /\ t \notin commands
           /\ IsPrefix(cat_prefix, t) => t # <<>> /\ t \notin commands
           /\ IsPrefix(cat_prefix, cat_prefix)
<1>1. /\ echo_prefix \in Seq(Bytes) /\ Len(echo_prefix) \in Nat
      /\ cat_prefix \in Seq(Bytes) /\ Len(cat_prefix) \in Nat
  BY TextsFit
<1>2. ASSUME IsPrefix(echo_prefix, t), IsPrefix(cat_prefix, t)
      PROVE  FALSE
  <2>1. \A k \in 1 .. Len(echo_prefix) : t[k] = echo_prefix[k]
    BY <1>1, <1>2, PrefixFacts
  <2>2. \A k \in 1 .. Len(cat_prefix) : t[k] = cat_prefix[k]
    BY <1>1, <1>2, PrefixFacts
  <2>3. CASE Len(echo_prefix) <= Len(cat_prefix)
    <3>1. \A k \in 1 .. Len(echo_prefix) : cat_prefix[k] = echo_prefix[k]
      <4> TAKE k \in 1 .. Len(echo_prefix)
      <4>1. k \in 1 .. Len(cat_prefix)
        BY <1>1, <2>3
      <4> QED
        BY <2>1, <2>2, <4>1
    <3> QED
      BY <1>1, <2>3, <3>1, PrefixIf, StringsAssumption
  <2>4. CASE Len(cat_prefix) <= Len(echo_prefix)
    <3>1. \A k \in 1 .. Len(cat_prefix) : echo_prefix[k] = cat_prefix[k]
      <4> TAKE k \in 1 .. Len(cat_prefix)
      <4>1. k \in 1 .. Len(echo_prefix)
        BY <1>1, <2>4
      <4> QED
        BY <2>1, <2>2, <4>1
    <3> QED
      BY <1>1, <2>4, <3>1, PrefixIf, StringsAssumption
  <2> QED
    BY <1>1, <2>3, <2>4
<1>3. Len(echo_prefix) >= 1 /\ Len(cat_prefix) >= 1
  <2>1. Space \in Bytes /\ echo_command \in Seq(Bytes) /\ cat_command \in Seq(Bytes)
    BY TextsFit, Named
  <2> QED
    BY <2>1 DEF echo_prefix, cat_prefix
<1>4. IsPrefix(cat_prefix, cat_prefix)
  BY <1>1, PrefixIf
<1>5. ~IsPrefix(echo_prefix, <<>>) /\ ~IsPrefix(cat_prefix, <<>>)
  BY <1>1, <1>3 DEF IsPrefix
<1> QED
  BY <1>2, <1>4, <1>5, StringsAssumption

\* The cases of Answer exclude each other.
LEMMA Answers ==
    ASSUME NEW t \in Seq(Bytes)
    PROVE  /\ t = <<>> => Answer(t) = <<>> /\ t # exit_command
           /\ t = help_command => Answer(t) = help_text /\ t # exit_command
           /\ t = pid_command => Answer(t) = Spelled(Decimal[Pid]) \o newline /\ t # exit_command
           /\ t = memtest_command => Answer(t) = memtest_ok /\ t # exit_command
           /\ t = echo_command => Answer(t) = newline /\ t # exit_command
           /\ IsPrefix(echo_prefix, t) => Answer(t) = After(echo_prefix, t) \o newline /\ t # exit_command
           /\ t \in {cat_command, cat_prefix} => Answer(t) = cat_usage /\ t # exit_command
           /\ IsPrefix(cat_prefix, t) /\ t # cat_prefix =>
                 /\ After(cat_prefix, t) = HelloPath => Answer(t) = HelloText
                 /\ After(cat_prefix, t) # HelloPath => Answer(t) = cat_error
                 /\ t # exit_command
           /\ t # <<>> /\ t \notin commands \ {exit_command} /\ ~IsPrefix(echo_prefix, t) /\ ~IsPrefix(cat_prefix, t)
                 => Answer(t) = unknown_text
<1>1. /\ ~(IsPrefix(echo_prefix, t) /\ IsPrefix(cat_prefix, t))
      /\ IsPrefix(echo_prefix, t) => t # <<>> /\ t \notin commands
      /\ IsPrefix(cat_prefix, t) => t # <<>> /\ t \notin commands
      /\ t = cat_prefix => IsPrefix(cat_prefix, t)
  BY PrefixesDiffer
<1>2. \A w \in commands : w # <<>>
  BY StringsAssumption
<1>3. CASE t = <<>>
  BY <1>1, <1>2, <1>3, WordsDiffer DEF Answer
<1>4. CASE t = help_command
  BY <1>1, <1>2, <1>4, WordsDiffer DEF Answer
<1>5. CASE t = pid_command
  BY <1>1, <1>2, <1>5, WordsDiffer DEF Answer
<1>6. CASE t = memtest_command
  BY <1>1, <1>2, <1>6, WordsDiffer DEF Answer
<1>7. CASE t = echo_command
  BY <1>1, <1>2, <1>7, WordsDiffer DEF Answer
<1>8. CASE IsPrefix(echo_prefix, t)
  BY <1>1, <1>2, <1>8, WordsDiffer DEF Answer
<1>9. CASE t = cat_command
  BY <1>1, <1>2, <1>9, WordsDiffer DEF Answer
<1>10. CASE t = cat_prefix
  BY <1>1, <1>2, <1>10, WordsDiffer DEF Answer
<1>11. CASE IsPrefix(cat_prefix, t) /\ t # cat_prefix
  BY <1>1, <1>2, <1>11, WordsDiffer DEF Answer
<1>12. CASE t = exit_command
  BY <1>1, <1>2, <1>12, WordsDiffer DEF Answer
<1>13. CASE t # <<>> /\ t \notin commands /\ ~IsPrefix(echo_prefix, t) /\ ~IsPrefix(cat_prefix, t)
  BY <1>1, <1>2, <1>13, WordsDiffer DEF Answer
<1> QED
  BY <1>3, <1>4, <1>5, <1>6, <1>7, <1>8, <1>9, <1>10, <1>11, <1>12, <1>13, WordsDiffer

\* An answer is a text.
LEMMA AnswerText ==
    ASSUME NEW t \in Seq(Bytes)
    PROVE  Answer(t) \in Seq(Bytes)
<1>1. /\ help_text \in Seq(Bytes) /\ unknown_text \in Seq(Bytes) /\ cat_usage \in Seq(Bytes)
      /\ cat_error \in Seq(Bytes) /\ memtest_ok \in Seq(Bytes) /\ newline \in Seq(Bytes)
      /\ HelloText \in Seq(Bytes) /\ <<>> \in Seq(Bytes)
      /\ Spelled(Decimal[Pid]) \o newline \in Seq(Bytes)
  BY TextsFit, Named, PidText, InputsAssumption
<1>2. CASE IsPrefix(echo_prefix, t)
  <2>1. After(echo_prefix, t) \in Seq(Bytes)
    BY <1>2, TextsFit, PrefixFacts
  <2>2. After(echo_prefix, t) \o newline \in Seq(Bytes)
    BY <1>1, <2>1, ConcatProperties
  <2> QED
    BY <1>2, <2>2, Answers
<1>3. CASE ~IsPrefix(echo_prefix, t)
  <2>1. CASE IsPrefix(cat_prefix, t)
    BY <1>1, <2>1, Answers
  <2>2. CASE ~IsPrefix(cat_prefix, t) /\ t \in commands
    BY <1>1, <1>3, <2>2, Answers, WordsDiffer, StringsAssumption
  <2>3. CASE ~IsPrefix(cat_prefix, t) /\ t \notin commands
    BY <1>1, <1>3, <2>3, Answers
  <2> QED
    BY <2>1, <2>2, <2>3
<1> QED
  BY <1>2, <1>3

-----------------------------------------------------------------------------
(* The steps of the shell. *)

\* Where the shell is tells what is known.
LEMMA PlaceIs ==
    ASSUME Somewhere
    PROVE  /\ at = "banner" => AtBanner
           /\ at = "prompt" => AtPrompt
           /\ at = "ask" => AtAsk
           /\ at = "line" => AtLine
           /\ at = "parse" => AtParse
           /\ at = "pid" => AtPid
           /\ at = "exited" => AtExited
           /\ at = "newline" => AtNewline
           /\ at \in {"kernel address", "readonly buffer", "verdict"} => AtMemtest
           /\ at = "opened" => AtOpened
           /\ at = "cat" => AtCat
           /\ at = "counted" => AtCounted
           /\ at = "close" => AtClose
<1>1. /\ AtBanner => at = "banner"
      /\ AtPrompt => at = "prompt"
      /\ AtAsk => at = "ask"
      /\ AtLine => at = "line"
      /\ AtParse => at = "parse"
      /\ AtPid => at = "pid"
      /\ AtExited => at = "exited"
      /\ AtNewline => at = "newline"
      /\ AtMemtest => at \in {"kernel address", "readonly buffer", "verdict"}
      /\ AtOpened => at = "opened"
      /\ AtCat => at = "cat"
      /\ AtCounted => at = "counted"
      /\ AtClose => at = "close"
  <2>1. AtBanner => at = "banner" BY DEF AtBanner
  <2>2. AtPrompt => at = "prompt" BY DEF AtPrompt
  <2>3. AtAsk => at = "ask" BY DEF AtAsk
  <2>4. AtLine => at = "line" BY DEF AtLine
  <2>5. AtParse => at = "parse" BY DEF AtParse
  <2>6. AtPid => at = "pid" BY DEF AtPid
  <2>7. AtExited => at = "exited" BY DEF AtExited
  <2>8. AtNewline => at = "newline" BY DEF AtNewline
  <2>9. AtMemtest => at \in {"kernel address", "readonly buffer", "verdict"} BY DEF AtMemtest
  <2>10. AtOpened => at = "opened" BY DEF AtOpened
  <2>11. AtCat => at = "cat" BY DEF AtCat
  <2>12. AtCounted => at = "counted" BY DEF AtCounted
  <2>13. AtClose => at = "close" BY DEF AtClose
  <2> QED BY <2>1, <2>2, <2>3, <2>4, <2>5, <2>6, <2>7, <2>8, <2>9, <2>10, <2>11, <2>12, <2>13
<1> QED
  BY <1>1 DEF Somewhere

\* A shell that computes is not in a call.
LEMMA Computing ==
    ASSUME NEW arguments, NEW next, user_syscall3(arguments, next)
    PROVE  pc = "user"
  BY DEF user_syscall3

\* The texts and the empty beginning.
LEMMA FromNothing ==
    ASSUME NEW text \in Seq(Bytes)
    PROVE  <<>> \o text = text
  BY ConcatEmptySeq

\* A write that completes the answer leads back to the prompt.
LEMMA ToPrompt ==
    ASSUME ShellInv, NEW text \in Seq(Bytes), Len(text) <= MAX_LENGTH, user_write(text, "prompt"),
           open_files = NoneOpen, Prompted, shown \o text = Body
    PROVE  ShellInv'
<1>1. /\ LInv' /\ at' = "prompt" /\ Saying' /\ Said' = shown \o text
      /\ UNCHANGED <<inodes, open_files, asked, command, fd, values>>
  BY WriteTraps DEF ShellInv
<1>2. Files' /\ LocalsOK'
  BY <1>1 DEF ShellInv, Files, LocalsOK
<1>3. Prompted' /\ Body' = Body
  BY <1>1 DEF Prompted, Body
<1>4. AtPrompt'
  BY <1>1, <1>3 DEF AtPrompt
<1> QED
  BY <1>1, <1>2, <1>4 DEF ShellInv, Somewhere

\* The commands that are answered with one text.
LEMMA OneText ==
    ASSUME ShellInv, NEW text \in Seq(Bytes), Len(text) <= MAX_LENGTH, user_write(text, "prompt"),
           open_files = NoneOpen, asked \in Lines, asked # exit_command, shown = <<>>,
           Answer(asked) = text
    PROVE  ShellInv'
<1>1. asked # NoLine
  BY LineIsText, CharactersAssumption
<1>2. Prompted /\ Body = text
  BY <1>1 DEF Prompted, Body
<1>3. shown \o text = Body
  BY <1>2, FromNothing
<1> QED
  BY <1>2, <1>3, ToPrompt

\* The banner is written first.
LEMMA StartStep == ASSUME ShellInv, Start PROVE ShellInv'
<1>1. AtBanner /\ user_write(banner, "prompt")
  BY PlaceIs DEF ShellInv, Start
<1>2. asked = NoLine /\ shown = <<>> /\ open_files = NoneOpen
  BY <1>1 DEF AtBanner
<1>3. banner \in Seq(Bytes) /\ Len(banner) <= MAX_LENGTH /\ exit_command \in Seq(Bytes)
  BY TextsFit, Named
<1>4. Prompted
  BY <1>2, <1>3, CharactersAssumption DEF Prompted
<1>5. shown \o banner = Body
  BY <1>2, <1>3, FromNothing DEF Body
<1> QED
  BY <1>1, <1>2, <1>3, <1>4, <1>5, ToPrompt

\* The prompt comes after the answer.
LEMMA ShowPromptStep == ASSUME ShellInv, ShowPrompt PROVE ShellInv'
<1>1. AtPrompt /\ user_write(prompt, "ask") /\ pc = "user"
  BY PlaceIs DEF ShellInv, ShowPrompt, user_write, user_syscall3
<1>2. Prompted /\ shown = Body /\ open_files = NoneOpen
  BY <1>1 DEF AtPrompt, Said
<1>3. prompt \in Seq(Bytes) /\ Len(prompt) <= MAX_LENGTH
  BY TextsFit, Named
<1>4. /\ LInv' /\ at' = "ask" /\ Saying' /\ Said' = shown \o prompt
      /\ UNCHANGED <<inodes, open_files, asked, command, fd, values>>
  BY <1>1, <1>3, WriteTraps DEF ShellInv
<1>5. Files' /\ LocalsOK'
  BY <1>4 DEF ShellInv, Files, LocalsOK
<1>6. Prompted' /\ Body' = Body
  BY <1>2, <1>4 DEF Prompted, Body
<1>7. AtAsk'
  BY <1>2, <1>4, <1>6 DEF AtAsk
<1> QED
  BY <1>4, <1>5, <1>7 DEF ShellInv, Somewhere

\* The shell asks for a line when all of the answer is shown.
LEMMA ReadLineStep == ASSUME ShellInv, ReadLine PROVE ShellInv'
<1>1. /\ AtAsk /\ user_syscall3(ReadCall(0, COMMAND_SIZE - 1), "line") /\ pc = "user"
      /\ UNCHANGED command /\ fd' = 0 /\ values' = <<>>
  BY PlaceIs DEF ShellInv, ReadLine, user_read, user_syscall3, Forget, ReadCall
<1>2. Prompted /\ shown = Body \o prompt /\ open_files = NoneOpen
  BY <1>1 DEF AtAsk, Said
<1>3. ReadCall(0, COMMAND_SIZE - 1) \in Frame
  <2>1. COMMAND_SIZE - 1 \in Nat /\ 0 \in Nat
    BY SizesAssumption, LimitsAssumption
  <2> QED
    BY <2>1, CallsAreFrames
<1>4. /\ LInv' /\ pc' = "syscall" /\ call' = ReadCall(0, COMMAND_SIZE - 1) /\ at' = "line"
      /\ UNCHANGED <<inodes, open_files, asked, shown>>
  BY <1>1, <1>3, SyscallTraps DEF ShellInv
<1>5. Files' /\ LocalsOK'
  BY <1>1, <1>4 DEF ShellInv, Files, LocalsOK
<1>6. Prompted' /\ Body' = Body
  BY <1>2, <1>4 DEF Prompted, Body
<1>7. AtLine'
  BY <1>2, <1>4, <1>6 DEF AtLine, ReadCall, NoCall
<1> QED
  BY <1>4, <1>5, <1>7 DEF ShellInv, Somewhere

\* Ended with a NUL, the buffer holds the line and nothing of an older one.
LEMMA TerminateStep == ASSUME ShellInv, Terminate PROVE ShellInv'
<1>1. AtLine /\ pc = "user" /\ UNCHANGED <<vars, screen>> /\ UNCHANGED <<data, fd, values>>
  BY PlaceIs DEF ShellInv, Terminate, Compute
<1>2. /\ asked \in Lines /\ shown = <<>> /\ result.value = Len(asked) /\ open_files = NoneOpen
      /\ \A k \in 1 .. Len(asked) : command[k] = asked[k]
  BY <1>1 DEF AtLine
<1>3. Len(asked) \in Nat /\ asked \in Seq(Bytes) /\ asked # NoLine
  BY <1>2, LineIsText, CharactersAssumption
<1>4. command' = [command EXCEPT ![Len(asked) + 1] = Nul]
  BY <1>2, <1>3 DEF Terminate
<1>5. Entered' = asked /\ command' \in [1 .. COMMAND_SIZE -> Printable \cup {Nul}]
  BY <1>2, <1>4, Terminated DEF ShellInv, LocalsOK
<1>6. LInv'
  BY <1>1, StutterLInv DEF ShellInv
<1>7. UNCHANGED <<inodes, open_files, asked, shown, pc>>
  BY <1>1 DEF vars, tables, screen
<1>8. Files' /\ LocalsOK'
  BY <1>1, <1>5, <1>7 DEF ShellInv, Files, LocalsOK
<1>9. CASE asked = <<>>
  <2>1. at' = "prompt"
    BY <1>2, <1>9 DEF Terminate, Compute
  <2>2. Answer(asked) = <<>> /\ asked # exit_command
    BY <1>3, <1>9, Answers
  <2>3. AtPrompt'
    BY <1>1, <1>2, <1>3, <1>7, <2>1, <2>2 DEF AtPrompt, Prompted, Saying, Said, Body
  <2> QED
    BY <1>6, <1>8, <2>3 DEF ShellInv, Somewhere
<1>10. CASE asked # <<>>
  <2>1. result.value > 0
    BY <1>2, <1>3, <1>10, EmptySeq
  <2>2. at' = "parse"
    BY <1>2, <1>3, <2>1 DEF Terminate, Compute
  <2>3. AtParse'
    BY <1>1, <1>2, <1>5, <1>7, <1>10, <2>2 DEF AtParse
  <2> QED
    BY <1>6, <1>8, <2>3 DEF ShellInv, Somewhere
<1> QED
  BY <1>9, <1>10

\* What a command finds.
LEMMA Parsed ==
    ASSUME ShellInv, at = "parse"
    PROVE  /\ open_files = NoneOpen /\ asked \in Lines /\ asked \in Seq(Bytes) /\ asked # <<>>
           /\ shown = <<>> /\ Entered = asked
<1>1. AtParse
  BY PlaceIs DEF ShellInv
<1> QED
  BY <1>1, LineIsText DEF AtParse

\* The commands answered with one text.
LEMMA TextSteps == ASSUME ShellInv, Help \/ Echo \/ Unknown \/ CatUsage PROVE ShellInv'
<1>1. at = "parse"
  BY DEF Help, Echo, Unknown, CatUsage, Is, Begins
<1>2. /\ open_files = NoneOpen /\ asked \in Lines /\ asked \in Seq(Bytes) /\ asked # <<>>
      /\ shown = <<>> /\ Entered = asked
  BY <1>1, Parsed
<1>3. /\ help_text \in Seq(Bytes) /\ Len(help_text) <= MAX_LENGTH
      /\ newline \in Seq(Bytes) /\ Len(newline) <= MAX_LENGTH
      /\ unknown_text \in Seq(Bytes) /\ Len(unknown_text) <= MAX_LENGTH
      /\ cat_usage \in Seq(Bytes) /\ Len(cat_usage) <= MAX_LENGTH
  BY TextsFit, Named
<1>4. CASE Help
  <2>1. asked = help_command /\ user_write(help_text, "prompt")
    BY <1>2, <1>4 DEF Help, Is, string_equal
  <2>2. Answer(asked) = help_text /\ asked # exit_command
    BY <1>2, <2>1, Answers
  <2> QED
    BY <1>2, <1>3, <2>1, <2>2, OneText
<1>5. CASE Echo
  <2>1. asked = echo_command /\ user_write(newline, "prompt")
    BY <1>2, <1>5 DEF Echo, Is, string_equal
  <2>2. Answer(asked) = newline /\ asked # exit_command
    BY <1>2, <2>1, Answers
  <2> QED
    BY <1>2, <1>3, <2>1, <2>2, OneText
<1>6. CASE Unknown
  <2>1. /\ \A w \in commands : asked # w
        /\ ~IsPrefix(echo_prefix, asked) /\ ~IsPrefix(cat_prefix, asked)
        /\ user_write(unknown_text, "prompt")
    BY <1>2, <1>6 DEF Unknown, string_equal, string_starts_with
  <2>2. Answer(asked) = unknown_text /\ asked # exit_command
    BY <1>2, <2>1, Answers, Named
  <2> QED
    BY <1>2, <1>3, <2>1, <2>2, OneText
<1>7. CASE CatUsage
  <2>1. /\ asked = cat_command \/ (IsPrefix(cat_prefix, asked) /\ After(cat_prefix, asked) = <<>>)
        /\ user_write(cat_usage, "prompt")
    BY <1>2, <1>7 DEF CatUsage, Is, Begins, string_equal, string_starts_with
  <2>2. asked \in {cat_command, cat_prefix}
    <3>1. cat_prefix \in Seq(Bytes)
      BY TextsFit
    <3> QED
      BY <1>2, <2>1, <3>1, PrefixFacts
  <2>3. Answer(asked) = cat_usage /\ asked # exit_command
    BY <1>2, <2>2, Answers
  <2> QED
    BY <1>2, <1>3, <2>1, <2>3, OneText
<1> QED
  BY <1>4, <1>5, <1>6, <1>7

\* The shell asks for its number.
LEMMA GetPidStep == ASSUME ShellInv, GetPid PROVE ShellInv'
<1>1. /\ at = "parse" /\ user_syscall3([NoCall EXCEPT !.number = "getpid"], "pid") /\ UNCHANGED locals
      /\ Entered = pid_command
  BY DEF GetPid, Is, string_equal
<1>2. open_files = NoneOpen /\ asked \in Lines /\ shown = <<>> /\ asked = pid_command
  BY <1>1, Parsed
<1>3. /\ LInv' /\ pc' = "syscall" /\ call' = [NoCall EXCEPT !.number = "getpid"] /\ at' = "pid"
      /\ UNCHANGED <<inodes, open_files, asked, shown>>
  <2>1. [NoCall EXCEPT !.number = "getpid"] \in Frame
    BY CallsAreFrames
  <2> QED
    BY <1>1, <2>1, SyscallTraps DEF ShellInv
<1>4. Files' /\ LocalsOK'
  BY <1>1, <1>3 DEF ShellInv, Files, LocalsOK, locals
<1>5. AtPid'
  BY <1>2, <1>3 DEF AtPid, NoCall
<1> QED
  BY <1>3, <1>4, <1>5 DEF ShellInv, Somewhere

\* And writes it.
LEMMA ShowPidStep == ASSUME ShellInv, ShowPid PROVE ShellInv'
<1>1. AtPid /\ user_write(Spelled(Digits(result.value)) \o newline, "prompt") /\ pc = "user"
  BY PlaceIs DEF ShellInv, ShowPid, user_write, user_syscall3
<1>2. open_files = NoneOpen /\ asked \in Lines /\ asked = pid_command /\ shown = <<>> /\ result.value = Pid
  BY <1>1 DEF AtPid
<1> DEFINE text == Spelled(Decimal[Pid]) \o newline
<1>3. text \in Seq(Bytes) /\ Len(text) <= MAX_LENGTH /\ text = Spelled(Digits(Pid)) \o newline
  BY PidText
<1>4. user_write(text, "prompt")
  BY <1>1, <1>2, <1>3
<1>5. Answer(asked) = text /\ asked # exit_command
  BY <1>2, LineIsText, Answers
<1> QED
  BY <1>2, <1>3, <1>4, <1>5, OneText

\* The shell leaves.
LEMMA ExitStep == ASSUME ShellInv, Exit PROVE ShellInv'
<1>1. /\ at = "parse" /\ user_syscall3([NoCall EXCEPT !.number = "exit"], "exited") /\ UNCHANGED locals
      /\ Entered = exit_command
  BY DEF Exit, Is, string_equal
<1>2. open_files = NoneOpen /\ asked \in Lines /\ shown = <<>> /\ asked = exit_command
  BY <1>1, Parsed
<1>3. /\ LInv' /\ pc' = "syscall" /\ call' = [NoCall EXCEPT !.number = "exit"] /\ at' = "exited"
      /\ UNCHANGED <<inodes, open_files, asked, shown>>
  <2>1. [NoCall EXCEPT !.number = "exit"] \in Frame
    BY CallsAreFrames
  <2> QED
    BY <1>1, <2>1, SyscallTraps DEF ShellInv
<1>4. Files' /\ LocalsOK'
  BY <1>1, <1>3 DEF ShellInv, Files, LocalsOK, locals
<1>5. AtExited'
  BY <1>2, <1>3 DEF AtExited, NoCall
<1> QED
  BY <1>3, <1>4, <1>5 DEF ShellInv, Somewhere

\* echo writes what follows it.
LEMMA EchoTextStep == ASSUME ShellInv, EchoText PROVE ShellInv'
<1>1. at = "parse"
  BY DEF EchoText, Begins
<1>2. /\ open_files = NoneOpen /\ asked \in Lines /\ asked \in Seq(Bytes)
      /\ shown = <<>> /\ Entered = asked
  BY <1>1, Parsed
<1>3. IsPrefix(echo_prefix, asked) /\ user_write(After(echo_prefix, asked), "newline")
  BY <1>2 DEF EchoText, Begins, string_starts_with
<1> DEFINE text == After(echo_prefix, asked)
<1>4. text \in Seq(Bytes) /\ Len(text) <= MAX_LENGTH
  <2>1. echo_prefix \in Seq(Bytes) /\ Len(echo_prefix) \in Nat
    BY TextsFit
  <2>2. text \in Seq(Bytes) /\ Len(text) = Len(asked) - Len(echo_prefix)
    BY <1>2, <1>3, <2>1, PrefixFacts
  <2>3. Len(asked) \in Nat /\ Len(asked) < COMMAND_SIZE
    BY <1>2, LineIsText
  <2> QED
    BY <2>1, <2>2, <2>3, SizesAssumption, LimitsAssumption
<1>5. /\ LInv' /\ at' = "newline" /\ Saying' /\ Said' = shown \o text
      /\ UNCHANGED <<inodes, open_files, asked, command, fd, values>>
  BY <1>3, <1>4, WriteTraps DEF ShellInv
<1>6. Files' /\ LocalsOK'
  BY <1>5 DEF ShellInv, Files, LocalsOK
<1>7. Said' = After(echo_prefix, asked)'
  BY <1>2, <1>4, <1>5, FromNothing
<1>8. AtNewline'
  BY <1>2, <1>3, <1>5, <1>7 DEF AtNewline
<1> QED
  BY <1>5, <1>6, <1>8 DEF ShellInv, Somewhere

\* And ends the line.
LEMMA EndEchoStep == ASSUME ShellInv, EndEcho PROVE ShellInv'
<1>1. AtNewline /\ user_write(newline, "prompt") /\ pc = "user"
  BY PlaceIs DEF ShellInv, EndEcho, user_write, user_syscall3
<1>2. /\ open_files = NoneOpen /\ asked \in Lines /\ IsPrefix(echo_prefix, asked)
      /\ shown = After(echo_prefix, asked)
  BY <1>1 DEF AtNewline, Said
<1>3. newline \in Seq(Bytes) /\ Len(newline) <= MAX_LENGTH
  BY TextsFit, Named
<1>4. asked \in Seq(Bytes) /\ asked # NoLine
  BY <1>2, LineIsText, CharactersAssumption
<1>5. Answer(asked) = After(echo_prefix, asked) \o newline /\ asked # exit_command
  BY <1>2, <1>4, Answers
<1>6. Prompted /\ shown \o newline = Body
  BY <1>2, <1>4, <1>5 DEF Prompted, Body
<1> QED
  BY <1>1, <1>2, <1>3, <1>6, ToPrompt

-----------------------------------------------------------------------------
(* The steps of memtest and cat. *)

\* A call of memtest leads to the place where its refusal is counted.
LEMMA RefusedTraps ==
    ASSUME ShellInv, NEW c \in RefusedCalls, NEW next, user_syscall3(c, next),
           open_files = NoneOpen, asked \in Lines, asked = memtest_command, shown = <<>>,
           UNCHANGED <<command, data, fd>>,
           \/ next = "kernel address" /\ values' = <<>>
           \/ next = "readonly buffer" /\ values' = <<-1>>
           \/ next = "verdict" /\ values' = <<-1, -1>>
    PROVE  ShellInv'
<1>1. /\ LInv' /\ pc' = "syscall" /\ call' = c /\ at' = next
      /\ UNCHANGED <<inodes, open_files, asked, shown>>
  <2>1. c \in Frame
    BY CallsAreFrames
  <2> QED
    BY <2>1, SyscallTraps DEF ShellInv
<1>2. Files' /\ LocalsOK'
  BY <1>1 DEF ShellInv, Files, LocalsOK
<1>3. AtMemtest'
  BY <1>1 DEF AtMemtest, RefusedCalls
<1> QED
  BY <1>1, <1>2, <1>3 DEF ShellInv, Somewhere

\* One more call refused.
LEMMA AppendIs ==
    ASSUME NEW s \in Seq(Int), NEW t \in Seq(Int), NEW e \in Int, Len(t) = Len(s) + 1,
           \A k \in 1 .. Len(s) : t[k] = s[k], t[Len(s) + 1] = e
    PROVE  Append(s, e) = t
<1> DEFINE a == Append(s, e)
<1>1. /\ a \in Seq(Int) /\ Len(a) = Len(s) + 1 /\ Len(s) \in Nat
      /\ \A k \in 1 .. Len(s) : a[k] = s[k]
      /\ a[Len(s) + 1] = e
  BY AppendProperties
<1> HIDE DEF a
<1>2. ASSUME NEW k \in 1 .. Len(a) PROVE a[k] = t[k]
  <2>1. k \in 1 .. Len(s) \/ k = Len(s) + 1
    BY <1>1
  <2> QED
    BY <1>1, <2>1
<1>3. a = t
  BY <1>1, <1>2, SeqEqual
<1> QED
  BY <1>3 DEF a

\* The results of memtest, one after the other.
LEMMA OneMore ==
    /\ Append(<<>>, -1) = <<-1>>
    /\ Append(<<-1>>, -1) = <<-1, -1>>
    /\ Append(<<-1, -1>>, -1) = <<-1, -1, -1>>
<1>1. Append(<<>>, -1) = <<-1>>
  OBVIOUS
<1>2. Append(<<-1>>, -1) = <<-1, -1>>
  <2> DEFINE s == <<-1>>
             t == <<-1, -1>>
  <2>1. /\ -1 \in Int /\ s \in Seq(Int) /\ t \in Seq(Int) /\ Len(t) = Len(s) + 1
        /\ \A k \in 1 .. Len(s) : t[k] = s[k]
        /\ t[Len(s) + 1] = -1
    OBVIOUS
  <2> HIDE DEF s, t
  <2> QED
    BY <2>1, AppendIs DEF s, t
<1>3. Append(<<-1, -1>>, -1) = <<-1, -1, -1>>
  <2> DEFINE s == <<-1, -1>>
             t == <<-1, -1, -1>>
  <2>1. /\ -1 \in Int /\ s \in Seq(Int) /\ t \in Seq(Int) /\ Len(t) = Len(s) + 1
        /\ \A k \in 1 .. Len(s) : t[k] = s[k]
        /\ t[Len(s) + 1] = -1
    OBVIOUS
  <2> HIDE DEF s, t
  <2> QED
    BY <2>1, AppendIs DEF s, t
<1> QED
  BY <1>1, <1>2, <1>3

\* memtest makes three calls and gives the verdict.
LEMMA MemtestSteps ==
    ASSUME ShellInv, Memtest \/ MemtestKernel \/ MemtestReadonly \/ Verdict
    PROVE  ShellInv'
<1> DEFINE address == [NoCall EXCEPT !.number = "write", !.fd = Descriptor(1), !.pointer = Forbidden, !.length = 1]
           buffer == [NoCall EXCEPT !.number = "read", !.fd = Descriptor(0), !.pointer = Rodata, !.length = 1]
<1>1. address \in RefusedCalls /\ buffer \in RefusedCalls
  BY DEF RefusedCalls
<1>2. CASE Memtest
  <2>1. /\ at = "parse" /\ user_syscall3(address, "kernel address") /\ Entered = memtest_command
        /\ values' = <<>> /\ UNCHANGED <<command, data, fd>>
    BY <1>2 DEF Memtest, Is, string_equal
  <2>2. open_files = NoneOpen /\ asked \in Lines /\ shown = <<>> /\ asked = memtest_command
    BY <2>1, Parsed
  <2> HIDE DEF address
  <2> QED
    BY <1>1, <2>1, <2>2, RefusedTraps
<1>3. ASSUME at \in {"kernel address", "readonly buffer", "verdict"}, pc = "user"
      PROVE  /\ open_files = NoneOpen /\ asked \in Lines /\ asked = memtest_command /\ shown = <<>>
             /\ result.value = -1
             /\ at = "kernel address" => values = <<>>
             /\ at = "readonly buffer" => values = <<-1>>
             /\ at = "verdict" => values = <<-1, -1>>
  BY <1>3, PlaceIs DEF ShellInv, AtMemtest
<1>4. CASE MemtestKernel
  <2>1. /\ at = "kernel address" /\ pc = "user" /\ user_syscall3(address, "readonly buffer")
        /\ values' = Append(values, result.value) /\ UNCHANGED <<command, data, fd>>
    BY <1>4 DEF MemtestKernel, user_syscall3
  <2>2. values' = <<-1>>
    BY <1>3, <2>1, OneMore
  <2> HIDE DEF address
  <2> QED
    BY <1>1, <1>3, <2>1, <2>2, RefusedTraps
<1>5. CASE MemtestReadonly
  <2>1. /\ at = "readonly buffer" /\ pc = "user" /\ user_syscall3(buffer, "verdict")
        /\ values' = Append(values, result.value) /\ UNCHANGED <<command, data, fd>>
    BY <1>5 DEF MemtestReadonly, user_read, user_syscall3
  <2>2. values' = <<-1, -1>>
    BY <1>3, <2>1, OneMore
  <2> HIDE DEF buffer
  <2> QED
    BY <1>1, <1>3, <2>1, <2>2, RefusedTraps
<1>6. CASE Verdict
  <2>1. at = "verdict" /\ pc = "user"
    BY <1>6 DEF Verdict, user_write, user_syscall3
  <2>2. Append(values, result.value) = <<-1, -1, -1>>
    BY <1>3, <2>1, OneMore
  <2>3. user_write(memtest_ok, "prompt")
    BY <1>6, <2>2 DEF Verdict
  <2>4. memtest_ok \in Seq(Bytes) /\ Len(memtest_ok) <= MAX_LENGTH
    BY TextsFit, Named
  <2>5. Answer(asked) = memtest_ok /\ asked # exit_command
    BY <1>3, <2>1, LineIsText, Answers
  <2> QED
    BY <1>3, <2>1, <2>3, <2>4, <2>5, OneText
<1> QED
  BY <1>2, <1>4, <1>5, <1>6

\* What a cat answers.
LEMMA CatAnswer ==
    ASSUME Cats
    PROVE  /\ asked \in Seq(Bytes) /\ asked # NoLine /\ asked # exit_command
           /\ PathAsked \in Seq(Bytes)
           /\ PathAsked = HelloPath => Answer(asked) = HelloText
           /\ PathAsked # HelloPath => Answer(asked) = cat_error
<1>1. asked \in Seq(Bytes) /\ asked # NoLine /\ IsPrefix(cat_prefix, asked) /\ After(cat_prefix, asked) # <<>>
  BY LineIsText, CharactersAssumption DEF Cats, PathAsked
<1>2. /\ After(cat_prefix, asked) \in Seq(Bytes)
      /\ After(cat_prefix, asked) = <<>> <=> asked = cat_prefix
  BY <1>1, TextsFit, PrefixFacts
<1> QED
  BY <1>1, <1>2, Answers DEF PathAsked

\* cat opens its path.
LEMMA CatOpenStep == ASSUME ShellInv, CatOpen PROVE ShellInv'
<1>1. at = "parse"
  BY DEF CatOpen, Begins
<1>2. /\ open_files = NoneOpen /\ asked \in Lines /\ asked \in Seq(Bytes)
      /\ shown = <<>> /\ Entered = asked
  BY <1>1, Parsed
<1>3. Cats /\ user_open(PathAsked, "opened") /\ UNCHANGED locals
  BY <1>2 DEF CatOpen, Begins, string_starts_with, Cats, PathAsked
<1>4. user_syscall3(OpenCall(PathAsked), "opened") /\ OpenCall(PathAsked) \in Frame
  BY <1>3, CatAnswer, CallsAreFrames DEF user_open, OpenCall
<1>5. /\ LInv' /\ pc' = "syscall" /\ call' = OpenCall(PathAsked) /\ at' = "opened"
      /\ UNCHANGED <<inodes, open_files, asked, shown>>
  BY <1>4, SyscallTraps DEF ShellInv
<1>6. Files' /\ LocalsOK'
  BY <1>3, <1>5 DEF ShellInv, Files, LocalsOK, locals
<1>7. Cats' /\ call' = OpenCall(PathAsked)'
  BY <1>3, <1>5 DEF Cats, PathAsked, OpenCall, NoCall
<1>8. AtOpened'
  BY <1>2, <1>5, <1>7 DEF AtOpened
<1> QED
  BY <1>5, <1>6, <1>8 DEF ShellInv, Somewhere

\* Nothing of the file has been shown, or all of it.
LEMMA Beginnings == Beginning(0) = <<>> /\ Beginning(Len(HelloText)) = HelloText
<1>1. 1 \in Int /\ 0 \in Int /\ 0 < 1
  OBVIOUS
<1>2. Beginning(0) = <<>>
  BY <1>1, SubSeqEmpty DEF Beginning
<1>3. Beginning(Len(HelloText)) = HelloText
  BY InputsAssumption, SubSeqFull DEF Beginning
<1> QED
  BY <1>2, <1>3

\* A path that is not there is answered at once, without a descriptor.
LEMMA OpenedStep == ASSUME ShellInv, Opened PROVE ShellInv'
<1>1. AtOpened /\ pc = "user"
  BY PlaceIs DEF ShellInv, Opened, user_write, user_syscall3, Compute
<1>2. /\ Cats /\ shown = <<>>
      /\ \/ PathAsked = HelloPath /\ result.value = 3 /\ open_files = OneOpen(0)
         \/ PathAsked # HelloPath /\ result.value = -1 /\ open_files = NoneOpen
  BY <1>1 DEF AtOpened
<1>3. CASE result.value = -1
  <2>1. user_write(cat_error, "prompt")
    BY <1>3 DEF Opened
  <2>2. cat_error \in Seq(Bytes) /\ Len(cat_error) <= MAX_LENGTH
    BY TextsFit, Named
  <2>3. open_files = NoneOpen /\ Answer(asked) = cat_error /\ asked # exit_command /\ asked \in Lines
    BY <1>2, <1>3, CatAnswer DEF Cats
  <2> QED
    BY <1>2, <2>1, <2>2, <2>3, OneText
<1>4. CASE result.value = 3
  <2>1. /\ at' = "cat" /\ fd' = 3 /\ UNCHANGED <<vars, screen>> /\ UNCHANGED <<command, data, values>>
    BY <1>4 DEF Opened, Compute
  <2>2. LInv'
    BY <2>1, StutterLInv DEF ShellInv
  <2>3. UNCHANGED <<inodes, open_files, asked, shown, pc>>
    BY <2>1 DEF vars, tables, screen
  <2>4. Files' /\ LocalsOK'
    BY <2>1, <2>3 DEF ShellInv, Files, LocalsOK
  <2>5. CatsFile'
    BY <1>2, <1>4, <2>1, <2>3 DEF CatsFile, Cats, PathAsked
  <2>6. Saying' /\ Said' = Beginning(0) /\ open_files' = OneOpen(0)
    BY <1>1, <1>2, <1>4, <2>3, Beginnings DEF Saying, Said
  <2>7. 0 \in 0 .. Len(HelloText)
    BY InputsAssumption
  <2>8. AtCat'
    BY <2>1, <2>5, <2>6, <2>7 DEF AtCat
  <2> QED
    BY <2>2, <2>4, <2>8 DEF ShellInv, Somewhere
<1> QED
  BY <1>2, <1>3, <1>4

\* cat reads on from where it is.
LEMMA CatReadStep == ASSUME ShellInv, CatRead PROVE ShellInv'
<1>1. AtCat /\ pc = "user"
  BY PlaceIs DEF ShellInv, CatRead, user_read, user_syscall3
<1>2. CatsFile
  BY <1>1 DEF AtCat
<1>3. PICK n \in 0 .. Len(HelloText) : shown = Beginning(n) /\ open_files = OneOpen(n)
  BY <1>1 DEF AtCat, Said
<1>4. user_syscall3(ReadCall(3, CAT_SIZE), "counted") /\ UNCHANGED locals
  BY <1>2 DEF CatRead, user_read, ReadCall, CatsFile
<1>5. ReadCall(3, CAT_SIZE) \in Frame
  <2>1. 3 \in Nat /\ CAT_SIZE \in Nat
    BY SizesAssumption, LimitsAssumption
  <2> QED
    BY <2>1, CallsAreFrames
<1>6. /\ LInv' /\ pc' = "syscall" /\ call' = ReadCall(3, CAT_SIZE) /\ at' = "counted"
      /\ UNCHANGED <<inodes, open_files, asked, shown>>
  BY <1>4, <1>5, SyscallTraps DEF ShellInv
<1>7. Files' /\ LocalsOK'
  BY <1>4, <1>6 DEF ShellInv, Files, LocalsOK, locals
<1>8. CatsFile'
  BY <1>2, <1>4, <1>6 DEF CatsFile, Cats, PathAsked, locals
<1>9. call' = ReadCall(3, CAT_SIZE)' /\ shown' = Beginning(n) /\ open_files' = OneOpen(n)
  BY <1>3, <1>6 DEF ReadCall, NoCall
<1>10. AtCounted'
  BY <1>6, <1>8, <1>9 DEF AtCounted
<1> QED
  BY <1>6, <1>7, <1>10 DEF ShellInv, Somewhere

\* The bytes read come behind the beginning.
LEMMA Continued ==
    ASSUME NEW n \in 0 .. Len(HelloText), NEW m \in Nat, m > 0, n + m <= Len(HelloText)
    PROVE  LET text == SubSeq(HelloText, n + 1, n + m)
           IN  /\ text \in Seq(Bytes) /\ Len(text) = m
               /\ Beginning(n) \o text = Beginning(n + m)
               /\ n + m \in 0 .. Len(HelloText)
<1>1. HelloText \in Seq(Bytes) /\ Len(HelloText) \in Nat
  BY InputsAssumption
<1> DEFINE i == n + 1
           j == n + m
           last == Len(HelloText)
<1>2. /\ i \in Int /\ j \in Int /\ i <= j /\ j - i + 1 = m /\ j \in 0 .. last
      /\ \A k \in i .. j : k \in 1 .. last
      /\ 1 \in 1 .. last + 1 /\ n \in 1 - 1 .. last /\ j \in n .. last
  BY <1>1
<1>3. \A k \in i .. j : HelloText[k] \in Bytes
  BY <1>1, <1>2
<1> HIDE DEF i, j
<1>4. SubSeq(HelloText, i, j) \in Seq(Bytes) /\ Len(SubSeq(HelloText, i, j)) = m
  BY <1>2, <1>3, SubSeqProperties
<1>5. SubSeq(HelloText, 1, n) \o SubSeq(HelloText, n + 1, j) = SubSeq(HelloText, 1, j)
  BY <1>1, <1>2, ConcatAdjacentSubSeq
<1> QED
  BY <1>2, <1>4, <1>5 DEF Beginning, i, j

\* What was read is written, and the end of the file leads to the close.
LEMMA CatStep == ASSUME ShellInv, Cat PROVE ShellInv'
<1>1. AtCounted /\ pc = "user"
  BY PlaceIs DEF ShellInv, Cat, user_write, user_syscall3, Compute
<1>2. CatsFile
  BY <1>1 DEF AtCounted
<1>3. PICK n \in 0 .. Len(HelloText) :
         /\ shown = Beginning(n)
         /\ result.value \in 0 .. CAT_SIZE /\ n + result.value <= Len(HelloText)
         /\ result.value = 0 => n = Len(HelloText)
         /\ result.data = SubSeq(HelloText, n + 1, n + result.value)
         /\ open_files = OneOpen(n + result.value)
  BY <1>1 DEF AtCounted
<1>4. n \in Nat /\ CAT_SIZE \in Nat /\ CAT_SIZE <= MAX_LENGTH /\ MAX_LENGTH \in Nat /\ Len(HelloText) \in Nat
  BY SizesAssumption, LimitsAssumption, InputsAssumption
<1>5. CASE result.value = 0
  <2>1. at' = "close" /\ UNCHANGED <<vars, screen>> /\ UNCHANGED locals
    BY <1>5 DEF Cat, Compute
  <2>2. LInv'
    BY <2>1, StutterLInv DEF ShellInv
  <2>3. UNCHANGED <<inodes, open_files, asked, shown, pc>>
    BY <2>1 DEF vars, tables, screen
  <2>4. Files' /\ LocalsOK'
    BY <2>1, <2>3 DEF ShellInv, Files, LocalsOK, locals
  <2>5. CatsFile'
    BY <1>2, <2>1, <2>3 DEF CatsFile, Cats, PathAsked, locals
  <2>6. shown = HelloText /\ open_files = OneOpen(Len(HelloText))
    <3>1. n = Len(HelloText) /\ n + result.value = Len(HelloText)
      BY <1>3, <1>4, <1>5
    <3> QED
      BY <1>3, <3>1, Beginnings
  <2>7. AtClose'
    BY <1>1, <2>1, <2>3, <2>5, <2>6 DEF AtClose, OneOpen, NoneOpen
  <2> QED
    BY <2>2, <2>4, <2>7 DEF ShellInv, Somewhere
<1>6. CASE result.value # 0
  <2> DEFINE m == result.value
             text == SubSeq(HelloText, n + 1, n + m)
  <2>1. m \in Nat /\ m > 0 /\ m <= CAT_SIZE /\ ~(m < 0)
    BY <1>3, <1>4, <1>6
  <2>2. /\ text \in Seq(Bytes) /\ Len(text) = m /\ Beginning(n) \o text = Beginning(n + m)
        /\ n + m \in 0 .. Len(HelloText)
    BY <1>3, <2>1, Continued
  <2>3. user_write(text, "cat")
    BY <1>3, <1>6, <2>1 DEF Cat
  <2>4. Len(text) <= MAX_LENGTH
    BY <1>4, <2>1, <2>2
  <2> HIDE DEF text
  <2>5. /\ LInv' /\ at' = "cat" /\ Saying' /\ Said' = shown \o text
        /\ UNCHANGED <<inodes, open_files, asked, command, fd, values>>
    BY <2>2, <2>3, <2>4, WriteTraps DEF ShellInv
  <2>6. Files' /\ LocalsOK'
    BY <2>5 DEF ShellInv, Files, LocalsOK
  <2>7. CatsFile'
    BY <1>2, <2>5 DEF CatsFile, Cats, PathAsked
  <2> DEFINE k == n + m
  <2>8. Said' = Beginning(k) /\ open_files' = OneOpen(k) /\ k \in 0 .. Len(HelloText)
    BY <1>3, <2>2, <2>5
  <2> HIDE DEF k, m
  <2>9. AtCat'
    BY <2>5, <2>7, <2>8 DEF AtCat
  <2> QED
    BY <2>5, <2>6, <2>9 DEF ShellInv, Somewhere
<1> QED
  BY <1>5, <1>6

\* The descriptor is closed before the prompt.
LEMMA CatCloseStep == ASSUME ShellInv, CatClose PROVE ShellInv'
<1>1. AtClose
  BY PlaceIs DEF ShellInv, CatClose
<1>2. CatsFile /\ shown = HelloText /\ open_files = OneOpen(Len(HelloText))
  BY <1>1 DEF AtClose
<1>3. user_syscall3(CloseCall, "prompt") /\ UNCHANGED locals
  BY <1>2 DEF CatClose, user_close, CloseCall, CatsFile
<1>4. /\ LInv' /\ pc' = "syscall" /\ call' = CloseCall /\ at' = "prompt"
      /\ UNCHANGED <<inodes, open_files, asked, shown>>
  BY <1>3, CallsAreFrames, SyscallTraps DEF ShellInv
<1>5. Files' /\ LocalsOK'
  BY <1>3, <1>4 DEF ShellInv, Files, LocalsOK, locals
<1>6. asked \in Lines /\ asked # NoLine /\ asked # exit_command /\ Answer(asked) = HelloText
  BY <1>2, CatAnswer DEF CatsFile, Cats
<1>7. Prompted' /\ shown' = Body'
  BY <1>2, <1>4, <1>6 DEF Prompted, Body
<1>8. \E n \in 0 .. FS_DATA_MAX : open_files' = OneOpen(n)
  <2>1. Len(HelloText) \in 0 .. FS_DATA_MAX
    BY InputsAssumption, LimitsAssumption
  <2> QED
    BY <1>2, <1>4, <2>1
<1>9. call' = CloseCall'
  BY <1>4 DEF CloseCall, NoCall
<1>10. AtPrompt'
  BY <1>4, <1>7, <1>8, <1>9 DEF AtPrompt
<1> QED
  BY <1>4, <1>5, <1>10 DEF ShellInv, Somewhere

\* A step of the shell keeps the invariant.
LEMMA ProgramStep == ASSUME ShellInv, Program PROVE ShellInv'
  BY StartStep, ShowPromptStep, ReadLineStep, TerminateStep, TextSteps, GetPidStep, ShowPidStep,
     ExitStep, EchoTextStep, EndEchoStep, MemtestSteps, CatOpenStep, OpenedStep, CatReadStep, CatStep,
     CatCloseStep
  DEF Program

-----------------------------------------------------------------------------
(* The steps of the kernel, for each place the shell can wait at. *)

\* A step of the kernel that leaves the locals alone keeps their types.
LEMMA KernelParts ==
    ASSUME ShellInv, Kernel, UNCHANGED <<inodes, command, fd, values>>
    PROVE  LInv' /\ Files' /\ LocalsOK'
  BY KernelKeeps DEF ShellInv, Files, LocalsOK

\* The shell waits for the end of a write.
LEMMA SayingStep ==
    ASSUME ShellInv, Kernel, Saying, AtPrompt \/ AtAsk \/ AtNewline \/ AtCat
    PROVE  ShellInv'
<1>1. at # "line" /\ pc # "user"
  BY StepIs DEF AtPrompt, AtAsk, AtNewline, AtCat, Kernel
<1>2. /\ Saying' /\ Said' = Said
      /\ UNCHANGED <<inodes, open_files, at, command, data, fd, values, asked>>
  BY <1>1, SayingKernel DEF ShellInv
<1>3. LInv' /\ Files' /\ LocalsOK'
  BY <1>2, KernelParts
<1>4. Prompted' = Prompted /\ Body' = Body
  BY <1>2 DEF Prompted, Body
<1>5. CASE AtPrompt
  <2>1. Prompted /\ Said = Body /\ open_files = NoneOpen
    <3>1. call.number = "write"
      BY <1>1, WriteArguments DEF Saying, Writing
    <3> QED
      BY <1>5, <3>1, CloseArguments DEF AtPrompt
  <2>2. AtPrompt'
    BY <1>2, <1>4, <1>5, <2>1 DEF AtPrompt
  <2> QED
    BY <1>3, <2>2 DEF ShellInv, Somewhere
<1>6. CASE AtAsk
  <2>1. AtAsk'
    BY <1>2, <1>4, <1>6 DEF AtAsk
  <2> QED
    BY <1>3, <2>1 DEF ShellInv, Somewhere
<1>7. CASE AtNewline
  <2>1. AtNewline'
    BY <1>2, <1>7 DEF AtNewline
  <2> QED
    BY <1>3, <2>1 DEF ShellInv, Somewhere
<1>8. CASE AtCat
  <2>1. CatsFile'
    BY <1>2, <1>8 DEF AtCat, CatsFile, Cats, PathAsked
  <2>2. PICK n \in 0 .. Len(HelloText) : Said = Beginning(n) /\ open_files = OneOpen(n)
    BY <1>8 DEF AtCat
  <2>3. Said' = Beginning(n) /\ open_files' = OneOpen(n)
    BY <1>2, <2>2
  <2>4. AtCat'
    BY <1>2, <1>8, <2>1, <2>3 DEF AtCat
  <2> QED
    BY <1>3, <2>4 DEF ShellInv, Somewhere
<1> QED
  BY <1>5, <1>6, <1>7, <1>8

\* The shell waits for the file to be closed.
LEMMA ClosingStep ==
    ASSUME ShellInv, Kernel, AtPrompt, ~Saying
    PROVE  ShellInv'
<1>1. /\ at = "prompt" /\ Prompted /\ call = CloseCall /\ shown = Body
      /\ \/ pc = "syscall" /\ \E n \in 0 .. FS_DATA_MAX : open_files = OneOpen(n)
         \/ pc = "resume" /\ open_files = NoneOpen
  BY DEF AtPrompt
<1>2. CASE pc = "syscall"
  <2>1. PICK n \in 0 .. FS_DATA_MAX : open_files = OneOpen(n)
    BY <1>1, <1>2
  <2>2. /\ pc' = "resume" /\ call' = call /\ open_files' = NoneOpen
        /\ UNCHANGED <<inodes, at, command, data, fd, values, asked, shown>>
    BY <1>1, <1>2, <2>1, CloseKernel DEF ShellInv
  <2>3. LInv' /\ Files' /\ LocalsOK'
    BY <2>2, KernelParts
  <2>4. Prompted' /\ shown' = Body' /\ call' = CloseCall' /\ open_files' = NoneOpen'
    BY <1>1, <2>2 DEF Prompted, Body, CloseCall, NoCall, NoneOpen
  <2>5. AtPrompt'
    BY <1>1, <2>2, <2>4 DEF AtPrompt
  <2> QED
    BY <2>3, <2>5 DEF ShellInv, Somewhere
<1>3. CASE pc = "resume"
  <2>1. /\ pc' = "user"
        /\ UNCHANGED <<inodes, open_files, result, at, command, data, fd, values, asked, shown>>
    BY <1>1, <1>3, Returned DEF ShellInv
  <2>2. LInv' /\ Files' /\ LocalsOK'
    BY <2>1, KernelParts
  <2>3. Prompted' /\ Said' = Body' /\ Saying' /\ open_files' = NoneOpen'
    BY <1>1, <1>3, <2>1 DEF Prompted, Body, Saying, Said, NoneOpen
  <2>4. AtPrompt'
    BY <1>1, <2>1, <2>3 DEF AtPrompt
  <2> QED
    BY <2>2, <2>4 DEF ShellInv, Somewhere
<1> QED
  BY <1>1, <1>2, <1>3

\* The shell waits for a line.
LEMMA LineStep == ASSUME ShellInv, Kernel, AtLine PROVE ShellInv'
<1>1. /\ at = "line" /\ open_files = NoneOpen /\ pc \in {"syscall", "resume"}
      /\ call = ReadCall(0, COMMAND_SIZE - 1) /\ (pc = "resume" => result.value # -1)
      /\ Prompted /\ shown = Body \o prompt
  BY StepIs DEF AtLine, Kernel
<1>2. CASE pc = "syscall"
  <2>1. /\ pc' = "line" /\ call' = call
        /\ UNCHANGED <<inodes, open_files, at, command, data, fd, values, asked, shown>>
    BY <1>1, <1>2, StdinKernel DEF ShellInv
  <2>2. LInv' /\ Files' /\ LocalsOK'
    BY <2>1, KernelParts
  <2>3. Prompted' /\ shown' = Body' \o prompt /\ call' = ReadCall(0, COMMAND_SIZE - 1)'
    BY <1>1, <2>1 DEF Prompted, Body, ReadCall, NoCall
  <2>4. AtLine'
    BY <1>1, <2>1, <2>3 DEF AtLine
  <2> QED
    BY <2>2, <2>4 DEF ShellInv, Somewhere
<1>3. CASE pc = "resume"
  <2>1. /\ LineTyped \in Lines /\ result.value = Len(LineTyped)
        /\ \A k \in 1 .. Len(LineTyped) : Received[k] = LineTyped[k]
        /\ Received \in [1 .. COMMAND_SIZE -> Printable \cup {Nul}]
    BY <1>1, <1>3, LineGiven DEF ShellInv
  <2>2. Resume
    BY <1>3, StepIs DEF Kernel
  <2>3. /\ pc' = "user" /\ asked' = LineTyped /\ command' = Received /\ shown' = <<>>
        /\ UNCHANGED <<at, data, fd, values, result, inodes, open_files>>
    BY <1>1, <1>3, <2>2 DEF Kernel, LineReturns, Resume, tables
  <2>4. LInv'
    BY KernelKeeps DEF ShellInv
  <2>5. Files' /\ LocalsOK'
    BY <2>1, <2>3 DEF ShellInv, Files, LocalsOK
  <2>6. AtLine'
    <3>1. asked' \in Lines' /\ result'.value = Len(asked') /\ \A k \in 1 .. Len(asked') : command'[k] = asked'[k]
      BY <2>1, <2>3 DEF Lines
    <3> QED
      BY <1>1, <2>3, <3>1 DEF AtLine, NoneOpen
  <2> QED
    BY <2>4, <2>5, <2>6 DEF ShellInv, Somewhere
<1> QED
  BY <1>1, <1>2, <1>3

\* The shell waits for its number, or for the answer to a call that is refused.
LEMMA ValueStep == ASSUME ShellInv, Kernel, AtPid \/ AtMemtest PROVE ShellInv'
<1>1. pc # "user" /\ at # "line"
  BY StepIs DEF AtPid, AtMemtest, Kernel
<1>2. ASSUME UNCHANGED <<inodes, open_files, at, command, data, fd, values, asked, shown>>,
             AtPid' \/ AtMemtest'
      PROVE  ShellInv'
  <2>1. LInv' /\ Files' /\ LocalsOK'
    BY <1>2, KernelParts
  <2> QED
    BY <1>2, <2>1 DEF ShellInv, Somewhere
<1>3. CASE pc = "resume"
  <2>1. /\ pc' = "user"
        /\ UNCHANGED <<inodes, open_files, result, at, command, data, fd, values, asked, shown>>
    BY <1>1, <1>3, Returned DEF ShellInv
  <2>2. AtPid => AtPid'
    BY <1>3, <2>1 DEF AtPid, NoneOpen
  <2>3. AtMemtest => AtMemtest'
    BY <1>3, <2>1 DEF AtMemtest, NoneOpen
  <2> QED
    BY <1>2, <2>1, <2>2, <2>3
<1>4. CASE AtPid /\ pc = "syscall"
  <2>1. /\ pc' = "resume" /\ result'.value = Pid
        /\ UNCHANGED <<inodes, open_files, at, command, data, fd, values, asked, shown>>
    BY <1>4, GetpidKernel DEF ShellInv, AtPid
  <2>2. AtPid'
    BY <1>4, <2>1 DEF AtPid, NoneOpen
  <2> QED
    BY <1>2, <2>1, <2>2
<1>5. CASE AtMemtest /\ pc = "syscall"
  <2>1. /\ pc' = "resume" /\ result'.value = -1
        /\ UNCHANGED <<inodes, open_files, at, command, data, fd, values, asked, shown>>
    BY <1>5, RefusedKernel DEF ShellInv, AtMemtest
  <2>2. AtMemtest'
    BY <1>5, <2>1 DEF AtMemtest, NoneOpen
  <2> QED
    BY <1>2, <2>1, <2>2
<1>6. pc \in {"syscall", "resume"}
  BY <1>1 DEF AtPid, AtMemtest
<1> QED
  BY <1>3, <1>4, <1>5, <1>6

\* The machine stops.
LEMMA ExitedStep == ASSUME ShellInv, Kernel, AtExited PROVE ShellInv'
<1>1. pc = "syscall" /\ call.number = "exit"
  BY StepIs DEF AtExited, Kernel
<1>2. /\ pc' = "parked" /\ call' = call
      /\ UNCHANGED <<inodes, open_files, at, command, data, fd, values, asked, shown>>
  BY <1>1, ExitKernel DEF ShellInv
<1>3. LInv' /\ Files' /\ LocalsOK'
  BY <1>2, KernelParts
<1>4. AtExited'
  BY <1>2 DEF AtExited, NoneOpen
<1> QED
  BY <1>3, <1>4 DEF ShellInv, Somewhere

\* The shell waits for a file to be opened.
LEMMA OpeningStep == ASSUME ShellInv, Kernel, AtOpened PROVE ShellInv'
<1>1. at = "opened" /\ Cats /\ shown = <<>> /\ pc # "user"
  BY StepIs DEF AtOpened, Kernel
<1>2. CASE pc \in {"syscall", "path", "open"}
  <2>1. call = OpenCall(PathAsked) /\ open_files = NoneOpen /\ PathAsked \in Seq(Bytes)
    BY <1>1, <1>2, CatAnswer DEF AtOpened
  <2>2. /\ UNCHANGED <<inodes, at, command, data, fd, values, asked, shown>>
        /\ \/ pc' \in {"path", "open"} /\ call' = call /\ open_files' = open_files
           \/ pc' = "resume" /\ PathAsked = HelloPath /\ result'.value = 3 /\ open_files' = OneOpen(0)
           \/ pc' = "resume" /\ PathAsked # HelloPath /\ result'.value = -1 /\ open_files' = open_files
    BY <1>2, <2>1, OpenKernel DEF ShellInv
  <2>3. LInv' /\ Files' /\ LocalsOK'
    BY <2>2, KernelParts
  <2>4. Cats' /\ PathAsked' = PathAsked /\ OpenCall(PathAsked)' = OpenCall(PathAsked)
        /\ NoneOpen' = NoneOpen /\ OneOpen(0)' = OneOpen(0)
    BY <1>1, <2>2 DEF Cats, PathAsked, OpenCall, NoCall, NoneOpen, OneOpen
  <2>5. AtOpened'
    BY <1>1, <2>1, <2>2, <2>4 DEF AtOpened
  <2> QED
    BY <2>3, <2>5 DEF ShellInv, Somewhere
<1>3. CASE pc = "resume"
  <2>1. /\ pc' = "user"
        /\ UNCHANGED <<inodes, open_files, result, at, command, data, fd, values, asked, shown>>
    BY <1>1, <1>3, Returned DEF ShellInv
  <2>2. LInv' /\ Files' /\ LocalsOK'
    BY <2>1, KernelParts
  <2>3. Cats' /\ PathAsked' = PathAsked /\ NoneOpen' = NoneOpen /\ OneOpen(0)' = OneOpen(0)
    BY <1>1, <2>1 DEF Cats, PathAsked, NoneOpen, OneOpen
  <2>4. \/ PathAsked = HelloPath /\ result.value = 3 /\ open_files = OneOpen(0)
        \/ PathAsked # HelloPath /\ result.value = -1 /\ open_files = NoneOpen
    BY <1>3 DEF AtOpened
  <2>5. AtOpened'
    BY <1>1, <2>1, <2>3, <2>4 DEF AtOpened
  <2> QED
    BY <2>2, <2>5 DEF ShellInv, Somewhere
<1> QED
  BY <1>1, <1>2, <1>3 DEF AtOpened

\* The shell waits for bytes of the file.
LEMMA ReadingStep == ASSUME ShellInv, Kernel, AtCounted PROVE ShellInv'
<1>1. at = "counted" /\ CatsFile /\ pc # "user"
  BY StepIs DEF AtCounted, Kernel
<1>2. PICK n \in 0 .. Len(HelloText) :
         /\ shown = Beginning(n)
         /\ \/ /\ pc \in {"syscall", "read"} /\ call = ReadCall(3, CAT_SIZE)
               /\ open_files = OneOpen(n)
            \/ /\ pc = "resume"
               /\ result.value \in 0 .. CAT_SIZE /\ n + result.value <= Len(HelloText)
               /\ result.value = 0 => n = Len(HelloText)
               /\ result.data = SubSeq(HelloText, n + 1, n + result.value)
               /\ open_files = OneOpen(n + result.value)
  BY <1>1 DEF AtCounted
<1>3. CASE pc \in {"syscall", "read"}
  <2>1. call = ReadCall(3, CAT_SIZE) /\ open_files = OneOpen(n)
    BY <1>2, <1>3
  <2>2. /\ UNCHANGED <<inodes, at, command, data, fd, values, asked, shown>>
        /\ \/ pc' = "read" /\ call' = call /\ open_files' = open_files
           \/ /\ pc' = "resume" /\ result'.value \in 0 .. CAT_SIZE
              /\ n + result'.value <= Len(HelloText)
              /\ result'.value = 0 => n = Len(HelloText)
              /\ result'.data = SubSeq(HelloText, n + 1, n + result'.value)
              /\ open_files' = OneOpen(n + result'.value)
    BY <1>3, <2>1, ReadKernel DEF ShellInv
  <2>3. LInv' /\ Files' /\ LocalsOK'
    BY <2>2, KernelParts
  <2>4. CatsFile'
    BY <1>1, <2>2 DEF CatsFile, Cats, PathAsked
  <2>5. AtCounted'
    BY <1>1, <1>2, <2>1, <2>2, <2>4 DEF AtCounted, ReadCall, NoCall
  <2> QED
    BY <2>3, <2>5 DEF ShellInv, Somewhere
<1>4. CASE pc = "resume"
  <2>1. /\ pc' = "user"
        /\ UNCHANGED <<inodes, open_files, result, at, command, data, fd, values, asked, shown>>
    BY <1>1, <1>4, Returned DEF ShellInv
  <2>2. LInv' /\ Files' /\ LocalsOK'
    BY <2>1, KernelParts
  <2>3. CatsFile'
    BY <1>1, <2>1 DEF CatsFile, Cats, PathAsked
  <2>4. AtCounted'
    BY <1>1, <1>2, <1>4, <2>1, <2>3 DEF AtCounted
  <2> QED
    BY <2>2, <2>4 DEF ShellInv, Somewhere
<1> QED
  BY <1>2, <1>3, <1>4

\* A step of the kernel keeps the invariant.
LEMMA KernelStepKeeps == ASSUME ShellInv, Kernel PROVE ShellInv'
<1>1. pc # "user"
  BY StepIs DEF Kernel
<1>2. ~AtBanner /\ ~AtParse /\ ~AtClose
  BY <1>1 DEF AtBanner, AtParse, AtClose
<1>3. AtAsk => Saying
  BY DEF AtAsk
<1>4. AtNewline => Saying
  BY DEF AtNewline
<1>5. AtCat => Saying
  BY DEF AtCat
<1> QED
  BY <1>2, <1>3, <1>4, <1>5, SayingStep, ClosingStep, LineStep, ValueStep, ExitedStep, OpeningStep,
     ReadingStep
  DEF ShellInv, Somewhere

-----------------------------------------------------------------------------
(* The other steps, and the theorems about the shell. *)

\* A key is typed while the shell waits for its line.
LEMMA TypingStep == ASSUME ShellInv, Typing PROVE ShellInv'
<1>1. /\ pc = "line" /\ pc' \in {"line", "resume"} /\ call' = call /\ LInv'
      /\ pc' = "resume" => result'.value # -1
      /\ UNCHANGED <<inodes, open_files, at, command, data, fd, values, asked, shown>>
  BY KeyTyped DEF ShellInv
<1>2. AtLine
  <2>1. ~Saying
    BY <1>1 DEF Saying, Writing
  <2>2. ~AtBanner BY <1>1 DEF AtBanner
  <2>3. ~AtPrompt BY <1>1, <2>1 DEF AtPrompt
  <2>4. ~AtAsk BY <2>1 DEF AtAsk
  <2>5. ~AtParse BY <1>1 DEF AtParse
  <2>6. ~AtPid BY <1>1 DEF AtPid
  <2>7. ~AtExited BY <1>1 DEF AtExited
  <2>8. ~AtNewline BY <2>1 DEF AtNewline
  <2>9. ~AtMemtest BY <1>1 DEF AtMemtest
  <2>10. ~AtOpened BY <1>1 DEF AtOpened
  <2>11. ~AtCat BY <2>1 DEF AtCat
  <2>12. ~AtCounted BY <1>1 DEF AtCounted
  <2>13. ~AtClose BY <1>1 DEF AtClose
  <2> QED
    BY <2>2, <2>3, <2>4, <2>5, <2>6, <2>7, <2>8, <2>9, <2>10, <2>11, <2>12, <2>13 DEF ShellInv, Somewhere
<1>3. /\ at = "line" /\ open_files = NoneOpen /\ call = ReadCall(0, COMMAND_SIZE - 1)
      /\ Prompted /\ shown = Body \o prompt
  BY <1>1, <1>2 DEF AtLine
<1>4. Files' /\ LocalsOK'
  BY <1>1 DEF ShellInv, Files, LocalsOK
<1>5. Prompted' /\ Body' = Body
  BY <1>1, <1>3 DEF Prompted, Body
<1>6. AtLine'
  BY <1>1, <1>3, <1>5 DEF AtLine, ReadCall, NoCall, NoneOpen
<1> QED
  BY <1>1, <1>4, <1>6 DEF ShellInv, Somewhere

\* A step in which nothing changes.
LEMMA ShellStutter == ASSUME ShellInv, UNCHANGED shell_vars PROVE ShellInv'
<1>1. UNCHANGED <<vars, at, command, data, fd, values, asked, shown>>
  BY DEF shell_vars, locals, screen
<1>2. LInv'
  BY <1>1, StutterLInv DEF ShellInv
<1>3. UNCHANGED <<inodes, open_files, result, pc, call>>
  BY <1>1 DEF vars, tables
<1>4. Files' /\ LocalsOK'
  BY <1>1, <1>3 DEF ShellInv, Files, LocalsOK
<1>5. /\ Prompted' = Prompted /\ Body' = Body /\ Saying' = Saying /\ Said' = Said
      /\ Cats' = Cats /\ CatsFile' = CatsFile /\ PathAsked' = PathAsked
  BY <1>1, <1>3 DEF Prompted, Body, Saying, Writing, WriteCall, NoCall, Said, Cats, CatsFile, PathAsked
<1>6. AtBanner => AtBanner'
  BY <1>1, <1>3 DEF AtBanner, NoneOpen
<1>7. AtPrompt => AtPrompt'
  BY <1>1, <1>3, <1>5 DEF AtPrompt, NoneOpen, OneOpen, CloseCall, NoCall
<1>8. AtAsk => AtAsk'
  BY <1>1, <1>3, <1>5 DEF AtAsk, NoneOpen
<1>9. AtLine => AtLine'
  BY <1>1, <1>3, <1>5 DEF AtLine, NoneOpen, ReadCall, NoCall
<1>10. AtParse => AtParse'
  BY <1>1, <1>3 DEF AtParse, NoneOpen, Entered
<1>11. AtPid => AtPid'
  BY <1>1, <1>3 DEF AtPid, NoneOpen
<1>12. AtExited => AtExited'
  BY <1>1, <1>3 DEF AtExited, NoneOpen
<1>13. AtNewline => AtNewline'
  BY <1>1, <1>3, <1>5 DEF AtNewline, NoneOpen
<1>14. AtMemtest => AtMemtest'
  BY <1>1, <1>3 DEF AtMemtest, NoneOpen
<1>15. AtOpened => AtOpened'
  BY <1>1, <1>3, <1>5 DEF AtOpened, NoneOpen, OneOpen, OpenCall, NoCall
<1>16. AtCat => AtCat'
  BY <1>1, <1>3, <1>5 DEF AtCat, NoneOpen, OneOpen
<1>17. AtCounted => AtCounted'
  BY <1>1, <1>3, <1>5 DEF AtCounted, NoneOpen, OneOpen, ReadCall, NoCall
<1>18. AtClose => AtClose'
  BY <1>1, <1>3, <1>5 DEF AtClose, NoneOpen, OneOpen
<1>19. Somewhere'
  BY <1>6, <1>7, <1>8, <1>9, <1>10, <1>11, <1>12, <1>13, <1>14, <1>15, <1>16, <1>17, <1>18
  DEF ShellInv, Somewhere
<1> QED
  BY <1>2, <1>4, <1>19 DEF ShellInv

\* The shell starts in a state of the invariant.
LEMMA ShellInitInv == ShellInit => ShellInv
<1> SUFFICES ASSUME ShellInit PROVE ShellInv
  OBVIOUS
<1>1. LInv
  BY InitInv, InitEffect DEF ShellInit, LInv, EInv, Init, Line
<1>2. Files
  BY DEF ShellInit, Init, FS!Init, Files
<1>3. LocalsOK
  BY CharactersAssumption DEF ShellInit, LocalsOK
<1>4. AtBanner
  BY DEF ShellInit, Init, FS!Init, AtBanner, NoneOpen
<1> QED
  BY <1>1, <1>2, <1>3, <1>4 DEF ShellInv, Somewhere

\* Every step keeps the invariant.
LEMMA ShellNextInv == ShellInv /\ [ShellNext]_shell_vars => ShellInv'
<1>1. ASSUME ShellInv, Parked PROVE ShellInv'
  <2>1. UNCHANGED shell_vars
    BY <1>1 DEF Parked, Stopped, shell_vars
  <2> QED
    BY <1>1, <2>1, ShellStutter
<1> QED
  BY <1>1, ProgramStep, KernelStepKeeps, TypingStep, ShellStutter DEF ShellNext

\* What the shell knows, at every place, in every reachable state.
THEOREM ShellInvariant == ShellSpec => []ShellInv
  BY ShellInitInv, ShellNextInv, PTL DEF ShellSpec

\* The state has its types, and the terminator of a line lies in the buffer: the line
\* the kernel hands over is never longer than the shell has asked for.
THEOREM ShellTypeCorrect == ShellSpec => []ShellTypeOK
<1>1. ShellInv => ShellTypeOK
  <2> SUFFICES ASSUME ShellInv PROVE ShellTypeOK
    OBVIOUS
  <2>1. TypeOK
    BY DEF ShellInv, LInv, EInv, Inv
  <2>2. ASSUME pc = "user", at = "line"
        PROVE  result.value + 1 \in DOMAIN command
    <3>1. asked \in Lines /\ result.value = Len(asked)
      BY <2>2, PlaceIs DEF ShellInv, AtLine
    <3>2. Len(asked) \in Nat /\ Len(asked) < COMMAND_SIZE /\ COMMAND_SIZE \in Nat
      BY <3>1, LineIsText, SizesAssumption, LimitsAssumption
    <3>3. DOMAIN command = 1 .. COMMAND_SIZE
      BY DEF ShellInv, LocalsOK
    <3> QED
      BY <3>1, <3>2, <3>3
  <2> QED
    BY <2>1, <2>2 DEF ShellInv, LocalsOK, ShellTypeOK
<1> QED
  BY <1>1, ShellInvariant, PTL

\* Whenever the shell is about to prompt, every descriptor it has opened is closed
\* again, whatever was typed (user_shell.c:357-400).
THEOREM NoDescriptorLeftCorrect == ShellSpec => []NoDescriptorLeft
<1>1. ShellInv => NoDescriptorLeft
  <2> SUFFICES ASSUME ShellInv, pc = "user", at = "prompt"
               PROVE  \A i \in DOMAIN open_files : ~open_files[i].used
    BY DEF NoDescriptorLeft
  <2>1. open_files = NoneOpen
    BY PlaceIs DEF ShellInv, AtPrompt
  <2> QED
    BY <2>1 DEF NoneOpen, FS!ZeroOpenFile
<1> QED
  BY <1>1, ShellInvariant, PTL

\* What is proved of the kernel for any program holds under the shell, whose calls are
\* its own: user memory is open only while a call copies and within what was checked, a
\* call that fails changes nothing, and a line is what was typed (syscall.c:39-327).
THEOREM KernelUnderShell ==
    ShellSpec => [](SumOnlyWhileCopying /\ AccessesChecked /\ FailureIsClean /\ LineIsWhatWasTyped)
<1>1. ShellInv => SumOnlyWhileCopying /\ AccessesChecked /\ FailureIsClean
  BY DEF ShellInv, LInv, EInv, Inv, Effect
<1>2. ShellInv => LineIsWhatWasTyped
  BY HeldIsTyped DEF ShellInv
<1> QED
  BY <1>1, <1>2, ShellInvariant, PTL

-----------------------------------------------------------------------------
(* What the terminal has promised. *)

\* The instance's answer is the answer.
LEMMA SameAnswer ==
    ASSUME NEW t
    PROVE  T!Answer(t) = Answer(t)
<1>1. T!Decimal = Decimal
  BY DEF T!Decimal, Decimal
<1>2. /\ T!echo_prefix = echo_prefix /\ T!cat_prefix = cat_prefix
  BY DEF T!echo_prefix, echo_prefix, T!cat_prefix, cat_prefix
<1>3. \A p, s : T!After(p, s) = After(p, s)
  BY DEF T!After, After
<1>4. \A d : T!Spelled(d) = Spelled(d)
  BY DEF T!Spelled, Spelled
<1>5. \A p, s : T!IsPrefix(p, s) <=> IsPrefix(p, s)
  BY DEF T!IsPrefix, IsPrefix
<1> QED
  BY <1>1, <1>2, <1>3, <1>4, <1>5 DEF T!Answer, Answer

\* Unless the shell is to exit, the promise is the answer and the prompt.
LEMMA PromiseIs ==
    ASSUME Prompted
    PROVE  /\ T!Promise = Body \o prompt
           /\ Body \in Seq(Bytes) /\ prompt \in Seq(Bytes)
<1>1. exit_command # NoLine
  BY TextsFit, Named, CharactersAssumption
<1>2. T!Promise = IF asked = NoLine THEN banner \o prompt ELSE T!Answer(asked) \o prompt
  BY <1>1 DEF T!Promise, Prompted
<1>3. T!Promise = Body \o prompt
  BY <1>2, SameAnswer DEF Body
<1>4. Body \in Seq(Bytes)
  <2>1. CASE asked = NoLine
    BY <2>1, TextsFit, Named DEF Body
  <2>2. CASE asked # NoLine
    BY <2>2, LineIsText, AnswerText DEF Body, Prompted
  <2> QED
    BY <2>1, <2>2
<1> QED
  BY <1>3, <1>4, TextsFit, Named

\* What is shown is a sequence of bytes.
Shown == shown \in Seq(Bytes)

\* What is written next continues what was promised.
LEMMA Continues ==
    ASSUME Shown, data \in Seq(Bytes), NEW rest \in Seq(Bytes),
           T!Promise = (shown \o data) \o rest,
           shown' = shown \o data, UNCHANGED asked
    PROVE  [T!Next]_T!vars
<1>1. /\ shown' \in Seq(Bytes) /\ Len(shown') = Len(shown) + Len(data)
      /\ Len(shown) \in Nat /\ Len(data) \in Nat /\ Len(rest) \in Nat
  BY ConcatProperties DEF Shown
<1>2. CASE data = <<>>
  <2>1. shown' = shown
    BY <1>2, ConcatEmptySeq DEF Shown
  <2> QED
    BY <2>1 DEF T!vars
<1>3. CASE data # <<>>
  <2>1. Len(data) > 0
    BY <1>1, <1>3, EmptySeq
  <2> DEFINE k == Len(shown')
  <2>2. T!Promise = shown' \o rest
    OBVIOUS
  <2>3. Len(T!Promise) = Len(shown') + Len(rest) /\ T!Promise \in Seq(Bytes)
        /\ \A i \in 1 .. Len(shown') : T!Promise[i] = shown'[i]
    <3> DEFINE said == shown'
               whole == T!Promise
    <3>1. said \in Seq(Bytes) /\ whole = said \o rest
      BY <1>1, <2>2
    <3> HIDE DEF said, whole
    <3>2. /\ whole \in Seq(Bytes) /\ Len(whole) = Len(said) + Len(rest)
          /\ Len(said) \in Nat /\ \A i \in 1 .. Len(said) : whole[i] = said[i]
      BY <1>1, <3>1
    <3> QED
      BY <3>2 DEF said, whole
  <2>4. shown' = SubSeq(T!Promise, 1, Len(shown'))
    <3> DEFINE said == shown'
               whole == T!Promise
    <3>1. /\ said \in Seq(Bytes) /\ whole \in Seq(Bytes) /\ Len(said) \in Nat /\ Len(whole) \in Nat
          /\ Len(said) <= Len(whole)
          /\ \A i \in 1 .. Len(said) : whole[i] = said[i]
      BY <1>1, <2>3
    <3> HIDE DEF said, whole
    <3>2. /\ SubSeq(whole, 1, Len(said)) \in Seq(Bytes)
          /\ Len(SubSeq(whole, 1, Len(said))) = Len(said)
          /\ \A i \in 1 .. Len(said) : SubSeq(whole, 1, Len(said))[i] = whole[i]
      BY <3>1
    <3>3. said = SubSeq(whole, 1, Len(said))
      BY <3>1, <3>2, SeqEqual
    <3> QED
      BY <3>3 DEF said, whole
  <2>5. Len(shown') \in Len(shown) + 1 .. Len(T!Promise)
    BY <1>1, <2>1, <2>3
  <2>6. T!Show
    BY <2>4, <2>5 DEF T!Show
  <2> QED
    BY <2>6 DEF T!Next
<1> QED
  BY <1>2, <1>3

\* A write of the shell is a part of what was promised.
LEMMA WriteShows ==
    ASSUME ShellInv, pc = "write"
    PROVE  /\ data \in Seq(Bytes)
           /\ \E rest \in Seq(Bytes) : T!Promise = (shown \o data) \o rest
<1>1. Saying /\ (AtPrompt \/ AtAsk \/ AtNewline \/ AtCat)
  <2>1. ~AtBanner BY DEF AtBanner
  <2>2. ~AtLine BY DEF AtLine
  <2>3. ~AtParse BY DEF AtParse
  <2>4. ~AtPid BY DEF AtPid
  <2>5. ~AtExited BY DEF AtExited
  <2>6. ~AtMemtest BY DEF AtMemtest
  <2>7. ~AtOpened BY DEF AtOpened
  <2>8. ~AtCounted BY DEF AtCounted
  <2>9. ~AtClose BY DEF AtClose
  <2>10. AtPrompt => Saying BY DEF AtPrompt
  <2>11. AtAsk => Saying BY DEF AtAsk
  <2>12. AtNewline => Saying BY DEF AtNewline
  <2>13. AtCat => Saying BY DEF AtCat
  <2> QED
    BY <2>1, <2>2, <2>3, <2>4, <2>5, <2>6, <2>7, <2>8, <2>9, <2>10, <2>11, <2>12, <2>13
    DEF ShellInv, Somewhere
<1>2. data \in Seq(Bytes) /\ Said = shown \o data
  BY <1>1 DEF Saying, Said
<1>3. CASE AtPrompt
  <2>1. Prompted /\ Said = Body
    BY <1>3 DEF AtPrompt
  <2>2. T!Promise = (shown \o data) \o prompt /\ prompt \in Seq(Bytes)
    BY <1>2, <2>1, PromiseIs
  <2> QED
    BY <1>2, <2>2
<1>4. CASE AtAsk
  <2>1. Prompted /\ Said = Body \o prompt
    BY <1>4 DEF AtAsk
  <2>2. Said = T!Promise /\ Said \in Seq(Bytes)
    BY <2>1, PromiseIs, ConcatProperties
  <2>3. T!Promise = (shown \o data) \o <<>> /\ <<>> \in Seq(Bytes)
    BY <1>2, <2>2, ConcatEmptySeq, EmptySeq
  <2> QED
    BY <1>2, <2>3
<1>5. CASE AtNewline
  <2>1. asked \in Lines /\ IsPrefix(echo_prefix, asked) /\ Said = After(echo_prefix, asked)
    BY <1>5 DEF AtNewline
  <2>2. /\ asked \in Seq(Bytes) /\ asked # NoLine
        /\ Answer(asked) = After(echo_prefix, asked) \o newline /\ asked # exit_command
    BY <2>1, LineIsText, CharactersAssumption, Answers
  <2>3. T!Promise = (Said \o newline) \o prompt
    BY <2>1, <2>2, PromiseIs DEF Prompted, Body
  <2>4. Said \in Seq(Bytes) /\ newline \in Seq(Bytes) /\ prompt \in Seq(Bytes)
    BY <2>1, <2>2, TextsFit, Named, PrefixFacts
  <2>5. T!Promise = Said \o (newline \o prompt) /\ newline \o prompt \in Seq(Bytes)
    BY <2>3, <2>4, ConcatAssociative, ConcatProperties
  <2> QED
    BY <1>2, <2>5
<1>6. CASE AtCat
  <2>1. PICK n \in 0 .. Len(HelloText) : Said = Beginning(n)
    BY <1>6 DEF AtCat
  <2>2. Cats /\ PathAsked = HelloPath
    BY <1>6 DEF AtCat, CatsFile
  <2>3. /\ asked \in Seq(Bytes) /\ asked # NoLine /\ asked # exit_command
        /\ Answer(asked) = HelloText
    BY <2>2, CatAnswer
  <2>4. T!Promise = HelloText \o prompt /\ HelloText \in Seq(Bytes) /\ prompt \in Seq(Bytes)
    BY <2>2, <2>3, PromiseIs DEF Prompted, Body, Cats
  <2>5. \E more \in Seq(Bytes) : Said \in Seq(Bytes) /\ HelloText = Said \o more
    <3>1. CASE n = Len(HelloText)
      <4>1. Said = HelloText
        BY <2>1, <3>1, Beginnings
      <4> QED
        BY <4>1, <2>4, ConcatEmptySeq, EmptySeq
    <3>2. CASE n # Len(HelloText)
      <4> DEFINE m == Len(HelloText) - n
      <4>1. n \in Nat /\ Len(HelloText) \in Nat /\ m \in Nat /\ m > 0 /\ n + m = Len(HelloText)
        BY <2>1, <2>4, <3>2
      <4> HIDE DEF m
      <4> DEFINE more == SubSeq(HelloText, n + 1, n + m)
      <4>2. more \in Seq(Bytes) /\ Beginning(n) \o more = Beginning(n + m)
        <5>1. n \in 0 .. Len(HelloText) /\ n + m <= Len(HelloText)
          BY <2>1, <4>1
        <5> QED
          BY <4>1, <5>1, Continued
      <4> HIDE DEF more
      <4>3. Beginning(n) \o more = HelloText
        BY <4>1, <4>2, Beginnings
      <4>4. Beginning(n) \in Seq(Bytes)
        BY <2>1, <2>4, <4>1 DEF Beginning
      <4> QED
        BY <2>1, <4>2, <4>3, <4>4
    <3> QED
      BY <3>1, <3>2
  <2>6. PICK more \in Seq(Bytes) : Said \in Seq(Bytes) /\ HelloText = Said \o more
    BY <2>5
  <2>7. T!Promise = Said \o (more \o prompt) /\ more \o prompt \in Seq(Bytes)
    BY <2>4, <2>6, ConcatAssociative, ConcatProperties
  <2> QED
    BY <1>2, <2>7
<1> QED
  BY <1>1, <1>3, <1>4, <1>5, <1>6

-----------------------------------------------------------------------------
(* The steps the terminal sees. *)

\* The shell's own steps do not reach the terminal.
LEMMA ProgramShowsNothing == Program => UNCHANGED screen
<1>1. ASSUME NEW arguments, NEW next, user_syscall3(arguments, next) PROVE UNCHANGED screen
  BY <1>1 DEF user_syscall3
<1>2. ASSUME NEW text, NEW next, user_write(text, next) PROVE UNCHANGED screen
  BY <1>1, <1>2 DEF user_write
<1>3. ASSUME NEW next, Compute(next) PROVE UNCHANGED screen
  BY <1>3 DEF Compute
<1>4. (Start \/ ShowPrompt \/ Help \/ ShowPid \/ Echo \/ EchoText \/ EndEcho \/ Unknown \/ Verdict
         \/ CatUsage) => UNCHANGED screen
  BY <1>2 DEF Start, ShowPrompt, Help, ShowPid, Echo, EchoText, EndEcho, Unknown, Verdict, CatUsage
<1>5. (ReadLine \/ GetPid \/ Exit \/ Memtest \/ MemtestKernel \/ MemtestReadonly) => UNCHANGED screen
  BY <1>1 DEF ReadLine, user_read, GetPid, Exit, Memtest, MemtestKernel, MemtestReadonly
<1>6. (CatOpen \/ CatRead \/ CatClose) => UNCHANGED screen
  BY <1>1 DEF CatOpen, user_open, CatRead, user_read, CatClose, user_close
<1>7. (Terminate \/ Opened \/ Cat) => UNCHANGED screen
  BY <1>2, <1>3 DEF Terminate, Opened, Cat
<1> QED
  BY <1>4, <1>5, <1>6, <1>7 DEF Program

\* A line that is handed over is a question, after all that was promised.
LEMMA LineAsks ==
    ASSUME ShellInv, Kernel, LineReturns
    PROVE  [T!Next]_T!vars
<1>1. AtLine /\ pc = "resume"
  BY PlaceIs DEF ShellInv, LineReturns
<1>2. /\ call = ReadCall(0, COMMAND_SIZE - 1) /\ result.value # -1
      /\ Prompted /\ shown = Body \o prompt
  BY <1>1 DEF AtLine
<1>3. LineTyped \in Lines
  BY <1>1, <1>2, LineGiven DEF ShellInv
<1>4. asked' = LineTyped /\ shown' = <<>>
  BY DEF Kernel
<1>5. shown = T!Promise /\ asked # exit_command
  BY <1>2, PromiseIs DEF Prompted
<1>6. T!Ask(LineTyped)
  BY <1>4, <1>5 DEF T!Ask
<1> QED
  BY <1>3, <1>6 DEF T!Next

\* Every step of the shell is one of the terminal, or none.
LEMMA TerminalStep ==
    ASSUME ShellInv, Shown, [ShellNext]_shell_vars
    PROVE  [T!Next]_T!vars /\ Shown'
<1>1. CASE UNCHANGED screen
  BY <1>1 DEF screen, T!vars, Shown
<1>2. CASE Kernel /\ LineReturns
  <2>1. shown' = <<>>
    BY <1>2 DEF Kernel
  <2> QED
    BY <1>2, <2>1, LineAsks, EmptySeq DEF Shown
<1>3. CASE Kernel /\ ~LineReturns /\ pc = "write"
  <2>1. shown' = shown \o data /\ UNCHANGED asked
    BY <1>3 DEF Kernel
  <2>2. data \in Seq(Bytes)
    BY <1>3, WriteShows
  <2>3. PICK rest \in Seq(Bytes) : T!Promise = (shown \o data) \o rest
    BY <1>3, WriteShows
  <2>4. [T!Next]_T!vars
    BY <2>1, <2>2, <2>3, Continues
  <2> QED
    BY <2>1, <2>2, <2>4, ConcatProperties DEF Shown
<1>4. CASE Kernel /\ ~LineReturns /\ pc # "write"
  <2>1. UNCHANGED screen
    BY <1>4 DEF Kernel, screen
  <2> QED
    BY <1>1, <2>1
<1>5. UNCHANGED screen \/ Kernel
  BY ProgramShowsNothing DEF ShellNext, Typing, Parked, shell_vars
<1> QED
  BY <1>1, <1>2, <1>3, <1>4, <1>5

\* Whatever is typed, the shell shows nothing but the answer to exactly the last line and
\* then the prompt, in order and nothing twice, and takes no line before (user_shell.c:407-559).
THEOREM TerminalSafety == ShellSpec => T!Spec
<1>1. ShellInit => T!Init /\ Shown
  BY EmptySeq DEF ShellInit, T!Init, Shown
<1>2. ShellInv /\ Shown /\ [ShellNext]_shell_vars => [T!Next]_T!vars /\ Shown'
  BY TerminalStep
<1> QED
  BY <1>1, <1>2, ShellInvariant, PTL DEF ShellSpec, T!Spec

=============================================================================
