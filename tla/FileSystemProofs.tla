--------------------------- MODULE FileSystemProofs ---------------------------
(***************************************************************************)
(* Proofs about FileSystem, for tables of every size and every set of      *)
(* processes, names and bytes: the invariants the runs check hold, and     *)
(* they are inductive together; and the tables implement FileApi.          *)
(***************************************************************************)
EXTENDS FileSystem, WellFoundedInduction, FiniteSetTheorems, SequenceTheorems, TLAPS

\* A search from the front finds the least index, if there is one.
LEMMA LeastFound ==
    ASSUME NEW S \in SUBSET Nat, S # {}
    PROVE  Least(S) \in S /\ \A j \in S : Least(S) <= j
<1> DEFINE Below == {ss \in Nat \X Nat : ss[1] < ss[2]}
<1>1. IsWellFoundedOn(Below, Nat)
  BY NatLessThanWellFounded, Zenon DEF OpToRel
<1>2. PICK i \in S : \A j \in S : ~(<<j, i>> \in Below)
  <2> HIDE DEF Below
  <2> QED
    BY <1>1, WFMin
<1>3. ASSUME NEW j \in S
      PROVE  i <= j
  <2>1. i \in Nat /\ j \in Nat /\ ~(<<j, i>> \in Below)
    BY <1>2
  <2>2. ~(j < i)
    BY <2>1
  <2> QED
    BY <2>1, <2>2
<1> QED
  BY <1>3 DEF Least

\* A buffer written over data replaces exactly the bytes in its range.
LEMMA OverwrittenFact ==
    ASSUME NEW data \in [Offsets -> Bytes \cup {Blank}], NEW buffer \in Seq(Bytes),
           NEW offset \in Nat, NEW count \in Nat, count <= Len(buffer)
    PROVE  /\ Overwritten(data, offset, buffer, count) \in [Offsets -> Bytes \cup {Blank}]
           /\ \A k \in Offsets :
                 IF offset <= k /\ k < offset + count
                 THEN Overwritten(data, offset, buffer, count)[k] \in Bytes
                 ELSE Overwritten(data, offset, buffer, count)[k] = data[k]
<1>1. ASSUME NEW k \in Offsets, k \in offset .. offset + count - 1
      PROVE  buffer[k - offset + 1] \in Bytes
  <2>1. k - offset + 1 \in 1 .. Len(buffer)
    BY <1>1 DEF Offsets
  <2> QED
    BY <2>1
<1>2. ASSUME NEW k \in Offsets
      PROVE  k \in offset .. offset + count - 1 <=> offset <= k /\ k < offset + count
  BY DEF Offsets
<1> QED
  BY <1>1, <1>2 DEF Overwritten

\* All the invariants of the runs, together.
Inv == /\ TypeOK /\ UniqueNames /\ UniqueDescriptors
       /\ OpenFilesValid /\ OnlyWrittenBytes /\ CountExact

\* The part of it that is about the tables.
Tables ==
    /\ inodes \in [Slots -> Inode]
    /\ open_files \in [OpenSlots -> OpenFile]
    /\ inode_count \in Nat
    /\ UniqueNames /\ UniqueDescriptors /\ OpenFilesValid /\ CountExact
    /\ \A i \in UsedSlots : \A k \in 0 .. inodes[i].size - 1 : inodes[i].data[k] \in Bytes

\* The invariant contains what it says of the tables alone.
LEMMA InvTables == Inv => Tables
  BY DEF Inv, Tables, TypeOK, OnlyWrittenBytes

\* What it says of the tables, and a well-formed reply, is the whole invariant.
LEMMA TablesInv ==
    ASSUME Tables',
           reply' \in [value : Int, data : Seq(Bytes \cup {Blank})], reply'.data \in Seq(Bytes)
    PROVE  Inv'
  BY DEF Inv, Tables, TypeOK, OnlyWrittenBytes

\* A result without data.
LEMMA ReturnReply ==
    ASSUME NEW v \in Int, Return(v)
    PROVE  reply' \in [value : Int, data : Seq(Bytes \cup {Blank})] /\ reply'.data \in Seq(Bytes)
<1>1. reply' = [value |-> v, data |-> <<>>]
  BY DEF Return
<1>2. <<>> \in Seq(Bytes \cup {Blank}) /\ <<>> \in Seq(Bytes)
  OBVIOUS
<1> QED
  BY <1>1, <1>2

\* A step that changes no table keeps what holds of the tables.
LEMMA TablesUnchanged ==
    ASSUME Inv, UNCHANGED <<inodes, open_files, inode_count>>
    PROVE  Tables'
  BY DEF Inv, Tables, TypeOK, UniqueNames, UniqueDescriptors, OpenFilesValid, OnlyWrittenBytes,
     CountExact, UsedSlots, FreeOpenSlots

\* A call that fails at once keeps the invariant.
LEMMA FailInv == ASSUME Inv, Fail PROVE Inv'
<1>1. UNCHANGED <<inodes, open_files, inode_count>> /\ Return(-1)
  BY DEF Fail
<1>2. Tables'
  BY <1>1, TablesUnchanged
<1>3. reply' \in [value : Int, data : Seq(Bytes \cup {Blank})] /\ reply'.data \in Seq(Bytes)
  BY <1>1, ReturnReply
<1> QED
  BY <1>2, <1>3, TablesInv

-----------------------------------------------------------------------------
(* The initial tables. *)

\* The tables that fs_init leaves satisfy the invariant.
LEMMA InitInv == Init => Inv
<1> SUFFICES ASSUME Init PROVE Inv
  OBVIOUS
<1> USE LimitsAssumption, InputsAssumption
<1>1. HelloText \in Seq(Bytes) /\ Len(HelloText) \in 0 .. FS_DATA_MAX
  OBVIOUS
<1>2. ZeroInode \in Inode
  BY DEF ZeroInode, Inode
<1>3. Stored(ZeroInode, HelloName, HelloText) \in Inode
  <2>1. ZeroInode.data \in [Offsets -> Bytes \cup {Blank}]
    BY DEF ZeroInode
  <2>2. Overwritten(ZeroInode.data, 0, HelloText, Len(HelloText)) \in [Offsets -> Bytes \cup {Blank}]
    BY <1>1, <2>1, OverwrittenFact
  <2> QED
    BY <1>1, <2>2, NamesAssumption DEF Stored, Inode
<1>4. inodes \in [Slots -> Inode]
  BY <1>2, <1>3 DEF Init
<1>5. open_files \in [OpenSlots -> OpenFile]
  BY DEF Init, ZeroOpenFile, OpenFile, Slots
<1>6. UsedSlots = {0} /\ 0 \in Slots
  BY DEF Init, UsedSlots, Slots, Stored, ZeroInode
<1>7. OpenSlots \ FreeOpenSlots = {}
  BY DEF Init, FreeOpenSlots, ZeroOpenFile
<1>8. ASSUME NEW k \in 0 .. inodes[0].size - 1
      PROVE  inodes[0].data[k] \in Bytes
  <2>1. inodes[0] = Stored(ZeroInode, HelloName, HelloText)
    BY <1>6 DEF Init
  <2>2. inodes[0].size = Len(HelloText)
        /\ inodes[0].data = Overwritten(ZeroInode.data, 0, HelloText, Len(HelloText))
    BY <2>1 DEF Stored
  <2>3. ZeroInode.data \in [Offsets -> Bytes \cup {Blank}]
    BY DEF ZeroInode
  <2>4. k \in Offsets /\ 0 <= k /\ k < 0 + Len(HelloText)
    BY <1>1, <2>2 DEF Offsets
  <2>5. HelloText \in Seq(Bytes) /\ Len(HelloText) \in Nat /\ Len(HelloText) <= Len(HelloText)
    BY <1>1
  <2>6. Overwritten(ZeroInode.data, 0, HelloText, Len(HelloText))[k] \in Bytes
    BY <2>3, <2>4, <2>5, OverwrittenFact
  <2> QED
    BY <2>2, <2>6
<1>9. Tables
  BY <1>4, <1>5, <1>6, <1>7, <1>8
  DEF Tables, Init, UniqueNames, UniqueDescriptors, OpenFilesValid, CountExact
<1>10. reply \in [value : Int, data : Seq(Bytes \cup {Blank})] /\ reply.data \in Seq(Bytes)
  BY DEF Init
<1> QED
  BY <1>9, <1>10 DEF Inv, Tables, TypeOK, OnlyWrittenBytes

-----------------------------------------------------------------------------
(* fs_create. *)

\* The slot fs_create takes is the one behind the last file.
LEMMA NextSlot ==
    ASSUME Inv, FreeSlots # {}
    PROVE  Least(FreeSlots) = inode_count /\ inode_count \in Slots \ UsedSlots
<1>1. UsedSlots = 0 .. inode_count - 1 /\ inode_count \in Nat
  BY DEF Inv, CountExact, TypeOK
<1>2. FreeSlots \in SUBSET Nat
  BY DEF FreeSlots, Slots
<1>3. Least(FreeSlots) \in FreeSlots /\ \A j \in FreeSlots : Least(FreeSlots) <= j
  BY <1>2, LeastFound
<1>4. Least(FreeSlots) \in Slots /\ Least(FreeSlots) \notin UsedSlots
  BY <1>3 DEF FreeSlots
<1>5. Least(FreeSlots) >= inode_count
  BY <1>1, <1>4 DEF Slots
<1>6. inode_count \in Slots /\ inode_count \notin UsedSlots
  BY <1>1, <1>4, <1>5, LimitsAssumption DEF Slots
<1>7. Least(FreeSlots) <= inode_count
  BY <1>3, <1>6 DEF FreeSlots
<1> QED
  BY <1>1, <1>4, <1>5, <1>6, <1>7 DEF Slots

\* fs_create keeps the invariant, also when the name is cut.
LEMMA CreateInv ==
    ASSUME Inv, NEW n \in Names, fs_create(n)
    PROVE  Inv'
<1>1. CASE Fail
  BY <1>1, FailInv
<1>2. ASSUME SlotsNamed(n) = {}, FreeSlots # {}
      PROVE  Inv'
  <2> DEFINE i == inode_count
  <2>1. Least(FreeSlots) = i /\ i \in Slots /\ i \notin UsedSlots /\ i \in Nat
        /\ UsedSlots = 0 .. i - 1
    BY <1>2, NextSlot DEF Inv, CountExact, TypeOK
  <2>2. inodes \in [Slots -> Inode] /\ open_files \in [OpenSlots -> OpenFile]
    BY DEF Inv, TypeOK
  <2>3. CASE n \in LongNames
    <3>1. NameTooLong(i)
      BY <1>2, <2>1, <2>3 DEF fs_create
    <3>2. inodes' = [inodes EXCEPT ![i].name = CutName] /\ Return(-1)
          /\ UNCHANGED <<open_files, inode_count>>
      BY <3>1 DEF NameTooLong
    <3>3. inodes' \in [Slots -> Inode]
      BY <2>1, <2>2, <3>2, NamesAssumption DEF Inode
    <3>4. \A j \in Slots : inodes'[j].used = inodes[j].used /\ (j # i => inodes'[j] = inodes[j])
      BY <2>1, <2>2, <3>2
    <3>5. UsedSlots' = UsedSlots /\ \A j \in UsedSlots : inodes'[j] = inodes[j]
      BY <2>1, <3>4 DEF UsedSlots
    <3>6. Tables'
      BY <2>2, <3>2, <3>3, <3>5
      DEF Inv, Tables, TypeOK, UniqueNames, UniqueDescriptors, OpenFilesValid, OnlyWrittenBytes,
          CountExact, FreeOpenSlots
    <3>7. reply' \in [value : Int, data : Seq(Bytes \cup {Blank})] /\ reply'.data \in Seq(Bytes)
      BY <3>2, ReturnReply
    <3> QED
      BY <3>6, <3>7, TablesInv
  <2>4. CASE n \notin LongNames
    <3>1. inodes' = [inodes EXCEPT ![i] = Stored(inodes[i], n, <<>>)]
          /\ inode_count' = inode_count + 1 /\ Return(i) /\ open_files' = open_files
      BY <1>2, <2>1, <2>4 DEF fs_create
    <3>2. Stored(inodes[i], n, <<>>) \in Inode
      <4>1. inodes[i].data \in [Offsets -> Bytes \cup {Blank}]
        BY <2>1, <2>2 DEF Inode
      <4>2. <<>> \in Seq(Bytes) /\ Len(<<>>) \in Nat /\ Len(<<>>) <= Len(<<>>)
        OBVIOUS
      <4>3. Overwritten(inodes[i].data, 0, <<>>, Len(<<>>)) \in [Offsets -> Bytes \cup {Blank}]
        BY <4>1, <4>2, OverwrittenFact
      <4> QED
        BY <4>3, LimitsAssumption DEF Stored, Inode
    <3>3. inodes' \in [Slots -> Inode]
      BY <2>1, <2>2, <3>1, <3>2
    <3>4. inodes'[i].used /\ inodes'[i].name = n /\ inodes'[i].size = 0
      BY <2>1, <2>2, <3>1 DEF Stored
    <3>5. \A j \in Slots \ {i} : inodes'[j] = inodes[j]
      BY <2>1, <2>2, <3>1
    <3>6. UsedSlots' = UsedSlots \cup {i}
      BY <2>1, <3>4, <3>5 DEF UsedSlots
    <3>7. \A j \in UsedSlots : inodes'[j] = inodes[j] /\ inodes[j].name # n
      BY <1>2, <2>1, <3>5 DEF UsedSlots, SlotsNamed
    <3>8. UniqueNames'
      BY <2>1, <3>4, <3>6, <3>7 DEF Inv, UniqueNames
    <3>9. UniqueDescriptors' /\ OpenFilesValid'
      BY <2>1, <2>2, <3>1, <3>6, <3>7
      DEF Inv, UniqueDescriptors, OpenFilesValid, FreeOpenSlots
    <3>10. CountExact'
      BY <2>1, <3>1, <3>6 DEF CountExact
    <3>11. \A j \in UsedSlots' : \A k \in 0 .. inodes'[j].size - 1 : inodes'[j].data[k] \in Bytes
      BY <2>1, <3>4, <3>6, <3>7 DEF Inv, OnlyWrittenBytes
    <3>12. Tables'
      BY <2>1, <2>2, <3>1, <3>3, <3>8, <3>9, <3>10, <3>11 DEF Tables
    <3>13. reply' \in [value : Int, data : Seq(Bytes \cup {Blank})] /\ reply'.data \in Seq(Bytes)
      BY <2>1, <3>1, ReturnReply
    <3> QED
      BY <3>12, <3>13, TablesInv
  <2> QED
    BY <2>3, <2>4
<1> QED
  BY <1>1, <1>2 DEF fs_create

-----------------------------------------------------------------------------
(* fs_open and fs_close: one entry of open_files changes. *)

\* A change of the open files alone keeps what is about the inodes.
LEMMA OpenFilesChange ==
    ASSUME Inv, UNCHANGED <<inodes, inode_count>>, open_files' \in [OpenSlots -> OpenFile],
           UniqueDescriptors', OpenFilesValid'
    PROVE  Tables'
<1>1. UsedSlots' = UsedSlots
  BY DEF UsedSlots
<1> QED
  BY <1>1 DEF Inv, Tables, TypeOK, UniqueNames, OnlyWrittenBytes, CountExact

\* fs_open keeps the invariant: the descriptor it gives out is new.
LEMMA OpenInv ==
    ASSUME Inv, NEW pid \in Pids, NEW n \in Names, fs_open(pid, n)
    PROVE  Inv'
<1>1. CASE Fail
  BY <1>1, FailInv
<1>2. ASSUME SlotsNamed(n) # {}, FreeFds(pid) # {}, FreeOpenSlots # {}
      PROVE  Inv'
  <2> DEFINE fd == Least(FreeFds(pid))
             f == Least(FreeOpenSlots)
             i == find_inode(n)
  <2>1. fd \in FreeFds(pid)
    <3>1. FreeFds(pid) \in SUBSET Nat
      BY DEF FreeFds
    <3> QED
      BY <1>2, <3>1, LeastFound
  <2>2. f \in FreeOpenSlots
    <3>1. FreeOpenSlots \in SUBSET Nat
      BY DEF FreeOpenSlots, OpenSlots
    <3> QED
      BY <1>2, <3>1, LeastFound
  <2>3. i \in UsedSlots
    <3>1. SlotsNamed(n) \in SUBSET Nat /\ SlotsNamed(n) \subseteq UsedSlots
      BY DEF SlotsNamed, UsedSlots, Slots
    <3> QED
      BY <1>2, <3>1, LeastFound DEF find_inode
  <2>4. open_files' = [open_files EXCEPT ![f] =
                         [used |-> TRUE, pid |-> pid, fd |-> fd, inode_index |-> i, offset |-> 0]]
        /\ Return(fd) /\ UNCHANGED <<inodes, inode_count>>
    BY <1>2 DEF fs_open
  <2> HIDE DEF fd, f, i
  <2>5. inodes \in [Slots -> Inode] /\ open_files \in [OpenSlots -> OpenFile]
    BY DEF Inv, TypeOK
  <2>6. fd \in 3 .. 3 + FS_MAX_OPEN_FILES - 1 /\ fd \in Nat /\ fd \in Int /\ Opened(pid, fd) = {}
    BY <2>1, LimitsAssumption DEF FreeFds
  <2>7. f \in OpenSlots /\ ~open_files[f].used
    BY <2>2 DEF FreeOpenSlots
  <2>8. i \in Slots /\ inodes[i].size \in Nat
    BY <2>3, <2>5 DEF UsedSlots, Inode
  <2>9. open_files'[f] = [used |-> TRUE, pid |-> pid, fd |-> fd, inode_index |-> i, offset |-> 0]
        /\ \A j \in OpenSlots \ {f} : open_files'[j] = open_files[j]
    BY <2>4, <2>5, <2>7
  <2>10. open_files' \in [OpenSlots -> OpenFile]
    <3>1. [used |-> TRUE, pid |-> pid, fd |-> fd, inode_index |-> i, offset |-> 0] \in OpenFile
      BY <2>6, <2>8, InputsAssumption, LimitsAssumption DEF OpenFile
    <3> QED
      BY <2>4, <2>5, <3>1
  <2>11. (OpenSlots \ FreeOpenSlots)' = (OpenSlots \ FreeOpenSlots) \cup {f}
    BY <2>7, <2>9 DEF FreeOpenSlots
  <2>12. \A j \in OpenSlots \ FreeOpenSlots :
            j # f /\ ~(open_files[j].pid = pid /\ open_files[j].fd = fd)
    BY <2>6, <2>7 DEF FreeOpenSlots, Opened
  <2>13. UniqueDescriptors'
    BY <2>7, <2>9, <2>11, <2>12 DEF Inv, UniqueDescriptors
  <2>14. OpenFilesValid'
    <3>1. UsedSlots' = UsedSlots /\ inodes' = inodes
      BY <2>4 DEF UsedSlots
    <3> QED
      BY <2>3, <2>6, <2>8, <2>9, <2>11, <2>12, <3>1 DEF Inv, OpenFilesValid
  <2>15. Tables'
    BY <2>4, <2>10, <2>13, <2>14, OpenFilesChange
  <2>16. reply' \in [value : Int, data : Seq(Bytes \cup {Blank})] /\ reply'.data \in Seq(Bytes)
    BY <2>4, <2>6, ReturnReply
  <2> QED
    BY <2>15, <2>16, TablesInv
<1> QED
  BY <1>1, <1>2 DEF fs_open

\* An open descriptor is found in a slot that is in use.
LEMMA OpenedFound ==
    ASSUME Inv, NEW pid, NEW fd, Opened(pid, fd) # {}
    PROVE  /\ find_open_file(pid, fd) \in OpenSlots \ FreeOpenSlots
           /\ open_files[find_open_file(pid, fd)] \in OpenFile
           /\ open_files[find_open_file(pid, fd)].pid = pid
           /\ open_files[find_open_file(pid, fd)].fd = fd
<1>1. Opened(pid, fd) \in SUBSET Nat
  BY DEF Opened, OpenSlots
<1>2. find_open_file(pid, fd) \in Opened(pid, fd)
  BY <1>1, LeastFound DEF find_open_file
<1> QED
  BY <1>2 DEF Opened, FreeOpenSlots, Inv, TypeOK

\* fs_close keeps the invariant.
LEMMA CloseInv ==
    ASSUME Inv, NEW pid \in Pids, NEW fd \in Fds, fs_close(pid, fd)
    PROVE  Inv'
<1>1. CASE Fail
  BY <1>1, FailInv
<1>2. ASSUME Opened(pid, fd) # {}
      PROVE  Inv'
  <2> DEFINE f == find_open_file(pid, fd)
  <2>1. f \in OpenSlots \ FreeOpenSlots
    BY <1>2, OpenedFound
  <2>2. open_files' = [open_files EXCEPT ![f] = ZeroOpenFile]
        /\ Return(0) /\ UNCHANGED <<inodes, inode_count>>
    BY <1>2 DEF fs_close
  <2> HIDE DEF f
  <2>3. open_files \in [OpenSlots -> OpenFile]
    BY DEF Inv, TypeOK
  <2>4. open_files' \in [OpenSlots -> OpenFile]
    <3>1. ZeroOpenFile \in OpenFile
      BY LimitsAssumption DEF ZeroOpenFile, OpenFile, Slots
    <3> QED
      BY <2>2, <2>3, <3>1
  <2>5. ~open_files'[f].used /\ \A j \in OpenSlots \ {f} : open_files'[j] = open_files[j]
    BY <2>1, <2>2, <2>3 DEF ZeroOpenFile
  <2>6. (OpenSlots \ FreeOpenSlots)' = (OpenSlots \ FreeOpenSlots) \ {f}
    BY <2>1, <2>5 DEF FreeOpenSlots
  <2>7. UniqueDescriptors'
    BY <2>5, <2>6 DEF Inv, UniqueDescriptors
  <2>8. OpenFilesValid'
    <3>1. UsedSlots' = UsedSlots /\ inodes' = inodes
      BY <2>2 DEF UsedSlots
    <3> QED
      BY <2>5, <2>6, <3>1 DEF Inv, OpenFilesValid
  <2>9. Tables'
    BY <2>2, <2>4, <2>7, <2>8, OpenFilesChange
  <2>10. reply' \in [value : Int, data : Seq(Bytes \cup {Blank})] /\ reply'.data \in Seq(Bytes)
    BY <2>2, ReturnReply
  <2> QED
    BY <2>9, <2>10, TablesInv
<1> QED
  BY <1>1, <1>2 DEF fs_close

-----------------------------------------------------------------------------
(* fs_read and fs_write: the offset of one open file moves inside its file. *)

\* Moving the offset of an open file keeps which descriptors there are.
LEMMA OffsetMoves ==
    ASSUME Inv, NEW f \in OpenSlots \ FreeOpenSlots, NEW o \in 0 .. FS_DATA_MAX,
           open_files' = [open_files EXCEPT ![f].offset = o]
    PROVE  /\ open_files' \in [OpenSlots -> OpenFile]
           /\ (OpenSlots \ FreeOpenSlots)' = OpenSlots \ FreeOpenSlots
           /\ open_files'[f].offset = o
           /\ \A j \in OpenSlots \ {f} : open_files'[j] = open_files[j]
           /\ \A j \in OpenSlots : /\ open_files'[j].pid = open_files[j].pid
                                   /\ open_files'[j].fd = open_files[j].fd
                                   /\ open_files'[j].inode_index = open_files[j].inode_index
           /\ UniqueDescriptors'
<1>1. open_files \in [OpenSlots -> OpenFile]
  BY DEF Inv, TypeOK
<1>2. open_files' \in [OpenSlots -> OpenFile]
  BY <1>1 DEF OpenFile
<1>3. /\ open_files'[f] = [open_files[f] EXCEPT !.offset = o]
      /\ \A j \in OpenSlots \ {f} : open_files'[j] = open_files[j]
  BY <1>1
<1>4. open_files[f] \in OpenFile
  BY <1>1
<1>5. \A j \in OpenSlots : /\ open_files'[j].used = open_files[j].used
                           /\ open_files'[j].pid = open_files[j].pid
                           /\ open_files'[j].fd = open_files[j].fd
                           /\ open_files'[j].inode_index = open_files[j].inode_index
  BY <1>3, <1>4 DEF OpenFile
<1>6. (OpenSlots \ FreeOpenSlots)' = OpenSlots \ FreeOpenSlots
  BY <1>5 DEF FreeOpenSlots
<1>7. UniqueDescriptors'
  BY <1>5, <1>6 DEF Inv, UniqueDescriptors
<1>8. open_files'[f].offset = o
  BY <1>3, <1>4 DEF OpenFile
<1> QED
  BY <1>2, <1>3, <1>5, <1>6, <1>7, <1>8

\* fs_read keeps the invariant: the offset stays in the file, the reply is of written bytes.
LEMMA ReadInv ==
    ASSUME Inv, NEW pid \in Pids, NEW fd \in Fds, NEW length \in Lengths, fs_read(pid, fd, length)
    PROVE  Inv'
<1>1. CASE Fail
  BY <1>1, FailInv
<1>2. ASSUME Opened(pid, fd) # {}
      PROVE  Inv'
  <2> DEFINE f == find_open_file(pid, fd)
             offset == open_files[f].offset
             i == open_files[f].inode_index
             count == IF offset >= inodes[i].size THEN 0 ELSE Smaller(length, inodes[i].size - offset)
  <2>1. f \in OpenSlots \ FreeOpenSlots /\ open_files[f] \in OpenFile
    BY <1>2, OpenedFound
  <2>2. open_files' = [open_files EXCEPT ![f].offset = offset + count]
        /\ reply' = [value |-> count, data |-> [k \in 1..count |-> inodes[i].data[offset + k - 1]]]
        /\ UNCHANGED <<inodes, inode_count>>
    BY <1>2 DEF fs_read
  <2> HIDE DEF f
  <2>3. i \in UsedSlots /\ i \in Slots /\ offset \in Nat /\ offset <= inodes[i].size
    BY <2>1 DEF Inv, OpenFilesValid, UsedSlots, OpenFile
  <2>4. inodes[i].size \in 0 .. FS_DATA_MAX
    BY <2>3 DEF Inv, TypeOK, Inode
  <2>5. length \in Nat /\ FS_DATA_MAX \in Nat
    BY InputsAssumption, LimitsAssumption
  <2>6. count \in Nat /\ count \in Int /\ offset + count <= inodes[i].size
    BY <2>3, <2>4, <2>5 DEF Smaller
  <2> HIDE DEF offset, count, i
  <2>7. offset + count \in 0 .. FS_DATA_MAX
    BY <2>3, <2>4, <2>5, <2>6
  <2>8. /\ open_files' \in [OpenSlots -> OpenFile]
        /\ UniqueDescriptors'
        /\ (OpenSlots \ FreeOpenSlots)' = OpenSlots \ FreeOpenSlots
        /\ open_files'[f].offset = offset + count
        /\ \A j \in OpenSlots \ {f} : open_files'[j] = open_files[j]
        /\ \A j \in OpenSlots : /\ open_files'[j].fd = open_files[j].fd
                                /\ open_files'[j].inode_index = open_files[j].inode_index
    BY <2>1, <2>2, <2>7, OffsetMoves
  <2>9. OpenFilesValid'
    <3>1. UsedSlots' = UsedSlots /\ inodes' = inodes
      BY <2>2 DEF UsedSlots
    <3> QED
      BY <2>6, <2>8, <3>1 DEF Inv, OpenFilesValid, i
  <2>10. Tables'
    BY <2>2, <2>8, <2>9, OpenFilesChange
  <2>11. [k \in 1..count |-> inodes[i].data[offset + k - 1]] \in Seq(Bytes)
    <3>1. ASSUME NEW k \in 1..count
          PROVE  inodes[i].data[offset + k - 1] \in Bytes
      <4>1. offset + k - 1 \in 0 .. inodes[i].size - 1
        BY <2>3, <2>4, <2>6
      <4> QED
        BY <2>3, <4>1 DEF Inv, OnlyWrittenBytes
    <3> QED
      BY <2>6, <3>1
  <2>12. reply' \in [value : Int, data : Seq(Bytes \cup {Blank})] /\ reply'.data \in Seq(Bytes)
    <3>1. [k \in 1..count |-> inodes[i].data[offset + k - 1]] \in Seq(Bytes \cup {Blank})
      BY <2>11
    <3> QED
      BY <2>2, <2>6, <2>11, <3>1
  <2> QED
    BY <2>10, <2>12, TablesInv
<1> QED
  BY <1>1, <1>2 DEF fs_read

\* fs_write keeps the invariant: the size covers written bytes only and fits the array.
LEMMA WriteInv ==
    ASSUME Inv, NEW pid \in Pids, NEW fd \in Fds, NEW buffer \in Buffers, fs_write(pid, fd, buffer)
    PROVE  Inv'
<1>1. CASE Fail
  BY <1>1, FailInv
<1>2. ASSUME Opened(pid, fd) # {}
      PROVE  Inv'
  <2> DEFINE f == find_open_file(pid, fd)
             offset == open_files[f].offset
             i == open_files[f].inode_index
             count == IF offset >= FS_DATA_MAX THEN 0 ELSE Smaller(Len(buffer), FS_DATA_MAX - offset)
             data == Overwritten(inodes[i].data, offset, buffer, count)
             size == Larger(inodes[i].size, offset + count)
  <2>1. f \in OpenSlots \ FreeOpenSlots /\ open_files[f] \in OpenFile
    BY <1>2, OpenedFound
  <2>2. inodes' = [inodes EXCEPT ![i].data = data, ![i].size = size]
        /\ open_files' = [open_files EXCEPT ![f].offset = offset + count]
        /\ Return(count) /\ inode_count' = inode_count
    BY <1>2 DEF fs_write
  <2> HIDE DEF f
  <2>3. i \in UsedSlots /\ i \in Slots /\ offset \in Nat /\ offset <= inodes[i].size
    BY <2>1 DEF Inv, OpenFilesValid, UsedSlots, OpenFile
  <2>4. /\ inodes \in [Slots -> Inode] /\ inodes[i] \in Inode /\ inodes[i].used
        /\ inodes[i].size \in 0 .. FS_DATA_MAX
        /\ inodes[i].data \in [Offsets -> Bytes \cup {Blank}]
    BY <2>3 DEF Inv, TypeOK, Inode, UsedSlots
  <2>5. buffer \in Seq(Bytes) /\ Len(buffer) \in Nat /\ FS_DATA_MAX \in Nat
    BY InputsAssumption, LimitsAssumption
  <2>6. count \in Nat /\ count \in Int /\ count <= Len(buffer) /\ offset + count <= FS_DATA_MAX
    BY <2>3, <2>4, <2>5 DEF Smaller
  <2>7. size \in 0 .. FS_DATA_MAX /\ inodes[i].size <= size /\ offset + count <= size
        /\ (size = inodes[i].size \/ size = offset + count)
    BY <2>3, <2>4, <2>5, <2>6 DEF Larger
  <2> HIDE DEF count, offset, i, size
  <2>8. /\ data \in [Offsets -> Bytes \cup {Blank}]
        /\ \A k \in Offsets : IF offset <= k /\ k < offset + count THEN data[k] \in Bytes
                                                                 ELSE data[k] = inodes[i].data[k]
    <3> DEFINE old == inodes[i].data
    <3>1. old \in [Offsets -> Bytes \cup {Blank}]
      BY <2>4
    <3> HIDE DEF old
    <3>2. /\ Overwritten(old, offset, buffer, count) \in [Offsets -> Bytes \cup {Blank}]
          /\ \A k \in Offsets :
                IF offset <= k /\ k < offset + count
                THEN Overwritten(old, offset, buffer, count)[k] \in Bytes
                ELSE Overwritten(old, offset, buffer, count)[k] = old[k]
      BY <2>3, <2>5, <2>6, <3>1, OverwrittenFact
    <3> QED
      BY <3>2 DEF old
  <2> HIDE DEF data
  <2>9. inodes' \in [Slots -> Inode]
    BY <2>2, <2>3, <2>4, <2>7, <2>8 DEF Inode
  <2>10. /\ inodes'[i].used /\ inodes'[i].name = inodes[i].name
         /\ inodes'[i].data = data /\ inodes'[i].size = size
    BY <2>2, <2>3, <2>4 DEF Inode
  <2>11. \A j \in Slots \ {i} : inodes'[j] = inodes[j]
    BY <2>2, <2>3, <2>4
  <2>12. UsedSlots' = UsedSlots /\ \A j \in UsedSlots : inodes'[j].name = inodes[j].name
    BY <2>3, <2>4, <2>10, <2>11 DEF UsedSlots
  <2>13. offset + count \in 0 .. FS_DATA_MAX
    BY <2>3, <2>5, <2>6
  <2>14. /\ open_files' \in [OpenSlots -> OpenFile]
         /\ UniqueDescriptors'
         /\ (OpenSlots \ FreeOpenSlots)' = OpenSlots \ FreeOpenSlots
         /\ open_files'[f].offset = offset + count
         /\ \A j \in OpenSlots \ {f} : open_files'[j] = open_files[j]
         /\ \A j \in OpenSlots : /\ open_files'[j].fd = open_files[j].fd
                                 /\ open_files'[j].inode_index = open_files[j].inode_index
    BY <2>1, <2>2, <2>13, OffsetMoves
  <2>15. OpenFilesValid'
    <3>1. ASSUME NEW j \in OpenSlots \ FreeOpenSlots
          PROVE  open_files'[j].offset <= inodes'[open_files'[j].inode_index].size
      <4> DEFINE m == open_files[j].inode_index
      <4>1. m \in UsedSlots /\ m \in Slots /\ open_files[j].offset <= inodes[m].size
            /\ open_files[j].offset \in Nat /\ inodes[m].size \in Nat
        BY DEF Inv, OpenFilesValid, TypeOK, UsedSlots, OpenFile, Inode
      <4>2. inodes[m].size <= inodes'[m].size /\ inodes'[m].size \in Nat
        BY <2>4, <2>7, <2>10, <2>11, <4>1
      <4>3. CASE j = f
        BY <2>7, <2>10, <2>14, <4>3 DEF i
      <4>4. CASE j # f
        BY <2>14, <4>1, <4>2, <4>4
      <4> QED
        BY <4>3, <4>4
    <3> QED
      BY <2>12, <2>14, <3>1 DEF Inv, OpenFilesValid
  <2>16. ASSUME NEW j \in UsedSlots, NEW k \in 0 .. inodes'[j].size - 1
         PROVE  inodes'[j].data[k] \in Bytes
    <3>1. CASE j = i
      <4>1. k \in Offsets /\ k < size
        BY <2>5, <2>7, <2>10, <3>1 DEF Offsets
      <4>2. CASE offset <= k /\ k < offset + count
        BY <2>8, <2>10, <3>1, <4>1, <4>2
      <4>3. CASE ~(offset <= k /\ k < offset + count)
        <5>1. data[k] = inodes[i].data[k]
          BY <2>8, <4>1, <4>3
        <5>2. k \in 0 .. inodes[i].size - 1
          BY <2>3, <2>4, <2>6, <2>7, <4>1, <4>3 DEF Offsets
        <5> QED
          BY <2>3, <2>10, <3>1, <5>1, <5>2 DEF Inv, OnlyWrittenBytes
      <4> QED
        BY <4>2, <4>3
    <3>2. CASE j # i
      <4>1. inodes'[j] = inodes[j]
        BY <2>11, <3>2 DEF UsedSlots
      <4> QED
        BY <4>1 DEF Inv, OnlyWrittenBytes
    <3> QED
      BY <3>1, <3>2
  <2>17. UniqueNames'
    BY <2>12 DEF Inv, UniqueNames
  <2>18. CountExact'
    BY <2>2, <2>12 DEF Inv, CountExact
  <2>19. Tables'
    BY <2>2, <2>9, <2>12, <2>14, <2>15, <2>16, <2>17, <2>18 DEF Tables, Inv, TypeOK
  <2>20. reply' \in [value : Int, data : Seq(Bytes \cup {Blank})] /\ reply'.data \in Seq(Bytes)
    BY <2>2, <2>6, ReturnReply
  <2> QED
    BY <2>19, <2>20, TablesInv
<1> QED
  BY <1>1, <1>2 DEF fs_write

-----------------------------------------------------------------------------
(* Every step keeps the invariants. *)

\* A step that changes nothing.
LEMMA StutterInv == ASSUME Inv, UNCHANGED vars PROVE Inv'
<1>1. UNCHANGED <<inodes, open_files, inode_count>> /\ reply' = reply
  BY DEF vars
<1>2. Tables'
  BY <1>1, TablesUnchanged
<1>3. reply' \in [value : Int, data : Seq(Bytes \cup {Blank})] /\ reply'.data \in Seq(Bytes)
  BY <1>1 DEF Inv, TypeOK, OnlyWrittenBytes
<1> QED
  BY <1>2, <1>3, TablesInv

\* The invariants together are inductive.
LEMMA NextInv == Inv /\ [Next]_vars => Inv'
<1> SUFFICES ASSUME Inv, [Next]_vars PROVE Inv'
  OBVIOUS
<1>1. ASSUME NEW n \in Names, fs_create(n) PROVE Inv'
  BY <1>1, CreateInv
<1>2. ASSUME NEW pid \in Pids, NEW n \in Names, fs_open(pid, n) PROVE Inv'
  BY <1>2, OpenInv
<1>3. ASSUME NEW pid \in Pids, NEW fd \in Fds, fs_close(pid, fd) PROVE Inv'
  BY <1>3, CloseInv
<1>4. ASSUME NEW pid \in Pids, NEW fd \in Fds, NEW length \in Lengths, fs_read(pid, fd, length)
      PROVE  Inv'
  BY <1>4, ReadInv
<1>5. ASSUME NEW pid \in Pids, NEW fd \in Fds, NEW buffer \in Buffers, fs_write(pid, fd, buffer)
      PROVE  Inv'
  BY <1>5, WriteInv
<1>6. CASE UNCHANGED vars
  BY <1>6, StutterInv
<1> QED
  BY <1>1, <1>2, <1>3, <1>4, <1>5, <1>6 DEF Next

\* All invariants of the file system hold in every reachable state of its tables.
THEOREM FileInvariant == Spec => []Inv
<1>1. Init => Inv
  BY InitInv
<1>2. Inv /\ [Next]_vars => Inv'
  BY NextInv
<1> QED
  BY <1>1, <1>2, PTL DEF Spec

\* No call makes a size, an offset or an inode index leave its array.
THEOREM TypeCorrect == Spec => []TypeOK
<1>1. Inv => TypeOK
  BY DEF Inv
<1> QED
  BY <1>1, FileInvariant, PTL

\* find_inode never has two files to choose from.
THEOREM NamesUnique == Spec => []UniqueNames
<1>1. Inv => UniqueNames
  BY DEF Inv
<1> QED
  BY <1>1, FileInvariant, PTL

\* find_open_file never has two open files to choose from.
THEOREM DescriptorsUnique == Spec => []UniqueDescriptors
<1>1. Inv => UniqueDescriptors
  BY DEF Inv
<1> QED
  BY <1>1, FileInvariant, PTL

\* Every open file refers to an existing file and a position inside it.
THEOREM OpenFilesStayValid == Spec => []OpenFilesValid
<1>1. Inv => OpenFilesValid
  BY DEF Inv
<1> QED
  BY <1>1, FileInvariant, PTL

\* Neither a file nor an answer of fs_read ever holds a byte nobody wrote.
THEOREM BytesWritten == Spec => []OnlyWrittenBytes
<1>1. Inv => OnlyWrittenBytes
  BY DEF Inv
<1> QED
  BY <1>1, FileInvariant, PTL

\* inode_count counts the files, which fill the table from the front.
THEOREM CountIsExact == Spec => []CountExact
<1>1. Inv => CountExact
  BY DEF Inv
<1> QED
  BY <1>1, FileInvariant, PTL

-----------------------------------------------------------------------------
(* Files only grow. *)

\* What one step may do to the files.
Grown == \A i \in UsedSlots :
    inodes'[i].used /\ inodes'[i].name = inodes[i].name /\ inodes'[i].size >= inodes[i].size

\* The calls that leave the inodes alone.
LEMMA SameGrown == ASSUME Inv, inodes' = inodes PROVE Grown
<1>1. \A i \in UsedSlots : inodes[i].used /\ inodes[i].size \in Nat
  BY DEF Inv, TypeOK, UsedSlots, Inode
<1> QED
  BY <1>1 DEF Grown

\* fs_create changes one free slot.
LEMMA CreateGrown == ASSUME Inv, NEW n \in Names, fs_create(n) PROVE Grown
<1>1. CASE Fail
  BY <1>1, SameGrown DEF Fail
<1>2. ASSUME SlotsNamed(n) = {}, FreeSlots # {} PROVE Grown
  <2> DEFINE i == inode_count
  <2>1. Least(FreeSlots) = i /\ i \in Slots \ UsedSlots
    BY <1>2, NextSlot
  <2>2. inodes \in [Slots -> Inode]
    BY DEF Inv, TypeOK
  <2>3. \/ inodes' = [inodes EXCEPT ![i].name = CutName]
        \/ inodes' = [inodes EXCEPT ![i] = Stored(inodes[i], n, <<>>)]
    BY <1>2, <2>1 DEF fs_create, NameTooLong
  <2>4. \A j \in UsedSlots : inodes'[j] = inodes[j]
    BY <2>1, <2>2, <2>3 DEF UsedSlots
  <2>5. \A j \in UsedSlots : inodes[j].used /\ inodes[j].size \in Nat
    BY <2>2 DEF UsedSlots, Inode
  <2> QED
    BY <2>4, <2>5 DEF Grown
<1> QED
  BY <1>1, <1>2 DEF fs_create

\* fs_write never makes the size smaller.
LEMMA WriteGrown ==
    ASSUME Inv, NEW pid \in Pids, NEW fd \in Fds, NEW buffer \in Buffers, fs_write(pid, fd, buffer)
    PROVE  Grown
<1>1. CASE Fail
  BY <1>1, SameGrown DEF Fail
<1>2. ASSUME Opened(pid, fd) # {} PROVE Grown
  <2> DEFINE f == find_open_file(pid, fd)
             offset == open_files[f].offset
             i == open_files[f].inode_index
             count == IF offset >= FS_DATA_MAX THEN 0 ELSE Smaller(Len(buffer), FS_DATA_MAX - offset)
             data == Overwritten(inodes[i].data, offset, buffer, count)
             size == Larger(inodes[i].size, offset + count)
  <2>1. f \in OpenSlots \ FreeOpenSlots /\ open_files[f] \in OpenFile
    BY <1>2, OpenedFound
  <2>2. inodes' = [inodes EXCEPT ![i].data = data, ![i].size = size]
    BY <1>2 DEF fs_write
  <2> HIDE DEF f
  <2>3. i \in Slots /\ offset \in Nat
    BY <2>1 DEF OpenFile
  <2>4. inodes \in [Slots -> Inode] /\ \A j \in Slots : inodes[j] \in Inode /\ inodes[j].size \in Nat
    BY DEF Inv, TypeOK, Inode
  <2>5. Len(buffer) \in Nat /\ FS_DATA_MAX \in Nat
    BY InputsAssumption, LimitsAssumption
  <2>6. count \in Nat
    BY <2>3, <2>5 DEF Smaller
  <2>7. size >= inodes[i].size
    BY <2>3, <2>4, <2>6 DEF Larger
  <2> HIDE DEF i, offset, count, data, size
  <2>8. /\ inodes'[i].used = inodes[i].used
        /\ inodes'[i].name = inodes[i].name
        /\ inodes'[i].size = size
    BY <2>2, <2>3, <2>4 DEF Inode
  <2>9. \A j \in Slots \ {i} : inodes'[j] = inodes[j]
    BY <2>2, <2>3, <2>4
  <2>10. ASSUME NEW j \in UsedSlots
         PROVE  inodes'[j].used /\ inodes'[j].name = inodes[j].name /\ inodes'[j].size >= inodes[j].size
    <3>1. j \in Slots /\ inodes[j].used
      BY DEF UsedSlots
    <3>2. CASE j = i
      BY <2>7, <2>8, <3>1, <3>2
    <3>3. CASE j # i
      BY <2>4, <2>9, <3>1, <3>3
    <3> QED
      BY <3>2, <3>3
  <2> QED
    BY <2>10 DEF Grown
<1> QED
  BY <1>1, <1>2 DEF fs_write

\* No call of any process ever loses, renames or cuts a file.
THEOREM FilesNeverShrink == Spec => FilesOnlyGrow
<1>1. Inv /\ [Next]_vars => [Grown]_vars
  <2> SUFFICES ASSUME Inv, Next PROVE Grown
    OBVIOUS
  <2>1. ASSUME NEW n \in Names, fs_create(n) PROVE Grown
    BY <2>1, CreateGrown
  <2>2. ASSUME NEW pid \in Pids, NEW n \in Names, fs_open(pid, n) PROVE Grown
    BY <2>2, SameGrown DEF fs_open, Fail
  <2>3. ASSUME NEW pid \in Pids, NEW fd \in Fds, fs_close(pid, fd) PROVE Grown
    BY <2>3, SameGrown DEF fs_close, Fail
  <2>4. ASSUME NEW pid \in Pids, NEW fd \in Fds, NEW length \in Lengths, fs_read(pid, fd, length)
        PROVE  Grown
    BY <2>4, SameGrown DEF fs_read, Fail
  <2>5. ASSUME NEW pid \in Pids, NEW fd \in Fds, NEW buffer \in Buffers, fs_write(pid, fd, buffer)
        PROVE  Grown
    BY <2>5, WriteGrown
  <2> QED
    BY <2>1, <2>2, <2>3, <2>4, <2>5 DEF Next
<1>2. Spec => [][Grown]_vars
  BY <1>1, FileInvariant, PTL DEF Spec
<1> QED
  BY <1>2 DEF FilesOnlyGrow, Grown

-----------------------------------------------------------------------------
(* The tables as a caller sees them.  The tables are parameters here, so that the *)
(* lemmas can be cited for those before and those behind a step.                   *)

TextIn(ns, i) == [k \in 1 .. ns[i].size |-> ns[i].data[k - 1]]
HandleIn(ns, os, i) == [name |-> ns[os[i].inode_index].name, pos |-> os[i].offset]
Descriptor(os, i) == <<os[i].pid, os[i].fd>>

\* fl is what is seen of the inodes ns: each file under its name, and nothing else.
FilesOf(fl, ns) ==
    /\ fl = [n \in DOMAIN fl |-> fl[n]]
    /\ DOMAIN fl = {ns[i].name : i \in {j \in Slots : ns[j].used}}
    /\ \A i \in Slots : ns[i].used => fl[ns[i].name] = TextIn(ns, i)

\* hs is what is seen of the open files os: each handle under its process and number.
HandlesOf(hs, ns, os) ==
    /\ hs = [h \in DOMAIN hs |-> hs[h]]
    /\ DOMAIN hs = {Descriptor(os, i) : i \in {j \in OpenSlots : os[j].used}}
    /\ \A i \in OpenSlots : os[i].used => hs[Descriptor(os, i)] = HandleIn(ns, os, i)

\* A set with one element has it as its least.
LEMMA LeastOne == ASSUME NEW i \in Nat PROVE Least({i}) = i
  BY LeastFound

\* The files seen are those in use: a name leads to its slot.
LEMMA FilesSeenAre == Inv => FilesOf(FilesSeen, inodes)
<1> SUFFICES ASSUME Inv PROVE FilesOf(FilesSeen, inodes)
  OBVIOUS
<1>1. UsedSlots = {j \in Slots : inodes[j].used}
  BY DEF UsedSlots
<1>2. DOMAIN FilesSeen = {inodes[i].name : i \in {j \in Slots : inodes[j].used}}
      /\ FilesSeen = [n \in DOMAIN FilesSeen |-> FilesSeen[n]]
  BY <1>1 DEF FilesSeen
<1>3. ASSUME NEW i \in Slots, inodes[i].used
      PROVE  FilesSeen[inodes[i].name] = TextIn(inodes, i)
  <2>1. SlotsNamed(inodes[i].name) = {i}
    BY <1>1, <1>3 DEF Inv, UniqueNames, SlotsNamed
  <2>2. find_inode(inodes[i].name) = i
    BY <2>1, LeastOne DEF find_inode, Slots
  <2>3. FilesSeen[inodes[i].name] = TextOf(find_inode(inodes[i].name))
    BY <1>1, <1>3 DEF FilesSeen
  <2> QED
    BY <2>2, <2>3 DEF TextOf, TextIn
<1> QED
  BY <1>2, <1>3 DEF FilesOf

\* The handles seen are the open files: a descriptor leads to its entry.
LEMMA HandlesSeenAre == Inv => HandlesOf(HandlesSeen, inodes, open_files)
<1> SUFFICES ASSUME Inv PROVE HandlesOf(HandlesSeen, inodes, open_files)
  OBVIOUS
<1>1. OpenSlots \ FreeOpenSlots = {j \in OpenSlots : open_files[j].used}
  BY DEF FreeOpenSlots
<1>2. /\ DOMAIN HandlesSeen = {Descriptor(open_files, i) : i \in {j \in OpenSlots : open_files[j].used}}
      /\ HandlesSeen = [h \in DOMAIN HandlesSeen |-> HandlesSeen[h]]
  BY <1>1 DEF HandlesSeen, Descriptor
<1>3. ASSUME NEW i \in OpenSlots, open_files[i].used
      PROVE  HandlesSeen[Descriptor(open_files, i)] = HandleIn(inodes, open_files, i)
  <2> DEFINE h == Descriptor(open_files, i)
  <2>1. Opened(open_files[i].pid, open_files[i].fd) = {i}
    BY <1>1, <1>3 DEF Inv, UniqueDescriptors, Opened
  <2>2. find_open_file(open_files[i].pid, open_files[i].fd) = i
    BY <2>1, LeastOne DEF find_open_file, OpenSlots
  <2>3. h[1] = open_files[i].pid /\ h[2] = open_files[i].fd /\ h \in DOMAIN HandlesSeen
    BY <1>2, <1>3 DEF Descriptor
  <2> HIDE DEF h
  <2>4. HandlesSeen[h] = HandleOf(find_open_file(h[1], h[2]))
    BY <2>3 DEF HandlesSeen
  <2> QED
    BY <2>2, <2>3, <2>4 DEF HandleOf, HandleIn, h
<1> QED
  BY <1>2, <1>3 DEF HandlesOf

\* The same behind a step.
LEMMA SeenNext ==
    Inv' => FilesOf(FilesSeen', inodes') /\ HandlesOf(HandlesSeen', inodes', open_files')
<1>1. (Inv => FilesOf(FilesSeen, inodes) /\ HandlesOf(HandlesSeen, inodes, open_files))'
  BY FilesSeenAre, HandlesSeenAre, PTL
<1> QED
  BY <1>1

\* What is seen of tables is determined by them.
LEMMA FilesSame ==
    ASSUME NEW f, NEW g, NEW ns, FilesOf(f, ns), NEW ms, FilesOf(g, ms),
           \A i \in Slots : ms[i].used = ns[i].used /\ (ns[i].used => ms[i] = ns[i])
    PROVE  g = f
<1>1. DOMAIN g = DOMAIN f
  BY DEF FilesOf
<1>2. ASSUME NEW n \in DOMAIN f PROVE g[n] = f[n]
  <2>1. PICK i \in Slots : ns[i].used /\ n = ns[i].name
    BY DEF FilesOf
  <2>2. g[n] = TextIn(ms, i) /\ f[n] = TextIn(ns, i)
    BY <2>1 DEF FilesOf
  <2> QED
    BY <2>1, <2>2 DEF TextIn
<1> QED
  BY <1>1, <1>2 DEF FilesOf

LEMMA HandlesSame ==
    ASSUME NEW f, NEW g, NEW ns, NEW os, HandlesOf(f, ns, os), NEW ms, HandlesOf(g, ms, os),
           \A i \in OpenSlots : os[i].used => ms[os[i].inode_index].name = ns[os[i].inode_index].name
    PROVE  g = f
<1>1. DOMAIN g = DOMAIN f
  BY DEF HandlesOf
<1>2. ASSUME NEW h \in DOMAIN f PROVE g[h] = f[h]
  <2>1. PICK i \in OpenSlots : os[i].used /\ h = Descriptor(os, i)
    BY DEF HandlesOf
  <2>2. g[h] = HandleIn(ms, os, i) /\ f[h] = HandleIn(ns, os, i)
    BY <2>1 DEF HandlesOf
  <2> QED
    BY <2>1, <2>2 DEF HandleIn
<1> QED
  BY <1>1, <1>2 DEF HandlesOf

-----------------------------------------------------------------------------
(* How many files and handles there are. *)

\* There are as many files as inodes in use, since no two have one name.
LEMMA FilesCounted ==
    ASSUME Inv
    PROVE  Cardinality(DOMAIN FilesSeen) = inode_count
<1> DEFINE name == [i \in UsedSlots |-> inodes[i].name]
<1>1. FilesOf(FilesSeen, inodes) /\ UsedSlots = {j \in Slots : inodes[j].used}
  BY FilesSeenAre DEF UsedSlots
<1>2. name \in [UsedSlots -> DOMAIN FilesSeen] /\ DOMAIN name = UsedSlots
  BY <1>1 DEF FilesOf
<1>3. IsInjective(name)
  BY <1>2 DEF IsInjective, Inv, UniqueNames
<1>4. \A n \in DOMAIN FilesSeen : \E i \in UsedSlots : name[i] = n
  BY <1>1 DEF FilesOf
<1>5. ExistsBijection(UsedSlots, DOMAIN FilesSeen)
  <2> HIDE DEF name
  <2> QED
    BY <1>2, <1>3, <1>4 DEF ExistsBijection, Bijection, Injection, Surjection
<1>6. UsedSlots = 0 .. inode_count - 1 /\ inode_count \in Nat
  BY DEF Inv, CountExact, TypeOK
<1>7. IsFiniteSet(UsedSlots) /\ Cardinality(UsedSlots) = inode_count
  <2>1. 0 \in Int /\ inode_count - 1 \in Int
    BY <1>6
  <2>2. IsFiniteSet(0 .. inode_count - 1)
        /\ Cardinality(0 .. inode_count - 1) = IF 0 > inode_count - 1 THEN 0 ELSE inode_count - 1 - 0 + 1
    BY <2>1, FS_Interval
  <2> QED
    BY <1>6, <2>2
<1> QED
  BY <1>5, <1>7, FS_Bijection

\* No slot is free exactly when there are FS_MAX_FILES files.
LEMMA FilesFull ==
    ASSUME Inv
    PROVE  FreeSlots = {} <=> Cardinality(DOMAIN FilesSeen) = FS_MAX_FILES
<1>1. UsedSlots = 0 .. inode_count - 1 /\ inode_count \in Nat /\ UsedSlots \subseteq Slots
  BY DEF Inv, CountExact, TypeOK, UsedSlots
<1>2. Cardinality(DOMAIN FilesSeen) = inode_count
  BY FilesCounted
<1>3. FreeSlots = {} => inode_count = FS_MAX_FILES
  <2> SUFFICES ASSUME FreeSlots = {} PROVE inode_count = FS_MAX_FILES
    OBVIOUS
  <2>1. UsedSlots = Slots
    BY <1>1 DEF FreeSlots
  <2>2. FS_MAX_FILES - 1 \in UsedSlots /\ FS_MAX_FILES \notin UsedSlots
    BY <2>1, LimitsAssumption DEF Slots
  <2> QED
    BY <1>1, <2>2, LimitsAssumption
<1>4. inode_count = FS_MAX_FILES => FreeSlots = {}
  BY <1>1 DEF FreeSlots, Slots
<1> QED
  BY <1>2, <1>3, <1>4

\* The entries in use.
UsedOpen == OpenSlots \ FreeOpenSlots

\* There are FS_MAX_OPEN_FILES entries.
LEMMA OpenSlotsCounted ==
    /\ IsFiniteSet(OpenSlots) /\ Cardinality(OpenSlots) = FS_MAX_OPEN_FILES
    /\ IsFiniteSet(3 .. 3 + FS_MAX_OPEN_FILES - 1)
    /\ Cardinality(3 .. 3 + FS_MAX_OPEN_FILES - 1) = FS_MAX_OPEN_FILES
<1>1. /\ 3 \in Int /\ 3 + FS_MAX_OPEN_FILES - 1 \in Int /\ 0 \in Int /\ FS_MAX_OPEN_FILES - 1 \in Int
      /\ ~(3 > 3 + FS_MAX_OPEN_FILES - 1) /\ ~(0 > FS_MAX_OPEN_FILES - 1)
      /\ (3 + FS_MAX_OPEN_FILES - 1) - 3 + 1 = FS_MAX_OPEN_FILES
      /\ (FS_MAX_OPEN_FILES - 1) - 0 + 1 = FS_MAX_OPEN_FILES
  BY LimitsAssumption
<1>2. IsFiniteSet(3 .. 3 + FS_MAX_OPEN_FILES - 1)
      /\ Cardinality(3 .. 3 + FS_MAX_OPEN_FILES - 1) = FS_MAX_OPEN_FILES
  BY <1>1, FS_Interval
<1>3. IsFiniteSet(0 .. FS_MAX_OPEN_FILES - 1)
      /\ Cardinality(0 .. FS_MAX_OPEN_FILES - 1) = FS_MAX_OPEN_FILES
  BY <1>1, FS_Interval
<1> QED
  BY <1>2, <1>3 DEF OpenSlots

\* There are as many handles as entries in use, since no two have one descriptor.
LEMMA HandlesCounted ==
    ASSUME Inv
    PROVE  IsFiniteSet(UsedOpen) /\ Cardinality(DOMAIN HandlesSeen) = Cardinality(UsedOpen)
<1> DEFINE g == [i \in UsedOpen |-> Descriptor(open_files, i)]
<1>1. /\ HandlesOf(HandlesSeen, inodes, open_files)
      /\ UsedOpen = {j \in OpenSlots : open_files[j].used}
  BY HandlesSeenAre DEF UsedOpen, FreeOpenSlots
<1>2. g \in [UsedOpen -> DOMAIN HandlesSeen] /\ DOMAIN g = UsedOpen
  BY <1>1 DEF HandlesOf
<1>3. IsInjective(g)
  BY <1>2 DEF IsInjective, Inv, UniqueDescriptors, UsedOpen, Descriptor
<1>4. \A h \in DOMAIN HandlesSeen : \E i \in UsedOpen : g[i] = h
  BY <1>1 DEF HandlesOf
<1>5. ExistsBijection(UsedOpen, DOMAIN HandlesSeen)
  <2> HIDE DEF g
  <2> QED
    BY <1>2, <1>3, <1>4 DEF ExistsBijection, Bijection, Injection, Surjection
<1>6. IsFiniteSet(UsedOpen)
  BY OpenSlotsCounted, FS_Subset DEF UsedOpen
<1> QED
  BY <1>5, <1>6, FS_Bijection

\* A process that has no descriptor left holds every entry of the table: there are as
\* many descriptors as entries, and one entry has one descriptor.
LEMMA NoFdNoEntry ==
    ASSUME NEW pid, FreeFds(pid) = {}
    PROVE  FreeOpenSlots = {}
<1> DEFINE Given == 3 .. 3 + FS_MAX_OPEN_FILES - 1
           g == [fd \in Given |-> CHOOSE i \in OpenSlots :
                                     open_files[i].used /\ open_files[i].fd = fd]
<1>1. ASSUME NEW fd \in Given
      PROVE  g[fd] \in OpenSlots /\ open_files[g[fd]].used /\ open_files[g[fd]].fd = fd
  <2>1. Opened(pid, fd) # {}
    BY DEF FreeFds
  <2>2. \E i \in OpenSlots : open_files[i].used /\ open_files[i].fd = fd
    BY <2>1 DEF Opened
  <2> QED
    BY <2>2
<1>2. IsFiniteSet(Given) /\ IsFiniteSet(OpenSlots) /\ Cardinality(Given) = Cardinality(OpenSlots)
  BY OpenSlotsCounted
<1>3. g \in [Given -> OpenSlots] /\ DOMAIN g = Given
  BY <1>1
<1> HIDE DEF g, Given
<1>4. IsInjective(g)
  BY <1>1, <1>3 DEF IsInjective
<1>5. g \in Surjection(Given, OpenSlots)
  BY <1>2, <1>3, <1>4, FS_Injection DEF Injection
<1>6. ASSUME NEW i \in OpenSlots
      PROVE  open_files[i].used
  <2>1. \E fd \in Given : g[fd] = i
    BY <1>5 DEF Surjection
  <2> QED
    BY <1>1, <2>1
<1> QED
  BY <1>6 DEF FreeOpenSlots

\* fs_open finds no entry or no descriptor exactly when there are FS_MAX_OPEN_FILES handles.
LEMMA HandlesFull ==
    ASSUME Inv, NEW pid
    PROVE  FreeFds(pid) = {} \/ FreeOpenSlots = {} <=>
              Cardinality(DOMAIN HandlesSeen) = FS_MAX_OPEN_FILES
<1>1. Cardinality(DOMAIN HandlesSeen) = Cardinality(UsedOpen)
  BY HandlesCounted
<1>2. FreeOpenSlots = {} <=> UsedOpen = OpenSlots
  BY DEF UsedOpen, FreeOpenSlots
<1>3. UsedOpen = OpenSlots <=> Cardinality(UsedOpen) = FS_MAX_OPEN_FILES
  BY OpenSlotsCounted, FS_Subset DEF UsedOpen
<1> QED
  BY <1>1, <1>2, <1>3, NoFdNoEntry

-----------------------------------------------------------------------------
(* Every call is a call of the interface. *)

\* The interface counts as the proofs do.
LEMMA SameCardinality == \A S : Api!Cardinality(S) = Cardinality(S)
  BY Zenon DEF Api!Cardinality, Cardinality

\* A call that changes no table changes nothing a caller sees.
LEMMA SeenUnchanged ==
    ASSUME Inv, Inv', UNCHANGED <<inodes, open_files>>
    PROVE  UNCHANGED <<FilesSeen, HandlesSeen>>
<1>1. FilesOf(FilesSeen, inodes) /\ FilesOf(FilesSeen', inodes)
  BY FilesSeenAre, SeenNext
<1>2. HandlesOf(HandlesSeen, inodes, open_files) /\ HandlesOf(HandlesSeen', inodes, open_files)
  BY HandlesSeenAre, SeenNext
<1>3. FilesSeen' = FilesSeen
  BY <1>1, FilesSame
<1>4. HandlesSeen' = HandlesSeen
  BY <1>2, HandlesSame
<1> QED
  BY <1>3, <1>4

\* A call that fails at once is one the interface refuses.
LEMMA FailRefused ==
    ASSUME Inv, Inv', Fail
    PROVE  Api!Refuse
<1>1. UNCHANGED <<FilesSeen, HandlesSeen>> /\ Return(-1)
  BY SeenUnchanged DEF Fail
<1> QED
  BY <1>1 DEF Api!Refuse, Api!Answer, Return

\* The names a caller sees are those that find_inode finds.
LEMMA NameSeen ==
    ASSUME Inv, NEW n
    PROVE  n \in DOMAIN FilesSeen <=> SlotsNamed(n) # {}
  BY FilesSeenAre DEF FilesOf, SlotsNamed, UsedSlots

\* The handles a caller sees are those that find_open_file finds.
LEMMA HandleSeen ==
    ASSUME Inv, NEW pid, NEW fd
    PROVE  <<pid, fd>> \in DOMAIN HandlesSeen <=> Opened(pid, fd) # {}
<1>1. HandlesOf(HandlesSeen, inodes, open_files)
  BY HandlesSeenAre
<1> QED
  BY <1>1 DEF HandlesOf, Opened, Descriptor

\* fs_init leaves the one file the interface starts with.
LEMMA InitRefines == Init => Api!Init
<1> SUFFICES ASSUME Init PROVE Api!Init
  OBVIOUS
<1>1. Inv
  BY InitInv
<1>2. FilesOf(FilesSeen, inodes) /\ HandlesOf(HandlesSeen, inodes, open_files)
  BY <1>1, FilesSeenAre, HandlesSeenAre
<1>3. \A j \in Slots : inodes[j].used <=> j = 0
  BY DEF Init, Stored, ZeroInode
<1>4. 0 \in Slots
  BY LimitsAssumption DEF Slots
<1>5. inodes[0].used /\ inodes[0].name = HelloName /\ inodes[0].size = Len(HelloText)
      /\ inodes[0].data = Overwritten(ZeroInode.data, 0, HelloText, Len(HelloText))
  BY <1>4 DEF Init, Stored
<1>6. TextIn(inodes, 0) = HelloText
  <2>1. HelloText \in Seq(Bytes) /\ Len(HelloText) \in Nat /\ Len(HelloText) <= FS_DATA_MAX
    BY InputsAssumption
  <2>2. ASSUME NEW k \in 1 .. Len(HelloText)
        PROVE  inodes[0].data[k - 1] = HelloText[k]
    <3>1. k - 1 \in Offsets /\ k - 1 \in 0 .. 0 + Len(HelloText) - 1 /\ (k - 1) - 0 + 1 = k
      BY <2>1, LimitsAssumption DEF Offsets
    <3> QED
      BY <1>5, <3>1 DEF Overwritten
  <2>3. HelloText = [k \in 1 .. Len(HelloText) |-> HelloText[k]]
    BY <2>1
  <2> QED
    BY <1>5, <2>2, <2>3 DEF TextIn
<1>7. FilesSeen = [n \in {HelloName} |-> HelloText]
  <2>1. DOMAIN FilesSeen = {HelloName} /\ FilesSeen[HelloName] = HelloText
    BY <1>2, <1>3, <1>4, <1>5, <1>6 DEF FilesOf
  <2> QED
    BY <1>2, <2>1 DEF FilesOf
<1>8. HandlesSeen = << >>
  <2>1. DOMAIN HandlesSeen = {}
    BY <1>2 DEF HandlesOf, Init, ZeroOpenFile
  <2> QED
    BY <1>2, <2>1 DEF HandlesOf
<1>9. reply = [value |-> 0, data |-> <<>>]
  BY DEF Init
<1> QED
  BY <1>7, <1>8, <1>9 DEF Api!Init

\* fs_create is Create: a name in use, too long, or one too many is refused, without a
\* trace that a caller could see.
LEMMA CreateRefines ==
    ASSUME Inv, Inv', NEW n \in Names, fs_create(n)
    PROVE  Api!Create(n)
<1>1. n \in DOMAIN FilesSeen <=> SlotsNamed(n) # {}
  BY NameSeen
<1>2. FreeSlots = {} <=> Cardinality(DOMAIN FilesSeen) = FS_MAX_FILES
  BY FilesFull
<1>3. CASE SlotsNamed(n) # {} \/ FreeSlots = {}
  <2>1. Api!Refuse
    BY <1>3, FailRefused DEF fs_create
  <2> QED
    BY <1>1, <1>2, <1>3, <2>1, SameCardinality DEF Api!Create
<1>4. ASSUME SlotsNamed(n) = {}, FreeSlots # {}
      PROVE  Api!Create(n)
  <2> DEFINE i == inode_count
  <2>1. Least(FreeSlots) = i /\ i \in Slots /\ i \notin UsedSlots
    BY <1>4, NextSlot
  <2>2. inodes \in [Slots -> Inode]
    BY DEF Inv, TypeOK
  <2>3. /\ FilesOf(FilesSeen, inodes) /\ HandlesOf(HandlesSeen, inodes, open_files)
        /\ FilesOf(FilesSeen', inodes') /\ HandlesOf(HandlesSeen', inodes', open_files')
    BY FilesSeenAre, HandlesSeenAre, SeenNext
  <2>4. \A j \in OpenSlots : open_files[j].used => open_files[j].inode_index \in UsedSlots
    BY DEF Inv, OpenFilesValid, FreeOpenSlots
  <2>5. ~inodes[i].used
    BY <2>1 DEF UsedSlots
  <2>6. CASE n \in LongNames
    <3>1. inodes' = [inodes EXCEPT ![i].name = CutName] /\ Return(-1) /\ open_files' = open_files
      BY <1>4, <2>1, <2>6 DEF fs_create, NameTooLong
    <3>2. \A j \in Slots : inodes'[j].used = inodes[j].used /\ (inodes[j].used => inodes'[j] = inodes[j])
      BY <2>1, <2>2, <2>5, <3>1
    <3>3. FilesSeen' = FilesSeen
      BY <2>3, <3>2, FilesSame
    <3>4. \A j \in OpenSlots : open_files[j].used =>
             inodes'[open_files[j].inode_index].name = inodes[open_files[j].inode_index].name
      BY <2>4, <3>2 DEF UsedSlots
    <3>5. HandlesSeen' = HandlesSeen
      <4>1. HandlesOf(HandlesSeen', inodes', open_files)
        BY <2>3, <3>1
      <4> QED
        BY <2>3, <3>4, <4>1, HandlesSame
    <3> QED
      BY <2>6, <3>1, <3>3, <3>5 DEF Api!Create, Api!Refuse, Api!Answer, Return
  <2>7. CASE n \notin LongNames
    <3>1. inodes' = [inodes EXCEPT ![i] = Stored(inodes[i], n, <<>>)] /\ Return(i)
          /\ open_files' = open_files
      BY <1>4, <2>1, <2>7 DEF fs_create
    <3>2. inodes'[i].used /\ inodes'[i].name = n /\ inodes'[i].size = 0
      BY <2>1, <2>2, <3>1 DEF Stored
    <3>3. \A j \in Slots \ {i} : inodes'[j] = inodes[j]
      BY <2>1, <2>2, <3>1
    <3>4. DOMAIN FilesSeen' = DOMAIN FilesSeen \cup {n}
      BY <2>1, <2>3, <2>5, <3>2, <3>3 DEF FilesOf
    <3>5. FilesSeen'[n] = <<>>
      <4>1. FilesSeen'[n] = TextIn(inodes', i)
        BY <2>1, <2>3, <3>2 DEF FilesOf
      <4>2. TextIn(inodes', i) = <<>>
        BY <3>2 DEF TextIn
      <4> QED
        BY <4>1, <4>2
    <3>6. ASSUME NEW m \in DOMAIN FilesSeen
          PROVE  m # n /\ FilesSeen'[m] = FilesSeen[m]
      <4>1. PICK j \in Slots : inodes[j].used /\ m = inodes[j].name
        BY <2>3 DEF FilesOf
      <4>2. inodes'[j] = inodes[j]
        BY <2>5, <3>3, <4>1
      <4>3. FilesSeen'[m] = TextIn(inodes', j) /\ FilesSeen[m] = TextIn(inodes, j)
        BY <2>3, <4>1, <4>2 DEF FilesOf
      <4> QED
        BY <1>1, <1>4, <4>2, <4>3 DEF TextIn
    <3>7. FilesSeen' = [m \in DOMAIN FilesSeen \cup {n} |-> IF m = n THEN <<>> ELSE FilesSeen[m]]
      BY <2>3, <3>4, <3>5, <3>6 DEF FilesOf
    <3>8. \A j \in OpenSlots : open_files[j].used =>
             inodes'[open_files[j].inode_index].name = inodes[open_files[j].inode_index].name
      BY <2>1, <2>4, <3>3 DEF UsedSlots
    <3>9. HandlesSeen' = HandlesSeen
      <4>1. HandlesOf(HandlesSeen', inodes', open_files)
        BY <2>3, <3>1
      <4> QED
        BY <2>3, <3>8, <4>1, HandlesSame
    <3>10. reply' = [value |-> Cardinality(DOMAIN FilesSeen), data |-> <<>>]
      BY <3>1, FilesCounted DEF Return
    <3> QED
      BY <1>1, <1>2, <1>4, <2>7, <3>7, <3>9, <3>10, SameCardinality DEF Api!Create, Api!Answer
  <2> QED
    BY <2>6, <2>7
<1> QED
  BY <1>3, <1>4

\* The descriptor fs_open gives out is the lowest one the process does not have.
LEMMA LowestDescriptor ==
    ASSUME Inv, NEW pid, FreeFds(pid) # {}
    PROVE  Api!NewFd(pid) = Least(FreeFds(pid)) /\ Least(FreeFds(pid)) \in FreeFds(pid)
<1> DEFINE fd == Least(FreeFds(pid))
           New(x) == /\ x >= 3 /\ <<pid, x>> \notin DOMAIN HandlesSeen
                     /\ \A lower \in 3 .. x - 1 : <<pid, lower>> \in DOMAIN HandlesSeen
<1>1. fd \in FreeFds(pid) /\ \A j \in FreeFds(pid) : fd <= j
  <2>1. FreeFds(pid) \in SUBSET Nat
    BY LimitsAssumption DEF FreeFds
  <2> QED
    BY <2>1, LeastFound
<1> HIDE DEF fd
<1>2. fd \in 3 .. 3 + FS_MAX_OPEN_FILES - 1 /\ fd \in Nat /\ fd \in Api!Fds
  BY <1>1, LimitsAssumption DEF FreeFds, Api!Fds
<1>3. \A x \in 3 .. 3 + FS_MAX_OPEN_FILES - 1 :
         x \in FreeFds(pid) <=> <<pid, x>> \notin DOMAIN HandlesSeen
  BY HandleSeen DEF FreeFds
<1>4. New(fd)
  <2>1. ASSUME NEW lower \in 3 .. fd - 1 PROVE <<pid, lower>> \in DOMAIN HandlesSeen
    <3>1. lower \in 3 .. 3 + FS_MAX_OPEN_FILES - 1 /\ ~(fd <= lower)
      BY <1>2, LimitsAssumption
    <3> QED
      BY <1>1, <1>3, <3>1
  <2> QED
    BY <1>1, <1>2, <1>3, <2>1
<1>5. ASSUME NEW x \in Api!Fds, New(x)
      PROVE  x = fd
  <2>1. x \in Int /\ fd \in Int /\ x >= 3 /\ fd >= 3
    BY <1>2, <1>5, LimitsAssumption DEF Api!Fds
  <2>2. ~(fd < x)
    <3> SUFFICES ASSUME fd < x PROVE FALSE
      OBVIOUS
    <3>1. fd \in 3 .. x - 1
      BY <2>1
    <3> QED
      BY <1>4, <1>5, <3>1
  <2>3. ~(x < fd)
    <3> SUFFICES ASSUME x < fd PROVE FALSE
      OBVIOUS
    <3>1. x \in 3 .. fd - 1
      BY <2>1
    <3> QED
      BY <1>4, <1>5, <3>1
  <2> QED
    BY <2>1, <2>2, <2>3
<1>6. Api!NewFd(pid) = CHOOSE x \in Api!Fds : New(x)
  BY DEF Api!NewFd
<1> HIDE DEF New
<1>7. (CHOOSE x \in Api!Fds : New(x)) = fd
  BY <1>2, <1>4, <1>5
<1> QED
  BY <1>1, <1>6, <1>7 DEF fd

\* fs_open is Open.
LEMMA OpenRefines ==
    ASSUME Inv, Inv', NEW pid \in Pids, NEW n \in Names, fs_open(pid, n)
    PROVE  Api!Open(pid, n)
<1>1. n \in DOMAIN FilesSeen <=> SlotsNamed(n) # {}
  BY NameSeen
<1>2. /\ FreeFds(pid) = {} \/ FreeOpenSlots = {} <=>
            Cardinality(DOMAIN HandlesSeen) = FS_MAX_OPEN_FILES
      /\ Api!Cardinality(DOMAIN HandlesSeen) = Cardinality(DOMAIN HandlesSeen)
  BY HandlesFull, SameCardinality
<1>3. CASE SlotsNamed(n) = {} \/ FreeFds(pid) = {} \/ FreeOpenSlots = {}
  <2>1. Api!Refuse
    BY <1>3, FailRefused DEF fs_open
  <2> QED
    BY <1>1, <1>2, <1>3, <2>1 DEF Api!Open
<1>4. ASSUME SlotsNamed(n) # {}, FreeFds(pid) # {}, FreeOpenSlots # {}
      PROVE  Api!Open(pid, n)
  <2> DEFINE fd == Least(FreeFds(pid))
             f == Least(FreeOpenSlots)
             i == find_inode(n)
             h == <<pid, fd>>
  <2>1. fd \in FreeFds(pid) /\ Api!NewFd(pid) = fd
    BY <1>4, LowestDescriptor
  <2>2. f \in FreeOpenSlots
    <3>1. FreeOpenSlots \in SUBSET Nat
      BY DEF FreeOpenSlots, OpenSlots
    <3> QED
      BY <1>4, <3>1, LeastFound
  <2>3. i \in UsedSlots /\ inodes[i].name = n
    <3>1. SlotsNamed(n) \in SUBSET Nat
      BY DEF SlotsNamed, UsedSlots, Slots
    <3> QED
      BY <1>4, <3>1, LeastFound DEF find_inode, SlotsNamed
  <2>4. open_files' = [open_files EXCEPT ![f] =
                         [used |-> TRUE, pid |-> pid, fd |-> fd, inode_index |-> i, offset |-> 0]]
        /\ Return(fd) /\ UNCHANGED <<inodes, inode_count>>
    BY <1>4 DEF fs_open
  <2> HIDE DEF fd, f, i
  <2>5. open_files \in [OpenSlots -> OpenFile] /\ f \in OpenSlots /\ ~open_files[f].used
    BY <2>2 DEF Inv, TypeOK, FreeOpenSlots
  <2>6. open_files'[f] = [used |-> TRUE, pid |-> pid, fd |-> fd, inode_index |-> i, offset |-> 0]
        /\ \A j \in OpenSlots \ {f} : open_files'[j] = open_files[j]
    BY <2>4, <2>5
  <2>7. /\ FilesOf(FilesSeen, inodes) /\ HandlesOf(HandlesSeen, inodes, open_files)
        /\ FilesOf(FilesSeen', inodes) /\ HandlesOf(HandlesSeen', inodes, open_files')
    BY <2>4, FilesSeenAre, HandlesSeenAre, SeenNext
  <2>8. FilesSeen' = FilesSeen
    BY <2>7, FilesSame
  <2>9. Descriptor(open_files', f) = h /\ HandleIn(inodes, open_files', f) = [name |-> n, pos |-> 0]
    BY <2>3, <2>6 DEF Descriptor, HandleIn
  <2>10. h \notin DOMAIN HandlesSeen
    BY <2>1, HandleSeen DEF FreeFds
  <2> HIDE DEF h
  <2>11. DOMAIN HandlesSeen' = DOMAIN HandlesSeen \cup {h}
    <3>1. {j \in OpenSlots : open_files'[j].used} = {j \in OpenSlots : open_files[j].used} \cup {f}
      BY <2>5, <2>6
    <3>2. \A j \in OpenSlots : open_files[j].used => Descriptor(open_files', j) = Descriptor(open_files, j)
      BY <2>5, <2>6 DEF Descriptor
    <3> QED
      BY <2>7, <2>9, <3>1, <3>2 DEF HandlesOf
  <2>12. HandlesSeen'[h] = [name |-> n, pos |-> 0]
    BY <2>5, <2>6, <2>7, <2>9 DEF HandlesOf
  <2>13. ASSUME NEW g \in DOMAIN HandlesSeen
         PROVE  g # h /\ HandlesSeen'[g] = HandlesSeen[g]
    <3>1. PICK j \in OpenSlots : open_files[j].used /\ g = Descriptor(open_files, j)
      BY <2>7 DEF HandlesOf
    <3>2. open_files'[j] = open_files[j]
      BY <2>5, <2>6, <3>1
    <3>3. /\ Descriptor(open_files', j) = g
          /\ HandleIn(inodes, open_files', j) = HandleIn(inodes, open_files, j)
      BY <3>1, <3>2 DEF Descriptor, HandleIn
    <3>4. HandlesSeen'[g] = HandleIn(inodes, open_files', j)
          /\ HandlesSeen[g] = HandleIn(inodes, open_files, j)
      BY <2>7, <3>1, <3>2, <3>3 DEF HandlesOf
    <3> QED
      BY <2>10, <3>3, <3>4
  <2>14. HandlesSeen' = [g \in DOMAIN HandlesSeen \cup {h} |->
                           IF g = h THEN [name |-> n, pos |-> 0] ELSE HandlesSeen[g]]
    BY <2>7, <2>11, <2>12, <2>13 DEF HandlesOf
  <2> QED
    BY <1>1, <1>2, <1>4, <2>1, <2>4, <2>8, <2>14 DEF Api!Open, Api!Answer, Return, h
<1> QED
  BY <1>3, <1>4

\* fs_close is Close.
LEMMA CloseRefines ==
    ASSUME Inv, Inv', NEW pid \in Pids, NEW fd \in Fds, fs_close(pid, fd)
    PROVE  Api!Close(pid, fd)
<1> DEFINE h == <<pid, fd>>
<1>1. h \in DOMAIN HandlesSeen <=> Opened(pid, fd) # {}
  BY HandleSeen
<1>2. CASE Opened(pid, fd) = {}
  <2>1. Api!Refuse
    BY <1>2, FailRefused DEF fs_close
  <2> QED
    BY <1>1, <1>2, <2>1 DEF Api!Close
<1>3. ASSUME Opened(pid, fd) # {}
      PROVE  Api!Close(pid, fd)
  <2> DEFINE f == find_open_file(pid, fd)
  <2>1. f \in OpenSlots /\ open_files[f].used /\ Descriptor(open_files, f) = h
    BY <1>3, OpenedFound DEF FreeOpenSlots, Descriptor
  <2>2. open_files' = [open_files EXCEPT ![f] = ZeroOpenFile] /\ Return(0) /\ inodes' = inodes
    BY <1>3 DEF fs_close
  <2> HIDE DEF f, h
  <2>3. ~open_files'[f].used /\ \A j \in OpenSlots \ {f} : open_files'[j] = open_files[j]
    BY <2>1, <2>2 DEF Inv, TypeOK, ZeroOpenFile
  <2>4. /\ FilesOf(FilesSeen, inodes) /\ HandlesOf(HandlesSeen, inodes, open_files)
        /\ FilesOf(FilesSeen', inodes) /\ HandlesOf(HandlesSeen', inodes, open_files')
    BY <2>2, FilesSeenAre, HandlesSeenAre, SeenNext
  <2>5. FilesSeen' = FilesSeen
    BY <2>4, FilesSame
  <2>6. ASSUME NEW j \in OpenSlots, open_files[j].used, j # f
        PROVE  Descriptor(open_files, j) # h
    BY <2>1, <2>6 DEF Inv, UniqueDescriptors, FreeOpenSlots, Descriptor
  <2>7. DOMAIN HandlesSeen' = DOMAIN HandlesSeen \ {h}
    <3>1. {j \in OpenSlots : open_files'[j].used} = {j \in OpenSlots : open_files[j].used} \ {f}
      BY <2>1, <2>3
    <3>2. \A j \in OpenSlots : j # f => Descriptor(open_files', j) = Descriptor(open_files, j)
      BY <2>3 DEF Descriptor
    <3> QED
      BY <2>1, <2>4, <2>6, <3>1, <3>2 DEF HandlesOf
  <2>8. ASSUME NEW g \in DOMAIN HandlesSeen \ {h}
        PROVE  HandlesSeen'[g] = HandlesSeen[g]
    <3>1. PICK j \in OpenSlots : open_files[j].used /\ g = Descriptor(open_files, j)
      BY <2>4 DEF HandlesOf
    <3>2. open_files'[j] = open_files[j]
      BY <2>1, <2>3, <3>1
    <3>3. /\ Descriptor(open_files', j) = g
          /\ HandleIn(inodes, open_files', j) = HandleIn(inodes, open_files, j)
      BY <3>1, <3>2 DEF Descriptor, HandleIn
    <3> QED
      BY <2>4, <3>1, <3>2, <3>3 DEF HandlesOf
  <2>9. HandlesSeen' = [g \in DOMAIN HandlesSeen \ {h} |-> HandlesSeen[g]]
    BY <2>4, <2>7, <2>8 DEF HandlesOf
  <2> QED
    BY <1>1, <1>3, <2>2, <2>5, <2>9 DEF Api!Close, Api!Answer, Return, h
<1> QED
  BY <1>2, <1>3

\* A handle that is open leads to its entry, and what it shows of its file.
LEMMA HandleFound ==
    ASSUME Inv, NEW pid, NEW fd, Opened(pid, fd) # {},
           NEW f, f = find_open_file(pid, fd), NEW i, i = open_files[f].inode_index
    PROVE  /\ f \in OpenSlots \ FreeOpenSlots /\ Descriptor(open_files, f) = <<pid, fd>>
           /\ i \in Slots /\ inodes[i].used /\ inodes[i].size \in 0 .. FS_DATA_MAX
           /\ open_files[f].offset \in 0 .. inodes[i].size
           /\ <<pid, fd>> \in DOMAIN HandlesSeen
           /\ HandlesSeen[<<pid, fd>>] = [name |-> inodes[i].name, pos |-> open_files[f].offset]
           /\ inodes[i].name \in DOMAIN FilesSeen
           /\ FilesSeen[inodes[i].name] = TextIn(inodes, i)
<1>1. f \in OpenSlots \ FreeOpenSlots /\ open_files[f] \in OpenFile
      /\ Descriptor(open_files, f) = <<pid, fd>>
  BY OpenedFound DEF Descriptor
<1>2. i \in UsedSlots /\ open_files[f].offset <= inodes[i].size /\ open_files[f].offset \in Nat
  BY <1>1 DEF Inv, OpenFilesValid, OpenFile
<1>3. i \in Slots /\ inodes[i].used /\ inodes[i].size \in 0 .. FS_DATA_MAX
  BY <1>2 DEF Inv, TypeOK, UsedSlots, Inode
<1>4. FilesOf(FilesSeen, inodes) /\ HandlesOf(HandlesSeen, inodes, open_files)
  BY FilesSeenAre, HandlesSeenAre
<1>5. inodes[i].name \in DOMAIN FilesSeen /\ FilesSeen[inodes[i].name] = TextIn(inodes, i)
  BY <1>3, <1>4 DEF FilesOf
<1>6. open_files[f].used
  BY <1>1 DEF FreeOpenSlots
<1>7. <<pid, fd>> \in DOMAIN HandlesSeen
      /\ HandlesSeen[<<pid, fd>>] = HandleIn(inodes, open_files, f)
  BY <1>1, <1>4, <1>6 DEF HandlesOf
<1> QED
  BY <1>1, <1>2, <1>3, <1>5, <1>7, LimitsAssumption DEF HandleIn

\* When an offset moves, one handle moves, if no file in use changes its name.
LEMMA HandleMoves ==
    ASSUME Inv, Inv', NEW f \in OpenSlots \ FreeOpenSlots, NEW o \in 0 .. FS_DATA_MAX,
           open_files' = [open_files EXCEPT ![f].offset = o],
           \A i \in UsedSlots : inodes'[i].name = inodes[i].name,
           NEW h, h = Descriptor(open_files, f)
    PROVE  HandlesSeen' = [HandlesSeen EXCEPT ![h].pos = o]
<1>1. /\ open_files'[f].offset = o
      /\ \A j \in OpenSlots \ {f} : open_files'[j] = open_files[j]
      /\ (OpenSlots \ FreeOpenSlots)' = OpenSlots \ FreeOpenSlots
      /\ \A j \in OpenSlots : /\ open_files'[j].pid = open_files[j].pid
                              /\ open_files'[j].fd = open_files[j].fd
                              /\ open_files'[j].inode_index = open_files[j].inode_index
  BY OffsetMoves
<1>2. HandlesOf(HandlesSeen, inodes, open_files) /\ HandlesOf(HandlesSeen', inodes', open_files')
  BY HandlesSeenAre, SeenNext
<1>3. \A j \in OpenSlots : /\ open_files'[j].used <=> open_files[j].used
                           /\ Descriptor(open_files', j) = Descriptor(open_files, j)
  BY <1>1 DEF FreeOpenSlots, Descriptor
<1>4. DOMAIN HandlesSeen' = DOMAIN HandlesSeen
  <2>1. {j \in OpenSlots : open_files'[j].used} = {j \in OpenSlots : open_files[j].used}
    BY <1>3
  <2> DEFINE U == {j \in OpenSlots : open_files[j].used}
  <2>2. \A j \in U : Descriptor(open_files', j) = Descriptor(open_files, j)
    BY <1>3
  <2>3. /\ DOMAIN HandlesSeen = {Descriptor(open_files, j) : j \in U}
        /\ DOMAIN HandlesSeen' = {Descriptor(open_files', j) : j \in U}
    BY <1>2, <2>1 DEF HandlesOf
  <2> HIDE DEF U
  <2> QED
    BY <2>2, <2>3
<1>5. \A j \in OpenSlots : open_files[j].used =>
         inodes'[open_files[j].inode_index].name = inodes[open_files[j].inode_index].name
  BY DEF Inv, OpenFilesValid, FreeOpenSlots
<1>6. f \in OpenSlots /\ open_files[f].used
  BY DEF FreeOpenSlots
<1>7. h \in DOMAIN HandlesSeen
      /\ HandlesSeen[h] = HandleIn(inodes, open_files, f)
      /\ HandlesSeen'[h] = HandleIn(inodes', open_files', f)
  BY <1>2, <1>3, <1>6 DEF HandlesOf
<1>8. HandlesSeen'[h] = [HandlesSeen[h] EXCEPT !.pos = o]
  BY <1>1, <1>5, <1>6, <1>7 DEF HandleIn
<1>9. ASSUME NEW g \in DOMAIN HandlesSeen, g # h
      PROVE  HandlesSeen'[g] = HandlesSeen[g]
  <2>1. PICK j \in OpenSlots : open_files[j].used /\ g = Descriptor(open_files, j)
    BY <1>2 DEF HandlesOf
  <2>2. j # f /\ open_files'[j] = open_files[j]
    BY <1>1, <1>9, <2>1
  <2>3. HandlesSeen[g] = HandleIn(inodes, open_files, j)
        /\ HandlesSeen'[g] = HandleIn(inodes', open_files', j)
    BY <1>2, <1>3, <2>1 DEF HandlesOf
  <2> QED
    BY <1>5, <2>1, <2>2, <2>3 DEF HandleIn
<1> QED
  BY <1>2, <1>4, <1>7, <1>8, <1>9 DEF HandlesOf

\* The text of a file in use is a sequence of bytes.
LEMMA TextIs ==
    ASSUME NEW ns, NEW i, ns[i].size \in Nat,
           \A k \in 0 .. ns[i].size - 1 : ns[i].data[k] \in Bytes
    PROVE  /\ TextIn(ns, i) \in Seq(Bytes) /\ Len(TextIn(ns, i)) = ns[i].size
           /\ \A k \in 1 .. ns[i].size : TextIn(ns, i)[k] = ns[i].data[k - 1]
<1>1. ASSUME NEW k \in 1 .. ns[i].size PROVE ns[i].data[k - 1] \in Bytes
  <2>1. k - 1 \in 0 .. ns[i].size - 1
    OBVIOUS
  <2> QED
    BY <2>1
<1> QED
  BY <1>1 DEF TextIn

\* fs_read is Read: its loop copies the next part of the text.
LEMMA ReadRefines ==
    ASSUME Inv, Inv', NEW pid \in Pids, NEW fd \in Fds, NEW length \in Lengths,
           fs_read(pid, fd, length)
    PROVE  Api!Read(pid, fd, length)
<1> DEFINE h == <<pid, fd>>
<1>1. h \in DOMAIN HandlesSeen <=> Opened(pid, fd) # {}
  BY HandleSeen
<1>2. CASE Opened(pid, fd) = {}
  <2>1. Api!Refuse
    BY <1>2, FailRefused DEF fs_read
  <2> QED
    BY <1>1, <1>2, <2>1 DEF Api!Read
<1>3. ASSUME Opened(pid, fd) # {}
      PROVE  Api!Read(pid, fd, length)
  <2> DEFINE f == find_open_file(pid, fd)
             offset == open_files[f].offset
             i == open_files[f].inode_index
             text == TextIn(inodes, i)
             count == IF offset >= inodes[i].size THEN 0 ELSE Smaller(length, inodes[i].size - offset)
  <2>1. /\ open_files' = [open_files EXCEPT ![f].offset = offset + count]
        /\ reply' = [value |-> count, data |-> [k \in 1..count |-> inodes[i].data[offset + k - 1]]]
        /\ inodes' = inodes
    BY <1>3 DEF fs_read
  <2>2. /\ f \in OpenSlots \ FreeOpenSlots /\ Descriptor(open_files, f) = h
        /\ i \in Slots /\ inodes[i].used /\ inodes[i].size \in 0 .. FS_DATA_MAX
        /\ offset \in 0 .. inodes[i].size
        /\ HandlesSeen[h] = [name |-> inodes[i].name, pos |-> offset]
        /\ FilesSeen[inodes[i].name] = text
    BY <1>3, HandleFound
  <2> HIDE DEF f, h, text
  <2>3. length \in Nat /\ FS_DATA_MAX \in Nat /\ inodes[i].size \in Nat /\ offset \in Nat
    BY <2>2, InputsAssumption, LimitsAssumption
  <2>4. /\ count = Smaller(length, inodes[i].size - offset) /\ count \in Nat
        /\ offset + count <= inodes[i].size
    BY <2>2, <2>3 DEF Smaller
  <2> HIDE DEF count, offset, i
  <2>5. text \in Seq(Bytes) /\ Len(text) = inodes[i].size
        /\ \A k \in 1 .. inodes[i].size : text[k] = inodes[i].data[k - 1]
    <3>1. \A k \in 0 .. inodes[i].size - 1 : inodes[i].data[k] \in Bytes
      BY <2>2 DEF Inv, OnlyWrittenBytes, UsedSlots
    <3> QED
      BY <2>3, <3>1, TextIs DEF text
  <2>6. FilesSeen' = FilesSeen
    <3>1. FilesOf(FilesSeen, inodes) /\ FilesOf(FilesSeen', inodes)
      BY <2>1, FilesSeenAre, SeenNext
    <3> QED
      BY <3>1, FilesSame
  <2>7. HandlesSeen' = [HandlesSeen EXCEPT ![h].pos = offset + count]
    <3>1. offset + count \in 0 .. FS_DATA_MAX
      BY <2>2, <2>3, <2>4
    <3> QED
      BY <2>1, <2>2, <3>1, HandleMoves
  <2>8. [k \in 1..count |-> inodes[i].data[offset + k - 1]] = SubSeq(text, offset + 1, offset + count)
    <3>1. \A k \in 1 .. count : text[offset + 1 + k - 1] = inodes[i].data[offset + k - 1]
      <4> TAKE k \in 1 .. count
      <4> DEFINE j == offset + 1 + k - 1
      <4>1. j \in 1 .. inodes[i].size /\ j - 1 = offset + k - 1
        BY <2>3, <2>4
      <4> HIDE DEF j
      <4>2. text[j] = inodes[i].data[offset + k - 1]
        BY <2>5, <4>1
      <4> QED
        BY <4>2 DEF j
    <3>2. \A k \in offset + 1 .. offset + count : text[k] \in Bytes
      <4> TAKE k \in offset + 1 .. offset + count
      <4>1. k \in 1 .. Len(text)
        BY <2>3, <2>4, <2>5
      <4> QED
        BY <2>5, <4>1
    <3>3. offset + 1 \in Int /\ offset + count \in Int /\ (offset + count) - (offset + 1) + 1 = count
      BY <2>3, <2>4
    <3> DEFINE part == SubSeq(text, offset + 1, offset + count)
    <3>4. /\ part \in Seq(Bytes)
          /\ Len(part) = IF offset + 1 <= offset + count THEN (offset + count) - (offset + 1) + 1 ELSE 0
          /\ \A k \in 1 .. (offset + count) - (offset + 1) + 1 : part[k] = text[offset + 1 + k - 1]
      BY <3>2, <3>3, SubSeqProperties
    <3>5. part \in Seq(Bytes) /\ Len(part) = count /\ \A k \in 1 .. count : part[k] = inodes[i].data[offset + k - 1]
      BY <2>3, <2>4, <3>1, <3>3, <3>4
    <3> HIDE DEF part
    <3>6. part = [k \in 1 .. Len(part) |-> part[k]]
      BY <3>5
    <3>7. part = [k \in 1 .. count |-> inodes[i].data[offset + k - 1]]
      BY <3>5, <3>6
    <3> QED
      BY <3>7 DEF part
  <2>9. reply' = [value |-> count, data |-> SubSeq(text, offset + 1, offset + count)]
    BY <2>1, <2>8
  <2>10. Api!Smaller(length, Len(text) - offset) = count
    BY <2>4, <2>5 DEF Api!Smaller, Smaller
  <2>11. HandlesSeen[h].pos = offset /\ FilesSeen[HandlesSeen[h].name] = text
    BY <2>2
  <2>12. HandlesSeen' = [HandlesSeen EXCEPT ![h].pos = HandlesSeen[h].pos + count]
    BY <2>7, <2>11
  <2> QED
    BY <1>1, <1>3, <2>6, <2>9, <2>10, <2>11, <2>12 DEF Api!Read, h
<1> QED
  BY <1>2, <1>3

\* A part of a sequence, from the first of its elements or to its last.
LEMMA Part ==
    ASSUME NEW s \in Seq(Bytes), NEW m \in Nat \ {0}, NEW n \in Nat, n <= Len(s), m <= n + 1
    PROVE  /\ SubSeq(s, m, n) \in Seq(Bytes) /\ Len(SubSeq(s, m, n)) = n - m + 1
           /\ \A k \in 1 .. n - m + 1 : SubSeq(s, m, n)[k] = s[m + k - 1]
<1>1. \A k \in m .. n : s[k] \in Bytes
  <2> TAKE k \in m .. n
  <2>1. k \in 1 .. Len(s)
    OBVIOUS
  <2> QED
    BY <2>1
<1>2. m \in Int /\ n \in Int
  OBVIOUS
<1>3. /\ SubSeq(s, m, n) \in Seq(Bytes)
      /\ Len(SubSeq(s, m, n)) = IF m <= n THEN n - m + 1 ELSE 0
      /\ \A k \in 1 .. n - m + 1 : SubSeq(s, m, n)[k] = s[m + k - 1]
  BY <1>1, <1>2, SubSeqProperties
<1>4. (IF m <= n THEN n - m + 1 ELSE 0) = n - m + 1
  OBVIOUS
<1> QED
  BY <1>3, <1>4

\* s is old with new put over it behind p, c bytes of it.
IsSpliced(s, old, new, p, c) ==
    /\ s \in Seq(Bytes) /\ Len(s) = Larger(Len(old), p + c)
    /\ \A k \in 1 .. Len(s) : s[k] = IF p < k /\ k <= p + c THEN new[k - p] ELSE old[k]

\* A text with a part of it replaced, and prolonged if the part goes past its end.
LEMMA Spliced ==
    ASSUME NEW old \in Seq(Bytes), NEW new \in Seq(Bytes),
           NEW p \in Nat, p <= Len(old), NEW c \in Nat, c <= Len(new),
           NEW s, s = SubSeq(old, 1, p) \o SubSeq(new, 1, c) \o SubSeq(old, p + c + 1, Len(old))
    PROVE  IsSpliced(s, old, new, p, c)
<1> DEFINE A == SubSeq(old, 1, p)
           B == SubSeq(new, 1, c)
           C == SubSeq(old, p + c + 1, Len(old))
<1>1. Len(old) \in Nat /\ Len(new) \in Nat
  OBVIOUS
<1>2. A \in Seq(Bytes) /\ Len(A) = p /\ \A k \in 1 .. p : A[k] = old[k]
  <2>1. 1 \in Nat \ {0} /\ 1 <= p + 1 /\ p - 1 + 1 = p
    OBVIOUS
  <2>2. A \in Seq(Bytes) /\ Len(A) = p - 1 + 1 /\ \A k \in 1 .. p - 1 + 1 : A[k] = old[1 + k - 1]
    BY <1>1, <2>1, Part
  <2>3. \A k \in 1 .. p : 1 + k - 1 = k
    OBVIOUS
  <2> HIDE DEF A
  <2> QED
    BY <2>1, <2>2, <2>3
<1>3. B \in Seq(Bytes) /\ Len(B) = c /\ \A k \in 1 .. c : B[k] = new[k]
  <2>1. 1 \in Nat \ {0} /\ 1 <= c + 1 /\ c - 1 + 1 = c
    OBVIOUS
  <2>2. B \in Seq(Bytes) /\ Len(B) = c - 1 + 1 /\ \A k \in 1 .. c - 1 + 1 : B[k] = new[1 + k - 1]
    BY <1>1, <2>1, Part
  <2>3. \A k \in 1 .. c : 1 + k - 1 = k
    OBVIOUS
  <2> HIDE DEF B
  <2> QED
    BY <2>1, <2>2, <2>3
<1>4. /\ C \in Seq(Bytes) /\ Len(C) = Larger(Len(old), p + c) - (p + c)
      /\ \A k \in 1 .. Len(C) : C[k] = old[p + c + k]
  <2>1. CASE p + c <= Len(old)
    <3> DEFINE m == p + c + 1
               n == Len(old)
    <3>1. /\ m \in Nat \ {0} /\ m <= n + 1 /\ n \in Nat /\ n <= Len(old)
          /\ n - m + 1 = Len(old) - (p + c) /\ Larger(Len(old), p + c) = Len(old)
      BY <1>1, <2>1 DEF Larger
    <3> HIDE DEF m, n
    <3>2. /\ SubSeq(old, m, n) \in Seq(Bytes) /\ Len(SubSeq(old, m, n)) = n - m + 1
          /\ \A k \in 1 .. n - m + 1 : SubSeq(old, m, n)[k] = old[m + k - 1]
      BY <3>1, Part
    <3>3. C = SubSeq(old, m, n)
      BY DEF m, n
    <3>4. \A k \in 1 .. n - m + 1 : m + k - 1 = p + c + k
      BY DEF m
    <3> HIDE DEF C
    <3> QED
      BY <3>1, <3>2, <3>3, <3>4
  <2>2. CASE ~(p + c <= Len(old))
    <3>1. C = << >>
      <4> DEFINE m == p + c + 1
                 n == Len(old)
      <4>1. m \in Int /\ n \in Int /\ n < m
        BY <1>1, <2>2
      <4> HIDE DEF m, n
      <4>2. SubSeq(old, m, n) = << >>
        BY <4>1, SubSeqEmpty
      <4> QED
        BY <4>2 DEF m, n
    <3>2. Larger(Len(old), p + c) - (p + c) = 0
      BY <1>1, <2>2 DEF Larger
    <3> HIDE DEF C
    <3>3. C \in Seq(Bytes) /\ Len(C) = 0
      BY <3>1
    <3> QED
      BY <3>2, <3>3
  <2> QED
    BY <2>1, <2>2
<1>5. s = (A \o B) \o C
  OBVIOUS
<1> HIDE DEF A, B, C
<1>6. /\ A \o B \in Seq(Bytes) /\ Len(A \o B) = p + c
      /\ \A k \in 1 .. p + c : (A \o B)[k] = IF k <= p THEN A[k] ELSE B[k - p]
  BY <1>2, <1>3, ConcatProperties
<1>7. Larger(Len(old), p + c) \in Nat /\ p + c <= Larger(Len(old), p + c)
  BY <1>1 DEF Larger
<1> DEFINE AB == A \o B
           n == Larger(Len(old), p + c)
<1> HIDE DEF AB, n
<1>8. /\ s \in Seq(Bytes) /\ Len(s) = n
      /\ \A k \in 1 .. n : s[k] = IF k <= p + c THEN AB[k] ELSE C[k - (p + c)]
  <2>1. AB \in Seq(Bytes) /\ Len(AB) = p + c /\ Len(C) = n - (p + c) /\ s = AB \o C
    BY <1>4, <1>5, <1>6 DEF AB, n
  <2>2. /\ AB \o C \in Seq(Bytes) /\ Len(AB \o C) = Len(AB) + Len(C)
        /\ \A k \in 1 .. Len(AB) + Len(C) : (AB \o C)[k] = IF k <= Len(AB) THEN AB[k] ELSE C[k - Len(AB)]
    BY <1>4, <2>1, ConcatProperties
  <2>3. Len(AB) + Len(C) = n
    BY <1>7, <2>1 DEF n
  <2> QED
    BY <2>1, <2>2, <2>3
<1>9. ASSUME NEW k \in 1 .. n
      PROVE  s[k] = IF p < k /\ k <= p + c THEN new[k - p] ELSE old[k]
  <2>1. n \in Nat /\ p + c <= n
    BY <1>7 DEF n
  <2>2. CASE k <= p
    <3>1. k \in 1 .. p /\ k \in 1 .. p + c /\ k <= p + c /\ ~(p < k)
      BY <2>1, <2>2
    <3>2. s[k] = AB[k] /\ AB[k] = A[k]
      BY <1>6, <1>8, <2>2, <3>1 DEF AB
    <3> QED
      BY <1>2, <3>1, <3>2
  <2>3. CASE p < k /\ k <= p + c
    <3>1. k - p \in 1 .. c /\ k \in 1 .. p + c /\ ~(k <= p)
      BY <2>1, <2>3
    <3>2. s[k] = AB[k] /\ AB[k] = B[k - p]
      BY <1>6, <1>8, <2>3, <3>1 DEF AB
    <3> QED
      BY <1>3, <2>3, <3>1, <3>2
  <2>4. CASE p + c < k
    <3>1. k - (p + c) \in 1 .. Len(C) /\ p + c + (k - (p + c)) = k /\ ~(k <= p + c)
      BY <1>4, <2>1, <2>4 DEF n
    <3>2. s[k] = C[k - (p + c)]
      BY <1>8, <3>1
    <3>3. C[k - (p + c)] = old[p + c + (k - (p + c))]
      BY <1>4, <3>1
    <3> QED
      BY <3>1, <3>2, <3>3
  <2>5. k <= p \/ (p < k /\ k <= p + c) \/ p + c < k
    BY <2>1
  <2> QED
    BY <2>2, <2>3, <2>4, <2>5
<1> QED
  BY <1>8, <1>9 DEF n, IsSpliced

\* fs_write is Write: what its loop copies into the static array, up to the limit, is
\* what the interface splices into the text, and the size follows.
LEMMA WriteRefines ==
    ASSUME Inv, Inv', NEW pid \in Pids, NEW fd \in Fds, NEW buffer \in Buffers,
           fs_write(pid, fd, buffer)
    PROVE  Api!Write(pid, fd, buffer)
<1> DEFINE h == <<pid, fd>>
<1>1. h \in DOMAIN HandlesSeen <=> Opened(pid, fd) # {}
  BY HandleSeen
<1>2. CASE Opened(pid, fd) = {}
  <2>1. Api!Refuse
    BY <1>2, FailRefused DEF fs_write
  <2> QED
    BY <1>1, <1>2, <2>1 DEF Api!Write
<1>3. ASSUME Opened(pid, fd) # {}
      PROVE  Api!Write(pid, fd, buffer)
  <2> DEFINE f == find_open_file(pid, fd)
             offset == open_files[f].offset
             i == open_files[f].inode_index
             old == TextIn(inodes, i)
             count == IF offset >= FS_DATA_MAX THEN 0 ELSE Smaller(Len(buffer), FS_DATA_MAX - offset)
             data == Overwritten(inodes[i].data, offset, buffer, count)
             size == Larger(inodes[i].size, offset + count)
             new == SubSeq(old, 1, offset) \o SubSeq(buffer, 1, count)
                      \o SubSeq(old, offset + count + 1, Len(old))
  <2>1. /\ inodes' = [inodes EXCEPT ![i].data = data, ![i].size = size]
        /\ open_files' = [open_files EXCEPT ![f].offset = offset + count]
        /\ Return(count)
    BY <1>3 DEF fs_write
  <2>2. /\ f \in OpenSlots \ FreeOpenSlots /\ Descriptor(open_files, f) = h
        /\ i \in Slots /\ inodes[i].used /\ inodes[i].size \in 0 .. FS_DATA_MAX
        /\ offset \in 0 .. inodes[i].size
        /\ HandlesSeen[h] = [name |-> inodes[i].name, pos |-> offset]
        /\ inodes[i].name \in DOMAIN FilesSeen
        /\ FilesSeen[inodes[i].name] = old
    BY <1>3, HandleFound
  <2> HIDE DEF f, h, old, data, size, new
  <2>3. /\ buffer \in Seq(Bytes) /\ Len(buffer) \in Nat /\ FS_DATA_MAX \in Nat
        /\ inodes[i].size \in Nat /\ offset \in Nat
    BY <2>2, InputsAssumption, LimitsAssumption
  <2>4. /\ count = Smaller(Len(buffer), FS_DATA_MAX - offset) /\ count \in Nat
        /\ count <= Len(buffer) /\ offset + count <= FS_DATA_MAX
    BY <2>2, <2>3 DEF Smaller
  <2> HIDE DEF count, offset, i
  <2>5. /\ inodes \in [Slots -> Inode] /\ i \in UsedSlots
        /\ size \in 0 .. FS_DATA_MAX /\ offset + count <= size
    BY <2>2, <2>3, <2>4 DEF Inv, TypeOK, UsedSlots, size, Larger
  <2>6. /\ inodes'[i].used /\ inodes'[i].name = inodes[i].name
        /\ inodes'[i].data = data /\ inodes'[i].size = size
        /\ \A j \in Slots \ {i} : inodes'[j] = inodes[j]
    BY <2>1, <2>2, <2>5 DEF Inode
  <2>7. old \in Seq(Bytes) /\ Len(old) = inodes[i].size
        /\ \A k \in 1 .. inodes[i].size : old[k] = inodes[i].data[k - 1]
    <3>1. \A k \in 0 .. inodes[i].size - 1 : inodes[i].data[k] \in Bytes
      BY <2>5 DEF Inv, OnlyWrittenBytes
    <3> QED
      BY <2>3, <3>1, TextIs DEF old
  <2>8. TextIn(inodes', i) \in Seq(Bytes) /\ Len(TextIn(inodes', i)) = size
        /\ \A k \in 1 .. size : TextIn(inodes', i)[k] = data[k - 1]
    <3>1. i \in UsedSlots' /\ size \in Nat
      BY <2>2, <2>3, <2>5, <2>6 DEF UsedSlots
    <3>2. \A k \in 0 .. inodes'[i].size - 1 : inodes'[i].data[k] \in Bytes
      BY <3>1 DEF Inv, OnlyWrittenBytes
    <3> QED
      BY <2>6, <3>1, <3>2, TextIs
  <2>9. /\ new \in Seq(Bytes) /\ Len(new) = size
        /\ \A k \in 1 .. size : new[k] = IF offset < k /\ k <= offset + count
                                         THEN buffer[k - offset] ELSE old[k]
    <3>1. offset <= Len(old)
      BY <2>2, <2>3, <2>7
    <3>2. size = Larger(Len(old), offset + count)
      BY <2>7 DEF size
    <3>3. new = SubSeq(old, 1, offset) \o SubSeq(buffer, 1, count)
                  \o SubSeq(old, offset + count + 1, Len(old))
      BY DEF new
    <3>4. IsSpliced(new, old, buffer, offset, count)
      BY <2>3, <2>4, <2>7, <3>1, <3>3, Spliced
    <3> QED
      BY <3>2, <3>4 DEF IsSpliced
  <2>10. ASSUME NEW k \in 1 .. size
         PROVE  data[k - 1] = new[k]
    <3>1. k - 1 \in Offsets /\ k \in Nat
      BY <2>3, <2>5 DEF Offsets
    <3>2. CASE offset < k /\ k <= offset + count
      <4>1. k - 1 \in offset .. offset + count - 1 /\ (k - 1) - offset + 1 = k - offset
        BY <2>3, <2>4, <3>1, <3>2
      <4>2. data[k - 1] = buffer[(k - 1) - offset + 1]
        BY <3>1, <4>1 DEF data, Overwritten
      <4> QED
        BY <2>9, <3>2, <4>1, <4>2
    <3>3. CASE ~(offset < k /\ k <= offset + count)
      <4>1. k - 1 \notin offset .. offset + count - 1
        BY <2>3, <2>4, <3>1, <3>3
      <4>2. data[k - 1] = inodes[i].data[k - 1]
        BY <3>1, <4>1 DEF data, Overwritten
      <4>3. k \in 1 .. inodes[i].size
        BY <2>2, <2>3, <2>4, <3>1, <3>3 DEF size, Larger
      <4> QED
        BY <2>7, <2>9, <3>3, <4>2, <4>3
    <3> QED
      BY <3>2, <3>3
  <2>11. TextIn(inodes', i) = new
    <3>1. Len(new) = Len(TextIn(inodes', i))
          /\ \A k \in 1 .. Len(new) : new[k] = TextIn(inodes', i)[k]
      BY <2>8, <2>9, <2>10
    <3> QED
      BY <2>8, <2>9, <3>1, SeqEqual
  <2>12. \A j \in UsedSlots : inodes'[j].name = inodes[j].name
    BY <2>6 DEF UsedSlots
  <2>13. FilesSeen' = [FilesSeen EXCEPT ![inodes[i].name] = new]
    <3>1. FilesOf(FilesSeen, inodes) /\ FilesOf(FilesSeen', inodes')
      BY FilesSeenAre, SeenNext
    <3>2. {j \in Slots : inodes'[j].used} = {j \in Slots : inodes[j].used}
      BY <2>2, <2>6
    <3>3. DOMAIN FilesSeen' = DOMAIN FilesSeen
      <4> DEFINE U == {j \in Slots : inodes[j].used}
      <4>1. \A j \in U : inodes'[j].name = inodes[j].name
        BY <2>12 DEF UsedSlots
      <4>2. /\ DOMAIN FilesSeen = {inodes[j].name : j \in U}
            /\ DOMAIN FilesSeen' = {inodes'[j].name : j \in U}
        BY <3>1, <3>2 DEF FilesOf
      <4> HIDE DEF U
      <4> QED
        BY <4>1, <4>2
    <3>4. FilesSeen'[inodes[i].name] = new
      BY <2>2, <2>6, <2>11, <3>1 DEF FilesOf
    <3>5. ASSUME NEW n \in DOMAIN FilesSeen, n # inodes[i].name
          PROVE  FilesSeen'[n] = FilesSeen[n]
      <4>1. PICK j \in Slots : inodes[j].used /\ n = inodes[j].name
        BY <3>1 DEF FilesOf
      <4>2. inodes'[j] = inodes[j]
        BY <2>6, <3>5, <4>1
      <4>3. FilesSeen[n] = TextIn(inodes, j) /\ FilesSeen'[n] = TextIn(inodes', j)
        BY <3>1, <4>1, <4>2 DEF FilesOf
      <4> QED
        BY <4>2, <4>3 DEF TextIn
    <3> QED
      BY <2>2, <3>1, <3>3, <3>4, <3>5 DEF FilesOf
  <2>14. HandlesSeen' = [HandlesSeen EXCEPT ![h].pos = offset + count]
    <3>1. offset + count \in 0 .. FS_DATA_MAX
      BY <2>3, <2>4
    <3> QED
      BY <2>1, <2>2, <2>12, <3>1, HandleMoves
  <2>15. HandlesSeen[h].pos = offset /\ HandlesSeen[h].name = inodes[i].name
    BY <2>2
  <2>16. Api!Smaller(Len(buffer), FS_DATA_MAX - offset) = count
    BY <2>4 DEF Api!Smaller, Smaller
  <2>17. HandlesSeen' = [HandlesSeen EXCEPT ![h].pos = HandlesSeen[h].pos + count]
    BY <2>14, <2>15
  <2>18. FilesSeen' = [FilesSeen EXCEPT ![HandlesSeen[h].name] =
                         SubSeq(old, 1, offset) \o SubSeq(buffer, 1, count)
                           \o SubSeq(old, offset + count + 1, Len(old))]
    BY <2>13, <2>15 DEF new
  <2>19. FilesSeen[HandlesSeen[h].name] = old
    BY <2>2, <2>15
  <2> QED
    BY <1>1, <1>3, <2>1, <2>15, <2>16, <2>17, <2>18, <2>19
    DEF Api!Write, Api!Answer, Return, h
<1> QED
  BY <1>2, <1>3

\* Every step of the tables is a step of the interface, or none.
LEMMA NextRefines ==
    ASSUME Inv, Inv', [Next]_vars
    PROVE  [Api!Next]_(Api!vars)
<1>1. ASSUME NEW n \in Names, fs_create(n) PROVE Api!Next
  BY <1>1, CreateRefines DEF Api!Next
<1>2. ASSUME NEW pid \in Pids, NEW n \in Names, fs_open(pid, n) PROVE Api!Next
  BY <1>2, OpenRefines DEF Api!Next
<1>3. Fds = Api!Fds
  BY DEF Fds, Api!Fds
<1>4. ASSUME NEW pid \in Pids, NEW fd \in Fds, fs_close(pid, fd) PROVE Api!Next
  BY <1>3, <1>4, CloseRefines DEF Api!Next
<1>5. ASSUME NEW pid \in Pids, NEW fd \in Fds, NEW length \in Lengths, fs_read(pid, fd, length)
      PROVE  Api!Next
  BY <1>3, <1>5, ReadRefines DEF Api!Next
<1>6. ASSUME NEW pid \in Pids, NEW fd \in Fds, NEW buffer \in Buffers, fs_write(pid, fd, buffer)
      PROVE  Api!Next
  BY <1>3, <1>6, WriteRefines DEF Api!Next
<1>7. CASE UNCHANGED vars
  BY <1>7, SeenUnchanged DEF vars, Api!vars
<1> QED
  BY <1>1, <1>2, <1>4, <1>5, <1>6, <1>7 DEF Next

\* fs.c implements the interface, for tables of every size, any processes, names, bytes
\* and calls: what a caller sees of inodes and open files changes as FileApi says, and
\* every call answers as it says (fs.c:73-271).
THEOREM ImplementsFileApiCorrect == Spec => ImplementsFileApi
<1>1. Init => Api!Init
  BY InitRefines
<1>2. Inv /\ Inv' /\ [Next]_vars => [Api!Next]_(Api!vars)
  BY NextRefines
<1> QED
  BY <1>1, <1>2, FileInvariant, PTL DEF Spec, ImplementsFileApi, Api!Spec

=============================================================================
