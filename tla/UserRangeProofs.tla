--------------------------- MODULE UserRangeProofs ---------------------------
(***************************************************************************)
(* Proofs about UserRange, for every page size, word size, page table and  *)
(* range: the answer is right.                                             *)
(***************************************************************************)
EXTENDS UserRange, TLAPS

\* A range that the checks before the loop have let pass.
Accepted ==
    /\ root # NoTable /\ va # 0 /\ size # 0
    /\ end = va + size - 1 /\ end < SV39_USER_TOP

\* The loop is somewhere in the range, and every byte before that place is good.
LoopInv ==
    pc = "loop" => Accepted /\ \A a \in va .. current - 1 : UserByte(a)

Inv == TypeOK /\ LoopInv /\ AnswerRight

-----------------------------------------------------------------------------
(* Pages. *)

\* Division with remainder.
LEMMA DivMod ==
    ASSUME NEW a \in Nat, NEW p \in Nat \ {0}
    PROVE  a \div p \in Nat /\ a % p \in 0 .. p - 1 /\ a - (a % p) = p * (a \div p)
  OBVIOUS

\* Multiples of p are at least p apart.
LEMMA ProductOrder ==
    ASSUME NEW p \in Nat \ {0}, NEW q \in Int, NEW r \in Int, q < r
    PROVE  p * q + p <= p * r
<1>1. r - q - 1 \in Nat
  OBVIOUS
<1>2. p * (r - q - 1) >= 0
  BY <1>1
<1>3. p * (r - q - 1) = p * r - p * q - p
  OBVIOUS
<1> QED
  BY <1>2, <1>3

\* Quotient and remainder are unique.
LEMMA DivModUnique ==
    ASSUME NEW a \in Nat, NEW p \in Nat \ {0}, NEW q \in Int, NEW r \in 0 .. p - 1, a = p * q + r
    PROVE  a \div p = q /\ a % p = r
<1> DEFINE d == a \div p
           m == a % p
<1>1. d \in Nat /\ m \in 0 .. p - 1 /\ a - m = p * d
  BY DivMod
<1> HIDE DEF d, m
<1>2. ~(d < q)
  BY <1>1, ProductOrder
<1>3. ~(q < d)
  BY <1>1, ProductOrder
<1>4. d = q
  BY <1>1, <1>2, <1>3
<1>5. m = r
  BY <1>1, <1>4
<1> QED
  BY <1>4, <1>5 DEF d, m

\* A number below the modulus is its own remainder.
LEMMA SmallMod ==
    ASSUME NEW a \in Nat, NEW p \in Nat \ {0}, a < p
    PROVE  a % p = a
<1>1. a = p * 0 + a /\ a \in 0 .. p - 1
  OBVIOUS
<1> QED
  BY <1>1, DivModUnique

\* An address is on its page.
LEMMA PageStartFact ==
    ASSUME NEW a \in Nat
    PROVE  /\ PageStart(a) = PAGE_SIZE * (a \div PAGE_SIZE)
           /\ PageStart(a) \in Nat /\ PageStart(a) <= a /\ a < PageStart(a) + PAGE_SIZE
<1>1. PAGE_SIZE \in Nat \ {0}
  BY SizesAssumption
<1>2. /\ a \div PAGE_SIZE \in Nat /\ a % PAGE_SIZE \in 0 .. PAGE_SIZE - 1
      /\ a - (a % PAGE_SIZE) = PAGE_SIZE * (a \div PAGE_SIZE)
  BY <1>1, DivMod
<1>3. PAGE_SIZE * (a \div PAGE_SIZE) >= 0
  BY <1>1, <1>2
<1> QED
  BY <1>1, <1>2, <1>3 DEF PageStart

\* The addresses of one page have one entry.
LEMMA SamePage ==
    ASSUME NEW a \in Nat, NEW b \in Nat, PageStart(a) <= b, b < PageStart(a) + PAGE_SIZE,
           a < SV39_USER_TOP, b < SV39_USER_TOP
    PROVE  vm_walk(b) = vm_walk(a)
<1>1. PAGE_SIZE \in Nat \ {0} /\ SV39_SPAN \in Nat \ {0} /\ a < SV39_SPAN /\ b < SV39_SPAN
  BY SizesAssumption
<1>2. b \div PAGE_SIZE = a \div PAGE_SIZE
  <2> DEFINE q == a \div PAGE_SIZE
             r == b - PageStart(a)
  <2>1. q \in Nat /\ PageStart(a) = PAGE_SIZE * q /\ PageStart(a) \in Nat
    BY <1>1, DivMod, PageStartFact
  <2> HIDE DEF q
  <2>2. r \in 0 .. PAGE_SIZE - 1 /\ b = PAGE_SIZE * q + r
    BY <1>1, <2>1
  <2> HIDE DEF r
  <2>3. b \div PAGE_SIZE = q
    BY <1>1, <2>1, <2>2, DivModUnique
  <2> QED
    BY <2>3 DEF q
<1>3. a % SV39_SPAN = a /\ b % SV39_SPAN = b
  BY <1>1, SmallMod
<1> QED
  BY <1>2, <1>3 DEF vm_walk

\* The page after that of an address begins no later than any later page.
LEMMA NextPageFact ==
    ASSUME NEW a \in Nat, NEW b \in Nat, a <= b, PageStart(a) # PageStart(b)
    PROVE  PageStart(a) + PAGE_SIZE <= b
<1>1. /\ PAGE_SIZE \in Nat \ {0}
      /\ a \div PAGE_SIZE \in Nat /\ b \div PAGE_SIZE \in Nat
      /\ PageStart(a) = PAGE_SIZE * (a \div PAGE_SIZE) /\ PageStart(b) = PAGE_SIZE * (b \div PAGE_SIZE)
      /\ PageStart(a) \in Nat /\ PageStart(b) \in Nat
      /\ PageStart(a) <= a /\ a < PageStart(a) + PAGE_SIZE
      /\ PageStart(b) <= b /\ b < PageStart(b) + PAGE_SIZE
  BY SizesAssumption, DivMod, PageStartFact
<1> DEFINE q == a \div PAGE_SIZE
           r == b \div PAGE_SIZE
<1> HIDE DEF q, r
<1>2. q \in Int /\ r \in Int /\ q # r /\ PageStart(a) = PAGE_SIZE * q /\ PageStart(b) = PAGE_SIZE * r
  BY <1>1 DEF q, r
<1>3. CASE q < r
  <2>1. PAGE_SIZE * q + PAGE_SIZE <= PAGE_SIZE * r
    BY <1>1, <1>2, <1>3, ProductOrder
  <2> QED
    BY <1>1, <1>2, <2>1
<1>4. CASE r < q
  <2>1. PAGE_SIZE * r + PAGE_SIZE <= PAGE_SIZE * q
    BY <1>1, <1>2, <1>4, ProductOrder
  <2>2. FALSE
    BY <1>1, <1>2, <2>1
  <2> QED
    BY <2>2
<1> QED
  BY <1>2, <1>3, <1>4

-----------------------------------------------------------------------------
(* The steps. *)

\* The arguments are numbers of the machine.
LEMMA ArgsType ==
    ASSUME TypeOK
    PROVE  /\ va \in Nat /\ va < WORD /\ size \in Nat /\ size < WORD
           /\ WORD \in Nat \ {0} /\ SV39_USER_TOP \in Nat \ {0} /\ SV39_USER_TOP <= WORD
           /\ current \in Nat /\ current < SV39_USER_TOP /\ end \in Nat /\ end < SV39_USER_TOP
  BY SizesAssumption, InputsAssumption DEF TypeOK

\* The last byte is va + size - 1, or less than va if that wraps.
LEMMA LastByteFact ==
    ASSUME TypeOK, size # 0
    PROVE  IF va + size - 1 < WORD THEN LastByte = va + size - 1 ELSE LastByte < va
<1>1. /\ va \in Nat /\ va < WORD /\ size \in Nat \ {0} /\ size < WORD /\ WORD \in Nat \ {0}
      /\ va + size - 1 \in Nat
  BY ArgsType
<1>2. CASE va + size - 1 < WORD
  BY <1>1, <1>2, SmallMod DEF LastByte
<1>3. CASE ~(va + size - 1 < WORD)
  <2> DEFINE r == va + size - 1 - WORD
  <2>1. r \in 0 .. WORD - 1 /\ va + size - 1 = WORD * 1 + r /\ r < va
    BY <1>1, <1>3
  <2> HIDE DEF r
  <2>2. LastByte = r
    BY <1>1, <2>1, DivModUnique DEF LastByte
  <2> QED
    BY <1>3, <2>1, <2>2
<1> QED
  BY <1>2, <1>3

\* The function is called.
LEMMA InitInv == Init => Inv
  BY SizesAssumption DEF Init, Inv, TypeOK, LoopInv, AnswerRight

\* What the checks refuse is no good range, and what they let pass is as it should be.
LEMMA EntryInv == ASSUME Inv, Entry PROVE Inv'
<1>1. /\ va \in Nat /\ va < WORD /\ size \in Nat /\ size < WORD
      /\ WORD \in Nat \ {0} /\ SV39_USER_TOP \in Nat \ {0} /\ SV39_USER_TOP <= WORD
  BY ArgsType DEF Inv
<1>2. CASE root # NoTable /\ size = 0 /\ Return(1)
  <2>1. 0 .. size - 1 = {}
    BY <1>2
  <2> QED
    BY <1>2, <2>1 DEF Return, args, Inv, TypeOK, LoopInv, AnswerRight
<1>3. ASSUME Refused, ~(root # NoTable /\ size = 0), Return(0)
      PROVE  Inv'
  <2>1. ASSUME root # NoTable, va # 0
        PROVE  \E k \in 0 .. size - 1 : ~UserByte(va + k)
    <3>1. size # 0 /\ 0 \in 0 .. size - 1 /\ size - 1 \in 0 .. size - 1
      BY <1>1, <1>3, <2>1
    <3>2. CASE va >= SV39_USER_TOP
      <4>1. ~UserByte(va + 0)
        BY <1>1, <3>2 DEF UserByte
      <4> QED
        BY <3>1, <4>1
    <3>3. CASE LastByte < va \/ LastByte >= SV39_USER_TOP
      <4>1. va + (size - 1) >= SV39_USER_TOP
        BY <1>1, <3>1, <3>3, LastByteFact DEF Inv
      <4>2. ~UserByte(va + (size - 1))
        BY <1>1, <4>1 DEF UserByte
      <4> QED
        BY <3>1, <4>2
    <3> QED
      BY <1>3, <2>1, <3>2, <3>3 DEF Refused
  <2>2. ~(/\ root # NoTable
          /\ size = 0 \/ va # 0
          /\ \A k \in 0 .. size - 1 : UserByte(va + k))
    BY <1>3, <2>1
  <2>3. UNCHANGED args /\ UNCHANGED <<current, end>> /\ pc' = "done" /\ result' = 0
    BY <1>3 DEF Return
  <2>4. TypeOK' /\ LoopInv'
    BY <2>3 DEF args, Inv, TypeOK, LoopInv
  <2>5. AnswerRight'
    BY <2>2, <2>3 DEF args, AnswerRight, UserByte, Permitted, vm_walk
  <2> QED
    BY <2>4, <2>5 DEF Inv
<1>4. ASSUME ~(root # NoTable /\ size = 0), ~Refused,
             pc' = "loop", current' = va, end' = LastByte, UNCHANGED <<args, result>>
      PROVE  Inv'
  <2>1. root # NoTable /\ va # 0 /\ size # 0 /\ ~(LastByte < va) /\ ~(LastByte >= SV39_USER_TOP)
    BY <1>4 DEF Refused
  <2>2. LastByte = va + size - 1 /\ LastByte \in Nat
    BY <1>1, <2>1, LastByteFact DEF Inv
  <2>3. va .. va - 1 = {}
    BY <1>1
  <2>4. TypeOK'
    BY <1>1, <1>4, <2>1, <2>2 DEF args, Inv, TypeOK
  <2>5. LoopInv'
    BY <1>1, <1>4, <2>1, <2>2, <2>3 DEF args, LoopInv, Accepted
  <2> QED
    BY <1>4, <2>4, <2>5 DEF Inv, AnswerRight
<1> QED
  BY <1>2, <1>3, <1>4 DEF Entry

\* A pass of the loop decides for all bytes of one page.
LEMMA LoopStepInv == ASSUME Inv, Loop PROVE Inv'
<1>1. /\ va \in Nat /\ size \in Nat /\ current \in Nat /\ end \in Nat /\ PAGE_SIZE \in Nat \ {0}
      /\ va <= current /\ current <= end /\ WORD \in Nat \ {0}
      /\ end < SV39_USER_TOP /\ SV39_USER_TOP \in Nat /\ SV39_USER_TOP <= WORD
      /\ Accepted /\ \A a \in va .. current - 1 : UserByte(a)
  BY SizesAssumption, ArgsType DEF Inv, TypeOK, LoopInv, Loop
<1>2. /\ PageStart(current) \in Nat /\ PageStart(current) <= current
      /\ current < PageStart(current) + PAGE_SIZE
  BY <1>1, PageStartFact
<1>3. CASE ~Permitted(vm_walk(current)) /\ Return(0)
  <2>1. ~UserByte(va + (current - va)) /\ current - va \in 0 .. size - 1
    <3>1. va + (current - va) = current
      BY <1>1
    <3> QED
      BY <1>1, <1>3, <3>1 DEF UserByte, Accepted
  <2>2. ~(\A k \in 0 .. size - 1 : UserByte(va + k))
    BY <2>1
  <2>3. UNCHANGED args /\ UNCHANGED <<current, end>> /\ pc' = "done" /\ result' = 0
    BY <1>3 DEF Return
  <2>4. TypeOK' /\ LoopInv'
    BY <2>3 DEF args, Inv, TypeOK, LoopInv
  <2>5. AnswerRight'
    BY <2>2, <2>3 DEF args, AnswerRight, UserByte, Permitted, vm_walk
  <2> QED
    BY <2>4, <2>5 DEF Inv
<1>4. ASSUME Permitted(vm_walk(current)),
             NEW a \in va .. PageStart(current) + PAGE_SIZE - 1, a < SV39_USER_TOP
      PROVE  UserByte(a)
  <2>1. CASE a < current
    BY <1>1, <2>1
  <2>2. CASE a >= current
    <3>1. a \in Nat /\ PageStart(current) <= a /\ a < PageStart(current) + PAGE_SIZE
          /\ current < SV39_USER_TOP
      BY <1>1, <1>2, <2>2
    <3>2. vm_walk(a) = vm_walk(current)
      BY <1>1, <1>4, <3>1, SamePage
    <3> QED
      BY <1>4, <3>2 DEF UserByte
  <2> QED
    BY <1>1, <2>1, <2>2
<1>5. ASSUME Permitted(vm_walk(current)), PageStart(current) = PageStart(end), Return(1)
      PROVE  Inv'
  <2>1. ASSUME NEW k \in 0 .. size - 1
        PROVE  UserByte(va + k)
    <3>1. end < PageStart(end) + PAGE_SIZE
      BY <1>1, PageStartFact
    <3>2. va + k \in va .. PageStart(current) + PAGE_SIZE - 1 /\ va + k < SV39_USER_TOP
      BY <1>1, <1>2, <1>5, <3>1 DEF Accepted
    <3> QED
      BY <1>4, <1>5, <3>2
  <2>2. UNCHANGED args /\ UNCHANGED <<current, end>> /\ pc' = "done" /\ result' = 1
    BY <1>5 DEF Return
  <2>3. TypeOK' /\ LoopInv'
    BY <2>2 DEF args, Inv, TypeOK, LoopInv
  <2>4. AnswerRight'
    BY <1>1, <2>1, <2>2 DEF args, AnswerRight, UserByte, Permitted, vm_walk, Accepted
  <2> QED
    BY <2>3, <2>4 DEF Inv
<1>6. ASSUME Permitted(vm_walk(current)), PageStart(current) # PageStart(end),
             current' = NextPage, UNCHANGED <<args, pc, end, result>>
      PROVE  Inv'
  <2>1. PageStart(current) + PAGE_SIZE <= end
    BY <1>1, <1>6, NextPageFact
  <2>2. current' = PageStart(current) + PAGE_SIZE
    <3>1. PageStart(current) + PAGE_SIZE \in Nat /\ PageStart(current) + PAGE_SIZE < WORD
      BY <1>1, <1>2, <2>1
    <3> QED
      BY <1>1, <1>6, <3>1, SmallMod DEF NextPage
  <2>3. TypeOK'
    BY <1>1, <1>2, <1>6, <2>1, <2>2 DEF args, Inv, TypeOK
  <2>4. ASSUME NEW a \in va .. current' - 1 PROVE UserByte(a)
    <3>1. a \in va .. PageStart(current) + PAGE_SIZE - 1 /\ a < SV39_USER_TOP
      BY <1>1, <1>2, <2>1, <2>2
    <3> QED
      BY <1>4, <1>6, <3>1
  <2>5. LoopInv'
    BY <1>1, <1>6, <2>4 DEF args, LoopInv, Accepted, UserByte, Permitted, vm_walk
  <2> QED
    BY <1>6, <2>3, <2>5 DEF Inv, AnswerRight, Loop
<1> QED
  BY <1>3, <1>5, <1>6 DEF Loop

\* The invariant is inductive.
LEMMA NextInv == Inv /\ [Next]_vars => Inv'
<1> SUFFICES ASSUME Inv, [Next]_vars PROVE Inv'
  OBVIOUS
<1>1. CASE Entry
  BY <1>1, EntryInv
<1>2. CASE Loop
  BY <1>2, LoopStepInv
<1>3. CASE UNCHANGED vars
  BY <1>3 DEF vars, args, Inv, TypeOK, LoopInv, Accepted, AnswerRight, UserByte, Permitted, vm_walk
<1> QED
  BY <1>1, <1>2, <1>3 DEF Next

-----------------------------------------------------------------------------
(* The theorems. *)

\* The invariant holds of every reachable state.
THEOREM InvCorrect == Spec => []Inv
  BY InitInv, NextInv, PTL DEF Spec

\* The loop never leaves the range (vm.c:267-354).
THEOREM TypeCorrect == Spec => []TypeOK
<1>1. Inv => TypeOK
  BY DEF Inv
<1> QED
  BY <1>1, InvCorrect, PTL

\* The answer is 1 exactly for the ranges whose every byte the program may access
\* itself, wherever they begin and end and whatever wraps (vm.c:233-355).
THEOREM AnswerCorrect == Spec => []AnswerRight
<1>1. Inv => AnswerRight
  BY DEF Inv
<1> QED
  BY <1>1, InvCorrect, PTL

=============================================================================
