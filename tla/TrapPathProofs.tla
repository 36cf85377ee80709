--------------------------- MODULE TrapPathProofs ---------------------------
(***************************************************************************)
(* The trap path gives everybody back what it took, for every set of       *)
(* registers, every contents of them, every stack size and every depth of  *)
(* traps inside each other.                                                *)
(*                                                                         *)
(* The argument: the frame of the i-th trap under way has a place that     *)
(* only the interrupted stack pointers determine (Place), these places     *)
(* descend (Chain), so that no later trap writes an earlier frame, and     *)
(* what a frame holds is what its trap interrupted (Kept).                 *)
(***************************************************************************)
EXTENDS TrapPath, TLAPS

Causes == {"none", "ecall", "store", "other"}
Entering == {"trap_entry", "from_user", "from_kernel", "save", "trap_handler"}
Leaving == {"restore", "restore_registers", "restore_t6"}
RegisterFile == [Regs -> Int]

Call == [frame : 0 .. STACK - 1, cause : Causes, advanced : BOOLEAN]
Context == [x : RegisterFile, at : Int, length : {0, 1, 2}, spp : {0, 1}, cause : Causes]

TypeOK ==
    /\ x \in RegisterFile /\ at \in Int
    /\ pc \in {"user", "kernel", "parked"} \cup Entering \cup Leaving
    /\ sscratch \in Int /\ sepc \in Int /\ scause \in Causes /\ spp \in {0, 1}
    /\ mem \in [0 .. STACK - 1 -> [Slots -> Int]]
    /\ calls \in Seq(Call)
    /\ suspended \in Seq(Context)

\* Where the frame of the i-th trap in s is.
Place(s, i) == IF i = 1 THEN STACK - 1 ELSE s[i].x["sp"] - 1

Depth ==
    /\ pc = "user" => Len(calls) = 0 /\ Len(suspended) = 0
    /\ pc = "kernel" => Len(calls) >= 1 /\ Len(suspended) = Len(calls)
    /\ pc \in Entering \cup Leaving => Len(suspended) = Len(calls) + 1
    /\ pc # "parked" => Len(suspended) <= NESTED + 1

Chain ==
    \A i \in 1 .. Len(suspended) :
        /\ suspended[i].spp = IF i = 1 THEN 0 ELSE 1
        /\ i > 1 => suspended[i].cause = "store" /\ suspended[i].length = 2
        /\ suspended[i].cause = "none" <=> suspended[i].length = 0
        /\ Place(suspended, i) <= STACK - 1
        /\ Place(suspended, i) >= STACK + 1 - 2 * i
        /\ \A j \in 1 .. i - 1 : Place(suspended, i) < Place(suspended, j)

\* Frame f holds what c interrupted, to go on at address a.
Holds(f, c, a) ==
    /\ \A r \in Regs : mem[f][r] = c.x[r]
    /\ mem[f]["sstatus"] = c.spp
    /\ mem[f]["sepc"] = a

KeptBy(i) ==
    /\ calls[i].frame = Place(suspended, i)
    /\ calls[i].cause = suspended[i].cause
    /\ calls[i].cause \in {"ecall", "store"}
    /\ Holds(calls[i].frame, suspended[i],
             suspended[i].at + (IF calls[i].advanced THEN 2 ELSE 0))

Kept == pc # "parked" => \A i \in 1 .. Len(calls) : KeptBy(i)

Marked(c) == IF c.spp = 0 THEN STACK ELSE 0

Resumption(c) == IF c.length = 1 THEN c.at + c.length + 1 ELSE c.at + c.length

\* What the way out finds in the frame f.
Answered(f, c) ==
    /\ \A r \in Regs : mem[f][r] = c.x[r] \/ (r = "a0" /\ c.cause = "ecall")
    /\ mem[f]["sstatus"] = c.spp
    /\ mem[f]["sepc"] = Resumption(c)

Status(c) == sepc = c.at /\ scause = c.cause /\ spp = c.spp /\ c.cause # "none"

\* At each step of the path, of the innermost trap.
Path ==
    LET n == Len(suspended)
        c == suspended[n]
        f == Place(suspended, n)
    IN  /\ pc = "user" => sscratch = STACK
        /\ pc = "kernel" => sscratch = 0
        /\ pc = "trap_entry" => x = c.x /\ Status(c) /\ sscratch = Marked(c)
        /\ pc \in {"from_user", "from_kernel"} =>
              /\ \A r \in Regs \ {"sp"} : x[r] = c.x[r]
              /\ Status(c)
              /\ sscratch = c.x["sp"]
              /\ x["sp"] = Marked(c)
              /\ pc = "from_user" <=> c.spp = 0
        /\ pc = "save" =>
              /\ \A r \in Regs \ {"sp", "t0"} : x[r] = c.x[r]
              /\ Status(c)
              /\ sscratch = 0
              /\ x["sp"] = f
              /\ mem[f]["sp"] = c.x["sp"] /\ mem[f]["t0"] = c.x["t0"]
        /\ pc = "trap_handler" =>
              /\ x["a0"] = f
              /\ Status(c)
              /\ sscratch = 0
              /\ Holds(f, c, c.at)
        /\ pc = "restore" => x["a0"] = f /\ Answered(f, c)
        /\ pc \in {"restore_registers", "restore_t6"} =>
              /\ x["t6"] = f /\ Answered(f, c)
              /\ sepc = Resumption(c) /\ spp = c.spp /\ sscratch = Marked(c)
        /\ pc = "restore_t6" => \A r \in Regs \ {"t6"} : x[r] = mem[f][r]

IInv == TypeOK /\ Depth /\ Chain /\ Kept /\ Path

-----------------------------------------------------------------------------
(* Sequences that grow and shrink at their end. *)

LEMMA AppendFact ==
    ASSUME NEW S, NEW s \in Seq(S), NEW e \in S
    PROVE  /\ Append(s, e) \in Seq(S)
           /\ Len(Append(s, e)) = Len(s) + 1
           /\ \A i \in 1 .. Len(s) : Append(s, e)[i] = s[i]
           /\ Append(s, e)[Len(s) + 1] = e
  OBVIOUS

LEMMA FrontFact ==
    ASSUME NEW S, NEW s \in Seq(S), Len(s) >= 1
    PROVE  /\ Front(s) \in Seq(S)
           /\ Len(Front(s)) = Len(s) - 1
           /\ \A i \in 1 .. Len(s) - 1 : Front(s)[i] = s[i]
  BY DEF Front

-----------------------------------------------------------------------------
(* Facts about one state. *)

LEMMA RegistersFact ==
    /\ {"sp", "t0", "t6", "a0"} \subseteq Regs
    /\ "sepc" \notin Regs /\ "sstatus" \notin Regs
    /\ Regs \subseteq Slots /\ "sepc" \in Slots /\ "sstatus" \in Slots
  BY RegistersAssumption DEF Regs, Slots

LEMMA PlaceFact ==
    ASSUME TypeOK, Depth, Chain, pc # "parked", NEW i \in 1 .. Len(suspended)
    PROVE  Place(suspended, i) \in 0 .. STACK - 1
<1> USE StackAssumption
<1>1. Place(suspended, i) \in Int
  <2>1. suspended[i] \in Context
    BY DEF TypeOK
  <2>2. suspended[i].x["sp"] \in Int
    BY <2>1, RegistersFact DEF Context, RegisterFile
  <2>3. QED
    BY <2>2 DEF Place
<1>2. Place(suspended, i) <= STACK - 1 /\ Place(suspended, i) >= STACK + 1 - 2 * i
  BY DEF Chain
<1>3. i <= NESTED + 1 /\ i \in Int
  BY DEF Depth, TypeOK
<1>4. QED
  BY <1>1, <1>2, <1>3

\* The innermost trap.
LEMMA TopFact ==
    ASSUME TypeOK, Depth, pc \in Entering \cup Leaving
    PROVE  /\ Len(suspended) \in 1 .. NESTED + 1 /\ Len(suspended) = Len(calls) + 1
           /\ Last(suspended) = suspended[Len(suspended)]
           /\ suspended[Len(suspended)] \in Context
  BY StackAssumption DEF TypeOK, Depth, Last, Entering, Leaving

LEMMA KernelFact ==
    ASSUME TypeOK, Depth, pc = "kernel"
    PROVE  /\ Len(calls) \in 1 .. NESTED + 1 /\ Len(suspended) = Len(calls)
           /\ Last(calls) = calls[Len(calls)] /\ calls[Len(calls)] \in Call
           /\ suspended[Len(suspended)] \in Context
  BY StackAssumption DEF TypeOK, Depth, Last

-----------------------------------------------------------------------------
(* The initial state. *)

LEMMA InitInv == Init => IInv
<1> SUFFICES ASSUME Init PROVE IInv
  OBVIOUS
<1> USE StackAssumption, RegistersAssumption, RegistersFact
<1> DEFINE fresh == [x |-> [r \in Regs |-> FreshFrame[r]], at |-> USER_ENTRY, length |-> 0,
                     spp |-> 0, cause |-> "none"]
<1>1. FreshFrame \in [Slots -> Int]
  BY DEF FreshFrame
<1>2. fresh \in Context
  BY <1>1 DEF Context, RegisterFile, Causes
<1>3. calls = <<>> /\ suspended = <<fresh>> /\ Len(suspended) = 1 /\ suspended[1] = fresh
  BY DEF Init
<1>4. mem \in [0 .. STACK - 1 -> [Slots -> Int]] /\ mem[STACK - 1] = FreshFrame
  BY <1>1 DEF Init
<1>5. x \in RegisterFile /\ x["a0"] = STACK - 1
  BY DEF Init, RegisterFile
<1>6. TypeOK
  BY <1>2, <1>3, <1>4, <1>5 DEF Init, TypeOK, Causes, Entering, Leaving, Call
<1>7. Depth
  BY <1>3 DEF Init, Depth, Entering, Leaving
<1>8. Chain
  BY <1>3 DEF Chain, Place
<1>9. Kept
  BY <1>3 DEF Kept
<1>10. Path
  <2>1. Answered(STACK - 1, fresh)
    <3>1. \A r \in Regs : mem[STACK - 1][r] = fresh.x[r]
      BY <1>4
    <3>2. mem[STACK - 1]["sstatus"] = fresh.spp /\ mem[STACK - 1]["sepc"] = USER_ENTRY
      BY <1>4 DEF FreshFrame
    <3>3. Resumption(fresh) = USER_ENTRY
      BY DEF Resumption
    <3>4. QED
      BY <3>1, <3>2, <3>3 DEF Answered
  <2>2. QED
    BY <1>3, <1>5, <2>1 DEF Path, Place, Init
<1>11. QED
  BY <1>6, <1>7, <1>8, <1>9, <1>10 DEF IInv

-----------------------------------------------------------------------------
(* Types. *)

LEMMA FileFact == ASSUME NEW y \in Files PROVE y \in RegisterFile
  BY RegistersAssumption DEF RegisterFile

LEMMA TrapTypes ==
    ASSUME TypeOK, NEW y \in RegisterFile, NEW a \in Int, NEW l \in {0, 1, 2}, NEW m \in {0, 1},
           NEW c \in Causes, Trap(y, a, l, m, c)
    PROVE  TypeOK'
<1> DEFINE context == [x |-> y, at |-> a, length |-> l, spp |-> m, cause |-> c]
<1>1. context \in Context
  BY DEF Context
<1>2. suspended' \in Seq(Context)
  BY <1>1, AppendFact DEF Trap, TypeOK
<1>3. QED
  BY <1>2 DEF Trap, TypeOK, Entering

LEMMA TypesNext ==
    ASSUME IInv, [Next]_vars
    PROVE  TypeOK'
<1> USE StackAssumption, RegistersAssumption, RegistersFact DEF IInv
<1>1. CASE UserTrap
  <2>1. PICK y \in Files, a \in Addresses, c \in {"ecall", "store", "other"} :
           \E l \in Lengths(c) : Trap(y, a, l, 0, c)
    BY <1>1 DEF UserTrap
  <2>2. PICK l \in Lengths(c) : Trap(y, a, l, 0, c)
    BY <2>1
  <2>3. l \in {0, 1, 2} /\ a \in Int /\ c \in Causes
    BY DEF Lengths, Causes
  <2>4. QED
    BY <2>2, <2>3, FileFact, TrapTypes
<1>2. CASE KernelFault
  <2>1. PICK y \in Files, used \in 0 .. 1 :
           Trap([y EXCEPT !["sp"] = Last(calls).frame - used], TRIGGER, 2, 1, "store")
    BY <1>2 DEF KernelFault
  <2>2. Last(calls).frame - used \in Int
    <3>1. Last(calls) \in Call
      BY <1>2, KernelFact DEF KernelFault
    <3>2. QED
      BY <3>1 DEF Call
  <2>3. [y EXCEPT !["sp"] = Last(calls).frame - used] \in RegisterFile
    BY <2>2, FileFact DEF RegisterFile
  <2>4. QED
    BY <2>1, <2>3, TrapTypes DEF Causes
<1>3. CASE Swap
  BY <1>3 DEF Swap, TypeOK, RegisterFile, Entering
<1>4. CASE FromKernel
  <2> DEFINE f == sscratch - 1
  <2>1. f \in Int /\ f + 1 \in Int /\ x["t0"] \in Int /\ x["sp"] \in Int
    BY DEF TypeOK, RegisterFile
  <2>2. mem' = [mem EXCEPT ![f]["t0"] = x["t0"], ![f]["sp"] = f + 1]
        /\ x' = [x EXCEPT !["sp"] = f, !["t0"] = f + 1]
        /\ sscratch' = x["sp"] /\ pc' = "save" /\ UNCHANGED <<at, sepc, scause, spp, calls, suspended>>
    BY <1>4 DEF FromKernel
  <2> HIDE DEF f
  <2>3. mem' \in [0 .. STACK - 1 -> [Slots -> Int]]
    BY <2>1, <2>2 DEF TypeOK
  <2>4. x' \in RegisterFile
    BY <2>1, <2>2 DEF TypeOK, RegisterFile
  <2>5. QED
    BY <2>1, <2>2, <2>3, <2>4 DEF TypeOK, Entering
<1>5. CASE FromUser
  <2> DEFINE f == x["sp"] - 1
  <2>1. f \in Int /\ x["t0"] \in Int /\ sscratch \in Int
    BY DEF TypeOK, RegisterFile
  <2>2. mem' = [mem EXCEPT ![f]["t0"] = x["t0"], ![f]["sp"] = sscratch]
        /\ x' = [x EXCEPT !["sp"] = f, !["t0"] = sscratch]
        /\ sscratch' \in Int /\ pc' = "save" /\ UNCHANGED <<at, sepc, scause, spp, calls, suspended>>
    BY <1>5 DEF FromUser
  <2> HIDE DEF f
  <2>3. mem' \in [0 .. STACK - 1 -> [Slots -> Int]]
    BY <2>1, <2>2 DEF TypeOK
  <2>4. x' \in RegisterFile
    BY <2>1, <2>2 DEF TypeOK, RegisterFile
  <2>5. QED
    BY <2>1, <2>2, <2>3, <2>4 DEF TypeOK, Entering
<1>6. CASE Save
  <2>1. x["sp"] \in Int /\ spp \in Int /\ \A r \in Regs : x[r] \in Int
    BY DEF TypeOK, RegisterFile
  <2>2. x' \in RegisterFile
    BY <1>6, <2>1 DEF Save, TypeOK, RegisterFile
  <2> DEFINE f == x["sp"]
             saved == [s \in Slots |-> CASE s = "sepc" -> sepc [] s = "sstatus" -> spp
                                          [] s \in {"sp", "t0"} -> mem[f][s] [] OTHER -> x[s]]
  <2>3. mem' = [mem EXCEPT ![f] = saved]
    BY <1>6 DEF Save
  <2>4. mem' \in [0 .. STACK - 1 -> [Slots -> Int]]
    <3>1. CASE f \in 0 .. STACK - 1
      <4>1. saved \in [Slots -> Int]
        <5>1. \A s \in Slots : mem[f][s] \in Int
          BY <3>1 DEF TypeOK
        <5>2. sepc \in Int /\ spp \in Int
          BY <2>1 DEF TypeOK
        <5>3. \A s \in Slots : s \in Regs \/ s = "sepc" \/ s = "sstatus"
          BY DEF Slots
        <5> HIDE DEF f
        <5>4. QED
          BY <2>1, <5>1, <5>2, <5>3
      <4>2. QED
        BY <2>3, <4>1 DEF TypeOK
    <3>2. CASE f \notin 0 .. STACK - 1
      BY <2>3, <3>2 DEF TypeOK
    <3>3. QED
      BY <3>1, <3>2
  <2>5. QED
    BY <1>6, <2>2, <2>4 DEF Save, csrs, TypeOK, Entering
<1>7. CASE TrapHandler
  <2>1. x["a0"] \in 0 .. STACK - 1
    BY <1>7, TopFact, PlaceFact DEF TrapHandler, Path, Entering
  <2>2. [frame |-> x["a0"], cause |-> scause, advanced |-> FALSE] \in Call
    BY <2>1 DEF Call, TypeOK
  <2>3. calls' \in Seq(Call)
    BY <1>7, <2>2, AppendFact DEF TrapHandler, TypeOK
  <2>4. QED
    BY <1>7, <2>3 DEF TrapHandler, csrs, TypeOK
<1>8. CASE Advance
  <2>1. Last(calls).frame \in 0 .. STACK - 1 /\ Last(calls) = calls[Len(calls)]
    BY <1>8, KernelFact DEF Advance, Call
  <2>2. mem[Last(calls).frame]["sepc"] \in Int
    BY <2>1 DEF TypeOK
  <2> DEFINE f == Last(calls).frame
             called == [Last(calls) EXCEPT !.advanced = TRUE]
  <2>3. mem' \in [0 .. STACK - 1 -> [Slots -> Int]]
    <3>1. mem' = [mem EXCEPT ![f]["sepc"] = mem[f]["sepc"] + 2]
      BY <1>8 DEF Advance
    <3>2. mem[f]["sepc"] + 2 \in Int
      BY <2>2
    <3> HIDE DEF f
    <3>3. QED
      BY <3>1, <3>2 DEF TypeOK
  <2>4. calls' \in Seq(Call)
    <3>1. Len(calls) \in 1 .. NESTED + 1 /\ Last(calls) \in Call /\ calls \in Seq(Call)
      BY <1>8, KernelFact DEF Advance, TypeOK
    <3>4. called \in Call
      BY <3>1 DEF Call
    <3>2. calls' = [calls EXCEPT ![Len(calls)] = called]
      BY <1>8, <2>1 DEF Advance
    <3> HIDE DEF called
    <3>3. QED
      BY <3>1, <3>4, <3>2
  <2>5. QED
    BY <1>8, <2>3, <2>4 DEF Advance, csrs, TypeOK
<1>9. CASE Stop
  BY <1>9 DEF Stop, csrs, TypeOK
<1>10. CASE Return
  <2>1. Last(calls).frame \in 0 .. STACK - 1
    BY <1>10, KernelFact DEF Return, Call
  <2>2. calls' \in Seq(Call)
    <3>1. Len(calls) \in 1 .. NESTED + 1
      BY <1>10, KernelFact DEF Return
    <3>2. calls \in Seq(Call) /\ calls' = Front(calls)
      BY <1>10 DEF Return, TypeOK
    <3>3. QED
      BY <3>1, <3>2, FrontFact
  <2>3. x' \in RegisterFile
    BY <1>10, <2>1, FileFact DEF Return, RegisterFile
  <2>4. mem' \in [0 .. STACK - 1 -> [Slots -> Int]]
    <3> DEFINE f == Last(calls).frame
    <3>1. UNCHANGED mem \/ \E result \in Int : mem' = [mem EXCEPT ![f]["a0"] = result]
      BY <1>10 DEF Return
    <3> HIDE DEF f
    <3>2. CASE UNCHANGED mem
      BY <3>2 DEF TypeOK
    <3>3. CASE \E result \in Int : mem' = [mem EXCEPT ![f]["a0"] = result]
      <4>1. PICK result \in Int : mem' = [mem EXCEPT ![f]["a0"] = result]
        BY <3>3
      <4>2. QED
        BY <4>1 DEF TypeOK
    <3>4. QED
      BY <3>1, <3>2, <3>3
  <2>5. QED
    BY <1>10, <2>2, <2>3, <2>4 DEF Return, csrs, TypeOK, Leaving
<1>11. CASE RestoreCsrs
  <2>1. x["a0"] \in 0 .. STACK - 1
    <3>1. x["a0"] = Place(suspended, Len(suspended)) /\ pc # "parked"
      BY <1>11 DEF RestoreCsrs, Path
    <3>2. Len(suspended) \in 1 .. Len(suspended)
      BY <1>11, TopFact DEF RestoreCsrs, Leaving
    <3>3. QED
      BY <3>1, <3>2, PlaceFact
  <2>2. mem[x["a0"]]["sepc"] \in Int /\ mem[x["a0"]]["sstatus"] \in {0, 1}
    <3>1. Answered(x["a0"], suspended[Len(suspended)])
          /\ suspended[Len(suspended)].spp \in {0, 1}
      BY <1>11, TopFact DEF RestoreCsrs, Path, Leaving, Context
    <3>2. QED
      BY <2>1, <3>1 DEF Answered, TypeOK
  <2>3. x' \in RegisterFile /\ sscratch' \in Int
    <3> DEFINE f == x["a0"]
               status == mem[f]["sstatus"]
    <3>1. sscratch' = (IF status = 0 THEN f + 1 ELSE 0)
          /\ x' = [x EXCEPT !["t6"] = f, !["t0"] = IF status = 0 THEN f + 1 ELSE status]
      BY <1>11 DEF RestoreCsrs
    <3>2. f \in Int /\ status \in Int /\ x \in RegisterFile
      BY <2>1, <2>2 DEF TypeOK
    <3> HIDE DEF f, status
    <3>3. QED
      BY <3>1, <3>2 DEF RegisterFile
  <2>4. QED
    BY <1>11, <2>2, <2>3 DEF RestoreCsrs, TypeOK, Leaving
<1>12. CASE RestoreT6
  <2>1. x["t6"] \in 0 .. STACK - 1
    <3>1. x["t6"] = Place(suspended, Len(suspended)) /\ pc # "parked"
      BY <1>12 DEF RestoreT6, Path
    <3>2. Len(suspended) \in 1 .. Len(suspended)
      BY <1>12, TopFact DEF RestoreT6, Leaving
    <3>3. QED
      BY <3>1, <3>2, PlaceFact
  <2>2. suspended' \in Seq(Context)
    <3>1. Len(suspended) \in 1 .. NESTED + 1
      BY <1>12, TopFact DEF RestoreT6, Leaving
    <3>2. suspended \in Seq(Context) /\ suspended' = Front(suspended)
      BY <1>12 DEF RestoreT6, TypeOK
    <3>3. QED
      BY <3>1, <3>2, FrontFact
  <2>3. QED
    <3>1. x["t6"] \in Int /\ mem[x["t6"]]["t6"] \in Int
      BY <2>1, RegistersFact DEF TypeOK
    <3>2. x' \in RegisterFile
      BY <1>12, <3>1 DEF RestoreT6, TypeOK, RegisterFile
    <3>3. QED
      BY <1>12, <2>2, <3>2 DEF RestoreT6, TypeOK
<1>13. CASE RestoreRegisters
  <2>1. x["t6"] \in 0 .. STACK - 1
    <3>1. x["t6"] = Place(suspended, Len(suspended)) /\ pc # "parked"
      BY <1>13 DEF RestoreRegisters, Path
    <3>2. Len(suspended) \in 1 .. Len(suspended)
      BY <1>13, TopFact DEF RestoreRegisters, Leaving
    <3>3. QED
      BY <3>1, <3>2, PlaceFact
  <2>2. \A r \in Regs : x[r] \in Int /\ mem[x["t6"]][r] \in Int
    BY <2>1, RegistersFact DEF TypeOK, RegisterFile
  <2>3. x' \in RegisterFile
    BY <1>13, <2>2, RegistersFact DEF RestoreRegisters, RegisterFile
  <2>4. QED
    BY <1>13, <2>3 DEF RestoreRegisters, TypeOK, Leaving, csrs
<1>14. CASE Parked \/ UNCHANGED vars
  BY <1>14 DEF Parked, vars, csrs, TypeOK
<1>15. QED
  BY <1>1, <1>2, <1>3, <1>4, <1>5, <1>6, <1>7, <1>8, <1>9, <1>10, <1>11, <1>12, <1>13, <1>14
     DEF Next

-----------------------------------------------------------------------------
(* How deep the traps are, and where their frames lie. *)

LEMMA TrapAppends ==
    ASSUME TypeOK, NEW y \in RegisterFile, NEW a \in Int, NEW l \in {0, 1, 2}, NEW m \in {0, 1},
           NEW c \in Causes, Trap(y, a, l, m, c)
    PROVE  /\ Len(suspended') = Len(suspended) + 1 /\ Len(suspended) \in Nat
           /\ \A i \in 1 .. Len(suspended) : suspended'[i] = suspended[i]
           /\ suspended'[Len(suspended) + 1] =
                 [x |-> y, at |-> a, length |-> l, spp |-> m, cause |-> c]
<1> DEFINE context == [x |-> y, at |-> a, length |-> l, spp |-> m, cause |-> c]
<1>1. context \in Context
  BY DEF Context
<1>2. suspended' = Append(suspended, context) /\ suspended \in Seq(Context)
  BY DEF Trap, TypeOK
<1> HIDE DEF context
<1>3. /\ Len(suspended') = Len(suspended) + 1 /\ Len(suspended) \in Nat
      /\ \A i \in 1 .. Len(suspended) : suspended'[i] = suspended[i]
      /\ suspended'[Len(suspended) + 1] = context
  BY <1>1, <1>2, AppendFact
<1>4. QED
  BY <1>3 DEF context

\* A trap of a program, and one of the kernel, in full.
LEMMA UserTrapFact ==
    ASSUME IInv, UserTrap
    PROVE  \E y \in RegisterFile, a \in Int, l \in {1, 2}, c \in {"ecall", "store", "other"} :
              /\ Trap(y, a, l, 0, c)
              /\ Len(suspended') = 1 /\ Len(calls') = 0
              /\ suspended'[1] = [x |-> y, at |-> a, length |-> l, spp |-> 0, cause |-> c]
<1>1. PICK y \in Files, a \in Addresses, c \in {"ecall", "store", "other"} :
         \E l \in Lengths(c) : Trap(y, a, l, 0, c)
  BY DEF UserTrap
<1>2. PICK l \in Lengths(c) : Trap(y, a, l, 0, c)
  BY <1>1
<1>3. l \in {1, 2} /\ l \in {0, 1, 2} /\ a \in Int /\ c \in Causes /\ y \in RegisterFile
  BY FileFact, StackAssumption DEF Lengths, Causes
<1>4. /\ Len(suspended') = Len(suspended) + 1
      /\ suspended'[Len(suspended) + 1] =
            [x |-> y, at |-> a, length |-> l, spp |-> 0, cause |-> c]
  BY <1>2, <1>3, TrapAppends DEF IInv
<1>5. Len(suspended) = 0 /\ Len(calls) = 0 /\ calls' = calls
  BY <1>2 DEF IInv, Depth, UserTrap, Trap
<1>6. QED
  BY <1>2, <1>3, <1>4, <1>5

LEMMA KernelFaultFact ==
    ASSUME IInv, KernelFault
    PROVE  \E y \in RegisterFile :
              LET n == Len(suspended)
              IN  /\ y["sp"] \in {Place(suspended, n), Place(suspended, n) - 1}
                  /\ Trap(y, TRIGGER, 2, 1, "store")
                  /\ n \in 1 .. NESTED /\ Len(suspended') = n + 1 /\ Len(calls') = n
                  /\ \A i \in 1 .. n : suspended'[i] = suspended[i]
                  /\ suspended'[n + 1] =
                        [x |-> y, at |-> TRIGGER, length |-> 2, spp |-> 1, cause |-> "store"]
<1>1. PICK y \in Files, used \in 0 .. 1 :
         Trap([y EXCEPT !["sp"] = Last(calls).frame - used], TRIGGER, 2, 1, "store")
  BY DEF KernelFault
<1>2. pc = "kernel" /\ Len(calls) <= NESTED
  BY DEF KernelFault
<1>3. /\ Len(calls) \in 1 .. NESTED + 1 /\ Len(suspended) = Len(calls)
      /\ Last(calls) = calls[Len(calls)] /\ Last(calls) \in Call
  BY <1>2, KernelFact DEF IInv
<1>4. Len(suspended) \in 1 .. NESTED
  BY <1>2, <1>3, StackAssumption
<1>5. Last(calls).frame \in 0 .. STACK - 1 /\ Last(calls).frame = Place(suspended, Len(suspended))
  BY <1>2, <1>3 DEF IInv, Kept, KeptBy, Call
<1> DEFINE z == [y EXCEPT !["sp"] = Last(calls).frame - used]
<1>6. Last(calls).frame - used \in Int
  BY <1>5, StackAssumption
<1>7. z \in RegisterFile /\ z["sp"] = Last(calls).frame - used
  BY <1>6, FileFact, RegistersFact DEF RegisterFile
<1>8. Trap(z, TRIGGER, 2, 1, "store") /\ calls' = calls
  BY <1>1 DEF Trap
<1> HIDE DEF z
<1>9. /\ Len(suspended') = Len(suspended) + 1
      /\ \A i \in 1 .. Len(suspended) : suspended'[i] = suspended[i]
      /\ suspended'[Len(suspended) + 1] =
            [x |-> z, at |-> TRIGGER, length |-> 2, spp |-> 1, cause |-> "store"]
  BY <1>7, <1>8, TrapAppends, StackAssumption DEF IInv, Causes
<1>10. z["sp"] \in {Place(suspended, Len(suspended)), Place(suspended, Len(suspended)) - 1}
  BY <1>5, <1>7
<1>11. QED
  BY <1>3, <1>4, <1>7, <1>8, <1>9, <1>10

\* sret ends the innermost trap.
LEMMA RestoreT6Fact ==
    ASSUME IInv, RestoreT6
    PROVE  /\ Len(suspended) \in 1 .. NESTED + 1 /\ Len(suspended) = Len(calls) + 1
           /\ Len(suspended') = Len(suspended) - 1
           /\ \A i \in 1 .. Len(suspended) - 1 : suspended'[i] = suspended[i]
<1>1. Len(suspended) \in 1 .. NESTED + 1 /\ Len(suspended) = Len(calls) + 1
  BY TopFact DEF RestoreT6, Leaving, IInv
<1>2. suspended \in Seq(Context) /\ suspended' = Front(suspended)
  BY DEF RestoreT6, TypeOK, IInv
<1>3. QED
  BY <1>1, <1>2, FrontFact

LEMMA DepthNext ==
    ASSUME IInv, [Next]_vars
    PROVE  Depth'
<1> USE StackAssumption
<1>1. CASE UserTrap
  <2>1. Len(suspended') = 1 /\ Len(calls') = 0 /\ pc' = "trap_entry"
    BY <1>1, UserTrapFact DEF Trap
  <2>2. QED
    BY <2>1 DEF Depth, Entering, Leaving
<1>2. CASE KernelFault
  <2>1. /\ Len(suspended) \in 1 .. NESTED
        /\ Len(suspended') = Len(suspended) + 1 /\ Len(calls') = Len(suspended)
        /\ pc' = "trap_entry"
    BY <1>2, KernelFaultFact DEF Trap
  <2>2. QED
    BY <2>1 DEF Depth, Entering, Leaving
<1>3. CASE Swap \/ FromKernel \/ FromUser \/ Save
  BY <1>3 DEF IInv, Depth, Entering, Leaving, Swap, FromKernel, FromUser, Save, csrs
<1>4. CASE TrapHandler
  <2>1. calls \in Seq(Call) /\ calls' \in Seq(Call) /\ Len(calls') = Len(calls) + 1
    BY <1>4, TypesNext DEF IInv, TypeOK, TrapHandler
  <2>2. Len(suspended) \in 1 .. NESTED + 1 /\ Len(suspended) = Len(calls) + 1
    BY <1>4, TopFact DEF IInv, TrapHandler, Entering
  <2>3. QED
    BY <1>4, <2>1, <2>2 DEF TrapHandler, Depth, Entering, Leaving
<1>5. CASE Advance
  <2>1. Len(calls') = Len(calls) /\ suspended' = suspended /\ pc' = pc
    BY <1>5 DEF Advance, IInv, TypeOK
  <2>2. QED
    BY <2>1 DEF Depth, IInv
<1>6. CASE Stop
  BY <1>6 DEF IInv, Depth, Entering, Leaving, Stop, csrs
<1>7. CASE Return
  <2>1. Len(calls) \in 1 .. NESTED + 1 /\ Len(suspended) = Len(calls)
    BY <1>7, KernelFact DEF IInv, Return
  <2>2. calls \in Seq(Call) /\ calls' = Front(calls) /\ suspended' = suspended /\ pc' = "restore"
    BY <1>7 DEF IInv, TypeOK, Return
  <2>3. Len(calls') = Len(calls) - 1
    BY <2>1, <2>2, FrontFact
  <2>4. QED
    BY <2>1, <2>2, <2>3 DEF Depth, Entering, Leaving
<1>8. CASE RestoreCsrs \/ RestoreRegisters
  BY <1>8 DEF IInv, Depth, Entering, Leaving, RestoreCsrs, RestoreRegisters, csrs
<1>9. CASE RestoreT6
  <2>1. /\ Len(suspended) \in 1 .. NESTED + 1 /\ Len(suspended) = Len(calls) + 1
        /\ Len(suspended') = Len(suspended) - 1
    BY <1>9, RestoreT6Fact
  <2>2. calls' = calls /\ pc' = (IF spp = 0 THEN "user" ELSE "kernel")
    BY <1>9 DEF RestoreT6
  <2>3. spp = 0 <=> Len(suspended) = 1
    BY <1>9, <2>1 DEF RestoreT6, IInv, Path, Chain
  <2>4. QED
    BY <2>1, <2>2, <2>3 DEF Depth, Entering, Leaving
<1>10. CASE Parked \/ UNCHANGED vars
  BY <1>10 DEF IInv, Depth, Parked, vars
<1>11. QED
  BY <1>1, <1>2, <1>3, <1>4, <1>5, <1>6, <1>7, <1>8, <1>9, <1>10 DEF Next

LEMMA ChainNext ==
    ASSUME IInv, [Next]_vars
    PROVE  Chain'
<1> USE StackAssumption
<1>1. CASE UserTrap
  <2>1. PICK y \in RegisterFile, a \in Int, l \in {1, 2}, c \in {"ecall", "store", "other"} :
           /\ Len(suspended') = 1
           /\ suspended'[1] = [x |-> y, at |-> a, length |-> l, spp |-> 0, cause |-> c]
    BY <1>1, UserTrapFact
  <2>2. QED
    BY <2>1 DEF Chain, Place
<1>2. CASE KernelFault
  <2> DEFINE n == Len(suspended)
  <2>1. PICK y \in RegisterFile :
           /\ y["sp"] \in {Place(suspended, n), Place(suspended, n) - 1}
           /\ n \in 1 .. NESTED /\ Len(suspended') = n + 1
           /\ \A i \in 1 .. n : suspended'[i] = suspended[i]
           /\ suspended'[n + 1] =
                 [x |-> y, at |-> TRIGGER, length |-> 2, spp |-> 1, cause |-> "store"]
    BY <1>2, KernelFaultFact
  <2>2. \A i \in 1 .. n : Place(suspended, i) \in Int
    BY <1>2, PlaceFact DEF IInv, KernelFault
  <2>3. \A i \in 1 .. n : Place(suspended', i) = Place(suspended, i)
    BY <2>1 DEF Place
  <2>4. Place(suspended', n + 1) = y["sp"] - 1
    BY <2>1 DEF Place
  <2> HIDE DEF n
  <2>5. /\ Place(suspended', n + 1) < Place(suspended, n)
        /\ Place(suspended', n + 1) >= Place(suspended, n) - 2
    BY <2>1, <2>2, <2>4
  <2>6. \A i \in 1 .. n :
           /\ suspended[i].spp = IF i = 1 THEN 0 ELSE 1
           /\ i > 1 => suspended[i].cause = "store" /\ suspended[i].length = 2
           /\ suspended[i].cause = "none" <=> suspended[i].length = 0
           /\ Place(suspended, i) <= STACK - 1
           /\ Place(suspended, i) >= STACK + 1 - 2 * i
           /\ \A j \in 1 .. i - 1 : Place(suspended, i) < Place(suspended, j)
    BY DEF Chain, n, IInv
  <2>7. ASSUME NEW i \in 1 .. n
        PROVE  /\ suspended'[i].spp = IF i = 1 THEN 0 ELSE 1
               /\ i > 1 => suspended'[i].cause = "store" /\ suspended'[i].length = 2
               /\ suspended'[i].cause = "none" <=> suspended'[i].length = 0
               /\ Place(suspended', i) <= STACK - 1
               /\ Place(suspended', i) >= STACK + 1 - 2 * i
               /\ \A j \in 1 .. i - 1 : Place(suspended', i) < Place(suspended', j)
    BY <2>1, <2>3, <2>6
  <2>8. /\ suspended'[n + 1].spp = IF n + 1 = 1 THEN 0 ELSE 1
        /\ suspended'[n + 1].cause = "store" /\ suspended'[n + 1].length = 2
    BY <2>1
  <2>9. /\ Place(suspended', n + 1) <= STACK - 1
        /\ Place(suspended', n + 1) >= STACK + 1 - 2 * (n + 1)
    BY <2>1, <2>2, <2>4, <2>5, <2>6
  <2>10. \A j \in 1 .. n : Place(suspended', n + 1) < Place(suspended', j)
    <3>1. \A j \in 1 .. n : j = n \/ j \in 1 .. n - 1
      BY <2>1
    <3>2. \A j \in 1 .. n : Place(suspended, n) <= Place(suspended, j)
      BY <2>1, <2>2, <2>6, <3>1
    <3>3. Place(suspended', n + 1) \in Int
      BY <2>1, <2>2, <2>4
    <3>4. QED
      BY <2>1, <2>2, <2>3, <2>5, <3>2, <3>3
  <2>11. 1 .. Len(suspended') = (1 .. n) \cup {n + 1} /\ (n + 1) - 1 = n
    BY <2>1
  <2>12. QED
    BY <2>1, <2>7, <2>8, <2>9, <2>10, <2>11 DEF Chain
<1>3. CASE UNCHANGED suspended
  BY <1>3 DEF IInv, Chain, Place
<1>4. CASE RestoreT6
  <2>1. /\ Len(suspended) \in 1 .. NESTED + 1
        /\ Len(suspended') = Len(suspended) - 1
        /\ \A i \in 1 .. Len(suspended) - 1 : suspended'[i] = suspended[i]
    BY <1>4, RestoreT6Fact
  <2>2. \A i \in 1 .. Len(suspended) - 1 : Place(suspended', i) = Place(suspended, i)
    BY <2>1 DEF Place
  <2>3. ASSUME NEW i \in 1 .. Len(suspended')
        PROVE  /\ suspended'[i].spp = IF i = 1 THEN 0 ELSE 1
               /\ i > 1 => suspended'[i].cause = "store" /\ suspended'[i].length = 2
               /\ suspended'[i].cause = "none" <=> suspended'[i].length = 0
               /\ Place(suspended', i) <= STACK - 1
               /\ Place(suspended', i) >= STACK + 1 - 2 * i
               /\ \A j \in 1 .. i - 1 : Place(suspended', i) < Place(suspended', j)
    <3>1. i \in 1 .. Len(suspended) - 1 /\ i \in 1 .. Len(suspended)
      BY <2>1
    <3>2. \A j \in 1 .. i - 1 : j \in 1 .. Len(suspended) - 1
      BY <2>1, <3>1
    <3>3. /\ suspended[i].spp = IF i = 1 THEN 0 ELSE 1
          /\ i > 1 => suspended[i].cause = "store" /\ suspended[i].length = 2
          /\ suspended[i].cause = "none" <=> suspended[i].length = 0
          /\ Place(suspended, i) <= STACK - 1
          /\ Place(suspended, i) >= STACK + 1 - 2 * i
          /\ \A j \in 1 .. i - 1 : Place(suspended, i) < Place(suspended, j)
      BY <3>1 DEF IInv, Chain
    <3>4. QED
      BY <2>1, <2>2, <3>1, <3>2, <3>3
  <2>4. QED
    BY <2>3 DEF Chain
<1>5. QED
  <2>1. Swap \/ FromKernel \/ FromUser \/ Save \/ TrapHandler \/ Advance \/ Stop \/ Return
        \/ RestoreCsrs \/ RestoreRegisters \/ Parked \/ UNCHANGED vars => UNCHANGED suspended
    BY DEF Swap, FromKernel, FromUser, Save, TrapHandler, Advance, Stop, Return, RestoreCsrs,
           RestoreRegisters, Parked, vars
  <2>2. QED
    BY <1>1, <1>2, <1>3, <1>4, <2>1 DEF Next

-----------------------------------------------------------------------------
(* What the frames hold. *)

\* A frame that is not written stays what it was.
LEMMA KeptByNext ==
    ASSUME IInv, pc # "parked", NEW i \in 1 .. Len(calls),
           calls'[i] = calls[i], suspended'[i] = suspended[i],
           mem'[calls[i].frame] = mem[calls[i].frame]
    PROVE  KeptBy(i)'
<1>1. KeptBy(i)
  BY DEF IInv, Kept
<1>2. QED
  BY <1>1 DEF KeptBy, Holds, Place

\* The frame of the innermost trap is nobody else's.
LEMMA OtherFrames ==
    ASSUME IInv, pc # "parked", NEW i \in 1 .. Len(calls), i < Len(suspended)
    PROVE  calls[i].frame # Place(suspended, Len(suspended))
<1>1. Len(suspended) \in 1 .. Len(suspended) /\ i \in 1 .. Len(suspended)
      /\ i \in 1 .. Len(suspended) - 1
  BY DEF IInv, TypeOK
<1>2. Place(suspended, Len(suspended)) < Place(suspended, i)
  BY <1>1 DEF IInv, Chain
<1>3. calls[i].frame = Place(suspended, i)
  BY DEF IInv, Kept, KeptBy
<1>4. Place(suspended, i) \in Int /\ Place(suspended, Len(suspended)) \in Int
  BY <1>1, PlaceFact, StackAssumption DEF IInv
<1>5. QED
  BY <1>2, <1>3, <1>4

\* Which frame each step that writes one writes.
LEMMA FromKernelFact ==
    ASSUME IInv, FromKernel
    PROVE  sscratch - 1 = Place(suspended, Len(suspended)) /\ sscratch \in Int
           /\ suspended[Len(suspended)].spp = 1
<1>1. Len(suspended) \in 1 .. Len(suspended) /\ suspended[Len(suspended)] \in Context
  BY TopFact DEF IInv, FromKernel, Entering
<1>2. suspended[Len(suspended)].spp = 1
  BY <1>1 DEF IInv, FromKernel, Path, Context
<1>3. Len(suspended) # 1
  BY <1>1, <1>2 DEF IInv, Chain
<1>4. QED
  BY <1>2, <1>3 DEF IInv, TypeOK, FromKernel, Path, Place

LEMMA FromUserFact ==
    ASSUME IInv, FromUser
    PROVE  x["sp"] - 1 = Place(suspended, Len(suspended)) /\ x["sp"] \in Int
           /\ suspended[Len(suspended)].spp = 0 /\ Len(suspended) = 1
<1>1. Len(suspended) \in 1 .. Len(suspended)
  BY TopFact DEF IInv, FromUser, Entering
<1>2. suspended[Len(suspended)].spp = 0 /\ x["sp"] = STACK
  BY DEF IInv, FromUser, Path, Marked
<1>3. Len(suspended) = 1
  <2>1. suspended[Len(suspended)].spp = IF Len(suspended) = 1 THEN 0 ELSE 1
    BY <1>1 DEF IInv, Chain
  <2>2. QED
    BY <1>2, <2>1
<1>4. QED
  BY <1>2, <1>3, StackAssumption DEF Place

LEMMA KernelFrameFact ==
    ASSUME IInv, pc = "kernel"
    PROVE  /\ Last(calls).frame = Place(suspended, Len(suspended))
           /\ Last(calls).frame \in 0 .. STACK - 1
           /\ Last(calls) = calls[Len(calls)] /\ KeptBy(Len(calls))
           /\ Len(calls) \in 1 .. Len(calls) /\ Len(suspended) = Len(calls)
<1>1. Len(calls) \in 1 .. NESTED + 1 /\ Last(calls) = calls[Len(calls)]
      /\ Len(suspended) = Len(calls) /\ calls[Len(calls)] \in Call
  BY KernelFact DEF IInv
<1>2. KeptBy(Len(calls))
  BY <1>1 DEF IInv, Kept
<1>3. QED
  BY <1>1, <1>2 DEF KeptBy, Call

LEMMA KeptNext ==
    ASSUME IInv, [Next]_vars
    PROVE  Kept'
<1> USE StackAssumption
<1>1. CASE UserTrap
  <2>1. Len(calls') = 0
    BY <1>1, UserTrapFact
  <2>2. QED
    BY <2>1 DEF Kept
<1>2. CASE KernelFault
  <2>1. /\ Len(suspended) \in 1 .. NESTED
        /\ \A i \in 1 .. Len(suspended) : suspended'[i] = suspended[i]
    BY <1>2, KernelFaultFact
  <2>2. calls' = calls /\ mem' = mem /\ pc = "kernel" /\ Len(suspended) = Len(calls)
    BY <1>2, KernelFaultFact DEF KernelFault, Trap
  <2>3. QED
    BY <2>1, <2>2, KeptByNext DEF Kept
<1>3. CASE Swap \/ RestoreCsrs \/ RestoreRegisters
  BY <1>3, KeptByNext DEF Swap, RestoreCsrs, RestoreRegisters, Kept
<1>4. CASE FromKernel
  <2> DEFINE f == Place(suspended, Len(suspended))
  <2>1. \E frame : mem' = [mem EXCEPT ![f] = frame]
    <3>1. sscratch - 1 = f
      BY <1>4, FromKernelFact
    <3>2. mem' = [mem EXCEPT ![f]["t0"] = x["t0"], ![f]["sp"] = f + 1]
      BY <1>4, <3>1 DEF FromKernel
    <3>3. mem' = [mem EXCEPT ![f] = [mem[f] EXCEPT !["t0"] = x["t0"], !["sp"] = f + 1]]
      BY <3>2, Zenon
    <3>4. QED
      BY <3>3
  <2>2. UNCHANGED <<calls, suspended>> /\ pc = "from_kernel" /\ Len(suspended) = Len(calls) + 1
    BY <1>4 DEF FromKernel, IInv, Depth, Entering
  <2>3. \A i \in 1 .. Len(calls) : mem'[calls[i].frame] = mem[calls[i].frame]
    <3>1. SUFFICES ASSUME NEW i \in 1 .. Len(calls)
                   PROVE  mem'[calls[i].frame] = mem[calls[i].frame]
      OBVIOUS
    <3>2. calls[i].frame # f
      BY <2>2, OtherFrames DEF IInv, TypeOK
    <3>3. calls[i] \in Call
      BY DEF IInv, TypeOK
    <3> HIDE DEF f
    <3>4. QED
      BY <2>1, <3>2, <3>3 DEF Call, IInv, TypeOK
  <2>4. QED
    BY <2>2, <2>3, KeptByNext DEF Kept
<1>5. CASE FromUser
  <2>1. Len(calls') = 0
    <3>1. Len(suspended) = 1
      BY <1>5, FromUserFact
    <3>2. Len(suspended) = Len(calls) + 1
      BY <1>5, TopFact DEF FromUser, IInv, Entering
    <3>3. Len(calls) \in Nat
      BY DEF IInv, TypeOK
    <3>4. PICK k \in Nat : k = Len(calls)
      BY <3>3
    <3>5. k = 0
      <4>1. k + 1 = 1
        BY <3>1, <3>2, <3>4
      <4>2. QED
        BY <4>1
    <3>6. calls' = calls
      BY <1>5 DEF FromUser
    <3>7. QED
      BY <3>4, <3>5, <3>6
  <2>2. QED
    BY <2>1 DEF Kept
<1>6. CASE Save
  <2> DEFINE f == Place(suspended, Len(suspended))
  <2>1. \E frame : mem' = [mem EXCEPT ![f] = frame]
    BY <1>6 DEF Save, IInv, Path
  <2>2. UNCHANGED <<calls, suspended>> /\ pc = "save" /\ Len(suspended) = Len(calls) + 1
    BY <1>6 DEF Save, IInv, Depth, Entering
  <2>3. \A i \in 1 .. Len(calls) : mem'[calls[i].frame] = mem[calls[i].frame]
    <3>1. SUFFICES ASSUME NEW i \in 1 .. Len(calls)
                   PROVE  mem'[calls[i].frame] = mem[calls[i].frame]
      OBVIOUS
    <3>2. calls[i].frame # f
      BY <2>2, OtherFrames DEF IInv, TypeOK
    <3>3. calls[i] \in Call
      BY DEF IInv, TypeOK
    <3> HIDE DEF f
    <3>4. QED
      BY <2>1, <3>2, <3>3 DEF Call, IInv, TypeOK
  <2>4. QED
    BY <2>2, <2>3, KeptByNext DEF Kept
<1>7. CASE TrapHandler
  <2>0. PICK n, c, f : n \in Nat /\ n = Len(calls) + 1 /\ c = suspended[n] /\ f = x["a0"]
    <3>1. Len(calls) + 1 \in Nat
      BY DEF IInv, TypeOK
    <3>2. QED
      BY <3>1
  <2>1. /\ calls \in Seq(Call) /\ calls' = Append(calls, [frame |-> f, cause |-> scause, advanced |-> FALSE])
        /\ UNCHANGED <<mem, suspended>> /\ pc = "trap_handler" /\ Len(suspended) = n
        /\ pc' = "parked" \/ scause # "other"
    BY <1>7, <2>0 DEF TrapHandler, IInv, TypeOK, Depth, Entering
  <2>2. f \in 0 .. STACK - 1 /\ f = Place(suspended, n) /\ Status(c) /\ Holds(f, c, c.at)
    BY <2>1, <2>0, TopFact, PlaceFact DEF IInv, Path, Entering
  <2>3. [frame |-> f, cause |-> scause, advanced |-> FALSE] \in Call
    BY <2>2 DEF Call, IInv, TypeOK
  <2>4. /\ Len(calls') = n /\ Len(calls) \in Nat
        /\ \A i \in 1 .. Len(calls) : calls'[i] = calls[i]
        /\ calls'[n] = [frame |-> f, cause |-> scause, advanced |-> FALSE]
    BY <2>1, <2>3, <2>0, AppendFact
  <2>5. \A i \in 1 .. Len(calls) : KeptBy(i)'
    BY <2>1, <2>4, KeptByNext
  <2>6. c \in Context
    BY <2>1, <2>0, TopFact DEF IInv, Entering
  <2>7. ASSUME pc' # "parked" PROVE KeptBy(n)'
    <3>1. scause \in {"ecall", "store"} /\ scause = c.cause
      BY <2>1, <2>2, <2>6, <2>7 DEF Status, IInv, TypeOK, Causes
    <3>2. c.at + 0 = c.at
      BY <2>6 DEF Context
    <3>3. suspended'[n] = c /\ Place(suspended', n) = f
      BY <2>1, <2>2, <2>0
    <3>4. Holds(f, c, c.at)'
      BY <2>1, <2>2 DEF Holds
    <3>5. QED
      BY <2>1, <2>4, <3>1, <3>2, <3>3, <3>4 DEF KeptBy
  <2>8. 1 .. Len(calls') = (1 .. Len(calls)) \cup {n}
    BY <2>4, <2>0
  <2>9. QED
    BY <2>5, <2>7, <2>8 DEF Kept

<1>8. CASE Advance
  <2>0. PICK n, f : n \in Nat /\ n = Len(calls) /\ f = Last(calls).frame
    BY DEF IInv, TypeOK
  <2>1. /\ f = Place(suspended, n) /\ f \in 0 .. STACK - 1 /\ Last(calls) = calls[n]
        /\ n \in 1 .. n /\ Len(suspended) = n /\ KeptBy(n) /\ calls[n] \in Call
    BY <1>8, <2>0, KernelFact, KernelFrameFact DEF Advance, IInv
  <2>2. /\ mem' = [mem EXCEPT ![f]["sepc"] = mem[f]["sepc"] + 2]
        /\ calls' = [calls EXCEPT ![n] = [calls[n] EXCEPT !.advanced = TRUE]]
        /\ ~calls[n].advanced /\ UNCHANGED suspended /\ pc = "kernel"
        /\ calls \in Seq(Call) /\ mem \in [0 .. STACK - 1 -> [Slots -> Int]]
    BY <1>8, <2>0, <2>1 DEF Advance, IInv, TypeOK
  <2>3. ASSUME NEW i \in 1 .. n - 1
        PROVE  KeptBy(i)'
    <3>1. i \in 1 .. Len(calls) /\ i < Len(suspended) /\ calls'[i] = calls[i]
      BY <2>0, <2>1, <2>2
    <3>2. calls[i].frame # f
      BY <2>1, <2>2, <3>1, OtherFrames
    <3>3. calls[i].frame \in 0 .. STACK - 1
      <4>1. calls[i] \in Call
        BY <2>2, <3>1
      <4>2. QED
        BY <4>1 DEF Call
    <3>4. mem'[calls[i].frame] = mem[calls[i].frame]
      BY <2>2, <3>2, <3>3
    <3>5. QED
      BY <2>2, <3>1, <3>4, KeptByNext
  <2>4. KeptBy(n)'
    <3>1. /\ calls[n].frame = Place(suspended, n) /\ f = calls[n].frame /\ calls[n].cause = suspended[n].cause
          /\ calls[n].cause \in {"ecall", "store"}
          /\ Holds(f, suspended[n], suspended[n].at + 0)
      BY <2>0, <2>1, <2>2 DEF KeptBy
    <3>2. calls'[n] = [calls[n] EXCEPT !.advanced = TRUE]
      <4>1. PICK called : called = [calls[n] EXCEPT !.advanced = TRUE]
        OBVIOUS
      <4>2. calls' = [calls EXCEPT ![n] = called] /\ DOMAIN calls = 1 .. n
        BY <2>0, <2>2, <4>1
      <4>3. QED
        BY <2>1, <4>1, <4>2
    <3>3. /\ calls'[n].frame = f /\ calls'[n].cause = calls[n].cause /\ calls'[n].advanced
      BY <2>1, <3>1, <3>2 DEF Call
    <3>4. suspended[n].at \in Int
      <4>1. suspended[n] \in Context
        BY <2>1 DEF IInv, TypeOK
      <4>2. QED
        BY <4>1 DEF Context
    <3>5. \A s \in Slots : mem'[f][s] = IF s = "sepc" THEN mem[f]["sepc"] + 2 ELSE mem[f][s]
      BY <2>1, <2>2
    <3>6. Holds(f, suspended[n], suspended[n].at + 2)'
      <4>1. PICK c : c = suspended[n] /\ suspended'[n] = c /\ c.at + 0 = c.at
        BY <2>2, <3>4
      <4>2. /\ \A r \in Regs : mem[f][r] = c.x[r]
            /\ mem[f]["sstatus"] = c.spp /\ mem[f]["sepc"] = c.at
        BY <3>1, <4>1 DEF Holds
      <4>3. /\ \A r \in Regs : mem'[f][r] = c.x[r]
            /\ mem'[f]["sstatus"] = c.spp /\ mem'[f]["sepc"] = c.at + 2
        BY <3>5, <4>2, RegistersFact
      <4>4. QED
        BY <4>1, <4>3 DEF Holds
    <3>7. Place(suspended', n) = f
      BY <2>1, <2>2
    <3>8. QED
      BY <2>2, <3>1, <3>3, <3>6, <3>7 DEF KeptBy
  <2>5. 1 .. Len(calls') = (1 .. n - 1) \cup {n}
    BY <2>0, <2>1, <2>2
  <2>6. QED
    BY <2>3, <2>4, <2>5 DEF Kept
<1>9. CASE Stop
  BY <1>9 DEF Stop, Kept
<1>10. CASE Return
  <2>0. PICK n, f : n \in Nat /\ n = Len(calls) /\ f = Last(calls).frame
    BY DEF IInv, TypeOK
  <2>1. /\ f = Place(suspended, n) /\ f \in 0 .. STACK - 1 /\ n \in 1 .. n /\ Len(suspended) = n
    BY <1>10, <2>0, KernelFrameFact DEF Return
  <2>2. /\ UNCHANGED mem \/ \E result \in Results : mem' = [mem EXCEPT ![f]["a0"] = result]
        /\ calls' = Front(calls) /\ UNCHANGED suspended /\ pc = "kernel" /\ calls \in Seq(Call)
    BY <1>10, <2>0 DEF Return, IInv, TypeOK
  <2>3. Len(calls') = n - 1 /\ \A i \in 1 .. n - 1 : calls'[i] = calls[i]
    BY <2>1, <2>2, <2>0, FrontFact
  <2>4. ASSUME NEW i \in 1 .. n - 1
        PROVE  KeptBy(i)'
    <3>1. i \in 1 .. Len(calls) /\ i < Len(suspended) /\ calls'[i] = calls[i]
      BY <2>0, <2>1, <2>3
    <3>2. calls[i].frame # f
      BY <2>1, <2>2, <3>1, OtherFrames
    <3>3. calls[i].frame \in 0 .. STACK - 1
      <4>1. calls[i] \in Call
        BY <2>2, <3>1
      <4>2. QED
        BY <4>1 DEF Call
    <3>4. mem'[calls[i].frame] = mem[calls[i].frame]
      BY <2>2, <3>2, <3>3 DEF IInv, TypeOK
    <3>5. QED
      BY <2>2, <3>1, <3>4, KeptByNext
  <2>5. QED
    BY <2>3, <2>4 DEF Kept
<1>11. CASE RestoreT6
  <2>1. /\ Len(suspended) \in 1 .. NESTED + 1 /\ Len(suspended) = Len(calls) + 1
        /\ \A i \in 1 .. Len(suspended) - 1 : suspended'[i] = suspended[i]
    BY <1>11, RestoreT6Fact
  <2>2. UNCHANGED <<mem, calls>> /\ pc = "restore_t6"
    BY <1>11 DEF RestoreT6
  <2>3. QED
    BY <2>1, <2>2, KeptByNext DEF Kept
<1>12. CASE Parked \/ UNCHANGED vars
  BY <1>12, KeptByNext DEF Parked, vars, Kept
<1>13. QED
  BY <1>1, <1>2, <1>3, <1>4, <1>5, <1>6, <1>7, <1>8, <1>9, <1>10, <1>11, <1>12 DEF Next

-----------------------------------------------------------------------------
(* The way through the trap path. *)

LEMMA PathNext ==
    ASSUME IInv, [Next]_vars
    PROVE  Path'
<1> USE StackAssumption
<1>0. PICK n, c, f : n = Len(suspended) /\ c = suspended[n] /\ f = Place(suspended, n)
  OBVIOUS
<1>1. CASE UserTrap
  <2>1. PICK y \in RegisterFile, a \in Int, l \in {1, 2}, k \in {"ecall", "store", "other"} :
           /\ Trap(y, a, l, 0, k)
           /\ Len(suspended') = 1
           /\ suspended'[1] = [x |-> y, at |-> a, length |-> l, spp |-> 0, cause |-> k]
    BY <1>1, UserTrapFact
  <2>2. sscratch' = STACK
    BY <1>1, <2>1 DEF UserTrap, Trap, IInv, Path
  <2>3. QED
    BY <2>1, <2>2 DEF Trap, Path, Status, Marked
<1>2. CASE KernelFault
  <2>1. PICK y \in RegisterFile :
           /\ Trap(y, TRIGGER, 2, 1, "store")
           /\ Len(suspended') = n + 1
           /\ suspended'[n + 1] =
                 [x |-> y, at |-> TRIGGER, length |-> 2, spp |-> 1, cause |-> "store"]
    BY <1>0, <1>2, KernelFaultFact
  <2>2. sscratch' = 0
    BY <1>2, <2>1 DEF KernelFault, Trap, IInv, Path
  <2>3. QED
    BY <2>1, <2>2 DEF Trap, Path, Status, Marked
<1>3. CASE Swap
  <2>1. /\ x = c.x /\ Status(c) /\ sscratch = Marked(c) /\ c \in Context
        /\ UNCHANGED <<sepc, scause, spp, suspended>> /\ pc' \in {"from_user", "from_kernel"}
        /\ x' = [x EXCEPT !["sp"] = sscratch] /\ sscratch' = x["sp"]
        /\ pc' = "from_user" <=> sscratch # 0
    BY <1>0, <1>3, TopFact DEF Swap, IInv, Path, Entering
  <2>2. /\ \A r \in Regs \ {"sp"} : x'[r] = c.x[r]
        /\ x'["sp"] = Marked(c) /\ sscratch' = c.x["sp"]
    BY <2>1, RegistersFact DEF IInv, TypeOK, RegisterFile
  <2>3. pc' = "from_user" <=> c.spp = 0
    BY <2>1 DEF Marked, Context
  <2>4. Status(c)'
    BY <2>1 DEF Status
  <2>5. QED
    BY <1>0, <2>1, <2>2, <2>3, <2>4 DEF Path
<1>4. CASE FromKernel
  <2>1. /\ sscratch - 1 = f /\ sscratch \in Int /\ c.spp = 1
    BY <1>0, <1>4, FromKernelFact
  <2>2. /\ \A r \in Regs \ {"sp"} : x[r] = c.x[r]
        /\ Status(c) /\ sscratch = c.x["sp"] /\ x["sp"] = 0
    BY <1>0, <1>4, <2>1 DEF FromKernel, IInv, Path, Marked
  <2>3. /\ mem' = [mem EXCEPT ![f]["t0"] = x["t0"], ![f]["sp"] = f + 1]
        /\ x' = [x EXCEPT !["sp"] = f, !["t0"] = f + 1]
        /\ sscratch' = x["sp"] /\ pc' = "save" /\ UNCHANGED <<sepc, scause, spp, suspended>>
    BY <1>4, <2>1 DEF FromKernel
  <2>4. f \in 0 .. STACK - 1
    BY <1>0, <1>4, TopFact, PlaceFact DEF FromKernel, IInv, Entering
  <2>5. mem'[f]["sp"] = f + 1 /\ mem'[f]["t0"] = x["t0"]
    BY <2>3, <2>4, RegistersFact DEF IInv, TypeOK
  <2>6. /\ \A r \in Regs \ {"sp", "t0"} : x'[r] = c.x[r]
        /\ x'["sp"] = f
    BY <2>2, <2>3, RegistersFact DEF IInv, TypeOK, RegisterFile
  <2>7. mem'[f]["sp"] = c.x["sp"] /\ mem'[f]["t0"] = c.x["t0"]
    BY <2>1, <2>2, <2>5, RegistersFact
  <2>8. Status(c)'
    BY <2>2, <2>3 DEF Status
  <2>9. QED
    BY <1>0, <2>2, <2>3, <2>6, <2>7, <2>8 DEF Path
<1>5. CASE FromUser
  <2>1. x["sp"] - 1 = f /\ x["sp"] \in Int /\ c.spp = 0
    BY <1>0, <1>5, FromUserFact
  <2>2. /\ \A r \in Regs \ {"sp"} : x[r] = c.x[r]
        /\ Status(c) /\ sscratch = c.x["sp"]
    BY <1>0, <1>5 DEF FromUser, IInv, Path
  <2>3. /\ mem' = [mem EXCEPT ![f]["t0"] = x["t0"], ![f]["sp"] = sscratch]
        /\ x' = [x EXCEPT !["sp"] = f, !["t0"] = sscratch]
        /\ sscratch' = 0 /\ pc' = "save" /\ UNCHANGED <<sepc, scause, spp, suspended>>
    BY <1>5, <2>1 DEF FromUser
  <2>4. f \in 0 .. STACK - 1
    BY <1>0, <1>5, TopFact, PlaceFact DEF FromUser, IInv, Entering
  <2>5. mem'[f]["sp"] = sscratch /\ mem'[f]["t0"] = x["t0"]
    BY <2>3, <2>4, RegistersFact DEF IInv, TypeOK
  <2>6. /\ \A r \in Regs \ {"sp", "t0"} : x'[r] = c.x[r]
        /\ x'["sp"] = f
    BY <2>2, <2>3, RegistersFact DEF IInv, TypeOK, RegisterFile
  <2>7. mem'[f]["sp"] = c.x["sp"] /\ mem'[f]["t0"] = c.x["t0"]
    BY <2>2, <2>5, RegistersFact
  <2>8. Status(c)'
    BY <2>2, <2>3 DEF Status
  <2>9. QED
    BY <1>0, <2>3, <2>6, <2>7, <2>8 DEF Path
<1>6. CASE Save
  <2>1. /\ \A r \in Regs \ {"sp", "t0"} : x[r] = c.x[r]
        /\ Status(c) /\ sscratch = 0 /\ x["sp"] = f
        /\ mem[f]["sp"] = c.x["sp"] /\ mem[f]["t0"] = c.x["t0"]
    BY <1>0, <1>6 DEF Save, IInv, Path
  <2>2. /\ mem' = [mem EXCEPT ![f] =
                      [s \in Slots |-> CASE s = "sepc" -> sepc
                                         [] s = "sstatus" -> spp
                                         [] s \in {"sp", "t0"} -> mem[f][s]
                                         [] OTHER -> x[s]]]
        /\ x' = [x EXCEPT !["t0"] = spp, !["a0"] = f]
        /\ pc' = "trap_handler" /\ UNCHANGED <<sscratch, sepc, scause, spp, suspended>>
    BY <1>6, <2>1 DEF Save, csrs
  <2>3. f \in 0 .. STACK - 1
    BY <1>0, <1>6, TopFact, PlaceFact DEF Save, IInv, Entering
  <2>4. mem'[f] = [s \in Slots |-> CASE s = "sepc" -> sepc
                                     [] s = "sstatus" -> spp
                                     [] s \in {"sp", "t0"} -> mem[f][s]
                                     [] OTHER -> x[s]]
    BY <2>2, <2>3 DEF IInv, TypeOK
  <2>5. mem'[f]["sstatus"] = spp /\ mem'[f]["sepc"] = sepc
    BY <2>4, RegistersFact
  <2>6. \A r \in Regs : mem'[f][r] = c.x[r]
    BY <2>1, <2>4, RegistersFact
  <2>7. Holds(f, c, c.at)'
    BY <2>1, <2>5, <2>6 DEF Holds, Status
  <2>8. Status(c)' /\ x'["a0"] = f
    BY <2>1, <2>2, RegistersFact DEF Status, IInv, TypeOK, RegisterFile
  <2>9. QED
    BY <1>0, <2>1, <2>2, <2>7, <2>8 DEF Path
<1>7. CASE TrapHandler
  <2>1. sscratch = 0 /\ sscratch' = sscratch /\ pc' \in {"kernel", "parked"}
    BY <1>7 DEF TrapHandler, IInv, Path, csrs
  <2>2. QED
    BY <2>1 DEF Path
<1>8. CASE Advance \/ Stop
  <2>1. sscratch = 0 /\ sscratch' = sscratch /\ pc' \in {"kernel", "parked"}
    BY <1>8 DEF Advance, Stop, IInv, Path, csrs
  <2>2. QED
    BY <2>1 DEF Path
<1>9. CASE Return
  <2>1. /\ Last(calls).frame = f /\ f \in 0 .. STACK - 1 /\ Last(calls).advanced
        /\ Last(calls).cause = c.cause /\ c.cause \in {"ecall", "store"} /\ Last(calls) = calls[n]
        /\ Holds(f, c, c.at + 2) /\ n \in 1 .. n
    BY <1>0, <1>9, KernelFrameFact DEF Return, KeptBy
  <2>2. c \in Context /\ c.length \in {1, 2} /\ c.at \in Int
    <3>1. c \in Context
      BY <1>0, <1>9, KernelFact DEF Return, IInv
    <3>2. c.cause = "none" <=> c.length = 0
      BY <1>0, <2>1 DEF IInv, Chain
    <3>3. QED
      BY <2>1, <3>1, <3>2 DEF Context
  <2>3. c.at + 2 = Resumption(c)
    BY <2>2 DEF Resumption
  <2>4. /\ UNCHANGED mem \/ (c.cause = "ecall" /\ \E result \in Results : mem' = [mem EXCEPT ![f]["a0"] = result])
        /\ \E y \in Files : x' = [y EXCEPT !["sp"] = f, !["a0"] = f]
        /\ UNCHANGED suspended /\ pc' = "restore"
    BY <1>9, <2>1 DEF Return
  <2>5. x'["a0"] = f
    BY <2>4, FileFact, RegistersFact DEF RegisterFile
  <2>6. \A s \in Slots : mem'[f][s] = mem[f][s] \/ (s = "a0" /\ c.cause = "ecall")
    BY <2>1, <2>4 DEF IInv, TypeOK
  <2>7. Answered(f, c)'
    BY <2>1, <2>3, <2>6, RegistersFact DEF Answered, Holds
  <2>8. QED
    BY <1>0, <2>4, <2>5, <2>7 DEF Path
<1>10. CASE RestoreCsrs
  <2>1. x["a0"] = f /\ Answered(f, c)
    BY <1>0, <1>10 DEF RestoreCsrs, IInv, Path
  <2>2. /\ sepc' = mem[f]["sepc"] /\ spp' = mem[f]["sstatus"]
        /\ sscratch' = (IF mem[f]["sstatus"] = 0 THEN f + 1 ELSE 0)
        /\ \E v : x' = [x EXCEPT !["t6"] = f, !["t0"] = v]
        /\ UNCHANGED <<mem, suspended>> /\ pc' = "restore_registers"
    BY <1>10, <2>1 DEF RestoreCsrs
  <2>3. c.spp = 0 => f = STACK - 1
    <3>1. n \in 1 .. n
      BY <1>0, <1>10, TopFact DEF RestoreCsrs, IInv, Leaving
    <3>2. c.spp = IF n = 1 THEN 0 ELSE 1
      BY <1>0, <3>1 DEF IInv, Chain
    <3>3. QED
      BY <1>0, <3>2 DEF Place
  <2>4. sscratch' = Marked(c) /\ sepc' = Resumption(c) /\ spp' = c.spp
    BY <2>1, <2>2, <2>3 DEF Answered, Marked
  <2>5. Answered(f, c)' /\ x'["t6"] = f
    BY <2>1, <2>2, RegistersFact DEF Answered, IInv, TypeOK, RegisterFile
  <2>6. QED
    BY <1>0, <2>2, <2>4, <2>5 DEF Path
<1>11. CASE RestoreT6
  <2>1. sscratch = Marked(c) /\ spp = c.spp
    BY <1>0, <1>11 DEF RestoreT6, IInv, Path
  <2>2. sscratch' = sscratch /\ pc' = (IF spp = 0 THEN "user" ELSE "kernel")
    BY <1>11 DEF RestoreT6
  <2>3. QED
    BY <2>1, <2>2 DEF Path, Marked
<1>12. CASE RestoreRegisters
  <2>1. /\ x["t6"] = f /\ Answered(f, c)
        /\ sepc = Resumption(c) /\ spp = c.spp /\ sscratch = Marked(c)
    BY <1>0, <1>12 DEF RestoreRegisters, IInv, Path
  <2>2. /\ x' = [r \in Regs |-> IF r = "t6" THEN f ELSE mem[f][r]]
        /\ pc' = "restore_t6" /\ UNCHANGED <<sepc, spp, sscratch, mem, suspended>>
    BY <1>12, <2>1 DEF RestoreRegisters, csrs
  <2>3. x'["t6"] = f /\ \A r \in Regs \ {"t6"} : x'[r] = mem[f][r]
    BY <2>2, RegistersFact
  <2>4. Answered(f, c)'
    BY <2>1, <2>2 DEF Answered
  <2>5. QED
    BY <1>0, <2>1, <2>2, <2>3, <2>4 DEF Path
<1>13. CASE Parked \/ UNCHANGED vars
  BY <1>13 DEF Parked, vars, csrs, IInv, Path, Status, Holds, Answered
<1>14. QED
  BY <1>1, <1>2, <1>3, <1>4, <1>5, <1>6, <1>7, <1>8, <1>9, <1>10, <1>11, <1>12, <1>13 DEF Next

-----------------------------------------------------------------------------
(* The theorems. *)

LEMMA Inductive == IInv /\ [Next]_vars => IInv'
  BY TypesNext, DepthNext, ChainNext, KeptNext, PathNext DEF IInv

LEMMA Invariance == Spec => []IInv
<1>1. IInv /\ [Next]_vars => IInv'
  BY Inductive
<1>2. QED
  BY InitInv, <1>1, PTL DEF Spec

\* Registers, stack and frames keep their ranges.
THEOREM TypeCorrect == Spec => []TypeOK
<1>1. IInv => TypeOK
  BY DEF IInv
<1>2. QED
  BY Invariance, <1>1, PTL

\* A program finds its kernel stack empty at each trap; the frames of traps inside each
\* other never meet.
THEOREM StackNeverLostAlways == Spec => []StackNeverLost
<1>1. IInv => StackNeverLost
  <2> SUFFICES ASSUME IInv PROVE StackNeverLost
    OBVIOUS
  <2>1. CASE pc = "user"
    <3>1. sscratch = STACK /\ Len(calls) = 0 /\ Len(suspended) = 0
      BY <2>1 DEF IInv, Path, Depth
    <3>2. calls = <<>> /\ suspended = <<>>
      BY <3>1 DEF IInv, TypeOK
    <3>3. QED
      BY <2>1, <3>1, <3>2 DEF StackNeverLost
  <2>2. CASE pc = "kernel"
    <3>1. sscratch = 0 /\ Len(calls) = Len(suspended) /\ Len(calls) \in 1 .. NESTED + 1
      BY <2>2, KernelFact DEF IInv, Path
    <3>2. \A i \in 1 .. Len(calls) : calls[i].frame = Place(suspended, i)
      BY <2>2 DEF IInv, Kept, KeptBy
    <3>3. 1 \in 1 .. Len(calls)
      BY <3>1, StackAssumption
    <3>4. calls[1].frame = STACK - 1
      BY <3>2, <3>3 DEF Place
    <3>5. ASSUME NEW i \in 2 .. Len(calls)
          PROVE  calls[i].frame = suspended[i].x["sp"] - 1 /\ calls[i].frame < calls[i - 1].frame
      <4>1. i \in 1 .. Len(calls) /\ i - 1 \in 1 .. Len(calls) /\ i # 1 /\ i - 1 \in 1 .. i - 1
        BY <3>1
      <4>2. Place(suspended, i) < Place(suspended, i - 1)
        BY <3>1, <4>1 DEF IInv, Chain
      <4>3. QED
        BY <3>2, <4>1, <4>2 DEF Place
    <3>6. QED
      BY <2>2, <3>1, <3>4, <3>5 DEF StackNeverLost
  <2>3. QED
    BY <2>1, <2>2 DEF StackNeverLost
<1>2. QED
  BY Invariance, <1>1, PTL

\* Whoever is interrupted goes on as if nothing had been, but for the result of a call.
THEOREM TrapsAreTransparentAlways == Spec => TrapsAreTransparent
<1> DEFINE Step == pc = "restore_t6" =>
          LET c == Last(suspended)
          IN  /\ \A r \in Regs : x'[r] = c.x[r] \/ (r = "a0" /\ c.cause = "ecall")
              /\ at' = IF c.length = 1 THEN c.at + c.length + 1 ELSE c.at + c.length
              /\ pc' = IF c.spp = 0 THEN "user" ELSE "kernel"
<1>1. IInv /\ [Next]_vars => [Step]_vars
  <2> SUFFICES ASSUME IInv, Next, pc = "restore_t6" PROVE Step
    BY DEF vars
  <2>1. RestoreT6
    BY DEF Next, UserTrap, KernelFault, Swap, FromKernel, FromUser, Save, TrapHandler, Advance,
           Stop, Return, RestoreCsrs, RestoreRegisters, Parked
  <2>2. PICK c, f : c = Last(suspended) /\ f = Place(suspended, Len(suspended))
    OBVIOUS
  <2>3. x["t6"] = f /\ Answered(f, c) /\ sepc = Resumption(c) /\ spp = c.spp
    BY <2>2 DEF IInv, Path, Last
  <2>4. /\ x' = [x EXCEPT !["t6"] = mem[f]["t6"]] /\ at' = sepc
        /\ pc' = IF spp = 0 THEN "user" ELSE "kernel"
    BY <2>1, <2>3 DEF RestoreT6
  <2>5. \A r \in Regs : x'[r] = mem[f][r]
    <3>1. \A r \in Regs \ {"t6"} : x[r] = mem[f][r]
      BY <2>2 DEF IInv, Path
    <3>2. QED
      BY <2>4, <3>1 DEF IInv, TypeOK, RegisterFile
  <2>6. QED
    BY <2>2, <2>3, <2>4, <2>5 DEF Answered, Resumption
<1>2. Spec => [][Step]_vars
  BY Invariance, <1>1, PTL DEF Spec
<1>3. QED
  BY <1>2 DEF TrapsAreTransparent

=============================================================================
