------------------------------ MODULE UserRange ------------------------------
(***************************************************************************)
(* vm_user_range_valid: may the kernel access `size` bytes from the user   *)
(* pointer `va` on?  One action is one pass of its loop or one of its      *)
(* early returns, in the order of the code; arithmetic wraps at WORD.      *)
(*                                                                         *)
(* Abstractions: a page-table entry is the set of its flags, and an entry  *)
(* that vm_walk does not reach, because an intermediate table is missing,  *)
(* is the empty set, as one that is not valid.                             *)
(***************************************************************************)
EXTENDS Integers

CONSTANTS
    PAGE_SIZE,
    SV39_USER_TOP,   \* end of the user half: 2^38
    SV39_SPAN,       \* addresses a table tells apart: 2^39
    WORD,            \* 2^64
    Tables, Addresses, Lengths, Requests   \* the inputs

Flags == {"V", "R", "W", "X", "U"}
Indices == 0 .. SV39_SPAN \div PAGE_SIZE - 1
NoTable == [i \in {} |-> {}]             \* root == 0

ASSUME SizesAssumption ==
    /\ PAGE_SIZE \in Nat \ {0} /\ SV39_USER_TOP \in Nat \ {0}
    /\ SV39_SPAN \in Nat /\ WORD \in Nat
    /\ SV39_USER_TOP <= SV39_SPAN /\ SV39_SPAN <= WORD
    /\ SV39_USER_TOP % PAGE_SIZE = 0 /\ SV39_SPAN % PAGE_SIZE = 0
ASSUME InputsAssumption ==
    /\ Tables \subseteq [Indices -> SUBSET Flags] \cup {NoTable}
    /\ Addresses \subseteq 0 .. WORD - 1
    /\ Lengths \subseteq 0 .. WORD - 1
    /\ Requests \subseteq SUBSET {"R", "W", "X"}

VARIABLES
    root, va, size, required_flags,   \* the arguments
    pc,                               \* "entry", "loop" or "done"
    current, end,                     \* locals
    result

args == <<root, va, size, required_flags>>
vars == <<args, pc, current, end, result>>

\* An address rounded down to its page.
PageStart(a) == a - (a % PAGE_SIZE)

\* vm_walk without allocation: the bits above SV39_SPAN are not looked at.
vm_walk(a) == root[(a % SV39_SPAN) \div PAGE_SIZE]

Init ==
    /\ root \in Tables /\ va \in Addresses /\ size \in Lengths /\ required_flags \in Requests
    /\ pc = "entry"
    /\ current = 0
    /\ end = 0
    /\ result = 0

Return(value) ==
    /\ pc' = "done"
    /\ result' = value
    /\ UNCHANGED <<args, current, end>>

\* va + size - 1, as the machine computes it.
LastByte == (va + size - 1) % WORD

\* Mutant: the sum may wrap.
RefusedWrapping == root = NoTable \/ va = 0 \/ va >= SV39_USER_TOP \/ LastByte >= SV39_USER_TOP

\* The arguments that are refused without a look at the table.
Refused ==
    \/ root = NoTable
    \/ va = 0
    \/ LastByte < va
    \/ va >= SV39_USER_TOP \/ LastByte >= SV39_USER_TOP

Entry ==
    /\ pc = "entry"
    /\ IF root # NoTable /\ size = 0 THEN Return(1)
       ELSE IF Refused THEN Return(0)
       ELSE /\ pc' = "loop"
            /\ current' = va
            /\ end' = LastByte
            /\ UNCHANGED <<args, result>>

\* A valid user leaf with the permissions asked for.
Permitted(entry) ==
    /\ {"V", "U"} \subseteq entry
    /\ entry \cap {"R", "W", "X"} # {}
    /\ required_flags \subseteq entry

\* Mutant: the next page is not taken.
NextPageSame == PageStart(current)

NextPage == (PageStart(current) + PAGE_SIZE) % WORD

Loop ==
    /\ pc = "loop"
    /\ IF ~Permitted(vm_walk(current)) THEN Return(0)
       ELSE IF PageStart(current) = PageStart(end) THEN Return(1)
       ELSE /\ current' = NextPage
            /\ UNCHANGED <<args, pc, end, result>>

Next == Entry \/ Loop

Spec == Init /\ [][Next]_vars /\ WF_vars(Next)

-----------------------------------------------------------------------------
(* Properties. *)

\* Types; the loop looks only at pages of the range, in the user half: it never steps
\* over the page of the last byte and on.
TypeOK ==
    /\ root \in Tables /\ va \in Addresses /\ size \in Lengths /\ required_flags \in Requests
    /\ pc \in {"entry", "loop", "done"}
    /\ current \in 0 .. SV39_USER_TOP - 1 /\ end \in 0 .. SV39_USER_TOP - 1
    /\ pc = "loop" => va <= current /\ current <= end
    /\ result \in {0, 1}

\* A byte a user program itself may access so: in the user half, on a user page that
\* has the permissions.
UserByte(a) == a < SV39_USER_TOP /\ Permitted(vm_walk(a))

\* The answer is 1 exactly for the ranges whose every byte the program may access
\* itself, however the range lies on pages and whatever va + size wraps to; a null
\* pointer is good for an empty range only (vm.c:233-355).
AnswerRight ==
    pc = "done" =>
        (result = 1 <=> /\ root # NoTable
                        /\ size = 0 \/ va # 0
                        /\ \A k \in 0 .. size - 1 : UserByte(va + k))

\* Every call returns.
Returns == <>(pc = "done")

=============================================================================
