---------------------------- MODULE ProcessCreate ----------------------------
(***************************************************************************)
(* The memory of the kernel while it boots: the free list of memory.c, the *)
(* page tables of vm.c, and process_create, called by kernel_main for the  *)
(* shell or for the two programs of the benchmark.  One action is one page *)
(* freed, mapped or copied.                                                *)
(*                                                                         *)
(* Abstractions: addresses are page numbers (the linker script aligns      *)
(* every section and RAM_END is aligned, so nothing is rounded and no call *)
(* is refused for its alignment), a page-table entry is the page it refers *)
(* to and its flags, without the A and D bits, which every leaf has set,   *)
(* and a page that is no table is what it was filled with: 0 for zeroes,   *)
(* or the page of the image it is a copy of.                               *)
(***************************************************************************)
EXTENDS Integers, Sequences

CONSTANTS
    FANOUT,                     \* entries of a table: 512
    TEXT, USER_TEXT, USER_RODATA, RODATA, DATA,   \* linker.ld: [start, end]
    KERNEL_END, USER_ENTRY,
    RAM_ENDS,                   \* how much memory there may be
    UART0, USER_STACK_BASE,
    BENCHMARK_WORKING_SET_BASE, BENCHMARK_WORKING_SET_PAGES

Indices == 0 .. FANOUT - 1
VirtualPages == 0 .. FANOUT * FANOUT * FANOUT - 1
Sections == {TEXT, USER_TEXT, USER_RODATA, RODATA, DATA}
WorkingSet == [start |-> BENCHMARK_WORKING_SET_BASE,
               end |-> BENCHMARK_WORKING_SET_BASE + BENCHMARK_WORKING_SET_PAGES]

ASSUME FanoutAssumption == FANOUT \in Nat \ {0, 1}
\* The sections lie in the order of linker.ld, behind the user's stack and working set,
\* of which benchmark.h allows no size of zero, and before the rest of memory.
ASSUME LayoutAssumption ==
    /\ Sections \subseteq {s \in [start : VirtualPages, end : VirtualPages] : s.start <= s.end}
    /\ TEXT.end <= USER_TEXT.start /\ USER_TEXT.end <= USER_RODATA.start
    /\ USER_RODATA.end <= RODATA.start /\ RODATA.end <= DATA.start /\ DATA.end <= KERNEL_END
    /\ KERNEL_END \in VirtualPages /\ RAM_ENDS \subseteq {e \in VirtualPages : KERNEL_END <= e}
    /\ USER_ENTRY \in USER_TEXT.start .. USER_TEXT.end - 1
    /\ UART0 \in Nat \ {0} /\ UART0 < USER_STACK_BASE
    /\ USER_STACK_BASE \in Nat /\ USER_STACK_BASE < BENCHMARK_WORKING_SET_BASE
    /\ BENCHMARK_WORKING_SET_BASE \in Nat /\ BENCHMARK_WORKING_SET_PAGES \in Nat \ {0}
    /\ WorkingSet.end <= TEXT.start

VARIABLES
    build,       \* what is compiled: "shell", "cpu" or "memory" (the benchmark's workloads)
    ram_end,
    mem,         \* [free_list, free_page_count, tables]: table page -> entries
    total_page_count,
    filled,      \* pages handed out that are no tables: what they hold
    pc,
    pid,         \* argument of process_create
    root,        \* its local
    region, at,  \* which part of the address space is being built, and which page
    processes    \* [pagetable, kernel_stack, user_stack, sp, sepc], the pages of 0: none

vars == <<build, ram_end, mem, total_page_count, filled, pc, pid, root, region, at, processes>>

Flags == {"V", "R", "W", "X", "U"}
Invalid == [pa |-> 0, flags |-> {}]
ZeroTable == [i \in Indices |-> Invalid]
Valid(pte) == "V" \in pte.flags
Leaf(pte) == pte.flags \cap {"R", "W", "X"} # {}

Pids == IF build = "shell" THEN {1} ELSE {1, 2}
NoProcess == [pagetable |-> 0, kernel_stack |-> 0, user_stack |-> 0, sp |-> 0, sepc |-> 0]

-----------------------------------------------------------------------------
(* memory.c *)

\* Mutant: the page stays on the list.
page_allocKept(m) == [m EXCEPT !.free_page_count = @ - 1]

\* The memory after the page Head(m.free_list), if there is one, is handed out.
page_alloc(m) == [m EXCEPT !.free_list = Tail(@), !.free_page_count = @ - 1]

\* Mutant: the page is not counted.
page_freeUncounted(m, p) == [m EXCEPT !.free_list = <<p>> \o @]

page_free(m, p) == [m EXCEPT !.free_list = <<p>> \o @, !.free_page_count = @ + 1]

Full(m) == m.free_list = <<>>

-----------------------------------------------------------------------------
(* vm.c *)

\* The index of a page in the tables of a level.
VPN_INDEX(v, level) ==
    (CASE level = 0 -> v
       [] level = 1 -> v \div FANOUT
       [] level = 2 -> (v \div FANOUT) \div FANOUT) % FANOUT

\* A zeroed table page, and the entry that refers to it.
NewTable(m, t, i) ==
    LET p == Head(m.free_list)
        zeroed == [q \in DOMAIN m.tables \cup {p} |-> IF q = p THEN ZeroTable ELSE m.tables[q]]
    IN  [page_alloc(m) EXCEPT !.tables = [zeroed EXCEPT ![t][i] = [pa |-> p, flags |-> {"V"}]]]

\* One level of vm_walk with allocation.
Descend(m, t, i) ==
    IF Valid(m.tables[t][i])
    THEN [ok |-> ~Leaf(m.tables[t][i]), mem |-> m, table |-> m.tables[t][i].pa]
    ELSE IF Full(m) THEN [ok |-> FALSE, mem |-> m, table |-> t]
    ELSE [ok |-> TRUE, mem |-> NewTable(m, t, i), table |-> Head(m.free_list)]

\* The last table on the way to v.  A walk that fails keeps what it allocated.
vm_walk(m, r, v) ==
    LET upper == Descend(m, r, VPN_INDEX(v, 2))
    IN  IF upper.ok THEN Descend(upper.mem, upper.table, VPN_INDEX(v, 1)) ELSE upper

vm_map_page(m, r, v, pa, flags) ==
    LET w == vm_walk(m, r, v)
    IN  IF ~w.ok \/ Valid(w.mem.tables[w.table][VPN_INDEX(v, 0)]) THEN [ok |-> FALSE, mem |-> w.mem]
        ELSE [ok |-> TRUE,
              mem |-> [w.mem EXCEPT !.tables[w.table][VPN_INDEX(v, 0)] =
                          [pa |-> pa, flags |-> flags \cup {"V"}]]]

\* vm_walk without allocation: the entry for v, if every table on the way exists.
Entry(r, v) ==
    LET upper == mem.tables[r][VPN_INDEX(v, 2)]
        lower == mem.tables[upper.pa][VPN_INDEX(v, 1)]
    IN  IF ~Valid(upper) \/ Leaf(upper) THEN Invalid
        ELSE IF ~Valid(lower) \/ Leaf(lower) THEN Invalid
        ELSE mem.tables[lower.pa][VPN_INDEX(v, 0)]

vm_translate(r, v) == IF Valid(Entry(r, v)) /\ Leaf(Entry(r, v)) THEN Entry(r, v).pa ELSE 0

\* Two tests of process.c on finished processes.
process_has_private_user_memory(p) ==
    vm_translate(processes[p].pagetable, USER_TEXT.start) \notin {0, USER_TEXT.start}

process_address_spaces_distinct(p, q) ==
    LET text(x) == vm_translate(processes[x].pagetable, USER_TEXT.start)
        stack(x) == vm_translate(processes[x].pagetable, USER_STACK_BASE)
    IN  /\ processes[p].pagetable # processes[q].pagetable
        /\ 0 \notin {text(p), text(q), stack(p), stack(q)}
        /\ text(p) # text(q) /\ stack(p) # stack(q)

-----------------------------------------------------------------------------
(* process.c: what is mapped, in the order of the code. *)

Identity(s, flags) == [how |-> "identity", start |-> s.start, end |-> s.end, flags |-> flags]
Copied(s, flags) == [how |-> "copied", start |-> s.start, end |-> s.end, flags |-> flags]
Zeroed(s, flags) == [how |-> "zeroed", start |-> s.start, end |-> s.end, flags |-> flags]

\* Mutants: the last page of memory is left out; the text is mapped up to the end of
\* the user's.
map_kernelShort ==
    << Identity(TEXT, {"R", "X"}),
       Identity(RODATA, {"R"}),
       Identity(DATA, {"R", "W"}),
       Identity([start |-> KERNEL_END, end |-> ram_end - 1], {"R", "W"}),
       Identity([start |-> UART0, end |-> UART0 + 1], {"R", "W"}) >>

map_kernelWide ==
    << Identity([start |-> TEXT.start, end |-> USER_TEXT.end], {"R", "X"}),
       Identity(RODATA, {"R"}),
       Identity(DATA, {"R", "W"}),
       Identity([start |-> KERNEL_END, end |-> ram_end], {"R", "W"}),
       Identity([start |-> UART0, end |-> UART0 + 1], {"R", "W"}) >>

map_kernel ==
    << Identity(TEXT, {"R", "X"}),
       Identity(RODATA, {"R"}),
       Identity(DATA, {"R", "W"}),
       Identity([start |-> KERNEL_END, end |-> ram_end], {"R", "W"}),
       Identity([start |-> UART0, end |-> UART0 + 1], {"R", "W"}) >>

\* Mutant: the pages of the image are mapped themselves.
user_regionsShared ==
    << Identity(USER_TEXT, {"R", "X", "U"}), Identity(USER_RODATA, {"R", "U"}) >>

user_regions ==
    << Copied(USER_TEXT, {"R", "X", "U"}), Copied(USER_RODATA, {"R", "U"}) >>

map_benchmark_working_set == << Zeroed(WorkingSet, {"R", "W", "U"}) >>

Regions == map_kernel \o user_regions
             \o IF build = "memory" THEN map_benchmark_working_set ELSE <<>>

\* kernel_main has started; pmm_init is about to free the first page.
Init ==
    /\ build \in {"shell", "cpu", "memory"}
    /\ ram_end \in RAM_ENDS
    /\ mem = [free_list |-> <<>>, free_page_count |-> 0, tables |-> << >>]
    /\ total_page_count = 0
    /\ filled = << >>
    /\ pc = "pmm_init"
    /\ pid = 1
    /\ root = 0
    /\ region = 1
    /\ at = KERNEL_END
    /\ processes = [p \in Pids |-> NoProcess]

PmmInit ==
    /\ pc = "pmm_init"
    /\ IF at < ram_end
       THEN /\ mem' = page_free(mem, at)
            /\ at' = at + 1
            /\ UNCHANGED <<total_page_count, pc>>
       ELSE /\ total_page_count' = mem.free_page_count
            /\ pc' = "vm_create"
            /\ UNCHANGED <<mem, at>>
    /\ UNCHANGED <<build, ram_end, filled, pid, root, region, processes>>

\* process_create returns -1; kernel_main reports it and loops.
Failed ==
    /\ pc' = "failed"
    /\ UNCHANGED <<root, region, at, processes, pid>>

VmCreate ==
    /\ pc = "vm_create"
    /\ IF Full(mem) THEN Failed /\ UNCHANGED mem
       ELSE LET p == Head(mem.free_list)
            IN  /\ mem' = [page_alloc(mem) EXCEPT !.tables =
                             [q \in DOMAIN @ \cup {p} |-> IF q = p THEN ZeroTable ELSE mem.tables[q]]]
                /\ root' = p
                /\ pc' = "map"
                /\ region' = 1
                /\ at' = Regions[1].start
                /\ UNCHANGED <<pid, processes>>
    /\ UNCHANGED <<build, ram_end, total_page_count, filled>>

\* A region is mapped, or was empty.
RegionDone ==
    /\ pc = "map" /\ at >= Regions[region].end
    /\ IF region < Len(Regions)
       THEN region' = region + 1 /\ at' = Regions[region + 1].start /\ UNCHANGED pc
       ELSE pc' = "stacks" /\ UNCHANGED <<region, at>>
    /\ UNCHANGED <<build, ram_end, mem, total_page_count, filled, pid, root, processes>>

\* One page of vm_map_range, copy_user_region or map_benchmark_working_set.
MapPage ==
    /\ pc = "map" /\ at < Regions[region].end
    /\ LET r == Regions[region]
           own == r.how # "identity"
           p == IF own THEN Head(mem.free_list) ELSE at
           mapped == vm_map_page(IF own THEN page_alloc(mem) ELSE mem, root, at, p, r.flags)
       IN  IF own /\ Full(mem) THEN Failed /\ UNCHANGED <<mem, filled>>
           ELSE /\ mem' = mapped.mem
                /\ filled' = IF own THEN [q \in DOMAIN filled \cup {p} |->
                                            IF q # p THEN filled[q] ELSE IF r.how = "copied" THEN at ELSE 0]
                             ELSE filled
                /\ IF mapped.ok
                   THEN at' = at + 1 /\ UNCHANGED <<pc, root, region, processes, pid>>
                   ELSE Failed
    /\ UNCHANGED <<build, ram_end, total_page_count>>

\* Both stacks are allocated before either is looked at; the frame is on the kernel's.
Stacks ==
    /\ pc = "stacks"
    /\ IF Len(mem.free_list) < 2
       THEN /\ mem' = IF Full(mem) THEN mem ELSE page_alloc(mem)
            /\ filled' = IF Full(mem) THEN filled
                         ELSE [q \in DOMAIN filled \cup {Head(mem.free_list)} |->
                                 IF q \in DOMAIN filled THEN filled[q] ELSE 0]
            /\ Failed
       ELSE LET user_stack == Head(mem.free_list)
                kernel_stack == Head(page_alloc(mem).free_list)
                mapped == vm_map_page(page_alloc(page_alloc(mem)), root, USER_STACK_BASE,
                                      user_stack, {"R", "W", "U"})
            IN  /\ mem' = mapped.mem
                /\ filled' = [q \in DOMAIN filled \cup {user_stack, kernel_stack} |->
                                IF q \in {user_stack, kernel_stack} THEN 0 ELSE filled[q]]
                /\ IF ~mapped.ok THEN Failed
                   ELSE /\ processes' = [processes EXCEPT ![pid] =
                              [pagetable |-> root, kernel_stack |-> kernel_stack,
                               user_stack |-> user_stack,
                               sp |-> USER_STACK_BASE + 1, sepc |-> USER_ENTRY]]
                        /\ pc' = "created"
                        /\ UNCHANGED <<root, region, at, pid>>
    /\ UNCHANGED <<build, ram_end, total_page_count>>

\* Mutant: memory is initialised for each process.
CreatedPmmAgain ==
    /\ pc = "created"
    /\ IF pid + 1 \in Pids
       THEN /\ pid' = pid + 1 /\ pc' = "pmm_init" /\ at' = KERNEL_END
            /\ mem' = [mem EXCEPT !.free_list = <<>>, !.free_page_count = 0]
       ELSE pc' = "booted" /\ UNCHANGED <<pid, at, mem>>
    /\ UNCHANGED <<build, ram_end, total_page_count, filled, root, region, processes>>

\* Back in kernel_main: the second process, or the check of the working sets.
Created ==
    /\ pc = "created"
    /\ IF pid + 1 \in Pids
       THEN pid' = pid + 1 /\ pc' = "vm_create"
       ELSE /\ pc' = IF build # "memory" THEN "booted"
                     ELSE LET set(p) == vm_translate(processes[p].pagetable, BENCHMARK_WORKING_SET_BASE)
                          IN  IF set(1) = 0 \/ set(2) = 0 \/ set(1) = set(2) THEN "not isolated"
                              ELSE "booted"
            /\ UNCHANGED pid
    /\ UNCHANGED <<build, ram_end, mem, total_page_count, filled, root, region, at, processes>>

\* The loops of kernel_main after a failure, and what follows a success.
Stopped == pc \in {"failed", "not isolated", "booted"} /\ UNCHANGED vars

Next == PmmInit \/ VmCreate \/ RegionDone \/ MapPage \/ Stacks \/ Created \/ Stopped

Spec == Init /\ [][Next]_vars

-----------------------------------------------------------------------------
(* Properties. *)

Ram == KERNEL_END .. ram_end - 1
PTE == [pa : Nat, flags : SUBSET Flags]

TypeOK ==
    /\ build \in {"shell", "cpu", "memory"} /\ ram_end \in RAM_ENDS
    /\ mem.free_list \in Seq(Ram)
    /\ mem.free_page_count \in Nat /\ total_page_count \in Nat
    /\ DOMAIN mem.tables \subseteq Ram /\ \A t \in DOMAIN mem.tables : mem.tables[t] \in [Indices -> PTE]
    /\ DOMAIN filled \subseteq Ram /\ \A p \in DOMAIN filled : filled[p] \in VirtualPages
    /\ pc \in {"pmm_init", "vm_create", "map", "stacks", "created", "booted", "failed", "not isolated"}
    /\ pid \in Pids
    /\ region \in 1 .. Len(Regions)
    /\ at \in VirtualPages

FreePages == {mem.free_list[k] : k \in 1 .. Len(mem.free_list)}
TablePages == DOMAIN mem.tables
Roots == ({root} \cup {processes[p].pagetable : p \in Pids}) \ {0}

\* The entries of all tables; those that refer to another table, and those that map a
\* page for a program in user mode.
Entries == TablePages \X Indices
Pte(e) == mem.tables[e[1]][e[2]]
Links == {e \in Entries : Valid(Pte(e)) /\ ~Leaf(Pte(e))}
UserLeaves == {e \in Entries : Leaf(Pte(e)) /\ "U" \in Pte(e).flags}

\* Every page of memory has one use: it is free, a table that one entry refers to (or
\* a root), or filled for a process, and the counters are exact (memory.c, vm.c:46-127).
\* The pages of a creation that failed stay tables, or filled: nothing gives them back, and
\* nobody else gets them.
EveryPageOneUse ==
    /\ \A j, k \in 1 .. Len(mem.free_list) : mem.free_list[j] = mem.free_list[k] => j = k
    /\ FreePages \cap TablePages = {} /\ FreePages \cap DOMAIN filled = {}
    /\ TablePages \cap DOMAIN filled = {}
    /\ pc # "pmm_init" => Ram = FreePages \cup TablePages \cup DOMAIN filled
    /\ mem.free_page_count = Len(mem.free_list)
    /\ pc # "pmm_init" => total_page_count = ram_end - KERNEL_END
    /\ \A a, b \in Links : Pte(a).pa = Pte(b).pa => a = b
    /\ {Pte(a).pa : a \in Links} \cup Roots = TablePages
    /\ {Pte(a).pa : a \in Links} \cap Roots = {}

\* What a program can reach is its own: a page filled for it, no kernel stack, not
\* mapped a second time for a program, and never both writable and executable; so the
\* tests of process.c:385-444 hold once the kernel has booted.
UserPagesPrivate ==
    /\ \A l \in UserLeaves :
          /\ Pte(l).pa \in DOMAIN filled
          /\ \A p \in Pids : processes[p].kernel_stack # Pte(l).pa
          /\ ~({"W", "X"} \subseteq Pte(l).flags)
    /\ \A l, m \in UserLeaves : Pte(l).pa = Pte(m).pa => l = m
    /\ pc = "booted" => \A p, q \in Pids :
          /\ process_has_private_user_memory(p)
          /\ p # q => process_address_spaces_distinct(p, q)

\* The address space of a process that was created: the kernel finds itself and all of
\* memory, tables and kernel stacks included, where it is without paging, out of reach
\* of the program; the program finds its text, its constants, its zeroed stack and
\* working set; nothing else is mapped (process.c:171-325).
MapsExactly(p) ==
    LET r == processes[p].pagetable
        In(s, v) == v \in s.start .. s.end - 1
        Is(v, pa, flags) == Entry(r, v) = [pa |-> pa, flags |-> flags \cup {"V"}]
        Holds(v, what, flags) ==
            /\ Entry(r, v).flags = flags \cup {"V"}
            /\ Entry(r, v).pa \in DOMAIN filled /\ filled[Entry(r, v).pa] = what
    IN  \A v \in VirtualPages :
            CASE In(TEXT, v) -> Is(v, v, {"R", "X"})
              [] In(RODATA, v) -> Is(v, v, {"R"})
              [] In(DATA, v) \/ v \in Ram \/ v = UART0 -> Is(v, v, {"R", "W"})
              [] In(USER_TEXT, v) -> Holds(v, v, {"R", "X", "U"})
              [] In(USER_RODATA, v) -> Holds(v, v, {"R", "U"})
              [] v = USER_STACK_BASE -> /\ Is(v, processes[p].user_stack, {"R", "W", "U"})
                                        /\ Holds(v, 0, {"R", "W", "U"})
              [] build = "memory" /\ In(WorkingSet, v) -> Holds(v, 0, {"R", "W", "U"})
              [] OTHER -> Entry(r, v) = Invalid

\* The frame starts the program at its entry, on a full page of stack.
AddressSpaceComplete ==
    pc \in {"created", "booted"} =>
        /\ MapsExactly(pid)
        /\ {"X", "U"} \subseteq Entry(processes[pid].pagetable, processes[pid].sepc).flags
        /\ Entry(processes[pid].pagetable, processes[pid].sp - 1).pa = processes[pid].user_stack

\* Creation fails for want of memory and for nothing else: no two regions collide, and
\* the isolation check of kernel_main always passes (main.c:73-128).
FailsOnlyWhenFull ==
    /\ pc = "failed" => Full(mem)
    /\ pc # "not isolated"

\* The address space of a process, once created, stays as it is while the next one
\* is built, or fails to be: the tables are not shared.
CreatedSpacesStay ==
    [][\A p \in Pids : processes[p].pagetable # 0 =>
          /\ processes'[p] = processes[p]
          /\ \A v \in VirtualPages :
                Entry(processes[p].pagetable, v)' = Entry(processes[p].pagetable, v)]_vars

=============================================================================
