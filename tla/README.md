# Verification of Mini-RVOS

Mini-RVOS is an educational kernel for one 64-bit RISC-V hart. One source tree
gives three kernels: the **shell** build (a user shell over an in-memory file
system) and two **benchmark** builds (`BENCHMARK_MODE`), in which two user
programs are preempted by the timer and address spaces are switched either with
two full TLB flushes per switch or by ASID, without a fence.

This directory holds TLA+ models of its core, the TLC configurations that check
them, and proofs checked by TLAPS.

| module | what it is |
| --- | --- |
| `RoundRobin` | abstract: what the benchmark promises, with no kernel in it |
| `ContextSwitch` | the benchmark kernel: ASID probe, scheduler, trap path, address-space switch, next to the hardware they race with |
| `MCContextSwitch` | its small instances |
| `ContextSwitchProofs` | its theorems and proofs |
| `FileApi` | abstract: what the file system promises, with no tables in it |
| `FileSystem` | `fs.c`: inodes, open files and the calls on them |
| `MCFileSystem` | its small instances |
| `FileSystemProofs` | its theorems and proofs |
| `Boot` | what the kernel has set up for the shell: its process number and the one file |
| `Syscall` | `syscall.c` over `FileSystem`: what an `ecall` does, step by step |
| `MCSyscall` | its small instance |
| `SyscallProofs` | theorems and proofs about `Syscall` (user memory, effects on the files, the line of input) and about `Shell` on top of it |
| `UserRange` | `vm_user_range_valid`: may the kernel use a user pointer |
| `MCUserRange` | its small instance |
| `UserRangeProofs` | its theorems and proofs |
| `ProcessCreate` | booting: free list, page tables, `process_create` |
| `MCProcessCreate` | its small instance |
| `ProcessCreateProofs` | its theorems and proofs |
| `TrapPath` | `trap_entry.S` and `trap.c` in the shell build, register by register, with traps inside traps |
| `MCTrapPath` | its small instance |
| `TrapPathProofs` | its theorems and proofs |
| `Commands` | the strings of the shell and the answer to each line |
| `Terminal` | abstract: what the user at the terminal is promised |
| `Shell` | `user_shell.c` running on the kernel of `Syscall` |
| `MCShell` | its small instance |
| `Measurement` | `research.c`: what the printed ticks say |
| `MeasurementProofs` | its theorems and proofs |
| `Experiment` | `run_experiments.py` with the emulators it runs |
| `MCExperiment` | its small instances |
| `ExperimentProofs` | its theorems and proofs |

Run a check with `tlc -config Asid.cfg MCContextSwitch` and the proofs with
`tlapm ContextSwitchProofs.tla`.

## The system

| component | state | operations | interacts with |
| --- | --- | --- | --- |
| boot (`entry.S`, `linker.ld`) | none | clear `.bss`, set the stack, call `kernel_main` | everything, once |
| console and firmware (`uart.c`, `sbi.c`) | device registers; the firmware's timer | `uart_putc`, `uart_getc`, `sbi_set_timer` | called by the kernel |
| page allocator (`memory.c`) | `free_list`, two counters | `pmm_init`, `page_alloc`, `page_free` | called by vm and process; `page_free` only by `pmm_init` |
| page tables (`vm.c`) | the tables, in pages; `satp`; the TLB | `vm_walk`, `vm_map_page`, `vm_map_range`, `vm_translate`, `vm_user_range_valid`, `vm_enable`, `vm_enable_asid`, `vm_detect_asid_bits` | allocator, process, syscall; the hardware walks the tables by itself |
| trap path (`trap_entry.S`, `trap.c`) | a trap frame on each kernel stack, `sscratch`, `timer_ticks` | save, dispatch, restore | entered by the hardware; calls scheduler or syscall |
| processes (`process.c`) | `struct process` (pid, asid, page table, stacks, frame), `current_process` | `process_create`, `process_activate`, `process_start` | allocator, vm, scheduler |
| scheduler (`scheduler.c`) | `processes`, `current_index`, `switch_count` | `scheduler_init`, `scheduler_start`, `scheduler_on_timer` | called by the trap path; activates processes |
| benchmark (`main.c`, `research.c`, `user_benchmark.S`) | counters and tick sums; `s11` of each program | reset, record, print the summary; the two programs | scheduler, vm |
| file system (`fs.c`) | `inodes`, `open_files`, `inode_count` | `fs_init`, `fs_create`, `fs_open`, `fs_read`, `fs_write`, `fs_close` | called by syscall and `kernel_main` |
| system calls (`syscall.c`) | `sstatus.SUM` | write, getpid, open, read, create, close, exit | trap path, fs, vm, uart |
| shell (`user_shell.c`, `user_entry.S`, `user_syscall.S`) | its stack | read a line, run a command | system calls only |
| experiment runner (`run_experiments.py`) | the shuffled tasks, `results.csv` | build all kernels, run each task under QEMU with a deadline, record its row | a pipe from QEMU; signals to it |
| statistics, plots, smoke test (`scripts/`, `tests/`) | files on the host | arithmetic and drawing; six piped commands | the finished files |

What is hard here:

* **Interleaving with the hardware.** There is one hart and no kernel thread, but
  the timer expires whenever it likes, an interrupt is taken as soon as it is
  enabled and the mode allows it, and the current page table may be walked, and
  its translations cached, between any two instructions. An earlier version of
  the benchmark took a timer interrupt inside the scheduler and stored a kernel
  frame as a process's (`docs/08-asid-research-report.md`, section 5.1).
* **Steps that belong together.** A switch changes the saved frame, the index,
  `current_process`, `satp`, `sscratch` and the registers, one after the other.
* **Stale translations**, with two different defences: fences, or ASIDs that must
  be unique in the bits the hardware has.
* **Tables of fixed size**, searched from the front, with slots and descriptors
  reused, and failing calls that have already written something.
* **Partial failure**: `sys_create` is two calls, `process_create` eight.
* **Assembly without spare registers**: `trap_entry` must save registers with nothing
  but `sp` and `sscratch` to work with, and tell traps of programs from its own.
* **Leftovers**: the shell parses in a buffer that older, longer lines were in; the
  benchmark's counters have counted before they are to count.
* **A pipe, a deadline and a process that may not obey**: the experiment runner reads
  the kernel's lines through two buffers, and must neither miss nor invent a row.

`PROJECT.json` lists each hazard at its line, with the properties that cover it, or why none does.

## ContextSwitch: the benchmark kernel

### Correspondence with the code

`pc` is the next step of the kernel, or `"user"` while a program computes. One
action is one step of the path

    kernel_main:        [probe_fence probe_write probe_read probe_flush]
                        scheduler_init mask enable
    scheduler_start:    start activate (fence_before) write_satp (fence_after)
                        arm reset trap_restore sret user
    timer interrupt:    TakeTimer trap_handler on_timer activate ... finish
                        trap_restore sret user

The steps are cut where something outside the kernel can tell the difference:
at every access to `satp`, `sstatus`, `sie`, `sscratch`, the TLB, the timer and
the mode, and at every function that changes kernel variables.
`[...]` is the ASID build only, `(...)` the full-flush build only.

| model | code |
| --- | --- |
| `ProbeFence` ... `ProbeFlush` | `vm_detect_asid_bits` and the test of its result in `kernel_main` |
| `SchedulerInit`, `MaskInterrupts`, `EnableTimer` | `kernel_main`, `scheduler_init` |
| `SchedulerStart`, `ArmFirstTimer`, `ResearchReset` | `scheduler_start` |
| `ProcessActivate`, `FenceBefore`, `SwitchSatp`, `FenceAfter` | `process_activate`, `vm_enable`, `vm_enable_asid` |
| `TakeTimer` | the hardware's trap, and `trap_entry` |
| `TrapHandler`, `SchedulerOnTimer`, `FinishSwitch` | the timer branch of `trap_handler`, `scheduler_on_timer` before and after `process_activate` |
| `RestoreCsrs`, `RestoreRegisters` | `trap_restore` |
| `UserStore`, `UserCount` | `user_benchmark_main` |
| `CacheTranslation`, `TimerExpires`, `WriteSatp`, `Flush`, `SetTimer` | the hart and the firmware |

Saving the frame is one step with the trap: interrupts are masked by the trap
itself and nobody else looks at the frame. The hazards of interest, an interrupt
in the kernel and a wrong `sscratch`, are kept: `TakeTimer` is enabled in S-mode
whenever `sstatus.sie` is set, and saves below `sscratch`, or, if that is zero,
in a frame `Nested` on the interrupted stack.

Abstractions: a register file is the program it belongs to and `s11`, the work
counter that the kernel reads out of the frame; a page table is the number of
the process it was built for; a program's private memory is one page, of which
the model keeps who last wrote it; an ASID is the set of its one bits, so that
cutting off the bits the hardware lacks is a set intersection. A user access may
use any cached translation with the current ASID, or the current table. What the
two programs share, the kernel half of each table, is the same in both and is
left out. Elapsed and switch ticks are left to `Measurement`.

The constants are the build's: `BENCHMARK_USE_ASID`, `BENCHMARK_SWITCHES` (even
and at least 2: `benchmark.h` refuses anything else), `WORD`, the number of values
of a machine word, and `ASIDLENS`, the ASID widths of the hardware considered.

### Properties

| property | says |
| --- | --- |
| `NeverStuck` | no interrupt is taken in the kernel; only missing ASID bits stop it |
| `UserContext` | while a program computes, current process, index, `satp`, registers, `sscratch` and the other program's frame all fit together |
| `TlbCoherent` | while a program computes, every translation it may use is its own |
| `PrivatePages` | no program ever writes the other's page |
| `Accounting` | ticks, switches and fences agree; the summary is for exactly `BENCHMARK_SWITCHES` switches |
| `QuietAfterSummary` | nothing is preempted or counted after the summary |
| `ImplementsRoundRobin` | all this is an implementation of `RoundRobin`: no work is lost or changed by a switch, turns alternate, the summary is the work done at the last switch |
| `Completes` | the summary is printed |
| `TakeTurns` | until then, a running program is always preempted in favour of the other |

### Runs and bounds

`FullFlush` and `Asid` check the two builds, each the properties that its build puts
at risk, and liveness. A safety property that only one of them checks is proved for
both (see below), from an inductive invariant that TLC had found to hold in both before
it was proved.

* Four switches: each program is preempted twice, so each is both resumed from a
  fresh frame and from a saved one before and after the other; the last switch
  is neither the first nor the second. Nothing in the code depends on the
  number but the test for the last one.
* `WORD` is 3: the work counter wraps during a turn, so a work
  count is compared modulo the word size as in the code.
* ASID widths 0, 1, 2, 3 and 16: none, one bit too few, just enough, one more,
  all.

The TLB, the number of steps of a program and the moments the timer expires are
not bounded.

Fairness is on the kernel's steps (the hart executes instructions), on
`TimerExpires` (time passes) and on `TakeTimer` (an interrupt that is pending and
enabled is taken). All are weak: none of these is ever disabled again by somebody
else once it can happen, except `TakeTimer`, which stays enabled until it is taken
because U-mode does not mask it. Nothing is assumed of the user programs or of the
TLB. `Completes` says nothing about hardware with fewer than two ASID bits, where
the ASID kernel reports failure and loops on purpose.

No run turns the deadlock check off: after the summary the programs go on, and
the loop of a failed kernel is the action `Hang`.

### What is proved

`ContextSwitchProofs` proves, for every even number of switches, every word size
and any set of ASID widths up to 16, and for both builds:

* `InductiveInvariant`: `Spec => []IInv`;
* from it `TypeCorrect`, `KernelNeverStuck`, `UserContextCorrect`,
  `TranslationsCoherent`, `PagesStayPrivate`, `CountersAgree` (the invariants of the
  runs) and `StaysQuiet` (the action property);
* `KernelImplementsRoundRobin`: `Spec => RR!Spec`, every step of the kernel is a
  step of `RoundRobin` or leaves its variables unchanged.

None of the invariants is inductive by itself: `UserContext` speaks of U-mode
only, and what it says there is put together over the dozen kernel steps before.
`IInv` states what holds at each of these steps, in five parts besides the types:

* `InvContext`: interrupts are masked, the mode is U exactly at `pc = "user"`, each
  process is stored in its own frame, and only a running program's registers are
  not the kernel's;
* `InvCurrent`: the relation of `current_index`, `current_process`, `a0` and
  `sscratch` at each `pc`;
* `InvProbe`: the probe reads back exactly the implemented bits, and past it there
  are at least two (`ProbeReadback` and `ProbeCounts` prove that the loop counts them);
* `InvTranslation`: what `satp` and the TLB may hold at each `pc`. With full flush
  nothing of another table, except between the new `satp` and the fence behind it;
  with ASIDs, after the probe's fence, only pairs of a process and its ASID;
* `InvCounters`: the counters at each `pc`, the parity that ties `switch_count` to
  `current_index`, and that the timer is off once the summary is printed.

Each part has a lemma that every step preserves it, with one step per action. For the
refinement, `WorkOf` (the registers while they are the program's own, else its
saved frame) is shown to be kept by saving, switching and restoring, and the
number of turns of each program, `(switch_count + 2 - p) \div 2`, to grow by one
for exactly the program that was preempted.

The assumptions are those `ASSUME`d in `ContextSwitch` on its constants; TLC
evaluates them in every run.

Only model-checked: `Completes` and `TakeTurns`, which need fairness.

## FileSystem: fs.c

### Correspondence with the code

`inodes`, `open_files` and `inode_count` are the static tables, with the code's
indices; `reply` holds the result of the last call. `fs_create`, `fs_open`,
`fs_read`, `fs_write` and `fs_close` are one action each, with the code's order of
tests: the kernel runs them with interrupts masked, on one hart, so they are
atomic. `Init` is the state `fs_init` leaves. The searches are `Least` of the set
of matching slots.

Abstractions: a name is one value; the names that do not fit in `FS_NAME_MAX`
bytes are the set `LongNames`. The system call layer refuses these before it
calls `fs.c`; they are modelled because `fs_create` has a path of its own for
them, and it is not a plain refusal: it leaves the cut name in the free slot. A
byte of the static array nobody has written is `Blank`, and not a byte a program
can write, so that exposing one is seen. `fs_create` is modelled with the arguments
of its two callers (`fs_init` in `Init`, `sys_create` with no data). The kernel as
it stands calls the file system for process 1 only; the tables are kept per
process, and the model has any number of them.

### Properties

`FileApi` is the interface: files are named sequences that only grow, a handle has
a position in one file, every call says what it returns. `ImplementsFileApi` maps
the tables to it and says each call of `fs.c` has the result and the effect of
the interface, in every state the tables can get into. `OnlyWrittenBytes` says that no
file and no answer contains a byte nobody wrote, `FilesOnlyGrow` that no call loses,
renames or cuts a file. Proved, and no longer checked by a run, are `TypeOK` (no index
or offset leaves its array), `UniqueNames`, `UniqueDescriptors`, `OpenFilesValid` (an
open descriptor refers to a file and a position inside it) and `CountExact`.

### Runs and bounds

* `Descriptors`: two processes, two inodes, three open files, one byte per file.
  Both tables get full, by one process or by both; descriptors are closed in
  every order and reused; one process has a descriptor number the other has too.
* `FileData`: one process with two descriptors, files of up to three bytes, two
  byte values, and buffers of one, two and four bytes. Two offsets move in one
  file, writes overwrite, extend, stop at the limit and find no room at all.

A third name is too long, and its cut form is a name that can be created.
Descriptors are tried from 2 to one past the highest valid number. There is no
fairness and no liveness: calls return at once.

### What is proved

`FileSystemProofs` proves for tables of every size, any processes, names and
bytes that the six invariants hold (`FileInvariant`: they are inductive together,
not one by one: that a new descriptor is unique needs that the old ones are
valid, that a name stays unique needs the exact count, which says where the next
file goes). `FilesNeverShrink` is the action property. `LeastFound` proves once
that a search from the front finds the least index, from the well-founded order
of the naturals, and `OverwrittenFact` what the copy loops change.

`ImplementsFileApiCorrect` is the refinement, `Spec => ImplementsFileApi`: under the same
assumptions, `Init` implies that of `FileApi`, and each call of `fs.c` is the call of the
interface of the same name, or one it refuses. Its parts:

* what is seen of the tables is one function of them (`FilesSeenAre`, `HandlesSeenAre`): a
  name leads to one slot, a process and descriptor to one entry, which is `UniqueNames` and
  `UniqueDescriptors`. `FilesSame`, `HandlesSame` and `HandleMoves` then say how little of
  the tables a caller sees change, so that a name cut in a free slot, or data behind the end
  of a file, is not seen at all;
* the limits are the same, though one side counts and the other searches: `FilesFull` and
  `HandlesFull` count slots and names by bijections, with `NoFdNoEntry`, that a process
  without a free descriptor holds every entry. `LowestDescriptor` is `NewFd`;
* for `fs_write`, what the byte loop leaves in the array is the text that the interface
  splices out of three pieces (`Spliced`), wherever the offset, the end and the limit lie.

Nothing about `FileSystem` is left to TLC alone.

## Syscall: syscall.c

### Correspondence with the code

`pc` is the next step of the kernel, or `"user"`. `Ecall` is the program's trap with
any number and arguments, `Resume` the way back. In between,

| steps | code |
| --- | --- |
| `SysWrite`, `Write` | `sys_write`: the checks; the copy to the console or into a file |
| `SysPath`, `CopyPath` | `copy_user_path` |
| `Create`, `Open` | the calls of `fs_create` and `fs_open` in `sys_create` and `sys_open` |
| `SysRead`, `Read`, `Key` | `sys_read`; its file part; one pass of the loop of `sys_read_stdin` |
| `SysGetpid`, `SysClose`, `Stop` | `sys_close`; `sys_exit` and the unknown number |

The kernel runs with interrupts masked, and in the shell build with the timer off, so
nobody sees the steps; they are cut where `sstatus.SUM` changes and where one call
of `fs.c` ends, because what can go wrong is between them. The file system is the
model `FileSystem` itself (`FS == INSTANCE`), with its one process.

A user pointer is a record: null or not, and how many bytes from it on the program
may read and may write. This is what `UserRange` shows `vm_user_range_valid` to
find out. A path is a name and its length with the terminator. A descriptor is kept
in two halves because the calls cast it differently: `sys_write` compares 64 bits
with 1 before it casts, `sys_read` casts before it compares with 0. The content of
what is written is any sequence of bytes.

`fault` is set when a step touches user memory that the program may not access so,
or with `SUM` clear; `typed` and `before` remember the keys of a line and the
tables before the call. The code has none of the three.

### Properties

| property | says |
| --- | --- |
| `AccessesChecked` | no access of the kernel to user memory would trap, and none goes where the program may not |
| `SumOnlyWhileCopying` | user memory is open exactly during the copy, whichever way the call ends |
| `FailureIsClean` | a call that returns -1 changed nothing, except a `create` with no free handle, which leaves its empty file |
| `CreateGivesNewFile` | a successful `create` made the file it returns a handle to |
| `LineIsWhatWasTyped` | a line is the printable keys that no later backspace took back, up to the buffer's length |
| `CallsReturn` | every call returns, or parks the machine on purpose |

The exception in `FailureIsClean` is what the code does: `sys_create` is two calls
of `fs.c` and does not undo the first, so that the caller sees an error and, at a
second attempt, another one because the file is there.

`LineIsWhatWasTyped` has a reference definition that knows no count and no buffer: a
printable key is kept unless, between it and some later moment, more backspaces
than printable keys were typed.

### Run and bounds

`Syscall`: two files, two handles, one byte per file, buffers of at most two bytes and
lengths from zero to three (one too many); pointers to nothing, to read-only memory,
to the last byte of a page and to enough memory; paths that exist, do not, and are
too long; descriptors with and without high bits. Up to four keys per line before it
must end, which overfills the buffer with two to spare for backspaces.

Fairness: weak on the kernel's steps, and on the Enter key: whoever types a line ends
it at last. Without that `sys_read_stdin` waits for ever, as it is meant to.

### What is proved

For every limit, pointer, path, descriptor and key. `SyscallProofs` proves `TypeOK`,
`AccessesChecked` and `SumOnlyWhileCopying` from an inductive invariant whose part
`Checked` says what the kernel knows of the arguments at each copy: at `"write"` that
the whole buffer is readable, at `"line"` that the buffer is writable and the line has
not outgrown it. That `fs_read` hands out no more than it was asked for needs the
types of the tables, which the calls of `FileSystem` are therefore shown to keep here
too: the provers cannot cite a theorem of an instantiated module.

A second invariant, `Effect`, is what the call may have done to the tables by each
step; `FailureIsClean` and `CreateGivesNewFile` follow from it. Between the two halves of a
`create` there is exactly one more file than before (`Created`). That the second half
fails only when every entry of the open files is taken is a counting argument
(`NoFdNoEntry`): a process without a free descriptor holds as many entries as there are
descriptors, and there are as many descriptors as entries.

`LineIsWhatWasTyped` defines the line by counting keys, `sys_read_stdin` by moving an index
forth and back. The invariant between them (`LineRead`) looks at the keys from behind:
behind a key that is kept there are as many printable keys as there are backspaces and
kept keys (`Balanced`), so a backspace takes back exactly the last kept key, and no
other; the number of kept keys is `count`, and the key with `r` kept ones up to it is
character `r` of the line. `CountStep` is how a count grows with one more key,
`RankFacts` that ranks are a bijection. Characters behind `count` are leftovers, of which
the invariant says nothing.

Only model-checked: the liveness of `CallsReturn`.

## UserRange: vm_user_range_valid

`Entry` is the function up to its loop, `Loop` one pass, with addition modulo `WORD` and
a `vm_walk` that, as in the code, ignores the bits above those a table tells apart.
An entry that the walk does not reach is the empty set of flags.

`AnswerRight` compares the result with its definition: 1 exactly if every byte of
the range is below the top of the user half and on a valid user leaf with the
permission asked for. `TypeOK` includes that the loop stays in the range; `Returns`: it ends.

The run `UserRange` has four user pages of three bytes, every assignment of no entry,
kernel, read-only and writable entries to them (and tables of entries that are no leaf,
and no table), a kernel half, and twice as many addresses as tables tell apart. The
ranges begin and end at, before and behind every kind of border and wrap around the
word. Three bytes are the least with a byte that is neither first nor last.

### What is proved

`UserRangeProofs` proves `TypeOK` and `AnswerRight` for every page size, word size, page
table and range, with a page size and limits that need only divide and be ordered as
`SizesAssumption` says. The invariant of the loop is that every byte before `current` is
one the program may access. A pass extends it by the rest of the page, because the
bytes of a page share an entry (`SamePage`); the sum of the last page start cannot wrap,
because another page of the range follows it (`NextPageFact`); and a range whose own
last byte wraps is refused before the loop, rightly, since it leaves the user half
(`LastByteFact`). `Returns` is liveness and only model-checked.

## ProcessCreate: booting

### Correspondence with the code

`mem` is the memory the allocator owns: the free list, its counter and the tables that
were made of its pages; `filled` says what the other pages were filled with. The
operators `page_alloc`, `page_free`, `vm_walk`, `vm_map_page` and `vm_translate` are
the functions, with tables of three levels. `Regions` is the list of what
`process_create` maps, in its order; `MapPage` is one page of it, `Stacks` the rest.
`PmmInit` frees one page, and `VmCreate`, `Created` and `Failed` are `kernel_main` around it.
A build is the shell's (one process) or a benchmark's (two, with a working set in the
memory workload).

A failed call keeps what it had allocated, as in the code; `kernel_main` stops
after it. Addresses are page numbers: `linker.ld` aligns every section, so the
alignment checks never fail. The ASID check passes for the pids 1 and 2.

### Properties

| property | says |
| --- | --- |
| `EveryPageOneUse` | every page is free, one table, or filled for one purpose; the counters are exact. The pages of a failed creation stay tables or filled: they are not given back, and not handed out again |
| `UserPagesPrivate` | what a program can reach is its own page, mapped once, never writable and executable; the tests `process_has_private_user_memory` and `process_address_spaces_distinct` of the code hold |
| `AddressSpaceComplete` | a created address space maps exactly what it should, each page with its flags and contents, and the frame starts the program in it |
| `FailsOnlyWhenFull` | creation fails only when no page is left; the isolation check of `kernel_main` passes |
| `CreatedSpacesStay` | an address space does not change while the next is built |

`ContextSwitch` relies on these: that the two page tables are different, hold private
pages, and both map the kernel, its stacks and the tables.

### Run and bounds

`ProcessCreate`: tables of five entries, three levels, and a layout like the real
one: device, user memory and image in root entries of their own, memory running on
into the next. The amount of memory goes from no page to a few more than both
processes of the memory workload need, so that every single allocation is once the
one that fails.

### What is proved

`ProcessCreateProofs` proves `TypeOK` and all five properties for tables of any size from
two entries on, any layout of the image and any amount of memory. What is assumed of the
layout is `LayoutAssumption`: sections in the order of `linker.ld`, each of them possibly
empty but for the user's text, in which the entry lies; device, user stack and working set
below them, in this order; memory from `KERNEL_END` on; everything within reach of the
tables. The sections need not touch, and they need not lie in root entries of their own.

None of the properties is inductive: that a walk does not run into a table of another
process, or into a leaf, depends on how all tables hang together. The invariant `IInv` adds

* `Sound`: every table has a level (`Levelled`): the roots have 2, and an entry of a table
  of level 2 or 1 is empty or refers to a table one level below, and only it does so;
  entries of level 0 are leaves. With the counters it says where every page is (`PagesOf`);
* `LeavesOwn`: a leaf for the program holds a page that was filled, and no two the same;
* `Building`: which pages the table under construction maps: those of the regions
  before, those of the present one before `at`, with flags and contents, and nothing else;
* `Finished`: the same of all regions, for each process that was created, with its stacks.

The work is in `vm_map_page` (`MapFacts`). A walk either fails because no page is left, or
ends at a table which only this walk reaches, having put fresh, empty tables in its way, so
that every other address of every address space is translated as before (`ExtendedLookup`,
`WriteLookup`). This rests on arithmetic: two pages with the same three indices are the
same (`VpnInjective`, from the uniqueness of quotient and remainder). That a page is never
already mapped, so that creation fails for want of memory only, is that regions of one
address space never overlap (`RegionsApart`). `SpacesKept` then only needs that the address
space being built has a root of its own.

## TrapPath: trap_entry.S and trap.c

### Correspondence with the code

`ContextSwitch` takes the saving of a frame as one step and a register file as one
value. Here the assembly is followed register by register: `sp`, `t0`, `t6` and `a0`,
which it uses itself, have their names, and the other 27 are any set `Others`.

| steps | code |
| --- | --- |
| `Swap`, `FromKernel`, `FromUser`, `Save` | `trap_entry`: the exchange with `sscratch`, its two branches, the stores |
| `TrapHandler`, `Advance`, `Stop`, `Return` | `trap_handler`, `syscall_handle`: the cause, `sepc += 4`, the endless loops, the result in `a0` |
| `RestoreCsrs`, `RestoreRegisters`, `RestoreT6` | `trap_restore`: the status registers, the loads through `t6`, `t6` itself and `sret` |
| `UserTrap` | any program, with any registers, traps |
| `KernelFault` | `trigger_store_page_fault`, from C code that has used any part of the stack below the frame |

Nothing in the repository calls `trigger_store_page_fault` any more. It is modelled because
the supervisor branch of `trap_entry`, the test of `SPP` on the way out and the handling
of a store fault are there for it; with `NESTED = 0` the model is the system as it runs.
Compiled C code leaves nothing but `sp` behind, so the way back starts with any
registers. The kernel stack is counted in frames, an address in half words; an
instruction that traps has two of them, or one if it is a compressed store.

### Properties and run

* `TrapsAreTransparent` (of every `sret`): the interrupted code goes on with every register
  as it was, but for the result of a system call in `a0`, at its next instruction and in
  its own mode. It states what `trap_handler` does to a compressed store of a program, too:
  four bytes are skipped, and the instruction behind it is entered in its middle or
  skipped. This is an exception in the statement: the property records it and does not
  rule it out. The shell and the benchmark never fault; `trigger_store_page_fault` is assembled
  without compression for this reason.
* `StackNeverLost`: whenever a program runs, `sscratch` is the top of an empty kernel
  stack; whenever C code runs, it is zero, and the frames lie below each other.

Run `TrapPath`: one other register, three register files in which all registers differ or
all are zero (a program's `sp` may be zero, which must not be taken for a kernel's), two
nested faults, so that a frame is put under a frame that is itself under one.

### What is proved

`TrapPathProofs` proves both for any registers and values, any stack and any depth that fits
in it. The invariant follows the frame of each trap: `Chain`, that frame `i` lies at a known
place (`Place`), below those before; `Kept`, that each frame but the newest holds what its
trap has interrupted, advanced or not; and `Path`, what has been saved or loaded already at
each step of the assembly. A frame is not overwritten by a later trap because it lies
above the stack pointer which that trap comes with.

## Shell: user_shell.c

### Correspondence with the code

`Shell` is a composition: it extends the module `Syscall`, which is its kernel, on the file
system `fs_init` makes, and its calls go through every step there. In place of `Ecall`,
which makes any call with any argument, there are the calls of the shell; the kernel's own
steps (`KernelStep`, `Key`) are taken as they are. It computes while the kernel's `pc` is
`"user"`; `at` is its own program counter, cut at the calls.
`user_syscall3` is the `ecall`. Pointers are those to its stack, to its read-only
strings, and, for `command_memtest`, to what it may not use.

The command buffer is kept byte by byte, with what older lines left in it: `Entered` is
the string up to the first NUL, and that it is the line typed is what there is to show.
`Lowest` is `command_pid`'s loop from the lowest digit, `Digits` turns its digits round, and
`Decimal` in `Commands` is the reference.

### Properties and run

`Terminal` is the promise: banner and prompt, then after each line exactly the answer it
asks for and the prompt again. `ImplementsTerminal` shows that `Shell` implements it,
liveness included: no line is left without its answer. A result of `write` that the shell
ignores, a refused pointer, a byte left from the line before, an answer said twice would
all break it. `NoDescriptorLeft`: at the prompt, no file is open. `ShellTypeOK` includes
that the terminator of a line goes into the buffer.

Run `Shell`: a buffer of four bytes, so lines of up to three characters and keys too many,
of three characters out of which every command is made, so that commands are the
beginnings of others with and without a space and an argument; and all ways to type
them, with backspaces. The one file is longer than the buffer of `cat` and no multiple
of it; its path, another and too long ones are tried. Answers and prompts are one or
two characters. An overlong line ends at the full buffer, as `LineIsWhatWasTyped`
in `Syscall` says, and the shell answers its parts.

Fairness: weak on the program, on the kernel and on the Enter key, as in `Syscall`.

### What is proved

In `SyscallProofs`, for every text, path, file, process number, character set and size of
the two buffers that `SizesAssumption`, `TextsAssumption`, `CharactersAssumption` and
`StringsAssumption` allow: the texts fit into one `write` and the path into one `open`, the
command words are six different ones, of which none begins with `echo ` or `cat `, and a
NUL is no character of a line. The strings in the code are like that.

* `ShellTypeCorrect` and `NoDescriptorLeftCorrect` are the two invariants;
* `TerminalSafety` is the safety part of the refinement (`T!Spec`): every step of the shell
  or of its kernel is a step of `Terminal` or invisible to it;
* `KernelUnderShell` is that what is proved of the kernel for any program holds here too.

They follow from one inductive invariant, `ShellInv`, which TLC finds true on the instance
of the run. Its parts:

| part | says |
| --- | --- |
| `LInv` | what is proved of the kernel. Its lemmas on single steps are shared: `Trap` is any entry into the kernel with a typed frame, and both `Ecall` and the shell's `user_syscall3` are one (`EcallTraps`, `SyscallTraps`) |
| `Files` | the file of `fs_init` is there and is never changed, as the shell writes to the console only |
| `LocalsOK` | the types of the locals |
| `Somewhere` | a clause for each place of the shell (`AtBanner` to `AtClose`): which call it waits for, how far the kernel is with it, what the terminal shows (`Said`, with the write that is under way), and which descriptor is open (`NoneOpen`, or `OneOpen(n)` with `n` bytes read) |

The clauses are what makes the invariants inductive: that `cat` leaves no descriptor open
needs that its descriptor is the one entry in use, and that needs that none was open when
`open` was called; that a line is answered as it should be needs that `Entered` is the
line (`Terminated`), whatever else is in the buffer, and this needs what the kernel
has stored (`LineGiven`, from `LineRead` of `Syscall`). In `cat`'s loop, what is shown is the
beginning of the file as long as the offset of the open file (`AtCat`, `AtCounted`), so nothing
is left out between two reads or said twice.

Which command a line is taken for is `Answers` with `WordsDiffer` and `PrefixesDiffer`: under those
assumptions the tests exclude each other. That `Digits` is `Decimal` (`DigitsDecimal`)
goes by the definition of both functions on smaller numbers. The existence of such functions
is induction over data, which the library offers only with an operator as a parameter; here
it is done with the least number for which an approximation is missing
(`Approximated`, from the well-foundedness of the naturals).

Only model-checked: the liveness of `ImplementsTerminal`, that the whole answer comes at last.

## Measurement: research.c

Time passes between any two steps (`KernelTick`, `UserTick`); a stay in the kernel takes at
most `HANDLER` ticks, and `ENTRY` of them until `trap_handler` reads the time for the next
quantum. These two are bounds of the model, about the speed of the machine. The
actions are the points at which the code reads the time, sets the timer, or records:
`scheduler_start`, the timer branch of `trap_handler`, `scheduler_on_timer` up to the
reading before `satp` is written, and the one after, `research_print_summary`.

| property | says |
| --- | --- |
| `CostsFit` | the summary's switch ticks are those of the measured switches, the first activation excluded; their maximum and sum fit to each other and into the elapsed time |
| `QuantaKept` | a run takes its number of quanta, but for the entries and a handler at each end: what handlers cost is not added up |
| `TurnsAreWhole` | a program is preempted only when what its quantum has left for it is over |

The run has four switches, quanta of four ticks and handlers of up to three, in all
speeds. All three are proved in `MeasurementProofs` for every quantum, number of switches
and bound, also for handlers that outlast a quantum, where the last two say less. The
invariant puts the timer between two bounds that move by a quantum with every interrupt
(`Clock`), and the recorded ticks between the start and the present, without overlap
(`Costs`).

## Experiment: run_experiments.py

### Correspondence with the code

The runner, the emulator it has started, the clock and the pipe are actors of their own.
`Build` is `build_condition`, `Launch` to `Poll` the loop of `execute_kernel`,
`Terminate` and `Reap` `terminate_process`, `Rejection` `parse_result` and
`validate_result`, `Record` the rest of the loop of `main`. A kernel prints its lines in
halves: what left the emulator (`emitted`), what left the pipe (`fetched`) and what
`readline` returned (`taken`) are numbers of halves, so `fetched - taken` is what lies in
the buffer of the text stream, which `select` does not see. At its end the output may be
cut anywhere, so that half a row counts as nothing, as a cut row or as a whole one.

Whether a row passes `validate_result` is chosen with the launch: what the kernel prints
is `ContextSwitch`'s and `Measurement`'s matter.

### Properties

| property | says |
| --- | --- |
| `ResultsFollowTasks` | the rows in `results.csv` are those of the tasks so far, in their shuffled order, without a gap; at the end every task has its row |
| `RowIsOfThisRun` | a row that is recorded was printed by this run's kernel, to its last character |
| `NoEmulatorLeft` | no emulator runs while the runner parses, records or starts the next |
| `Ends` | the experiment ends, whatever emulators do, unless one lives on and stops for ever inside a line it has begun |
| `ReportedMissingIsMissing` | when a run times out for want of a row, there is no row: **violated** |

### The finding

`MissingRow` shows a row that has been printed and fetched, and the runner giving up on it
with "benchmark did not emit CSV row" (`run_experiments.py:327`). When the row comes in one
piece with an earlier line, `readline` takes both out of the pipe and returns the first;
`select` then waits for a pipe that stays empty, because the kernel prints nothing after the
row. It costs the whole experiment, not only the run, though it never records anything
wrong. Reading until the buffer is empty before the next `select` would do away with it.

### Runs and bounds

`Experiment` has two conditions and two runs of each, in every order, so that a result
follows one of its own and of another condition; three lines, the first without
meaning. `MissingRow` needs one task.

Fairness: weak on the runner and on the clock. Nothing is assumed of the emulator: it may
stop for ever, between two lines or inside one, or die. `readline` blocks, without regard
to the deadline, when the output stops inside a line, and `Ends` says that nothing else
keeps the experiment from its end. A kernel prints a line without waiting for anything,
so it takes an emulator that hangs to get there.

### What is proved

`ExperimentProofs` proves the first three for any number of runs, any conditions and any
output with a header before a last row. That every task has its row at the end is
a counting argument: an injective list as long as the set of tasks holds all of
them (`AllTasks`). Only model-checked: `Ends`.

## Not modelled, and why

* boot code, console: straight-line or pure I/O. What the screen shows of the keys while
  they are typed belongs to it;
* the self test in the shell build's branch of `scheduler_on_timer`: nothing calls
  `scheduler_start` in that build. (Nothing calls `process_mark_syscall_complete`
  either, so its verdict could only be `[FAIL]`.)
* the wrap of the 64-bit time register, after 58000 years;
* in the shell, the loop behind `user_exit`, which never returns; `cat`'s way out after
  a failed read is modelled, but no read of an open file fails;
* in the runner, the interrupt from the keyboard, `Popen` without a stdout, and the
  metadata and log files, which nothing reads back;
* statistics and plots: arithmetic over finished files; the smoke test: a fixed sequence of
  shell commands.

Type invariants and the other parts of the inductive invariants are proved for all
constants; the run of `ProcessCreate` checks its own besides.

## Plan

Every safety property, action property and refinement that a run checks is proved for all
constants, the refinements in their safety part. What remains with TLC is liveness
(`Completes`, `TakeTurns`, `CallsReturn`, `Returns`, `Ends`, and with `ImplementsTerminal` the end of
every answer): it rests on fairness and `ENABLED`, which the provers do not handle.

What could come next, in this order:

1. Larger instances of `Shell`: two files, and lines longer than two commands.
2. `Shell` on the trap path of `TrapPath`: the registers of the shell are saved and restored
   there, a call's result is one word here.
