# TLA+ models of riscv-mos

riscv-mos is a port of the MOS teaching kernel to 64-bit RISC-V: one hart, Sv39
paging, a round-robin scheduler driven by the SBI timer, and envs (processes)
that boot creates from images linked into the kernel. This directory holds
TLA+ models of its parts, TLC configurations that check them on small
instances, and TLAPS proofs for instances of every size.

## The system

| part | source | state | operations |
|---|---|---|---|
| page allocator | `kern/phypage.c` | `kmem.freelist`, the first word of every free page | `kinit`/`freerange`, `kalloc`, `kfree` |
| page tables | `kern/vm.c` | `kernel_pagetable`, one tree of pages per env | `walk`, `lookup`, `mappages`, `uvmunmap`, `uvmalloc`, `uvmdealloc`, `freewalk`, `uvmfree`, `kvm_copy_to_user_pagetable` |
| env table | `kern/env.c` | `envs[]`, `env_free_list`, `asid_bitmap`, the counter of `mkenvid` | `env_init`, `env_alloc`, `env_create`, `env_free`, `env_destroy`, `envid2env` |
| scheduler | `kern/sched.c`, `kern/timer.c` | `env_sched_list`, `curenv`, `count`, `ticks` | `schedule`, `do_timer`, `timerinit`, `env_run` |
| traps | `kern/kexcentry.S`, `genex.S`, `env_asm.S`, `traps.c` | `sscratch`, `env_tf`, the frame at `KSTACKTOP - 1`, `satp` | `SAVE_ALL`, dispatch, `handle_*`, `RESTORE_ALL`, `env_pop_tf` |
| boot | `init/init.c`, `init/start.S` | the stack of `rv_main` | creation of two envs, `timerinit`, the idle loop |
| libraries | `lib/*.c`, `include/queue.h` | none | ELF loading, `printk`, memory and string functions, lists |
| machine layer | `include/registers.h`, `include/stackframe.h`, `kern/sbi.c`, `kern/machine.c` | `sstatus`, `sie`, `sip`, `stvec`, `satp`, `sscratch` | accessors of the control registers, trap frame macros, SBI calls |
| host tools | `tools/` | files of the build host | `fsformat`, `bintoc`, `readelf` |

How they interact: `rv_main` gives memory to the allocator (`kinit`), builds the
kernel's page table, creates two envs and starts the timer. Each `env_create`
takes a slot, a page table (a copy of the kernel's), an id and an ASID, maps the
image and puts the env at the head of `env_sched_list`. From then on everything
is driven by the timer interrupt: `SAVE_ALL` saves the registers where
`sscratch` points, `handle_s_int` calls `schedule`, which re-arms the timer,
rotates the list and calls `env_run`; that copies a frame into the previous env,
switches `satp` and resumes the next env through `RESTORE_ALL`. Supervisor
interrupts are off inside a trap, so the only interleaving is between the timer
and user code, the idle loop or the last instructions of `rv_main`.

What is hard here: state that survives from one `schedule` call to the next
(`count`, the list, `curenv`); intrusive lists whose corruption shows much
later; memory that runs out in the middle of an operation made of many
allocations; an interrupt between any two steps of `rv_main`, which is then
never resumed; the hand-over of `sscratch` between traps; handlers whose stack
lies inside `envs[]`; ids and slots that are reused. `PROJECT.json` lists these
hazards at their lines.

## Modules

| module | models | composed with |
|---|---|---|
| `PagePool` | what an allocator of pages promises | |
| `PhysPages` | `phypage.c`: the list through the pages' first words | implements `PagePool` |
| `AddressSpace` | what page tables promise: partial maps, all-or-nothing growth | |
| `Vm` | `vm.c`, `env_setup_vm`, `load_icode_mapper`, the memory part of `env_free` | implements `AddressSpace`; uses pages as `PagePool` allows |
| `EnvTable` | slots, ids, ASIDs, creation and death of envs | |
| `Sched` | scheduler, timer, `env_sched_list` | |
| `Queue` | the macros of `queue.h`, on pointers | its `seq` is what `Sched` and `EnvTable` use as lists |
| `ElfLoad` | `load_icode`, `elf_load_seg`, byte by byte | |
| `TrapSwitch` | trap entry and exit, context switch, boot's last steps | extends `Sched` |
| `Boot` | `rv_main` and the first interrupt, on the control registers | |
| `Frame` | `SAVE_ALL` and `RESTORE_ALL`, register by register, and `print_tf` | |
| `StringOps` | `lib/string.c`, round by round of its loops | |
| `Format` | `printk`: `vprintfmt`, `print_num` and the console | |
| `FsImage` | `tools/fsformat.c`: the disk image | |
| `HostTools` | `tools/bintoc.c`, `tools/readelf` | |
| `MCUnits` | runs the modules that call no other part, one of them per behaviour | extends `Queue`, `ElfLoad`, `StringOps`, `Format`, `Frame`, `FsImage`, `HostTools` |
| `Tally` | the sum of a function over a set, in a form that can be reasoned about | used by `Sched`, `EnvTable` |
| `PhysPagesProofs`, `VmProofs`, `SchedProofs`, `EnvTableProofs`, `QueueProofs`, `TrapSwitchProofs` | theorems about the module of that name | |
| `UnitProofs` | theorems about `Boot`, `StringOps`, `HostTools`, `ElfLoad`, `Frame`, `FsImage` | |
| `TallyProofs` | lemmas about `Tally`, division and the rounds of a loop | used by `SchedProofs`, `EnvTableProofs`, `VmProofs`, `UnitProofs` |

Definitions carry the names of the functions they model; the map in
`PROJECT.json` gives the lines. Auxiliary variables (marked so) are read by
properties only.

* **PhysPages.** `next` is the first word of every page. It is the link while
  the page is free and belongs to the holder otherwise: `HolderWrites` may put
  anything there. One round of `freerange` is one step, so properties also hold
  in the middle of boot. `chain` is the list as a sequence.
* **Vm.** A function of `vm.c` is an operator from a memory record (entries,
  free pages, panic) to a memory record, a loop is `For` over its rounds, and the
  recursion of `freewalk` is written out for the three levels; the actions
  are the calls that the rest of the kernel makes, or, for `uvmalloc` and
  `uvmdealloc`, which have no caller yet, the calls their comments describe.
  Entries keep what the code tests: valid, pointer or leaf, accessible to user
  mode. `kalloc` takes the least free page; free pages are cleared and
  interchangeable, so the choice shows nowhere. `lost` collects the pages
  behind the two leaks the code has (the tables cut off by the self-mapping,
  `env.c:183`; a page whose mapping failed, `env.c:274`).
* **EnvTable.** Memory is a number of free pages. A copy of the kernel's page
  table takes `KTABLES + 1` pages (for the count, the tables behind the
  self-mapping are part of the env), the image three. `env_create` is split by
  outcome: no page, no tables, no ASID, success. `uvmunmap_returns` is the set
  of outcomes `uvmunmap` may have in `env_free`.
* **Queue.** An entry is a next pointer and the address of the pointer that
  points to the element. Since that pointer is the only one of its struct, its
  address is named by the struct. `seq` is the list as its callers see it:
  callers insert what is on no list and remove what is on one. Removed elements
  keep their pointers, as in the code.
  `LIST_FOREACH`, `TAILQ_FOREACH` and `TAILQ_FOREACH_REVERSE` are relations
  between a head and the elements a loop visits.
* **ElfLoad.** The file header is a size, the four bytes of the magic number and
  `e_type`, tested by `elf_from`; program headers have a type, flags, an address
  and two sizes. Memory is a map from addresses to bytes, each of which says where
  it comes from: the file, a cleared page, or a page that is not the env's; `rw`
  has the pages mapped writable. One
  call of the mapper is one step. Pages are not counted; the pool may be found
  empty at any call and remains so. `Vm` has the page tables under the same
  mapper, `EnvTable` the count.
* **Sched.** A call of `schedule` is one step. `timer` is off, armed or pending.
  `env_destroy` calls `env_free`, whose `uvmunmap` panics as coded
  (`vm.c:168`). `uvmunmap_returns` selects the coded behaviour (FALSE) or the
  one with a `uvmunmap` that returns (TRUE), so that the list operations behind
  it are checked too. `Sched` assumes that only the code it models writes
  `struct Env`, as the sources intend; `TrapSwitch` adds the writes through the
  handlers' stacks, which make `env_run` panic (`trap_status`), so what `Sched`
  says of a long execution is about the scheduler, not about the whole kernel.
  `env_destroy`, `schedule(1)` and `envid2env` have no
  callers at this commit (there are no system calls); they are modelled as
  operations that may come at any time. `env_runs` is not read and left out.
* **TrapSwitch.** A context is which program is interrupted, at which of two
  steps, and its stack pointer. A trap from user mode saves to `env_tf` and
  runs its handler on the bytes below: over the neighbour in `envs[]`. What
  becomes of the neighbour's status follows from the frames of the unoptimised
  build (`mos_objdump`): the upper half of a saved `s0`, which is zero, lands on
  `env_status`. Only the two envs of `rv_main` are modelled.
* **Boot.** `rv_main` is the sequence of its steps that write memory or a
  register, and each is an action. An interrupt is taken when `sip`, `sie` and
  `sstatus` allow it, and `rv_main` is not resumed after it. The behaviour ends
  with the first interrupt: `curenv` is NULL then, so `env_run` copies no frame,
  and no handler's stack has been inside `envs[]` yet, so its test of the status
  passes. The interrupts that follow are those of `TrapSwitch`, where `env_run`
  does stop the kernel after a while. Registers are numbers and their bits are
  tested as the code does.
* **Frame.** What the registers may hold is a constant; in the run they all
  differ, so one saved or restored in the wrong place shows. The trap comes from user mode or from the kernel; between
  `SAVE_ALL` and `RESTORE_ALL` a C function leaves anything in the registers.
* **StringOps.** A call is an initial state, a round of a loop an action. The
  memory has three words; every alignment and size is tried. `Expected` says
  what each function is for without a loop.
* **Format.** A format is built from pieces whose meaning (`Meaning`) is defined
  without `vprintfmt`; the parser sees characters and a list of arguments only.
  An `int` has 4 bits and a `long` 6, so that the lowest number, the sign
  extension of `%x` and the cut of a long are met.
* **FsImage.** `disk` has types, Files, links and contents of the blocks; the
  tree of the host is chosen step by step (`write_file`, `write_directory`,
  `closedir`). Behaviours end where the array `disk` does, and where
  `create_file` returns a File in an index block. `swapped` are the words whose
  bytes have been exchanged; exchanging them again takes them out.
* **HostTools.** Arguments of `bintoc` are options and names; files may be
  missing, empty, short or too large. `readelf` sees a header and a table of
  sections.

## Runs

Passing runs:

| run | checks | bounds |
|---|---|---|
| `phys_pages` | list is exactly the free pages; implements `PagePool` | 4 pages, all orders of calls, all words written by holders, frees of stray addresses |
| `sched` | list and status, slice accounting, waiting time, order, yield, no starvation | 3 envs, priorities 1-3: all pairs of unequal and equal priorities, rotations of length 3; no symmetry, since liveness is checked |
| `env_table` | slots, ASIDs, ids, permissions, page counts, the entry behind `envs[]` | 4 slots, 2 ASIDs, 7 allocations, 8, 11 or 32 pages, `uvmunmap` as coded or returning: each resource runs out first in some behaviour, slots are reused |
| `trap_switch` | `sscratch`, `curenv` and `satp` in step; overwritten envs never resume, and `env_run` panics at no other env | the 2 envs of boot, priorities 1-3 |
| `vm` | one owner per page, kernel mappings shared, implements `AddressSpace` | 2 envs, tables of 2 entries and roots of 4 (the user's part, the kernel, `UVPT` with `envs[]`, and one above), pages of 2 bytes, 11 to 26 pages so that memory ends in the copy, in `walk`, in a range, or not at all |
| `units` | pointers run through the elements both ways and the loops visit all; bytes, permissions and refusals of the ELF loader; string functions; output of `printk`; registers after a trap; blocks, files and bitmap of the disk image; output of `bintoc` and `readelf` | see `Units.cfg`: 3 elements, a list and two tail queues; pages of 3 bytes, up to 2 segments of up to 4 bytes at 3 addresses, aligned or not, file part empty, short or full, apart, adjacent or overlapping; 12 bytes of memory; widths 0, 3 and 12; 14 blocks of which two are the bitmap, files of up to 4 blocks, 5 files in 2 levels of directories; 4 arguments |
| `boot` | the first interrupt does not stray, nothing `rv_main` had to do is missed, and the interrupt does come and leads to an env | the 2 envs of `rv_main`; every state of the registers OpenSBI may leave, an interrupt between any two steps |

Runs that show where code and comments disagree (each is a finding in
`PROJECT.json`):

| run | the comment | what happens |
|---|---|---|
| `env_table_load` | `env.c:278`, segments are loaded | failures are ignored and the env is scheduled |
| `trap_context` | `env.c:403`, the context is saved first | the wrong frame is saved |
| `trap_status` | `env.c:19`, list and status agree | the handler's stack clears a status |
| `vm_unmap` | `vm.c:159`, npages are removed | the second page panics |
| `vm_unaligned` | `env.c:240`, a page is loaded | two pages are mapped |

Other disagreements met while modelling, which the models contain but no run
is spent on:

* `env_init` links `&envs[NENV]` into the free list (`env.c:161`; the comment at
  157 speaks of the elements of `envs`). `PhantomNeverAllocated` shows why this
  has done no harm.
* `env_alloc` stores the stack pointer in `regs[29]`, MIPS's sp (`env.c:230`);
  x2 is 0 in `FreshFrame`.
* `kvm_copy_to_user_pagetable` does not return -1 on failure (`vm.c:258`): its
  clean-up unmaps more pages than it mapped and panics (`Copied`).
* The self-mapping overwrites the root entry of `ENVS` in the env's copy of the
  kernel's table (`env.c:183`, `SelfMap`); `KernelShared` says where that entry leads to instead.
* A segment that begins within a page and does not end in it is not loaded: the
  mapper's first call maps the page behind as well, and the next one panics with
  "remap" (`elfloader.c:39,47`, `ElfLoad`), where the comment at
  `elfloader.c:22` promises a negative result.
* `create_file` compares `i <= NDIRECT` (`fsformat.c:218`), while
  `save_block_link` fills `f_direct[nblk]` for `nblk < NDIRECT`: the entry behind
  a full direct part is put into the index block. The comment at 202 promises "a
  pointer to an unused 'struct File'". `FilesReadBack` says how far directories
  are right.
* `next_block` hands out blocks behind `NBLOCK` (`fsformat.c:137`); the test of
  the name's length in `write_directory` looks at a byte `strncpy` never writes.
* `bintoc` leaves the initialiser open for an empty file (`bintoc.c:73-75`).
* `readelf` takes a 64-bit file for a 32-bit one (`EI_CLASS` is not looked at),
  and its `fread(...) < 0` is never true.
* `%u` and `%x` of a negative `int` print it extended to a `long`
  (`print.c:76-142`); `strchr(s, 0)` returns NULL (`string.c:74-81`).
* `print_tf` prints as `$0` whatever the stack held, as `SAVE_ALL` does not store
  x0 (`STALE` in `Frame`), and of every register the low 32 bits only (`%08x`).
* `kalloc_check`, whose call is commented out, frees four pages that it never
  allocated and would make the free list cyclic (`phypage.c:74-80`).

Deadlock is checked where the configuration does not say otherwise; it says so
where a panic (`panic` loops), the loader's return, the first interrupt (`boot`)
or a bound ends the run.

**Fairness** is used by `sched` and `boot`. In `sched`, weak fairness of `timerinit` (boot
runs straight through), `TimerExpire` (every `schedule` re-arms the SBI timer,
`timer.c:22`) and `TimerInterrupt` (interrupts are enabled in user mode and in
the idle loop, and no handler blocks). Yields and deaths are not assumed. In
`boot`, weak fairness of the next step of `rv_main` (the hart executes), of
`TimerExpires` (the firmware's timer runs once set) and of `TimerInterrupt` (an
interrupt that is pending and enabled is taken).

## Proofs

All theorems hold for every value of the constants that satisfies the named
assumptions.

* **PhysPagesProofs** (`HeapAssumption`: the heap is page-aligned and does not
  begin at 0). The inductive invariant is `TypeOK`, `FreeListSound` and the range
  of the loop variable: the list is linked along `chain`, `chain` has no
  repetition and consists of the free pages. Each part is needed for the others:
  pushing a page keeps the list free of repetitions only because the page was
  held or not yet given to the allocator, and a holder's write leaves the list
  alone only because held pages are not on it. Theorems: `TypeCorrect`,
  `ListSound`, and the refinement `ImplementsPool`.
* **VmProofs** (`VmAssumption`: the sizes are positive, the kernel begins at a page
  boundary below the root entry of `envs[]` and `UVPT`, segments and heaps end
  below the kernel, as in `mmu.h`). The theorems `VmTypesHold`,
  `PagesHaveOneOwner`, `KernelIsShared`, the refinement `TablesImplementSpaces`,
  and the action properties `EnvFreeNeverReturns` and `HeapShrinksByOnePage` have
  the hypothesis `Aligned`: segments begin at page boundaries. It is needed: the
  run `vm_unaligned` shows what a segment that does not does to its env, and its
  second page is a physical page somebody else may hold. Images linked by the
  repository's script are aligned.

  The page tables are a graph in memory, and the reason that nothing goes wrong is
  that it is a forest. The proof names the forest: a ghost gives every page its
  role (free, lost, root, middle table, low table, data, struct Env, or held by
  the call that is running) and every page of a tree the entry above it. `Shape`
  says that memory and ghost agree: an entry of a root points to a middle table
  whose ghost entry is this one, and so on down, and no two pages have the same
  entry. The inductive invariant `VmInv` is `VmTypes /\ (Alive => VmWorld)`, where
  `VmWorld` says that some ghost fits: the roots are the kernel's and the envs', the
  lost pages are those of `lost`, the structs are those mapped at `ENVS`, the
  heap of every env is mapped, and its kernel part is a copy.

  One lemma per function of `vm.c` then says, for any ghost, which ghost fits
  afterwards and how the map from virtual pages to entries (`Ent`) of each root has
  changed: `kalloc` turns a free page into a held one, `walk` grafts held tables
  into the tree and changes no map, `mappages` changes one entry, `uvmunmap` clears
  one and frees its page, and `uvmalloc` either adds all its pages or leaves
  the map as it was, which is where a failure in the middle of `walk`
  (tables stay, data pages go) has to be told from one before it. Loops go by
  induction over their rounds, stated without an operator parameter (`Rounds`: a
  set of rounds that has 0 and with each its successor has all). That `env_free`
  panics is a theorem, not an assumption: `uvmunmap` comes to the same
  entry in its second round and finds it cleared.
* **TallyProofs.** `BoundedWait` and `PagesNotInvented` add up a function over a
  set of envs. A sum written as a fold needs an induction over data, which the
  provers cannot do, so `Tally` writes it as the size of a set of numbered parts;
  the lemmas (a member that comes or goes adds or takes its own value, more members give no
  smaller a sum, only the members' values count) follow from the library's facts about
  cardinalities.
* **SchedProofs** (`SchedAssumption`: finitely many envs, as `envs[]` is an array;
  positive priorities). The invariant adds to
  `RunnableIffQueued`, `CurenvIsFirst` and `SliceAccounting` that runnable envs have a priority from `PRI` and that nothing runs before
  `timerinit`. Lemmas say what removal and insertion do to a list without
  repetitions. Theorems: `ListIsRunnable`, `TurnsAreExact`,
  `SchedTyping`, and the action properties `QueueOrder` and `YieldWorks`.
  `RoundRobinBound` needs a second invariant: what an env has waited is covered
  by the whole turns of the envs that do not come before it on the list, and the
  part of its turn that the running env has had (`WaitsCovered`). A rotation moves
  one env, whose turn is over, from before it to behind it; a dead env stays among
  those behind, as its slices were waited for; envs are created before anybody
  waits.
* **TrapSwitchProofs** (`TrapAssumption`: the two envs of boot; priorities are
  any). The invariant of `SchedProofs` does not hold here, since handlers' stacks
  overwrite `env_status`; what remains of it is `SchedShape`. The rest is needed
  together: the frame a trap saves to is curenv's because `sscratch` names it, and
  `env_run` resumes the right program because every user context in an `env_tf`
  is that env's own (`FramesOwned`) and the frame at `KSTACKTOP - 1` never holds
  one; an overwritten env has status FREE (`SmashedAreFree`), which is what
  stops it; and an env on the list that is not RUNNABLE is an overwritten one
  (`QueueIntact`), so nothing else stops the kernel in `env_run`. Theorems:
  `TrapTyping`, `ScratchIsRight`, `RightProgramRuns`, `SmashedEnvsStop`,
  `PanicsHaveCause`.
* **EnvTableProofs** (`TableAssumption`: NASID <= NENV, and fewer allocations than
  make the counter of `mkenvid` wrap). The invariant adds that
  the phantom entry is the last of the free list: if an ASID is free, fewer than
  NENV envs live, so the head of the list is another entry. Theorems:
  `TableTyping`, `Partition`, `AsidsOwned`, `PhantomHarmless`, `PagesAccounted`
  (free pages and a `Tally` of the live envs'), and `IdsNameTheirEnv`, which
  rests on `IdsInv`: every id given out is `mkenvid` of a counter value used once
  and of a slot, so that two ids differ (division with a remainder) and a slot
  reused has another id.
* **UnitProofs.** `BootIsComplete` (any number of envs): which step is where in
  `rv_main` is found first, then the invariant says what has been done at each
  step, that `sie` is set from the last but one on, and that an env runs only with
  a timer set or pending. `StringsAreExact` (any size of word, byte, memory and
  string): `StrInv` has an invariant for each loop; the piece a round of `memcpy`
  copies is read before it is overwritten as long as dst is not inside src
  (`CopyPiece`), and the string loops stop because the string ends (a least NUL
  exists, by well-foundedness of < on Nat). `ToolsAreExact` (any number of
  arguments, any file): no option of `bintoc` is another one's value, since the
  loop is past both; the C text grows by two tokens per byte; `readelf` meets the
  section headers at their places.

  `ElfLoad` (`ElfAssumption`: segments end two pages before the address
  space does): a call of the mapper gives memory to pages that have none and
  changes no other (`MapperStep`), so what is in place stays there. The invariant
  adds which page `elf_load_seg` asks for next, with the case of a segment that
  begins within a page, where it may ask for a page again; that pages are mapped
  as a whole; and for which segment each page was mapped. Theorems:
  `CopiesStayInPage`, `BytesInPlace`, `AlignedImagesLoad`, `NothingElseMapped`.

  `Frame` (`FrameAssumption`: registers hold numbers, and the two stack pointers are
  not 0): `TrapsReturn`. The invariant says for every step between `SAVE_ALL` and
  `sret` which registers are saved in the frame at sp and which are those of the trap.

  `FsImage` (`FsAssumption`: a bit of the bitmap belongs to one word and byte, an
  index block has more pointers than a File, the bitmap fits on the disk). In the
  program a File's blocks are pointers, some of them in an index block, and
  `create_file` finds them by `f_size`. The invariant `FsInv` is about a count of
  blocks for every File (`Counts`): the first so many pointers are blocks taken
  before `nextbno`, of the type their File wants; no block is met twice, as a
  pointer or as an index block, and none is missed. Files are used from the front
  of directory blocks, have different names, and what the host has had written is
  still there. A File that gets one block more (`Grown`) and a File that
  gets its name (`Redone`) have lemmas of their own, of which the steps are put
  together. The bitmap and the order of bytes need besides only what
  `init_disk` left (`ImageInv`). Theorems: `ImageOwnsBlocks`,
  `ImageHoldsFiles`, `ImageIsExact`.
* **QueueProofs** (`StructAssumption`: elements and heads are different structs).
  `TypeOK /\ ListsSound` is inductive: a macro finds its way by the pointers, so
  the order of the elements, forwards and back, and their being on one list
  only, are all needed at each step. The owners of a list are its head and its elements,
  in order; `InsertSound`, `RemoveSound`, `ResetSound` and `ConcatSound` say what
  an operation behind an owner does, and one step per macro shows which owner
  its pointers lead to. Theorems:
  `ListsStaySound`, `LoopsReachAll`.

Only model-checked: liveness (`NoStarvation`, `FirstEnvRuns`), which is out of the
prover's reach, and `FormatExact`: the digits of a number are a recursive
definition, and what it computes for every number needs an induction over data.

## Not modelled

* `kalloc_check`, a self-test whose call is commented out.
* The machine-mode accessors of `registers.h`, which nothing calls; most of
  `include/elf.h`, a copy of the C library's header of which a handful of types
  and constants are used.
* `user/include/fs.h`, which is missing: its numbers are constants of `FsImage`.
* Segments whose addresses wrap.
* Hardware: TLB and `sfence.vma`, caches, instruction lengths (`do_ebreak` adds
  2), the misaligned superpage that the self-mapping is to the MMU, the size of
  the machine, and the `a1` that the `ecall` of `sbi.c` changes without saying so
  to the compiler.
* The wrap of `mkenvid`'s counter and priority 0.

## Plan

1. `EnvTable`: a run through the wrap of the id counter; `Sched` with priority 0.
2. The composition of `Vm` and `EnvTable` through `env_create`.
