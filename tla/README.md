# A verification project for POS_C9

POS_C9 is a small 32-bit x86 kernel: physical and virtual memory managers,
paging, a keyboard driver and a shell that runs in the kernel's main loop. It
runs on one processor. The only concurrency is between that loop and interrupt
handlers; nothing is persistent. This directory has TLA+ models of its parts,
configurations that check them with TLC, and proofs that TLAPS checks. All line
numbers are those of the files under `src/`.

## The system

| Part | Source | State | Operations | Who calls it |
|---|---|---|---|---|
| boot | `as/boot.as`, `kernel.c:12-76` | boot page directory with one 4 MB page | `_loader`, `kernel_main` up to its loop | GRUB |
| physical memory manager | `pmm.c`, `bitmap.c` | one bitmap, a bit per frame | `pmm_initialize`, `alloc_frame`, `free_frame` | boot, paging, `mapTest` |
| paging | `paging.c`, `as/paging.as` | page directory and tables in memory, `kernel_page_directory`, CR3, TLB | `paging_initialize`, `map_page`, `unmap_page`, `virt_to_phys`, page fault handler | boot, faults, shell |
| virtual memory manager | `vmm.c` on `list.c` | lists of free, used and unused nodes at 0xC0400000 | `vmm_initialize`, `malloc`, `malloc_align`, `malloc_above`, `free` | boot, initrd, shell |
| keyboard | `keyboard.c` | buffer of 4096 characters, shift state | interrupt handler, `keyboard_flush` | IRQ 1, main loop |
| terminal | `kernel.c:99-337` | line buffer, its length, how many characters are echoed | `terminal`, `kernel_keyboard_handler` | main loop, keyboard |
| screen | `vga.c` | output buffer, cursor, video memory | `put_*`, `vga_buffer_put_*`, `vga_flush` | everything |
| interrupt dispatch | `isr.c`, `irq.c`, `idt.c`, `as/isr.as`, `as/irq.as` | table of handlers, IDT | `register_interrupt_handler`, `isr_handler`, `irq_handler` | processor |
| timer | `timer.c` | tick counter | handler, `get_tick` | IRQ 0, shell |
| initial RAM disk | `initrd.c` | header count | `count_headers`, `get_size` | boot |
| strings, memory, ports, GDT | `string.c`, `memory.c`, `port.c`, `gdt.c` | none | pure functions, single instructions | everything |

`fs.c` and `task.c` only include their headers.

How the parts interact:

* Paging takes frames from the physical memory manager: one for each page that
  faults, one for each page table. It never takes pages back; only `map_page`
  returns a frame, the one it cannot use for a table (`paging.c:306-311`).
* The virtual memory manager never asks for memory. It hands out *addresses*
  that the tables leave unmapped, and the first access faults the page in.
* The keyboard interrupt fills a buffer; the main loop hands it to the terminal
  by a callback, and so does the interrupt handler itself when the buffer is
  full. The terminal evaluates the line and echoes through the screen's buffer,
  which the main loop flushes. Commands print past that buffer.

Which behaviours are hard:

* **Interrupts between any two steps of the main loop.** `keyboard_flush` reads
  a length before it disables interrupts; the handler may empty the same buffer.
* **Caches of the processor.** The tables change in memory and the TLB does not
  follow; `map_page` edits page tables through addresses that those same tables
  translate.
* **Long sequences of calls.** The free list is split, merged and refilled by
  insertion next to a neighbour, on pointers; nodes are recycled.
* **Limits and rounding.** Memory maps that are not aligned to frames, 64-bit
  addresses, sizes near 2^32, frames running out, buffers running full,
  16-bit counters that wrap.

There are no messages, crashes with recovery, timeouts or retries.

What makes each part correct:

* heap: blocks never overlap, nothing leaks, free always works, an allocation
  fails only when there is no room, all loops end;
* lists: the same sequence from both ends, each operation changes it as its name
  says;
* frames: only usable ones are handed out, each to one holder at a time;
* paging: to running code memory is flat, pages keep what is written to them, the
  kernel's own mapping never changes, and no stale translation is ever used;
* keyboard: room for every key, no key twice or out of order, no code left
  unread, letters shifted as the shift keys are held;
* interrupts: each is acknowledged to its own controller and served in the end;
  the boot reaches the main loop whatever interrupts it;
* terminal and screen: the line that is shown is the line that is run, the screen
  shows the end of what was written, and a number that is read or shown is the one
  that is meant.

`PROJECT.json` lists the hazards, each at its line with the properties that would
catch it going wrong, or a note why none does.

## Modules

| Module | Models | Lines of code |
|---|---|---|
| `Vmm` | the heap: scan, `malloc`, `free`, compaction | `vmm.c` |
| `Heap` | what the heap promises: an exact first fit over the free addresses | abstract |
| `VmmProofs` | proofs about `Vmm` | |
| `DataLemmas` | lemmas that all proofs share: sequences, remainders, folds | |
| `List` | the pointers of the linked lists | `list.c` |
| `ListProofs` | proofs about `List` | |
| `Bitmap` | operations on a bitmap | `bitmap.c` |
| `Pmm` | the physical memory manager as operators on a bitmap | `pmm.c` |
| `PmmCalls` | `Pmm` with callers that hold frames | `pmm.c`, callers |
| `FrameAllocator` | what they promise: each frame in one place | abstract |
| `PmmLemmas`, `PmmProofs` | lemmas on `Bitmap` and `Pmm`; proofs about `PmmCalls` | |
| `Paging` | tables in memory, TLB, fault handler; uses `Pmm` | `paging.c` |
| `FlatMemory` | what demand paging promises to running code | abstract |
| `MapTest` | the shell command that maps and unmaps pages; uses `Paging` | `kernel.c:215-242` |
| `PagingProofs` | proofs about `Paging` and `MapTest` | |
| `Console` | keyboard buffer, main loop, terminal, output buffer | `keyboard.c`, `kernel.c`, `vga.c` |
| `LineEditor` | what the terminal is for | abstract |
| `Interrupts` | the table of handlers, what the controllers are told | `isr.c`, `irq.c`, `idt.c` |
| `Boot` | `kernel_main` with interrupts at any time; composes `Console` and `Interrupts`, adds the shift keys | `kernel.c`, `keyboard.c` |
| `Initrd` | the walk over the archive of the initial RAM disk | `initrd.c` |
| `BootProofs` | proofs about `Console`, `Interrupts`, `Boot` and `Initrd` | |
| `Screen` | `put_char`, `scroll`, `clear_screen` | `vga.c` |
| `Paper` | what a screen that scrolls promises | abstract |
| `Numbers` | numbers read and shown | `string.c`, `vga.c` |
| `Shell` | commands that read and show numbers, echo and backspace, the timer; composes `Screen` and `Numbers` | `kernel.c`, `timer.c` |
| `ScreenProofs` | proofs about `Screen`, `Shell` and `Numbers` | |
| `MC...` | instances for TLC | |

### Vmm

`vmm_free`, `vmm_used` and `vmm_unused_nodes` are the three lists, as sequences of
records `[node, virt, size]`. A node is the number of its slot in the node area, so
comparing numbers is comparing node addresses, which `get_unused_node` does. That
lists are sequences is itself checked, in `List`, down to every pointer.

`ScanVisit` is one round of `vmm_initialize`'s loops, `malloc_above` and `Free` are
whole calls up to `compact_all_free`, and `CompactStep` is one iteration of that
loop; `compacting` keeps every other action disabled meanwhile. No interrupt
handler calls the heap, so a call is one step. The operators `search_free`,
`search_used`, `search_free_neighbor`, `search_adjacent_free`, `split_free` and
`get_unused_node` are the functions of these names. `First` is the search loop:
a set with the index of the first hit, or the empty set where the code has NULL.
`wild` records that the code dereferenced NULL; what happens after that (page 0 is
faulted in and read) is not modelled.

Addresses and sizes wrap at `M`, which stands for 2^32. `Visits` is what the scan
finds in the page directory. `Spec` has the calls the kernel makes (`malloc`, that
is alignment 1 and limit 0); `SpecAbove` adds `malloc_above` with any arguments,
which `vmm.h` exports and nothing calls. The run has the first; what holds of the
second, with every argument, is proved.

`Space` and `Live` at the module's end map it to `Heap`: the addresses that the scan
found unmapped, and where the blocks in use are. `Heap` knows neither lists nor
nodes: `malloc` takes the lowest address with `size + 1` free ones behind it.

### List

`first`, `last`, `prev` and `next` are the pointers. A node that is removed keeps
its own pointers, as in the code. The callers' discipline is in `Next`: insert a
node that is on no list next to one that is on this list, remove a node that is on
it.

### Bitmap, Pmm, PmmCalls

A byte is the set of the positions with a 1. `RegionBits` is the loop over a region
of the memory map, with the address arithmetic of the code: `base_addr_high` and
`length_high` are ignored (`% M`), and the divisions round down. `alloc_frame` and `after_alloc` are
the result of that function and the bitmap it leaves. `PmmCalls` adds callers:
they hold frames and return only those they hold.

### Paging, MapTest

`mem[frame][slot]` is physical memory, `tlb` what the processor has cached, `tables`
the array of `kernel_page_directory`. A machine state is a record, and the code is
a chain of operators on it: each load or store of a table goes through `Translate`,
that is through the TLB or the walk of the tables that are being changed. `Load`
caches a translation, `invlpg` and `write_cr3` drop some, and the processor may
drop any between instructions of running code (`Evict`). `wild` says that the code
in `paging.c` itself touched an unmapped address or used the error value of
`alloc_frame`. Running code is `Get`, `Put` and, for a page that does not translate,
`PageFault`. `MapTest` adds the shell command, statement by statement.

Offsets within a page are counted in words, and a word is an entry or not; attribute
bits are always 3 and are left out. The processor is modelled without speculative
fills of the TLB; with them the scratch page of `map_page` would be exposed more
often than the model shows.

The instance `FM` at the end of `Paging` maps it to `FlatMemory`: what a page holds is
the row of the frame that the walk of the tables gives, or nothing before its first
touch. The TLB has no part in that mapping; that reads and writes through the TLB
agree with it is what the refinement says.

### Console

The main loop is cut where interrupts can come: after reading the length
(`CheckKeyboard`), after the flush, after a command (`Evaluate`) and before its
buffer is cleared (`Clear`), around `terminal` and around `vga_flush`. `Key` is the
part of the interrupt handler that puts a character into the buffer. `FlushKeyboard`
runs with interrupts disabled; it uses the length read before, or reads it again,
since the variable is not volatile and either is what a compiler may produce. Keys
are a printable character, a blank, a newline and a backspace; `"\b \b"` is one item
of output, a prompt starts the screen anew, and a command prints one item. What
`put_char` makes of the items depends on the column: `Rubbed(margin, items)` is what
they leave on the screen when the first one is put in column `margin`. A backspace
in column 0 stays there (`vga.c:31`), so the character at the end of the row above
survives (`InColumn0`, `Stuck`). `typed`, `received` and `commands` are history
variables for the properties, and so is `overtaken`: it becomes true when the
interrupt handler flushes the full buffer while the main loop is between reading
the length and disabling interrupts (`keyboard.c:38`). `SlowSpec` is
the same loop when a key comes only after the loop has dealt with the one before
and while the line has room, and no backspace on an empty line.

`LineEditor` takes each key as one step, so its refinement maps `keys` to the
characters received without a newline or backspace that still waits to be handled
(`Handled`), and `line` to the buffer without that character and empty from a newline
on (`CommandLine`).

### Interrupts, Boot

`interrupt_handler` is the table of `isr.c`, `IF_flag` the processor's flag. The two
controllers are external: a line asks (`request`), is taken by the processor
(`in_service`) when none of its own or a higher priority is in service
(`Deliverable`), and leaves service with an end-of-interrupt, which always means
the most urgent one (`eoi`). `acknowledge` is what `irq_handler` writes: to the
second controller for every `int_no` from 20 on, and to the first.

`Boot` walks through `kernel_main` call by call: `stage` is the index of the next
call in the sequence `kernel_main`. Each call is the part of it that another part of
the system can see: `idt_initialize` makes the controllers forget, `memset` clears the
table, `Register` enters a handler, `PageFault` is the fault that
`vmm_initialize` runs into on its first write to the nodes, again and again while
there is no handler. `initrd_initialize` stops the kernel when GRUB has loaded no
module. `MainLoop` is `Console`'s loop. Meanwhile devices ask for interrupts
(`Raise`) and keys are pressed and released (`Present`): the keyboard presents one
code at a time and waits until it has been read. `irq_handler(n)` is one interrupt
with its handler; `keyboard_interrupt_handler` reads the code, keeps `shiftKeyDown` and
hands characters to `Key`. `held`, `codes` and `unheard` are history variables.

The kernel's steps between two points where an interrupt matters are one action.
An interrupt inside a call of the set-up comes before or after the step that call
makes, since handlers share nothing else with it. `sti` inside the keyboard's
handler (`keyboard.c:46`) comes after everything it does that is shared.

### Initrd

`Archive` is what `tar` writes, as blocks: for each file a header with the size in
octal digits, the blocks of its contents, and two empty blocks at the end. `get_size`
goes through the digits from the last one on, in words that wrap at `U32` (the
bytes of an empty block are 0, which makes digits of -48);
`next_header` is the address arithmetic of one round of the walk and `headers` where
the rounds lead. `count_headers` is the first round that ends at a header without a
name. `HeadersCounted` compares it with the number of files. `InitrdAssumption` says
that each size fits the digits of a header and that the archive lies in the memory.
An archive without files is allowed but left out of `HeadersCounted`: the loop is a
do-while (`initrd.c:104`), so it takes the first empty block for a header, with a
size of 1227133520 in the code's 32 bits, and goes on at that distance behind the
archive. What it counts there is up to what memory holds.

### Screen, Numbers, Shell

`vga` is `vga_mem`, `csr_x` and `csr_y`. `put_char` is `scroll(wrap(put(...)))`, as in
the code. `Shell` starts a command (`Start`) when all output of the last one is on
the screen, and puts one character per step (`PutNext`), so that the timer's
interrupt comes between any two. Numbers are read and shown by the
operators of `Numbers`, digit by digit; fixed texts are one character. `Paper` is a roll
on which rows are only ever added; `gone`, a history variable, has the rows that left
the screen, and the refinement is that `gone` followed by the screen is the roll.

## What the runs check

| Run | Question and result | Bounds |
|---|---|---|
| `vmm` | The heap under every sequence of `malloc` and `free`: `BlocksDisjoint`, `FreeCoalesced`, `FreeFindsNeighbor`, `SizeConserved`, `NodesAccounted`; it implements `Heap` and every loop ends (`Settles`). Holds. | 16 addresses, ten of them free in two regions and the second region scanned as its own entry; sizes 1-3; 3 live blocks |
| `list` | The pointer lists are disjoint sequences, each operation acts on them as named. Holds. | 2 lists, 4 nodes (symmetric) |
| `pmm` | `FramesUsable`, and `PmmCalls` implements `FrameAllocator`. Holds. | 14 frames of 4 addresses, 5 regions |
| `pmm_map` | `FramesUsable` with a free region that starts inside a frame and one behind 2^32. **Violated** by both (`pmm.c:68`, `pmm.c:56`): frame 6, and frames 10 and 11. | same, other map |
| `paging` | `FramesAccounted`, `TLBCoherent`, `KernelMapped`, `VirtToPhysAgrees`, `FailsOnlyWhenFull`; it implements `FlatMemory`. Holds. | 4 entries per table, 10 frames of which 6 are free, 5 pages under 2 tables |
| `map_test` | `mapTest` among other faults, until memory is full: the word arrives (`GreetingArrives`), and only the scratch page's translation is ever stale. Holds. | same, 3 pages under 2 tables |
| `map_test_tables` | New page tables are clear. **Violated** (`paging.c:320`). | same |
| `boot` | From the first call into the main loop with interrupts and keys at any time: `KeyboardRoom`, `KeysInOrder`, `ShiftAsHeld`, `NoCodeForgotten`, `AllAcknowledged`, `HeadersCounted`; the boot reaches its loop (`BootReachesLoop`) and every interrupt is served (`RequestsServed`). Holds. | lines 0, 1 and 12; 3 codes of 4 keys; buffers of 2, 3 and 2; archives of up to 2 files, in words of five bits |
| `console_slow` | Slow typing: implements `LineEditor`, `ScreenShowsLine`, `KeysReachTerminal`, `EveryNewlineRuns`. Holds. | 6 keys, buffers of 2, 4 and 3, rows of 3 columns |
| `keyboard_twice` | Only what is buffered is delivered. **Violated** (`keyboard.c:38`). | 3 keys, a keyboard buffer of 3 |
| `console_backspace` | The length stays in range. **Violated** (`kernel.c:311`). | 3 keys |
| `shell` | Commands on a small screen: `CursorOnScreen`, `RubUndoes`, `NumbersSpelt`, `PointersReadBack`; the screen implements `Paper`. Holds. | 6 by 3 cells, tabs of 4, words of ten bits, 8 arguments, 11 ticks, 2 commands between two clears |

Each violated property states what a comment or a constant in the code says;
`PROJECT.json` quotes it under `findings`.

Why the bounds are enough to meet the interesting cases: the heap has a region that
is merged during the scan, one behind a mapped page, and room for three live blocks
between which every pattern of free neighbours occurs; memory runs out. In `paging`
two tables are created in either order, one page is faulted in under an existing
table, memory runs out at a page and at a table, and what running code writes looks
like an entry. In `pmm` a free region ends inside a frame and all frames are handed
out and returned in every order. In `boot` all three buffers fill up, lines pass the end
of the terminal's buffer, there is a device without a handler on the second
controller, both shift keys can be down, and keys come before the keyboard has a
handler. Archives have files of no, part of, one and several blocks, and sizes of two
digits. In `boot` the handler flushes the buffer in every state of the main loop,
and the main loop flushes a key that comes after that. In `console_slow` a row ends within the
longest line, so that backspaces come in column 0 too, for every column of the
prompt. In `shell` the cursor meets the right border with a character, a tab
and a backspace, one command's output scrolls several rows away, and numbers
of ten bits wrap and reach the half that is negative in an `s32int`.

`vmm`, `boot` and `console_slow` also check liveness. The fairness assumed is weak
fairness of the scan, of the compaction loop, of the main loop and of `kernel_main`: all
are straight-line code that the only processor runs when no interrupt is served.
`boot` also assumes strong fairness of each line's interrupt: interrupts are disabled
for a few instructions at a time, and the controller offers one that is asked for
whenever they are enabled and nothing more urgent is. No fairness is assumed of
callers, keys, devices or the processor's TLB.

## What is proved

`VmmProofs`, for every address space `M`, every scan `Visits` and all bounds:

* `NodesAccountedAlways`: `SpecAbove => [](TypeOK /\ NodesAccounted)`, with every
  size, alignment and limit. Type correctness and the accounting of nodes are
  inductive together: `get_unused_node` either takes the head of the unused list or,
  when that is empty, the number one above the highest, and then the used numbers
  are exactly `1..slots`.
  `VmmTypeCorrect` is its first part on its own.
* `BlocksDisjointAlways` and `FreeFindsNeighborAlways`: `Spec => []...` when every
  size is at least 1 and `size + 1` does not wrap (`SaneSizes`: blocks can overlap
  otherwise, see the hazard at `vmm.c:103`). The inductive invariant is `HeapInv` on top of the types:
  no block is empty or reaches the end of the addresses (`BlocksProper`), the free
  list is in address order and nothing overlaps (`BlocksDisjoint`), above every used
  block lies a free one (`Headroom`), and during the scan nothing is used and
  everything lies below the entry read next (`ScanAhead`). `Headroom` is what makes
  `free` safe: `search_free` asks for `size + 1` bytes, so the rest of a split is
  never empty, and a merge only moves a free block's start down when the block that
  goes away begins where another one ends. Without `Headroom`,
  `FreeFindsNeighbor` is not inductive; without `BlocksProper`, order and
  disjointness are not preserved by a split.

Also in `VmmProofs`, under the same assumption, on top of `HeapInv`:

* `FreeCoalescedAlways`: `Spec => []FreeCoalesced`. A compaction ends only when no
  neighbours touch, and the list is in address order, so no two blocks do;
  a malloc moves the start of one free block up and leaves all ends where they are.
* `SpaceConservedAlways`: `Spec => []SpaceConserved`. Each step moves the same
  addresses from one block to another: address by address, the scan adds those of its
  entry, a split those of the block that is taken, a merge none.
* `HeapImplemented`: `Spec => ImplementsHeap`, an exact first fit. By `SpaceConserved`
  an address is not in use exactly when a free block holds it, and by `FreeCoalesced`
  a run of such addresses lies in one free block (`PlacesInBlocks`). So the first
  block of the address-ordered list that is longer than the size starts at the lowest
  place there is, and no such block means no place. `free` takes away exactly one
  block, because no two blocks in use are at one address. Without `FreeCoalesced`
  the abstract heap could find a place across two blocks where the code gives up.

And for all arguments of `malloc_above`, the wrapping ones included:

* `SizeConservedAlways`: `SpecAbove => []SizeConserved`. A total is a fold over a list;
  it is followed by its partial sums, which a change of one block, an insertion or a
  removal moves by a known amount. A split whose sizes wrap and a merge change the
  totals by multiples of `M` only, so the invariant `SizeInv` counts the wraps.

`ListProofs`, for any lists and any finite set of nodes:

* `WellLinkedAlways`: `Spec => []WellLinked`. The invariant says of each list that the
  nodes a search meets are a sequence without repetition whose `prev` and `next`,
  `head`, `tail` and `length` are those of the sequence (`Linked`), and that no node is
  on two lists. The search is a recursion along `next`; `ChainIs` shows that whatever
  sequence is linked that way is the one it yields.
* `ActsOnSequencesAlways`: `Spec => ActsOnSequences`. Every operation puts a node at
  some place (`Splices`) or takes one out (`Cuts`), and these two keep a list linked;
  what remains for each operation is that its branches, on an empty list and at
  either end, set just those pointers. This is what allows `Vmm` to treat
  its lists as sequences.

`PmmProofs`, for every size of byte, frame, bitmap and address space:

* `PmmTypeCorrect`: `Spec => [](TypeOK /\ PoolKept)` on any memory map: the frames
  held and the frames free together are always those that `pmm_initialize` cleared.
* `FramesUsableAlways` and `FrameAllocatorImplemented`, when every free region
  starts at a frame, ends below `M` and is shorter than `M` (`MapAligned`; run
  `pmm_map` shows that the first two conditions cannot be dropped, and the third is
  what `length_low` can hold). From the arithmetic of `RegionBits` the
  initial pool is exactly the set of usable frames outside the kernel, and
  `PoolKept` carries it on. The refinement maps the free bits of the bitmap to
  the abstract pool.

`PagingProofs`, for every size of the tables, memory map, set of pages that running
code touches and words it writes (entries among them), on one invariant, `Inv`
(`PagingInvariant`). Its parts hold each other up:

* the kernel's tables map the kernel's frames to themselves, the last directory entry
  maps the directory, and the scratch slot is back at its own frame (`KernelKept`):
  without it the code's own accesses to tables would not be where it wants them;
* every table is in a frame of its own from the pool and recorded in `tables`
  (`TablesKept`), every page likewise (`PagesKept`), and no page shares a frame with a
  table: without it a write of running code could change a translation;
* free frames are in the pool, which has none of the kernel's (`FreeInPool`), and
  unless the handler has given up, each frame that was handed out is a table or a
  page (`AllUsed`);
* the TLB has only running code's pages, with what the walk gives for them
  (`TLBKept`). At the handler's entry that leaves no page that `map_page`'s windows or
  the scratch page go through, because every run of the handler ends by writing CR3.
  So within the handler each load and store reaches the memory the tables say, and
  the one translation that does go stale, the scratch page's, is dropped in time.

From it follow `PagingTypeCorrect`, `TLBCoherentAlways`, `KernelMappedAlways`,
`VirtToPhysAgreesAlways` (the windows of `virt_to_phys` lead to the table the walk
reads), `FramesAccountedAlways` and `FailsOnlyWhenFullAlways`. The proof of a step goes
through what one run of the handler leaves (`HandlerIs`): the page is entered in the
table there is, or a cleared table is entered first, or nothing changes and no frame
is free. The first two are one effect (`Serves`), and each part of `Inv` is shown for
that effect. `FlatMemoryImplemented`: `Spec => ImplementsFlatMemory`; a page that is
served appears with the row its frame happens to hold, no other page's frame or row
changes, and a write reaches the one page whose frame it is.

For `MapTest`, in the same module, with its pages, the tables they lie under and the
word it writes left open (`MapTestAssumption` says what the addresses in `kernel.c` are
like: two pages under different tables, which no other command touches, and nothing
else under the second one's table):

* `MTTypeCorrect`, `GreetingArrivesAlways` and `OnlyScratchStaleAlways` follow from one
  invariant, `MTInv`. `mapTest` edits tables without writing CR3, so `Inv` does not hold
  in it: when it creates two tables, the second one is not cleared (run
  `map_test_tables`). `MTInv` says instead that tables, and the pages that some command
  uses or whose table is cleared (`Mine`), have frames of their own (`Sound`); that
  no translation is stale but the scratch page's (`Coherent`), and where that one leads
  before the second table is made (`ScratchKnown`); that the other command's
  faults leave no translation of the code's own windows (`Flushed`); and where
  the word is that is to arrive (`Carries`).

`ScreenProofs`, for every size of the screen and every text:

* `CursorOnScreenAlways`: `Spec => []CursorOnScreen`. Before the wrap the cursor is at
  most one column (or one tab) too far right in a row of the screen, or one row too
  low at the left (`AlmostOn`); wrap and scroll bring it back, and the cell
  that is written is in `Cells` because `y * w + w <= h * w` for `y < h`.
* `RubUndoesAlways`: `Spec => []RubUndoes`, from the former and the three characters
  one after the other.
* `PaperImplemented`: `Spec => ImplementsPaper`. The roll is `gone` followed by the
  rows of the screen. A character put in a cell is written in one place of the roll
  (`RollTyped`), because each cell is in one row and column (`AtUnique`); a scroll
  appends a blank row and changes no other (`RollScrolled`). So a character that stays
  in its row (`SameRowNext`) and one that goes on to the next (`NextRow`) are steps of
  `Paper`, and `TabIs` finds the next tab stop within the distance it allows.

and for words of every width:

* `NumbersSpeltAlways` and `PointersReadBackAlways`: the invariant `JobInv` ties what a
  command puts to what it was given, however often the timer interrupts it. The rest is
  about the operators of `Numbers`. Reading is a fold over the text, the number that a
  text stands for is a sum over its places; both are brought into the form of a run,
  one element per round (`FoldExists`, `FoldRuns` in `DataLemmas`), and two runs are
  compared by an induction along the rounds, for which a finite range is enough
  (`Climbs`). One digit more makes both `base` times as large and adds the digit
  (`PositionalAppend`, `ReadsNumber`). `low_digits` gives back the number by induction
  over the number (`LowsSpell`). That `free` reads what `malloc` shows needs that "0x" is
  skipped when it is there (`HexReadsBack`) and only then (`HexPlain`).

`BootProofs`, for all buffer sizes, keys, lines and bounds, and every interleaving:

* `KeyboardRoomAlways`: every step that adds a character leaves room or empties the
  buffer.
* `AllAcknowledgedAlways`: `irq_handler` takes its own line and the cascade out of
  service again, since nothing else was in service before.
* `NoCodeForgottenAlways`: the invariant `Heard` adds that before
  `keyboard_initialize` there is no handler, that the boot never goes back, and that
  a code at the port was counted as `unheard` if it came by then.
* `ShiftAsHeldAlways`: the invariant `ShiftRead` says what `shiftKeyDown` will be when
  the code at the port has been read.
* `BootTypeCorrect`: the types of `Console`, `Interrupts` and `Boot` together. The part
  `KeysHeard` is needed since the keyboard's handler reads a port: it is only entered
  with a code waiting, so the history variables count each code once.
* `KeysInOrderAlways`: the keys that have come to the terminal are, in order, among
  the first `Len(typed) - keyboard_buffer_length` of those typed, and the
  rest are in the buffer (`Ordered`). The length that the main loop has read is at most
  the buffer's as long as nobody else has flushed since, so the main loop may
  lose keys when it uses it, but repeats none; the handler delivers the whole
  buffer. All that ends with `overtaken`: when the handler flushes between
  `keyboard.c:38` and the `cli`, the length read may be larger than what is buffered, and
  the same keys are delivered again if the compiler has kept it. Run
  `keyboard_twice` shows that.

and for slow typing, with the invariant `SlowInv`: at most one key is in the keyboard's
buffer, on its way (`OneKey`), and the line has letters only, but for a newline or
backspace that has just come, or the 0 that a newline has become (`LineKept`):

* `KeysReachTerminalAlways`, from `OneKey`.
* `LineEditorImplemented`: `SlowSpec => EditsLines`. `FlushKeyboard` with a letter is
  `Type`, `Backspace` is `Rub`, `Evaluate` is `Run`, everything else a stutter. The hard
  step is `Evaluate`: the characters up to the first blank or 0 of the buffer, and
  those behind it up to the next 0, are the parts of the line before and behind
  its first blank (`Cut`). It needs `LineKept`: what an earlier, longer line or a
  backspace has left behind the newline is not looked at, because the newline has
  become a 0 and no letter is one.
* `ScreenShowsLineAlways`: `SlowSpec => []ScreenShowsLine`. The invariant `ShowInv` is about
  `Visible`, what the screen will show once the output buffer is flushed: the prompt and
  the line, but for the character that has just come (`terminal_last_put`). A flush,
  wherever the full buffer causes it, leaves `Visible` alone; a backspace takes away one
  character of the line and, by its three, one of the screen (`Rubbed`), unless it
  finds the cursor in column 0. In such a line the character at the end of the row
  stays on the screen though it is no longer in the line; the property is about all
  others (`~Stuck`), for every width of the screen and every column of the prompt.

`HeadersCountedAlways`, for every size of block and word and every archive of one file
or more that satisfies `InitrdAssumption`: the header of the next file lies as many blocks further as
the file has, plus its own, because rounding up a size to blocks is what the two
divisions of `next_header` do (`RoundedUp`); the digits add up to the size
modulo the word (`SizeIs`), and since the archive fits the memory nothing else wraps. So the walk is at the headers one
after the other (`HeadersAt`) and the first empty one comes after the last file.

The assumptions on constants are named where they are declared (`MAssumption`,
`VisitsAssumption`, `SizesAssumption`, `WAssumption`, `ListAssumption`, `PmmAssumption`,
`PagingAssumption`, `MapTestAssumption`, `ScreenAssumption`, `NumbersAssumption`,
`ShellAssumption`, `ConsoleAssumption`, `InterruptsAssumption`, `BootAssumption`,
`InitrdAssumption`).
`VisitsAssumption` is what the loops of `vmm_initialize` guarantee: entries in
address order, none of them empty, the last 4 MB left out.

`PagingAssumption` is where `paging_initialize` puts the directory (below the last
frame of the kernel's 4 MB, not in the slot that `map_page` borrows), that the kernel's
frames are those 4 MB, and that running code touches neither them nor the tables.

Every invariant and every refinement that a passing run checks is stated by one of
these theorems. Only model-checked are the liveness properties: `Settles`,
`BootReachesLoop`, `RequestsServed` and `EveryNewlineRuns`. Liveness under fairness needs
`ENABLED`, which the prover does not handle.

## What is not modelled

* The halting branches (of the fault handler, of `alloc_frame` before
  initialisation): the system stops there.
* `paging_initialize` when the directory would lie above the first 4 MB, and the
  place of the bitmap in memory.
* No caller: `change_page_directory`, `copy_page_directory`, `copy_page_table`,
  `clear_all_bits`, `any_bit_set`, `find_first_set_bit`, `memcpy`, `memmove`, `strcpy`,
  `strcat`, `clear_line`, `vga_buffer_put_dec`, `vga_buffer_put_hex`,
  `print_tar_header`, `print_file_contents`.
* What `initrd_initialize` prints, the commands `printUsed` and `printFree`, and the
  text of `virtToPhys`: they change nothing but the screen, by the functions that
  `Screen` and `Numbers` model.
* Scancodes that are not in the keyboard's two tables (`keyboard.c:85` reads behind
  them): which codes a keyboard sends is not in the repository.
* The addresses of the heap's nodes: the node area can outgrow its first page.
* Port I/O, the boot code, GDT and IDT entries, assembly stubs, colours: no state a
  property is about. The boot page directory and the memory map are inputs of
  `Paging` and `Pmm`.
* A key that the compiler's choice at `keyboard.c:38` loses is in the model
  (`FlushKeyboard`); no property forbids it, and `KeysInOrder` allows for it. The keys
  it repeats are run `keyboard_twice`. Which of the two a build does is up to its
  compiler: one that reads the length again after the `cli` neither loses nor
  repeats a key.
* Scrolling and the row the line begins in (`Console` counts columns only), and tabs
  in a line: `Screen` has both, without the line.

## Plan

Done: the inventory; all modules above with their runs; the proofs above.

Left, in this order:

1. The heap on demand-paged memory: `Vmm` with `Paging`, the node area included.
2. `paging_initialize` with a directory above the first 4 MB, and the place of the
   bitmap in memory with the boot modules behind the kernel.
