------------------------------- MODULE Paging -------------------------------
(***************************************************************************)
(* src/src/c/paging.c on the machine it drives: the words of physical      *)
(* memory, among them the page directory and the page tables, and the TLB, *)
(* which goes on using a translation after the tables have changed.  Every *)
(* access of the code to a table is an access to a virtual address, so it  *)
(* goes through the TLB and the tables itself.                             *)
(*                                                                         *)
(* Addresses are counted in pages and frames, the offset within them is    *)
(* the number of a word.  A word that is an entry of a directory or table  *)
(* is the frame it maps, or NotPresent; the attribute bits are always 3.   *)
(***************************************************************************)
EXTENDS Pmm, TLC

CONSTANTS
    T,            \* entries of a page directory or table: 1024
    KernelDir,    \* the directory entry of 0xC0000000: 768
    ScratchSlot,  \* the slot in the kernel's table that map_page borrows: 10
    DirFrame,     \* the frame paging_initialize takes for the directory
    Values,       \* the words that running code writes
    Touched       \* the pages it reads and writes

RecDir == T - 1                  \* the directory entry that maps itself
NotPresent == -2
Word == Bits \cup {NotPresent}
Page == 0..(T * T - 1)

ASSUME PagingAssumption ==
    /\ T \in Nat /\ KernelDir \in 0..(T-2) /\ ScratchSlot \in 0..(T-1)
    /\ DirFrame \in 0..(T-2) /\ DirFrame # ScratchSlot
    /\ KernelFrames = 0..(T-1)
    /\ Values \subseteq Word
    /\ \A page \in Touched : page \in Page /\ page \div T # KernelDir
                             /\ page \div T # RecDir

VARIABLES
    pmm_frames,   \* the bitmap of frames
    mem,          \* mem[frame][slot] is a word
    tlb,          \* the frame the processor has cached for a page
    tables,       \* the tables of current_page_directory
    wild          \* the code has left mapped memory

vars == <<pmm_frames, mem, tlb, tables, wild>>

(* The machine as a value, for the operators that transform it. *)
Machine == [pmm_frames |-> pmm_frames, mem |-> mem, tlb |-> tlb,
            tables |-> tables, wild |-> wild]
Becomes(s) ==
    /\ pmm_frames' = s.pmm_frames
    /\ mem' = s.mem
    /\ tlb' = s.tlb
    /\ tables' = s.tables
    /\ wild' = s.wild

-----------------------------------------------------------------------------
(* Virtual addresses: the directory, the page that ScratchSlot maps, and   *)
(* the windows through which the last directory entry shows the tables.    *)
TableFrame == DirFrame + 1
DirPage == KernelDir * T + DirFrame
ScratchPage == KernelDir * T + ScratchSlot

(* Mutant: the windows are 4 MB apart instead of 4 KB.                     *)
Window_far(d) == RecDir * T + T * d

Window(d) == RecDir * T + d

(* The processor's walk of the tables. *)
Walk(memory, page) ==
    LET table == memory[DirFrame][page \div T]
    IN  IF table = NotPresent THEN NotPresent ELSE memory[table][page % T]

Translate(s, page) ==
    IF s.tlb[page] # NotPresent THEN s.tlb[page] ELSE Walk(s.mem, page)

Lost(s) == [s EXCEPT !.wild = TRUE]

(* An access to a page caches its translation.  The code in paging.c never *)
(* expects a fault of its own.                                             *)
Load(s, page) ==
    IF Translate(s, page) = NotPresent THEN Lost(s)
    ELSE [s EXCEPT !.tlb[page] = Translate(s, page)]

Read(s, page, slot) ==
    IF Translate(s, page) = NotPresent THEN NotPresent
    ELSE s.mem[Translate(s, page)][slot]

Store(s, page, slot, word) ==
    IF Translate(s, page) = NotPresent THEN Lost(s)
    ELSE [Load(s, page) EXCEPT !.mem[Translate(s, page)][slot] = word]

Fill(s, page, word) ==
    IF Translate(s, page) = NotPresent THEN Lost(s)
    ELSE [Load(s, page) EXCEPT
            !.mem[Translate(s, page)] = [slot \in 0..(T-1) |-> word]]

invlpg(s, page) == [s EXCEPT !.tlb[page] = NotPresent]
write_cr3(s) == [s EXCEPT !.tlb = [page \in Page |-> NotPresent]]

-----------------------------------------------------------------------------
(* The frame for a new table, and the bitmap then: when alloc_frame comes  *)
(* up with the very frame to be mapped, another one is taken and that one  *)
(* goes back.                                                              *)
TableFor(frames, frame) ==
    LET first == alloc_frame(frames) IN
    IF first # frame THEN [frame |-> first, frames |-> after_alloc(frames)]
    ELSE LET taken == after_alloc(frames) IN
         [frame |-> alloc_frame(taken),
          frames |-> free_frame(after_alloc(taken), first)]

(* Mutants: the scratch slot is not restored, and the new table's address  *)
(* is not noted.                                                           *)
CreateTable_unrestored(s, d, frame) ==
    LET new == TableFor(s.pmm_frames, frame)
        s1  == Store([s EXCEPT !.pmm_frames = new.frames],
                     s.tables[KernelDir].virt_addr, ScratchSlot, new.frame)
        s2  == Store(Fill(s1, ScratchPage, NotPresent), DirPage, d, new.frame)
    IN  IF new.frame = NoFrame THEN Lost(s)
        ELSE [s2 EXCEPT !.tables[d] =
                [virt_addr |-> Window(d), phys_addr |-> new.frame]]

CreateTable_unnoted(s, d, frame) ==
    LET new    == TableFor(s.pmm_frames, frame)
        kernel == s.tables[KernelDir].virt_addr
        s1 == Store([s EXCEPT !.pmm_frames = new.frames],
                    kernel, ScratchSlot, new.frame)
        s2 == Store(Fill(s1, ScratchPage, NotPresent), DirPage, d, new.frame)
    IN  IF new.frame = NoFrame THEN Lost(s)
        ELSE Store(s2, kernel, ScratchSlot, Read(s, kernel, ScratchSlot))

(* The branch of map_page that creates the page table for directory entry  *)
(* d: ScratchSlot maps it while it is cleared, and is restored at the end. *)
CreateTable(s, d, frame) ==
    LET new    == TableFor(s.pmm_frames, frame)
        kernel == s.tables[KernelDir].virt_addr
        saved  == Read(s, kernel, ScratchSlot)
        s1 == [s EXCEPT !.pmm_frames = new.frames]
        s2 == Store(s1, kernel, ScratchSlot, new.frame)
        s3 == Fill(s2, ScratchPage, NotPresent)
        s4 == Store(s3, DirPage, d, new.frame)
        s5 == [s4 EXCEPT !.tables[d] =
                  [virt_addr |-> Window(d), phys_addr |-> new.frame]]
    IN  IF new.frame = NoFrame THEN Lost(s1)
        ELSE Store(s5, kernel, ScratchSlot, saved)

(* Mutant: the old translation of the page is not dropped.                 *)
map_page_unflushed(s, page, frame) ==
    LET d  == page \div T
        s1 == Load(s, DirPage)
        s2 == IF Read(s1, DirPage, d) = NotPresent
              THEN CreateTable(s1, d, frame) ELSE s1
    IN  IF s2.wild \/ frame = NoFrame THEN Lost(s2)
        ELSE Store(s2, s2.tables[d].virt_addr, page % T, frame)

map_page(s, page, frame) ==
    LET d  == page \div T
        s1 == Load(s, DirPage)
        s2 == IF Read(s1, DirPage, d) = NotPresent
              THEN CreateTable(s1, d, frame) ELSE s1
        s3 == Store(s2, s2.tables[d].virt_addr, page % T, frame)
    IN  IF s2.wild \/ frame = NoFrame THEN Lost(s2) ELSE invlpg(s3, page)

(* Mutant: the same for unmap_page.                                        *)
unmap_page_unflushed(s, page) ==
    LET d  == page \div T
        s1 == Load(s, DirPage)
    IN  IF Read(s1, DirPage, d) = NotPresent THEN s1
        ELSE Store(s1, s1.tables[d].virt_addr, page % T, NotPresent)

unmap_page(s, page) ==
    LET d  == page \div T
        s1 == Load(s, DirPage)
        s2 == Store(s1, s1.tables[d].virt_addr, page % T, NotPresent)
    IN  IF Read(s1, DirPage, d) = NotPresent THEN s1 ELSE invlpg(s2, page)

(* Mutant: the last entry of the directory gets no special treatment.      *)
virt_to_phys_plain(s, page) ==
    LET d == page \div T
    IN  IF Read(s, DirPage, d) = NotPresent THEN NotPresent
        ELSE Read(s, s.tables[d].virt_addr, page % T)

(* The frame the code believes a page to be in. *)
virt_to_phys(s, page) ==
    LET d     == page \div T
        table == IF d = RecDir THEN DirPage ELSE s.tables[d].virt_addr
    IN  IF Read(s, DirPage, d) = NotPresent THEN NotPresent
        ELSE Read(s, table, page % T)

(* Mutant: CR3 is not written again.                                       *)
page_fault_interrupt_handler_unflushed(s, page) ==
    LET frame == alloc_frame(s.pmm_frames)
        s1 == [s EXCEPT !.pmm_frames = after_alloc(@)]
    IN  invlpg(map_page(s1, page, frame), page)

page_fault_interrupt_handler(s, page) ==
    LET frame == alloc_frame(s.pmm_frames)
        s1 == [s EXCEPT !.pmm_frames = after_alloc(@)]
    IN  invlpg(write_cr3(map_page(s1, page, frame)), page)

-----------------------------------------------------------------------------
(* paging_initialize: the kernel's table maps the first 4 MB to            *)
(* themselves.  The frames that nothing uses hold anything.                *)
paging_initialize ==
    /\ \E junk \in Values : mem = [frame \in Bits |->
          CASE frame = DirFrame -> [d \in 0..(T-1) |->
                  CASE d = KernelDir -> TableFrame
                    [] d = RecDir -> DirFrame
                    [] OTHER -> NotPresent]
            [] frame = TableFrame -> [slot \in 0..(T-1) |-> slot]
            [] OTHER -> [slot \in 0..(T-1) |-> junk]]
    /\ tables = [d \in 0..(T-1) |->
          CASE d = KernelDir -> [virt_addr |-> Window(d), phys_addr |-> TableFrame]
            [] d = RecDir -> [virt_addr |-> Window(0), phys_addr |-> DirFrame]
            [] OTHER -> [virt_addr |-> 0, phys_addr |-> 0]]
    /\ tlb = [page \in Page |-> NotPresent]
    /\ wild = FALSE

Init == pmm_frames = pmm_initialize /\ paging_initialize

(* Code that runs reads and writes pages; a page that does not translate   *)
(* faults, and after the handler the instruction is tried again.           *)
Get(page) ==
    /\ ~wild /\ Translate(Machine, page) # NotPresent
    /\ Becomes(Load(Machine, page))

Put(page, word) ==
    /\ ~wild /\ Translate(Machine, page) # NotPresent
    /\ Becomes(Store(Machine, page, 0, word))

PageFault(page) ==
    /\ ~wild /\ Translate(Machine, page) = NotPresent
    /\ Becomes(page_fault_interrupt_handler(Machine, page))

(* The processor may drop a translation at any time. *)
Evict(page) ==
    /\ ~wild /\ tlb[page] # NotPresent
    /\ Becomes(invlpg(Machine, page))

(* What happens after an access outside the memory is not modelled. *)
Stuck == wild /\ UNCHANGED vars

Next ==
    \/ \E page \in Touched :
          \/ Get(page)
          \/ \E word \in Values : Put(page, word)
          \/ PageFault(page)
    \/ \E page \in Page : Evict(page)
    \/ Stuck

Spec == Init /\ [][Next]_vars

-----------------------------------------------------------------------------
TypeOK ==
    /\ pmm_frames \in Bitmaps(Bytes)
    /\ mem \in [Bits -> [0..(T-1) -> Word]]
    /\ tlb \in [Page -> Word]
    /\ tables \in [0..(T-1) -> [virt_addr : Page, phys_addr : Bits]]
    /\ wild \in BOOLEAN

(* The frames the bitmap has at the start, and what refers to a frame: the *)
(* directory entries and the entries of the tables.                        *)
Pool == FreeFrames(pmm_initialize)
TableUses(frame) == {d \in 0..(T-2) : mem[DirFrame][d] = frame}
PageUses(frame) == {page \in Page : page \div T # RecDir /\ Walk(mem, page) = frame}

(* Every frame of the pool is free in the bitmap, or a page table, or a    *)
(* page, and then it is so once: no frame is lost, none is both a table    *)
(* and a page, no two pages share one.                                     *)
FramesAccounted == ~wild => \A frame \in Pool :
    Cardinality(TableUses(frame)) + Cardinality(PageUses(frame))
        = IF test_bit(pmm_frames, frame) THEN 1 ELSE 0

(* Outside the fault handler the TLB has nothing that the tables do not    *)
(* say: what map_page leaves behind for the scratch page is flushed.       *)
TLBCoherent == \A page \in Page : ~wild =>
    tlb[page] \in {NotPresent, Walk(mem, page)}

(* The kernel's own 4 MB stay where they are. *)
KernelMapped == \A slot \in 0..(T-1) :
    Walk(mem, KernelDir * T + slot) = slot

(* What virt_to_phys finds through the windows is what the processor does. *)
VirtToPhysAgrees == ~wild =>
    \A page \in Page : virt_to_phys(Machine, page) = Walk(mem, page)

(* The handler only fails when every frame is in use: it never faults      *)
(* itself, whatever tables are there and whatever the TLB holds.           *)
FailsOnlyWhenFull == wild => FreeFrames(pmm_frames) = {}

(* The pages as running code sees them: it writes to the first word.       *)
WriteWord(content, word) == [content EXCEPT ![0] = word]

FM == INSTANCE FlatMemory WITH
    Pages <- Touched,
    Words <- Values,
    Contents <- [0..(T-1) -> Word],
    Write <- WriteWord,
    Unused <- <<>>,
    content <- [page \in Touched |-> IF Walk(mem, page) = NotPresent
                                     THEN <<>> ELSE mem[Walk(mem, page)]],
    full <- wild

(* Paging implements flat memory: serving a fault never changes a page     *)
(* that is already in use, and what is written to a page is what is in it. *)
ImplementsFlatMemory == FM!Spec
=============================================================================
