------------------------------- MODULE MapTest -------------------------------
(***************************************************************************)
(* The shell command mapTest (src/src/c/kernel.c), the one caller of       *)
(* map_page and unmap_page besides the page fault handler: it maps a frame *)
(* at one page, writes to it, moves it to another page and reads it there, *)
(* and then reads the first page again.  The shell runs it and the         *)
(* commands that fault pages in one after the other.                       *)
(***************************************************************************)
EXTENDS Paging

CONSTANTS
    First, Second,   \* the pages 0xA0000000 and 0xABCD0000
    Greeting         \* the word mapTest writes

ASSUME MapTestAssumption ==
    /\ {First, Second} \subseteq Page \ Touched
    /\ First \div T # Second \div T
    /\ \A page \in {First, Second} : page \div T \notin {KernelDir, RecDir}
    /\ \A page \in Touched : page \div T # Second \div T   \* 0xA2349876, the heap
    /\ Greeting \in Word

VARIABLES
    pc,         \* the statement of mapTest that is next, or "prompt"
    phys_mem,   \* the frame it works with
    greeted     \* the word it read at the second page

mtVars == <<pmm_frames, mem, tlb, tables, wild, pc, phys_mem, greeted>>

MTInit == Init /\ pc = "prompt" /\ phys_mem = 0 /\ greeted = Greeting

(* Commands that read or write a page that is not there (readFault and     *)
(* writeFault), and the processor.                                         *)
OtherCommand ==
    /\ pc = "prompt" /\ \E page \in Touched :
          Get(page) \/ (\E word \in Values : Put(page, word)) \/ PageFault(page)
    /\ UNCHANGED <<pc, phys_mem, greeted>>

Drop == (\E page \in Page : Evict(page)) /\ UNCHANGED <<pc, phys_mem, greeted>>

MapFirst ==
    /\ ~wild /\ pc = "prompt" /\ pc' = "write"
    /\ phys_mem' = alloc_frame(pmm_frames)
    /\ Becomes(map_page([Machine EXCEPT !.pmm_frames = after_alloc(@)],
                        First, phys_mem'))
    /\ UNCHANGED greeted

WriteFirst ==
    /\ pc = "write" /\ pc' = "move"
    /\ Put(First, Greeting)
    /\ UNCHANGED <<phys_mem, greeted>>

Move ==
    /\ ~wild /\ pc = "move" /\ pc' = "read"
    /\ Becomes(map_page(unmap_page(Machine, First), Second, phys_mem))
    /\ UNCHANGED <<phys_mem, greeted>>

ReadSecond ==
    /\ pc = "read" /\ pc' = "fault"
    /\ Get(Second)
    /\ greeted' = Read(Machine, Second, 0)
    /\ UNCHANGED phys_mem

ReadFirst ==
    /\ pc = "fault"
    /\ \/ Get(First) /\ pc' = "prompt"
       \/ PageFault(First) /\ UNCHANGED pc
    /\ UNCHANGED <<phys_mem, greeted>>

Gone == wild /\ UNCHANGED mtVars

MTNext ==
    \/ OtherCommand \/ Drop \/ MapFirst \/ WriteFirst \/ Move
    \/ ReadSecond \/ ReadFirst \/ Gone

MTSpec == MTInit /\ [][MTNext]_mtVars

-----------------------------------------------------------------------------
MTTypeOK ==
    /\ TypeOK
    /\ pc \in {"prompt", "write", "move", "read", "fault"}
    /\ phys_mem \in Bits \cup {NoFrame}
    /\ greeted \in Word

(* The word written at the first page is read at the second one: no stale  *)
(* translation of either page survives map_page and unmap_page, in the     *)
(* first mapTest and in later ones, which use another frame.               *)
GreetingArrives == greeted = Greeting

(* The processor never reads through a translation the tables have not,    *)
(* except for the scratch page: until the next fault that may still be in  *)
(* the frame of the table created last.                                    *)
OnlyScratchStale == ~wild => \A page \in Page \ {ScratchPage} :
    tlb[page] \in {NotPresent, Walk(mem, page)}

(* A new page table is cleared: it maps the pages it was created for and   *)
(* no others.                                                              *)
TablesClear == \A page \in Page :
    page \div T \notin {KernelDir, RecDir} /\ page \notin Touched \cup {First, Second}
        => Walk(mem, page) = NotPresent
=============================================================================
