---------------------------- MODULE PagingProofs ----------------------------
(***************************************************************************)
(* Proofs about Paging and MapTest, for every size of the tables and of    *)
(* the bitmap, every memory map and every set of pages that running code   *)
(* touches.                                                                *)
(***************************************************************************)
EXTENDS MapTest, PmmLemmas, FiniteSetTheorems, TLAPS

Slot == 0..(T-1)
Row == [Slot -> Word]
Memory == [Bits -> Row]
TLB == [Page -> Word]
Table == [virt_addr : Page, phys_addr : Bits]

-----------------------------------------------------------------------------
(* The numbers of frames, slots and pages.                                 *)
LEMMA Numbers ==
    /\ T \in Nat /\ T >= 2 /\ Bytes \in Nat
    /\ KernelDir \in Slot /\ RecDir \in Slot /\ KernelDir # RecDir
    /\ ScratchSlot \in Slot /\ DirFrame \in Slot /\ TableFrame \in Slot
    /\ DirFrame # TableFrame /\ DirFrame # ScratchSlot
    /\ Slot \subseteq Bits /\ NotPresent \notin Bits /\ NoFrame \notin Bits
<1>1. T \in Nat /\ KernelDir \in 0..(T-2) /\ ScratchSlot \in 0..(T-1)
      /\ DirFrame \in 0..(T-2) /\ DirFrame # ScratchSlot
      /\ KernelFrames = 0..(T-1)
  BY PagingAssumption
<1>2. T >= 2  BY <1>1
<1>3. Slot \subseteq Bits  BY <1>1, PmmAssumption DEF Slot, Bits
<1>4. Bytes \in Nat /\ Bytes * W \in Nat  BY PmmAssumption, WAssumption
<1>5. NotPresent \notin Bits /\ NoFrame \notin Bits
  BY <1>4 DEF NotPresent, NoFrame, Bits
<1> QED BY <1>1, <1>2, <1>3, <1>4, <1>5 DEF Slot, RecDir, TableFrame

LEMMA PageParts ==
    ASSUME NEW page \in Page
    PROVE  /\ page \div T \in Slot /\ page % T \in Slot
           /\ page = (page \div T) * T + (page % T)
<1>1. T \in Nat /\ T > 0 /\ page \in Nat /\ page < T * T
  <2>1. T \in Nat /\ T > 0  BY Numbers
  <2>2. T * T \in Nat  BY <2>1
  <2> QED BY <2>1, <2>2 DEF Page
<1> DEFINE d == page \div T
           i == page % T
<1>2. d \in Nat /\ i \in 0..(T-1) /\ page = d * T + i  BY <1>1, DivMod
<1> HIDE DEF d, i
<1>3. d < T
  <2> SUFFICES ASSUME T <= d PROVE FALSE  BY <1>1, <1>2
  <2>1. CASE T = d
    <3>1. d * T = T * T /\ d * T \in Nat  BY <1>1, <2>1
    <3> QED BY ONLY <3>1, <1>1, <1>2
  <2>2. CASE T < d
    <3>1. T * T + T <= d * T  BY <1>1, <1>2, <2>2, Grows
    <3>2. T * T \in Nat /\ d * T \in Nat  BY <1>1, <1>2
    <3> QED BY ONLY <3>1, <3>2, <1>1, <1>2
  <2> QED BY <1>1, <1>2, <2>1, <2>2
<1> QED BY <1>1, <1>2, <1>3 DEF d, i, Slot

LEMMA PageAt ==
    ASSUME NEW d \in Slot, NEW i \in Slot
    PROVE  d * T + i \in Page /\ (d * T + i) \div T = d /\ (d * T + i) % T = i
<1>1. T \in Nat /\ T > 0 /\ d \in Nat /\ i \in 0..(T-1) /\ d < T
  BY Numbers DEF Slot
<1>2. (d * T + i) \div T = d /\ (d * T + i) % T = i  BY <1>1, DivUnique
<1>3. d * T + T <= T * T  BY <1>1, Grows
<1>4. d * T \in Nat /\ T * T \in Nat  BY <1>1
<1>5. d * T + i \in Page  BY ONLY <1>1, <1>3, <1>4 DEF Page
<1> QED BY <1>2, <1>5

(* The pages through which the code reaches the tables.                    *)
LEMMA Windows ==
    /\ DirPage \in Page /\ DirPage \div T = KernelDir /\ DirPage % T = DirFrame
    /\ ScratchPage \in Page /\ ScratchPage \div T = KernelDir
    /\ ScratchPage % T = ScratchSlot
    /\ \A d \in Slot : /\ Window(d) \in Page
                       /\ Window(d) \div T = RecDir /\ Window(d) % T = d
BY Numbers, PageAt DEF DirPage, ScratchPage, Window

-----------------------------------------------------------------------------
(* The machine, and what an access does to it.                             *)
Mach(p, m, l, tb, w) ==
    [pmm_frames |-> p, mem |-> m, tlb |-> l, tables |-> tb, wild |-> w]

Tame(w) == w = FALSE

WordPut(m, frame, slot, word) == [m EXCEPT ![frame][slot] = word]
Blank == [slot \in Slot |-> NotPresent]

LEMMA WordPutIs ==
    ASSUME NEW m \in Memory, NEW frame \in Bits, NEW slot \in Slot, NEW word \in Word
    PROVE  /\ WordPut(m, frame, slot, word) \in Memory
           /\ \A f \in Bits, x \in Slot : WordPut(m, frame, slot, word)[f][x]
                  = IF f = frame /\ x = slot THEN word ELSE m[f][x]
<1> DEFINE row == [m[frame] EXCEPT ![slot] = word]
<1>1. m[frame] \in Row  BY DEF Memory
<1>2. row \in Row  BY <1>1 DEF Row
<1>3. \A x \in Slot : row[x] = IF x = slot THEN word ELSE m[frame][x]
  BY <1>1 DEF Row
<1>4. WordPut(m, frame, slot, word) = [m EXCEPT ![frame] = row]
  BY DEF WordPut
<1> HIDE DEF row
<1>5. [m EXCEPT ![frame] = row] \in Memory  BY <1>2 DEF Memory
<1>6. \A f \in Bits : [m EXCEPT ![frame] = row][f] = IF f = frame THEN row ELSE m[f]
  BY DEF Memory
<1> QED BY <1>3, <1>4, <1>5, <1>6

LEMMA TranslateIs ==
    ASSUME NEW p, NEW m, NEW l, NEW tb, NEW w, NEW page
    PROVE  Translate(Mach(p, m, l, tb, w), page)
              = IF l[page] # NotPresent THEN l[page] ELSE Walk(m, page)
BY DEF Translate, Mach

LEMMA ReadIs ==
    ASSUME NEW p, NEW m, NEW l, NEW tb, NEW w, NEW page, NEW slot, NEW t,
           Translate(Mach(p, m, l, tb, w), page) = t, t # NotPresent
    PROVE  Read(Mach(p, m, l, tb, w), page, slot) = m[t][slot]
BY DEF Read, Mach

LEMMA LoadIs ==
    ASSUME NEW p, NEW m, NEW l, NEW tb, NEW w, NEW page, NEW t,
           Translate(Mach(p, m, l, tb, w), page) = t, t # NotPresent
    PROVE  Load(Mach(p, m, l, tb, w), page)
              = Mach(p, m, [l EXCEPT ![page] = t], tb, w)
BY DEF Load, Mach

LEMMA StoreIs ==
    ASSUME NEW p, NEW m, NEW l, NEW tb, NEW w, NEW page, NEW slot, NEW word, NEW t,
           Translate(Mach(p, m, l, tb, w), page) = t, t # NotPresent
    PROVE  Store(Mach(p, m, l, tb, w), page, slot, word)
              = Mach(p, WordPut(m, t, slot, word), [l EXCEPT ![page] = t], tb, w)
<1>1. Load(Mach(p, m, l, tb, w), page) = Mach(p, m, [l EXCEPT ![page] = t], tb, w)
  BY LoadIs
<1> QED BY <1>1 DEF Store, Mach, WordPut

LEMMA FillIs ==
    ASSUME NEW p, NEW m, NEW l, NEW tb, NEW w, NEW page, NEW t,
           Translate(Mach(p, m, l, tb, w), page) = t, t # NotPresent
    PROVE  Fill(Mach(p, m, l, tb, w), page, NotPresent)
              = Mach(p, [m EXCEPT ![t] = Blank], [l EXCEPT ![page] = t], tb, w)
<1> DEFINE s == Mach(p, m, l, tb, w)
<1>1. Fill(s, page, NotPresent) = [Load(s, page) EXCEPT !.mem[t] = Blank]
  BY Zenon DEF Fill, Blank, Slot
<1>2. [Mach(p, m, [l EXCEPT ![page] = t], tb, w) EXCEPT !.mem[t] = Blank]
         = Mach(p, [m EXCEPT ![t] = Blank], [l EXCEPT ![page] = t], tb, w)
  BY DEF Mach
<1>3. Load(s, page) = Mach(p, m, [l EXCEPT ![page] = t], tb, w)
  BY LoadIs
<1> QED BY <1>1, <1>2, <1>3

-----------------------------------------------------------------------------
(* The part of the tables that paging_initialize sets up for the kernel.   *)
KernelPart(m, tb) ==
    /\ m[DirFrame][KernelDir] = TableFrame
    /\ m[DirFrame][RecDir] = DirFrame
    /\ \A slot \in Slot : m[TableFrame][slot] = slot
    /\ tb[KernelDir].virt_addr = Window(KernelDir)

(* Through it the directory, the kernel's pages and the tables are seen.   *)
LEMMA KernelWalks ==
    ASSUME NEW m, NEW tb, KernelPart(m, tb)
    PROVE  /\ Walk(m, DirPage) = DirFrame
           /\ Walk(m, ScratchPage) = ScratchSlot
           /\ Walk(m, Window(KernelDir)) = TableFrame
           /\ \A d \in Slot : Walk(m, Window(d)) = m[DirFrame][d]
           /\ DirFrame # NotPresent /\ TableFrame # NotPresent
<1>1. DirFrame # NotPresent /\ TableFrame # NotPresent  BY Numbers
<1>2. /\ m[DirFrame][KernelDir] = TableFrame
      /\ m[DirFrame][RecDir] = DirFrame
      /\ m[TableFrame][DirFrame] = DirFrame
      /\ m[TableFrame][ScratchSlot] = ScratchSlot
  BY Numbers DEF KernelPart
<1>3. \A d \in Slot : Walk(m, Window(d)) = m[DirFrame][d]
  BY <1>1, <1>2, Windows DEF Walk
<1>4. Walk(m, DirPage) = DirFrame /\ Walk(m, ScratchPage) = ScratchSlot
  BY <1>1, <1>2, Windows DEF Walk
<1> QED BY <1>1, <1>2, <1>3, <1>4, Numbers

(* The TLB has nothing wrong for the pages through which map_page works on *)
(* table t of directory entry d, and what it has afterwards.               *)
Ready(l, d, t) ==
    /\ l[DirPage] \in {NotPresent, DirFrame}
    /\ l[Window(KernelDir)] \in {NotPresent, TableFrame}
    /\ l[Window(d)] \in {NotPresent, t}

Caches(l2, l, d, t) == \A q \in Page \ {ScratchPage} :
    \/ l2[q] = NotPresent \/ l2[q] = l[q]
    \/ q = DirPage /\ l2[q] = DirFrame
    \/ q = Window(KernelDir) /\ l2[q] = TableFrame
    \/ q = Window(d) /\ l2[q] = t

(* map_page first reads the directory, which the TLB remembers.            *)
DirCached(l) == [l EXCEPT ![DirPage] = DirFrame]

LEMMA ReadsDirectory ==
    ASSUME NEW p, NEW m \in Memory, NEW l \in TLB, NEW tb, NEW w, NEW d \in Slot,
           KernelPart(m, tb), l[DirPage] \in {NotPresent, DirFrame}
    PROVE  /\ DirCached(l) \in TLB
           /\ DirCached(l)[DirPage] = DirFrame
           /\ \A page \in Page \ {DirPage} : DirCached(l)[page] = l[page]
           /\ Load(Mach(p, m, l, tb, w), DirPage) = Mach(p, m, DirCached(l), tb, w)
           /\ Read(Mach(p, m, DirCached(l), tb, w), DirPage, d) = m[DirFrame][d]
<1> DEFINE l1 == DirCached(l)
<1>1. DirFrame \in Word /\ DirFrame # NotPresent /\ DirPage \in Page
  BY Numbers, Windows DEF Word
<1>2. /\ l1 \in TLB /\ l1[DirPage] = DirFrame
      /\ \A page \in Page \ {DirPage} : l1[page] = l[page]
  BY <1>1 DEF TLB, DirCached
<1>3. Translate(Mach(p, m, l, tb, w), DirPage) = DirFrame
  BY KernelWalks, TranslateIs
<1> HIDE DEF l1
<1>4. Translate(Mach(p, m, l1, tb, w), DirPage) = DirFrame
  BY <1>1, <1>2, TranslateIs
<1>5. Load(Mach(p, m, l, tb, w), DirPage) = Mach(p, m, l1, tb, w)
  BY <1>1, <1>3, LoadIs DEF l1, DirCached
<1>6. Read(Mach(p, m, l1, tb, w), DirPage, d) = m[DirFrame][d]
  BY <1>1, <1>4, ReadIs
<1> QED BY <1>2, <1>5, <1>6 DEF l1

(* The last write of map_page: the entry of the page in its table.         *)
LEMMA EntersPage ==
    ASSUME NEW p, NEW m \in Memory, NEW l \in TLB, NEW tb, NEW w, NEW page \in Page,
           NEW word \in Word, NEW t \in Bits,
           KernelPart(m, tb), m[DirFrame][page \div T] = t,
           tb[page \div T].virt_addr = Window(page \div T),
           l[Window(page \div T)] \in {NotPresent, t}
    PROVE  \E l2 \in TLB :
              /\ invlpg(Store(Mach(p, m, l, tb, w), tb[page \div T].virt_addr,
                              page % T, word), page)
                    = Mach(p, WordPut(m, t, page % T, word), l2, tb, w)
              /\ Caches(l2, l, page \div T, t) /\ l2[page] = NotPresent
              /\ page # ScratchPage => l2[ScratchPage] = l[ScratchPage]
<1> DEFINE d == page \div T
           i == page % T
           l1 == [l EXCEPT ![Window(d)] = t]
           l2 == [l1 EXCEPT ![page] = NotPresent]
<1>1. d \in Slot /\ i \in Slot /\ Window(d) \in Page  BY PageParts, Windows
<1>2. t # NotPresent /\ t \in Word  BY Numbers DEF Word
<1>3. Translate(Mach(p, m, l, tb, w), Window(d)) = t
  BY <1>1, KernelWalks, TranslateIs
<1>4. l1 \in TLB  BY <1>1, <1>2 DEF TLB
<1>5. l2 \in TLB  BY <1>4 DEF TLB, Word
<1>6. Store(Mach(p, m, l, tb, w), Window(d), i, word)
         = Mach(p, WordPut(m, t, i, word), l1, tb, w)
  BY <1>2, <1>3, StoreIs
<1>7. /\ l2[page] = NotPresent
      /\ \A q \in Page \ {page, Window(d)} : l2[q] = l[q]
      /\ l2[Window(d)] \in {NotPresent, t}
  BY <1>1, <1>4 DEF TLB
<1>8. Window(d) # ScratchPage /\ ScratchPage \in Page
  BY <1>1, Windows, Numbers
<1> HIDE DEF d, i, l1
<1>9. invlpg(Mach(p, WordPut(m, t, i, word), l1, tb, w), page)
         = Mach(p, WordPut(m, t, i, word), l2, tb, w)
  BY DEF invlpg, Mach
<1> HIDE DEF l2
<1>10. Caches(l2, l, d, t)  BY <1>7 DEF Caches
<1> QED BY <1>5, <1>6, <1>7, <1>8, <1>9, <1>10 DEF d, i

EntersIn(p, m, l, tb, w, page, frame, t) == \E l2 \in TLB :
    /\ map_page(Mach(p, m, l, tb, w), page, frame)
          = Mach(p, WordPut(m, t, page % T, frame), l2, tb, w)
    /\ Caches(l2, l, page \div T, t) /\ l2[page] = NotPresent
    /\ page # ScratchPage => l2[ScratchPage] = l[ScratchPage]

LEMMA MapPresent ==
    ASSUME NEW p, NEW m \in Memory, NEW l \in TLB, NEW tb, NEW w, NEW page \in Page,
           NEW frame \in Bits, NEW t \in Bits, Tame(w),
           KernelPart(m, tb), m[DirFrame][page \div T] = t,
           tb[page \div T].virt_addr = Window(page \div T),
           Ready(l, page \div T, t)
    PROVE  EntersIn(p, m, l, tb, w, page, frame, t)
<1> DEFINE d == page \div T
           l1 == DirCached(l)
           s1 == Mach(p, m, l1, tb, w)
<1>1. d \in Slot  BY PageParts
<1>2. /\ l1 \in TLB
      /\ Load(Mach(p, m, l, tb, w), DirPage) = s1
      /\ Read(s1, DirPage, d) = m[DirFrame][d]
      /\ \A q \in Page \ {DirPage} : l1[q] = l[q]
  <2>1. l[DirPage] \in {NotPresent, DirFrame} /\ d \in Slot  BY <1>1 DEF Ready
  <2> HIDE DEF d
  <2> QED BY ONLY <2>1, ReadsDirectory, m \in Memory, l \in TLB, KernelPart(m, tb)
<1>3. t # NotPresent /\ frame # NoFrame  BY Numbers
<1>4. ~s1.wild /\ s1.tables = tb  BY DEF Mach, Tame
<1>5. l1[Window(d)] \in {NotPresent, t}
  BY <1>1, <1>2, Numbers, Windows DEF Ready
<1>6. PICK l2 \in TLB :
        /\ invlpg(Store(s1, tb[d].virt_addr, page % T, frame), page)
              = Mach(p, WordPut(m, t, page % T, frame), l2, tb, w)
        /\ Caches(l2, l1, d, t) /\ l2[page] = NotPresent
        /\ page # ScratchPage => l2[ScratchPage] = l1[ScratchPage]
  <2>1. /\ KernelPart(m, tb) /\ m[DirFrame][page \div T] = t
        /\ tb[page \div T].virt_addr = Window(page \div T)
        /\ l1 \in TLB /\ l1[Window(page \div T)] \in {NotPresent, t}
        /\ frame \in Word
    BY <1>2, <1>5 DEF Word
  <2> HIDE DEF l1
  <2> QED BY <2>1, EntersPage
<1>7. map_page(Mach(p, m, l, tb, w), page, frame)
         = invlpg(Store(s1, tb[d].virt_addr, page % T, frame), page)
  <2> HIDE DEF s1
  <2> QED BY <1>2, <1>3, <1>4 DEF map_page
<1>8. Caches(l2, l, d, t)
  <2>1. l1[DirPage] = DirFrame  BY <1>1, ReadsDirectory DEF Ready
  <2> HIDE DEF l1, d
  <2> QED BY <1>2, <1>6, <2>1 DEF Caches
<1>9. l1[ScratchPage] = l[ScratchPage]
  BY <1>2, Windows, Numbers
<1> QED BY <1>6, <1>7, <1>8, <1>9 DEF EntersIn

-----------------------------------------------------------------------------
(* TableFor takes the next free frame: it never is the frame to be mapped, *)
(* whose bit is set already.  With no frame left the bitmap stays as it is.*)
LEMMA TableForIs ==
    ASSUME NEW p \in Bitmaps(Bytes), NEW frame \in Bits, frame \notin FreeFrames(p)
    PROVE  TableFor(p, frame) = [frame |-> alloc_frame(p), frames |-> after_alloc(p)]
<1>1. alloc_frame(p) # frame  BY Numbers, AllocFrame
<1> QED BY <1>1 DEF TableFor

LEMMA TableForNone ==
    ASSUME NEW p \in Bitmaps(Bytes), FreeFrames(p) = {}
    PROVE  TableFor(p, NoFrame) = [frame |-> NoFrame, frames |-> p]
<1>1. alloc_frame(p) = NoFrame /\ after_alloc(p) = p  BY Numbers, AllocFrame
<1>2. NoFrame \div W \notin DOMAIN p
  <2> DEFINE q == NoFrame \div W
             r == NoFrame % W
  <2>1. q \in Int /\ r \in 0..(W-1) /\ NoFrame = q * W + r
    BY WAssumption DEF NoFrame
  <2> HIDE DEF q, r
  <2>2. q \notin Nat
    <3> SUFFICES ASSUME q \in Nat PROVE FALSE  OBVIOUS
    <3>1. q * W \in Nat  BY WAssumption
    <3> QED BY <3>1, <2>1, WAssumption DEF NoFrame
  <2>3. q \notin 0..(Bytes-1)  BY <2>2
  <2> QED BY <2>3 DEF q, Bitmaps
<1>3. free_frame(p, NoFrame) = p
  <2> DEFINE j == NoFrame \div W
  <2>1. j \notin DOMAIN p  BY <1>2
  <2> HIDE DEF j
  <2>2. [p EXCEPT ![j] = @ \ {NoFrame % W}] = p  BY <2>1 DEF Bitmaps
  <2> QED BY <2>2 DEF free_frame, clear_bit, j
<1> QED BY <1>1, <1>3 DEF TableFor

TakesFrame(p, frame, nf, p2) == TableFor(p, frame) = [frame |-> nf, frames |-> p2]

(* A new table in frame nf for directory entry d: noted in the array of    *)
(* tables, entered in the directory, all its entries empty or all but one. *)
Noted(tb, d, nf) == [tb EXCEPT ![d] = [virt_addr |-> Window(d), phys_addr |-> nf]]

TableMade(m2, m, d, nf, u) == \A f \in Bits, x \in Slot : m2[f][x] =
    IF f = DirFrame /\ x = d THEN nf ELSE IF f = u THEN NotPresent ELSE m[f][x]

TableMadeWith(m2, m, d, nf, u, slot, frame) == \A f \in Bits, x \in Slot : m2[f][x] =
    IF f = DirFrame /\ x = d THEN nf ELSE IF f = nf /\ x = slot THEN frame
    ELSE IF f = u THEN NotPresent ELSE m[f][x]

(* map_page creates a page table: the new frame is cleared through the     *)
(* scratch slot, which then maps again what it mapped before.  When the    *)
(* TLB has a translation of the scratch page already, it is the frame u    *)
(* there that is cleared.                                                  *)
Cleared(u, l, nf) == u = IF l[ScratchPage] = NotPresent THEN nf ELSE l[ScratchPage]

LEMMA CreatesTable ==
    ASSUME NEW p, NEW p2, NEW m \in Memory, NEW l \in TLB, NEW tb \in [Slot -> Table],
           NEW w, NEW d \in Slot \ {KernelDir, RecDir}, NEW frame,
           NEW nf \in Bits \ Slot, NEW u \in Bits \ Slot,
           TakesFrame(p, frame, nf, p2),
           KernelPart(m, tb), Ready(l, d, NotPresent),
           Cleared(u, l, nf)
    PROVE  \E m2 \in Memory, l2 \in TLB :
             /\ CreateTable(Mach(p, m, l, tb, w), d, frame)
                   = Mach(p2, m2, l2, Noted(tb, d, nf), w)
             /\ KernelPart(m2, Noted(tb, d, nf))
             /\ l2[Window(d)] = NotPresent
             /\ TableMade(m2, m, d, nf, u)
             /\ Caches(l2, l, d, nf) /\ l2[ScratchPage] = u
<1> DEFINE kernel == Window(KernelDir)
           new == [virt_addr |-> Window(d), phys_addr |-> nf]
           tb2 == [tb EXCEPT ![d] = new]
           m1 == WordPut(m, TableFrame, ScratchSlot, nf)
           l1 == [l EXCEPT ![kernel] = TableFrame]
           m2 == [m1 EXCEPT ![u] = Blank]
           l2 == [l1 EXCEPT ![ScratchPage] = u]
           m3 == WordPut(m2, DirFrame, d, nf)
           l3 == [l2 EXCEPT ![DirPage] = DirFrame]
           m4 == WordPut(m3, TableFrame, ScratchSlot, ScratchSlot)
           l4 == [l3 EXCEPT ![kernel] = TableFrame]
<1>1. /\ kernel \in Page /\ DirPage \in Page /\ ScratchPage \in Page
      /\ Window(d) \in Page /\ nf \in Bits /\ nf \notin Slot /\ d \in Slot
      /\ kernel # DirPage /\ kernel # ScratchPage /\ DirPage # ScratchPage
      /\ Window(d) # kernel /\ Window(d) # DirPage /\ Window(d) # ScratchPage
  BY Numbers, Windows
<1>2. /\ TableFrame \in Word /\ DirFrame \in Word /\ nf \in Word /\ nf # NotPresent
      /\ TableFrame # NotPresent /\ DirFrame # NotPresent /\ ScratchSlot \in Word
      /\ TableFrame \in Bits /\ DirFrame \in Bits /\ NotPresent \in Word
      /\ TableFrame # nf /\ DirFrame # nf /\ TableFrame # DirFrame
      /\ TableFrame # u /\ DirFrame # u /\ u \in Word /\ u # NotPresent
      /\ l[DirPage] \in {NotPresent, DirFrame} /\ l[kernel] \in {NotPresent, TableFrame}
      /\ l[Window(d)] = NotPresent
  BY <1>1, Numbers DEF Word, Ready
<1>3. /\ l1 \in TLB /\ l1[DirPage] = l[DirPage] /\ l1[ScratchPage] = l[ScratchPage]
      /\ l1[kernel] = TableFrame /\ l1[Window(d)] = NotPresent
      /\ \A q \in Page \ {kernel} : l1[q] = l[q]
  BY <1>1, <1>2 DEF TLB
<1> HIDE DEF l1
<1>4. /\ l2 \in TLB /\ l2[DirPage] = l[DirPage] /\ l2[ScratchPage] = u
      /\ l2[kernel] = TableFrame /\ l2[Window(d)] = NotPresent
      /\ \A q \in Page \ {kernel, ScratchPage} : l2[q] = l[q]
  BY <1>1, <1>2, <1>3 DEF TLB
<1> HIDE DEF l2
<1>5. /\ l3 \in TLB /\ l3[kernel] = TableFrame /\ l3[Window(d)] = NotPresent
      /\ l3[ScratchPage] = u /\ l3[DirPage] = DirFrame
      /\ \A q \in Page \ {kernel, ScratchPage, DirPage} : l3[q] = l[q]
  BY <1>1, <1>2, <1>4 DEF TLB
<1> HIDE DEF l3
<1>6. /\ l4 \in TLB /\ l4[Window(d)] = NotPresent /\ l4[ScratchPage] = u
      /\ l4[kernel] = TableFrame /\ l4[DirPage] = DirFrame
      /\ \A q \in Page \ {kernel, ScratchPage, DirPage} : l4[q] = l[q]
  BY <1>1, <1>2, <1>5 DEF TLB
<1> HIDE DEF l4
<1>7. /\ m1 \in Memory
      /\ \A f \in Bits, x \in Slot : m1[f][x]
            = IF f = TableFrame /\ x = ScratchSlot THEN nf ELSE m[f][x]
  BY <1>2, Numbers, WordPutIs
<1> HIDE DEF m1
<1>8. /\ m2 \in Memory
      /\ \A f \in Bits, x \in Slot : m2[f][x]
            = IF f = u THEN NotPresent ELSE m1[f][x]
  <2>1. Blank \in Row /\ \A x \in Slot : Blank[x] = NotPresent
    BY <1>2 DEF Blank, Row
  <2> QED BY <1>1, <1>7, <2>1 DEF Memory
<1> HIDE DEF m2
<1>9. /\ m3 \in Memory
      /\ \A f \in Bits, x \in Slot : m3[f][x]
            = IF f = DirFrame /\ x = d THEN nf ELSE m2[f][x]
  BY <1>1, <1>2, <1>8, WordPutIs
<1> HIDE DEF m3
<1>10. /\ m4 \in Memory
       /\ \A f \in Bits, x \in Slot : m4[f][x]
             = IF f = TableFrame /\ x = ScratchSlot THEN ScratchSlot ELSE m3[f][x]
  <2>1. /\ m3 \in Memory /\ TableFrame \in Bits /\ ScratchSlot \in Slot
        /\ ScratchSlot \in Word
    BY <1>2, <1>9, Numbers
  <2> HIDE DEF Slot
  <2> QED BY ONLY <2>1, WordPutIs
<1> HIDE DEF m4
<1>11. /\ m[DirFrame][KernelDir] = TableFrame /\ m[DirFrame][RecDir] = DirFrame
       /\ \A slot \in Slot : m[TableFrame][slot] = slot
       /\ tb[KernelDir].virt_addr = kernel
  BY DEF KernelPart
<1>12. \A f \in Bits, x \in Slot : m4[f][x] =
          IF f = DirFrame /\ x = d THEN nf
          ELSE IF f = u THEN NotPresent ELSE m[f][x]
  BY <1>2, <1>7, <1>8, <1>9, <1>10, <1>11, Numbers
<1>13. KernelPart(m4, tb2)
  <2>1. m4[DirFrame][KernelDir] = TableFrame /\ m4[DirFrame][RecDir] = DirFrame
    BY <1>2, <1>11, <1>12, Numbers
  <2>2. \A slot \in Slot : m4[TableFrame][slot] = slot
    BY <1>2, <1>11, <1>12
  <2>3. tb2[KernelDir] = tb[KernelDir]
    BY Numbers
  <2> QED BY <2>1, <2>2, <2>3, <1>11 DEF KernelPart
<1> DEFINE s1 == Mach(p2, m, l, tb, w)
           s2 == Mach(p2, m1, l1, tb, w)
           s3 == Mach(p2, m2, l2, tb, w)
           s4 == Mach(p2, m3, l3, tb, w)
           s5 == Mach(p2, m3, l3, tb2, w)
           s6 == Mach(p2, m4, l4, tb2, w)
<1>14. s2 = Store(s1, kernel, ScratchSlot, nf)
  <2>1. Translate(s1, kernel) = TableFrame
    BY <1>2, KernelWalks, TranslateIs
  <2> QED BY <1>2, <2>1, StoreIs DEF l1, m1
<1>15. s3 = Fill(s2, ScratchPage, NotPresent)
  <2>1. Walk(m1, ScratchPage) = nf
    BY <1>2, <1>7, <1>11, Numbers, Windows DEF Walk
  <2>2. Translate(s2, ScratchPage) = u
    BY <1>3, <2>1, TranslateIs DEF Cleared
  <2> QED BY <1>2, <2>2, FillIs DEF l2, m2
<1>16. s4 = Store(s3, DirPage, d, nf)
  <2>1. Walk(m2, DirPage) = DirFrame
    BY <1>2, <1>7, <1>8, <1>11, Numbers, Windows DEF Walk
  <2>2. Translate(s3, DirPage) = DirFrame
    BY <1>2, <1>4, <2>1, TranslateIs
  <2> QED BY <1>2, <2>2, StoreIs DEF l3, m3
<1>17. s5 = [s4 EXCEPT !.tables[d] = new]
  BY DEF Mach
<1>18. s6 = Store(s5, kernel, ScratchSlot, ScratchSlot)
  <2>1. Translate(s5, kernel) = TableFrame
    BY <1>2, <1>5, TranslateIs
  <2> QED BY <1>2, <2>1, StoreIs DEF l4, m4
<1>19. Read(Mach(p, m, l, tb, w), kernel, ScratchSlot) = ScratchSlot
  <2>1. Translate(Mach(p, m, l, tb, w), kernel) = TableFrame
    BY <1>2, KernelWalks, TranslateIs
  <2> QED BY <1>2, <1>11, <2>1, ReadIs, Numbers
<1>20. CreateTable(Mach(p, m, l, tb, w), d, frame) = s6
  <2> DEFINE s == Mach(p, m, l, tb, w)
             made == [frame |-> nf, frames |-> p2]
  <2>1. /\ s.pmm_frames = p /\ s.tables[KernelDir].virt_addr = kernel
        /\ [s EXCEPT !.pmm_frames = p2] = s1
    BY <1>11 DEF Mach
  <2>2. nf # NoFrame  BY Numbers
  <2>3. Read(s, kernel, ScratchSlot) = ScratchSlot  BY <1>19
  <2>4. TableFor(s.pmm_frames, frame).frame = nf
        /\ TableFor(s.pmm_frames, frame).frames = p2
    BY <2>1 DEF TakesFrame
  <2> HIDE DEF s, s1, s2, s3, s4, s5, s6, kernel, new
  <2>5. CreateTable(s, d, frame) =
          Store([s4 EXCEPT !.tables[d] =
                    [virt_addr |-> Window(d), phys_addr |-> nf]],
                kernel, ScratchSlot, ScratchSlot)
    BY <1>14, <1>15, <1>16, <2>1, <2>2, <2>3, <2>4, Zenon DEF CreateTable
  <2>6. CreateTable(s, d, frame)
           = Store([s4 EXCEPT !.tables[d] = new], kernel, ScratchSlot, ScratchSlot)
    BY <2>5 DEF new
  <2>7. CreateTable(s, d, frame) = s6
    BY ONLY <1>17, <1>18, <2>6, Zenon
  <2> QED BY <2>7 DEF s
<1> HIDE DEF s6
<1>21. Noted(tb, d, nf) = tb2  BY DEF Noted
<1>22. TableMade(m4, m, d, nf, u)  BY <1>12 DEF TableMade
<1>23. Caches(l4, l, d, nf)
  <2> QED BY <1>6 DEF Caches
<1> HIDE DEF tb2
<1> QED BY <1>6, <1>10, <1>13, <1>20, <1>21, <1>22, <1>23 DEF s6

(* map_page for a page whose table does not exist yet.                     *)
LEMMA MapCreates ==
    ASSUME NEW p, NEW p2, NEW m \in Memory, NEW l \in TLB, NEW tb \in [Slot -> Table],
           NEW w, NEW page \in Page, NEW frame \in Bits, NEW nf \in Bits \ Slot,
           NEW u \in Bits \ Slot, Tame(w), KernelPart(m, tb),
           page \div T \notin {KernelDir, RecDir},
           m[DirFrame][page \div T] = NotPresent,
           TakesFrame(p, frame, nf, p2),
           Ready(l, page \div T, NotPresent), Cleared(u, l, nf)
    PROVE  \E m2 \in Memory, l2 \in TLB :
             /\ map_page(Mach(p, m, l, tb, w), page, frame)
                   = Mach(p2, m2, l2, Noted(tb, page \div T, nf), w)
             /\ KernelPart(m2, Noted(tb, page \div T, nf))
             /\ TableMadeWith(m2, m, page \div T, nf, u, page % T, frame)
             /\ Caches(l2, l, page \div T, nf) /\ l2[page] = NotPresent
             /\ page # ScratchPage => l2[ScratchPage] = u
<1> DEFINE d == page \div T
           i == page % T
           tb2 == Noted(tb, d, nf)
           l1 == DirCached(l)
           s1 == Mach(p, m, l1, tb, w)
<1>1. d \in Slot /\ i \in Slot /\ d # KernelDir /\ d # RecDir  BY PageParts
<1>2. /\ l1 \in TLB
      /\ Load(Mach(p, m, l, tb, w), DirPage) = s1
      /\ Read(s1, DirPage, d) = m[DirFrame][d]
      /\ l1[DirPage] = DirFrame
      /\ \A q \in Page \ {DirPage} : l1[q] = l[q]
  <2>1. d \in Slot  BY <1>1
  <2>2. l[DirPage] \in {NotPresent, DirFrame}  BY DEF Ready
  <2> HIDE DEF d
  <2>3. /\ DirCached(l) \in TLB
        /\ DirCached(l)[DirPage] = DirFrame
        /\ \A q \in Page \ {DirPage} : DirCached(l)[q] = l[q]
        /\ Load(Mach(p, m, l, tb, w), DirPage) = Mach(p, m, DirCached(l), tb, w)
        /\ Read(Mach(p, m, DirCached(l), tb, w), DirPage, d) = m[DirFrame][d]
    BY ONLY <2>1, <2>2, ReadsDirectory, m \in Memory, l \in TLB, KernelPart(m, tb)
  <2> QED BY <2>3
<1>3. Ready(l1, d, NotPresent) /\ Cleared(u, l1, nf)
  <2>1. l1[ScratchPage] = l[ScratchPage] /\ l1[Window(KernelDir)] = l[Window(KernelDir)]
        /\ l1[Window(d)] = l[Window(d)]
    BY <1>1, <1>2, Numbers, Windows
  <2> HIDE DEF l1
  <2> QED BY <1>2, <2>1 DEF Ready, Cleared
<1>4. PICK m2 \in Memory, l2 \in TLB :
        /\ CreateTable(s1, d, frame) = Mach(p2, m2, l2, tb2, w)
        /\ KernelPart(m2, tb2)
        /\ l2[Window(d)] = NotPresent
        /\ TableMade(m2, m, d, nf, u)
        /\ Caches(l2, l1, d, nf) /\ l2[ScratchPage] = u
  <2>1. d \in Slot \ {KernelDir, RecDir}  BY <1>1
  <2> HIDE DEF l1, d
  <2>2. KernelPart(m, tb) /\ TakesFrame(p, frame, nf, p2) /\ m \in Memory
        /\ l1 \in TLB /\ tb \in [Slot -> Table] /\ nf \in Bits \ Slot /\ u \in Bits \ Slot
    BY <1>2
  <2> QED BY ONLY <1>3, <2>1, <2>2, CreatesTable
<1> DEFINE s2 == Mach(p2, m2, l2, tb2, w)
           m3 == WordPut(m2, nf, i, frame)
<1>5. nf # DirFrame /\ nf # TableFrame /\ nf \in Word /\ frame \in Word /\ NotPresent \in Word
      /\ DirFrame \in Bits /\ TableFrame \in Bits
  BY Numbers DEF Word
<1>6. m2[DirFrame][d] = nf  BY <1>1, <1>4, <1>5 DEF TableMade
<1>7. tb2[d].virt_addr = Window(d)  BY <1>1 DEF Noted
<1>8. PICK l3 \in TLB :
        /\ invlpg(Store(s2, tb2[d].virt_addr, i, frame), page) = Mach(p2, m3, l3, tb2, w)
        /\ Caches(l3, l2, d, nf) /\ l3[page] = NotPresent
        /\ page # ScratchPage => l3[ScratchPage] = u
  <2> HIDE DEF tb2
  <2>1. m2 \in Memory /\ l2 \in TLB /\ page \in Page /\ frame \in Bits /\ nf \in Bits
        /\ KernelPart(m2, tb2) /\ l2[Window(d)] \in {NotPresent, nf} /\ l2[ScratchPage] = u
        /\ frame \in Word
    BY <1>4, <1>5
  <2> QED BY ONLY <1>6, <1>7, <2>1, EntersPage
<1>9. /\ m3 \in Memory
      /\ \A f \in Bits, x \in Slot : m3[f][x]
            = IF f = nf /\ x = i THEN frame ELSE m2[f][x]
  BY <1>1, <1>5, WordPutIs
<1> HIDE DEF m3
<1>10. TableMadeWith(m3, m, d, nf, u, i, frame)
  <2> HIDE DEF d, i
  <2> QED BY <1>4, <1>5, <1>9 DEF TableMade, TableMadeWith
<1>11. KernelPart(m3, tb2)
  <2> HIDE DEF tb2
  <2>1. \A f \in {DirFrame, TableFrame}, x \in Slot : m3[f][x] = m2[f][x]
    BY <1>5, <1>9
  <2> QED BY <1>4, <2>1, Numbers DEF KernelPart
<1>12. map_page(Mach(p, m, l, tb, w), page, frame)
          = invlpg(Store(s2, tb2[d].virt_addr, i, frame), page)
  <2>1. ~s2.wild /\ s2.tables = tb2  BY DEF Mach, Tame
  <2>2. CreateTable(s1, d, frame) = s2  BY <1>4
  <2>3. frame # NoFrame  BY Numbers
  <2> HIDE DEF s1, s2, tb2
  <2> QED BY <1>2, <2>1, <2>2, <2>3 DEF map_page
<1>13. Caches(l3, l, d, nf)
  <2> HIDE DEF l1, d
  <2> QED BY <1>2, <1>4, <1>8 DEF Caches
<1> HIDE DEF tb2, s2
<1> QED BY <1>8, <1>9, <1>10, <1>11, <1>12, <1>13 DEF tb2

(* map_page without a frame for the page, or for its table.                *)
LEMMA MapFails ==
    ASSUME NEW p, NEW m \in Memory, NEW l \in TLB, NEW tb, NEW w,
           NEW page \in Page, NEW frame, KernelPart(m, tb),
           l[DirPage] \in {NotPresent, DirFrame},
           \/ TableFor(p, frame).frame = NoFrame /\ m[DirFrame][page \div T] = NotPresent
           \/ frame = NoFrame /\ m[DirFrame][page \div T] # NotPresent
    PROVE  \E l2 \in TLB : map_page(Mach(p, m, l, tb, w), page, frame) = Lost(
               Mach(IF m[DirFrame][page \div T] = NotPresent
                    THEN TableFor(p, frame).frames ELSE p, m, l2, tb, w))
<1> DEFINE d == page \div T
           l1 == DirCached(l)
           s1 == Mach(p, m, l1, tb, w)
<1>1. d \in Slot  BY PageParts
<1>2. /\ l1 \in TLB
      /\ Load(Mach(p, m, l, tb, w), DirPage) = s1
      /\ Read(s1, DirPage, d) = m[DirFrame][d]
  BY ONLY <1>1, ReadsDirectory, m \in Memory, l \in TLB, KernelPart(m, tb),
          l[DirPage] \in {NotPresent, DirFrame}
<1>3. CASE m[DirFrame][d] # NotPresent
  <2>1. map_page(Mach(p, m, l, tb, w), page, frame) = Lost(s1)
    <3> HIDE DEF s1
    <3> QED BY <1>2, <1>3 DEF map_page
  <2> QED BY <1>2, <1>3, <2>1
<1>4. CASE m[DirFrame][d] = NotPresent
  <2> DEFINE p2 == TableFor(p, frame).frames
             s2 == Lost(Mach(p2, m, l1, tb, w))
  <2>1. TableFor(p, frame).frame = NoFrame  BY <1>4
  <2>2. s1.pmm_frames = p /\ [s1 EXCEPT !.pmm_frames = p2] = Mach(p2, m, l1, tb, w)
    BY DEF Mach
  <2>3. CreateTable(s1, d, frame) = s2
    <3> HIDE DEF s1
    <3> QED BY <2>1, <2>2 DEF CreateTable
  <2>4. s2.wild /\ Lost(s2) = s2  BY DEF Lost, Mach
  <2>5. map_page(Mach(p, m, l, tb, w), page, frame) = Lost(s2)
    <3> HIDE DEF s1, s2
    <3> QED BY <1>2, <1>4, <2>3, <2>4 DEF map_page
  <2> QED BY <1>2, <1>4, <2>4, <2>5
<1> QED BY <1>3, <1>4

-----------------------------------------------------------------------------
(* The handler writes CR3 again, so it leaves an empty TLB.                *)
Empty == [page \in Page |-> NotPresent]

LEMMA Flushes ==
    ASSUME NEW p, NEW m, NEW l, NEW tb, NEW w, NEW page
    PROVE  /\ invlpg(write_cr3(Mach(p, m, l, tb, w)), page) = Mach(p, m, Empty, tb, w)
           /\ invlpg(write_cr3(Lost(Mach(p, m, l, tb, w))), page)
                 = Lost(Mach(p, m, Empty, tb, w))
<1>1. [Empty EXCEPT ![page] = NotPresent] = Empty  BY DEF Empty
<1>2. write_cr3(Mach(p, m, l, tb, w)) = Mach(p, m, Empty, tb, w)
  BY DEF write_cr3, Mach, Empty
<1> HIDE DEF Empty
<1>3. invlpg(Mach(p, m, Empty, tb, w), page) = Mach(p, m, Empty, tb, w)
  BY <1>1 DEF invlpg, Mach
<1>4. invlpg(write_cr3(Lost(Mach(p, m, l, tb, w))), page)
         = Lost(invlpg(write_cr3(Mach(p, m, l, tb, w)), page))
  BY DEF write_cr3, invlpg, Lost, Mach
<1> QED BY <1>2, <1>3, <1>4

-----------------------------------------------------------------------------
(* The inductive invariant.  Dirs are the directory entries for which the  *)
(* fault handler creates tables, UserPages the pages of those tables.      *)
Dirs == Slot \ {KernelDir, RecDir}
UserPages == {page \in Page : page \div T \in Dirs}
Free == FreeFrames(pmm_frames)
Allocated == Pool \ Free

(* Whether or not the machine is lost, the kernel's part is as it was.     *)
KernelKept == KernelPart(mem, tables)

FreeInPool == Free \subseteq Pool

(* Each table has a frame of its own and is where the code looks for it.   *)
TablesKept == \A d \in Dirs : mem[DirFrame][d] # NotPresent =>
    /\ mem[DirFrame][d] \in Allocated
    /\ tables[d].virt_addr = Window(d)
    /\ \A e \in Dirs : mem[DirFrame][e] = mem[DirFrame][d] => e = d

(* Each page has a frame of its own, which is not a table.                 *)
PagesKept == \A page \in UserPages : Walk(mem, page) # NotPresent =>
    /\ Walk(mem, page) \in Allocated
    /\ \A d \in Dirs : mem[DirFrame][d] # Walk(mem, page)
    /\ \A other \in UserPages : Walk(mem, other) = Walk(mem, page) => other = page

(* No allocated frame is without use.                                      *)
AllUsed == \A frame \in Allocated :
    \/ \E d \in Dirs : mem[DirFrame][d] = frame
    \/ \E page \in UserPages : Walk(mem, page) = frame

(* The TLB has only pages that running code has touched since the last     *)
(* fault: the handler begins with none of its own windows in it.           *)
TLBKept == \A page \in Page : tlb[page] # NotPresent =>
    page \in Touched /\ tlb[page] = Walk(mem, page)

Inv ==
    /\ TypeOK
    /\ KernelKept
    /\ FreeInPool
    /\ FailsOnlyWhenFull
    /\ TablesKept
    /\ PagesKept
    /\ ~wild => AllUsed
    /\ TLBKept

LEMMA Types ==
    TypeOK <=> /\ pmm_frames \in Bitmaps(Bytes)
               /\ mem \in Memory
               /\ tlb \in TLB
               /\ tables \in [Slot -> Table]
               /\ wild \in BOOLEAN
BY DEF TypeOK, Memory, Row, TLB, Table, Slot

(* The frames that can be handed out are none of the kernel's.             *)
LEMMA PoolFrames == Pool \subseteq Bits \ Slot
<1>1. Pool = (ReleasedBits \ KernelFrames) \cap Bits
  BY Numbers, InitialFree DEF Pool
<1>2. KernelFrames = Slot  BY PagingAssumption DEF Slot
<1> QED BY <1>1, <1>2

LEMMA TouchedPages ==
    /\ Touched \subseteq UserPages
    /\ DirPage \notin Touched /\ ScratchPage \notin Touched
    /\ \A d \in Slot : Window(d) \notin Touched
<1>1. \A page \in Touched : page \in Page /\ page \div T # KernelDir
                            /\ page \div T # RecDir
  BY PagingAssumption
<1>2. \A page \in Page : page \div T \in Slot  BY PageParts
<1> QED BY <1>1, <1>2, Windows DEF UserPages, Dirs

LEMMA MachineIs == Machine = Mach(pmm_frames, mem, tlb, tables, wild)
BY DEF Machine, Mach

LEMMA BecomesMach ==
    ASSUME NEW p, NEW m, NEW l, NEW tb, NEW w
    PROVE  /\ Becomes(Mach(p, m, l, tb, w)) <=>
                 /\ pmm_frames' = p /\ mem' = m /\ tlb' = l
                 /\ tables' = tb /\ wild' = w
           /\ Becomes(Lost(Mach(p, m, l, tb, w))) <=>
                 /\ pmm_frames' = p /\ mem' = m /\ tlb' = l
                 /\ tables' = tb /\ wild' = TRUE
BY DEF Becomes, Mach, Lost

-----------------------------------------------------------------------------
(* The three outcomes of a fault: the page is entered in its table, or in  *)
(* a new one, or no frame was left.                                        *)
Enters(page, frame) ==
    /\ mem[DirFrame][page \div T] # NotPresent
    /\ frame \in Free /\ Free' = Free \ {frame}
    /\ mem' = WordPut(mem, mem[DirFrame][page \div T], page % T, frame)
    /\ tables' = tables

Creates(page, frame, nf) ==
    /\ mem[DirFrame][page \div T] = NotPresent
    /\ frame \in Free /\ nf \in Free \ {frame} /\ Free' = Free \ {frame, nf}
    /\ mem' \in Memory
    /\ TableMadeWith(mem', mem, page \div T, nf, nf, page % T, frame)
    /\ KernelPart(mem', tables')
    /\ tables' = Noted(tables, page \div T, nf)

Fails == mem' = mem /\ tables' = tables /\ Free' = {}

(* The frame and the bitmap with which the handler calls map_page.         *)
LEMMA HandlerIs ==
    ASSUME NEW page, ~wild, PageFault(page)
    PROVE  /\ Becomes(invlpg(write_cr3(map_page(
                 Mach(after_alloc(pmm_frames), mem, tlb, tables, wild),
                 page, alloc_frame(pmm_frames))), page))
           /\ Tame(wild)
<1>1. [Machine EXCEPT !.pmm_frames = after_alloc(@)]
         = Mach(after_alloc(pmm_frames), mem, tlb, tables, wild)
  BY DEF Machine, Mach
<1>2. Machine.pmm_frames = pmm_frames  BY DEF Machine
<1> QED BY <1>1, <1>2 DEF PageFault, page_fault_interrupt_handler, Tame

LEMMA FaultIs ==
    ASSUME Inv, ~wild, NEW page \in Touched, PageFault(page)
    PROVE  /\ pmm_frames' \in Bitmaps(Bytes)
           /\ tlb' = Empty
           /\ \/ wild' = wild /\ \E frame : Enters(page, frame)
              \/ wild' = wild /\ \E frame, nf : Creates(page, frame, nf)
              \/ wild' = TRUE /\ Fails
<1> DEFINE p1 == after_alloc(pmm_frames)
           frame == alloc_frame(pmm_frames)
           s == Mach(p1, mem, tlb, tables, wild)
           d == page \div T
           i == page % T
           t == mem[DirFrame][d]
<1>1. Becomes(invlpg(write_cr3(map_page(s, page, frame)), page)) /\ Tame(wild)
  BY HandlerIs
<1>2. /\ pmm_frames \in Bitmaps(Bytes) /\ mem \in Memory /\ tlb \in TLB
      /\ tables \in [Slot -> Table]
  BY Types DEF Inv
<1>3. /\ page \in Page /\ d \in Dirs /\ d \in Slot /\ i \in Slot
      /\ d \notin {KernelDir, RecDir}
  BY TouchedPages, PageParts DEF UserPages, Dirs
<1>4. /\ tlb[DirPage] = NotPresent /\ tlb[ScratchPage] = NotPresent
      /\ tlb[Window(KernelDir)] = NotPresent /\ tlb[Window(d)] = NotPresent
      /\ Ready(tlb, d, NotPresent) /\ Ready(tlb, d, t)
      /\ \A nf : Cleared(nf, tlb, nf)
  BY <1>3, Numbers, TouchedPages, Windows DEF Inv, TLBKept, Ready, Cleared
<1>5. KernelPart(mem, tables)  BY DEF Inv, KernelKept
<1>6. Bytes \in Nat /\ Pool \subseteq Bits /\ Free \subseteq Pool
  BY Numbers, PoolFrames DEF Inv, FreeInPool
<1>7. /\ p1 \in Bitmaps(Bytes)
      /\ \/ frame \in Free /\ FreeFrames(p1) = Free \ {frame}
         \/ frame = NoFrame /\ Free = {} /\ p1 = pmm_frames
  BY <1>2, <1>6, AllocFrame DEF Free
<1> HIDE DEF p1, frame
(* What is left to show once map_page is known. *)
<1>8. ASSUME NEW p2 \in Bitmaps(Bytes), NEW m2, NEW l2, NEW tb2,
             map_page(s, page, frame) = Mach(p2, m2, l2, tb2, wild)
      PROVE  /\ pmm_frames' = p2 /\ Free' = FreeFrames(p2) /\ mem' = m2
             /\ tables' = tb2 /\ tlb' = Empty /\ wild' = wild
  <2>1. Becomes(Mach(p2, m2, Empty, tb2, wild))  BY <1>1, <1>8, Flushes
  <2> QED BY <2>1, BecomesMach DEF Free, FreeFrames
<1>9. ASSUME NEW p2 \in Bitmaps(Bytes), NEW l2, FreeFrames(p2) = {},
             map_page(s, page, frame) = Lost(Mach(p2, mem, l2, tables, wild))
      PROVE  pmm_frames' = p2 /\ tlb' = Empty /\ wild' = TRUE /\ Fails
  <2>1. Becomes(Lost(Mach(p2, mem, Empty, tables, wild)))
    BY <1>1, <1>9, Flushes
  <2> QED BY <1>9, <2>1, BecomesMach DEF Fails, Free, FreeFrames
<1>10. CASE frame \in Free /\ FreeFrames(p1) = Free \ {frame} /\ t # NotPresent
  <2>1. t \in Bits /\ tables[d].virt_addr = Window(d)
    BY <1>3, <1>6, <1>10 DEF Inv, TablesKept, Allocated
  <2>2. frame \in Bits  BY <1>6, <1>10
  <2>3. \E l2 \in TLB : map_page(s, page, frame)
                           = Mach(p1, WordPut(mem, t, i, frame), l2, tables, wild)
    <3>1. /\ Tame(wild) /\ KernelPart(mem, tables) /\ mem[DirFrame][page \div T] = t
          /\ tables[page \div T].virt_addr = Window(page \div T)
          /\ Ready(tlb, page \div T, t) /\ t \in Bits /\ frame \in Bits
          /\ page \in Page /\ mem \in Memory /\ tlb \in TLB
      BY <1>1, <1>2, <1>3, <1>4, <1>5, <2>1, <2>2
    <3> HIDE DEF t
    <3>2. EntersIn(p1, mem, tlb, tables, wild, page, frame, t)
      BY ONLY <3>1, MapPresent
    <3> QED BY <3>2 DEF EntersIn
  <2>4. PICK l2 \in TLB : map_page(s, page, frame)
                           = Mach(p1, WordPut(mem, t, i, frame), l2, tables, wild)
    BY <2>3
  <2> HIDE DEF s, d, i, t
  <2>5. /\ pmm_frames' = p1 /\ Free' = FreeFrames(p1)
        /\ mem' = WordPut(mem, t, i, frame)
        /\ tables' = tables /\ tlb' = Empty /\ wild' = wild
    BY <1>7, <1>8, <2>4
  <2>6. Enters(page, frame)  BY <1>10, <2>5 DEF Enters, t, d, i
  <2> QED BY <1>7, <2>5, <2>6
<1>11. CASE frame \in Free /\ FreeFrames(p1) = Free \ {frame} /\ t = NotPresent
  <2> DEFINE nf == alloc_frame(p1)
             p2 == after_alloc(p1)
  <2>1. frame \in Bits /\ frame \notin FreeFrames(p1)  BY <1>6, <1>11
  <2>2. TableFor(p1, frame) = [frame |-> nf, frames |-> p2]
    BY <1>7, <2>1, TableForIs
  <2>3. /\ p2 \in Bitmaps(Bytes)
        /\ \/ nf \in FreeFrames(p1) /\ FreeFrames(p2) = FreeFrames(p1) \ {nf}
           \/ nf = NoFrame /\ FreeFrames(p1) = {} /\ p2 = p1
    BY <1>6, <1>7, AllocFrame
  <2> HIDE DEF nf, p2
  <2>4. CASE nf \in FreeFrames(p1) /\ FreeFrames(p2) = FreeFrames(p1) \ {nf}
    <3>1. nf \in Bits \ Slot /\ nf \in Free \ {frame}
          /\ FreeFrames(p2) = Free \ {frame, nf}
      BY <1>6, <1>11, <2>4, PoolFrames
    <3>2. TakesFrame(p1, frame, nf, p2)  BY <2>2 DEF TakesFrame
    <3>3. \E m2 \in Memory, l2 \in TLB :
             /\ map_page(s, page, frame)
                   = Mach(p2, m2, l2, Noted(tables, d, nf), wild)
             /\ KernelPart(m2, Noted(tables, d, nf))
             /\ TableMadeWith(m2, mem, d, nf, nf, i, frame)
      <4>1. /\ Tame(wild) /\ KernelPart(mem, tables) /\ TakesFrame(p1, frame, nf, p2)
            /\ page \div T \notin {KernelDir, RecDir}
            /\ mem[DirFrame][page \div T] = NotPresent
            /\ Ready(tlb, page \div T, NotPresent) /\ Cleared(nf, tlb, nf)
            /\ frame \in Bits /\ nf \in Bits \ Slot /\ page \in Page
            /\ mem \in Memory /\ tlb \in TLB /\ tables \in [Slot -> Table]
        BY <1>1, <1>2, <1>3, <1>4, <1>5, <1>11, <2>1, <3>1, <3>2
      <4> QED BY ONLY <4>1, MapCreates
    <3> HIDE DEF s, d, i, t
    <3>4. PICK m2 \in Memory, l2 \in TLB :
             /\ map_page(s, page, frame)
                   = Mach(p2, m2, l2, Noted(tables, d, nf), wild)
             /\ KernelPart(m2, Noted(tables, d, nf))
             /\ TableMadeWith(m2, mem, d, nf, nf, i, frame)
      BY <3>3
    <3>5. /\ pmm_frames' = p2 /\ Free' = FreeFrames(p2) /\ mem' = m2
          /\ tables' = Noted(tables, d, nf) /\ tlb' = Empty /\ wild' = wild
      BY <1>8, <2>3, <3>4
    <3>6. Creates(page, frame, nf)
      BY <1>11, <3>1, <3>4, <3>5 DEF Creates, t, d, i
    <3> QED BY <2>3, <3>5, <3>6
  <2>5. CASE nf = NoFrame /\ FreeFrames(p1) = {} /\ p2 = p1
    <3>1. TableFor(p1, frame).frame = NoFrame /\ TableFor(p1, frame).frames = p1
      BY <2>2, <2>5
    <3>2. PICK l2 \in TLB :
             map_page(s, page, frame) = Lost(Mach(p1, mem, l2, tables, wild))
      BY <1>2, <1>3, <1>4, <1>5, <1>11, <3>1, MapFails
    <3> QED BY <1>7, <1>9, <2>5, <3>2
  <2> QED BY <2>3, <2>4, <2>5
<1>12. CASE frame = NoFrame /\ Free = {} /\ p1 = pmm_frames
  <2>1. TableFor(p1, frame).frame = NoFrame /\ TableFor(p1, frame).frames = p1
    BY <1>2, <1>12, TableForNone DEF Free
  <2>2. PICK l2 \in TLB :
           map_page(s, page, frame) = Lost(Mach(p1, mem, l2, tables, wild))
    BY <1>2, <1>3, <1>4, <1>5, <1>12, <2>1, MapFails
  <2> QED BY <1>7, <1>9, <1>12, <2>2 DEF Free
<1> QED BY <1>7, <1>10, <1>11, <1>12

-----------------------------------------------------------------------------
(* What both ways of serving a fault have in common, told of the tables    *)
(* and pages and no longer of words: page d's table is in frame nf, the    *)
(* page in frame, and every other page is and contains what it was.        *)
Serves(page, frame, nf) ==
    /\ frame \in Free /\ Free' = Free \ {frame, nf} /\ nf # frame
    /\ \/ nf \in Free /\ mem[DirFrame][page \div T] = NotPresent
       \/ nf \in Allocated /\ mem[DirFrame][page \div T] = nf
    /\ mem' \in Memory /\ tables' \in [Slot -> Table]
    /\ KernelKept'
    /\ \A e \in Dirs : mem'[DirFrame][e]
                          = IF e = page \div T THEN nf ELSE mem[DirFrame][e]
    /\ \A e \in Dirs : e # page \div T => tables'[e] = tables[e]
    /\ tables'[page \div T].virt_addr = Window(page \div T)
    /\ \A q \in UserPages : Walk(mem', q) = IF q = page THEN frame ELSE Walk(mem, q)
    /\ \A q \in UserPages : Walk(mem, q) # NotPresent =>
          mem'[Walk(mem, q)] = mem[Walk(mem, q)]

LEMMA SamePage ==
    ASSUME NEW q \in Page, NEW page \in Page,
           q \div T = page \div T, q % T = page % T
    PROVE  q = page
BY PageParts

LEMMA UserFrames ==
    ASSUME Inv
    PROVE  /\ Free \subseteq Bits \ Slot /\ Allocated \subseteq Bits \ Slot
           /\ \A d \in Dirs : mem[DirFrame][d] # NotPresent =>
                 mem[DirFrame][d] \in Allocated
           /\ \A q \in UserPages : Walk(mem, q) # NotPresent =>
                 Walk(mem, q) \in Allocated
BY PoolFrames DEF Inv, FreeInPool, Allocated, TablesKept, PagesKept

LEMMA EntersServes ==
    ASSUME Inv, NEW page \in UserPages, NEW frame, Walk(mem, page) = NotPresent,
           Enters(page, frame)
    PROVE  Serves(page, frame, mem[DirFrame][page \div T])
<1> DEFINE d == page \div T
           i == page % T
           t == mem[DirFrame][d]
<1>1. /\ page \in Page /\ d \in Dirs /\ d \in Slot /\ i \in Slot
  BY PageParts DEF UserPages, Dirs
<1>2. t # NotPresent /\ frame \in Free /\ Free' = Free \ {frame}
      /\ mem' = WordPut(mem, t, i, frame) /\ tables' = tables
  BY DEF Enters
<1>3. /\ mem \in Memory /\ tables \in [Slot -> Table]
      /\ KernelPart(mem, tables)
  BY Types DEF Inv, KernelKept
<1>4. t \in Allocated /\ t \in Bits \ Slot /\ frame \in Bits \ Slot /\ t \notin Free
      /\ tables[d].virt_addr = Window(d)
      /\ \A e \in Dirs : mem[DirFrame][e] = t => e = d
  BY <1>1, <1>2, UserFrames DEF Inv, TablesKept, Allocated
<1>5. frame \in Word /\ t # DirFrame /\ t # TableFrame /\ t # frame
      /\ DirFrame \in Bits /\ TableFrame \in Bits
  BY <1>2, <1>4, Numbers DEF Word
<1>6. /\ mem' \in Memory
      /\ \A f \in Bits, x \in Slot :
            mem'[f][x] = IF f = t /\ x = i THEN frame ELSE mem[f][x]
  <2>1. t \in Bits /\ i \in Slot /\ frame \in Word /\ mem \in Memory
    BY <1>1, <1>3, <1>4, <1>5
  <2>2. mem' = WordPut(mem, t, i, frame)  BY <1>2
  <2> HIDE DEF t, i
  <2> QED BY ONLY <2>1, <2>2, WordPutIs
<1>7. \A f \in Bits : f # t => mem'[f] = mem[f]
  <2> HIDE DEF t, i
  <2> QED BY <1>2, <1>3 DEF WordPut, Memory
<1>8. KernelKept'
  <2>1. KernelPart(mem', tables)
    BY <1>3, <1>5, <1>7 DEF KernelPart
  <2> QED BY <1>2, <2>1 DEF KernelKept, KernelPart
<1>9. \A e \in Dirs : mem'[DirFrame][e] = mem[DirFrame][e]
  BY <1>5, <1>7
<1>10. ASSUME NEW q \in UserPages
       PROVE  Walk(mem', q) = IF q = page THEN frame ELSE Walk(mem, q)
  <2> DEFINE e == q \div T
             j == q % T
             u == mem[DirFrame][e]
  <2>1. q \in Page /\ e \in Dirs /\ e \in Slot /\ j \in Slot
    BY PageParts DEF UserPages, Dirs
  <2>2. mem'[DirFrame][e] = u  BY <1>9, <2>1
  <2>3. Walk(mem', q) = IF u = NotPresent THEN NotPresent ELSE mem'[u][j]
    BY <2>2 DEF Walk
  <2>4. Walk(mem, q) = IF u = NotPresent THEN NotPresent ELSE mem[u][j]
    BY DEF Walk
  <2>5. u = t /\ j = i => q = page
    BY <1>1, <1>4, <2>1, SamePage
  <2>6. u # NotPresent => u \in Bits
    BY <2>1, UserFrames
  <2>7. q = page => u = t /\ j = i  OBVIOUS
  <2> HIDE DEF e, j, u, t, i, d
  <2> QED BY <1>2, <1>6, <2>1, <2>3, <2>4, <2>5, <2>6, <2>7
<1>11. ASSUME NEW q \in UserPages, Walk(mem, q) # NotPresent
       PROVE  mem'[Walk(mem, q)] = mem[Walk(mem, q)]
  <2>1. Walk(mem, q) \in Bits /\ Walk(mem, q) # t
    BY <1>1, <1>11, UserFrames DEF Inv, PagesKept
  <2> QED BY <1>7, <2>1
<1>12. Free' = Free \ {frame, t}  BY <1>2, <1>4
<1> QED
  BY <1>2, <1>3, <1>4, <1>5, <1>6, <1>8, <1>9, <1>10, <1>11, <1>12 DEF Serves

LEMMA CreatesServes ==
    ASSUME Inv, NEW page \in UserPages, NEW frame, NEW nf,
           Creates(page, frame, nf)
    PROVE  Serves(page, frame, nf)
<1> DEFINE d == page \div T
           i == page % T
<1>1. /\ page \in Page /\ d \in Dirs /\ d \in Slot /\ i \in Slot
  BY PageParts DEF UserPages, Dirs
<1>2. /\ mem[DirFrame][d] = NotPresent
      /\ frame \in Free /\ nf \in Free /\ nf # frame /\ Free' = Free \ {frame, nf}
      /\ mem' \in Memory /\ KernelPart(mem', tables')
      /\ tables' = Noted(tables, d, nf)
      /\ \A f \in Bits, x \in Slot : mem'[f][x] =
            IF f = DirFrame /\ x = d THEN nf
            ELSE IF f = nf THEN (IF x = i THEN frame ELSE NotPresent) ELSE mem[f][x]
  BY DEF Creates, TableMadeWith
<1>3. /\ mem \in Memory /\ tables \in [Slot -> Table]
  BY Types DEF Inv
<1>4. nf \in Bits /\ nf \notin Slot /\ nf \notin Allocated /\ nf # NotPresent
      /\ frame # NotPresent /\ nf # DirFrame /\ DirFrame \in Bits
  BY <1>2, UserFrames, Numbers DEF Allocated
<1>5. tables' \in [Slot -> Table]
      /\ tables'[d].virt_addr = Window(d)
      /\ \A e \in Dirs : e # d => tables'[e] = tables[e]
  <2>1. [virt_addr |-> Window(d), phys_addr |-> nf] \in Table
    BY <1>1, <1>4, Windows DEF Table
  <2> HIDE DEF d
  <2> QED BY <1>1, <1>2, <1>3, <2>1 DEF Noted, Dirs
<1>6. \A e \in Dirs : mem'[DirFrame][e] = IF e = d THEN nf ELSE mem[DirFrame][e]
  <2> HIDE DEF d
  <2> QED BY <1>2, <1>4 DEF Dirs
<1>7. ASSUME NEW q \in UserPages
      PROVE  Walk(mem', q) = IF q = page THEN frame ELSE Walk(mem, q)
  <2> DEFINE e == q \div T
             j == q % T
             u == mem[DirFrame][e]
  <2>1. q \in Page /\ e \in Dirs /\ e \in Slot /\ j \in Slot
    BY PageParts DEF UserPages, Dirs
  <2>2. mem'[DirFrame][e] = IF e = d THEN nf ELSE u  BY <1>6, <2>1
  <2> DEFINE u2 == mem'[DirFrame][e]
  <2>3. Walk(mem', q) = IF u2 = NotPresent THEN NotPresent ELSE mem'[u2][j]
    BY DEF Walk
  <2>4. Walk(mem, q) = IF u = NotPresent THEN NotPresent ELSE mem[u][j]
    BY DEF Walk
  <2>5. e = d /\ j = i <=> q = page
    BY <1>1, <2>1, SamePage
  <2>6. u # NotPresent => u \in Bits /\ u # nf /\ u # DirFrame
    BY <1>4, <2>1, UserFrames, Numbers
  <2>7. e = d => u = NotPresent  BY <1>2
  <2> HIDE DEF e, j, u, u2, i, d
  <2>8. CASE e = d
    <3>1. u2 = nf  BY <2>2, <2>8 DEF u2
    <3>2. mem'[nf][j] = IF j = i THEN frame ELSE NotPresent
      BY <1>2, <1>4, <2>1
    <3>3. Walk(mem', q) = IF j = i THEN frame ELSE NotPresent
      BY <1>4, <2>3, <3>1, <3>2
    <3>4. Walk(mem, q) = NotPresent  BY <2>4, <2>7, <2>8
    <3> QED BY <2>5, <2>8, <3>3, <3>4
  <2>9. CASE e # d
    <3>1. u2 = u  BY <2>2, <2>9 DEF u2
    <3>2. u # NotPresent => mem'[u][j] = mem[u][j]  BY <1>2, <2>1, <2>6
    <3> QED BY <2>3, <2>4, <2>5, <2>9, <3>1, <3>2
  <2> QED BY <2>8, <2>9
<1>8. ASSUME NEW q \in UserPages, Walk(mem, q) # NotPresent
      PROVE  mem'[Walk(mem, q)] = mem[Walk(mem, q)]
  <2> DEFINE f == Walk(mem, q)
  <2>1. f \in Bits /\ f # nf /\ f # DirFrame
    BY <1>4, <1>8, UserFrames, Numbers
  <2> HIDE DEF f
  <2>2. mem'[f] \in Row /\ mem[f] \in Row  BY <1>2, <1>3, <2>1 DEF Memory
  <2>3. \A x \in Slot : mem'[f][x] = mem[f][x]  BY <1>2, <2>1
  <2>4. mem'[f] = mem[f]  BY <2>2, <2>3 DEF Row
  <2> QED BY <2>4 DEF f
<1>9. KernelKept'  BY <1>2 DEF KernelKept, KernelPart
<1> QED BY <1>2, <1>5, <1>6, <1>7, <1>8, <1>9 DEF Serves

-----------------------------------------------------------------------------
(* A fault that is served keeps the invariant, part by part.               *)
LEMMA ServesKeeps ==
    ASSUME Inv, NEW page \in UserPages, NEW frame, NEW nf,
           Walk(mem, page) = NotPresent, Serves(page, frame, nf)
    PROVE  FreeInPool' /\ TablesKept' /\ PagesKept' /\ (AllUsed => AllUsed')
<1> DEFINE d == page \div T
<1>1. d \in Dirs /\ d \in Slot  BY DEF UserPages, Dirs
<1>2. /\ Pool' = Pool /\ Free \subseteq Pool
      /\ frame \in Free /\ Free' = Free \ {frame, nf} /\ nf # frame
      /\ frame \notin Allocated /\ nf \in Pool
      /\ frame # NotPresent /\ nf # NotPresent
  <2>1. Free \subseteq Pool /\ Pool \subseteq Bits
    BY PoolFrames DEF Inv, FreeInPool
  <2>2. Pool' = Pool  BY DEF Pool
  <2> QED BY <2>1, <2>2, Numbers DEF Serves, Allocated
<1>3. Allocated' = Allocated \cup {frame, nf}
  BY <1>2 DEF Allocated
<1>4. FreeInPool'  BY <1>2 DEF FreeInPool
<1>5. \A e \in Dirs : mem'[DirFrame][e] = IF e = d THEN nf ELSE mem[DirFrame][e]
  BY DEF Serves
<1>6. \A q \in UserPages : Walk(mem', q) = IF q = page THEN frame ELSE Walk(mem, q)
  BY DEF Serves
<1>7. \A e \in Dirs : mem[DirFrame][e] # NotPresent =>
         /\ mem[DirFrame][e] \in Allocated
         /\ mem[DirFrame][e] # frame
         /\ mem[DirFrame][e] = nf => e = d
         /\ tables[e].virt_addr = Window(e)
         /\ \A g \in Dirs : mem[DirFrame][g] = mem[DirFrame][e] => g = e
  BY <1>1, <1>2 DEF Inv, TablesKept, Serves, Allocated
<1>8. \A q \in UserPages : Walk(mem, q) # NotPresent =>
         /\ Walk(mem, q) \in Allocated
         /\ Walk(mem, q) # frame /\ Walk(mem, q) # nf
         /\ \A e \in Dirs : mem[DirFrame][e] # Walk(mem, q)
         /\ \A r \in UserPages : Walk(mem, r) = Walk(mem, q) => r = q
  BY <1>1, <1>2 DEF Inv, PagesKept, Serves, Allocated
<1>9. TablesKept'
  <2> SUFFICES ASSUME NEW e \in Dirs, mem'[DirFrame][e] # NotPresent
               PROVE  /\ mem'[DirFrame][e] \in Allocated'
                      /\ tables'[e].virt_addr = Window(e)
                      /\ \A g \in Dirs :
                            mem'[DirFrame][g] = mem'[DirFrame][e] => g = e
    BY DEF TablesKept
  <2>1. tables'[e].virt_addr = Window(e)
    <3>1. CASE e = d  BY <3>1 DEF Serves
    <3>2. CASE e # d
      <4>1. tables'[e] = tables[e]  BY <3>2 DEF Serves
      <4> QED BY <1>5, <1>7, <3>2, <4>1
    <3> QED BY <3>1, <3>2
  <2> HIDE DEF d
  <2> QED BY <1>2, <1>3, <1>5, <1>7, <2>1
<1>10. PagesKept'
  <2> SUFFICES ASSUME NEW q \in UserPages, Walk(mem', q) # NotPresent
               PROVE  /\ Walk(mem', q) \in Allocated'
                      /\ \A e \in Dirs : mem'[DirFrame][e] # Walk(mem', q)
                      /\ \A r \in UserPages :
                            Walk(mem', r) = Walk(mem', q) => r = q
    BY DEF PagesKept
  <2> HIDE DEF d
  <2>1. Walk(mem', q) \in Allocated'  BY <1>3, <1>6, <1>8
  <2>2. \A e \in Dirs : mem'[DirFrame][e] # Walk(mem', q)
    <3>1. \A e \in Dirs : mem[DirFrame][e] # frame
      BY <1>2, <1>7
    <3> QED BY <1>2, <1>5, <1>6, <1>8, <3>1
  <2>3. \A r \in UserPages : Walk(mem', r) = Walk(mem', q) => r = q
    <3>1. \A r \in UserPages : Walk(mem, r) # frame
      BY <1>2, <1>8
    <3> QED BY <1>6, <1>8, <3>1
  <2> QED BY <2>1, <2>2, <2>3
<1>11. ASSUME AllUsed PROVE AllUsed'
  <2> SUFFICES ASSUME NEW f \in Allocated'
               PROVE  \/ \E e \in Dirs : mem'[DirFrame][e] = f
                      \/ \E q \in UserPages : Walk(mem', q) = f
    BY DEF AllUsed
  <2>1. CASE f = frame  BY <1>6, <2>1
  <2>2. CASE f = nf  BY <1>1, <1>5, <2>2
  <2>3. CASE f \in Allocated /\ f # nf
    <3>1. f # NotPresent
      BY <2>3, PoolFrames, Numbers DEF Allocated
    <3>2. CASE \E e \in Dirs : mem[DirFrame][e] = f
      <4>1. PICK e \in Dirs : mem[DirFrame][e] = f  BY <3>2
      <4>2. e # d  BY <2>3, <3>1, <4>1 DEF Serves
      <4> QED BY <1>5, <4>1, <4>2
    <3>3. CASE \E q \in UserPages : Walk(mem, q) = f
      BY <1>6, <3>1, <3>3
    <3> QED BY <1>11, <2>3, <3>2, <3>3 DEF AllUsed
  <2> QED BY <1>3, <2>1, <2>2, <2>3
<1> QED BY <1>4, <1>9, <1>10, <1>11

-----------------------------------------------------------------------------
(* The other steps: whoever writes to memory but not to the directory or a *)
(* table leaves every translation as it is.                                *)
LEMMA QuietKeeps ==
    ASSUME Inv, Free' = Free, tables' = tables,
           mem'[DirFrame] = mem[DirFrame], mem'[TableFrame] = mem[TableFrame],
           \A d \in Dirs : mem[DirFrame][d] # NotPresent =>
              mem'[mem[DirFrame][d]] = mem[mem[DirFrame][d]]
    PROVE  /\ \A q \in UserPages : Walk(mem', q) = Walk(mem, q)
           /\ KernelKept' /\ FreeInPool' /\ TablesKept' /\ PagesKept'
           /\ AllUsed => AllUsed'
<1>1. Pool' = Pool /\ Allocated' = Allocated  BY DEF Pool, Allocated
<1>2. \A q \in UserPages : Walk(mem', q) = Walk(mem, q)
  BY DEF UserPages, Walk
<1>3. KernelKept'
  BY DEF Inv, KernelKept, KernelPart
<1>4. FreeInPool'  BY <1>1 DEF Inv, FreeInPool
<1>5. TablesKept'  BY <1>1 DEF Inv, TablesKept
<1>6. PagesKept'
  <2>1. PagesKept  BY DEF Inv
  <2> QED BY <1>1, <1>2, <2>1 DEF PagesKept
<1>7. AllUsed => AllUsed'
  BY <1>1, <1>2 DEF AllUsed
<1> QED BY <1>2, <1>3, <1>4, <1>5, <1>6, <1>7

LEMMA FailsKeeps ==
    ASSUME Inv, Fails
    PROVE  KernelKept' /\ FreeInPool' /\ TablesKept' /\ PagesKept'
<1>1. Pool' = Pool /\ Free' = {} /\ Allocated \subseteq Allocated'
      /\ mem' = mem /\ tables' = tables
  BY DEF Pool, Allocated, Fails
<1>2. KernelKept' /\ FreeInPool'  BY <1>1 DEF Inv, KernelKept, FreeInPool
<1>3. TablesKept'  BY <1>1 DEF Inv, TablesKept
<1>4. PagesKept'
  <2>1. PagesKept  BY DEF Inv
  <2> QED BY <1>1, <2>1 DEF PagesKept
<1> QED BY <1>2, <1>3, <1>4

(* What the processor has for a page that running code can use.            *)
LEMMA Translates ==
    ASSUME Inv, NEW page \in Touched
    PROVE  /\ page \in Page /\ page \in UserPages
           /\ Translate(Machine, page) = Walk(mem, page)
           /\ Walk(mem, page) # NotPresent =>
                 /\ Walk(mem, page) \in Bits \ Slot
                 /\ Walk(mem, page) \in Word
                 /\ \A d \in Dirs : mem[DirFrame][d] # Walk(mem, page)
<1>1. page \in Page /\ page \in UserPages  BY TouchedPages DEF UserPages
<1>2. Translate(Machine, page) = Walk(mem, page)
  BY <1>1, MachineIs, TranslateIs DEF Inv, TLBKept
<1>3. Walk(mem, page) # NotPresent =>
         /\ Walk(mem, page) \in Bits \ Slot
         /\ \A d \in Dirs : mem[DirFrame][d] # Walk(mem, page)
  BY <1>1, UserFrames DEF Inv, PagesKept
<1> QED BY <1>1, <1>2, <1>3 DEF Word

LEMMA GetIs ==
    ASSUME Inv, NEW page \in Touched, Get(page)
    PROVE  /\ ~wild /\ UNCHANGED <<pmm_frames, mem, tables, wild>>
           /\ Walk(mem, page) # NotPresent
           /\ tlb' = [tlb EXCEPT ![page] = Walk(mem, page)]
<1> DEFINE t == Walk(mem, page)
<1>1. ~wild /\ Translate(Machine, page) = t /\ t # NotPresent
  BY Translates DEF Get
<1> HIDE DEF t
<1>2. Load(Machine, page) = Mach(pmm_frames, mem, [tlb EXCEPT ![page] = t], tables, wild)
  BY <1>1, MachineIs, LoadIs
<1>3. Becomes(Mach(pmm_frames, mem, [tlb EXCEPT ![page] = t], tables, wild))
  BY <1>2 DEF Get
<1> QED BY <1>1, <1>3, BecomesMach DEF t

LEMMA PutIs ==
    ASSUME Inv, NEW page \in Touched, NEW word \in Values, Put(page, word)
    PROVE  /\ ~wild /\ UNCHANGED <<pmm_frames, tables, wild>>
           /\ Walk(mem, page) # NotPresent
           /\ tlb' = [tlb EXCEPT ![page] = Walk(mem, page)]
           /\ mem' = WordPut(mem, Walk(mem, page), 0, word)
<1> DEFINE t == Walk(mem, page)
<1>1. ~wild /\ Translate(Machine, page) = t /\ t # NotPresent
  BY Translates DEF Put
<1> HIDE DEF t
<1>2. Store(Machine, page, 0, word) =
         Mach(pmm_frames, WordPut(mem, t, 0, word), [tlb EXCEPT ![page] = t], tables, wild)
  BY <1>1, MachineIs, StoreIs
<1>3. Becomes(Mach(pmm_frames, WordPut(mem, t, 0, word), [tlb EXCEPT ![page] = t],
                   tables, wild))
  BY <1>2 DEF Put
<1> QED BY <1>1, <1>3, BecomesMach DEF t

LEMMA EvictIs ==
    ASSUME NEW page, Evict(page)
    PROVE  /\ ~wild /\ UNCHANGED <<pmm_frames, mem, tables, wild>>
           /\ tlb' = [tlb EXCEPT ![page] = NotPresent]
<1>1. invlpg(Machine, page)
         = Mach(pmm_frames, mem, [tlb EXCEPT ![page] = NotPresent], tables, wild)
  BY DEF invlpg, Machine, Mach
<1>2. ~wild /\ Becomes(Mach(pmm_frames, mem, [tlb EXCEPT ![page] = NotPresent],
                            tables, wild))
  BY <1>1 DEF Evict
<1> QED BY <1>2, BecomesMach

(* A write to a page changes no other row of memory.                       *)
LEMMA PutRows ==
    ASSUME Inv, NEW page \in Touched, NEW word \in Values, Put(page, word)
    PROVE  /\ mem' \in Memory
           /\ mem'[Walk(mem, page)] = WriteWord(mem[Walk(mem, page)], word)
           /\ \A f \in Bits : f # Walk(mem, page) => mem'[f] = mem[f]
<1> DEFINE t == Walk(mem, page)
<1>1. mem \in Memory /\ t \in Bits /\ word \in Word /\ 0 \in Slot
      /\ mem' = WordPut(mem, t, 0, word)
  BY PutIs, Translates, Types, PagingAssumption, Numbers DEF Inv, Slot
<1> HIDE DEF t
<1>2. mem' \in Memory  BY <1>1, WordPutIs
<1>3. mem'[t] = WriteWord(mem[t], word)  BY <1>1 DEF WordPut, WriteWord, Memory
<1>4. \A f \in Bits : f # t => mem'[f] = mem[f]  BY <1>1 DEF WordPut, Memory
<1> QED BY <1>2, <1>3, <1>4 DEF t

-----------------------------------------------------------------------------
LEMMA InvInit ==
    ASSUME Init
    PROVE  Inv
<1>1. /\ pmm_frames \in Bitmaps(Bytes) /\ Free = Pool /\ Allocated = {}
  BY Numbers, InitialFree DEF Init, Free, Pool, Allocated
<1>2. PICK junk \in Values : mem = [frame \in Bits |->
          CASE frame = DirFrame -> [d \in 0..(T-1) |->
                  CASE d = KernelDir -> TableFrame
                    [] d = RecDir -> DirFrame
                    [] OTHER -> NotPresent]
            [] frame = TableFrame -> [slot \in 0..(T-1) |-> slot]
            [] OTHER -> [slot \in 0..(T-1) |-> junk]]
  BY DEF Init, paging_initialize
<1>3. tables = [d \in 0..(T-1) |->
          CASE d = KernelDir -> [virt_addr |-> Window(d), phys_addr |-> TableFrame]
            [] d = RecDir -> [virt_addr |-> Window(0), phys_addr |-> DirFrame]
            [] OTHER -> [virt_addr |-> 0, phys_addr |-> 0]]
  BY DEF Init, paging_initialize
<1>4. tlb = [page \in Page |-> NotPresent] /\ wild = FALSE
  BY DEF Init, paging_initialize
<1> DEFINE dir == [d \in Slot |-> CASE d = KernelDir -> TableFrame
                                    [] d = RecDir -> DirFrame
                                    [] OTHER -> NotPresent]
           same == [slot \in Slot |-> slot]
           any == [slot \in Slot |-> junk]
<1>5. /\ dir \in Row /\ dir[KernelDir] = TableFrame /\ dir[RecDir] = DirFrame
      /\ \A d \in Dirs : dir[d] = NotPresent
  BY Numbers DEF Row, Word, Dirs
<1>6. same \in Row /\ \A slot \in Slot : same[slot] = slot
  BY Numbers DEF Row, Word
<1>7. any \in Row
  <2>1. junk \in Word  BY PagingAssumption
  <2> QED BY <2>1 DEF Row
<1>8. mem = [frame \in Bits |-> CASE frame = DirFrame -> dir
                                  [] frame = TableFrame -> same
                                  [] OTHER -> any]
  BY <1>2, Zenon DEF Slot
<1> HIDE DEF dir, same, any
<1>9. /\ mem \in Memory /\ mem[DirFrame] = dir /\ mem[TableFrame] = same
  BY <1>5, <1>6, <1>7, <1>8, Numbers DEF Memory
<1>10. 0 \in Page /\ 0 \in Slot /\ 0 \in Bits
  <2>1. 0 \in Slot  BY Numbers DEF Slot
  <2>2. 0 * T + 0 \in Page  BY <2>1, PageAt
  <2>3. 0 * T + 0 = 0  BY Numbers
  <2> QED BY <2>1, <2>2, <2>3, Numbers
<1>11. /\ tables \in [Slot -> Table]
       /\ tables[KernelDir].virt_addr = Window(KernelDir)
  <2> DEFINE own == [virt_addr |-> Window(KernelDir), phys_addr |-> TableFrame]
             rec == [virt_addr |-> Window(0), phys_addr |-> DirFrame]
             none == [virt_addr |-> 0, phys_addr |-> 0]
  <2>1. own \in Table /\ rec \in Table /\ none \in Table
    BY <1>10, Numbers, Windows DEF Table
  <2>2. tables = [d \in Slot |-> CASE d = KernelDir -> own
                                   [] d = RecDir -> rec
                                   [] OTHER -> none]
    BY ONLY <1>3 DEF Slot
  <2>3. own.virt_addr = Window(KernelDir)  OBVIOUS
  <2> HIDE DEF own, rec, none
  <2> QED BY <2>1, <2>2, <2>3, Numbers
<1>12. tlb \in TLB /\ \A page \in Page : tlb[page] = NotPresent
  BY <1>4 DEF TLB, Word
<1>13. TypeOK  BY <1>1, <1>4, <1>9, <1>11, <1>12, Types
<1>14. KernelKept  BY <1>5, <1>6, <1>9, <1>11 DEF KernelKept, KernelPart
<1>15. FreeInPool /\ FailsOnlyWhenFull
  BY <1>1, <1>4 DEF FreeInPool, FailsOnlyWhenFull
<1>16. \A d \in Dirs : mem[DirFrame][d] = NotPresent  BY <1>5, <1>9
<1>17. TablesKept  BY <1>16 DEF TablesKept
<1>18. PagesKept  BY <1>16 DEF PagesKept, Walk, UserPages
<1>19. AllUsed  BY <1>1 DEF AllUsed
<1>20. TLBKept  BY <1>12 DEF TLBKept
<1> QED
  BY <1>13, <1>14, <1>15, <1>17, <1>18, <1>19, <1>20 DEF Inv

(* A TLB that gets one more translation that the tables have.              *)
LEMMA CachesPage ==
    ASSUME Inv, NEW page \in Touched, Walk(mem, page) # NotPresent,
           tlb' = [tlb EXCEPT ![page] = Walk(mem, page)],
           \A q \in UserPages : Walk(mem', q) = Walk(mem, q)
    PROVE  tlb' \in TLB /\ TLBKept'
<1>1. page \in Page /\ Walk(mem, page) \in Word /\ Touched \subseteq UserPages
  BY Translates, TouchedPages
<1>2. tlb \in TLB  BY Types DEF Inv
<1>3. tlb' \in TLB  BY <1>1, <1>2 DEF TLB
<1>4. \A q \in Page : tlb'[q] = IF q = page THEN Walk(mem, page) ELSE tlb[q]
  BY <1>2 DEF TLB
<1>5. \A q \in Page : tlb[q] # NotPresent => q \in Touched /\ tlb[q] = Walk(mem, q)
  BY DEF Inv, TLBKept
<1>6. \A q \in Page : tlb'[q] # NotPresent => q \in Touched /\ tlb'[q] = Walk(mem', q)
  BY <1>1, <1>4, <1>5
<1> QED BY <1>3, <1>6 DEF TLBKept

LEMMA InvGet ==
    ASSUME Inv, NEW page \in Touched, Get(page)
    PROVE  Inv'
<1>1. ~wild /\ UNCHANGED <<pmm_frames, mem, tables, wild>>
      /\ Walk(mem, page) # NotPresent
      /\ tlb' = [tlb EXCEPT ![page] = Walk(mem, page)]
  BY GetIs
<1>2. Free' = Free  BY <1>1 DEF Free
<1>3. KernelKept' /\ FreeInPool' /\ TablesKept' /\ PagesKept' /\ (AllUsed => AllUsed')
  BY <1>1, <1>2, QuietKeeps
<1>4. tlb' \in TLB /\ TLBKept'  BY <1>1, CachesPage
<1>5. TypeOK'  BY <1>1, <1>4 DEF Inv, TypeOK, TLB
<1>6. FailsOnlyWhenFull'  BY <1>1 DEF Inv, FailsOnlyWhenFull
<1> QED BY <1>1, <1>3, <1>4, <1>5, <1>6 DEF Inv

LEMMA InvPut ==
    ASSUME Inv, NEW page \in Touched, NEW word \in Values, Put(page, word)
    PROVE  Inv' /\ \A q \in UserPages : Walk(mem', q) = Walk(mem, q)
<1> DEFINE t == Walk(mem, page)
<1>1. ~wild /\ UNCHANGED <<pmm_frames, tables, wild>>
      /\ t # NotPresent /\ tlb' = [tlb EXCEPT ![page] = t]
  BY PutIs
<1>2. /\ mem' \in Memory
      /\ \A f \in Bits : f # t => mem'[f] = mem[f]
  BY PutRows
<1>3. t \in Bits \ Slot /\ \A d \in Dirs : mem[DirFrame][d] # t
  BY <1>1, Translates
<1> HIDE DEF t
<1>4. Free' = Free  BY <1>1 DEF Free
<1>5. mem'[DirFrame] = mem[DirFrame] /\ mem'[TableFrame] = mem[TableFrame]
  BY <1>2, <1>3, Numbers
<1>6. \A d \in Dirs : mem[DirFrame][d] # NotPresent =>
         mem'[mem[DirFrame][d]] = mem[mem[DirFrame][d]]
  BY <1>2, <1>3, UserFrames
<1>7. /\ \A q \in UserPages : Walk(mem', q) = Walk(mem, q)
      /\ KernelKept' /\ FreeInPool' /\ TablesKept' /\ PagesKept'
      /\ AllUsed => AllUsed'
  BY <1>1, <1>4, <1>5, <1>6, QuietKeeps
<1>8. tlb' \in TLB /\ TLBKept'  BY <1>1, <1>7, CachesPage DEF t
<1>9. TypeOK'
  BY <1>1, <1>2, <1>8 DEF Inv, TypeOK, TLB, Memory, Row, Slot
<1>10. FailsOnlyWhenFull'  BY <1>1 DEF Inv, FailsOnlyWhenFull
<1> QED BY <1>1, <1>7, <1>8, <1>9, <1>10 DEF Inv

LEMMA InvEvict ==
    ASSUME Inv, NEW page \in Page, Evict(page)
    PROVE  Inv'
<1>1. ~wild /\ UNCHANGED <<pmm_frames, mem, tables, wild>>
      /\ tlb' = [tlb EXCEPT ![page] = NotPresent]
  BY EvictIs
<1>2. Free' = Free  BY <1>1 DEF Free
<1>3. KernelKept' /\ FreeInPool' /\ TablesKept' /\ PagesKept' /\ (AllUsed => AllUsed')
  BY <1>1, <1>2, QuietKeeps
<1>4. tlb' \in TLB /\ TLBKept'
  <2>1. tlb \in TLB  BY Types DEF Inv
  <2>2. tlb' \in TLB /\ \A q \in Page : tlb'[q] \in {NotPresent, tlb[q]}
    BY <1>1, <2>1 DEF TLB, Word
  <2> QED BY <1>1, <2>2 DEF Inv, TLBKept
<1>5. TypeOK'  BY <1>1, <1>4 DEF Inv, TypeOK, TLB
<1>6. FailsOnlyWhenFull'  BY <1>1 DEF Inv, FailsOnlyWhenFull
<1> QED BY <1>1, <1>3, <1>4, <1>5, <1>6 DEF Inv

(* A fault, seen from the tables and the pages.                            *)
LEMMA FaultServes ==
    ASSUME Inv, NEW page \in Touched, PageFault(page)
    PROVE  /\ ~wild /\ Walk(mem, page) = NotPresent /\ page \in UserPages
           /\ pmm_frames' \in Bitmaps(Bytes) /\ tlb' = Empty
           /\ \/ wild' = wild /\ \E frame, nf : Serves(page, frame, nf)
              \/ wild' = TRUE /\ Fails
<1>1. ~wild /\ Walk(mem, page) = NotPresent /\ page \in UserPages
  BY Translates DEF PageFault
<1>2. /\ pmm_frames' \in Bitmaps(Bytes) /\ tlb' = Empty
      /\ \/ wild' = wild /\ \E frame : Enters(page, frame)
         \/ wild' = wild /\ \E frame, nf : Creates(page, frame, nf)
         \/ wild' = TRUE /\ Fails
  BY <1>1, FaultIs
<1>3. ASSUME NEW frame, Enters(page, frame)
      PROVE  \E f, nf : Serves(page, f, nf)
  BY <1>1, <1>3, EntersServes
<1>4. ASSUME NEW frame, NEW nf, Creates(page, frame, nf)
      PROVE  \E f, nf2 : Serves(page, f, nf2)
  BY <1>1, <1>4, CreatesServes
<1> QED BY <1>1, <1>2, <1>3, <1>4

LEMMA InvFault ==
    ASSUME Inv, NEW page \in Touched, PageFault(page)
    PROVE  Inv'
<1>1. /\ ~wild /\ Walk(mem, page) = NotPresent /\ page \in UserPages
      /\ pmm_frames' \in Bitmaps(Bytes) /\ tlb' = Empty
      /\ \/ wild' = wild /\ \E frame, nf : Serves(page, frame, nf)
         \/ wild' = TRUE /\ Fails
  BY FaultServes
<1>2. tlb' \in TLB /\ TLBKept'
  <2>1. Empty \in TLB /\ \A q \in Page : Empty[q] = NotPresent
    BY DEF Empty, TLB, Word
  <2> QED BY <1>1, <2>1 DEF TLBKept
<1>3. mem \in Memory /\ tables \in [Slot -> Table] /\ wild \in BOOLEAN
  BY Types DEF Inv
<1>4. CASE wild' = wild /\ \E frame, nf : Serves(page, frame, nf)
  <2>1. PICK frame, nf : Serves(page, frame, nf)  BY <1>4
  <2>2. FreeInPool' /\ TablesKept' /\ PagesKept' /\ (AllUsed => AllUsed')
    BY <1>1, <2>1, ServesKeeps
  <2>3. mem' \in Memory /\ tables' \in [Slot -> Table] /\ KernelKept'
    BY <2>1 DEF Serves
  <2>4. TypeOK'
    BY <1>1, <1>2, <1>3, <1>4, <2>3 DEF TypeOK, TLB, Memory, Row, Slot, Table
  <2>5. FailsOnlyWhenFull'  BY <1>1, <1>4 DEF FailsOnlyWhenFull
  <2>6. AllUsed  BY <1>1 DEF Inv
  <2> QED BY <1>2, <2>2, <2>3, <2>4, <2>5, <2>6 DEF Inv
<1>5. CASE wild' = TRUE /\ Fails
  <2>1. KernelKept' /\ FreeInPool' /\ TablesKept' /\ PagesKept'
    BY <1>5, FailsKeeps
  <2>2. mem' = mem /\ tables' = tables /\ Free' = {}  BY <1>5 DEF Fails
  <2>3. TypeOK'
    BY <1>1, <1>2, <1>3, <1>5, <2>2 DEF TypeOK, TLB, Memory, Row, Slot, Table
  <2>4. FailsOnlyWhenFull'  BY <2>2 DEF FailsOnlyWhenFull, Free
  <2> QED BY <1>2, <1>5, <2>1, <2>3, <2>4 DEF Inv
<1> QED BY <1>1, <1>4, <1>5

LEMMA InvStutter ==
    ASSUME Inv, UNCHANGED vars
    PROVE  Inv'
<1>1. UNCHANGED <<pmm_frames, mem, tlb, tables, wild>>  BY DEF vars
<1>2. Free' = Free /\ Allocated' = Allocated  BY <1>1 DEF Free, Allocated, Pool
<1>3. KernelKept' /\ FreeInPool' /\ TablesKept' /\ PagesKept' /\ (AllUsed => AllUsed')
  BY <1>1, <1>2, QuietKeeps
<1>4. TypeOK' /\ FailsOnlyWhenFull' /\ TLBKept'
  BY <1>1 DEF Inv, TypeOK, FailsOnlyWhenFull, TLBKept
<1> QED BY <1>1, <1>3, <1>4 DEF Inv

LEMMA InvNext ==
    ASSUME Inv, [Next]_vars
    PROVE  Inv'
<1>1. CASE \E page \in Touched : Get(page)  BY <1>1, InvGet
<1>2. CASE \E page \in Touched, word \in Values : Put(page, word)  BY <1>2, InvPut
<1>3. CASE \E page \in Touched : PageFault(page)  BY <1>3, InvFault
<1>4. CASE \E page \in Page : Evict(page)  BY <1>4, InvEvict
<1>5. CASE UNCHANGED vars  BY <1>5, InvStutter
<1> QED BY <1>1, <1>2, <1>3, <1>4, <1>5 DEF Next, Stuck

-----------------------------------------------------------------------------
(* Every table and every page has a frame of its own, the code finds every *)
(* table where it looks for it, and the kernel's part of the tables stays. *)
THEOREM PagingInvariant == Spec => []Inv
<1>1. Init => Inv  BY InvInit
<1>2. Inv /\ [Next]_vars => Inv'  BY InvNext
<1> QED BY <1>1, <1>2, PTL DEF Spec

(* The words of memory, the bitmap, the TLB and the tables keep their      *)
(* types: no access of the code goes to a frame that is not there.         *)
THEOREM PagingTypeCorrect == Spec => []TypeOK
<1>1. Inv => TypeOK  BY DEF Inv
<1> QED BY <1>1, PagingInvariant, PTL

(* The handler only ever gives up for want of a frame.                     *)
THEOREM FailsOnlyWhenFullAlways == Spec => []FailsOnlyWhenFull
<1>1. Inv => FailsOnlyWhenFull  BY DEF Inv
<1> QED BY <1>1, PagingInvariant, PTL

(* When the handler is done the TLB agrees with the tables.                *)
THEOREM TLBCoherentAlways == Spec => []TLBCoherent
<1>1. Inv => TLBCoherent  BY DEF Inv, TLBKept, TLBCoherent
<1> QED BY <1>1, PagingInvariant, PTL

(* The first 4 MB of the kernel stay mapped to themselves, the scratch     *)
(* slot included, even when the handler gives up.                          *)
THEOREM KernelMappedAlways == Spec => []KernelMapped
<1>1. Inv => KernelMapped
  <2> SUFFICES ASSUME Inv, NEW slot \in Slot
               PROVE  Walk(mem, KernelDir * T + slot) = slot
    BY DEF KernelMapped, Slot
  <2>1. (KernelDir * T + slot) \div T = KernelDir
        /\ (KernelDir * T + slot) % T = slot
    BY Numbers, PageAt
  <2>2. mem[DirFrame][KernelDir] = TableFrame /\ mem[TableFrame][slot] = slot
    BY DEF Inv, KernelKept, KernelPart
  <2> QED BY <2>1, <2>2, Numbers DEF Walk
<1> QED BY <1>1, PagingInvariant, PTL

(* What the code reads through its windows.                                *)
LEMMA WindowReads ==
    ASSUME Inv
    PROVE  /\ \A x : Read(Machine, DirPage, x) = mem[DirFrame][x]
           /\ \A d \in Slot : mem[DirFrame][d] # NotPresent =>
                 \A x : Read(Machine, Window(d), x) = mem[mem[DirFrame][d]][x]
<1>1. KernelPart(mem, tables)  BY DEF Inv, KernelKept
<1>2. tlb[DirPage] = NotPresent /\ \A d \in Slot : tlb[Window(d)] = NotPresent
  BY TouchedPages, Windows DEF Inv, TLBKept
<1>3. Translate(Machine, DirPage) = DirFrame /\ DirFrame # NotPresent
  BY <1>1, <1>2, KernelWalks, MachineIs, TranslateIs
<1>4. \A d \in Slot : Translate(Machine, Window(d)) = mem[DirFrame][d]
  BY <1>1, <1>2, KernelWalks, MachineIs, TranslateIs
<1>5. Machine.mem = mem  BY DEF Machine
<1> QED BY <1>3, <1>4, <1>5 DEF Read

(* virt_to_phys gives the frame that the processor uses, for every page:   *)
(* the kernel's, those of the tables themselves and those of running code. *)
THEOREM VirtToPhysAgreesAlways == Spec => []VirtToPhysAgrees
<1>1. ASSUME Inv, NEW page \in Page
      PROVE  virt_to_phys(Machine, page) = Walk(mem, page)
  <2> DEFINE d == page \div T
             i == page % T
             t == mem[DirFrame][d]
  <2>1. d \in Slot /\ i \in Slot  BY PageParts
  <2>2. Read(Machine, DirPage, d) = t /\ Read(Machine, DirPage, i) = mem[DirFrame][i]
        /\ (t # NotPresent => Read(Machine, Window(d), i) = mem[t][i])
    BY <1>1, <2>1, WindowReads
  <2>3. Machine.tables = tables  BY DEF Machine
  <2>4. Walk(mem, page) = IF t = NotPresent THEN NotPresent ELSE mem[t][i]
    BY DEF Walk
  <2>5. d = RecDir => t = DirFrame /\ t # NotPresent
    BY <1>1, Numbers DEF Inv, KernelKept, KernelPart
  <2>6. t # NotPresent /\ d # RecDir => tables[d].virt_addr = Window(d)
    <3>1. CASE d = KernelDir  BY <1>1, <3>1 DEF Inv, KernelKept, KernelPart
    <3>2. CASE d \in Dirs  BY <1>1, <3>2 DEF Inv, TablesKept
    <3> QED BY <2>1, <3>1, <3>2 DEF Dirs
  <2>7. virt_to_phys(Machine, page) =
           IF Read(Machine, DirPage, d) = NotPresent THEN NotPresent
           ELSE Read(Machine, IF d = RecDir THEN DirPage
                              ELSE Machine.tables[d].virt_addr, i)
    BY DEF virt_to_phys
  <2> HIDE DEF d, i, t
  <2> QED BY <2>2, <2>3, <2>4, <2>5, <2>6, <2>7
<1>2. Inv => VirtToPhysAgrees  BY <1>1 DEF VirtToPhysAgrees
<1> QED BY <1>2, PagingInvariant, PTL

(* Every frame of the pool is free, or a table, or a page, and then once.  *)
THEOREM FramesAccountedAlways == Spec => []FramesAccounted
<1>1. ASSUME Inv, ~wild, NEW frame \in Pool
      PROVE  Cardinality(TableUses(frame)) + Cardinality(PageUses(frame))
                = IF test_bit(pmm_frames, frame) THEN 1 ELSE 0
  <2>1. frame \in Bits /\ frame \notin Slot /\ frame # NotPresent
    BY PoolFrames, Numbers
  <2>2. frame \in Allocated <=> test_bit(pmm_frames, frame)
    BY <2>1 DEF Allocated, Free, FreeFrames
  <2>3. TableUses(frame) = {d \in Dirs : mem[DirFrame][d] = frame}
    <3>1. 0..(T-2) = Slot \ {RecDir}  BY Numbers DEF Slot, RecDir
    <3>2. mem[DirFrame][KernelDir] # frame
      BY <1>1, <2>1, Numbers DEF Inv, KernelKept, KernelPart
    <3> QED BY <3>1, <3>2 DEF TableUses, Dirs
  <2>4. PageUses(frame) = {page \in UserPages : Walk(mem, page) = frame}
    <3>1. ASSUME NEW page \in Page, page \div T = KernelDir
          PROVE  Walk(mem, page) # frame
      <4>1. page % T \in Slot  BY PageParts
      <4>2. mem[DirFrame][KernelDir] = TableFrame
            /\ mem[TableFrame][page % T] = page % T
        BY <1>1, <4>1 DEF Inv, KernelKept, KernelPart
      <4> QED BY <2>1, <3>1, <4>1, <4>2, Numbers DEF Walk
    <3>2. \A page \in Page : page \div T \in Slot  BY PageParts
    <3> QED BY <3>1, <3>2 DEF PageUses, UserPages, Dirs
  <2>5. \A d, e \in Dirs : mem[DirFrame][d] = frame /\ mem[DirFrame][e] = frame => d = e
    BY <1>1, <2>1 DEF Inv, TablesKept
  <2>6. \A p, q \in UserPages : Walk(mem, p) = frame /\ Walk(mem, q) = frame => p = q
    BY <1>1, <2>1 DEF Inv, PagesKept
  <2>7. \A d \in Dirs, q \in UserPages :
           ~(mem[DirFrame][d] = frame /\ Walk(mem, q) = frame)
    BY <1>1, <2>1 DEF Inv, PagesKept
  <2>8. \A d \in Dirs : mem[DirFrame][d] = frame => frame \in Allocated
    BY <1>1, <2>1 DEF Inv, TablesKept
  <2>9. \A q \in UserPages : Walk(mem, q) = frame => frame \in Allocated
    BY <1>1, <2>1 DEF Inv, PagesKept
  <2>10. Cardinality({}) = 0 /\ \A x : Cardinality({x}) = 1
    BY FS_EmptySet, FS_Singleton
  <2>11. CASE frame \notin Allocated
    <3>1. TableUses(frame) = {} /\ PageUses(frame) = {}
      BY <2>3, <2>4, <2>8, <2>9, <2>11
    <3> QED BY <2>2, <2>10, <2>11, <3>1
  <2>12. CASE \E d \in Dirs : mem[DirFrame][d] = frame
    <3>1. PICK d \in Dirs : mem[DirFrame][d] = frame  BY <2>12
    <3>2. TableUses(frame) = {d} /\ PageUses(frame) = {}
      BY <2>3, <2>4, <2>5, <2>7, <3>1
    <3>3. test_bit(pmm_frames, frame)  BY <2>2, <2>8, <3>1
    <3>4. Cardinality(TableUses(frame)) = 1 /\ Cardinality(PageUses(frame)) = 0
      BY <2>10, <3>2
    <3> QED BY <3>3, <3>4
  <2>13. CASE \E q \in UserPages : Walk(mem, q) = frame
    <3>1. PICK q \in UserPages : Walk(mem, q) = frame  BY <2>13
    <3>2. TableUses(frame) = {} /\ PageUses(frame) = {q}
      BY <2>3, <2>4, <2>6, <2>7, <3>1
    <3>3. test_bit(pmm_frames, frame)  BY <2>2, <2>9, <3>1
    <3> QED BY <2>10, <3>2, <3>3
  <2> QED BY <1>1, <2>11, <2>12, <2>13 DEF Inv, AllUsed
<1>2. Inv => FramesAccounted  BY <1>1 DEF FramesAccounted
<1> QED BY <1>2, PagingInvariant, PTL

-----------------------------------------------------------------------------
(* What a page contains for running code.                                  *)
Content(page) == IF Walk(mem, page) = NotPresent THEN <<>> ELSE mem[Walk(mem, page)]
View == [page \in Touched |-> Content(page)]

LEMMA RowIsContent ==
    ASSUME NEW row \in Row
    PROVE  row # <<>> /\ row \in [0..(T-1) -> Word]
<1>1. 0 \in DOMAIN row  BY Numbers DEF Row, Slot
<1>2. 0 \notin DOMAIN <<>>  OBVIOUS
<1> QED BY <1>1, <1>2 DEF Row, Slot

LEMMA ContentIs ==
    ASSUME Inv, NEW page \in Touched
    PROVE  IF Walk(mem, page) = NotPresent THEN Content(page) = <<>>
           ELSE Content(page) # <<>>
<1>1. CASE Walk(mem, page) # NotPresent
  <2>1. Walk(mem, page) \in Bits /\ mem \in Memory
    BY <1>1, Translates, Types DEF Inv
  <2>2. mem[Walk(mem, page)] \in Row  BY <2>1 DEF Memory
  <2> QED BY <1>1, <2>2, RowIsContent DEF Content
<1> QED BY <1>1 DEF Content

(* Demand paging implements flat memory: a page comes with some content at *)
(* its first use and from then on has what was written to it, whatever     *)
(* faults are served in between, until no frame is left.                   *)
THEOREM FlatMemoryImplemented == Spec => ImplementsFlatMemory
<1> DEFINE V == [page \in Touched |-> IF Walk(mem, page) = NotPresent
                                      THEN <<>> ELSE mem[Walk(mem, page)]]
<1>1. V = View  BY DEF View, Content
<1>2. Init => FM!Init
  <2> SUFFICES ASSUME Init PROVE FM!Init  OBVIOUS
  <2>1. Inv  BY InvInit
  <2>2. wild = FALSE /\ Allocated = {}
    BY DEF Init, paging_initialize, Allocated, Free, Pool
  <2>3. \A page \in Touched : Walk(mem, page) = NotPresent
    BY <2>1, <2>2, TouchedPages, UserFrames
  <2>4. V = [page \in Touched |-> <<>>]  BY <2>3
  <2> QED BY <2>2, <2>4 DEF FM!Init
<1>3. Inv /\ [Next]_vars => [~wild /\ FM!Next]_(FM!vars)
  <2> SUFFICES ASSUME Inv, [Next]_vars PROVE [~wild /\ FM!Next]_(FM!vars)
    OBVIOUS
  <2>1. CASE UNCHANGED <<mem, wild>>
    BY <2>1 DEF FM!vars, Walk
  <2>2. CASE \E page \in Touched, word \in Values : Put(page, word)
    <3>1. PICK page \in Touched, word \in Values : Put(page, word)  BY <2>2
    <3>2. FM!Put(page, word)
      <4>1. /\ ~wild /\ wild' = wild /\ Walk(mem, page) # NotPresent
        BY <3>1, PutIs
      <4>2. /\ mem'[Walk(mem, page)] = WriteWord(mem[Walk(mem, page)], word)
            /\ \A f \in Bits : f # Walk(mem, page) => mem'[f] = mem[f]
        BY <3>1, PutRows
      <4>3. \A q \in Touched : Walk(mem', q) = Walk(mem, q)
        BY <3>1, InvPut, TouchedPages
      <4>4. ASSUME NEW q \in Touched, q # page
            PROVE  V'[q] = V[q]
        <5>1. Walk(mem, q) # NotPresent =>
                 Walk(mem, q) \in Bits /\ Walk(mem, q) # Walk(mem, page)
          BY <4>1, <4>4, Translates DEF Inv, PagesKept
        <5> QED BY <4>2, <4>3, <5>1
      <4>5. V'[page] = WriteWord(V[page], word)
        BY <4>1, <4>2, <4>3
      <4>6. V' = [V EXCEPT ![page] = WriteWord(V[page], word)]
        <5>1. /\ V = [q \in Touched |-> V[q]] /\ DOMAIN V = Touched
              /\ V' = [q \in Touched |-> V'[q]]
          OBVIOUS
        <5> HIDE DEF V
        <5> QED BY <4>4, <4>5, <5>1
      <4>7. V[page] # <<>>
        BY <4>1, ContentIs DEF Content
      <4> HIDE DEF V
      <4> QED BY <4>1, <4>6, <4>7 DEF FM!Put, V
    <3> QED BY <3>1, <3>2, PutIs DEF FM!Next
  <2>3. CASE \E page \in Touched : PageFault(page)
    <3>1. PICK page \in Touched : PageFault(page)  BY <2>3
    <3>2. ~wild /\ Walk(mem, page) = NotPresent  BY <3>1, FaultServes
    <3>3. CASE wild' = TRUE /\ Fails
      <4>1. V' = V  BY <3>3 DEF Fails, Walk
      <4> HIDE DEF V
      <4> QED BY <3>2, <3>3, <4>1 DEF FM!Exhausted, FM!Next, V
    <3>4. CASE wild' = wild /\ \E frame, nf : Serves(page, frame, nf)
      <4>1. PICK frame, nf : Serves(page, frame, nf)  BY <3>4
      <4>2. /\ mem' \in Memory /\ frame \in Free
            /\ \A q \in Touched : Walk(mem', q)
                                    = IF q = page THEN frame ELSE Walk(mem, q)
            /\ \A q \in Touched : Walk(mem, q) # NotPresent =>
                  mem'[Walk(mem, q)] = mem[Walk(mem, q)]
        BY <4>1, TouchedPages DEF Serves
      <4>3. frame \in Bits /\ frame # NotPresent  BY <4>2, UserFrames, Numbers
      <4>4. mem'[frame] \in [0..(T-1) -> Word]
        BY <4>2, <4>3, RowIsContent DEF Memory
      <4>5. V[page] = <<>> /\ V'[page] = mem'[frame]
        BY <3>2, <4>2, <4>3
      <4>6. \A q \in Touched : q # page => V'[q] = V[q]
        BY <4>2
      <4>7. /\ V = [q \in Touched |-> V[q]] /\ DOMAIN V = Touched
            /\ V' = [q \in Touched |-> V'[q]]
        OBVIOUS
      <4> HIDE DEF V
      <4>8. V' = [V EXCEPT ![page] = V'[page]]  BY <4>6, <4>7
      <4>9. FM!FirstUse(page)
        BY <3>4, <4>4, <4>5, <4>8 DEF FM!FirstUse, V
      <4> QED BY <3>2, <4>9 DEF FM!Next
    <3> QED BY <3>1, <3>3, <3>4, FaultServes
  <2> QED BY <2>1, <2>2, <2>3, GetIs, EvictIs DEF Next, Stuck, vars
<1> QED BY <1>2, <1>3, PagingInvariant, PTL DEF Spec, FM!Spec, ImplementsFlatMemory

-----------------------------------------------------------------------------
(* What the operators make of a machine is a machine again, mapped or lost. *)
Machines == [pmm_frames : Bitmaps(Bytes), mem : Memory, tlb : TLB,
             tables : [Slot -> Table], wild : BOOLEAN]

LEMMA WalkType ==
    ASSUME NEW m \in Memory, NEW page \in Page
    PROVE  Walk(m, page) \in Word
<1> DEFINE d == page \div T
           i == page % T
           t == m[DirFrame][d]
<1>1. d \in Slot /\ i \in Slot /\ DirFrame \in Bits  BY PageParts, Numbers
<1> HIDE DEF d, i
<1>2. t \in Word  BY <1>1 DEF Memory, Row
<1>3. t # NotPresent => m[t][i] \in Word  BY <1>1, <1>2 DEF Memory, Row, Word
<1>4. NotPresent \in Word  BY DEF Word
<1> QED BY <1>2, <1>3, <1>4 DEF Walk, d, i

LEMMA TranslateType ==
    ASSUME NEW s \in Machines, NEW page \in Page
    PROVE  /\ Translate(s, page) \in Word
           /\ Translate(s, page) # NotPresent => Translate(s, page) \in Bits
<1>1. s.mem \in Memory /\ s.tlb[page] \in Word  BY DEF Machines, TLB
<1>2. Walk(s.mem, page) \in Word  BY <1>1, WalkType
<1> QED BY <1>1, <1>2 DEF Translate, Word

LEMMA AccessTypes ==
    ASSUME NEW s \in Machines, NEW page \in Page
    PROVE  /\ Lost(s) \in Machines /\ Lost(s).wild
           /\ Load(s, page) \in Machines
           /\ Fill(s, page, NotPresent) \in Machines
           /\ invlpg(s, page) \in Machines /\ write_cr3(s) \in Machines
<1> DEFINE t == Translate(s, page)
<1>1. t \in Word /\ (t # NotPresent => t \in Bits)  BY TranslateType
<1>2. Lost(s) \in Machines /\ Lost(s).wild  BY DEF Lost, Machines
<1>3. NotPresent \in Word  BY DEF Word
<1>4. Load(s, page) \in Machines
  <2>1. [s.tlb EXCEPT ![page] = t] \in TLB  BY <1>1 DEF Machines, TLB
  <2> HIDE DEF t
  <2>2. [s EXCEPT !.tlb[page] = t] \in Machines  BY <2>1 DEF Machines
  <2> QED BY <1>2, <2>2 DEF Load, t
<1>5. invlpg(s, page) \in Machines
  <2>1. [s.tlb EXCEPT ![page] = NotPresent] \in TLB  BY <1>3 DEF Machines, TLB
  <2> QED BY <2>1 DEF Machines, invlpg
<1>6. write_cr3(s) \in Machines
  <2>1. [q \in Page |-> NotPresent] \in TLB  BY <1>3 DEF TLB
  <2> QED BY <2>1 DEF Machines, write_cr3
<1>7. Fill(s, page, NotPresent) \in Machines
  <2>1. Blank \in Row  BY <1>3 DEF Blank, Row
  <2> DEFINE l == Load(s, page)
  <2>2. l \in Machines  BY <1>4
  <2> HIDE DEF l, t
  <2>3. t # NotPresent => [l EXCEPT !.mem[t] = Blank] \in Machines
    <3>1. t # NotPresent => [l.mem EXCEPT ![t] = Blank] \in Memory
      BY <1>1, <2>1, <2>2 DEF Machines, Memory
    <3> QED BY <2>2, <3>1 DEF Machines
  <2>4. Fill(s, page, NotPresent)
           = IF t = NotPresent THEN Lost(s) ELSE [l EXCEPT !.mem[t] = Blank]
    BY Zenon DEF Fill, Blank, Slot, t, l
  <2> QED BY <1>2, <2>3, <2>4
<1> QED BY <1>2, <1>4, <1>5, <1>6, <1>7

LEMMA WordTypes ==
    ASSUME NEW s \in Machines, NEW page \in Page, NEW slot \in Slot
    PROVE  /\ Read(s, page, slot) \in Word
           /\ \A word \in Word : Store(s, page, slot, word) \in Machines
<1> DEFINE t == Translate(s, page)
<1>1. t # NotPresent => t \in Bits  BY TranslateType
<1>2. Read(s, page, slot) \in Word
  <2>1. t # NotPresent => s.mem[t][slot] \in Word
    BY <1>1 DEF Machines, Memory, Row
  <2> QED BY <2>1 DEF Read, Word
<1>3. ASSUME NEW word \in Word PROVE Store(s, page, slot, word) \in Machines
  <2> DEFINE l == Load(s, page)
  <2>1. l \in Machines /\ Lost(s) \in Machines  BY AccessTypes
  <2> HIDE DEF l, t
  <2>2. t # NotPresent => [l EXCEPT !.mem[t][slot] = word] \in Machines
    <3>1. t # NotPresent => WordPut(l.mem, t, slot, word) \in Memory
      BY <1>1, <2>1, WordPutIs DEF Machines
    <3>2. [l EXCEPT !.mem[t][slot] = word] = [l EXCEPT !.mem = WordPut(l.mem, t, slot, word)]
      BY <2>1 DEF Machines, WordPut
    <3> QED BY <2>1, <3>1, <3>2 DEF Machines
  <2>3. Store(s, page, slot, word)
           = IF t = NotPresent THEN Lost(s) ELSE [l EXCEPT !.mem[t][slot] = word]
    BY Zenon DEF Store, t, l
  <2> QED BY <2>1, <2>2, <2>3
<1> QED BY <1>2, <1>3

LEMMA TableForType ==
    ASSUME NEW p \in Bitmaps(Bytes), NEW frame
    PROVE  /\ TableFor(p, frame).frame \in Bits \cup {NoFrame}
           /\ TableFor(p, frame).frames \in Bitmaps(Bytes)
<1>1. /\ \A b \in Bitmaps(Bytes) : /\ after_alloc(b) \in Bitmaps(Bytes)
                                   /\ alloc_frame(b) \in Bits \cup {NoFrame}
  BY Numbers, AllocFrame DEF FreeFrames
<1>2. \A b \in Bitmaps(Bytes) : \A f : free_frame(b, f) \in Bitmaps(Bytes)
  BY DEF free_frame, clear_bit, Bitmaps
<1> QED BY <1>1, <1>2 DEF TableFor

LEMMA CreateTableType ==
    ASSUME NEW s \in Machines, NEW d \in Slot, NEW frame
    PROVE  CreateTable(s, d, frame) \in Machines
<1> DEFINE new == TableFor(s.pmm_frames, frame)
           f == new.frame
           kernel == s.tables[KernelDir].virt_addr
           saved == Read(s, kernel, ScratchSlot)
           s1 == [s EXCEPT !.pmm_frames = new.frames]
           s2 == Store(s1, kernel, ScratchSlot, f)
           s3 == Fill(s2, ScratchPage, NotPresent)
           s4 == Store(s3, DirPage, d, f)
           note == [virt_addr |-> Window(d), phys_addr |-> f]
           s5 == [s4 EXCEPT !.tables[d] = note]
           s6 == Store(s5, kernel, ScratchSlot, saved)
<1>1. f \in Bits \cup {NoFrame} /\ new.frames \in Bitmaps(Bytes)
  BY TableForType DEF Machines
<1>2. s1 \in Machines  BY <1>1 DEF Machines
<1>3. kernel \in Page /\ KernelDir \in Slot /\ ScratchSlot \in Slot
      /\ ScratchPage \in Page /\ DirPage \in Page /\ Window(d) \in Page
  BY Numbers, Windows DEF Machines, Table
<1>4. saved \in Word  BY <1>3, WordTypes
<1>5. CreateTable(s, d, frame) = IF f = NoFrame THEN Lost(s1) ELSE s6
  BY Zenon DEF CreateTable
<1> HIDE DEF f, kernel, saved, s1
<1>6. CASE f = NoFrame  BY <1>2, <1>3, <1>5, <1>6, AccessTypes
<1>7. CASE f # NoFrame
  <2>1. f \in Word /\ f \in Bits  BY <1>1, <1>7 DEF Word
  <2>2. s2 \in Machines  BY <1>2, <1>3, <2>1, WordTypes
  <2> HIDE DEF s2
  <2>3. s3 \in Machines  BY <1>3, <2>2, AccessTypes
  <2> HIDE DEF s3
  <2>4. s4 \in Machines  BY <1>3, <2>1, <2>3, WordTypes
  <2> HIDE DEF s4
  <2>5. s5 \in Machines
    <3>1. note \in Table  BY <1>3, <2>1 DEF Table
    <3> HIDE DEF note
    <3>2. [s4.tables EXCEPT ![d] = note] \in [Slot -> Table]  BY <2>4, <3>1 DEF Machines
    <3> QED BY <2>4, <3>2 DEF Machines
  <2> HIDE DEF s5
  <2>6. s6 \in Machines  BY <1>3, <1>4, <2>5, WordTypes
  <2> QED BY <1>5, <1>7, <2>6
<1> QED BY <1>6, <1>7

(* Without a frame map_page always ends in the wild. *)
LEMMA MapTypes ==
    ASSUME NEW s \in Machines, NEW page \in Page, NEW frame \in Bits \cup {NoFrame}
    PROVE  /\ map_page(s, page, frame) \in Machines
           /\ unmap_page(s, page) \in Machines
           /\ frame = NoFrame => map_page(s, page, frame).wild
<1> DEFINE d == page \div T
           i == page % T
           s1 == Load(s, DirPage)
           s2 == IF Read(s1, DirPage, d) = NotPresent THEN CreateTable(s1, d, frame) ELSE s1
           s3 == Store(s2, s2.tables[d].virt_addr, i, frame)
           s4 == Store(s1, s1.tables[d].virt_addr, i, NotPresent)
<1>1. d \in Slot /\ i \in Slot /\ DirPage \in Page  BY PageParts, Windows
<1>2. s1 \in Machines  BY <1>1, AccessTypes
<1>3. map_page(s, page, frame)
         = IF s2.wild \/ frame = NoFrame THEN Lost(s2) ELSE invlpg(s3, page)
  BY Zenon DEF map_page
<1>4. unmap_page(s, page)
         = IF Read(s1, DirPage, d) = NotPresent THEN s1 ELSE invlpg(s4, page)
  BY Zenon DEF unmap_page
<1> HIDE DEF s1, d, i
<1>5. s2 \in Machines  BY <1>1, <1>2, CreateTableType
<1> HIDE DEF s2
<1>6. Lost(s2) \in Machines /\ Lost(s2).wild  BY <1>1, <1>5, AccessTypes
<1>7. frame # NoFrame => invlpg(s3, page) \in Machines
  <2>1. s2.tables[d].virt_addr \in Page  BY <1>1, <1>5 DEF Machines, Table
  <2>2. frame # NoFrame => s3 \in Machines  BY <1>1, <1>5, <2>1, WordTypes DEF Word
  <2> HIDE DEF s3
  <2> QED BY <2>2, AccessTypes
<1>8. invlpg(s4, page) \in Machines
  <2>1. s1.tables[d].virt_addr \in Page  BY <1>1, <1>2 DEF Machines, Table
  <2>2. s4 \in Machines  BY <1>1, <1>2, <2>1, WordTypes DEF Word
  <2> HIDE DEF s4
  <2> QED BY <2>2, AccessTypes
<1> HIDE DEF s3, s4
<1> QED BY <1>2, <1>3, <1>4, <1>6, <1>7, <1>8

LEMMA HandlerType ==
    ASSUME NEW s \in Machines, NEW page \in Page
    PROVE  page_fault_interrupt_handler(s, page) \in Machines
<1> DEFINE frame == alloc_frame(s.pmm_frames)
           s1 == [s EXCEPT !.pmm_frames = after_alloc(@)]
<1>1. frame \in Bits \cup {NoFrame} /\ after_alloc(s.pmm_frames) \in Bitmaps(Bytes)
  BY Numbers, AllocFrame DEF FreeFrames, Machines
<1>2. s1 \in Machines  BY <1>1 DEF Machines
<1> HIDE DEF frame, s1
<1>3. map_page(s1, page, frame) \in Machines  BY <1>1, <1>2, MapTypes
<1>4. invlpg(write_cr3(map_page(s1, page, frame)), page) \in Machines
  BY <1>3, AccessTypes
<1> QED BY <1>4 DEF page_fault_interrupt_handler, frame, s1

LEMMA MachineTypes ==
    /\ TypeOK <=> Machine \in Machines
    /\ \A s \in Machines : Becomes(s) => TypeOK'
<1>1. TypeOK <=> Machine \in Machines  BY Types DEF Machine, Machines
<1>2. ASSUME NEW s \in Machines, Becomes(s) PROVE TypeOK'
  <2>1. /\ pmm_frames' \in Bitmaps(Bytes) /\ mem' \in Memory /\ tlb' \in TLB
        /\ tables' \in [Slot -> Table] /\ wild' \in BOOLEAN
    BY <1>2 DEF Becomes, Machines
  <2> QED BY <2>1 DEF TypeOK, Memory, Row, TLB, Table, Slot
<1> QED BY <1>1, <1>2

(* The steps of any program on the machine. *)
LEMMA StepTypes ==
    ASSUME TypeOK, NEW page \in Page
    PROVE  /\ Get(page) => TypeOK'
           /\ \A word \in Word : Put(page, word) => TypeOK'
           /\ PageFault(page) => TypeOK'
           /\ Evict(page) => TypeOK'
<1>1. Machine \in Machines  BY MachineTypes
<1>2. 0 \in Slot  BY Numbers DEF Slot
<1>3. Get(page) => TypeOK'  BY <1>1, AccessTypes, MachineTypes DEF Get
<1>4. \A word \in Word : Put(page, word) => TypeOK'
  BY <1>1, <1>2, WordTypes, MachineTypes DEF Put
<1>5. PageFault(page) => TypeOK'  BY <1>1, HandlerType, MachineTypes DEF PageFault
<1>6. Evict(page) => TypeOK'  BY <1>1, AccessTypes, MachineTypes DEF Evict
<1> QED BY <1>3, <1>4, <1>5, <1>6

(* mapTest allocates and maps. *)
LEMMA AllocTypes ==
    ASSUME TypeOK
    PROVE  /\ [Machine EXCEPT !.pmm_frames = after_alloc(@)] \in Machines
           /\ alloc_frame(pmm_frames) \in Bits \cup {NoFrame}
<1>1. Machine \in Machines /\ pmm_frames \in Bitmaps(Bytes)  BY MachineTypes, Types
<1>2. after_alloc(pmm_frames) \in Bitmaps(Bytes)
      /\ alloc_frame(pmm_frames) \in Bits \cup {NoFrame}
  BY <1>1, Numbers, AllocFrame DEF FreeFrames
<1>3. Machine.pmm_frames = pmm_frames  BY DEF Machine
<1> QED BY <1>1, <1>2, <1>3 DEF Machines

LEMMA MTPages ==
    /\ First \in UserPages /\ Second \in UserPages
    /\ First \in Page /\ Second \in Page /\ First # Second
    /\ First \div T # Second \div T
    /\ First \notin Touched /\ Second \notin Touched
    /\ Touched \subseteq Page /\ Greeting \in Word /\ Values \subseteq Word
<1>1. \A page \in Page : page \div T \in Slot  BY PageParts
<1> QED BY <1>1, MapTestAssumption, PagingAssumption DEF UserPages, Dirs

LEMMA MTTypes ==
    ASSUME MTTypeOK, [MTNext]_mtVars
    PROVE  MTTypeOK'
<1>1. TypeOK /\ phys_mem \in Bits \cup {NoFrame} /\ greeted \in Word  BY DEF MTTypeOK
<1>2. Machine \in Machines  BY <1>1, MachineTypes
<1>3. CASE OtherCommand
  <2>1. TypeOK'  BY <1>1, <1>3, MTPages, StepTypes DEF OtherCommand
  <2> QED BY <1>3, <2>1 DEF OtherCommand, MTTypeOK
<1>4. CASE Drop
  <2>1. TypeOK'  BY <1>1, <1>4, StepTypes DEF Drop
  <2> QED BY <1>4, <2>1 DEF Drop, MTTypeOK
<1>5. CASE MapFirst
  <2> DEFINE s == [Machine EXCEPT !.pmm_frames = after_alloc(@)]
  <2>1. s \in Machines /\ phys_mem' \in Bits \cup {NoFrame}
    BY <1>1, <1>5, AllocTypes DEF MapFirst
  <2>2. Becomes(map_page(s, First, phys_mem')) /\ pc' = "write" /\ greeted' = greeted
    BY <1>5 DEF MapFirst
  <2> HIDE DEF s
  <2>3. map_page(s, First, phys_mem') \in Machines  BY <2>1, MTPages, MapTypes
  <2>4. TypeOK'  BY <2>2, <2>3, MachineTypes
  <2> QED BY <1>1, <2>1, <2>2, <2>4 DEF MTTypeOK
<1>6. CASE WriteFirst
  <2>1. TypeOK'  BY <1>1, <1>6, MTPages, StepTypes DEF WriteFirst
  <2> QED BY <1>6, <2>1 DEF WriteFirst, MTTypeOK
<1>7. CASE Move
  <2>1. unmap_page(Machine, First) \in Machines
    BY <1>1, <1>2, MTPages, MapTypes
  <2>2. map_page(unmap_page(Machine, First), Second, phys_mem) \in Machines
    BY <1>1, <2>1, MTPages, MapTypes
  <2>3. TypeOK'  BY <1>7, <2>2, MachineTypes DEF Move
  <2> QED BY <1>7, <2>3 DEF Move, MTTypeOK
<1>8. CASE ReadSecond
  <2>1. TypeOK'  BY <1>1, <1>8, MTPages, StepTypes DEF ReadSecond
  <2>2. 0 \in Slot  BY Numbers DEF Slot
  <2>3. Read(Machine, Second, 0) \in Word  BY <1>2, <2>2, MTPages, WordTypes
  <2> QED BY <1>8, <2>1, <2>3 DEF ReadSecond, MTTypeOK
<1>9. CASE ReadFirst
  <2>1. TypeOK'  BY <1>1, <1>9, MTPages, StepTypes DEF ReadFirst
  <2> QED BY <1>9, <2>1 DEF ReadFirst, MTTypeOK
<1>10. CASE UNCHANGED mtVars
  <2>1. TypeOK'  BY <1>1, <1>10 DEF TypeOK, mtVars
  <2> QED BY <1>10, <2>1 DEF mtVars, MTTypeOK
<1> QED
  BY <1>3, <1>4, <1>5, <1>6, <1>7, <1>8, <1>9, <1>10 DEF MTNext, Gone

LEMMA MTTypesInit == ASSUME MTInit PROVE MTTypeOK
<1>1. TypeOK /\ pc = "prompt" /\ phys_mem = 0 /\ greeted = Greeting
  BY InvInit DEF MTInit, Inv
<1>2. 0 \in Bits  BY Numbers DEF Slot
<1> QED BY <1>1, <1>2, MTPages DEF MTTypeOK

(* Whatever mapTest does and wherever the code loses itself, the words of  *)
(* memory, the TLB and the bitmap keep their types.                        *)
THEOREM MTTypeCorrect == MTSpec => []MTTypeOK
<1>1. MTInit => MTTypeOK  BY MTTypesInit
<1>2. MTTypeOK /\ [MTNext]_mtVars => MTTypeOK'  BY MTTypes
<1> QED BY <1>1, <1>2, PTL DEF MTSpec

-----------------------------------------------------------------------------
(* mapTest without a fault of its own in between: CR3 is not written, and  *)
(* what map_page caches stays.  Mine are the pages that some command uses  *)
(* and those of the tables that are cleared: the table of Second may be    *)
(* made while the scratch page still leads to the table of First, and what *)
(* is in it but for Second is then anything.                               *)
Mine == {q \in UserPages : q \div T = Second \div T => q = Second}

InUse(p) == Pool \ FreeFrames(p)

(* Every table and every page of Mine has a frame of its own, in use.      *)
TablesApart(p, m, tb) == \A d \in Dirs : m[DirFrame][d] # NotPresent =>
    /\ m[DirFrame][d] \in InUse(p)
    /\ tb[d].virt_addr = Window(d)
    /\ \A e \in Dirs : m[DirFrame][e] = m[DirFrame][d] => e = d

PagesApart(p, m) == \A q \in Mine : Walk(m, q) # NotPresent =>
    /\ Walk(m, q) \in InUse(p)
    /\ \A d \in Dirs : m[DirFrame][d] # Walk(m, q)
    /\ \A r \in Mine : Walk(m, r) = Walk(m, q) => r = q

Sound(p, m, tb) ==
    /\ p \in Bitmaps(Bytes) /\ m \in Memory /\ tb \in [Slot -> Table]
    /\ FreeFrames(p) \subseteq Pool
    /\ KernelPart(m, tb)
    /\ TablesApart(p, m, tb)
    /\ PagesApart(p, m)

(* The TLB agrees with the tables but for the scratch page.                *)
Coherent(l, m) == \A q \in Page \ {ScratchPage} : l[q] \in {NotPresent, Walk(m, q)}

LEMMA SoundFrames ==
    ASSUME NEW p, NEW m, NEW tb, Sound(p, m, tb)
    PROVE  /\ FreeFrames(p) \subseteq Bits \ Slot /\ InUse(p) \subseteq Bits \ Slot
           /\ NotPresent \notin InUse(p) /\ NoFrame \notin InUse(p)
           /\ \A d \in Dirs : m[DirFrame][d] # NotPresent => m[DirFrame][d] \in InUse(p)
           /\ \A e \in Slot : m[DirFrame][e] # NotPresent => m[DirFrame][e] \in Bits
           /\ m[DirFrame][KernelDir] = TableFrame /\ m[DirFrame][RecDir] = DirFrame
<1>1. FreeFrames(p) \subseteq Bits \ Slot /\ InUse(p) \subseteq Bits \ Slot
  BY PoolFrames DEF Sound, InUse
<1>2. NotPresent \notin InUse(p) /\ NoFrame \notin InUse(p)  BY <1>1, Numbers
<1>3. \A d \in Dirs : m[DirFrame][d] # NotPresent => m[DirFrame][d] \in InUse(p)
  BY DEF Sound, TablesApart
<1>4. m[DirFrame][KernelDir] = TableFrame /\ m[DirFrame][RecDir] = DirFrame
  BY DEF Sound, KernelPart
<1>5. \A e \in Slot : m[DirFrame][e] # NotPresent => m[DirFrame][e] \in Bits
  BY <1>1, <1>3, <1>4, Numbers DEF Dirs
<1> QED BY <1>1, <1>2, <1>3, <1>4, <1>5

(* A word put into a table is the new translation of one page.             *)
LEMMA EntryWalks ==
    ASSUME NEW p, NEW m, NEW tb, Sound(p, m, tb), NEW page \in UserPages,
           NEW word \in Word, NEW t, m[DirFrame][page \div T] = t, t # NotPresent,
           NEW m2, m2 = WordPut(m, t, page % T, word)
    PROVE  /\ m2 \in Memory /\ KernelPart(m2, tb)
           /\ \A e \in Slot : m2[DirFrame][e] = m[DirFrame][e]
           /\ \A q \in Page : Walk(m2, q) = IF q = page THEN word ELSE Walk(m, q)
           /\ \A f \in Bits, x \in Slot : f # t \/ x # page % T => m2[f][x] = m[f][x]
           /\ m2[t][page % T] = word
<1> DEFINE d == page \div T
           i == page % T
<1>1. /\ page \in Page /\ d \in Dirs /\ d \in Slot /\ i \in Slot
  BY PageParts DEF UserPages, Dirs
<1>2. /\ m \in Memory /\ KernelPart(m, tb) /\ t \in Bits \ Slot
      /\ \A e \in Dirs : m[DirFrame][e] = t => e = d
  BY <1>1, SoundFrames DEF Sound, TablesApart
<1>3. t # DirFrame /\ t # TableFrame /\ DirFrame \in Bits /\ TableFrame \in Bits
  BY <1>2, Numbers
<1>4. /\ m2 \in Memory
      /\ \A f \in Bits, x \in Slot : m2[f][x] = IF f = t /\ x = i THEN word ELSE m[f][x]
  <2>1. t \in Bits /\ i \in Slot /\ m \in Memory  BY <1>1, <1>2
  <2>2. m2 = WordPut(m, t, i, word)  OBVIOUS
  <2> HIDE DEF i
  <2> QED BY ONLY <2>1, <2>2, WordPutIs, word \in Word
<1>5. \A e \in Slot : m2[DirFrame][e] = m[DirFrame][e]  BY <1>3, <1>4
<1>6. KernelPart(m2, tb)  BY <1>2, <1>3, <1>4, Numbers DEF KernelPart
<1>7. ASSUME NEW q \in Page
      PROVE  Walk(m2, q) = IF q = page THEN word ELSE Walk(m, q)
  <2> DEFINE e == q \div T
             j == q % T
             v == m[DirFrame][e]
  <2>1. e \in Slot /\ j \in Slot  BY PageParts
  <2>2. m2[DirFrame][e] = v  BY <1>5, <2>1
  <2>3. Walk(m2, q) = IF v = NotPresent THEN NotPresent ELSE m2[v][j]
    BY <2>2 DEF Walk
  <2>4. Walk(m, q) = IF v = NotPresent THEN NotPresent ELSE m[v][j]
    BY DEF Walk
  <2>5. v = t => e = d
    BY <1>2, <1>3, <2>1, SoundFrames DEF Dirs
  <2>6. v = t /\ j = i => q = page  BY <1>1, <2>5, SamePage
  <2>7. v # NotPresent => v \in Bits  BY <2>1, SoundFrames
  <2>8. q = page => v = t /\ j = i  OBVIOUS
  <2> HIDE DEF e, j, v, i, d
  <2> QED BY <1>4, <2>1, <2>3, <2>4, <2>6, <2>7, <2>8
<1> QED BY <1>1, <1>2, <1>4, <1>5, <1>6, <1>7

(* The frame that is cleared for a new table: its own, or one in which all *)
(* is clear.                                                               *)
Harmless(u, m, nf) == u = nf \/ \A x \in Slot : m[u][x] = NotPresent

TableAdded(m2, m, page, frame, nf, u) ==
    /\ \A e \in Slot : m2[DirFrame][e] = IF e = page \div T THEN nf ELSE m[DirFrame][e]
    /\ Walk(m2, page) = frame
    /\ \A q \in Page \ {page} : Walk(m, q) # NotPresent => Walk(m2, q) = Walk(m, q)
    /\ \A q \in UserPages \ {page} :
          u = nf \/ q \div T # page \div T => Walk(m2, q) = Walk(m, q)
    /\ \A f \in Bits \ {DirFrame, nf}, x \in Slot : m2[f][x] = m[f][x]

LEMMA CreateWalks ==
    ASSUME NEW p, NEW m, NEW tb, Sound(p, m, tb), NEW page \in UserPages,
           NEW frame, frame # NotPresent,
           m[DirFrame][page \div T] = NotPresent, NEW nf \in FreeFrames(p),
           NEW u \in Bits \ Slot, Harmless(u, m, nf), NEW m2 \in Memory,
           TableMadeWith(m2, m, page \div T, nf, u, page % T, frame)
    PROVE  TableAdded(m2, m, page, frame, nf, u)
<1> DEFINE d == page \div T
           i == page % T
<1>1. /\ page \in Page /\ d \in Dirs /\ d \in Slot /\ i \in Slot
      /\ d # KernelDir /\ d # RecDir
  BY PageParts DEF UserPages, Dirs
<1>2. /\ nf \in Bits \ Slot /\ nf \notin InUse(p) /\ nf # NotPresent
      /\ nf # DirFrame /\ u # DirFrame /\ DirFrame \in Bits
  BY SoundFrames, Numbers DEF InUse
<1>3. \A f \in Bits, x \in Slot : m2[f][x] =
         IF f = DirFrame /\ x = d THEN nf ELSE IF f = nf /\ x = i THEN frame
         ELSE IF f = u THEN NotPresent ELSE m[f][x]
  BY DEF TableMadeWith
<1>4. \A e \in Slot : m2[DirFrame][e] = IF e = d THEN nf ELSE m[DirFrame][e]
  BY <1>2, <1>3
<1>5. \A f \in Bits \ {DirFrame, nf}, x \in Slot : m2[f][x] = m[f][x]
  BY <1>3 DEF Harmless
<1>6. \A e \in Slot : m[DirFrame][e] # nf
  BY <1>2, SoundFrames, Numbers DEF Dirs
<1>7. ASSUME NEW q \in Page, q \div T # d
      PROVE  Walk(m, q) # NotPresent \/ q \div T # RecDir => Walk(m2, q) = Walk(m, q)
  <2> DEFINE e == q \div T
             j == q % T
             v == m[DirFrame][e]
  <2>1. e \in Slot /\ j \in Slot  BY PageParts
  <2>2. m2[DirFrame][e] = v  BY <1>4, <1>7, <2>1
  <2>3. Walk(m2, q) = IF v = NotPresent THEN NotPresent ELSE m2[v][j]
    BY <2>2 DEF Walk
  <2>4. Walk(m, q) = IF v = NotPresent THEN NotPresent ELSE m[v][j]
    BY DEF Walk
  <2>5. v # NotPresent => v \in Bits /\ v # nf  BY <1>6, <2>1, SoundFrames
  <2>6. v = DirFrame => e = RecDir
    BY <2>1, SoundFrames, Numbers DEF Dirs
  <2>7. v = DirFrame /\ j # d => m2[v][j] = m[v][j]  BY <1>4, <2>1
  <2>8. v = DirFrame /\ j = d => m[v][j] = NotPresent  OBVIOUS
  <2> HIDE DEF e, j, v
  <2>9. v # NotPresent /\ v # DirFrame => m2[v][j] = m[v][j]
    BY <1>5, <2>1, <2>5
  <2>10. Walk(m2, q) # Walk(m, q) => e = RecDir /\ Walk(m, q) = NotPresent
    BY <1>2, Numbers, <2>3, <2>4, <2>6, <2>7, <2>8, <2>9
  <2> QED BY <2>10 DEF e
<1>8. ASSUME NEW q \in Page, q \div T = d
      PROVE  /\ Walk(m, q) = NotPresent
             /\ Walk(m2, q) = m2[nf][q % T] /\ q % T \in Slot
             /\ q % T = i <=> q = page
  <2>1. q % T \in Slot  BY PageParts
  <2>2. m2[DirFrame][q \div T] = nf  BY <1>1, <1>4, <1>8
  <2>3. Walk(m, q) = NotPresent  BY <1>8 DEF Walk
  <2>4. Walk(m2, q) = m2[nf][q % T]  BY <1>2, <2>2 DEF Walk
  <2>5. q % T = i <=> q = page  BY <1>1, <1>8, SamePage
  <2> QED BY <2>1, <2>3, <2>4, <2>5
<1> HIDE DEF d, i
<1>9. m2[nf][i] = frame  BY <1>1, <1>2, <1>3
<1>10. u = nf => \A x \in Slot : x # i => m2[nf][x] = NotPresent
  BY <1>2, <1>3
<1>11. page \div T = d /\ page % T = i  BY DEF d, i
<1>12. Walk(m2, page) = frame  BY <1>1, <1>8, <1>9, <1>11
<1>13. \A q \in Page \ {page} : Walk(m, q) # NotPresent => Walk(m2, q) = Walk(m, q)
  BY <1>7, <1>8
<1>14. \A q \in UserPages \ {page} : u = nf \/ q \div T # d => Walk(m2, q) = Walk(m, q)
  BY <1>7, <1>8, <1>10 DEF UserPages, Dirs
<1> QED BY <1>4, <1>5, <1>11, <1>12, <1>13, <1>14 DEF TableAdded

(* What map_page and unmap_page leave sound: the table of page is in nt,   *)
(* page in word, and all else where it was.                                *)
LEMMA SoundAfter ==
    ASSUME NEW p, NEW m, NEW tb, Sound(p, m, tb), NEW page \in Mine, NEW word, NEW nt,
           NEW p2 \in Bitmaps(Bytes), NEW m2 \in Memory, NEW tb2 \in [Slot -> Table],
           FreeFrames(p2) \subseteq FreeFrames(p), KernelPart(m2, tb2),
           \A e \in Dirs : m2[DirFrame][e]
                              = IF e = page \div T THEN nt ELSE m[DirFrame][e],
           nt \in InUse(p2), nt = m[DirFrame][page \div T] \/ nt \notin InUse(p),
           tb2[page \div T].virt_addr = Window(page \div T),
           \A e \in Dirs : e # page \div T => tb2[e] = tb[e],
           \A q \in Mine : Walk(m2, q) = IF q = page THEN word ELSE Walk(m, q),
           \/ word = NotPresent
           \/ /\ word \in InUse(p2) /\ word # nt
              /\ \A e \in Dirs : m[DirFrame][e] # word
              /\ \A q \in Mine : Walk(m, q) = word => q = page
    PROVE  Sound(p2, m2, tb2)
<1> DEFINE d == page \div T
<1>1. /\ d \in Dirs /\ FreeFrames(p2) \subseteq Pool /\ InUse(p) \subseteq InUse(p2)
      /\ NotPresent \notin InUse(p)
  BY SoundFrames DEF Mine, UserPages, Sound, InUse
<1>2. \A e \in Dirs : m[DirFrame][e] # NotPresent =>
         /\ m[DirFrame][e] \in InUse(p)
         /\ tb[e].virt_addr = Window(e)
         /\ \A g \in Dirs : m[DirFrame][g] = m[DirFrame][e] => g = e
  BY DEF Sound, TablesApart
<1>3. \A q \in Mine : Walk(m, q) # NotPresent =>
         /\ Walk(m, q) \in InUse(p)
         /\ \A e \in Dirs : m[DirFrame][e] # Walk(m, q)
         /\ \A r \in Mine : Walk(m, r) = Walk(m, q) => r = q
  BY DEF Sound, PagesApart
<1>4. \A e \in Dirs : m2[DirFrame][e] = IF e = d THEN nt ELSE m[DirFrame][e]
  OBVIOUS
<1>5. nt # NotPresent
  BY PoolFrames, Numbers DEF InUse
<1>6. \A e \in Dirs : m[DirFrame][e] = nt => e = d
  BY <1>1, <1>2, <1>5
<1>9. nt = m[DirFrame][d] \/ nt \notin InUse(p)  OBVIOUS
<1>7. TablesApart(p2, m2, tb2)
  <2> SUFFICES ASSUME NEW e \in Dirs, m2[DirFrame][e] # NotPresent
               PROVE  /\ m2[DirFrame][e] \in InUse(p2)
                      /\ tb2[e].virt_addr = Window(e)
                      /\ \A g \in Dirs : m2[DirFrame][g] = m2[DirFrame][e] => g = e
    BY DEF TablesApart
  <2>1. tb2[d].virt_addr = Window(d) /\ (e # d => tb2[e] = tb[e])  OBVIOUS
  <2> HIDE DEF d
  <2> QED BY <1>1, <1>2, <1>4, <1>6, <2>1
<1>8. PagesApart(p2, m2)
  <2> SUFFICES ASSUME NEW q \in Mine, Walk(m2, q) # NotPresent
               PROVE  /\ Walk(m2, q) \in InUse(p2)
                      /\ \A e \in Dirs : m2[DirFrame][e] # Walk(m2, q)
                      /\ \A r \in Mine : Walk(m2, r) = Walk(m2, q) => r = q
    BY DEF PagesApart
  <2> HIDE DEF d
  <2>1. Walk(m2, q) \in InUse(p2)  BY <1>1, <1>3
  <2>2. \A e \in Dirs : m2[DirFrame][e] # Walk(m2, q)
    <3>1. q # page => Walk(m, q) # nt
      BY <1>1, <1>3, <1>5, <1>9
    <3> QED BY <1>3, <1>4, <3>1
  <2>3. \A r \in Mine : Walk(m2, r) = Walk(m2, q) => r = q
    BY <1>3
  <2> QED BY <2>1, <2>2, <2>3
<1> QED BY <1>1, <1>7, <1>8 DEF Sound

LEMMA SoundGrows ==
    ASSUME NEW p, NEW m, NEW tb, Sound(p, m, tb),
           NEW p2 \in Bitmaps(Bytes), FreeFrames(p2) \subseteq FreeFrames(p)
    PROVE  Sound(p2, m, tb)
<1>1. FreeFrames(p2) \subseteq Pool /\ InUse(p) \subseteq InUse(p2)
  BY DEF Sound, InUse
<1>2. TablesApart(p2, m, tb)  BY <1>1 DEF Sound, TablesApart
<1>3. PagesApart(p2, m)  BY <1>1 DEF Sound, PagesApart
<1> QED BY <1>1, <1>2, <1>3 DEF Sound

(* A TLB that agrees with the tables is ready for map_page and unmap_page, *)
(* and agrees with them afterwards.                                        *)
LEMMA CoherentReady ==
    ASSUME NEW m, NEW tb, KernelPart(m, tb), NEW l, Coherent(l, m), NEW d \in Dirs
    PROVE  Ready(l, d, m[DirFrame][d])
<1>1. /\ d \in Slot /\ KernelDir \in Slot
      /\ DirPage \in Page \ {ScratchPage} /\ Window(KernelDir) \in Page \ {ScratchPage}
      /\ Window(d) \in Page \ {ScratchPage}
  BY Numbers, Windows DEF Dirs
<1>2. /\ Walk(m, DirPage) = DirFrame /\ Walk(m, Window(KernelDir)) = TableFrame
      /\ Walk(m, Window(d)) = m[DirFrame][d]
  BY <1>1, KernelWalks
<1> QED BY <1>1, <1>2 DEF Ready, Coherent

LEMMA CoherentAfter ==
    ASSUME NEW m, NEW l, Coherent(l, m), NEW page, NEW d \in Dirs, NEW t,
           NEW m2, NEW tb2, KernelPart(m2, tb2), m2[DirFrame][d] = t,
           \A q \in Page \ {page} : Walk(m, q) # NotPresent => Walk(m2, q) = Walk(m, q),
           NEW l2, Caches(l2, l, d, t), l2[page] = NotPresent
    PROVE  Coherent(l2, m2)
<1> SUFFICES ASSUME NEW q \in Page \ {ScratchPage}
             PROVE  l2[q] \in {NotPresent, Walk(m2, q)}
  BY DEF Coherent
<1>1. /\ Walk(m2, DirPage) = DirFrame /\ Walk(m2, Window(KernelDir)) = TableFrame
      /\ Walk(m2, Window(d)) = t
  BY KernelWalks DEF Dirs
<1>2. l[q] \in {NotPresent, Walk(m, q)}  BY DEF Coherent
<1>3. \/ l2[q] = NotPresent \/ l2[q] = l[q]
      \/ q = DirPage /\ l2[q] = DirFrame
      \/ q = Window(KernelDir) /\ l2[q] = TableFrame
      \/ q = Window(d) /\ l2[q] = t
  BY DEF Caches
<1> QED BY <1>1, <1>2, <1>3

-----------------------------------------------------------------------------
(* What has become of the tables and the TLB when page is mapped to frame. *)
Mapped(m, l, page, frame, m2, l2) ==
    /\ Walk(m2, page) = frame
    /\ \A q \in Mine : q # page => Walk(m2, q) = Walk(m, q)
    /\ \A x \in Slot : m2[frame][x] = m[frame][x]
    /\ \A e \in Dirs : m[DirFrame][e] # NotPresent => m2[DirFrame][e] = m[DirFrame][e]
    /\ Coherent(l2, m2)
    /\ \/ l2[ScratchPage] = l[ScratchPage]
       \/ /\ l2[ScratchPage] = m2[DirFrame][page \div T]
          /\ \A x \in Slot : x # page % T => m2[l2[ScratchPage]][x] = NotPresent

(* A stale translation of the scratch page does not matter when the table  *)
(* of page is there, or when it leads to a clear frame and the new table   *)
(* is that of Second.                                                      *)
ScratchClear(p, l, m, page) ==
    \/ l[ScratchPage] = NotPresent
    \/ m[DirFrame][page \div T] # NotPresent
    \/ /\ page = Second /\ l[ScratchPage] \in InUse(p)
       /\ \A x \in Slot : m[l[ScratchPage]][x] = NotPresent

Usable(p, m, page, frame) ==
    /\ frame \in InUse(p)
    /\ \A e \in Dirs : m[DirFrame][e] # frame
    /\ \A q \in Mine : Walk(m, q) = frame => q = page

LEMMA Maps ==
    ASSUME NEW p, NEW m, NEW l \in TLB, NEW tb, NEW w, Tame(w), Sound(p, m, tb),
           Coherent(l, m), NEW page \in Mine, NEW frame, Usable(p, m, page, frame),
           ScratchClear(p, l, m, page)
    PROVE  \/ map_page(Mach(p, m, l, tb, w), page, frame).wild
           \/ \E p2, m2, tb2 : \E l2 \in TLB :
                 /\ map_page(Mach(p, m, l, tb, w), page, frame) = Mach(p2, m2, l2, tb2, w)
                 /\ Sound(p2, m2, tb2)
                 /\ Mapped(m, l, page, frame, m2, l2)
<1> DEFINE s == Mach(p, m, l, tb, w)
           d == page \div T
           i == page % T
           t == m[DirFrame][d]
<1>1. /\ page \in UserPages /\ page \in Page /\ d \in Dirs /\ d \in Slot /\ i \in Slot
      /\ page # ScratchPage /\ ScratchPage \in Page
      /\ page \div T \notin {KernelDir, RecDir}
  BY PageParts, Windows DEF Mine, UserPages, Dirs
<1>2. /\ p \in Bitmaps(Bytes) /\ m \in Memory /\ tb \in [Slot -> Table]
      /\ KernelPart(m, tb)
  BY DEF Sound
<1>3. Ready(l, d, t)  BY <1>1, <1>2, CoherentReady
<1>4. /\ frame \in InUse(p) /\ frame \in Bits \ Slot /\ frame # NotPresent
      /\ frame \in Word /\ frame \notin FreeFrames(p) /\ frame # DirFrame
      /\ \A e \in Dirs : m[DirFrame][e] # frame
      /\ \A q \in Mine : Walk(m, q) = frame => q = page
  BY SoundFrames, Numbers DEF Usable, InUse, Word
<1>5. CASE t # NotPresent
  <2>1. t \in Bits /\ t \in InUse(p) /\ tb[d].virt_addr = Window(d) /\ t # frame
    BY <1>1, <1>4, <1>5, SoundFrames DEF Sound, TablesApart
  <2> DEFINE m2 == WordPut(m, t, i, frame)
  <2>2. PICK l2 \in TLB :
           /\ map_page(s, page, frame) = Mach(p, m2, l2, tb, w)
           /\ Caches(l2, l, d, t) /\ l2[page] = NotPresent
           /\ l2[ScratchPage] = l[ScratchPage]
    <3>1. /\ Tame(w) /\ KernelPart(m, tb) /\ m[DirFrame][page \div T] = t
          /\ tb[page \div T].virt_addr = Window(page \div T)
          /\ Ready(l, page \div T, t) /\ t \in Bits /\ frame \in Bits
          /\ page \in Page /\ m \in Memory /\ l \in TLB /\ page # ScratchPage
      BY <1>1, <1>2, <1>3, <1>4, <2>1
    <3> HIDE DEF t
    <3>2. EntersIn(p, m, l, tb, w, page, frame, t)  BY ONLY <3>1, MapPresent
    <3> QED BY ONLY <3>1, <3>2 DEF EntersIn
  <2>3. /\ m2 \in Memory /\ KernelPart(m2, tb)
        /\ \A e \in Slot : m2[DirFrame][e] = m[DirFrame][e]
        /\ \A q \in Page : Walk(m2, q) = IF q = page THEN frame ELSE Walk(m, q)
        /\ \A f \in Bits, x \in Slot : f # t \/ x # i => m2[f][x] = m[f][x]
    BY <1>1, <1>4, <1>5, EntryWalks
  <2> HIDE DEF m2
  <2>4. Mine \subseteq Page /\ Dirs \subseteq Slot  BY DEF Mine, UserPages, Dirs
  <2>5. Sound(p, m2, tb)
    <3>1. /\ \A e \in Dirs : m2[DirFrame][e] = IF e = d THEN t ELSE m[DirFrame][e]
          /\ \A q \in Mine : Walk(m2, q) = IF q = page THEN frame ELSE Walk(m, q)
      BY <2>3, <2>4
    <3> QED BY <1>2, <1>4, <2>1, <2>3, <3>1, SoundAfter
  <2>6. Coherent(l2, m2)
    <3>1. m2[DirFrame][d] = t  BY <1>1, <2>3
    <3> QED BY <1>1, <2>2, <2>3, <3>1, CoherentAfter
  <2>7. Mapped(m, l, page, frame, m2, l2)
    BY <1>1, <1>4, <2>1, <2>2, <2>3, <2>4, <2>6 DEF Mapped
  <2> QED BY <2>2, <2>5, <2>7
<1>6. CASE t = NotPresent
  <2> DEFINE nf == alloc_frame(p)
             p2 == after_alloc(p)
  <2>1. TableFor(p, frame) = [frame |-> nf, frames |-> p2]
    BY <1>2, <1>4, TableForIs
  <2>2. /\ p2 \in Bitmaps(Bytes)
        /\ \/ nf \in FreeFrames(p) /\ FreeFrames(p2) = FreeFrames(p) \ {nf}
           \/ nf = NoFrame
    BY <1>2, Numbers, AllocFrame
  <2> HIDE DEF nf, p2
  <2>3. CASE nf = NoFrame
    <3>1. TableFor(p, frame).frame = NoFrame /\ m[DirFrame][page \div T] = NotPresent
      BY <1>6, <2>1, <2>3
    <3>2. l[DirPage] \in {NotPresent, DirFrame}  BY <1>3 DEF Ready
    <3>3. PICK l3 \in TLB : map_page(s, page, frame)
                               = Lost(Mach(TableFor(p, frame).frames, m, l3, tb, w))
      BY <1>1, <1>2, <3>1, <3>2, MapFails
    <3>4. Lost(Mach(TableFor(p, frame).frames, m, l3, tb, w)).wild  BY DEF Lost, Mach
    <3> QED BY <3>3, <3>4
  <2>4. CASE nf \in FreeFrames(p) /\ FreeFrames(p2) = FreeFrames(p) \ {nf}
    <3> DEFINE u == IF l[ScratchPage] = NotPresent THEN nf ELSE l[ScratchPage]
               tb2 == Noted(tb, d, nf)
    <3>1. /\ nf \in Bits \ Slot /\ nf \notin InUse(p) /\ nf # frame /\ nf \in InUse(p2)
          /\ TakesFrame(p, frame, nf, p2) /\ nf # DirFrame
      <4>1. nf \in Pool  BY <2>4 DEF Sound
      <4> QED BY <1>4, <2>1, <2>4, <4>1, SoundFrames, Numbers DEF InUse, TakesFrame
    <3>2. /\ u \in Bits \ Slot /\ Cleared(u, l, nf) /\ Harmless(u, m, nf)
          /\ u = nf \/ page = Second
      BY <1>6, <3>1, SoundFrames DEF ScratchClear, Cleared, Harmless
    <3>3. u = nf \/ u = l[ScratchPage]  OBVIOUS
    <3> HIDE DEF u
    <3>4. PICK m2 \in Memory, l2 \in TLB :
             /\ map_page(s, page, frame) = Mach(p2, m2, l2, tb2, w)
             /\ KernelPart(m2, tb2)
             /\ TableMadeWith(m2, m, d, nf, u, i, frame)
             /\ Caches(l2, l, d, nf) /\ l2[page] = NotPresent
             /\ l2[ScratchPage] = u
      <4>1. /\ Tame(w) /\ KernelPart(m, tb) /\ TakesFrame(p, frame, nf, p2)
            /\ page \div T \notin {KernelDir, RecDir}
            /\ m[DirFrame][page \div T] = NotPresent
            /\ Ready(l, page \div T, NotPresent) /\ Cleared(u, l, nf)
            /\ frame \in Bits /\ nf \in Bits \ Slot /\ page \in Page
            /\ m \in Memory /\ l \in TLB /\ tb \in [Slot -> Table]
            /\ u \in Bits \ Slot /\ page # ScratchPage
        BY <1>1, <1>2, <1>3, <1>4, <1>6, <3>1, <3>2
      <4> QED BY ONLY <4>1, MapCreates
    <3>5. /\ \A e \in Slot : m2[DirFrame][e] = IF e = d THEN nf ELSE m[DirFrame][e]
          /\ Walk(m2, page) = frame
          /\ \A q \in Page \ {page} : Walk(m, q) # NotPresent => Walk(m2, q) = Walk(m, q)
          /\ \A q \in UserPages \ {page} :
                u = nf \/ q \div T # d => Walk(m2, q) = Walk(m, q)
          /\ \A f \in Bits \ {DirFrame, nf}, x \in Slot : m2[f][x] = m[f][x]
      <4>1. /\ page \in UserPages /\ frame # NotPresent /\ nf \in FreeFrames(p)
            /\ m[DirFrame][page \div T] = NotPresent /\ u \in Bits \ Slot
            /\ Harmless(u, m, nf) /\ m2 \in Memory
            /\ TableMadeWith(m2, m, page \div T, nf, u, page % T, frame)
        BY <1>1, <1>4, <1>6, <2>4, <3>2, <3>4
      <4>2. TableAdded(m2, m, page, frame, nf, u)
        BY ONLY Sound(p, m, tb), <4>1, CreateWalks
      <4> QED BY <4>2 DEF TableAdded
    <3>6. \A q \in Mine : Walk(m2, q) = IF q = page THEN frame ELSE Walk(m, q)
      BY <3>2, <3>5 DEF Mine
    <3>7. tb2 \in [Slot -> Table] /\ tb2[d].virt_addr = Window(d)
          /\ \A e \in Dirs : e # d => tb2[e] = tb[e]
      <4>1. [virt_addr |-> Window(d), phys_addr |-> nf] \in Table
        BY <1>1, <3>1, Windows DEF Table
      <4> HIDE DEF d
      <4> QED BY <1>1, <1>2, <4>1 DEF Noted, Dirs
    <3>8. Sound(p2, m2, tb2)
      <4>1. /\ \A e \in Dirs : m2[DirFrame][e] = IF e = d THEN nf ELSE m[DirFrame][e]
            /\ FreeFrames(p2) \subseteq FreeFrames(p) /\ frame \in InUse(p2)
        BY <1>4, <2>4, <3>5 DEF Dirs, InUse
      <4> HIDE DEF tb2
      <4> QED BY <1>4, <2>2, <3>1, <3>4, <3>6, <3>7, <4>1, SoundAfter
    <3>9. Coherent(l2, m2)
      <4>1. m2[DirFrame][d] = nf  BY <1>1, <3>5
      <4> HIDE DEF tb2, d
      <4> QED BY <1>1, <3>4, <3>5, <4>1, CoherentAfter
    <3>10. Mapped(m, l, page, frame, m2, l2)
      <4>1. /\ \A x \in Slot : m2[frame][x] = m[frame][x]
            /\ \A e \in Dirs : m[DirFrame][e] # NotPresent => m2[DirFrame][e] = m[DirFrame][e]
        BY <1>4, <1>6, <3>1, <3>5 DEF Dirs
      <4>2. \/ l2[ScratchPage] = l[ScratchPage]
            \/ /\ l2[ScratchPage] = m2[DirFrame][d]
               /\ \A x \in Slot : x # i => m2[l2[ScratchPage]][x] = NotPresent
        <5>1. u = nf => \A x \in Slot : x # i => m2[nf][x] = NotPresent
          BY <3>1, <3>4 DEF TableMadeWith
        <5>2. m2[DirFrame][d] = nf  BY <1>1, <3>5
        <5> QED BY <3>3, <3>4, <5>1, <5>2
      <4> QED BY <3>5, <3>6, <3>9, <4>1, <4>2 DEF Mapped
    <3> HIDE DEF tb2
    <3> QED BY <3>4, <3>8, <3>10
  <2> QED BY <2>2, <2>3, <2>4
<1> QED BY <1>5, <1>6

Unmaps(p, m, l, tb, w, page, t) == \E l2 \in TLB :
    /\ unmap_page(Mach(p, m, l, tb, w), page)
          = Mach(p, WordPut(m, t, page % T, NotPresent), l2, tb, w)
    /\ Sound(p, WordPut(m, t, page % T, NotPresent), tb)
    /\ Coherent(l2, WordPut(m, t, page % T, NotPresent))
    /\ l2[ScratchPage] = l[ScratchPage]

LEMMA UnmapPresent ==
    ASSUME NEW p, NEW m, NEW l \in TLB, NEW tb, NEW w, Sound(p, m, tb), Coherent(l, m),
           NEW page \in Mine, NEW t, m[DirFrame][page \div T] = t, t # NotPresent
    PROVE  Unmaps(p, m, l, tb, w, page, t)
<1> DEFINE d == page \div T
           i == page % T
           l1 == DirCached(l)
           s1 == Mach(p, m, l1, tb, w)
           m2 == WordPut(m, t, i, NotPresent)
<1>1. /\ page \in UserPages /\ page \in Page /\ d \in Dirs /\ d \in Slot
      /\ page # ScratchPage /\ ScratchPage \in Page
  BY PageParts, Windows DEF Mine, UserPages, Dirs
<1>2. /\ p \in Bitmaps(Bytes) /\ m \in Memory /\ tb \in [Slot -> Table]
      /\ KernelPart(m, tb) /\ Ready(l, d, t)
  BY <1>1, CoherentReady DEF Sound
<1>2a. m \in Memory  BY <1>2
<1>2b. KernelPart(m, tb)  BY <1>2
<1>3. t \in Bits /\ t \in InUse(p) /\ tb[d].virt_addr = Window(d) /\ NotPresent \in Word
  BY <1>1, SoundFrames DEF Sound, TablesApart, Word
<1>4. /\ l1 \in TLB
      /\ Load(Mach(p, m, l, tb, w), DirPage) = s1
      /\ Read(s1, DirPage, d) = t
      /\ l1[DirPage] = DirFrame
      /\ \A q \in Page \ {DirPage} : l1[q] = l[q]
  <2>1. l[DirPage] \in {NotPresent, DirFrame} /\ d \in Slot  BY <1>1, <1>2 DEF Ready
  <2>2. m[DirFrame][d] = t  OBVIOUS
  <2> HIDE DEF d
  <2>3. /\ DirCached(l) \in TLB
        /\ DirCached(l)[DirPage] = DirFrame
        /\ \A q \in Page \ {DirPage} : DirCached(l)[q] = l[q]
        /\ Load(Mach(p, m, l, tb, w), DirPage) = Mach(p, m, DirCached(l), tb, w)
        /\ Read(Mach(p, m, DirCached(l), tb, w), DirPage, d) = m[DirFrame][d]
    BY ONLY <1>2a, <1>2b, <2>1, ReadsDirectory, l \in TLB
  <2> QED BY <2>2, <2>3
<1>5. /\ l1[Window(d)] \in {NotPresent, t} /\ l1[ScratchPage] = l[ScratchPage]
  BY <1>1, <1>2, <1>4, Numbers, Windows DEF Ready
<1>6. PICK l2 \in TLB :
        /\ invlpg(Store(s1, tb[d].virt_addr, i, NotPresent), page) = Mach(p, m2, l2, tb, w)
        /\ Caches(l2, l1, d, t) /\ l2[page] = NotPresent
        /\ page # ScratchPage => l2[ScratchPage] = l1[ScratchPage]
  <2>1. /\ KernelPart(m, tb) /\ m[DirFrame][page \div T] = t
        /\ tb[page \div T].virt_addr = Window(page \div T)
        /\ l1 \in TLB /\ l1[Window(page \div T)] \in {NotPresent, t}
        /\ m \in Memory /\ t \in Bits /\ page \in Page /\ NotPresent \in Word
    BY <1>1, <1>2, <1>3, <1>4, <1>5
  <2> HIDE DEF l1
  <2> QED BY <2>1, EntersPage
<1>7. unmap_page(Mach(p, m, l, tb, w), page)
         = invlpg(Store(s1, tb[d].virt_addr, i, NotPresent), page)
  <2>1. s1.tables = tb  BY DEF Mach
  <2> HIDE DEF s1
  <2> QED BY <1>4, <2>1 DEF unmap_page
<1>8. Caches(l2, l, d, t)
  <2> HIDE DEF l1, d
  <2> QED BY <1>4, <1>6 DEF Caches
<1>9. /\ m2 \in Memory /\ KernelPart(m2, tb)
      /\ \A e \in Slot : m2[DirFrame][e] = m[DirFrame][e]
      /\ \A q \in Page : Walk(m2, q) = IF q = page THEN NotPresent ELSE Walk(m, q)
  BY <1>1, <1>3, EntryWalks
<1>10. t = m[DirFrame][d]  OBVIOUS
<1> HIDE DEF m2, l1, s1
<1>11. Sound(p, m2, tb)
  <2>1. /\ \A e \in Dirs : m2[DirFrame][e] = IF e = d THEN t ELSE m[DirFrame][e]
        /\ \A q \in Mine : Walk(m2, q) = IF q = page THEN NotPresent ELSE Walk(m, q)
    BY <1>9, <1>10 DEF Mine, UserPages, Dirs
  <2> QED BY <1>2, <1>3, <1>9, <2>1, SoundAfter
<1>12. Coherent(l2, m2)
  <2>1. m2[DirFrame][d] = t  BY <1>1, <1>9, <1>10
  <2> HIDE DEF d
  <2> QED BY <1>1, <1>6, <1>8, <1>9, <2>1, CoherentAfter
<1> QED BY <1>1, <1>5, <1>6, <1>7, <1>11, <1>12 DEF Unmaps, m2

(* A write to a page changes no translation.                               *)
LEMMA PageWrite ==
    ASSUME NEW p, NEW m, NEW tb, Sound(p, m, tb), NEW page \in Mine,
           NEW f, f = Walk(m, page), f # NotPresent, NEW word \in Word,
           NEW m2, m2 = WordPut(m, f, 0, word)
    PROVE  /\ Sound(p, m2, tb)
           /\ \A q \in Page : Walk(m2, q) = Walk(m, q)
           /\ \A e \in Slot : m2[DirFrame][e] = m[DirFrame][e]
           /\ \A g \in Bits \ {f}, x \in Slot : m2[g][x] = m[g][x]
           /\ m2[f][0] = word /\ f \in Bits
<1>1. /\ f \in Bits \ Slot /\ \A d \in Dirs : m[DirFrame][d] # f
      /\ m \in Memory /\ KernelPart(m, tb) /\ 0 \in Slot
  BY SoundFrames, Numbers DEF Sound, PagesApart, Slot
<1>2. /\ m2 \in Memory
      /\ \A g \in Bits, x \in Slot : m2[g][x] = IF g = f /\ x = 0 THEN word ELSE m[g][x]
  BY <1>1, WordPutIs
<1>3. f # DirFrame /\ f # TableFrame /\ DirFrame \in Bits /\ TableFrame \in Bits
  BY <1>1, Numbers
<1>4. \A e \in Slot : m2[DirFrame][e] = m[DirFrame][e] /\ m[DirFrame][e] # f
  BY <1>1, <1>2, <1>3, SoundFrames DEF Dirs
<1>5. KernelPart(m2, tb)  BY <1>1, <1>2, <1>3, Numbers DEF KernelPart
<1>6. ASSUME NEW q \in Page PROVE Walk(m2, q) = Walk(m, q)
  <2>1. q \div T \in Slot /\ q % T \in Slot  BY PageParts
  <2>2. m[DirFrame][q \div T] # NotPresent => m[DirFrame][q \div T] \in Bits
    BY <2>1, SoundFrames
  <2> DEFINE e == m[DirFrame][q \div T]
             j == q % T
  <2>3. m2[DirFrame][q \div T] = e /\ e # f  BY <1>4, <2>1
  <2>4. e # NotPresent => m2[e][j] = m[e][j]  BY <1>2, <2>1, <2>2, <2>3
  <2>5. /\ Walk(m, q) = IF e = NotPresent THEN NotPresent ELSE m[e][j]
        /\ Walk(m2, q) = IF e = NotPresent THEN NotPresent ELSE m2[e][j]
    BY <2>3 DEF Walk
  <2> HIDE DEF e, j
  <2> QED BY <2>4, <2>5
<1>7. TablesApart(p, m2, tb)  BY <1>4 DEF Sound, TablesApart, Dirs
<1>8. PagesApart(p, m2)
  <2>1. PagesApart(p, m)  BY DEF Sound
  <2>2. \A q \in Mine : Walk(m2, q) = Walk(m, q)  BY <1>6 DEF Mine, UserPages
  <2>3. \A d \in Dirs : m2[DirFrame][d] = m[DirFrame][d]  BY <1>4 DEF Dirs
  <2> QED BY <2>1, <2>2, <2>3 DEF PagesApart
<1>9. Sound(p, m2, tb)  BY <1>2, <1>5, <1>7, <1>8 DEF Sound
<1> QED BY <1>1, <1>2, <1>4, <1>6, <1>9

-----------------------------------------------------------------------------
(* The invariant of mapTest, while the code is in mapped memory: until the *)
(* fault the scratch page is stale only towards the table of First, which  *)
(* has nothing but First in it; the fault leaves none of the kernel's own  *)
(* pages in the TLB; and the greeting is in the frame that mapTest moves.  *)
FirstTable == mem[DirFrame][First \div T]

ScratchKnown == pc \in {"write", "move"} =>
    \/ tlb[ScratchPage] = NotPresent
    \/ /\ tlb[ScratchPage] = FirstTable
       /\ \A x \in Slot : x # First % T => mem[FirstTable][x] = NotPresent

Flushed == (pc = "prompt" \/ (pc = "fault" /\ Walk(mem, First) # NotPresent)) =>
    \A page \in Page : tlb[page] # NotPresent => page \in Touched \cup {First}

Carries ==
    /\ pc \in {"write", "move"} => phys_mem \in Bits /\ Walk(mem, First) = phys_mem
    /\ pc = "move" => mem[phys_mem][0] = Greeting
    /\ pc = "read" => /\ Walk(mem, Second) # NotPresent /\ Walk(mem, First) = NotPresent
                      /\ mem[Walk(mem, Second)][0] = Greeting
    /\ pc \in {"read", "fault"} => FirstTable # NotPresent

MTKept ==
    /\ Sound(pmm_frames, mem, tables)
    /\ Coherent(tlb, mem)
    /\ ScratchKnown
    /\ Flushed
    /\ Carries

MTInv == MTTypeOK /\ GreetingArrives /\ (~wild => MTKept)

LEMMA MTMine ==
    /\ First \in Mine /\ Second \in Mine /\ Touched \subseteq Mine
    /\ Mine \subseteq Page /\ ScratchPage \notin Mine
    /\ First % T \in Slot /\ First \div T \in Dirs /\ Second \div T \in Dirs
    /\ Second # First /\ Greeting \in Word /\ Values \subseteq Word
    /\ First \notin Touched /\ Touched \subseteq Page
BY MTPages, TouchedPages, MapTestAssumption, PageParts, Windows DEF Mine, UserPages, Dirs

LEMMA Kept ==
    ASSUME MTInv, ~wild
    PROVE  /\ mem \in Memory /\ tlb \in TLB /\ Tame(wild)
           /\ pmm_frames \in Bitmaps(Bytes) /\ tables \in [Slot -> Table]
           /\ Machine \in Machines
           /\ Sound(pmm_frames, mem, tables) /\ Coherent(tlb, mem)
           /\ \A page \in Mine : Translate(Machine, page) = Walk(mem, page)
<1>1. TypeOK /\ MTKept  BY DEF MTInv, MTTypeOK
<1>2. /\ mem \in Memory /\ tlb \in TLB /\ Tame(wild) /\ Machine \in Machines
      /\ pmm_frames \in Bitmaps(Bytes) /\ tables \in [Slot -> Table]
  BY <1>1, Types, MachineTypes DEF Tame
<1>3. Sound(pmm_frames, mem, tables) /\ Coherent(tlb, mem)  BY <1>1 DEF MTKept
<1>4. ASSUME NEW page \in Mine PROVE Translate(Machine, page) = Walk(mem, page)
  <2>1. tlb[page] \in {NotPresent, Walk(mem, page)}  BY <1>3, MTMine DEF Coherent
  <2> QED BY <2>1, MachineIs, TranslateIs
<1> QED BY <1>2, <1>3, <1>4

CachesOnly(l2, l, page, m2) ==
    /\ Coherent(l2, m2) /\ l2[ScratchPage] = l[ScratchPage]
    /\ \A q \in Page : l2[q] # NotPresent => l[q] # NotPresent \/ q = page

LEMMA CachesMine ==
    ASSUME NEW l \in TLB, NEW m, Coherent(l, m), NEW page \in Mine,
           NEW m2, \A q \in Page : Walk(m2, q) = Walk(m, q),
           NEW l2, l2 = [l EXCEPT ![page] = Walk(m, page)]
    PROVE  CachesOnly(l2, l, page, m2)
<1>1. \A q \in Page : l2[q] = IF q = page THEN Walk(m, page) ELSE l[q]
  BY DEF TLB
<1>2. ScratchPage \in Page /\ page # ScratchPage  BY MTMine, Windows
<1> QED BY <1>1, <1>2 DEF Coherent, CachesOnly

LEMMA MTGetIs ==
    ASSUME MTInv, NEW page \in Mine, Get(page)
    PROVE  /\ ~wild /\ UNCHANGED <<pmm_frames, mem, tables, wild>>
           /\ Walk(mem, page) # NotPresent
           /\ tlb' = [tlb EXCEPT ![page] = Walk(mem, page)]
<1> DEFINE t == Walk(mem, page)
<1>1. ~wild /\ Translate(Machine, page) = t /\ t # NotPresent
  BY Kept DEF Get
<1> HIDE DEF t
<1>2. Load(Machine, page) = Mach(pmm_frames, mem, [tlb EXCEPT ![page] = t], tables, wild)
  BY <1>1, MachineIs, LoadIs
<1>3. Becomes(Mach(pmm_frames, mem, [tlb EXCEPT ![page] = t], tables, wild))
  BY <1>2 DEF Get
<1> QED BY <1>1, <1>3, BecomesMach DEF t

LEMMA MTPutIs ==
    ASSUME MTInv, NEW page \in Mine, NEW word \in Word, Put(page, word)
    PROVE  /\ ~wild /\ UNCHANGED <<pmm_frames, tables, wild>>
           /\ Walk(mem, page) # NotPresent
           /\ tlb' = [tlb EXCEPT ![page] = Walk(mem, page)]
           /\ mem' = WordPut(mem, Walk(mem, page), 0, word)
<1> DEFINE t == Walk(mem, page)
<1>1. ~wild /\ Translate(Machine, page) = t /\ t # NotPresent
  BY Kept DEF Put
<1> HIDE DEF t
<1>2. Store(Machine, page, 0, word) =
         Mach(pmm_frames, WordPut(mem, t, 0, word), [tlb EXCEPT ![page] = t], tables, wild)
  BY <1>1, MachineIs, StoreIs
<1>3. Becomes(Mach(pmm_frames, WordPut(mem, t, 0, word), [tlb EXCEPT ![page] = t],
                   tables, wild))
  BY <1>2 DEF Put
<1> QED BY <1>1, <1>3, BecomesMach DEF t

(* What a step that only caches the translation of a page leaves as it was. *)
LEMMA MTGetKeeps ==
    ASSUME MTInv, NEW page \in Mine, Get(page)
    PROVE  /\ Sound(pmm_frames', mem', tables')
           /\ CachesOnly(tlb', tlb, page, mem')
<1>1. /\ ~wild /\ pmm_frames' = pmm_frames /\ mem' = mem /\ tables' = tables
      /\ tlb' = [tlb EXCEPT ![page] = Walk(mem, page)]
  BY MTGetIs
<1>2. tlb \in TLB /\ Coherent(tlb, mem) /\ Sound(pmm_frames, mem, tables)  BY <1>1, Kept
<1>3. \A q \in Page : Walk(mem', q) = Walk(mem, q)  BY <1>1
<1>4. CachesOnly(tlb', tlb, page, mem')
  BY <1>1, <1>2, <1>3, CachesMine
<1> QED BY <1>1, <1>2, <1>4

LEMMA MTPutKeeps ==
    ASSUME MTInv, NEW page \in Mine, NEW word \in Word, Put(page, word)
    PROVE  /\ Sound(pmm_frames', mem', tables')
           /\ CachesOnly(tlb', tlb, page, mem')
           /\ \A q \in Page : Walk(mem', q) = Walk(mem, q)
           /\ \A e \in Slot : mem'[DirFrame][e] = mem[DirFrame][e]
           /\ \A g \in Bits \ {Walk(mem, page)}, x \in Slot : mem'[g][x] = mem[g][x]
           /\ mem'[Walk(mem, page)][0] = word
<1> DEFINE f == Walk(mem, page)
<1>1. /\ ~wild /\ pmm_frames' = pmm_frames /\ tables' = tables /\ f # NotPresent
      /\ tlb' = [tlb EXCEPT ![page] = f] /\ mem' = WordPut(mem, f, 0, word)
  BY MTPutIs
<1>2. tlb \in TLB /\ Coherent(tlb, mem) /\ Sound(pmm_frames, mem, tables)  BY <1>1, Kept
<1>3. f = Walk(mem, page)  OBVIOUS
<1> HIDE DEF f
<1>4. /\ Sound(pmm_frames, mem', tables)
      /\ \A q \in Page : Walk(mem', q) = Walk(mem, q)
      /\ \A e \in Slot : mem'[DirFrame][e] = mem[DirFrame][e]
      /\ \A g \in Bits \ {f}, x \in Slot : mem'[g][x] = mem[g][x]
      /\ mem'[f][0] = word
  BY <1>1, <1>2, <1>3, PageWrite
<1>5. CachesOnly(tlb', tlb, page, mem')
  BY <1>1, <1>2, <1>3, <1>4, CachesMine
<1> QED BY <1>1, <1>3, <1>4, <1>5

(* map_page with a frame just allocated, as mapTest and the handler do it. *)
AllocMaps(p, m, l, tb, w, page, frame) ==
    LET s == map_page(Mach(after_alloc(p), m, l, tb, w), page, frame) IN
    \/ s.wild
    \/ /\ frame \in Bits
       /\ \E p2, m2, tb2 : \E l2 \in TLB :
             /\ s = Mach(p2, m2, l2, tb2, w)
             /\ Sound(p2, m2, tb2)
             /\ Mapped(m, l, page, frame, m2, l2)

LEMMA AllocatedMaps ==
    ASSUME NEW p, NEW m, NEW l \in TLB, NEW tb, NEW w, Tame(w), Sound(p, m, tb),
           Coherent(l, m), NEW page \in Mine, ScratchClear(after_alloc(p), l, m, page)
    PROVE  AllocMaps(p, m, l, tb, w, page, alloc_frame(p))
<1> DEFINE p1 == after_alloc(p)
           frame == alloc_frame(p)
<1>1. /\ p \in Bitmaps(Bytes) /\ m \in Memory /\ tb \in [Slot -> Table]
      /\ FreeFrames(p) \subseteq Pool /\ w \in BOOLEAN /\ page \in Page
  BY MTMine DEF Sound, Tame
<1>2. /\ p1 \in Bitmaps(Bytes)
      /\ \/ frame \in FreeFrames(p) /\ FreeFrames(p1) = FreeFrames(p) \ {frame}
         \/ frame = NoFrame /\ p1 = p
  BY <1>1, Numbers, AllocFrame
<1> HIDE DEF p1, frame
<1>3. CASE frame = NoFrame
  <2>1. Mach(p1, m, l, tb, w) \in Machines  BY <1>1, <1>2 DEF Mach, Machines
  <2>2. map_page(Mach(p1, m, l, tb, w), page, frame).wild
    BY <1>1, <1>3, <2>1, MapTypes
  <2> QED BY <2>2 DEF AllocMaps, p1, frame
<1>4. CASE frame \in FreeFrames(p) /\ FreeFrames(p1) = FreeFrames(p) \ {frame}
  <2>1. Sound(p1, m, tb)  BY <1>2, <1>4, SoundGrows
  <2>2. frame \in InUse(p1) /\ frame \notin InUse(p) /\ frame \in Bits
    BY <1>1, <1>4, SoundFrames DEF InUse
  <2>3. Usable(p1, m, page, frame)
    <3>1. \A e \in Dirs : m[DirFrame][e] # frame
      BY <2>2, SoundFrames, Numbers
    <3>2. \A q \in Mine : Walk(m, q) # frame
      BY <2>2, Numbers DEF Sound, PagesApart
    <3> QED BY <2>2, <3>1, <3>2 DEF Usable
  <2>4. ScratchClear(p1, l, m, page)  BY DEF p1
  <2>5. \/ map_page(Mach(p1, m, l, tb, w), page, frame).wild
        \/ \E p2, m2, tb2 : \E l2 \in TLB :
              /\ map_page(Mach(p1, m, l, tb, w), page, frame) = Mach(p2, m2, l2, tb2, w)
              /\ Sound(p2, m2, tb2)
              /\ Mapped(m, l, page, frame, m2, l2)
    BY <2>1, <2>3, <2>4, Maps
  <2> QED BY <2>2, <2>5 DEF AllocMaps, p1, frame
<1> QED BY <1>2, <1>3, <1>4

LEMMA Flushing ==
    ASSUME NEW s \in Machines, NEW page \in Page, Becomes(invlpg(write_cr3(s), page))
    PROVE  wild' = s.wild
BY DEF Machines, Becomes, invlpg, write_cr3

Served(page) ==
    /\ Sound(pmm_frames', mem', tables') /\ Coherent(tlb', mem')
    /\ \A q \in Page : tlb'[q] = NotPresent
    /\ Walk(mem', page) # NotPresent
    /\ \A e \in Dirs : mem[DirFrame][e] # NotPresent =>
          mem'[DirFrame][e] = mem[DirFrame][e]

LEMMA MTFault ==
    ASSUME MTInv, ~wild, NEW page \in Mine, PageFault(page),
           ScratchClear(after_alloc(pmm_frames), tlb, mem, page)
    PROVE  wild' \/ Served(page)
<1> DEFINE p1 == after_alloc(pmm_frames)
           frame == alloc_frame(pmm_frames)
           s == map_page(Mach(p1, mem, tlb, tables, wild), page, frame)
<1>1. Becomes(invlpg(write_cr3(s), page)) /\ Tame(wild)  BY HandlerIs
<1>2. AllocMaps(pmm_frames, mem, tlb, tables, wild, page, frame)
  BY <1>1, Kept, AllocatedMaps
<1>3. page \in Page /\ s \in Machines
  <2>1. /\ p1 \in Bitmaps(Bytes) /\ frame \in Bits \cup {NoFrame}
        /\ mem \in Memory /\ tlb \in TLB /\ tables \in [Slot -> Table]
        /\ wild \in BOOLEAN /\ page \in Page
    BY Kept, Numbers, AllocFrame, MTMine DEF FreeFrames, Tame
  <2>2. Mach(p1, mem, tlb, tables, wild) \in Machines
    BY <2>1 DEF Mach, Machines
  <2> HIDE DEF p1, frame
  <2> QED BY <2>1, <2>2, MapTypes
<1>4. CASE s.wild  BY <1>1, <1>3, <1>4, Flushing
<1>5. ASSUME frame \in Bits,
             NEW p2, NEW m2, NEW tb2, NEW l2 \in TLB, s = Mach(p2, m2, l2, tb2, wild),
             Sound(p2, m2, tb2), Mapped(mem, tlb, page, frame, m2, l2)
      PROVE  Served(page)
  <2>1. Becomes(Mach(p2, m2, Empty, tb2, wild))  BY <1>1, <1>5, Flushes
  <2>2. pmm_frames' = p2 /\ mem' = m2 /\ tables' = tb2 /\ tlb' = Empty
    BY <2>1, BecomesMach
  <2> HIDE DEF frame
  <2>3. \A q \in Page : tlb'[q] = NotPresent  BY <2>2 DEF Empty
  <2>4. Coherent(tlb', mem')  BY <2>3 DEF Coherent
  <2>5. Walk(m2, page) = frame /\ frame # NotPresent
        /\ \A e \in Dirs : mem[DirFrame][e] # NotPresent => m2[DirFrame][e] = mem[DirFrame][e]
    BY <1>5, Numbers DEF Mapped
  <2> QED BY <1>5, <2>2, <2>3, <2>4, <2>5 DEF Served
<1>6. s.wild \/ (/\ frame \in Bits
                 /\ \E p2, m2, tb2 : \E l2 \in TLB :
                      /\ s = Mach(p2, m2, l2, tb2, wild)
                      /\ Sound(p2, m2, tb2)
                      /\ Mapped(mem, tlb, page, frame, m2, l2))
  BY <1>2 DEF AllocMaps
<1> HIDE DEF s, frame
<1> QED BY <1>4, <1>5, <1>6

LEMMA MTOther ==
    ASSUME MTInv, ~wild, OtherCommand
    PROVE  wild' \/ MTKept'
<1>1. PICK page \in Touched :
         Get(page) \/ (\E word \in Values : Put(page, word)) \/ PageFault(page)
  BY DEF OtherCommand
<1>2. pc = "prompt" /\ pc' = "prompt"  BY DEF OtherCommand
<1>3. ScratchKnown' /\ Carries'  BY <1>2 DEF ScratchKnown, Carries
<1>4. page \in Mine /\ ScratchPage \in Page /\ ScratchPage \notin Touched \cup {First}
  BY MTMine, Windows
<1>5. \A q \in Page : tlb[q] # NotPresent => q \in Touched \cup {First}
  BY <1>2 DEF MTInv, MTKept, Flushed
<1>6. ASSUME Sound(pmm_frames', mem', tables'), CachesOnly(tlb', tlb, page, mem')
      PROVE  MTKept'
  <2>1. Coherent(tlb', mem') /\ Flushed'  BY <1>5, <1>6 DEF CachesOnly, Flushed
  <2> QED BY <1>3, <1>6, <2>1 DEF MTKept
<1>7. CASE Get(page)  BY <1>4, <1>6, <1>7, MTGetKeeps
<1>8. ASSUME NEW word \in Values, Put(page, word) PROVE MTKept'
  <2>1. word \in Word  BY MTMine
  <2> QED BY <1>4, <1>6, <1>8, <2>1, MTPutKeeps
<1>9. CASE PageFault(page)
  <2>1. ScratchClear(after_alloc(pmm_frames), tlb, mem, page)
    BY <1>4, <1>5 DEF ScratchClear
  <2>2. wild' \/ Served(page)  BY <1>4, <1>9, <2>1, MTFault
  <2>3. Served(page) => Flushed'  BY DEF Served, Flushed
  <2> QED BY <1>3, <2>2, <2>3 DEF MTKept, Served
<1> QED BY <1>1, <1>7, <1>8, <1>9

LEMMA MTDrop ==
    ASSUME MTInv, ~wild, Drop
    PROVE  MTKept'
<1>1. PICK page \in Page : Evict(page)  BY DEF Drop
<1>2. /\ pmm_frames' = pmm_frames /\ mem' = mem /\ tables' = tables
      /\ pc' = pc /\ phys_mem' = phys_mem
      /\ tlb' = [tlb EXCEPT ![page] = NotPresent]
  BY <1>1, EvictIs DEF Drop
<1>3. \A q \in Page : tlb'[q] \in {NotPresent, tlb[q]}  BY <1>2, Kept DEF TLB
<1>4. ScratchPage \in Page  BY Windows
<1>5. Sound(pmm_frames, mem, tables) /\ Coherent(tlb, mem)
      /\ ScratchKnown /\ Flushed /\ Carries
  BY DEF MTInv, MTKept
<1>6. Coherent(tlb', mem')  BY <1>2, <1>3, <1>5 DEF Coherent
<1>7. ScratchKnown'
  BY <1>2, <1>3, <1>4, <1>5 DEF ScratchKnown, FirstTable
<1>8. Flushed'  BY <1>2, <1>3, <1>5 DEF Flushed
<1>9. Carries'  BY <1>2, <1>5 DEF Carries, FirstTable
<1> QED BY <1>2, <1>5, <1>6, <1>7, <1>8, <1>9 DEF MTKept

LEMMA MTMapFirst ==
    ASSUME MTInv, ~wild, MapFirst
    PROVE  wild' \/ MTKept'
<1> DEFINE frame == alloc_frame(pmm_frames)
           s == map_page(Mach(after_alloc(pmm_frames), mem, tlb, tables, wild), First, frame)
<1>1. pc = "prompt" /\ pc' = "write" /\ phys_mem' = frame /\ Becomes(s)
  <2>1. [Machine EXCEPT !.pmm_frames = after_alloc(@)]
           = Mach(after_alloc(pmm_frames), mem, tlb, tables, wild)
    BY DEF Machine, Mach
  <2> QED BY <2>1 DEF MapFirst
<1>2. tlb[ScratchPage] = NotPresent
  BY <1>1, MTMine, Windows DEF MTInv, MTKept, Flushed
<1>3. ScratchClear(after_alloc(pmm_frames), tlb, mem, First)  BY <1>2 DEF ScratchClear
<1>4. AllocMaps(pmm_frames, mem, tlb, tables, wild, First, frame)
  BY <1>3, Kept, MTMine, AllocatedMaps
<1>5. \/ s.wild
      \/ /\ frame \in Bits
         /\ \E p2, m2, tb2 : \E l2 \in TLB :
               /\ s = Mach(p2, m2, l2, tb2, wild)
               /\ Sound(p2, m2, tb2)
               /\ Mapped(mem, tlb, First, frame, m2, l2)
  BY <1>4 DEF AllocMaps
<1> HIDE DEF s
<1>6. CASE s.wild  BY <1>1, <1>6 DEF Becomes
<1>7. ASSUME frame \in Bits,
             NEW p2, NEW m2, NEW tb2, NEW l2 \in TLB, s = Mach(p2, m2, l2, tb2, wild),
             Sound(p2, m2, tb2), Mapped(mem, tlb, First, frame, m2, l2)
      PROVE  MTKept'
  <2>1. pmm_frames' = p2 /\ mem' = m2 /\ tables' = tb2 /\ tlb' = l2
    <3>1. Becomes(Mach(p2, m2, l2, tb2, wild))  BY <1>1, <1>7
    <3> QED BY <3>1, BecomesMach
  <2> HIDE DEF frame
  <2>2. Coherent(tlb', mem') /\ Walk(mem', First) = frame
    BY <1>7, <2>1 DEF Mapped
  <2>3. ScratchKnown'
    <3>1. \/ l2[ScratchPage] = NotPresent
          \/ /\ l2[ScratchPage] = m2[DirFrame][First \div T]
             /\ \A x \in Slot : x # First % T => m2[l2[ScratchPage]][x] = NotPresent
      BY <1>2, <1>7 DEF Mapped
    <3> QED BY <2>1, <3>1 DEF ScratchKnown, FirstTable
  <2>4. Flushed'  BY <1>1 DEF Flushed
  <2>5. Carries'  BY <1>1, <1>7, <2>2 DEF Carries
  <2> QED BY <1>7, <2>1, <2>2, <2>3, <2>4, <2>5 DEF MTKept
<1> QED BY <1>5, <1>6, <1>7

LEMMA MTWriteFirst ==
    ASSUME MTInv, ~wild, WriteFirst
    PROVE  MTKept'
<1>1. pc = "write" /\ pc' = "move" /\ phys_mem' = phys_mem /\ Put(First, Greeting)
  BY DEF WriteFirst
<1>2. phys_mem \in Bits /\ Walk(mem, First) = phys_mem /\ ScratchKnown
  BY <1>1 DEF MTInv, MTKept, Carries
<1>3. /\ Sound(pmm_frames', mem', tables') /\ CachesOnly(tlb', tlb, First, mem')
      /\ \A q \in Page : Walk(mem', q) = Walk(mem, q)
      /\ \A e \in Slot : mem'[DirFrame][e] = mem[DirFrame][e]
      /\ \A g \in Bits \ {phys_mem}, x \in Slot : mem'[g][x] = mem[g][x]
      /\ mem'[phys_mem][0] = Greeting
  BY <1>1, <1>2, MTMine, MTPutKeeps
<1>4. Coherent(tlb', mem') /\ tlb'[ScratchPage] = tlb[ScratchPage]  BY <1>3 DEF CachesOnly
<1>5. FirstTable' = FirstTable /\ FirstTable # phys_mem
      /\ (FirstTable # NotPresent => FirstTable \in Bits)
  <2>1. phys_mem # NotPresent /\ First \div T \in Slot  BY <1>2, MTMine, Numbers DEF Dirs
  <2>2. Sound(pmm_frames, mem, tables)  BY Kept
  <2>3. FirstTable # phys_mem
    BY <1>2, <2>1, <2>2, MTMine DEF Sound, PagesApart, FirstTable
  <2> QED BY <1>3, <2>1, <2>2, <2>3, SoundFrames DEF FirstTable
<1>6. ScratchKnown'
  <2>1. \/ tlb[ScratchPage] = NotPresent
        \/ /\ tlb[ScratchPage] = FirstTable
           /\ \A x \in Slot : x # First % T => mem[FirstTable][x] = NotPresent
    BY <1>1, <1>2 DEF ScratchKnown
  <2>2. FirstTable # NotPresent =>
           \A x \in Slot : mem'[FirstTable'][x] = mem[FirstTable][x]
    BY <1>3, <1>5
  <2> HIDE DEF FirstTable
  <2>3. CASE tlb[ScratchPage] = NotPresent  BY <1>1, <1>4, <2>3 DEF ScratchKnown
  <2>4. CASE tlb[ScratchPage] # NotPresent
    <3>1. /\ tlb'[ScratchPage] = FirstTable'
          /\ \A x \in Slot : x # First % T => mem'[FirstTable'][x] = NotPresent
      BY <1>4, <1>5, <2>1, <2>2, <2>4
    <3> QED BY <3>1 DEF ScratchKnown
  <2> QED BY <2>3, <2>4
<1>7. Flushed'  BY <1>1 DEF Flushed
<1>8. Carries'  BY <1>1, <1>2, <1>3, MTMine DEF Carries
<1> QED BY <1>3, <1>4, <1>6, <1>7, <1>8 DEF MTKept

LEMMA MTMove ==
    ASSUME MTInv, ~wild, Move
    PROVE  wild' \/ MTKept'
<1> DEFINE t == FirstTable
           f == phys_mem
           i == First % T
           m1 == WordPut(mem, t, i, NotPresent)
           s0 == Mach(pmm_frames, mem, tlb, tables, wild)
<1>1. /\ pc = "move" /\ pc' = "read" /\ phys_mem' = phys_mem
      /\ Becomes(map_page(unmap_page(s0, First), Second, f))
  BY MachineIs DEF Move
<1>2. /\ f \in Bits /\ Walk(mem, First) = f /\ mem[f][0] = Greeting
      /\ \/ tlb[ScratchPage] = NotPresent
         \/ /\ tlb[ScratchPage] = t
            /\ \A x \in Slot : x # i => mem[t][x] = NotPresent
  BY <1>1 DEF MTInv, MTKept, Carries, ScratchKnown
<1>3. /\ tlb \in TLB /\ Tame(wild) /\ Sound(pmm_frames, mem, tables) /\ Coherent(tlb, mem)
      /\ First \in Mine /\ Second \in Mine /\ Second # First /\ First \in UserPages
      /\ First \div T \in Dirs /\ First \div T \in Slot /\ i \in Slot /\ 0 \in Slot
      /\ NotPresent \in Word /\ f # NotPresent
  BY <1>2, Kept, MTMine, MTPages, Numbers DEF Dirs, Slot, Word
<1>4. mem[DirFrame][First \div T] = t /\ t # NotPresent
  BY <1>2, <1>3 DEF Walk, FirstTable
<1> HIDE DEF t, i
<1>5. /\ m1 = WordPut(mem, t, First % T, NotPresent) /\ m1 = WordPut(mem, t, i, NotPresent)
  BY DEF i
<1>6. PICK l1 \in TLB :
         /\ unmap_page(s0, First) = Mach(pmm_frames, m1, l1, tables, wild)
         /\ Sound(pmm_frames, m1, tables) /\ Coherent(l1, m1)
         /\ l1[ScratchPage] = tlb[ScratchPage]
  <2>1. Unmaps(pmm_frames, mem, tlb, tables, wild, First, t)
    BY <1>3, <1>4, UnmapPresent
  <2> HIDE DEF m1
  <2> QED BY <1>5, <2>1 DEF Unmaps
<1> HIDE DEF m1, s0
<1>7. /\ \A e \in Slot : m1[DirFrame][e] = mem[DirFrame][e]
      /\ \A q \in Page : Walk(m1, q) = IF q = First THEN NotPresent ELSE Walk(mem, q)
      /\ \A g \in Bits, x \in Slot : g # t \/ x # First % T => m1[g][x] = mem[g][x]
      /\ m1[t][First % T] = NotPresent
  BY <1>3, <1>4, <1>5, EntryWalks
<1>8. /\ f \in InUse(pmm_frames) /\ f # t
      /\ \A e \in Dirs : mem[DirFrame][e] # f
      /\ \A q \in Mine : Walk(mem, q) = f => q = First
      /\ t \in Bits /\ t \in InUse(pmm_frames)
  <2>1. PagesApart(pmm_frames, mem)  BY <1>3 DEF Sound
  <2>2. t \in InUse(pmm_frames) /\ t \in Bits  BY <1>3, <1>4, SoundFrames
  <2> QED BY <1>2, <1>3, <1>4, <2>1, <2>2 DEF PagesApart
<1>9. Usable(pmm_frames, m1, Second, f)
  <2>1. \A e \in Dirs : m1[DirFrame][e] # f  BY <1>7, <1>8 DEF Dirs
  <2>2. \A q \in Mine : Walk(m1, q) = f => q = Second
    BY <1>3, <1>7, <1>8, MTMine
  <2> QED BY <1>8, <2>1, <2>2 DEF Usable
<1>10. ScratchClear(pmm_frames, l1, m1, Second)
  <2>1. tlb[ScratchPage] = t /\ (\A x \in Slot : x # i => mem[t][x] = NotPresent)
           => \A x \in Slot : m1[t][x] = NotPresent
    BY <1>7, <1>8 DEF i
  <2> QED BY <1>2, <1>6, <1>8, <2>1 DEF ScratchClear
<1> DEFINE s == map_page(Mach(pmm_frames, m1, l1, tables, wild), Second, f)
<1>11. \/ s.wild
       \/ \E p2, m2, tb2 : \E l2 \in TLB :
             /\ s = Mach(p2, m2, l2, tb2, wild)
             /\ Sound(p2, m2, tb2)
             /\ Mapped(m1, l1, Second, f, m2, l2)
  BY <1>3, <1>6, <1>9, <1>10, Maps
<1>12. Becomes(s)  BY <1>1, <1>6
<1> HIDE DEF s
<1>13. CASE s.wild  BY <1>12, <1>13 DEF Becomes
<1>14. ASSUME NEW p2, NEW m2, NEW tb2, NEW l2 \in TLB, s = Mach(p2, m2, l2, tb2, wild),
              Sound(p2, m2, tb2), Mapped(m1, l1, Second, f, m2, l2)
       PROVE  MTKept'
  <2>1. pmm_frames' = p2 /\ mem' = m2 /\ tables' = tb2 /\ tlb' = l2
    <3>1. Becomes(Mach(p2, m2, l2, tb2, wild))  BY <1>12, <1>14
    <3> QED BY <3>1, BecomesMach
  <2>2. /\ Coherent(l2, m2) /\ Walk(m2, Second) = f
        /\ Walk(m2, First) = Walk(m1, First)
        /\ m2[f][0] = m1[f][0]
        /\ \A e \in Dirs : m1[DirFrame][e] # NotPresent => m2[DirFrame][e] = m1[DirFrame][e]
    BY <1>3, <1>14 DEF Mapped
  <2>3. Walk(m2, First) = NotPresent /\ m2[f][0] = Greeting
        /\ m2[DirFrame][First \div T] # NotPresent
    BY <1>2, <1>3, <1>4, <1>7, <1>8, <2>2, MTPages
  <2>4. Carries'
    BY <1>1, <1>3, <2>1, <2>2, <2>3 DEF Carries, FirstTable
  <2>5. ScratchKnown' /\ Flushed'  BY <1>1 DEF ScratchKnown, Flushed
  <2> QED BY <1>14, <2>1, <2>2, <2>4, <2>5 DEF MTKept
<1> QED BY <1>11, <1>13, <1>14

LEMMA MTReadSecond ==
    ASSUME MTInv, ~wild, ReadSecond
    PROVE  MTKept' /\ greeted' = Greeting
<1> DEFINE f == Walk(mem, Second)
<1>1. /\ pc = "read" /\ pc' = "fault" /\ phys_mem' = phys_mem
      /\ Get(Second) /\ greeted' = Read(Machine, Second, 0)
  BY DEF ReadSecond
<1>2. /\ f # NotPresent /\ Walk(mem, First) = NotPresent
      /\ mem[f][0] = Greeting /\ FirstTable # NotPresent
  BY <1>1 DEF MTInv, MTKept, Carries
<1>3. greeted' = Greeting
  <2>1. Translate(Machine, Second) = f  BY Kept, MTMine
  <2> HIDE DEF f
  <2>2. Read(Machine, Second, 0) = mem[f][0]  BY <1>2, <2>1, MachineIs, ReadIs
  <2> QED BY <1>1, <1>2, <2>2
<1>4. /\ Sound(pmm_frames', mem', tables') /\ CachesOnly(tlb', tlb, Second, mem')
      /\ mem' = mem
  BY <1>1, MTMine, MTGetIs, MTGetKeeps
<1>5. Coherent(tlb', mem')  BY <1>4 DEF CachesOnly
<1>6. ScratchKnown' /\ Flushed' /\ Carries'
  BY <1>1, <1>2, <1>4 DEF ScratchKnown, Flushed, Carries, FirstTable
<1> QED BY <1>3, <1>4, <1>5, <1>6 DEF MTKept

LEMMA MTReadFirst ==
    ASSUME MTInv, ~wild, ReadFirst
    PROVE  wild' \/ MTKept'
<1>1. pc = "fault" /\ FirstTable # NotPresent
  BY DEF ReadFirst, MTInv, MTKept, Carries
<1>2. CASE Get(First) /\ pc' = "prompt"
  <2>1. /\ Sound(pmm_frames', mem', tables') /\ CachesOnly(tlb', tlb, First, mem')
        /\ Walk(mem, First) # NotPresent
    BY <1>2, MTMine, MTGetIs, MTGetKeeps
  <2>2. \A q \in Page : tlb[q] # NotPresent => q \in Touched \cup {First}
    BY <1>1, <2>1 DEF MTInv, MTKept, Flushed
  <2>3. Coherent(tlb', mem') /\ Flushed'  BY <2>1, <2>2 DEF CachesOnly, Flushed
  <2>4. ScratchKnown' /\ Carries'  BY <1>2 DEF ScratchKnown, Carries
  <2> QED BY <2>1, <2>3, <2>4 DEF MTKept
<1>3. CASE PageFault(First) /\ pc' = pc
  <2>1. ScratchClear(after_alloc(pmm_frames), tlb, mem, First)
    BY <1>1 DEF ScratchClear, FirstTable
  <2>2. wild' \/ Served(First)  BY <1>3, <2>1, MTMine, MTFault
  <2>3. ASSUME Served(First) PROVE MTKept'
    <3>1. FirstTable' # NotPresent
      BY <1>1, <2>3, MTMine DEF Served, FirstTable
    <3>2. Flushed'  BY <2>3 DEF Served, Flushed
    <3>3. ScratchKnown' /\ Carries'
      BY <1>1, <1>3, <3>1 DEF ScratchKnown, Carries
    <3> QED BY <2>3, <3>2, <3>3 DEF Served, MTKept
  <2> QED BY <2>2, <2>3
<1> QED BY <1>2, <1>3 DEF ReadFirst

LEMMA MTInvInit == ASSUME MTInit PROVE MTInv
<1>1. Inv /\ wild = FALSE /\ tlb = Empty /\ pc = "prompt" /\ greeted = Greeting
  BY InvInit DEF MTInit, Init, paging_initialize, Empty
<1>2. MTTypeOK  BY MTTypesInit
<1>3. Sound(pmm_frames, mem, tables)
  <2>1. TablesApart(pmm_frames, mem, tables)
    BY <1>1 DEF Inv, TablesKept, TablesApart, Allocated, InUse, Free
  <2>2. PagesApart(pmm_frames, mem)
    BY <1>1 DEF Inv, PagesKept, PagesApart, Allocated, InUse, Free, Mine
  <2> QED BY <1>1, <2>1, <2>2, Types DEF Inv, KernelKept, FreeInPool, Free, Sound
<1>4. Coherent(tlb, mem) /\ Flushed  BY <1>1 DEF Coherent, Flushed, Empty
<1>5. ScratchKnown /\ Carries  BY <1>1 DEF ScratchKnown, Carries
<1> QED BY <1>1, <1>2, <1>3, <1>4, <1>5 DEF MTInv, MTKept, GreetingArrives

LEMMA MTInvNext ==
    ASSUME MTInv, [MTNext]_mtVars
    PROVE  MTInv'
<1>1. MTTypeOK'  BY MTTypes DEF MTInv
<1>2. greeted = Greeting /\ wild \in BOOLEAN
  BY Types DEF MTInv, GreetingArrives, MTTypeOK
<1>3. CASE UNCHANGED mtVars \/ Gone
  <2>1. UNCHANGED mtVars  BY <1>3 DEF Gone
  <2>2. wild' = wild /\ greeted' = greeted  BY <2>1 DEF mtVars
  <2>3. MTKept => MTKept'
    BY <2>1 DEF mtVars, MTKept, ScratchKnown, Flushed, Carries, FirstTable
  <2> QED BY <1>1, <1>2, <2>2, <2>3 DEF MTInv, GreetingArrives
<1>4. ASSUME wild' \/ MTKept', greeted' = Greeting PROVE MTInv'
  BY <1>1, <1>4 DEF MTInv, GreetingArrives
<1>5. CASE OtherCommand
  <2>1. ~wild /\ greeted' = greeted
    BY <1>5 DEF OtherCommand, Get, Put, PageFault
  <2> QED BY <1>2, <1>4, <1>5, <2>1, MTOther
<1>6. CASE Drop
  <2>1. ~wild /\ greeted' = greeted  BY <1>6 DEF Drop, Evict
  <2> QED BY <1>2, <1>4, <1>6, <2>1, MTDrop
<1>7. CASE MapFirst
  <2>1. ~wild /\ greeted' = greeted  BY <1>7 DEF MapFirst
  <2> QED BY <1>2, <1>4, <1>7, <2>1, MTMapFirst
<1>8. CASE WriteFirst
  <2>1. ~wild /\ greeted' = greeted  BY <1>8 DEF WriteFirst, Put
  <2> QED BY <1>2, <1>4, <1>8, <2>1, MTWriteFirst
<1>9. CASE Move
  <2>1. ~wild /\ greeted' = greeted  BY <1>9 DEF Move
  <2> QED BY <1>2, <1>4, <1>9, <2>1, MTMove
<1>10. CASE ReadSecond
  <2>1. ~wild  BY <1>10 DEF ReadSecond, Get
  <2> QED BY <1>4, <1>10, <2>1, MTReadSecond
<1>11. CASE ReadFirst
  <2>1. ~wild /\ greeted' = greeted  BY <1>11 DEF ReadFirst, Get, PageFault
  <2> QED BY <1>2, <1>4, <1>11, <2>1, MTReadFirst
<1> QED
  BY <1>3, <1>5, <1>6, <1>7, <1>8, <1>9, <1>10, <1>11 DEF MTNext

(* The inductive invariant of mapTest holds in every state.                *)
THEOREM MTInvariant == MTSpec => []MTInv
<1>1. MTInit => MTInv  BY MTInvInit
<1>2. MTInv /\ [MTNext]_mtVars => MTInv'  BY MTInvNext
<1> QED BY <1>1, <1>2, PTL DEF MTSpec

(* What mapTest reads at the second page is what it wrote at the first, in *)
(* every run of the command, whatever the processor drops from the TLB.    *)
THEOREM GreetingArrivesAlways == MTSpec => []GreetingArrives
<1>1. MTInv => GreetingArrives  BY DEF MTInv
<1> QED BY <1>1, MTInvariant, PTL

(* Only the scratch page is ever read through a translation that the       *)
(* tables have not, although map_page and unmap_page write no CR3.         *)
THEOREM OnlyScratchStaleAlways == MTSpec => []OnlyScratchStale
<1>1. MTInv => OnlyScratchStale  BY DEF MTInv, MTKept, Coherent, OnlyScratchStale
<1> QED BY <1>1, MTInvariant, PTL
=============================================================================
