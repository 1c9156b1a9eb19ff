-------------------------------- MODULE Vmm --------------------------------
(***************************************************************************)
(* The virtual memory manager of src/src/c/vmm.c: the kernel's malloc and  *)
(* free over the virtual addresses that the page tables leave unmapped.    *)
(*                                                                         *)
(* The three intrusive lists are sequences, in list order.  A node is the  *)
(* number of its slot in the node area that starts behind the three list   *)
(* headers (slot k lies at 0xC0400018 + 20 * (k - 1)), so the order of the *)
(* numbers is the order of the node addresses, which get_unused_node uses. *)
(*                                                                         *)
(* The allocator runs on the kernel's one thread and no interrupt handler  *)
(* calls it, so a call is one step, except for the loop of                 *)
(* compact_all_free: each of its iterations is a step of its own           *)
(* (CompactStep), and while it runs no other action is enabled.            *)
(***************************************************************************)
EXTENDS Integers, Sequences, SequencesExt, FiniteSetsExt

CONSTANTS
    M,        \* the number of addresses: arithmetic on u32int wraps at M
    Visits,   \* the page directory and table entries vmm_initialize reads,
              \* in the order of its two loops: [virt, size, present]
    Sizes,    \* the sizes malloc is called with
    Aligns,   \* the alignments and the lower limits malloc_above is
    Aboves,   \*   called with, next to malloc's 1 and 0
    MaxUsed,  \* bounds: malloc is not called with this many blocks live,
    MaxFree   \*   or with this many blocks on the free list

Visit == [virt : 0..(M-1), size : 1..(M-1), present : BOOLEAN]

ASSUME MAssumption == M \in Nat /\ M > 1

(* The loops meet the entries in the order of their addresses, and stop    *)
(* before the last 4 MB, so that no entry reaches the end of the addresses.*)
ASSUME VisitsAssumption ==
    /\ Visits \in Seq(Visit)
    /\ \A i \in 1..Len(Visits) : Visits[i].virt + Visits[i].size < M
    /\ \A i, j \in 1..Len(Visits) :
          i < j => Visits[i].virt + Visits[i].size <= Visits[j].virt

ASSUME SizesAssumption == Sizes \subseteq 0..(M-1)

VARIABLES
    vmm_free,          \* the list of free blocks
    vmm_used,          \* the list of blocks that malloc handed out
    vmm_unused_nodes,  \* the list of nodes without a block
    visit,             \* the entry vmm_initialize reads next
    compacting,        \* compact_all_free is in its loop
    wild               \* how the code left defined behaviour, if it did

lists == <<vmm_free, vmm_used, vmm_unused_nodes>>
vars == <<vmm_free, vmm_used, vmm_unused_nodes, visit, compacting, wild>>

Block == [node : Nat, virt : 0..(M-1), size : 0..(M-1)]

(* Mutant: the operands are swapped.                                       *)
Sub_swapped(a, b) == b - a

(***************************************************************************)
(* Unsigned 32-bit arithmetic on values below M.                           *)
(***************************************************************************)
Add(a, b) == IF a + b < M THEN a + b ELSE a + b - M
Sub(a, b) == IF b <= a THEN a - b ELSE a - b + M

(***************************************************************************)
(* The searches walk a list from its first node and stop at the first hit. *)
(* First is the singleton of that hit, or empty where the code has NULL.   *)
(***************************************************************************)
First(hits) == {i \in hits : \A j \in hits : i <= j}

search_free(want, above) == First({i \in DOMAIN vmm_free :
    /\ \/ /\ vmm_free[i].virt <= above
          /\ Add(vmm_free[i].virt, vmm_free[i].size) > above
       \/ vmm_free[i].virt >= above
    /\ vmm_free[i].size >= want})

search_used(addr) == First({i \in DOMAIN vmm_used : vmm_used[i].virt = addr})

(* Mutants: the block below is searched instead of the one above, and the  *)
(* last pair of blocks is not compared.                                    *)
search_free_neighbor_below(block) ==
    First({i \in DOMAIN vmm_free : vmm_free[i].virt < block.virt})
search_adjacent_free_short == First({i \in 1..(Len(vmm_free) - 2) :
    Add(vmm_free[i].virt, vmm_free[i].size) = vmm_free[i+1].virt})

search_free_neighbor(block) ==
    First({i \in DOMAIN vmm_free : vmm_free[i].virt > block.virt})

search_adjacent_free == First({i \in 1..(Len(vmm_free) - 1) :
    Add(vmm_free[i].virt, vmm_free[i].size) = vmm_free[i+1].virt})

(***************************************************************************)
(* get_unused_node: the first unused node, else the first slot, else the   *)
(* slot behind the highest one in use.                                     *)
(***************************************************************************)
NodesOf(list) == {list[i].node : i \in DOMAIN list}

get_unused_node(free, used, unused) ==
    IF unused # <<>> THEN Head(unused)
    ELSE IF free = <<>> /\ used = <<>> THEN 1
    ELSE Max(NodesOf(free) \cup NodesOf(used)) + 1

(* Mutant: the node stays on the list of unused ones.                      *)
WithoutFirst_kept(unused) == unused

WithoutFirst(unused) == IF unused = <<>> THEN <<>> ELSE Tail(unused)

(* Mutant: the first of the two blocks keeps its old size.                 *)
split_free_unshrunk(free, i, size, node) ==
    InsertAt(free, i + 1,
             [node |-> node,
              virt |-> Add(free[i].virt, size),
              size |-> Sub(free[i].size, size)])

(* split_free: block i keeps "size"; the rest goes to "node", after it.    *)
split_free(free, i, size, node) ==
    InsertAt([free EXCEPT ![i].size = size], i + 1,
             [node |-> node,
              virt |-> Add(free[i].virt, size),
              size |-> Sub(free[i].size, size)])

-----------------------------------------------------------------------------
Scanning == visit <= Len(Visits)
Idle == ~Scanning /\ ~compacting /\ wild = "none"

Init ==
    /\ vmm_free = <<>>
    /\ vmm_used = <<>>
    /\ vmm_unused_nodes = <<>>
    /\ visit = 1
    /\ compacting = FALSE
    /\ wild = "none"

(* One entry of vmm_initialize's scan: an unmapped one becomes a free block *)
(* at the end of the list, and the list is compacted.                       *)
ScanVisit ==
    /\ Scanning /\ ~compacting
    /\ visit' = visit + 1
    /\ \/ /\ Visits[visit].present
          /\ UNCHANGED <<lists, compacting>>
       \/ /\ ~Visits[visit].present
          /\ vmm_free' = Append(vmm_free,
                [node |-> get_unused_node(vmm_free, vmm_used, vmm_unused_nodes),
                 virt |-> Visits[visit].virt,
                 size |-> Visits[visit].size])
          /\ vmm_unused_nodes' = WithoutFirst(vmm_unused_nodes)
          /\ compacting' = TRUE
          /\ UNCHANGED vmm_used
    /\ UNCHANGED wild

(* The end of malloc_above: block i of "free" is split and moves to the    *)
(* end of the used list.                                                   *)
TakeBlock(free, unused, i, size) ==
    LET node  == get_unused_node(free, vmm_used, unused)
        split == split_free(free, i, size, node)
    IN  /\ vmm_free' = RemoveAt(split, i)
        /\ vmm_used' = Append(vmm_used, split[i])
        /\ vmm_unused_nodes' = WithoutFirst(unused)

(* malloc_above counts up from the block's start to "above" and then to a  *)
(* multiple of "align".  When that took a step it cuts "size" bytes off    *)
(* the block first and goes on with the rest, whatever the distance was.   *)
NeedsSkip(block, align, above) == block.virt < above \/ block.virt % align # 0

malloc_above(size, align, above) ==
    /\ Idle
    /\ Len(vmm_used) < MaxUsed /\ Len(vmm_free) < MaxFree
    /\ \/ \E i \in search_free(Add(size, align), above) :
             /\ \/ /\ ~NeedsSkip(vmm_free[i], align, above)
                   /\ TakeBlock(vmm_free, vmm_unused_nodes, i, size)
                \/ /\ NeedsSkip(vmm_free[i], align, above)
                   /\ LET node == get_unused_node(vmm_free, vmm_used,
                                                  vmm_unused_nodes)
                      IN  TakeBlock(split_free(vmm_free, i, size, node),
                                    WithoutFirst(vmm_unused_nodes), i + 1, size)
             /\ UNCHANGED wild
       \/ /\ search_free(Add(size, align), above) = {}  \* NULL is dereferenced
          /\ wild' = "oom"
          /\ UNCHANGED lists
    /\ UNCHANGED <<visit, compacting>>

Malloc(size) == malloc_above(size, 1, 0)

(* Mutant: the block goes behind its neighbour.                            *)
FreeUsed_behind(addr) == \E u \in search_used(addr) :
    \E n \in search_free_neighbor(vmm_used[u]) :
       /\ vmm_free' = InsertAt(vmm_free, n + 1, vmm_used[u])
       /\ vmm_used' = RemoveAt(vmm_used, u)
       /\ compacting' = TRUE
       /\ UNCHANGED <<vmm_unused_nodes, wild>>

(* free of an address that is in use: the block goes before its neighbour  *)
(* in the free list.  Without a neighbour NULL is dereferenced.            *)
FreeUsed(addr) == \E u \in search_used(addr) :
    \/ \E n \in search_free_neighbor(vmm_used[u]) :
          /\ vmm_free' = InsertAt(vmm_free, n, vmm_used[u])
          /\ vmm_used' = RemoveAt(vmm_used, u)
          /\ compacting' = TRUE
          /\ UNCHANGED <<vmm_unused_nodes, wild>>
    \/ /\ search_free_neighbor(vmm_used[u]) = {}
       /\ wild' = "neighbor"
       /\ UNCHANGED <<lists, compacting>>

(* free of any other address: search_used finds nothing and free returns;  *)
(* on an empty used list the search itself dereferences NULL, and what it  *)
(* reads there may end the search or be taken for a block.                 *)
FreeUnknown(addr) ==
    /\ search_used(addr) = {}
    /\ wild' \in IF vmm_used = <<>> THEN {"none", "walk"} ELSE {"none"}
    /\ UNCHANGED <<lists, compacting>>

Free(addr) ==
    /\ Idle
    /\ FreeUsed(addr) \/ FreeUnknown(addr)
    /\ UNCHANGED visit

(* Mutants: the size of the second block gets lost, and the loop does not  *)
(* end when there is nothing left to merge.                                *)
CompactStep_lossy ==
    /\ compacting
    /\ \/ \E i \in search_adjacent_free :
             /\ vmm_free' = RemoveAt(vmm_free, i + 1)
             /\ vmm_unused_nodes' =
                    Append(vmm_unused_nodes, vmm_free[i+1].node)
             /\ UNCHANGED compacting
       \/ /\ search_adjacent_free = {}
          /\ compacting' = FALSE
          /\ UNCHANGED <<vmm_free, vmm_unused_nodes>>
    /\ UNCHANGED <<vmm_used, visit, wild>>

CompactStep_endless ==
    /\ compacting
    /\ \E i \in search_adjacent_free :
          /\ vmm_free' = RemoveAt([vmm_free EXCEPT ![i].size =
                                      Add(@, vmm_free[i+1].size)], i + 1)
          /\ vmm_unused_nodes' = Append(vmm_unused_nodes, vmm_free[i+1].node)
    /\ UNCHANGED <<vmm_used, visit, compacting, wild>>

(* One iteration of compact_all_free: compact_after merges a block with    *)
(* the next and puts the freed node on the unused list.                    *)
CompactStep ==
    /\ compacting
    /\ \/ \E i \in search_adjacent_free :
             /\ vmm_free' = RemoveAt([vmm_free EXCEPT ![i].size =
                                         Add(@, vmm_free[i+1].size)], i + 1)
             /\ vmm_unused_nodes' =
                    Append(vmm_unused_nodes, vmm_free[i+1].node)
             /\ UNCHANGED compacting
       \/ /\ search_adjacent_free = {}
          /\ compacting' = FALSE
          /\ UNCHANGED <<vmm_free, vmm_unused_nodes>>
    /\ UNCHANGED <<vmm_used, visit, wild>>

(* What happens after a wild access is outside the model. *)
Lost == wild # "none" /\ UNCHANGED vars

Next ==
    \/ ScanVisit
    \/ \E size \in Sizes : Malloc(size)
    \/ \E addr \in 0..(M-1) : Free(addr)
    \/ CompactStep
    \/ Lost

Spec == Init /\ [][Next]_vars

(* The same allocator when malloc_above is called with any of its          *)
(* arguments.  Nothing in the kernel does so yet; vmm.h exports it.        *)
NextAbove ==
    \/ Next
    \/ \E size \in Sizes, align \in Aligns, above \in Aboves :
          malloc_above(size, align, above)

SpecAbove == Init /\ [][NextAbove]_vars

(* The scan and the compaction are loops of straight-line code.  Nothing   *)
(* makes the kernel call malloc or free.                                   *)
FairSpec == Spec /\ WF_vars(ScanVisit) /\ WF_vars(CompactStep)

-----------------------------------------------------------------------------
TypeOK ==
    /\ vmm_free \in Seq(Block)
    /\ vmm_used \in Seq(Block)
    /\ vmm_unused_nodes \in Seq(Nat)
    /\ visit \in 1..(Len(Visits) + 1)
    /\ compacting \in BOOLEAN
    /\ wild \in {"none", "oom", "walk", "neighbor"}

End(b) == b.virt + b.size
Apart(a, b) == End(a) <= b.virt \/ End(b) <= a.virt

(* malloc never hands out an address twice and free never returns one that *)
(* is still in use: no block overlaps another, on either list.             *)
FreeApart == \A i, j \in 1..Len(vmm_free) :
    i < j => End(vmm_free[i]) <= vmm_free[j].virt
UsedApart == \A i, j \in 1..Len(vmm_used) :
    i # j => Apart(vmm_used[i], vmm_used[j])
UsedFreeApart == \A i \in 1..Len(vmm_used), j \in 1..Len(vmm_free) :
    Apart(vmm_used[i], vmm_free[j])
BlocksDisjoint == FreeApart /\ UsedApart /\ UsedFreeApart

(* Whenever a call returns, the free list is in address order and holds no *)
(* two blocks that touch: malloc's splits, which do not compact, leave     *)
(* nothing for compact_all_free to merge.                                  *)
FreeCoalesced == ~compacting =>
    \A i, j \in 1..Len(vmm_free) :
        i < j => End(vmm_free[i]) < vmm_free[j].virt

(* free always finds the block before which it inserts: search_free asks   *)
(* for one byte more than malloc splits off, so some of the free block     *)
(* stays behind every block that is handed out, and it stays there however *)
(* the free list is merged later.  insert_before has no case for NULL.     *)
Headroom == \A u \in 1..Len(vmm_used) :
    \E f \in 1..Len(vmm_free) : vmm_free[f].virt > vmm_used[u].virt
FreeFindsNeighbor == wild # "neighbor"

(* What the proofs add to make these invariants inductive: no block is     *)
(* empty or reaches the end of the addresses, and while the scan runs, all *)
(* blocks are free and lie below the entry it reads next.                  *)
BlocksProper ==
    /\ \A i \in 1..Len(vmm_free) : vmm_free[i].size >= 1 /\ End(vmm_free[i]) < M
    /\ \A i \in 1..Len(vmm_used) : vmm_used[i].size >= 1 /\ End(vmm_used[i]) < M
ScanAhead == Scanning =>
    /\ Len(vmm_used) = 0
    /\ \A i \in 1..Len(vmm_free) : End(vmm_free[i]) <= Visits[visit].virt
HeapInv ==
    /\ BlocksProper
    /\ BlocksDisjoint
    /\ Headroom
    /\ ScanAhead
    /\ FreeFindsNeighbor

(* Every byte of an entry that the scan found unmapped is in a block, free *)
(* or used, and no other byte is: nothing leaks and nothing mapped is      *)
(* handed out.                                                             *)
Holds(b, x) == b.virt <= x /\ x < End(b)
InFree(x) == \E i \in 1..Len(vmm_free) : Holds(vmm_free[i], x)
InUsed(x) == \E i \in 1..Len(vmm_used) : Holds(vmm_used[i], x)
Unmapped(x, n) == \E i \in 1..n : ~Visits[i].present /\ Holds(Visits[i], x)
SpaceConserved == \A x \in 0..(M-1) :
    Unmapped(x, visit - 1) <=> InFree(x) \/ InUsed(x)

(* The sizes on the two lists always add up, modulo the width of u32int,   *)
(* to the unmapped space: splits and merges that wrap cancel out.          *)
TotalSize(list) == FoldLeft(LAMBDA sum, b : sum + b.size, 0, list)
Found == [i \in 1..(visit - 1) |->
             [size |-> IF Visits[i].present THEN 0 ELSE Visits[i].size]]
SizeConserved ==
    (TotalSize(vmm_free) + TotalSize(vmm_used)) % M = TotalSize(Found) % M

(* Every slot of the node area below the highest one taken is on exactly   *)
(* one list, once: get_unused_node's two ways to find a node never hand    *)
(* out one that is in use, and no node is lost.                            *)
UnusedSet == {vmm_unused_nodes[i] : i \in 1..Len(vmm_unused_nodes)}
NodesAccounted ==
    LET nodes == NodesOf(vmm_free) \cup NodesOf(vmm_used) \cup UnusedSet
        slots == Len(vmm_free) + Len(vmm_used) + Len(vmm_unused_nodes)
    IN  nodes = 1..slots

(* The scan ends and so does every compaction: the allocator always comes  *)
(* back to where it can be called.                                         *)
Settles == []<>(Idle \/ wild # "none")

-----------------------------------------------------------------------------
(* The unmapped addresses, and the blocks in use as the abstract heap has  *)
(* them: where a block is, not on which list or in which node.             *)
Space == {x \in 0..(M-1) : Unmapped(x, Len(Visits))}

Live == {[virt |-> vmm_used[i].virt, size |-> vmm_used[i].size] :
            i \in 1..Len(vmm_used)}

H == INSTANCE Heap WITH live <- Live, lost <- wild # "none"

(* The lists implement an exact, address-ordered first fit: a block is     *)
(* placed at the lowest address with room behind it among all addresses    *)
(* not in use, malloc fails only when there is no such place, and freeing  *)
(* a live block always works, whatever was split and merged before.        *)
ImplementsHeap == H!Spec
=============================================================================
