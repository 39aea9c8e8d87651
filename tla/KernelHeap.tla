---------------------------- MODULE KernelHeap -----------------------------
(***************************************************************************)
(* The kernel heap of ktux (kernel/memory.c): kmalloc, sbrk, the mapping   *)
(* of heap pages, and the page fault that kmalloc's own memset may raise.  *)
(* Addresses are byte offsets from V_KERNEL_HEAP_ADDR.  All calls come     *)
(* from the boot code, one at a time.  freeFrames is the stack of          *)
(* alloc_page (module PageStack) down to the entry it never hands out.     *)
(***************************************************************************)
EXTENDS Integers, Sequences

CONSTANTS
    PAGE_SIZE,
    PTE_PER_PT,      \* entries of a page table, and of the page directory
    HEAP_DIR,        \* virt2Dir(V_KERNEL_HEAP_ADDR); 0 maps low memory
    FRAMES,          \* number of pages alloc_page has to give
    Sizes,           \* arguments of kmalloc
    MaxBlocks        \* bound of the model on the number of calls

WORD == 4            \* sizeof(unsigned int)

ASSUME KernelHeapAssumption ==
    /\ PAGE_SIZE \in Nat \ {0}
    /\ PTE_PER_PT \in Nat \ {0}
    /\ HEAP_DIR \in 1 .. (PTE_PER_PT - 1)
    /\ FRAMES \in Nat
    /\ Sizes \subseteq Nat
    /\ MaxBlocks \in Nat

VARIABLES
    pc,                  \* next statement of the kmalloc in progress
    nbytes,              \* its argument
    kernelHeapEnd,
    vHeapMappedLimit,
    freeBytes,           \* kmalloc's static
    i, free, newHeapPage,  \* sbrk's statics
    p,                   \* the block being zeroed
    kernelPageDirectory,
    kernelHeapTable,
    freeFrames,
    blocks               \* the blocks returned, in order

heapVars  == <<kernelHeapEnd, vHeapMappedLimit, freeBytes>>
sbrkVars  == <<i, free, newHeapPage>>
pageVars  == <<kernelPageDirectory, kernelHeapTable, freeFrames>>
vars == <<pc, nbytes, heapVars, sbrkVars, p, pageVars, blocks>>

ABSENT == -1
Frame == 0 .. FRAMES           \* 0 is alloc_page's failure, and page 0 of RAM
STATIC == FRAMES + 1           \* the tables init_virt_mem and init_heap install

Index == 0 .. (PTE_PER_PT - 1)

TypeOK ==
    /\ pc \in {"idle", "sbrk", "grow", "map", "zero", "lost", "refused"}
    /\ nbytes \in Nat
    /\ kernelHeapEnd \in Nat
    /\ vHeapMappedLimit \in Nat
    /\ freeBytes \in Nat
    /\ i \in Nat
    /\ free \in Nat
    /\ newHeapPage \in Frame
    /\ p \in Nat
    /\ kernelPageDirectory \in [Index -> Frame \cup {ABSENT, STATIC}]
    /\ kernelHeapTable \in [Index -> Frame \cup {ABSENT}]
    /\ freeFrames \in Frame
    /\ blocks \in Seq([start : Nat, size : Sizes])

alloc_page == freeFrames
Taken == IF freeFrames = 0 THEN 0 ELSE freeFrames - 1

virt2Dir(virt) == HEAP_DIR + virt \div (PAGE_SIZE * PTE_PER_PT)
virt2Page(virt) == (virt \div PAGE_SIZE) % PTE_PER_PT
PageStart(virt) == virt - (virt % PAGE_SIZE)

(***************************************************************************)
(* After init_heap: the first heap page is mapped already; sbrk will map   *)
(* it again.                                                               *)
(***************************************************************************)
Init ==
    /\ pc = "idle"
    /\ nbytes = 0
    /\ kernelHeapEnd = 0
    /\ vHeapMappedLimit = 0
    /\ freeBytes = 0
    /\ i = 0
    /\ free = 0
    /\ newHeapPage = 0
    /\ p = 0
    /\ kernelPageDirectory =
         [d \in Index |-> IF d \in {0, HEAP_DIR} THEN STATIC ELSE ABSENT]
    /\ kernelHeapTable = [e \in Index |-> IF e = 0 THEN FRAMES ELSE ABSENT]
    /\ freeFrames = IF FRAMES = 0 THEN 0 ELSE FRAMES - 1
    /\ blocks = <<>>

(***************************************************************************)
(* kmalloc(n), when it cannot be served from freeBytes: both of the other  *)
(* branches call sbrk(n) first.  The heap must not reach the end of the    *)
(* page directory (V_KERNEL_DRIVER_HEAP in the code, which checks nothing).*)
(***************************************************************************)
Kmalloc(n) ==
    /\ pc = "idle"
    /\ Len(blocks) < MaxBlocks
    /\ n > freeBytes
    /\ virt2Dir(vHeapMappedLimit + n) \in Index
    /\ nbytes' = n
    /\ pc' = "sbrk"
    /\ UNCHANGED <<heapVars, sbrkVars, p, pageVars, blocks>>

(***************************************************************************)
(* The first branch of kmalloc.  `kernelHeapEnd += nbytes' adds to a       *)
(* pointer to words.                                                       *)
(***************************************************************************)
Carve(n, start, available) ==
    /\ p' = start
    /\ kernelHeapEnd' = start + WORD * n
    /\ freeBytes' = available - n

KmallocFromFree(n) ==
    /\ pc = "idle"
    /\ Len(blocks) < MaxBlocks
    /\ n <= freeBytes
    /\ Carve(n, kernelHeapEnd, freeBytes)
    /\ nbytes' = n
    /\ pc' = "zero"
    /\ UNCHANGED <<vHeapMappedLimit, sbrkVars, pageVars, blocks>>

(***************************************************************************)
(* sbrk: what is left of the last page, then the loop.                     *)
(***************************************************************************)
SbrkStart ==
    /\ pc = "sbrk"
    /\ free' = IF vHeapMappedLimit % PAGE_SIZE = 0 THEN 0
               ELSE PageStart(vHeapMappedLimit) + PAGE_SIZE - vHeapMappedLimit
    /\ i' = 0
    /\ pc' = "grow"
    /\ UNCHANGED <<nbytes, heapVars, newHeapPage, p, pageVars, blocks>>

\* Mutant of SbrkGrow: the page popped from the stack stays on it.
MutantPeek ==
    /\ pc = "grow"
    /\ free < nbytes
    /\ newHeapPage' = alloc_page
    /\ pc' = "map"
    /\ UNCHANGED <<nbytes, heapVars, i, free, p, pageVars, blocks>>

SbrkGrow ==
    /\ pc = "grow"
    /\ free < nbytes
    /\ newHeapPage' = alloc_page
    /\ freeFrames' = Taken
    /\ pc' = "map"
    /\ UNCHANGED <<nbytes, heapVars, i, free, p, kernelPageDirectory,
                   kernelHeapTable, blocks>>

newPageVirt == PageStart(vHeapMappedLimit) + PAGE_SIZE * i

(***************************************************************************)
(* map_page_helper, the page table present.                                *)
(***************************************************************************)
MapPage ==
    /\ pc = "map"
    /\ kernelPageDirectory[virt2Dir(newPageVirt)] # ABSENT
    /\ kernelHeapTable' =
         [kernelHeapTable EXCEPT ![virt2Page(newPageVirt)] = newHeapPage]
    /\ i' = i + 1
    /\ free' = free + PAGE_SIZE
    /\ pc' = "grow"
    /\ UNCHANGED <<nbytes, heapVars, newHeapPage, p, kernelPageDirectory,
                   freeFrames, blocks>>

(***************************************************************************)
(* map_page_helper, the page table absent: create_new_table stores the new *)
(* table with setPTEaddr, at the index of the PAGE, and map_page_helper    *)
(* calls itself again (the stack it uses is not modelled).                 *)
(***************************************************************************)
CreateNewTable ==
    /\ pc = "map"
    /\ kernelPageDirectory[virt2Dir(newPageVirt)] = ABSENT
    /\ kernelPageDirectory' =
         [kernelPageDirectory EXCEPT ![virt2Page(newPageVirt)] = alloc_page]
    /\ freeFrames' = Taken
    /\ UNCHANGED <<pc, nbytes, heapVars, sbrkVars, p, kernelHeapTable, blocks>>

\* Mutants of SbrkReturn: the limit is not moved; kmalloc's branch for more than
\* a page leaves kernelHeapEnd at the start of the block.
MutantLimitStays ==
    /\ pc = "grow"
    /\ free >= nbytes
    /\ free' = free - nbytes
    /\ p' = vHeapMappedLimit
    /\ kernelHeapEnd' = vHeapMappedLimit + WORD * nbytes
    /\ pc' = "zero"
    /\ UNCHANGED <<nbytes, vHeapMappedLimit, freeBytes, i, newHeapPage,
                   pageVars, blocks>>

MutantEndAtStart ==
    /\ pc = "grow"
    /\ free >= nbytes
    /\ vHeapMappedLimit' = vHeapMappedLimit + nbytes
    /\ free' = free - nbytes
    /\ IF nbytes > PAGE_SIZE
         THEN /\ p' = vHeapMappedLimit
              /\ kernelHeapEnd' = vHeapMappedLimit
              /\ UNCHANGED freeBytes
         ELSE Carve(nbytes, vHeapMappedLimit, freeBytes + nbytes)
    /\ pc' = "zero"
    /\ UNCHANGED <<nbytes, i, newHeapPage, pageVars, blocks>>

(***************************************************************************)
(* sbrk returns the old limit.  kmalloc then uses the block at once, or    *)
(* makes it its free bytes and calls itself.                               *)
(***************************************************************************)
SbrkReturn ==
    /\ pc = "grow"
    /\ free >= nbytes
    /\ vHeapMappedLimit' = vHeapMappedLimit + nbytes
    /\ free' = free - nbytes
    /\ IF nbytes > PAGE_SIZE
         THEN /\ p' = vHeapMappedLimit
              /\ kernelHeapEnd' = vHeapMappedLimit + nbytes
              /\ UNCHANGED freeBytes
         ELSE Carve(nbytes, vHeapMappedLimit, freeBytes + nbytes)
    /\ pc' = "zero"
    /\ UNCHANGED <<nbytes, i, newHeapPage, pageVars, blocks>>

(***************************************************************************)
(* memsetd(p, 0, nbytes >> 2): the pages it writes.                        *)
(***************************************************************************)
PagesWritten == {a \in p .. (p + WORD * (nbytes \div WORD) - 1) :
              a = p \/ a % PAGE_SIZE = 0}

Present(virt) == /\ kernelPageDirectory[virt2Dir(virt)] # ABSENT
                 /\ kernelHeapTable[virt2Page(virt)] # ABSENT

KmallocReturn ==
    /\ pc = "zero"
    /\ \A a \in PagesWritten : Present(a)
    /\ blocks' = Append(blocks, [start |-> p, size |-> nbytes])
    /\ pc' = "idle"
    /\ nbytes' = 0
    /\ UNCHANGED <<heapVars, sbrkVars, p, pageVars>>

Faulting(a) == /\ a \in PagesWritten
               /\ ~Present(a)
               /\ \A b \in PagesWritten : b < a => Present(b)

(***************************************************************************)
(* page_fault_handler.  Below the end of the heap it maps a page; but the  *)
(* return path of its stub unwinds the wrong stack frame (InterruptEntry), *)
(* so the interrupted memset does not go on.  Otherwise it reports "heap   *)
(* request invalid.  kill thread." and loops for ever.                     *)
(***************************************************************************)
PageFault ==
    /\ pc = "zero"
    /\ \E a \in PagesWritten :
         /\ Faulting(a)
         /\ IF a < kernelHeapEnd
              THEN /\ kernelHeapTable' =
                        [kernelHeapTable EXCEPT ![virt2Page(a)] = alloc_page]
                   /\ freeFrames' = Taken
                   /\ pc' = "lost"
              ELSE /\ pc' = "refused"
                   /\ UNCHANGED <<kernelHeapTable, freeFrames>>
    /\ UNCHANGED <<nbytes, heapVars, sbrkVars, p, kernelPageDirectory, blocks>>

Next ==
    \/ \E n \in Sizes : Kmalloc(n) \/ KmallocFromFree(n)
    \/ SbrkStart \/ SbrkGrow \/ MapPage \/ CreateNewTable \/ SbrkReturn
    \/ KmallocReturn \/ PageFault

Spec == Init /\ [][Next]_vars

-----------------------------------------------------------------------------
(***************************************************************************)
(* The blocks kmalloc returns do not overlap, although it keeps two ends   *)
(* of the heap, in different units, and sbrk a third (memory.c:349-426).   *)
(***************************************************************************)
BlocksDisjoint ==
    \A a, b \in 1 .. Len(blocks) :
        a < b /\ blocks[a].size > 0 /\ blocks[b].size > 0
          => blocks[a].start + blocks[a].size <= blocks[b].start

(***************************************************************************)
(* kmalloc never faults on its own block in a way page_fault_handler takes *)
(* for an invalid request: kernelHeapEnd is past every block before it is  *)
(* written.                                                                *)
(***************************************************************************)
FaultIsValid == pc # "refused"

(***************************************************************************)
(* Two heap pages never share a frame, and none is still on the stack of   *)
(* free pages, however often sbrk maps a page again and whether or not RAM *)
(* has run out (a failing alloc_page gives 0, which FailureNotMapped is    *)
(* about).                                                                 *)
(***************************************************************************)
FramesDistinct ==
    \A e, f \in Index :
        kernelHeapTable[e] \notin {ABSENT, 0} =>
          /\ kernelHeapTable[e] > freeFrames
          /\ kernelHeapTable[e] = kernelHeapTable[f] => e = f

(***************************************************************************)
(* The memory of a block kmalloc has returned stays where it is: its pages *)
(* are not mapped to other frames while it is in use ("Can't have much of  *)
(* a memory manager without malloc()", memory.c:348).                      *)
(***************************************************************************)
LiveDataKept ==
    [][\A b \in 1 .. Len(blocks) :
         \A a \in blocks[b].start .. (blocks[b].start + blocks[b].size - 1) :
            kernelHeapTable'[virt2Page(a)] = kernelHeapTable[virt2Page(a)]]_vars

(***************************************************************************)
(* "If the corresponding page table is not already present, a new one will *)
(* be allocated and initialized" (memory.c:439-441).                       *)
(***************************************************************************)
NewTableInstalled ==
    [][freeFrames' # freeFrames /\ pc = "map"
          => kernelPageDirectory'[virt2Dir(newPageVirt)] # ABSENT]_vars

(***************************************************************************)
(* "NULL/zero is failure (no free RAM)" (memory.c:585): page 0 of RAM is   *)
(* not mapped into the heap when alloc_page fails.                         *)
(***************************************************************************)
FailureNotMapped == \A e \in Index : kernelHeapTable[e] # 0
=============================================================================
