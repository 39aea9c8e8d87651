-------------------------- MODULE MemoryProofs ------------------------------
(***************************************************************************)
(* Proofs about the memory of the running kernel: PageStack, for any list  *)
(* of distinct pages and any sequence of alloc_page and free_page, and     *)
(* KernelHeap, for any page size, table size, amount of RAM and sequence   *)
(* of requests.                                                            *)
(***************************************************************************)
EXTENDS KernelHeap, PageStack, SequenceTheorems, FiniteSetTheorems, TLAPS

-----------------------------------------------------------------------------
(* The stack of free pages. *)

(***************************************************************************)
(* A page that is on the list is not owned, and is on the list once.       *)
(***************************************************************************)
ListedNotOwned ==
    /\ \A s \in Slots : freePageList[s] \notin owned
    /\ \A s, r \in Slots :
          freePageList[s] = freePageList[r] /\ freePageList[s] # 0 => s = r

StackInv == StackTypeOK /\ ListedNotOwned /\ StackInBounds /\ IsFiniteSet(owned)

USE PageStackAssumption DEF Slots, FAILURE

LEMMA StackInitInv == StackInit => StackInv
<1>1. SUFFICES ASSUME StackInit PROVE StackInv
  OBVIOUS
<1>2. StackTypeOK
  BY <1>1 DEF StackInit, StackTypeOK, Calls
<1>3. ListedNotOwned
  BY <1>1 DEF StackInit, ListedNotOwned
<1>4. Cardinality(owned) = 0 /\ IsFiniteSet(owned)
  BY <1>1, FS_EmptySet DEF StackInit
<1>5. StackInBounds
  BY <1>1, <1>4 DEF StackInit, StackInBounds
<1>6. QED
  BY <1>2, <1>3, <1>4, <1>5 DEF StackInv

LEMMA TopLemma ==
    ASSUME StackInv
    PROVE  /\ freePageListEntries \in Slots
           /\ Top \in Page \cup {0}
           /\ Top \notin owned
           /\ freePageList \in [Slots -> Page \cup {0}]
  BY DEF StackInv, StackTypeOK, ListedNotOwned, Top

LEMMA AllocInv == ASSUME StackInv, AllocSucceeds PROVE StackInv'
<1>1. /\ freePageListEntries \in Slots
      /\ freePageListEntries # 0
      /\ Top \in Page
      /\ Top \notin owned
      /\ Top = freePageList[freePageListEntries]
      /\ freePageList' = [freePageList EXCEPT ![freePageListEntries] = 0]
      /\ freePageListEntries' = freePageListEntries - 1
      /\ owned' = owned \cup {Top}
      /\ last' = [call |-> "alloc", page |-> Top]
  BY TopLemma DEF AllocSucceeds, Top
<1>2. StackTypeOK'
  <2>1. freePageList' \in [Slots -> Page \cup {0}] /\ freePageListEntries' \in Slots
    BY <1>1, TopLemma
  <2>2. owned' \in SUBSET Page
    BY <1>1 DEF StackInv, StackTypeOK
  <2>3. last' \in [call : Calls, page : Page \cup {FAILURE}]
    BY <1>1 DEF Calls
  <2>4. QED
    BY <2>1, <2>2, <2>3 DEF StackTypeOK
<1>3. ListedNotOwned'
  BY <1>1 DEF StackInv, StackTypeOK, ListedNotOwned
<1>4. /\ IsFiniteSet(owned')
      /\ Cardinality(owned') = Cardinality(owned) + 1
  BY <1>1, FS_AddElement DEF StackInv
<1>5. Cardinality(owned) \in Nat
  BY FS_CardinalityType DEF StackInv
<1>6. StackInBounds'
  BY <1>1, <1>4, <1>5 DEF StackInv, StackInBounds
<1>7. QED
  BY <1>2, <1>3, <1>4, <1>6 DEF StackInv

LEMMA FreeInv == ASSUME StackInv, NEW page \in Page, FreePage(page) PROVE StackInv'
<1>1. /\ freePageListEntries \in Slots
      /\ page \in owned
      /\ freePageList' = [freePageList EXCEPT ![freePageListEntries] = page]
      /\ freePageListEntries' = freePageListEntries + 1
      /\ owned' = owned \ {page}
      /\ last' = [call |-> "free", page |-> page]
  BY TopLemma DEF FreePage
<1>2. /\ IsFiniteSet(owned')
      /\ Cardinality(owned') = Cardinality(owned) - 1
  BY <1>1, FS_RemoveElement DEF StackInv
<1>3. Cardinality(owned') \in Nat /\ Cardinality(owned) \in Nat
  BY <1>2, FS_CardinalityType DEF StackInv
<1>4. freePageListEntries + 1 \in Slots
  BY <1>1, <1>2, <1>3 DEF StackInv, StackInBounds
<1>5. StackTypeOK'
  BY <1>1, <1>4 DEF StackInv, StackTypeOK, Calls
<1>6. ListedNotOwned'
  BY <1>1 DEF StackInv, StackTypeOK, ListedNotOwned
<1>7. StackInBounds'
  BY <1>1, <1>2, <1>3 DEF StackInv, StackInBounds
<1>8. QED
  BY <1>2, <1>5, <1>6, <1>7 DEF StackInv

LEMMA StackNextInv == ASSUME StackInv, [StackNext]_stackVars PROVE StackInv'
<1>1. CASE AllocFails
  BY <1>1 DEF AllocFails, StackInv, StackTypeOK, ListedNotOwned, StackInBounds, Calls
<1>2. CASE AllocSucceeds
  BY <1>2, AllocInv
<1>3. CASE \E page \in Page : FreePage(page)
  BY <1>3, FreeInv
<1>4. CASE UNCHANGED stackVars
  BY <1>4 DEF stackVars, StackInv, StackTypeOK, ListedNotOwned, StackInBounds
<1>5. QED
  BY <1>1, <1>2, <1>3, <1>4 DEF StackNext

LEMMA StackInvariance == StackSpec => []StackInv
  BY StackInitInv, StackNextInv, PTL DEF StackSpec

(***************************************************************************)
(* The index stays inside the list init_virt_mem made, and every entry is  *)
(* a page or zero.                                                         *)
(***************************************************************************)
THEOREM StackTypeCorrectness == StackSpec => []StackTypeOK
<1>1. StackInv => StackTypeOK
  BY DEF StackInv
<1>2. QED
  BY <1>1, StackInvariance, PTL

(***************************************************************************)
(* One free slot for each page handed out, for a list of any length.       *)
(***************************************************************************)
THEOREM StackInBoundsTheorem == StackSpec => []StackInBounds
<1>1. StackInv => StackInBounds
  BY DEF StackInv
<1>2. QED
  BY <1>1, StackInvariance, PTL

(***************************************************************************)
(* alloc_page never hands out a page that somebody still owns, even after  *)
(* free_page has overwritten the top of the stack.                         *)
(***************************************************************************)
THEOREM NoDoubleAllocTheorem == StackSpec => NoDoubleAlloc
<1> DEFINE A == last'.call = "alloc" /\ last'.page # FAILURE => last'.page \notin owned
<1>1. StackInv /\ [StackNext]_stackVars => [A]_stackVars
  <2>1. ASSUME StackInv, StackNext PROVE A
    <3>1. CASE AllocFails
      BY <3>1 DEF AllocFails
    <3>2. CASE AllocSucceeds
      BY <2>1, <3>2, TopLemma DEF AllocSucceeds
    <3>3. CASE \E page \in Page : FreePage(page)
      BY <3>3 DEF FreePage
    <3>4. QED
      BY <2>1, <3>1, <3>2, <3>3 DEF StackNext
  <2>2. QED
    BY <2>1
<1>2. QED
  BY <1>1, StackInvariance, PTL DEF StackSpec, NoDoubleAlloc

(***************************************************************************)
(* What KernelHeap takes alloc_page for: as long as nothing is freed the   *)
(* pages still on the stack are the first of the list, so that a call      *)
(* returns page number freeFrames of it, none for number 0, and leaves the *)
(* stack as Taken says.                                                    *)
(***************************************************************************)
Untouched ==
    \A s \in Slots : freePageList[s] = IF s <= freePageListEntries THEN BootList[s] ELSE 0

CountsLikeHeap ==
    freeFrames = freePageListEntries =>
       /\ last'.page = IF alloc_page = 0 THEN FAILURE ELSE BootList[alloc_page]
       /\ freePageListEntries' = Taken

LEMMA UntouchedInv ==
    ~Freers /\ StackInv /\ Untouched /\ [StackNext]_stackVars => Untouched'
<1> SUFFICES ASSUME ~Freers, StackInv, Untouched, [StackNext]_stackVars PROVE Untouched'
  OBVIOUS
<1>1. CASE AllocSucceeds
  <2>1. /\ freePageListEntries \in Slots /\ freePageList \in [Slots -> Page \cup {0}]
        /\ freePageList' = [freePageList EXCEPT ![freePageListEntries] = 0]
        /\ freePageListEntries' = freePageListEntries - 1
    BY <1>1, TopLemma DEF AllocSucceeds
  <2>2. ASSUME NEW s \in Slots
        PROVE  freePageList'[s] = IF s <= freePageListEntries' THEN BootList[s] ELSE 0
    <3>1. s <= freePageListEntries' <=> s <= freePageListEntries /\ s # freePageListEntries
      BY <2>1
    <3> QED
      BY <2>1, <3>1 DEF Untouched
  <2> QED
    BY <2>2 DEF Untouched
<1>2. CASE ~AllocSucceeds
  <2>1. UNCHANGED <<freePageList, freePageListEntries>>
    BY <1>2 DEF StackNext, AllocFails, FreePage, stackVars
  <2> QED
    BY <2>1 DEF Untouched
<1> QED
  BY <1>1, <1>2

THEOREM StackCountsLikeHeap ==
    ASSUME ~Freers
    PROVE  StackSpec => [][CountsLikeHeap]_stackVars
<1>1. StackInit => Untouched
  BY DEF StackInit, Untouched
<1>2. StackInv /\ Untouched /\ [StackNext]_stackVars => [CountsLikeHeap]_stackVars
  <2> SUFFICES ASSUME StackInv, Untouched, StackNext, freeFrames = freePageListEntries
               PROVE  /\ last'.page = IF alloc_page = 0 THEN FAILURE ELSE BootList[alloc_page]
                      /\ freePageListEntries' = Taken
    BY DEF CountsLikeHeap
  <2>1. /\ freePageListEntries \in Slots /\ Top = BootList[freePageListEntries] /\ Top # 0
        /\ alloc_page = freePageListEntries
    BY TopLemma DEF Untouched, Top, alloc_page
  <2>2. CASE AllocFails
    BY <2>1, <2>2 DEF AllocFails, Taken
  <2>3. CASE AllocSucceeds
    BY <2>1, <2>3 DEF AllocSucceeds, Taken
  <2> QED
    BY <2>2, <2>3 DEF StackNext, FreePage
<1>3. StackInv /\ Untouched /\ [StackNext]_stackVars => Untouched'
  BY UntouchedInv
<1> QED
  BY <1>1, <1>2, <1>3, StackInvariance, PTL DEF StackSpec

HIDE PageStackAssumption DEF Slots, FAILURE

-----------------------------------------------------------------------------
(* The heap. *)

Block == [start : Nat, size : Nat]

TypeInv ==
    /\ nbytes \in Nat
    /\ kernelHeapEnd \in Nat
    /\ vHeapMappedLimit \in Nat
    /\ p \in Nat
    /\ newHeapPage \in Frame
    /\ kernelHeapTable \in [Index -> Frame \cup {ABSENT}]
    /\ freeFrames \in Frame
    /\ blocks \in Seq(Block)

(***************************************************************************)
(* kmalloc never has free bytes: what sbrk adds to them is what the block  *)
(* takes.  So each block that is not empty starts at the limit of sbrk,    *)
(* which then moves behind it.                                             *)
(***************************************************************************)
BlocksInv ==
    /\ freeBytes = 0
    /\ \A b \in 1 .. Len(blocks) :
          blocks[b].size > 0 =>
            /\ blocks[b].start + blocks[b].size <= vHeapMappedLimit
            /\ pc = "zero" /\ nbytes > 0 => blocks[b].start + blocks[b].size <= p
    /\ pc = "zero" /\ nbytes > 0 =>
         /\ p + nbytes <= vHeapMappedLimit
         /\ p + nbytes <= kernelHeapEnd
    /\ BlocksDisjoint
    /\ FaultIsValid

(***************************************************************************)
(* A page taken from the stack and not mapped yet is nowhere else.         *)
(***************************************************************************)
FramesInv ==
    /\ FramesDistinct
    /\ pc = "map" /\ newHeapPage # 0 =>
         /\ newHeapPage > freeFrames
         /\ \A e \in Index : kernelHeapTable[e] # newHeapPage

Inv == TypeInv /\ BlocksInv /\ FramesInv

USE KernelHeapAssumption DEF Frame, ABSENT, WORD

LEMMA InitInv == Init => Inv
<1> SUFFICES ASSUME Init PROVE Inv
  OBVIOUS
<1>1. TypeInv
  BY DEF Init, TypeInv, Index
<1>2. BlocksInv
  BY DEF Init, BlocksInv, BlocksDisjoint, FaultIsValid
<1>3. FramesInv
  BY DEF Init, FramesInv, FramesDistinct, Index
<1> QED
  BY <1>1, <1>2, <1>3 DEF Inv

(***************************************************************************)
(* The steps that hand out no block leave the blocks alone.                *)
(***************************************************************************)
LEMMA KeepsBlocks ==
    ASSUME BlocksInv, pc' # "zero", pc' # "refused",
           UNCHANGED <<freeBytes, vHeapMappedLimit, blocks>>
    PROVE  BlocksInv'
BY DEF BlocksInv, BlocksDisjoint, FaultIsValid

LEMMA KeepsFrames ==
    ASSUME FramesInv, pc' # "map", UNCHANGED <<kernelHeapTable, freeFrames>>
    PROVE  FramesInv'
BY DEF FramesInv, FramesDistinct

(***************************************************************************)
(* The block carved out at the limit lies behind all others.               *)
(***************************************************************************)
LEMMA SbrkReturnInv == ASSUME Inv, SbrkReturn PROVE Inv'
<1>1. /\ pc' = "zero" /\ p' = vHeapMappedLimit /\ nbytes' = nbytes
      /\ vHeapMappedLimit' = vHeapMappedLimit + nbytes
      /\ kernelHeapEnd' \in {vHeapMappedLimit + nbytes, vHeapMappedLimit + 4 * nbytes}
      /\ blocks' = blocks
      /\ nbytes \in Nat /\ vHeapMappedLimit \in Nat
  BY DEF SbrkReturn, Carve, Inv, TypeInv
<1>2. freeBytes' = 0
  BY <1>1 DEF SbrkReturn, Carve, Inv, BlocksInv
<1>3. TypeInv'
  BY <1>1 DEF SbrkReturn, Inv, TypeInv, pageVars
<1>4. BlocksInv'
  <2>1. \A b \in 1 .. Len(blocks) : blocks[b] \in Block
    BY DEF Inv, TypeInv
  <2>2. \A b \in 1 .. Len(blocks) :
           blocks[b].start \in Nat /\ blocks[b].size \in Nat
    BY <2>1 DEF Block
  <2>3. ASSUME NEW b \in 1 .. Len(blocks), blocks[b].size > 0
        PROVE  /\ blocks[b].start + blocks[b].size <= vHeapMappedLimit'
               /\ blocks[b].start + blocks[b].size <= p'
    BY <1>1, <2>2, <2>3 DEF Inv, BlocksInv
  <2>4. BlocksDisjoint' /\ FaultIsValid'
    BY <1>1 DEF Inv, BlocksInv, BlocksDisjoint, FaultIsValid
  <2>5. nbytes > 0 => p' + nbytes <= vHeapMappedLimit' /\ p' + nbytes <= kernelHeapEnd'
    BY <1>1
  <2> QED
    BY <1>1, <1>2, <2>3, <2>4, <2>5 DEF BlocksInv
<1>5. FramesInv'
  BY <1>1, KeepsFrames DEF SbrkReturn, Inv, pageVars
<1> QED
  BY <1>3, <1>4, <1>5 DEF Inv

LEMMA KmallocReturnInv == ASSUME Inv, KmallocReturn PROVE Inv'
<1> DEFINE new == [start |-> p, size |-> nbytes]
           n == Len(blocks)
<1>1. /\ blocks \in Seq(Block) /\ new \in Block /\ n \in Nat
      /\ blocks' = Append(blocks, new)
      /\ pc = "zero" /\ pc' = "idle" /\ nbytes' = 0
      /\ UNCHANGED <<heapVars, p, newHeapPage, pageVars>>
  BY DEF KmallocReturn, Inv, TypeInv, Block, sbrkVars
<1>2. /\ blocks' \in Seq(Block) /\ Len(blocks') = n + 1
      /\ blocks'[n + 1] = new
      /\ \A b \in 1 .. n : blocks'[b] = blocks[b] /\ blocks[b] \in Block
  BY <1>1
<1>3. TypeInv'
  BY <1>1, <1>2 DEF Inv, TypeInv, heapVars, pageVars
<1>4. \A b \in 1 .. n :
         blocks[b].size > 0 =>
            /\ blocks[b].start + blocks[b].size <= vHeapMappedLimit
            /\ nbytes > 0 => blocks[b].start + blocks[b].size <= p
  BY <1>1 DEF Inv, BlocksInv
<1>5. BlocksDisjoint'
  <2> SUFFICES ASSUME NEW a \in 1 .. (n + 1), NEW b \in 1 .. (n + 1), a < b,
                      blocks'[a].size > 0, blocks'[b].size > 0
               PROVE  blocks'[a].start + blocks'[a].size <= blocks'[b].start
    BY <1>2 DEF BlocksDisjoint
  <2>1. a \in 1 .. n
    BY <1>1
  <2>2. CASE b = n + 1
    BY <2>1, <2>2, <1>2, <1>4
  <2>3. CASE b # n + 1
    <3>1. b \in 1 .. n
      BY <2>3, <1>1
    <3> QED
      BY <2>1, <3>1, <1>2 DEF Inv, BlocksInv, BlocksDisjoint
  <2> QED
    BY <2>2, <2>3
<1>6. BlocksInv'
  <2>1. ASSUME NEW b \in 1 .. (n + 1), blocks'[b].size > 0
        PROVE  blocks'[b].start + blocks'[b].size <= vHeapMappedLimit
    <3>1. CASE b = n + 1
      BY <2>1, <3>1, <1>1, <1>2 DEF Inv, BlocksInv
    <3>2. CASE b # n + 1
      <4>1. b \in 1 .. n
        BY <3>2, <1>1
      <4> QED
        BY <4>1, <2>1, <1>2, <1>4
    <3> QED
      BY <3>1, <3>2
  <2>2. freeBytes' = 0 /\ vHeapMappedLimit' = vHeapMappedLimit
    BY <1>1 DEF Inv, BlocksInv, heapVars
  <2>3. FaultIsValid'
    BY <1>1 DEF FaultIsValid
  <2> QED
    BY <1>1, <1>2, <1>5, <2>1, <2>2, <2>3 DEF BlocksInv
<1>7. FramesInv'
  BY <1>1, KeepsFrames DEF Inv, pageVars
<1> QED
  BY <1>3, <1>6, <1>7 DEF Inv

(***************************************************************************)
(* A fault is inside the block, and the block below the end of the heap.   *)
(***************************************************************************)
LEMMA PageFaultInv == ASSUME Inv, PageFault PROVE Inv'
<1>1. PICK a \in PagesWritten :
         /\ Faulting(a)
         /\ IF a < kernelHeapEnd
              THEN /\ kernelHeapTable' =
                        [kernelHeapTable EXCEPT ![virt2Page(a)] = alloc_page]
                   /\ freeFrames' = Taken
                   /\ pc' = "lost"
              ELSE /\ pc' = "refused"
                   /\ UNCHANGED <<kernelHeapTable, freeFrames>>
  BY DEF PageFault
<1>2. a < kernelHeapEnd
  <2>1. nbytes \in Nat /\ p \in Nat /\ kernelHeapEnd \in Nat /\ pc = "zero"
    BY DEF PageFault, Inv, TypeInv
  <2>2. a \in p .. (p + 4 * (nbytes \div 4) - 1)
    BY DEF PagesWritten
  <2>3. nbytes > 0 /\ a < p + nbytes
    BY <2>1, <2>2
  <2> QED
    BY <2>1, <2>2, <2>3 DEF Inv, BlocksInv
<1>3. TypeInv'
  BY <1>1, <1>2 DEF PageFault, Inv, TypeInv, heapVars, sbrkVars, alloc_page, Taken
<1>4. BlocksInv'
  BY <1>1, <1>2, KeepsBlocks DEF PageFault, Inv, heapVars
<1>5. FramesInv'
  BY <1>1, <1>2 DEF PageFault, Inv, TypeInv, FramesInv, FramesDistinct, alloc_page, Taken
<1> QED
  BY <1>3, <1>4, <1>5 DEF Inv

LEMMA NextInv == Inv /\ [Next]_vars => Inv'
<1> SUFFICES ASSUME Inv, [Next]_vars PROVE Inv'
  OBVIOUS
<1> USE DEF Inv, heapVars, sbrkVars, pageVars
<1>1. ASSUME NEW n \in Sizes, Kmalloc(n) PROVE Inv'
  <2>1. TypeInv'
    BY <1>1 DEF Kmalloc, TypeInv
  <2>2. BlocksInv'
    BY <1>1, KeepsBlocks DEF Kmalloc
  <2>3. FramesInv'
    BY <1>1, KeepsFrames DEF Kmalloc
  <2> QED
    BY <2>1, <2>2, <2>3
<1>2. ASSUME NEW n \in Sizes, KmallocFromFree(n) PROVE Inv'
  <2>1. n = 0 /\ n \in Nat
    BY <1>2 DEF KmallocFromFree, BlocksInv
  <2>2. TypeInv'
    BY <1>2, <2>1 DEF KmallocFromFree, Carve, TypeInv
  <2>3. BlocksInv'
    BY <1>2, <2>1 DEF KmallocFromFree, Carve, BlocksInv, BlocksDisjoint, FaultIsValid
  <2>4. FramesInv'
    BY <1>2, KeepsFrames DEF KmallocFromFree
  <2> QED
    BY <2>2, <2>3, <2>4
<1>3. CASE SbrkStart
  <2>1. TypeInv'
    BY <1>3 DEF SbrkStart, TypeInv
  <2>2. BlocksInv'
    BY <1>3, KeepsBlocks DEF SbrkStart
  <2>3. FramesInv'
    BY <1>3, KeepsFrames DEF SbrkStart
  <2> QED
    BY <2>1, <2>2, <2>3
<1>4. CASE SbrkGrow
  <2>1. TypeInv'
    BY <1>4 DEF SbrkGrow, TypeInv, alloc_page, Taken
  <2>2. BlocksInv'
    BY <1>4, KeepsBlocks DEF SbrkGrow
  <2>3. FramesInv'
    BY <1>4 DEF SbrkGrow, TypeInv, FramesInv, FramesDistinct, alloc_page, Taken
  <2> QED
    BY <2>1, <2>2, <2>3
<1>5. CASE MapPage
  <2>1. TypeInv'
    BY <1>5 DEF MapPage, TypeInv
  <2>2. BlocksInv'
    BY <1>5, KeepsBlocks DEF MapPage
  <2>3. FramesInv'
    BY <1>5 DEF MapPage, TypeInv, FramesInv, FramesDistinct
  <2> QED
    BY <2>1, <2>2, <2>3
<1>6. CASE CreateNewTable
  <2>1. TypeInv'
    BY <1>6 DEF CreateNewTable, TypeInv, Taken
  <2>2. BlocksInv'
    BY <1>6, KeepsBlocks DEF CreateNewTable
  <2>3. FramesInv'
    BY <1>6 DEF CreateNewTable, TypeInv, FramesInv, FramesDistinct, Taken
  <2> QED
    BY <2>1, <2>2, <2>3
<1>7. CASE SbrkReturn
  BY <1>7, SbrkReturnInv
<1>8. CASE KmallocReturn
  BY <1>8, KmallocReturnInv
<1>9. CASE PageFault
  BY <1>9, PageFaultInv
<1>10. CASE UNCHANGED vars
  BY <1>10 DEF vars, TypeInv, BlocksInv, BlocksDisjoint, FaultIsValid, FramesInv,
               FramesDistinct
<1> QED
  BY <1>1, <1>2, <1>3, <1>4, <1>5, <1>6, <1>7, <1>8, <1>9, <1>10 DEF Next

LEMMA Invariance == Spec => []Inv
  BY InitInv, NextInv, PTL DEF Spec

-----------------------------------------------------------------------------
(***************************************************************************)
(* Whatever the requests, no two blocks kmalloc returns overlap.           *)
(***************************************************************************)
THEOREM BlocksDisjointTheorem == Spec => []BlocksDisjoint
<1>1. Inv => BlocksDisjoint
  BY DEF Inv, BlocksInv
<1> QED
  BY <1>1, Invariance, PTL

(***************************************************************************)
(* The page fault handler never refuses an access kmalloc itself makes.    *)
(***************************************************************************)
THEOREM FaultIsValidTheorem == Spec => []FaultIsValid
<1>1. Inv => FaultIsValid
  BY DEF Inv, BlocksInv
<1> QED
  BY <1>1, Invariance, PTL

(***************************************************************************)
(* No frame backs two heap pages or a heap page and a later allocation,    *)
(* even when RAM runs out in the middle of sbrk.                           *)
(***************************************************************************)
THEOREM FramesDistinctTheorem == Spec => []FramesDistinct
<1>1. Inv => FramesDistinct
  BY DEF Inv, FramesInv
<1> QED
  BY <1>1, Invariance, PTL
=============================================================================
