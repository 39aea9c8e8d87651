---------------------------- MODULE BootMemory -----------------------------
(***************************************************************************)
(* init_virt_mem (kernel/memory.c): the boot-time page tables and the list *)
(* of free physical pages.  Addresses are byte addresses and the regions   *)
(* are those of memory.h; the amount of RAM and the size of the kernel are *)
(* taken from small sets.  Interrupts are off; one step is one iteration   *)
(* of a loop of the code.                                                  *)
(***************************************************************************)
EXTENDS Integers, Sequences

CONSTANTS
    Totals,        \* values of sysInfo->totalMemory, in bytes
    KernelEnds     \* values of virt2Phys(sysInfo->kernelEnd)

PAGE_SIZE == 4096
PTE_PER_PT == 1024
KB == 1024
KERNEL_PHYS_ADDR == 1024 * KB
P_KERNEL_STACK_ADDR == 12 * KB
KERNEL_STACK_SIZE == 4 * KB
P_START_FREE_RAM == 36 * KB

(***************************************************************************)
(* reservedX86Regions: start and end (the last byte) of the BDA, the EBDA, *)
(* video memory, video BIOS, ROM BIOS shadow and ROM BIOS.                 *)
(***************************************************************************)
Region(start, end) == [start |-> start, end |-> end]

reservedX86Regions ==
    <<Region(0, 1279), Region(639 * KB, 640 * KB - 1),
      Region(640 * KB, 768 * KB - 1), Region(768 * KB, 800 * KB - 1),
      Region(800 * KB, 960 * KB - 1), Region(960 * KB, 1024 * KB - 1)>>

ASSUME BootMemoryAssumption ==
    /\ Totals \subseteq {t \in Nat : t > KERNEL_PHYS_ADDR}
    /\ KernelEnds \subseteq {k \in Nat : k > KERNEL_PHYS_ADDR}

VARIABLES
    phase,               \* "identity", "kernel", "list", "done"
    pTotalMemory, kernelEnd,
    address, i,          \* the loop variables
    lower4MBPageTable,   \* frames mapped by the entries set present, in order
    kernelPageTable,
    freePageList,
    freePageListEntries

vars == <<phase, pTotalMemory, kernelEnd, address, i, lower4MBPageTable,
          kernelPageTable, freePageList, freePageListEntries>>

\* Mutant of freePageListSize: one byte for each page.
MutantOneBytePerPage == pTotalMemory \div 4096

freePageListStart == kernelEnd
freePageListSize == pTotalMemory \div 1024
pFreeMemoryStart == kernelEnd + freePageListSize

Init ==
    /\ phase = "identity"
    /\ pTotalMemory \in Totals
    /\ kernelEnd \in KernelEnds
    /\ address = 0
    /\ i = 0
    /\ lower4MBPageTable = <<>>
    /\ kernelPageTable = <<>>
    /\ freePageList = <<>>
    /\ freePageListEntries = 0

(***************************************************************************)
(* The identity mapping of low memory, the kernel and the free page list.  *)
(***************************************************************************)
MapIdentity ==
    /\ phase = "identity"
    /\ address < pFreeMemoryStart
    /\ lower4MBPageTable' = Append(lower4MBPageTable, address)
    /\ address' = address + PAGE_SIZE
    /\ i' = i + 1
    /\ UNCHANGED <<phase, pTotalMemory, kernelEnd, kernelPageTable,
                   freePageList, freePageListEntries>>

\* Mutant of IdentityDone: the loop stops at the end of the kernel image.
MutantImageOnly ==
    /\ phase = "identity"
    /\ address >= kernelEnd
    /\ phase' = "kernel"
    /\ i' = 0
    /\ address' = KERNEL_PHYS_ADDR
    /\ UNCHANGED <<pTotalMemory, kernelEnd, lower4MBPageTable, kernelPageTable,
                   freePageList, freePageListEntries>>

IdentityDone ==
    /\ phase = "identity"
    /\ address >= pFreeMemoryStart
    /\ phase' = "kernel"
    /\ i' = 0
    /\ address' = KERNEL_PHYS_ADDR
    /\ UNCHANGED <<pTotalMemory, kernelEnd, lower4MBPageTable, kernelPageTable,
                   freePageList, freePageListEntries>>

(***************************************************************************)
(* The kernel at KERNEL_VIRT_ADDR, then the switch to paging.              *)
(***************************************************************************)
MapKernel ==
    /\ phase = "kernel"
    /\ address < pFreeMemoryStart
    /\ kernelPageTable' = Append(kernelPageTable, address)
    /\ address' = address + PAGE_SIZE
    /\ i' = i + 1
    /\ UNCHANGED <<phase, pTotalMemory, kernelEnd, lower4MBPageTable,
                   freePageList, freePageListEntries>>

EnablePaging ==
    /\ phase = "kernel"
    /\ address >= pFreeMemoryStart
    /\ phase' = "list"
    /\ i' = 0
    /\ address' = 0
    /\ UNCHANGED <<pTotalMemory, kernelEnd, lower4MBPageTable, kernelPageTable,
                   freePageList, freePageListEntries>>

(***************************************************************************)
(* The tests of the free-list loop, in the code's order.                   *)
(***************************************************************************)
InLastAvailable(a) == pFreeMemoryStart < a /\ a < pTotalMemory - 1

InKernelStack(a) ==
    /\ P_KERNEL_STACK_ADDR < a
    /\ a < P_KERNEL_STACK_ADDR + KERNEL_STACK_SIZE - 1

InReserved(a) ==
    \E r \in 1 .. Len(reservedX86Regions) :
        /\ reservedX86Regions[r].start < a
        /\ a < reservedX86Regions[r].end - 1

OnFreeList(a) ==
    \/ InLastAvailable(a)
    \/ ~InKernelStack(a) /\ ~InReserved(a) /\ a >= P_START_FREE_RAM

\* Mutant of ListStep: no `continue' after the first test.
MutantNoContinue ==
    /\ phase = "list"
    /\ address < pTotalMemory
    /\ IF InLastAvailable(address)
         THEN i' = i + 2 /\ freePageList' = freePageList \o <<address, address>>
         ELSE IF OnFreeList(address)
         THEN i' = i + 1 /\ freePageList' = Append(freePageList, address)
         ELSE UNCHANGED <<i, freePageList>>
    /\ address' = address + PAGE_SIZE
    /\ UNCHANGED <<phase, pTotalMemory, kernelEnd, lower4MBPageTable,
                   kernelPageTable, freePageListEntries>>

ListStep ==
    /\ phase = "list"
    /\ address < pTotalMemory
    /\ IF OnFreeList(address)
         THEN i' = i + 1 /\ freePageList' = Append(freePageList, address)
         ELSE UNCHANGED <<i, freePageList>>
    /\ address' = address + PAGE_SIZE
    /\ UNCHANGED <<phase, pTotalMemory, kernelEnd, lower4MBPageTable,
                   kernelPageTable, freePageListEntries>>

ListDone ==
    /\ phase = "list"
    /\ address >= pTotalMemory
    /\ phase' = "done"
    /\ freePageListEntries' = i - 1
    /\ UNCHANGED <<pTotalMemory, kernelEnd, address, i, lower4MBPageTable,
                   kernelPageTable, freePageList>>

Next == \/ MapIdentity \/ IdentityDone \/ MapKernel \/ EnablePaging
        \/ ListStep \/ ListDone

Spec == Init /\ [][Next]_vars

-----------------------------------------------------------------------------
(***************************************************************************)
(* The list never grows out of the freePageListSize bytes reserved for it  *)
(* between the kernel and pFreeMemoryStart (one 4-byte entry per page of   *)
(* RAM), whatever the last, possibly partial, page is.                     *)
(***************************************************************************)
ListFitsItsArea == 4 * Len(freePageList) <= freePageListSize

(***************************************************************************)
(* When the list is written through its physical address, paging is on and *)
(* every byte of the kernel and of the list is mapped, at its physical     *)
(* address and, through a table that is not overrun, at its kernel one.    *)
(***************************************************************************)
KernelReachable ==
    phase \in {"list", "done"} =>
      /\ Len(lower4MBPageTable) * PAGE_SIZE >= pFreeMemoryStart
      /\ KERNEL_PHYS_ADDR + Len(kernelPageTable) * PAGE_SIZE >= pFreeMemoryStart
      /\ Len(lower4MBPageTable) <= PTE_PER_PT

(***************************************************************************)
(* The list is strictly ascending from P_START_FREE_RAM on: no page is on  *)
(* it twice, so the stack that alloc_page pops starts without aliases, and *)
(* none of the kernel stack, the page directory and the static page tables *)
(* below, nor page 0, which alloc_page could not tell from a failure.      *)
(***************************************************************************)
ListAscendsFromFreeRam ==
    \A k \in DOMAIN freePageList :
        freePageList[k] >= IF k = 1 THEN P_START_FREE_RAM
                                    ELSE freePageList[k - 1] + PAGE_SIZE

Overlaps(page, start, end) == page <= end /\ start <= page + PAGE_SIZE - 1

(***************************************************************************)
(* "Add only if not found used anywhere" (memory.c:193), for the memory    *)
(* that holds the kernel and the free page list itself.                    *)
(***************************************************************************)
KernelNotListed ==
    \A k \in 1 .. Len(freePageList) :
        ~Overlaps(freePageList[k], KERNEL_PHYS_ADDR, pFreeMemoryStart - 1)

(***************************************************************************)
(* "Start comparing address to all known reserved regions" (memory.c:192), *)
(* for the regions of reservedX86Regions.                                  *)
(***************************************************************************)
ReservedNotListed ==
    \A k \in 1 .. Len(freePageList) : \A r \in 1 .. Len(reservedX86Regions) :
        ~Overlaps(freePageList[k], reservedX86Regions[r].start,
                  reservedX86Regions[r].end)
=============================================================================
