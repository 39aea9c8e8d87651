----------------------------- MODULE BootProofs ----------------------------
(***************************************************************************)
(* Proofs about Boot, for any set of floppies, any number of failing BIOS  *)
(* calls, any number of attempts A20 needs and any amount of RAM.          *)
(***************************************************************************)
EXTENDS Boot, SequenceTheorems, WellFoundedInduction, TLAPS

\* The stages that count to five.
ReadStages == {"root", "fat", "image", "loader_root", "file"}

(***************************************************************************)
(* Until the machine is given up the retry counter is the number of        *)
(* failures in a row, and zero where nothing is read; EnableA20 borrows it *)
(* and gives it back.                                                      *)
(***************************************************************************)
CountInv ==
    /\ stage # "halted" =>
         /\ why # "disk"
         /\ streak \in 0 .. 4
         /\ stage \notin ReadStages => streak = 0
         /\ stage # "a20" => tries = streak
    /\ GivesUpAfterFive

USE DEF ReadStages, GivesUpAfterFive, L!GivesUpAfterFive, L!Halt, L!GiveUp, L!Read

LEMMA LoaderStep == ASSUME CountInv, L!LoaderNext PROVE CountInv'
<1>1. CASE L!ResetDrive
  BY <1>1 DEF CountInv, L!ResetDrive, L!result
<1>2. CASE L!ReadFails
  BY <1>2 DEF CountInv, L!ReadFails
<1>3. CASE L!BootRead
  BY <1>3 DEF CountInv, L!BootRead, L!result
<1>4. CASE L!BootSearch
  BY <1>4 DEF CountInv, L!BootSearch
<1>5. CASE L!LoadImage
  BY <1>5 DEF CountInv, L!LoadImage, L!result
<1>6. CASE L!EnableA20
  BY <1>6 DEF CountInv, L!EnableA20
<1>7. CASE L!LoadRootDirectory
  BY <1>7 DEF CountInv, L!LoadRootDirectory, L!result
<1>8. CASE L!FindFile
  BY <1>8 DEF CountInv, L!FindFile, L!result
<1>9. CASE L!LoadFAT
  BY <1>9 DEF CountInv, L!LoadFAT, L!result
<1>10. CASE L!LoadFATFails
  BY <1>10 DEF CountInv, L!LoadFATFails
<1>11. CASE L!LoadFile
  BY <1>11 DEF CountInv, L!LoadFile, L!result
<1>12. CASE L!ParseELFHeader
  BY <1>12 DEF CountInv, L!ParseELFHeader, L!result
<1>13. CASE L!MoveText \/ L!MoveData \/ L!ZeroBss
  <2>1. /\ stage \in {"prepare", "data", "bss"}
        /\ stage' \in {"prepare", "data", "bss", "kernel"}
        /\ UNCHANGED <<why, streak, tries>>
    BY <1>13 DEF L!MoveText, L!MoveData, L!ZeroBss, L!Turn, L!result
  <2> QED
    BY <2>1 DEF CountInv
<1>14. CASE L!PrepareRunsAway
  BY <1>14 DEF CountInv, L!PrepareRunsAway, L!Cells
<1> QED
  BY <1>1, <1>2, <1>3, <1>4, <1>5, <1>6, <1>7, <1>8, <1>9, <1>10, <1>11, <1>12,
     <1>13, <1>14 DEF L!LoaderNext

(***************************************************************************)
(* No loop of the boot sector or the loader gives the machine up before or *)
(* after the fifth failure in a row of one piece, on any floppy and        *)
(* however many calls fail.                                                *)
(***************************************************************************)
THEOREM GivesUpAfterFiveTheorem == BootSpec => []GivesUpAfterFive
<1>1. BootInit => CountInv
  BY DEF BootInit, L!LoaderInit, CountInv
<1>2. CountInv /\ [BootNext]_<<vars, loading>> => CountInv'
  <2> SUFFICES ASSUME CountInv, [BootNext]_<<vars, loading>> PROVE CountInv'
    OBVIOUS
  <2>1. CASE Load
    BY <2>1, LoaderStep DEF Load
  <2>2. CASE HandOver
    BY <2>2 DEF HandOver, CountInv, handed
  <2>3. CASE UNCHANGED loading
    BY <2>3 DEF CountInv, loading, handed
  <2> QED
    BY <2>1, <2>2, <2>3 DEF BootNext, Start
<1>3. CountInv => GivesUpAfterFive
  BY DEF CountInv
<1> QED
  BY <1>1, <1>2, <1>3, PTL DEF BootSpec

HIDE DEF ReadStages, GivesUpAfterFive, L!GivesUpAfterFive, L!Halt, L!GiveUp, L!Read

-----------------------------------------------------------------------------
(* The memory map the kernel builds behind the end it is told. *)

LoadedInv ==
    /\ disk \in Disks
    /\ loadedEnd \in {0, KernelCells(disk)}

TypeInv ==
    /\ phase \in {"loader", "identity", "kernel", "list", "done"}
    /\ pTotalMemory \in Totals
    /\ kernelEnd \in Nat
    /\ address \in Nat
    /\ lower4MBPageTable \in Seq(Nat)
    /\ kernelPageTable \in Seq(Nat)
    /\ freePageList \in Seq(Nat)

EndInv ==
    IF phase = "loader"
    THEN kernelEnd = 0 /\ address = 0 /\ lower4MBPageTable = <<>>
    ELSE kernelEnd = KERNEL_PHYS_ADDR + CellSize * loadedEnd

(***************************************************************************)
(* The tables: how far each has come, and that it then stays as it is.     *)
(***************************************************************************)
TablesInv ==
    /\ phase = "identity" => address = PAGE_SIZE * Len(lower4MBPageTable)
    /\ PAGE_SIZE * Len(lower4MBPageTable) < pFreeMemoryStart + PAGE_SIZE
    /\ phase \in {"kernel", "list", "done"}
         => PAGE_SIZE * Len(lower4MBPageTable) >= pFreeMemoryStart
    /\ phase \in {"loader", "identity"} => kernelPageTable = <<>>
    /\ phase = "kernel" => address = KERNEL_PHYS_ADDR + PAGE_SIZE * Len(kernelPageTable)
    /\ phase \in {"list", "done"} =>
         KERNEL_PHYS_ADDR + PAGE_SIZE * Len(kernelPageTable) >= pFreeMemoryStart

(***************************************************************************)
(* The list: its k-th page is at least the k-th from P_START_FREE_RAM on,  *)
(* which bounds its length by its last page, and its last page is behind   *)
(* the loop and in RAM.                                                    *)
(***************************************************************************)
ListInv ==
    /\ phase \in {"loader", "identity", "kernel"} => freePageList = <<>>
    /\ ListAscendsFromFreeRam
    /\ freePageList # <<>> =>
         LET last == freePageList[Len(freePageList)]
         IN  /\ last >= P_START_FREE_RAM + PAGE_SIZE * (Len(freePageList) - 1)
             /\ last < pTotalMemory
             /\ last + PAGE_SIZE <= address

KernelInv == TypeInv /\ TablesInv /\ ListInv

LEMMA CellsAreNat ==
    ASSUME NEW d \in Disks
    PROVE  KernelCells(d) \in Nat
BY BootAssumption DEF KernelCells

LEMMA EndIsNat ==
    ASSUME LoadedInv
    PROVE  /\ loadedEnd \in Nat /\ CellSize * loadedEnd \in Nat
           /\ KERNEL_PHYS_ADDR + CellSize * loadedEnd \in Nat
           /\ KERNEL_PHYS_ADDR + CellSize * loadedEnd >= KERNEL_PHYS_ADDR
<1>1. loadedEnd \in Nat /\ CellSize \in Nat
  BY CellsAreNat, BootAssumption DEF LoadedInv
<1>2. \A m, n \in Nat : m * n \in Nat
  OBVIOUS
<1>3. CellSize * loadedEnd \in Nat
  BY <1>1, <1>2
<1> QED
  BY <1>1, <1>3 DEF KERNEL_PHYS_ADDR, KB

LEMMA ConstantsAreNat ==
    ASSUME TypeInv
    PROVE  /\ pTotalMemory \in Nat /\ kernelEnd \in Nat /\ pFreeMemoryStart \in Nat
           /\ kernelEnd >= KERNEL_PHYS_ADDR => pFreeMemoryStart > KERNEL_PHYS_ADDR
<1>1. /\ pTotalMemory \in Nat /\ pTotalMemory > KERNEL_PHYS_ADDR
      /\ kernelEnd \in Nat
  BY BootMemoryAssumption DEF TypeInv
<1> QED
  BY <1>1 DEF pFreeMemoryStart, freePageListSize, KERNEL_PHYS_ADDR, KB

(***************************************************************************)
(* Nothing below P_START_FREE_RAM passes the tests of the loop: the first  *)
(* one is only passed behind the kernel.                                   *)
(***************************************************************************)
LEMMA ListedIsFreeRam ==
    ASSUME TypeInv, kernelEnd >= KERNEL_PHYS_ADDR, OnFreeList(address)
    PROVE  address >= P_START_FREE_RAM
<1>1. pFreeMemoryStart \in Nat /\ pFreeMemoryStart > KERNEL_PHYS_ADDR
  BY ConstantsAreNat
<1> QED
  BY <1>1 DEF TypeInv, OnFreeList, InLastAvailable, P_START_FREE_RAM,
              KERNEL_PHYS_ADDR, KB

(***************************************************************************)
(* Each step of init_virt_mem keeps the invariant of its tables and list.  *)
(***************************************************************************)
LEMMA KernelStep ==
    ASSUME KernelInv, kernelEnd >= KERNEL_PHYS_ADDR, Next
    PROVE  KernelInv'
<1> USE DEF PAGE_SIZE
<1>0. /\ pTotalMemory \in Nat /\ kernelEnd \in Nat
      /\ pFreeMemoryStart \in Nat /\ pFreeMemoryStart > KERNEL_PHYS_ADDR
      /\ KERNEL_PHYS_ADDR \in Nat /\ P_START_FREE_RAM \in Nat
  BY ConstantsAreNat DEF KernelInv, KERNEL_PHYS_ADDR, P_START_FREE_RAM, KB
<1>1. CASE MapIdentity
  <2>1. pFreeMemoryStart' = pFreeMemoryStart
    BY <1>1 DEF MapIdentity, pFreeMemoryStart, freePageListSize
  <2>2. /\ lower4MBPageTable' \in Seq(Nat)
        /\ Len(lower4MBPageTable') = Len(lower4MBPageTable) + 1
    BY <1>1 DEF MapIdentity, KernelInv, TypeInv
  <2>3. TypeInv'
    BY <1>1, <2>2 DEF MapIdentity, KernelInv, TypeInv
  <2>4. TablesInv'
    BY <1>0, <1>1, <2>1, <2>2 DEF MapIdentity, KernelInv, TypeInv, TablesInv
  <2>5. ListInv'
    BY <1>1 DEF MapIdentity, KernelInv, ListInv, ListAscendsFromFreeRam
  <2> QED
    BY <2>3, <2>4, <2>5 DEF KernelInv
<1>2. CASE IdentityDone
  <2>1. pFreeMemoryStart' = pFreeMemoryStart
    BY <1>2 DEF IdentityDone, pFreeMemoryStart, freePageListSize
  <2>2. TypeInv'
    BY <1>0, <1>2 DEF IdentityDone, KernelInv, TypeInv
  <2>3. TablesInv'
    BY <1>0, <1>2, <2>1 DEF IdentityDone, KernelInv, TypeInv, TablesInv
  <2>4. ListInv'
    BY <1>2 DEF IdentityDone, KernelInv, ListInv, ListAscendsFromFreeRam
  <2> QED
    BY <2>2, <2>3, <2>4 DEF KernelInv
<1>3. CASE MapKernel
  <2>1. pFreeMemoryStart' = pFreeMemoryStart
    BY <1>3 DEF MapKernel, pFreeMemoryStart, freePageListSize
  <2>2. /\ kernelPageTable' \in Seq(Nat)
        /\ Len(kernelPageTable') = Len(kernelPageTable) + 1
    BY <1>3 DEF MapKernel, KernelInv, TypeInv
  <2>3. TypeInv'
    BY <1>3, <2>2 DEF MapKernel, KernelInv, TypeInv
  <2>4. TablesInv'
    BY <1>0, <1>3, <2>1, <2>2 DEF MapKernel, KernelInv, TypeInv, TablesInv
  <2>5. ListInv'
    BY <1>3 DEF MapKernel, KernelInv, ListInv, ListAscendsFromFreeRam
  <2> QED
    BY <2>3, <2>4, <2>5 DEF KernelInv
<1>4. CASE EnablePaging
  <2>1. pFreeMemoryStart' = pFreeMemoryStart
    BY <1>4 DEF EnablePaging, pFreeMemoryStart, freePageListSize
  <2>2. TypeInv'
    BY <1>4 DEF EnablePaging, KernelInv, TypeInv
  <2>3. TablesInv'
    BY <1>0, <1>4, <2>1 DEF EnablePaging, KernelInv, TypeInv, TablesInv
  <2>4. ListInv'
    BY <1>4 DEF EnablePaging, KernelInv, ListInv, ListAscendsFromFreeRam
  <2> QED
    BY <2>2, <2>3, <2>4 DEF KernelInv
<1>5. CASE ListStep
  <2>1. TypeInv' /\ TablesInv'
    <3>1. pFreeMemoryStart' = pFreeMemoryStart
      BY <1>5 DEF ListStep, pFreeMemoryStart, freePageListSize
    <3>2. TypeInv'
      <4>1. /\ address \in Nat /\ freePageList \in Seq(Nat)
            /\ freePageList' = freePageList \/ freePageList' = Append(freePageList, address)
        BY <1>5 DEF ListStep, KernelInv, TypeInv
      <4>2. freePageList' \in Seq(Nat)
        BY <4>1
      <4>3. address' \in Nat
        BY <1>5, <4>1 DEF ListStep
      <4> QED
        BY <1>5, <4>2, <4>3 DEF ListStep, KernelInv, TypeInv
    <3>3. TablesInv'
      BY <1>0, <1>5, <3>1 DEF ListStep, KernelInv, TypeInv, TablesInv
    <3> QED
      BY <3>2, <3>3
  <2>2. CASE ~OnFreeList(address)
    <3>1. /\ UNCHANGED <<phase, freePageList, pTotalMemory>>
          /\ address' = address + PAGE_SIZE
      BY <1>5, <2>2 DEF ListStep
    <3>2. ListInv'
      BY <3>1, <1>0 DEF KernelInv, TypeInv, ListInv, ListAscendsFromFreeRam
    <3> QED
      BY <2>1, <3>2 DEF KernelInv
  <2>3. CASE OnFreeList(address)
    <3> DEFINE n == Len(freePageList)
    <3>1. /\ freePageList' = Append(freePageList, address)
          /\ address' = address + PAGE_SIZE
          /\ phase = "list" /\ phase' = "list"
          /\ pTotalMemory' = pTotalMemory /\ address < pTotalMemory
      BY <1>5, <2>3 DEF ListStep
    <3>2. /\ n \in Nat /\ freePageList \in Seq(Nat) /\ address \in Nat
          /\ freePageList = <<>> <=> n = 0
      BY DEF KernelInv, TypeInv
    <3>3. /\ Len(freePageList') = n + 1
          /\ freePageList'[n + 1] = address
          /\ \A k \in 1 .. n : freePageList'[k] = freePageList[k] /\ freePageList[k] \in Nat
      BY <3>1, <3>2
    <3>4. address >= P_START_FREE_RAM
      BY <2>3, ListedIsFreeRam DEF KernelInv
    <3>5. n # 0 => /\ freePageList[n] >= P_START_FREE_RAM + PAGE_SIZE * (n - 1)
                   /\ freePageList[n] + PAGE_SIZE <= address
      BY <3>2 DEF KernelInv, ListInv
    <3>6. address >= P_START_FREE_RAM + PAGE_SIZE * n
      <4>1. CASE n = 0
        BY <4>1, <3>2, <3>4, <1>0
      <4>2. CASE n # 0
        <5>1. freePageList[n] \in Nat
          BY <4>2, <3>2, <3>3
        <5> QED
          BY <4>2, <5>1, <3>2, <3>5, <1>0
      <4> QED
        BY <4>1, <4>2
    <3>7. ListAscendsFromFreeRam'
      <4> SUFFICES ASSUME NEW k \in 1 .. (n + 1)
                   PROVE  freePageList'[k] >= IF k = 1 THEN P_START_FREE_RAM
                                              ELSE freePageList'[k - 1] + PAGE_SIZE
        BY <3>1, <3>2, <3>3 DEF ListAscendsFromFreeRam
      <4>1. CASE k = n + 1
        BY <4>1, <3>2, <3>3, <3>4, <3>5
      <4>2. CASE k # n + 1
        <5>1. k \in 1 .. n /\ (k # 1 => k - 1 \in 1 .. n)
          BY <4>2, <3>2
        <5>2. freePageList[k] >= IF k = 1 THEN P_START_FREE_RAM
                                 ELSE freePageList[k - 1] + PAGE_SIZE
          BY <5>1, <3>2 DEF KernelInv, ListInv, ListAscendsFromFreeRam
        <5> QED
          BY <5>1, <5>2, <3>3
      <4> QED
        BY <4>1, <4>2
    <3>8. freePageList' # <<>>
      BY <3>2, <3>3
    <3>9. ListInv'
      BY <3>1, <3>2, <3>3, <3>6, <3>7, <3>8, <1>0 DEF ListInv
    <3> QED
      BY <2>1, <3>9 DEF KernelInv
  <2> QED
    BY <2>2, <2>3
<1>6. CASE ListDone
  <2>1. pFreeMemoryStart' = pFreeMemoryStart
    BY <1>6 DEF ListDone, pFreeMemoryStart, freePageListSize
  <2>2. TypeInv'
    BY <1>6 DEF ListDone, KernelInv, TypeInv
  <2>3. TablesInv'
    BY <1>0, <1>6, <2>1 DEF ListDone, KernelInv, TypeInv, TablesInv
  <2>4. ListInv'
    BY <1>6 DEF ListDone, KernelInv, ListInv, ListAscendsFromFreeRam
  <2> QED
    BY <2>2, <2>3, <2>4 DEF KernelInv
<1>7. CASE UNCHANGED vars
  BY <1>7 DEF vars, KernelInv, TypeInv, TablesInv, ListInv, ListAscendsFromFreeRam,
              pFreeMemoryStart, freePageListSize
<1> QED
  BY <1>1, <1>2, <1>3, <1>4, <1>5, <1>6, <1>7 DEF Next

(***************************************************************************)
(* The loader touches nothing of the kernel's, and the kernel's end is the *)
(* end of the image that has been loaded.                                  *)
(***************************************************************************)
LEMMA LoaderKeeps == ASSUME LoadedInv, L!LoaderNext PROVE LoadedInv'
<1>1. CASE L!ParseELFHeader
  BY <1>1 DEF LoadedInv, L!ParseELFHeader, L!machine, KernelCells
<1>2. CASE ~L!ParseELFHeader
  <2>1. UNCHANGED <<disk, loadedEnd>>
    BY <1>2 DEF L!LoaderNext, L!machine, L!buffers, L!pointers, L!result,
       L!ResetDrive, L!ReadFails, L!BootRead, L!BootSearch, L!LoadImage, L!EnableA20,
       L!LoadRootDirectory, L!FindFile, L!LoadFAT, L!LoadFATFails, L!LoadFile,
       L!MoveText, L!MoveData, L!ZeroBss, L!Turn,
       L!PrepareRunsAway
  <2> QED
    BY <2>1 DEF LoadedInv, KernelCells
<1> QED
  BY <1>1, <1>2

MapInv == LoadedInv /\ EndInv /\ KernelInv

LEMMA MapInvariance == BootSpec => []MapInv
<1>1. BootInit => MapInv
  <2> SUFFICES ASSUME BootInit PROVE MapInv
    OBVIOUS
  <2>1. LoadedInv
    BY DEF BootInit, L!LoaderInit, LoadedInv
  <2>2. TypeInv /\ EndInv
    BY DEF BootInit, TypeInv, EndInv
  <2>3. TablesInv
    BY <2>2, ConstantsAreNat DEF BootInit, TablesInv, PAGE_SIZE
  <2>4. ListInv
    BY DEF BootInit, ListInv, ListAscendsFromFreeRam
  <2> QED
    BY <2>1, <2>2, <2>3, <2>4 DEF MapInv, KernelInv
<1>2. MapInv /\ [BootNext]_<<vars, loading>> => MapInv'
  <2> SUFFICES ASSUME MapInv, [BootNext]_<<vars, loading>> PROVE MapInv'
    OBVIOUS
  <2>1. CASE Load
    <3>1. LoadedInv'
      BY <2>1, LoaderKeeps DEF Load, MapInv
    <3>2. UNCHANGED vars /\ phase = "loader"
      BY <2>1 DEF Load, vars, kernelVars
    <3>3. EndInv'
      BY <3>2 DEF MapInv, EndInv, vars
    <3>4. KernelInv'
      BY <3>2 DEF vars, MapInv, KernelInv, TypeInv, TablesInv, ListInv,
                  ListAscendsFromFreeRam, pFreeMemoryStart, freePageListSize
    <3> QED
      BY <3>1, <3>3, <3>4 DEF MapInv
  <2>2. CASE HandOver
    <3>1. /\ phase = "loader" /\ phase' = "identity"
          /\ kernelEnd' = KERNEL_PHYS_ADDR + CellSize * loadedEnd
          /\ UNCHANGED <<pTotalMemory, address, lower4MBPageTable, kernelPageTable,
                         freePageList, disk, loadedEnd>>
      BY <2>2 DEF HandOver, handed
    <3>2. LoadedInv' /\ EndInv'
      BY <3>1 DEF MapInv, LoadedInv, EndInv, KernelCells
    <3>3. TypeInv'
      BY <3>1, EndIsNat DEF MapInv, KernelInv, TypeInv
    <3>4. PICK size \in Nat : size = freePageListSize
      BY BootMemoryAssumption DEF MapInv, KernelInv, TypeInv, freePageListSize
    <3>5. TablesInv'
      <4>1. /\ lower4MBPageTable' = <<>> /\ kernelPageTable' = <<>> /\ address' = 0
            /\ phase' = "identity"
        BY <3>1 DEF MapInv, KernelInv, EndInv, TablesInv
      <4>2. Len(lower4MBPageTable') = 0
        BY <4>1
      <4>3. pFreeMemoryStart' = kernelEnd' + size
        BY <3>1, <3>4 DEF pFreeMemoryStart, freePageListSize
      <4>4. PICK end \in Nat : end = kernelEnd'
        BY <3>3, Zenon DEF TypeInv
      <4>5. PAGE_SIZE * 0 < (end + size) + PAGE_SIZE
        BY DEF PAGE_SIZE
      <4>6. address' = PAGE_SIZE * Len(lower4MBPageTable')
        BY <4>1, <4>2 DEF PAGE_SIZE
      <4> QED
        BY <4>1, <4>2, <4>3, <4>4, <4>5, <4>6 DEF TablesInv
    <3>6. ListInv'
      BY <3>1 DEF MapInv, KernelInv, ListInv, ListAscendsFromFreeRam
    <3> QED
      BY <3>2, <3>3, <3>5, <3>6 DEF MapInv, KernelInv
  <2>3. CASE Start
    <3>1. phase # "loader" /\ phase' # "loader" /\ kernelEnd' = kernelEnd
      BY <2>3 DEF Start, Next, MapIdentity, IdentityDone, MapKernel, EnablePaging,
                  ListStep, ListDone
    <3>2. LoadedInv' /\ EndInv'
      BY <2>3, <3>1 DEF Start, loading, handed, MapInv, LoadedInv, EndInv, KernelCells
    <3>3. KernelInv'
      BY <2>3, <3>1, EndIsNat, KernelStep DEF Start, MapInv, EndInv
    <3> QED
      BY <3>2, <3>3 DEF MapInv
  <2>4. CASE UNCHANGED <<vars, loading>>
    BY <2>4 DEF vars, loading, handed, MapInv, LoadedInv, EndInv, KernelCells,
                KernelInv, TypeInv, TablesInv, ListInv, ListAscendsFromFreeRam,
                pFreeMemoryStart, freePageListSize
  <2> QED
    BY <2>1, <2>2, <2>3, <2>4 DEF BootNext
<1> QED
  BY <1>1, <1>2, PTL DEF BootSpec

(***************************************************************************)
(* Whatever the amount of RAM, a multiple of a page or not, and wherever   *)
(* the kernel ends, the list stays in the bytes reserved for it.           *)
(***************************************************************************)
THEOREM ListFitsItsAreaTheorem == BootSpec => []ListFitsItsArea
<1>1. MapInv => ListFitsItsArea
  <2> SUFFICES ASSUME MapInv PROVE ListFitsItsArea
    OBVIOUS
  <2> DEFINE n == Len(freePageList)
  <2>1. /\ pTotalMemory \in Nat /\ n \in Nat
        /\ freePageList = <<>> <=> n = 0
    BY ConstantsAreNat DEF MapInv, KernelInv, TypeInv
  <2>2. CASE n = 0
    BY <2>1, <2>2 DEF ListFitsItsArea, freePageListSize
  <2>3. CASE n # 0
    <3>1. freePageList[n] \in Nat
      BY <2>1, <2>3 DEF MapInv, KernelInv, TypeInv
    <3>2. /\ freePageList[n] >= P_START_FREE_RAM + PAGE_SIZE * (n - 1)
          /\ freePageList[n] < pTotalMemory
      BY <2>1, <2>3 DEF MapInv, KernelInv, ListInv
    <3>3. 4096 * n < pTotalMemory
      BY <3>1, <3>2, <2>1 DEF P_START_FREE_RAM, PAGE_SIZE, KB
    <3> QED
      BY <3>3, <2>1 DEF ListFitsItsArea, freePageListSize
  <2> QED
    BY <2>2, <2>3
<1> QED
  BY <1>1, MapInvariance, PTL

(***************************************************************************)
(* No page is listed twice and none below P_START_FREE_RAM.                *)
(***************************************************************************)
THEOREM ListAscendsTheorem == BootSpec => []ListAscendsFromFreeRam
BY MapInvariance, PTL DEF MapInv, KernelInv, ListInv

(***************************************************************************)
(* If the kernel and the list of a machine fit one page table, 4 MB, they  *)
(* are mapped when the list is written, and no table is overrun.           *)
(***************************************************************************)
THEOREM KernelReachableTheorem ==
    ASSUME \A d \in Disks, total \in Totals :
               KERNEL_PHYS_ADDR + CellSize * KernelCells(d) + total \div 1024
                  <= PAGE_SIZE * PTE_PER_PT
    PROVE  BootSpec => []KernelReachable
<1>1. MapInv => KernelReachable
  <2> SUFFICES ASSUME MapInv, phase \in {"list", "done"} PROVE KernelReachable
    BY DEF KernelReachable
  <2>1. pFreeMemoryStart \in Nat /\ pFreeMemoryStart <= PAGE_SIZE * PTE_PER_PT
    <3>1. /\ pTotalMemory \in Totals /\ disk \in Disks
          /\ kernelEnd = KERNEL_PHYS_ADDR + CellSize * loadedEnd
      BY DEF MapInv, KernelInv, TypeInv, EndInv, LoadedInv
    <3>2. PICK size \in Nat : size = CellSize * KernelCells(disk)
      <4>1. CellSize \in Nat /\ KernelCells(disk) \in Nat
        BY <3>1, CellsAreNat, BootAssumption
      <4>2. \A m, n \in Nat : m * n \in Nat
        OBVIOUS
      <4> QED
        BY <4>1, <4>2, Zenon
    <3>3. CellSize * loadedEnd = 0 \/ CellSize * loadedEnd = size
      BY <3>2, BootAssumption DEF MapInv, LoadedInv
    <3>4. KERNEL_PHYS_ADDR + size + pTotalMemory \div 1024 <= PAGE_SIZE * PTE_PER_PT
      BY <3>1, <3>2
    <3>5. pTotalMemory \in Nat
      BY <3>1, BootMemoryAssumption
    <3> QED
      BY <3>1, <3>2, <3>3, <3>4, <3>5
         DEF pFreeMemoryStart, freePageListSize, KERNEL_PHYS_ADDR, KB, PAGE_SIZE, PTE_PER_PT
  <2>2. Len(lower4MBPageTable) \in Nat /\ Len(kernelPageTable) \in Nat
    BY DEF MapInv, KernelInv, TypeInv
  <2> QED
    BY <2>1, <2>2 DEF MapInv, KernelInv, TablesInv, KernelReachable, PAGE_SIZE, PTE_PER_PT,
                      KERNEL_PHYS_ADDR, KB
<1> QED
  BY <1>1, MapInvariance, PTL

-----------------------------------------------------------------------------
(* The images the loader reads and lays out. *)

(***************************************************************************)
(* What the FAT says of the k-th cluster of a chain.                       *)
(***************************************************************************)
Next12(chain, k) == IF k = Len(chain) THEN disk.end ELSE chain[k + 1]

LEMMA LinkOfChain ==
    ASSUME NEW chain, Chain(chain), NEW k \in DOMAIN chain
    PROVE  /\ L!Position(chain, chain[k]) = k
           /\ L!Link(chain, chain[k]) = Next12(chain, k)
<1>1. \A j \in DOMAIN chain : chain[j] = chain[k] => j = k
  BY DEF Chain
<1>2. L!Position(chain, chain[k]) = k
  BY <1>1, Zenon DEF L!Position
<1> QED
  BY <1>2, Zenon DEF L!Link, Next12

LEMMA FatOfChain ==
    ASSUME InOrder(disk), NEW chain \in {disk.loader, disk.kernel},
           NEW k \in DOMAIN chain
    PROVE  L!Fat(chain[k]) = Next12(chain, k)
<1> DEFINE c == chain[k]
           of == {s \in L!Chains : L!Contains(s, c)}
<1>1. Chain(chain) /\ Chain(disk.loader) /\ Chain(disk.kernel) /\ Chain(disk.other)
  BY DEF InOrder
<1>2. \A s \in L!Chains : s \in Seq(Clusters) /\ DOMAIN s = 1 .. Len(s)
  BY <1>1 DEF L!Chains, Chain
<1>3. chain \in of
  BY <1>2 DEF L!Chains, L!Contains
<1>4. \A s \in L!Chains : L!Contains(s, c) => s = chain
  <2> SUFFICES ASSUME NEW s \in L!Chains, NEW j \in DOMAIN s, s[j] = chain[k]
               PROVE  s = chain
    BY <1>2 DEF L!Contains
  <2> QED
    BY DEF L!Chains, InOrder, Apart
<1>5. of = {chain}
  BY <1>3, <1>4
<1>6. (CHOOSE s \in of : TRUE) = chain
  BY <1>5
<1>7. L!Fat(c) = L!Link(chain, c)
  BY <1>5, <1>6 DEF L!Fat
<1> QED
  BY <1>1, <1>7, LinkOfChain

LEMMA FatIs12Bits ==
    ASSUME InOrder(disk), NEW c
    PROVE  L!Fat(c) \in 0 .. 4095
<1> DEFINE of == {s \in L!Chains : L!Contains(s, c)}
<1>1. CASE of = {}
  BY <1>1 DEF L!Fat
<1>2. CASE of # {}
  <2>1. PICK s \in of : s = CHOOSE chain \in of : TRUE
    BY <1>2
  <2>2. L!Fat(c) = L!Link(s, c)
    BY <1>2, <2>1, Zenon DEF L!Fat
  <2>3. Chain(s) /\ L!Contains(s, c)
    <3>1. s \in L!Chains /\ L!Contains(s, c)
      BY <2>1, Zenon
    <3> QED
      BY <3>1 DEF L!Chains, InOrder
  <2>4. PICK k \in DOMAIN s : s[k] = c
    BY <2>3 DEF L!Contains, Chain
  <2>5. L!Link(s, c) = Next12(s, k)
    BY <2>3, <2>4, LinkOfChain
  <2>6. k \in 1 .. Len(s) /\ s \in Seq(Clusters) /\ Len(s) \in Nat
    BY <2>3, <2>4 DEF Chain
  <2>7. k # Len(s) => s[k + 1] \in 2 .. 257
    <3>1. k # Len(s) => k + 1 \in 1 .. Len(s)
      BY <2>6
    <3>2. \A j \in 1 .. Len(s) : s[j] \in Clusters
      BY <2>6
    <3> QED
      BY <3>1, <3>2 DEF Clusters
  <2>8. disk.end \in 0 .. 4095
    BY DEF InOrder, L!FAT_END_OF_CLUSTER
  <2> QED
    BY <2>2, <2>5, <2>7, <2>8 DEF Next12
<1> QED
  BY <1>1, <1>2

(***************************************************************************)
(* The FAT packs two numbers into three bytes: of the word at byte 3c/2    *)
(* the loader takes the twelve bits of c.                                  *)
(***************************************************************************)
LEMMA NibblesOf ==
    ASSUME InOrder(disk), NEW q \in Nat
    PROVE  /\ L!Nibble(3 * q) + 16 * L!Nibble(3 * q + 1) + 256 * L!Nibble(3 * q + 2)
                = L!Fat(q)
           /\ L!Nibble(3 * q) \in 0 .. 15
           /\ L!Nibble(3 * q + 1) \in 0 .. 15
           /\ L!Nibble(3 * q + 2) \in 0 .. 15
<1> DEFINE Scale(n) == <<1, 16, 256>>[n]
           f == L!Fat(q)
<1>0. Scale(1) = 1 /\ Scale(2) = 16 /\ Scale(3) = 256
  OBVIOUS
<1>1. \A n : L!Nibble(n) = (L!Fat(n \div 3) \div Scale((n % 3) + 1)) % 16
  BY DEF L!Nibble
<1>2. f \in 0 .. 4095
  BY FatIs12Bits
<1> HIDE DEF Scale
<1>3. L!Nibble(3 * q) = (f \div 1) % 16
  <2>1. (3 * q) \div 3 = q /\ ((3 * q) % 3) + 1 = 1
    OBVIOUS
  <2> QED
    BY <1>0, <1>1, <2>1
<1>4. L!Nibble(3 * q + 1) = (f \div 16) % 16
  <2>1. (3 * q + 1) \div 3 = q /\ ((3 * q + 1) % 3) + 1 = 2
    OBVIOUS
  <2> QED
    BY <1>0, <1>1, <2>1
<1>5. L!Nibble(3 * q + 2) = (f \div 256) % 16
  <2>1. (3 * q + 2) \div 3 = q /\ ((3 * q + 2) % 3) + 1 = 3
    OBVIOUS
  <2> QED
    BY <1>0, <1>1, <2>1
<1> HIDE DEF f
<1>6. f \div 1 = f
  BY <1>2
<1> DEFINE g == f \div 16
           h == f \div 256
<1>7. g \in Nat /\ f % 16 \in 0 .. 15 /\ f = 16 * g + (f % 16)
  BY <1>2
<1>8. h \in 0 .. 15 /\ h = g \div 16
  <2>1. h \in 0 .. 15
    BY <1>2
  <2>2. h = g \div 16
    BY <1>2
  <2> QED
    BY <2>1, <2>2
<1> HIDE DEF g, h
<1>9. g % 16 \in 0 .. 15 /\ g = 16 * h + (g % 16) /\ h % 16 = h
  BY <1>7, <1>8
<1>10. /\ L!Nibble(3 * q) = f % 16
       /\ L!Nibble(3 * q + 1) = g % 16
       /\ L!Nibble(3 * q + 2) = h % 16
  BY <1>3, <1>4, <1>5, <1>6 DEF g, h
<1>11. (f % 16) + 16 * (g % 16) + 256 * (h % 16) = f
  BY <1>2, <1>7, <1>8, <1>9
<1> QED
  BY <1>7, <1>8, <1>9, <1>10, <1>11 DEF f

LEMMA FatEntryIsFat ==
    ASSUME InOrder(disk), NEW c \in Nat
    PROVE  L!FatEntry(c) = L!Fat(c)
<1> DEFINE m == c \div 2
           x == L!Nibble(3 * c)
           y == L!Nibble(3 * c + 1)
           z == L!Nibble(3 * c + 2)
<1>1. m \in Nat /\ c % 2 \in 0 .. 1 /\ c = 2 * m + (c % 2)
  OBVIOUS
<1>2. /\ x \in 0 .. 15 /\ y \in 0 .. 15 /\ z \in 0 .. 15
      /\ x + 16 * y + 256 * z = L!Fat(c)
  BY NibblesOf
<1> HIDE DEF m, x, y, z
<1>3. CASE c % 2 = 0
  <2> DEFINE w == L!Nibble(3 * (c + 1))
  <2>1. w \in 0 .. 15
    <3>1. c + 1 \in Nat
      OBVIOUS
    <3> QED
      BY <3>1, NibblesOf, Zenon
  <2>2. /\ (3 * c) \div 2 = 3 * m
        /\ 2 * (3 * m) = 3 * c
        /\ 2 * (3 * m) + 1 = 3 * c + 1
        /\ 2 * (3 * m) + 2 = 3 * c + 2
        /\ 2 * (3 * m) + 3 = 3 * (c + 1)
    BY <1>1, <1>3
  <2> HIDE DEF w
  <2>3. L!Word(3 * m) = x + 16 * y + 256 * z + 4096 * w
    BY <2>2 DEF L!Word, w, x, y, z
  <2>4. (x + 16 * y + 256 * z + 4096 * w) % 4096 = x + 16 * y + 256 * z
    BY <1>2, <2>1
  <2>5. L!FatEntry(c) = L!Word(3 * m) % 4096
    BY <1>3, <2>2 DEF L!FatEntry
  <2> QED
    BY <1>2, <2>3, <2>4, <2>5
<1>4. CASE c % 2 = 1
  <2> DEFINE w == L!Nibble(3 * (c - 1) + 2)
  <2>1. w \in 0 .. 15
    <3>1. c - 1 \in Nat
      BY <1>1, <1>4
    <3> QED
      BY <3>1, NibblesOf, Zenon
  <2>2. /\ (3 * c) \div 2 = 3 * m + 1
        /\ 2 * (3 * m + 1) = 3 * (c - 1) + 2
        /\ 2 * (3 * m + 1) + 1 = 3 * c
        /\ 2 * (3 * m + 1) + 2 = 3 * c + 1
        /\ 2 * (3 * m + 1) + 3 = 3 * c + 2
    BY <1>1, <1>4
  <2> HIDE DEF w
  <2>3. L!Word(3 * m + 1) = w + 16 * x + 256 * y + 4096 * z
    BY <2>2 DEF L!Word, w, x, y, z
  <2>4. (w + 16 * x + 256 * y + 4096 * z) \div 16 = x + 16 * y + 256 * z
    BY <1>2, <2>1
  <2>5. L!FatEntry(c) = L!Word(3 * m + 1) \div 16
    BY <1>4, <2>2 DEF L!FatEntry
  <2> QED
    BY <1>2, <2>3, <2>4, <2>5
<1> QED
  BY <1>1, <1>3, <1>4

-----------------------------------------------------------------------------
(* What is in the clusters and in the kernel's file. *)

LEMMA ReadOfChain ==
    ASSUME InOrder(disk)
    PROVE  /\ \A k \in DOMAIN disk.loader :
                  L!ReadCluster(disk.loader[k]) = <<"loader", k>>
           /\ \A k \in DOMAIN disk.kernel :
                  L!ReadCluster(disk.kernel[k]) = L!KernelFile(disk)[k]
<1>1. Chain(disk.loader) /\ Chain(disk.kernel) /\ Apart(disk.loader, disk.kernel)
  BY DEF InOrder
<1>2. \A c \in Clusters : L!ReadCluster(c) = L!Data(c)
  <2> SUFFICES ASSUME NEW c \in Clusters PROVE ((c - 2) % 256) + 2 = c
    BY DEF L!ReadCluster, L!BYTE
  <2> QED
    BY DEF Clusters
<1>3. ASSUME NEW s, Chain(s), NEW k \in DOMAIN s
      PROVE  s[k] \in Clusters /\ L!Contains(s, s[k])
  BY <1>3 DEF Chain, L!Contains
<1>4. ASSUME NEW k \in DOMAIN disk.loader
      PROVE  L!ReadCluster(disk.loader[k]) = <<"loader", k>>
  <2>1. L!Contains(disk.loader, disk.loader[k]) /\ disk.loader[k] \in Clusters
    BY <1>1, <1>3
  <2>2. L!Position(disk.loader, disk.loader[k]) = k
    BY <1>1, LinkOfChain
  <2>3. ~L!Contains(disk.kernel, disk.loader[k])
    BY <1>1 DEF Chain, Apart, L!Contains
  <2>4. L!Data(disk.loader[k]) = <<"loader", L!Position(disk.loader, disk.loader[k])>>
    BY <2>1, <2>3 DEF L!Data
  <2> QED
    BY <1>2, <2>1, <2>2, <2>4, Zenon
<1>5. ASSUME NEW k \in DOMAIN disk.kernel
      PROVE  L!ReadCluster(disk.kernel[k]) = L!KernelFile(disk)[k]
  <2>1. L!Contains(disk.kernel, disk.kernel[k]) /\ disk.kernel[k] \in Clusters
    BY <1>1, <1>3
  <2>2. L!Position(disk.kernel, disk.kernel[k]) = k
    BY <1>1, LinkOfChain
  <2>3. ~L!Contains(disk.loader, disk.kernel[k])
    BY <1>1 DEF Chain, Apart, L!Contains
  <2>4. L!Data(disk.kernel[k]) = L!KernelFile(disk)[k]
    BY <2>1, <2>2, <2>3 DEF L!Data
  <2> QED
    BY <1>2, <2>1, <2>4
<1> QED
  BY <1>4, <1>5

Cell == {"header", "text", "data", "zero"} \X Nat

LEMMA Concatenated ==
    ASSUME NEW s \in Seq(Cell), NEW t \in Seq(Cell)
    PROVE  /\ s \o t \in Seq(Cell) /\ Len(s \o t) = Len(s) + Len(t)
           /\ \A j \in 1 .. Len(s) : (s \o t)[j] = s[j]
           /\ \A j \in 1 .. Len(t) : (s \o t)[Len(s) + j] = t[j]
<1>1. \A j \in 1 .. Len(s) : j \in 1 .. (Len(s) + Len(t)) /\ j <= Len(s)
  OBVIOUS
<1>2. \A j \in 1 .. Len(t) : /\ Len(s) + j \in 1 .. (Len(s) + Len(t))
                             /\ ~(Len(s) + j <= Len(s)) /\ (Len(s) + j) - Len(s) = j
  OBVIOUS
<1> QED
  BY <1>1, <1>2, ConcatProperties

LEMMA NamedCells ==
    ASSUME NEW w \in {"text", "data"}, NEW n \in Nat
    PROVE  /\ L!Named(w, n) \in Seq(Cell) /\ Len(L!Named(w, n)) = n
           /\ \A j \in 1 .. n : L!Named(w, n)[j] = <<w, j>>
<1>1. \A j \in 1 .. n : <<w, j>> \in Cell
  BY DEF Cell
<1>2. L!Named(w, n) \in [1 .. n -> Cell]
  BY <1>1 DEF L!Named
<1>3. \A j \in 1 .. n : L!Named(w, n)[j] = <<w, j>>
  BY DEF L!Named
<1> QED
  BY <1>2, <1>3

LEMMA KernelFileCells ==
    ASSUME NEW d \in Disks
    PROVE  /\ L!KernelFile(d) \in Seq(Cell)
           /\ Len(L!KernelFile(d)) = 1 + d.layout.text + d.layout.data
           /\ L!KernelFile(d)[1] = <<"header", 0>>
           /\ \A j \in 1 .. d.layout.text : L!KernelFile(d)[1 + j] = <<"text", j>>
           /\ \A j \in 1 .. d.layout.data :
                  L!KernelFile(d)[1 + d.layout.text + j] = <<"data", j>>
<1> DEFINE t == d.layout.text
           a == d.layout.data
           T == L!Named("text", t)
           D == L!Named("data", a)
           H == <<<<"header", 0>>>>
<1>1. t \in Nat /\ a \in Nat
  BY BootAssumption
<1>2. /\ T \in Seq(Cell) /\ Len(T) = t /\ \A j \in 1 .. t : T[j] = <<"text", j>>
      /\ D \in Seq(Cell) /\ Len(D) = a /\ \A j \in 1 .. a : D[j] = <<"data", j>>
  BY <1>1, NamedCells
<1>3. H \in Seq(Cell) /\ Len(H) = 1 /\ H[1] = <<"header", 0>>
  <2>1. <<"header", 0>> \in Cell
    BY DEF Cell
  <2> QED
    BY <2>1
<1> HIDE DEF T, D, H
<1>4. PICK HT \in Seq(Cell) : HT = H \o T
  BY <1>2, <1>3, ConcatProperties
<1>5. /\ Len(HT) = 1 + t /\ HT[1] = <<"header", 0>>
      /\ \A j \in 1 .. t : HT[1 + j] = <<"text", j>>
  <2>1. /\ Len(HT) = Len(H) + Len(T)
        /\ \A j \in 1 .. Len(H) : HT[j] = H[j]
        /\ \A j \in 1 .. Len(T) : HT[Len(H) + j] = T[j]
    BY <1>2, <1>3, <1>4, Concatenated, Zenon
  <2>2. 1 \in 1 .. Len(H) /\ Len(HT) = 1 + t
    BY <1>2, <1>3, <2>1
  <2>3. ASSUME NEW j \in 1 .. t PROVE HT[1 + j] = <<"text", j>>
    BY <1>2, <1>3, <2>1, Zenon
  <2> QED
    BY <1>3, <2>1, <2>2, <2>3, Zenon
<1>6. PICK F \in Seq(Cell) : F = HT \o D
  BY <1>2, ConcatProperties
<1>7. /\ Len(F) = 1 + t + a
      /\ \A j \in 1 .. (1 + t) : F[j] = HT[j]
      /\ \A j \in 1 .. a : F[1 + t + j] = <<"data", j>>
  <2>1. /\ Len(F) = Len(HT) + Len(D)
        /\ \A j \in 1 .. Len(HT) : F[j] = HT[j]
        /\ \A j \in 1 .. Len(D) : F[Len(HT) + j] = D[j]
    BY <1>2, <1>6, Concatenated, Zenon
  <2> QED
    BY <1>2, <1>5, <2>1
<1>8. F[1] = <<"header", 0>> /\ \A j \in 1 .. t : F[1 + j] = <<"text", j>>
  <2>1. 1 \in 1 .. (1 + t) /\ \A j \in 1 .. t : 1 + j \in 1 .. (1 + t)
    BY <1>1
  <2> QED
    BY <1>5, <1>7, <2>1
<1>9. L!KernelFile(d) = F
  BY <1>4, <1>6, Zenon DEF L!KernelFile, H, T, D
<1> QED
  BY <1>7, <1>8, <1>9

-----------------------------------------------------------------------------
(***************************************************************************)
(* The loader in memory: as many clusters as have been read, in the order  *)
(* of the chain, of which cluster is the next.                             *)
(***************************************************************************)
LoaderRead == {"a20", "loader_reset", "loader_root", "find", "loader_fat", "file",
               "parse", "prepare", "data", "bss", "kernel"}

LoaderInv ==
    /\ stage \in {"reset", "root", "search", "fat"} => loaded = <<>>
    /\ stage = "fat" => cluster = disk.loader[1]
    /\ stage = "image" =>
         \E n \in 0 .. (Len(disk.loader) - 1) :
            loaded = L!Named("loader", n) /\ cluster = disk.loader[n + 1]
    /\ stage \in LoaderRead => loaded = L!Named("loader", Len(disk.loader))

(***************************************************************************)
(* The kernel in memory: n clusters of its file, and then what is left of  *)
(* the file when cells of text, data and bss are in their places.          *)
(***************************************************************************)
Cleared == {"reset", "root", "search", "fat", "image", "a20", "loader_reset",
            "loader_root", "find", "loader_fat"}
Laying == {"prepare", "data", "bss"}
LaidOut == {"kernel", "entered"}

InFile(d, n, k) == IF k < n THEN L!KernelFile(d)[k + 1] ELSE L!Nothing
FileRead(d, n) == [k \in 0 .. (RamSize - 1) |-> InFile(d, n, k)]
Placed(d, text, data, bss) ==
    [k \in 0 .. (RamSize - 1) |->
        IF k < text THEN <<"text", k + 1>>
        ELSE IF k < text + data THEN <<"data", (k - text) + 1>>
        ELSE IF k < text + data + bss THEN <<"zero", 0>>
        ELSE InFile(d, Len(d.kernel), k)]

RamInv ==
    /\ stage \in Cleared => ram = FileRead(disk, 0)
    /\ stage \in (Cleared \ {"root", "fat"}) \cup {"file", "parse"} => count = 0
    /\ stage = "loader_fat" => NextCluster = disk.kernel[1]
    /\ stage = "file" =>
         /\ MemoryPointer \in 0 .. (Len(disk.kernel) - 1)
         /\ NextCluster = disk.kernel[MemoryPointer + 1]
         /\ ram = FileRead(disk, MemoryPointer)
    /\ stage = "parse" =>
         /\ MemoryPointer = Len(disk.kernel)
         /\ ram = FileRead(disk, MemoryPointer)
    /\ stage \in Laying => count \in Nat /\ (count # 0 => count < L!Cells[stage])
    /\ stage = "prepare" => ram = Placed(disk, count, 0, 0)
    /\ stage = "data" => ram = Placed(disk, disk.layout.text, count, 0)
    /\ stage = "bss" => ram = Placed(disk, disk.layout.text, disk.layout.data, count)
    /\ stage \in LaidOut =>
         /\ ram = Placed(disk, disk.layout.text, disk.layout.data, disk.layout.bss)
         /\ disk.layout.bss # 0
    /\ stage \in Laying \cup LaidOut => loadedEnd = KernelCells(disk)

LEMMA NextOfChain ==
    ASSUME InOrder(disk), NEW chain \in {disk.loader, disk.kernel}, NEW k \in DOMAIN chain
    PROVE  /\ L!FatEntry(chain[k]) = Next12(chain, k)
           /\ k = Len(chain) => Next12(chain, k) \in L!FAT_END_OF_CLUSTER .. 4095
           /\ k # Len(chain) => /\ k + 1 \in DOMAIN chain
                                /\ Next12(chain, k) = chain[k + 1]
                                /\ chain[k + 1] \in Clusters
<1>1. chain \in Seq(Clusters) /\ k \in 1 .. Len(chain)
  BY DEF InOrder, Chain
<1>2. chain[k] \in Nat
  <2>1. chain[k] \in Clusters
    BY <1>1
  <2> QED
    BY <2>1 DEF Clusters
<1>3. L!FatEntry(chain[k]) = Next12(chain, k)
  BY <1>2, FatEntryIsFat, FatOfChain
<1>4. k # Len(chain) => k + 1 \in 1 .. Len(chain)
  BY <1>1
<1> QED
  BY <1>1, <1>3, <1>4 DEF Next12, InOrder

LEMMA MinIsIn ==
    ASSUME NEW S \in SUBSET Nat, S # {}
    PROVE  L!Min(S) \in S
<1>1. PICK x \in S : \A y \in S : ~(<<y, x>> \in OpToRel(<, Nat))
  BY NatLessThanWellFounded, WFMin, Zenon
<1>2. ASSUME NEW y \in S PROVE x <= y
  <2>1. ~(<<y, x>> \in OpToRel(<, Nat))
    BY <1>1, Zenon
  <2>2. ~(<<y, x>> \in {ss \in Nat \X Nat : ss[1] < ss[2]})
    BY <2>1, Zenon DEF OpToRel
  <2>3. x \in Nat /\ y \in Nat
    OBVIOUS
  <2>4. <<y, x>> \in Nat \X Nat /\ <<y, x>>[1] = y /\ <<y, x>>[2] = x
    BY <2>3
  <2>5. ~(y < x)
    BY <2>2, <2>4
  <2> QED
    BY <2>3, <2>5
<1> QED
  BY <1>2, Zenon DEF L!Min

\* The first entry that matches is one that matches.
LEMMA FirstMatch ==
    ASSUME InOrder(disk), NEW S \in SUBSET DOMAIN disk.root, S # {}
    PROVE  L!Min(S) \in S
<1>1. DOMAIN disk.root = 1 .. Len(disk.root) /\ Len(disk.root) \in Nat
  BY DEF InOrder
<1>2. S \in SUBSET Nat
  BY <1>1
<1> QED
  BY <1>2, MinIsIn

LEMMA LoaderStepKeeps ==
    ASSUME InOrder(disk), LoaderInv, L!LoaderNext
    PROVE  LoaderInv'
<1> USE DEF L!machine
<1>1. CASE L!BootRead
  <2>1. /\ UNCHANGED <<disk, loaded, cluster>>
        /\ \/ stage = "root" /\ stage' \in {"root", "search"}
           \/ stage = "fat" /\ stage' \in {"fat", "image"}
    BY <1>1 DEF L!BootRead, L!Read, L!buffers
  <2>2. CASE stage' = "image"
    <3>1. loaded' = L!Named("loader", 0)
      BY <2>1, <2>2 DEF LoaderInv, L!Named
    <3>2. 0 \in 0 .. (Len(disk.loader) - 1) /\ 0 + 1 = 1
      BY DEF InOrder, Chain
    <3> QED
      BY <2>1, <2>2, <3>1, <3>2 DEF LoaderInv, LoaderRead
  <2>3. CASE stage' # "image"
    BY <2>1, <2>3 DEF LoaderInv, LoaderRead
  <2> QED
    BY <2>2, <2>3
<1>2. CASE L!BootSearch
  <2>1. /\ UNCHANGED <<disk, loaded>> /\ stage = "search"
        /\ stage' = "halted" \/ (stage' = "fat" /\ cluster' = disk.loader[1])
    <3> DEFINE found == {k \in DOMAIN disk.root : L!Matches(disk.root[k], "KLOADER")}
    <3>1. \A k \in found : disk.root[k].first = disk.loader[1]
      BY DEF InOrder
    <3>2. CASE found = {}
      BY <1>2, <3>2 DEF L!BootSearch, L!Halt, L!buffers
    <3>3. CASE found # {}
      <4>1. L!Min(found) \in found
        BY <3>3, FirstMatch
      <4> QED
        BY <1>2, <3>1, <3>3, <4>1 DEF L!BootSearch, L!buffers
    <3> QED
      BY <3>2, <3>3
  <2> QED
    BY <2>1 DEF LoaderInv, LoaderRead
<1>3. CASE L!LoadImage
  <2>1. /\ stage = "image" /\ UNCHANGED disk
        /\ loaded' = Append(loaded, L!ReadCluster(cluster))
        /\ cluster' = L!FatEntry(cluster)
        /\ stage' = IF cluster' < 4080 THEN "image" ELSE "a20"
    BY <1>3 DEF L!LoadImage, L!Read
  <2>2. PICK n \in 0 .. (Len(disk.loader) - 1) :
          loaded = L!Named("loader", n) /\ cluster = disk.loader[n + 1]
    BY <2>1 DEF LoaderInv
  <2>3. n + 1 \in DOMAIN disk.loader /\ n \in Nat /\ Len(disk.loader) \in Nat
    BY DEF InOrder, Chain
  <2>4. loaded' = L!Named("loader", n + 1)
    <3>1. L!ReadCluster(cluster) = <<"loader", n + 1>>
      BY <2>2, <2>3, ReadOfChain
    <3>2. Append(L!Named("loader", n), <<"loader", n + 1>>) = L!Named("loader", n + 1)
      <4>1. /\ L!Named("loader", n) \in Seq({"loader"} \X Nat)
            /\ Len(L!Named("loader", n)) = n
        BY <2>3 DEF L!Named
      <4> QED
        BY <2>3, <4>1 DEF L!Named
    <3> QED
      BY <2>1, <2>2, <3>1, <3>2
  <2>5. cluster' = Next12(disk.loader, n + 1)
    BY <2>1, <2>2, <2>3, NextOfChain
  <2>6. CASE n + 1 = Len(disk.loader)
    <3>1. stage' = "a20"
      <4>1. cluster' \in L!FAT_END_OF_CLUSTER .. 4095
        BY <2>3, <2>5, <2>6, NextOfChain
      <4>2. \A c \in L!FAT_END_OF_CLUSTER .. 4095 : ~(c < 4080)
        BY DEF L!FAT_END_OF_CLUSTER
      <4>3. PICK c : c = cluster'
        OBVIOUS
      <4>4. ~(c < 4080)
        BY <4>1, <4>2, <4>3
      <4> QED
        BY <2>1, <4>3, <4>4
    <3> QED
      BY <2>1, <2>4, <2>6, <3>1 DEF LoaderInv, LoaderRead
  <2>7. CASE n + 1 # Len(disk.loader)
    <3>1. stage' = "image" /\ cluster' = disk.loader[(n + 1) + 1]
      <4>1. cluster' \in Clusters /\ cluster' = disk.loader[(n + 1) + 1]
        BY <2>3, <2>5, <2>7, NextOfChain
      <4>2. \A c \in Clusters : c < 4080
        BY DEF Clusters
      <4>3. PICK c : c = cluster'
        OBVIOUS
      <4>4. c < 4080
        BY <4>1, <4>2, <4>3
      <4> QED
        BY <2>1, <4>1, <4>3, <4>4
    <3>2. n + 1 \in 0 .. (Len(disk.loader) - 1)
      BY <2>3, <2>7
    <3> QED
      BY <2>1, <2>4, <3>1, <3>2 DEF LoaderInv, LoaderRead
  <2> QED
    BY <2>6, <2>7
<1>4. CASE ~L!BootRead /\ ~L!BootSearch /\ ~L!LoadImage
  <2>1. /\ UNCHANGED <<disk, loaded, cluster>>
        /\ \/ stage' \in {stage, "halted"}
           \/ stage = "reset" /\ stage' = "root"
           \/ stage \in LoaderRead /\ stage' \in LoaderRead
    <3> USE DEF L!buffers, L!pointers, L!result, L!Read, L!Halt, L!GiveUp, LoaderRead
    <3>1. CASE L!ResetDrive
      BY <3>1 DEF L!ResetDrive
    <3>2. CASE L!ReadFails
      BY <3>2 DEF L!ReadFails
    <3>3. CASE L!EnableA20
      BY <3>3 DEF L!EnableA20
    <3>4. CASE L!LoadRootDirectory
      BY <3>4 DEF L!LoadRootDirectory
    <3>5. CASE L!FindFile
      BY <3>5 DEF L!FindFile
    <3>6. CASE L!LoadFAT \/ L!LoadFATFails
      BY <3>6 DEF L!LoadFAT, L!LoadFATFails
    <3>7. CASE L!LoadFile
      BY <3>7 DEF L!LoadFile
    <3>8. CASE L!ParseELFHeader
      BY <3>8 DEF L!ParseELFHeader
    <3>9. CASE L!MoveText \/ L!MoveData \/ L!ZeroBss
      BY <3>9 DEF L!MoveText, L!MoveData, L!ZeroBss, L!Turn
    <3>10. CASE L!PrepareRunsAway
      BY <3>10 DEF L!PrepareRunsAway
    <3> QED
      BY <1>4, <3>1, <3>2, <3>3, <3>4, <3>5, <3>6, <3>7, <3>8, <3>9, <3>10 DEF L!LoaderNext
  <2> QED
    BY <2>1 DEF LoaderInv, LoaderRead
<1> QED
  BY <1>1, <1>2, <1>3, <1>4

(***************************************************************************)
(* One more cell, of the file or of its place in memory.                   *)
(***************************************************************************)
USE BootAssumption

IsRam(f) == f = [k \in 0 .. (RamSize - 1) |-> f[k]]
Write(f, c, v) == [f EXCEPT ![c] = v]

LEMMA WriteCell ==
    ASSUME NEW f, NEW g, NEW c \in 0 .. (RamSize - 1), IsRam(f), IsRam(g),
           \A k \in 0 .. (RamSize - 1) : k # c => f[k] = g[k]
    PROVE  Write(f, c, g[c]) = g
<1> DEFINE D == 0 .. (RamSize - 1)
           h == [f EXCEPT ![c] = g[c]]
<1>1. h = [k \in D |-> h[k]]
  BY DEF IsRam
<1>2. \A k \in D : h[k] = g[k]
  BY DEF IsRam
<1>3. g = [k \in D |-> g[k]]
  BY DEF IsRam
<1> HIDE DEF h, D
<1>4. [k \in D |-> h[k]] = [k \in D |-> g[k]]
  BY <1>2, Zenon
<1>5. h = g
  BY <1>1, <1>3, <1>4, Zenon
<1> QED
  BY <1>5, Zenon DEF h, Write

LEMMA CellsAreRam ==
    ASSUME NEW d, NEW x, NEW y, NEW z
    PROVE  IsRam(FileRead(d, x)) /\ IsRam(Placed(d, x, y, z))
BY DEF IsRam, FileRead, Placed

LEMMA FileCell ==
    ASSUME NEW d, NEW c \in 0 .. (RamSize - 1)
    PROVE  Write(FileRead(d, c), c, L!KernelFile(d)[c + 1]) = FileRead(d, c + 1)
<1>1. FileRead(d, c + 1)[c] = L!KernelFile(d)[c + 1]
  BY DEF FileRead, InFile
<1>2. \A k \in 0 .. (RamSize - 1) : k # c => FileRead(d, c)[k] = FileRead(d, c + 1)[k]
  BY DEF FileRead, InFile
<1>3. Write(FileRead(d, c), c, FileRead(d, c + 1)[c]) = FileRead(d, c + 1)
  BY <1>2, CellsAreRam, WriteCell, Zenon
<1> QED
  BY <1>1, <1>3, Zenon

LEMMA TextCell ==
    ASSUME NEW d, NEW c \in 0 .. (RamSize - 1)
    PROVE  Write(Placed(d, c, 0, 0), c, <<"text", c + 1>>) = Placed(d, c + 1, 0, 0)
<1>1. Placed(d, c + 1, 0, 0)[c] = <<"text", c + 1>>
  BY DEF Placed
<1>2. \A k \in 0 .. (RamSize - 1) :
        k # c => Placed(d, c, 0, 0)[k] = Placed(d, c + 1, 0, 0)[k]
  BY DEF Placed
<1>3. Write(Placed(d, c, 0, 0), c, Placed(d, c + 1, 0, 0)[c]) = Placed(d, c + 1, 0, 0)
  BY <1>2, CellsAreRam, WriteCell
<1> QED
  BY <1>1, <1>3, Zenon

LEMMA DataCell ==
    ASSUME NEW d, NEW x \in Nat, NEW n \in Nat, x + n \in 0 .. (RamSize - 1)
    PROVE  Write(Placed(d, x, n, 0), x + n, <<"data", n + 1>>) = Placed(d, x, n + 1, 0)
<1> DEFINE c == x + n
<1>1. Placed(d, x, n + 1, 0)[c] = <<"data", n + 1>>
  <2>1. ~(c < x) /\ c < x + (n + 1) /\ (c - x) + 1 = n + 1
    OBVIOUS
  <2> QED
    BY <2>1 DEF Placed
<1>2. \A k \in 0 .. (RamSize - 1) :
        k # c => Placed(d, x, n, 0)[k] = Placed(d, x, n + 1, 0)[k]
  BY DEF Placed
<1>3. Write(Placed(d, x, n, 0), c, Placed(d, x, n + 1, 0)[c]) = Placed(d, x, n + 1, 0)
  BY <1>2, CellsAreRam, WriteCell
<1> QED
  BY <1>1, <1>3, Zenon

LEMMA ZeroCell ==
    ASSUME NEW d, NEW x \in Nat, NEW y \in Nat, NEW n \in Nat,
           (x + y) + n \in 0 .. (RamSize - 1)
    PROVE  Write(Placed(d, x, y, n), (x + y) + n, <<"zero", 0>>) = Placed(d, x, y, n + 1)
<1> DEFINE c == (x + y) + n
<1>1. Placed(d, x, y, n + 1)[c] = <<"zero", 0>>
  <2>1. ~(c < x) /\ ~(c < x + y) /\ c < x + y + (n + 1)
    OBVIOUS
  <2> QED
    BY <2>1 DEF Placed
<1>2. \A k \in 0 .. (RamSize - 1) :
        k # c => Placed(d, x, y, n)[k] = Placed(d, x, y, n + 1)[k]
  BY DEF Placed
<1>3. Write(Placed(d, x, y, n), c, Placed(d, x, y, n + 1)[c]) = Placed(d, x, y, n + 1)
  BY <1>2, CellsAreRam, WriteCell
<1> QED
  BY <1>1, <1>3, Zenon

LEMMA FileIsUnplaced ==
    ASSUME NEW d PROVE FileRead(d, Len(d.kernel)) = Placed(d, 0, 0, 0)
BY DEF FileRead, Placed

\* What MoveText and MoveData find is still as in the file.
LEMMA NotYetMoved ==
    ASSUME NEW d \in Disks, InOrder(d), NEW c \in Nat
    PROVE  /\ c < d.layout.text => Placed(d, c, 0, 0)[1 + c] = <<"text", c + 1>>
           /\ c < d.layout.data =>
                Placed(d, d.layout.text, c, 0)[1 + d.layout.text + c] = <<"data", c + 1>>
<1> DEFINE t == d.layout.text
           a == d.layout.data
<1>1. t \in Nat /\ a \in Nat
  BY BootAssumption
<1>2. Len(d.kernel) = 1 + t + a /\ 1 + t + a <= RamSize
  BY DEF InOrder
<1>3. ASSUME c < t PROVE Placed(d, c, 0, 0)[1 + c] = <<"text", c + 1>>
  <2>1. Placed(d, c, 0, 0)[1 + c] = L!KernelFile(d)[(1 + c) + 1]
    <3> HIDE DEF t, a
    <3>1. /\ 1 + c \in 0 .. (RamSize - 1) /\ 1 + c < Len(d.kernel)
          /\ ~(1 + c < c) /\ ~(1 + c < c + 0) /\ ~(1 + c < c + 0 + 0)
      BY <1>1, <1>2, <1>3
    <3> QED
      BY <3>1 DEF Placed, InFile
  <2>2. c + 1 \in 1 .. t /\ (1 + c) + 1 = 1 + (c + 1)
    BY <1>1, <1>3
  <2>3. L!KernelFile(d)[1 + (c + 1)] = <<"text", c + 1>>
    BY <2>2, KernelFileCells
  <2> QED
    BY <2>1, <2>2, <2>3
<1>4. ASSUME c < a PROVE Placed(d, t, c, 0)[1 + t + c] = <<"data", c + 1>>
  <2>1. Placed(d, t, c, 0)[1 + t + c] = L!KernelFile(d)[(1 + t + c) + 1]
    <3> HIDE DEF t, a
    <3>1. /\ 1 + t + c \in 0 .. (RamSize - 1) /\ 1 + t + c < Len(d.kernel)
          /\ ~(1 + t + c < t) /\ ~(1 + t + c < t + c) /\ ~(1 + t + c < t + c + 0)
      BY <1>1, <1>2, <1>4
    <3> QED
      BY <3>1 DEF Placed, InFile
  <2>2. c + 1 \in 1 .. a /\ (1 + t + c) + 1 = 1 + t + (c + 1)
    BY <1>1, <1>4
  <2>3. L!KernelFile(d)[1 + t + (c + 1)] = <<"data", c + 1>>
    BY <2>2, KernelFileCells
  <2> QED
    BY <2>1, <2>2, <2>3
<1> QED
  BY <1>3, <1>4

LEMMA RamStepKeeps ==
    ASSUME disk \in Disks, InOrder(disk), RamInv, L!LoaderNext
    PROVE  RamInv'
<1> USE DEF L!machine, L!Read, L!Halt, L!result
<1> DEFINE t == disk.layout.text
           a == disk.layout.data
           z == disk.layout.bss
           K == Len(disk.kernel)
<1>0. /\ t \in Nat /\ a \in Nat /\ z \in Nat
      /\ K = 1 + t + a /\ K <= RamSize /\ t + a + z <= RamSize
      /\ KernelCells(disk) = t + a + z
  BY BootAssumption DEF InOrder, KernelCells
<1>1. CASE L!ResetDrive \/ L!ReadFails \/ L!BootRead \/ L!BootSearch \/ L!LoadImage
           \/ L!EnableA20 \/ L!LoadRootDirectory
  <2>1. /\ UNCHANGED <<disk, ram, NextCluster, MemoryPointer, loadedEnd>>
        /\ \/ stage' = "halted"
           \/ UNCHANGED <<stage, count>>
           \/ /\ stage \in Cleared /\ stage' \in Cleared \ {"loader_fat"}
              /\ \/ stage' \in {"root", "fat"}
                 \/ count' = 0
                 \/ stage \notin {"root", "fat"} /\ count' = count
    <3> USE DEF L!buffers, L!pointers, Cleared
    <3>1. CASE L!ResetDrive
      BY <3>1 DEF L!ResetDrive
    <3>2. CASE L!ReadFails
      BY <3>2 DEF L!ReadFails
    <3>3. CASE L!BootRead
      BY <3>3 DEF L!BootRead
    <3>4. CASE L!BootSearch
      BY <3>4 DEF L!BootSearch
    <3>5. CASE L!LoadImage
      BY <3>5 DEF L!LoadImage
    <3>6. CASE L!EnableA20
      BY <3>6 DEF L!EnableA20
    <3>7. CASE L!LoadRootDirectory
      BY <3>7 DEF L!LoadRootDirectory
    <3> QED
      BY <1>1, <3>1, <3>2, <3>3, <3>4, <3>5, <3>6, <3>7
  <2>2. CASE stage' = "halted"
    BY <2>2 DEF RamInv, Cleared, Laying, LaidOut
  <2>3. CASE UNCHANGED <<stage, count>>
    BY <2>1, <2>3 DEF RamInv, L!Cells
  <2>4. CASE stage \in Cleared /\ stage' \in Cleared \ {"loader_fat"} /\ stage' # stage
    BY <2>1, <2>4 DEF RamInv, Cleared, Laying, LaidOut
  <2>5. CASE stage' = stage /\ count' # count
    BY <2>1, <2>5 DEF RamInv, Cleared, Laying, LaidOut
  <2> QED
    BY <2>1, <2>2, <2>3, <2>4, <2>5
<1>2. CASE L!FindFile
  <2>1. /\ UNCHANGED <<disk, ram, count>> /\ stage = "find"
        /\ stage' = "halted" \/ (stage' = "loader_fat" /\ NextCluster' = disk.kernel[1])
    <3> DEFINE free == {k \in DOMAIN disk.root : disk.root[k].kind = "free"}
               seen == IF free = {} THEN DOMAIN disk.root ELSE 1 .. (L!Min(free) - 1)
               found == {k \in seen : L!Matches(disk.root[k], "KTUXKRNL")}
    <3>1. seen \subseteq DOMAIN disk.root
      <4>1. CASE free # {}
        <5>1. L!Min(free) \in free
          BY <4>1, FirstMatch
        <5>2. DOMAIN disk.root = 1 .. Len(disk.root) /\ Len(disk.root) \in Nat
          BY DEF InOrder
        <5>3. \A k \in 1 .. (L!Min(free) - 1) : k \in 1 .. Len(disk.root)
          BY <5>1, <5>2
        <5> QED
          BY <4>1, <5>2, <5>3
      <4> QED
        BY <4>1
    <3>2. CASE found = {}
      BY <1>2, <3>2 DEF L!FindFile, L!GiveUp, L!buffers
    <3>3. CASE found # {}
      <4>1. L!Min(found) \in found
        BY <3>1, <3>3, FirstMatch
      <4>2. PICK k : k = L!Min(found)
        OBVIOUS
      <4>3. k \in DOMAIN disk.root /\ L!Matches(disk.root[k], "KTUXKRNL")
        BY <3>1, <4>1, <4>2
      <4>4. disk.root[k].first = disk.kernel[1]
        BY <4>3 DEF InOrder
      <4> QED
        BY <1>2, <3>3, <4>2, <4>4 DEF L!FindFile, L!buffers
    <3> QED
      BY <3>2, <3>3
  <2> QED
    BY <2>1 DEF RamInv, Cleared, Laying, LaidOut
<1>3. CASE L!LoadFAT
  <2>1. /\ UNCHANGED <<disk, ram, count, NextCluster>> /\ stage = "loader_fat"
        /\ stage' = "file" /\ MemoryPointer' = 0
    BY <1>3 DEF L!LoadFAT, L!buffers
  <2>2. 0 \in 0 .. (K - 1) /\ 0 + 1 = 1
    BY <1>0
  <2> QED
    BY <2>1, <2>2 DEF RamInv, Cleared, Laying, LaidOut
<1>4. CASE L!LoadFATFails
  <2>1. /\ UNCHANGED <<disk, ram, count, NextCluster, MemoryPointer>>
        /\ stage = "loader_fat" /\ stage' \in {"loader_fat", "halted"}
    BY <1>4 DEF L!LoadFATFails, L!buffers, L!pointers
  <2> QED
    BY <2>1 DEF RamInv, Cleared, Laying, LaidOut
<1>5. CASE L!LoadFile
  <2> DEFINE m == MemoryPointer
             next == L!FatEntry(NextCluster)
  <2>1. /\ stage = "file" /\ UNCHANGED <<disk, count>>
        /\ ram' = [ram EXCEPT ![m] = L!ReadCluster(NextCluster)]
        /\ MemoryPointer' = m + 1
        /\ IF next >= L!FAT_END_OF_CLUSTER THEN stage' = "parse"
           ELSE NextCluster' = next /\ stage' = stage
    BY <1>5 DEF L!LoadFile
  <2>2. /\ m \in 0 .. (K - 1) /\ NextCluster = disk.kernel[m + 1] /\ count = 0
        /\ ram = FileRead(disk, m)
    BY <2>1 DEF RamInv
  <2>3. m + 1 \in DOMAIN disk.kernel /\ m \in 0 .. (RamSize - 1)
    <3>1. DOMAIN disk.kernel = 1 .. K
      BY DEF InOrder, Chain
    <3> HIDE DEF t, a, z, K
    <3>2. m + 1 \in 1 .. K /\ m \in 0 .. (RamSize - 1)
      BY <1>0, <2>2
    <3> QED
      BY <3>1, <3>2
  <2>4. ram' = FileRead(disk, m + 1)
    <3>1. L!ReadCluster(NextCluster) = L!KernelFile(disk)[m + 1]
      BY <2>2, <2>3, ReadOfChain
    <3>2. Write(FileRead(disk, m), m, L!KernelFile(disk)[m + 1]) = FileRead(disk, m + 1)
      BY <2>3, FileCell
    <3> QED
      BY <2>1, <2>2, <3>1, <3>2, Zenon DEF Write
  <2>5. next = Next12(disk.kernel, m + 1)
    BY <2>2, <2>3, NextOfChain
  <2>6. CASE m + 1 = K
    <3>1. stage' = "parse"
      <4>1. next \in L!FAT_END_OF_CLUSTER .. 4095
        BY <2>3, <2>5, <2>6, NextOfChain
      <4>2. \A c \in L!FAT_END_OF_CLUSTER .. 4095 : c >= L!FAT_END_OF_CLUSTER
        BY DEF L!FAT_END_OF_CLUSTER
      <4>3. PICK c : c = next
        OBVIOUS
      <4> QED
        BY <2>1, <4>1, <4>2, <4>3
    <3>2. MemoryPointer' = Len(disk.kernel) /\ ram' = FileRead(disk, Len(disk.kernel))
      BY <2>1, <2>4, <2>6
    <3> QED
      BY <2>1, <2>2, <3>1, <3>2 DEF RamInv, Cleared, Laying, LaidOut
  <2>7. CASE m + 1 # K
    <3>1. stage' = "file" /\ NextCluster' = disk.kernel[(m + 1) + 1]
      <4>1. next \in Clusters /\ next = disk.kernel[(m + 1) + 1]
        BY <2>3, <2>5, <2>7, NextOfChain
      <4>2. \A c \in Clusters : ~(c >= L!FAT_END_OF_CLUSTER)
        BY DEF Clusters, L!FAT_END_OF_CLUSTER
      <4>3. PICK c : c = next
        OBVIOUS
      <4> QED
        BY <2>1, <4>1, <4>2, <4>3
    <3>2. m + 1 \in 0 .. (K - 1)
      BY <1>0, <2>2, <2>7
    <3> QED
      BY <2>1, <2>2, <2>4, <3>1, <3>2 DEF RamInv, Cleared, Laying, LaidOut
  <2> QED
    BY <2>6, <2>7
<1>6. CASE L!ParseELFHeader
  <2>1. /\ stage = "parse" /\ UNCHANGED <<disk, ram, count>>
        /\ \/ stage' = "halted"
           \/ stage' = "prepare" /\ loadedEnd' = KernelCells(disk)
    BY <1>6 DEF L!ParseELFHeader, L!GiveUp, KernelCells
  <2>2. ram' = Placed(disk, 0, 0, 0) /\ count' = 0
    BY <2>1, FileIsUnplaced DEF RamInv
  <2> QED
    BY <2>1, <2>2 DEF RamInv, Cleared, Laying, LaidOut
<1>7. CASE L!MoveText
  <2>1. /\ stage = "prepare" /\ UNCHANGED <<disk, loadedEnd>>
        /\ L!Cells[stage] # 0
        /\ ram' = [ram EXCEPT ![0 + count] = ram[1 + count]]
        /\ IF count + 1 = L!Cells[stage] THEN count' = 0 /\ stage' = "data"
           ELSE count' = count + 1 /\ stage' = stage
    BY <1>0, <1>7 DEF L!MoveText, L!Turn
  <2>2. L!Cells[stage] = t
    BY <2>1 DEF L!Cells
  <2>3. /\ count \in Nat /\ count < t /\ ram = Placed(disk, count, 0, 0)
        /\ loadedEnd = KernelCells(disk)
    BY <1>0, <2>1, <2>2 DEF RamInv, Laying
  <2>4. ram' = Placed(disk, count + 1, 0, 0)
    <3>1. count \in 0 .. (RamSize - 1) /\ 0 + count = count
      <4> HIDE DEF t, a, z, K
      <4> QED
        BY <1>0, <2>3
    <3>2. ram[1 + count] = <<"text", count + 1>>
      BY <2>3, NotYetMoved
    <3>3. Write(Placed(disk, count, 0, 0), count, <<"text", count + 1>>)
             = Placed(disk, count + 1, 0, 0)
      BY <1>0, <3>1, TextCell
    <3> QED
      BY <2>1, <2>3, <3>1, <3>2, <3>3 DEF Write
  <2>5. CASE count + 1 = t
    <3>1. count' = 0 /\ stage' = "data" /\ ram' = Placed(disk, t, 0, 0)
      BY <2>1, <2>2, <2>4, <2>5
    <3> QED
      BY <2>1, <2>3, <3>1 DEF RamInv, Cleared, Laying, LaidOut
  <2>6. CASE count + 1 # t
    <3>1. /\ count' = count + 1 /\ stage' = "prepare" /\ count + 1 \in Nat /\ count + 1 < t
      BY <1>0, <2>1, <2>2, <2>3, <2>6
    <3>2. L!Cells'[stage'] = t
      BY <2>1, <3>1 DEF L!Cells
    <3> QED
      BY <2>1, <2>3, <2>4, <3>1, <3>2 DEF RamInv, Cleared, Laying, LaidOut
  <2> QED
    BY <2>5, <2>6
<1>8. CASE L!MoveData
  <2>1. /\ stage = "data" /\ UNCHANGED <<disk, loadedEnd>>
        /\ L!Cells[stage] # 0
        /\ ram' = [ram EXCEPT ![t + count] = ram[1 + t + count]]
        /\ IF count + 1 = L!Cells[stage] THEN count' = 0 /\ stage' = "bss"
           ELSE count' = count + 1 /\ stage' = stage
    BY <1>8 DEF L!MoveData, L!Turn
  <2>2. L!Cells[stage] = a
    BY <2>1 DEF L!Cells
  <2>3. /\ count \in Nat /\ count < a /\ ram = Placed(disk, t, count, 0)
        /\ loadedEnd = KernelCells(disk)
    BY <1>0, <2>1, <2>2 DEF RamInv, Laying
  <2>4. ram' = Placed(disk, t, count + 1, 0)
    <3>1. t + count \in 0 .. (RamSize - 1)
      <4> HIDE DEF t, a, z, K
      <4> QED
        BY <1>0, <2>3
    <3>2. ram[1 + t + count] = <<"data", count + 1>>
      BY <2>3, NotYetMoved DEF t, a
    <3>3. Write(Placed(disk, t, count, 0), t + count, <<"data", count + 1>>)
             = Placed(disk, t, count + 1, 0)
      BY <1>0, <2>3, <3>1, DataCell
    <3> QED
      BY <2>1, <2>3, <3>2, <3>3 DEF Write
  <2>5. CASE count + 1 = a
    <3>1. count' = 0 /\ stage' = "bss" /\ ram' = Placed(disk, t, a, 0)
      BY <2>1, <2>2, <2>4, <2>5
    <3> QED
      BY <2>1, <2>3, <3>1 DEF RamInv, Cleared, Laying, LaidOut
  <2>6. CASE count + 1 # a
    <3>1. /\ count' = count + 1 /\ stage' = "data" /\ count + 1 \in Nat /\ count + 1 < a
      BY <1>0, <2>1, <2>2, <2>3, <2>6
    <3>2. L!Cells'[stage'] = a
      BY <2>1, <3>1 DEF L!Cells
    <3> QED
      BY <2>1, <2>3, <2>4, <3>1, <3>2 DEF RamInv, Cleared, Laying, LaidOut
  <2> QED
    BY <2>5, <2>6
<1>9. CASE L!ZeroBss
  <2>1. /\ stage = "bss" /\ UNCHANGED <<disk, loadedEnd>>
        /\ L!Cells[stage] # 0
        /\ ram' = [ram EXCEPT ![(t + a) + count] = <<"zero", 0>>]
        /\ IF count + 1 = L!Cells[stage] THEN count' = 0 /\ stage' = "kernel"
           ELSE count' = count + 1 /\ stage' = stage
    BY <1>9 DEF L!ZeroBss, L!Turn
  <2>2. L!Cells[stage] = z
    BY <2>1 DEF L!Cells
  <2>3. /\ count \in Nat /\ count < z /\ ram = Placed(disk, t, a, count)
        /\ loadedEnd = KernelCells(disk)
    BY <1>0, <2>1, <2>2 DEF RamInv, Laying
  <2>4. ram' = Placed(disk, t, a, count + 1)
    <3>1. (t + a) + count \in 0 .. (RamSize - 1)
      <4> HIDE DEF t, a, z, K
      <4> QED
        BY <1>0, <2>3
    <3>2. Write(Placed(disk, t, a, count), (t + a) + count, <<"zero", 0>>)
             = Placed(disk, t, a, count + 1)
      BY <1>0, <2>3, <3>1, ZeroCell
    <3> QED
      BY <2>1, <2>3, <3>2 DEF Write
  <2>5. CASE count + 1 = z
    <3>1. stage' = "kernel" /\ ram' = Placed(disk, t, a, z) /\ z # 0
      BY <2>1, <2>2, <2>4, <2>5
    <3> QED
      BY <2>1, <2>3, <3>1 DEF RamInv, Cleared, Laying, LaidOut
  <2>6. CASE count + 1 # z
    <3>1. /\ count' = count + 1 /\ stage' = "bss" /\ count + 1 \in Nat /\ count + 1 < z
      BY <1>0, <2>1, <2>2, <2>3, <2>6
    <3>2. L!Cells'[stage'] = z
      BY <2>1, <3>1 DEF L!Cells
    <3> QED
      BY <2>1, <2>3, <2>4, <3>1, <3>2 DEF RamInv, Cleared, Laying, LaidOut
  <2> QED
    BY <2>5, <2>6
<1>10. CASE L!PrepareRunsAway
  BY <1>10 DEF L!PrepareRunsAway, RamInv, Cleared, Laying, LaidOut
<1> QED
  BY <1>1, <1>2, <1>3, <1>4, <1>5, <1>6, <1>7, <1>8, <1>9, <1>10 DEF L!LoaderNext

HIDE BootAssumption

(***************************************************************************)
(* The kernel that runs has been entered by the loader.                    *)
(***************************************************************************)
ImagesInv == LoaderInv /\ RamInv /\ (phase # "loader" => stage = "entered")

LEMMA ImagesInvariance ==
    ASSUME \A d \in Disks : InOrder(d)
    PROVE  BootSpec => [](MapInv /\ ImagesInv)
<1>1. BootInit => ImagesInv
  <2> SUFFICES ASSUME BootInit PROVE ImagesInv
    OBVIOUS
  <2>1. /\ stage = "reset" /\ count = 0 /\ phase = "loader" /\ loaded = <<>>
        /\ ram = [k \in 0 .. (RamSize - 1) |-> L!Nothing]
    BY DEF BootInit, L!LoaderInit
  <2>2. FileRead(disk, 0) = [k \in 0 .. (RamSize - 1) |-> L!Nothing]
    BY DEF FileRead, InFile
  <2>3. LoaderInv
    BY <2>1 DEF LoaderInv, LoaderRead
  <2>4. RamInv
    BY <2>1, <2>2 DEF RamInv, Cleared, Laying, LaidOut
  <2> QED
    BY <2>1, <2>3, <2>4 DEF ImagesInv
<1>2. MapInv /\ ImagesInv /\ [BootNext]_<<vars, loading>> => ImagesInv'
  <2> SUFFICES ASSUME MapInv, ImagesInv, [BootNext]_<<vars, loading>> PROVE ImagesInv'
    OBVIOUS
  <2>0. disk \in Disks /\ InOrder(disk)
    BY DEF MapInv, LoadedInv
  <2>1. CASE Load
    <3>1. LoaderInv' /\ RamInv'
      BY <2>0, <2>1, LoaderStepKeeps, RamStepKeeps DEF Load, ImagesInv
    <3> QED
      BY <2>1, <3>1 DEF Load, ImagesInv
  <2>2. CASE HandOver
    <3>1. /\ stage = "kernel" /\ stage' = "entered"
          /\ UNCHANGED <<disk, count, ram, loadedEnd, loaded>>
      BY <2>2 DEF HandOver, handed
    <3>2. LoaderInv'
      BY <3>1 DEF LoaderInv, LoaderRead
    <3>3. RamInv'
      BY <3>1 DEF ImagesInv, RamInv, Cleared, Laying, LaidOut
    <3> QED
      BY <3>1, <3>2, <3>3 DEF ImagesInv
  <2>3. CASE UNCHANGED loading /\ (phase' # "loader" => phase # "loader")
    <3>1. UNCHANGED <<disk, stage, count, cluster, NextCluster, MemoryPointer, loaded, ram,
                      loadedEnd>>
      BY <2>3 DEF loading, handed
    <3>2. LoaderInv' /\ RamInv'
      BY <3>1 DEF ImagesInv, LoaderInv, RamInv, L!Cells
    <3> QED
      BY <2>3, <3>1, <3>2 DEF ImagesInv
  <2>4. Start => phase # "loader" /\ UNCHANGED loading
    BY DEF Start, Next, MapIdentity, IdentityDone, MapKernel, EnablePaging,
           ListStep, ListDone
  <2>5. UNCHANGED <<vars, loading>> => UNCHANGED loading /\ phase' = phase
    BY DEF vars
  <2> QED
    BY <2>1, <2>2, <2>3, <2>4, <2>5 DEF BootNext
<1> QED
  BY <1>1, <1>2, MapInvariance, PTL DEF BootSpec

(***************************************************************************)
(* On any floppy in order, whatever the order of its clusters and however  *)
(* many reads fail and are repeated, the loader and the kernel's file are  *)
(* read whole, cluster after cluster.                                      *)
(***************************************************************************)
THEOREM ImagesInOrderTheorem ==
    ASSUME \A d \in Disks : InOrder(d)
    PROVE  BootSpec => []ImagesInOrder
<1>1. MapInv /\ ImagesInv => ImagesInOrder
  <2> SUFFICES ASSUME MapInv, ImagesInv PROVE ImagesInOrder
    OBVIOUS
  <2>1. disk \in Disks /\ InOrder(disk)
    BY DEF MapInv, LoadedInv
  <2>2. ASSUME stage = "parse"
        PROVE  [k \in 1 .. MemoryPointer |-> ram[k - 1]] = L!KernelFile(disk)
    <3> DEFINE n == Len(disk.kernel)
               F == L!KernelFile(disk)
    <3>1. MemoryPointer = n /\ ram = FileRead(disk, n)
      BY <2>2 DEF ImagesInv, RamInv
    <3>2. n \in Nat /\ n <= RamSize /\ F \in Seq(Cell) /\ Len(F) = n
      <4>1. n = 1 + disk.layout.text + disk.layout.data /\ n <= RamSize
        BY <2>1 DEF InOrder
      <4> QED
        BY <2>1, <4>1, KernelFileCells, BootAssumption
    <3>3. ASSUME NEW k \in 1 .. n PROVE FileRead(disk, n)[k - 1] = F[k]
      <4>1. k - 1 \in 0 .. (RamSize - 1) /\ k - 1 < n /\ (k - 1) + 1 = k
        BY <3>2, BootAssumption
      <4> QED
        BY <4>1 DEF FileRead, InFile
    <3>4. F = [k \in 1 .. n |-> F[k]]
      BY <3>2
    <3> HIDE DEF F
    <3> QED
      BY <3>1, <3>3, <3>4 DEF F
  <2>3. stage \in LoaderRead => loaded = L!Named("loader", Len(disk.loader))
    BY DEF ImagesInv, LoaderInv
  <2> QED
    BY <2>2, <2>3 DEF ImagesInOrder, L!ImagesInOrder, LoaderRead
<1> QED
  BY <1>1, ImagesInvariance, PTL

(***************************************************************************)
(* The kernel is entered as it was linked: the text over the header, the   *)
(* data right behind it, and the bss zeroed up to the end it is told.      *)
(***************************************************************************)
THEOREM PlacedAsLinkedTheorem ==
    ASSUME \A d \in Disks : InOrder(d)
    PROVE  BootSpec => []PlacedAsLinked
<1>1. MapInv /\ ImagesInv => PlacedAsLinked
  <2> SUFFICES ASSUME MapInv, ImagesInv, stage = "kernel" PROVE PlacedAsLinked
    BY DEF PlacedAsLinked, L!PlacedAsLinked
  <2> DEFINE t == disk.layout.text
             a == disk.layout.data
             z == disk.layout.bss
             T == L!Named("text", t)
             D == L!Named("data", a)
             Z == [k \in 1 .. z |-> <<"zero", 0>>]
  <2>1. disk \in Disks /\ InOrder(disk)
    BY DEF MapInv, LoadedInv
  <2>2. t \in Nat /\ a \in Nat /\ z \in Nat /\ t + a + z <= RamSize
    BY <2>1, BootAssumption DEF InOrder, KernelCells
  <2>3. ram = Placed(disk, t, a, z) /\ loadedEnd = t + a + z
    BY DEF ImagesInv, RamInv, LaidOut, KernelCells
  <2>4. /\ T \in Seq(Cell) /\ Len(T) = t /\ \A j \in 1 .. t : T[j] = <<"text", j>>
        /\ D \in Seq(Cell) /\ Len(D) = a /\ \A j \in 1 .. a : D[j] = <<"data", j>>
    BY <2>2, NamedCells
  <2>5. Z \in Seq(Cell) /\ Len(Z) = z /\ \A j \in 1 .. z : Z[j] = <<"zero", 0>>
    <3>1. <<"zero", 0>> \in Cell
      BY DEF Cell
    <3>2. PICK w \in Nat : w = z
      BY <2>2
    <3>3. Z \in [1 .. w -> Cell] /\ \A j \in 1 .. w : Z[j] = <<"zero", 0>>
      BY <3>1, <3>2
    <3> HIDE DEF Z
    <3> QED
      BY <3>2, <3>3
  <2> HIDE DEF T, D, Z
  <2>6. PICK x, y, w \in Nat : x = t /\ y = a /\ w = z
    BY <2>2
  <2>7. PICK TD \in Seq(Cell) : TD = T \o D
    BY <2>4, ConcatProperties
  <2>8. /\ Len(TD) = x + y
        /\ \A j \in 1 .. x : TD[j] = <<"text", j>>
        /\ \A j \in 1 .. y : TD[x + j] = <<"data", j>>
    <3>1. /\ Len(TD) = Len(T) + Len(D)
          /\ \A j \in 1 .. Len(T) : TD[j] = T[j]
          /\ \A j \in 1 .. Len(D) : TD[Len(T) + j] = D[j]
      BY <2>4, <2>7, Concatenated, Zenon
    <3> QED
      BY <2>4, <2>6, <3>1
  <2>9. PICK linked \in Seq(Cell) : linked = TD \o Z
    BY <2>5, ConcatProperties
  <2>10. /\ Len(linked) = x + y + w
         /\ \A j \in 1 .. (x + y) : linked[j] = TD[j]
         /\ \A j \in 1 .. w : linked[x + y + j] = <<"zero", 0>>
    <3>1. /\ Len(linked) = Len(TD) + Len(Z)
          /\ \A j \in 1 .. Len(TD) : linked[j] = TD[j]
          /\ \A j \in 1 .. Len(Z) : linked[Len(TD) + j] = Z[j]
      BY <2>5, <2>9, Concatenated, Zenon
    <3> QED
      BY <2>5, <2>6, <2>8, <3>1
  <2>11. ASSUME NEW k \in 1 .. (x + y + w) PROVE ram[k - 1] = linked[k]
    <3>1. ram = Placed(disk, x, y, w) /\ k - 1 \in 0 .. (RamSize - 1)
      <4>1. x + y + w <= RamSize
        BY <2>2, <2>6
      <4> QED
        BY <2>3, <2>6, <4>1, BootAssumption
    <3>2. CASE k <= x
      <4>1. linked[k] = <<"text", k>>
        BY <2>8, <2>10, <3>2
      <4>2. k - 1 < x /\ (k - 1) + 1 = k
        BY <3>2
      <4> QED
        BY <3>1, <4>1, <4>2 DEF Placed
    <3>3. CASE k > x /\ k <= x + y
      <4>1. k - x \in 1 .. y /\ x + (k - x) = k /\ k \in 1 .. (x + y)
        BY <3>3
      <4>2. linked[k] = <<"data", k - x>>
        BY <2>8, <2>10, <4>1
      <4>3. ~(k - 1 < x) /\ k - 1 < x + y /\ ((k - 1) - x) + 1 = k - x
        BY <3>3
      <4> QED
        BY <3>1, <4>2, <4>3 DEF Placed
    <3>4. CASE k > x + y
      <4>1. k - (x + y) \in 1 .. w /\ x + y + (k - (x + y)) = k
        BY <3>4
      <4>2. linked[k] = <<"zero", 0>>
        BY <2>10, <4>1
      <4>3. ~(k - 1 < x) /\ ~(k - 1 < x + y) /\ k - 1 < x + y + w
        BY <3>4
      <4> QED
        BY <3>1, <4>2, <4>3 DEF Placed
    <3> QED
      BY <3>2, <3>3, <3>4
  <2>12. linked = T \o D \o Z /\ loadedEnd = Len(linked) /\ DOMAIN linked = 1 .. (x + y + w)
    BY <2>3, <2>6, <2>7, <2>9, <2>10
  <2> QED
    BY <2>11, <2>12 DEF PlacedAsLinked, L!PlacedAsLinked, T, D, Z
<1> QED
  BY <1>1, ImagesInvariance, PTL

(***************************************************************************)
(* The kernel never hands out memory the loader has filled.  A kernel      *)
(* without a bss would leave the last cell of its file behind its end, but *)
(* such a kernel is not entered (AcceptedIsEntered).                       *)
(***************************************************************************)
THEOREM NothingOverwrittenTheorem ==
    ASSUME \A d \in Disks : InOrder(d)
    PROVE  BootSpec => []NothingOverwritten
<1>1. MapInv /\ ImagesInv => NothingOverwritten
  <2> SUFFICES ASSUME MapInv, ImagesInv, phase # "loader",
                      NEW k \in DOMAIN ram, ram[k] # L!Nothing
               PROVE  KERNEL_PHYS_ADDR + CellSize * (k + 1) <= freePageListStart
    BY DEF NothingOverwritten
  <2> DEFINE t == disk.layout.text
             a == disk.layout.data
             z == disk.layout.bss
  <2>1. disk \in Disks /\ InOrder(disk)
    BY DEF MapInv, LoadedInv
  <2>2. PICK x, y, w \in Nat : x = t /\ y = a /\ w = z
    BY <2>1, BootAssumption
  <2>3. /\ ram = Placed(disk, x, y, w) /\ w # 0 /\ loadedEnd = x + y + w
        /\ Len(disk.kernel) = 1 + x + y
    BY <2>1, <2>2 DEF ImagesInv, RamInv, LaidOut, KernelCells, InOrder
  <2>4. k \in 0 .. (RamSize - 1)
    BY <2>3 DEF Placed
  <2>5. k + 1 <= loadedEnd
    <3> SUFFICES ASSUME ~(k < x + y + w) PROVE FALSE
      BY <2>3, <2>4
    <3>1. ~(k < x) /\ ~(k < x + y) /\ ~(k < 1 + x + y)
      BY <2>3, <2>4
    <3>2. Placed(disk, x, y, w)[k] = L!Nothing
      BY <2>3, <2>4, <3>1 DEF Placed, InFile
    <3> QED
      BY <2>3, <3>2
  <2>6. CellSize * (k + 1) <= CellSize * loadedEnd
    <3>1. PICK e \in Nat : loadedEnd = (k + 1) + e
      <4>1. loadedEnd \in Nat /\ loadedEnd - (k + 1) \in Nat
                /\ loadedEnd = (k + 1) + (loadedEnd - (k + 1))
        <5>1. PICK n \in Nat : n = loadedEnd
          BY <2>3
        <5>2. k + 1 <= n /\ k \in Nat
          BY <2>4, <2>5, <5>1
        <5> QED
          BY <5>1, <5>2
      <4> QED
        BY <4>1, Zenon
    <3>2. \A m, n \in Nat : CellSize * (m + n) = CellSize * m + CellSize * n
                            /\ CellSize * m \in Nat /\ CellSize * n \in Nat
      BY BootAssumption
    <3>3. PICK m \in Nat : m = k + 1
      BY <2>4
    <3>4. CellSize * (m + e) = CellSize * m + CellSize * e
              /\ CellSize * m \in Nat /\ CellSize * e \in Nat
      BY <3>2
    <3> QED
      BY <3>1, <3>3, <3>4
  <2>7. freePageListStart = KERNEL_PHYS_ADDR + CellSize * loadedEnd
    BY DEF MapInv, EndInv, freePageListStart
  <2>8. CellSize * loadedEnd \in Nat /\ CellSize * (k + 1) \in Nat
    <3>1. \A m, n \in Nat : m * n \in Nat
      OBVIOUS
    <3>2. loadedEnd \in Nat /\ k + 1 \in Nat /\ CellSize \in Nat
      BY <2>3, <2>4, BootAssumption
    <3> QED
      BY <3>1, <3>2
  <2> QED
    BY <2>6, <2>7, <2>8 DEF KERNEL_PHYS_ADDR, KB
<1> QED
  BY <1>1, ImagesInvariance, PTL
=============================================================================
