-------------------------------- MODULE Boot -------------------------------
(***************************************************************************)
(* The boot of ktux as one run: the boot sector and the loader bring the   *)
(* kernel into memory (BootLoader), and the kernel they enter sets up its  *)
(* page tables and its list of free pages (BootMemory) behind the end they *)
(* told it.  What they share is sysInfo->kernelEnd.                        *)
(***************************************************************************)
EXTENDS BootMemory

CONSTANTS
    Disks, A20Attempts, MaxFaults,
    RamSize,        \* cells of memory from KERNEL_PHYSICAL on
    CellSize        \* bytes of a cell

ASSUME BootAssumption ==
    /\ CellSize \in Nat \ {0} /\ RamSize \in Nat
    /\ \A d \in Disks : d.layout \in [text : Nat, data : Nat, bss : Nat]

VARIABLES
    disk, a20, stage, tries, count, cluster, NextCluster, MemoryPointer,
    loaded, ram, loadedEnd, err, shown, why, faults, streak

L == INSTANCE BootLoader

handed == <<disk, a20, tries, count, cluster, NextCluster, MemoryPointer, loaded, ram,
            loadedEnd, err, shown, why, streak>>
loading == <<handed, stage, faults>>

kernelVars == <<pTotalMemory, kernelEnd, address, i, lower4MBPageTable, kernelPageTable,
                freePageList, freePageListEntries>>

BootInit ==
    /\ L!LoaderInit
    /\ phase = "loader"
    /\ pTotalMemory \in Totals
    /\ kernelEnd = 0
    /\ address = 0
    /\ i = 0
    /\ lower4MBPageTable = <<>>
    /\ kernelPageTable = <<>>
    /\ freePageList = <<>>
    /\ freePageListEntries = 0

Load ==
    /\ phase = "loader"
    /\ L!LoaderNext
    /\ UNCHANGED <<phase, kernelVars>>

\* Mutant of HandOver: the kernel is told where its file ends.
MutantFileEnd ==
    /\ phase = "loader" /\ stage = "kernel"
    /\ phase' = "identity"
    /\ kernelEnd' = KERNEL_PHYS_ADDR + CellSize * (loadedEnd - disk.layout.bss)
    /\ stage' = "entered"
    /\ faults' = 0
    /\ UNCHANGED <<pTotalMemory, address, i, lower4MBPageTable, kernelPageTable,
                   freePageList, freePageListEntries, handed>>

(***************************************************************************)
(* kloaderMain passes the end of the kernel on in hardwareStruct, and      *)
(* init_virt_mem takes its physical address.                               *)
(***************************************************************************)
HandOver ==
    /\ phase = "loader" /\ stage = "kernel"
    /\ phase' = "identity"
    /\ kernelEnd' = KERNEL_PHYS_ADDR + CellSize * loadedEnd
    /\ stage' = "entered"
    /\ faults' = 0
    /\ UNCHANGED <<pTotalMemory, address, i, lower4MBPageTable, kernelPageTable,
                   freePageList, freePageListEntries, handed>>

Start == Next /\ UNCHANGED loading

BootNext == Load \/ HandOver \/ Start

BootSpec ==
    /\ BootInit
    /\ [][BootNext]_<<vars, loading>>
    /\ WF_<<vars, loading>>(BootNext)

-----------------------------------------------------------------------------
\* Cells of the kernel in memory, from KERNEL_PHYS_ADDR on.
KernelCells(d) == d.layout.text + d.layout.data + d.layout.bss

(***************************************************************************)
(* A floppy in order: its chains share no cluster and lie where one byte   *)
(* reaches, its directory entries point to the heads of their chains, and  *)
(* the kernel is as long as its header says and fits the memory modelled.  *)
(* Nothing is asked of the order of clusters, of the directory or of the   *)
(* header.                                                                 *)
(***************************************************************************)
Clusters == 2 .. 257

Chain(s) ==
    /\ s \in Seq(Clusters)
    /\ \A j, k \in DOMAIN s : s[j] = s[k] => j = k

Apart(s, t) == \A j \in DOMAIN s, k \in DOMAIN t : s[j] # t[k]

InOrder(d) ==
    /\ Chain(d.loader) /\ Chain(d.kernel) /\ Chain(d.other)
    /\ Apart(d.loader, d.kernel) /\ Apart(d.loader, d.other) /\ Apart(d.kernel, d.other)
    /\ Len(d.loader) > 0
    /\ d.end \in L!FAT_END_OF_CLUSTER .. 4095
    /\ d.root \in Seq([kind : STRING, name : Seq(STRING), first : Nat])
    /\ \A k \in DOMAIN d.root :
         /\ L!Matches(d.root[k], "KLOADER") => d.root[k].first = d.loader[1]
         /\ L!Matches(d.root[k], "KTUXKRNL") => d.root[k].first = d.kernel[1]
    /\ Len(d.kernel) = 1 + d.layout.text + d.layout.data
    /\ Len(d.kernel) <= RamSize
    /\ KernelCells(d) <= RamSize

-----------------------------------------------------------------------------
ImagesInOrder == L!ImagesInOrder
PlacedAsLinked == L!PlacedAsLinked
GivesUpAfterFive == L!GivesUpAfterFive
ErrorIsShown == L!ErrorIsShown
AcceptedIsEntered == L!AcceptedIsEntered

(* The list of free pages, and with it all memory the kernel hands out, is *)
(* behind everything the loader has put there, the bss that is in no file  *)
(* included (kernelEndAddr of klMain.s, freePageListStart of memory.c).    *)
NothingOverwritten ==
    phase # "loader" =>
      \A k \in DOMAIN ram : ram[k] # L!Nothing
          => KERNEL_PHYS_ADDR + CellSize * (k + 1) <= freePageListStart

(* If the drive comes to its senses the boot ends: in a kernel whose list  *)
(* of free pages is built, or in a halt (every loop of the loader and of   *)
(* init_virt_mem).                                                         *)
BootEnds == <>(phase = "done" \/ stage = "halted")
=============================================================================
