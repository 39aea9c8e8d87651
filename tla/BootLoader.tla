----------------------------- MODULE BootLoader ----------------------------
(***************************************************************************)
(* From the boot sector to the first instruction of the kernel: bootsect.s *)
(* finds and reads the loader, klMain.s enables A20, klLoadKernel.s finds  *)
(* and reads the kernel, checks its ELF header and lays it out.  The BIOS, *)
(* the disk and the keyboard controller are external: any BIOS read or     *)
(* reset may fail.  The kernel's file and memory are cut into cells of the *)
(* size of a cluster; an image is header, text and data in the file, and   *)
(* text, data and bss, each of whole pages, in memory (kernel.ld).         *)
(***************************************************************************)
EXTENDS Integers, Sequences, SequencesExt, FiniteSetsExt

CONSTANTS
    Disks,          \* the disks there are, see Init
    A20Attempts,    \* numbers of attempts to enable A20 that fail
    MaxFaults,      \* bound of the model on failing BIOS calls
    RamSize         \* cells of memory from KERNEL_PHYSICAL on

VARIABLES
    disk, a20,      \* the machine, chosen once
    stage,          \* what is being done
    tries,          \* the retry counter of the current loop
    count,          \* sectors read or cells moved so far by the current loop
    cluster, NextCluster, MemoryPointer,
    loaded,         \* what is in memory from BOOTSTUB_ADDRESS on
    ram,            \* what is in memory from KERNEL_PHYSICAL on
    loadedEnd,      \* kernelEnd, in cells from KERNEL_VIRTUAL on
    err,            \* what kloaderLoadKernel returned, 0 for no error
    shown,          \* the message displayLoadError showed
    why,            \* where the machine was given up
    faults, streak  \* history: failing BIOS calls; failing reads of one piece

machine == <<disk, a20>>
pointers == <<NextCluster, MemoryPointer>>
buffers == <<loaded, ram, loadedEnd>>
result == <<err, shown, why>>
loaderVars == <<machine, stage, tries, count, cluster, NextCluster, MemoryPointer,
                buffers, result, faults, streak>>

RootSectors == 2            \* stands for the 14 sectors of the root directory
FatSectors == 2             \* stands for the 18 sectors of the two FATs
BYTE == 256
FAT_END_OF_CLUSTER == 4088  \* 0xFF8
ERR_LOAD_ROOT == 1
ERR_NO_FILE == 2
ERR_LOAD_FAT == 3
ERR_LOAD_KERNEL == 4
ERR_INVALID_ELF == 5
ERR_NOT_EXEC_ELF == 6
ERR_NUM_SEGMENTS == 7
ERR_SEGMENT_LAYOUT == 8
ERR_SEGMENT_ALIGN == 9

Nothing == <<"nothing", 0>>

-----------------------------------------------------------------------------
(* The disk. *)

Named(what, n) == [k \in 1 .. n |-> <<what, k>>]
KernelFile(d) ==
    <<<<"header", 0>>>> \o Named("text", d.layout.text) \o Named("data", d.layout.data)

Chains == {disk.loader, disk.kernel, disk.other}
Position(chain, c) == CHOOSE k \in DOMAIN chain : chain[k] = c

\* What is in the data cluster c.
Data(c) ==
    CASE Contains(disk.loader, c) -> <<"loader", Position(disk.loader, c)>>
      [] Contains(disk.kernel, c) -> KernelFile(disk)[Position(disk.kernel, c)]
      [] OTHER -> Nothing

\* The FAT: the number stored for a cluster, 12 bits, 0 for a free one.
Link(chain, c) == LET k == Position(chain, c)
                  IN  IF k = Len(chain) THEN disk.end ELSE chain[k + 1]
Fat(c) == LET of == {chain \in Chains : Contains(chain, c)}
          IN  IF of = {} THEN 0 ELSE Link(CHOOSE chain \in of : TRUE, c)

Nibble(n) == (Fat(n \div 3) \div <<1, 16, 256>>[(n % 3) + 1]) % 16
Word(b) == Nibble(2 * b) + 16 * Nibble(2 * b + 1) + 256 * Nibble(2 * b + 2)
               + 4096 * Nibble(2 * b + 3)

(***************************************************************************)
(* The next cluster: the word at byte 3c/2 of the FAT, its upper or lower  *)
(* 12 bits (bootsect.s and loadFile).                                      *)
(***************************************************************************)
FatEntry(c) == IF c % 2 = 1 THEN Word((3 * c) \div 2) \div 16
                            ELSE Word((3 * c) \div 2) % 4096

(***************************************************************************)
(* Cluster2LBA and cluster2Logical: mul by a byte takes only AL of the     *)
(* cluster number less 2, with one sector per cluster.                     *)
(***************************************************************************)
ReadCluster(c) == Data(((c - 2) % BYTE) + 2)

\* Ten characters are compared, FAT_FILENAME_SIZE; name[2] is the eleventh.
Matches(entry, name) == entry.kind = "file" /\ entry.name[1] = name

-----------------------------------------------------------------------------
LoaderInit ==
    /\ disk \in Disks
    /\ a20 \in A20Attempts
    /\ stage = "reset"
    /\ tries = 0
    /\ count = 0
    /\ cluster = 0
    /\ NextCluster = 0
    /\ MemoryPointer = 0
    /\ loaded = <<>>
    /\ ram = [k \in 0 .. (RamSize - 1) |-> Nothing]
    /\ loadedEnd = 0
    /\ err = 0
    /\ shown = "nothing"
    /\ why = "running"
    /\ faults = 0
    /\ streak = 0

Fault == faults < MaxFaults /\ faults' = faults + 1

Halt(reason) == stage' = "halted" /\ why' = reason

\* A drive is reset until the BIOS says it is.
ResetDrive ==
    /\ stage \in {"reset", "loader_reset"}
    /\ \/ /\ stage' = IF stage = "reset" THEN "root" ELSE "loader_root"
          /\ UNCHANGED faults
       \/ Fault /\ UNCHANGED stage
    /\ UNCHANGED <<machine, tries, count, cluster, pointers, buffers, result, streak>>

\* Mutant of Read: the count goes on from one piece to the next.
MutantCountOn(s) ==
    /\ stage = s
    /\ streak' = 0
    /\ UNCHANGED <<tries, faults>>

\* A read that succeeds; the next one has a counter of its own.
Read(s) ==
    /\ stage = s
    /\ tries' = 0
    /\ streak' = 0
    /\ UNCHANGED faults

\* Mutant of ReadFails: the pointer goes on all the same.
MutantPointerOn ==
    /\ stage \in {"root", "fat", "image", "loader_root", "file"}
    /\ Fault
    /\ streak' = streak + 1
    /\ IF tries + 1 < 5
       THEN tries' = tries + 1 /\ UNCHANGED <<stage, why>>
       ELSE Halt("disk") /\ UNCHANGED tries
    /\ MemoryPointer' = IF stage = "file" THEN MemoryPointer + 1 ELSE MemoryPointer
    /\ UNCHANGED <<machine, count, cluster, NextCluster, buffers, err, shown>>

(***************************************************************************)
(* A read that fails: the drive is reset, whether that works or not, and   *)
(* the same piece is read again, five times in all.  Then the boot sector  *)
(* calls int 0x18 and the loader hangs in kloaderDiskError.                *)
(***************************************************************************)
ReadFails ==
    /\ stage \in {"root", "fat", "image", "loader_root", "file"}
    /\ Fault
    /\ streak' = streak + 1
    /\ IF tries + 1 < 5
       THEN tries' = tries + 1 /\ UNCHANGED <<stage, why>>
       ELSE Halt("disk") /\ UNCHANGED tries
    /\ UNCHANGED <<machine, count, cluster, pointers, buffers, err, shown>>

-----------------------------------------------------------------------------
(* The boot sector. *)

\* One sector of ReadSectors, of the root directory or of the FATs.
BootRead ==
    /\ Read("root") \/ Read("fat")
    /\ LET last == IF stage = "root" THEN RootSectors ELSE FatSectors
       IN  IF count + 1 = last
           THEN count' = 0 /\ stage' = IF stage = "root" THEN "search" ELSE "image"
           ELSE count' = count + 1 /\ UNCHANGED stage
    /\ UNCHANGED <<machine, cluster, pointers, buffers, result>>

BootSearch ==
    /\ stage = "search"
    /\ LET found == {k \in DOMAIN disk.root : Matches(disk.root[k], "KLOADER")}
       IN  IF found = {} THEN Halt("no loader") /\ UNCHANGED cluster
           ELSE cluster' = disk.root[Min(found)].first /\ stage' = "fat" /\ UNCHANGED why
    /\ UNCHANGED <<machine, tries, count, pointers, buffers, err, shown, faults, streak>>

LoadImage ==
    /\ Read("image")
    /\ loaded' = Append(loaded, ReadCluster(cluster))
    /\ cluster' = FatEntry(cluster)
    /\ stage' = IF cluster' < 4080 THEN "image" ELSE "a20"
    /\ UNCHANGED <<machine, count, pointers, ram, loadedEnd, result>>

-----------------------------------------------------------------------------
(* The loader. *)

\* Mutant of EnableA20: each attempt starts the count anew.
MutantA20Anew ==
    /\ stage = "a20"
    /\ IF a20 = tries THEN stage' = "loader_reset" /\ tries' = 0 /\ UNCHANGED why
       ELSE tries' = 0 /\ UNCHANGED <<stage, why>>
    /\ UNCHANGED <<machine, count, cluster, pointers, buffers, err, shown, faults, streak>>

(***************************************************************************)
(* EnableA20: five attempts through the output port, five by the command   *)
(* 0xDF, then a fatal error.                                               *)
(***************************************************************************)
EnableA20 ==
    /\ stage = "a20"
    /\ IF a20 = tries THEN stage' = "loader_reset" /\ tries' = 0 /\ UNCHANGED why
       ELSE IF tries + 1 < 10 THEN tries' = tries + 1 /\ UNCHANGED <<stage, why>>
       ELSE Halt("A20") /\ UNCHANGED tries
    /\ UNCHANGED <<machine, count, cluster, pointers, buffers, err, shown, faults, streak>>

LoadRootDirectory ==
    /\ Read("loader_root")
    /\ stage' = "find"
    /\ UNCHANGED <<machine, count, cluster, pointers, buffers, result>>

(***************************************************************************)
(* kloaderMain pushes the error and jumps to displayLoadError, which looks *)
(* two bytes above it, at the pointer to kernelFilename.                   *)
(***************************************************************************)
KernelFilename == 36864
Message(code) ==
    CASE code = ERR_LOAD_ROOT      -> "no root"
      [] code = ERR_NO_FILE        -> "no file"
      [] code = ERR_LOAD_FAT       -> "no FAT"
      [] code = ERR_LOAD_KERNEL    -> "bad file"
      [] code = ERR_NUM_SEGMENTS   -> "segments"
      [] code = ERR_SEGMENT_LAYOUT -> "layout"
      [] code = ERR_SEGMENT_ALIGN  -> "alignment"
      [] code = ERR_NOT_EXEC_ELF   -> "bad file"
      [] OTHER                     -> "nothing"

GiveUp(code) ==
    /\ err' = code
    /\ shown' = Message(KernelFilename)
    /\ Halt("error")

\* findFile passes over deleted entries and stops at the first never used.
FindFile ==
    /\ stage = "find"
    /\ LET root == disk.root
           free == {k \in DOMAIN root : root[k].kind = "free"}
           seen == IF free = {} THEN DOMAIN root ELSE 1 .. (Min(free) - 1)
           found == {k \in seen : Matches(root[k], "KTUXKRNL")}
       IN  IF found = {} THEN GiveUp(ERR_NO_FILE) /\ UNCHANGED NextCluster
           ELSE /\ NextCluster' = root[Min(found)].first
                /\ stage' = "loader_fat"
                /\ UNCHANGED result
    /\ UNCHANGED <<machine, tries, count, cluster, MemoryPointer, buffers, faults, streak>>

LoadFAT ==
    /\ Read("loader_fat")
    /\ stage' = "file"
    /\ MemoryPointer' = 0
    /\ UNCHANGED <<machine, count, cluster, NextCluster, buffers, result>>

(***************************************************************************)
(* loadFAT after a failing read: it means to count to 5, but the branch    *)
(* tests the carry flag of the reset: given up at once when the drive can  *)
(* be reset, and tried again, without end, while it cannot.                *)
(***************************************************************************)
LoadFATFails ==
    /\ stage = "loader_fat"
    /\ \/ Fault /\ Halt("FAT")
       \/ faults + 2 <= MaxFaults /\ faults' = faults + 2 /\ UNCHANGED <<stage, why>>
    /\ UNCHANGED <<machine, tries, count, cluster, pointers, buffers, err, shown, streak>>

\* loadFile: one cluster into the buffer and up to MemoryPointer.
LoadFile ==
    /\ Read("file")
    /\ ram' = [ram EXCEPT ![MemoryPointer] = ReadCluster(NextCluster)]
    /\ MemoryPointer' = MemoryPointer + 1
    /\ LET next == FatEntry(NextCluster)
       IN  IF next >= FAT_END_OF_CLUSTER
           THEN stage' = "parse" /\ UNCHANGED NextCluster
           ELSE NextCluster' = next /\ UNCHANGED stage
    /\ UNCHANGED <<machine, count, cluster, loaded, loadedEnd, result>>

ElfError(d) ==
    CASE d.defect = "magic"    -> ERR_INVALID_ELF
      [] d.defect = "type"     -> ERR_NOT_EXEC_ELF
      [] d.defect = "segments" -> ERR_NUM_SEGMENTS
      [] d.defect = "layout"   -> ERR_SEGMENT_LAYOUT
      [] d.defect = "align"    -> ERR_SEGMENT_ALIGN
      [] OTHER                 -> 0

\* parseELFHeader; without an error it returns where the kernel ends.
ParseELFHeader ==
    /\ stage = "parse"
    /\ IF ram[0] # <<"header", 0>> THEN GiveUp(ERR_INVALID_ELF) /\ UNCHANGED loadedEnd
       ELSE IF ElfError(disk) # 0 THEN GiveUp(ElfError(disk)) /\ UNCHANGED loadedEnd
       ELSE /\ loadedEnd' = disk.layout.text + disk.layout.data + disk.layout.bss
            /\ stage' = "prepare"
            /\ UNCHANGED result
    /\ UNCHANGED <<machine, tries, count, cluster, pointers, loaded, ram, faults, streak>>

\* The loops of prepareKernel: what each goes through, in cells.
Cells == [prepare |-> disk.layout.text, data |-> disk.layout.data,
          bss |-> disk.layout.bss]

(***************************************************************************)
(* One turn of such a loop, which writes a cell; they go upwards.          *)
(***************************************************************************)
Turn(to, cell, next) ==
    /\ Cells[stage] # 0
    /\ ram' = [ram EXCEPT ![to + count] = cell]
    /\ IF count + 1 = Cells[stage] THEN count' = 0 /\ stage' = next
                                   ELSE count' = count + 1 /\ UNCHANGED stage
    /\ UNCHANGED <<machine, tries, cluster, pointers, loaded, loadedEnd, result,
                   faults, streak>>

\* Mutant of MoveText: the data segment stays where the file has it.
MutantDataInPlace ==
    /\ stage = "prepare"
    /\ Turn(0, ram[1 + count], "bss")

\* The text moves down over the header.
MoveText ==
    /\ stage = "prepare"
    /\ LET codeOffset == 1
           dataOffset == codeOffset + disk.layout.text
           distance == disk.layout.text
       IN  Turn(0, ram[codeOffset + count],
                IF distance = dataOffset THEN "bss" ELSE "data")

\* The data moves to where its address is behind the text's.
MoveData ==
    /\ stage = "data"
    /\ Turn(disk.layout.text, ram[1 + disk.layout.text + count], "bss")

(***************************************************************************)
(* The rest of the data segment is zeroed; then kloaderMain jumps to       *)
(* KERNEL_VIRTUAL.                                                         *)
(***************************************************************************)
ZeroBss ==
    /\ stage = "bss"
    /\ Turn(disk.layout.text + disk.layout.data, <<"zero", 0>>, "kernel")

\* Each loop counts down after its first turn: with nothing to do it goes
\* through all of memory.
PrepareRunsAway ==
    /\ stage \in DOMAIN Cells
    /\ Cells[stage] = 0
    /\ Halt("overrun")
    /\ UNCHANGED <<machine, tries, count, cluster, pointers, buffers, err, shown,
                   faults, streak>>

LoaderNext ==
    \/ ResetDrive \/ ReadFails
    \/ BootRead \/ BootSearch \/ LoadImage
    \/ EnableA20 \/ LoadRootDirectory \/ FindFile \/ LoadFAT \/ LoadFATFails
    \/ LoadFile \/ ParseELFHeader
    \/ MoveText \/ MoveData \/ ZeroBss \/ PrepareRunsAway

-----------------------------------------------------------------------------
(* What should hold. *)

(* However many reads fail and are repeated, what is in memory when a file *)
(* has been read is that file, cluster after cluster in the order of its   *)
(* chain: none twice, none left out, and none of another file (bootsect.s  *)
(* ReadSectors, loadFile).                                                 *)
ImagesInOrder ==
    /\ stage \in {"a20", "loader_reset", "loader_root", "find", "loader_fat", "file",
                  "parse", "prepare", "data", "bss", "kernel"}
          => loaded = Named("loader", Len(disk.loader))
    /\ stage = "parse"
          => [k \in 1 .. MemoryPointer |-> ram[k - 1]] = KernelFile(disk)

(* The kernel is entered with text, data and zeroed bss at the addresses   *)
(* it was linked for, and the end it is told is the end of its bss         *)
(* (parseELFHeader, prepareKernel).                                        *)
PlacedAsLinked ==
    stage = "kernel" =>
      LET l == disk.layout
          linked == Named("text", l.text) \o Named("data", l.data)
                        \o [k \in 1 .. l.bss |-> <<"zero", 0>>]
      IN  /\ \A k \in DOMAIN linked : ram[k - 1] = linked[k]
          /\ loadedEnd = Len(linked)

(* The machine is given up for a bad disk exactly when five reads of the   *)
(* same piece in a row have failed: the count of one loop is never carried *)
(* over into the next (ReadSectors, loadRootDirectory, loadFile; loadFAT   *)
(* does not count).                                                        *)
GivesUpAfterFive == IF why = "disk" THEN streak = 5 ELSE streak < 5

(* When the kernel could not be loaded the screen says why (the messages   *)
(* of displayLoadError).                                                   *)
ErrorIsShown == why = "error" => shown = Message(err)

(* A kernel with a header the loader accepts is entered (prepareKernel     *)
(* "always returns 0", klLoadKernel.s:221).                                *)
AcceptedIsEntered == why # "overrun"
=============================================================================
