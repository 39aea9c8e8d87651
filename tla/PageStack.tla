----------------------------- MODULE PageStack -----------------------------
(***************************************************************************)
(* The physical page allocator: alloc_page and free_page (kernel/memory.c) *)
(* on the stack of free pages that init_virt_mem leaves.  The stack's top  *)
(* is freePageList[freePageListEntries].                                   *)
(*                                                                         *)
(* `owned' is not a variable of the kernel: it is the set of pages handed  *)
(* out and not given back.  Callers free only pages they own, once; the    *)
(* code does not check it (`TODO: Implement error/bounds checking').       *)
(***************************************************************************)
EXTENDS Integers, FiniteSets

CONSTANTS
    Page,        \* addresses of physical pages; 0 is not one of them
    Count,       \* number of pages init_virt_mem put on the list
    BootList,    \* the list it built: [0 .. Count - 1 -> Page]
    Freers       \* TRUE if free_page is called (the kernel never does)

Slots == 0 .. (Count - 1)
FAILURE == 0

ASSUME PageStackAssumption ==
    /\ Count \in Nat \ {0}
    /\ Page \subseteq Nat \ {0}
    /\ BootList \in [Slots -> Page]
    /\ \A s, r \in Slots : BootList[s] = BootList[r] => s = r
    /\ Freers \in BOOLEAN

VARIABLES
    freePageList,
    freePageListEntries,
    owned,
    last           \* the last call and its result

stackVars == <<freePageList, freePageListEntries, owned, last>>

Calls == {"none", "alloc", "free"}

StackTypeOK ==
    /\ freePageList \in [Slots -> Page \cup {0}]
    /\ freePageListEntries \in Slots
    /\ owned \in SUBSET Page
    /\ last \in [call : Calls, page : Page \cup {FAILURE}]

StackInit ==
    /\ freePageList = BootList
    /\ freePageListEntries = Count - 1
    /\ owned = {}
    /\ last = [call |-> "none", page |-> FAILURE]

Top == freePageList[freePageListEntries]

(***************************************************************************)
(* alloc_page: fails if freePageListEntries = 0 or the slot it indexes is  *)
(* zero; otherwise zeroes the slot and moves down.                         *)
(***************************************************************************)
AllocFails ==
    /\ freePageListEntries = 0 \/ Top = 0
    /\ last' = [call |-> "alloc", page |-> FAILURE]
    /\ UNCHANGED <<freePageList, freePageListEntries, owned>>

\* Mutants of AllocSucceeds: the slot is not zeroed; the index does not move.
MutantNotZeroed ==
    /\ freePageListEntries # 0
    /\ Top # 0
    /\ freePageListEntries' = freePageListEntries - 1
    /\ owned' = owned \cup {Top}
    /\ last' = [call |-> "alloc", page |-> Top]
    /\ UNCHANGED freePageList

MutantIndexStays ==
    /\ freePageListEntries # 0
    /\ Top # 0
    /\ freePageList' = [freePageList EXCEPT ![freePageListEntries] = 0]
    /\ owned' = owned \cup {Top}
    /\ last' = [call |-> "alloc", page |-> Top]
    /\ UNCHANGED freePageListEntries

AllocSucceeds ==
    /\ freePageListEntries # 0
    /\ Top # 0
    /\ freePageList' = [freePageList EXCEPT ![freePageListEntries] = 0]
    /\ freePageListEntries' = freePageListEntries - 1
    /\ owned' = owned \cup {Top}
    /\ last' = [call |-> "alloc", page |-> Top]

(***************************************************************************)
(* free_page: `freePageList[freePageListEntries++] = address'.             *)
(***************************************************************************)
FreePage(p) ==
    /\ Freers
    /\ p \in owned
    /\ freePageList' = [freePageList EXCEPT ![freePageListEntries] = p]
    /\ freePageListEntries' = freePageListEntries + 1
    /\ owned' = owned \ {p}
    /\ last' = [call |-> "free", page |-> p]

StackNext ==
    \/ AllocFails
    \/ AllocSucceeds
    \/ \E p \in Page : FreePage(p)

StackSpec == StackInit /\ [][StackNext]_stackVars

-----------------------------------------------------------------------------
(***************************************************************************)
(* No page is handed out while it is still owned by an earlier caller,     *)
(* after any sequence of alloc_page and free_page.                         *)
(***************************************************************************)
NoDoubleAlloc ==
    [][last'.call = "alloc" /\ last'.page # FAILURE
          => last'.page \notin owned]_stackVars

(***************************************************************************)
(* The free slot is always one for each page handed out: the stack never   *)
(* grows past the list init_virt_mem made, although free_page checks       *)
(* nothing.                                                                *)
(***************************************************************************)
StackInBounds == freePageListEntries + Cardinality(owned) = Count - 1

(***************************************************************************)
(* "NULL/zero is failure (no free RAM)" (memory.c:585): alloc_page returns *)
(* 0 only when every page of the list has been handed out.                 *)
(***************************************************************************)
FailsOnlyWhenEmpty ==
    last = [call |-> "alloc", page |-> FAILURE] => owned = {BootList[s] : s \in Slots}

(***************************************************************************)
(* "we maintain page list structures as a stack" (memory.c:580-581): an    *)
(* alloc_page right after free_page(p) returns p.                          *)
(***************************************************************************)
FreedComesBackFirst ==
    [][last.call = "free" /\ last'.call = "alloc" => last'.page = last.page]_stackVars
=============================================================================
