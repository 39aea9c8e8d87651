-------------------------- MODULE InterruptRouting -------------------------
(***************************************************************************)
(* Who may interrupt ktux, and what then runs: the descriptor table built  *)
(* by init_interrupts (kernel/interrupts.c), the masks of the two 8259s    *)
(* (kernel/pic.c), and the "timer" command of the shell (kernel/sh.c),     *)
(* which toggles IRQ 0 from inside the keyboard interrupt.                 *)
(***************************************************************************)
EXTENDS Integers, FiniteSets

CONSTANT
    Drivers      \* IRQs that drivers enable and disable besides 0 and 1

NUM_INTS    == 255      \* 0xFF
NUM_STD_EXP == 19       \* 0x13
MAX_IRQ_IMP == 21       \* 0x15
IRQS        == 16       \* elements of idtIRQList
IRQ0_INT    == 32
IRQ8_INT    == 40
INT_SYSCALL == 128
IRQ_TIMER    == 0
IRQ_KEYBOARD == 1
IRQ_CASCADE  == 2

ASSUME InterruptRoutingAssumption == Drivers \subseteq 0 .. (MAX_IRQ_IMP - 1)

VARIABLES
    pc,          \* next call of _kernel_main; "running" when it has made them
    IDT,
    idtInitialized,
    vectorBase,  \* the vectors the two controllers raise, once remapped
    masked1,     \* IRQs 0..7 the first controller holds back
    masked2,     \* IRQs 8..15 the second one does, as 0..7
    irqStatus

routingVars == <<pc, IDT, idtInitialized, vectorBase, masked1, masked2, irqStatus>>

Vectors == 0 .. 255
Bits == 0 .. 7
AllBits == Bits

\* Entries of the IDT: a stub, named by what it serves, or an unused entry.
EMPTY == "empty"
Unimp == "x86ExceptionHandlerUnimp"
Garbage == "garbage"
Handlers == {EMPTY, Unimp, Garbage, "exception", "page_fault", "timer",
             "keyboard", "syscall"}

RoutingInit ==
    /\ pc = "init_interrupts"
    /\ IDT = [v \in Vectors |-> EMPTY]
    /\ idtInitialized = FALSE
    /\ vectorBase = <<8, 112>>          \* what the BIOS leaves
    /\ masked1 \in {{}, AllBits}
    /\ masked2 \in {{}, AllBits}
    /\ irqStatus = [n \in 0 .. (MAX_IRQ_IMP - 1) |-> 0]

-----------------------------------------------------------------------------
(* init_interrupts *)

idtExceptionList(i) ==
    IF i = 14 THEN "page_fault" ELSE IF i = 15 THEN Unimp ELSE "exception"

idtIRQList(i) ==
    IF i = 0 THEN "timer" ELSE IF i = 1 THEN "keyboard" ELSE Unimp

\* The table after each loop of init_interrupts, over the one before.
DefaultTable == [v \in Vectors |-> IF v < NUM_INTS THEN Unimp ELSE EMPTY]

WithExceptions(table) ==
    [v \in Vectors |-> IF v < NUM_STD_EXP THEN idtExceptionList(v) ELSE table[v]]

WithIrqs(table, first, beyond) ==
    [v \in Vectors |->
        IF v \in first .. (first + IRQS - 1) THEN idtIRQList(v - first)
        ELSE IF v \in first + IRQS .. (first + MAX_IRQ_IMP - 1)
             THEN beyond[v - first]
             ELSE table[v]]

(***************************************************************************)
(* The three loops and the system call.  The last loop runs to MAX_IRQ_IMP *)
(* over an array of 16: the five entries `beyond' are whatever follows it  *)
(* on the stack.  A NULL there is refused by set_idt_entry, which leaves   *)
(* the default.                                                            *)
(***************************************************************************)
FilledTable(beyond) ==
    [WithIrqs(WithExceptions(DefaultTable), IRQ0_INT, beyond)
        EXCEPT ![INT_SYSCALL] = "syscall"]

InitInterrupts ==
    /\ pc = "init_interrupts"
    /\ \E beyond \in [IRQS .. (MAX_IRQ_IMP - 1) -> {Unimp, Garbage}] :
          IDT' = FilledTable(beyond)
    /\ idtInitialized' = TRUE
    /\ pc' = "init_pic"
    /\ UNCHANGED <<vectorBase, masked1, masked2, irqStatus>>

-----------------------------------------------------------------------------
(* pic.c *)

\* Mutant of RemapPics: the controllers keep the vectors of the BIOS.
MutantNoRemap == vectorBase' = vectorBase

RemapPics == vectorBase' = <<IRQ0_INT, IRQ8_INT>>

(***************************************************************************)
(* set_irqs.  The masks are ints: ~0 is -1, less than 0xFF, so the cascade *)
(* is unmasked whatever the second mask.                                   *)
(***************************************************************************)
SetIrqs(mask1, mask2) ==
    /\ masked1' = mask1 \ {IRQ_CASCADE}
    /\ masked2' = mask2

InitPic ==
    /\ pc = "init_pic"
    /\ RemapPics
    /\ SetIrqs(AllBits, AllBits)
    /\ irqStatus' = [n \in 0 .. (MAX_IRQ_IMP - 1) |-> 0]
    /\ pc' = "enable_irq"
    /\ UNCHANGED <<IDT, idtInitialized>>

\* Mutant of DisableIrq: the mask is assigned, not updated.
MutantDisableOnly(n) ==
    /\ masked1' = {n}
    /\ irqStatus' = [irqStatus EXCEPT ![n] = 0]
    /\ UNCHANGED masked2

(***************************************************************************)
(* enable_irq and disable_irq.  For 8..14 the bit is 1 << irqNum, which is *)
(* lost when outportb takes the mask as a char; both unmask the cascade.   *)
(***************************************************************************)
EnableIrq(n) ==
    /\ masked1' = CASE n < 8  -> masked1 \ {n}
                    [] n \in 8 .. 14 -> masked1 \ {IRQ_CASCADE}
                    [] OTHER  -> masked1
    /\ irqStatus' = [irqStatus EXCEPT ![n] = 1]
    /\ UNCHANGED masked2

DisableIrq(n) ==
    /\ masked1' = CASE n < 8  -> masked1 \cup {n}
                    [] n \in 8 .. 14 -> masked1 \ {IRQ_CASCADE}
                    [] OTHER  -> masked1
    /\ irqStatus' = [irqStatus EXCEPT ![n] = 0]
    /\ UNCHANGED masked2

ToggleIrq(n) == IF irqStatus[n] = 0 THEN EnableIrq(n) ELSE DisableIrq(n)

(***************************************************************************)
(* enable_irq(1); start_scheduler(), which enables IRQ 0.  Interrupts have *)
(* been on since init_multitasking: create_kernel_thread ends with sti().  *)
(***************************************************************************)
EnableKeyboard ==
    /\ pc = "enable_irq"
    /\ EnableIrq(IRQ_KEYBOARD)
    /\ pc' = "start_scheduler"
    /\ UNCHANGED <<IDT, idtInitialized, vectorBase>>

StartScheduler ==
    /\ pc = "start_scheduler"
    /\ EnableIrq(IRQ_TIMER)
    /\ pc' = "running"
    /\ UNCHANGED <<IDT, idtInitialized, vectorBase>>

-----------------------------------------------------------------------------
\* init_multitasking, which ends with interrupts on, comes after init_pic.
IF_On == pc \in {"enable_irq", "start_scheduler", "running"}

(***************************************************************************)
(* An IRQ reaches the processor when no controller on its way masks it;    *)
(* IRQ 2 is the second controller itself.                                  *)
(***************************************************************************)
Deliverable ==
    {n \in Bits \ {IRQ_CASCADE} : n \notin masked1}
      \cup {n \in 8 .. 15 : n - 8 \notin masked2 /\ IRQ_CASCADE \notin masked1}

VectorOf(n) == IF n < 8 THEN vectorBase[1] + n ELSE vectorBase[2] + n - 8

(***************************************************************************)
(* processCommand, run by the keyboard interrupt when ENTER is pressed,    *)
(* which may be before start_scheduler.  `difference' is what              *)
(* strcmp(command, "timer") returns.                                       *)
(***************************************************************************)
ProcessCommand(difference) ==
    /\ IF_On
    /\ IRQ_KEYBOARD \in Deliverable
    /\ difference = 1
    /\ ToggleIrq(IRQ_TIMER)
    /\ UNCHANGED <<pc, IDT, idtInitialized, vectorBase>>

(***************************************************************************)
(* A driver enables or disables its IRQ.                                   *)
(***************************************************************************)
DriverEnable(n) ==
    /\ pc = "running"
    /\ EnableIrq(n)
    /\ UNCHANGED <<pc, IDT, idtInitialized, vectorBase>>

DriverDisable(n) ==
    /\ pc = "running"
    /\ DisableIrq(n)
    /\ UNCHANGED <<pc, IDT, idtInitialized, vectorBase>>

RoutingNext ==
    \/ InitInterrupts \/ InitPic \/ EnableKeyboard \/ StartScheduler
    \/ \E difference \in {-1, 0, 1} : ProcessCommand(difference)
    \/ \E n \in Drivers : DriverEnable(n) \/ DriverDisable(n)

RoutingSpec == RoutingInit /\ [][RoutingNext]_routingVars

-----------------------------------------------------------------------------
RoutingTypeOK ==
    /\ pc \in {"init_interrupts", "init_pic", "enable_irq", "start_scheduler",
               "running"}
    /\ IDT \in [Vectors -> Handlers]
    /\ idtInitialized = (pc # "init_interrupts")
    /\ vectorBase \in {<<8, 112>>, <<IRQ0_INT, IRQ8_INT>>}
    /\ masked1 \subseteq Bits
    /\ masked2 \subseteq Bits
    /\ irqStatus \in [0 .. (MAX_IRQ_IMP - 1) -> {0, 1}]

(***************************************************************************)
(* With interrupts on, an IRQ that can arrive runs the stub that serves    *)
(* it: never one of the exceptions, whose stub loops for ever, and never   *)
(* another IRQ's.  What a driver enables has the stub for "unimplemented". *)
(***************************************************************************)
DeliveredIsServed ==
    IF_On =>
      \A n \in Deliverable :
        IDT[VectorOf(n)] = CASE n = IRQ_TIMER    -> "timer"
                             [] n = IRQ_KEYBOARD -> "keyboard"
                             [] OTHER            -> Unimp

(***************************************************************************)
(* Every exception of the processor that pushes its own frame reaches the  *)
(* stub written for it, and int 0x20 and int 0x80 theirs, whatever the     *)
(* last loop read beyond its array.                                        *)
(***************************************************************************)
ExceptionsServed ==
    idtInitialized =>
      /\ \A v \in 0 .. (NUM_STD_EXP - 1) \ {14, 15} : IDT[v] = "exception"
      /\ IDT[14] = "page_fault"
      /\ IDT[IRQ0_INT] = "timer"
      /\ IDT[INT_SYSCALL] = "syscall"

(***************************************************************************)
(* irqStatus, which toggle_irq decides on, agrees with the controller for  *)
(* the IRQs of the first one (the cascade aside): a second "timer" command *)
(* undoes the first and touches no other IRQ.                              *)
(***************************************************************************)
StatusMatchesMask ==
    IF_On =>
      \A n \in Bits \ {IRQ_CASCADE} : irqStatus[n] = 1 <=> n \notin masked1

(***************************************************************************)
(* Nothing a driver or the shell does to its own IRQ can cut off the       *)
(* keyboard, the only way to turn the timer on again.                      *)
(***************************************************************************)
KeyboardStays ==
    pc \in {"start_scheduler", "running"} /\ IRQ_KEYBOARD \notin Drivers
      => IRQ_KEYBOARD \in Deliverable

(***************************************************************************)
(* "Disable them all" (pic.c:41); "enable only IRQs 0&1" (kernel.c:86).    *)
(***************************************************************************)
OnlyTimerAndKeyboard ==
    pc = "running" => Bits \ masked1 \subseteq {IRQ_TIMER, IRQ_KEYBOARD}

(***************************************************************************)
(* "Initialize all interrupts to unimplemented handler then add the ones   *)
(* we actually handle" (interrupts.c:88-89).                               *)
(***************************************************************************)
EveryVectorHandled == idtInitialized => \A v \in Vectors : IDT[v] # EMPTY

(***************************************************************************)
(* "Array should contain MAX_IRQ_IMP elements" (interrupts.c:65): the loop *)
(* installs only stubs.                                                    *)
(***************************************************************************)
OnlyStubsInstalled == idtInitialized => \A v \in Vectors : IDT[v] # Garbage
=============================================================================
