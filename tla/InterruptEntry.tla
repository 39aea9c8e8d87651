--------------------------- MODULE InterruptEntry --------------------------
(***************************************************************************)
(* The interrupt stubs of ktux (kernel/isr.s): what each of them pushes,   *)
(* what it pops, and the end-of-interrupt it sends, on the stacks of two   *)
(* or more threads.  A word on a stack is known by what it stands for.     *)
(* Which thread __task_switch picks is left open (module Scheduler).       *)
(*                                                                         *)
(* Interrupt gates clear IF, so a stub runs in one step unless the C code  *)
(* it calls enables interrupts: process_kbd does, after an `s' (sti() at   *)
(* keyboard.c:217), and so does panic.                                     *)
(***************************************************************************)
EXTENDS Integers, SequencesExt

CONSTANTS
    Thread,         \* positive numbers
    First,          \* the thread that is running; the others have been created
    MaxNesting,     \* bound of the model on the contexts kept on one stack
    PageFaults,     \* TRUE: threads touch heap pages that are not mapped yet
    Exceptions      \* the exceptions threads raise

(***************************************************************************)
(* An exception is its number, whether the processor pushes an error code, *)
(* and the first argument exception_handler passes to panic for it.        *)
(***************************************************************************)
Exception == [num : Nat, code : BOOLEAN, haltOn : BOOLEAN]

ASSUME InterruptEntryAssumption ==
    /\ Thread \subseteq Nat \ {0}
    /\ First \in Thread
    /\ MaxNesting \in Nat
    /\ PageFaults \in BOOLEAN
    /\ Exceptions \subseteq Exception

VARIABLES
    cur,          \* the thread whose stack the processor is on
    regs,         \* the registers, ESP aside
    eip,          \* the code being executed
    iflag,        \* the processor's interrupt flag
    stack,        \* the words on each stack, the top last
    esp0,         \* depth of each suspended thread's stack
    inService,    \* the IRQs the interrupt controller waits an EOI for
    dump,         \* what exception_handler read from its argument
    shadow        \* history: the interrupted contexts of each thread

vars == <<cur, regs, eip, iflag, stack, esp0, inService, dump, shadow>>

Word(kind, t, v) == [kind |-> kind, thread |-> t, v |-> v]

Segments == {"ds", "es", "fs", "gs"}
General  == {"edi", "esi", "ebp", "ebx", "edx", "ecx", "eax"}
Regs     == Segments \cup General

KERNEL_DATA == Word("data_selector", 0, 0)
KERNEL_CODE == Word("code_selector", 0, 0)
Zero        == Word("zero", 0, 0)
Flags(on)   == Word(IF on THEN "flags_on" ELSE "flags_off", 0, 0)

(***************************************************************************)
(* What the code of thread t (v = 0 or 1) or a handler (2) has computed.   *)
(***************************************************************************)
Computed(t, v) ==
    [r \in Regs |-> IF r \in Segments THEN KERNEL_DATA ELSE Word(r, t, v)]

Code(place) == Word(place, 0, 0)
Places == {"entry", "kbd", "kbd_end", "panicked"}

Context == [regs |-> regs, eip |-> eip, iflag |-> iflag]

-----------------------------------------------------------------------------
(* Pushing and popping. *)

\* Mutant of Pushad: two registers swapped.
MutantPushad(r) == <<r["eax"], r["ecx"], r["edx"], r["ebx"], Word("esp", 0, 0),
                     r["ebp"], r["edi"], r["esi"]>>

Pushad(r) == <<r["eax"], r["ecx"], r["edx"], r["ebx"], Word("esp", 0, 0),
               r["ebp"], r["esi"], r["edi"]>>

HardwareFrame == <<Flags(iflag), KERNEL_CODE, eip>>

(***************************************************************************)
(* MACRO_REGS_SAVE.                                                        *)
(***************************************************************************)
RegsSave == Pushad(regs) \o <<regs["gs"], regs["fs"], regs["es"], regs["ds"]>>

(***************************************************************************)
(* The last n-th word of a stack, and MACRO_REGS_RESTORE: 4 segment        *)
(* registers and popad, which skips ESP.                                   *)
(***************************************************************************)
At(s, n) == s[Len(s) - n + 1]
Drop(s, n) == SubSeq(s, 1, Len(s) - n)

RegsRestore(s) ==
    [ds |-> At(s, 1), es |-> At(s, 2), fs |-> At(s, 3), gs |-> At(s, 4),
     edi |-> At(s, 5), esi |-> At(s, 6), ebp |-> At(s, 7), ebx |-> At(s, 9),
     edx |-> At(s, 10), ecx |-> At(s, 11), eax |-> At(s, 12)]

(***************************************************************************)
(* MACRO_REGS_RESTORE then iret, on thread t's stack s.                    *)
(***************************************************************************)
RestoreAndIret(t, s) ==
    LET f == Drop(s, 12) IN
      /\ regs' = RegsRestore(s)
      /\ eip' = At(f, 1)
      /\ iflag' = (At(f, 3) = Flags(TRUE))
      /\ stack' = [stack EXCEPT ![t] = Drop(f, 3)]

(***************************************************************************)
(* A non-specific EOI ends the IRQ of highest priority that is in service. *)
(***************************************************************************)
Eoi(served) == IF 0 \in served THEN served \ {0} ELSE served \ {1}

(***************************************************************************)
(* The frame create_kernel_thread builds.                                  *)
(***************************************************************************)
CreatedFrame ==
    <<Flags(TRUE), KERNEL_CODE, Code("entry")>> \o [k \in 1 .. 8 |-> Zero]
      \o [k \in 1 .. 4 |-> KERNEL_DATA]

CreatedContext ==
    [regs |-> [r \in Regs |-> IF r \in Segments THEN KERNEL_DATA ELSE Zero],
     eip |-> Code("entry"), iflag |-> TRUE]

NoDump == [num |-> Zero, eip |-> Zero, raised |-> Zero]

Init ==
    /\ cur = First
    /\ regs = Computed(First, 0)
    /\ eip = Code("entry")
    /\ iflag = TRUE
    /\ stack = [t \in Thread |-> IF t = First THEN <<>> ELSE CreatedFrame]
    /\ esp0 = [t \in Thread |-> IF t = First THEN 0 ELSE Len(CreatedFrame)]
    /\ inService = {}
    /\ dump = NoDump
    /\ shadow = [t \in Thread |-> IF t = First THEN <<>> ELSE <<CreatedContext>>]

InThread == eip = Code("entry")
HasRoom == Len(shadow[cur]) < MaxNesting

(***************************************************************************)
(* The thread's own code changes its registers.                            *)
(***************************************************************************)
Work ==
    /\ InThread
    /\ regs' = Computed(cur, IF regs = Computed(cur, 0) THEN 1 ELSE 0)
    /\ UNCHANGED <<cur, eip, iflag, stack, esp0, inService, dump, shadow>>

-----------------------------------------------------------------------------
(* The timer: IRQ 0, and the int 0x20 of yield(). *)

\* Mutant of SavedDepth: the argument pushed for __task_switch is counted.
MutantWithArgument(s) == Len(s) + 1

(***************************************************************************)
(* __task_switch is given ESP as it was before its argument was pushed.    *)
(***************************************************************************)
SavedDepth(s) == Len(s)

(***************************************************************************)
(* x86InterruptHandler20.  The stack of the thread that is resumed is the  *)
(* one __task_switch returns; what it finds above is lost.                 *)
(***************************************************************************)
TimerStub(u, served) ==
    LET s == stack[cur] \o HardwareFrame \o RegsSave
        argued == [stack EXCEPT ![cur] = s \o <<Word("arg", 0, 0)>>]
        depth == [esp0 EXCEPT ![cur] = SavedDepth(s)]
        resumed == SubSeq(argued[u], 1, depth[u])
        f == Drop(resumed, 12) IN
      /\ cur' = u
      /\ esp0' = depth
      /\ regs' = RegsRestore(resumed)
      /\ eip' = At(f, 1)
      /\ iflag' = (At(f, 3) = Flags(TRUE))
      /\ stack' = [argued EXCEPT ![u] = Drop(f, 3)]
      /\ inService' = Eoi(served)
      /\ shadow' = IF u = cur THEN shadow
                   ELSE [shadow EXCEPT ![cur] = Append(@, Context),
                                       ![u] = Front(@)]
      /\ UNCHANGED dump

TimerIrq(u) ==
    /\ iflag
    /\ 0 \notin inService
    /\ HasRoom
    /\ TimerStub(u, inService \cup {0})

YieldInt(u) ==
    /\ InThread
    /\ HasRoom
    /\ TimerStub(u, inService)

-----------------------------------------------------------------------------
(* The keyboard: IRQ 1. *)

KbdIrq ==
    /\ iflag
    /\ inService = {}
    /\ HasRoom
    /\ inService' = {1}
    /\ stack' = [stack EXCEPT ![cur] = @ \o HardwareFrame \o RegsSave]
    /\ shadow' = [shadow EXCEPT ![cur] = Append(@, Context)]
    /\ eip' = Code("kbd")
    /\ iflag' = FALSE
    /\ regs' = Computed(cur, 2)
    /\ UNCHANGED <<cur, esp0, dump>>

(***************************************************************************)
(* cli(); ps(); sti(), for an `s'.                                         *)
(***************************************************************************)
KbdSti ==
    /\ eip = Code("kbd")
    /\ iflag' = TRUE
    /\ UNCHANGED <<cur, regs, eip, stack, esp0, inService, dump, shadow>>

\* Mutant of KbdEoi: the handler returns without an EOI.
MutantNoEoi ==
    /\ eip = Code("kbd")
    /\ eip' = Code("kbd_end")
    /\ UNCHANGED <<cur, regs, iflag, stack, esp0, inService, dump, shadow>>

(***************************************************************************)
(* The EOI of x86InterruptHandler21; then its pops, and sti; iret.         *)
(***************************************************************************)
KbdEoi ==
    /\ eip = Code("kbd")
    /\ eip' = Code("kbd_end")
    /\ inService' = Eoi(inService)
    /\ UNCHANGED <<cur, regs, iflag, stack, esp0, dump, shadow>>

KbdIret ==
    /\ eip = Code("kbd_end")
    /\ RestoreAndIret(cur, stack[cur])
    /\ shadow' = [shadow EXCEPT ![cur] = Front(@)]
    /\ UNCHANGED <<cur, esp0, inService, dump>>

-----------------------------------------------------------------------------
(* int 0x80, exceptions and page faults. *)

(***************************************************************************)
(* syscallHandler: its MACRO_REGS_RESTORE sends an EOI although no IRQ was *)
(* accepted.                                                               *)
(***************************************************************************)
Syscall ==
    /\ InThread
    /\ LET s == stack[cur] \o HardwareFrame \o RegsSave IN
         RestoreAndIret(cur, Drop(s \o <<Word("arg", 0, 0)>>, 1))
    /\ inService' = Eoi(inService)
    /\ UNCHANGED <<cur, esp0, dump, shadow>>

(***************************************************************************)
(* The fields of int_stack_regs_struct at the place ESP points to: 12      *)
(* registers, interruptNum, eip.                                           *)
(***************************************************************************)
ReadDump(s) == [num |-> At(s, 13), eip |-> At(s, 14), raised |-> eip]

(***************************************************************************)
(* mainIsrStub, entered by the stub that pushes the exception's number.    *)
(* exception_handler does not return: it loops after panic, which enables  *)
(* interrupts when it is told to halt.                                     *)
(***************************************************************************)
Raise(x) ==
    /\ InThread
    /\ LET s == stack[cur] \o HardwareFrame
                  \o (IF x.code THEN <<Word("error_code", 0, 0)>> ELSE <<>>)
                  \o <<Word("num", 0, x.num)>> \o RegsSave IN
         /\ dump' = ReadDump(s)
         /\ stack' = [stack EXCEPT ![cur] = Append(s, Word("arg", 0, 0))]
    /\ shadow' = [shadow EXCEPT ![cur] = Append(@, Context)]
    /\ regs' = Computed(cur, 2)
    /\ eip' = Code("panicked")
    /\ iflag' = x.haltOn
    /\ UNCHANGED <<cur, esp0, inService>>

(***************************************************************************)
(* x86PageFault: the error code is on the stack, one word is pushed for    *)
(* the call and three are popped, so two of the saved registers go too;    *)
(* then three words are rotated.  What the processor makes of the segments *)
(* and the eip it is left with is not modelled: the thread stops there.    *)
(***************************************************************************)
Rotated(s) ==
    LET n == Len(s) - 12 IN
      [k \in 1 .. Len(s) |-> CASE k = n     -> s[n - 1]
                               [] k = n - 1 -> s[n - 2]
                               [] k = n - 2 -> s[n]
                               [] OTHER     -> s[k]]

PageFault ==
    /\ PageFaults
    /\ InThread
    /\ LET below == <<Word("caller", 0, 0), Word("caller", 0, 0)>>
           s == stack[cur] \o below \o HardwareFrame
                  \o <<Word("error_code", 0, 0)>> \o RegsSave
                  \o <<Word("cr2", 0, 0)>> IN
         RestoreAndIret(cur, Rotated(Drop(s, 3)))
    /\ inService' = Eoi(inService)
    /\ UNCHANGED <<cur, esp0, dump, shadow>>

Next ==
    \/ Work
    \/ \E u \in Thread : TimerIrq(u) \/ YieldInt(u)
    \/ KbdIrq \/ KbdSti \/ KbdEoi \/ KbdIret
    \/ Syscall
    \/ \E x \in Exceptions : Raise(x)
    \/ PageFault

Spec == Init /\ [][Next]_vars

-----------------------------------------------------------------------------
Kinds == General \cup Places
           \cup {"data_selector", "code_selector", "zero", "flags_on", "flags_off",
                 "esp", "arg", "num", "error_code", "cr2", "caller"}

Words == [kind : Kinds, thread : Thread \cup {0}, v : Nat]
Contexts == [regs : [Regs -> Words], eip : Words, iflag : BOOLEAN]

\* FALSE of a thread a page fault has sent astray.
InCode == eip \in {Code(p) : p \in Places}

TypeOK ==
    /\ cur \in Thread
    /\ regs \in [Regs -> Words]
    /\ eip \in Words
    /\ iflag \in BOOLEAN
    /\ stack \in [Thread -> Seq(Words)]
    /\ esp0 \in [Thread -> Nat]
    /\ inService \subseteq {0, 1}
    /\ dump \in [num : Words, eip : Words, raised : Words]
    /\ shadow \in [Thread -> Seq(Contexts)]

(***************************************************************************)
(* Whatever handlers nest and whatever threads are switched to meanwhile,  *)
(* an interrupted context comes back with the registers, the place and the *)
(* interrupt flag it was interrupted with; a created thread starts at its  *)
(* entry with interrupts on.  An interrupt that switches nothing, and a    *)
(* system call, are invisible to the thread.                               *)
(***************************************************************************)
ContextsComeBack ==
    [][/\ \A t \in Thread :
            Len(shadow'[t]) < Len(shadow[t])
              => [regs |-> regs', eip |-> eip', iflag |-> iflag'] = Last(shadow[t])
       /\ Syscall \/ TimerIrq(cur) \/ YieldInt(cur)
            => UNCHANGED <<regs, eip, iflag>>]_vars

(***************************************************************************)
(* The controller never waits for an EOI nobody will send: IRQ 1 is in     *)
(* service only while some keyboard handler has not sent its EOI, and      *)
(* IRQ 0 never is when the timer stub has returned, whichever thread's     *)
(* stack it returned on.                                                   *)
(***************************************************************************)
NoIrqStuck ==
    /\ 0 \notin inService
    /\ 1 \in inService =>
         \/ eip = Code("kbd")
         \/ \E t \in Thread : \E k \in 1 .. Len(shadow[t]) :
               shadow[t][k].eip = Code("kbd")

(***************************************************************************)
(* exception_handler reports the exception that was raised, where it was   *)
(* raised: "registers pushed from x86 hardware handling of interrupt"      *)
(* (interrupts.h) follow the interrupt number.                             *)
(***************************************************************************)
DumpIsRight ==
    dump # NoDump => /\ dump.num.kind = "num"
                     /\ dump.eip = dump.raised

(***************************************************************************)
(* Nothing accumulates on a stack: it holds the 15 words of each context   *)
(* interrupted on it, the argument left behind by the timer stub and no    *)
(* more, however often it was switched away from.  Stacks are 512 bytes    *)
(* (process.h:37).  (Until an exception, whose handler never returns.)     *)
(***************************************************************************)
StackIsContexts ==
    InCode /\ dump = NoDump =>
      /\ Len(stack[cur]) = 15 * Len(shadow[cur])
      /\ \A t \in Thread \ {cur} : esp0[t] = 15 * Len(shadow[t])

(***************************************************************************)
(* A page fault that page_fault_handler has resolved ("updated: kernel     *)
(* page table", memory.c:320) resumes the thread where it was.             *)
(***************************************************************************)
PageFaultResumes == [][PageFault => UNCHANGED <<regs, eip, iflag>>]_vars
=============================================================================
