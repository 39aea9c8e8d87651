----------------------------- MODULE Scheduler -----------------------------
(***************************************************************************)
(* The preemptive kernel-thread scheduler of ktux (kernel/process.c, the   *)
(* timer path of kernel/isr.s and the tail of _kernel_main).               *)
(*                                                                         *)
(* One processor runs the current thread.  Between any two instructions    *)
(* executed with IF = 1 the timer may fire (Tick).  A step of this module  *)
(* is one stretch of thread code between two points where a tick makes a   *)
(* difference: an access to a shared variable, or a whole cli ... sti      *)
(* section.  A kernel_thread_t is known by its creation number, so that    *)
(* the pid it is given, which the code computes from numThreads, can       *)
(* differ from it.                                                         *)
(***************************************************************************)
EXTENDS Integers, FiniteSets

CONSTANTS
    MAX_THREADS,     \* length of pThreads (1024)
    INT_PER_SLICE,   \* ticks in the slice of a priority-0 thread (64)
    NBOOT,           \* threads created by init_multitasking (5)
    Mortal,          \* threads whose code calls kill(); init (0) does
    Creators,        \* threads whose code calls create_kernel_thread()
    Nicers           \* threads whose code calls nice()

Threads == 0 .. (MAX_THREADS - 1)
NULL == -1
InitThread == 0

(***************************************************************************)
(* NBOOT < MAX_THREADS: start_scheduler takes numThreads = MAX_THREADS for *)
(* "init_multitasking has not run" and returns without starting anything.  *)
(***************************************************************************)
ASSUME ConstantsAssumption ==
    /\ MAX_THREADS \in Nat
    /\ INT_PER_SLICE \in Nat \ {0}
    /\ NBOOT \in Nat \ {0}
    /\ NBOOT < MAX_THREADS
    /\ Mortal \subseteq Threads
    /\ Creators \subseteq Threads
    /\ Nicers \subseteq Threads

VARIABLES
    phase,         \* "reset", "boot", "run"; "lost": the scan never ends
    nstructs,      \* number of kernel_thread_t allocated so far
    numThreads, pThreads, lThreads,
    currentTask, pCurrentTask,
    status, id, priority, quantum,
    esp0,          \* what the saved stack pointer points at
    pc,            \* where a thread's code is inside the calls below
    made,          \* create_kernel_thread's local `thread'
    tmp            \* the register that holds numThreads in numThreads++

table  == <<nstructs, numThreads, pThreads, lThreads>>
create == <<made, tmp>>
vars   == <<phase, nstructs, numThreads, pThreads, lThreads, currentTask,
            pCurrentTask, status, id, priority, quantum, esp0, pc, made, tmp>>

(***************************************************************************)
(* "NONE" is memory not yet allocated.  PROCESS_SLEEP and PROCESS_STOP are *)
(* declared in process.h and never assigned.                               *)
(***************************************************************************)
Status == {"NONE", "INIT", "READY", "RUNNING", "WAIT", "ZOMBIE", "FREE"}

(***************************************************************************)
(* The frames esp0 can point at: the one create_kernel_thread builds       *)
(* ("entry"; "entry0" when eip = 0, which faults if it is ever restored),  *)
(* the registers saved by the interrupt that preempted the thread          *)
(* ("saved"), a frame that has been restored since ("stale"), or the raw   *)
(* bottom of the stack ("base").                                           *)
(***************************************************************************)
Frames == {"none", "entry", "entry0", "saved", "stale", "base"}

(***************************************************************************)
(* "run" is anywhere outside the calls; "yield_int" is before the int 0x20 *)
(* of a plain yield(); the kill_* and create_* values name the next        *)
(* statement of kill() and create_kernel_thread().                         *)
(***************************************************************************)
Places == {"run", "yield_int",
           "kill_cli", "kill_yield", "kill_int", "after_kill",
           "create_load", "create_store", "create_link"}

QuantumAmount(p) == INT_PER_SLICE - p
Priorities == (1 - INT_PER_SLICE) .. (INT_PER_SLICE - 1)
MaxQuantum == 2 * INT_PER_SLICE - 1

TypeOK ==
    /\ phase \in {"reset", "boot", "run", "lost"}
    /\ nstructs \in 0 .. MAX_THREADS
    /\ numThreads \in 0 .. MAX_THREADS
    /\ pThreads \in [Threads -> Threads \cup {NULL}]
    /\ lThreads \in SUBSET Threads
    /\ currentTask \in Threads
    /\ pCurrentTask \in Threads \cup {NULL}
    /\ status \in [Threads -> Status]
    /\ id \in [Threads -> Threads]
    /\ priority \in [Threads -> Priorities]
    /\ quantum \in [Threads -> 0 .. MaxQuantum]
    /\ esp0 \in [Threads -> Frames]
    /\ pc \in [Threads -> Places]
    /\ made \in [Threads -> Threads \cup {NULL}]
    /\ tmp \in [Threads -> 0 .. MAX_THREADS]

Init ==
    /\ phase = "reset"
    /\ nstructs = 0
    /\ numThreads = MAX_THREADS
    /\ pThreads = [i \in Threads |-> NULL]
    /\ lThreads = {}
    /\ currentTask = 0
    /\ pCurrentTask = NULL
    /\ status = [t \in Threads |-> "NONE"]
    /\ id = [t \in Threads |-> 0]
    /\ priority = [t \in Threads |-> 0]
    /\ quantum = [t \in Threads |-> 0]
    /\ esp0 = [t \in Threads |-> "none"]
    /\ pc = [t \in Threads |-> "run"]
    /\ made = [t \in Threads |-> NULL]
    /\ tmp = [t \in Threads |-> 0]

-----------------------------------------------------------------------------
(* Boot: every IRQ is masked at the PIC, so these steps are not preempted. *)

InitData ==
    /\ phase = "reset"
    /\ phase' = "boot"
    /\ numThreads' = 0
    /\ pThreads' = [i \in Threads |-> NULL]
    /\ UNCHANGED <<nstructs, lThreads, currentTask, pCurrentTask, status, id,
                   priority, quantum, esp0, pc, made, tmp>>

(***************************************************************************)
(* One create_kernel_thread call of init_multitasking.                     *)
(***************************************************************************)
BootCreate ==
    /\ phase = "boot"
    /\ numThreads < NBOOT
    /\ LET t == nstructs IN
         /\ nstructs' = nstructs + 1
         /\ numThreads' = numThreads + 1
         /\ id' = [id EXCEPT ![t] = numThreads]
         /\ esp0' = [esp0 EXCEPT ![t] =
                        IF t = InitThread THEN "entry0" ELSE "entry"]
         /\ status' = [status EXCEPT ![t] = "READY"]
         /\ lThreads' = lThreads \cup {t}
         /\ pThreads' = [pThreads EXCEPT ![numThreads] = t]
    /\ UNCHANGED <<phase, currentTask, pCurrentTask, priority, quantum, pc,
                   made, tmp>>

(***************************************************************************)
(* From here on the code that called start_scheduler is thread init, whose *)
(* status stays READY until the first tick.                                *)
(***************************************************************************)
StartScheduler ==
    /\ phase = "boot"
    /\ numThreads = NBOOT
    /\ phase' = "run"
    /\ currentTask' = 0
    /\ pCurrentTask' = pThreads[0]
    /\ quantum' = [quantum EXCEPT ![pThreads[0]] = 0]
    /\ UNCHANGED <<nstructs, numThreads, pThreads, lThreads, status, id,
                   priority, esp0, pc, made, tmp>>

-----------------------------------------------------------------------------
(* The context switch. *)

\* Mutant of Surrendered: zombies are skipped.
MutantNoReap ==
    [status EXCEPT ![pCurrentTask] = IF @ = "ZOMBIE" THEN @ ELSE "WAIT"]

(***************************************************************************)
(* What the interrupted thread's fields become when its quantum is 0.      *)
(***************************************************************************)
Surrendered ==
    [status EXCEPT ![pCurrentTask] = IF @ = "ZOMBIE" THEN "FREE" ELSE "WAIT"]

\* Mutant of SavedFrames: the interrupted ESP is not stored.
MutantNotSaved == esp0

SavedFrames ==
    [esp0 EXCEPT ![pCurrentTask] =
        IF status[pCurrentTask] = "ZOMBIE" THEN "base" ELSE "saved"]

SurrenderedIds ==
    [id EXCEPT ![pCurrentTask] = IF status[pCurrentTask] = "ZOMBIE" THEN 0 ELSE @]

(***************************************************************************)
(* The indices that ++currentTask goes through.  It wraps to 0 only when   *)
(* it EQUALS numThreads, so from an index past numThreads it runs off the  *)
(* end of the table.                                                       *)
(***************************************************************************)
Scanned == IF currentTask < numThreads
             THEN 0 .. (numThreads - 1)
             ELSE (currentTask + 1) .. (MAX_THREADS - 1)

\* Mutants of Runnable: threads that were preempted are passed over; the status
\* of the thread in the slot is not looked at.
MutantOnlyReady(st) == {i \in Scanned : /\ pThreads[i] # NULL
                                        /\ st[pThreads[i]] = "READY"}
MutantAnyThread(st) == {i \in Scanned : pThreads[i] # NULL}

Runnable(st) == {i \in Scanned : /\ pThreads[i] # NULL
                                 /\ st[pThreads[i]] \in {"READY", "WAIT"}}

\* Mutant of IsNext: every scan starts at index 0.
MutantLowestFirst(i, st) ==
    i \in Runnable(st) /\ \A j \in Runnable(st) : i <= j

(***************************************************************************)
(* i is the first runnable index met when scanning from currentTask + 1;   *)
(* currentTask itself comes last.                                          *)
(***************************************************************************)
IsNext(i, st) ==
    /\ i \in Runnable(st)
    /\ \A j \in Runnable(st) :
          IF i > currentTask THEN j > currentTask => i <= j
                             ELSE j <= currentTask /\ i <= j

\* Mutant of Dispatch: the scan's index is a local, currentTask is not updated.
MutantLocalIndex(i) ==
    LET t == pThreads[i] IN
      /\ currentTask' = currentTask
      /\ pCurrentTask' = t
      /\ quantum' = [quantum EXCEPT ![t] = QuantumAmount(priority[t])]
      /\ status' = [Surrendered EXCEPT ![t] = "RUNNING"]
      /\ esp0' = [SavedFrames EXCEPT ![t] = "stale"]

Dispatch(i) ==
    LET t == pThreads[i] IN
      /\ currentTask' = i
      /\ pCurrentTask' = t
      /\ quantum' = [quantum EXCEPT ![t] = QuantumAmount(priority[t])]
      /\ status' = [Surrendered EXCEPT ![t] = "RUNNING"]
      /\ esp0' = [SavedFrames EXCEPT ![t] = "stale"]

CountDown ==
    /\ quantum[pCurrentTask] > 0
    /\ quantum' = [quantum EXCEPT ![pCurrentTask] = @ - 1]
    /\ UNCHANGED <<phase, currentTask, pCurrentTask, status, id, esp0>>

Switch ==
    /\ quantum[pCurrentTask] = 0
    /\ \E i \in Scanned : IsNext(i, Surrendered) /\ Dispatch(i)
    /\ id' = SurrenderedIds
    /\ UNCHANGED phase

(***************************************************************************)
(* Nothing to run: the while(1) of __task_switch spins with IF = 0.        *)
(***************************************************************************)
SwitchFindsNothing ==
    /\ quantum[pCurrentTask] = 0
    /\ Runnable(Surrendered) = {}
    /\ phase' = "lost"
    /\ status' = Surrendered
    /\ esp0' = SavedFrames
    /\ id' = SurrenderedIds
    /\ UNCHANGED <<currentTask, pCurrentTask, quantum>>

TaskSwitch ==
    /\ CountDown \/ Switch \/ SwitchFindsNothing
    /\ UNCHANGED <<table, priority, create>>

(***************************************************************************)
(* IRQ 0.  The interrupted thread will resume exactly where it was.        *)
(***************************************************************************)
Tick ==
    /\ phase = "run"
    /\ TaskSwitch
    /\ UNCHANGED pc

Spin ==
    /\ phase = "lost"
    /\ UNCHANGED vars

-----------------------------------------------------------------------------
(* What the code of the running thread does. *)

Running(t, place) ==
    /\ phase = "run"
    /\ t = pCurrentTask
    /\ pc[t] = place

Goto(t, place) == pc' = [pc EXCEPT ![t] = place]

(***************************************************************************)
(* yield(): `quantum = 0', then int 0x20, which enters the timer handler.  *)
(* A tick may come between the two.  init's code only calls kill().        *)
(***************************************************************************)
Yield(t) ==
    /\ t # InitThread
    /\ Running(t, "run")
    /\ quantum' = [quantum EXCEPT ![t] = 0]
    /\ Goto(t, "yield_int")
    /\ UNCHANGED <<phase, table, currentTask, pCurrentTask, status, id,
                   priority, esp0, create>>

YieldInt(t) ==
    /\ Running(t, "yield_int")
    /\ TaskSwitch
    /\ Goto(t, "run")

(***************************************************************************)
(* kill(): mark; cli, unlink, sti; then yield().                           *)
(***************************************************************************)
KillMark(t) ==
    /\ t \in Mortal
    /\ Running(t, "run")
    /\ status' = [status EXCEPT ![t] = "ZOMBIE"]
    /\ Goto(t, "kill_cli")
    /\ UNCHANGED <<phase, table, currentTask, pCurrentTask, id, priority,
                   quantum, esp0, create>>

KillUnlink(t) ==
    /\ Running(t, "kill_cli")
    /\ lThreads' = lThreads \ {t}
    /\ pThreads' = [pThreads EXCEPT ![currentTask] = NULL]
    /\ Goto(t, "kill_yield")
    /\ UNCHANGED <<phase, nstructs, numThreads, currentTask, pCurrentTask,
                   status, id, priority, quantum, esp0, create>>

\* Mutant of KillYield: kill() executes int 0x20 without quantum = 0.
MutantKeepQuantum(t) ==
    /\ Running(t, "kill_yield")
    /\ Goto(t, "kill_int")
    /\ UNCHANGED <<phase, table, currentTask, pCurrentTask, status, id,
                   priority, quantum, esp0, create>>

KillYield(t) ==
    /\ Running(t, "kill_yield")
    /\ quantum' = [quantum EXCEPT ![t] = 0]
    /\ Goto(t, "kill_int")
    /\ UNCHANGED <<phase, table, currentTask, pCurrentTask, status, id,
                   priority, esp0, create>>

KillInt(t) ==
    /\ Running(t, "kill_int")
    /\ TaskSwitch
    /\ Goto(t, "after_kill")

\* Mutant of Nice: the lower bound is inclusive.
MutantNiceInclusive(t, p) ==
    /\ t \in Nicers \ {InitThread}
    /\ Running(t, "run")
    /\ -INT_PER_SLICE <= p /\ p < INT_PER_SLICE
    /\ priority' = [priority EXCEPT ![t] = p]
    /\ UNCHANGED <<phase, table, currentTask, pCurrentTask, status, id,
                   quantum, esp0, pc, create>>

(***************************************************************************)
(* nice(p) of the running thread; out-of-range values are ignored.         *)
(***************************************************************************)
Nice(t, p) ==
    /\ t \in Nicers \ {InitThread}
    /\ Running(t, "run")
    /\ -INT_PER_SLICE < p /\ p < INT_PER_SLICE
    /\ priority' = [priority EXCEPT ![t] = p]
    /\ UNCHANGED <<phase, table, currentTask, pCurrentTask, status, id,
                   quantum, esp0, pc, create>>

(***************************************************************************)
(* create_kernel_thread() called by a running thread.  kmalloc is one step *)
(* here.  Its bound, nstructs < MAX_THREADS, is the model's: the code has  *)
(* no check and would write past pThreads.  numThreads++ is a load and a   *)
(* store; the fields of the new struct are private until it is linked, so  *)
(* they are filled in with the store.                                      *)
(***************************************************************************)
CreateAlloc(t) ==
    /\ t \in Creators \ {InitThread}
    /\ Running(t, "run")
    /\ nstructs < MAX_THREADS
    /\ nstructs' = nstructs + 1
    /\ made' = [made EXCEPT ![t] = nstructs]
    /\ status' = [status EXCEPT ![nstructs] = "INIT"]
    /\ Goto(t, "create_load")
    /\ UNCHANGED <<phase, numThreads, pThreads, lThreads, currentTask,
                   pCurrentTask, id, priority, quantum, esp0, tmp>>

AllocPidLoad(t) ==
    /\ Running(t, "create_load")
    /\ tmp' = [tmp EXCEPT ![t] = numThreads]
    /\ Goto(t, "create_store")
    /\ UNCHANGED <<phase, table, currentTask, pCurrentTask, status, id,
                   priority, quantum, esp0, made>>

AllocPidStore(t) ==
    /\ Running(t, "create_store")
    /\ numThreads' = tmp[t] + 1
    /\ id' = [id EXCEPT ![made[t]] = tmp[t]]
    /\ esp0' = [esp0 EXCEPT ![made[t]] = "entry"]
    /\ status' = [status EXCEPT ![made[t]] = "READY"]
    /\ quantum' = [quantum EXCEPT ![made[t]] = 0]
    /\ priority' = [priority EXCEPT ![made[t]] = 0]
    /\ Goto(t, "create_link")
    /\ UNCHANGED <<phase, nstructs, pThreads, lThreads, currentTask,
                   pCurrentTask, create>>

\* Mutant of CreateLink: the slot is indexed by currentTask, as in kill().
MutantLinkAtCurrent(t) ==
    /\ Running(t, "create_link")
    /\ lThreads' = lThreads \cup {made[t]}
    /\ pThreads' = [pThreads EXCEPT ![currentTask] = made[t]]
    /\ made' = [made EXCEPT ![t] = NULL]
    /\ Goto(t, "run")
    /\ UNCHANGED <<phase, nstructs, numThreads, currentTask, pCurrentTask,
                   status, id, priority, quantum, esp0, tmp>>

CreateLink(t) ==
    /\ Running(t, "create_link")
    /\ lThreads' = lThreads \cup {made[t]}
    /\ pThreads' = [pThreads EXCEPT ![id[made[t]]] = made[t]]
    /\ made' = [made EXCEPT ![t] = NULL]
    /\ Goto(t, "run")
    /\ UNCHANGED <<phase, nstructs, numThreads, currentTask, pCurrentTask,
                   status, id, priority, quantum, esp0, tmp>>

Step(t) ==
    \/ Yield(t) \/ YieldInt(t)
    \/ KillMark(t) \/ KillUnlink(t) \/ KillYield(t) \/ KillInt(t)
    \/ \E p \in (-INT_PER_SLICE) .. INT_PER_SLICE : Nice(t, p)
    \/ CreateAlloc(t) \/ AllocPidLoad(t) \/ AllocPidStore(t) \/ CreateLink(t)

Next ==
    \/ InitData \/ BootCreate \/ StartScheduler
    \/ Tick \/ Spin
    \/ \E t \in Threads : Step(t)

(***************************************************************************)
(* The boot code runs to its end, and the timer keeps firing.  Nothing is  *)
(* assumed about how much code a thread gets to run between two ticks.     *)
(***************************************************************************)
Fairness == WF_vars(InitData \/ BootCreate \/ StartScheduler) /\ WF_vars(Tick)

Spec == Init /\ [][Next]_vars

FairSpec == Spec /\ Fairness

-----------------------------------------------------------------------------
(* Properties. *)

Dead == {t \in Threads : status[t] \in {"ZOMBIE", "FREE"}}

(***************************************************************************)
(* Threads the scheduler owes the processor to: created, linked by their   *)
(* creator, and not killed.                                                *)
(***************************************************************************)
Live == {t \in Threads : /\ status[t] \in {"READY", "RUNNING", "WAIT"}
                         /\ \A c \in Threads : made[c] # t}

(***************************************************************************)
(* Every live thread sits in the slot of its own pid, inside the part of   *)
(* pThreads that __task_switch scans, and in the list that ps() prints: a  *)
(* preempted create_kernel_thread or kill never drops a thread.            *)
(***************************************************************************)
NoThreadLost ==
    \A t \in Live : /\ t \in lThreads
                    /\ id[t] < numThreads
                    /\ pThreads[id[t]] = t

(***************************************************************************)
(* kill() clears pThreads[currentTask], an index it shares with every      *)
(* thread and with the timer handler.  While a thread runs, that slot is   *)
(* its own, or is empty because the thread has passed its own unlink; and  *)
(* no other thread is marked RUNNING.                                      *)
(***************************************************************************)
CurrentSlot ==
    phase = "run" =>
      /\ pThreads[currentTask] =
           IF pc[pCurrentTask] \in {"kill_yield", "kill_int"}
             THEN NULL ELSE pCurrentTask
      /\ \A t \in Threads : status[t] = "RUNNING" => t = pCurrentTask

(***************************************************************************)
(* No thread is ever resumed after the yield() at the end of its kill():   *)
(* _kernel_main's `while(1) kill()' would unlink it a second time.         *)
(***************************************************************************)
KillNeverReturns == phase = "run" => pc[pCurrentTask] # "after_kill"

(***************************************************************************)
(* __task_switch loops for ever, with interrupts off, only when every      *)
(* thread ever created has been killed and reaped.                         *)
(***************************************************************************)
LostOnlyWhenAllDead ==
    phase = "lost" => \A t \in 0 .. (nstructs - 1) : status[t] = "FREE"

(***************************************************************************)
(* Two threads that have not been killed never have the same pid           *)
(* ("create a new thread of execution.  returns PID.", process.c:185).     *)
(***************************************************************************)
UniquePids == \A t, u \in Live : id[t] = id[u] => t = u

(***************************************************************************)
(* A reaped struct is no longer in the thread list or the thread table, so *)
(* that it can be re-used or freed as process.c:129-130 intends.           *)
(***************************************************************************)
ReapedIsUnlinked ==
    \A t \in Threads : status[t] = "FREE" =>
        /\ t \notin lThreads
        /\ \A i \in Threads : pThreads[i] # t

(***************************************************************************)
(* Switching to another thread always restores a complete frame: the one   *)
(* built at creation, once, or the one saved when that thread was last     *)
(* preempted.  In particular the frame with EIP = 0 that init is created   *)
(* with is never restored, nor is the stack of a reaped thread.            *)
(***************************************************************************)
RestoresCompleteFrame ==
    [][\A t \in Threads :
          pCurrentTask # NULL /\ pCurrentTask # t /\ pCurrentTask' = t
            => esp0[t] \in {"entry", "saved"}]_vars

(***************************************************************************)
(* A killed thread stays killed whatever tick comes between the statements *)
(* of kill(): it goes from ZOMBIE to FREE and nowhere else.                *)
(***************************************************************************)
NoResurrection ==
    [][\A t \in Threads : t \in Dead =>
          status'[t] = "FREE" \/ status'[t] = status[t]]_vars

(***************************************************************************)
(* No starvation: a runnable thread, whatever the priorities and yields of *)
(* the others, is eventually given the processor.                          *)
(***************************************************************************)
RunnableRuns ==
    \A t \in Threads :
        (t \in Live /\ status[t] \in {"READY", "WAIT"}) ~> (pCurrentTask = t)

(***************************************************************************)
(* A thread that marked itself killed is eventually reaped, even if its    *)
(* own code is never given time to reach the yield() of kill().            *)
(***************************************************************************)
ZombieReaped ==
    \A t \in Threads : (status[t] = "ZOMBIE") ~> (status[t] = "FREE")

(***************************************************************************)
(* What the scheduler promises its threads.                                *)
(***************************************************************************)
CPU == INSTANCE CpuSharing WITH
         Thread <- Threads, NoThread <- NULL,
         live <- Live, dead <- Dead,
         cpu <- IF phase = "lost" THEN NULL ELSE pCurrentTask

ImplementsCpuSharing == CPU!Spec
=============================================================================
