-------------------------- MODULE SchedulerProofs --------------------------
(***************************************************************************)
(* Proofs about Scheduler, for any number of threads, any slice length and *)
(* any set of threads that kill themselves; the last one is about the      *)
(* history that SchedulerBypass adds.                                      *)
(***************************************************************************)
EXTENDS SchedulerBypass, TLAPS

(***************************************************************************)
(* The results that depend on the pid counter hold when at most one thread *)
(* creates threads at run time: numThreads++ is not atomic.                *)
(***************************************************************************)
OneCreator == \A c, d \in Creators : c = d

(***************************************************************************)
(* The one thread whose code may be inside create_kernel_thread.           *)
(***************************************************************************)
Maker == CHOOSE c \in Threads : Creators \subseteq {c}

Creating == {"create_load", "create_store", "create_link"}
Counting == {"create_load", "create_store"}
Killing  == {"kill_cli", "kill_yield", "kill_int", "after_kill"}
Unlinked == {"kill_yield", "kill_int", "after_kill"}

(***************************************************************************)
(* Boot: no thread runs yet, only the table changes.                       *)
(***************************************************************************)
BootInv ==
    /\ phase \in {"reset", "boot"} =>
         /\ pCurrentTask = NULL
         /\ \A t \in Threads : /\ pc[t] = "run"
                               /\ made[t] = NULL
                               /\ status[t] \in {"NONE", "READY"}
    /\ phase = "reset" => nstructs = 0
    /\ phase = "boot" => nstructs <= NBOOT
    /\ phase \in {"run", "lost"} =>
         /\ pCurrentTask \in Threads
         /\ pCurrentTask < nstructs
         /\ currentTask = pCurrentTask

(***************************************************************************)
(* numThreads follows the number of structs, also while the creator is     *)
(* between the load and the store of numThreads++.                         *)
(***************************************************************************)
MakeInv ==
    /\ \A c \in Threads : c # Maker => pc[c] \notin Creating /\ made[c] = NULL
    /\ pc[Maker] \in Creating => made[Maker] = nstructs - 1 /\ Maker < made[Maker]
    /\ pc[Maker] \notin Creating => made[Maker] = NULL
    /\ pc[Maker] \in Counting => status[made[Maker]] = "INIT"
    /\ pc[Maker] = "create_store" => tmp[Maker] = numThreads
    /\ pc[Maker] = "create_link" => status[made[Maker]] = "READY"
    /\ phase # "reset" =>
         numThreads = IF pc[Maker] \in Counting THEN nstructs - 1 ELSE nstructs

(***************************************************************************)
(* The first nstructs structs exist, and each has its own number as pid.   *)
(***************************************************************************)
PidInv ==
    \A t \in Threads :
      /\ status[t] = "NONE" <=> t >= nstructs
      /\ status[t] = "INIT" => t = made[Maker] /\ pc[Maker] \in Counting
      /\ status[t] \in {"READY", "RUNNING", "WAIT", "ZOMBIE"} => id[t] = t

(***************************************************************************)
(* Slot t holds thread t or nothing; it holds thread t exactly from the    *)
(* link in create_kernel_thread to the unlink in kill, as does the list.   *)
(***************************************************************************)
TableInv ==
    \A t \in Threads :
      /\ pThreads[t] = t \/ pThreads[t] = NULL
      /\ t \in lThreads <=> pThreads[t] = t
      /\ pThreads[t] = t <=> /\ status[t] \notin {"NONE", "INIT"}
                             /\ t # made[Maker]
                             /\ pc[t] \notin Unlinked

(***************************************************************************)
(* Who runs, and what the others can be doing.                             *)
(***************************************************************************)
RunInv ==
    /\ \A t \in Threads :
         /\ status[t] = "RUNNING" => phase = "run" /\ t = pCurrentTask
         /\ pc[t] \in Killing <=> status[t] \in {"ZOMBIE", "FREE"}
         /\ status[t] = "ZOMBIE" => /\ phase = "run"
                                    /\ t = pCurrentTask
                                    /\ pc[t] # "after_kill"
         /\ status[t] \in {"NONE", "INIT"} => pc[t] = "run"
         /\ t = made[Maker] => pc[t] = "run"
    /\ phase = "run" =>
         /\ status[pCurrentTask] \in {"READY", "RUNNING", "ZOMBIE"}
         /\ pc[pCurrentTask] = "kill_int" => quantum[pCurrentTask] = 0
         /\ made[Maker] # pCurrentTask
    /\ phase = "lost" => \A t \in Threads : t < nstructs => status[t] = "FREE"

(***************************************************************************)
(* What a runnable thread's esp0 points at.                                *)
(***************************************************************************)
FrameInv ==
    \A t \in Threads :
      /\ status[t] = "WAIT" => esp0[t] = "saved"
      /\ status[t] = "READY" =>
           \/ t # InitThread /\ esp0[t] = "entry"
           \/ t = InitThread /\ phase = "boot"
           \/ t = InitThread /\ phase = "run" /\ pCurrentTask = t

Inv == TypeOK /\ BootInv /\ MakeInv /\ PidInv /\ TableInv /\ RunInv /\ FrameInv

USE ConstantsAssumption DEF Threads, NULL, InitThread, Creating, Counting, Killing, Unlinked

MakerFact == Maker \in Threads /\ Creators \subseteq {Maker}

(***************************************************************************)
(* A step changes the function f at u only, where it becomes v.            *)
(***************************************************************************)
Changes(f, u, v) == f'[u] = v /\ \A w \in Threads : w # u => f'[w] = f[w]

LEMMA MakerLemma == OneCreator => MakerFact
<1> SUFFICES ASSUME OneCreator PROVE MakerFact
  OBVIOUS
<1>1. \E c \in Threads : Creators \subseteq {c}
  <2>1. CASE Creators = {}
    <3>1. 0 \in Threads
      OBVIOUS
    <3>2. QED
      BY <2>1, <3>1
  <2>2. CASE \E c \in Creators : TRUE
    BY <2>2 DEF OneCreator
  <2>3. QED
    BY <2>1, <2>2
<1>2. QED
  BY <1>1 DEF Maker, MakerFact

LEMMA QuantumLemma ==
    /\ 0 \in Priorities
    /\ 0 \in 0 .. MaxQuantum
    /\ \A p \in Priorities : QuantumAmount(p) \in 0 .. MaxQuantum /\ QuantumAmount(p) > 0
  BY DEF Priorities, MaxQuantum, QuantumAmount

LEMMA InitInv == ASSUME MakerFact, Init PROVE Inv
<1>1. TypeOK
  BY DEF Init, MakerFact, TypeOK, Status, Frames, Places, Priorities, MaxQuantum
<1>2. BootInv
  BY DEF Init, MakerFact, BootInv
<1>3. MakeInv
  BY DEF Init, MakerFact, MakeInv
<1>4. PidInv
  BY DEF Init, MakerFact, PidInv
<1>5. TableInv
  BY DEF Init, MakerFact, TableInv
<1>6. RunInv
  BY DEF Init, MakerFact, RunInv
<1>7. FrameInv
  BY DEF Init, MakerFact, FrameInv
<1>8. QED
  BY <1>1, <1>2, <1>3, <1>4, <1>5, <1>6, <1>7 DEF Inv

LEMMA InitDataInv ==
    ASSUME MakerFact, Inv, InitData
    PROVE  Inv'
<1>1. /\ phase = "reset"
      /\ phase' = "boot"
      /\ nstructs = 0
      /\ numThreads' = 0
      /\ \A u \in Threads : pThreads'[u] = NULL
  BY DEF Inv, TypeOK, Changes, MakerFact, InitData, BootInv
<1>2. UNCHANGED <<nstructs, lThreads, currentTask, pCurrentTask, status, id,
                  quantum, esp0, pc, made, tmp>>
  BY DEF InitData
<1>3. TypeOK'
  <2>1. phase' \in {"reset", "boot", "run", "lost"}
    BY <1>1 DEF Inv, TypeOK, InitData
  <2>2. numThreads' \in 0 .. MAX_THREADS
    BY <1>1 DEF Inv, TypeOK, InitData
  <2>3. pThreads' \in [Threads -> Threads \cup {NULL}]
    BY <1>1 DEF Inv, TypeOK, InitData
  <2>4. priority' \in [Threads -> Priorities]
    BY <1>1, QuantumLemma DEF Inv, TypeOK, InitData
  <2>5. QED
    BY <1>2, <2>1, <2>2, <2>3, <2>4 DEF Inv, TypeOK
<1>4. BootInv'
  BY <1>1, <1>2 DEF Changes, MakerFact, Inv, BootInv, MakeInv, PidInv
<1>5. MakeInv'
  BY <1>1, <1>2 DEF Changes, MakerFact, Inv, BootInv, MakeInv, PidInv, RunInv
<1>6. PidInv'
  BY <1>1, <1>2 DEF Changes, MakerFact, Inv, BootInv, MakeInv, PidInv, RunInv
<1>7. TableInv'
  BY <1>1, <1>2 DEF Changes, MakerFact, Inv, BootInv, MakeInv, PidInv,
     RunInv, TableInv
<1>8. RunInv'
  BY <1>1, <1>2 DEF Changes, MakerFact, Inv, BootInv, MakeInv, PidInv, RunInv
<1>9. FrameInv'
  BY <1>1, <1>2 DEF Changes, MakerFact, Inv, BootInv, MakeInv, PidInv,
     RunInv, FrameInv
<1>10. QED
  BY <1>3, <1>4, <1>5, <1>6, <1>7, <1>8, <1>9 DEF Inv

LEMMA BootCreateInv ==
    ASSUME MakerFact, Inv, BootCreate
    PROVE  Inv'
<1>0. /\ phase = "boot"
      /\ numThreads < NBOOT
      /\ nstructs \in Threads
      /\ numThreads = nstructs
  <2>1. /\ phase = "boot"
        /\ numThreads < NBOOT
    BY DEF BootCreate
  <2>2. /\ nstructs \in 0 .. MAX_THREADS
    BY DEF Inv, TypeOK
  <2>3. QED
    BY <2>1, <2>2 DEF Inv, MakerFact, BootInv, MakeInv, PidInv
<1>1. /\ nstructs' = nstructs + 1
      /\ numThreads' = nstructs + 1
      /\ Changes(id, nstructs, nstructs)
      /\ Changes(esp0, nstructs, IF nstructs = InitThread THEN "entry0" ELSE "entry")
      /\ Changes(status, nstructs, "READY")
      /\ Changes(pThreads, nstructs, nstructs)
      /\ lThreads' = lThreads \cup {nstructs}
  BY <1>0 DEF Inv, TypeOK, Changes, BootCreate
<1>2. UNCHANGED <<phase, currentTask, pCurrentTask, quantum, pc, made, tmp>>
  BY DEF BootCreate
<1>3. TypeOK'
  <2>1. nstructs' \in 0 .. MAX_THREADS
    BY <1>0 DEF Inv, TypeOK, BootCreate
  <2>2. numThreads' \in 0 .. MAX_THREADS
    BY <1>0 DEF Inv, TypeOK, BootCreate
  <2>3. pThreads' \in [Threads -> Threads \cup {NULL}]
    BY <1>0 DEF Inv, TypeOK, BootCreate
  <2>4. lThreads' \in SUBSET Threads
    BY <1>0 DEF Inv, TypeOK, BootCreate
  <2>5. status' \in [Threads -> Status]
    BY <1>0 DEF Inv, TypeOK, BootCreate, Status
  <2>6. id' \in [Threads -> Threads]
    BY <1>0 DEF Inv, TypeOK, BootCreate
  <2>7. priority' \in [Threads -> Priorities]
    BY <1>0, QuantumLemma DEF Inv, TypeOK, BootCreate
  <2>8. esp0' \in [Threads -> Frames]
    BY <1>0 DEF Inv, TypeOK, BootCreate, Frames
  <2>9. QED
    BY <1>2, <2>1, <2>2, <2>3, <2>4, <2>5, <2>6, <2>7, <2>8 DEF Inv, TypeOK
<1>4. BootInv'
  BY <1>0, <1>1, <1>2 DEF Changes, MakerFact, Inv, BootInv, MakeInv, PidInv
<1>5. MakeInv'
  BY <1>0, <1>1, <1>2 DEF Changes, MakerFact, Inv, BootInv, MakeInv,
     PidInv, RunInv
<1>6. PidInv'
  BY <1>0, <1>1, <1>2 DEF Changes, MakerFact, Inv, BootInv, MakeInv,
     PidInv, RunInv
<1>7. TableInv'
  BY <1>0, <1>1, <1>2 DEF Changes, MakerFact, Inv, BootInv, MakeInv,
     PidInv, RunInv, TableInv
<1>8. RunInv'
  BY <1>0, <1>1, <1>2 DEF Changes, MakerFact, Inv, BootInv, MakeInv,
     PidInv, RunInv
<1>9. FrameInv'
  BY <1>0, <1>1, <1>2 DEF Changes, MakerFact, Inv, BootInv, MakeInv,
     PidInv, RunInv, FrameInv
<1>10. QED
  BY <1>3, <1>4, <1>5, <1>6, <1>7, <1>8, <1>9 DEF Inv

LEMMA StartInv ==
    ASSUME MakerFact, Inv, StartScheduler
    PROVE  Inv'
<1>0. /\ phase = "boot"
      /\ numThreads = NBOOT
      /\ numThreads = nstructs
      /\ pThreads[0] = 0
  <2>1. /\ phase = "boot"
        /\ numThreads = NBOOT
    BY DEF StartScheduler
  <2>2. /\ nstructs \in 0 .. MAX_THREADS
    BY DEF Inv, TypeOK
  <2>3. QED
    BY <2>1, <2>2 DEF Inv, MakerFact, BootInv, MakeInv, PidInv, TableInv
<1>1. /\ phase' = "run"
      /\ pCurrentTask' = 0
      /\ currentTask' = 0
  BY <1>0 DEF Inv, TypeOK, Changes, StartScheduler
<1>2. UNCHANGED <<nstructs, numThreads, pThreads, lThreads, status, id, esp0,
                  pc, made, tmp>>
  BY DEF StartScheduler
<1>3. TypeOK'
  <2>1. phase' \in {"reset", "boot", "run", "lost"}
    BY <1>0 DEF Inv, TypeOK, StartScheduler
  <2>2. currentTask' \in Threads
    BY <1>0 DEF Inv, TypeOK, StartScheduler
  <2>3. pCurrentTask' \in Threads \cup {NULL}
    BY <1>0 DEF Inv, TypeOK, StartScheduler
  <2>4. priority' \in [Threads -> Priorities]
    BY <1>0, QuantumLemma DEF Inv, TypeOK, StartScheduler
  <2>5. quantum' \in [Threads -> 0 .. MaxQuantum]
    BY <1>0, QuantumLemma DEF Inv, TypeOK, StartScheduler
  <2>6. QED
    BY <1>2, <2>1, <2>2, <2>3, <2>4, <2>5 DEF Inv, TypeOK
<1>4. BootInv'
  BY <1>0, <1>1, <1>2 DEF Changes, MakerFact, Inv, BootInv, MakeInv, PidInv
<1>5. MakeInv'
  BY <1>0, <1>1, <1>2 DEF Changes, MakerFact, Inv, BootInv, MakeInv,
     PidInv, RunInv
<1>6. PidInv'
  BY <1>0, <1>1, <1>2 DEF Changes, MakerFact, Inv, BootInv, MakeInv,
     PidInv, RunInv
<1>7. TableInv'
  BY <1>0, <1>1, <1>2 DEF Changes, MakerFact, Inv, BootInv, MakeInv,
     PidInv, RunInv, TableInv
<1>8. RunInv'
  BY <1>0, <1>1, <1>2 DEF Changes, MakerFact, Inv, BootInv, MakeInv,
     PidInv, RunInv
<1>9. FrameInv'
  BY <1>0, <1>1, <1>2 DEF Changes, MakerFact, Inv, BootInv, MakeInv,
     PidInv, RunInv, FrameInv
<1>10. QED
  BY <1>3, <1>4, <1>5, <1>6, <1>7, <1>8, <1>9 DEF Inv

LEMMA YieldInv ==
    ASSUME MakerFact, Inv, NEW t \in Threads, Yield(t)
    PROVE  Inv'
<1>1. /\ phase = "run"
      /\ pCurrentTask = t
      /\ pc[t] = "run"
      /\ Changes(pc, t, "yield_int")
  BY DEF Inv, TypeOK, Changes, MakerFact, Yield, Running, Goto, table, create
<1>2. UNCHANGED <<phase, nstructs, numThreads, pThreads, lThreads,
                  currentTask, pCurrentTask, status, id, esp0, made, tmp>>
  BY DEF Yield, Running, Goto, table, create
<1>3. TypeOK'
  <2>1. priority' \in [Threads -> Priorities]
    BY <1>1, QuantumLemma DEF Inv, TypeOK, Yield, Running, Goto, table, create
  <2>2. quantum' \in [Threads -> 0 .. MaxQuantum]
    BY <1>1, QuantumLemma DEF Inv, TypeOK, Yield, Running, Goto, table, create
  <2>3. pc' \in [Threads -> Places]
    BY <1>1 DEF Inv, TypeOK, Yield, Running, Goto, table, create, Places
  <2>4. QED
    BY <1>2, <2>1, <2>2, <2>3 DEF Inv, TypeOK
<1>4. BootInv'
  BY <1>1, <1>2 DEF Changes, MakerFact, Inv, BootInv, MakeInv, PidInv
<1>5. MakeInv'
  BY <1>1, <1>2 DEF Changes, MakerFact, Inv, BootInv, MakeInv, PidInv, RunInv
<1>6. PidInv'
  BY <1>1, <1>2 DEF Changes, MakerFact, Inv, BootInv, MakeInv, PidInv, RunInv
<1>7. TableInv'
  BY <1>1, <1>2 DEF Changes, MakerFact, Inv, BootInv, MakeInv, PidInv,
     RunInv, TableInv
<1>8. RunInv'
  BY <1>1, <1>2 DEF Changes, MakerFact, Inv, BootInv, MakeInv, PidInv, RunInv
<1>9. FrameInv'
  BY <1>1, <1>2 DEF Changes, MakerFact, Inv, BootInv, MakeInv, PidInv,
     RunInv, FrameInv
<1>10. QED
  BY <1>3, <1>4, <1>5, <1>6, <1>7, <1>8, <1>9 DEF Inv

LEMMA KillMarkInv ==
    ASSUME MakerFact, Inv, NEW t \in Threads, KillMark(t)
    PROVE  Inv'
<1>0. /\ phase = "run"
      /\ pCurrentTask = t
      /\ pc[t] = "run"
      /\ status[t] \in {"READY", "RUNNING"}
      /\ made[Maker] # t
      /\ t < nstructs
      /\ id[t] = t
      /\ pc[Maker] \in Creating => made[Maker] \in Threads
  <2>1. /\ phase = "run"
        /\ pCurrentTask = t
        /\ pc[t] = "run"
    BY DEF KillMark, Running, Goto, table, create
  <2>2. /\ nstructs \in 0 .. MAX_THREADS
    BY DEF Inv, TypeOK
  <2>3. QED
    BY <2>1, <2>2 DEF Inv, MakerFact, BootInv, MakeInv, PidInv, RunInv
<1>1. /\ Changes(pc, t, "kill_cli")
      /\ Changes(status, t, "ZOMBIE")
  BY <1>0 DEF Inv, TypeOK, Changes, KillMark, Running, Goto, table, create
<1>2. UNCHANGED <<phase, nstructs, numThreads, pThreads, lThreads,
                  currentTask, pCurrentTask, id, quantum, esp0, made, tmp>>
  BY DEF KillMark, Running, Goto, table, create
<1>3. TypeOK'
  <2>1. status' \in [Threads -> Status]
    BY <1>0 DEF Inv, TypeOK, KillMark, Running, Goto, table, create, Status
  <2>2. priority' \in [Threads -> Priorities]
    BY <1>0, QuantumLemma DEF Inv, TypeOK, KillMark, Running, Goto, table,
       create
  <2>3. pc' \in [Threads -> Places]
    BY <1>0 DEF Inv, TypeOK, KillMark, Running, Goto, table, create, Places
  <2>4. QED
    BY <1>2, <2>1, <2>2, <2>3 DEF Inv, TypeOK
<1>4. BootInv'
  BY <1>0, <1>1, <1>2 DEF Changes, MakerFact, Inv, BootInv, MakeInv, PidInv
<1>5. MakeInv'
  BY <1>0, <1>1, <1>2 DEF Changes, MakerFact, Inv, MakeInv
<1>6. PidInv'
  BY <1>0, <1>1, <1>2 DEF Changes, MakerFact, Inv, BootInv, MakeInv,
     PidInv, RunInv
<1>7. TableInv'
  BY <1>0, <1>1, <1>2 DEF Changes, MakerFact, Inv, BootInv, MakeInv,
     PidInv, RunInv, TableInv
<1>8. RunInv'
  BY <1>0, <1>1, <1>2 DEF Changes, MakerFact, Inv, BootInv, MakeInv,
     PidInv, RunInv
<1>9. FrameInv'
  BY <1>0, <1>1, <1>2 DEF Changes, MakerFact, Inv, BootInv, MakeInv,
     PidInv, RunInv, FrameInv
<1>10. QED
  BY <1>3, <1>4, <1>5, <1>6, <1>7, <1>8, <1>9 DEF Inv

LEMMA KillUnlinkInv ==
    ASSUME MakerFact, Inv, NEW t \in Threads, KillUnlink(t)
    PROVE  Inv'
<1>1. /\ phase = "run"
      /\ pCurrentTask = t
      /\ pc[t] = "kill_cli"
      /\ Changes(pc, t, "kill_yield")
      /\ lThreads' = lThreads \ {t}
      /\ Changes(pThreads, t, NULL)
  BY DEF Inv, TypeOK, Changes, MakerFact, KillUnlink, Running, Goto, table,
     create, BootInv, TableInv
<1>2. UNCHANGED <<phase, nstructs, numThreads, currentTask, pCurrentTask,
                  status, id, quantum, esp0, made, tmp>>
  BY DEF KillUnlink, Running, Goto, table, create
<1>3. TypeOK'
  <2>1. pThreads' \in [Threads -> Threads \cup {NULL}]
    BY <1>1 DEF Inv, TypeOK, KillUnlink, Running, Goto, table, create
  <2>2. lThreads' \in SUBSET Threads
    BY <1>1 DEF Inv, TypeOK, KillUnlink, Running, Goto, table, create
  <2>3. priority' \in [Threads -> Priorities]
    BY <1>1, QuantumLemma DEF Inv, TypeOK, KillUnlink, Running, Goto,
       table, create
  <2>4. pc' \in [Threads -> Places]
    BY <1>1 DEF Inv, TypeOK, KillUnlink, Running, Goto, table, create, Places
  <2>5. QED
    BY <1>2, <2>1, <2>2, <2>3, <2>4 DEF Inv, TypeOK
<1>4. BootInv'
  BY <1>1, <1>2 DEF Changes, MakerFact, Inv, BootInv, MakeInv, PidInv
<1>5. MakeInv'
  BY <1>1, <1>2 DEF Changes, MakerFact, Inv, BootInv, MakeInv, PidInv, RunInv
<1>6. PidInv'
  BY <1>1, <1>2 DEF Changes, MakerFact, Inv, BootInv, MakeInv, PidInv, RunInv
<1>7. TableInv'
  BY <1>1, <1>2 DEF Changes, MakerFact, Inv, BootInv, MakeInv, PidInv,
     RunInv, TableInv
<1>8. RunInv'
  BY <1>1, <1>2 DEF Changes, MakerFact, Inv, BootInv, MakeInv, PidInv, RunInv
<1>9. FrameInv'
  BY <1>1, <1>2 DEF Changes, MakerFact, Inv, BootInv, MakeInv, PidInv,
     RunInv, FrameInv
<1>10. QED
  BY <1>3, <1>4, <1>5, <1>6, <1>7, <1>8, <1>9 DEF Inv

LEMMA KillYieldInv ==
    ASSUME MakerFact, Inv, NEW t \in Threads, KillYield(t)
    PROVE  Inv'
<1>1. /\ phase = "run"
      /\ pCurrentTask = t
      /\ pc[t] = "kill_yield"
      /\ Changes(pc, t, "kill_int")
      /\ Changes(quantum, t, 0)
  BY DEF Inv, TypeOK, Changes, MakerFact, KillYield, Running, Goto, table,
     create
<1>2. UNCHANGED <<phase, nstructs, numThreads, pThreads, lThreads,
                  currentTask, pCurrentTask, status, id, esp0, made, tmp>>
  BY DEF KillYield, Running, Goto, table, create
<1>3. TypeOK'
  <2>1. priority' \in [Threads -> Priorities]
    BY <1>1, QuantumLemma DEF Inv, TypeOK, KillYield, Running, Goto, table,
       create
  <2>2. quantum' \in [Threads -> 0 .. MaxQuantum]
    BY <1>1, QuantumLemma DEF Inv, TypeOK, KillYield, Running, Goto, table,
       create
  <2>3. pc' \in [Threads -> Places]
    BY <1>1 DEF Inv, TypeOK, KillYield, Running, Goto, table, create, Places
  <2>4. QED
    BY <1>2, <2>1, <2>2, <2>3 DEF Inv, TypeOK
<1>4. BootInv'
  BY <1>1, <1>2 DEF Changes, MakerFact, Inv, BootInv, MakeInv, PidInv
<1>5. MakeInv'
  BY <1>1, <1>2 DEF Changes, MakerFact, Inv, BootInv, MakeInv, PidInv, RunInv
<1>6. PidInv'
  BY <1>1, <1>2 DEF Changes, MakerFact, Inv, BootInv, MakeInv, PidInv, RunInv
<1>7. TableInv'
  BY <1>1, <1>2 DEF Changes, MakerFact, Inv, BootInv, MakeInv, PidInv,
     RunInv, TableInv
<1>8. RunInv'
  BY <1>1, <1>2 DEF Changes, MakerFact, Inv, BootInv, MakeInv, PidInv, RunInv
<1>9. FrameInv'
  BY <1>1, <1>2 DEF Changes, MakerFact, Inv, BootInv, MakeInv, PidInv,
     RunInv, FrameInv
<1>10. QED
  BY <1>3, <1>4, <1>5, <1>6, <1>7, <1>8, <1>9 DEF Inv

LEMMA NiceInv ==
    ASSUME MakerFact, Inv, NEW t \in Threads, NEW p \in Int, Nice(t, p)
    PROVE  Inv'
<1>1. /\ phase = "run"
      /\ pCurrentTask = t
  BY DEF Inv, TypeOK, Changes, MakerFact, Nice, Running, Goto, table, create
<1>2. UNCHANGED <<phase, nstructs, numThreads, pThreads, lThreads,
                  currentTask, pCurrentTask, status, id, quantum, esp0, pc,
                  made, tmp>>
  BY DEF Nice, Running, Goto, table, create
<1>3. TypeOK'
  <2>1. priority' \in [Threads -> Priorities]
    BY <1>1 DEF Inv, TypeOK, Nice, Running, Goto, table, create, Priorities
  <2>2. QED
    BY <1>2, <2>1 DEF Inv, TypeOK
<1>4. BootInv'
  BY <1>1, <1>2 DEF Changes, MakerFact, Inv, BootInv, MakeInv, PidInv
<1>5. MakeInv'
  BY <1>1, <1>2 DEF Changes, MakerFact, Inv, BootInv, MakeInv, PidInv, RunInv
<1>6. PidInv'
  BY <1>1, <1>2 DEF Changes, MakerFact, Inv, BootInv, MakeInv, PidInv, RunInv
<1>7. TableInv'
  BY <1>1, <1>2 DEF Changes, MakerFact, Inv, BootInv, MakeInv, PidInv,
     RunInv, TableInv
<1>8. RunInv'
  BY <1>1, <1>2 DEF Changes, MakerFact, Inv, BootInv, MakeInv, PidInv, RunInv
<1>9. FrameInv'
  BY <1>1, <1>2 DEF Changes, MakerFact, Inv, BootInv, MakeInv, PidInv,
     RunInv, FrameInv
<1>10. QED
  BY <1>3, <1>4, <1>5, <1>6, <1>7, <1>8, <1>9 DEF Inv

LEMMA CreateAllocInv ==
    ASSUME MakerFact, Inv, NEW t \in Threads, CreateAlloc(t)
    PROVE  Inv'
<1>1. /\ phase = "run"
      /\ pCurrentTask = t
      /\ pc[t] = "run"
      /\ Changes(pc, t, "create_load")
      /\ t = Maker
      /\ nstructs \in Threads
      /\ nstructs' = nstructs + 1
      /\ Changes(made, t, nstructs)
      /\ Changes(status, nstructs, "INIT")
  BY DEF Inv, TypeOK, Changes, MakerFact, CreateAlloc, Running, Goto,
     table, create
<1>2. UNCHANGED <<phase, numThreads, pThreads, lThreads, currentTask,
                  pCurrentTask, id, quantum, esp0, tmp>>
  BY DEF CreateAlloc, Running, Goto, table, create
<1>3. TypeOK'
  <2>1. nstructs' \in 0 .. MAX_THREADS
    BY <1>1 DEF Inv, TypeOK, CreateAlloc, Running, Goto, table, create
  <2>2. status' \in [Threads -> Status]
    BY <1>1 DEF Inv, TypeOK, CreateAlloc, Running, Goto, table, create, Status
  <2>3. priority' \in [Threads -> Priorities]
    BY <1>1, QuantumLemma DEF Inv, TypeOK, CreateAlloc, Running, Goto,
       table, create
  <2>4. pc' \in [Threads -> Places]
    BY <1>1 DEF Inv, TypeOK, CreateAlloc, Running, Goto, table, create, Places
  <2>5. made' \in [Threads -> Threads \cup {NULL}]
    BY <1>1 DEF Inv, TypeOK, CreateAlloc, Running, Goto, table, create
  <2>6. QED
    BY <1>2, <2>1, <2>2, <2>3, <2>4, <2>5 DEF Inv, TypeOK
<1>4. BootInv'
  BY <1>1, <1>2 DEF Changes, MakerFact, Inv, BootInv, MakeInv, PidInv
<1>5. MakeInv'
  BY <1>1, <1>2 DEF Changes, MakerFact, Inv, BootInv, MakeInv, PidInv, RunInv
<1>6. PidInv'
  BY <1>1, <1>2 DEF Changes, MakerFact, Inv, BootInv, MakeInv, PidInv, RunInv
<1>7. TableInv'
  BY <1>1, <1>2 DEF Changes, MakerFact, Inv, BootInv, MakeInv, PidInv,
     RunInv, TableInv
<1>8. RunInv'
  BY <1>1, <1>2 DEF Changes, MakerFact, Inv, BootInv, MakeInv, PidInv, RunInv
<1>9. FrameInv'
  BY <1>1, <1>2 DEF Changes, MakerFact, Inv, BootInv, MakeInv, PidInv,
     RunInv, FrameInv
<1>10. QED
  BY <1>3, <1>4, <1>5, <1>6, <1>7, <1>8, <1>9 DEF Inv

LEMMA AllocPidLoadInv ==
    ASSUME MakerFact, Inv, NEW t \in Threads, AllocPidLoad(t)
    PROVE  Inv'
<1>1. /\ phase = "run"
      /\ pCurrentTask = t
      /\ pc[t] = "create_load"
      /\ Changes(pc, t, "create_store")
      /\ Changes(tmp, t, numThreads)
  BY DEF Inv, TypeOK, Changes, MakerFact, AllocPidLoad, Running, Goto,
     table, create
<1>2. UNCHANGED <<phase, nstructs, numThreads, pThreads, lThreads,
                  currentTask, pCurrentTask, status, id, quantum, esp0, made>>
  BY DEF AllocPidLoad, Running, Goto, table, create
<1>3. TypeOK'
  <2>1. priority' \in [Threads -> Priorities]
    BY <1>1, QuantumLemma DEF Inv, TypeOK, AllocPidLoad, Running, Goto,
       table, create
  <2>2. pc' \in [Threads -> Places]
    BY <1>1 DEF Inv, TypeOK, AllocPidLoad, Running, Goto, table, create, Places
  <2>3. tmp' \in [Threads -> 0 .. MAX_THREADS]
    BY <1>1 DEF Inv, TypeOK, AllocPidLoad, Running, Goto, table, create
  <2>4. QED
    BY <1>2, <2>1, <2>2, <2>3 DEF Inv, TypeOK
<1>4. BootInv'
  BY <1>1, <1>2 DEF Changes, MakerFact, Inv, BootInv, MakeInv, PidInv
<1>5. MakeInv'
  BY <1>1, <1>2 DEF Changes, MakerFact, Inv, BootInv, MakeInv, PidInv, RunInv
<1>6. PidInv'
  BY <1>1, <1>2 DEF Changes, MakerFact, Inv, BootInv, MakeInv, PidInv, RunInv
<1>7. TableInv'
  BY <1>1, <1>2 DEF Changes, MakerFact, Inv, BootInv, MakeInv, PidInv,
     RunInv, TableInv
<1>8. RunInv'
  BY <1>1, <1>2 DEF Changes, MakerFact, Inv, BootInv, MakeInv, PidInv, RunInv
<1>9. FrameInv'
  BY <1>1, <1>2 DEF Changes, MakerFact, Inv, BootInv, MakeInv, PidInv,
     RunInv, FrameInv
<1>10. QED
  BY <1>3, <1>4, <1>5, <1>6, <1>7, <1>8, <1>9 DEF Inv

LEMMA AllocPidStoreInv ==
    ASSUME MakerFact, Inv, NEW t \in Threads, AllocPidStore(t)
    PROVE  Inv'
<1>0. /\ phase = "run"
      /\ pCurrentTask = t
      /\ pc[t] = "create_store"
      /\ t = Maker
      /\ made[t] \in Threads
      /\ made[t] = nstructs - 1
      /\ numThreads = nstructs - 1
      /\ tmp[t] = numThreads
      /\ nstructs \in 0 .. MAX_THREADS
  <2>1. /\ phase = "run"
        /\ pCurrentTask = t
        /\ pc[t] = "create_store"
    BY DEF AllocPidStore, Running, Goto, table, create
  <2>2. /\ nstructs \in 0 .. MAX_THREADS
    BY DEF Inv, TypeOK
  <2>3. QED
    BY <2>1, <2>2 DEF Inv, MakerFact, BootInv, MakeInv, PidInv
<1>1. /\ Changes(pc, t, "create_link")
      /\ made[t] = numThreads
      /\ numThreads' = numThreads + 1
      /\ Changes(id, made[t], made[t])
      /\ Changes(esp0, made[t], "entry")
      /\ Changes(status, made[t], "READY")
      /\ Changes(quantum, made[t], 0)
  BY <1>0 DEF Inv, TypeOK, Changes, AllocPidStore, Running, Goto, table, create
<1>2. UNCHANGED <<phase, nstructs, pThreads, lThreads, currentTask,
                  pCurrentTask, made, tmp>>
  BY DEF AllocPidStore, Running, Goto, table, create
<1>3. TypeOK'
  <2>1. numThreads' \in 0 .. MAX_THREADS
    BY <1>0 DEF Inv, TypeOK, AllocPidStore, Running, Goto, table, create
  <2>2. status' \in [Threads -> Status]
    BY <1>0 DEF Inv, TypeOK, AllocPidStore, Running, Goto, table, create, Status
  <2>3. id' \in [Threads -> Threads]
    BY <1>0 DEF Inv, TypeOK, AllocPidStore, Running, Goto, table, create
  <2>4. priority' \in [Threads -> Priorities]
    BY <1>0, QuantumLemma DEF Inv, TypeOK, AllocPidStore, Running, Goto,
       table, create
  <2>5. quantum' \in [Threads -> 0 .. MaxQuantum]
    BY <1>0, QuantumLemma DEF Inv, TypeOK, AllocPidStore, Running, Goto,
       table, create
  <2>6. esp0' \in [Threads -> Frames]
    BY <1>0 DEF Inv, TypeOK, AllocPidStore, Running, Goto, table, create, Frames
  <2>7. pc' \in [Threads -> Places]
    BY <1>0 DEF Inv, TypeOK, AllocPidStore, Running, Goto, table, create, Places
  <2>8. QED
    BY <1>2, <2>1, <2>2, <2>3, <2>4, <2>5, <2>6, <2>7 DEF Inv, TypeOK
<1>4. BootInv'
  BY <1>0, <1>1, <1>2 DEF Changes, MakerFact, Inv, BootInv, MakeInv, PidInv
<1>5. MakeInv'
  BY <1>0, <1>1, <1>2 DEF Changes, MakerFact, Inv, MakeInv
<1>6. PidInv'
  BY <1>0, <1>1, <1>2 DEF Changes, MakerFact, Inv, BootInv, MakeInv,
     PidInv, RunInv
<1>7. TableInv'
  BY <1>0, <1>1, <1>2 DEF Changes, MakerFact, Inv, BootInv, MakeInv,
     PidInv, RunInv, TableInv
<1>8. RunInv'
  BY <1>0, <1>1, <1>2 DEF Changes, MakerFact, Inv, BootInv, MakeInv,
     PidInv, RunInv
<1>9. FrameInv'
  BY <1>0, <1>1, <1>2 DEF Changes, MakerFact, Inv, BootInv, MakeInv,
     PidInv, RunInv, FrameInv
<1>10. QED
  BY <1>3, <1>4, <1>5, <1>6, <1>7, <1>8, <1>9 DEF Inv

LEMMA CreateLinkInv ==
    ASSUME MakerFact, Inv, NEW t \in Threads, CreateLink(t)
    PROVE  Inv'
<1>0. /\ phase = "run"
      /\ pCurrentTask = t
      /\ pc[t] = "create_link"
      /\ t = Maker
      /\ made[t] \in Threads
      /\ made[t] = nstructs - 1
      /\ id[made[t]] = made[t]
  <2>1. /\ phase = "run"
        /\ pCurrentTask = t
        /\ pc[t] = "create_link"
    BY DEF CreateLink, Running, Goto, table, create
  <2>2. /\ nstructs \in 0 .. MAX_THREADS
    BY DEF Inv, TypeOK
  <2>3. QED
    BY <2>1, <2>2 DEF Inv, MakerFact, BootInv, MakeInv, PidInv
<1>1. /\ Changes(pc, t, "run")
      /\ Changes(made, t, NULL)
      /\ lThreads' = lThreads \cup {made[t]}
      /\ Changes(pThreads, made[t], made[t])
  BY <1>0 DEF Inv, TypeOK, Changes, CreateLink, Running, Goto, table, create
<1>2. UNCHANGED <<phase, nstructs, numThreads, currentTask, pCurrentTask,
                  status, id, quantum, esp0, tmp>>
  BY DEF CreateLink, Running, Goto, table, create
<1>3. TypeOK'
  <2>1. pThreads' \in [Threads -> Threads \cup {NULL}]
    BY <1>0 DEF Inv, TypeOK, CreateLink, Running, Goto, table, create
  <2>2. lThreads' \in SUBSET Threads
    BY <1>0 DEF Inv, TypeOK, CreateLink, Running, Goto, table, create
  <2>3. priority' \in [Threads -> Priorities]
    BY <1>0, QuantumLemma DEF Inv, TypeOK, CreateLink, Running, Goto,
       table, create
  <2>4. pc' \in [Threads -> Places]
    BY <1>0 DEF Inv, TypeOK, CreateLink, Running, Goto, table, create, Places
  <2>5. made' \in [Threads -> Threads \cup {NULL}]
    BY <1>0 DEF Inv, TypeOK, CreateLink, Running, Goto, table, create
  <2>6. QED
    BY <1>2, <2>1, <2>2, <2>3, <2>4, <2>5 DEF Inv, TypeOK
<1>4. BootInv'
  BY <1>0, <1>1, <1>2 DEF Changes, MakerFact, Inv, BootInv, MakeInv, PidInv
<1>5. MakeInv'
  BY <1>0, <1>1, <1>2 DEF Changes, MakerFact, Inv, BootInv, MakeInv,
     PidInv, RunInv
<1>6. PidInv'
  BY <1>0, <1>1, <1>2 DEF Changes, MakerFact, Inv, BootInv, MakeInv,
     PidInv, RunInv
<1>7. TableInv'
  BY <1>0, <1>1, <1>2 DEF Changes, MakerFact, Inv, BootInv, MakeInv,
     PidInv, RunInv, TableInv
<1>8. RunInv'
  BY <1>0, <1>1, <1>2 DEF Changes, MakerFact, Inv, BootInv, MakeInv,
     PidInv, RunInv
<1>9. FrameInv'
  BY <1>0, <1>1, <1>2 DEF Changes, MakerFact, Inv, BootInv, MakeInv,
     PidInv, RunInv, FrameInv
<1>10. QED
  BY <1>3, <1>4, <1>5, <1>6, <1>7, <1>8, <1>9 DEF Inv

-----------------------------------------------------------------------------
(* The context switch.  pc changes only for the thread that executes int   *)
(* 0x20 itself: it will resume after that instruction.                     *)

PcAfterInterrupt ==
    \/ pc' = pc
    \/ pc[pCurrentTask] = "yield_int" /\ pc' = [pc EXCEPT ![pCurrentTask] = "run"]
    \/ pc[pCurrentTask] = "kill_int" /\ pc' = [pc EXCEPT ![pCurrentTask] = "after_kill"]

(***************************************************************************)
(* currentTask is inside the scanned part of the table, also while a       *)
(* create_kernel_thread is under way.                                      *)
(***************************************************************************)
LEMMA ScannedLemma ==
    ASSUME MakerFact, Inv, phase = "run"
    PROVE  /\ Scanned = 0 .. (numThreads - 1)
           /\ pCurrentTask \in Threads
           /\ currentTask = pCurrentTask
           /\ pCurrentTask < numThreads
           /\ numThreads \in 0 .. MAX_THREADS
           /\ nstructs \in 0 .. MAX_THREADS
           /\ pc[Maker] \in Counting => numThreads = nstructs - 1
           /\ pc[Maker] \notin Counting => numThreads = nstructs
<1>1. numThreads \in 0 .. MAX_THREADS /\ nstructs \in 0 .. MAX_THREADS
  BY DEF Inv, TypeOK
<1>2. /\ pCurrentTask \in Threads
      /\ pCurrentTask < nstructs
      /\ currentTask = pCurrentTask
  BY DEF Inv, BootInv
<1>3. /\ pc[Maker] \in Counting => numThreads = nstructs - 1 /\ made[Maker] = nstructs - 1
      /\ pc[Maker] \notin Counting => numThreads = nstructs
  BY DEF Inv, MakeInv
<1>4. made[Maker] # pCurrentTask
  BY DEF Inv, RunInv
<1>5. pCurrentTask < numThreads
  BY <1>1, <1>2, <1>3, <1>4
<1>6. QED
  BY <1>1, <1>2, <1>3, <1>5 DEF Scanned

(***************************************************************************)
(* What the first part of __task_switch does to the interrupted thread.    *)
(***************************************************************************)
LEMMA SurrenderLemma ==
    ASSUME MakerFact, Inv, phase = "run"
    PROVE  /\ Surrendered \in [Threads -> Status]
           /\ SavedFrames \in [Threads -> Frames]
           /\ SurrenderedIds \in [Threads -> Threads]
           /\ \A u \in Threads : u # pCurrentTask =>
                /\ Surrendered[u] = status[u]
                /\ SavedFrames[u] = esp0[u]
                /\ SurrenderedIds[u] = id[u]
           /\ status[pCurrentTask] = "ZOMBIE" =>
                Surrendered[pCurrentTask] = "FREE"
           /\ status[pCurrentTask] # "ZOMBIE" =>
                /\ Surrendered[pCurrentTask] = "WAIT"
                /\ SavedFrames[pCurrentTask] = "saved"
                /\ SurrenderedIds[pCurrentTask] = id[pCurrentTask]
<1>1. pCurrentTask \in Threads
  BY ScannedLemma
<1>2. status \in [Threads -> Status] /\ esp0 \in [Threads -> Frames] /\ id \in [Threads -> Threads]
  BY DEF Inv, TypeOK
<1>3. QED
  BY <1>1, <1>2 DEF Surrendered, SavedFrames, SurrenderedIds, Status, Frames

(***************************************************************************)
(* A completed switch: thread i, its own number being its slot, is         *)
(* dispatched.                                                             *)
(***************************************************************************)
SwitchTo(i) ==
    /\ i \in Threads
    /\ i < numThreads
    /\ pThreads[i] = i
    /\ currentTask' = i
    /\ pCurrentTask' = i
    /\ Surrendered[i] \in {"READY", "WAIT"}
    /\ status'[i] = "RUNNING"
    /\ esp0'[i] = "stale"
    /\ id' = SurrenderedIds
    /\ quantum' \in [Threads -> 0 .. MaxQuantum]
    /\ status' \in [Threads -> Status]
    /\ esp0' \in [Threads -> Frames]
    /\ \A u \in Threads : u # i => /\ status'[u] = Surrendered[u]
                                   /\ esp0'[u] = SavedFrames[u]
                                   /\ quantum'[u] = quantum[u]

LEMMA SwitchLemma ==
    ASSUME MakerFact, Inv, phase = "run", Switch
    PROVE  \E i \in Threads : SwitchTo(i)
<1>1. PICK i \in Scanned : IsNext(i, Surrendered) /\ Dispatch(i)
  BY DEF Switch
<1>2. i \in Threads /\ i < numThreads
  BY <1>1, ScannedLemma
<1>3. pThreads[i] # NULL /\ Surrendered[pThreads[i]] \in {"READY", "WAIT"}
  BY <1>1 DEF IsNext, Runnable
<1>4. pThreads[i] = i
  BY <1>2, <1>3 DEF Inv, TableInv
<1>5. /\ quantum \in [Threads -> 0 .. MaxQuantum]
      /\ priority[i] \in Priorities
  BY <1>2 DEF Inv, TypeOK
<1>6. /\ quantum' = [quantum EXCEPT ![i] = QuantumAmount(priority[i])]
      /\ status' = [Surrendered EXCEPT ![i] = "RUNNING"]
      /\ esp0' = [SavedFrames EXCEPT ![i] = "stale"]
      /\ currentTask' = i
      /\ pCurrentTask' = i
  BY <1>1, <1>4 DEF Dispatch
<1>7. QuantumAmount(priority[i]) \in 0 .. MaxQuantum
  BY <1>5, QuantumLemma
<1>8. /\ Surrendered \in [Threads -> Status]
      /\ SavedFrames \in [Threads -> Frames]
  BY SurrenderLemma
<1>9. id' = SurrenderedIds
  BY DEF Switch
<1>10. "RUNNING" \in Status /\ "stale" \in Frames
  BY DEF Status, Frames
<1>11. SwitchTo(i)
  BY <1>2, <1>3, <1>4, <1>5, <1>6, <1>7, <1>8, <1>9, <1>10 DEF SwitchTo
<1>12. QED
  BY <1>2, <1>11

(***************************************************************************)
(* Control while the switch happens: the pc of every thread but the        *)
(* current one is unchanged, and the current one moves only past its int.  *)
(***************************************************************************)
LEMMA PcLemma ==
    ASSUME MakerFact, Inv, phase = "run", PcAfterInterrupt
    PROVE  /\ pc' \in [Threads -> Places]
           /\ \A u \in Threads : u # pCurrentTask => pc'[u] = pc[u]
           /\ pc[pCurrentTask] \in Creating \/ pc'[pCurrentTask] \in Creating
                => pc'[pCurrentTask] = pc[pCurrentTask]
           /\ pc[pCurrentTask] \in Killing <=> pc'[pCurrentTask] \in Killing
           /\ pc[pCurrentTask] \in Unlinked <=> pc'[pCurrentTask] \in Unlinked
           /\ pc[pCurrentTask] = "run" => pc'[pCurrentTask] = "run"
           /\ pc[pCurrentTask] # "kill_int" =>
                /\ pc'[pCurrentTask] \notin {"kill_int", "after_kill"}
                     \/ pc'[pCurrentTask] = pc[pCurrentTask]
<1>1. pCurrentTask \in Threads
  BY ScannedLemma
<1>2. pc \in [Threads -> Places]
  BY DEF Inv, TypeOK
<1>3. QED
  BY <1>1, <1>2 DEF PcAfterInterrupt, Places

LEMMA CountDownInv ==
    ASSUME MakerFact, Inv, phase = "run", CountDown,
           UNCHANGED <<table, priority, create>>, PcAfterInterrupt
    PROVE  Inv'
<1>1. /\ pCurrentTask \in Threads
      /\ quantum \in [Threads -> 0 .. MaxQuantum]
      /\ quantum[pCurrentTask] > 0
      /\ quantum' = [quantum EXCEPT ![pCurrentTask] = quantum[pCurrentTask] - 1]
  BY ScannedLemma DEF CountDown, Inv, TypeOK
<1>2. UNCHANGED <<phase, nstructs, numThreads, pThreads, lThreads, currentTask,
                  pCurrentTask, status, id, priority, esp0, made, tmp>>
  BY DEF CountDown, table, create
<1>3. quantum' \in [Threads -> 0 .. MaxQuantum]
  BY <1>1 DEF MaxQuantum
<1>4. pc[pCurrentTask] # "kill_int"
  BY <1>1 DEF Inv, RunInv
<1>5. TypeOK'
  BY <1>2, <1>3, PcLemma DEF Inv, TypeOK
<1>6. BootInv'
  BY <1>2 DEF Inv, BootInv
<1>7. MakeInv'
  BY <1>1, <1>2, PcLemma DEF Inv, MakeInv, MakerFact
<1>8. PidInv'
  BY <1>1, <1>2, PcLemma DEF Inv, PidInv, MakerFact
<1>9. TableInv'
  BY <1>1, <1>2, PcLemma DEF Inv, TableInv, MakerFact
<1>10. RunInv'
  BY <1>1, <1>2, <1>4, PcLemma DEF Inv, RunInv, MakerFact
<1>11. FrameInv'
  BY <1>2 DEF Inv, FrameInv
<1>12. QED
  BY <1>5, <1>6, <1>7, <1>8, <1>9, <1>10, <1>11 DEF Inv

LEMMA SwitchInv ==
    ASSUME MakerFact, Inv, phase = "run", Switch,
           UNCHANGED <<table, priority, create>>, PcAfterInterrupt
    PROVE  Inv'
<1>1. PICK i \in Threads : SwitchTo(i)
  BY SwitchLemma
<1>2. UNCHANGED <<phase, nstructs, numThreads, pThreads, lThreads, priority,
                  made, tmp>>
  BY DEF Switch, table, create
<1>3. /\ pCurrentTask \in Threads
      /\ status[pCurrentTask] \in {"READY", "RUNNING", "ZOMBIE"}
      /\ made[Maker] # pCurrentTask
      /\ id[pCurrentTask] = pCurrentTask
      /\ i < nstructs
      /\ i # made[Maker]
  <2>1. i < nstructs /\ pCurrentTask \in Threads
    BY <1>1, ScannedLemma DEF SwitchTo
  <2>2. status[pCurrentTask] \in {"READY", "RUNNING", "ZOMBIE"} /\ made[Maker] # pCurrentTask
    BY DEF Inv, RunInv
  <2>3. id[pCurrentTask] = pCurrentTask
    BY <2>1, <2>2 DEF Inv, PidInv
  <2>4. i # made[Maker]
    BY <1>1 DEF SwitchTo, Inv, TableInv
  <2>5. QED
    BY <2>1, <2>2, <2>3, <2>4
<1>4. /\ i = pCurrentTask => status[i] # "ZOMBIE"
      /\ i # pCurrentTask => status[i] \in {"READY", "WAIT"}
      /\ pc[i] \notin Killing
      /\ pc'[i] \notin Killing
  <2>1. i = pCurrentTask => status[i] # "ZOMBIE"
    BY <1>1, SurrenderLemma DEF SwitchTo
  <2>2. i # pCurrentTask => status[i] \in {"READY", "WAIT"}
    BY <1>1, SurrenderLemma DEF SwitchTo
  <2>3. pc[i] \notin Killing
    BY <1>3, <2>1, <2>2 DEF Inv, RunInv
  <2>4. QED
    BY <2>1, <2>2, <2>3, PcLemma
<1>5. /\ \A u \in Threads : u # i /\ u # pCurrentTask => status'[u] = status[u]
                                                      /\ esp0'[u] = esp0[u]
      /\ pCurrentTask # i =>
           /\ status[pCurrentTask] = "ZOMBIE" => status'[pCurrentTask] = "FREE"
           /\ status[pCurrentTask] # "ZOMBIE" => /\ status'[pCurrentTask] = "WAIT"
                                                 /\ esp0'[pCurrentTask] = "saved"
      /\ status'[i] = "RUNNING"
      /\ \A u \in Threads : u # pCurrentTask => id'[u] = id[u]
      /\ status[pCurrentTask] # "ZOMBIE" => id'[pCurrentTask] = id[pCurrentTask]
      /\ pCurrentTask' = i
      /\ currentTask' = i
  BY <1>1, <1>3, SurrenderLemma DEF SwitchTo
<1>6. TypeOK'
  BY <1>1, <1>2, PcLemma, SurrenderLemma DEF SwitchTo, Inv, TypeOK
<1>7. BootInv'
  BY <1>2, <1>3, <1>5 DEF Inv, BootInv
<1>8. MakeInv'
  <2>1. \A c \in Threads : pc[c] \in Creating \/ pc'[c] \in Creating => pc'[c] = pc[c]
    BY <1>3, PcLemma
  <2>2. pc[Maker] \in Creating => /\ made[Maker] \in Threads
                                 /\ status'[made[Maker]] = status[made[Maker]]
    BY <1>3, <1>5, ScannedLemma DEF Inv, MakeInv, MakerFact
  <2>3. QED
    BY <1>2, <2>1, <2>2 DEF Inv, MakeInv, MakerFact
<1>9. PidInv'
  BY <1>2, <1>3, <1>4, <1>5, PcLemma DEF Inv, PidInv, MakerFact
<1>10. TableInv'
  BY <1>2, <1>3, <1>4, <1>5, PcLemma DEF Inv, TableInv, MakerFact
<1>11. RunInv'
  BY <1>2, <1>3, <1>4, <1>5, PcLemma DEF Inv, RunInv, MakerFact
<1>12. FrameInv'
  BY <1>2, <1>3, <1>4, <1>5 DEF Inv, FrameInv
<1>13. QED
  BY <1>6, <1>7, <1>8, <1>9, <1>10, <1>11, <1>12 DEF Inv

(***************************************************************************)
(* If the scan finds nothing, the interrupted thread was a zombie and      *)
(* every other thread is FREE: a thread that is alive but not yet linked   *)
(* has a creator, which is alive and linked.                               *)
(***************************************************************************)
LEMMA NothingLemma ==
    ASSUME MakerFact, Inv, phase = "run", SwitchFindsNothing
    PROVE  /\ status[pCurrentTask] = "ZOMBIE"
           /\ \A t \in Threads : t < nstructs /\ t # pCurrentTask => status[t] = "FREE"
<1>1. \A i \in Threads : i < numThreads /\ pThreads[i] = i
                           => Surrendered[i] \notin {"READY", "WAIT"}
  BY ScannedLemma DEF SwitchFindsNothing, Runnable
<1>2. /\ pCurrentTask \in Threads
      /\ pCurrentTask < numThreads
      /\ status[pCurrentTask] \in {"READY", "RUNNING", "ZOMBIE"}
      /\ made[Maker] # pCurrentTask
  BY ScannedLemma DEF Inv, RunInv
<1>3. status[pCurrentTask] = "ZOMBIE"
  <2>1. SUFFICES ASSUME status[pCurrentTask] \in {"READY", "RUNNING"} PROVE FALSE
    BY <1>2
  <2>2. pc[pCurrentTask] \notin Unlinked
    BY <1>2, <2>1 DEF Inv, RunInv
  <2>3. pThreads[pCurrentTask] = pCurrentTask
    BY <1>2, <2>1, <2>2 DEF Inv, TableInv
  <2>4. Surrendered[pCurrentTask] = "WAIT"
    BY <2>1, SurrenderLemma
  <2>5. QED
    BY <1>1, <1>2, <2>3, <2>4
<1>4. ASSUME NEW t \in Threads, t < nstructs, t # made[Maker]
      PROVE  t = pCurrentTask \/ status[t] = "FREE"
  <2>1. SUFFICES ASSUME t # pCurrentTask, status[t] # "FREE" PROVE FALSE
    OBVIOUS
  <2>2. status[t] \in {"READY", "WAIT"}
    <3>1. status[t] \in Status
      BY DEF Inv, TypeOK
    <3>2. status[t] \notin {"NONE", "INIT"}
      BY <1>4, ScannedLemma DEF Inv, PidInv
    <3>3. status[t] \notin {"RUNNING", "ZOMBIE"}
      BY <2>1 DEF Inv, RunInv
    <3>4. QED
      BY <2>1, <3>1, <3>2, <3>3 DEF Status
  <2>3. pThreads[t] = t
    <3>1. pc[t] \notin Unlinked
      BY <2>2 DEF Inv, RunInv
    <3>2. QED
      BY <1>4, <2>2, <3>1 DEF Inv, TableInv
  <2>4. t < numThreads
    <3>1. nstructs \in 0 .. MAX_THREADS
      BY ScannedLemma
    <3>2. pc[Maker] \in Counting => made[Maker] = nstructs - 1
      BY DEF Inv, MakeInv
    <3>3. QED
      BY <1>4, <3>1, <3>2, ScannedLemma
  <2>5. Surrendered[t] = status[t]
    BY <2>1, SurrenderLemma
  <2>6. QED
    BY <1>1, <2>2, <2>3, <2>4, <2>5
<1>5. pc[Maker] \notin Creating
  <2>1. SUFFICES ASSUME pc[Maker] \in Creating PROVE FALSE
    OBVIOUS
  <2>2. /\ Maker \in Threads
        /\ made[Maker] = nstructs - 1
        /\ Maker < made[Maker]
    BY <2>1 DEF MakerFact, Inv, MakeInv
  <2>3. nstructs \in 0 .. MAX_THREADS
    BY ScannedLemma
  <2>4. Maker = pCurrentTask \/ status[Maker] = "FREE"
    BY <1>4, <2>2, <2>3
  <2>5. status[Maker] \in {"ZOMBIE", "FREE"}
    BY <1>3, <2>4
  <2>6. QED
    BY <2>1, <2>2, <2>5 DEF Inv, RunInv
<1>6. made[Maker] = NULL
  BY <1>5 DEF Inv, MakeInv
<1>7. QED
  BY <1>3, <1>4, <1>6

LEMMA NothingInv ==
    ASSUME MakerFact, Inv, phase = "run", SwitchFindsNothing,
           UNCHANGED <<table, priority, create>>, PcAfterInterrupt
    PROVE  Inv'
<1>1. /\ status[pCurrentTask] = "ZOMBIE"
      /\ \A t \in Threads : t < nstructs /\ t # pCurrentTask => status[t] = "FREE"
  BY NothingLemma
<1>2. UNCHANGED <<nstructs, numThreads, pThreads, lThreads, currentTask,
                  pCurrentTask, quantum, priority, made, tmp>>
  BY DEF SwitchFindsNothing, table, create
<1>3. /\ phase' = "lost"
      /\ status' = Surrendered
      /\ esp0' = SavedFrames
      /\ id' = SurrenderedIds
      /\ pCurrentTask \in Threads
  BY ScannedLemma DEF SwitchFindsNothing
<1>4. /\ status'[pCurrentTask] = "FREE"
      /\ \A u \in Threads : u # pCurrentTask => /\ status'[u] = status[u]
                                                /\ esp0'[u] = esp0[u]
                                                /\ id'[u] = id[u]
  BY <1>1, <1>3, SurrenderLemma
<1>5. TypeOK'
  BY <1>2, <1>3, PcLemma, SurrenderLemma DEF Inv, TypeOK
<1>6. BootInv'
  BY <1>2, <1>3, ScannedLemma DEF Inv, BootInv
<1>7. MakeInv'
  <2>1. \A c \in Threads : pc[c] \in Creating \/ pc'[c] \in Creating => pc'[c] = pc[c]
    BY <1>3, PcLemma
  <2>2. made[Maker] # pCurrentTask
    BY DEF Inv, RunInv
  <2>3. pc[Maker] \in Creating => /\ made[Maker] \in Threads
                                 /\ status'[made[Maker]] = status[made[Maker]]
    BY <1>4, <2>2, ScannedLemma DEF Inv, MakeInv, MakerFact
  <2>4. QED
    BY <1>2, <1>3, <2>1, <2>3 DEF Inv, MakeInv, MakerFact
<1>8. PidInv'
  BY <1>1, <1>2, <1>3, <1>4, PcLemma DEF Inv, PidInv, MakerFact
<1>9. TableInv'
  BY <1>1, <1>2, <1>3, <1>4, PcLemma DEF Inv, TableInv, MakerFact
<1>10. RunInv'
  BY <1>1, <1>2, <1>3, <1>4, PcLemma DEF Inv, RunInv, MakerFact
<1>11. FrameInv'
  BY <1>1, <1>2, <1>3, <1>4 DEF Inv, FrameInv, PidInv, BootInv
<1>12. QED
  BY <1>5, <1>6, <1>7, <1>8, <1>9, <1>10, <1>11 DEF Inv

LEMMA TaskSwitchInv ==
    ASSUME MakerFact, Inv, phase = "run", TaskSwitch, PcAfterInterrupt
    PROVE  Inv'
  BY CountDownInv, SwitchInv, NothingInv DEF TaskSwitch

-----------------------------------------------------------------------------
(* The theorems. *)

LEMMA NextInv == ASSUME MakerFact, Inv, [Next]_vars PROVE Inv'
<1>1. CASE UNCHANGED vars
  <2>1. TypeOK'
    BY <1>1 DEF vars, Inv, TypeOK
  <2>2. BootInv' /\ MakeInv' /\ PidInv'
    BY <1>1 DEF vars, Inv, BootInv, MakeInv, PidInv
  <2>3. TableInv' /\ RunInv' /\ FrameInv'
    BY <1>1 DEF vars, Inv, TableInv, RunInv, FrameInv
  <2> QED
    BY <2>1, <2>2, <2>3 DEF Inv
<1>2. CASE InitData
  BY <1>2, InitDataInv
<1>3. CASE BootCreate
  BY <1>3, BootCreateInv
<1>4. CASE StartScheduler
  BY <1>4, StartInv
<1>5. CASE Tick
  BY <1>5, TaskSwitchInv DEF Tick, PcAfterInterrupt
<1>6. CASE Spin
  BY <1>1, <1>6 DEF Spin
<1>7. ASSUME NEW t \in Threads, Step(t) PROVE Inv'
  <2>1. CASE Yield(t)
    BY <2>1, YieldInv
  <2>2. CASE YieldInt(t)
    BY <2>2, TaskSwitchInv DEF YieldInt, Running, Goto, PcAfterInterrupt
  <2>3. CASE KillMark(t)
    BY <2>3, KillMarkInv
  <2>4. CASE KillUnlink(t)
    BY <2>4, KillUnlinkInv
  <2>5. CASE KillYield(t)
    BY <2>5, KillYieldInv
  <2>6. CASE KillInt(t)
    BY <2>6, TaskSwitchInv DEF KillInt, Running, Goto, PcAfterInterrupt
  <2>7. CASE \E p \in (-INT_PER_SLICE) .. INT_PER_SLICE : Nice(t, p)
    BY <2>7, NiceInv
  <2>8. CASE CreateAlloc(t)
    BY <2>8, CreateAllocInv
  <2>9. CASE AllocPidLoad(t)
    BY <2>9, AllocPidLoadInv
  <2>10. CASE AllocPidStore(t)
    BY <2>10, AllocPidStoreInv
  <2>11. CASE CreateLink(t)
    BY <2>11, CreateLinkInv
  <2>12. QED
    BY <1>7, <2>1, <2>2, <2>3, <2>4, <2>5, <2>6, <2>7, <2>8, <2>9, <2>10,
       <2>11 DEF Step
<1>8. QED
  BY <1>1, <1>2, <1>3, <1>4, <1>5, <1>6, <1>7 DEF Next

(***************************************************************************)
(* The inductive invariant holds in every reachable state when at most one *)
(* thread creates threads at run time.                                     *)
(***************************************************************************)
THEOREM Invariance == ASSUME OneCreator PROVE Spec => []Inv
<1>1. MakerFact
  BY MakerLemma
<1>2. Init => Inv
  BY <1>1, InitInv
<1>3. Inv /\ [Next]_vars => Inv'
  BY <1>1, NextInv
<1>4. QED
  BY <1>2, <1>3, PTL DEF Spec

(***************************************************************************)
(* Every variable keeps its type: pids stay inside pThreads, and a slice   *)
(* is always between 0 and 2 * INT_PER_SLICE - 1 ticks.                    *)
(***************************************************************************)
THEOREM TypeCorrectness == ASSUME OneCreator PROVE Spec => []TypeOK
<1>1. Inv => TypeOK
  BY DEF Inv
<1>2. QED
  BY <1>1, Invariance, PTL

(***************************************************************************)
(* Live in terms of the one creator.                                       *)
(***************************************************************************)
LEMMA LiveLemma ==
    ASSUME MakerFact, Inv
    PROVE  \A t \in Threads :
             t \in Live <=> status[t] \in {"READY", "RUNNING", "WAIT"} /\ t # made[Maker]
<1>1. \A c \in Threads : c # Maker => made[c] = NULL
  BY DEF Inv, MakeInv
<1>2. QED
  BY <1>1 DEF Live, MakerFact

LEMMA NoThreadLostLemma == ASSUME MakerFact, Inv PROVE NoThreadLost
<1>1. SUFFICES ASSUME NEW t \in Threads, t \in Live
               PROVE  t \in lThreads /\ id[t] < numThreads /\ pThreads[id[t]] = t
  BY DEF NoThreadLost, Live
<1>2. status[t] \in {"READY", "RUNNING", "WAIT"} /\ t # made[Maker]
  BY <1>1, LiveLemma
<1>3. id[t] = t /\ ~(t >= nstructs)
  BY <1>2 DEF Inv, PidInv
<1>4. pThreads[t] = t /\ t \in lThreads
  BY <1>2 DEF Inv, TableInv, RunInv
<1>5. nstructs \in 0 .. MAX_THREADS
  BY DEF Inv, TypeOK
<1>6. t < numThreads
  <2>1. phase # "reset"
    BY <1>3, <1>5 DEF Inv, BootInv
  <2>2. pc[Maker] \in Counting => made[Maker] = nstructs - 1
    BY DEF Inv, MakeInv
  <2>3. numThreads = IF pc[Maker] \in Counting THEN nstructs - 1 ELSE nstructs
    BY <2>1 DEF Inv, MakeInv
  <2>4. QED
    BY <1>2, <1>3, <1>5, <2>2, <2>3
<1>7. QED
  BY <1>3, <1>4, <1>6

(***************************************************************************)
(* No preemption of create_kernel_thread or kill loses a live thread.      *)
(***************************************************************************)
THEOREM NoThreadLostTheorem == ASSUME OneCreator PROVE Spec => []NoThreadLost
<1>1. Inv => NoThreadLost
  BY MakerLemma, NoThreadLostLemma
<1>2. QED
  BY <1>1, Invariance, PTL

LEMMA CurrentSlotLemma == ASSUME MakerFact, Inv PROVE CurrentSlot
<1>1. SUFFICES ASSUME phase = "run"
               PROVE  /\ pThreads[currentTask] =
                           IF pc[pCurrentTask] \in {"kill_yield", "kill_int"}
                             THEN NULL ELSE pCurrentTask
                      /\ \A t \in Threads : status[t] = "RUNNING" => t = pCurrentTask
  BY DEF CurrentSlot
<1>2. /\ pCurrentTask \in Threads
      /\ currentTask = pCurrentTask
  BY <1>1, ScannedLemma
<1>3. /\ status[pCurrentTask] \in {"READY", "RUNNING", "ZOMBIE"}
      /\ made[Maker] # pCurrentTask
      /\ pc[pCurrentTask] # "after_kill"
      /\ \A t \in Threads : status[t] = "RUNNING" => t = pCurrentTask
  BY <1>1, <1>2 DEF Inv, RunInv
<1>4. QED
  BY <1>2, <1>3 DEF Inv, TableInv

(***************************************************************************)
(* While a thread runs, pThreads[currentTask] is its own slot.             *)
(***************************************************************************)
THEOREM CurrentSlotTheorem == ASSUME OneCreator PROVE Spec => []CurrentSlot
<1>1. Inv => CurrentSlot
  BY MakerLemma, CurrentSlotLemma
<1>2. QED
  BY <1>1, Invariance, PTL

(***************************************************************************)
(* kill() does not return.                                                 *)
(***************************************************************************)
THEOREM KillNeverReturnsTheorem == ASSUME OneCreator PROVE Spec => []KillNeverReturns
<1>1. Inv => KillNeverReturns
  BY ScannedLemma, MakerLemma DEF KillNeverReturns, Inv, RunInv
<1>2. QED
  BY <1>1, Invariance, PTL

(***************************************************************************)
(* The scan of __task_switch ends unless every thread has been reaped.     *)
(***************************************************************************)
THEOREM LostOnlyWhenAllDeadTheorem ==
    ASSUME OneCreator PROVE Spec => []LostOnlyWhenAllDead
<1>1. Inv => LostOnlyWhenAllDead
  <2>1. Inv => nstructs \in 0 .. MAX_THREADS
    BY DEF Inv, TypeOK
  <2>2. QED
    BY <2>1 DEF LostOnlyWhenAllDead, Inv, RunInv
<1>2. QED
  BY <1>1, Invariance, PTL

(***************************************************************************)
(* With one creator, live threads have distinct pids.                      *)
(***************************************************************************)
THEOREM UniquePidsTheorem == ASSUME OneCreator PROVE Spec => []UniquePids
<1>1. Inv => UniquePids
  BY DEF UniquePids, Live, Inv, PidInv
<1>2. QED
  BY <1>1, Invariance, PTL

(***************************************************************************)
(* The two action properties, for one step.                                *)
(***************************************************************************)
LEMMA TaskSwitchStep ==
    ASSUME MakerFact, Inv, phase = "run", TaskSwitch, NEW t \in Threads
    PROVE  /\ pCurrentTask # t /\ pCurrentTask' = t => esp0[t] \in {"entry", "saved"}
           /\ t \in Dead => status'[t] = "FREE" \/ status'[t] = status[t]
<1>1. CASE CountDown
  BY <1>1 DEF CountDown
<1>2. CASE Switch
  <2>1. PICK i \in Threads : SwitchTo(i)
    BY <1>2, SwitchLemma
  <2>2. ASSUME pCurrentTask # t, pCurrentTask' = t
        PROVE  esp0[t] \in {"entry", "saved"}
    <3>1. t = i /\ Surrendered[t] \in {"READY", "WAIT"}
      BY <2>1, <2>2 DEF SwitchTo
    <3>2. status[t] \in {"READY", "WAIT"}
      BY <2>2, <3>1, SurrenderLemma
    <3>3. QED
      BY <2>2, <3>2 DEF Inv, FrameInv
  <2>3. ASSUME t \in Dead
        PROVE  status'[t] = "FREE" \/ status'[t] = status[t]
    <3>1. status[t] \in {"ZOMBIE", "FREE"}
      BY <2>3 DEF Dead
    <3>2. Surrendered[t] = "FREE" \/ Surrendered[t] = status[t]
      <4>1. CASE t = pCurrentTask
        <5>1. status[t] \in {"READY", "RUNNING", "ZOMBIE"}
          BY <4>1 DEF Inv, RunInv
        <5>2. QED
          BY <3>1, <4>1, <5>1, SurrenderLemma
      <4>2. CASE t # pCurrentTask
        BY <4>2, SurrenderLemma
      <4>3. QED
        BY <4>1, <4>2
    <3>3. t # i
      BY <2>1, <3>1, <3>2 DEF SwitchTo
    <3>4. QED
      BY <2>1, <3>2, <3>3 DEF SwitchTo
  <2>4. QED
    BY <2>2, <2>3
<1>3. CASE SwitchFindsNothing
  <2>1. status' = Surrendered /\ pCurrentTask' = pCurrentTask
    BY <1>3 DEF SwitchFindsNothing
  <2>2. status[pCurrentTask] = "ZOMBIE"
    BY <1>3, NothingLemma
  <2>3. QED
    BY <2>1, <2>2, SurrenderLemma
<1>4. QED
  BY <1>1, <1>2, <1>3 DEF TaskSwitch

LEMMA StepProperties ==
    ASSUME MakerFact, Inv, Next, NEW t \in Threads
    PROVE  /\ pCurrentTask # NULL /\ pCurrentTask # t /\ pCurrentTask' = t
                => esp0[t] \in {"entry", "saved"}
           /\ t \in Dead => status'[t] = "FREE" \/ status'[t] = status[t]
<1> DEFINE Frame == pCurrentTask # NULL /\ pCurrentTask # t /\ pCurrentTask' = t
                      => esp0[t] \in {"entry", "saved"}
           Stays == t \in Dead => status'[t] = "FREE" \/ status'[t] = status[t]
<1>1. CASE InitData
  BY <1>1 DEF InitData
<1>2. CASE BootCreate
  <2>1. pCurrentTask' = pCurrentTask /\ status' = [status EXCEPT ![nstructs] = "READY"]
    BY <1>2 DEF BootCreate
  <2>2. t \in Dead => t # nstructs
    BY DEF Dead, Inv, PidInv
  <2>3. status \in [Threads -> Status]
    BY DEF Inv, TypeOK
  <2>4. QED
    BY <2>1, <2>2, <2>3
<1>3. CASE StartScheduler
  <2>1. pCurrentTask = NULL
    BY <1>3 DEF StartScheduler, Inv, BootInv
  <2>2. status' = status
    BY <1>3 DEF StartScheduler
  <2>3. QED
    BY <2>1, <2>2
<1>4. CASE phase = "run" /\ TaskSwitch
  BY <1>4, TaskSwitchStep
<1>5. CASE Spin
  BY <1>5 DEF Spin, vars
<1>6. ASSUME NEW u \in Threads, Step(u) PROVE Frame /\ Stays
  <2>1. CASE YieldInt(u) \/ KillInt(u)
    BY <1>4, <2>1 DEF YieldInt, KillInt, Running
  <2>2. CASE \/ Yield(u) \/ KillUnlink(u) \/ KillYield(u) \/ AllocPidLoad(u)
             \/ CreateLink(u) \/ \E p \in (-INT_PER_SLICE) .. INT_PER_SLICE : Nice(u, p)
    <3>1. pCurrentTask' = pCurrentTask /\ status' = status
      BY <2>2 DEF Yield, KillUnlink, KillYield, AllocPidLoad, CreateLink, Nice
    <3>2. QED
      BY <3>1
  <2>3. CASE KillMark(u)
    <3>1. /\ pCurrentTask' = pCurrentTask
          /\ status' = [status EXCEPT ![u] = "ZOMBIE"]
          /\ pc[u] = "run"
      BY <2>3 DEF KillMark, Running
    <3>2. t \in Dead => t # u
      BY <3>1 DEF Dead, Inv, RunInv
    <3>3. status \in [Threads -> Status]
      BY DEF Inv, TypeOK
    <3>4. QED
      BY <3>1, <3>2, <3>3
  <2>4. CASE CreateAlloc(u)
    <3>1. pCurrentTask' = pCurrentTask /\ status' = [status EXCEPT ![nstructs] = "INIT"]
      BY <2>4 DEF CreateAlloc
    <3>2. t \in Dead => t # nstructs
      BY DEF Dead, Inv, PidInv
    <3>3. status \in [Threads -> Status]
      BY DEF Inv, TypeOK
    <3>4. QED
      BY <3>1, <3>2, <3>3
  <2>5. CASE AllocPidStore(u)
    <3>1. /\ pCurrentTask' = pCurrentTask
          /\ status' = [status EXCEPT ![made[u]] = "READY"]
          /\ pc[u] = "create_store"
      BY <2>5 DEF AllocPidStore, Running
    <3>2. u = Maker
      BY <1>6, <3>1 DEF Inv, MakeInv
    <3>3. status[made[u]] = "INIT"
      BY <3>1, <3>2 DEF Inv, MakeInv
    <3>4. t \in Dead => t # made[u]
      BY <3>3 DEF Dead
    <3>5. status \in [Threads -> Status]
      BY DEF Inv, TypeOK
    <3>6. QED
      BY <3>1, <3>4, <3>5
  <2>6. QED
    BY <1>6, <2>1, <2>2, <2>3, <2>4, <2>5 DEF Step
<1>7. QED
  BY <1>1, <1>2, <1>3, <1>4, <1>5, <1>6 DEF Next, Tick

(***************************************************************************)
(* A switch only ever restores a complete register frame; init's frame     *)
(* with EIP = 0 and the stack of a reaped thread are never restored.       *)
(***************************************************************************)
THEOREM RestoresCompleteFrameTheorem ==
    ASSUME OneCreator PROVE Spec => RestoresCompleteFrame
<1> DEFINE A == \A t \in Threads :
                  pCurrentTask # NULL /\ pCurrentTask # t /\ pCurrentTask' = t
                    => esp0[t] \in {"entry", "saved"}
<1>1. Inv /\ [Next]_vars => [A]_vars
  BY MakerLemma, StepProperties
<1>2. QED
  BY <1>1, Invariance, PTL DEF Spec, RestoresCompleteFrame

(***************************************************************************)
(* No tick between the statements of kill() brings a killed thread back.   *)
(***************************************************************************)
THEOREM NoResurrectionTheorem == ASSUME OneCreator PROVE Spec => NoResurrection
<1> DEFINE A == \A t \in Threads :
                  t \in Dead => status'[t] = "FREE" \/ status'[t] = status[t]
<1>1. Inv /\ [Next]_vars => [A]_vars
  BY MakerLemma, StepProperties
<1>2. QED
  BY <1>1, Invariance, PTL DEF Spec, NoResurrection

-----------------------------------------------------------------------------
(* Refinement of CpuSharing. *)

Holder == IF phase = "lost" THEN NULL ELSE pCurrentTask

LEMMA HolderLemma ==
    ASSUME MakerFact, Inv, phase = "run"
    PROVE  /\ Holder = pCurrentTask
           /\ pCurrentTask \in Threads
           /\ pCurrentTask \in Live <=> status[pCurrentTask] \in {"READY", "RUNNING"}
           /\ pCurrentTask \in Dead <=> status[pCurrentTask] = "ZOMBIE"
<1>1. /\ status[pCurrentTask] \in {"READY", "RUNNING", "ZOMBIE"}
      /\ made[Maker] # pCurrentTask
  BY DEF Inv, RunInv
<1>2. QED
  BY <1>1, ScannedLemma, LiveLemma DEF Holder, Dead

LEMMA RefineSwitch ==
    ASSUME MakerFact, Inv, Inv', phase = "run", Switch, UNCHANGED <<table, create>>
    PROVE  Holder' \in Live /\ Live' = Live /\ Dead' = Dead
<1>1. PICK i \in Threads : SwitchTo(i)
  BY SwitchLemma
<1>2. phase' = phase /\ made' = made
  BY DEF Switch, create
<1>3. /\ status[pCurrentTask] \in {"READY", "RUNNING", "ZOMBIE"}
      /\ pCurrentTask \in Threads
  BY ScannedLemma DEF Inv, RunInv
<1>4. i # made[Maker]
  BY <1>1 DEF SwitchTo, Inv, TableInv
<1>5. i = pCurrentTask => status[i] \in {"READY", "RUNNING"}
  BY <1>1, <1>3, SurrenderLemma DEF SwitchTo
<1>6. i # pCurrentTask => status[i] \in {"READY", "WAIT"}
  BY <1>1, SurrenderLemma DEF SwitchTo
<1>7. ASSUME NEW u \in Threads
      PROVE  /\ status'[u] \in {"READY", "RUNNING", "WAIT"}
                  <=> status[u] \in {"READY", "RUNNING", "WAIT"}
             /\ status'[u] \in {"ZOMBIE", "FREE"} <=> status[u] \in {"ZOMBIE", "FREE"}
  <2>1. CASE u = i
    BY <1>1, <1>5, <1>6, <2>1 DEF SwitchTo
  <2>2. CASE u # i /\ u = pCurrentTask
    <3>1. status'[u] = Surrendered[u]
      BY <1>1, <2>2 DEF SwitchTo
    <3>2. QED
      BY <1>3, <2>2, <3>1, SurrenderLemma
  <2>3. CASE u # i /\ u # pCurrentTask
    BY <1>1, <2>3, SurrenderLemma DEF SwitchTo
  <2>4. QED
    BY <2>1, <2>2, <2>3
<1>8. Live' = Live
  BY <1>2, <1>7 DEF Live
<1>9. Dead' = Dead
  BY <1>7 DEF Dead
<1>10. i \in Live
  BY <1>4, <1>5, <1>6, LiveLemma
<1>11. Holder' = i
  BY <1>1, <1>2 DEF SwitchTo, Holder
<1>12. QED
  BY <1>8, <1>9, <1>10, <1>11

LEMMA RefineNothing ==
    ASSUME MakerFact, Inv, phase = "run", SwitchFindsNothing, UNCHANGED <<table, create>>
    PROVE  /\ Live = {} /\ Holder \in Dead /\ Holder' = NULL
           /\ Live' = Live /\ Dead' = Dead
<1>1. /\ status[pCurrentTask] = "ZOMBIE"
      /\ \A t \in Threads : t < nstructs /\ t # pCurrentTask => status[t] = "FREE"
  BY NothingLemma
<1>2. /\ phase' = "lost" /\ status' = Surrendered /\ made' = made
  BY DEF SwitchFindsNothing, create
<1>3. \A t \in Threads : status[t] \in {"NONE", "ZOMBIE", "FREE"}
  BY <1>1, ScannedLemma DEF Inv, PidInv
<1>4. \A t \in Threads : status'[t] \in {"NONE", "ZOMBIE", "FREE"}
                           /\ (status'[t] = "NONE" <=> status[t] = "NONE")
  BY <1>1, <1>2, <1>3, SurrenderLemma
<1>5. Live = {} /\ Live' = {}
  BY <1>3, <1>4 DEF Live
<1>6. Dead' = Dead
  BY <1>3, <1>4 DEF Dead
<1>7. Holder \in Dead
  BY <1>1, HolderLemma
<1>8. QED
  BY <1>2, <1>5, <1>6, <1>7 DEF Holder

(***************************************************************************)
(* A step that only prepares or ends a call maps to a stuttering step.     *)
(***************************************************************************)
Stutters == Live' = Live /\ Dead' = Dead /\ Holder' = Holder

AbstractStep ==
    \/ Stutters
    \/ /\ \E t \in Threads \ (Live \cup Dead) : Live' = Live \cup {t}
       /\ Dead' = Dead /\ Holder' = Holder
    \/ Holder' \in Live /\ Live' = Live /\ Dead' = Dead
    \/ /\ Holder \in Live /\ Live' = Live \ {Holder}
       /\ Dead' = Dead \cup {Holder} /\ Holder' = Holder
    \/ /\ Live = {} /\ Holder \in Dead /\ Holder' = NULL
       /\ Live' = Live /\ Dead' = Dead

LEMMA RefineStep ==
    ASSUME MakerFact, Inv, Inv', [Next]_vars
    PROVE  AbstractStep
<1> USE DEF AbstractStep
<1>1. CASE UNCHANGED vars
  BY <1>1 DEF vars, Stutters, Live, Dead, Holder
<1>2. CASE InitData
  BY <1>2 DEF InitData, Stutters, Live, Dead, Holder
<1>3. CASE BootCreate
  <2>1. /\ nstructs \in 0 .. MAX_THREADS
        /\ phase = "boot"
        /\ numThreads < NBOOT
        /\ status \in [Threads -> Status]
    BY <1>3 DEF BootCreate, Inv, TypeOK
  <2>2. nstructs \in Threads /\ status[nstructs] = "NONE"
    BY <2>1 DEF Inv, BootInv, MakeInv, PidInv, MakerFact
  <2>3. \A t \in Threads : made[t] = NULL
    BY <2>1 DEF Inv, BootInv
  <2>4. /\ status' = [status EXCEPT ![nstructs] = "READY"]
        /\ UNCHANGED <<phase, pCurrentTask, made>>
    BY <1>3 DEF BootCreate
  <2>5. nstructs \in Threads \ (Live \cup Dead)
    BY <2>2 DEF Live, Dead
  <2>6. Live' = Live \cup {nstructs} /\ Dead' = Dead /\ Holder' = Holder
    BY <2>1, <2>2, <2>3, <2>4 DEF Live, Dead, Holder
  <2>7. QED
    BY <2>5, <2>6
<1>4. CASE StartScheduler
  <2>1. phase = "boot" /\ phase' = "run" /\ UNCHANGED <<status, made>>
    BY <1>4 DEF StartScheduler
  <2>2. Live' = Live /\ Dead' = Dead
    BY <2>1 DEF Live, Dead
  <2>3. /\ pCurrentTask' \in Threads
        /\ status'[pCurrentTask'] \in {"READY", "RUNNING", "ZOMBIE"}
        /\ Holder' = pCurrentTask'
    BY <2>1 DEF Inv, BootInv, RunInv, Holder
  <2>4. /\ status[pCurrentTask'] \in {"NONE", "READY"}
        /\ \A c \in Threads : made[c] = NULL
    BY <2>1, <2>3 DEF Inv, BootInv
  <2>5. Holder' \in Live
    BY <2>1, <2>3, <2>4 DEF Live
  <2>6. QED
    BY <2>2, <2>5
<1>5. ASSUME phase = "run", TaskSwitch PROVE AbstractStep
  <2>1. UNCHANGED <<table, create>>
    BY <1>5 DEF TaskSwitch
  <2>2. CASE CountDown
    BY <2>1, <2>2 DEF CountDown, create, Stutters, Live, Dead, Holder
  <2>3. CASE Switch
    BY <1>5, <2>1, <2>3, RefineSwitch
  <2>4. CASE SwitchFindsNothing
    BY <1>5, <2>1, <2>4, RefineNothing
  <2>5. QED
    BY <1>5, <2>2, <2>3, <2>4 DEF TaskSwitch
<1>6. ASSUME NEW u \in Threads, Step(u) PROVE AbstractStep
  <2>1. CASE YieldInt(u) \/ KillInt(u)
    BY <1>5, <2>1 DEF YieldInt, KillInt, Running
  <2>2. CASE \/ Yield(u) \/ KillUnlink(u) \/ KillYield(u) \/ AllocPidLoad(u)
             \/ \E p \in (-INT_PER_SLICE) .. INT_PER_SLICE : Nice(u, p)
    <3>1. UNCHANGED <<phase, pCurrentTask, status, made>>
      BY <2>2 DEF Yield, KillUnlink, KillYield, AllocPidLoad, Nice, create
    <3>2. QED
      BY <3>1 DEF Stutters, Live, Dead, Holder
  <2>3. CASE KillMark(u)
    <3>1. /\ UNCHANGED <<phase, pCurrentTask, made>>
          /\ status' = [status EXCEPT ![u] = "ZOMBIE"]
          /\ pc[u] = "run"
          /\ u = pCurrentTask
          /\ phase = "run"
          /\ status \in [Threads -> Status]
      BY <2>3 DEF KillMark, Running, create, Inv, TypeOK
    <3>2. status[u] \in {"READY", "RUNNING"}
      BY <3>1 DEF Inv, RunInv
    <3>3. u \in Live /\ Holder = u /\ Holder' = u
      BY <3>1, <3>2, HolderLemma DEF Holder
    <3>4. Live' = Live \ {u} /\ Dead' = Dead \cup {u}
      BY <3>1 DEF Live, Dead
    <3>5. QED
      BY <3>3, <3>4
  <2>4. CASE CreateAlloc(u)
    <3>1. /\ UNCHANGED <<phase, pCurrentTask>>
          /\ status' = [status EXCEPT ![nstructs] = "INIT"]
          /\ made' = [made EXCEPT ![u] = nstructs]
          /\ pc[u] = "run"
          /\ status \in [Threads -> Status]
          /\ made \in [Threads -> Threads \cup {NULL}]
      BY <2>4 DEF CreateAlloc, Running, Inv, TypeOK
    <3>2. made[u] = NULL
      BY <1>6, <3>1 DEF Inv, MakeInv
    <3>3. \A t \in Threads : t = nstructs => status[t] = "NONE"
      BY DEF Inv, PidInv
    <3>4. Live' = Live /\ Dead' = Dead
      BY <3>1, <3>2, <3>3 DEF Live, Dead
    <3>5. QED
      BY <3>1, <3>4 DEF Stutters, Holder
  <2>5. CASE AllocPidStore(u)
    <3>1. /\ UNCHANGED <<phase, pCurrentTask, made>>
          /\ status' = [status EXCEPT ![made[u]] = "READY"]
          /\ pc[u] = "create_store"
          /\ status \in [Threads -> Status]
      BY <2>5 DEF AllocPidStore, Running, create, Inv, TypeOK
    <3>2. u = Maker
      BY <1>6, <3>1 DEF Inv, MakeInv
    <3>3. status[made[u]] = "INIT"
      BY <3>1, <3>2 DEF Inv, MakeInv
    <3>4. Live' = Live /\ Dead' = Dead
      BY <3>1, <3>3 DEF Live, Dead
    <3>5. QED
      BY <3>1, <3>4 DEF Stutters, Holder
  <2>6. CASE CreateLink(u)
    <3>1. /\ UNCHANGED <<phase, pCurrentTask, status>>
          /\ made' = [made EXCEPT ![u] = NULL]
          /\ pc[u] = "create_link"
          /\ made \in [Threads -> Threads \cup {NULL}]
          /\ nstructs \in 0 .. MAX_THREADS
      BY <2>6 DEF CreateLink, Running, Inv, TypeOK
    <3>2. u = Maker
      BY <1>6, <3>1 DEF Inv, MakeInv
    <3>3. status[made[u]] = "READY" /\ made[u] \in Threads
      BY <3>1, <3>2 DEF Inv, MakeInv, MakerFact
    <3>4. \A c \in Threads : c # u => made[c] = NULL
      BY <3>2 DEF Inv, MakeInv
    <3>5. made[u] \in Threads \ (Live \cup Dead)
      BY <3>3, <1>6 DEF Live, Dead
    <3>6. Live' = Live \cup {made[u]} /\ Dead' = Dead
      BY <1>6, <3>1, <3>3, <3>4 DEF Live, Dead
    <3>7. QED
      BY <3>1, <3>5, <3>6 DEF Holder
  <2>7. QED
    BY <1>6, <2>1, <2>2, <2>3, <2>4, <2>5, <2>6 DEF Step
<1>7. QED
  BY <1>1, <1>2, <1>3, <1>4, <1>5, <1>6 DEF Next, Tick, Spin

(***************************************************************************)
(* The scheduler implements CpuSharing: threads are born and die once, die *)
(* only by their own kill(), and only live ones get the processor.         *)
(***************************************************************************)
THEOREM Refinement == ASSUME OneCreator PROVE Spec => ImplementsCpuSharing
<1>1. Init => CPU!Init
  BY DEF Init, CPU!Init, Live, Dead
<1>2. Inv /\ Inv' /\ [Next]_vars => [CPU!Next]_(CPU!vars)
  <2>1. SUFFICES ASSUME Inv, Inv', [Next]_vars PROVE [CPU!Next]_(CPU!vars)
    OBVIOUS
  <2>2. MakerFact
    BY MakerLemma
  <2>3. QED
    BY <2>1, <2>2, RefineStep
       DEF AbstractStep, Stutters, Holder, CPU!Next, CPU!vars, CPU!Spawn, CPU!Give, CPU!Die, CPU!Halt
<1>3. QED
  BY <1>1, <1>2, Invariance, PTL DEF Spec, CPU!Spec, ImplementsCpuSharing

-----------------------------------------------------------------------------
(* Round robin. *)

(***************************************************************************)
(* The scan that leaves t and comes to c passes u.                         *)
(***************************************************************************)
Passed(t, u, c) == IF t < c THEN t < u /\ u <= c ELSE t < u \/ u <= c

(***************************************************************************)
(* Only threads the scan has passed since it left t ran while t waited.    *)
(***************************************************************************)
RoundInv ==
    /\ ran \in [Threads -> SUBSET Threads]
    /\ \A t \in Threads :
         /\ t \notin Live \/ t = pCurrentTask \/ phase \in {"reset", "boot"} => ran[t] = {}
         /\ phase = "run" /\ t # pCurrentTask => \A u \in ran[t] : Passed(t, u, currentTask)

Quiet ==
    /\ UNCHANGED <<pCurrentTask, currentTask>>
    /\ ~Given
    /\ phase' \in {"reset", "boot"} => phase \in {"reset", "boot"}
    /\ phase' = "run" => phase = "run"

Starts ==
    /\ phase = "boot" /\ phase' = "run"
    /\ pCurrentTask' = 0 /\ currentTask' = 0

(***************************************************************************)
(* A switch to i, the first runnable thread the scan meets.                *)
(***************************************************************************)
SwitchFirst(i) ==
    /\ phase = "run" /\ phase' = "run"
    /\ SwitchTo(i)
    /\ UNCHANGED made
    /\ \A j \in Threads :
         j < numThreads /\ pThreads[j] = j /\ Surrendered[j] \in {"READY", "WAIT"}
           => IF i > currentTask THEN j > currentTask => i <= j
                                 ELSE j <= currentTask /\ i <= j

LEMMA SwitchFirstLemma ==
    ASSUME MakerFact, Inv, phase = "run", Switch, UNCHANGED made
    PROVE  \E i \in Threads : SwitchFirst(i)
<1>1. PICK i \in Scanned : IsNext(i, Surrendered) /\ Dispatch(i)
  BY DEF Switch
<1>2. PICK k \in Threads : SwitchTo(k)
  BY SwitchLemma
<1>3. k = i
  BY <1>1, <1>2 DEF SwitchTo, Dispatch
<1>4. Scanned = 0 .. (numThreads - 1) /\ numThreads \in 0 .. MAX_THREADS
  BY ScannedLemma
<1>5. ASSUME NEW j \in Threads, j < numThreads, pThreads[j] = j,
             Surrendered[j] \in {"READY", "WAIT"}
      PROVE  j \in Runnable(Surrendered)
  BY <1>4, <1>5 DEF Runnable
<1>6. phase' = "run"
  BY DEF Switch
<1> QED
  BY <1>1, <1>2, <1>3, <1>5, <1>6 DEF SwitchFirst, IsNext

LEMMA TaskSwitchKinds ==
    ASSUME MakerFact, Inv, phase = "run", TaskSwitch
    PROVE  Quiet \/ \E i \in Threads : SwitchFirst(i)
<1>1. UNCHANGED made /\ quantum \in [Threads -> 0 .. MaxQuantum] /\ pCurrentTask \in Threads
  BY ScannedLemma DEF TaskSwitch, create, Inv, TypeOK
<1>2. CASE CountDown
  <2>1. PICK q \in 0 .. MaxQuantum : q = quantum[pCurrentTask]
    BY <1>1
  <2>2. quantum'[pCurrentTask] = q - 1 /\ UNCHANGED <<pCurrentTask, currentTask, phase>>
    BY <1>1, <1>2, <2>1 DEF CountDown
  <2>3. ~(q - 1 > q)
    BY <2>1 DEF MaxQuantum
  <2> QED
    BY <2>1, <2>2, <2>3 DEF Quiet, Given
<1>3. CASE Switch
  BY <1>1, <1>3, SwitchFirstLemma
<1>4. CASE SwitchFindsNothing
  <2>1. /\ UNCHANGED <<pCurrentTask, currentTask, quantum>>
        /\ phase' = "lost"
    BY <1>4 DEF SwitchFindsNothing
  <2>2. PICK q \in 0 .. MaxQuantum : q = quantum[pCurrentTask]
    BY <1>1
  <2>3. ~(q > q)
    BY <2>2 DEF MaxQuantum
  <2> QED
    BY <2>1, <2>2, <2>3 DEF Quiet, Given
<1> QED
  BY <1>2, <1>3, <1>4 DEF TaskSwitch

LEMMA StepKinds ==
    ASSUME MakerFact, Inv, Next
    PROVE  Quiet \/ Starts \/ \E i \in Threads : SwitchFirst(i)
<1>0. quantum \in [Threads -> 0 .. MaxQuantum]
  BY DEF Inv, TypeOK
<1>1. CASE InitData \/ BootCreate
  <2>1. pCurrentTask = NULL /\ UNCHANGED <<pCurrentTask, currentTask>>
    BY <1>1 DEF InitData, BootCreate, Inv, BootInv
  <2>2. phase \in {"reset", "boot"} /\ phase' = "boot"
    BY <1>1 DEF InitData, BootCreate
  <2> QED
    BY <2>1, <2>2 DEF Quiet, Given
<1>2. CASE StartScheduler
  <2>1. Inv'
    BY <1>2, StartInv
  <2>2. phase = "boot" /\ phase' = "run" /\ currentTask' = 0
    BY <1>2 DEF StartScheduler
  <2>3. pCurrentTask' = 0
    BY <2>1, <2>2 DEF Inv, BootInv
  <2> QED
    BY <2>2, <2>3 DEF Starts
<1>3. CASE phase = "run" /\ TaskSwitch
  BY <1>3, TaskSwitchKinds
<1>4. CASE Spin
  <2>1. UNCHANGED <<pCurrentTask, currentTask, quantum, phase>>
    BY <1>4 DEF Spin, vars
  <2>2. pCurrentTask \in Threads
    BY <1>4 DEF Spin, Inv, BootInv
  <2>3. PICK q \in 0 .. MaxQuantum : q = quantum[pCurrentTask]
    BY <1>0, <2>2
  <2>4. ~(q > q)
    BY <2>3 DEF MaxQuantum
  <2> QED
    BY <2>1, <2>3, <2>4 DEF Quiet, Given
<1>5. ASSUME NEW u \in Threads, Step(u)
      PROVE  Quiet \/ \E i \in Threads : SwitchFirst(i)
  <2>1. CASE YieldInt(u) \/ KillInt(u)
    BY <1>3, <2>1, TaskSwitchKinds DEF YieldInt, KillInt, Running
  <2>2. CASE ~(YieldInt(u) \/ KillInt(u))
    <3>1. /\ phase = "run" /\ u = pCurrentTask
          /\ UNCHANGED <<pCurrentTask, currentTask, phase>>
      BY <1>5, <2>2 DEF Step, Yield, KillMark, KillUnlink, KillYield, Nice, CreateAlloc,
                        AllocPidLoad, AllocPidStore, CreateLink, Running
    <3>2. /\ pc[u] = "create_store" => u = Maker
          /\ made[Maker] # u
      BY <3>1 DEF Inv, MakeInv, RunInv
    <3>3. quantum'[u] = quantum[u] \/ quantum'[u] = 0
      BY <1>0, <1>5, <2>2, <3>2 DEF Step, Yield, KillMark, KillUnlink, KillYield, Nice,
                  CreateAlloc, AllocPidLoad, AllocPidStore, CreateLink, Running
    <3>4. PICK q \in 0 .. MaxQuantum : q = quantum[u]
      BY <1>0
    <3>5. ~(q > q) /\ ~(0 > q)
      BY <3>4 DEF MaxQuantum
    <3> QED
      BY <3>1, <3>3, <3>4, <3>5 DEF Quiet, Given
  <2> QED
    BY <2>1, <2>2
<1> QED
  BY <1>1, <1>2, <1>3, <1>4, <1>5 DEF Next, Tick

(***************************************************************************)
(* The thread the scan meets first lies before every thread that waits.    *)
(***************************************************************************)
LEMMA WaitingIsPassed ==
    ASSUME MakerFact, Inv, NEW i \in Threads, SwitchFirst(i),
           NEW t \in Threads, t \in Live, t # pCurrentTask, t # i
    PROVE  ~Passed(t, i, currentTask)
<1>1. status[t] \in {"READY", "WAIT"}
  BY LiveLemma DEF Inv, RunInv
<1>2. Surrendered[t] = status[t] /\ currentTask \in Threads /\ currentTask = pCurrentTask
  BY SurrenderLemma, ScannedLemma DEF SwitchFirst
<1>3. t < numThreads /\ pThreads[t] = t
  BY <1>1, NoThreadLostLemma DEF NoThreadLost, Inv, PidInv
<1>4. IF i > currentTask THEN t > currentTask => i <= t
                         ELSE t <= currentTask /\ i <= t
  BY <1>1, <1>2, <1>3 DEF SwitchFirst
<1> QED
  BY <1>2, <1>4 DEF Passed

LEMMA PassedAdvances ==
    ASSUME NEW t \in Threads, NEW c \in Threads, NEW i \in Threads, i # t,
           ~Passed(t, i, c)
    PROVE  /\ Passed(t, i, i)
           /\ \A u \in Threads : Passed(t, u, c) => Passed(t, u, i)
  BY DEF Passed

(***************************************************************************)
(* One step of round robin.                                                *)
(***************************************************************************)
LEMMA BypassStep ==
    ASSUME MakerFact, Inv, RoundInv, BypassNext
    PROVE  /\ RoundInv'
           /\ Given => \A t \in Live \cap Live' :
                t # pCurrentTask' => pCurrentTask' \notin ran[t]
<1> DEFINE Fair == Given => \A t \in Live \cap Live' :
                     t # pCurrentTask' => pCurrentTask' \notin ran[t]
<1>0. /\ Next
      /\ ran' = [t \in Threads |->
                   IF t \notin Live' \/ t = pCurrentTask' THEN {}
                   ELSE IF Given THEN ran[t] \cup {pCurrentTask'}
                   ELSE ran[t]]
      /\ ran \in [Threads -> SUBSET Threads]
  BY DEF BypassNext, RoundInv
<1>1. CASE Quiet
  <2>1. ran' = [t \in Threads |-> IF t \notin Live' \/ t = pCurrentTask' THEN {} ELSE ran[t]]
    BY <1>0, <1>1 DEF Quiet
  <2>2. RoundInv'
    BY <1>0, <1>1, <2>1 DEF RoundInv, Quiet
  <2> QED
    BY <1>1, <2>2 DEF Quiet
<1>2. CASE Starts
  <2>1. \A t \in Threads : ran[t] = {}
    BY <1>2 DEF Starts, RoundInv
  <2>2. \A t \in Threads : ran'[t] \subseteq {0}
                           /\ (t \notin Live' \/ t = pCurrentTask' => ran'[t] = {})
    BY <1>0, <1>2, <2>1 DEF Starts
  <2>3. ran' \in [Threads -> SUBSET Threads] /\ 0 \in Threads
    BY <1>0, <2>2
  <2>4. \A t \in Threads : t # 0 => Passed(t, 0, 0)
    BY DEF Passed
  <2>5. RoundInv'
    BY <1>2, <2>2, <2>3, <2>4 DEF RoundInv, Starts
  <2>6. Fair
    BY <2>1 DEF Live
  <2> QED
    BY <2>5, <2>6
<1>3. ASSUME NEW i \in Threads, SwitchFirst(i) PROVE RoundInv' /\ Fair
  <2>1. /\ phase = "run" /\ phase' = "run" /\ UNCHANGED made
        /\ pCurrentTask' = i /\ currentTask' = i
        /\ \A u \in Threads : u # i => status'[u] = Surrendered[u]
    BY <1>3 DEF SwitchFirst, SwitchTo
  <2>2. currentTask \in Threads /\ pCurrentTask \in Threads
    BY <2>1, ScannedLemma
  <2>3. \A t \in Threads : ran'[t] \subseteq ran[t] \cup {i}
                           /\ (t \notin Live' \/ t = i => ran'[t] = {})
    BY <1>0, <2>1
  <2>4. ran' \in [Threads -> SUBSET Threads]
    BY <1>0, <2>3
  <2>5. ASSUME NEW t \in Threads, t \in Live', t # i, t # pCurrentTask
        PROVE  t \in Live
    <3>1. status'[t] = status[t]
      BY <2>1, <2>5, SurrenderLemma
    <3> QED
      BY <2>1, <2>5, <3>1 DEF Live
  <2>6. ASSUME NEW t \in Threads, t # i, NEW u \in ran'[t] PROVE Passed(t, u, i)
    <3>1. t \in Live' /\ u \in ran[t] \cup {i}
      BY <2>3, <2>6
    <3>2. CASE t = pCurrentTask
      <4>1. ran[t] = {}
        BY <3>2 DEF RoundInv
      <4>2. u = i
        BY <3>1, <4>1
      <4> QED
        BY <2>6, <4>2 DEF Passed
    <3>3. CASE t # pCurrentTask
      <4>1. ~Passed(t, i, currentTask)
        BY <1>3, <2>5, <2>6, <3>1, <3>3, WaitingIsPassed
      <4>2. u \in ran[t] => u \in Threads /\ Passed(t, u, currentTask)
        BY <1>0, <2>1, <3>3 DEF RoundInv
      <4> QED
        BY <2>2, <2>6, <3>1, <4>1, <4>2, PassedAdvances
    <3> QED
      BY <3>2, <3>3
  <2>7. RoundInv'
    BY <2>1, <2>3, <2>4, <2>6 DEF RoundInv
  <2>8. ASSUME NEW t \in Live, t # i PROVE i \notin ran[t]
    <3>1. t \in Threads
      BY <2>8 DEF Live
    <3>2. CASE t = pCurrentTask
      BY <3>1, <3>2 DEF RoundInv
    <3>3. CASE t # pCurrentTask
      <4>1. ~Passed(t, i, currentTask)
        BY <1>3, <2>8, <3>1, <3>3, WaitingIsPassed
      <4> QED
        BY <2>1, <3>1, <3>3, <4>1 DEF RoundInv
    <3> QED
      BY <3>2, <3>3
  <2> QED
    BY <2>1, <2>7, <2>8
<1> QED
  BY <1>0, <1>1, <1>2, <1>3, StepKinds

(***************************************************************************)
(* While a live thread waits no other is given the processor twice, so its *)
(* wait is at most one slice per thread (process.c:94-170).                *)
(***************************************************************************)
THEOREM NoOvertakingTheorem == ASSUME OneCreator PROVE BypassSpec => NoOvertaking
<1> DEFINE A == Given => \A t \in Live \cap Live' :
                  t # pCurrentTask' => pCurrentTask' \notin ran[t]
           I == Inv /\ RoundInv
<1>1. MakerFact
  BY MakerLemma
<1>2. BypassInit => I
  <2>1. Init => Inv
    BY <1>1, InitInv
  <2>2. BypassInit => RoundInv
    BY DEF BypassInit, Init, RoundInv
  <2> QED
    BY <2>1, <2>2 DEF BypassInit
<1>3. I /\ [BypassNext]_<<vars, ran>> => I' /\ [A]_<<vars, ran>>
  <2>1. CASE BypassNext
    <3>1. Next
      BY <2>1 DEF BypassNext
    <3> QED
      BY <1>1, <2>1, <3>1, NextInv, BypassStep
  <2>2. CASE UNCHANGED <<vars, ran>>
    <3>1. ASSUME I PROVE Inv'
      BY <1>1, <2>2, <3>1, NextInv
    <3>2. ASSUME I PROVE RoundInv'
      BY <2>2, <3>2 DEF RoundInv, vars, Live
    <3> QED
      BY <2>2, <3>1, <3>2
  <2> QED
    BY <2>1, <2>2
<1> QED
  BY <1>2, <1>3, PTL DEF BypassSpec, NoOvertaking
=============================================================================
