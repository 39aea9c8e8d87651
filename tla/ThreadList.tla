----------------------------- MODULE ThreadList ----------------------------
(***************************************************************************)
(* The list of threads of ktux, store by store (kernel/process.c with      *)
(* include/list.h): create_kernel_thread enters threads, kill takes them   *)
(* out, and ps, called by the keyboard interrupt for the key s, walks it.  *)
(* There is one processor.  Until start_scheduler every IRQ is masked; then *)
(* the timer may take it from a thread, and the keyboard interrupt it,     *)
(* between two stores, whenever interrupts are on.                         *)
(* Which thread runs next, pids and the slots of pThreads are the subject  *)
(* of Scheduler; here pThreads is the set of structs it points to, and the *)
(* next thread any that __task_switch could take from it.                  *)
(***************************************************************************)
EXTENDS ListHead

CONSTANTS
    Threads,        \* the thread structs kmalloc will return
    Boot,           \* those of init_multitasking
    InitThread,     \* the thread that called it
    lThreads,       \* the list head
    Spares, spare   \* entries and head of a second list, for OperationsAgree

ASSUME ThreadListAssumption ==
    /\ Cells = Threads \cup Spares \cup {lThreads, spare}
    /\ IsFiniteSet(Cells)
    /\ Boot \subseteq Threads /\ InitThread \in Boot
    /\ Threads \cap Spares = {}
    /\ lThreads \notin Threads \cup Spares
    /\ spare \notin Threads \cup Spares \cup {lThreads}
    /\ NULL \notin Cells

VARIABLES
    pThreads, status,
    started,        \* start_scheduler has been called: IRQs are let through
    cpu,            \* the thread that runs
    intFlag,        \* interrupts are on
    pc,             \* where each thread is in create_kernel_thread or kill
    subject,        \* the struct it is creating
    stores,         \* the stores of its list operation still to come
    listing         \* what ps printed last

thread == <<pc, subject, stores>>
vars == <<links, pThreads, status, started, cpu, intFlag, thread, listing>>

Init ==
    /\ links = [c \in Cells |-> IF c = lThreads THEN [next |-> c, prev |-> c]
                                              ELSE [next |-> NULL, prev |-> NULL]]
    /\ pThreads = {}
    /\ status = [t \in Threads |-> "NONE"]
    /\ started = FALSE
    /\ cpu = InitThread
    /\ intFlag = FALSE
    /\ pc = [t \in Threads |-> "run"]
    /\ subject = [t \in Threads |-> NULL]
    /\ stores = [t \in Threads |-> <<>>]
    /\ listing = <<>>

At(t, place) == cpu = t /\ pc[t] = place /\ stores[t] = <<>>
Goto(t, place) == pc' = [pc EXCEPT ![t] = place]

-----------------------------------------------------------------------------
(* create_kernel_thread: fill in the struct; cli, link it, enter it in the *)
(* table, sti.                                                             *)

Create(t, new) ==
    /\ At(t, "run")
    /\ status[new] = "NONE"
    /\ started \/ IF pThreads = {} THEN new = InitThread ELSE new \in Boot
    /\ status' = [status EXCEPT ![new] = "READY"]
    /\ subject' = [subject EXCEPT ![t] = new]
    /\ Goto(t, "create_cli")
    /\ UNCHANGED <<links, pThreads, started, cpu, intFlag, stores, listing>>

\* Mutant of CreateCli: the interrupts stay on.
MutantCreateOpen(t) ==
    /\ At(t, "create_cli")
    /\ stores' = [stores EXCEPT ![t] = list_add(links, subject[t], lThreads)]
    /\ Goto(t, "create_table")
    /\ UNCHANGED <<links, pThreads, status, started, cpu, intFlag, subject, listing>>

\* list_add reads lThreads.next under cli.
CreateCli(t) ==
    /\ At(t, "create_cli")
    /\ intFlag' = FALSE
    /\ stores' = [stores EXCEPT ![t] = list_add(links, subject[t], lThreads)]
    /\ Goto(t, "create_table")
    /\ UNCHANGED <<links, pThreads, status, started, cpu, subject, listing>>

CreateTable(t) ==
    /\ At(t, "create_table")
    /\ pThreads' = pThreads \cup {subject[t]}
    /\ Goto(t, "sti")
    /\ UNCHANGED <<links, status, started, cpu, intFlag, subject, stores, listing>>

\* One store of the list operation that thread t is in.
ListStore(t) ==
    /\ cpu = t /\ stores[t] # <<>>
    /\ links' = Apply1(links, Head(stores[t]))
    /\ stores' = [stores EXCEPT ![t] = Tail(@)]
    /\ UNCHANGED <<pThreads, status, started, cpu, intFlag, pc, subject, listing>>

Sti(t) ==
    /\ At(t, "sti")
    /\ intFlag' = TRUE
    /\ Goto(t, IF status[t] = "ZOMBIE" THEN "yield" ELSE "run")
    /\ UNCHANGED <<links, pThreads, status, started, cpu, subject, stores, listing>>

\* The boot goes on once init_multitasking has made its threads, with sti.
StartScheduler ==
    /\ At(InitThread, "run")
    /\ ~started /\ pThreads = Boot
    /\ started' = TRUE
    /\ intFlag' = TRUE
    /\ UNCHANGED <<links, pThreads, status, cpu, thread, listing>>

-----------------------------------------------------------------------------
(* kill: mark; cli, unlink, leave the table, sti; yield, and no return.    *)

KillMark(t) ==
    /\ At(t, "run")
    /\ started
    /\ status' = [status EXCEPT ![t] = "ZOMBIE"]
    /\ Goto(t, "kill_cli")
    /\ UNCHANGED <<links, pThreads, started, cpu, intFlag, subject, stores, listing>>

\* Mutant of KillCli: the interrupts stay on.
MutantKillOpen(t) ==
    /\ At(t, "kill_cli")
    /\ stores' = [stores EXCEPT ![t] = list_del(links, t)]
    /\ Goto(t, "kill_table")
    /\ UNCHANGED <<links, pThreads, status, started, cpu, intFlag, subject, listing>>

KillCli(t) ==
    /\ At(t, "kill_cli")
    /\ intFlag' = FALSE
    /\ stores' = [stores EXCEPT ![t] = list_del(links, t)]
    /\ Goto(t, "kill_table")
    /\ UNCHANGED <<links, pThreads, status, started, cpu, subject, listing>>

KillTable(t) ==
    /\ At(t, "kill_table")
    /\ pThreads' = pThreads \ {t}
    /\ Goto(t, "sti")
    /\ UNCHANGED <<links, status, started, cpu, intFlag, subject, stores, listing>>

-----------------------------------------------------------------------------
(* Interrupts *)

\* The timer, or yield's int 0x20, gives the processor to another thread.
TaskSwitch ==
    /\ intFlag /\ started
    /\ LET left == [status EXCEPT ![cpu] = IF @ = "ZOMBIE" THEN "FREE" ELSE "WAIT"]
       IN  \E next \in pThreads :
              /\ left[next] \in {"READY", "WAIT"}
              /\ cpu' = next
              /\ status' = [left EXCEPT ![next] = "RUNNING"]
    /\ UNCHANGED <<links, pThreads, started, intFlag, thread, listing>>

\* The key s: the handler runs with interrupts off until ps is through.
Ps ==
    /\ intFlag /\ started
    /\ listing' = list_for_each_prev(links, lThreads)
    /\ UNCHANGED <<links, pThreads, status, started, cpu, intFlag, thread>>

Step(t) ==
    \/ \E new \in Threads : Create(t, new)
    \/ CreateCli(t) \/ CreateTable(t) \/ ListStore(t) \/ Sti(t)
    \/ KillMark(t) \/ KillCli(t) \/ KillTable(t)

Next == StartScheduler \/ TaskSwitch \/ Ps \/ \E t \in Threads : Step(t)

Spec == Init /\ [][Next]_vars

-----------------------------------------------------------------------------
(* What should hold. *)

(* Every thread enters the list at its front and leaves it at one instant, *)
(* though adding one takes four stores and removing one four, and a ps at  *)
(* any moment prints every thread in the list, oldest first.               *)
Roster == INSTANCE ThreadRoster
            WITH Thread <- Threads, roster <- list_for_each(links, lThreads)

ImplementsRoster == Roster!Spec

(* Whenever an interrupt can come the list is whole, the same forwards and *)
(* backwards, and holds exactly the threads __task_switch can find in      *)
(* pThreads (list_add and list_del under cli in create_kernel_thread and   *)
(* kill).                                                                  *)
ListMatchesTable ==
    intFlag => LET list == list_for_each(links, lThreads)
               IN  /\ list_for_each_prev(links, lThreads) = Reverse(list)
                   /\ ToSet(list) = pThreads
                   /\ Len(list) = Cardinality(pThreads)

\* The lists at both heads, read in both directions.
Are(l, threads, others) ==
    /\ list_for_each(l, lThreads) = threads
    /\ list_for_each_prev(l, lThreads) = Reverse(threads)
    /\ list_for_each(l, spare) = others
    /\ list_for_each_prev(l, spare) = Reverse(others)

\* The links with the first n of order appended to the empty list at spare.
WithSpares(order) ==
    LET Links[n \in 0 .. Len(order)] ==
            IF n = 0 THEN Apply(links, init_list_head(spare))
            ELSE LET l == Links[n - 1]
                 IN  Apply(l, list_add_tail(l, order[n], spare))
    IN  Links

(* The operations of list.h that the kernel has and does not call yet do   *)
(* to the sequences what their comments say, on every list of threads and  *)
(* a second list of every length, and a loop of list_for_each_safe visits  *)
(* every entry while its body deletes them.                                *)
OperationsAgree ==
    intFlag => \A n \in 0 .. Cardinality(Spares) :
        LET order == SetToSeq(Spares)
            others == SubSeq(order, 1, n)
            threads == list_for_each(links, lThreads)
            l == WithSpares(order)[n]
            drained == DrainSafely(l, lThreads)
        IN  /\ Are(l, threads, others)
            /\ list_empty(l, spare) <=> others = <<>>
            /\ \A i \in DOMAIN threads :
                  LET e == threads[i]
                      rest == RemoveAt(threads, i)
                  IN  /\ Are(Apply(l, list_move(l, e, spare)), rest, <<e>> \o others)
                      /\ Are(Apply(l, list_move(l, e, lThreads)), <<e>> \o rest, others)
                      /\ Are(Apply(l, list_move_tail(l, e, spare)), rest, Append(others, e))
                      /\ LET m == Apply(l, list_del_init(l, e))
                         IN  Are(m, rest, others) /\ list_empty(m, e)
            /\ list_for_each(Apply(l, list_splice(l, spare, lThreads)), lThreads)
                  = others \o threads
            /\ Are(Apply(l, list_splice_init(l, spare, lThreads)), others \o threads, <<>>)
            /\ drained.visited = threads /\ Are(drained.links, <<>>, others)
=============================================================================
