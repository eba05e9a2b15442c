------------------------------- MODULE Tasks -------------------------------
(***************************************************************************)
(* The task table and the round-robin scheduler of the single-core kernel  *)
(* (mckrnl/core/scheduler/scheduler.c, resource.c, killer.c), the syscalls *)
(* that create and end tasks, and the interrupt return path                *)
(* (interrupts.c:188-249).                                                 *)
(*                                                                         *)
(* Syscalls and exceptions run with interrupts disabled, so a handler is   *)
(* one step, except exit_task: it recurses through the threads a task      *)
(* registered as resources and, when the dying task is the current one,    *)
(* enables interrupts and halts.  Its activations are the stack frames,    *)
(* and hlt is a state in which the timer or a device interrupt arrives.    *)
(* wait_time and pin are left out: their setters in sys_env.c are          *)
(* commented out, so both keep the value init_task gives them.             *)
(***************************************************************************)
EXTENDS Integers, Sequences, FiniteSets

CONSTANTS MaxTasks,  \* MAX_TASKS
          Threads,   \* the THREADS build option: is sys_thread registered
          Codes,     \* exit codes programs pass to sys_exit
          MaxPid     \* bound on current_pid

ASSUME TasksAssumption == /\ MaxTasks \in Nat \ {0}
                          /\ Threads \in BOOLEAN
                          /\ Codes \subseteq Int
                          /\ MaxPid \in Nat \ {0}

Slots == 0 .. MaxTasks - 1
Pids  == 0 .. MaxPid
KERNEL == -1     \* kernel_context; any other context is named by the pid it was made for
NOPARENT == -1

VARIABLES active, taken,     \* slots whose flag is set
          pid, parent, ctx,  \* task_t fields, per slot
          threads,           \* resources: pids registered by sys_thread, per slot
          current_pid,
          current_task,
          exit_codes, exit_codes_idx,
          contexts,          \* contexts created and not destroyed
          cr3,               \* the context the CPU runs on
          mode,              \* what the CPU executes
          frames,            \* exit_task activations, outermost first
          origin,            \* who called the outermost exit_task
          intr,              \* interrupts enabled inside the kernel
          exited,            \* ghost: every <<pid, code>> in order of exit
          threaded           \* ghost: sys_thread was used

table == <<active, taken, pid, parent, ctx, threads>>
codes == <<exit_codes, exit_codes_idx, exited>>
cpu   == <<mode, frames, origin, intr>>
pids  == <<current_pid, threaded>>
vars  == <<table, pids, current_task, codes, contexts, cr3, cpu>>

(* "halted": abortf stopped the machine; "crashed": the kernel faults in   *)
(* its own fault handler for ever.                                         *)
Modes == {"user", "kernel", "hlt", "halted", "crashed"}
Running == mode = "user" /\ current_task \in active

get_task_by_pid(p) == {s \in active : pid[s] = p}

Least(S, s) == s \in S /\ \A t \in S : s <= t

NextTaskFromZero(s) == Least(active, s)  \* mutation: the scan restarts at slot 0

(* switch_to_next_task: the next active slot behind the current one, else  *)
(* from 0.                                                                 *)
Behind == {s \in active : s > current_task}
NextTask(s) == IF Behind # {} THEN Least(Behind, s) ELSE Least(active, s)

(* Switch to the next task: user mode, on its stack and its context.       *)
schedule ==
    \/ \E s \in active :
          /\ NextTask(s)
          /\ current_task' = s
          /\ cr3' = ctx[s]
          /\ mode' = "user" /\ frames' = <<>> /\ intr' = FALSE
          /\ UNCHANGED <<table, pids, codes, contexts, origin>>
    \/ /\ active = {}                   \* "All tasks are dead lol"
       /\ mode' = "halted"
       /\ UNCHANGED <<table, pids, current_task, codes, contexts, cr3, frames, origin, intr>>

FreeSlots == Slots \ taken

(* find_empty_task_slot and init_task; the caller sets active.             *)
init_task(s, p, c) ==
    /\ Least(FreeSlots, s)
    /\ taken' = taken \cup {s}
    /\ active' = active \cup {s}
    /\ pid' = [pid EXCEPT ![s] = current_pid]
    /\ parent' = [parent EXCEPT ![s] = p]
    /\ ctx' = [ctx EXCEPT ![s] = c]
    /\ current_pid' = current_pid + 1

NoSlot == /\ FreeSlots = {}             \* "Failed to find empty task slot"
          /\ mode' = "halted"
          /\ UNCHANGED <<table, pids, current_task, codes, contexts, cr3, frames, origin, intr>>

(* sys_spawn: load_executable, init_elf.                                   *)
sys_spawn ==
    /\ Running /\ current_pid < MaxPid
    /\ \/ \E s \in Slots :
             /\ init_task(s, NOPARENT, current_pid)
             /\ threads' = [threads EXCEPT ![s] = <<>>]
             /\ contexts' = contexts \cup {current_pid}
             /\ UNCHANGED <<threaded, current_task, codes, cr3, cpu>>
       \/ NoSlot

sys_thread ==
    /\ Threads /\ Running /\ current_pid < MaxPid
    /\ \/ \E s \in Slots :
             /\ init_task(s, pid[current_task], ctx[current_task])
             /\ threads' = [threads EXCEPT ![s] = <<>>,
                                           ![current_task] = Append(@, current_pid)]
             /\ threaded' = TRUE
             /\ UNCHANGED <<current_task, codes, contexts, cr3, cpu>>
       \/ NoSlot

sys_yield == Running /\ schedule

(* pit_interrupt_handler: the timer preempts user code, ends a hlt, and    *)
(* interrupts kernel code that runs with interrupts enabled.               *)
Tick == /\ mode \in {"user", "hlt"} \/ (mode = "kernel" /\ intr)
        /\ schedule
-----------------------------------------------------------------------------
NextIndexUnwrapped == exit_codes_idx + 1  \* mutation: the ring does not wrap
NextIndexStuck == exit_codes_idx          \* mutation: every code goes to one entry

(* The ring of exit codes.                                                 *)
NextIndex == (exit_codes_idx + 1) % MaxTasks

add_exit_code(p, code) ==
    /\ exit_codes' = [exit_codes EXCEPT ![exit_codes_idx] = [pid |-> p, exit_code |-> code]]
    /\ exit_codes_idx' = NextIndex
    /\ exited' = Append(exited, <<p, code>>)

StaysActive(s) == active  \* mutation: the flag is not cleared
Deactivated(s) == active \ {s}

(* exit_task up to resource_dealloc, called with the frames below it.      *)
exit_task(s, code, below) ==
    /\ active' = Deactivated(s)
    /\ add_exit_code(pid[s], code)
    /\ mode' = "kernel" /\ intr' = FALSE
    /\ frames' = Append(below, [slot |-> s, i |-> 1])
    /\ UNCHANGED <<taken, pid, parent, ctx, threads, pids, current_task, contexts, cr3>>

Top == frames[Len(frames)]
Below == SubSeq(frames, 1, Len(frames) - 1)

(* resource_dealloc: sys_thread_kill for the next registered thread.       *)
resource_dealloc ==
    /\ mode = "kernel" /\ frames # <<>> /\ Top.i <= Len(threads[Top.slot])
    /\ LET p == threads[Top.slot][Top.i]
           next == Append(Below, [Top EXCEPT !.i = @ + 1])
       IN  \/ \E t \in get_task_by_pid(p) : exit_task(t, 0, next) /\ UNCHANGED origin
           \/ /\ get_task_by_pid(p) = {}
              /\ frames' = next
              /\ UNCHANGED <<table, pids, current_task, codes, contexts, cr3, mode, origin, intr>>

DestroyedOfSelf(s) == contexts \ {ctx[current_task]}  \* mutation: get_self()->context

(* The context goes with the task that owns it, not with its threads.      *)
Destroyed(s) == IF parent[s] = NOPARENT THEN contexts \ {ctx[s]} ELSE contexts

ReleasedNever(s) == taken       \* mutation: the slot is not released
Released(s) == taken \ {s}

ReturnContext == ctx[current_task]

(* exit_task after resource_dealloc.                                       *)
exit_finish ==
    /\ mode = "kernel" /\ frames # <<>> /\ Top.i > Len(threads[Top.slot])
    /\ LET s == Top.slot IN
          /\ contexts' = Destroyed(s)
          /\ taken' = Released(s)
          /\ IF s = current_task
             THEN /\ cr3' = IF parent[s] = NOPARENT THEN KERNEL ELSE cr3
                  /\ mode' = "hlt"
                  /\ UNCHANGED frames
             ELSE /\ cr3' = ReturnContext
                  /\ mode' = "kernel"
                  /\ frames' = Below
    /\ UNCHANGED <<active, pid, parent, ctx, threads, pids, current_task, codes, origin, intr>>

(* A device interrupt ends the hlt: exit_task returns to its caller, with  *)
(* interrupts left enabled.                                                *)
DeviceInterrupt ==
    /\ mode = "hlt"
    /\ mode' = "kernel" /\ intr' = TRUE /\ frames' = Below
    /\ UNCHANGED <<table, pids, current_task, codes, contexts, cr3, origin>>

(* The outermost exit_task has returned.  handle_interrupt schedules after *)
(* a syscall whose task died, returns to user code after an exception, and *)
(* abortf halts when kill returns.                                         *)
handle_interrupt_return ==
    /\ mode = "kernel" /\ frames = <<>>
    /\ \/ /\ origin = "syscall" /\ current_task \notin active
          /\ schedule
       \/ /\ origin = "syscall" /\ current_task \in active
          /\ mode' = "user" /\ intr' = FALSE
          /\ UNCHANGED <<table, pids, current_task, codes, contexts, cr3, frames, origin>>
       \/ /\ origin = "exception"
          /\ mode' = "user" /\ intr' = FALSE
          /\ UNCHANGED <<table, pids, current_task, codes, contexts, cr3, frames, origin>>
       \/ /\ origin = "abort"
          /\ mode' = "halted"
          /\ UNCHANGED <<table, pids, current_task, codes, contexts, cr3, frames, origin, intr>>

sys_exit(code) == Running /\ origin' = "syscall" /\ exit_task(current_task, code, <<>>)

(* kill reads the task's argv before exit_task.  Threads have none, and a  *)
(* dead task's is no longer mapped: then the read itself faults.           *)
ArgvMapped == parent[current_task] = NOPARENT /\ cr3 = ctx[current_task]

kill(from) ==
    \/ ArgvMapped /\ origin' = from /\ exit_task(current_task, -1, <<>>)
    \/ /\ ~ArgvMapped
       /\ mode' = "crashed"
       /\ UNCHANGED <<table, pids, current_task, codes, contexts, cr3, frames, origin, intr>>

(* A user-mode exception; a dead task resumed in user mode only faults.    *)
Exception == mode = "user" /\ kill("exception")

sys_kill(p) ==
    /\ Running
    /\ \/ \E s \in get_task_by_pid(p) : origin' = "syscall" /\ exit_task(s, -2, <<>>)
       \/ get_task_by_pid(p) = {} /\ kill("abort")
-----------------------------------------------------------------------------
(* load_init has made the init program task 0 and the scheduler runs.      *)
Init ==
    /\ active = {0} /\ taken = {0}
    /\ pid = [s \in Slots |-> 0] /\ parent = [s \in Slots |-> NOPARENT]
    /\ ctx = [s \in Slots |-> 0] /\ threads = [s \in Slots |-> <<>>]
    /\ current_pid = 1 /\ current_task = 0
    /\ exit_codes = [i \in Slots |-> [pid |-> 0, exit_code |-> 0]]
    /\ exit_codes_idx = 0 /\ exited = <<>> /\ threaded = FALSE
    /\ contexts = {0} /\ cr3 = 0
    /\ mode = "user" /\ frames = <<>> /\ origin = "syscall" /\ intr = FALSE

KernelStep == resource_dealloc \/ exit_finish \/ handle_interrupt_return

Next == \/ sys_spawn \/ sys_thread \/ sys_yield \/ Tick
        \/ \E code \in Codes : sys_exit(code)
        \/ \E p \in Pids : sys_kill(p)
        \/ Exception
        \/ resource_dealloc \/ exit_finish \/ handle_interrupt_return
        \/ DeviceInterrupt

(* Kernel code runs to completion, and the interrupt controller keeps a    *)
(* timer interrupt pending until interrupts are enabled.                   *)
Fairness == WF_vars(KernelStep) /\ SF_vars(Tick)
Spec == Init /\ [][Next]_vars
FairSpec == Spec /\ Fairness
-----------------------------------------------------------------------------
Stopped == mode \in {"halted", "crashed"}

TypeOK ==
    /\ active \subseteq Slots /\ taken \subseteq Slots
    /\ pid \in [Slots -> Pids] /\ parent \in [Slots -> Pids \cup {NOPARENT}]
    /\ ctx \in [Slots -> Pids] /\ threads \in [Slots -> Seq(Pids)]
    /\ current_pid \in Pids /\ current_task \in Slots
    /\ exit_codes \in [Slots -> [pid : Pids, exit_code : Int]]
    /\ exit_codes_idx \in Slots
    /\ contexts \subseteq Pids /\ cr3 \in Pids \cup {KERNEL}
    /\ mode \in Modes /\ frames \in Seq([slot : Slots, i : Nat \ {0}])
    /\ origin \in {"syscall", "exception", "abort"} /\ intr \in BOOLEAN /\ threaded \in BOOLEAN

(* No two slots in use carry the same pid, so get_task_by_pid, kill and    *)
(* the pipe and tunnel lookups that rely on it never hit the wrong task.   *)
(* A task dies once: nothing revives or kills it again.                    *)
UniquePids == /\ \A s, t \in taken : pid[s] = pid[t] => s = t
              /\ \A s \in taken : pid[s] < current_pid
              /\ active \subseteq taken
              /\ \A j, k \in 1 .. Len(exited) : exited[j][1] = exited[k][1] => j = k

(* exit_task leaves neither a task without its page directory nor a        *)
(* directory without its task.                                             *)
LiveContexts ==
    /\ \A s \in active : ctx[s] \in contexts
    /\ \A c \in contexts : \E s \in taken : ctx[s] = c

(* User code of a live task runs on that task's own page directory;        *)
(* the CPU never sits on one that was destroyed.                           *)
OwnContext == /\ Running => cr3 = ctx[current_task]
              /\ cr3 \in contexts \cup {KERNEL}

(* A slot that is taken but not active is in the middle of exit_task.      *)
NoSlotLeak ==
    \A s \in taken \ active : \E k \in 1 .. Len(frames) : frames[k].slot = s

(* As long as no program made a thread, the end of a task, on whichever    *)
(* path exit_task is left, keeps slots, directories and the CPU in step.   *)
CleanExits == ~threaded => LiveContexts /\ OwnContext /\ NoSlotLeak

(* get_exit_code(p), for a task among the last MAX_TASKS to exit.          *)
get_exit_code(p) ==
    LET found == {i \in Slots : exit_codes[i].pid = p}
    IN  IF found = {} THEN -1
        ELSE exit_codes[CHOOSE i \in found : \A j \in found : i <= j].exit_code

RecentExits == {k \in 1 .. Len(exited) : k > Len(exited) - MaxTasks}
ExitCodesKept == \A k \in RecentExits : get_exit_code(exited[k][1]) = exited[k][2]

(* "Killing task %d (%s) for reason: %s" (killer.c:50): a killed task       *)
(* executes no more user code.                                             *)
OnlyLiveTasksRun == mode = "user" => current_task \in active

(* Round robin: every active task gets the CPU or ends.                    *)
NoStarvation == \A s \in Slots :
    (s \in active) ~> (s \notin active \/ current_task = s \/ Stopped)

(* Every task that starts to exit releases its slot, if there are no       *)
(* threads: a tick may abandon the walk of exit_task through them.         *)
ExitCompletes == \A s \in Slots :
    (s \in taken \ active) ~> (s \notin taken \/ Stopped \/ threaded)
=============================================================================
