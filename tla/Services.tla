------------------------------ MODULE Services ------------------------------
(***************************************************************************)
(* The service manager (user/services/scheduler/main.c), the service       *)
(* command that talks to it (user/services/service/main.c) and the message *)
(* topics of the kernel between them (mckrnl/core/scheduler/message.c).    *)
(*                                                                         *)
(* All are tasks the timer may preempt anywhere, so the step of the model  *)
(* is the syscall.  What the manager does after it saw a process dead is   *)
(* joined with that step, since a dead process stays dead; what it does    *)
(* after it saw one alive is a step of its own.  The jobs run by time or   *)
(* once at boot are left out: the manager forgets them when it starts them.*)
(***************************************************************************)
EXTENDS Integers, Sequences, FiniteSets

CONSTANTS NServices,   \* @service lines of scheduler.conf
          MAX_RETRIES,
          Clients,     \* service commands running at once
          Names,       \* what users type, names of no service among it
          Ops,         \* what users use of "start", "stop" and "restart"
          WAIT_RETRIES,
          Pids,        \* pids: one that neither runs nor is named in a job is as good as new
          SpawnFails,  \* may spawn fail: no such file, not an executable
          MaxQueue     \* bound on the messages in a topic

ASSUME ServicesAssumption ==
    /\ NServices \in Nat \ {0} /\ MAX_RETRIES \in Nat /\ WAIT_RETRIES \in Nat /\ MaxQueue \in Nat
    /\ 1 .. NServices \subseteq Pids /\ Pids \subseteq Nat \ {0} /\ Cardinality(Pids) > NServices
    /\ Ops \subseteq {"start", "stop", "restart"} /\ SpawnFails \in BOOLEAN

Jobs == 1 .. NServices     \* a service is named by its job
NOPID == -1
NOBODY == 0

VARIABLES jobs,     \* job -> [pid, retry, stopped]
          procs,    \* pid -> the service it runs, or NOBODY
          topics,   \* messages by topic
          pc,       \* where the manager is in its loop
          req,      \* the request whose process it is about to kill
          i,        \* the job its loop looks at
          clients   \* [op, name, tries]: the request being waited on

vars == <<jobs, procs, topics, pc, req, i, clients>>

NoRequest == [op |-> "", name |-> NOBODY]
Requests == [op : Ops \cup {"list"}, name : Names \cup {NOBODY}]

(* A client that waits for nothing.                                        *)
Idle == [op |-> "", name |-> NOBODY, tries |-> 0]
IsIdle(c) == clients[c].op = ""

(* All operations but list are answered on one topic, and an answer does   *)
(* not say whom it is for: the request in it is a ghost.                   *)
OP_REPLY == "op_reply"
LIST_REPLY == "list_reply"
Topics == {"list", "start", "stop", "restart", OP_REPLY, LIST_REPLY}
ReplyTopic(op) == IF op = "list" THEN LIST_REPLY ELSE OP_REPLY

message_send(t, topic, m) == [t EXCEPT ![topic] = Append(@, m)]
message_recv(t, topic) == [t EXCEPT ![topic] = Tail(@)]

(* get_task_by_pid finds the process.                                      *)
get_proc_info(p) == p # NOPID /\ procs[p] # NOBODY

Fresh == {p \in Pids : procs[p] = NOBODY /\ \A j \in Jobs : jobs[j].pid # p}

(* run_command, and what its caller sets in the job.                       *)
run_command(j, job, running) ==
    \/ \E p \in Fresh :
          /\ \A q \in Fresh : p <= q
          /\ jobs' = [jobs EXCEPT ![j] = [job EXCEPT !.pid = p]]
          /\ procs' = [running EXCEPT ![p] = j]
    \/ /\ SpawnFails
       /\ jobs' = [jobs EXCEPT ![j] = [job EXCEPT !.pid = NOPID]]
       /\ procs' = running

Reset(j) == [pid |-> jobs[j].pid, retry |-> 0, stopped |-> FALSE]
-----------------------------------------------------------------------------
Waiting(op) == topics[op] # <<>>
Request(op) == Head(topics[op])
Known(name) == name \in Jobs

(* Take the request and answer it.                                         *)
Reply(op) == topics' = message_send(message_recv(topics, op), ReplyTopic(op), Request(op))

(* No message of this kind, or one that changes no job.                    *)
Skip(op, next) == /\ ~Waiting(op)
                  /\ pc' = next
                  /\ UNCHANGED <<jobs, procs, topics, req, i>>
ReplyOnly(op, next) == /\ Reply(op)
                       /\ pc' = next
                       /\ UNCHANGED <<jobs, procs, req, i>>

handle_service_list_message ==
    /\ pc = "list"
    /\ UNCHANGED clients
    /\ Skip("list", "start") \/ (Waiting("list") /\ ReplyOnly("list", "start"))

IsRunning(j) == ~jobs[j].stopped /\ get_proc_info(jobs[j].pid)

handle_service_op_start_message ==
    /\ pc = "start"
    /\ UNCHANGED clients
    /\ \/ Skip("start", "stop")
       \/ /\ Waiting("start")
          /\ LET j == Request("start").name IN
             \/ (Known(j) => IsRunning(j)) /\ ReplyOnly("start", "stop")
             \/ /\ Known(j) /\ ~IsRunning(j)
                /\ run_command(j, Reset(j), procs)
                /\ Reply("start")
                /\ pc' = "stop"
                /\ UNCHANGED <<req, i>>

handle_service_op_stop_message ==
    /\ pc = "stop"
    /\ UNCHANGED clients
    /\ \/ Skip("stop", "restart")
       \/ /\ Waiting("stop")
          /\ LET j == Request("stop").name IN
             \/ (Known(j) => jobs[j].stopped) /\ ReplyOnly("stop", "restart")
             \/ /\ Known(j) /\ ~jobs[j].stopped
                /\ IF get_proc_info(jobs[j].pid)
                   THEN /\ jobs' = [jobs EXCEPT ![j].stopped = TRUE]
                        /\ pc' = "stop_kill" /\ req' = Request("stop")
                        /\ topics' = message_recv(topics, "stop")
                        /\ UNCHANGED <<procs, i>>
                   ELSE /\ jobs' = [jobs EXCEPT ![j] = [pid |-> NOPID, retry |-> @.retry, stopped |-> TRUE]]
                        /\ Reply("stop")
                        /\ pc' = "restart"
                        /\ UNCHANGED <<procs, req, i>>

(* sys_kill of a process that is gone ends the caller.                     *)
KillFails == /\ ~get_proc_info(jobs[req.name].pid)
             /\ pc' = "dead"
             /\ req' = NoRequest
             /\ UNCHANGED <<jobs, procs, topics, i>>
KilledNot == procs  \* mutation: the process is left running
Killed == [procs EXCEPT ![jobs[req.name].pid] = NOBODY]

stop_kill ==
    /\ pc = "stop_kill"
    /\ UNCHANGED clients
    /\ \/ KillFails
       \/ /\ get_proc_info(jobs[req.name].pid)
          /\ procs' = Killed
          /\ jobs' = [jobs EXCEPT ![req.name].pid = NOPID]
          /\ topics' = message_send(topics, OP_REPLY, req)
          /\ pc' = "restart" /\ req' = NoRequest
          /\ UNCHANGED i

handle_service_op_restart_message ==
    /\ pc = "restart"
    /\ UNCHANGED clients
    /\ \/ Skip("restart", "jobs")
       \/ /\ Waiting("restart")
          /\ LET j == Request("restart").name IN
             \/ ~Known(j) /\ ReplyOnly("restart", "jobs")
             \/ /\ Known(j)
                /\ IF get_proc_info(jobs[j].pid)
                   THEN /\ pc' = "restart_kill" /\ req' = Request("restart")
                        /\ topics' = message_recv(topics, "restart")
                        /\ UNCHANGED <<jobs, procs, i>>
                   ELSE /\ run_command(j, Reset(j), procs)
                        /\ Reply("restart")
                        /\ pc' = "jobs"
                        /\ UNCHANGED <<req, i>>

restart_kill ==
    /\ pc = "restart_kill"
    /\ UNCHANGED clients
    /\ \/ KillFails
       \/ /\ get_proc_info(jobs[req.name].pid)
          /\ run_command(req.name, Reset(req.name), Killed)
          /\ topics' = message_send(topics, OP_REPLY, req)
          /\ pc' = "jobs" /\ req' = NoRequest
          /\ UNCHANGED i

NeedsRestartStopped(j) == ~get_proc_info(jobs[j].pid)                 \* mutation: stopped is ignored
NeedsRestartFailed(j) == ~jobs[j].stopped /\ jobs[j].pid = NOPID      \* mutation: only failed spawns

NeedsRestart(j) == ~jobs[j].stopped /\ ~get_proc_info(jobs[j].pid)

MayRetryOnceMore(j) == jobs[j].retry <= MAX_RETRIES  \* mutation: off by one
MayRetry(j) == jobs[j].retry < MAX_RETRIES

(* One job of the loop at the end of a pass; behind the last one the       *)
(* manager yields.                                                         *)
check_job ==
    /\ pc = "jobs"
    /\ i' = IF i = NServices THEN 1 ELSE i + 1
    /\ pc' = IF i = NServices THEN "list" ELSE "jobs"
    /\ IF NeedsRestart(i) /\ MayRetry(i)
       THEN run_command(i, [jobs[i] EXCEPT !.retry = @ + 1], procs)
       ELSE UNCHANGED <<jobs, procs>>
    /\ UNCHANGED <<topics, req, clients>>

(* A service ends by itself.                                               *)
service_exit(p) == /\ procs[p] # NOBODY
                   /\ procs' = [procs EXCEPT ![p] = NOBODY]
                   /\ UNCHANGED <<jobs, topics, pc, req, i, clients>>
-----------------------------------------------------------------------------
(* The service command sends a request,                                    *)
Send(c, op, name) ==
    /\ IsIdle(c)
    /\ Len(topics[op]) < MaxQueue /\ Len(topics[ReplyTopic(op)]) < MaxQueue
    /\ topics' = message_send(topics, op, [op |-> op, name |-> name])
    /\ clients' = [clients EXCEPT ![c] = [op |-> op, name |-> name, tries |-> 0]]
    /\ UNCHANGED <<jobs, procs, pc, req, i>>

cmd_list(c) == Send(c, "list", NOBODY)
cmd_op(c, op, name) == Send(c, op, name)

(* and wait_for_op_reply polls for an answer, yielding in between.  It     *)
(* takes whatever is on the topic, also the answer to another command.     *)
wait_for_op_reply(c) ==
    /\ ~IsIdle(c)
    /\ LET mine == clients[c]
           topic == ReplyTopic(mine.op)
       IN
       \/ /\ Waiting(topic)
          /\ clients' = [clients EXCEPT ![c] = Idle]
          /\ topics' = message_recv(topics, topic)
       \/ /\ ~Waiting(topic)
          /\ clients' = [clients EXCEPT ![c] = IF mine.tries + 1 = WAIT_RETRIES THEN Idle
                                               ELSE [mine EXCEPT !.tries = @ + 1]]
          /\ UNCHANGED topics
    /\ UNCHANGED <<jobs, procs, pc, req, i>>
-----------------------------------------------------------------------------
(* parse_config has filled the table, and main has started the services.   *)
Init ==
    /\ \E started \in SUBSET Jobs :
          /\ jobs = [j \in Jobs |-> [pid |-> IF j \in started THEN j ELSE NOPID,
                                     retry |-> 0, stopped |-> FALSE]]
          /\ procs = [p \in Pids |-> IF p \in started THEN p ELSE NOBODY]
    /\ topics = [t \in Topics |-> <<>>]
    /\ pc = "list" /\ req = NoRequest /\ i = 1
    /\ clients = [c \in Clients |-> Idle]

Manager == \/ handle_service_list_message
           \/ handle_service_op_start_message
           \/ handle_service_op_stop_message \/ stop_kill
           \/ handle_service_op_restart_message \/ restart_kill
           \/ check_job

Next == \/ handle_service_list_message
        \/ handle_service_op_start_message
        \/ handle_service_op_stop_message
        \/ stop_kill
        \/ handle_service_op_restart_message
        \/ restart_kill
        \/ check_job
        \/ \E p \in Pids : service_exit(p)
        \/ \E c \in Clients : cmd_list(c)
        \/ \E c \in Clients, op \in Ops, name \in Names : cmd_op(c, op, name)
        \/ \E c \in Clients : wait_for_op_reply(c)

(* The kernel's round robin gives every task the CPU again (NoStarvation   *)
(* of module Tasks), so the manager's loop goes on.                        *)
Spec == Init /\ [][Next]_vars
FairSpec == Spec /\ WF_vars(Manager)
-----------------------------------------------------------------------------
Job == [pid : Pids \cup {NOPID}, retry : 0 .. MAX_RETRIES, stopped : BOOLEAN]

TypeOK ==
    /\ jobs \in [Jobs -> Job]
    /\ procs \in [Pids -> Jobs \cup {NOBODY}]
    /\ topics \in [Topics -> Seq(Requests)]
    /\ pc \in {"list", "start", "stop", "stop_kill", "restart", "restart_kill", "jobs", "dead"}
    /\ req \in Requests \cup {NoRequest} /\ i \in Jobs

Up(j) == \E p \in Pids : procs[p] = j

(* Every live process of a service is the one its job names: there is      *)
(* never a second instance, or one that stop cannot reach any more.        *)
Tracked == \A p \in Pids : procs[p] # NOBODY => jobs[procs[p]].pid = p

(* "Service stopped": once its stop was answered a service does not run    *)
(* until somebody starts it again; the restart loop leaves it alone.       *)
StoppedStays == \A j \in Jobs :
    jobs[j].stopped /\ pc # "stop_kill" => ~Up(j)

(* "auto-restarts on exit" (scheduler.txt:11), as far as the code goes: a  *)
(* service that ended runs again or could not be spawned, or was stopped,  *)
(* or used up its retries, or the manager itself is gone.                  *)
Ended(j) == ~jobs[j].stopped /\ jobs[j].pid # NOPID /\ ~Up(j)
Restarted == \A j \in Jobs :
    Ended(j) ~> (~Ended(j) \/ jobs[j].retry = MAX_RETRIES \/ pc = "dead")

(* The manager is a "background service that manages ... persistent        *)
(* services" (scheduler.txt:6): no request ends it.                        *)
ManagerSurvives == pc # "dead"
=============================================================================
