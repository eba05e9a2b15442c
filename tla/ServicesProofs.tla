--------------------------- MODULE ServicesProofs ---------------------------
(* Proofs about the service manager: for any number of services, clients   *)
(* and retries no service gets a second instance, and a stopped one stays  *)
(* stopped.                                                                *)
EXTENDS Services, TLAPS

(* StoppedStays is not inductive while a kill is under way: then it holds  *)
(* for every service but the one about to be killed.                       *)
StoppedIdle == \A j \in Jobs :
    jobs[j].stopped /\ ~(pc = "stop_kill" /\ req.name = j) => ~Up(j)

KillTarget == pc \in {"stop_kill", "restart_kill"} => req \in Requests /\ req.name \in Jobs

IInv == TypeOK /\ Tracked /\ StoppedIdle /\ KillTarget

USE ServicesAssumption DEF Jobs, NOPID, NOBODY

(* The queues stay queues of requests.                                     *)
LEMMA ReplyType ==
    ASSUME topics \in [Topics -> Seq(Requests)], NEW op \in Topics, Waiting(op), Reply(op)
    PROVE  topics' \in [Topics -> Seq(Requests)]
  <1>1. Request(op) \in Requests /\ Tail(topics[op]) \in Seq(Requests)
    BY DEF Waiting, Request
  <1>2. DEFINE t == message_recv(topics, op)
  <1>3. t \in [Topics -> Seq(Requests)]
    BY <1>1 DEF message_recv
  <1>4. ReplyTopic(op) \in Topics
    BY DEF ReplyTopic, Topics
  <1>5. topics' = message_send(t, ReplyTopic(op), Request(op))
    BY DEF Reply
  <1>6. QED
    <2> HIDE DEF t
    <2> QED BY <1>1, <1>3, <1>4, <1>5 DEF message_send

LEMMA RequestType ==
    ASSUME topics \in [Topics -> Seq(Requests)], NEW op \in Topics, Waiting(op)
    PROVE  Request(op) \in Requests /\ message_recv(topics, op) \in [Topics -> Seq(Requests)]
  BY DEF Waiting, Request, message_recv

LEMMA SendType ==
    ASSUME topics \in [Topics -> Seq(Requests)], NEW t \in Topics, NEW r \in Requests
    PROVE  message_send(topics, t, r) \in [Topics -> Seq(Requests)]
  BY DEF message_send

(* Starting service j, when no process runs it any more, keeps the table   *)
(* of jobs and the processes in step.                                      *)
LEMMA RunKeeps ==
    ASSUME jobs \in [Jobs -> Job], procs \in [Pids -> Jobs \cup {NOBODY}], Tracked,
           NEW j \in Jobs, NEW job \in Job, job.stopped = FALSE,
           NEW running \in [Pids -> Jobs \cup {NOBODY}],
           \A p \in Pids : running[p] # NOBODY => running[p] = procs[p] /\ running[p] # j,
           run_command(j, job, running)
    PROVE  /\ jobs' \in [Jobs -> Job]
           /\ procs' \in [Pids -> Jobs \cup {NOBODY}]
           /\ Tracked'
           /\ \A k \in Jobs : k # j => jobs'[k] = jobs[k] /\ (Up(k)' => Up(k))
           /\ jobs'[j].stopped = FALSE
  <1>1. CASE \E p \in Fresh : /\ \A q \in Fresh : p <= q
                              /\ jobs' = [jobs EXCEPT ![j] = [job EXCEPT !.pid = p]]
                              /\ procs' = [running EXCEPT ![p] = j]
    <2>1. PICK p \in Fresh : /\ jobs' = [jobs EXCEPT ![j] = [job EXCEPT !.pid = p]]
                             /\ procs' = [running EXCEPT ![p] = j]
      BY <1>1
    <2>2. p \in Pids /\ \A k \in Jobs : jobs[k].pid # p
      BY DEF Fresh
    <2>3. [job EXCEPT !.pid = p] \in Job /\ [job EXCEPT !.pid = p].stopped = FALSE
           /\ [job EXCEPT !.pid = p].pid = p
      BY <2>2 DEF Job
    <2>4. jobs' \in [Jobs -> Job] /\ procs' \in [Pids -> Jobs \cup {NOBODY}]
           /\ jobs'[j].stopped = FALSE /\ jobs'[j].pid = p
           /\ procs'[p] = j /\ \A q \in Pids : q # p => procs'[q] = running[q]
           /\ \A k \in Jobs : k # j => jobs'[k] = jobs[k]
      BY <2>1, <2>2, <2>3
    <2>5. Tracked'
      BY <2>2, <2>4 DEF Tracked
    <2>6. \A k \in Jobs : k # j => (Up(k)' => Up(k))
      BY <2>2, <2>4 DEF Up
    <2>7. \A k \in Jobs : k # j => jobs'[k] = jobs[k] /\ (Up(k)' => Up(k))
      BY <2>4, <2>6
    <2> QED BY <2>4, <2>5, <2>7
  <1>2. CASE jobs' = [jobs EXCEPT ![j] = [job EXCEPT !.pid = NOPID]] /\ procs' = running
    <2>1. [job EXCEPT !.pid = NOPID] \in Job /\ [job EXCEPT !.pid = NOPID].stopped = FALSE
      BY DEF Job
    <2>2. jobs' \in [Jobs -> Job] /\ jobs'[j].stopped = FALSE
           /\ \A k \in Jobs : k # j => jobs'[k] = jobs[k]
      BY <1>2, <2>1
    <2>3. Tracked'
      BY <1>2, <2>2 DEF Tracked
    <2>4. \A k \in Jobs : k # j => (Up(k)' => Up(k))
      BY <1>2 DEF Up
    <2> QED BY <1>2, <2>2, <2>3, <2>4
  <1> QED BY <1>1, <1>2 DEF run_command

LEMMA ResetType ==
    ASSUME jobs \in [Jobs -> Job], NEW j \in Jobs
    PROVE  Reset(j) \in Job /\ Reset(j).stopped = FALSE
  BY DEF Reset, Job

(* A process that get_proc_info does not find means that nobody runs the   *)
(* service, because of Tracked.                                            *)
LEMMA NotFoundIdle ==
    ASSUME jobs \in [Jobs -> Job], procs \in [Pids -> Jobs \cup {NOBODY}], Tracked,
           NEW j \in Jobs, ~get_proc_info(jobs[j].pid)
    PROVE  ~Up(j)
  BY DEF Tracked, Up, get_proc_info, Job

-----------------------------------------------------------------------------
(* The steps, by what they do to jobs and processes.                       *)
Loop == {"list", "start", "stop", "restart", "jobs", "dead"}

(* One that answers or skips a request.                                    *)
LEMMA QuietStep ==
    ASSUME IInv, pc # "stop_kill", pc' \in Loop, jobs' = jobs, procs' = procs,
           topics' \in [Topics -> Seq(Requests)],
           req' \in Requests \cup {NoRequest}, i' \in Jobs
    PROVE  IInv'
  <1>1. TypeOK'
    BY DEF IInv, TypeOK, Loop
  <1>2. Tracked' /\ StoppedIdle' /\ KillTarget'
    BY DEF IInv, Tracked, StoppedIdle, KillTarget, Up, Loop
  <1> QED BY <1>1, <1>2 DEF IInv

(* One that starts service j, which nobody runs.                           *)
LEMMA RunStep ==
    ASSUME IInv, pc # "stop_kill", pc' \in Loop, NEW j \in Jobs, NEW job \in Job,
           job.stopped = FALSE, NEW running \in [Pids -> Jobs \cup {NOBODY}],
           \A p \in Pids : running[p] # NOBODY => running[p] = procs[p] /\ running[p] # j,
           run_command(j, job, running),
           topics' \in [Topics -> Seq(Requests)],
           req' \in Requests \cup {NoRequest}, i' \in Jobs
    PROVE  IInv'
  <1>1. /\ jobs' \in [Jobs -> Job]
        /\ procs' \in [Pids -> Jobs \cup {NOBODY}]
        /\ Tracked'
        /\ \A k \in Jobs : k # j => jobs'[k] = jobs[k] /\ (Up(k)' => Up(k))
        /\ jobs'[j].stopped = FALSE
    BY RunKeeps DEF IInv, TypeOK
  <1>2. TypeOK'
    BY <1>1 DEF TypeOK, Loop
  <1>3. StoppedIdle'
    BY <1>1 DEF IInv, StoppedIdle
  <1>4. KillTarget'
    BY DEF KillTarget, Loop
  <1> QED BY <1>1, <1>2, <1>3, <1>4 DEF IInv

(* Nobody runs a service whose process is not found.                       *)
LEMMA RunIdleStep ==
    ASSUME IInv, pc # "stop_kill", pc' \in Loop, NEW j \in Jobs, NEW job \in Job,
           job.stopped = FALSE, ~get_proc_info(jobs[j].pid), run_command(j, job, procs),
           topics' \in [Topics -> Seq(Requests)],
           req' \in Requests \cup {NoRequest}, i' \in Jobs
    PROVE  IInv'
  <1>1. ~Up(j)
    BY NotFoundIdle DEF IInv, TypeOK
  <1>2. procs \in [Pids -> Jobs \cup {NOBODY}]
    BY DEF IInv, TypeOK
  <1>3. \A p \in Pids : procs[p] # NOBODY => procs[p] = procs[p] /\ procs[p] # j
    BY <1>1 DEF Up
  <1> QED BY <1>2, <1>3, RunStep

LEMMA SkipStep ==
    ASSUME IInv, pc # "stop_kill", NEW op \in Topics, NEW next \in Loop, Skip(op, next)
    PROVE  IInv'
  <1>1. topics' \in [Topics -> Seq(Requests)] /\ req' \in Requests \cup {NoRequest} /\ i' \in Jobs
    BY DEF IInv, TypeOK, Skip
  <1> QED BY <1>1, QuietStep DEF Skip

LEMMA ReplyOnlyStep ==
    ASSUME IInv, pc # "stop_kill", NEW op \in Topics, NEW next \in Loop,
           Waiting(op), ReplyOnly(op, next)
    PROVE  IInv'
  <1>1. topics' \in [Topics -> Seq(Requests)]
    BY ReplyType DEF IInv, TypeOK, ReplyOnly
  <1>2. req' \in Requests \cup {NoRequest} /\ i' \in Jobs
    BY DEF IInv, TypeOK, ReplyOnly
  <1> QED BY <1>1, <1>2, QuietStep DEF ReplyOnly

LEMMA ListStep == IInv /\ handle_service_list_message => IInv'
  <1> SUFFICES ASSUME IInv, handle_service_list_message PROVE IInv'
    OBVIOUS
  <1>1. pc # "stop_kill" /\ "list" \in Topics /\ "start" \in Loop
    BY DEF handle_service_list_message, Topics, Loop
  <1>2. CASE Skip("list", "start")
    BY <1>1, <1>2, SkipStep
  <1>3. CASE Waiting("list") /\ ReplyOnly("list", "start")
    BY <1>1, <1>3, ReplyOnlyStep
  <1> QED BY <1>2, <1>3 DEF handle_service_list_message

LEMMA StartStep == IInv /\ handle_service_op_start_message => IInv'
  <1> SUFFICES ASSUME IInv, handle_service_op_start_message PROVE IInv'
    OBVIOUS
  <1>1. pc # "stop_kill" /\ "start" \in Topics /\ "stop" \in Loop
    BY DEF handle_service_op_start_message, Topics, Loop
  <1>2. CASE Skip("start", "stop")
    BY <1>1, <1>2, SkipStep
  <1>3. CASE Waiting("start") /\ ReplyOnly("start", "stop")
    BY <1>1, <1>3, ReplyOnlyStep
  <1>4. ASSUME Waiting("start"), NEW j \in Jobs, ~IsRunning(j),
               run_command(j, Reset(j), procs), Reply("start"),
               pc' = "stop", UNCHANGED <<req, i>>
        PROVE  IInv'
    <2>1. topics' \in [Topics -> Seq(Requests)]
      BY <1>1, <1>4, ReplyType DEF IInv, TypeOK
    <2>2. req' \in Requests \cup {NoRequest} /\ i' \in Jobs /\ pc' \in Loop
      BY <1>1, <1>4 DEF IInv, TypeOK
    <2>3. Reset(j) \in Job /\ Reset(j).stopped = FALSE
      BY ResetType DEF IInv, TypeOK
    <2>4. ~Up(j)
      <3>1. CASE jobs[j].stopped
        BY <1>1, <3>1 DEF IInv, StoppedIdle
      <3>2. CASE ~get_proc_info(jobs[j].pid)
        BY <3>2, NotFoundIdle DEF IInv, TypeOK
      <3> QED BY <1>4, <3>1, <3>2 DEF IsRunning
    <2>5. procs \in [Pids -> Jobs \cup {NOBODY}]
      BY DEF IInv, TypeOK
    <2>6. \A p \in Pids : procs[p] # NOBODY => procs[p] = procs[p] /\ procs[p] # j
      BY <2>4 DEF Up
    <2> QED BY <1>1, <1>4, <2>1, <2>2, <2>3, <2>5, <2>6, RunStep
  <1> QED BY <1>2, <1>3, <1>4 DEF handle_service_op_start_message, Known

(* Marking a service stopped opens the window that the kill closes.        *)
LEMMA StopStep == IInv /\ handle_service_op_stop_message => IInv'
  <1> SUFFICES ASSUME IInv, handle_service_op_stop_message PROVE IInv'
    OBVIOUS
  <1>1. pc # "stop_kill" /\ "stop" \in Topics /\ "restart" \in Loop
    BY DEF handle_service_op_stop_message, Topics, Loop
  <1>2. CASE Skip("stop", "restart")
    BY <1>1, <1>2, SkipStep
  <1>3. CASE Waiting("stop") /\ ReplyOnly("stop", "restart")
    BY <1>1, <1>3, ReplyOnlyStep
  <1> DEFINE j == Request("stop").name
  <1>4. ASSUME Waiting("stop"), j \in Jobs,
               jobs' = [jobs EXCEPT ![j].stopped = TRUE],
               pc' = "stop_kill", req' = Request("stop"),
               topics' = message_recv(topics, "stop"), UNCHANGED <<procs, i>>
        PROVE  IInv'
    <2>1. Request("stop") \in Requests /\ topics' \in [Topics -> Seq(Requests)]
      BY <1>1, <1>4, RequestType DEF IInv, TypeOK
    <2>2. jobs \in [Jobs -> Job]
      BY DEF IInv, TypeOK
    <2>3. /\ jobs' \in [Jobs -> Job] /\ jobs'[j].pid = jobs[j].pid
          /\ \A k \in Jobs : k # j => jobs'[k] = jobs[k]
      BY <1>4, <2>2 DEF Job
    <2>4. TypeOK'
      BY <1>4, <2>1, <2>3 DEF IInv, TypeOK
    <2>5. Tracked'
      BY <1>4, <2>3 DEF IInv, TypeOK, Tracked
    <2>6. StoppedIdle'
      BY <1>1, <1>4, <2>3 DEF IInv, StoppedIdle, Up
    <2>7. KillTarget'
      BY <1>4, <2>1 DEF KillTarget
    <2> QED BY <2>4, <2>5, <2>6, <2>7 DEF IInv
  <1>5. ASSUME Waiting("stop"), j \in Jobs, ~get_proc_info(jobs[j].pid),
               jobs' = [jobs EXCEPT ![j] = [pid |-> NOPID, retry |-> @.retry, stopped |-> TRUE]],
               Reply("stop"), pc' = "restart", UNCHANGED <<procs, req, i>>
        PROVE  IInv'
    <2>1. topics' \in [Topics -> Seq(Requests)]
      BY <1>1, <1>5, ReplyType DEF IInv, TypeOK
    <2>2. jobs \in [Jobs -> Job]
      BY DEF IInv, TypeOK
    <2>3. /\ jobs' \in [Jobs -> Job]
          /\ \A k \in Jobs : k # j => jobs'[k] = jobs[k]
      BY <1>5, <2>2 DEF Job
    <2>4. ~Up(j)
      BY <1>5, NotFoundIdle DEF IInv, TypeOK
    <2>5. TypeOK'
      BY <1>5, <2>1, <2>3 DEF IInv, TypeOK
    <2>6. Tracked'
      BY <1>5, <2>3, <2>4 DEF IInv, TypeOK, Tracked, Up
    <2>7. StoppedIdle'
      BY <1>1, <1>5, <2>3, <2>4 DEF IInv, StoppedIdle, Up
    <2>8. KillTarget'
      BY <1>5 DEF KillTarget
    <2> QED BY <2>5, <2>6, <2>7, <2>8 DEF IInv
  <1> QED BY <1>2, <1>3, <1>4, <1>5 DEF handle_service_op_stop_message, Known

(* A kill that fails ends the manager, with nobody left running the        *)
(* service it meant.                                                       *)
LEMMA KillFailsStep ==
    ASSUME IInv, pc \in {"stop_kill", "restart_kill"}, KillFails
    PROVE  IInv'
  <1> DEFINE j == req.name
  <1>1. j \in Jobs
    BY DEF IInv, KillTarget
  <1>2. ~Up(j)
    BY <1>1, NotFoundIdle DEF IInv, TypeOK, KillFails
  <1>3. TypeOK'
    BY DEF IInv, TypeOK, KillFails
  <1>4. Tracked' /\ KillTarget'
    BY DEF IInv, Tracked, KillTarget, KillFails
  <1>5. StoppedIdle'
    BY <1>2 DEF IInv, StoppedIdle, KillFails, Up
  <1> QED BY <1>3, <1>4, <1>5 DEF IInv

(* After the kill nobody runs the service: its job named its only process. *)
LEMMA KilledIdle ==
    ASSUME IInv, pc \in {"stop_kill", "restart_kill"}, get_proc_info(jobs[req.name].pid)
    PROVE  /\ req.name \in Jobs /\ req \in Requests
           /\ Killed \in [Pids -> Jobs \cup {NOBODY}]
           /\ \A p \in Pids : Killed[p] # NOBODY => Killed[p] = procs[p] /\ Killed[p] # req.name
  <1>1. req.name \in Jobs /\ req \in Requests
    BY DEF IInv, KillTarget
  <1>2. jobs[req.name].pid \in Pids
    BY <1>1 DEF IInv, TypeOK, Job, get_proc_info
  <1> QED BY <1>1, <1>2 DEF IInv, TypeOK, Tracked, Killed

LEMMA StopKillStep == IInv /\ stop_kill => IInv'
  <1> SUFFICES ASSUME IInv, stop_kill PROVE IInv'
    OBVIOUS
  <1>1. pc = "stop_kill"
    BY DEF stop_kill
  <1>2. CASE KillFails
    BY <1>1, <1>2, KillFailsStep
  <1>3. ASSUME get_proc_info(jobs[req.name].pid), procs' = Killed,
               jobs' = [jobs EXCEPT ![req.name].pid = NOPID],
               topics' = message_send(topics, OP_REPLY, req),
               pc' = "restart", req' = NoRequest, UNCHANGED i
        PROVE  IInv'
    <2> DEFINE j == req.name
    <2>1. /\ j \in Jobs /\ req \in Requests
          /\ Killed \in [Pids -> Jobs \cup {NOBODY}]
          /\ \A p \in Pids : Killed[p] # NOBODY => Killed[p] = procs[p] /\ Killed[p] # j
      BY <1>1, <1>3, KilledIdle
    <2>2. OP_REPLY \in Topics
      BY DEF Topics
    <2>3. topics' \in [Topics -> Seq(Requests)]
      BY <1>3, <2>1, <2>2, SendType DEF IInv, TypeOK
    <2>4. jobs \in [Jobs -> Job]
      BY DEF IInv, TypeOK
    <2>5. /\ jobs' \in [Jobs -> Job]
          /\ \A k \in Jobs : k # j => jobs'[k] = jobs[k]
      BY <1>3, <2>1, <2>4 DEF Job
    <2>6. TypeOK'
      BY <1>3, <2>1, <2>3, <2>5 DEF IInv, TypeOK
    <2>7. Tracked'
      BY <1>3, <2>1, <2>5 DEF IInv, TypeOK, Tracked
    <2>8. StoppedIdle'
      BY <1>3, <2>1, <2>5 DEF IInv, StoppedIdle, Up
    <2>9. KillTarget'
      BY <1>3 DEF KillTarget
    <2> QED BY <2>6, <2>7, <2>8, <2>9 DEF IInv
  <1> QED BY <1>2, <1>3 DEF stop_kill

LEMMA RestartStep == IInv /\ handle_service_op_restart_message => IInv'
  <1> SUFFICES ASSUME IInv, handle_service_op_restart_message PROVE IInv'
    OBVIOUS
  <1>1. pc # "stop_kill" /\ "restart" \in Topics /\ "jobs" \in Loop
    BY DEF handle_service_op_restart_message, Topics, Loop
  <1>2. CASE Skip("restart", "jobs")
    BY <1>1, <1>2, SkipStep
  <1>3. CASE Waiting("restart") /\ ReplyOnly("restart", "jobs")
    BY <1>1, <1>3, ReplyOnlyStep
  <1> DEFINE j == Request("restart").name
  <1>4. ASSUME Waiting("restart"), j \in Jobs, pc' = "restart_kill", req' = Request("restart"),
               topics' = message_recv(topics, "restart"), UNCHANGED <<jobs, procs, i>>
        PROVE  IInv'
    <2>1. Request("restart") \in Requests /\ topics' \in [Topics -> Seq(Requests)]
      BY <1>1, <1>4, RequestType DEF IInv, TypeOK
    <2>2. TypeOK'
      BY <1>4, <2>1 DEF IInv, TypeOK
    <2>3. Tracked' /\ KillTarget'
      BY <1>4, <2>1 DEF IInv, Tracked, KillTarget
    <2>4. StoppedIdle'
      BY <1>1, <1>4 DEF IInv, StoppedIdle, Up
    <2> QED BY <2>2, <2>3, <2>4 DEF IInv
  <1>5. ASSUME Waiting("restart"), j \in Jobs, ~get_proc_info(jobs[j].pid),
               run_command(j, Reset(j), procs), Reply("restart"), pc' = "jobs",
               UNCHANGED <<req, i>>
        PROVE  IInv'
    <2>1. topics' \in [Topics -> Seq(Requests)]
      BY <1>1, <1>5, ReplyType DEF IInv, TypeOK
    <2>2. req' \in Requests \cup {NoRequest} /\ i' \in Jobs /\ pc' \in Loop
      BY <1>1, <1>5 DEF IInv, TypeOK
    <2>3. Reset(j) \in Job /\ Reset(j).stopped = FALSE
      BY <1>5, ResetType DEF IInv, TypeOK
    <2> QED BY <1>1, <1>5, <2>1, <2>2, <2>3, RunIdleStep
  <1> QED BY <1>2, <1>3, <1>4, <1>5 DEF handle_service_op_restart_message, Known

LEMMA RestartKillStep == IInv /\ restart_kill => IInv'
  <1> SUFFICES ASSUME IInv, restart_kill PROVE IInv'
    OBVIOUS
  <1>1. pc = "restart_kill"
    BY DEF restart_kill
  <1>2. CASE KillFails
    BY <1>1, <1>2, KillFailsStep
  <1>3. ASSUME get_proc_info(jobs[req.name].pid),
               run_command(req.name, Reset(req.name), Killed),
               topics' = message_send(topics, OP_REPLY, req),
               pc' = "jobs", req' = NoRequest, UNCHANGED i
        PROVE  IInv'
    <2> DEFINE j == req.name
    <2>1. /\ j \in Jobs /\ req \in Requests
          /\ Killed \in [Pids -> Jobs \cup {NOBODY}]
          /\ \A p \in Pids : Killed[p] # NOBODY => Killed[p] = procs[p] /\ Killed[p] # j
      BY <1>1, <1>3, KilledIdle
    <2>2. OP_REPLY \in Topics
      BY DEF Topics
    <2>3. topics' \in [Topics -> Seq(Requests)]
      BY <1>3, <2>1, <2>2, SendType DEF IInv, TypeOK
    <2>4. Reset(j) \in Job /\ Reset(j).stopped = FALSE
      BY <2>1, ResetType DEF IInv, TypeOK
    <2>5. i' \in Jobs /\ pc' \in Loop /\ pc # "stop_kill" /\ req' \in Requests \cup {NoRequest}
      BY <1>1, <1>3 DEF IInv, TypeOK, Loop
    <2> QED BY <1>3, <2>1, <2>3, <2>4, <2>5, RunStep
  <1> QED BY <1>2, <1>3 DEF restart_kill

LEMMA CheckJobStep == IInv /\ check_job => IInv'
  <1> SUFFICES ASSUME IInv, check_job PROVE IInv'
    OBVIOUS
  <1>1. /\ pc # "stop_kill" /\ pc' \in Loop /\ i \in Jobs /\ i' \in Jobs
        /\ req' \in Requests \cup {NoRequest} /\ topics' \in [Topics -> Seq(Requests)]
    BY DEF check_job, IInv, TypeOK, Loop
  <1>2. CASE UNCHANGED <<jobs, procs>>
    BY <1>1, <1>2, QuietStep
  <1>3. ASSUME NeedsRestart(i), MayRetry(i),
               run_command(i, [jobs[i] EXCEPT !.retry = @ + 1], procs)
        PROVE  IInv'
    <2>1. jobs[i] \in Job
      BY <1>1 DEF IInv, TypeOK
    <2>2. [jobs[i] EXCEPT !.retry = @ + 1] \in Job
           /\ [jobs[i] EXCEPT !.retry = @ + 1].stopped = FALSE
      BY <1>3, <2>1 DEF Job, MayRetry, NeedsRestart
    <2>3. ~get_proc_info(jobs[i].pid)
      BY <1>3 DEF NeedsRestart
    <2> QED BY <1>1, <1>3, <2>2, <2>3, RunIdleStep
  <1> QED BY <1>2, <1>3 DEF check_job

LEMMA ExitStep == ASSUME IInv, NEW p \in Pids, service_exit(p) PROVE IInv'
  <1>1. TypeOK'
    BY DEF IInv, TypeOK, service_exit
  <1>2. Tracked'
    BY DEF IInv, TypeOK, Tracked, service_exit
  <1>3. StoppedIdle' /\ KillTarget'
    BY DEF IInv, TypeOK, StoppedIdle, KillTarget, Up, service_exit
  <1> QED BY <1>1, <1>2, <1>3 DEF IInv

(* The clients touch nothing but topics.                                   *)
LEMMA ClientStep ==
    ASSUME IInv, topics' \in [Topics -> Seq(Requests)], UNCHANGED <<jobs, procs, pc, req, i>>
    PROVE  IInv'
  BY DEF IInv, TypeOK, Tracked, StoppedIdle, KillTarget, Up

LEMMA SendStep ==
    ASSUME IInv, NEW c \in Clients, NEW op \in Ops \cup {"list"},
           NEW name \in Names \cup {NOBODY}, Send(c, op, name)
    PROVE  IInv'
  <1>1. op \in Topics
    BY DEF Topics
  <1>2. [op |-> op, name |-> name] \in Requests
    BY DEF Requests
  <1>3. topics' \in [Topics -> Seq(Requests)]
    BY <1>1, <1>2, SendType DEF IInv, TypeOK, Send
  <1> QED BY <1>3, ClientStep DEF Send

LEMMA WaitStep == ASSUME IInv, NEW c \in Clients, wait_for_op_reply(c) PROVE IInv'
  <1> DEFINE topic == ReplyTopic(clients[c].op)
  <1>1. topic \in Topics
    BY DEF ReplyTopic, Topics
  <1>2. CASE Waiting(topic) /\ topics' = message_recv(topics, topic)
    <2>1. topics' \in [Topics -> Seq(Requests)]
      BY <1>1, <1>2, RequestType DEF IInv, TypeOK
    <2> QED BY <2>1, ClientStep DEF wait_for_op_reply
  <1>3. CASE UNCHANGED topics
    <2>1. topics' \in [Topics -> Seq(Requests)]
      BY <1>3 DEF IInv, TypeOK
    <2> QED BY <2>1, ClientStep DEF wait_for_op_reply
  <1> QED BY <1>2, <1>3 DEF wait_for_op_reply
-----------------------------------------------------------------------------
LEMMA InitInv == Init => IInv
  <1> SUFFICES ASSUME Init PROVE IInv
    OBVIOUS
  <1>1. PICK started \in SUBSET Jobs :
          /\ jobs = [j \in Jobs |-> [pid |-> IF j \in started THEN j ELSE NOPID,
                                     retry |-> 0, stopped |-> FALSE]]
          /\ procs = [p \in Pids |-> IF p \in started THEN p ELSE NOBODY]
    BY DEF Init
  <1>2. jobs \in [Jobs -> Job] /\ procs \in [Pids -> Jobs \cup {NOBODY}]
    BY <1>1 DEF Job
  <1>3. topics \in [Topics -> Seq(Requests)]
    BY DEF Init
  <1>4. TypeOK
    BY <1>2, <1>3 DEF Init, TypeOK
  <1>5. Tracked
    BY <1>1 DEF Tracked
  <1>6. StoppedIdle /\ KillTarget
    BY <1>1 DEF Init, StoppedIdle, KillTarget
  <1> QED BY <1>4, <1>5, <1>6 DEF IInv

LEMMA NextInv == IInv /\ [Next]_vars => IInv'
  <1> SUFFICES ASSUME IInv, [Next]_vars PROVE IInv'
    OBVIOUS
  <1>1. CASE UNCHANGED vars
    BY <1>1 DEF vars, IInv, TypeOK, Tracked, StoppedIdle, KillTarget, Up
  <1>2. ASSUME NEW p \in Pids, service_exit(p) PROVE IInv'
    BY <1>2, ExitStep
  <1>3. ASSUME NEW c \in Clients, cmd_list(c) PROVE IInv'
    BY <1>3, SendStep DEF cmd_list
  <1>4. ASSUME NEW c \in Clients, NEW op \in Ops, NEW name \in Names, cmd_op(c, op, name)
        PROVE  IInv'
    BY <1>4, SendStep DEF cmd_op
  <1>5. ASSUME NEW c \in Clients, wait_for_op_reply(c) PROVE IInv'
    BY <1>5, WaitStep
  <1> QED BY <1>1, <1>2, <1>3, <1>4, <1>5, ListStep, StartStep, StopStep, StopKillStep,
             RestartStep, RestartKillStep, CheckJobStep DEF Next

(* The invariant holds through every pass of the manager's loop and every  *)
(* step of services and commands in between.                               *)
THEOREM ServicesInv == Spec => []IInv
  BY InitInv, NextInv, PTL DEF Spec

(* However many services and commands there are, and however exits, starts,*)
(* stops and restarts interleave with the loop of scheduler/main.c, every  *)
(* live process of a service is the one its job names.                     *)
THEOREM ServicesTracked == Spec => [](TypeOK /\ Tracked)
  <1>1. IInv => TypeOK /\ Tracked
    BY DEF IInv
  <1> QED BY <1>1, ServicesInv, PTL

(* Jobs, processes, topics and the place in the manager's loop keep their  *)
(* types (TypeOK of Services): whatever is queued in a topic is a request, *)
(* and the manager never reads past the jobs there are.                    *)
THEOREM ServicesTypeOK == Spec => []TypeOK
  BY ServicesTracked, PTL

(* A service whose stop was answered does not run until it is started      *)
(* again: the restart loop of scheduler/main.c never revives it.           *)
THEOREM ServicesStopped == Spec => []StoppedStays
  <1>1. IInv => StoppedStays
    BY DEF IInv, StoppedIdle, StoppedStays
  <1> QED BY <1>1, ServicesInv, PTL
=============================================================================
