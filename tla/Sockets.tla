------------------------------ MODULE Sockets -------------------------------
(***************************************************************************)
(* UDP sockets: the packet side (mckrnl/core/net/udp.c), the objects that  *)
(* programs hold (net/socket_manager.c, syscall/sys_sock_*.c, the resources*)
(* of a task in scheduler/resource.c) and the table of asynchronous kernel *)
(* tasks (scheduler/async.c) that sends frames and closes what a dead      *)
(* program left open.                                                      *)
(*                                                                         *)
(* A syscall and a packet handler are steps.  The timer interrupt runs the *)
(* tasks of the table one after the other with nothing in between.  Of a   *)
(* datagram only the sender and the port matter, so what a socket received *)
(* is a set of those.  Memory of the size of a udp_socket_t is given out   *)
(* lowest address first, as the heap does, and so is soon used again.      *)
(***************************************************************************)
EXTENDS Integers, Sequences, FiniteSets

CONSTANTS Programs,         \* programs that use the network at the same time
          Remotes,          \* hosts on the network
          NAddrs,           \* addresses at which udp_socket_t are allocated
          MaxIds,           \* bound on the socket ids given out
          MaxQueue,         \* bound on an accept queue
          MAX_ASYNC_TASKS

ASSUME SocketsAssumption ==
    /\ IsFiniteSet(Programs) /\ IsFiniteSet(Remotes)
    /\ NAddrs \in Nat /\ MaxIds \in Nat /\ MaxQueue \in Nat /\ MAX_ASYNC_TASKS \in Nat \ {0}

VARIABLES udp,      \* address -> what is there
          binds,    \* stack->udp->binds
          socks,    \* socket id -> the socket_t
          nextId,   \* curr_socket
          progs,    \* program -> [running, disc, res]
          tasks,    \* async_tasks
          at,       \* the entry a timer interrupt is at, or NOWHERE
          ran,      \* blocking_task_run
          dropped   \* sockets whose closing found no entry in async_tasks (ghost)

vars == <<udp, binds, socks, nextId, progs, tasks, at, ran, dropped>>

NULL == 0
NOWHERE == 0
NOBODY == "nobody"
Addrs == 1 .. NAddrs
Ids == 1 .. MaxIds
PORT == 0                      \* the port programs listen on; free_port gives out other ones
Slots == 1 .. MAX_ASYNC_TASKS

(* peer (ghost): the remote host a socket_t was created for.               *)
NoUdp == [live |-> FALSE, listening |-> FALSE, port |-> 0, remote |-> NOBODY, data |-> NULL, queue |-> <<>>, pending |-> {}]
NoSock == [live |-> FALSE, udp |-> NULL, got |-> {}, peer |-> NOBODY]
NoTask == [kind |-> "none", id |-> NULL]
Fresh == [running |-> TRUE, disc |-> NULL, res |-> {}]

Interruptible == at = NOWHERE
CanCall(p) == Interruptible /\ progs[p].running
-----------------------------------------------------------------------------
FirstFree == {a \in Addrs : ~udp[a].live /\ \A b \in Addrs : ~udp[b].live => a <= b}

Bound(a) == \E i \in DOMAIN binds : binds[i] = a
BoundTo(a) ==
    LET free == {i \in DOMAIN binds : binds[i] = NULL} IN
    IF free = {} THEN Append(binds, a)
    ELSE [binds EXCEPT ![CHOOSE i \in free : \A j \in free : i <= j] = a]

KeepBound(a) == binds  \* mutation: the entry of a freed socket stays
Unbind(a) == [i \in DOMAIN binds |-> IF binds[i] = a THEN NULL ELSE binds[i]]

(* socket_create for the socket at address a, and its registration as a    *)
(* resource of the program.                                                *)
Created(a, peer, got) ==
    /\ nextId <= MaxIds
    /\ socks' = [socks EXCEPT ![nextId] = [live |-> TRUE, udp |-> a, got |-> got, peer |-> peer]]
    /\ nextId' = nextId + 1

Registered(p) == [progs[p] EXCEPT !.res = @ \cup {nextId}]

Start(p) ==
    /\ Interruptible /\ ~progs[p].running
    /\ progs' = [progs EXCEPT ![p] = Fresh]
    /\ UNCHANGED <<udp, binds, socks, nextId, tasks, at, ran, dropped>>

sys_sock_listen(p) ==
    /\ CanCall(p)
    /\ \E a \in FirstFree :
          /\ udp' = [udp EXCEPT ![a] = [NoUdp EXCEPT !.live = TRUE, !.listening = TRUE, !.port = PORT, !.data = nextId]]
          /\ binds' = BoundTo(a)
          /\ Created(a, NOBODY, {})
    /\ progs' = [progs EXCEPT ![p] = Registered(p)]
    /\ UNCHANGED <<tasks, at, ran, dropped>>

(* The last poll of a connect, its route being known.                      *)
sys_sock_connect(p) ==
    /\ CanCall(p)
    /\ \E r \in Remotes, a \in FirstFree :
          /\ udp' = [udp EXCEPT ![a] = [NoUdp EXCEPT !.live = TRUE, !.port = nextId, !.remote = r, !.data = nextId]]
          /\ binds' = BoundTo(a)
          /\ Created(a, r, {})
    /\ progs' = [progs EXCEPT ![p] = Registered(p)]
    /\ UNCHANGED <<tasks, at, ran, dropped>>

(* The oldest child of the accept queue, with what it received so far.     *)
sys_sock_accept(p) ==
    /\ CanCall(p)
    /\ \E id \in progs[p].res :
          LET l == socks[id].udp
              c == Head(udp[l].queue)
          IN /\ udp[l].listening /\ udp[l].queue # <<>>
             /\ Created(c, udp[c].remote, udp[c].pending)
             /\ udp' = [udp EXCEPT ![l].queue = Tail(@), ![c].data = nextId, ![c].pending = {}]
    /\ progs' = [progs EXCEPT ![p] = Registered(p)]
    /\ UNCHANGED <<binds, tasks, at, ran, dropped>>

sys_sock_recv(p) ==
    /\ CanCall(p)
    /\ \E id \in progs[p].res : /\ socks[id].got # {}
                                /\ socks' = [socks EXCEPT ![id].got = {}]
    /\ UNCHANGED <<udp, binds, nextId, progs, tasks, at, ran, dropped>>
-----------------------------------------------------------------------------
(* add_async_task for a sequence of tasks given by rank: free entries are  *)
(* taken from the top, and what finds none is forgotten.                   *)
FreeSlots == {s \in Slots : tasks[s].kind = "none"}
Rank(S, x) == Cardinality({y \in S : y <= x})
FromTop(s) == Cardinality({t \in FreeSlots : t >= s})

(* A frame is sent by a blocking task (nic_driver.c).                      *)
send_packet == /\ Interruptible
               /\ \E s \in FreeSlots : /\ FromTop(s) = 1
                                       /\ tasks' = [tasks EXCEPT ![s] = [kind |-> "send", id |-> NULL]]
               /\ UNCHANGED <<udp, binds, socks, nextId, progs, at, ran, dropped>>

(* udp_socket_disconnect with a fresh async: the first call unbinds and    *)
(* frees, a later one finds nothing bound at the address and is done; then *)
(* socket_disconnect frees the socket_t.  If the address is in use again   *)
(* by then, the later call closes whatever is there now.  Freed memory     *)
(* keeps its contents until it is given out again.                         *)
udp_socket_disconnect(id) ==
    LET a == socks[id].udp IN
    /\ Bound(a)
    /\ binds' = Unbind(a)
    /\ udp' = [udp EXCEPT ![a].live = FALSE]
    /\ UNCHANGED socks
FreeSock(id) ==
    /\ ~Bound(socks[id].udp)
    /\ socks' = [socks EXCEPT ![id] = NoSock]
    /\ UNCHANGED <<udp, binds>>

(* The program polls until it is done.                                     *)
sys_sock_disconnect(p) ==
    /\ CanCall(p)
    /\ \E id \in progs[p].res :
          /\ progs[p].disc \in {NULL, id}
          /\ \/ /\ udp_socket_disconnect(id)
                /\ progs' = [progs EXCEPT ![p].disc = id]
             \/ /\ FreeSock(id)
                /\ progs' = [progs EXCEPT ![p].disc = NULL, ![p].res = @ \ {id}]
    /\ UNCHANGED <<nextId, tasks, at, ran, dropped>>

(* exit_task: sys_connect_dealloc for every socket still registered, in    *)
(* the order of their ids.                                                 *)
Exit(p) ==
    LET res == progs[p].res
        Close(s) == {id \in res : Rank(res, id) = FromTop(s)}
    IN /\ CanCall(p)
       /\ tasks' = [s \in Slots |-> IF s \in FreeSlots /\ Close(s) # {}
                                    THEN [kind |-> "close", id |-> CHOOSE id \in Close(s) : TRUE]
                                    ELSE tasks[s]]
       /\ dropped' = dropped \cup {id \in res : Rank(res, id) > Cardinality(FreeSlots)}
       /\ progs' = [progs EXCEPT ![p] = [Fresh EXCEPT !.running = FALSE]]
       /\ UNCHANGED <<udp, binds, socks, nextId, at, ran>>
-----------------------------------------------------------------------------
(* The timer interrupt: process_async_tasks, entry by entry.               *)
Taken(i) == {s \in Slots : s >= i /\ tasks[s].kind # "none"}
AfterUnchecked(i) == i  \* mutation: the walk goes past the last entry
After(i) == IF Taken(i) = {} THEN NOWHERE ELSE CHOOSE s \in Taken(i) : \A t \in Taken(i) : s <= t

Tick == /\ Interruptible /\ Taken(1) # {}
        /\ at' = After(1)
        /\ ran' = FALSE
        /\ UNCHANGED <<udp, binds, socks, nextId, progs, tasks, dropped>>

SkipAny == ran  \* mutation: every task waits for the next interrupt once a blocking one ran
SkipBlocking == tasks[at].kind = "send" /\ ran

run_skipped == /\ at # NOWHERE /\ SkipBlocking
               /\ at' = After(at + 1)
               /\ UNCHANGED <<udp, binds, socks, nextId, progs, tasks, ran, dropped>>

(* The frame is handed to the interface, or waited for; at last it is out. *)
run_send == /\ at # NOWHERE /\ ~SkipBlocking /\ tasks[at].kind = "send"
            /\ tasks' \in {tasks, [tasks EXCEPT ![at] = NoTask]}
            /\ at' = After(at + 1) /\ ran' = TRUE
            /\ UNCHANGED <<udp, binds, socks, nextId, progs, dropped>>

run_close == /\ at # NOWHERE /\ ~SkipBlocking /\ tasks[at].kind = "close"
             /\ \/ udp_socket_disconnect(tasks[at].id) /\ UNCHANGED tasks
                \/ FreeSock(tasks[at].id) /\ tasks' = [tasks EXCEPT ![at] = NoTask]
             /\ at' = After(at + 1)
             /\ UNCHANGED <<nextId, progs, ran, dropped>>
-----------------------------------------------------------------------------
(* A datagram from host r to a port: the first bound socket of that pair,  *)
(* else a new child of the last listener on that port.                     *)
MatchAccepted(a, r, port) ==  \* mutation: a child still in the accept queue is not found
    ~udp[a].listening /\ udp[a].port = port /\ udp[a].remote = r /\ udp[a].data # NULL
MatchAnyHost(a, r, port) == ~udp[a].listening /\ udp[a].port = port  \* mutation: the sender is not compared
Match(a, r, port) == ~udp[a].listening /\ udp[a].port = port /\ udp[a].remote = r
Targets(r, port) == {i \in DOMAIN binds : binds[i] # NULL /\ Match(binds[i], r, port)}
Listeners(port) == {i \in DOMAIN binds : binds[i] # NULL /\ udp[binds[i]].listening /\ udp[binds[i]].port = port}

(* socket->recv: udp_pending_recv until the child is accepted.             *)
ToBound(r, port) ==
    \E i \in Targets(r, port) :
       LET a == binds[i] IN
       /\ \A j \in Targets(r, port) : i <= j
       /\ IF udp[a].data = NULL
          THEN udp' = [udp EXCEPT ![a].pending = @ \cup {r}] /\ UNCHANGED socks
          ELSE socks' = [socks EXCEPT ![udp[a].data].got = @ \cup {r}] /\ UNCHANGED udp
       /\ UNCHANGED binds

ToListener(r, port) ==
    /\ Targets(r, port) = {}
    /\ \E i \in Listeners(port), c \in FirstFree :
          /\ \A j \in Listeners(port) : j <= i
          /\ Len(udp[binds[i]].queue) < MaxQueue
          /\ udp' = [udp EXCEPT ![c] = [NoUdp EXCEPT !.live = TRUE, !.port = port, !.remote = r, !.pending = {r}],
                                ![binds[i]].queue = Append(@, c)]
          /\ binds' = BoundTo(c)
    /\ UNCHANGED socks

udp_ipv4_recv ==
    /\ Interruptible
    /\ \E r \in Remotes, port \in {PORT} \cup Ids : ToBound(r, port) \/ ToListener(r, port)
    /\ UNCHANGED <<nextId, progs, tasks, at, ran, dropped>>
-----------------------------------------------------------------------------
Init ==
    /\ udp = [a \in Addrs |-> NoUdp] /\ binds = <<>>
    /\ socks = [id \in Ids |-> NoSock] /\ nextId = 1
    /\ progs = [p \in Programs |-> [Fresh EXCEPT !.running = FALSE]]
    /\ tasks = [s \in Slots |-> NoTask] /\ at = NOWHERE /\ ran = FALSE
    /\ dropped = {}

Program(p) == \/ Start(p) \/ sys_sock_listen(p) \/ sys_sock_connect(p)
              \/ sys_sock_accept(p) \/ sys_sock_recv(p) \/ sys_sock_disconnect(p) \/ Exit(p)

Interrupt == Tick \/ run_skipped \/ run_send \/ run_close

Next == \/ \E p \in Programs : Program(p)
        \/ send_packet \/ Interrupt \/ udp_ipv4_recv

(* The timer interrupt keeps coming.                                       *)
Spec == Init /\ [][Next]_vars
FairSpec == Spec /\ WF_vars(Interrupt)
-----------------------------------------------------------------------------
TypeOK ==
    /\ udp \in [Addrs -> [live : BOOLEAN, listening : BOOLEAN, port : {PORT} \cup Ids, remote : Remotes \cup {NOBODY},
                          data : Ids \cup {NULL}, queue : Seq(Addrs), pending : SUBSET Remotes]]
    /\ binds \in Seq(Addrs \cup {NULL})
    /\ socks \in [Ids -> [live : BOOLEAN, udp : Addrs \cup {NULL}, got : SUBSET Remotes, peer : Remotes \cup {NOBODY}]]
    /\ nextId \in 1 .. MaxIds + 1
    /\ progs \in [Programs -> [running : BOOLEAN, disc : Ids \cup {NULL}, res : SUBSET Ids]]
    /\ tasks \in [Slots -> [kind : {"none", "send", "close"}, id : Ids \cup {NULL}]]
    /\ at \in {NOWHERE} \cup Slots /\ ran \in BOOLEAN /\ dropped \subseteq Ids

(* Whatever the packet handler can find is memory in use, and it hands     *)
(* data only to a socket_t that exists: closing, by a program or after its *)
(* death, never leaves a freed object in the table.                        *)
BoundLive == \A i \in DOMAIN binds : binds[i] # NULL =>
    /\ udp[binds[i]].live
    /\ udp[binds[i]].data # NULL => socks[udp[binds[i]].data].live

(* A program reads from a socket only what the host it is connected to     *)
(* sent, although addresses of closed sockets are used again at once.      *)
OwnDatagrams == \A id \in Ids : socks[id].live => socks[id].got \subseteq {socks[id].peer}

(* Every host that writes to a listening port gets one socket: datagrams   *)
(* never split over two children (udp_ipv4_recv).                          *)
OneChild == \A i, j \in DOMAIN binds :
    /\ binds[i] # NULL /\ binds[j] # NULL /\ i # j
    /\ ~udp[binds[i]].listening /\ ~udp[binds[j]].listening
    => <<udp[binds[i]].port, udp[binds[i]].remote>> # <<udp[binds[j]].port, udp[binds[j]].remote>>

(* The sockets a program leaves open are closed after its death, however   *)
(* many frames wait to be sent, unless the table was full.                 *)
Reclaimed == \A id \in Ids :
    (socks[id].live /\ \A p \in Programs : id \notin progs[p].res) /\ id \notin dropped ~> ~socks[id].live
=============================================================================
