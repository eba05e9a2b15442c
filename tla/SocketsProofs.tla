--------------------------- MODULE SocketsProofs ----------------------------
(***************************************************************************)
(* TLAPS proofs about UDP sockets, for any number of programs, hosts,      *)
(* addresses, socket ids and entries of the table of asynchronous tasks.   *)
(***************************************************************************)
EXTENDS Sockets, FiniteSetTheorems, SequenceTheorems, WellFoundedInduction, TLAPS

UdpType == [live : BOOLEAN, listening : BOOLEAN, port : {PORT} \cup Ids, remote : Remotes \cup {NOBODY},
            data : Ids \cup {NULL}, queue : Seq(Addrs), pending : SUBSET Remotes]
SockType == [live : BOOLEAN, udp : Addrs \cup {NULL}, got : SUBSET Remotes, peer : Remotes \cup {NOBODY}]
ProgType == [running : BOOLEAN, disc : Ids \cup {NULL}, res : SUBSET Ids]
TaskType == [kind : {"none", "send", "close"}, id : Ids \cup {NULL}]

(* A socket_t in use names memory in the range of the heap, and its id was *)
(* given out.                                                              *)
SocksOK == \A id \in Ids : socks[id].live => id < nextId /\ socks[id].udp \in Addrs

Closing(s, id) == tasks[s].kind = "close" /\ tasks[s].id = id

(* A socket_t has one owner: the program it is registered with or the task *)
(* that closes it.  So nobody frees it under somebody else.                *)
Owned ==
    /\ \A p \in Programs : \A id \in progs[p].res : socks[id].live
    /\ \A s \in Slots : tasks[s].kind = "close" => tasks[s].id \in Ids /\ socks[tasks[s].id].live
    /\ \A p, q \in Programs : p # q => progs[p].res \cap progs[q].res = {}
    /\ \A p \in Programs, s \in Slots : \A id \in progs[p].res : ~Closing(s, id)
    /\ \A s, t \in Slots : s # t /\ tasks[s].kind = "close" /\ tasks[t].kind = "close"
                           => tasks[s].id # tasks[t].id

(* Also what is left in freed memory was written for an earlier id.        *)
UdpOK == \A a \in Addrs : /\ udp[a].data < nextId /\ udp[a].port < nextId
                          /\ udp[a].pending \subseteq {udp[a].remote}

(* What the packet handler can find and the socket_t it belongs to name    *)
(* each other.                                                             *)
BoundOK == \A a \in Addrs : Bound(a) =>
    /\ udp[a].live
    /\ udp[a].data # NULL => /\ socks[udp[a].data].live /\ socks[udp[a].data].udp = a
                             /\ ~udp[a].listening => socks[udp[a].data].peer = udp[a].remote

IInv == TypeOK /\ SocksOK /\ Owned /\ UdpOK /\ BoundOK /\ OneChild /\ OwnDatagrams
-----------------------------------------------------------------------------
(* Values and operators.                                                   *)

LEMMA NullsType == /\ NoUdp \in UdpType /\ NoSock \in SockType /\ NoTask \in TaskType
                   /\ Fresh \in ProgType /\ [Fresh EXCEPT !.running = FALSE] \in ProgType
  <1>1. NoUdp \in UdpType
    BY DEF NoUdp, UdpType, NULL, PORT, NOBODY
  <1>2. NoSock \in SockType /\ NoTask \in TaskType
    BY DEF NoSock, SockType, NoTask, TaskType, NULL, NOBODY
  <1>3. Fresh \in ProgType /\ [Fresh EXCEPT !.running = FALSE] \in ProgType
    BY DEF Fresh, ProgType, NULL
  <1>4. QED BY <1>1, <1>2, <1>3

LEMMA Constants == /\ MaxIds \in Nat /\ NAddrs \in Nat /\ MAX_ASYNC_TASKS \in Nat
                   /\ Ids \subseteq Nat /\ Addrs \subseteq Nat /\ Slots \subseteq Nat
                   /\ NULL = 0 /\ NULL \notin Ids /\ NULL \notin Addrs
                   /\ PORT = 0 /\ PORT \notin Ids /\ NOWHERE \notin Slots
  BY SocketsAssumption DEF Ids, Addrs, Slots, NULL, PORT, NOWHERE

LEMMA Types == TypeOK <=> /\ udp \in [Addrs -> UdpType]
                          /\ binds \in Seq(Addrs \cup {NULL})
                          /\ socks \in [Ids -> SockType]
                          /\ nextId \in 1 .. MaxIds + 1
                          /\ progs \in [Programs -> ProgType]
                          /\ tasks \in [Slots -> TaskType]
                          /\ at \in {NOWHERE} \cup Slots /\ ran \in BOOLEAN /\ dropped \subseteq Ids
  BY DEF TypeOK, UdpType, SockType, ProgType, TaskType

LEMMA UdpFields ==
    ASSUME TypeOK, NEW a \in Addrs
    PROVE  /\ udp[a].data \in Ids \cup {NULL} /\ udp[a].data \in Nat /\ udp[a].port \in Nat
           /\ udp[a].port \in {PORT} \cup Ids /\ udp[a].remote \in Remotes \cup {NOBODY}
           /\ udp[a].queue \in Seq(Addrs) /\ udp[a].pending \subseteq Remotes
  <1>1. udp[a] \in UdpType
    BY Types
  <1>2. /\ udp[a].data \in Ids \cup {NULL} /\ udp[a].port \in {PORT} \cup Ids
        /\ udp[a].remote \in Remotes \cup {NOBODY}
        /\ udp[a].queue \in Seq(Addrs) /\ udp[a].pending \subseteq Remotes
    BY <1>1 DEF UdpType
  <1>3. udp[a].data \in Nat /\ udp[a].port \in Nat
    BY <1>2, SocketsAssumption DEF NULL, PORT, Ids
  <1>4. QED BY <1>2, <1>3

(* A nonempty set of numbers has a least element.                          *)
LEMMA Least == ASSUME NEW S \in SUBSET Nat, S # {}
               PROVE  \E x \in S : \A y \in S : x <= y
  <1>1. \E x \in S : \A y \in S : ~(<<y, x>> \in OpToRel(<, Nat))
    BY NatLessThanWellFounded, WFMin
  <1>2. PICK x \in S : \A y \in S : ~(<<y, x>> \in OpToRel(<, Nat))
    BY <1>1
  <1>3. \A y \in S : ~(y < x)
    BY <1>2 DEF OpToRel
  <1>4. QED BY <1>3

LEMMA AfterType == ASSUME NEW i PROVE After(i) \in {NOWHERE} \cup Slots
  <1>1. CASE Taken(i) = {}
    BY <1>1 DEF After
  <1>2. CASE Taken(i) # {}
    <2>1. Taken(i) \in SUBSET Nat /\ Taken(i) \subseteq Slots
      BY Constants DEF Taken
    <2>2. \E s \in Taken(i) : \A t \in Taken(i) : s <= t
      BY <1>2, <2>1, Least
    <2>3. (CHOOSE s \in Taken(i) : \A t \in Taken(i) : s <= t) \in Taken(i)
      BY <2>2
    <2>4. QED BY <1>2, <2>1, <2>3 DEF After
  <1>3. QED BY <1>1, <1>2

(* An entry of binds is added for a, in a hole or at the end.              *)
LEMMA BoundToShape ==
    ASSUME TypeOK, NEW a \in Addrs
    PROVE  /\ BoundTo(a) \in Seq(Addrs \cup {NULL})
           /\ \E k : \A i \in DOMAIN BoundTo(a) :
                 \/ i = k /\ BoundTo(a)[i] = a
                 \/ i # k /\ i \in DOMAIN binds /\ BoundTo(a)[i] = binds[i]
  <1> DEFINE free == {i \in DOMAIN binds : binds[i] = NULL}
             k == CHOOSE i \in free : \A j \in free : i <= j
  <1>1. binds \in Seq(Addrs \cup {NULL}) /\ Len(binds) \in Nat /\ DOMAIN binds = 1 .. Len(binds)
    BY LenProperties DEF TypeOK
  <1>2. CASE free = {}
    <2>1. BoundTo(a) = Append(binds, a)
      BY <1>2 DEF BoundTo
    <2>2. BoundTo(a) \in Seq(Addrs \cup {NULL}) /\ DOMAIN BoundTo(a) = 1 .. Len(binds) + 1
      BY <1>1, <2>1
    <2>3. \A i \in 1 .. Len(binds) + 1 : BoundTo(a)[i] = IF i = Len(binds) + 1 THEN a ELSE binds[i]
      BY <1>1, <2>1
    <2>4. QED BY <1>1, <2>2, <2>3
  <1>3. CASE free # {}
    <2>1. free \in SUBSET Nat
      BY <1>1
    <2>2. k \in free
      BY <1>3, <2>1, Least
    <2>3. BoundTo(a) = [binds EXCEPT ![k] = a]
      BY <1>3 DEF BoundTo
    <2>4. k \in 1 .. Len(binds)
      BY <1>1, <2>2
    <2> HIDE DEF k
    <2>5. [binds EXCEPT ![k] = a] \in Seq(Addrs \cup {NULL})
      BY <1>1, <2>4, ExceptSeq
    <2>6. QED BY <1>1, <2>3, <2>4, <2>5
  <1>4. QED BY <1>2, <1>3

LEMMA UnbindShape ==
    ASSUME TypeOK, NEW a
    PROVE  /\ Unbind(a) \in Seq(Addrs \cup {NULL}) /\ DOMAIN Unbind(a) = DOMAIN binds
           /\ \A i \in DOMAIN binds : \/ Unbind(a)[i] = NULL
                                      \/ Unbind(a)[i] = binds[i] /\ binds[i] # a
  <1>1. binds \in Seq(Addrs \cup {NULL}) /\ Len(binds) \in Nat /\ DOMAIN binds = 1 .. Len(binds)
    BY LenProperties DEF TypeOK
  <1>2. \A i \in DOMAIN binds : Unbind(a)[i] \in Addrs \cup {NULL}
    BY <1>1 DEF Unbind
  <1>3. DOMAIN Unbind(a) = DOMAIN binds
    BY DEF Unbind
  <1>4. Unbind(a) \in Seq(Addrs \cup {NULL})
    BY <1>1, <1>2, <1>3 DEF Unbind
  <1>5. QED BY <1>3, <1>4 DEF Unbind
-----------------------------------------------------------------------------
(* Steps that leave sockets and datagrams alone.                           *)

Net == <<udp, binds, socks, nextId>>

LEMMA NetKept == ASSUME IInv, UNCHANGED Net
                 PROVE  SocksOK' /\ UdpOK' /\ BoundOK' /\ OneChild' /\ OwnDatagrams'
  <1> USE DEF Net
  <1>1. SocksOK' /\ UdpOK'
    BY DEF IInv, SocksOK, UdpOK
  <1>2. BoundOK'
    BY DEF IInv, BoundOK, Bound
  <1>3. OneChild' /\ OwnDatagrams'
    BY DEF IInv, OneChild, OwnDatagrams
  <1>4. QED BY <1>1, <1>2, <1>3

LEMMA QuietStep == ASSUME IInv, UNCHANGED Net, Owned', TypeOK' PROVE IInv'
  BY NetKept DEF IInv

LEMMA StartStep == ASSUME IInv, NEW p \in Programs, Start(p) PROVE IInv'
  <1>1. progs' \in [Programs -> ProgType]
    BY NullsType, Types DEF IInv, Start
  <1>2. TypeOK'
    BY <1>1, Types DEF IInv, Start, TypeOK, ProgType
  <1>3. \A q \in Programs : progs'[q].res \subseteq progs[q].res
    BY Types DEF IInv, Start, Fresh
  <1>4. Owned'
    BY <1>3 DEF IInv, Owned, Closing, Start
  <1>5. QED BY <1>2, <1>4, QuietStep DEF Start, Net

(* Tasks disappear or are replaced by frames to send.                      *)
LEMMA TasksStep ==
    ASSUME IInv, UNCHANGED Net, UNCHANGED <<progs, dropped>>,
           tasks' \in [Slots -> TaskType], at' \in {NOWHERE} \cup Slots, ran' \in BOOLEAN,
           \A s \in Slots : tasks'[s].kind = "close" => tasks'[s] = tasks[s]
    PROVE  IInv'
  <1>1. TypeOK'
    BY DEF IInv, TypeOK, TaskType, Net
  <1>2. Owned'
    BY DEF IInv, Owned, Closing, Net
  <1>3. QED BY <1>1, <1>2, QuietStep

LEMMA SendStep == ASSUME IInv, send_packet PROVE IInv'
  <1>1. PICK s \in Slots : tasks' = [tasks EXCEPT ![s] = [kind |-> "send", id |-> NULL]]
    BY DEF send_packet, FreeSlots
  <1>2. tasks \in [Slots -> TaskType] /\ at \in {NOWHERE} \cup Slots /\ ran \in BOOLEAN
    BY Types DEF IInv
  <1>3. tasks' \in [Slots -> TaskType]
    BY <1>1, <1>2 DEF TaskType
  <1>4. \A t \in Slots : tasks'[t].kind = "close" => tasks'[t] = tasks[t]
    BY <1>1, <1>2
  <1>5. QED BY <1>2, <1>3, <1>4, TasksStep DEF send_packet, Net

LEMMA TickStep == ASSUME IInv, Tick \/ run_skipped \/ run_send PROVE IInv'
  <1>1. tasks \in [Slots -> TaskType] /\ at \in {NOWHERE} \cup Slots /\ ran \in BOOLEAN
    BY Types DEF IInv
  <1>2. at' \in {NOWHERE} \cup Slots /\ ran' \in BOOLEAN
    BY <1>1, AfterType DEF Tick, run_skipped, run_send
  <1>3. tasks' \in {tasks, [tasks EXCEPT ![at] = NoTask]}
    BY DEF Tick, run_skipped, run_send
  <1>4. tasks' \in [Slots -> TaskType]
    BY <1>1, <1>3, NullsType
  <1>5. \A t \in Slots : tasks'[t].kind = "close" => tasks'[t] = tasks[t]
    BY <1>1, <1>3 DEF NoTask
  <1>6. QED BY <1>2, <1>4, <1>5, TasksStep DEF Tick, run_skipped, run_send, Net

(* Two free entries of the table are never counted alike, so a socket_t of *)
(* a dying program gets one task.                                          *)
LEMMA FromTopInjective ==
    ASSUME NEW s \in FreeSlots, NEW t \in FreeSlots, FromTop(s) = FromTop(t)
    PROVE  s = t
  <1> DEFINE Above(x) == {u \in FreeSlots : u >= x}
  <1>1. FreeSlots \subseteq Slots /\ IsFiniteSet(Slots) /\ FreeSlots \subseteq Nat
    BY FS_Interval, SocketsAssumption DEF FreeSlots, Slots
  <1>2. IsFiniteSet(FreeSlots) /\ \A x : IsFiniteSet(Above(x))
    BY <1>1, FS_Subset
  <1>3. \A x, y \in FreeSlots : x < y => Cardinality(Above(x)) # Cardinality(Above(y))
    <2> SUFFICES ASSUME NEW x \in FreeSlots, NEW y \in FreeSlots, x < y
                 PROVE  Cardinality(Above(x)) # Cardinality(Above(y))
      OBVIOUS
    <2>1. x \in Nat /\ y \in Nat /\ FreeSlots \subseteq Nat
      BY <1>1
    <2>2. \A u \in FreeSlots : u >= y => u >= x
      BY <2>1
    <2>3. x >= x /\ ~(x >= y)
      BY <2>1
    <2>4. Above(y) \in SUBSET Above(x) /\ x \in Above(x) /\ x \notin Above(y)
      BY <2>2, <2>3
    <2>5. QED BY <1>2, <2>4, FS_Subset
  <1>4. s \in Nat /\ t \in Nat
    BY <1>1
  <1>5. Cardinality(Above(s)) = Cardinality(Above(t))
    BY DEF FromTop
  <1>6. ~(s < t) /\ ~(t < s)
    BY <1>3, <1>5
  <1>7. QED BY <1>4, <1>6

LEMMA ExitStep == ASSUME IInv, NEW p \in Programs, Exit(p) PROVE IInv'
  <1> DEFINE res == progs[p].res
             Close(s) == {id \in res : Rank(res, id) = FromTop(s)}
  <1>1. /\ tasks \in [Slots -> TaskType] /\ progs \in [Programs -> ProgType]
        /\ res \subseteq Ids /\ dropped \subseteq Ids
    BY Types DEF IInv, ProgType
  <1>2. /\ tasks' = [s \in Slots |-> IF s \in FreeSlots /\ Close(s) # {}
                                     THEN [kind |-> "close", id |-> CHOOSE id \in Close(s) : TRUE]
                                     ELSE tasks[s]]
        /\ dropped' \subseteq dropped \cup res
        /\ progs' = [progs EXCEPT ![p] = [Fresh EXCEPT !.running = FALSE]]
        /\ UNCHANGED Net /\ UNCHANGED <<at, ran>>
    BY DEF Exit, Net
  <1>3. \A s \in Slots : \/ tasks'[s] = tasks[s]
                          \/ /\ s \in FreeSlots /\ tasks'[s].kind = "close"
                             /\ tasks'[s].id \in Close(s) /\ tasks'[s] \in TaskType
    <2> TAKE s \in Slots
    <2>1. CASE s \in FreeSlots /\ Close(s) # {}
      <3>1. (CHOOSE id \in Close(s) : TRUE) \in Close(s)
        BY <2>1
      <3>2. tasks'[s] = [kind |-> "close", id |-> CHOOSE id \in Close(s) : TRUE]
        BY <1>2, <2>1
      <3>3. (CHOOSE id \in Close(s) : TRUE) \in Ids
        BY <1>1, <3>1
      <3> HIDE DEF Close
      <3>4. QED BY <2>1, <3>1, <3>2, <3>3 DEF TaskType
    <2>2. CASE ~(s \in FreeSlots /\ Close(s) # {})
      BY <1>2, <2>2
    <2>3. QED BY <2>1, <2>2
  <1>4. tasks' \in [Slots -> TaskType]
    BY <1>1, <1>2, <1>3
  <1>5. progs' \in [Programs -> ProgType]
    BY <1>1, <1>2, NullsType
  <1>6. dropped' \subseteq Ids
    BY <1>1, <1>2
  <1>7. TypeOK'
    BY <1>2, <1>4, <1>5, <1>6 DEF IInv, TypeOK, TaskType, ProgType, Net
  <1>8. progs'[p].res = {} /\ \A q \in Programs : q # p => progs'[q] = progs[q]
    BY <1>1, <1>2 DEF Fresh
  <1>9. Owned'
    <2>1. \A q \in Programs : \A id \in progs'[q].res : socks'[id].live
      BY <1>2, <1>8 DEF IInv, Owned, Net
    <2>2. \A s \in Slots : tasks'[s].kind = "close" => tasks'[s].id \in Ids /\ socks'[tasks'[s].id].live
      BY <1>1, <1>2, <1>3 DEF IInv, Owned, Net
    <2>3. \A q, r \in Programs : q # r => progs'[q].res \cap progs'[r].res = {}
      BY <1>8 DEF IInv, Owned
    <2>4. \A q \in Programs, s \in Slots : \A id \in progs'[q].res : ~Closing(s, id)'
      BY <1>3, <1>8 DEF IInv, Owned, Closing
    <2>5. \A s, t \in Slots : s # t /\ tasks'[s].kind = "close" /\ tasks'[t].kind = "close"
                              => tasks'[s].id # tasks'[t].id
      <3> SUFFICES ASSUME NEW s \in Slots, NEW t \in Slots, s # t,
                          tasks'[s].kind = "close", tasks'[t].kind = "close"
                   PROVE  tasks'[s].id # tasks'[t].id
        OBVIOUS
      <3>1. CASE tasks'[s] = tasks[s] /\ tasks'[t] = tasks[t]
        BY <3>1 DEF IInv, Owned
      <3>2. CASE tasks'[s] = tasks[s] /\ tasks'[t].id \in res
        BY <3>2 DEF IInv, Owned, Closing
      <3>3. CASE tasks'[t] = tasks[t] /\ tasks'[s].id \in res
        BY <3>3 DEF IInv, Owned, Closing
      <3>4. CASE s \in FreeSlots /\ t \in FreeSlots /\ tasks'[s].id \in Close(s) /\ tasks'[t].id \in Close(t)
        <4>1. FromTop(s) # FromTop(t)
          BY <3>4, FromTopInjective
        <4>2. QED BY <3>4, <4>1
      <3>5. QED BY <1>3, <3>1, <3>2, <3>3, <3>4
    <2>6. QED BY <2>1, <2>2, <2>3, <2>4, <2>5 DEF Owned
  <1>10. QED BY <1>2, <1>7, <1>9, QuietStep
-----------------------------------------------------------------------------
(* A socket_t is created and registered.                                   *)

LEMMA CreatedParts ==
    ASSUME IInv, NEW p \in Programs, NEW a \in Addrs, NEW peer \in Remotes \cup {NOBODY},
           NEW got \in SUBSET Remotes, got \subseteq {peer}, Created(a, peer, got),
           progs' = [progs EXCEPT ![p] = Registered(p)], UNCHANGED tasks
    PROVE  /\ nextId \in Ids /\ nextId' = nextId + 1 /\ nextId' \in 1 .. MaxIds + 1
           /\ socks' \in [Ids -> SockType] /\ progs' \in [Programs -> ProgType]
           /\ socks'[nextId].live /\ socks'[nextId].udp = a /\ socks'[nextId].peer = peer
           /\ \A id \in Ids : id < nextId => socks'[id] = socks[id]
           /\ SocksOK' /\ Owned' /\ OwnDatagrams'
  <1>1. /\ socks \in [Ids -> SockType] /\ progs \in [Programs -> ProgType]
        /\ tasks \in [Slots -> TaskType] /\ nextId \in 1 .. MaxIds + 1
    BY Types DEF IInv
  <1>2. nextId \in Ids /\ nextId' = nextId + 1 /\ nextId' \in 1 .. MaxIds + 1
    BY <1>1, Constants DEF Created, Ids
  <1> DEFINE new == [live |-> TRUE, udp |-> a, got |-> got, peer |-> peer]
  <1>3. new \in SockType /\ new.live /\ new.udp = a /\ new.peer = peer /\ new.got = got
    BY DEF SockType
  <1>4. socks' = [socks EXCEPT ![nextId] = new]
    BY DEF Created
  <1> HIDE DEF new
  <1>5. socks' \in [Ids -> SockType] /\ socks'[nextId] = new /\ \A id \in Ids : id # nextId => socks'[id] = socks[id]
    BY <1>1, <1>2, <1>3, <1>4
  <1>6. /\ progs' \in [Programs -> ProgType] /\ progs'[p].res = progs[p].res \cup {nextId}
        /\ \A q \in Programs : q # p => progs'[q] = progs[q]
    BY <1>1, <1>2 DEF ProgType, Registered
  <1>7. \A id \in Ids : id < nextId => id # nextId
    BY <1>2, Constants
  <1>8. SocksOK'
    BY <1>2, <1>3, <1>5, Constants DEF IInv, SocksOK
  <1>9. OwnDatagrams'
    BY <1>3, <1>5 DEF IInv, OwnDatagrams
  <1>10. ~socks[nextId].live
    BY <1>2, Constants DEF IInv, SocksOK
  <1>11. \A id \in Ids : socks[id].live => socks'[id].live
    BY <1>3, <1>5
  <1>12. Owned'
    <2>1. \A q \in Programs : \A id \in progs'[q].res : socks'[id].live
      BY <1>1, <1>3, <1>5, <1>6, <1>11 DEF IInv, Owned, ProgType
    <2>2. \A s \in Slots : tasks'[s].kind = "close" => tasks'[s].id \in Ids /\ socks'[tasks'[s].id].live
      BY <1>11 DEF IInv, Owned
    <2>3. \A q, r \in Programs : q # r => progs'[q].res \cap progs'[r].res = {}
      BY <1>6, <1>10 DEF IInv, Owned
    <2>4. \A q \in Programs, s \in Slots : \A id \in progs'[q].res : ~Closing(s, id)'
      BY <1>6, <1>10 DEF IInv, Owned, Closing
    <2>5. QED BY <2>1, <2>2, <2>3, <2>4 DEF IInv, Owned
  <1>13. QED BY <1>2, <1>3, <1>5, <1>6, <1>7, <1>8, <1>9, <1>12

(* Memory that is free is not bound, so a new socket disturbs no other.    *)
LEMMA OpenStep ==
    ASSUME IInv, NEW p \in Programs, NEW a \in FirstFree, NEW u \in UdpType,
           u.live, u.data = nextId, u.port \in {PORT, nextId}, u.pending = {},
           u.listening \/ u.port = nextId,
           udp' = [udp EXCEPT ![a] = u], binds' = BoundTo(a), Created(a, u.remote, {}),
           progs' = [progs EXCEPT ![p] = Registered(p)], UNCHANGED <<tasks, at, ran, dropped>>
    PROVE  IInv'
  <1>1. udp \in [Addrs -> UdpType] /\ a \in Addrs /\ ~udp[a].live
    BY Types DEF IInv, FirstFree
  <1>2. u.remote \in Remotes \cup {NOBODY}
    BY DEF UdpType
  <1>3. /\ nextId \in Ids /\ nextId' = nextId + 1 /\ nextId' \in 1 .. MaxIds + 1
        /\ socks' \in [Ids -> SockType] /\ progs' \in [Programs -> ProgType]
        /\ socks'[nextId].live /\ socks'[nextId].udp = a /\ socks'[nextId].peer = u.remote
        /\ \A id \in Ids : id < nextId => socks'[id] = socks[id]
        /\ SocksOK' /\ Owned' /\ OwnDatagrams'
    BY <1>1, <1>2, CreatedParts
  <1>4. /\ udp' \in [Addrs -> UdpType] /\ udp'[a] = u
        /\ \A b \in Addrs : b # a => udp'[b] = udp[b]
    BY <1>1
  <1>5. PICK k : \A i \in DOMAIN binds' :
                 \/ i = k /\ binds'[i] = a
                 \/ i # k /\ i \in DOMAIN binds /\ binds'[i] = binds[i]
    <2>1. TypeOK
      BY DEF IInv
    <2>2. \E k : \A i \in DOMAIN BoundTo(a) :
                 \/ i = k /\ BoundTo(a)[i] = a
                 \/ i # k /\ i \in DOMAIN binds /\ BoundTo(a)[i] = binds[i]
      BY <1>1, <2>1, BoundToShape
    <2>3. binds' = BoundTo(a)
      OBVIOUS
    <2>4. QED BY ONLY <2>2, <2>3
  <1>6. TypeOK'
    BY <1>1, <1>3, <1>4, BoundToShape DEF IInv, TypeOK, UdpType, SockType, ProgType
  <1>7. UdpOK'
    <2> SUFFICES ASSUME NEW b \in Addrs
                 PROVE  (udp[b].data < nextId /\ udp[b].port < nextId /\ udp[b].pending \subseteq {udp[b].remote})'
      BY DEF UdpOK
    <2>1. CASE b = a
      BY <1>3, <1>4, <2>1, Constants
    <2>2. CASE b # a
      <3>1. /\ udp[b].data < nextId /\ udp[b].port < nextId /\ udp[b].pending \subseteq {udp[b].remote}
            /\ udp[b].data \in Nat /\ udp[b].port \in Nat
        BY UdpFields DEF IInv, UdpOK
      <3>2. QED BY <1>3, <1>4, <2>2, <3>1, Constants
    <2>3. QED BY <2>1, <2>2
  <1>8. \A b \in Addrs : Bound(b)' => b = a \/ Bound(b)
    BY <1>5 DEF Bound
  <1>9. \A b \in Addrs : udp[b].data \in Ids \cup {NULL} /\ udp[b].data < nextId
    BY UdpFields DEF IInv, UdpOK
  <1>10. BoundOK'
    <2> SUFFICES ASSUME NEW b \in Addrs, Bound(b)'
                 PROVE  /\ udp'[b].live
                        /\ udp'[b].data # NULL =>
                               /\ socks'[udp'[b].data].live /\ socks'[udp'[b].data].udp = b
                               /\ ~udp'[b].listening => socks'[udp'[b].data].peer = udp'[b].remote
      BY DEF BoundOK
    <2>1. CASE b = a
      BY <1>3, <1>4, <2>1
    <2>2. CASE b # a
      BY <1>3, <1>4, <1>8, <1>9, <2>2 DEF IInv, BoundOK
    <2>3. QED BY <2>1, <2>2
  <1>11. \A i \in DOMAIN binds : binds[i] # a
    BY <1>1 DEF IInv, BoundOK, Bound
  <1>12. \A b \in Addrs : udp[b].port \in Nat /\ udp[b].port < nextId
    BY UdpFields DEF IInv, UdpOK
  <1>13. binds \in Seq(Addrs \cup {NULL}) /\ \A i \in DOMAIN binds : binds[i] \in Addrs \cup {NULL}
    BY LenProperties DEF IInv, TypeOK
  <1>14. OneChild'
    <2> SUFFICES ASSUME NEW i \in DOMAIN binds', NEW j \in DOMAIN binds',
                        binds'[i] # NULL, binds'[j] # NULL, i # j,
                        ~udp'[binds'[i]].listening, ~udp'[binds'[j]].listening,
                        udp'[binds'[i]].port = udp'[binds'[j]].port,
                        udp'[binds'[i]].remote = udp'[binds'[j]].remote
                 PROVE  FALSE
      BY DEF OneChild
    <2>1. CASE i # k /\ j # k
      BY <1>4, <1>5, <1>11, <1>13, <2>1 DEF IInv, OneChild
    <2>2. CASE i = k /\ j # k
      <3>1. binds'[i] = a /\ binds'[j] = binds[j] /\ j \in DOMAIN binds
        BY <1>5, <2>2
      <3>2. udp'[binds'[i]].port = nextId
        BY <1>4, <3>1
      <3>3. udp'[binds'[j]].port < nextId /\ udp'[binds'[j]].port \in Nat
        BY <1>4, <1>11, <1>12, <1>13, <3>1
      <3>4. QED BY <1>3, <3>2, <3>3, Constants
    <2>3. CASE i # k /\ j = k
      <3>1. binds'[j] = a /\ binds'[i] = binds[i] /\ i \in DOMAIN binds
        BY <1>5, <2>3
      <3>2. udp'[binds'[j]].port = nextId
        BY <1>4, <3>1
      <3>3. udp'[binds'[i]].port < nextId /\ udp'[binds'[i]].port \in Nat
        BY <1>4, <1>11, <1>12, <1>13, <3>1
      <3>4. QED BY <1>3, <3>2, <3>3, Constants
    <2>4. QED BY <2>1, <2>2, <2>3
  <1>15. QED BY <1>3, <1>6, <1>7, <1>10, <1>14 DEF IInv
LEMMA ListenStep == ASSUME IInv, NEW p \in Programs, sys_sock_listen(p) PROVE IInv'
  <1> DEFINE u == [NoUdp EXCEPT !.live = TRUE, !.listening = TRUE, !.port = PORT, !.data = nextId]
  <1>1. PICK a \in FirstFree : udp' = [udp EXCEPT ![a] = u] /\ binds' = BoundTo(a) /\ Created(a, NOBODY, {})
    BY DEF sys_sock_listen
  <1>2. nextId \in Ids
    BY <1>1, Types, SocketsAssumption DEF IInv, Created, Ids
  <1>3. /\ u \in UdpType /\ u.live /\ u.listening /\ u.data = nextId /\ u.port = PORT
        /\ u.pending = {} /\ u.remote = NOBODY
    BY <1>2, NullsType DEF NoUdp, UdpType
  <1> HIDE DEF u
  <1>4. QED BY <1>1, <1>3, OpenStep DEF sys_sock_listen

LEMMA ConnectStep == ASSUME IInv, NEW p \in Programs, sys_sock_connect(p) PROVE IInv'
  <1> DEFINE u(r) == [NoUdp EXCEPT !.live = TRUE, !.port = nextId, !.remote = r, !.data = nextId]
  <1>1. PICK r \in Remotes, a \in FirstFree :
             udp' = [udp EXCEPT ![a] = u(r)] /\ binds' = BoundTo(a) /\ Created(a, r, {})
    BY DEF sys_sock_connect
  <1>2. nextId \in Ids
    BY <1>1, Types, SocketsAssumption DEF IInv, Created, Ids
  <1>3. /\ u(r) \in UdpType /\ u(r).live /\ u(r).data = nextId /\ u(r).port = nextId
        /\ u(r).pending = {} /\ u(r).remote = r
    BY <1>2, NullsType DEF NoUdp, UdpType
  <1> HIDE DEF u
  <1>4. QED BY <1>1, <1>3, OpenStep DEF sys_sock_connect

(* The child may be gone and its memory another socket by now: data and    *)
(* socket_t name each other all the same.                                  *)
LEMMA AcceptStep == ASSUME IInv, NEW p \in Programs, sys_sock_accept(p) PROVE IInv'
  <1>1. PICK id \in progs[p].res :
          LET l == socks[id].udp
              c == Head(udp[l].queue)
          IN /\ udp[l].listening /\ udp[l].queue # <<>>
             /\ Created(c, udp[c].remote, udp[c].pending)
             /\ udp' = [udp EXCEPT ![l].queue = Tail(@), ![c].data = nextId, ![c].pending = {}]
    BY DEF sys_sock_accept
  <1> DEFINE l == socks[id].udp
             c == Head(udp[l].queue)
  <1>2. TypeOK /\ udp \in [Addrs -> UdpType]
    BY Types DEF IInv
  <1>3. id \in Ids /\ socks[id].live
    BY <1>1, <1>2, Types DEF IInv, Owned, ProgType
  <1>4. l \in Addrs
    BY <1>3 DEF IInv, SocksOK
  <1>5. udp[l].queue \in Seq(Addrs) /\ udp[l].queue # <<>>
    BY <1>1, <1>2, <1>4, UdpFields
  <1>6. c \in Addrs /\ Tail(udp[l].queue) \in Seq(Addrs)
    BY <1>5, HeadTailProperties
  <1>7. Created(c, udp[c].remote, udp[c].pending)
    BY <1>1
  <1>8. udp' = [udp EXCEPT ![l].queue = Tail(@), ![c].data = nextId, ![c].pending = {}]
    BY <1>1
  <1>9. progs' = [progs EXCEPT ![p] = Registered(p)] /\ UNCHANGED <<binds, tasks, at, ran, dropped>>
    BY DEF sys_sock_accept
  <1> HIDE DEF l, c
  <1>10. udp[c].remote \in Remotes \cup {NOBODY} /\ udp[c].pending \in SUBSET Remotes /\ udp[c].pending \subseteq {udp[c].remote}
    BY <1>2, <1>6, UdpFields DEF IInv, UdpOK
  <1>11. /\ nextId \in Ids /\ nextId' = nextId + 1 /\ nextId' \in 1 .. MaxIds + 1
         /\ socks' \in [Ids -> SockType] /\ progs' \in [Programs -> ProgType]
         /\ socks'[nextId].live /\ socks'[nextId].udp = c /\ socks'[nextId].peer = udp[c].remote
         /\ \A i \in Ids : i < nextId => socks'[i] = socks[i]
         /\ SocksOK' /\ Owned' /\ OwnDatagrams'
    BY <1>6, <1>7, <1>9, <1>10, CreatedParts
  <1>12. udp' \in [Addrs -> UdpType]
    <2> DEFINE u1 == [udp EXCEPT ![l].queue = Tail(@)]
               u2 == [u1 EXCEPT ![c].data = nextId]
    <2>1. u1 \in [Addrs -> UdpType]
      BY <1>2, <1>4, <1>6 DEF UdpType
    <2>2. udp' = [u2 EXCEPT ![c].pending = {}]
      BY <1>8
    <2> HIDE DEF u1
    <2>3. nextId \in Ids \cup {NULL}
      BY <1>11
    <2>4. u2 \in [Addrs -> UdpType]
      BY ONLY <1>6, <2>1, <2>3 DEF UdpType
    <2> HIDE DEF u2
    <2>5. QED BY <1>6, <2>2, <2>4 DEF UdpType
  <1>13. \A b \in Addrs :
            /\ udp'[b].live = udp[b].live /\ udp'[b].listening = udp[b].listening
            /\ udp'[b].port = udp[b].port /\ udp'[b].remote = udp[b].remote
            /\ udp'[b].data = IF b = c THEN nextId ELSE udp[b].data
            /\ udp'[b].pending = IF b = c THEN {} ELSE udp[b].pending
    BY <1>2, <1>4, <1>6, <1>8 DEF UdpType
  <1>14. TypeOK'
    BY <1>9, <1>11, <1>12 DEF IInv, TypeOK, UdpType, SockType, ProgType
  <1>15. UdpOK'
    <2> SUFFICES ASSUME NEW b \in Addrs
                 PROVE  (udp[b].data < nextId /\ udp[b].port < nextId /\ udp[b].pending \subseteq {udp[b].remote})'
      BY DEF UdpOK
    <2>1. /\ udp[b].data \in Nat /\ udp[b].port \in Nat /\ nextId \in Nat
          /\ udp[b].data < nextId /\ udp[b].port < nextId /\ udp[b].pending \subseteq {udp[b].remote}
      BY <1>2, <1>11, UdpFields, Constants DEF IInv, UdpOK
    <2>2. udp'[b].data < nextId' /\ udp'[b].port < nextId'
      BY <1>11, <1>13, <2>1
    <2>3. QED BY <1>13, <2>1, <2>2
  <1>16. BoundOK'
    <2> SUFFICES ASSUME NEW b \in Addrs, Bound(b)'
                 PROVE  /\ udp'[b].live
                        /\ udp'[b].data # NULL =>
                               /\ socks'[udp'[b].data].live /\ socks'[udp'[b].data].udp = b
                               /\ ~udp'[b].listening => socks'[udp'[b].data].peer = udp'[b].remote
      BY DEF BoundOK
    <2>1. Bound(b)
      BY <1>9 DEF Bound
    <2>2. udp[b].data \in Ids \cup {NULL} /\ udp[b].data < nextId
      BY <1>2, UdpFields DEF IInv, UdpOK
    <2>3. CASE b = c
      BY <1>11, <1>13, <2>1, <2>3 DEF IInv, BoundOK
    <2>4. CASE b # c
      BY <1>11, <1>13, <2>1, <2>2, <2>4 DEF IInv, BoundOK
    <2>5. QED BY <2>3, <2>4
  <1>17. \A i \in DOMAIN binds : binds[i] \in Addrs \cup {NULL}
    BY <1>2, LenProperties DEF TypeOK
  <1>18. OneChild'
    BY <1>9, <1>13, <1>17 DEF IInv, OneChild
  <1>19. QED BY <1>11, <1>14, <1>15, <1>16, <1>18 DEF IInv
-----------------------------------------------------------------------------
(* What a socket_t received changes, and nothing else about it.            *)
LEMMA GotStep ==
    ASSUME IInv, NEW id \in Ids, NEW got \in SUBSET Remotes, got \subseteq {socks[id].peer},
           socks' = [socks EXCEPT ![id].got = got],
           UNCHANGED <<udp, binds, nextId, progs, tasks, at, ran, dropped>>
    PROVE  IInv'
  <1>1. socks \in [Ids -> SockType]
    BY Types DEF IInv
  <1>2. socks' \in [Ids -> SockType]
    BY <1>1 DEF SockType
  <1>3. \A i \in Ids : /\ socks'[i].live = socks[i].live /\ socks'[i].udp = socks[i].udp
                       /\ socks'[i].peer = socks[i].peer
                       /\ socks'[i].got = IF i = id THEN got ELSE socks[i].got
    BY <1>1 DEF SockType
  <1>4. TypeOK'
    BY <1>2 DEF IInv, TypeOK, SockType
  <1>5. SocksOK' /\ UdpOK' /\ OneChild' /\ OwnDatagrams'
    BY <1>3 DEF IInv, SocksOK, UdpOK, OneChild, OwnDatagrams
  <1>6. Owned'
    <2>1. \A p \in Programs : progs[p].res \subseteq Ids
      BY Types DEF IInv, ProgType
    <2>2. QED BY <1>3, <2>1 DEF IInv, Owned, Closing
  <1>7. BoundOK'
    <2>1. \A a \in Addrs : udp[a].data # NULL => udp[a].data \in Ids
      BY UdpFields DEF IInv
    <2>2. \A a \in Addrs : Bound(a)' = Bound(a)
      BY DEF Bound
    <2>3. QED BY <1>3, <2>1, <2>2 DEF IInv, BoundOK
  <1>8. QED BY <1>4, <1>5, <1>6, <1>7 DEF IInv

LEMMA RecvStep == ASSUME IInv, NEW p \in Programs, sys_sock_recv(p) PROVE IInv'
  <1>1. PICK id \in progs[p].res : socks' = [socks EXCEPT ![id].got = {}]
    BY DEF sys_sock_recv
  <1>2. id \in Ids
    BY <1>1, Types DEF IInv, ProgType
  <1>3. UNCHANGED <<udp, binds, nextId, progs, tasks, at, ran, dropped>>
    BY DEF sys_sock_recv
  <1>4. {} \in SUBSET Remotes /\ {} \subseteq {socks[id].peer}
    OBVIOUS
  <1>5. QED BY <1>1, <1>2, <1>3, <1>4, GotStep
-----------------------------------------------------------------------------
(* Closing.                                                                *)

LEMMA DisconnectNet ==
    ASSUME IInv, NEW id \in Ids, socks[id].live, udp_socket_disconnect(id), UNCHANGED nextId
    PROVE  /\ udp' \in [Addrs -> UdpType] /\ binds' \in Seq(Addrs \cup {NULL}) /\ UNCHANGED socks
           /\ SocksOK' /\ UdpOK' /\ BoundOK' /\ OneChild' /\ OwnDatagrams'
  <1> DEFINE a == socks[id].udp
  <1>1. TypeOK /\ udp \in [Addrs -> UdpType] /\ a \in Addrs
    BY Types DEF IInv, SocksOK
  <1>2. binds' = Unbind(a) /\ udp' = [udp EXCEPT ![a].live = FALSE] /\ UNCHANGED socks
    BY DEF udp_socket_disconnect
  <1> HIDE DEF a
  <1>3. /\ binds' \in Seq(Addrs \cup {NULL}) /\ DOMAIN binds' = DOMAIN binds
        /\ \A i \in DOMAIN binds : binds'[i] = NULL \/ (binds'[i] = binds[i] /\ binds[i] # a)
    <2>1. /\ Unbind(a) \in Seq(Addrs \cup {NULL}) /\ DOMAIN Unbind(a) = DOMAIN binds
          /\ \A i \in DOMAIN binds : Unbind(a)[i] = NULL \/ (Unbind(a)[i] = binds[i] /\ binds[i] # a)
      BY <1>1, UnbindShape
    <2>2. QED BY ONLY <1>2, <2>1
  <1>4. udp' \in [Addrs -> UdpType]
    BY <1>1, <1>2 DEF UdpType
  <1>5. \A b \in Addrs : /\ b # a => udp'[b] = udp[b]
                         /\ udp'[b].port = udp[b].port /\ udp'[b].data = udp[b].data
                         /\ udp'[b].pending = udp[b].pending /\ udp'[b].remote = udp[b].remote
    BY <1>1, <1>2 DEF UdpType
  <1>6. SocksOK' /\ UdpOK' /\ OwnDatagrams'
    BY <1>2, <1>5 DEF IInv, SocksOK, UdpOK, OwnDatagrams
  <1>7. \A b \in Addrs : Bound(b)' => Bound(b) /\ b # a
    BY <1>3, Constants DEF Bound
  <1>8. BoundOK'
    BY <1>2, <1>5, <1>7 DEF IInv, BoundOK
  <1>9. \A i \in DOMAIN binds : binds[i] \in Addrs \cup {NULL}
    BY <1>1, LenProperties DEF TypeOK
  <1>10. \A i \in DOMAIN binds' : binds'[i] # NULL => binds'[i] = binds[i] /\ udp'[binds[i]] = udp[binds[i]]
    BY <1>3, <1>5, <1>9
  <1>11. OneChild'
    BY <1>3, <1>10 DEF IInv, OneChild
  <1>12. QED BY <1>2, <1>3, <1>4, <1>6, <1>8, <1>11

(* The socket_t is freed once nothing is bound at its address: so nothing  *)
(* that is bound names it.                                                 *)
LEMMA FreeSockNet ==
    ASSUME IInv, NEW id \in Ids, socks[id].live, FreeSock(id), UNCHANGED nextId
    PROVE  /\ socks' \in [Ids -> SockType] /\ UNCHANGED <<udp, binds>>
           /\ \A i \in Ids : i # id => socks'[i] = socks[i]
           /\ SocksOK' /\ UdpOK' /\ BoundOK' /\ OneChild' /\ OwnDatagrams'
  <1>1. socks \in [Ids -> SockType] /\ TypeOK
    BY Types DEF IInv
  <1>2. socks' = [socks EXCEPT ![id] = NoSock] /\ UNCHANGED <<udp, binds>> /\ ~Bound(socks[id].udp)
    BY DEF FreeSock
  <1>3. /\ socks' \in [Ids -> SockType] /\ ~socks'[id].live
        /\ \A i \in Ids : i # id => socks'[i] = socks[i]
    BY <1>1, <1>2, NullsType DEF NoSock
  <1>4. SocksOK' /\ UdpOK' /\ OneChild' /\ OwnDatagrams'
    BY <1>2, <1>3 DEF IInv, SocksOK, UdpOK, OneChild, OwnDatagrams
  <1>5. \A b \in Addrs : Bound(b)' = Bound(b) /\ udp[b].data \in Ids \cup {NULL}
    BY <1>1, <1>2, UdpFields DEF Bound
  <1>6. \A b \in Addrs : Bound(b) /\ udp[b].data # NULL => udp[b].data # id
    BY <1>2 DEF IInv, BoundOK
  <1>7. BoundOK'
    BY <1>2, <1>3, <1>5, <1>6 DEF IInv, BoundOK
  <1>8. QED BY <1>2, <1>3, <1>4, <1>7

LEMMA ProgramCloseStep == ASSUME IInv, NEW p \in Programs, sys_sock_disconnect(p) PROVE IInv'
  <1>1. PICK id \in progs[p].res :
          \/ udp_socket_disconnect(id) /\ progs' = [progs EXCEPT ![p].disc = id]
          \/ FreeSock(id) /\ progs' = [progs EXCEPT ![p].disc = NULL, ![p].res = @ \ {id}]
    BY DEF sys_sock_disconnect
  <1>2. progs \in [Programs -> ProgType] /\ tasks \in [Slots -> TaskType] /\ TypeOK
    BY Types DEF IInv
  <1>3. id \in Ids /\ socks[id].live
    BY <1>1, <1>2 DEF IInv, Owned, ProgType
  <1>4. UNCHANGED <<nextId, tasks, at, ran, dropped>>
    BY DEF sys_sock_disconnect
  <1>5. CASE udp_socket_disconnect(id) /\ progs' = [progs EXCEPT ![p].disc = id]
    <2>1. /\ udp' \in [Addrs -> UdpType] /\ binds' \in Seq(Addrs \cup {NULL}) /\ UNCHANGED socks
          /\ SocksOK' /\ UdpOK' /\ BoundOK' /\ OneChild' /\ OwnDatagrams'
      BY <1>3, <1>4, <1>5, DisconnectNet
    <2>2. progs' \in [Programs -> ProgType] /\ \A q \in Programs : progs'[q].res = progs[q].res
      BY <1>2, <1>3, <1>5 DEF ProgType
    <2>3. TypeOK'
      BY <1>2, <1>4, <2>1, <2>2 DEF TypeOK, UdpType, ProgType
    <2>4. Owned'
      BY <1>4, <2>1, <2>2 DEF IInv, Owned, Closing
    <2>5. QED BY <2>1, <2>3, <2>4 DEF IInv
  <1>6. CASE FreeSock(id) /\ progs' = [progs EXCEPT ![p].disc = NULL, ![p].res = @ \ {id}]
    <2>1. /\ socks' \in [Ids -> SockType] /\ UNCHANGED <<udp, binds>>
          /\ \A i \in Ids : i # id => socks'[i] = socks[i]
          /\ SocksOK' /\ UdpOK' /\ BoundOK' /\ OneChild' /\ OwnDatagrams'
      BY <1>3, <1>4, <1>6, FreeSockNet
    <2>2. /\ progs' \in [Programs -> ProgType] /\ progs'[p].res = progs[p].res \ {id}
          /\ \A q \in Programs : q # p => progs'[q] = progs[q]
      BY <1>2, <1>6 DEF ProgType
    <2>3. TypeOK'
      BY <1>2, <1>4, <2>1, <2>2 DEF TypeOK, SockType, ProgType
    <2>4. Owned'
      <3>1. \A q \in Programs : progs'[q].res \subseteq progs[q].res /\ id \notin progs'[q].res /\ progs[q].res \subseteq Ids
        BY <1>1, <1>2, <2>2 DEF IInv, Owned, ProgType
      <3>2. \A s \in Slots : tasks[s].kind = "close" => tasks[s].id # id
        BY <1>1 DEF IInv, Owned, Closing
      <3>3. \A q \in Programs : \A i \in progs'[q].res : socks'[i].live
        BY <2>1, <3>1 DEF IInv, Owned
      <3>4. \A s \in Slots : tasks'[s].kind = "close" => tasks'[s].id \in Ids /\ socks'[tasks'[s].id].live
        BY <1>4, <2>1, <3>2 DEF IInv, Owned
      <3>5. QED BY <1>4, <3>1, <3>3, <3>4 DEF IInv, Owned, Closing
    <2>5. QED BY <2>1, <2>3, <2>4 DEF IInv
  <1>7. QED BY <1>1, <1>5, <1>6

LEMMA TaskCloseStep == ASSUME IInv, run_close PROVE IInv'
  <1> DEFINE id == tasks[at].id
  <1>1. progs \in [Programs -> ProgType] /\ tasks \in [Slots -> TaskType] /\ TypeOK /\ at \in Slots
    BY Types DEF IInv, run_close
  <1>2. tasks[at].kind = "close" /\ id \in Ids /\ socks[id].live
    BY <1>1 DEF IInv, Owned, run_close
  <1>3. UNCHANGED <<nextId, progs, ran, dropped>> /\ at' \in {NOWHERE} \cup Slots
    BY AfterType DEF run_close
  <1>4. CASE udp_socket_disconnect(id) /\ UNCHANGED tasks
    <2>1. /\ udp' \in [Addrs -> UdpType] /\ binds' \in Seq(Addrs \cup {NULL}) /\ UNCHANGED socks
          /\ SocksOK' /\ UdpOK' /\ BoundOK' /\ OneChild' /\ OwnDatagrams'
      BY <1>2, <1>3, <1>4, DisconnectNet
    <2>2. TypeOK'
      BY <1>1, <1>3, <1>4, <2>1 DEF TypeOK, UdpType
    <2>3. Owned'
      BY <1>3, <1>4, <2>1 DEF IInv, Owned, Closing
    <2>4. QED BY <2>1, <2>2, <2>3 DEF IInv
  <1>5. CASE FreeSock(id) /\ tasks' = [tasks EXCEPT ![at] = NoTask]
    <2>1. /\ socks' \in [Ids -> SockType] /\ UNCHANGED <<udp, binds>>
          /\ \A i \in Ids : i # id => socks'[i] = socks[i]
          /\ SocksOK' /\ UdpOK' /\ BoundOK' /\ OneChild' /\ OwnDatagrams'
      BY <1>2, <1>3, <1>5, FreeSockNet
    <2>2. /\ tasks' \in [Slots -> TaskType]
          /\ \A s \in Slots : tasks'[s].kind = "close" => s # at /\ tasks'[s] = tasks[s]
      BY <1>1, <1>5, NullsType DEF NoTask
    <2>3. TypeOK'
      BY <1>1, <1>3, <2>1, <2>2 DEF TypeOK, SockType, TaskType
    <2>4. Owned'
      <3>1. \A q \in Programs : id \notin progs[q].res /\ progs[q].res \subseteq Ids
        BY <1>1, <1>2 DEF IInv, Owned, Closing, ProgType
      <3>2. \A s \in Slots : tasks'[s].kind = "close" => tasks'[s].id # id
        BY <1>1, <1>2, <2>2 DEF IInv, Owned
      <3>3. \A q \in Programs : \A i \in progs'[q].res : socks'[i].live
        BY <1>3, <2>1, <3>1 DEF IInv, Owned
      <3>4. \A s \in Slots : tasks'[s].kind = "close" => tasks'[s].id \in Ids /\ socks'[tasks'[s].id].live
        BY <2>1, <2>2, <3>2 DEF IInv, Owned
      <3>5. QED BY <1>3, <2>2, <3>3, <3>4 DEF IInv, Owned, Closing
    <2>5. QED BY <2>1, <2>3, <2>4 DEF IInv
  <1>6. QED BY <1>4, <1>5 DEF run_close
-----------------------------------------------------------------------------
(* A datagram arrives.                                                     *)

LEMMA BindsType == ASSUME TypeOK, NEW i \in DOMAIN binds, binds[i] # NULL PROVE binds[i] \in Addrs
  BY LenProperties DEF TypeOK

LEMMA PendingStep ==
    ASSUME IInv, NEW a \in Addrs, NEW r \in Remotes, udp[a].remote = r,
           udp' = [udp EXCEPT ![a].pending = @ \cup {r}],
           UNCHANGED <<binds, socks, nextId, progs, tasks, at, ran, dropped>>
    PROVE  IInv'
  <1>1. udp \in [Addrs -> UdpType] /\ TypeOK
    BY Types DEF IInv
  <1>2. udp' \in [Addrs -> UdpType]
    BY <1>1 DEF UdpType
  <1>3. \A b \in Addrs :
           /\ udp'[b].live = udp[b].live /\ udp'[b].listening = udp[b].listening
           /\ udp'[b].port = udp[b].port /\ udp'[b].remote = udp[b].remote /\ udp'[b].data = udp[b].data
           /\ udp'[b].pending = IF b = a THEN udp[b].pending \cup {r} ELSE udp[b].pending
    BY <1>1 DEF UdpType
  <1>4. TypeOK'
    BY <1>1, <1>2 DEF TypeOK, UdpType
  <1>5. UdpOK'
    BY <1>3 DEF IInv, UdpOK
  <1>6. \A b \in Addrs : Bound(b)' = Bound(b)
    BY DEF Bound
  <1>7. BoundOK'
    BY <1>3, <1>6 DEF IInv, BoundOK
  <1>8. SocksOK' /\ OwnDatagrams'
    BY DEF IInv, SocksOK, OwnDatagrams
  <1>9. Owned'
    BY DEF IInv, Owned, Closing
  <1>10. OneChild'
    BY <1>1, <1>3, BindsType DEF IInv, OneChild
  <1>11. QED BY <1>4, <1>5, <1>7, <1>8, <1>9, <1>10 DEF IInv

LEMMA ToBoundStep ==
    ASSUME IInv, NEW r \in Remotes, NEW port, ToBound(r, port),
           UNCHANGED <<nextId, progs, tasks, at, ran, dropped>>
    PROVE  IInv'
  <1>1. PICK i \in Targets(r, port) :
           /\ IF udp[binds[i]].data = NULL
              THEN udp' = [udp EXCEPT ![binds[i]].pending = @ \cup {r}] /\ UNCHANGED socks
              ELSE socks' = [socks EXCEPT ![udp[binds[i]].data].got = @ \cup {r}] /\ UNCHANGED udp
           /\ UNCHANGED binds
    BY DEF ToBound
  <1> DEFINE a == binds[i]
  <1>2. TypeOK /\ socks \in [Ids -> SockType]
    BY Types DEF IInv
  <1>3. /\ i \in DOMAIN binds /\ a \in Addrs /\ Bound(a)
        /\ ~udp[a].listening /\ udp[a].remote = r
    BY <1>2, BindsType DEF Targets, Match, Bound
  <1> HIDE DEF a
  <1>4. CASE udp[a].data = NULL
    BY <1>1, <1>3, <1>4, PendingStep DEF a
  <1>5. CASE udp[a].data # NULL
    <2> DEFINE id == udp[a].data
    <2>1. id \in Ids
      BY <1>2, <1>3, <1>5, UdpFields
    <2>2. socks[id].live /\ socks[id].peer = r
      BY <1>3, <1>5 DEF IInv, BoundOK
    <2>3. socks' = [socks EXCEPT ![id].got = @ \cup {r}] /\ UNCHANGED <<udp, binds>>
      BY <1>1, <1>5 DEF a
    <2> HIDE DEF id
    <2>4. socks' = [socks EXCEPT ![id].got = socks[id].got \cup {r}]
      BY <1>2, <2>1, <2>3
    <2>5. socks[id].got \cup {r} \in SUBSET Remotes
      BY <1>2, <2>1 DEF SockType
    <2>6. socks[id].got \cup {r} \subseteq {socks[id].peer}
      BY <2>1, <2>2 DEF IInv, OwnDatagrams
    <2>7. QED BY <2>1, <2>3, <2>4, <2>5, <2>6, GotStep
  <1>6. QED BY <1>4, <1>5

LEMMA ToListenerStep ==
    ASSUME IInv, NEW r \in Remotes, NEW port \in {PORT} \cup Ids, ToListener(r, port),
           UNCHANGED <<nextId, progs, tasks, at, ran, dropped>>
    PROVE  IInv'
  <1> DEFINE u == [NoUdp EXCEPT !.live = TRUE, !.port = port, !.remote = r, !.pending = {r}]
  <1>1. PICK n \in Listeners(port), c \in FirstFree :
           /\ udp' = [udp EXCEPT ![c] = u, ![binds[n]].queue = Append(@, c)]
           /\ binds' = BoundTo(c)
    BY DEF ToListener
  <1> DEFINE l == binds[n]
  <1>2. TypeOK /\ udp \in [Addrs -> UdpType]
    BY Types DEF IInv
  <1>3. c \in Addrs /\ ~udp[c].live
    BY DEF FirstFree
  <1>4. l \in Addrs /\ Bound(l) /\ udp[l].listening /\ udp[l].port = port
    BY <1>2, BindsType DEF Listeners, Bound
  <1>5. l # c
    BY <1>3, <1>4 DEF IInv, BoundOK
  <1>6. /\ u \in UdpType /\ u.live /\ ~u.listening /\ u.port = port /\ u.remote = r
        /\ u.pending = {r} /\ u.data = NULL
    BY NullsType DEF NoUdp, UdpType
  <1>7. udp' = [udp EXCEPT ![c] = u, ![l].queue = Append(@, c)]
    BY <1>1
  <1> HIDE DEF l, u
  <1>8. udp[l].queue \in Seq(Addrs) /\ Append(udp[l].queue, c) \in Seq(Addrs)
    BY <1>2, <1>3, <1>4, UdpFields
  <1>9. udp' \in [Addrs -> UdpType]
    <2> DEFINE u1 == [udp EXCEPT ![c] = u]
    <2>1. u1 \in [Addrs -> UdpType] /\ u1[l] = udp[l]
      BY <1>2, <1>3, <1>4, <1>5, <1>6
    <2>2. udp' = [u1 EXCEPT ![l] = [udp[l] EXCEPT !.queue = Append(udp[l].queue, c)]]
      BY <1>2, <1>3, <1>4, <1>5, <1>7
    <2>3. [udp[l] EXCEPT !.queue = Append(udp[l].queue, c)] \in UdpType
      BY <1>2, <1>4, <1>8 DEF UdpType
    <2> HIDE DEF u1
    <2>4. QED BY <1>4, <2>1, <2>2, <2>3
  <1>10. udp'[c] = u
    BY <1>2, <1>3, <1>4, <1>5, <1>7
  <1>11. \A b \in Addrs : b # c =>
           /\ udp'[b].live = udp[b].live /\ udp'[b].listening = udp[b].listening
           /\ udp'[b].port = udp[b].port /\ udp'[b].remote = udp[b].remote
           /\ udp'[b].data = udp[b].data /\ udp'[b].pending = udp[b].pending
    BY <1>2, <1>3, <1>4, <1>5, <1>7 DEF UdpType
  <1>12. /\ BoundTo(c) \in Seq(Addrs \cup {NULL})
         /\ \E k : \A i \in DOMAIN BoundTo(c) :
                 \/ i = k /\ BoundTo(c)[i] = c
                 \/ i # k /\ i \in DOMAIN binds /\ BoundTo(c)[i] = binds[i]
    BY <1>2, <1>3, BoundToShape
  <1>13. PICK k : \A i \in DOMAIN binds' :
                 \/ i = k /\ binds'[i] = c
                 \/ i # k /\ i \in DOMAIN binds /\ binds'[i] = binds[i]
    BY ONLY <1>1, <1>12
  <1>14. UNCHANGED socks /\ Targets(r, port) = {}
    BY DEF ToListener
  <1>15. TypeOK'
    BY <1>1, <1>2, <1>9, <1>12, <1>14 DEF TypeOK, UdpType
  <1>16. UdpOK'
    BY <1>4, <1>6, <1>10, <1>11, UdpFields, Constants, Types DEF IInv, UdpOK
  <1>17. \A b \in Addrs : Bound(b)' => b = c \/ Bound(b)
    BY <1>13 DEF Bound
  <1>18. BoundOK'
    BY <1>6, <1>10, <1>11, <1>14, <1>17 DEF IInv, BoundOK
  <1>19. SocksOK' /\ OwnDatagrams'
    BY <1>14 DEF IInv, SocksOK, OwnDatagrams
  <1>20. Owned'
    BY <1>14 DEF IInv, Owned, Closing
  <1>21. \A i \in DOMAIN binds : binds[i] # NULL => binds[i] \in Addrs /\ binds[i] # c /\ ~Match(binds[i], r, port)
    BY <1>2, <1>3, <1>14, BindsType DEF IInv, BoundOK, Bound, Targets
  <1>22. \A i \in DOMAIN binds' : i # k /\ binds'[i] # NULL /\ ~udp'[binds'[i]].listening =>
            ~(udp'[binds'[i]].port = port /\ udp'[binds'[i]].remote = r)
    BY <1>11, <1>13, <1>21 DEF Match
  <1>23. OneChild'
    <2> SUFFICES ASSUME NEW i \in DOMAIN binds', NEW j \in DOMAIN binds',
                        binds'[i] # NULL, binds'[j] # NULL, i # j,
                        ~udp'[binds'[i]].listening, ~udp'[binds'[j]].listening,
                        udp'[binds'[i]].port = udp'[binds'[j]].port,
                        udp'[binds'[i]].remote = udp'[binds'[j]].remote
                 PROVE  FALSE
      BY DEF OneChild
    <2>1. CASE i # k /\ j # k
      BY <1>11, <1>13, <1>21, <2>1 DEF IInv, OneChild
    <2>2. CASE i = k /\ j # k
      BY <1>6, <1>10, <1>13, <1>22, <2>2
    <2>3. CASE i # k /\ j = k
      BY <1>6, <1>10, <1>13, <1>22, <2>3
    <2>4. QED BY <2>1, <2>2, <2>3
  <1>24. QED BY <1>15, <1>16, <1>18, <1>19, <1>20, <1>23 DEF IInv
-----------------------------------------------------------------------------
LEMMA InitInv == Init => IInv
  <1> SUFFICES ASSUME Init PROVE IInv
    OBVIOUS
  <1>1. /\ udp \in [Addrs -> UdpType] /\ socks \in [Ids -> SockType]
        /\ progs \in [Programs -> ProgType] /\ tasks \in [Slots -> TaskType]
    BY NullsType DEF Init
  <1>2. binds \in Seq(Addrs \cup {NULL}) /\ nextId \in 1 .. MaxIds + 1
    BY SocketsAssumption DEF Init
  <1>3. TypeOK
    BY <1>1, <1>2, Types DEF Init
  <1>4. DOMAIN binds = {}
    BY DEF Init
  <1>5. SocksOK /\ OwnDatagrams
    BY DEF Init, SocksOK, OwnDatagrams, NoSock
  <1>6. Owned
    BY DEF Init, Owned, Closing, Fresh, NoTask
  <1>7. UdpOK
    BY DEF Init, UdpOK, NoUdp, NULL
  <1>8. BoundOK /\ OneChild
    BY <1>4 DEF BoundOK, OneChild, Bound
  <1>9. QED BY <1>3, <1>5, <1>6, <1>7, <1>8 DEF IInv

LEMMA ReceiveStep == ASSUME IInv, udp_ipv4_recv PROVE IInv'
  <1>1. PICK r \in Remotes, port \in {PORT} \cup Ids : ToBound(r, port) \/ ToListener(r, port)
    BY DEF udp_ipv4_recv
  <1>2. UNCHANGED <<nextId, progs, tasks, at, ran, dropped>>
    BY DEF udp_ipv4_recv
  <1>3. QED BY <1>1, <1>2, ToBoundStep, ToListenerStep

LEMMA StutterStep == ASSUME IInv, UNCHANGED vars PROVE IInv'
  <1>1. UNCHANGED Net /\ UNCHANGED <<progs, tasks, at, ran, dropped>>
    BY DEF vars, Net
  <1>2. TypeOK'
    BY <1>1 DEF IInv, TypeOK, Net
  <1>3. Owned'
    BY <1>1 DEF IInv, Owned, Closing, Net
  <1>4. QED BY <1>1, <1>2, <1>3, QuietStep

LEMMA NextInv == IInv /\ [Next]_vars => IInv'
  <1> SUFFICES ASSUME IInv, [Next]_vars PROVE IInv'
    OBVIOUS
  <1>1. ASSUME NEW p \in Programs, Program(p) PROVE IInv'
    BY <1>1, StartStep, ListenStep, ConnectStep, AcceptStep, RecvStep, ProgramCloseStep, ExitStep DEF Program
  <1>2. CASE Interrupt
    BY <1>2, TickStep, TaskCloseStep DEF Interrupt
  <1>3. QED BY <1>1, <1>2, SendStep, ReceiveStep, StutterStep DEF Next

(* Every step of programs, timer interrupt and packet handler keeps the    *)
(* inductive invariant.                                                    *)
THEOREM SocketsInv == Spec => []IInv
  <1>1. QED BY InitInv, NextInv, PTL DEF Spec

(* Whatever order programs, their deaths, the timer interrupt and packets  *)
(* come in, udp_ipv4_recv finds in binds only memory in use, and hands     *)
(* data only to a socket_t that exists.                                    *)
THEOREM SocketsBoundLive == Spec => [](TypeOK /\ BoundLive)
  <1>1. IInv => TypeOK /\ BoundLive
    <2> SUFFICES ASSUME IInv PROVE BoundLive
      BY DEF IInv
    <2>1. \A i \in DOMAIN binds : binds[i] # NULL => binds[i] \in Addrs /\ Bound(binds[i])
      BY BindsType DEF IInv, Bound
    <2>2. QED BY <2>1 DEF IInv, BoundOK, BoundLive
  <1>2. QED BY <1>1, SocketsInv, PTL

(* Sockets, asynchronous tasks and the table of bound addresses keep their *)
(* types (TypeOK of Sockets), the places of dead entries included.         *)
THEOREM SocketsTypeOK == Spec => []TypeOK
  BY SocketsBoundLive, PTL

(* A program reads from a socket only what its peer sent, although the     *)
(* memory of closed sockets, and a place in an accept queue, may belong to *)
(* another socket by the time it is used.                                  *)
THEOREM SocketsOwnDatagrams == Spec => []OwnDatagrams
  <1>1. IInv => OwnDatagrams
    BY DEF IInv
  <1>2. QED BY <1>1, SocketsInv, PTL

(* No two bound sockets are for the same port and host, so the datagrams   *)
(* of a host that writes to a listening port end up in one child.          *)
THEOREM SocketsOneChild == Spec => []OneChild
  <1>1. IInv => OneChild
    BY DEF IInv
  <1>2. QED BY <1>1, SocketsInv, PTL
=============================================================================
