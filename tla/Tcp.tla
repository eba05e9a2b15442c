-------------------------------- MODULE Tcp ---------------------------------
(***************************************************************************)
(* A TCP connection (mckrnl/core/net/tcp.c) as socket_manager.c uses it,   *)
(* over a network that loses, repeats and reorders segments.               *)
(*                                                                         *)
(* The packet handler, the poll from the timer interrupt and the syscalls  *)
(* each run with interrupts off, so each is a step.  The server the socket *)
(* connects to is external: it follows RFC 793, keeps what arrives in      *)
(* order, and may transmit whatever it sent before at any time.  The       *)
(* network holds a bounded number of segments each way and may deliver     *)
(* each at any time, several times, or never; when more are sent, any of   *)
(* them are lost.  A timeout may be over at any poll.  Data goes in pieces *)
(* of LEN bytes, the k-th piece being called k.  Other programs connect to *)
(* other servers: of them only their entry in the table of bound sockets   *)
(* is modelled.  No socket ever listens: tcp_listen has no body.           *)
(***************************************************************************)
EXTENDS Integers, Sequences, FiniteSets

CONSTANTS M,           \* sequence numbers are taken modulo M (2^32 in the code)
          LEN,         \* bytes of a piece of data
          Start,       \* the clock when the connection starts
          PeerStart,   \* first sequence number of the server
          ToPeerMax, ToHostMax,  \* segments on their way in each direction
          MaxSend,     \* pieces the program sends
          MaxPeer,     \* pieces the server sends before it closes
          MaxBinds,    \* bound on the table
          TCP_CTL_MAX_RETRIES,
          TCP_RETRANSMIT_MAX_RETRIES

ASSUME TcpAssumption ==
    /\ {LEN, MaxSend, MaxPeer, MaxBinds, ToPeerMax, ToHostMax} \subseteq Nat \ {0}
    /\ {TCP_CTL_MAX_RETRIES, TCP_RETRANSMIT_MAX_RETRIES} \subseteq Nat
    /\ Start \in 0 .. M - 1 /\ PeerStart \in 0 .. M - 1
    /\ M \in Nat /\ M % 2 = 0
    /\ 2 * (TCP_CTL_MAX_RETRIES + LEN * MaxSend + 4) < M /\ 2 * (LEN * MaxPeer + 2) < M

VARIABLES sock,     \* the tcp_socket_t
          binds,    \* stack->tcp->binds: each entry of the table
          app,      \* how far the program's connect or disconnect is
          arp,      \* is the server's hardware address known
          crashed,  \* the kernel called a NULL handler or followed a wild pointer
          toPeer, toHost,   \* segments on their way
          peer,     \* the server's end
          sent,     \* pieces the program sent (ghost)
          received  \* pieces handed to socket->recv, in order (ghost)

vars == <<sock, binds, app, arp, crashed, toPeer, toHost, peer, sent, received>>

(* Entries: this socket, another one, none.                                *)
SELF == "self"
ELSEWHERE == "other"
NULL == "null"

States == {"SYN_SENT", "ESTABLISHED", "FIN_WAIT1", "FIN_WAIT2", "CLOSE_WAIT", "CLOSED"}
Flags == {"SYN", "ACK", "FIN", "RST"}
Segments == [flags : SUBSET Flags, seq : 0 .. M - 1, ack : 0 .. M - 1, data : Nat]

WrapNot(x) == x  \* mutation: sequence numbers do not wrap
Wrap(x) == x % M
tcp_seq_after_eq(a, b) == (a - b) % M < M \div 2

Sending(net, segments, max) ==
    LET all == net \cup segments
    IN IF Cardinality(all) <= max THEN {all} ELSE {n \in SUBSET all : Cardinality(n) = max}

(* A server that is gone takes nothing.                                    *)
ToServer(segments) == IF peer.state = "CLOSED" THEN {{}} ELSE Sending(toPeer, segments, ToPeerMax)
ToSocket(segments) == Sending(toHost, segments, ToHostMax)

Payload(d) == IF d = 0 THEN 0 ELSE LEN

(* NoData: nothing tracked for retransmission.                             *)
NoData == [data |-> 0, seq |-> 0, retries |-> 0]
tcp_tx_clear_unacked(r) == [r EXCEPT !.tx = NoData]
tcp_tx_track_unacked(r, d) == IF d = 0 THEN r ELSE [r EXCEPT !.tx = [data |-> d, seq |-> r.seq, retries |-> 0]]

Segment(r, flags, d) == [flags |-> flags, seq |-> r.seq, ack |-> r.ack, data |-> d]

(* tcp_socket_send_internal: the socket after it sent Segment(...).        *)
AfterSend(r, flags, d) ==
    LET consume == IF flags \cap {"SYN", "FIN"} # {} THEN 1 ELSE 0
    IN [tcp_tx_track_unacked(r, d) EXCEPT !.seq = Wrap(@ + Payload(d) + consume)]

IsBound(s) == \E i \in DOMAIN binds : binds[i] = s
Unbound(s) == [i \in DOMAIN binds |-> IF binds[i] = s THEN NULL ELSE binds[i]]
-----------------------------------------------------------------------------
(* The socket is bound to the first free entry, or to one more entry of a  *)
(* new table in which the old ones are whatever the memory held: zeros, or *)
(* a wild pointer that the next poll follows, which behaves like zeros     *)
(* until then.                                                             *)
FreeEntries == {i \in DOMAIN binds : binds[i] = NULL}

Bind(s) ==
    \/ \E i \in FreeEntries : /\ \A j \in FreeEntries : i <= j
                              /\ binds' = [binds EXCEPT ![i] = s]
                              /\ UNCHANGED crashed
    \/ /\ FreeEntries = {} /\ Len(binds) < MaxBinds
       /\ binds' = Append([i \in DOMAIN binds |-> NULL], s)
       /\ IF binds = <<>> THEN UNCHANGED crashed ELSE crashed' \in BOOLEAN

Opened == [state |-> "SYN_SENT", seq |-> Start, ack |-> 0, tx |-> NoData]

(* The connect syscall is polled.  A server that is not in the ARP cache   *)
(* is asked for once, and waited for without a timeout.                    *)
arp_resolve ==
    /\ app = "idle" /\ arp = "unknown"
    /\ arp' = "asked" /\ app' = "resolving"
    /\ UNCHANGED <<sock, binds, crashed, toPeer, toHost, peer, sent, received>>

arp_etherframe_recv ==
    /\ arp = "asked" /\ arp' = "known"
    /\ UNCHANGED <<sock, binds, app, crashed, toPeer, toHost, peer, sent, received>>

tcp_connect ==
    /\ app \in {"idle", "resolving"} /\ arp = "known"
    /\ Bind(SELF)
    /\ sock' = AfterSend(Opened, {"SYN"}, 0)
    /\ toPeer' \in ToServer({Segment(Opened, {"SYN"}, 0)})
    /\ app' = "connecting"
    /\ UNCHANGED <<arp, toHost, peer, sent, received>>

(* The next connect syscall finds the connection open, and sets recv.      *)
socket_connect ==
    /\ app = "connecting" /\ sock.state = "ESTABLISHED"
    /\ app' = "open"
    /\ UNCHANGED <<sock, binds, arp, crashed, toPeer, toHost, peer, sent, received>>

(* No state is looked at.                                                  *)
tcp_socket_send ==
    /\ app = "open" /\ sent < MaxSend
    /\ LET d == sent + 1 IN
       /\ sock' = AfterSend(sock, {"ACK"}, d)
       /\ toPeer' \in ToServer({Segment(sock, {"ACK"}, d)})
       /\ sent' = d
    /\ UNCHANGED <<binds, app, arp, crashed, toHost, peer, received>>

(* Disconnecting counts the FIN twice in the sequence number.              *)
disconnect_init ==
    /\ app = "open"
    /\ app' = "closing"
    /\ LET r == [sock EXCEPT !.state = "FIN_WAIT1"] IN
       IF sock.state = "ESTABLISHED"
       THEN /\ sock' = [AfterSend(r, {"FIN", "ACK"}, 0) EXCEPT !.seq = Wrap(@ + 1)]
            /\ toPeer' \in ToServer({Segment(r, {"FIN", "ACK"}, 0)})
       ELSE UNCHANGED <<sock, toPeer>>
    /\ UNCHANGED <<binds, arp, crashed, toHost, peer, sent, received>>

FreeOnly == binds  \* mutation: the freed socket stays in the table
UnbindFreed == Unbound(SELF)

disconnect_wait ==
    /\ app = "closing" /\ sock.state = "CLOSED"
    /\ binds' = UnbindFreed
    /\ app' = "freed"
    /\ sock' = tcp_tx_clear_unacked(sock)
    /\ UNCHANGED <<arp, crashed, toPeer, toHost, peer, sent, received>>
-----------------------------------------------------------------------------
(* What the handler makes of a segment: the socket, what it sends and the  *)
(* piece it hands to socket->recv.                                         *)
Result(r, out, d) == [sock |-> r, out |-> out, data |-> d]
Quiet(r) == Result(r, {}, 0)
Answer(r, flags) == Result(AfterSend(r, flags, 0), {Segment(r, flags, 0)}, 0)
Reset(r) == Result([AfterSend(r, {"RST"}, 0) EXCEPT !.state = "CLOSED"], {Segment(r, {"RST"}, 0)}, 0)

(* An ACK of all tracked data, and of nothing never sent.                  *)
Covers(r, ack) == tcp_seq_after_eq(ack, r.tx.seq)  \* mutation: the start of the data is enough
AcksAll(r, ack) ==
    /\ tcp_seq_after_eq(ack, r.tx.seq) /\ ~tcp_seq_after_eq(ack, Wrap(r.seq + 1))
    /\ tcp_seq_after_eq(ack, Wrap(r.tx.seq + LEN))
HandleAck(r, g) ==
    IF "ACK" \in g.flags /\ r.tx.data # 0 /\ AcksAll(r, g.ack) THEN tcp_tx_clear_unacked(r) ELSE r

HandleSynAck(r, g) ==
    IF r.state = "SYN_SENT"
    THEN Answer([r EXCEPT !.state = "ESTABLISHED", !.ack = Wrap(g.seq + 1)], {"ACK"})
    ELSE Reset(r)

FinSkips(r, g) == g.seq = Wrap(r.ack + 1)  \* mutation: the FIN is expected one number later
FinInOrder(r, g) == g.seq = r.ack

(* A payload of the FIN is acknowledged and not handed on.                 *)
HandleFin(r, g) ==
    LET n == [r EXCEPT !.ack = Wrap(g.seq + Payload(g.data) + 1)] IN
    CASE ~FinInOrder(r, g) -> Answer(r, {"ACK"})
      [] FinInOrder(r, g) /\ r.state = "ESTABLISHED" ->
            LET c == [n EXCEPT !.state = "CLOSE_WAIT"]
            IN Result(AfterSend(c, {"FIN", "ACK"}, 0), {Segment(c, {"ACK"}, 0), Segment(c, {"FIN", "ACK"}, 0)}, 0)
      [] FinInOrder(r, g) /\ r.state = "CLOSE_WAIT" -> Quiet([n EXCEPT !.state = "CLOSED"])
      [] FinInOrder(r, g) /\ r.state \in {"FIN_WAIT1", "FIN_WAIT2"} -> Answer([n EXCEPT !.state = "CLOSED"], {"ACK"})
      [] OTHER -> Reset(n)

AnyOrder(r, g) == TRUE  \* mutation: the sequence number is not compared
InOrder(r, g) == g.seq = r.ack

HandleData(r, g) ==
    IF g.data = 0 THEN Quiet(r)
    ELSE IF InOrder(r, g)
         THEN LET n == [r EXCEPT !.ack = Wrap(@ + LEN)] IN Result(n, {Segment(n, {"ACK"}, 0)}, g.data)
         ELSE Answer(r, {"ACK"})

HandlePlain(r, g) ==
    CASE r.state = "CLOSE_WAIT" -> Quiet([r EXCEPT !.state = "CLOSED"])
      [] r.state = "FIN_WAIT1" /\ g.ack = r.seq -> HandleData([r EXCEPT !.state = "FIN_WAIT2"], g)
      [] OTHER -> HandleData(r, g)

Handled(g) ==
    LET r == HandleAck(sock, g)
        kind == g.flags \cap {"SYN", "ACK", "FIN"}
    IN CASE "RST" \in g.flags -> Quiet([r EXCEPT !.state = "CLOSED"])
         [] "RST" \notin g.flags /\ r.state = "CLOSED" -> Quiet(r)
         [] "RST" \notin g.flags /\ r.state # "CLOSED" /\ kind = {"SYN", "ACK"} -> HandleSynAck(r, g)
         [] "RST" \notin g.flags /\ r.state # "CLOSED" /\ kind \in {{"FIN"}, {"FIN", "ACK"}} -> HandleFin(r, g)
         [] "RST" \notin g.flags /\ r.state # "CLOSED" /\ "SYN" \in kind /\ kind # {"SYN", "ACK"} -> Reset(r)
         [] OTHER -> HandlePlain(r, g)

(* The socket is found by the sender's address and port alone.  Data for a *)
(* socket whose connect was not polled since calls its recv, still NULL.   *)
tcp_ipv4_recv(g) ==
    /\ IsBound(SELF)
    /\ LET h == Handled(g)
           done == h.sock.state = "CLOSED"
       IN IF h.data # 0 /\ app = "connecting"
          THEN /\ crashed' = TRUE
               /\ UNCHANGED <<sock, binds, toPeer, received>>
          ELSE /\ sock' = IF done THEN tcp_tx_clear_unacked(h.sock) ELSE h.sock
               /\ binds' = IF done THEN Unbound(SELF) ELSE binds
               /\ toPeer' \in ToServer(h.out)
               /\ received' = IF h.data = 0 THEN received ELSE Append(received, h.data)
               /\ UNCHANGED crashed
    /\ UNCHANGED <<app, arp, toHost, peer, sent>>

DeliverToHost == \E g \in toHost : tcp_ipv4_recv(g)
-----------------------------------------------------------------------------
(* tcp_poll at the socket's entry, its timeout being over.  A SYN takes a  *)
(* new sequence number each time; the data is sent as it was.              *)
CountNothing(r) == r  \* mutation: a retransmission is not counted
CountRetry(r) == [r EXCEPT !.tx = [data |-> @.data, seq |-> @.seq, retries |-> @.retries + 1]]

GiveUp == /\ sock' = [tcp_tx_clear_unacked(sock) EXCEPT !.state = "CLOSED"]
          /\ UNCHANGED toPeer

poll_syn ==
    LET r == sock IN
    /\ r.state = "SYN_SENT"
    /\ \/ r.tx.retries >= TCP_CTL_MAX_RETRIES /\ GiveUp
       \/ /\ r.tx.retries < TCP_CTL_MAX_RETRIES
          /\ sock' = AfterSend(CountRetry(r), {"SYN"}, 0)
          /\ toPeer' \in ToServer({Segment(r, {"SYN"}, 0)})

poll_data ==
    LET r == sock IN
    /\ r.state \notin {"SYN_SENT", "CLOSED"} /\ r.tx.data # 0
    /\ \/ r.tx.retries >= TCP_RETRANSMIT_MAX_RETRIES /\ GiveUp
       \/ /\ r.tx.retries < TCP_RETRANSMIT_MAX_RETRIES
          /\ sock' = CountRetry(r)
          /\ toPeer' \in ToServer({[Segment(r, {"ACK"}, r.tx.data) EXCEPT !.seq = r.tx.seq]})

tcp_poll ==
    /\ IsBound(SELF)
    /\ poll_syn \/ poll_data
    /\ UNCHANGED <<binds, app, arp, crashed, toHost, peer, sent, received>>
-----------------------------------------------------------------------------
(* The server's stream: its SYN is unit 0, the pieces follow, then its FIN.*)
PeerSeq(k) == Wrap(PeerStart + (IF k = 0 THEN 0 ELSE 1 + LEN * (k - 1)))
PeerFin == MaxPeer + 1
PeerEnd == Wrap(PeerSeq(PeerFin) + 1)
AckOfUnit(k) == IF k = PeerFin THEN PeerEnd ELSE PeerSeq(k + 1)

(* got: pieces taken, in order; next: units sent so far.                   *)
NewPeer == [state |-> "LISTEN", rcv |-> 0, got |-> <<>>, fin |-> FALSE, next |-> 0]

PeerTakes(p, g) ==
    LET open == \/ p.state = "ESTABLISHED"
                \/ \E k \in 0 .. p.next - 1 : g.ack = AckOfUnit(k)
        new == open /\ g.seq = p.rcv
        fin == "FIN" \in g.flags
    IN [p EXCEPT !.state = IF open THEN "ESTABLISHED" ELSE @,
                 !.rcv = IF new THEN Wrap(@ + Payload(g.data) + IF fin THEN 1 ELSE 0) ELSE @,
                 !.got = IF new /\ g.data # 0 THEN Append(@, g.data) ELSE @,
                 !.fin = @ \/ (new /\ fin)]

DeliverToPeer == \E g \in toPeer :
    LET p == peer IN
    /\ \/ /\ p.state = "LISTEN" /\ g.flags = {"SYN"}
          /\ peer' = [p EXCEPT !.state = "SYN_RECEIVED", !.rcv = Wrap(g.seq + 1)]
       \/ /\ p.state \in {"SYN_RECEIVED", "ESTABLISHED"} /\ "RST" \in g.flags
          /\ peer' = [p EXCEPT !.state = "CLOSED"]
       \/ /\ p.state \in {"SYN_RECEIVED", "ESTABLISHED"} /\ "RST" \notin g.flags /\ "ACK" \in g.flags
          /\ peer' = PeerTakes(p, g)
    /\ UNCHANGED <<sock, binds, app, arp, crashed, toPeer, toHost, sent, received>>

PeerSegment(flags, seq, d) == [flags |-> flags, seq |-> seq, ack |-> peer.rcv, data |-> d]

(* Unit k, for the first time or again.  The FIN may come with the last    *)
(* piece.  What is sent when no socket is bound reaches nobody and is left *)
(* out.                                                                    *)
PeerTransmit(k) ==
    LET p == peer IN
    /\ k <= p.next
    /\ \/ /\ k = 0 /\ p.state = "SYN_RECEIVED"
          /\ toHost' \in ToSocket({PeerSegment({"SYN", "ACK"}, PeerSeq(0), 0)})
          /\ peer' = [peer EXCEPT !.next = IF p.next = 0 THEN 1 ELSE @]
       \/ /\ k \in 1 .. MaxPeer /\ p.state = "ESTABLISHED"
          /\ toHost' \in ToSocket({PeerSegment({"ACK"}, PeerSeq(k), k)})
          /\ peer' = [peer EXCEPT !.next = IF p.next = k THEN k + 1 ELSE @]
       \/ /\ k = PeerFin /\ p.state = "ESTABLISHED"
          /\ toHost' \in ToSocket({PeerSegment({"FIN", "ACK"}, PeerSeq(k), 0)})
          /\ peer' = [peer EXCEPT !.next = k + 1]
       \/ /\ k = MaxPeer /\ p.state = "ESTABLISHED"
          /\ toHost' \in ToSocket({PeerSegment({"FIN", "ACK"}, PeerSeq(k), k)})
          /\ peer' = [peer EXCEPT !.next = PeerFin + 1]
    /\ UNCHANGED <<sock, binds, app, arp, crashed, toPeer, sent, received>>

PeerAck == /\ peer.state = "ESTABLISHED"
           /\ toHost' \in ToSocket({PeerSegment({"ACK"}, PeerSeq(0), 0)})
           /\ UNCHANGED <<sock, binds, app, arp, crashed, toPeer, peer, sent, received>>

(* The server refuses the connection, or is gone.                          *)
PeerAbort == /\ peer.state \in {"SYN_RECEIVED", "ESTABLISHED"}
             /\ toHost' \in ToSocket({PeerSegment({"RST"}, 0, 0)})
             /\ peer' = [peer EXCEPT !.state = "CLOSED"]
             /\ UNCHANGED <<sock, binds, app, arp, crashed, toPeer, sent, received>>
-----------------------------------------------------------------------------
(* Another program connects to its server, or has disconnected from it.    *)
(* What it does with entries this socket never uses is left out.           *)
other_connect == /\ ~IsBound(ELSEWHERE) /\ FreeEntries = {}
                 /\ Bind(ELSEWHERE)
                 /\ UNCHANGED <<sock, app, arp, toPeer, toHost, peer, sent, received>>
other_disconnect == /\ IsBound(ELSEWHERE) /\ app \in {"idle", "resolving"}
                    /\ binds' = Unbound(ELSEWHERE)
                    /\ UNCHANGED <<sock, app, arp, crashed, toPeer, toHost, peer, sent, received>>
-----------------------------------------------------------------------------
Init ==
    /\ sock = [state |-> "CLOSED", seq |-> 0, ack |-> 0, tx |-> NoData]
    /\ binds = <<>> /\ crashed = FALSE
    /\ app = "idle" /\ arp \in {"unknown", "known"}
    /\ toPeer = {} /\ toHost = {}
    /\ peer = NewPeer
    /\ sent = 0 /\ received = <<>>

Syscall == \/ arp_resolve \/ tcp_connect \/ socket_connect \/ tcp_socket_send
           \/ disconnect_init \/ disconnect_wait
Peer == IsBound(SELF) /\ ((\E k \in 0 .. PeerFin : PeerTransmit(k)) \/ PeerAck \/ PeerAbort)

Next == /\ ~crashed
        /\ \/ Syscall \/ other_connect \/ other_disconnect \/ tcp_poll
           \/ Peer \/ arp_etherframe_recv \/ DeliverToHost \/ DeliverToPeer

Spec == Init /\ [][Next]_vars

(* tcp_poll runs from every timer interrupt.  The server sends on the unit *)
(* the socket lacks, and the network does not lose every copy of it.       *)
Expected == \E g \in toHost : /\ g.seq = sock.ack
                              /\ g.data # 0 \/ "FIN" \in g.flags
                              /\ tcp_ipv4_recv(g)

PollFairness == WF_vars(~crashed /\ tcp_poll)
StreamFairness == /\ SF_vars(~crashed /\ Expected)
                  /\ WF_vars(~crashed /\ \E k \in 1 .. PeerFin : IsBound(SELF) /\ PeerSeq(k) = sock.ack /\ PeerTransmit(k))
FairSpec == Spec /\ PollFairness /\ StreamFairness
-----------------------------------------------------------------------------
TypeOK ==
    /\ sock \in [state : States, seq : 0 .. M - 1, ack : 0 .. M - 1,
                 tx : [data : 0 .. MaxSend, seq : 0 .. M - 1,
                       retries : 0 .. TCP_CTL_MAX_RETRIES + TCP_RETRANSMIT_MAX_RETRIES]]
    /\ Len(binds) <= MaxBinds /\ \A i \in DOMAIN binds : binds[i] \in {SELF, ELSEWHERE, NULL}
    /\ app \in {"idle", "resolving", "connecting", "open", "closing", "freed"}
    /\ arp \in {"unknown", "asked", "known"} /\ crashed \in BOOLEAN
    /\ toPeer \subseteq Segments /\ toHost \subseteq Segments
    /\ sent \in 0 .. MaxSend

Counted(q) == \A i \in DOMAIN q : q[i] = i

(* What the program reads is a prefix of what the server sent, and what    *)
(* the server takes is a prefix of what the program sent, whatever is      *)
(* lost, repeated or overtaken (tcp_ipv4_recv compares sequence numbers).  *)
Streams == /\ Counted(received) /\ Len(received) <= peer.next
           /\ Counted(peer.got) /\ Len(peer.got) <= sent

(* Data leaves the retransmission buffer of an open connection only when   *)
(* the server has all of it: tcp_tx_track_unacked may drop an older piece, *)
(* for the acknowledgement of the newer one covers both.                   *)
NothingLost ==
    app \in {"open", "closing"} /\ sock.state # "CLOSED" /\ sock.tx.data = 0 => Len(peer.got) = sent

(* No entry of the table is a freed socket, which the packet handler and   *)
(* the poll would go on using (tcp_socket_disconnect).                     *)
BoundAlive == IsBound(SELF) => app \notin {"idle", "resolving", "freed"}

(* A connect or a piece of data is not retried for ever: it is answered or *)
(* the socket is closed (tcp_poll counts retries), unless the socket fell  *)
(* out of the table.                                                       *)
Retrying == IsBound(SELF) /\ (sock.state = "SYN_SENT" \/ (sock.state # "CLOSED" /\ sock.tx.data # 0))
RetriesEnd == Retrying ~> crashed \/ ~Retrying

(* A disconnect of an open connection comes to its end once the server has *)
(* taken the FIN, although the FIN counts twice (tcp_socket_disconnect),   *)
(* FIN_WAIT2 is never reached and no FIN is ever sent again.               *)
DisconnectEnds ==
    sock.state \in {"FIN_WAIT1", "FIN_WAIT2"} /\ peer.fin
       ~> sock.state = "CLOSED" \/ peer.state = "CLOSED" \/ ~IsBound(SELF) \/ crashed
=============================================================================
