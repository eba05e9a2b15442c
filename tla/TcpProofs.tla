----------------------------- MODULE TcpProofs ------------------------------
(***************************************************************************)
(* TLAPS proofs about a TCP connection, for any modulus, piece length,     *)
(* window of the network and number of pieces and retries, as long as what *)
(* one connection sends takes less than half of the sequence numbers.      *)
(***************************************************************************)
EXTENDS Tcp, SequenceTheorems, FiniteSetTheorems, TLAPS

CTL == TCP_CTL_MAX_RETRIES
Window == CTL + LEN * MaxSend + 4

(* Positions: how far a sequence number is from the first of its end.      *)
At(p) == Wrap(Start + p)
One(b) == IF b THEN 1 ELSE 0

(* After r retries of the SYN the data starts at position r + 1; the FIN   *)
(* comes behind f pieces, and pushes the later ones on by one.             *)
Front(r, n, b) == r + 1 + LEN * n + One(b)
Pos(r, f, d) == Front(r, d - 1, d > f)
NoFin == MaxSend + 1

Seqs == 0 .. M - 1
TxType == {t \in [data : 0 .. MaxSend, seq : Seqs, retries : Nat] :
              t.retries <= CTL \/ t.retries <= TCP_RETRANSMIT_MAX_RETRIES}
SockType == [state : States, seq : Seqs, ack : Seqs, tx : TxType]
Receiving == {"ESTABLISHED", "FIN_WAIT1", "FIN_WAIT2"}
Entries == {SELF, ELSEWHERE, NULL}
PeerType == [state : {"LISTEN", "SYN_RECEIVED", "ESTABLISHED", "CLOSED"}, rcv : Seqs,
             got : Seq(Nat), fin : BOOLEAN, next : 0 .. PeerFin + 1]

Types == /\ sock \in SockType /\ peer \in PeerType
         /\ binds \in Seq(Entries) /\ Len(binds) <= MaxBinds
         /\ app \in {"idle", "resolving", "connecting", "open", "closing", "freed"}
         /\ arp \in {"unknown", "asked", "known"} /\ crashed \in BOOLEAN
         /\ toPeer \subseteq Segments /\ toHost \subseteq Segments
         /\ sent \in 0 .. MaxSend /\ received \in Seq(Nat)

(* How far the program is, and what the socket is then.                    *)
Stages ==
    /\ app \in {"idle", "resolving"} => sock.state = "CLOSED" /\ ~IsBound(SELF) /\ toPeer = {} /\ peer.state = "LISTEN"
    /\ app \in {"idle", "resolving", "connecting"} => sent = 0 /\ received = <<>>
    /\ app = "freed" => sock.state = "CLOSED" /\ ~IsBound(SELF)
    /\ sock.state = "SYN_SENT" => app = "connecting" /\ sock.tx.data = 0 /\ sock.tx.retries <= CTL
    /\ sock.state = "ESTABLISHED" => app \in {"connecting", "open"}
    /\ sock.state = "FIN_WAIT1" => app = "closing"
    /\ sock.state = "FIN_WAIT2" => app = "closing"

(* What the server sends, and how much of it the socket has taken.         *)
FromPeer ==
    /\ Counted(received) /\ Len(received) <= MaxPeer /\ Len(received) <= peer.next
    /\ sock.state \in Receiving => sock.ack = PeerSeq(Len(received) + 1)
    /\ \A g \in toHost : /\ g.data # 0 => g.data \in 1 .. MaxPeer /\ g.seq = PeerSeq(g.data) /\ g.data < peer.next
                         /\ "SYN" \in g.flags => g.seq = PeerSeq(0) /\ g.data = 0

(* The socket's stream: base r, FIN behind f pieces, and the server has    *)
(* everything before position p.                                           *)
SockWire(r, f) ==
    /\ r \in 0 .. CTL /\ f \in (0 .. sent) \cup {NoFin}
    /\ sock.state = "SYN_SENT" => r = sock.tx.retries
    /\ sock.state \in {"SYN_SENT", "ESTABLISHED"} => f = NoFin
    /\ app \in {"connecting", "open"} => sock.seq = At(Front(r, sent, f <= sent))
    /\ sock.tx.data # 0 => sock.tx.data = sent /\ sock.tx.seq = At(Pos(r, f, sent))

SegWire(r, f, g) ==
    /\ g.data # 0 => g.data \in 1 .. sent /\ g.seq = At(Pos(r, f, g.data)) /\ "FIN" \notin g.flags
    /\ "FIN" \in g.flags => f <= sent /\ g.seq = At(Front(r, f, FALSE))
    /\ "SYN" \in g.flags => \E i \in 0 .. r : g.seq = At(i)

PeerWire(r, f, p) ==
    /\ Counted(peer.got) /\ Len(peer.got) <= sent
    /\ IF peer.fin THEN f <= Len(peer.got) ELSE Len(peer.got) <= f
    /\ peer.state = "LISTEN" => p = 0 /\ peer.got = <<>> /\ ~peer.fin /\ peer.next = 0
    /\ peer.state # "LISTEN" =>
          /\ p > 0 /\ peer.rcv = At(p)
          /\ \/ p <= r + 1 /\ peer.got = <<>> /\ ~peer.fin
             \/ p = Front(r, Len(peer.got), peer.fin)
    /\ \A g \in toHost : \E a \in 1 .. p : g.ack = At(a)

Acked == app \in {"open", "closing"} /\ sock.state # "CLOSED" /\ sock.tx.data = 0 => Len(peer.got) = sent

Wire(r, f, p) == SockWire(r, f) /\ (\A g \in toPeer : SegWire(r, f, g)) /\ PeerWire(r, f, p) /\ Acked
FromSocket == \E r \in 0 .. CTL, f \in 0 .. NoFin, p \in 0 .. Window : Wire(r, f, p)

IInv == Types /\ Stages /\ FromPeer /\ FromSocket
-----------------------------------------------------------------------------
(* Constants and sequence numbers.                                         *)

LEMMA Constants == /\ M \in Nat \ {0} /\ LEN \in Nat \ {0} /\ MaxSend \in Nat \ {0} /\ MaxPeer \in Nat \ {0}
                   /\ CTL \in Nat /\ TCP_RETRANSMIT_MAX_RETRIES \in Nat /\ CTL = TCP_CTL_MAX_RETRIES
                   /\ Start \in 0 .. M - 1 /\ PeerStart \in 0 .. M - 1 /\ MaxBinds \in Nat \ {0}
                   /\ NoFin = MaxSend + 1 /\ PeerFin = MaxPeer + 1
  BY TcpAssumption DEF CTL, NoFin, PeerFin

LEMMA Products == /\ \A n \in Nat : LEN * n \in Nat /\ LEN * (n + 1) = LEN * n + LEN
                  /\ \A m \in Nat, n \in Nat : m < n => LEN * m + LEN <= LEN * n
                  /\ LEN * 0 = 0 /\ LEN * 1 = LEN
  <1>1. LEN \in Nat \ {0}
    BY Constants
  <1>2. \A n \in Nat : LEN * n \in Nat /\ LEN * (n + 1) = LEN * n + LEN
    BY <1>1, Z3
  <1>3. ASSUME NEW m \in Nat, NEW n \in Nat, m < n PROVE LEN * m + LEN <= LEN * n
    <2>1. LEN * n - LEN * m = LEN * (n - m) /\ n - m >= 1 /\ n - m \in Nat
      BY <1>1, <1>3, Z3
    <2>2. LEN * (n - m) >= LEN
      BY <1>1, <2>1, Z3
    <2>3. LEN * n \in Int /\ LEN * m \in Int
      BY <1>1, Z3
    <2>4. QED BY <1>1, <2>1, <2>2, <2>3
  <1>4. QED BY <1>1, <1>2, <1>3

LEMMA WindowFits == /\ Window \in Nat /\ 2 * Window < M
                    /\ LEN * MaxPeer \in Nat /\ 2 * (LEN * MaxPeer + 2) < M
  BY Constants, Products, TcpAssumption DEF Window, CTL

LEMMA Division == ASSUME NEW m \in Nat \ {0}, NEW k \in Int, NEW q \in Int, NEW r \in Int,
                         q = k \div m, r = k % m
                  PROVE  k = q * m + r /\ r \in 0 .. m - 1
  BY Z3T(20)

LEMMA ModUnique ==
    ASSUME NEW m \in Nat \ {0}, NEW k \in Int, NEW q \in Int, NEW r \in 0 .. m - 1, k = q * m + r
    PROVE  k % m = r
  <1> DEFINE a == k \div m
             b == k % m
  <1>1. a \in Int /\ b \in Int /\ a = k \div m /\ b = k % m
    OBVIOUS
  <1> HIDE DEF a, b
  <1>2. k = a * m + b /\ b \in 0 .. m - 1
    BY <1>1, Division
  <1>3. (q - a) * m = b - r
    BY <1>1, <1>2
  <1>4. q - a <= -1 => (q - a) * m <= -m
    BY <1>1, Z3
  <1>5. q - a >= 1 => (q - a) * m >= m
    BY <1>1, Z3
  <1>6. q = a
    BY <1>1, <1>2, <1>3, <1>4, <1>5
  <1>7. QED BY <1>1, <1>2, <1>6

(* A sequence number is its position less whole turns.                     *)
LEMMA WrapTurns == ASSUME NEW x \in Int
                   PROVE  Wrap(x) \in 0 .. M - 1 /\ \E q \in Int : x = q * M + Wrap(x)
  <1> DEFINE q == x \div M
             w == x % M
  <1>1. M \in Nat \ {0} /\ q \in Int /\ w \in Int /\ q = x \div M /\ w = x % M
    BY Constants
  <1>2. Wrap(x) = w
    BY DEF Wrap
  <1> HIDE DEF q, w
  <1>3. x = q * M + w /\ w \in 0 .. M - 1
    BY <1>1, Division
  <1>4. QED BY <1>1, <1>2, <1>3

LEMMA WrapType == ASSUME NEW x \in Int PROVE Wrap(x) \in 0 .. M - 1
  BY WrapTurns

LEMMA WrapIs == ASSUME NEW x \in Int, NEW q \in Int, NEW w \in 0 .. M - 1, x = q * M + w
                PROVE  Wrap(x) = w
  BY Constants, ModUnique DEF Wrap

LEMMA WrapPlus == ASSUME NEW x \in Int, NEW n \in Int PROVE Wrap(Wrap(x) + n) = Wrap(x + n)
  <1> DEFINE w == Wrap(x)
             v == Wrap(x + n)
             y == x + n
  <1>1. w \in 0 .. M - 1 /\ v \in 0 .. M - 1 /\ M \in Nat \ {0} /\ y \in Int
    BY WrapType, Constants
  <1>2. PICK q \in Int : x = q * M + w
    BY WrapTurns
  <1>3. PICK k \in Int : y = k * M + v
    BY <1>1, WrapTurns
  <1>y. y = x + n
    OBVIOUS
  <1> HIDE DEF w, v, y
  <1>4. w + n = (k - q) * M + v
    BY ONLY <1>1, <1>2, <1>3, <1>y, n \in Int, x \in Int, Z3
  <1> DEFINE z == w + n
             j == k - q
  <1>5. z \in Int /\ j \in Int /\ z = j * M + v
    BY <1>1, <1>4
  <1> HIDE DEF z, j
  <1>6. Wrap(z) = v
    BY <1>1, <1>5, WrapIs
  <1>7. QED BY <1>6 DEF z, w, v, y

LEMMA WrapZero == ASSUME NEW w \in 0 .. M - 1 PROVE Wrap(w) = w
  <1>1. w \in Int /\ w = 0 * M + w /\ 0 \in Int
    BY Constants
  <1>2. QED BY <1>1, WrapIs

(* Within one turn different positions have different numbers.             *)
LEMMA WrapApart == ASSUME NEW x \in Int, NEW y \in Int, x <= y, y - x < M, Wrap(x) = Wrap(y)
                   PROVE  x = y
  <1> DEFINE w == Wrap(x)
  <1>1. w \in 0 .. M - 1 /\ M \in Nat \ {0}
    BY WrapType, Constants
  <1>2. PICK q \in Int : x = q * M + w
    BY WrapTurns
  <1>3. PICK k \in Int : y = k * M + w
    BY WrapTurns
  <1> HIDE DEF w
  <1>4. y - x = (k - q) * M
    BY ONLY <1>1, <1>2, <1>3, Z3
  <1>5. k - q <= -1 => (k - q) * M <= -M
    BY <1>1, Z3
  <1>6. k - q >= 1 => (k - q) * M >= M
    BY <1>1, Z3
  <1>7. k = q
    BY <1>1, <1>4, <1>5, <1>6
  <1>8. QED BY <1>1, <1>2, <1>3, <1>7

(* tcp_seq_after_eq never takes an older number of the window for a newer. *)
LEMMA AfterIsLater ==
    ASSUME NEW p \in 0 .. Window, NEW q \in 0 .. Window, tcp_seq_after_eq(At(p), At(q))
    PROVE  p >= q
  <1> SUFFICES ASSUME p < q PROVE FALSE
    OBVIOUS
  <1> DEFINE u == Wrap(Start + p)
             v == Wrap(Start + q)
             x == Start + p
             y == Start + q
             h == M \div 2
  <1>1. /\ M \in Nat \ {0} /\ Start \in Int /\ x \in Int /\ y \in Int /\ p \in Int /\ q \in Int
        /\ u \in 0 .. M - 1 /\ v \in 0 .. M - 1 /\ q - p <= Window /\ 2 * Window < M /\ Window \in Nat
    BY Constants, WindowFits, WrapType
  <1>2. PICK i \in Int : x = i * M + u
    BY <1>1, WrapTurns
  <1>3. PICK j \in Int : y = j * M + v
    BY <1>1, WrapTurns
  <1>4. h \in Int /\ 2 * h <= M
    BY Constants, Z3
  <1>5. (u - v) % M < h
    BY DEF tcp_seq_after_eq, At
  <1>6. x - y = p - q
    BY <1>1
  <1> DEFINE z == u - v
             r == p - q + M
             k == j - i - 1
  <1> HIDE DEF u, v, x, y, h
  <1>7. z \in Int /\ k \in Int /\ r \in 0 .. M - 1
    BY <1>1
  <1>8. z = k * M + r
    <2>1. u - v = (p - q) + (j * M) - (i * M)
      BY ONLY <1>1, <1>2, <1>3, <1>6, Z3
    <2>2. (j - i - 1) * M = (j * M) - (i * M) - M
      BY <1>1, Z3
    <2>3. j * M \in Int /\ i * M \in Int
      BY <1>1, Z3
    <2>4. QED BY <1>1, <2>1, <2>2, <2>3
  <1>9. r <= p - q + M /\ z = u - v /\ r = p - q + M
    BY <1>1
  <1> HIDE DEF z, r, k
  <1>10. z % M = r
    BY <1>1, <1>7, <1>8, ModUnique
  <1>11. r < h
    BY <1>5, <1>9, <1>10
  <1>12. QED BY <1>1, <1>4, <1>9, <1>11

LEMMA AtType == ASSUME NEW p \in Nat PROVE At(p) \in 0 .. M - 1
  BY Constants, WrapType DEF At

LEMMA AtPlus == ASSUME NEW p \in Nat, NEW n \in Nat PROVE Wrap(At(p) + n) = At(p + n)
  <1> DEFINE x == Start + p
  <1>1. x \in Int /\ x + n = Start + (p + n)
    BY Constants
  <1> HIDE DEF x
  <1>2. Wrap(Wrap(x) + n) = Wrap(x + n)
    BY <1>1, WrapPlus
  <1>3. QED BY <1>1, <1>2 DEF At, x

LEMMA AtApart == ASSUME NEW p \in 0 .. Window, NEW q \in 0 .. Window, At(p) = At(q)
                 PROVE  p = q
  <1> DEFINE x == Start + p
             y == Start + q
  <1>1. x \in Int /\ y \in Int /\ (x - y = p - q) /\ x - y < M /\ y - x < M /\ Wrap(x) = Wrap(y)
    BY Constants, WindowFits DEF At
  <1>2. x = y
    <2> HIDE DEF x, y
    <2>1. CASE x <= y
      BY <1>1, <2>1, WrapApart
    <2>2. CASE y <= x
      BY <1>1, <2>2, WrapApart
    <2>3. QED BY <1>1, <2>1, <2>2
  <1>3. QED BY <1>1, <1>2

LEMMA PeerSeqType == ASSUME NEW k \in Nat PROVE PeerSeq(k) \in 0 .. M - 1
  <1>1. (IF k = 0 THEN 0 ELSE 1 + LEN * (k - 1)) \in Int
    BY Products, Constants
  <1>2. QED BY <1>1, Constants, WrapType DEF PeerSeq

LEMMA PeerSeqFirst == Wrap(PeerSeq(0) + 1) = PeerSeq(1)
  <1>1. PeerSeq(0) = Wrap(PeerStart) /\ PeerSeq(1) = Wrap(PeerStart + 1) /\ PeerStart \in Int
    BY Products, Constants DEF PeerSeq
  <1>2. QED BY <1>1, WrapPlus

LEMMA PeerSeqNext == ASSUME NEW k \in Nat \ {0} PROVE Wrap(PeerSeq(k) + LEN) = PeerSeq(k + 1)
  <1> DEFINE m == k - 1
             x == PeerStart + (1 + LEN * m)
  <1>1. m \in Nat /\ k = m + 1 /\ k + 1 - 1 = m + 1
    OBVIOUS
  <1>2. LEN * m \in Nat /\ LEN * (m + 1) = LEN * m + LEN /\ LEN \in Nat /\ PeerStart \in Int
    BY <1>1, Products, Constants
  <1>3. PeerSeq(k) = Wrap(x) /\ x \in Int
    BY <1>1, <1>2 DEF PeerSeq
  <1>4. PeerSeq(k + 1) = Wrap(x + LEN)
    BY <1>1, <1>2 DEF PeerSeq
  <1> HIDE DEF x
  <1>5. QED BY <1>2, <1>3, <1>4, WrapPlus

LEMMA PeerSeqApart == ASSUME NEW j \in 1 .. PeerFin, NEW k \in 1 .. PeerFin, PeerSeq(j) = PeerSeq(k)
                      PROVE  j = k
  <1> DEFINE a == j - 1
             b == k - 1
             x == PeerStart + (1 + LEN * a)
             y == PeerStart + (1 + LEN * b)
  <1>1. a \in Nat /\ b \in Nat /\ a <= MaxPeer /\ b <= MaxPeer /\ j \in Nat \ {0} /\ k \in Nat \ {0}
    BY Constants
  <1>2. /\ LEN * a \in Nat /\ LEN * b \in Nat /\ PeerStart \in Int /\ LEN \in Nat \ {0} /\ LEN * MaxPeer \in Nat
        /\ a < b => LEN * a + LEN <= LEN * b
        /\ b < a => LEN * b + LEN <= LEN * a
        /\ a < MaxPeer => LEN * a + LEN <= LEN * MaxPeer
        /\ b < MaxPeer => LEN * b + LEN <= LEN * MaxPeer
    BY <1>1, Products, Constants
  <1>3. Wrap(x) = Wrap(y)
    BY <1>1 DEF PeerSeq
  <1>4. x \in Int /\ y \in Int /\ x - y < M /\ y - x < M
    <2>1. LEN * a <= LEN * MaxPeer /\ LEN * b <= LEN * MaxPeer
      <3>1. a = MaxPeer => LEN * a = LEN * MaxPeer
        OBVIOUS
      <3>2. b = MaxPeer => LEN * b = LEN * MaxPeer
        OBVIOUS
      <3>3. QED BY <1>1, <1>2, <3>1, <3>2, Constants
    <2>2. QED BY <1>2, <2>1, WindowFits, Constants
  <1>5. x = y
    <2> HIDE DEF x, y
    <2>1. CASE x <= y
      BY <1>3, <1>4, <2>1, WrapApart
    <2>2. CASE y <= x
      BY <1>3, <1>4, <2>2, WrapApart
    <2>3. QED BY <1>4, <2>1, <2>2
  <1>6. LEN * a = LEN * b
    BY <1>2, <1>5
  <1>7. a = b
    BY <1>1, <1>2, <1>6
  <1>8. QED BY <1>7

(* The network makes up no segment.                                        *)
LEMMA Sent == ASSUME NEW net, NEW segments, NEW max, NEW n \in Sending(net, segments, max)
              PROVE  n \subseteq net \cup segments
  BY DEF Sending

LEMMA SentToServer == ASSUME NEW segments, toPeer' \in ToServer(segments)
                      PROVE  toPeer' \subseteq toPeer \cup segments
  BY Sent DEF ToServer

LEMMA SentToSocket == ASSUME NEW segments, toHost' \in ToSocket(segments)
                      PROVE  toHost' \subseteq toHost \cup segments
  BY Sent DEF ToSocket
-----------------------------------------------------------------------------
(* The handler: what it may change of a socket, what it sends, and when it *)
(* hands data on.                                                          *)
Effect(r, g, h) ==
    /\ h.sock \in SockType /\ h.sock.tx = r.tx /\ h.data \in Nat
    /\ \A o \in h.out : o \in Segments /\ o.data = 0 /\ "SYN" \notin o.flags
    /\ \/ h.sock.seq = r.seq /\ \A o \in h.out : "FIN" \notin o.flags
       \/ /\ r.state = "ESTABLISHED" /\ h.sock.state = "CLOSE_WAIT" /\ h.data = 0
          /\ h.sock.seq = Wrap(r.seq + 1) /\ \A o \in h.out : o.seq = r.seq
    /\ h.data # 0 => /\ h.data = g.data /\ g.seq = r.ack /\ r.state \in Receiving \cup {"SYN_SENT"}
                     /\ h.sock.ack = Wrap(r.ack + LEN)
    /\ h.data = 0 /\ h.sock.state \in Receiving =>
          \/ r.state \in Receiving /\ h.sock.ack = r.ack
          \/ r.state = "SYN_SENT" /\ "SYN" \in g.flags /\ h.sock.ack = Wrap(g.seq + 1)
    /\ \/ h.sock.state \in {r.state, "CLOSED"}
       \/ r.state = "SYN_SENT" /\ h.sock.state = "ESTABLISHED"
       \/ r.state = "ESTABLISHED" /\ h.sock.state = "CLOSE_WAIT"
       \/ r.state = "FIN_WAIT1" /\ h.sock.state = "FIN_WAIT2"

LEMMA SeqsType == /\ \A x \in Seqs : x \in Int /\ Wrap(x) = x
                  /\ \A x \in Int : Wrap(x) \in Seqs
                  /\ 0 \in Seqs
  BY WrapZero, WrapType, Constants DEF Seqs

LEMMA NoDataType == NoData \in TxType /\ NoData.data = 0 /\ NoData.retries = 0
  BY SeqsType, Constants DEF NoData, TxType

LEMMA PayloadType == ASSUME NEW d PROVE Payload(d) \in Nat /\ Payload(0) = 0 /\ (d # 0 => Payload(d) = LEN)
  BY Constants DEF Payload

LEMMA SegmentType == ASSUME NEW r \in SockType, NEW flags \in SUBSET Flags, NEW d \in Nat
                     PROVE  /\ Segment(r, flags, d) \in Segments /\ Segment(r, flags, d).data = d
                            /\ Segment(r, flags, d).flags = flags /\ Segment(r, flags, d).seq = r.seq
  BY DEF Segment, Segments, SockType, Seqs

LEMMA PlainSend == ASSUME NEW r \in SockType, NEW flags, flags \cap {"SYN", "FIN"} = {}
                   PROVE  AfterSend(r, flags, 0) = r
  <1>1. AfterSend(r, flags, 0) = [r EXCEPT !.seq = Wrap(r.seq + 0 + 0)]
    BY PayloadType DEF AfterSend, tcp_tx_track_unacked
  <1>2. r.seq \in Seqs /\ r.seq \in Int
    BY SeqsType DEF SockType
  <1>3. Wrap(r.seq + 0 + 0) = r.seq
    BY <1>2, SeqsType
  <1>4. [r EXCEPT !.seq = r.seq] = r
    BY DEF SockType
  <1>5. QED BY <1>1, <1>3, <1>4

LEMMA ConsumingSend == ASSUME NEW r \in SockType, NEW flags, flags \cap {"SYN", "FIN"} # {}
                       PROVE  AfterSend(r, flags, 0) = [r EXCEPT !.seq = Wrap(r.seq + 1)]
  <1>1. AfterSend(r, flags, 0) = [r EXCEPT !.seq = Wrap(r.seq + 0 + 1)]
    BY PayloadType DEF AfterSend, tcp_tx_track_unacked
  <1>2. r.seq \in Int
    BY SeqsType DEF SockType
  <1>3. r.seq + 0 + 1 = r.seq + 1
    BY <1>2
  <1>4. QED BY <1>1, <1>3

LEMMA StateType == ASSUME NEW r \in SockType, NEW s \in States
                   PROVE  /\ [r EXCEPT !.state = s] \in SockType
                          /\ [r EXCEPT !.state = s].state = s /\ [r EXCEPT !.state = s].seq = r.seq
                          /\ [r EXCEPT !.state = s].ack = r.ack /\ [r EXCEPT !.state = s].tx = r.tx
  BY DEF SockType

LEMMA AckType == ASSUME NEW r \in SockType, NEW a \in Seqs
                 PROVE  /\ [r EXCEPT !.ack = a] \in SockType
                        /\ [r EXCEPT !.ack = a].state = r.state /\ [r EXCEPT !.ack = a].seq = r.seq
                        /\ [r EXCEPT !.ack = a].ack = a /\ [r EXCEPT !.ack = a].tx = r.tx
  BY DEF SockType

LEMMA SeqType == ASSUME NEW r \in SockType, NEW a \in Seqs
                 PROVE  /\ [r EXCEPT !.seq = a] \in SockType
                        /\ [r EXCEPT !.seq = a].state = r.state /\ [r EXCEPT !.seq = a].seq = a
                        /\ [r EXCEPT !.seq = a].ack = r.ack /\ [r EXCEPT !.seq = a].tx = r.tx
  BY DEF SockType

LEMMA TxSet == ASSUME NEW r \in SockType, NEW t \in TxType
               PROVE  /\ [r EXCEPT !.tx = t] \in SockType
                      /\ [r EXCEPT !.tx = t].state = r.state /\ [r EXCEPT !.tx = t].seq = r.seq
                      /\ [r EXCEPT !.tx = t].ack = r.ack /\ [r EXCEPT !.tx = t].tx = t
  BY DEF SockType

LEMMA Cleared == ASSUME NEW r \in SockType
                 PROVE  /\ tcp_tx_clear_unacked(r) \in SockType /\ tcp_tx_clear_unacked(r).state = r.state
                        /\ tcp_tx_clear_unacked(r).seq = r.seq /\ tcp_tx_clear_unacked(r).ack = r.ack
                        /\ tcp_tx_clear_unacked(r).tx = NoData
  BY TxSet, NoDataType DEF tcp_tx_clear_unacked

LEMMA ResultParts == ASSUME NEW r, NEW out, NEW d
                     PROVE  Result(r, out, d).sock = r /\ Result(r, out, d).out = out /\ Result(r, out, d).data = d
  BY DEF Result

LEMMA FlagSets == /\ {"ACK"} \in SUBSET Flags /\ {"RST"} \in SUBSET Flags
                  /\ {"SYN"} \in SUBSET Flags /\ {"FIN", "ACK"} \in SUBSET Flags
                  /\ {"ACK"} \cap {"SYN", "FIN"} = {} /\ {"RST"} \cap {"SYN", "FIN"} = {}
                  /\ {"SYN"} \cap {"SYN", "FIN"} # {} /\ {"FIN", "ACK"} \cap {"SYN", "FIN"} # {}
                  /\ "SYN" \notin {"ACK"} /\ "SYN" \notin {"RST"} /\ "FIN" \notin {"ACK"} /\ "FIN" \notin {"RST"}
                  /\ "SYN" \notin {"FIN", "ACK"}
  BY DEF Flags

(* Segments without data or a flag that takes a number.                    *)
Plain(out) == \A o \in out : o \in Segments /\ o.data = 0 /\ "SYN" \notin o.flags /\ "FIN" \notin o.flags

(* An answer of one plain segment.                                         *)
LEMMA AnswerParts ==
    ASSUME NEW r \in SockType
    PROVE  /\ Answer(r, {"ACK"}).sock = r /\ Answer(r, {"ACK"}).data = 0
           /\ Plain(Answer(r, {"ACK"}).out)
           /\ Reset(r).sock = [r EXCEPT !.state = "CLOSED"] /\ Reset(r).data = 0
           /\ Plain(Reset(r).out)
           /\ Quiet(r).sock = r /\ Quiet(r).data = 0 /\ Plain(Quiet(r).out)
  <1>1. AfterSend(r, {"ACK"}, 0) = r /\ AfterSend(r, {"RST"}, 0) = r
    BY PlainSend, FlagSets
  <1>2. /\ Answer(r, {"ACK"}).sock = r /\ Answer(r, {"ACK"}).data = 0
        /\ Answer(r, {"ACK"}).out = {Segment(r, {"ACK"}, 0)}
    BY <1>1, ResultParts DEF Answer
  <1>3. /\ Reset(r).sock = [r EXCEPT !.state = "CLOSED"] /\ Reset(r).data = 0
        /\ Reset(r).out = {Segment(r, {"RST"}, 0)}
    BY <1>1, ResultParts DEF Reset
  <1>4. Quiet(r).sock = r /\ Quiet(r).data = 0 /\ Quiet(r).out = {}
    BY ResultParts DEF Quiet
  <1>5. \A flags \in SUBSET Flags : /\ Segment(r, flags, 0) \in Segments /\ Segment(r, flags, 0).data = 0
                                    /\ Segment(r, flags, 0).flags = flags
    BY SegmentType
  <1>6. QED BY <1>2, <1>3, <1>4, <1>5, FlagSets DEF Plain

LEMMA ClosedState == "CLOSED" \in States /\ "ESTABLISHED" \in States /\ "CLOSE_WAIT" \in States /\ "FIN_WAIT2" \in States
                     /\ "FIN_WAIT1" \in States /\ "SYN_SENT" \in States
                     /\ "CLOSED" \notin Receiving /\ "CLOSE_WAIT" \notin Receiving /\ "SYN_SENT" \notin Receiving
  BY DEF States, Receiving

(* A result that closes the socket, or leaves it alone.                    *)
LEMMA EffectClosed ==
    ASSUME NEW r \in SockType, NEW g, NEW h,
           h.sock \in SockType, h.sock.tx = r.tx, h.sock.seq = r.seq, h.sock.state = "CLOSED", h.data = 0,
           Plain(h.out)
    PROVE  Effect(r, g, h)
  BY ClosedState DEF Effect, Plain

LEMMA EffectSame ==
    ASSUME NEW r \in SockType, NEW g, NEW h, h.sock = r, h.data = 0,
           Plain(h.out)
    PROVE  Effect(r, g, h)
  BY DEF Effect, Plain

LEMMA CloseQuiet == ASSUME NEW r \in SockType, NEW g PROVE Effect(r, g, Quiet([r EXCEPT !.state = "CLOSED"]))
  <1> DEFINE n == [r EXCEPT !.state = "CLOSED"]
             h == Quiet(n)
  <1>1. n \in SockType /\ n.state = "CLOSED" /\ n.seq = r.seq /\ n.tx = r.tx
    BY StateType, ClosedState
  <1> HIDE DEF n
  <1>2. h.sock = n /\ h.data = 0 /\ Plain(h.out)
    BY <1>1, AnswerParts
  <1> HIDE DEF h
  <1>3. Effect(r, g, h)
    BY <1>1, <1>2, EffectClosed
  <1>4. QED BY <1>3 DEF h, n

LEMMA ResetEffect == ASSUME NEW r \in SockType, NEW g PROVE Effect(r, g, Reset(r))
  <1> DEFINE n == [r EXCEPT !.state = "CLOSED"]
             h == Reset(r)
  <1>1. n \in SockType /\ n.state = "CLOSED" /\ n.seq = r.seq /\ n.tx = r.tx
    BY StateType, ClosedState
  <1>2. /\ h.sock = n /\ h.data = 0
        /\ Plain(h.out)
    BY AnswerParts
  <1> HIDE DEF h, n
  <1>3. Effect(r, g, h)
    BY <1>1, <1>2, EffectClosed
  <1>4. QED BY <1>3 DEF h

LEMMA AnswerEffect == ASSUME NEW r \in SockType, NEW g
                      PROVE  Effect(r, g, Answer(r, {"ACK"})) /\ Effect(r, g, Quiet(r))
  <1> DEFINE h == Answer(r, {"ACK"})
             k == Quiet(r)
  <1>1. /\ h.sock = r /\ h.data = 0 /\ k.sock = r /\ k.data = 0 /\ Plain(k.out)
        /\ Plain(h.out)
    BY AnswerParts
  <1> HIDE DEF h, k
  <1>2. Effect(r, g, h)
    BY <1>1, EffectSame
  <1>3. Effect(r, g, k)
    BY <1>1, EffectSame
  <1>4. QED BY <1>2, <1>3 DEF h, k

LEMMA SynAckEffect ==
    ASSUME NEW r \in SockType, NEW g \in Segments, "SYN" \in g.flags
    PROVE  Effect(r, g, HandleSynAck(r, g))
  <1>1. CASE r.state # "SYN_SENT"
    BY <1>1, ResetEffect DEF HandleSynAck
  <1>2. CASE r.state = "SYN_SENT"
    <2> DEFINE a == Wrap(g.seq + 1)
               m == [r EXCEPT !.state = "ESTABLISHED"]
               n == [m EXCEPT !.ack = a]
               h == Answer(n, {"ACK"})
    <2>1. a \in Seqs
      <3>1. g.seq + 1 \in Int
        BY DEF Segments
      <3>2. QED BY <3>1, SeqsType
    <2>2. [r EXCEPT !.state = "ESTABLISHED", !.ack = Wrap(g.seq + 1)] = n
      BY DEF SockType
    <2>3. HandleSynAck(r, g) = h
      BY <1>2, <2>2 DEF HandleSynAck
    <2>4. m \in SockType /\ m.state = "ESTABLISHED" /\ m.seq = r.seq /\ m.tx = r.tx
      BY StateType, ClosedState
    <2> HIDE DEF a, m
    <2>5. n \in SockType /\ n.state = "ESTABLISHED" /\ n.seq = r.seq /\ n.tx = r.tx /\ n.ack = a
      BY <2>1, <2>4, AckType
    <2> HIDE DEF n
    <2>6. /\ h.sock = n /\ h.data = 0
          /\ Plain(h.out)
      BY <2>5, AnswerParts
    <2> HIDE DEF h
    <2>7. Effect(r, g, h)
      BY <1>2, <2>5, <2>6 DEF Effect, Plain, a
    <2>8. QED BY <2>3, <2>7
  <1>3. QED BY <1>1, <1>2

LEMMA FinEffect ==
    ASSUME NEW r \in SockType, NEW g \in Segments
    PROVE  Effect(r, g, HandleFin(r, g))
  <1> DEFINE a == Wrap(g.seq + Payload(g.data) + 1)
             n == [r EXCEPT !.ack = a]
             c == [n EXCEPT !.state = "CLOSED"]
             w == [n EXCEPT !.state = "CLOSE_WAIT"]
             h == HandleFin(r, g)
  <1>1. a \in Seqs
    <2>1. g.seq + Payload(g.data) + 1 \in Int
      BY PayloadType DEF Segments
    <2>2. QED BY <2>1, SeqsType
  <1>h. /\ ~FinInOrder(r, g) => h = Answer(r, {"ACK"})
        /\ FinInOrder(r, g) /\ r.state = "ESTABLISHED" =>
              h = Result(AfterSend(w, {"FIN", "ACK"}, 0), {Segment(w, {"ACK"}, 0), Segment(w, {"FIN", "ACK"}, 0)}, 0)
        /\ FinInOrder(r, g) /\ r.state = "CLOSE_WAIT" => h = Quiet(c)
        /\ FinInOrder(r, g) /\ r.state \in {"FIN_WAIT1", "FIN_WAIT2"} => h = Answer(c, {"ACK"})
        /\ FinInOrder(r, g) /\ r.state \notin {"ESTABLISHED", "CLOSE_WAIT", "FIN_WAIT1", "FIN_WAIT2"} => h = Reset(n)
    BY DEF HandleFin
  <1> HIDE DEF a, h
  <1>2. n \in SockType /\ n.state = r.state /\ n.seq = r.seq /\ n.tx = r.tx
    BY <1>1, AckType
  <1> HIDE DEF n
  <1>3. c \in SockType /\ c.state = "CLOSED" /\ c.seq = r.seq /\ c.tx = r.tx
    BY <1>2, StateType, ClosedState
  <1>4. w \in SockType /\ w.state = "CLOSE_WAIT" /\ w.seq = r.seq /\ w.tx = r.tx
    BY <1>2, StateType, ClosedState
  <1>r. /\ Reset(n).sock = c /\ Reset(n).data = 0
        /\ Plain(Reset(n).out)
    BY <1>2, AnswerParts
  <1> HIDE DEF c, w
  <1>5. CASE ~FinInOrder(r, g)
    BY <1>5, <1>h, AnswerEffect DEF h
  <1>6. CASE FinInOrder(r, g) /\ r.state = "ESTABLISHED"
    <2> DEFINE q == Wrap(w.seq + 1)
               k == [w EXCEPT !.seq = q]
    <2>1. AfterSend(w, {"FIN", "ACK"}, 0) = k
      BY <1>4, ConsumingSend, FlagSets
    <2>2. q \in Seqs /\ q = Wrap(r.seq + 1)
      <3>1. w.seq + 1 \in Int
        BY <1>4, SeqsType DEF SockType
      <3>2. QED BY <1>4, <3>1, SeqsType
    <2> HIDE DEF q
    <2>3. k \in SockType /\ k.state = "CLOSE_WAIT" /\ k.seq = q /\ k.tx = r.tx
      BY <1>4, <2>2, SeqType
    <2>4. h.sock = k /\ h.data = 0 /\ h.out = {Segment(w, {"ACK"}, 0), Segment(w, {"FIN", "ACK"}, 0)}
      BY <1>6, <1>h, <2>1, ResultParts
    <2> HIDE DEF k
    <2>5. \A o \in h.out : o \in Segments /\ o.data = 0 /\ "SYN" \notin o.flags /\ o.seq = r.seq
      BY <1>4, <2>4, SegmentType, FlagSets
    <2>6. Effect(r, g, h)
      BY <1>6, <2>2, <2>3, <2>4, <2>5, ClosedState DEF Effect
    <2>7. QED BY <2>6 DEF h
  <1>7. CASE FinInOrder(r, g) /\ r.state # "ESTABLISHED"
    <2>1. /\ h.sock = c /\ h.data = 0
          /\ Plain(h.out)
      BY <1>7, <1>h, <1>3, <1>r, AnswerParts
    <2>2. Effect(r, g, h)
      BY <1>3, <2>1, EffectClosed
    <2>3. QED BY <2>2 DEF h
  <1>8. QED BY <1>5, <1>6, <1>7

LEMMA DataEffect ==
    ASSUME NEW r \in SockType, NEW g \in Segments, r.state \in Receiving \cup {"SYN_SENT"}
    PROVE  Effect(r, g, HandleData(r, g))
  <1>1. CASE g.data = 0
    BY <1>1, AnswerEffect DEF HandleData
  <1>2. CASE g.data # 0 /\ ~InOrder(r, g)
    BY <1>2, AnswerEffect DEF HandleData
  <1>3. CASE g.data # 0 /\ InOrder(r, g)
    <2> DEFINE a == Wrap(r.ack + LEN)
               n == [r EXCEPT !.ack = a]
               h == Result(n, {Segment(n, {"ACK"}, 0)}, g.data)
    <2>1. HandleData(r, g) = h
      BY <1>3 DEF HandleData
    <2>2. a \in Seqs
      <3>1. r.ack + LEN \in Int
        BY Constants, SeqsType DEF SockType
      <3>2. QED BY <3>1, SeqsType
    <2>a. a = Wrap(r.ack + LEN)
      OBVIOUS
    <2> HIDE DEF a
    <2>3. n \in SockType /\ n.state = r.state /\ n.seq = r.seq /\ n.tx = r.tx /\ n.ack = a
      BY <2>2, AckType
    <2> HIDE DEF n
    <2>4. h.sock = n /\ h.data = g.data /\ h.out = {Segment(n, {"ACK"}, 0)}
      BY ResultParts
    <2> HIDE DEF h
    <2>5. Plain(h.out)
      BY <2>3, <2>4, SegmentType, FlagSets DEF Plain
    <2>6. g.data \in Nat /\ g.seq = r.ack
      BY <1>3 DEF Segments, InOrder
    <2>7. Effect(r, g, h)
      BY <1>3, <2>a, <2>3, <2>4, <2>5, <2>6 DEF Effect, Plain
    <2>8. QED BY <2>1, <2>7
  <1>4. QED BY <1>1, <1>2, <1>3

LEMMA PlainEffect ==
    ASSUME NEW r \in SockType, NEW g \in Segments, r.state # "CLOSED"
    PROVE  Effect(r, g, HandlePlain(r, g))
  <1>0. r.state \in States
    BY DEF SockType
  <1>1. CASE r.state = "CLOSE_WAIT"
    BY <1>1, CloseQuiet DEF HandlePlain
  <1>2. CASE r.state = "FIN_WAIT1" /\ g.ack = r.seq
    <2> DEFINE n == [r EXCEPT !.state = "FIN_WAIT2"]
               h == HandleData(n, g)
    <2>1. HandlePlain(r, g) = h
      BY <1>2 DEF HandlePlain
    <2>2. n \in SockType /\ n.state = "FIN_WAIT2" /\ n.seq = r.seq /\ n.tx = r.tx /\ n.ack = r.ack
      BY StateType, ClosedState
    <2> HIDE DEF n
    <2>3. Effect(n, g, h)
      BY <2>2, DataEffect DEF Receiving
    <2> HIDE DEF h
    <2>4. Effect(r, g, h)
      BY <1>2, <2>2, <2>3 DEF Effect, Receiving
    <2>5. QED BY <2>1, <2>4
  <1>3. CASE r.state # "CLOSE_WAIT" /\ ~(r.state = "FIN_WAIT1" /\ g.ack = r.seq)
    <2>1. HandlePlain(r, g) = HandleData(r, g)
      BY <1>3 DEF HandlePlain
    <2>2. r.state \in Receiving \cup {"SYN_SENT"}
      BY <1>0, <1>3 DEF States, Receiving
    <2>3. QED BY <2>1, <2>2, DataEffect
  <1>4. QED BY <1>1, <1>2, <1>3

(* HandleAck changes nothing but the retransmission buffer.                *)
LEMMA AckEffect ==
    ASSUME NEW r \in SockType, NEW g \in Segments
    PROVE  /\ HandleAck(r, g) \in SockType /\ HandleAck(r, g).state = r.state
           /\ HandleAck(r, g).seq = r.seq /\ HandleAck(r, g).ack = r.ack
           /\ \/ HandleAck(r, g).tx = r.tx
              \/ HandleAck(r, g).tx = NoData /\ r.tx.data # 0 /\ AcksAll(r, g.ack)
  BY Cleared DEF HandleAck

LEMMA Handler ==
    ASSUME sock \in SockType, NEW g \in Segments
    PROVE  Effect(HandleAck(sock, g), g, Handled(g))
  <1> DEFINE r == HandleAck(sock, g)
             kind == g.flags \cap {"SYN", "ACK", "FIN"}
  <1>1. r \in SockType
    BY AckEffect
  <1>h. /\ "RST" \in g.flags => Handled(g) = Quiet([r EXCEPT !.state = "CLOSED"])
        /\ "RST" \notin g.flags /\ r.state = "CLOSED" => Handled(g) = Quiet(r)
        /\ "RST" \notin g.flags /\ r.state # "CLOSED" =>
              /\ kind = {"SYN", "ACK"} => Handled(g) = HandleSynAck(r, g)
              /\ kind \in {{"FIN"}, {"FIN", "ACK"}} => Handled(g) = HandleFin(r, g)
              /\ "SYN" \in kind /\ kind # {"SYN", "ACK"} => Handled(g) = Reset(r)
              /\ "SYN" \notin kind /\ kind \notin {{"FIN"}, {"FIN", "ACK"}} => Handled(g) = HandlePlain(r, g)
    <2>1. {"SYN", "ACK"} \notin {{"FIN"}, {"FIN", "ACK"}} /\ "SYN" \in {"SYN", "ACK"} /\ "SYN" \notin {"FIN"}
          /\ "SYN" \notin {"FIN", "ACK"}
      OBVIOUS
    <2> HIDE DEF r, kind
    <2>2. Handled(g) = CASE "RST" \in g.flags -> Quiet([r EXCEPT !.state = "CLOSED"])
         [] "RST" \notin g.flags /\ r.state = "CLOSED" -> Quiet(r)
         [] "RST" \notin g.flags /\ r.state # "CLOSED" /\ kind = {"SYN", "ACK"} -> HandleSynAck(r, g)
         [] "RST" \notin g.flags /\ r.state # "CLOSED" /\ kind \in {{"FIN"}, {"FIN", "ACK"}} -> HandleFin(r, g)
         [] "RST" \notin g.flags /\ r.state # "CLOSED" /\ "SYN" \in kind /\ kind # {"SYN", "ACK"} -> Reset(r)
         [] OTHER -> HandlePlain(r, g)
      BY DEF Handled, r, kind
    <2>3. QED BY ONLY <2>1, <2>2
  <1>2. "SYN" \in kind => "SYN" \in g.flags
    OBVIOUS
  <1>3. kind = {"SYN", "ACK"} => "SYN" \in kind
    OBVIOUS
  <1> HIDE DEF r, kind
  <1>4. CASE "RST" \in g.flags
    BY <1>1, <1>4, <1>h, CloseQuiet DEF r
  <1>5. CASE "RST" \notin g.flags /\ r.state = "CLOSED"
    BY <1>1, <1>5, <1>h, AnswerEffect DEF r
  <1>6. CASE "RST" \notin g.flags /\ r.state # "CLOSED"
    <2>1. CASE kind = {"SYN", "ACK"}
      BY <1>1, <1>2, <1>3, <1>6, <1>h, <2>1, SynAckEffect DEF r
    <2>2. CASE kind \in {{"FIN"}, {"FIN", "ACK"}}
      BY <1>1, <1>6, <1>h, <2>2, FinEffect DEF r
    <2>3. CASE "SYN" \in kind /\ kind # {"SYN", "ACK"}
      BY <1>1, <1>6, <1>h, <2>3, ResetEffect DEF r
    <2>4. CASE "SYN" \notin kind /\ kind \notin {{"FIN"}, {"FIN", "ACK"}}
      BY <1>1, <1>6, <1>h, <2>4, PlainEffect DEF r
    <2>5. QED BY <2>1, <2>2, <2>3, <2>4
  <1>7. QED BY <1>4, <1>5, <1>6
-----------------------------------------------------------------------------
(* The table of bound sockets.                                             *)

LEMMA BindSteps ==
    ASSUME Types, NEW s \in {SELF, ELSEWHERE}, Bind(s)
    PROVE  /\ binds' \in Seq(Entries) /\ Len(binds') <= MaxBinds /\ crashed' \in BOOLEAN
           /\ s # SELF /\ ~IsBound(SELF) => ~IsBound(SELF)'
  <1>0. /\ binds \in Seq(Entries) /\ Len(binds) <= MaxBinds /\ crashed \in BOOLEAN /\ Len(binds) \in Nat
        /\ DOMAIN binds = 1 .. Len(binds) /\ s \in Entries /\ NULL \in Entries /\ NULL # SELF /\ MaxBinds \in Nat
    BY Constants DEF Types, Entries, NULL, SELF, ELSEWHERE
  <1>1. CASE \E i \in FreeEntries : /\ \A j \in FreeEntries : i <= j
                                    /\ binds' = [binds EXCEPT ![i] = s] /\ UNCHANGED crashed
    <2>1. PICK i \in FreeEntries : binds' = [binds EXCEPT ![i] = s] /\ UNCHANGED crashed
      BY <1>1
    <2>2. i \in 1 .. Len(binds)
      BY <1>0, <2>1 DEF FreeEntries
    <2>3. binds' \in Seq(Entries) /\ Len(binds') = Len(binds)
      BY <1>0, <2>1, <2>2, ExceptSeq
    <2>4. DOMAIN binds' = DOMAIN binds /\ \A k \in DOMAIN binds : binds'[k] = IF k = i THEN s ELSE binds[k]
      BY <2>1
    <2>5. QED BY <1>0, <2>1, <2>3, <2>4 DEF IsBound
  <1>2. CASE /\ FreeEntries = {} /\ Len(binds) < MaxBinds
             /\ binds' = Append([i \in DOMAIN binds |-> NULL], s)
             /\ IF binds = <<>> THEN UNCHANGED crashed ELSE crashed' \in BOOLEAN
    <2> DEFINE old == [i \in 1 .. Len(binds) |-> NULL]
    <2>1. old \in Seq(Entries) /\ Len(old) = Len(binds) /\ \A k \in 1 .. Len(binds) : old[k] = NULL
      BY <1>0
    <2>2. binds' = Append(old, s)
      BY <1>0, <1>2
    <2> HIDE DEF old
    <2>3. binds' \in Seq(Entries) /\ Len(binds') = Len(binds) + 1 /\ binds'[Len(binds) + 1] = s
          /\ \A k \in 1 .. Len(binds) : binds'[k] = NULL
      BY <1>0, <2>1, <2>2
    <2>4. DOMAIN binds' = 1 .. Len(binds) + 1
      BY <1>0, <2>3
    <2>5. QED BY <1>0, <1>2, <2>3, <2>4 DEF IsBound
  <1>3. QED BY <1>1, <1>2 DEF Bind

LEMMA Unbinding ==
    ASSUME Types, NEW s \in {SELF, ELSEWHERE}, binds' = Unbound(s)
    PROVE  /\ binds' \in Seq(Entries) /\ Len(binds') <= MaxBinds
           /\ ~IsBound(SELF) => ~IsBound(SELF)'
           /\ s = SELF => ~IsBound(SELF)'
  <1>0. /\ binds \in Seq(Entries) /\ Len(binds) <= MaxBinds /\ Len(binds) \in Nat
        /\ DOMAIN binds = 1 .. Len(binds) /\ NULL \in Entries /\ NULL # SELF
    BY DEF Types, Entries, NULL, SELF, ELSEWHERE
  <1>1. /\ DOMAIN binds' = 1 .. Len(binds)
        /\ \A i \in 1 .. Len(binds) : binds'[i] = IF binds[i] = s THEN NULL ELSE binds[i]
        /\ binds' = [i \in 1 .. Len(binds) |-> IF binds[i] = s THEN NULL ELSE binds[i]]
    BY <1>0 DEF Unbound
  <1>2. \A i \in 1 .. Len(binds) : binds[i] \in Entries
    BY <1>0
  <1>3. binds' \in Seq(Entries) /\ Len(binds') = Len(binds)
    BY <1>0, <1>1, <1>2
  <1>4. QED BY <1>0, <1>1, <1>3 DEF IsBound
-----------------------------------------------------------------------------
(* What does not matter to one of the streams.                             *)

LEMMA KeepFromPeer ==
    ASSUME Types, FromPeer, UNCHANGED <<received, toHost>>, peer'.next = peer.next,
           sock'.state \in Receiving => sock.state \in Receiving /\ sock'.ack = sock.ack
    PROVE  FromPeer'
  BY DEF FromPeer, Counted

LEMMA KeepFromSocket ==
    ASSUME FromSocket, UNCHANGED <<sock, toPeer, toHost, peer, sent>>, Acked',
           app' \in {"connecting", "open"} => app \in {"connecting", "open"}
    PROVE  FromSocket'
  <1>1. PICK r \in 0 .. CTL, f \in 0 .. NoFin, p \in 0 .. Window : Wire(r, f, p)
    BY DEF FromSocket
  <1>2. SockWire(r, f)'
    BY <1>1 DEF Wire, SockWire
  <1>3. (\A g \in toPeer : SegWire(r, f, g))'
    BY <1>1 DEF Wire, SegWire
  <1>4. PeerWire(r, f, p)'
    BY <1>1 DEF Wire, PeerWire, Counted
  <1>5. QED BY <1>2, <1>3, <1>4 DEF FromSocket, Wire

(* The connection has not begun, or has begun and nothing was sent: the    *)
(* steps that change neither sockets nor segments.                         *)
LEMMA SmallSteps ==
    ASSUME IInv, \/ arp_resolve \/ arp_etherframe_recv \/ socket_connect
                 \/ other_connect \/ other_disconnect
    PROVE  IInv'
  <1>0. Types /\ Stages /\ FromPeer /\ FromSocket
    BY DEF IInv
  <1>1. /\ UNCHANGED <<sock, toPeer, toHost, peer, sent, received>>
        /\ \/ app' = app
           \/ app = "idle" /\ app' = "resolving"
           \/ app = "connecting" /\ app' = "open" /\ sock.state = "ESTABLISHED"
    BY DEF arp_resolve, arp_etherframe_recv, socket_connect, other_connect, other_disconnect
  <1>2. /\ binds' \in Seq(Entries) /\ Len(binds') <= MaxBinds /\ crashed' \in BOOLEAN
        /\ ~IsBound(SELF) => ~IsBound(SELF)'
    <2>1. CASE UNCHANGED <<binds, crashed>>
      BY <1>0, <2>1 DEF Types, IsBound
    <2>2. CASE other_connect
      <3>1. ELSEWHERE \in {SELF, ELSEWHERE} /\ ELSEWHERE # SELF /\ Bind(ELSEWHERE)
        BY <2>2 DEF other_connect, SELF, ELSEWHERE
      <3>2. QED BY <1>0, <3>1, BindSteps
    <2>3. CASE other_disconnect
      <3>1. binds' = Unbound(ELSEWHERE) /\ crashed' = crashed /\ ELSEWHERE \in {SELF, ELSEWHERE}
        BY <2>3 DEF other_disconnect
      <3>2. QED BY <1>0, <3>1, Unbinding DEF Types
    <2>4. QED BY <2>1, <2>2, <2>3 DEF arp_resolve, arp_etherframe_recv, socket_connect
  <1>3. Types'
    <2>1. arp' \in {"unknown", "asked", "known"}
      BY <1>0 DEF Types, arp_resolve, arp_etherframe_recv, socket_connect, other_connect, other_disconnect
    <2>2. QED BY <1>0, <1>1, <1>2, <2>1 DEF Types
  <1>4. Stages'
    BY <1>0, <1>1, <1>2 DEF Stages
  <1>5. FromPeer'
    BY <1>0, <1>1, KeepFromPeer
  <1>6. Acked'
    <2>1. PICK r \in 0 .. CTL, f \in 0 .. NoFin, p \in 0 .. Window : Wire(r, f, p)
      BY <1>0 DEF FromSocket
    <2>2. Acked /\ Len(peer.got) <= sent /\ Len(peer.got) \in Nat
      BY <1>0, <2>1 DEF Wire, PeerWire, Types, PeerType
    <2>3. app = "connecting" => sent = 0
      BY <1>0 DEF Stages
    <2>4. QED BY <1>1, <2>2, <2>3 DEF Acked
  <1>7. FromSocket'
    BY <1>0, <1>1, <1>6, KeepFromSocket
  <1>8. QED BY <1>3, <1>4, <1>5, <1>7 DEF IInv
-----------------------------------------------------------------------------
(* Positions in the socket's stream.                                       *)

LEMMA FrontType ==
    ASSUME NEW r \in 0 .. CTL, NEW n \in 0 .. MaxSend, NEW b \in BOOLEAN
    PROVE  Front(r, n, b) \in 1 .. Window - 2 /\ Front(r, n, b) \in Nat /\ Front(r, n, b) + 1 \in 1 .. Window
  <1>1. /\ LEN * n \in Nat /\ LEN * MaxSend \in Nat /\ LEN \in Nat /\ CTL \in Nat /\ n \in Nat /\ MaxSend \in Nat
        /\ n < MaxSend => LEN * n + LEN <= LEN * MaxSend
    BY Products, Constants
  <1>2. n = MaxSend => LEN * n = LEN * MaxSend
    OBVIOUS
  <1>3. LEN * n <= LEN * MaxSend
    BY <1>1, <1>2
  <1>4. One(b) \in 0 .. 1
    BY DEF One
  <1>5. QED BY <1>1, <1>3, <1>4 DEF Front, Window

LEMMA Fronts ==
    ASSUME NEW r \in 0 .. CTL, NEW n \in Nat
    PROVE  /\ Front(r, n, FALSE) = r + 1 + LEN * n /\ Front(r, n, TRUE) = r + 2 + LEN * n
           /\ Front(r, n + 1, FALSE) = Front(r, n, FALSE) + LEN
           /\ Front(r, n + 1, TRUE) = Front(r, n, TRUE) + LEN
           /\ Front(r, 0, FALSE) = r + 1 /\ Front(r, 0, TRUE) = r + 2
  <1>1. LEN * n \in Nat /\ LEN \in Nat /\ LEN * (n + 1) = LEN * n + LEN /\ LEN * 0 = 0 /\ CTL \in Nat
    BY Products, Constants
  <1>2. QED BY <1>1 DEF Front, One

LEMMA HostKeepsPeer ==
    ASSUME Types, NEW r, NEW f, NEW p, PeerWire(r, f, p), UNCHANGED <<peer, toHost>>, sent' \in Nat, sent' >= sent
    PROVE  PeerWire(r, f, p)'
  <1>1. sent \in Nat /\ Len(peer.got) \in Nat
    BY DEF Types, PeerType
  <1>2. Len(peer.got) <= sent => (Len(peer.got) <= sent)'
    BY <1>1
  <1>3. QED BY <1>2 DEF PeerWire, Counted

LEMMA SegsKept ==
    ASSUME Types, NEW r, NEW f, \A g \in toPeer : SegWire(r, f, g), sent' \in Nat, sent' >= sent,
           f \in 0 .. NoFin, NEW S, toPeer' \subseteq toPeer \cup S, \A g \in S : SegWire(r, f, g)'
    PROVE  (\A g \in toPeer : SegWire(r, f, g))'
  <1>1. sent \in Nat /\ f \in Nat
    BY Constants DEF Types
  <1>2. ASSUME NEW g \in toPeer PROVE SegWire(r, f, g)'
    <2>1. g.data \in 1 .. sent => g.data \in 1 .. sent'
      BY <1>1
    <2>2. f <= sent => f <= sent'
      BY <1>1
    <2>3. QED BY <2>1, <2>2 DEF SegWire
  <1>3. QED BY <1>2

LEMMA OpenedType == /\ Opened \in SockType /\ Opened.seq = Start /\ Opened.state = "SYN_SENT" /\ Opened.tx = NoData
                    /\ NoData.data = 0 /\ NoData.retries = 0
  BY NoDataType, SeqsType, Constants, ClosedState DEF Opened, SockType, Seqs

LEMMA StartAt == Start = At(0) /\ Wrap(Start + 1) = At(1)
  <1>1. Start + 0 = Start
    BY Constants
  <1>2. QED BY <1>1, WrapZero, Constants DEF At

LEMMA ConnectStep == ASSUME IInv, tcp_connect PROVE IInv'
  <1>0. Types /\ Stages /\ FromPeer /\ FromSocket
    BY DEF IInv
  <1> DEFINE q == Wrap(Start + 1)
             g0 == Segment(Opened, {"SYN"}, 0)
  <1>1. /\ app \in {"idle", "resolving"} /\ Bind(SELF) /\ app' = "connecting"
        /\ UNCHANGED <<arp, toHost, peer, sent, received>>
    BY DEF tcp_connect
  <1>2. sent = 0 /\ received = <<>> /\ toPeer = {} /\ peer.state = "LISTEN"
    BY <1>0, <1>1 DEF Stages
  <1>q. q \in Seqs /\ q = At(1) /\ Start = At(0)
    <2>1. Start + 1 \in Int
      BY Constants
    <2>2. QED BY <2>1, SeqsType, StartAt
  <1>3. sock' = [Opened EXCEPT !.seq = q]
    BY OpenedType, ConsumingSend, FlagSets DEF tcp_connect
  <1> HIDE DEF q
  <1>4. sock' \in SockType /\ sock'.state = "SYN_SENT" /\ sock'.seq = q /\ sock'.tx = NoData
    BY <1>3, <1>q, OpenedType, SeqType
  <1>5. g0 \in Segments /\ g0.data = 0 /\ g0.flags = {"SYN"} /\ g0.seq = Start
    BY OpenedType, SegmentType, FlagSets
  <1>6. toPeer' \subseteq {g0}
    BY <1>2, SentToServer DEF tcp_connect
  <1> HIDE DEF g0
  <1>7. binds' \in Seq(Entries) /\ Len(binds') <= MaxBinds /\ crashed' \in BOOLEAN
    BY <1>0, <1>1, BindSteps
  <1>8. Types'
    BY <1>0, <1>1, <1>4, <1>5, <1>6, <1>7 DEF Types
  <1>9. Stages'
    BY <1>1, <1>2, <1>4, NoDataType, Constants DEF Stages
  <1>10. FromPeer'
    BY <1>0, <1>1, <1>4, ClosedState, KeepFromPeer
  <1>11. FromSocket'
    <2>1. PICK r \in 0 .. CTL, f \in 0 .. NoFin, p \in 0 .. Window : Wire(r, f, p)
      BY <1>0 DEF FromSocket
    <2>2. p = 0 /\ peer.got = <<>> /\ ~peer.fin /\ peer.next = 0 /\ toHost = {}
      <3>1. p = 0 /\ peer.got = <<>> /\ ~peer.fin /\ peer.next = 0
        BY <1>2, <2>1 DEF Wire, PeerWire
      <3>2. \A g \in toHost : \E a \in 1 .. 0 : g.ack = At(a)
        BY <2>1, <3>1 DEF Wire, PeerWire
      <3>3. QED BY <3>1, <3>2
    <2>3. 0 \in 0 .. CTL /\ NoFin \in 0 .. NoFin /\ 0 \in 0 .. Window /\ ~(NoFin <= 0) /\ NoFin \in Nat
      BY Constants, WindowFits
    <2>4. Front(0, 0, NoFin <= 0) = 1
      BY <2>3, Products DEF Front, One
    <2>5. SockWire(0, NoFin)'
      BY <1>1, <1>2, <1>4, <1>q, <2>3, <2>4, NoDataType DEF SockWire
    <2>6. (\A g \in toPeer : SegWire(0, NoFin, g))'
      <3>1. 0 \in 0 .. 0
        OBVIOUS
      <3>2. SegWire(0, NoFin, g0)'
        BY <1>5, <1>q, <3>1 DEF SegWire
      <3>3. QED BY <1>6, <3>2
    <2>7. PeerWire(0, NoFin, 0)'
      <3>1. Len(peer.got) = 0 /\ DOMAIN peer.got = {} /\ (0 <= NoFin)
        BY <2>2, <2>3
      <3>2. QED BY <1>1, <1>2, <2>2, <3>1 DEF PeerWire, Counted
    <2>8. Acked'
      BY <1>1 DEF Acked
    <2>9. QED BY <2>3, <2>5, <2>6, <2>7, <2>8 DEF FromSocket, Wire
  <1>12. QED BY <1>8, <1>9, <1>10, <1>11 DEF IInv

(* Sending a piece: it becomes the one that is tracked.                    *)
LEMMA DataSend ==
    ASSUME NEW r \in SockType, NEW d \in 1 .. MaxSend
    PROVE  /\ AfterSend(r, {"ACK"}, d) \in SockType /\ AfterSend(r, {"ACK"}, d).state = r.state
           /\ AfterSend(r, {"ACK"}, d).ack = r.ack /\ AfterSend(r, {"ACK"}, d).seq = Wrap(r.seq + LEN)
           /\ AfterSend(r, {"ACK"}, d).tx = [data |-> d, seq |-> r.seq, retries |-> 0]
  <1> DEFINE t == [data |-> d, seq |-> r.seq, retries |-> 0]
             n == [r EXCEPT !.tx = t]
             q == Wrap(r.seq + LEN)
  <1>1. r.seq \in Seqs /\ r.seq \in Int /\ LEN \in Int /\ CTL \in Nat /\ d # 0
    BY SeqsType, Constants DEF SockType
  <1>2. t \in TxType
    BY <1>1 DEF TxType
  <1>3. q \in Seqs
    BY <1>1, SeqsType
  <1>4. tcp_tx_track_unacked(r, d) = n
    BY <1>1 DEF tcp_tx_track_unacked
  <1> HIDE DEF t
  <1>5. n \in SockType /\ n.state = r.state /\ n.seq = r.seq /\ n.ack = r.ack /\ n.tx = t
    BY <1>2, TxSet
  <1>6. AfterSend(r, {"ACK"}, d) = [n EXCEPT !.seq = Wrap(n.seq + LEN + 0)]
    BY <1>1, <1>4, FlagSets, PayloadType DEF AfterSend
  <1> HIDE DEF n
  <1>7. n.seq + LEN + 0 = r.seq + LEN
    BY <1>1, <1>5
  <1>8. AfterSend(r, {"ACK"}, d) = [n EXCEPT !.seq = q]
    BY <1>6, <1>7
  <1> HIDE DEF q
  <1>9. [n EXCEPT !.seq = q] \in SockType /\ [n EXCEPT !.seq = q].state = r.state /\ [n EXCEPT !.seq = q].seq = q
        /\ [n EXCEPT !.seq = q].ack = r.ack /\ [n EXCEPT !.seq = q].tx = t
    BY <1>3, <1>5, SeqType
  <1>10. QED BY <1>8, <1>9 DEF q, t

LEMMA SendStep == ASSUME IInv, tcp_socket_send PROVE IInv'
  <1>0. Types /\ Stages /\ FromPeer /\ FromSocket
    BY DEF IInv
  <1>d. PICK d : d = sent + 1
    OBVIOUS
  <1>g. PICK g0 : g0 = Segment(sock, {"ACK"}, d)
    OBVIOUS
  <1>1. /\ app = "open" /\ sent < MaxSend /\ sent' = d /\ sock' = AfterSend(sock, {"ACK"}, d)
        /\ UNCHANGED <<binds, app, arp, crashed, toHost, peer, received>>
    BY <1>d DEF tcp_socket_send
  <1>2. sock \in SockType /\ d \in 1 .. MaxSend /\ d \in Nat /\ sent \in 0 .. MaxSend /\ sent \in Nat /\ MaxSend \in Nat
    BY <1>0, <1>1, <1>d, Constants DEF Types
  <1>3. toPeer' \subseteq toPeer \cup {g0}
    BY <1>d, <1>g, SentToServer DEF tcp_socket_send
  <1>4. /\ sock' \in SockType /\ sock'.state = sock.state /\ sock'.ack = sock.ack /\ sock'.seq = Wrap(sock.seq + LEN)
        /\ sock'.tx = [data |-> d, seq |-> sock.seq, retries |-> 0]
    BY <1>1, <1>2, DataSend
  <1>t. sock'.tx.data = d /\ sock'.tx.seq = sock.seq
    BY <1>4
  <1>5. g0 \in Segments /\ g0.data = d /\ g0.flags = {"ACK"} /\ g0.seq = sock.seq
    BY <1>2, <1>g, SegmentType, FlagSets
  <1>6. Types'
    BY <1>0, <1>1, <1>2, <1>3, <1>4, <1>5 DEF Types
  <1>7. Stages'
    BY <1>0, <1>1, <1>4 DEF Stages
  <1>8. FromPeer'
    BY <1>0, <1>1, <1>4, KeepFromPeer
  <1>9. FromSocket'
    <2>1. PICK r \in 0 .. CTL, f \in 0 .. NoFin, p \in 0 .. Window : Wire(r, f, p)
      BY <1>0 DEF FromSocket
    <2>2. f \in (0 .. sent) \cup {NoFin} /\ sock.seq = At(Front(r, sent, f <= sent)) /\ f \in Nat
      BY <1>1, <2>1, Constants DEF Wire, SockWire
    <2>3. ((f <= d) <=> (f <= sent)) /\ ((d > f) <=> (f <= sent)) /\ f \in (0 .. d) \cup {NoFin}
      BY <1>d, <1>2, <2>2, Constants
    <2>4. Pos(r, f, d) = Front(r, sent, f <= sent)
      <3>1. d - 1 = sent
        BY <1>d, <1>2
      <3>2. QED BY <2>3, <3>1 DEF Pos, Front, One
    <2>5. Front(r, d, f <= d) = Front(r, sent, f <= sent) + LEN
      <3>1. LEN * d = LEN * sent + LEN /\ LEN * sent \in Nat /\ LEN \in Nat /\ r \in Nat
        BY <1>d, <1>2, Products, Constants
      <3>2. QED BY <2>3, <3>1 DEF Front, One
    <2> DEFINE x == Front(r, sent, f <= sent)
    <2>6. x \in Nat /\ LEN \in Nat
      <3>1. (f <= sent) \in BOOLEAN
        OBVIOUS
      <3>2. QED BY <1>2, <3>1, FrontType, Constants
    <2>7. Wrap(At(x) + LEN) = At(x + LEN)
      <3> HIDE DEF x
      <3>1. QED BY <2>6, AtPlus
    <2>8. SockWire(r, f)'
      <3>1. sock'.seq = At(Front(r, d, f <= d))
        BY <1>4, <2>2, <2>5, <2>7
      <3>2. sock'.tx.seq = At(Pos(r, f, d))
        BY <1>t, <2>2, <2>4
      <3>3. sock'.state # "SYN_SENT" /\ (sock'.state = "ESTABLISHED" => f = NoFin)
        BY <1>0, <1>1, <1>4, <2>1 DEF Stages, Wire, SockWire
      <3>4. QED BY <1>1, <1>t, <2>3, <3>1, <3>2, <3>3 DEF SockWire
    <2>9. SegWire(r, f, g0)'
      BY <1>1, <1>2, <1>5, <2>2, <2>4, FlagSets DEF SegWire
    <2>10. (\A g \in toPeer : SegWire(r, f, g))'
      <3>1. sent' \in Nat /\ sent' >= sent /\ \A g \in toPeer : SegWire(r, f, g)
        BY <1>1, <1>2, <1>d, <2>1 DEF Wire
      <3> DEFINE S == {g0}
      <3>2. toPeer' \subseteq toPeer \cup S /\ (\A g \in S : SegWire(r, f, g)') /\ f \in 0 .. NoFin
        BY <1>3, <2>9
      <3> HIDE DEF S
      <3>3. QED BY <1>0, <3>1, <3>2, SegsKept
    <2>11. PeerWire(r, f, p)'
      <3>1. sent' \in Nat /\ sent' >= sent /\ PeerWire(r, f, p)
        BY <1>1, <1>2, <1>d, <2>1 DEF Wire
      <3>2. QED BY <1>0, <1>1, <3>1, HostKeepsPeer
    <2>12. Acked'
      BY <1>2, <1>t DEF Acked
    <2>13. QED BY <2>8, <2>10, <2>11, <2>12 DEF FromSocket, Wire
  <1>10. QED BY <1>6, <1>7, <1>8, <1>9 DEF IInv

(* Disconnecting an open connection: the FIN comes behind all that was     *)
(* sent.                                                                   *)
LEMMA FinBehind ==
    ASSUME Types, NEW r \in 0 .. CTL, NEW p, UNCHANGED <<peer, toHost, sent>>, NEW f, f = sent,
           \A g \in toPeer : SegWire(r, NoFin, g), PeerWire(r, NoFin, p),
           NEW S, toPeer' \subseteq toPeer \cup S,
           \A g \in S : /\ g.data = 0 /\ "SYN" \notin g.flags
                        /\ "FIN" \in g.flags => g.seq = At(Front(r, f, FALSE))
    PROVE  /\ (\A g \in toPeer : SegWire(r, f, g))'
           /\ PeerWire(r, f, p)'
  <1>1. sent \in Nat /\ sent' = f /\ f \in Nat /\ sent <= MaxSend /\ NoFin = MaxSend + 1 /\ MaxSend \in Nat /\ Len(peer.got) \in Nat
    BY Constants DEF Types, PeerType
  <1>2. \A d \in 1 .. sent : Pos(r, f, d) = Pos(r, NoFin, d)
    <2> SUFFICES ASSUME NEW d \in 1 .. sent PROVE Pos(r, f, d) = Pos(r, NoFin, d)
      OBVIOUS
    <2>1. ~(d > f) /\ ~(d > NoFin)
      BY <1>1
    <2>2. QED BY <2>1 DEF Pos, Front, One
  <1>3. ~(NoFin <= sent)
    BY <1>1
  <1>4. ASSUME NEW g \in toPeer PROVE SegWire(r, f, g)'
    <2>1. SegWire(r, NoFin, g)
      BY <1>4
    <2>2. QED BY <1>1, <1>2, <1>3, <2>1 DEF SegWire
  <1>5. ASSUME NEW g \in S PROVE SegWire(r, f, g)'
    <2>1. g.data = 0 /\ "SYN" \notin g.flags /\ ("FIN" \in g.flags => g.seq = At(Front(r, f, FALSE)))
      BY <1>5
    <2>2. f <= sent'
      BY <1>1
    <2>3. QED BY <2>1, <2>2 DEF SegWire
  <1>6. PeerWire(r, f, p)'
    <2>1. ~peer.fin /\ Len(peer.got) <= sent
      BY <1>1 DEF PeerWire, Types, PeerType
    <2>2. QED BY <2>1 DEF PeerWire, Counted
  <1>7. QED BY <1>4, <1>5, <1>6

LEMMA FinPos == ASSUME NEW r, NEW d \in Nat, NEW f \in Nat, NEW k \in Nat, d <= f, d <= k
                PROVE  Pos(r, f, d) = Pos(r, k, d)
  <1>1. ~(d > f) /\ ~(d > k)
    OBVIOUS
  <1>2. QED BY <1>1 DEF Pos, Front, One

LEMMA DisconnectStep == ASSUME IInv, disconnect_init PROVE IInv'
  <1>0. Types /\ Stages /\ FromPeer /\ FromSocket
    BY DEF IInv
  <1>1. app = "open" /\ app' = "closing" /\ UNCHANGED <<binds, arp, crashed, toHost, peer, sent, received>>
    BY DEF disconnect_init
  <1>2. CASE sock.state # "ESTABLISHED"
    <2>1. UNCHANGED <<sock, toPeer>>
      BY <1>2 DEF disconnect_init
    <2>2. Types'
      BY <1>0, <1>1, <2>1 DEF Types
    <2>3. Stages'
      BY <1>0, <1>1, <1>2, <2>1 DEF Stages
    <2>4. FromPeer'
      BY <1>0, <1>1, <2>1, KeepFromPeer
    <2>5. Acked'
      BY <1>0, <1>1, <2>1 DEF FromSocket, Wire, Acked
    <2>6. FromSocket'
      BY <1>0, <1>1, <2>1, <2>5, KeepFromSocket
    <2>7. QED BY <2>2, <2>3, <2>4, <2>6 DEF IInv
  <1>3. CASE sock.state = "ESTABLISHED"
    <2> DEFINE m == [sock EXCEPT !.state = "FIN_WAIT1"]
               q == Wrap(m.seq + 1)
               n == [m EXCEPT !.seq = q]
               x == Wrap(n.seq + 1)
    <2>1. sock \in SockType
      BY <1>0 DEF Types
    <2>2. /\ m \in SockType /\ m.state = "FIN_WAIT1" /\ m.seq = sock.seq /\ m.ack = sock.ack /\ m.tx = sock.tx
      BY <2>1, StateType, ClosedState
    <2>3. sock' = [AfterSend(m, {"FIN", "ACK"}, 0) EXCEPT !.seq = Wrap(@ + 1)]
          /\ toPeer' \in ToServer({Segment(m, {"FIN", "ACK"}, 0)})
      BY <1>3 DEF disconnect_init
    <2>g. PICK g0 : g0 = Segment(m, {"FIN", "ACK"}, 0)
      OBVIOUS
    <2> HIDE DEF m
    <2>4. AfterSend(m, {"FIN", "ACK"}, 0) = n
      BY <2>2, ConsumingSend, FlagSets
    <2>5. q \in Seqs
      <3>1. m.seq + 1 \in Int
        BY <2>2, SeqsType DEF SockType
      <3>2. QED BY <3>1, SeqsType
    <2>6. sock' = [n EXCEPT !.seq = x]
      BY <2>3, <2>4
    <2> HIDE DEF q
    <2>7. n \in SockType /\ n.state = "FIN_WAIT1" /\ n.ack = sock.ack /\ n.tx = sock.tx
      BY <2>2, <2>5, SeqType
    <2> HIDE DEF n
    <2>8. x \in Seqs
      <3>1. n.seq + 1 \in Int
        BY <2>7, SeqsType DEF SockType
      <3>2. QED BY <3>1, SeqsType
    <2> HIDE DEF x
    <2>9. sock' \in SockType /\ sock'.state = "FIN_WAIT1" /\ sock'.ack = sock.ack /\ sock'.tx = sock.tx
      BY <2>6, <2>7, <2>8, SeqType
    <2>10. g0 \in Segments /\ g0.data = 0 /\ g0.flags = {"FIN", "ACK"} /\ g0.seq = sock.seq
      BY <2>2, <2>g, SegmentType, FlagSets
    <2>11. toPeer' \subseteq toPeer \cup {g0}
      BY <2>3, <2>g, SentToServer
    <2>12. Types'
      BY <1>0, <1>1, <2>9, <2>10, <2>11 DEF Types
    <2>13. Stages'
      BY <1>0, <1>1, <2>9 DEF Stages
    <2>14. FromPeer'
      BY <1>0, <1>1, <1>3, <2>9, KeepFromPeer DEF Receiving
    <2>15. FromSocket'
      <3>1. PICK r \in 0 .. CTL, f \in 0 .. NoFin, p \in 0 .. Window : Wire(r, f, p)
        BY <1>0 DEF FromSocket
      <3>2. PICK k : k = sent
        OBVIOUS
      <3>3. sent \in Nat /\ k \in 0 .. sent /\ k \in 0 .. NoFin /\ NoFin \in Nat /\ sent <= NoFin /\ ~(NoFin <= sent)
        BY <1>0, <3>2, Constants DEF Types
      <3>4. f = NoFin /\ sock.seq = At(Front(r, sent, f <= sent))
        BY <1>1, <1>3, <3>1 DEF Wire, SockWire
      <3>5. Front(r, sent, NoFin <= sent) = Front(r, k, FALSE)
        BY <3>2, <3>3 DEF Front, One
      <3> DEFINE S == {g0}
      <3>6. /\ \A g \in S : /\ g.data = 0 /\ "SYN" \notin g.flags
                            /\ "FIN" \in g.flags => g.seq = At(Front(r, k, FALSE))
            /\ toPeer' \subseteq toPeer \cup S
        BY <2>10, <2>11, <3>4, <3>5, FlagSets
      <3> HIDE DEF S
      <3>7. (\A g \in toPeer : SegWire(r, NoFin, g)) /\ PeerWire(r, NoFin, p)
        BY <3>1, <3>4 DEF Wire
      <3>8. (\A g \in toPeer : SegWire(r, k, g))' /\ PeerWire(r, k, p)'
        BY <1>0, <1>1, <3>2, <3>6, <3>7, FinBehind
      <3>9. SockWire(r, k)'
        <4>1. Pos(r, NoFin, sent) = Pos(r, k, sent)
          BY <3>2, <3>3, FinPos
        <4>2. sock.tx.data # 0 => sock.tx.data = sent /\ sock.tx.seq = At(Pos(r, k, sent))
          BY <3>1, <3>4, <4>1 DEF Wire, SockWire
        <4>3. QED BY <1>1, <2>9, <3>3, <4>2 DEF SockWire
      <3>10. Acked'
        BY <1>1, <1>3, <2>9, <3>1 DEF Wire, Acked
      <3>11. QED BY <3>3, <3>8, <3>9, <3>10 DEF FromSocket, Wire
    <2>16. QED BY <2>12, <2>13, <2>14, <2>15 DEF IInv
  <1>4. QED BY <1>2, <1>3

(* The socket is closed by the host: what is on its way stays.             *)
LEMMA ClosedKeepsWire ==
    ASSUME Types, Stages, FromSocket, UNCHANGED <<toPeer, toHost, peer, sent>>,
           sock'.state = "CLOSED", sock'.tx = NoData, sock'.seq = sock.seq,
           app' = app \/ app' = "freed"
    PROVE  FromSocket'
  <1>1. PICK r \in 0 .. CTL, f \in 0 .. NoFin, p \in 0 .. Window : Wire(r, f, p)
    BY DEF FromSocket
  <1>2. SockWire(r, f)'
    BY <1>1, NoDataType DEF Wire, SockWire
  <1>3. (\A g \in toPeer : SegWire(r, f, g))'
    BY <1>1 DEF Wire, SegWire
  <1>4. PeerWire(r, f, p)'
    BY <1>1 DEF Wire, PeerWire, Counted
  <1>5. Acked'
    BY DEF Acked
  <1>6. QED BY <1>2, <1>3, <1>4, <1>5 DEF FromSocket, Wire

LEMMA FreeStep == ASSUME IInv, disconnect_wait PROVE IInv'
  <1>0. Types /\ Stages /\ FromPeer /\ FromSocket /\ sock \in SockType
    BY DEF IInv, Types
  <1>1. /\ app = "closing" /\ sock.state = "CLOSED" /\ binds' = Unbound(SELF) /\ app' = "freed"
        /\ sock' = tcp_tx_clear_unacked(sock)
        /\ UNCHANGED <<arp, crashed, toPeer, toHost, peer, sent, received>>
    BY DEF disconnect_wait, UnbindFreed
  <1>2. sock' \in SockType /\ sock'.state = "CLOSED" /\ sock'.seq = sock.seq /\ sock'.ack = sock.ack /\ sock'.tx = NoData
    BY <1>0, <1>1, Cleared
  <1>3. binds' \in Seq(Entries) /\ Len(binds') <= MaxBinds /\ ~IsBound(SELF)'
    BY <1>0, <1>1, Unbinding
  <1>4. Types'
    BY <1>0, <1>1, <1>2, <1>3 DEF Types
  <1>5. Stages'
    BY <1>1, <1>2, <1>3 DEF Stages
  <1>6. FromPeer'
    BY <1>0, <1>1, <1>2, ClosedState, KeepFromPeer
  <1>7. FromSocket'
    BY <1>0, <1>1, <1>2, ClosedKeepsWire
  <1>8. QED BY <1>4, <1>5, <1>6, <1>7 DEF IInv

LEMMA Counting ==
    ASSUME NEW r \in SockType,
           r.tx.retries < CTL \/ r.tx.retries < TCP_RETRANSMIT_MAX_RETRIES
    PROVE  /\ CountRetry(r) \in SockType /\ CountRetry(r).state = r.state /\ CountRetry(r).seq = r.seq
           /\ CountRetry(r).ack = r.ack /\ CountRetry(r).tx.data = r.tx.data
           /\ CountRetry(r).tx.seq = r.tx.seq /\ CountRetry(r).tx.retries = r.tx.retries + 1
  <1> DEFINE t == [data |-> r.tx.data, seq |-> r.tx.seq, retries |-> r.tx.retries + 1]
  <1>1. r.tx \in TxType
    BY DEF SockType
  <1>2. r.tx.retries \in Nat /\ CTL \in Nat /\ TCP_RETRANSMIT_MAX_RETRIES \in Nat
    BY <1>1, Constants DEF TxType
  <1>3. t \in TxType
    <2>1. t.retries <= CTL \/ t.retries <= TCP_RETRANSMIT_MAX_RETRIES
      BY <1>2
    <2>2. t \in [data : 0 .. MaxSend, seq : Seqs, retries : Nat]
      BY <1>1, <1>2 DEF TxType
    <2>3. QED BY <2>1, <2>2 DEF TxType
  <1>4. CountRetry(r) = [r EXCEPT !.tx = t]
    BY DEF CountRetry
  <1>5. t.data = r.tx.data /\ t.seq = r.tx.seq /\ t.retries = r.tx.retries + 1
    OBVIOUS
  <1> HIDE DEF t
  <1>6. QED BY <1>3, <1>4, <1>5, TxSet

LEMMA GiveUpStep ==
    ASSUME IInv, GiveUp, UNCHANGED <<binds, app, arp, crashed, toHost, peer, sent, received>>
    PROVE  IInv'
  <1>0. Types /\ Stages /\ FromPeer /\ FromSocket /\ sock \in SockType
    BY DEF IInv, Types
  <1> DEFINE c == tcp_tx_clear_unacked(sock)
  <1>1. c \in SockType /\ c.seq = sock.seq /\ c.ack = sock.ack /\ c.tx = NoData
    BY <1>0, Cleared
  <1>2. sock' = [c EXCEPT !.state = "CLOSED"] /\ toPeer' = toPeer
    BY DEF GiveUp
  <1> HIDE DEF c
  <1>3. sock' \in SockType /\ sock'.state = "CLOSED" /\ sock'.seq = sock.seq /\ sock'.tx = NoData
    BY <1>1, <1>2, StateType, ClosedState
  <1>4. Types'
    BY <1>0, <1>2, <1>3 DEF Types
  <1>5. Stages'
    BY <1>0, <1>2, <1>3 DEF Stages, IsBound
  <1>6. FromPeer'
    BY <1>0, <1>3, ClosedState, KeepFromPeer
  <1>7. FromSocket'
    BY <1>0, <1>2, <1>3, ClosedKeepsWire
  <1>8. QED BY <1>4, <1>5, <1>6, <1>7 DEF IInv

(* A repeated SYN moves the start of the data by one.                      *)
LEMMA SynAgainStep ==
    ASSUME IInv, sock.state = "SYN_SENT", sock.tx.retries < TCP_CTL_MAX_RETRIES,
           sock' = AfterSend(CountRetry(sock), {"SYN"}, 0),
           toPeer' \in ToServer({Segment(sock, {"SYN"}, 0)}),
           UNCHANGED <<binds, app, arp, crashed, toHost, peer, sent, received>>
    PROVE  IInv'
  <1>0. Types /\ Stages /\ FromPeer /\ FromSocket /\ sock \in SockType
    BY DEF IInv, Types
  <1> DEFINE n == CountRetry(sock)
             q == Wrap(sock.seq + 1)
  <1>1. /\ n \in SockType /\ n.state = sock.state /\ n.seq = sock.seq /\ n.ack = sock.ack
        /\ n.tx.data = sock.tx.data /\ n.tx.retries = sock.tx.retries + 1
    BY <1>0, Counting, Constants
  <1>g. PICK g0 : g0 = Segment(sock, {"SYN"}, 0)
    OBVIOUS
  <1>2. sock' = AfterSend(n, {"SYN"}, 0)
    OBVIOUS
  <1> HIDE DEF n
  <1>3. sock' = [n EXCEPT !.seq = q]
    BY <1>1, <1>2, ConsumingSend, FlagSets
  <1>4. q \in Seqs
    <2>1. sock.seq + 1 \in Int
      BY <1>0, SeqsType DEF SockType
    <2>2. QED BY <2>1, SeqsType
  <1>5. /\ sock' \in SockType /\ sock'.state = "SYN_SENT" /\ sock'.seq = q
        /\ sock'.tx.data = sock.tx.data /\ sock'.tx.retries = sock.tx.retries + 1
    <2> HIDE DEF q
    <2> DEFINE y == [n EXCEPT !.seq = q]
    <2>1. y \in SockType /\ y.state = n.state /\ y.seq = q /\ y.tx = n.tx
      BY <1>1, <1>4, SeqType
    <2>2. sock' = y
      BY <1>3
    <2> HIDE DEF y
    <2>3. QED BY ONLY <1>1, <2>1, <2>2, sock.state = "SYN_SENT"
  <1>6. g0 \in Segments /\ g0.data = 0 /\ g0.flags = {"SYN"} /\ g0.seq = sock.seq
    BY <1>0, <1>g, SegmentType, FlagSets
  <1>7. toPeer' \subseteq toPeer \cup {g0}
    BY <1>g, SentToServer
  <1>8. /\ app = "connecting" /\ sock.tx.data = 0 /\ sent = 0 /\ received = <<>>
    BY <1>0 DEF Stages
  <1>9. Types'
    BY <1>0, <1>5, <1>6, <1>7 DEF Types
  <1>10. sock.tx.retries \in Nat /\ sock.tx.retries + 1 <= CTL /\ CTL \in Nat
    BY <1>0, Constants DEF SockType, TxType
  <1>11. Stages'
    BY <1>0, <1>5, <1>8, <1>10 DEF Stages
  <1>12. FromPeer'
    BY <1>0, <1>5, ClosedState, KeepFromPeer
  <1>13. FromSocket'
    <2>1. PICK r \in 0 .. CTL, f \in 0 .. NoFin, p \in 0 .. Window : Wire(r, f, p)
      BY <1>0 DEF FromSocket
    <2>2. PICK k : k = r + 1
      OBVIOUS
    <2>3. r = sock.tx.retries /\ f = NoFin /\ sock.seq = At(Front(r, sent, f <= sent))
      BY <1>8, <2>1 DEF Wire, SockWire
    <2>4. k \in 0 .. CTL /\ r \in Nat /\ k \in Nat /\ NoFin \in Nat /\ ~(NoFin <= 0) /\ NoFin \in 0 .. NoFin
      BY <1>10, <2>2, <2>3, Constants
    <2>5. Front(r, sent, f <= sent) = k
      <3>1. LEN * sent = 0
        BY <1>8, Products
      <3>2. QED BY ONLY <1>8, <2>2, <2>3, <2>4, <3>1 DEF Front, One
    <2>6. Front(k, sent, NoFin <= sent) = k + 1
      <3>1. LEN * sent = 0
        BY <1>8, Products
      <3>2. QED BY ONLY <1>8, <2>4, <3>1 DEF Front, One
    <2>7. sock'.seq = At(k + 1)
      BY <1>5, <2>3, <2>4, <2>5, AtPlus
    <2>8. SockWire(k, NoFin)'
      BY <1>5, <1>8, <2>2, <2>3, <2>4, <2>6, <2>7 DEF SockWire
    <2>9. ASSUME NEW g \in toPeer PROVE SegWire(k, NoFin, g)'
      <3>1. SegWire(r, NoFin, g) /\ 1 .. 0 = {}
        BY <2>1, <2>3, <2>9 DEF Wire
      <3>2. 0 .. r \subseteq 0 .. k
        BY <2>2, <2>4
      <3>3. QED BY <1>8, <2>4, <3>1, <3>2 DEF SegWire
    <2>10. SegWire(k, NoFin, g0)'
      <3>1. k \in 0 .. k /\ g0.seq = At(k)
        BY <1>6, <2>3, <2>4, <2>5
      <3>2. QED BY <1>6, <3>1, FlagSets DEF SegWire
    <2>11. (\A g \in toPeer : SegWire(k, NoFin, g))'
      BY <1>7, <2>9, <2>10
    <2>12. PeerWire(k, NoFin, p)'
      <3>1. PeerWire(r, NoFin, p) /\ peer.got \in Seq(Nat) /\ peer.fin \in BOOLEAN
        BY <1>0, <2>1, <2>3 DEF Wire, Types, PeerType
      <3>2. Len(peer.got) = 0 /\ ~peer.fin
        BY <1>8, <2>4, <3>1 DEF PeerWire
      <3>3. peer.got = <<>>
        BY <3>1, <3>2, EmptySeq
      <3>4. Front(r, Len(peer.got), peer.fin) = r + 1
        BY <2>4, <3>2, Products DEF Front, One
      <3>5. peer.state # "LISTEN" => p > 0 /\ peer.rcv = At(p) /\ p <= k + 1
        BY <2>2, <2>4, <3>1, <3>4 DEF PeerWire
      <3>6. QED BY <3>1, <3>2, <3>3, <3>5 DEF PeerWire, Counted
    <2>13. Acked'
      BY <1>8 DEF Acked
    <2>14. QED BY <2>4, <2>8, <2>11, <2>12, <2>13 DEF FromSocket, Wire
  <1>14. QED BY <1>9, <1>11, <1>12, <1>13 DEF IInv

LEMMA DataAgainStep ==
    ASSUME IInv, sock.state \notin {"SYN_SENT", "CLOSED"}, sock.tx.data # 0,
           sock.tx.retries < TCP_RETRANSMIT_MAX_RETRIES,
           sock' = CountRetry(sock),
           toPeer' \in ToServer({[Segment(sock, {"ACK"}, sock.tx.data) EXCEPT !.seq = sock.tx.seq]}),
           UNCHANGED <<binds, app, arp, crashed, toHost, peer, sent, received>>
    PROVE  IInv'
  <1>0. Types /\ Stages /\ FromPeer /\ FromSocket /\ sock \in SockType
    BY DEF IInv, Types
  <1>1. /\ sock' \in SockType /\ sock'.state = sock.state /\ sock'.seq = sock.seq /\ sock'.ack = sock.ack
        /\ sock'.tx.data = sock.tx.data /\ sock'.tx.seq = sock.tx.seq
    BY <1>0, Counting
  <1>2. sock.tx \in TxType
    BY <1>0 DEF SockType
  <1>3. sock.tx.data \in Nat /\ sock.tx.seq \in Seqs
    BY <1>2 DEF TxType
  <1>g. PICK g0 : g0 = [Segment(sock, {"ACK"}, sock.tx.data) EXCEPT !.seq = sock.tx.seq]
    OBVIOUS
  <1>4. g0 \in Segments /\ g0.data = sock.tx.data /\ g0.flags = {"ACK"} /\ g0.seq = sock.tx.seq
    <2> DEFINE y == Segment(sock, {"ACK"}, sock.tx.data)
    <2>1. y \in Segments /\ y.data = sock.tx.data /\ y.flags = {"ACK"}
      BY <1>0, <1>3, SegmentType, FlagSets
    <2> HIDE DEF y
    <2>2. g0 = [y EXCEPT !.seq = sock.tx.seq]
      BY <1>g DEF y
    <2>3. QED BY ONLY <1>3, <2>1, <2>2 DEF Segments, Seqs
  <1>5. toPeer' \subseteq toPeer \cup {g0}
    BY <1>g, SentToServer
  <1>6. Types'
    BY <1>0, <1>1, <1>4, <1>5 DEF Types
  <1>7. Stages'
    BY <1>0, <1>1 DEF Stages, IsBound
  <1>8. FromPeer'
    BY <1>0, <1>1, KeepFromPeer
  <1>9. FromSocket'
    <2>1. PICK r \in 0 .. CTL, f \in 0 .. NoFin, p \in 0 .. Window : Wire(r, f, p)
      BY <1>0 DEF FromSocket
    <2>2. SockWire(r, f)'
      BY <1>1, <2>1 DEF Wire, SockWire
    <2>3. sent \in Nat /\ sock.tx.data = sent /\ sock.tx.seq = At(Pos(r, f, sent))
      BY <1>0, <2>1 DEF Wire, SockWire, Types
    <2>4. SegWire(r, f, g0)'
      <3>1. sent \in 1 .. sent
        BY <2>3
      <3>2. QED BY <1>4, <2>3, <3>1, FlagSets DEF SegWire
    <2>5. ASSUME NEW g \in toPeer PROVE SegWire(r, f, g)'
      BY <2>1, <2>5 DEF Wire, SegWire
    <2>6. (\A g \in toPeer : SegWire(r, f, g))'
      BY <1>5, <2>4, <2>5
    <2>7. PeerWire(r, f, p)'
      BY <2>1 DEF Wire, PeerWire, Counted
    <2>8. Acked'
      BY <1>1 DEF Acked
    <2>9. QED BY <2>2, <2>6, <2>7, <2>8 DEF FromSocket, Wire
  <1>10. QED BY <1>6, <1>7, <1>8, <1>9 DEF IInv

LEMMA PollStep == ASSUME IInv, tcp_poll PROVE IInv'
  <1>1. UNCHANGED <<binds, app, arp, crashed, toHost, peer, sent, received>> /\ (poll_syn \/ poll_data)
    BY DEF tcp_poll
  <1>2. CASE GiveUp
    BY <1>1, <1>2, GiveUpStep
  <1>3. CASE poll_syn /\ ~GiveUp
    BY <1>1, <1>3, SynAgainStep DEF poll_syn
  <1>4. CASE poll_data /\ ~GiveUp
    BY <1>1, <1>4, DataAgainStep DEF poll_data
  <1>5. QED BY <1>1, <1>2, <1>3, <1>4
-----------------------------------------------------------------------------
(* An acknowledgement that clears the buffer covers all that was sent: it  *)
(* names a position the server had reached.                                *)
LEMMA AckedAll ==
    ASSUME Types, NEW r \in 0 .. CTL, NEW f \in 0 .. NoFin, NEW p \in 0 .. Window, Wire(r, f, p),
           NEW g \in toHost, sock.tx.data # 0, AcksAll(sock, g.ack)
    PROVE  Len(peer.got) = sent
  <1>1. /\ sent \in Nat /\ sent <= MaxSend /\ Len(peer.got) \in Nat /\ Len(peer.got) <= sent /\ peer.fin \in BOOLEAN
        /\ MaxSend \in Nat /\ CTL \in Nat /\ r \in Nat /\ f \in Nat /\ p \in Nat /\ LEN \in Nat \ {0}
    BY Constants, WindowFits DEF Types, PeerType, Wire, PeerWire
  <1>2. sock.tx.data = sent /\ sock.tx.seq = At(Pos(r, f, sent)) /\ sent # 0
    BY DEF Wire, SockWire
  <1>3. PICK a \in 1 .. p : g.ack = At(a)
    BY DEF Wire, PeerWire
  <1>4. PICK m \in Nat : sent = m + 1
    <2>1. sent - 1 \in Nat /\ sent = (sent - 1) + 1
      BY <1>1, <1>2
    <2>2. QED BY <2>1
  <1>5. PICK b \in BOOLEAN : b <=> (sent > f)
    <2>1. CASE sent > f
      BY <2>1
    <2>2. CASE ~(sent > f)
      BY <2>2
    <2>3. QED BY <2>1, <2>2
  <1> DEFINE q == Front(r, m, b)
  <1>6. Pos(r, f, sent) = q
    <2>1. sent - 1 = m
      BY <1>4
    <2>2. One(sent > f) = One(b)
      BY <1>5 DEF One
    <2>3. QED BY <2>1, <2>2 DEF Pos, Front
  <1>7. q \in Nat /\ Front(r, sent, b) = q + LEN /\ q + LEN \in 0 .. Window
    <2>1. m \in 0 .. MaxSend /\ sent \in 0 .. MaxSend
      BY <1>1, <1>4
    <2>2. Front(r, m, b) \in Nat /\ Front(r, sent, b) \in 1 .. Window - 2
      BY <2>1, FrontType
    <2>3. LEN * sent = LEN * m + LEN /\ LEN * m \in Nat
      BY <1>4, Products
    <2>4. Front(r, sent, b) = Front(r, m, b) + LEN
      BY <1>1, <2>3 DEF Front, One
    <2>5. QED BY <1>1, <2>2, <2>4, WindowFits
  <1> HIDE DEF q
  <1>8. a >= q + LEN
    <2>1. tcp_seq_after_eq(At(a), Wrap(At(q) + LEN))
      BY <1>2, <1>3, <1>6 DEF AcksAll
    <2>2. tcp_seq_after_eq(At(a), At(q + LEN))
      BY <1>1, <1>7, <2>1, AtPlus
    <2>3. a \in 0 .. Window
      BY <1>1, <1>3, WindowFits
    <2> DEFINE k == q + LEN
    <2>4. k \in 0 .. Window /\ tcp_seq_after_eq(At(a), At(k))
      BY <1>7, <2>2
    <2> HIDE DEF k
    <2>5. a >= k
      BY <2>3, <2>4, AfterIsLater
    <2>6. QED BY <2>5 DEF k
  <1>9. p >= Front(r, sent, b)
    BY <1>1, <1>3, <1>7, <1>8
  <1> DEFINE n == Len(peer.got)
  <1>10. /\ LEN * sent \in Nat /\ LEN * n \in Nat
         /\ n < sent => LEN * n + LEN <= LEN * sent
    BY <1>1, Products
  <1>11. Front(r, sent, b) = r + 1 + LEN * sent + One(b) /\ One(b) \in 0 .. 1
    BY <1>5 DEF Front, One
  <1>12. \/ p <= r + 1
         \/ p = Front(r, n, peer.fin)
    <2>1. p > 0
      BY <1>1, <1>3
    <2>2. QED BY <2>1 DEF Wire, PeerWire
  <1>13. CASE p <= r + 1
    <2>1. LEN * sent >= 1
      <3>1. LEN * 0 = 0 /\ (0 < sent => LEN * 0 + LEN <= LEN * sent) /\ 0 < sent
        BY <1>1, <1>2, Products
      <3>2. QED BY <1>1, <1>10, <3>1
    <2>2. QED BY <1>1, <1>9, <1>10, <1>11, <1>13, <2>1
  <1>14. CASE p = Front(r, n, peer.fin)
    <2>1. p = r + 1 + LEN * n + One(peer.fin) /\ One(peer.fin) \in 0 .. 1
      BY <1>14 DEF Front, One
    <2>2. LEN * n + One(peer.fin) >= LEN * sent + One(b)
      <3> DEFINE u == LEN * n
                 v == LEN * sent
                 x == One(peer.fin)
                 y == One(b)
      <3>a. p = r + 1 + u + x
        BY <2>1
      <3>b. p >= r + 1 + v + y
        BY <1>9, <1>11
      <3>c. u \in Nat /\ v \in Nat
        BY <1>10
      <3>d. x \in Nat /\ y \in Nat /\ r \in Nat
        BY <1>1, <1>11, <2>1
      <3>1. u \in Nat /\ v \in Nat /\ x \in Nat /\ y \in Nat /\ r \in Nat /\ p = r + 1 + u + x /\ p >= r + 1 + v + y
        BY <3>a, <3>b, <3>c, <3>d
      <3> HIDE DEF u, v, x, y
      <3>2. u + x >= v + y
        BY ONLY <3>1
      <3>3. QED BY <3>2 DEF u, v, x, y
    <2>3. SUFFICES ASSUME n < sent PROVE FALSE
      BY <1>1
    <2>4. LEN = 1 /\ One(peer.fin) = 1 /\ One(b) = 0
      BY <1>1, <1>10, <1>11, <2>1, <2>2, <2>3
    <2>5. peer.fin /\ ~b
      BY <2>4 DEF One
    <2>6. f <= n
      BY <2>5 DEF Wire, PeerWire
    <2>7. QED BY <1>1, <1>5, <2>3, <2>5, <2>6
  <1>15. QED BY <1>12, <1>13, <1>14

LEMMA CountedAppend ==
    ASSUME NEW q \in Seq(Nat), Counted(q), NEW d \in Nat, d = Len(q) + 1
    PROVE  Counted(Append(q, d)) /\ Append(q, d) \in Seq(Nat) /\ Len(Append(q, d)) = d
  <1>1. Len(q) \in Nat /\ DOMAIN q = 1 .. Len(q)
    OBVIOUS
  <1>2. Append(q, d) \in Seq(Nat) /\ Len(Append(q, d)) = d /\ Append(q, d)[d] = d
        /\ \A i \in 1 .. Len(q) : Append(q, d)[i] = q[i]
    BY <1>1
  <1>3. DOMAIN Append(q, d) = 1 .. d
    BY <1>2
  <1>4. QED BY <1>1, <1>2, <1>3 DEF Counted

(* A segment of the server reaches the socket.                             *)
LEMMA ReceiveStep ==
    ASSUME IInv, NEW g \in toHost, tcp_ipv4_recv(g),
           ~(Handled(g).data # 0 /\ app = "connecting")
    PROVE  IInv'
  <1>0. Types /\ Stages /\ FromPeer /\ FromSocket /\ sock \in SockType /\ g \in Segments
    BY DEF IInv, Types
  <1>a. PICK k : k = HandleAck(sock, g)
    OBVIOUS
  <1>b. PICK h : h = Handled(g)
    OBVIOUS
  <1>1. /\ k \in SockType /\ k.state = sock.state /\ k.seq = sock.seq /\ k.ack = sock.ack
        /\ \/ k.tx = sock.tx
           \/ k.tx = NoData /\ sock.tx.data # 0 /\ AcksAll(sock, g.ack)
    BY <1>0, <1>a, AckEffect
  <1>2. Effect(k, g, h)
    BY <1>0, <1>a, <1>b, Handler
  <1>3. /\ IsBound(SELF)
        /\ sock' = IF h.sock.state = "CLOSED" THEN tcp_tx_clear_unacked(h.sock) ELSE h.sock
        /\ binds' = IF h.sock.state = "CLOSED" THEN Unbound(SELF) ELSE binds
        /\ toPeer' \in ToServer(h.out)
        /\ received' = IF h.data = 0 THEN received ELSE Append(received, h.data)
        /\ UNCHANGED <<crashed, app, arp, toHost, peer, sent>>
    BY <1>b DEF tcp_ipv4_recv
  <1>4. /\ h.sock \in SockType /\ h.sock.tx = k.tx /\ h.data \in Nat
        /\ \A o \in h.out : o \in Segments /\ o.data = 0 /\ "SYN" \notin o.flags
        /\ h.data # 0 => /\ h.data = g.data /\ g.seq = k.ack /\ k.state \in Receiving \cup {"SYN_SENT"}
                         /\ h.sock.ack = Wrap(k.ack + LEN)
        /\ h.data = 0 /\ h.sock.state \in Receiving =>
              \/ k.state \in Receiving /\ h.sock.ack = k.ack
              \/ k.state = "SYN_SENT" /\ "SYN" \in g.flags /\ h.sock.ack = Wrap(g.seq + 1)
        /\ \/ h.sock.state \in {k.state, "CLOSED"}
           \/ k.state = "SYN_SENT" /\ h.sock.state = "ESTABLISHED"
           \/ k.state = "ESTABLISHED" /\ h.sock.state = "CLOSE_WAIT"
           \/ k.state = "FIN_WAIT1" /\ h.sock.state = "FIN_WAIT2"
    BY <1>2 DEF Effect
  <1>5. /\ sock' \in SockType /\ sock'.state = h.sock.state /\ sock'.seq = h.sock.seq /\ sock'.ack = h.sock.ack
        /\ IF h.sock.state = "CLOSED" THEN sock'.tx = NoData ELSE sock'.tx = k.tx
    BY <1>3, <1>4, Cleared
  <1>6. /\ binds' \in Seq(Entries) /\ Len(binds') <= MaxBinds
    <2>1. CASE binds' = Unbound(SELF)
      BY <1>0, <2>1, Unbinding
    <2>2. QED BY <1>0, <1>3, <2>1 DEF Types
  <1>7. toPeer' \subseteq toPeer \cup h.out
    BY <1>3, SentToServer
  <1>8. Types'
    BY <1>0, <1>3, <1>4, <1>5, <1>6, <1>7 DEF Types
  <1>9. app \in {"connecting", "open", "closing"}
    BY <1>0, <1>3 DEF Types, Stages
  <1>10. h.data # 0 => app # "connecting" /\ sock.state # "SYN_SENT" /\ sock.state \in Receiving
    BY <1>b, <1>0, <1>1, <1>4 DEF Stages
  <1>11. Stages'
    <2>1. (app = "connecting" => sent = 0 /\ received = <<>>)'
      BY <1>0, <1>3, <1>10 DEF Stages
    <2>2. sock'.state = "SYN_SENT" => sock.state = "SYN_SENT" /\ sock'.tx = sock.tx
      BY <1>0, <1>1, <1>4, <1>5 DEF Stages
    <2>3. sock'.state = "SYN_SENT" => app = "connecting" /\ sock'.tx.data = 0 /\ sock'.tx.retries <= CTL
      BY <1>0, <2>2 DEF Stages
    <2>4. /\ sock'.state = "ESTABLISHED" => app \in {"connecting", "open"}
          /\ sock'.state \in {"FIN_WAIT1", "FIN_WAIT2"} => app = "closing"
      BY <1>0, <1>1, <1>4, <1>5 DEF Stages
    <2>5. QED BY <1>3, <1>9, <2>1, <2>3, <2>4 DEF Stages
  <1>12. FromPeer'
    <2>1. /\ Counted(received) /\ received \in Seq(Nat) /\ Len(received) \in Nat /\ Len(received) <= MaxPeer
          /\ Len(received) <= peer.next /\ peer.next \in Nat /\ MaxPeer \in Nat /\ PeerFin = MaxPeer + 1
          /\ g.data # 0 => g.data \in 1 .. MaxPeer /\ g.seq = PeerSeq(g.data) /\ g.data < peer.next
          /\ "SYN" \in g.flags => g.seq = PeerSeq(0)
          /\ sock.state \in Receiving => sock.ack = PeerSeq(Len(received) + 1)
      BY <1>0, Constants DEF FromPeer, Types, PeerType
    <2>2. CASE h.data = 0
      <3>1. received' = received
        BY <1>3, <2>2
      <3>2. sock'.state \in Receiving => sock'.ack = PeerSeq(Len(received) + 1)
        <4>1. CASE k.state \in Receiving /\ h.sock.ack = k.ack
          BY <1>1, <1>5, <2>1, <4>1
        <4>2. CASE k.state = "SYN_SENT" /\ "SYN" \in g.flags /\ h.sock.ack = Wrap(g.seq + 1)
          <5>1. received = <<>> /\ Len(received) + 1 = 1
            BY <1>0, <1>1, <4>2 DEF Stages
          <5>2. QED BY <1>5, <2>1, <4>2, <5>1, PeerSeqFirst
        <4>3. QED BY <1>4, <1>5, <2>2, <4>1, <4>2
      <3>3. QED BY <1>0, <1>3, <3>1, <3>2 DEF FromPeer, Counted
    <2>3. CASE h.data # 0
      <3> DEFINE d == Len(received) + 1
      <3>1. g.data \in 1 .. PeerFin /\ d \in 1 .. PeerFin /\ PeerSeq(g.data) = PeerSeq(d) /\ d \in Nat \ {0}
        BY <1>1, <1>4, <1>10, <2>1, <2>3
      <3>d. d = Len(received) + 1
        OBVIOUS
      <3> HIDE DEF d
      <3>2. g.data = d
        BY <3>1, PeerSeqApart
      <3>3. received' = Append(received, d)
        BY <1>3, <1>4, <2>3, <3>2
      <3>4. Counted(received)' /\ Len(received') = d
        BY <2>1, <3>1, <3>d, <3>3, CountedAppend DEF Counted
      <3>5. sock'.ack = PeerSeq(d + 1)
        BY <1>1, <1>4, <1>5, <1>10, <2>1, <2>3, <3>1, <3>d, PeerSeqNext
      <3>6. d <= MaxPeer /\ d <= peer.next
        BY <1>4, <2>1, <2>3, <3>2
      <3>7. QED BY <1>0, <1>3, <3>4, <3>5, <3>6 DEF FromPeer
    <2>4. QED BY <2>2, <2>3
  <1>13. FromSocket'
    <2>1. PICK r \in 0 .. CTL, f \in 0 .. NoFin, p \in 0 .. Window : Wire(r, f, p)
      BY <1>0 DEF FromSocket
    <2>2. \/ k.tx = sock.tx
          \/ k.tx = NoData /\ Len(peer.got) = sent
      BY <1>0, <1>1, <2>1, AckedAll
    <2>3. Acked'
      <3>1. SUFFICES ASSUME app \in {"open", "closing"}, sock'.state # "CLOSED", sock'.tx.data = 0
                     PROVE  Len(peer.got) = sent
        BY <1>3 DEF Acked
      <3>2. k.state # "CLOSED"
        BY <1>4, <1>5, <3>1
      <3>3. QED BY <1>1, <1>5, <2>1, <2>2, <3>1, <3>2 DEF Wire, Acked
    <2>4. sock'.tx = sock.tx \/ sock'.tx.data = 0
      BY <1>5, <2>2, NoDataType
    <2>5. CASE h.sock.seq = k.seq /\ \A o \in h.out : "FIN" \notin o.flags
      <3>1. SockWire(r, f)'
        <4>1. sock'.state = "SYN_SENT" => sock.state = "SYN_SENT" /\ sock'.tx = sock.tx
          BY <1>0, <1>1, <1>4, <1>5 DEF Stages
        <4>2. sock'.state \in {"SYN_SENT", "ESTABLISHED"} => sock.state \in {"SYN_SENT", "ESTABLISHED"}
          BY <1>1, <1>4, <1>5
        <4>3. sock'.seq = sock.seq
          BY <1>1, <1>5, <2>5
        <4>4. QED BY <1>3, <2>1, <2>4, <4>1, <4>2, <4>3 DEF Wire, SockWire
      <3>2. ASSUME NEW o \in h.out PROVE SegWire(r, f, o)'
        BY <1>4, <2>5, <3>2 DEF SegWire
      <3>3. ASSUME NEW o \in toPeer PROVE SegWire(r, f, o)'
        BY <1>3, <2>1, <3>3 DEF Wire, SegWire
      <3>4. (\A o \in toPeer : SegWire(r, f, o))'
        BY <1>7, <3>2, <3>3
      <3>5. PeerWire(r, f, p)'
        BY <1>3, <2>1 DEF Wire, PeerWire, Counted
      <3>6. QED BY <2>3, <3>1, <3>4, <3>5 DEF FromSocket, Wire
    <2>6. CASE /\ k.state = "ESTABLISHED" /\ h.sock.state = "CLOSE_WAIT" /\ h.data = 0
               /\ h.sock.seq = Wrap(k.seq + 1) /\ \A o \in h.out : o.seq = k.seq
      <3>1. PICK e : e = sent
        OBVIOUS
      <3>2. sent \in Nat /\ e \in 0 .. sent /\ e \in 0 .. NoFin /\ NoFin \in Nat /\ sent <= NoFin /\ ~(NoFin <= sent)
            /\ sent \in 0 .. MaxSend
        BY <1>0, <3>1, Constants DEF Types
      <3>3. f = NoFin /\ sock.seq = At(Front(r, sent, f <= sent))
        BY <1>0, <1>1, <2>1, <2>6 DEF Wire, SockWire, Stages
      <3>4. Front(r, sent, NoFin <= sent) = Front(r, e, FALSE)
        BY <3>1, <3>2 DEF Front, One
      <3>5. \A o \in h.out : /\ o.data = 0 /\ "SYN" \notin o.flags
                             /\ "FIN" \in o.flags => o.seq = At(Front(r, e, FALSE))
        BY <1>1, <1>4, <2>6, <3>3, <3>4
      <3>6. (\A o \in toPeer : SegWire(r, NoFin, o)) /\ PeerWire(r, NoFin, p)
        BY <2>1, <3>3 DEF Wire
      <3>7. (\A o \in toPeer : SegWire(r, e, o))' /\ PeerWire(r, e, p)'
        BY <1>0, <1>3, <1>7, <3>1, <3>5, <3>6, FinBehind
      <3>8. SockWire(r, e)'
        <4>1. Pos(r, NoFin, sent) = Pos(r, e, sent)
          BY <3>1, <3>2, FinPos
        <4>2. sock'.tx.data # 0 => sock'.tx.data = sent /\ sock'.tx.seq = At(Pos(r, e, sent))
          BY <2>1, <2>4, <3>3, <4>1 DEF Wire, SockWire
        <4>3. PICK x : x = Front(r, e, FALSE)
          OBVIOUS
        <4>4. x \in Nat /\ Front(r, sent, e <= sent) = x + 1
          <5>1. x \in Nat
            BY <3>1, <3>2, <4>3, FrontType
          <5>2. LEN * sent \in Nat /\ r \in Nat /\ e <= sent
            BY <3>2, Products, Constants
          <5>3. QED BY <3>1, <4>3, <5>1, <5>2 DEF Front, One
        <4>5. Wrap(At(x) + 1) = At(x + 1)
          BY <4>4, AtPlus
        <4>6. sock'.seq = At(Front(r, sent, e <= sent))
          BY <1>1, <1>5, <2>6, <3>3, <3>4, <4>3, <4>4, <4>5
        <4>7. QED BY <1>3, <1>5, <2>6, <3>2, <4>2, <4>6 DEF SockWire
      <3>9. QED BY <2>3, <3>2, <3>7, <3>8 DEF FromSocket, Wire
    <2>7. QED BY <1>2, <2>5, <2>6 DEF Effect
  <1>14. QED BY <1>8, <1>11, <1>12, <1>13 DEF IInv

LEMMA CrashStep ==
    ASSUME IInv, crashed' = TRUE, UNCHANGED <<sock, binds, app, arp, toPeer, toHost, peer, sent, received>>
    PROVE  IInv'
  <1>0. Types /\ Stages /\ FromPeer /\ FromSocket
    BY DEF IInv
  <1>1. Types'
    BY <1>0 DEF Types
  <1>2. Stages'
    BY <1>0 DEF Stages, IsBound
  <1>3. FromPeer'
    BY <1>0, KeepFromPeer
  <1>4. Acked'
    BY <1>0 DEF FromSocket, Wire, Acked
  <1>5. FromSocket'
    BY <1>0, <1>4, KeepFromSocket
  <1>6. QED BY <1>1, <1>2, <1>3, <1>5 DEF IInv

LEMMA DeliverToHostStep == ASSUME IInv, DeliverToHost PROVE IInv'
  <1>1. PICK g \in toHost : tcp_ipv4_recv(g)
    BY DEF DeliverToHost
  <1>2. CASE Handled(g).data # 0 /\ app = "connecting"
    <2>1. crashed' = TRUE /\ UNCHANGED <<sock, binds, app, arp, toPeer, toHost, peer, sent, received>>
      BY <1>1, <1>2 DEF tcp_ipv4_recv
    <2>2. QED BY <2>1, CrashStep
  <1>3. QED BY <1>1, <1>2, ReceiveStep
-----------------------------------------------------------------------------
(* The server takes the next piece or the FIN, and nothing else.           *)

LEMMA NextPiece ==
    ASSUME NEW r \in Nat, NEW f \in Nat, NEW n \in Nat, NEW d \in Nat \ {0}, NEW fin \in BOOLEAN, NEW p \in Nat,
           \/ p <= r + 1 /\ n = 0 /\ ~fin
           \/ p = Front(r, n, fin),
           IF fin THEN f <= n ELSE n <= f,
           p = Pos(r, f, d)
    PROVE  d = n + 1 /\ p + LEN = Front(r, d, fin) /\ IF fin THEN f <= d ELSE d <= f
  <1>1. PICK m \in Nat : m = d - 1
    <2>1. d - 1 \in Nat
      OBVIOUS
    <2>2. QED BY <2>1
  <1> DEFINE u == LEN * n
             v == LEN * m
             w == LEN * d
  <1>2. /\ u \in Nat /\ v \in Nat /\ LEN \in Nat \ {0} /\ w = v + LEN
        /\ n < m => u + LEN <= v
        /\ m < n => v + LEN <= u
        /\ n = 0 => u = 0
        /\ m = 0 => v = 0
        /\ 0 < m => LEN <= v
    <2>1. d = m + 1
      BY <1>1
    <2>2. LEN * 0 + LEN <= v \/ ~(0 < m)
      BY Products
    <2>3. QED BY <2>1, <2>2, Products, Constants
  <1>3. p = r + 1 + v + One(d > f)
    BY <1>1 DEF Pos, Front
  <1>4. Front(r, n, fin) = r + 1 + u + One(fin) /\ Front(r, d, fin) = r + 1 + w + One(fin)
    BY DEF Front
  <1> HIDE DEF u, v, w
  <1>5. /\ One(fin) = IF fin THEN 1 ELSE 0
        /\ One(d > f) = IF d > f THEN 1 ELSE 0
    BY DEF One
  <1>6. CASE fin
    <2>1. p = r + 1 + u + 1 /\ f <= n
      BY <1>4, <1>5, <1>6
    <2>2. m >= n
      <3>1. ~(m < n)
        BY <1>2, <1>3, <1>5, <2>1
      <3>2. QED BY <3>1
    <2>3. d > f
      BY <1>1, <2>1, <2>2
    <2>4. m = n
      BY <1>2, <1>3, <1>5, <2>1, <2>2, <2>3
    <2>5. QED BY <1>1, <1>2, <1>3, <1>4, <1>5, <1>6, <2>1, <2>3, <2>4
  <1>7. CASE ~fin /\ p = Front(r, n, fin)
    <2>1. p = r + 1 + u /\ n <= f
      BY <1>2, <1>4, <1>5, <1>7
    <2>2. ~(n < m)
      BY <1>2, <1>3, <1>5, <2>1
    <2>3. ~(m < n)
      <3>1. SUFFICES ASSUME m < n PROVE FALSE
        OBVIOUS
      <3>2. ~(d > f)
        BY <1>1, <2>1, <3>1
      <3>3. QED BY <1>2, <1>3, <1>5, <2>1, <3>1, <3>2
    <2>4. m = n
      BY <2>2, <2>3
    <2>5. ~(d > f)
      BY <1>2, <1>3, <1>5, <2>1, <2>4 DEF u, v
    <2>6. QED BY <1>1, <1>2, <1>3, <1>4, <1>5, <1>7, <2>1, <2>4, <2>5
  <1>8. CASE ~fin /\ p <= r + 1 /\ n = 0
    <2>1. v = 0 /\ ~(d > f) /\ m = 0
      BY <1>2, <1>3, <1>5, <1>8
    <2>2. QED BY <1>1, <1>2, <1>3, <1>4, <1>5, <1>8, <2>1
  <1>9. QED BY <1>6, <1>7, <1>8

LEMMA NextFin ==
    ASSUME NEW r \in Nat, NEW f \in Nat, NEW n \in Nat, NEW fin \in BOOLEAN, NEW p \in Nat,
           \/ p <= r + 1 /\ n = 0 /\ ~fin
           \/ p = Front(r, n, fin),
           IF fin THEN f <= n ELSE n <= f,
           p = r + 1 + LEN * f
    PROVE  n = f /\ ~fin
  <1> DEFINE u == LEN * n
             v == LEN * f
  <1>2. /\ u \in Nat /\ v \in Nat /\ LEN \in Nat \ {0}
        /\ n < f => u + LEN <= v
        /\ f < n => v + LEN <= u
        /\ n = 0 => u = 0
        /\ n = f => u = v
    BY Products, Constants
  <1>3. p = r + 1 + v
    OBVIOUS
  <1>4. Front(r, n, fin) = r + 1 + u + IF fin THEN 1 ELSE 0
    BY DEF Front, One
  <1> HIDE DEF u, v
  <1>5. ~fin
    <2>1. SUFFICES ASSUME fin PROVE FALSE
      OBVIOUS
    <2>2. p = r + 1 + u + 1 /\ f <= n
      BY <1>4, <2>1
    <2>3. QED BY <1>2, <1>3, <2>2
  <1>6. n <= f /\ p <= r + 1 + u
    <2>1. n <= f
      BY <1>5
    <2>2. r + 1 + u + (IF fin THEN 1 ELSE 0) = r + 1 + u
      BY <1>2, <1>5
    <2>3. p <= r + 1 \/ p = r + 1 + u
      BY <1>4, <2>2
    <2>4. QED BY ONLY <1>2, <2>1, <2>3, r \in Nat, p \in Nat
  <1>7. n = f
    BY ONLY <1>2, <1>3, <1>6, r \in Nat, n \in Nat, f \in Nat, p \in Nat
  <1>8. QED BY <1>5, <1>7

LEMMA Taking ==
    ASSUME NEW q \in PeerType, NEW g \in Segments
    PROVE  \E new \in BOOLEAN :
              /\ new => g.seq = q.rcv
              /\ PeerTakes(q, g) \in PeerType /\ PeerTakes(q, g).state \in {q.state, "ESTABLISHED"}
              /\ PeerTakes(q, g).next = q.next
              /\ PeerTakes(q, g).rcv = IF new THEN Wrap(q.rcv + Payload(g.data) + IF "FIN" \in g.flags THEN 1 ELSE 0) ELSE q.rcv
              /\ PeerTakes(q, g).got = IF new /\ g.data # 0 THEN Append(q.got, g.data) ELSE q.got
              /\ PeerTakes(q, g).fin = (q.fin \/ (new /\ "FIN" \in g.flags))
  <1> DEFINE open == q.state = "ESTABLISHED" \/ \E k \in 0 .. q.next - 1 : g.ack = AckOfUnit(k)
             new == open /\ g.seq = q.rcv
             fin == "FIN" \in g.flags
             s == IF open THEN "ESTABLISHED" ELSE q.state
             x == Wrap(q.rcv + Payload(g.data) + IF fin THEN 1 ELSE 0)
             c == IF new THEN x ELSE q.rcv
             t == IF new /\ g.data # 0 THEN Append(q.got, g.data) ELSE q.got
             e == q.fin \/ (new /\ fin)
             y == PeerTakes(q, g)
  <1>1. y = [q EXCEPT !.state = s, !.rcv = c, !.got = t, !.fin = e]
    BY DEF PeerTakes
  <1>2. x \in Seqs
    <2>1. q.rcv + Payload(g.data) + (IF fin THEN 1 ELSE 0) \in Int
      BY PayloadType, SeqsType DEF PeerType
    <2>2. QED BY <2>1, SeqsType
  <1>3. new \in BOOLEAN /\ e \in BOOLEAN /\ (new => g.seq = q.rcv)
    OBVIOUS
  <1> HIDE DEF x
  <1>4. c \in Seqs
    <2>1. q.rcv \in Seqs
      BY DEF PeerType
    <2>2. QED BY <1>2, <2>1
  <1>5. t \in Seq(Nat)
    <2>1. q.got \in Seq(Nat) /\ g.data \in Nat
      BY DEF PeerType, Segments
    <2>2. Append(q.got, g.data) \in Seq(Nat)
      BY <2>1
    <2>3. QED BY <2>1, <2>2
  <1>6. s \in {"LISTEN", "SYN_RECEIVED", "ESTABLISHED", "CLOSED"} /\ s \in {q.state, "ESTABLISHED"}
    BY DEF PeerType
  <1>7. c = (IF new THEN x ELSE q.rcv) /\ t = (IF new /\ g.data # 0 THEN Append(q.got, g.data) ELSE q.got)
        /\ e = (q.fin \/ (new /\ fin))
    OBVIOUS
  <1> HIDE DEF s, c, t, e, y, new, open
  <1>8. y \in PeerType /\ y.state = s /\ y.rcv = c /\ y.got = t /\ y.fin = e /\ y.next = q.next
    BY ONLY <1>1, <1>3, <1>4, <1>5, <1>6, q \in PeerType DEF PeerType
  <1>9. QED BY <1>3, <1>6, <1>7, <1>8 DEF x, y

(* A step of the server's: what it has taken so far, and its acknowledged  *)
(* position, only grow.                                                    *)
LEMMA PeerTakesWire ==
    ASSUME Types, NEW r \in 0 .. CTL, NEW f \in 0 .. NoFin, NEW p \in 0 .. Window, Wire(r, f, p),
           NEW g \in toPeer, peer.state # "LISTEN", peer' = PeerTakes(peer, g),
           UNCHANGED <<sock, app, toPeer, toHost, sent>>
    PROVE  FromSocket' /\ peer' \in PeerType /\ peer'.next = peer.next /\ peer'.state # "LISTEN"
  <1>0. /\ peer \in PeerType /\ g \in Segments /\ PeerWire(r, f, p) /\ SegWire(r, f, g) /\ Acked
    BY DEF Types, Wire
  <1>1. PICK new \in BOOLEAN :
              /\ new => g.seq = peer.rcv
              /\ peer' \in PeerType /\ peer'.state \in {peer.state, "ESTABLISHED"}
              /\ peer'.next = peer.next
              /\ peer'.rcv = IF new THEN Wrap(peer.rcv + Payload(g.data) + IF "FIN" \in g.flags THEN 1 ELSE 0) ELSE peer.rcv
              /\ peer'.got = IF new /\ g.data # 0 THEN Append(peer.got, g.data) ELSE peer.got
              /\ peer'.fin = (peer.fin \/ (new /\ "FIN" \in g.flags))
    BY <1>0, Taking
  <1>s. peer'.state # "LISTEN"
    BY <1>1
  <1> DEFINE n == Len(peer.got)
  <1>2. /\ n \in Nat /\ n <= sent /\ sent \in Nat /\ sent <= MaxSend /\ r \in Nat /\ f \in Nat /\ p \in Nat
        /\ peer.fin \in BOOLEAN /\ peer.got \in Seq(Nat) /\ Counted(peer.got) /\ MaxSend \in Nat
        /\ peer.rcv \in Seqs /\ peer.rcv = At(p) /\ p > 0 /\ CTL \in Nat /\ NoFin = MaxSend + 1
    BY <1>0, Constants, WindowFits DEF PeerWire, PeerType, Types
  <1>3. /\ IF peer.fin THEN f <= n ELSE n <= f
        /\ \/ p <= r + 1 /\ n = 0 /\ ~peer.fin
           \/ p = Front(r, n, peer.fin)
    BY <1>0 DEF PeerWire
  <1>4. SockWire(r, f)' /\ (\A o \in toPeer : SegWire(r, f, o))'
    <2>1. SockWire(r, f)'
      BY DEF Wire, SockWire
    <2>2. ASSUME NEW o \in toPeer PROVE SegWire(r, f, o)'
      BY <2>2 DEF Wire, SegWire
    <2>3. QED BY <2>1, <2>2
  <1>5. CASE new /\ g.data # 0
    <2>1. PICK d : d = g.data
      OBVIOUS
    <2>2. d \in 1 .. sent /\ d \in Nat \ {0} /\ g.seq = At(Pos(r, f, d)) /\ "FIN" \notin g.flags
      BY <1>0, <1>2, <1>5, <2>1 DEF SegWire
    <2>3. Pos(r, f, d) \in 0 .. Window
      <3>1. d - 1 \in 0 .. MaxSend /\ (d > f) \in BOOLEAN
        BY <1>2, <2>2
      <3>2. Front(r, d - 1, d > f) \in 1 .. Window - 2
        BY <3>1, FrontType
      <3>3. QED BY <3>2, WindowFits DEF Pos
    <2>4. p = Pos(r, f, d)
      <3> DEFINE x == Pos(r, f, d)
      <3>1. At(x) = At(p) /\ x \in 0 .. Window
        BY <1>1, <1>2, <1>5, <2>2, <2>3
      <3> HIDE DEF x
      <3>2. x = p
        BY <3>1, AtApart
      <3>3. QED BY <3>2 DEF x
    <2>5. d = n + 1 /\ p + LEN = Front(r, d, peer.fin) /\ IF peer.fin THEN f <= d ELSE d <= f
      <3>1. PICK m, e : m = n /\ e = peer.fin
        OBVIOUS
      <3>2. /\ m \in Nat /\ e \in BOOLEAN /\ IF e THEN f <= m ELSE m <= f
            /\ (p <= r + 1 /\ m = 0 /\ ~e) \/ p = Front(r, m, e)
        BY <1>2, <1>3, <3>1
      <3>3. d = m + 1 /\ p + LEN = Front(r, d, e) /\ IF e THEN f <= d ELSE d <= f
        <4>1. r \in Nat /\ f \in Nat /\ p \in Nat /\ d \in Nat \ {0}
          BY <1>2, <2>2
        <4>2. QED BY ONLY <2>4, <3>2, <4>1, NextPiece
      <3>4. QED BY <3>1, <3>3
    <2>6. peer'.got = Append(peer.got, d) /\ peer'.fin = peer.fin
      BY <1>1, <1>2, <1>5, <2>1, <2>2
    <2>7. Counted(peer'.got) /\ Len(peer'.got) = d
      BY <1>2, <2>2, <2>5, <2>6, CountedAppend
    <2>8. peer'.rcv = At(p + LEN)
      <3>1. peer'.rcv = Wrap(At(p) + LEN + 0)
        BY <1>1, <1>2, <1>5, <2>2, PayloadType
      <3>2. At(p) + LEN + 0 = At(p) + LEN
        BY <1>2, AtType, Constants
      <3>3. QED BY <1>2, <3>1, <3>2, AtPlus, Constants
    <2>9. PICK y : y = p + LEN
      OBVIOUS
    <2>10. y \in 0 .. Window /\ y > 0 /\ 1 .. p \subseteq 1 .. y
      <3>1. d \in 0 .. MaxSend
        BY <1>2, <2>2
      <3>2. Front(r, d, peer.fin) \in 1 .. Window - 2
        BY <1>2, <3>1, FrontType
      <3>3. QED BY <1>2, <2>5, <2>9, <3>2, WindowFits, Constants
    <2>11. PeerWire(r, f, y)'
      <3>1. \A o \in toHost : \E a \in 1 .. y : o.ack = At(a)
        BY <1>0, <2>10 DEF PeerWire
      <3>2. d <= sent
        BY <2>2
      <3>3. peer'.rcv = At(y) /\ y = Front(r, Len(peer'.got), peer'.fin)
        BY <2>5, <2>6, <2>7, <2>8, <2>9
      <3>4. QED BY <1>1, <1>s, <2>5, <2>6, <2>7, <2>10, <3>1, <3>2, <3>3 DEF PeerWire, Counted
    <2>12. Acked'
      <3>1. n # sent
        BY <1>2, <2>2, <2>5
      <3>2. QED BY <1>0, <3>1 DEF Acked
    <2>13. FromSocket'
      BY <1>4, <2>10, <2>11, <2>12 DEF FromSocket, Wire
    <2>14. QED BY <1>1, <1>s, <2>13
  <1>6. CASE new /\ g.data = 0 /\ "FIN" \in g.flags
    <2>1. f <= sent /\ g.seq = At(Front(r, f, FALSE))
      BY <1>0, <1>6 DEF SegWire
    <2>2. PICK x : x = Front(r, f, FALSE)
      OBVIOUS
    <2>3. x \in 1 .. Window - 2 /\ Window \in Nat
      <3>1. f \in 0 .. MaxSend
        BY <1>2, <2>1
      <3>2. QED BY <2>2, <3>1, FrontType, WindowFits
    <2>4. p = x
      <3>1. At(p) = At(x) /\ x \in 0 .. Window
        <4>1. g.seq = peer.rcv
          BY <1>1, <1>6
        <4>2. x \in 0 .. Window
          BY <2>3
        <4>3. QED BY <1>2, <2>1, <2>2, <4>1, <4>2
      <3>2. QED BY <3>1, AtApart
    <2>5. n = f /\ ~peer.fin /\ p + 1 = Front(r, n, TRUE)
      <3>1. PICK m, e : m = n /\ e = peer.fin
        OBVIOUS
      <3>2. /\ m \in Nat /\ e \in BOOLEAN /\ IF e THEN f <= m ELSE m <= f
            /\ (p <= r + 1 /\ m = 0 /\ ~e) \/ p = Front(r, m, e)
        BY <1>2, <1>3, <3>1
      <3>3. p = r + 1 + LEN * f
        BY <1>2, <2>2, <2>4, Products DEF Front, One
      <3>4. r \in Nat /\ f \in Nat /\ p \in Nat
        BY <1>2
      <3>5. m = f /\ ~e
        BY ONLY <3>2, <3>3, <3>4, NextFin
      <3>6. Front(r, n, TRUE) = p + 1
        BY <1>2, <3>1, <3>3, <3>5, Products DEF Front, One
      <3>7. QED BY <3>1, <3>5, <3>6
    <2>6. peer'.got = peer.got /\ peer'.fin
      BY <1>1, <1>6
    <2>7. peer'.rcv = At(p + 1)
      <3>1. peer'.rcv = Wrap(At(p) + 0 + 1)
        BY <1>1, <1>2, <1>6, PayloadType
      <3>2. At(p) + 0 + 1 = At(p) + 1
        BY <1>2, AtType, Constants
      <3>3. QED BY <1>2, <3>1, <3>2, AtPlus
    <2>8. PICK y : y = p + 1
      OBVIOUS
    <2>9. y \in 0 .. Window /\ y > 0 /\ 1 .. p \subseteq 1 .. y
      BY <1>2, <2>3, <2>4, <2>8
    <2>10. PeerWire(r, f, y)'
      <3>1. \A o \in toHost : \E a \in 1 .. y : o.ack = At(a)
        BY <1>0, <2>9 DEF PeerWire
      <3>2. Front(r, Len(peer'.got), peer'.fin) = Front(r, n, TRUE)
        BY <2>6 DEF Front, One
      <3>3. peer'.rcv = At(y) /\ y = Front(r, Len(peer'.got), peer'.fin)
        BY <2>5, <2>7, <2>8, <3>2
      <3>4. f <= Len(peer'.got) /\ Len(peer'.got) <= sent /\ Counted(peer'.got)
        BY <1>2, <2>5, <2>6
      <3>5. QED BY <1>1, <1>s, <2>6, <2>9, <3>1, <3>3, <3>4 DEF PeerWire, Counted
    <2>11. Acked'
      BY <1>0, <2>6 DEF Acked
    <2>12. FromSocket'
      BY <1>4, <2>9, <2>10, <2>11 DEF FromSocket, Wire
    <2>13. QED BY <1>1, <1>s, <2>12
  <1>7. CASE ~new \/ (g.data = 0 /\ "FIN" \notin g.flags)
    <2>1. peer'.got = peer.got /\ peer'.fin = peer.fin
      BY <1>1, <1>2, <1>7
    <2>2. peer'.rcv = peer.rcv
      <3>1. CASE ~new
        BY <1>1, <3>1
      <3>2. CASE new /\ g.data = 0 /\ "FIN" \notin g.flags
        <4>1. peer'.rcv = Wrap(peer.rcv + 0 + 0)
          BY <1>1, <3>2, PayloadType
        <4>2. peer.rcv + 0 + 0 = peer.rcv
          BY <1>2, SeqsType
        <4>3. QED BY <1>2, <4>1, <4>2, SeqsType
      <3>3. QED BY <1>7, <3>1, <3>2
    <2>3. PeerWire(r, f, p)'
      BY <1>0, <1>s, <2>1, <2>2 DEF PeerWire, Counted
    <2>4. Acked'
      BY <1>0, <2>1 DEF Acked
    <2>5. FromSocket'
      BY <1>4, <2>3, <2>4 DEF FromSocket, Wire
    <2>6. QED BY <1>1, <1>s, <2>5
  <1>8. QED BY <1>5, <1>6, <1>7

LEMMA DeliverToPeerStep == ASSUME IInv, DeliverToPeer PROVE IInv'
  <1>0. Types /\ Stages /\ FromPeer /\ FromSocket
    BY DEF IInv
  <1>1. PICK g \in toPeer :
    /\ \/ /\ peer.state = "LISTEN" /\ g.flags = {"SYN"}
          /\ peer' = [peer EXCEPT !.state = "SYN_RECEIVED", !.rcv = Wrap(g.seq + 1)]
       \/ /\ peer.state \in {"SYN_RECEIVED", "ESTABLISHED"} /\ "RST" \in g.flags
          /\ peer' = [peer EXCEPT !.state = "CLOSED"]
       \/ /\ peer.state \in {"SYN_RECEIVED", "ESTABLISHED"} /\ "RST" \notin g.flags /\ "ACK" \in g.flags
          /\ peer' = PeerTakes(peer, g)
    /\ UNCHANGED <<sock, binds, app, arp, crashed, toPeer, toHost, sent, received>>
    BY DEF DeliverToPeer
  <1>2. PICK r \in 0 .. CTL, f \in 0 .. NoFin, p \in 0 .. Window : Wire(r, f, p)
    BY <1>0 DEF FromSocket
  <1>3. peer \in PeerType /\ g \in Segments /\ app \notin {"idle", "resolving"}
    BY <1>0 DEF Types, Stages
  <1>4. FromSocket' /\ peer' \in PeerType /\ peer'.next = peer.next
    <2>1. CASE /\ peer.state = "LISTEN" /\ g.flags = {"SYN"}
               /\ peer' = [peer EXCEPT !.state = "SYN_RECEIVED", !.rcv = Wrap(g.seq + 1)]
      <3>1. PICK i \in 0 .. r : g.seq = At(i)
        BY <1>1, <1>2, <2>1 DEF Wire, SegWire
      <3>2. PICK y : y = i + 1
        OBVIOUS
      <3>3. i \in Nat /\ y \in 0 .. Window /\ y > 0 /\ y <= r + 1
        BY <3>1, <3>2, Constants, WindowFits, Products DEF Window
      <3>4. Wrap(g.seq + 1) = At(y) /\ At(y) \in Seqs
        <4>1. y \in Nat
          BY <3>2, <3>3
        <4>2. QED BY <3>1, <3>2, <3>3, <4>1, AtPlus, AtType DEF Seqs
      <3>5. peer' = [peer EXCEPT !.state = "SYN_RECEIVED", !.rcv = At(y)]
        BY <2>1, <3>4
      <3>6. /\ peer' \in PeerType /\ peer'.state = "SYN_RECEIVED" /\ peer'.rcv = At(y)
            /\ peer'.got = peer.got /\ peer'.fin = peer.fin /\ peer'.next = peer.next
        BY ONLY <1>3, <3>4, <3>5 DEF PeerType
      <3>7. PeerWire(r, f, p) /\ peer.got = <<>> /\ ~peer.fin /\ p = 0
        BY <1>2, <2>1 DEF Wire, PeerWire
      <3>8. \A o \in toHost : \E a \in 1 .. y : o.ack = At(a)
        <4>1. \A o \in toHost : \E a \in 1 .. 0 : o.ack = At(a)
          BY <3>7 DEF PeerWire
        <4>2. QED BY <4>1
      <3>9. PeerWire(r, f, y)'
        BY <1>1, <3>3, <3>6, <3>7, <3>8 DEF PeerWire, Counted
      <3>10. SockWire(r, f)'
        BY <1>1, <1>2 DEF Wire, SockWire
      <3>11. ASSUME NEW o \in toPeer PROVE SegWire(r, f, o)'
        BY <1>1, <1>2, <3>11 DEF Wire, SegWire
      <3>12. (\A o \in toPeer : SegWire(r, f, o))'
        BY <1>1, <3>11
      <3>13. Acked'
        BY <1>1, <1>2, <3>6 DEF Wire, Acked
      <3>14. QED BY <3>3, <3>6, <3>9, <3>10, <3>12, <3>13 DEF FromSocket, Wire
    <2>2. CASE peer.state \in {"SYN_RECEIVED", "ESTABLISHED"} /\ peer' = [peer EXCEPT !.state = "CLOSED"]
      <3>1. /\ peer' \in PeerType /\ peer'.state = "CLOSED" /\ peer'.rcv = peer.rcv
            /\ peer'.got = peer.got /\ peer'.fin = peer.fin /\ peer'.next = peer.next /\ peer.state # "LISTEN"
        BY ONLY <1>3, <2>2 DEF PeerType
      <3>2. PeerWire(r, f, p)'
        BY <1>1, <1>2, <3>1 DEF Wire, PeerWire, Counted
      <3>3. SockWire(r, f)'
        BY <1>1, <1>2 DEF Wire, SockWire
      <3>4. ASSUME NEW o \in toPeer PROVE SegWire(r, f, o)'
        BY <1>1, <1>2, <3>4 DEF Wire, SegWire
      <3>5. (\A o \in toPeer : SegWire(r, f, o))'
        BY <1>1, <3>4
      <3>6. Acked'
        BY <1>1, <1>2, <3>1 DEF Wire, Acked
      <3>7. QED BY <3>1, <3>2, <3>3, <3>5, <3>6 DEF FromSocket, Wire
    <2>3. CASE peer.state \in {"SYN_RECEIVED", "ESTABLISHED"} /\ peer' = PeerTakes(peer, g)
      <3>1. peer.state # "LISTEN"
        BY <2>3
      <3>2. QED BY <1>0, <1>1, <1>2, <2>3, <3>1, PeerTakesWire
    <2>4. QED BY <1>1, <2>1, <2>2, <2>3
  <1>5. Types'
    BY <1>0, <1>1, <1>4 DEF Types
  <1>6. Stages'
    BY <1>0, <1>1, <1>3 DEF Stages, IsBound
  <1>7. FromPeer'
    BY <1>0, <1>1, <1>4, KeepFromPeer
  <1>8. QED BY <1>4, <1>5, <1>6, <1>7 DEF IInv

(* The server sends: its segments carry the position it has reached.       *)
LEMMA PeerSends ==
    ASSUME IInv, IsBound(SELF), peer.state # "LISTEN", NEW g0 \in Segments,
           toHost' \subseteq toHost \cup {g0}, g0.ack = peer.rcv,
           g0.data # 0 => g0.data \in 1 .. MaxPeer /\ g0.seq = PeerSeq(g0.data) /\ g0.data < peer'.next,
           "SYN" \in g0.flags => g0.seq = PeerSeq(0) /\ g0.data = 0,
           NEW s \in {"SYN_RECEIVED", "ESTABLISHED", "CLOSED"}, NEW k \in 0 .. PeerFin + 1, k >= peer.next,
           peer' = [peer EXCEPT !.state = s, !.next = k],
           UNCHANGED <<sock, binds, app, arp, crashed, toPeer, sent, received>>
    PROVE  IInv'
  <1>0. Types /\ Stages /\ FromPeer /\ FromSocket
    BY DEF IInv
  <1>1. /\ peer' \in PeerType /\ peer'.state # "LISTEN" /\ peer'.rcv = peer.rcv
        /\ peer'.got = peer.got /\ peer'.fin = peer.fin /\ peer'.next = k
    <2>1. peer \in PeerType
      BY <1>0 DEF Types
    <2>2. QED BY ONLY <2>1, s \in {"SYN_RECEIVED", "ESTABLISHED", "CLOSED"}, k \in 0 .. PeerFin + 1,
                  peer' = [peer EXCEPT !.state = s, !.next = k] DEF PeerType
  <1>2. app \notin {"idle", "resolving"} /\ peer.next \in Nat /\ k \in Nat
    BY <1>0, Constants DEF Stages, Types, PeerType
  <1>3. Types'
    BY <1>0, <1>1 DEF Types
  <1>4. Stages'
    BY <1>0, <1>2 DEF Stages, IsBound
  <1>5. FromPeer'
    <2>1. Counted(received) /\ Len(received) <= MaxPeer /\ Len(received) <= k
      <3>1. Len(received) \in Nat
        BY <1>0 DEF Types
      <3>2. QED BY <1>0, <1>2, <3>1 DEF FromPeer
    <2>2. \A g \in toHost : g.data # 0 => g.data \in 1 .. MaxPeer /\ g.seq = PeerSeq(g.data) /\ g.data < k
      <3> SUFFICES ASSUME NEW g \in toHost, g.data # 0
                   PROVE  g.data \in 1 .. MaxPeer /\ g.seq = PeerSeq(g.data) /\ g.data < k
        OBVIOUS
      <3>1. g.data \in 1 .. MaxPeer /\ g.seq = PeerSeq(g.data) /\ g.data < peer.next
        BY <1>0 DEF FromPeer
      <3>2. QED BY <1>2, <3>1, Constants
    <2>3. \A g \in toHost : "SYN" \in g.flags => g.seq = PeerSeq(0) /\ g.data = 0
      BY <1>0 DEF FromPeer
    <2>4. sock.state \in Receiving => sock.ack = PeerSeq(Len(received) + 1)
      BY <1>0 DEF FromPeer
    <2>5. \A g \in toHost' : /\ g.data # 0 => g.data \in 1 .. MaxPeer /\ g.seq = PeerSeq(g.data) /\ g.data < k
                             /\ "SYN" \in g.flags => g.seq = PeerSeq(0) /\ g.data = 0
      BY <1>1, <2>2, <2>3
    <2>6. QED BY <1>1, <2>1, <2>4, <2>5 DEF FromPeer, Counted
  <1>6. FromSocket'
    <2>1. PICK r \in 0 .. CTL, f \in 0 .. NoFin, p \in 0 .. Window : Wire(r, f, p)
      BY <1>0 DEF FromSocket
    <2>2. SockWire(r, f)'
      BY <2>1 DEF Wire, SockWire
    <2>3. ASSUME NEW o \in toPeer PROVE SegWire(r, f, o)'
      BY <2>1, <2>3 DEF Wire, SegWire
    <2>4. PeerWire(r, f, p)'
      <3>1. p > 0 /\ peer.rcv = At(p) /\ p \in 1 .. p
        BY <2>1, WindowFits DEF Wire, PeerWire
      <3>2. \A g \in toHost' : \E a \in 1 .. p : g.ack = At(a)
        BY <2>1, <3>1 DEF Wire, PeerWire
      <3>3. QED BY <1>1, <2>1, <3>2 DEF Wire, PeerWire, Counted
    <2>5. Acked'
      BY <1>1, <2>1 DEF Wire, Acked
    <2>6. (\A o \in toPeer : SegWire(r, f, o))'
      BY <2>3
    <2>7. QED BY <2>2, <2>4, <2>5, <2>6 DEF FromSocket, Wire
  <1>7. QED BY <1>3, <1>4, <1>5, <1>6 DEF IInv

LEMMA PeerSegmentType ==
    ASSUME Types, NEW flags \in SUBSET Flags, NEW q \in Seqs, NEW d \in Nat
    PROVE  /\ PeerSegment(flags, q, d) \in Segments /\ PeerSegment(flags, q, d).flags = flags
           /\ PeerSegment(flags, q, d).seq = q /\ PeerSegment(flags, q, d).data = d
           /\ PeerSegment(flags, q, d).ack = peer.rcv
  <1>1. peer.rcv \in Seqs
    BY DEF Types, PeerType
  <1>2. QED BY <1>1 DEF PeerSegment, Segments, Seqs

LEMMA PeerStep == ASSUME IInv, Peer PROVE IInv'
  <1>0. Types /\ IsBound(SELF) /\ peer \in PeerType
    BY DEF IInv, Types, Peer
  <1>n. peer.next \in 0 .. PeerFin + 1 /\ PeerFin = MaxPeer + 1 /\ MaxPeer \in Nat \ {0} /\ peer.next \in Nat
    BY <1>0, Constants DEF PeerType
  <1>q. \A k \in Nat : PeerSeq(k) \in Seqs
    BY PeerSeqType DEF Seqs
  <1>f. /\ {"SYN", "ACK"} \in SUBSET Flags /\ {"ACK"} \in SUBSET Flags /\ {"FIN", "ACK"} \in SUBSET Flags
        /\ {"RST"} \in SUBSET Flags /\ 0 \in Seqs
    BY SeqsType DEF Flags
  <1>s. \A s, k : peer.state = s => [peer EXCEPT !.next = k] = [peer EXCEPT !.state = s, !.next = k]
    BY <1>0 DEF PeerType
  <1>1. ASSUME NEW k \in 0 .. PeerFin, PeerTransmit(k) PROVE IInv'
    <2>0. k \in Nat /\ k <= peer.next /\ UNCHANGED <<sock, binds, app, arp, crashed, toPeer, sent, received>>
      BY <1>1, <1>n DEF PeerTransmit
    <2>1. CASE /\ k = 0 /\ peer.state = "SYN_RECEIVED"
               /\ toHost' \in ToSocket({PeerSegment({"SYN", "ACK"}, PeerSeq(0), 0)})
               /\ peer' = [peer EXCEPT !.next = IF peer.next = 0 THEN 1 ELSE @]
      <3>1. PICK g0 : g0 = PeerSegment({"SYN", "ACK"}, PeerSeq(0), 0)
        OBVIOUS
      <3>2. g0 \in Segments /\ g0.seq = PeerSeq(0) /\ g0.data = 0 /\ g0.ack = peer.rcv
        BY <1>0, <1>q, <1>f, <3>1, PeerSegmentType
      <3>3. toHost' \subseteq toHost \cup {g0}
        BY <2>1, <3>1, SentToSocket
      <3>4. PICK n \in 0 .. PeerFin + 1 : n = (IF peer.next = 0 THEN 1 ELSE peer.next) /\ n >= peer.next
        BY <1>n
      <3>5. peer' = [peer EXCEPT !.state = "SYN_RECEIVED", !.next = n]
        BY <1>s, <2>1, <3>4
      <3>6. peer.state # "LISTEN" /\ "SYN_RECEIVED" \in {"SYN_RECEIVED", "ESTABLISHED", "CLOSED"}
        BY <2>1
      <3>7. QED BY <1>0, <2>0, <3>2, <3>3, <3>4, <3>5, <3>6, PeerSends
    <2>2. CASE /\ k \in 1 .. MaxPeer /\ peer.state = "ESTABLISHED"
               /\ toHost' \in ToSocket({PeerSegment({"ACK"}, PeerSeq(k), k)})
               /\ peer' = [peer EXCEPT !.next = IF peer.next = k THEN k + 1 ELSE @]
      <3>1. PICK g0 : g0 = PeerSegment({"ACK"}, PeerSeq(k), k)
        OBVIOUS
      <3>2. g0 \in Segments /\ g0.seq = PeerSeq(k) /\ g0.data = k /\ g0.ack = peer.rcv /\ "SYN" \notin g0.flags
        BY <1>0, <1>q, <1>f, <2>0, <3>1, PeerSegmentType
      <3>3. toHost' \subseteq toHost \cup {g0}
        BY <2>2, <3>1, SentToSocket
      <3>4. PICK n \in 0 .. PeerFin + 1 : n = (IF peer.next = k THEN k + 1 ELSE peer.next) /\ n >= peer.next /\ k < n
        BY <1>n, <2>0, <2>2
      <3>5. peer' = [peer EXCEPT !.state = "ESTABLISHED", !.next = n]
        BY <1>s, <2>2, <3>4
      <3>6. peer.state # "LISTEN" /\ peer'.next = n
        BY <1>0, <2>2, <3>5 DEF PeerType
      <3>7. QED BY <1>0, <2>0, <2>2, <3>2, <3>3, <3>4, <3>5, <3>6, PeerSends
    <2>3. CASE /\ k = PeerFin /\ peer.state = "ESTABLISHED"
               /\ toHost' \in ToSocket({PeerSegment({"FIN", "ACK"}, PeerSeq(k), 0)})
               /\ peer' = [peer EXCEPT !.next = k + 1]
      <3>1. PICK g0 : g0 = PeerSegment({"FIN", "ACK"}, PeerSeq(k), 0)
        OBVIOUS
      <3>2. g0 \in Segments /\ g0.data = 0 /\ g0.ack = peer.rcv /\ "SYN" \notin g0.flags
        BY <1>0, <1>q, <1>f, <2>0, <3>1, PeerSegmentType
      <3>3. toHost' \subseteq toHost \cup {g0}
        BY <2>3, <3>1, SentToSocket
      <3>4. PICK n \in 0 .. PeerFin + 1 : n = k + 1 /\ n >= peer.next
        BY <1>n, <2>3
      <3>5. peer' = [peer EXCEPT !.state = "ESTABLISHED", !.next = n]
        BY <1>s, <2>3, <3>4
      <3>6. peer.state # "LISTEN"
        BY <2>3
      <3>7. QED BY <1>0, <2>0, <3>2, <3>3, <3>4, <3>5, <3>6, PeerSends
    <2>4. CASE /\ k = MaxPeer /\ peer.state = "ESTABLISHED"
               /\ toHost' \in ToSocket({PeerSegment({"FIN", "ACK"}, PeerSeq(k), k)})
               /\ peer' = [peer EXCEPT !.next = PeerFin + 1]
      <3>1. PICK g0 : g0 = PeerSegment({"FIN", "ACK"}, PeerSeq(k), k)
        OBVIOUS
      <3>2. g0 \in Segments /\ g0.seq = PeerSeq(k) /\ g0.data = k /\ g0.ack = peer.rcv /\ "SYN" \notin g0.flags
        BY <1>0, <1>q, <1>f, <2>0, <3>1, PeerSegmentType
      <3>3. toHost' \subseteq toHost \cup {g0}
        BY <2>4, <3>1, SentToSocket
      <3>4. PICK n \in 0 .. PeerFin + 1 : n = PeerFin + 1 /\ n >= peer.next /\ k < n /\ k \in 1 .. MaxPeer
        BY <1>n, <2>4
      <3>5. peer' = [peer EXCEPT !.state = "ESTABLISHED", !.next = n]
        BY <1>s, <2>4, <3>4
      <3>6. peer.state # "LISTEN" /\ peer'.next = n
        BY <1>0, <2>4, <3>5 DEF PeerType
      <3>7. QED BY <1>0, <2>0, <3>2, <3>3, <3>4, <3>5, <3>6, PeerSends
    <2>5. QED BY <1>1, <2>1, <2>2, <2>3, <2>4 DEF PeerTransmit
  <1>2. CASE PeerAck
    <2>0. peer.state = "ESTABLISHED" /\ UNCHANGED <<sock, binds, app, arp, crashed, toPeer, peer, sent, received>>
      BY <1>2 DEF PeerAck
    <2>1. PICK g0 : g0 = PeerSegment({"ACK"}, PeerSeq(0), 0)
      OBVIOUS
    <2>2. g0 \in Segments /\ g0.data = 0 /\ g0.ack = peer.rcv /\ "SYN" \notin g0.flags
      BY <1>0, <1>q, <1>f, <2>1, PeerSegmentType
    <2>3. toHost' \subseteq toHost \cup {g0}
      BY <1>2, <2>1, SentToSocket DEF PeerAck
    <2>4. PICK n \in 0 .. PeerFin + 1 : n = peer.next /\ n >= peer.next
      BY <1>n
    <2>5. peer' = [peer EXCEPT !.state = "ESTABLISHED", !.next = n]
      BY <1>0, <2>0, <2>4 DEF PeerType
    <2>6. QED BY <1>0, <2>0, <2>2, <2>3, <2>4, <2>5, PeerSends
  <1>3. CASE PeerAbort
    <2>0. /\ peer.state \in {"SYN_RECEIVED", "ESTABLISHED"} /\ peer' = [peer EXCEPT !.state = "CLOSED"]
          /\ UNCHANGED <<sock, binds, app, arp, crashed, toPeer, sent, received>>
      BY <1>3 DEF PeerAbort
    <2>1. PICK g0 : g0 = PeerSegment({"RST"}, 0, 0)
      OBVIOUS
    <2>2. g0 \in Segments /\ g0.data = 0 /\ g0.ack = peer.rcv /\ "SYN" \notin g0.flags
      BY <1>0, <1>f, <2>1, PeerSegmentType
    <2>3. toHost' \subseteq toHost \cup {g0}
      BY <1>3, <2>1, SentToSocket DEF PeerAbort
    <2>4. PICK n \in 0 .. PeerFin + 1 : n = peer.next /\ n >= peer.next
      BY <1>n
    <2>5. peer' = [peer EXCEPT !.state = "CLOSED", !.next = n]
      BY <1>0, <2>0, <2>4 DEF PeerType
    <2>6. peer.state # "LISTEN" /\ "CLOSED" \in {"SYN_RECEIVED", "ESTABLISHED", "CLOSED"}
      BY <2>0
    <2>7. QED BY <1>0, <2>0, <2>2, <2>3, <2>4, <2>5, <2>6, PeerSends
  <1>4. QED BY <1>1, <1>2, <1>3 DEF Peer
-----------------------------------------------------------------------------
LEMMA InvInit == ASSUME Init PROVE IInv
  <1>1. /\ sock = [state |-> "CLOSED", seq |-> 0, ack |-> 0, tx |-> NoData] /\ binds = <<>> /\ crashed = FALSE
        /\ app = "idle" /\ arp \in {"unknown", "known"} /\ toPeer = {} /\ toHost = {} /\ sent = 0 /\ received = <<>>
        /\ peer = [state |-> "LISTEN", rcv |-> 0, got |-> <<>>, fin |-> FALSE, next |-> 0]
    BY DEF Init, NewPeer
  <1>2. sock \in SockType /\ sock.state = "CLOSED" /\ sock.tx.data = 0
    BY <1>1, NoDataType, SeqsType, ClosedState DEF SockType
  <1>3. peer \in PeerType
    <2>1. 0 \in Seqs /\ 0 \in 0 .. PeerFin + 1 /\ <<>> \in Seq(Nat) /\ FALSE \in BOOLEAN
      BY SeqsType, Constants
    <2>2. QED BY <1>1, <2>1 DEF PeerType
  <1>4. binds \in Seq(Entries) /\ Len(binds) = 0 /\ ~IsBound(SELF)
    BY <1>1 DEF IsBound
  <1>5. Types
    <2>1. Len(binds) <= MaxBinds /\ sent \in 0 .. MaxSend
      BY <1>1, <1>4, Constants
    <2>2. received \in Seq(Nat) /\ toPeer \subseteq Segments /\ toHost \subseteq Segments
      BY <1>1
    <2>3. QED BY <1>1, <1>2, <1>3, <1>4, <2>1, <2>2 DEF Types
  <1>6. Stages
    BY <1>1, <1>2, <1>4 DEF Stages
  <1>7. FromPeer
    <2>1. Len(received) = 0 /\ DOMAIN received = {} /\ peer.next = 0
      BY <1>1
    <2>2. QED BY <1>1, <1>2, <2>1, Constants, ClosedState DEF FromPeer, Counted
  <1>8. FromSocket
    <2>1. 0 \in 0 .. CTL /\ NoFin \in 0 .. NoFin /\ 0 \in 0 .. Window /\ 0 <= NoFin
      BY Constants, WindowFits
    <2>2. SockWire(0, NoFin)
      BY <1>1, <1>2, <2>1 DEF SockWire
    <2>3. PeerWire(0, NoFin, 0)
      <3>1. peer.got = <<>> /\ Len(peer.got) = 0 /\ DOMAIN peer.got = {} /\ peer.fin = FALSE /\ peer.next = 0
            /\ peer.state = "LISTEN"
        BY <1>1
      <3>2. QED BY <1>1, <2>1, <3>1 DEF PeerWire, Counted
    <2>4. Acked
      BY <1>1 DEF Acked
    <2>5. QED BY <1>1, <2>1, <2>2, <2>3, <2>4 DEF FromSocket, Wire
  <1>9. QED BY <1>5, <1>6, <1>7, <1>8 DEF IInv

LEMMA InvStutter == ASSUME IInv, UNCHANGED vars PROVE IInv'
  <1>1. UNCHANGED <<sock, binds, app, arp, crashed, toPeer, toHost, peer, sent, received>>
    BY DEF vars
  <1>2. Types /\ Stages /\ FromPeer /\ FromSocket
    BY DEF IInv
  <1>3. Types'
    BY <1>1, <1>2 DEF Types
  <1>4. Stages'
    BY <1>1, <1>2 DEF Stages, IsBound
  <1>5. FromPeer'
    BY <1>1, <1>2, KeepFromPeer
  <1>6. Acked'
    BY <1>1, <1>2 DEF FromSocket, Wire, Acked
  <1>7. FromSocket'
    BY <1>1, <1>2, <1>6, KeepFromSocket
  <1>8. QED BY <1>3, <1>4, <1>5, <1>7 DEF IInv

(* The inductive invariant: whatever the network does with the segments,   *)
(* both streams are laid out along sequence numbers as tcp.c counts them.  *)
THEOREM TcpInv == Spec => []IInv
  <1>1. Init => IInv
    BY InvInit
  <1>2. IInv /\ [Next]_vars => IInv'
    <2> SUFFICES ASSUME IInv, [Next]_vars PROVE IInv'
      OBVIOUS
    <2>1. CASE UNCHANGED vars
      BY <2>1, InvStutter
    <2>2. CASE Next
      <3>1. CASE Syscall
        BY <3>1, SmallSteps, ConnectStep, SendStep, DisconnectStep, FreeStep DEF Syscall
      <3>2. QED BY <2>2, <3>1, SmallSteps, PollStep, PeerStep, DeliverToHostStep, DeliverToPeerStep DEF Next
    <2>3. QED BY <2>1, <2>2
  <1>3. QED BY <1>1, <1>2, PTL DEF Spec

(* The socket, the table and the segments keep their types; sequence       *)
(* numbers stay below M and retries below their limits.                    *)
THEOREM TcpTypeOK == Spec => []TypeOK
  <1>1. IInv => TypeOK
    <2> SUFFICES ASSUME Types PROVE TypeOK
      BY DEF IInv
    <2>1. /\ sock \in SockType /\ sock.tx \in TxType /\ CTL \in Nat /\ TCP_RETRANSMIT_MAX_RETRIES \in Nat
          /\ CTL = TCP_CTL_MAX_RETRIES
      BY Constants DEF Types, SockType
    <2>2. sock.tx.retries \in 0 .. TCP_CTL_MAX_RETRIES + TCP_RETRANSMIT_MAX_RETRIES
      <3>1. sock.tx.retries \in Nat /\ (sock.tx.retries <= CTL \/ sock.tx.retries <= TCP_RETRANSMIT_MAX_RETRIES)
        BY <2>1 DEF TxType
      <3>2. QED BY <2>1, <3>1
    <2>3. sock.tx \in [data : 0 .. MaxSend, seq : 0 .. M - 1,
                       retries : 0 .. TCP_CTL_MAX_RETRIES + TCP_RETRANSMIT_MAX_RETRIES]
      BY <2>1, <2>2 DEF TxType, Seqs
    <2>4. sock \in [state : States, seq : 0 .. M - 1, ack : 0 .. M - 1,
                    tx : [data : 0 .. MaxSend, seq : 0 .. M - 1,
                          retries : 0 .. TCP_CTL_MAX_RETRIES + TCP_RETRANSMIT_MAX_RETRIES]]
      BY <2>1, <2>3 DEF SockType, Seqs
    <2>5. \A i \in DOMAIN binds : binds[i] \in {SELF, ELSEWHERE, NULL}
      BY DEF Types, Entries
    <2>6. QED BY <2>4, <2>5 DEF Types, TypeOK
  <1>2. QED BY <1>1, TcpInv, PTL

(* What either side has read is a prefix of what the other has sent,       *)
(* whatever is lost, repeated or overtaken: tcp_ipv4_recv hands on only    *)
(* the piece at the number it expects, and inside the window no other      *)
(* piece has that number.                                                  *)
THEOREM TcpStreams == Spec => []Streams
  <1>1. IInv => Streams
    BY DEF IInv, FromPeer, FromSocket, Wire, PeerWire, Streams
  <1>2. QED BY <1>1, TcpInv, PTL

(* Of an open connection, data leaves the retransmission buffer only when  *)
(* the server has it: HandleAck clears it for an acknowledgement of all of *)
(* it, and tcp_seq_after_eq takes no older number for a newer one.         *)
THEOREM TcpNothingLost == Spec => []NothingLost
  <1>1. IInv => NothingLost
    BY DEF IInv, FromSocket, Wire, Acked, NothingLost
  <1>2. QED BY <1>1, TcpInv, PTL

(* A freed socket is in no entry of the table (tcp_socket_disconnect).     *)
THEOREM TcpBoundAlive == Spec => []BoundAlive
  <1>1. IInv => BoundAlive
    BY DEF IInv, Stages, BoundAlive
  <1>2. QED BY <1>1, TcpInv, PTL
=============================================================================
