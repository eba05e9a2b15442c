--------------------------- MODULE DesktopProofs ----------------------------
(***************************************************************************)
(* TLAPS proofs about the desktop and its window protocol, for any number  *)
(* of windows, slots, processes and entries of the event ring.             *)
(***************************************************************************)
EXTENDS Desktop, FiniteSetTheorems, SequenceTheorems, TLAPS

PCs == {"press", "move", "key", "pass", "poll", "map", "setup", "offer", "await", "connect",
        "update", "store", "bump", "leave", "check", "kill", "dead"}
Todo == Events \cup {"alive", "dirty"}
AnyWindow == [slot : Slots \cup {NONE}, pid : 0 .. MaxPid, control : BOOLEAN, minimized : BOOLEAN, resized : BOOLEAN]
DType == [pc : PCs, i : Nat, t : Int, todo : Seq(Todo), ret : PCs, w : AnyWindow]
PageType == [state : {"INIT", "READY", "ACK", "CONNECTED"}, dirty : BOOLEAN, close : BOOLEAN,
             w : Nat, r : Nat, events : [0 .. WM_MAX_EVENTS - 1 -> Events \cup {"none"}]]
ClientType == [pc : {"none", "ready", "ack", "wait", "run", "take", "flush", "gone"}, out : Events \cup {"none"}]

Types == /\ windows \in Seq(WindowType) /\ Len(windows) <= MAX_WINDOWS
         /\ focused \in 0 .. Len(windows)
         /\ slot_used \in [Slots -> BOOLEAN] /\ view \in [Slots -> Pids \cup {NONE}]
         /\ ctl \in [Pids -> PageType] /\ client \in [Pids -> ClientType]
         /\ sent \in [Pids -> Seq(Events)] /\ got \in [Pids -> Seq(Events)]
         /\ d \in DType

Opening == d.pc \in {"map", "setup", "offer", "await", "connect"}
Updating == d.pc \in {"update", "store", "bump"}
Leaving == d.pc \in {"leave", "check", "kill"}

DesktopOK ==
    /\ Opening => /\ d.w \in WindowType /\ d.w.control /\ d.w.pid \in Pids
                  /\ Len(windows) < MAX_WINDOWS /\ d.ret \in {"move", "press"}
    /\ d.pc = "map" => \A s \in Slots : view[s] # d.w.pid
    /\ d.pc \in {"setup", "offer", "await", "connect"} => view[d.w.slot] = d.w.pid
    /\ Updating => /\ \E k \in DOMAIN windows : d.w = windows[k]
                   /\ d.w.control /\ d.todo # <<>> /\ d.ret \in {"move", "key", "pass", "poll"}
    /\ d.pc \in {"store", "bump"} => Head(d.todo) \in Events
    /\ Leaving => d.i \in DOMAIN windows

WindowsOK ==
    /\ \A i \in DOMAIN windows : /\ slot_used[windows[i].slot]
                                 /\ IF windows[i].control
                                    THEN /\ windows[i].pid \in Pids /\ client[windows[i].pid].pc # "none"
                                         /\ view[windows[i].slot] = windows[i].pid
                                    ELSE windows[i].pid = 0
    /\ \A i, j \in DOMAIN windows : i # j => /\ windows[i].slot # windows[j].slot
                                             /\ windows[i].pid # 0 => windows[i].pid # windows[j].pid
    /\ Opening => /\ slot_used[d.w.slot] /\ client[d.w.pid].pc # "none"
                  /\ \A i \in DOMAIN windows : windows[i].slot # d.w.slot /\ windows[i].pid # d.w.pid

HeldOK ==
    /\ \A s \in Slots : slot_used[s] => \/ \E i \in DOMAIN windows : windows[i].slot = s
                                        \/ Opening /\ d.w.slot = s
    /\ \A p \in Pids : Alive(p) => \/ \E i \in DOMAIN windows : windows[i].pid = p
                                   \/ Opening /\ d.w.pid = p

ClientsOK ==
    /\ \A p \in Pids : client[p].pc = "none" => sent[p] = <<>> /\ got[p] = <<>> /\ \A s \in Slots : view[s] # p
    /\ Opening => /\ sent[d.w.pid] = <<>> /\ got[d.w.pid] = <<>>
                  /\ client[d.w.pid].pc \in {"ready", "ack", "wait", "gone"}
                  /\ client[d.w.pid].pc = "wait" => ctl[d.w.pid].state # "CONNECTED"
    /\ d.pc = "map" => client[d.w.pid].pc \in {"ready", "gone"}

Ring(p) ==
    LET page == ctl[p] IN
    /\ page.w = Len(sent[p]) /\ page.r = Len(got[p])
    /\ page.r <= page.w /\ page.w - page.r <= WM_MAX_EVENTS
    /\ \A k \in page.r .. page.w - 1 : page.events[k % WM_MAX_EVENTS] = sent[p][k + 1]
    /\ client[p].pc = "take" => page.r < page.w /\ client[p].out = sent[p][page.r + 1]
    /\ d.pc \in {"store", "bump"} /\ d.w.pid = p => page.w - page.r < WM_MAX_EVENTS
    /\ d.pc = "bump" /\ d.w.pid = p => page.events[page.w % WM_MAX_EVENTS] = Head(d.todo)
Rings == \A p \in Pids : Ring(p)

IInv == Types /\ DesktopOK /\ WindowsOK /\ HeldOK /\ ClientsOK /\ Rings
-----------------------------------------------------------------------------
(* Constants, values and operators.                                        *)

LEMMA Constants == /\ MAX_WINDOWS \in Nat \ {0} /\ WM_MAX_SLOTS \in Nat \ {0} /\ WM_MAX_EVENTS \in Nat \ {0}
                   /\ ConnectYields \in Nat /\ CloseYields \in Nat /\ MaxPid \in Nat
                   /\ WM_MAX_SLOTS <= MAX_WINDOWS /\ NONE = 0 /\ NONE \notin Slots /\ NONE \notin Pids
                   /\ 0 \notin Pids /\ Pids \subseteq Nat /\ Slots \subseteq Nat
  BY DesktopAssumption DEF NONE, Slots, Pids

LEMMA AtType == ASSUME NEW pc \in PCs
                PROVE  /\ At(pc) \in DType /\ At(pc).pc = pc /\ At(pc).ret = pc /\ At(pc).i = 1
                       /\ At(pc).todo = <<>> /\ At(pc).t = 0 /\ At(pc).w = NoWindow
  BY DesktopAssumption DEF At, DType, AnyWindow, NoWindow

LEMMA NoPageType == NoPage \in PageType
  BY DesktopAssumption DEF NoPage, PageType

LEMMA Division == ASSUME NEW M \in Nat \ {0}, NEW k \in Int, NEW q \in Int, NEW r \in Int,
                         q = k \div M, r = k % M
                  PROVE  k = q * M + r
  BY Z3T(20)

(* Fewer than WM_MAX_EVENTS apart, two events lie in different entries.    *)
LEMMA ModDistinct ==
    ASSUME NEW k \in Nat, NEW w \in Nat, k < w, w - k < WM_MAX_EVENTS
    PROVE  k % WM_MAX_EVENTS # w % WM_MAX_EVENTS
  <1> SUFFICES ASSUME k % WM_MAX_EVENTS = w % WM_MAX_EVENTS PROVE FALSE
    OBVIOUS
  <1> DEFINE N == WM_MAX_EVENTS
             a == k \div N
             b == w \div N
             r == k % N
  <1>a. /\ N \in Nat \ {0} /\ a \in Int /\ b \in Int /\ r \in Int
        /\ a = k \div N /\ b = w \div N /\ r = k % N /\ r = w % N
    BY Constants
  <1> HIDE DEF N, a, b, r
  <1>1. /\ N \in Nat \ {0} /\ a \in Int /\ b \in Int /\ r \in Int
        /\ k = a * N + r /\ w = b * N + r
    BY <1>a, Division
  <1>2. w - k = (b - a) * N
    BY <1>1
  <1>3. w - k \in 1 .. N - 1
    BY <1>1 DEF N
  <1>4. b - a <= 0 => (b - a) * N <= 0
    BY <1>1, Z3
  <1>5. b - a >= 1 => (b - a) * N >= N
    BY <1>1, Z3
  <1>6. QED BY <1>1, <1>2, <1>3, <1>4, <1>5

LEMMA ModRange == ASSUME NEW k \in Nat PROVE k % WM_MAX_EVENTS \in 0 .. WM_MAX_EVENTS - 1
  BY Constants

LEMMA RemoveAtShape ==
    ASSUME NEW S, NEW s \in Seq(S), NEW i \in 1 .. Len(s)
    PROVE  /\ RemoveAt(s, i) \in Seq(S) /\ Len(RemoveAt(s, i)) = Len(s) - 1
           /\ \A j \in 1 .. Len(s) - 1 : RemoveAt(s, i)[j] = IF j < i THEN s[j] ELSE s[j + 1]
  <1> DEFINE lo == SubSeq(s, 1, i - 1)
             hi == SubSeq(s, i + 1, Len(s))
  <1>1. Len(s) \in Nat /\ \A j \in 1 .. Len(s) : s[j] \in S
    BY LenProperties
  <1>2. /\ lo \in Seq(S) /\ Len(lo) = i - 1 /\ \A j \in 1 .. i - 1 : lo[j] = s[j]
    <2>1. \A j \in 1 .. i - 1 : s[j] \in S
      BY <1>1
    <2>2. QED BY <1>1, <2>1, SubSeqProperties
  <1>3. /\ hi \in Seq(S) /\ Len(hi) = Len(s) - i /\ \A j \in 1 .. Len(s) - i : hi[j] = s[i + j]
    <2>1. \A j \in i + 1 .. Len(s) : s[j] \in S
      BY <1>1
    <2>2. /\ hi \in Seq(S) /\ Len(hi) = IF i + 1 <= Len(s) THEN Len(s) - (i + 1) + 1 ELSE 0
          /\ \A j \in 1 .. Len(s) - (i + 1) + 1 : hi[j] = s[(i + 1) + j - 1]
      BY <1>1, <2>1, SubSeqProperties
    <2>3. \A j \in 1 .. Len(s) - i : j \in 1 .. Len(s) - (i + 1) + 1 /\ (i + 1) + j - 1 = i + j
      BY <1>1
    <2> HIDE DEF hi
    <2>4. QED BY <1>1, <2>2, <2>3
  <1>4. RemoveAt(s, i) = lo \o hi
    BY DEF RemoveAt
  <1> HIDE DEF lo, hi
  <1>5. /\ lo \o hi \in Seq(S) /\ Len(lo \o hi) = Len(lo) + Len(hi)
        /\ \A j \in 1 .. Len(lo) + Len(hi) : (lo \o hi)[j] = IF j <= Len(lo) THEN lo[j] ELSE hi[j - Len(lo)]
    BY <1>2, <1>3, ConcatProperties
  <1>6. Len(lo) + Len(hi) = Len(s) - 1
    BY <1>1, <1>2, <1>3
  <1>7. ASSUME NEW j \in 1 .. Len(s) - 1 PROVE (lo \o hi)[j] = IF j < i THEN s[j] ELSE s[j + 1]
    <2>1. CASE j < i
      BY <1>1, <1>2, <1>5, <1>6, <2>1
    <2>2. CASE ~(j < i)
      <3>1. j - (i - 1) \in 1 .. Len(s) - i /\ i + (j - (i - 1)) = j + 1
        BY <1>1, <2>2
      <3>2. (lo \o hi)[j] = hi[j - (i - 1)]
        BY <1>1, <1>2, <1>5, <1>6, <2>2
      <3>3. QED BY <1>3, <2>2, <3>1, <3>2
    <2>3. QED BY <2>1, <2>2
  <1>8. QED BY <1>4, <1>5, <1>6, <1>7
-----------------------------------------------------------------------------
(* What a step leaves alone.                                               *)

(* The same windows in the same places, whatever was done to them.         *)
SameWindows ==
    /\ Len(windows') = Len(windows)
    /\ \A i \in DOMAIN windows : /\ windows'[i].slot = windows[i].slot /\ windows'[i].pid = windows[i].pid
                                  /\ windows'[i].control = windows[i].control

LEMMA WindowsDomain == ASSUME Types
                       PROVE  /\ Len(windows) \in Nat /\ DOMAIN windows = 1 .. Len(windows)
                              /\ \A i \in DOMAIN windows : windows[i] \in WindowType
  BY LenProperties DEF Types

LEMMA WindowsFrame ==
    ASSUME IInv, Types', SameWindows, Opening' <=> Opening, Opening => d'.w = d.w,
           UNCHANGED <<slot_used, view>>,
           \A p \in Pids : client[p].pc # "none" => client'[p].pc # "none",
           \A p \in Pids : Alive(p)' => Alive(p)
    PROVE  WindowsOK' /\ HeldOK'
  <1>1. DOMAIN windows' = DOMAIN windows
    <2>1. Types
      BY DEF IInv
    <2>2. DOMAIN windows = 1 .. Len(windows)
      BY <2>1, WindowsDomain
    <2>3. DOMAIN windows' = 1 .. Len(windows')
      BY LenProperties DEF Types
    <2>4. QED BY <2>2, <2>3 DEF SameWindows
  <1>2. Opening => d.w.pid \in Pids
    BY DEF IInv, DesktopOK
  <1>3. WindowsOK'
    BY <1>1, <1>2 DEF IInv, WindowsOK, SameWindows
  <1>4. HeldOK'
    BY <1>1 DEF IInv, HeldOK, SameWindows
  <1>5. QED BY <1>3, <1>4

(* No event is being put into a ring, and what is in the rings stays.      *)
LEMMA RingsFrame ==
    ASSUME Rings,
           \A p \in Pids : /\ ctl'[p].w = ctl[p].w /\ ctl'[p].r = ctl[p].r /\ ctl'[p].events = ctl[p].events
                           /\ sent'[p] = sent[p] /\ got'[p] = got[p]
                           /\ client'[p].pc = "take" => client'[p] = client[p],
           \/ d'.pc \notin {"store", "bump"}
           \/ d' = d
           \/ d'.pc = "store" /\ \A p \in Pids : d'.w.pid = p => ctl[p].w - ctl[p].r < WM_MAX_EVENTS
    PROVE  Rings'
  <1> SUFFICES ASSUME NEW p \in Pids PROVE Ring(p)'
    BY DEF Rings
  <1>1. Ring(p)
    BY DEF Rings
  <1>2. QED BY <1>1 DEF Ring

(* A step of the desktop between two windows: nothing is open halfway.     *)
LEMMA LoopStep ==
    ASSUME IInv, ~Opening, SameWindows, windows' \in Seq(WindowType), focused' \in 0 .. Len(windows),
           d' \in DType, ~Opening', Updating' => (/\ \E k \in DOMAIN windows' : d'.w = windows'[k]
                                                 /\ d'.w.control /\ d'.todo # <<>>
                                                 /\ d'.ret \in {"move", "key", "pass", "poll"}),
           Leaving' => d'.i \in DOMAIN windows,
           \/ d'.pc \notin {"store", "bump"}
           \/ d'.pc = "store" /\ Head(d'.todo) \in Events /\ \A p \in Pids : d'.w.pid = p => ctl[p].w - ctl[p].r < WM_MAX_EVENTS,
           ctl' \in [Pids -> PageType],
           \A p \in Pids : ctl'[p].w = ctl[p].w /\ ctl'[p].r = ctl[p].r /\ ctl'[p].events = ctl[p].events,
           UNCHANGED <<slot_used, view, client, sent, got>>
    PROVE  IInv'
  <1>1. Types'
    BY DEF IInv, Types, SameWindows
  <1>2. WindowsOK' /\ HeldOK'
    BY <1>1, WindowsFrame DEF Alive
  <1>3. Rings'
    BY RingsFrame DEF IInv
  <1>4. ClientsOK'
    BY DEF IInv, ClientsOK, Opening
  <1>5. DOMAIN windows' = DOMAIN windows
    <2>1. Types
      BY DEF IInv
    <2>2. DOMAIN windows = 1 .. Len(windows)
      BY <2>1, WindowsDomain
    <2>3. DOMAIN windows' = 1 .. Len(windows')
      BY LenProperties
    <2>4. QED BY <2>2, <2>3 DEF SameWindows
  <1>6. DesktopOK'
    BY <1>5 DEF DesktopOK, Opening
  <1>7. QED BY <1>1, <1>2, <1>3, <1>4, <1>6 DEF IInv
-----------------------------------------------------------------------------
(* Steps of the main loop.                                                 *)

Loop == {"press", "move", "key", "pass", "poll"}

LEMMA LoopAt == ASSUME NEW pc \in Loop \cup {"dead"}
                PROVE  At(pc) \in DType /\ At(pc).pc = pc /\ At(pc).ret = pc
  BY AtType DEF Loop, PCs

(* One window of the list with another flag.                               *)
LEMMA FlagShape ==
    ASSUME NEW ws \in Seq(WindowType), NEW i \in 1 .. Len(ws), NEW v \in WindowType,
           v.slot = ws[i].slot, v.pid = ws[i].pid, v.control = ws[i].control
    PROVE  /\ [ws EXCEPT ![i] = v] \in Seq(WindowType) /\ Len([ws EXCEPT ![i] = v]) = Len(ws)
           /\ \A j \in 1 .. Len(ws) : /\ [ws EXCEPT ![i] = v][j].slot = ws[j].slot
                                       /\ [ws EXCEPT ![i] = v][j].pid = ws[j].pid
                                       /\ [ws EXCEPT ![i] = v][j].control = ws[j].control
           /\ [ws EXCEPT ![i] = v][i] = v
  BY ExceptSeq

(* The same list of windows, but for flags.                                *)
Like(ws) == /\ ws \in Seq(WindowType) /\ Len(ws) = Len(windows)
            /\ \A j \in DOMAIN windows : /\ ws[j].slot = windows[j].slot /\ ws[j].pid = windows[j].pid
                                          /\ ws[j].control = windows[j].control

LEMMA LikeSelf == ASSUME Types PROVE Like(windows)
  BY DEF Types, Like

LEMMA LikeFlag ==
    ASSUME Types, NEW ws, Like(ws), NEW i \in DOMAIN windows, NEW v \in WindowType,
           v.slot = ws[i].slot, v.pid = ws[i].pid, v.control = ws[i].control
    PROVE  Like([ws EXCEPT ![i] = v]) /\ [ws EXCEPT ![i] = v][i] = v
  <1>1. DOMAIN windows = 1 .. Len(windows) /\ ws \in Seq(WindowType) /\ Len(ws) = Len(windows)
    BY WindowsDomain DEF Like
  <1>2. QED BY <1>1, FlagShape DEF Like

LEMMA LikeType == ASSUME Types, NEW ws, Like(ws), NEW i \in DOMAIN windows PROVE ws[i] \in WindowType /\ i \in DOMAIN ws
  BY WindowsDomain, LenProperties DEF Like

LEMMA MinimizedShape ==
    ASSUME Types, NEW i \in DOMAIN windows
    PROVE  Like([windows EXCEPT ![i].minimized = TRUE]) /\ Like([windows EXCEPT ![i].minimized = FALSE])
  <1>1. ASSUME NEW b \in BOOLEAN PROVE Like([windows EXCEPT ![i].minimized = b])
    <2> DEFINE v == [windows[i] EXCEPT !.minimized = b]
    <2>1. v \in WindowType /\ v.slot = windows[i].slot /\ v.pid = windows[i].pid /\ v.control = windows[i].control
      BY WindowsDomain DEF WindowType
    <2>2. [windows EXCEPT ![i].minimized = b] = [windows EXCEPT ![i] = v]
      OBVIOUS
    <2> HIDE DEF v
    <2>3. QED BY <2>1, <2>2, LikeSelf, LikeFlag
  <1>2. QED BY <1>1

LEMMA ResizedShape ==
    ASSUME Types, NEW ws, Like(ws), NEW i \in DOMAIN windows, NEW b \in BOOLEAN
    PROVE  /\ Like([ws EXCEPT ![i].resized = b])
           /\ [ws EXCEPT ![i].resized = b][i].control = ws[i].control
           /\ [ws EXCEPT ![i].resized = b][i] \in WindowType
  <1> DEFINE v == [ws[i] EXCEPT !.resized = b]
  <1>1. v \in WindowType /\ v.slot = ws[i].slot /\ v.pid = ws[i].pid /\ v.control = ws[i].control
    BY LikeType DEF WindowType
  <1>2. [ws EXCEPT ![i].resized = b] = [ws EXCEPT ![i] = v]
    OBVIOUS
  <1> HIDE DEF v
  <1>3. Like([ws EXCEPT ![i] = v]) /\ [ws EXCEPT ![i] = v][i] = v
    BY <1>1, LikeFlag
  <1>4. QED BY <1>1, <1>2, <1>3

(* A step that ends where the loop goes on.                                *)
LEMMA PlainStep ==
    ASSUME IInv, ~Opening, Like(windows'), focused' \in 0 .. Len(windows),
           d' \in DType, d'.pc \in Loop \cup {"dead"},
           UNCHANGED <<slot_used, view, ctl, client, sent, got>>
    PROVE  IInv'
  <1>1. SameWindows /\ windows' \in Seq(WindowType)
    BY DEF SameWindows, Like
  <1>2. ~Opening' /\ ~Updating' /\ ~Leaving' /\ d'.pc \notin {"store", "bump"}
    BY DEF Opening, Updating, Leaving, Loop
  <1>3. ctl' \in [Pids -> PageType]
    BY DEF IInv, Types
  <1>4. QED BY <1>1, <1>2, <1>3, LoopStep

LEMMA TodoType == \A evt \in {<<>>, <<"input">>}, resize \in {<<>>, <<"resize">>} :
                    /\ resize \o <<"alive">> \o evt \o <<"dirty">> \in Seq(Todo)
                    /\ resize \o <<"alive">> \o evt \o <<"dirty">> # <<>>
  <1> SUFFICES ASSUME NEW evt \in {<<>>, <<"input">>}, NEW resize \in {<<>>, <<"resize">>}
               PROVE  /\ resize \o <<"alive">> \o evt \o <<"dirty">> \in Seq(Todo)
                      /\ resize \o <<"alive">> \o evt \o <<"dirty">> # <<>>
    OBVIOUS
  <1>a. <<"alive">> \in Seq(Todo) /\ <<"dirty">> \in Seq(Todo) /\ <<>> \in Seq(Todo)
    BY DEF Todo
  <1>b. <<"input">> \in Seq(Todo) /\ <<"resize">> \in Seq(Todo)
    BY DEF Todo, Events
  <1>1. evt \in Seq(Todo) /\ resize \in Seq(Todo) /\ <<"alive">> \in Seq(Todo) /\ <<"dirty">> \in Seq(Todo)
    BY <1>a, <1>b
  <1> DEFINE front == resize \o <<"alive">> \o evt
  <1>2. front \in Seq(Todo)
    BY <1>1, ConcatProperties
  <1> HIDE DEF front
  <1>3. front \o <<"dirty">> \in Seq(Todo) /\ Len(front \o <<"dirty">>) = Len(front) + 1 /\ Len(front) \in Nat
    BY <1>1, <1>2, ConcatProperties, LenProperties
  <1>4. front \o <<"dirty">> # <<>>
    BY <1>3, EmptySeq
  <1>5. QED BY <1>3, <1>4 DEF front

LEMMA UpdateStep ==
    ASSUME IInv, ~Opening, NEW ws, Like(ws), NEW i \in DOMAIN windows,
           NEW evt \in {<<>>, <<"input">>}, NEW ret \in DType, ret.pc \in {"move", "key", "pass", "poll"},
           update(ws, i, evt, ret), focused' \in 0 .. Len(windows),
           UNCHANGED <<slot_used, view, ctl, client, sent, got>>
    PROVE  IInv'
  <1>1. Types
    BY DEF IInv
  <1>2. /\ Like(windows') /\ windows'[i].control = ws[i].control /\ windows'[i] \in WindowType
    BY <1>1, ResizedShape DEF update
  <1>3. CASE ~ws[i].control
    <2>1. d' = ret
      BY <1>3 DEF update
    <2>2. QED BY <1>2, <2>1, PlainStep DEF Loop
  <1>4. CASE ws[i].control
    <2> DEFINE resize == IF ws[i].resized THEN <<"resize">> ELSE <<>>
               todo == resize \o <<"alive">> \o evt \o <<"dirty">>
    <2>1. todo \in Seq(Todo) /\ todo # <<>>
      BY TodoType
    <2>2. d' = [ret EXCEPT !.pc = "update", !.ret = ret.pc, !.w = windows'[i], !.todo = todo]
      BY <1>4 DEF update
    <2>3. windows'[i] \in AnyWindow
      BY <1>2 DEF WindowType, AnyWindow
    <2> HIDE DEF todo
    <2>4. /\ d' \in DType /\ d'.pc = "update" /\ d'.ret = ret.pc /\ d'.w = windows'[i] /\ d'.todo # <<>>
      BY <2>1, <2>2, <2>3 DEF DType, PCs
    <2>5. SameWindows /\ windows' \in Seq(WindowType) /\ i \in DOMAIN windows'
      <3>1. DOMAIN windows = 1 .. Len(windows)
        BY <1>1, WindowsDomain
      <3>2. QED BY <1>2, <3>1, LenProperties DEF SameWindows, Like
    <2>6. ~Opening' /\ ~Leaving' /\ d'.pc \notin {"store", "bump"}
      BY <2>4 DEF Opening, Leaving
    <2>7. ctl' \in [Pids -> PageType]
      BY <1>1 DEF Types
    <2>8. QED BY <1>2, <1>4, <2>4, <2>5, <2>6, <2>7, LoopStep
  <1>5. QED BY <1>3, <1>4

LEMMA VisibleType == Visible \subseteq DOMAIN windows
  BY DEF Visible

LEMMA PressSteps ==
    ASSUME IInv, \/ idle
                 \/ \E i \in DOMAIN windows : minimize_button(i) \/ taskbar(i) \/ grab(i) \/ click(i)
    PROVE  IInv'
  <1>1. Types /\ ~Opening /\ focused \in 0 .. Len(windows)
    BY DEF IInv, Types, Opening, idle, minimize_button, taskbar, grab, click, Pressing
  <1>2. Len(windows) \in Nat /\ DOMAIN windows = 1 .. Len(windows)
    BY <1>1, WindowsDomain
  <1>3. At("move") \in DType /\ At("move").pc = "move" /\ "move" \in Loop
    BY LoopAt DEF Loop
  <1>4. CASE idle
    BY <1>1, <1>3, <1>4, LikeSelf, PlainStep DEF idle
  <1>5. ASSUME NEW i \in DOMAIN windows, minimize_button(i) PROVE IInv'
    <2>0. windows' = [windows EXCEPT ![i].minimized = TRUE] /\ focused' = 0
      BY <1>5 DEF minimize_button, Minimize, NONE
    <2>a. Like(windows')
      BY <1>1, <1>5, <2>0, MinimizedShape, Zenon
    <2>1. focused' \in 0 .. Len(windows) /\ Like(windows')
      BY <1>2, <2>0, <2>a
    <2>2. QED BY <1>1, <1>3, <1>5, <2>1, PlainStep DEF minimize_button
  <1>6. ASSUME NEW i \in DOMAIN windows, taskbar(i) PROVE IInv'
    <2>0. /\ windows' = [windows EXCEPT ![i].minimized = TRUE] \/ windows' = [windows EXCEPT ![i].minimized = FALSE]
          /\ focused' \in {0, i}
      BY <1>6 DEF taskbar, Minimize, NONE
    <2>a. Like(windows')
      BY <1>1, <1>6, <2>0, MinimizedShape, Zenon
    <2>1. focused' \in 0 .. Len(windows) /\ Like(windows')
      BY <1>2, <1>6, <2>0, <2>a
    <2>2. QED BY <1>1, <1>3, <1>6, <2>1, PlainStep DEF taskbar
  <1>7. ASSUME NEW i \in DOMAIN windows, grab(i) PROVE IInv'
    <2>1. focused' \in 0 .. Len(windows) /\ Like(windows')
      BY <1>1, <1>2, <1>7, LikeSelf DEF grab
    <2>2. QED BY <1>1, <1>3, <1>7, <2>1, PlainStep DEF grab
  <1>8. ASSUME NEW i \in DOMAIN windows, click(i) PROVE IInv'
    <2>1. focused' \in 0 .. Len(windows) /\ Like(windows)
      BY <1>1, <1>2, <1>8, LikeSelf DEF click
    <2>2. QED BY <1>1, <1>3, <1>8, <2>1, UpdateStep DEF click
  <1>9. QED BY <1>4, <1>5, <1>6, <1>7, <1>8

LEMMA PassAtType ==
    ASSUME Types, NEW i \in Nat
    PROVE  PassAt(i) \in DType /\ PassAt(i).pc \in {"pass", "poll"}
  <1> DEFINE q == At("pass")
             y == [q EXCEPT !.i = i]
  <1>1. "pass" \in PCs /\ "poll" \in PCs
    BY DEF PCs
  <1>2. q \in DType /\ q.pc = "pass" /\ At("poll") \in DType /\ At("poll").pc = "poll"
    BY <1>1, AtType DEF At
  <1>3. PassAt(i) = At("poll") \/ PassAt(i) = y
    BY DEF PassAt
  <1> HIDE DEF q
  <1>4. y \in DType /\ y.pc = "pass"
    BY ONLY <1>2, i \in Nat DEF DType
  <1>5. QED BY <1>2, <1>3, <1>4

LEMMA MoveSteps == ASSUME IInv, mouse_move \/ key \/ pass PROVE IInv'
  <1>1. Types /\ ~Opening /\ focused' \in 0 .. Len(windows) /\ focused' = focused
    BY DEF IInv, Types, Opening, mouse_move, key, pass
  <1>2. Len(windows) \in Nat /\ DOMAIN windows = 1 .. Len(windows)
    BY <1>1, WindowsDomain
  <1>3. At("key") \in DType /\ At("key").pc = "key" /\ "key" \in Loop
    BY LoopAt DEF Loop
  <1>4. CASE mouse_move
    <2>1. PICK ws \in Dragged : \/ windows' = ws /\ d' = At("key")
                               \/ \E i \in Visible : update(ws, i, <<"input">>, At("key"))
      BY <1>4 DEF mouse_move
    <2>2. Like(ws)
      BY <1>1, LikeSelf, ResizedShape DEF Dragged, Visible
    <2>3. CASE windows' = ws /\ d' = At("key")
      BY <1>1, <1>3, <1>4, <2>2, <2>3, PlainStep DEF mouse_move
    <2>4. ASSUME NEW i \in Visible, update(ws, i, <<"input">>, At("key")) PROVE IInv'
      BY <1>1, <1>3, <1>4, <2>2, <2>4, VisibleType, UpdateStep DEF mouse_move
    <2>5. QED BY <2>1, <2>3, <2>4
  <1>5. CASE key
    <2>1. PassAt(1) \in DType /\ PassAt(1).pc \in {"pass", "poll"}
      BY <1>1, PassAtType
    <2>2. CASE windows' = windows /\ d' = PassAt(1)
      BY <1>1, <1>5, <2>1, <2>2, LikeSelf, PlainStep DEF key, Loop
    <2>3. CASE focused \in DOMAIN windows /\ update(windows, focused, <<"input">>, PassAt(1))
      BY <1>1, <1>5, <2>1, <2>3, LikeSelf, UpdateStep DEF key
    <2>4. QED BY <1>5, <2>2, <2>3 DEF key
  <1>6. CASE pass
    <2>1. d.i + 1 \in Nat
      BY <1>1 DEF Types, DType
    <2>2. PassAt(d.i + 1) \in DType /\ PassAt(d.i + 1).pc \in {"pass", "poll"}
      BY <1>1, <2>1, PassAtType
    <2>3. CASE d.i \in Visible
      BY <1>1, <1>6, <2>2, <2>3, LikeSelf, VisibleType, UpdateStep DEF pass
    <2>4. CASE d.i \notin Visible
      BY <1>1, <1>6, <2>2, <2>4, LikeSelf, PlainStep DEF pass, Loop
    <2>5. QED BY <2>3, <2>4
  <1>7. QED BY <1>4, <1>5, <1>6
-----------------------------------------------------------------------------
(* Steps of external_window_update.                                        *)

LEMMA UpdatingView == ASSUME IInv, Updating
                      PROVE  /\ view[d.w.slot] = d.w.pid /\ d.w.pid \in Pids /\ d.w \in WindowType
                             /\ ~Opening /\ ~Leaving
  <1>1. Types
    BY DEF IInv
  <1>2. PICK k \in DOMAIN windows : d.w = windows[k]
    BY DEF IInv, DesktopOK
  <1>3. d.w.control
    BY DEF IInv, DesktopOK
  <1>4. windows[k] \in WindowType
    BY <1>1, WindowsDomain
  <1>5. QED BY <1>2, <1>3, <1>4 DEF IInv, WindowsOK, Updating, Opening, Leaving

LEMMA RestShape ==
    ASSUME IInv, Updating
    PROVE  /\ Returned \in DType /\ Returned.pc = d.ret /\ d.ret \in {"move", "key", "pass", "poll"}
           /\ d.todo \in Seq(Todo) /\ Head(d.todo) \in Todo
           /\ IF Tail(d.todo) = <<>> THEN Rest = Returned
              ELSE /\ Rest \in DType /\ Rest.pc = d.pc /\ Rest.w = d.w /\ Rest.ret = d.ret
                   /\ Rest.todo = Tail(d.todo) /\ Tail(d.todo) # <<>>
  <1>1. d \in DType /\ d.todo # <<>> /\ d.ret \in {"move", "key", "pass", "poll"}
    BY DEF IInv, Types, DesktopOK
  <1>2. d.todo \in Seq(Todo)
    BY <1>1 DEF DType
  <1>3. Head(d.todo) \in Todo /\ Tail(d.todo) \in Seq(Todo)
    BY <1>1, <1>2, HeadTailProperties
  <1>4. NoWindow \in AnyWindow /\ d.ret \in PCs /\ <<>> \in Seq(Todo)
    BY <1>1, DesktopAssumption DEF NoWindow, AnyWindow, DType
  <1>5. Returned \in DType /\ Returned.pc = d.ret
    BY <1>1, <1>4 DEF Returned, DType
  <1>6. CASE Tail(d.todo) = <<>>
    BY <1>1, <1>2, <1>3, <1>5, <1>6 DEF Rest
  <1>7. CASE Tail(d.todo) # <<>>
    <2>1. Rest = [d EXCEPT !.todo = Tail(@)]
      BY <1>7 DEF Rest
    <2>2. QED BY <1>1, <1>2, <1>3, <1>5, <1>7, <2>1 DEF DType
  <1>8. QED BY <1>6, <1>7

(* On to what is left to do, with nothing but the dirty flag changed.      *)
LEMMA RestStep ==
    ASSUME IInv, d.pc = "update", d' = Rest \/ d' = Returned, ctl' \in [Pids -> PageType],
           \A p \in Pids : ctl'[p].w = ctl[p].w /\ ctl'[p].r = ctl[p].r /\ ctl'[p].events = ctl[p].events,
           UNCHANGED <<windows, focused, slot_used, view, client, sent, got>>
    PROVE  IInv'
  <1>1. Updating /\ ~Opening
    BY DEF Updating, Opening
  <1>2. Types /\ SameWindows /\ windows' \in Seq(WindowType) /\ focused' \in 0 .. Len(windows)
    BY DEF IInv, Types, SameWindows
  <1>3. /\ d' \in DType
        /\ \/ d'.pc \in {"move", "key", "pass", "poll"}
           \/ d'.pc = "update" /\ d'.w = d.w /\ d'.todo # <<>> /\ d'.ret \in {"move", "key", "pass", "poll"}
    BY <1>1, RestShape
  <1>4. ~Opening' /\ ~Leaving' /\ d'.pc \notin {"store", "bump"}
    BY <1>3 DEF Opening, Leaving
  <1>5. Updating' => /\ \E k \in DOMAIN windows' : d'.w = windows'[k]
                     /\ d'.w.control /\ d'.todo # <<>>
                     /\ d'.ret \in {"move", "key", "pass", "poll"}
    BY <1>1, <1>3 DEF IInv, DesktopOK, Updating
  <1>6. QED BY <1>1, <1>2, <1>3, <1>4, <1>5, LoopStep

LEMMA LookStep == ASSUME IInv, look PROVE IInv'
  <1>1. d.pc = "update" /\ (d' = Rest \/ d' = Returned)
    BY DEF look
  <1>2. UNCHANGED <<windows, focused, slot_used, view, ctl, client, sent, got>>
    BY DEF look
  <1>3. ctl' \in [Pids -> PageType]
    BY <1>2 DEF IInv, Types
  <1>4. QED BY <1>1, <1>2, <1>3, RestStep

LEMMA ClearStep == ASSUME IInv, clear_dirty PROVE IInv'
  <1>1. d.pc = "update" /\ d' = Rest /\ Updating
    BY DEF clear_dirty, Updating
  <1>2. UNCHANGED <<windows, focused, slot_used, view, client, sent, got>>
    BY DEF clear_dirty
  <1>3. ctl' = [ctl EXCEPT ![d.w.pid].dirty = FALSE] /\ d.w.pid \in Pids
    BY <1>1, UpdatingView DEF clear_dirty
  <1>4. ctl \in [Pids -> PageType]
    BY DEF IInv, Types
  <1>5. /\ ctl' \in [Pids -> PageType]
        /\ \A p \in Pids : ctl'[p].w = ctl[p].w /\ ctl'[p].r = ctl[p].r /\ ctl'[p].events = ctl[p].events
    BY <1>3, <1>4 DEF PageType
  <1>6. QED BY <1>1, <1>2, <1>5, RestStep

LEMMA SendEventStep == ASSUME IInv, send_event PROVE IInv'
  <1>1. d.pc = "update" /\ Updating /\ Head(d.todo) \in Events
    BY DEF send_event, Updating
  <1>2. UNCHANGED <<windows, focused, slot_used, view, ctl, client, sent, got>>
    BY DEF send_event
  <1>3. ctl' \in [Pids -> PageType]
    BY <1>2 DEF IInv, Types
  <1>4. CASE d' = Rest
    BY <1>1, <1>2, <1>3, <1>4, RestStep
  <1>5. CASE Room(Page(d.w)) /\ d' = [d EXCEPT !.pc = "store"]
    <2>1. Page(d.w) = ctl[d.w.pid]
      BY <1>1, UpdatingView DEF Page
    <2>2. d \in DType
      BY DEF IInv, Types
    <2>3. /\ d' \in DType /\ d'.pc = "store" /\ d'.w = d.w /\ d'.todo = d.todo /\ d'.ret = d.ret
      BY <1>5, <2>2 DEF DType, PCs
    <2>4. \A p \in Pids : d'.w.pid = p => ctl[p].w - ctl[p].r < WM_MAX_EVENTS
      BY <1>5, <2>1, <2>3 DEF Room
    <2>5. ~Opening /\ ~Opening' /\ ~Leaving'
      BY <1>1, <2>3 DEF Opening, Leaving
    <2>6. /\ \E k \in DOMAIN windows' : d'.w = windows'[k]
          /\ d'.w.control /\ d'.todo # <<>>
          /\ d'.ret \in {"move", "key", "pass", "poll"}
      BY <1>1, <1>2, <2>3 DEF IInv, DesktopOK, Updating
    <2>7. SameWindows /\ windows' \in Seq(WindowType) /\ focused' \in 0 .. Len(windows)
      BY <1>2 DEF IInv, Types, SameWindows
    <2>8. QED BY <1>1, <1>2, <1>3, <2>3, <2>4, <2>5, <2>6, <2>7, LoopStep
  <1>6. QED BY <1>4, <1>5 DEF send_event

(* The entry written is not one of those that hold events.                 *)
LEMMA StoreStep == ASSUME IInv, store PROVE IInv'
  <1> DEFINE p == d.w.pid
             e == Head(d.todo)
             x == ctl[p].w % WM_MAX_EVENTS
  <1>1. Updating /\ d.pc = "store" /\ ~Opening
    BY DEF store, Updating, Opening
  <1>2. view[d.w.slot] = p /\ p \in Pids
    BY <1>1, UpdatingView
  <1>3. e \in Events
    BY <1>1 DEF IInv, DesktopOK
  <1>4. /\ ctl' = [ctl EXCEPT ![p].events[x] = e]
        /\ d' = [d EXCEPT !.pc = "bump"]
        /\ UNCHANGED <<windows, focused, slot_used, view, client, sent, got>>
    BY <1>2 DEF store, Page
  <1>5. ctl \in [Pids -> PageType] /\ d \in DType /\ ctl[p].w \in Nat /\ ctl[p].r \in Nat
    BY <1>2 DEF IInv, Types, PageType
  <1>6. x \in 0 .. WM_MAX_EVENTS - 1
    BY <1>5, ModRange
  <1>7. /\ d' \in DType /\ d'.pc = "bump" /\ d'.w = d.w /\ d'.todo = d.todo /\ d'.ret = d.ret
    BY <1>4, <1>5 DEF DType, PCs
  <1> HIDE DEF p, e, x
  <1>8. /\ ctl' \in [Pids -> PageType] /\ ctl'[p].events = [ctl[p].events EXCEPT ![x] = e]
        /\ \A q \in Pids : q # p => ctl'[q] = ctl[q]
        /\ \A q \in Pids : /\ ctl'[q].w = ctl[q].w /\ ctl'[q].r = ctl[q].r /\ ctl'[q].state = ctl[q].state
    <2> DEFINE page == [ctl[p] EXCEPT !.events = [ctl[p].events EXCEPT ![x] = e]]
    <2>1. ctl[p] \in PageType
      BY <1>2, <1>5
    <2>2. [ctl[p].events EXCEPT ![x] = e] \in [0 .. WM_MAX_EVENTS - 1 -> Events \cup {"none"}]
      BY <1>3, <2>1 DEF PageType
    <2>3. /\ page \in PageType /\ page.events = [ctl[p].events EXCEPT ![x] = e]
          /\ page.w = ctl[p].w /\ page.r = ctl[p].r /\ page.state = ctl[p].state
      BY <2>1, <2>2 DEF PageType
    <2>4. ctl' = [ctl EXCEPT ![p] = page]
      BY <1>4
    <2> HIDE DEF page
    <2>5. QED BY <1>2, <1>5, <2>3, <2>4
  <1>9. Types'
    BY <1>4, <1>7, <1>8 DEF IInv, Types
  <1>10. ~Opening' /\ ~Leaving' /\ Updating'
    BY <1>7 DEF Opening, Leaving, Updating
  <1>11. WindowsOK' /\ HeldOK'
    BY <1>1, <1>4, <1>9, <1>10, WindowsFrame DEF SameWindows, Alive
  <1>12. ClientsOK'
    BY <1>4, <1>7, <1>10 DEF IInv, ClientsOK
  <1>13. DesktopOK'
    BY <1>1, <1>4, <1>7, <1>10 DEF IInv, DesktopOK, Updating
  <1>14. Rings'
    <2> SUFFICES ASSUME NEW q \in Pids PROVE Ring(q)'
      BY DEF Rings
    <2>1. Ring(q)
      BY DEF IInv, Rings
    <2>2. CASE q # p
      BY <1>4, <1>7, <1>8, <2>1, <2>2 DEF Ring, p
    <2>3. CASE q = p
      <3>1. ctl[p].w - ctl[p].r < WM_MAX_EVENTS
        BY <1>1, <2>1, <2>3 DEF Ring, p
      <3>2. ctl[p].events \in [0 .. WM_MAX_EVENTS - 1 -> Events \cup {"none"}]
        BY <1>2, <1>5 DEF PageType
      <3>3. ctl'[p].events[x] = e
        BY <1>6, <1>8, <3>2
      <3>4. \A k \in ctl[p].r .. ctl[p].w - 1 : ctl'[p].events[k % WM_MAX_EVENTS] = ctl[p].events[k % WM_MAX_EVENTS]
        <4> SUFFICES ASSUME NEW k \in ctl[p].r .. ctl[p].w - 1
                     PROVE  ctl'[p].events[k % WM_MAX_EVENTS] = ctl[p].events[k % WM_MAX_EVENTS]
          OBVIOUS
        <4>1. k \in Nat /\ ctl[p].w \in Nat /\ k < ctl[p].w /\ ctl[p].w - k < WM_MAX_EVENTS
          BY <1>5, <3>1, Constants
        <4>2. k % WM_MAX_EVENTS # x
          BY <4>1, ModDistinct DEF x
        <4>3. k % WM_MAX_EVENTS \in 0 .. WM_MAX_EVENTS - 1
          BY <4>1, ModRange
        <4>4. QED BY <1>8, <3>2, <4>2, <4>3
      <3>5. ctl'[p].events[ctl'[p].w % WM_MAX_EVENTS] = Head(d'.todo)
        BY <1>2, <1>7, <1>8, <3>3 DEF x, e
      <3>6. ctl'[q].w = ctl[q].w /\ ctl'[q].r = ctl[q].r /\ sent'[q] = sent[q] /\ got'[q] = got[q] /\ client'[q] = client[q]
        BY <1>4, <1>8
      <3>7. \A k \in ctl'[q].r .. ctl'[q].w - 1 : ctl'[q].events[k % WM_MAX_EVENTS] = sent'[q][k + 1]
        BY <2>1, <2>3, <3>4, <3>6 DEF Ring
      <3>8. QED BY <2>1, <2>3, <3>1, <3>5, <3>6, <3>7 DEF Ring
    <2>4. QED BY <2>2, <2>3
  <1>15. QED BY <1>9, <1>11, <1>12, <1>13, <1>14 DEF IInv
LEMMA BumpStep == ASSUME IInv, bump PROVE IInv'
  <1> DEFINE p == d.w.pid
             e == Head(d.todo)
  <1>1. Updating /\ d.pc = "bump" /\ ~Opening
    BY DEF bump, Updating, Opening
  <1>2. view[d.w.slot] = p /\ p \in Pids
    BY <1>1, UpdatingView
  <1>3. e \in Events
    BY <1>1 DEF IInv, DesktopOK
  <1>4. /\ ctl' = [ctl EXCEPT ![p].w = @ + 1]
        /\ sent' = [sent EXCEPT ![p] = Append(@, e)]
        /\ d' = [Rest EXCEPT !.pc = IF Tail(d.todo) = <<>> THEN d.ret ELSE "update"]
        /\ UNCHANGED <<windows, focused, slot_used, view, client, got>>
    BY <1>2 DEF bump
  <1>5. ctl \in [Pids -> PageType] /\ ctl[p].w \in Nat /\ ctl[p].r \in Nat /\ sent \in [Pids -> Seq(Events)]
    BY <1>2 DEF IInv, Types, PageType
  <1>6. /\ d' \in DType
        /\ \/ d'.pc \in {"move", "key", "pass", "poll"}
           \/ d'.pc = "update" /\ d'.w = d.w /\ d'.todo # <<>> /\ d'.ret \in {"move", "key", "pass", "poll"}
    <2>1. CASE Tail(d.todo) = <<>>
      BY <1>1, <1>4, <2>1, RestShape DEF DType, PCs
    <2>2. CASE Tail(d.todo) # <<>>
      BY <1>1, <1>4, <2>2, RestShape DEF DType, PCs
    <2>3. QED BY <2>1, <2>2
  <1> HIDE DEF p, e
  <1>7. /\ ctl' \in [Pids -> PageType] /\ ctl'[p].w = ctl[p].w + 1
        /\ \A q \in Pids : q # p => ctl'[q] = ctl[q]
        /\ \A q \in Pids : ctl'[q].events = ctl[q].events /\ ctl'[q].r = ctl[q].r /\ ctl'[q].state = ctl[q].state
    <2> DEFINE page == [ctl[p] EXCEPT !.w = ctl[p].w + 1]
    <2>1. ctl[p] \in PageType /\ ctl[p].w + 1 \in Nat
      BY <1>2, <1>5
    <2>2. /\ page \in PageType /\ page.w = ctl[p].w + 1
          /\ page.events = ctl[p].events /\ page.r = ctl[p].r /\ page.state = ctl[p].state
      BY <2>1 DEF PageType
    <2>3. ctl' = [ctl EXCEPT ![p] = page]
      BY <1>2, <1>4, <1>5
    <2> HIDE DEF page
    <2>4. QED BY <1>2, <1>5, <2>2, <2>3
  <1>8. /\ sent' \in [Pids -> Seq(Events)] /\ sent'[p] = Append(sent[p], e)
        /\ \A q \in Pids : q # p => sent'[q] = sent[q]
    BY <1>2, <1>3, <1>4, <1>5
  <1>9. Types'
    BY <1>4, <1>6, <1>7, <1>8 DEF IInv, Types
  <1>10. ~Opening' /\ ~Leaving' /\ d'.pc \notin {"store", "bump"}
    BY <1>6 DEF Opening, Leaving
  <1>11. WindowsOK' /\ HeldOK'
    BY <1>1, <1>4, <1>9, <1>10, WindowsFrame DEF SameWindows, Alive
  <1>12. client[p].pc # "none"
    <2>1. PICK k \in DOMAIN windows : d.w = windows[k]
      BY <1>1 DEF IInv, DesktopOK
    <2>2. windows[k].control
      BY <1>1, <2>1 DEF IInv, DesktopOK
    <2>3. QED BY <2>1, <2>2 DEF IInv, WindowsOK, p
  <1>13. ClientsOK'
    <2>1. d'.pc # "map"
      BY <1>6
    <2>2. QED BY <1>4, <1>8, <1>10, <1>12, <2>1 DEF IInv, ClientsOK
  <1>14. DesktopOK'
    BY <1>1, <1>4, <1>6, <1>10 DEF IInv, DesktopOK, Updating, Opening
  <1>15. Rings'
    <2> SUFFICES ASSUME NEW q \in Pids PROVE Ring(q)'
      BY DEF Rings
    <2>1. Ring(q)
      BY DEF IInv, Rings
    <2>2. CASE q # p
      BY <1>4, <1>7, <1>8, <1>10, <2>1, <2>2 DEF Ring
    <2>3. CASE q = p
      <3>1. /\ ctl[q].w - ctl[q].r < WM_MAX_EVENTS /\ ctl[q].r <= ctl[q].w
            /\ ctl[q].events[ctl[q].w % WM_MAX_EVENTS] = e
            /\ ctl[q].w = Len(sent[q]) /\ ctl[q].r = Len(got[q])
        BY <1>1, <2>1, <2>3 DEF Ring, p, e
      <3>2. /\ Len(sent'[q]) = Len(sent[q]) + 1 /\ sent'[q][Len(sent[q]) + 1] = e
            /\ \A k \in 1 .. Len(sent[q]) : sent'[q][k] = sent[q][k]
        BY <1>3, <1>5, <1>8, <2>3, AppendProperties
      <3>3. /\ ctl'[q].w = Len(sent'[q]) /\ ctl'[q].r = Len(got'[q])
            /\ ctl'[q].r <= ctl'[q].w /\ ctl'[q].w - ctl'[q].r <= WM_MAX_EVENTS
        BY <1>4, <1>5, <1>7, <2>3, <3>1, <3>2, Constants
      <3>4. \A k \in ctl'[q].r .. ctl'[q].w - 1 : ctl'[q].events[k % WM_MAX_EVENTS] = sent'[q][k + 1]
        <4> SUFFICES ASSUME NEW k \in ctl'[q].r .. ctl'[q].w - 1
                     PROVE  ctl'[q].events[k % WM_MAX_EVENTS] = sent'[q][k + 1]
          OBVIOUS
        <4>1. CASE k = ctl[q].w
          BY <1>7, <2>3, <3>1, <3>2, <4>1
        <4>2. CASE k # ctl[q].w
          <5>1. k \in ctl[q].r .. ctl[q].w - 1 /\ k + 1 \in 1 .. Len(sent[q])
            BY <1>5, <1>7, <2>3, <3>1, <4>2
          <5>2. ctl[q].events[k % WM_MAX_EVENTS] = sent[q][k + 1]
            BY <2>1, <5>1 DEF Ring
          <5>3. QED BY <1>7, <2>3, <3>2, <5>1, <5>2
        <4>3. QED BY <4>1, <4>2
      <3>5. client'[q].pc = "take" => ctl'[q].r < ctl'[q].w /\ client'[q].out = sent'[q][ctl'[q].r + 1]
        <4> SUFFICES ASSUME client[q].pc = "take"
                     PROVE  ctl'[q].r < ctl'[q].w /\ client[q].out = sent'[q][ctl'[q].r + 1]
          BY <1>4
        <4>1. ctl[q].r < ctl[q].w /\ client[q].out = sent[q][ctl[q].r + 1]
          BY <2>1 DEF Ring
        <4>2. ctl[q].r + 1 \in 1 .. Len(sent[q])
          BY <1>5, <2>3, <3>1, <4>1
        <4>3. sent'[q][ctl[q].r + 1] = sent[q][ctl[q].r + 1] /\ ctl'[q].r = ctl[q].r
          BY <1>7, <3>2, <4>2
        <4>4. ctl[q].r < ctl[q].w + 1 /\ ctl'[q].w = ctl[q].w + 1
          BY <1>5, <1>7, <2>3, <4>1
        <4>5. QED BY <4>1, <4>3, <4>4
      <3>6. QED BY <1>10, <3>3, <3>4, <3>5 DEF Ring
    <2>4. QED BY <2>2, <2>3
  <1>16. QED BY <1>9, <1>11, <1>13, <1>14, <1>15 DEF IInv
-----------------------------------------------------------------------------
(* Closing a window.                                                       *)

LEMMA CloseButtonStep == ASSUME IInv, NEW i \in DOMAIN windows, close_button(i) PROVE IInv'
  <1>1. Types /\ ~Opening
    BY DEF IInv, close_button, Pressing, Opening
  <1>2. UNCHANGED <<windows, focused, slot_used, view, client, sent, got>>
    BY DEF close_button
  <1>3. SameWindows /\ windows' \in Seq(WindowType) /\ focused' \in 0 .. Len(windows)
    BY <1>1, <1>2 DEF Types, SameWindows
  <1>4. i \in Nat /\ CloseYields \in Int
    BY <1>1, WindowsDomain, Constants
  <1>5. At("leave") \in DType
    BY AtType DEF PCs
  <1>6. d' \in DType /\ d'.pc = "leave" /\ d'.i = i
    BY <1>4, <1>5 DEF close_button, request_close, DType, At
  <1>7. ~Opening' /\ ~Updating' /\ d'.pc \notin {"store", "bump"}
    BY <1>6 DEF Opening, Updating
  <1>8. ctl \in [Pids -> PageType]
    BY <1>1 DEF Types
  <1>9. /\ ctl' \in [Pids -> PageType]
        /\ \A p \in Pids : ctl'[p].w = ctl[p].w /\ ctl'[p].r = ctl[p].r /\ ctl'[p].events = ctl[p].events
    <2>1. CASE windows[i].control
      <3>1. view[windows[i].slot] \in Pids
        BY <2>1 DEF IInv, WindowsOK
      <3>2. ctl' = [ctl EXCEPT ![view[windows[i].slot]].close = TRUE]
        BY <2>1 DEF close_button, request_close
      <3>3. QED BY <1>8, <3>1, <3>2 DEF PageType
    <2>2. CASE ~windows[i].control
      BY <1>8, <2>2 DEF close_button, request_close
    <2>3. QED BY <2>1, <2>2
  <1>10. QED BY <1>1, <1>2, <1>3, <1>6, <1>7, <1>9, LoopStep

LEMMA LeavingStep ==
    ASSUME IInv, Leaving, d' \in DType, d'.pc \in {"leave", "check", "kill"}, d'.i = d.i,
           UNCHANGED <<windows, focused, slot_used, view, ctl, client, sent, got>>
    PROVE  IInv'
  <1>1. Types /\ ~Opening
    BY DEF IInv, Opening, Leaving
  <1>2. SameWindows /\ windows' \in Seq(WindowType) /\ focused' \in 0 .. Len(windows)
    BY <1>1 DEF Types, SameWindows
  <1>3. ~Opening' /\ ~Updating' /\ d'.pc \notin {"store", "bump"} /\ d'.i \in DOMAIN windows
    BY DEF Opening, Updating, IInv, DesktopOK
  <1>4. ctl' \in [Pids -> PageType]
    BY <1>1 DEF Types
  <1>5. QED BY <1>1, <1>2, <1>3, <1>4, LoopStep

LEMMA AwaitExitStep == ASSUME IInv, await_exit PROVE IInv'
  <1>1. Leaving /\ d \in DType
    BY DEF IInv, Types, Leaving, await_exit
  <1>2. d' \in DType /\ d'.pc \in {"leave", "check", "kill"} /\ d'.i = d.i
    <2>1. d' = [d EXCEPT !.t = @ - 1] \/ d' = [d EXCEPT !.pc = "check", !.t = 0]
      BY DEF await_exit
    <2>2. d.t \in Int /\ d.t - 1 \in Int /\ d.pc = "leave"
      BY <1>1 DEF DType, await_exit
    <2>3. CASE d' = [d EXCEPT !.t = @ - 1]
      BY <1>1, <2>2, <2>3 DEF DType
    <2>4. CASE d' = [d EXCEPT !.pc = "check", !.t = 0]
      <3>1. "check" \in PCs
        BY DEF PCs
      <3>2. 0 \in Int
        OBVIOUS
      <3>3. d' \in DType
        BY <1>1, <2>4, <3>1, <3>2 DEF DType
      <3>4. d'.pc = "check" /\ d'.i = d.i
        BY <1>1, <2>4 DEF DType
      <3>5. QED BY <3>3, <3>4
    <2>5. QED BY <2>1, <2>3, <2>4
  <1>3. QED BY <1>1, <1>2, LeavingStep DEF await_exit
(* Window i leaves the list, its client is gone, its slot and page are     *)
(* given back.                                                             *)
LEMMA RemovedStep ==
    ASSUME IInv, Leaving, Removed(d.i), client' \in [Pids -> ClientType],
           \A p \in Pids : p # windows[d.i].pid => client'[p] = client[p],
           windows[d.i].pid # 0 => client'[windows[d.i].pid].pc = "gone",
           UNCHANGED view
    PROVE  IInv'
  <1> DEFINE n == d.i
             pid == windows[n].pid
             slot == windows[n].slot
  <1>1. /\ Types /\ ~Opening /\ n \in DOMAIN windows
    BY DEF IInv, DesktopOK, Opening, Leaving
  <1>2. Len(windows) \in Nat /\ DOMAIN windows = 1 .. Len(windows) /\ windows \in Seq(WindowType)
    BY <1>1, WindowsDomain DEF Types
  <1>3. pid \in 0 .. MaxPid /\ slot \in Slots
    BY <1>1, WindowsDomain DEF WindowType
  <1>4. /\ slot_used' = [slot_used EXCEPT ![slot] = FALSE] /\ windows' = RemoveAt(windows, n)
        /\ focused' = FocusAfter(n) /\ ctl' = Ended(pid, ctl, NoPage)
        /\ sent' = Ended(pid, sent, <<>>) /\ got' = Ended(pid, got, <<>>) /\ d' = At("move")
    BY DEF Removed
  <1>5. /\ \A p \in Pids : p # pid => client'[p] = client[p]
        /\ pid # 0 => client'[pid].pc = "gone"
    OBVIOUS
  <1> HIDE DEF n, pid, slot
  <1>6. /\ windows' \in Seq(WindowType) /\ Len(windows') = Len(windows) - 1
        /\ \A j \in 1 .. Len(windows) - 1 : windows'[j] = IF j < n THEN windows[j] ELSE windows[j + 1]
    BY <1>1, <1>2, <1>4, RemoveAtShape
  <1>7. DOMAIN windows' = 1 .. Len(windows) - 1
    BY <1>6, LenProperties
  <1>8. d' \in DType /\ d'.pc = "move"
    BY <1>4, LoopAt DEF Loop
  <1>9. /\ ctl' \in [Pids -> PageType] /\ sent' \in [Pids -> Seq(Events)] /\ got' \in [Pids -> Seq(Events)]
        /\ \A p \in Pids : p # pid => ctl'[p] = ctl[p] /\ sent'[p] = sent[p] /\ got'[p] = got[p]
        /\ \A p \in Pids : p = pid => ctl'[p] = NoPage /\ sent'[p] = <<>> /\ got'[p] = <<>>
    <2>1. ctl \in [Pids -> PageType] /\ sent \in [Pids -> Seq(Events)] /\ got \in [Pids -> Seq(Events)]
      BY <1>1 DEF Types
    <2>2. CASE pid = 0
      BY <1>4, <2>1, <2>2, Constants DEF Ended
    <2>3. CASE pid # 0
      <3>1. /\ ctl' = [ctl EXCEPT ![pid] = NoPage] /\ sent' = [sent EXCEPT ![pid] = <<>>]
            /\ got' = [got EXCEPT ![pid] = <<>>]
        BY <1>4, <2>3 DEF Ended
      <3>2. <<>> \in Seq(Events) /\ NoPage \in PageType
        BY NoPageType
      <3>3. QED BY <2>1, <3>1, <3>2
    <2>4. QED BY <2>2, <2>3
  <1>10. slot_used' \in [Slots -> BOOLEAN] /\ slot_used \in [Slots -> BOOLEAN]
    BY <1>1, <1>4 DEF Types
  <1>11. focused' \in 0 .. Len(windows')
    <2>1. focused \in 0 .. Len(windows) /\ n \in 1 .. Len(windows)
      BY <1>1, <1>2 DEF Types
    <2>2. QED BY <1>2, <1>4, <1>6, <2>1 DEF FocusAfter
  <1>12. Types'
    <2>1. Len(windows') <= MAX_WINDOWS /\ view' \in [Slots -> Pids \cup {NONE}]
      BY <1>1, <1>2, <1>6, Constants DEF Types
    <2>2. QED BY <1>6, <1>8, <1>9, <1>10, <1>11, <2>1 DEF Types
  <1>13. ~Opening' /\ ~Updating' /\ ~Leaving' /\ d'.pc \notin {"map", "store", "bump"}
    BY <1>8 DEF Opening, Updating, Leaving
  <1>14. DesktopOK'
    BY <1>8, <1>13 DEF DesktopOK
  (* Every window left was at another index before.                        *)
  <1> DEFINE From(j) == IF j < n THEN j ELSE j + 1
  <1>15. \A j \in DOMAIN windows' : /\ From(j) \in DOMAIN windows /\ From(j) # n /\ windows'[j] = windows[From(j)]
    BY <1>1, <1>2, <1>6, <1>7
  <1>16. \A j, k \in DOMAIN windows' : j # k => From(j) # From(k)
    BY <1>1, <1>2, <1>7
  <1>17. \A i \in DOMAIN windows : i # n => \E j \in DOMAIN windows' : windows'[j] = windows[i]
    <2> SUFFICES ASSUME NEW i \in DOMAIN windows, i # n PROVE \E j \in DOMAIN windows' : windows'[j] = windows[i]
      OBVIOUS
    <2>1. CASE i < n
      BY <1>1, <1>2, <1>6, <1>7, <2>1
    <2>2. CASE i > n
      <3>1. i - 1 \in DOMAIN windows' /\ ~(i - 1 < n) /\ (i - 1) + 1 = i
        BY <1>1, <1>2, <1>7, <2>2
      <3>2. QED BY <1>6, <1>7, <3>1
    <2>3. QED BY <1>1, <1>2, <2>1, <2>2
  <1> HIDE DEF From
  <1>18. \A i \in DOMAIN windows : i # n => windows[i].slot # slot /\ (windows[i].pid # 0 => windows[i].pid # pid)
    BY <1>1 DEF IInv, WindowsOK, slot, pid
  <1>19. \A i \in DOMAIN windows : windows[i].slot \in Slots
    BY <1>1, WindowsDomain DEF WindowType
  <1>20. \A i \in DOMAIN windows : i # n /\ windows[i].control => client'[windows[i].pid] = client[windows[i].pid]
    BY <1>5, <1>18, Constants DEF IInv, WindowsOK
  <1>21. WindowsOK'
    <2>1. ASSUME NEW j \in DOMAIN windows'
          PROVE  /\ slot_used'[windows'[j].slot]
                 /\ IF windows'[j].control
                    THEN /\ windows'[j].pid \in Pids /\ client'[windows'[j].pid].pc # "none"
                         /\ view'[windows'[j].slot] = windows'[j].pid
                    ELSE windows'[j].pid = 0
      <3> DEFINE i == From(j)
      <3>1. i \in DOMAIN windows /\ i # n /\ windows'[j] = windows[i]
        BY <1>15
      <3> HIDE DEF i
      <3>2. slot_used'[windows[i].slot] = slot_used[windows[i].slot]
        BY <1>4, <1>10, <1>18, <1>19, <3>1
      <3>3. QED BY <1>20, <3>1, <3>2 DEF IInv, WindowsOK
    <2>2. ASSUME NEW j \in DOMAIN windows', NEW k \in DOMAIN windows', j # k
          PROVE  /\ windows'[j].slot # windows'[k].slot
                 /\ windows'[j].pid # 0 => windows'[j].pid # windows'[k].pid
      BY <1>15, <1>16, <2>2 DEF IInv, WindowsOK
    <2>3. QED BY <1>13, <2>1, <2>2 DEF WindowsOK
  <1>22. HeldOK'
    <2>1. ASSUME NEW s \in Slots, slot_used'[s] PROVE \E j \in DOMAIN windows' : windows'[j].slot = s
      <3>1. s # slot /\ slot_used[s]
        BY <1>3, <1>4, <1>10, <2>1
      <3>2. PICK i \in DOMAIN windows : windows[i].slot = s
        BY <1>1, <3>1 DEF IInv, HeldOK
      <3>3. i # n
        BY <3>1, <3>2 DEF slot
      <3>4. QED BY <1>17, <3>2, <3>3
    <2>2. ASSUME NEW p \in Pids, Alive(p)' PROVE \E j \in DOMAIN windows' : windows'[j].pid = p
      <3>1. p # pid /\ Alive(p)
        BY <1>5, <2>2, Constants DEF Alive
      <3>2. PICK i \in DOMAIN windows : windows[i].pid = p
        BY <1>1, <3>1 DEF IInv, HeldOK
      <3>3. i # n
        BY <3>1, <3>2 DEF pid
      <3>4. QED BY <1>17, <3>2, <3>3
    <2>3. QED BY <2>1, <2>2 DEF HeldOK
  <1>23. ClientsOK'
    <2>1. \A p \in Pids : client'[p].pc = "none" => sent'[p] = <<>> /\ got'[p] = <<>> /\ \A s \in Slots : view'[s] # p
      BY <1>5, <1>9, Constants DEF IInv, ClientsOK
    <2>2. QED BY <1>13, <2>1 DEF ClientsOK
  <1>24. Rings'
    <2> SUFFICES ASSUME NEW q \in Pids PROVE Ring(q)'
      BY DEF Rings
    <2>1. CASE q # pid
      <3>1. Ring(q)
        BY DEF IInv, Rings
      <3>2. QED BY <1>5, <1>9, <1>13, <2>1, <3>1 DEF Ring
    <2>2. CASE q = pid
      <3>1. client'[q].pc # "take"
        BY <1>5, <2>2, Constants
      <3>2. ctl'[q].w = 0 /\ ctl'[q].r = 0 /\ Len(sent'[q]) = 0 /\ Len(got'[q]) = 0
        BY <1>9, <2>2 DEF NoPage
      <3>3. QED BY <1>13, <3>1, <3>2, Constants DEF Ring
    <2>3. QED BY <2>1, <2>2
  <1>25. QED BY <1>12, <1>14, <1>21, <1>22, <1>23, <1>24 DEF IInv
LEMMA CheckExitStep == ASSUME IInv, check_exit PROVE IInv'
  <1>1. Leaving /\ Types /\ d \in DType /\ d.i \in DOMAIN windows
    BY DEF IInv, Types, DesktopOK, Leaving, check_exit
  <1>2. UNCHANGED <<view, client>>
    BY DEF check_exit
  <1>3. CASE Alive(windows[d.i].pid)
    <2>1. d' = [d EXCEPT !.pc = "kill"] /\ UNCHANGED <<windows, focused, slot_used, ctl, sent, got>>
      BY <1>3 DEF check_exit
    <2>2. d' \in DType /\ d'.pc = "kill" /\ d'.i = d.i
      BY <1>1, <2>1 DEF DType, PCs
    <2>3. QED BY <1>1, <1>2, <2>1, <2>2, LeavingStep
  <1>4. CASE ~Alive(windows[d.i].pid)
    <2>1. Removed(d.i)
      BY <1>4 DEF check_exit
    <2>2. windows[d.i].pid \in Pids /\ client[windows[d.i].pid].pc = "gone"
      BY <1>1, <1>4 DEF IInv, WindowsOK, Alive
    <2>3. client \in [Pids -> ClientType]
      BY <1>1 DEF Types
    <2>4. QED BY <1>1, <1>2, <2>1, <2>2, <2>3, RemovedStep
  <1>5. QED BY <1>3, <1>4

LEMMA KillStep == ASSUME IInv, kill PROVE IInv'
  <1>1. Leaving /\ Types /\ d \in DType /\ d.i \in DOMAIN windows /\ ~Opening
    BY DEF IInv, Types, DesktopOK, Leaving, Opening, kill
  <1>2. UNCHANGED view
    BY DEF kill
  <1>3. CASE Alive(windows[d.i].pid)
    <2>1. Removed(d.i) /\ client' = Killed(windows[d.i].pid)
      BY <1>3 DEF kill
    <2>2. client \in [Pids -> ClientType]
      BY <1>1 DEF Types
    <2>3. windows[d.i].pid \in 0 .. MaxPid
      BY <1>1, WindowsDomain DEF WindowType
    <2> DEFINE pid == windows[d.i].pid
    <2>4. CASE pid = 0
      <3>1. client' = client
        BY <2>1, <2>4 DEF Killed
      <3>2. QED BY <1>1, <1>2, <2>1, <2>2, <2>4, <3>1, RemovedStep
    <2>5. CASE pid # 0
      <3>1. client' = [client EXCEPT ![pid].pc = "gone"] /\ pid \in Pids
        BY <2>1, <2>3, <2>5 DEF Killed, Pids
      <3> HIDE DEF pid
      <3>2. /\ client' \in [Pids -> ClientType] /\ client'[pid].pc = "gone"
            /\ \A p \in Pids : p # pid => client'[p] = client[p]
        BY <2>2, <3>1 DEF ClientType
      <3>3. QED BY <1>1, <1>2, <2>1, <3>2, RemovedStep DEF pid
    <2>6. QED BY <2>4, <2>5
  <1>4. CASE ~Alive(windows[d.i].pid)
    <2>1. d' = At("dead") /\ UNCHANGED <<windows, focused, slot_used, client, ctl, sent, got>>
      BY <1>4 DEF kill
    <2>2. d' \in DType /\ d'.pc = "dead"
      BY <2>1, LoopAt
    <2>3. focused' \in 0 .. Len(windows) /\ Like(windows')
      BY <1>1, <2>1, LikeSelf DEF Types
    <2>4. QED BY <1>1, <1>2, <2>1, <2>2, <2>3, PlainStep
  <1>5. QED BY <1>3, <1>4
-----------------------------------------------------------------------------
(* Opening a window.                                                       *)

(* A free slot means room in the list: there are no more slots than places *)
(* and each window has a slot of its own.                                  *)
LEMMA RoomInList ==
    ASSUME IInv, ~Opening, NEW s \in Slots, ~slot_used[s]
    PROVE  Len(windows) < MAX_WINDOWS
  <1>1. Types
    BY DEF IInv
  <1>2. Len(windows) \in Nat /\ DOMAIN windows = 1 .. Len(windows)
    BY <1>1, WindowsDomain
  <1> DEFINE f == [i \in 1 .. Len(windows) |-> windows[i].slot]
             S == 1 .. Len(windows)
             T == Slots \ {s}
  <1>3. \A i \in S : windows[i].slot \in Slots /\ slot_used[windows[i].slot]
    BY <1>1, <1>2, WindowsDomain DEF IInv, WindowsOK, WindowType
  <1>4. f \in [S -> T]
    BY <1>3
  <1>5. IsFiniteSet(S) /\ Cardinality(S) = Len(windows)
    <2>1. IsFiniteSet(S) /\ Cardinality(S) = IF 1 > Len(windows) THEN 0 ELSE Len(windows) - 1 + 1
      BY <1>2, FS_Interval
    <2> HIDE DEF S
    <2>2. QED BY <1>2, <2>1
  <1>6. IsFiniteSet(Slots) /\ Cardinality(Slots) = WM_MAX_SLOTS
    BY FS_Interval, Constants DEF Slots
  <1>7. IsFiniteSet(T) /\ Cardinality(T) = WM_MAX_SLOTS - 1
    BY <1>6, FS_RemoveElement
  <1>8. \A i, j \in S : i # j => f[i] # f[j]
    BY <1>2 DEF IInv, WindowsOK
  <1> HIDE DEF f, S, T
  <1>9. ~(Cardinality(T) < Cardinality(S))
    BY <1>4, <1>5, <1>7, <1>8, FS_PigeonHole
  <1>10. QED BY <1>2, <1>5, <1>7, <1>9, Constants

LEMMA AddedShape ==
    ASSUME Types, NEW w \in WindowType, Added(w)
    PROVE  /\ windows' \in Seq(WindowType) /\ Len(windows') = Len(windows) + 1
           /\ DOMAIN windows' = 1 .. Len(windows) + 1 /\ focused' \in 0 .. Len(windows')
           /\ \A i \in DOMAIN windows : i \in DOMAIN windows' /\ windows'[i] = windows[i]
           /\ \A i \in DOMAIN windows' : i \in DOMAIN windows \/ i = Len(windows) + 1
           /\ Len(windows) + 1 \in DOMAIN windows' /\ Len(windows) + 1 \notin DOMAIN windows
           /\ windows'[Len(windows) + 1] = w
  <1>1. Len(windows) \in Nat /\ DOMAIN windows = 1 .. Len(windows) /\ windows \in Seq(WindowType)
    BY WindowsDomain DEF Types
  <1>2. /\ windows' \in Seq(WindowType) /\ Len(windows') = Len(windows) + 1
        /\ \A i \in 1 .. Len(windows) : windows'[i] = windows[i]
        /\ windows'[Len(windows) + 1] = w /\ focused' = Len(windows) + 1
    BY <1>1, AppendProperties DEF Added
  <1>3. DOMAIN windows' = 1 .. Len(windows')
    BY <1>2, LenProperties
  <1>4. QED BY <1>1, <1>2, <1>3

LEMMA SpawnFailsStep ==
    ASSUME IInv, ~Opening, NEW s \in Slots, ~slot_used[s], NEW ret \in {"move", "press"},
           slot_used' = [slot_used EXCEPT ![s] = TRUE], SpawnFails(s, ret),
           UNCHANGED <<view, ctl, sent, got>>
    PROVE  IInv'
  <1> DEFINE w == [NoWindow EXCEPT !.slot = s]
  <1>1. Types /\ Len(windows) \in Nat /\ Len(windows) < MAX_WINDOWS
    BY RoomInList, WindowsDomain DEF IInv
  <1>2. w \in WindowType /\ w.slot = s /\ w.pid = 0 /\ ~w.control
    <2>1. 0 \in 0 .. MaxPid
      BY Constants
    <2>2. QED BY <2>1 DEF NoWindow, WindowType
  <1>3. Added(w) /\ d' = At(ret) /\ UNCHANGED client
    BY DEF SpawnFails
  <1> HIDE DEF w
  <1>4. /\ windows' \in Seq(WindowType) /\ Len(windows') = Len(windows) + 1
        /\ focused' \in 0 .. Len(windows')
        /\ \A i \in DOMAIN windows : i \in DOMAIN windows' /\ windows'[i] = windows[i]
        /\ \A i \in DOMAIN windows' : i \in DOMAIN windows \/ i = Len(windows) + 1
        /\ Len(windows) + 1 \in DOMAIN windows' /\ Len(windows) + 1 \notin DOMAIN windows
        /\ windows'[Len(windows) + 1] = w
    BY <1>1, <1>2, <1>3, AddedShape
  <1>5. d' \in DType /\ d'.pc \in {"move", "press"}
    BY <1>3, LoopAt DEF Loop
  <1>6. ~Opening' /\ ~Updating' /\ ~Leaving' /\ d'.pc \notin {"map", "store", "bump"}
    BY <1>5 DEF Opening, Updating, Leaving
  <1>7. slot_used \in [Slots -> BOOLEAN] /\ slot_used' \in [Slots -> BOOLEAN]
    BY <1>1 DEF Types
  <1>8. Types'
    BY <1>1, <1>3, <1>4, <1>5, <1>7, Constants DEF Types
  <1>9. DesktopOK'
    BY <1>5, <1>6 DEF DesktopOK
  <1>10. \A i \in DOMAIN windows : windows[i].slot \in Slots /\ windows[i].slot # s
    BY <1>1, WindowsDomain DEF IInv, WindowsOK, WindowType
  <1>11. WindowsOK'
    <2>1. \A i \in DOMAIN windows' : /\ slot_used'[windows'[i].slot]
                                     /\ IF windows'[i].control
                                        THEN /\ windows'[i].pid \in Pids /\ client'[windows'[i].pid].pc # "none"
                                             /\ view'[windows'[i].slot] = windows'[i].pid
                                        ELSE windows'[i].pid = 0
      BY <1>2, <1>3, <1>4, <1>7, <1>10 DEF IInv, WindowsOK
    <2>2. \A i, j \in DOMAIN windows' : i # j => /\ windows'[i].slot # windows'[j].slot
                                                 /\ windows'[i].pid # 0 => windows'[i].pid # windows'[j].pid
      BY <1>2, <1>4, <1>10 DEF IInv, WindowsOK
    <2>3. QED BY <1>6, <2>1, <2>2 DEF WindowsOK
  <1>12. HeldOK'
    <2>1. \A t \in Slots : slot_used'[t] => t = s \/ slot_used[t]
      BY <1>7
    <2>2. \A p \in Pids : Alive(p)' => Alive(p)
      BY <1>3 DEF Alive
    <2>3. QED BY <1>2, <1>4, <1>6, <2>1, <2>2 DEF IInv, HeldOK
  <1>13. ClientsOK'
    BY <1>3, <1>6 DEF IInv, ClientsOK
  <1>14. Rings'
    BY <1>3, <1>6, RingsFrame DEF IInv
  <1>15. QED BY <1>8, <1>9, <1>11, <1>12, <1>13, <1>14 DEF IInv
LEMMA SpawnedStep ==
    ASSUME IInv, ~Opening, NEW s \in Slots, ~slot_used[s], NEW ret \in {"move", "press"},
           slot_used' = [slot_used EXCEPT ![s] = TRUE], Spawned(s, ret),
           UNCHANGED <<view, ctl, sent, got>>
    PROVE  IInv'
  <1>1. Types /\ Len(windows) < MAX_WINDOWS
    BY RoomInList DEF IInv
  <1> DEFINE w(p) == [NoWindow EXCEPT !.slot = s, !.pid = p, !.control = TRUE]
  <1>2. PICK p \in Pids : /\ client[p].pc = "none" /\ client' = [client EXCEPT ![p].pc = "ready"]
                         /\ d' = [At("map") EXCEPT !.w = w(p), !.ret = ret]
    BY DEF Spawned
  <1>3. UNCHANGED <<windows, focused>>
    BY DEF Spawned
  <1>4. w(p) \in WindowType /\ w(p).slot = s /\ w(p).pid = p /\ w(p).control
    <2>1. p \in 0 .. MaxPid
      BY DEF Pids
    <2>2. w(p).slot = s /\ w(p).pid = p /\ w(p).control
      BY DEF NoWindow
    <2>3. QED BY <2>1, <2>2 DEF NoWindow, WindowType
  <1> HIDE DEF w
  <1>5. w(p) \in AnyWindow
    BY <1>4 DEF WindowType, AnyWindow
  <1>6. "map" \in PCs /\ ret \in PCs
    BY DEF PCs
  <1>7. At("map") \in DType
    BY <1>6, AtType
  <1>8. d' \in DType /\ d'.pc = "map" /\ d'.w = w(p) /\ d'.ret = ret
    <2>1. At("map").pc = "map"
      BY <1>6, AtType
    <2>2. QED BY <1>2, <1>5, <1>6, <1>7, <2>1 DEF DType
  <1>9. Opening' /\ ~Updating' /\ ~Leaving'
    BY <1>8 DEF Opening, Updating, Leaving
  <1>10. client \in [Pids -> ClientType]
    BY <1>1 DEF Types
  <1>11. /\ client' \in [Pids -> ClientType] /\ client'[p].pc = "ready"
         /\ \A q \in Pids : q # p => client'[q] = client[q]
    BY <1>2, <1>10 DEF ClientType
  <1>12. slot_used \in [Slots -> BOOLEAN] /\ slot_used' \in [Slots -> BOOLEAN]
    BY <1>1 DEF Types
  <1>13. Types'
    BY <1>1, <1>3, <1>8, <1>11, <1>12 DEF Types
  <1>14. \A t \in Slots : view[t] # p
    BY <1>2 DEF IInv, ClientsOK
  <1>15. DesktopOK'
    BY <1>1, <1>3, <1>4, <1>8, <1>9, <1>14 DEF DesktopOK
  <1>16. \A i \in DOMAIN windows : windows[i].slot \in Slots /\ windows[i].slot # s /\ windows[i].pid # p
    BY <1>1, <1>2, WindowsDomain, Constants DEF IInv, WindowsOK, WindowType
  <1>17. WindowsOK'
    <2>1. \A i \in DOMAIN windows' : /\ slot_used'[windows'[i].slot]
                                     /\ IF windows'[i].control
                                        THEN /\ windows'[i].pid \in Pids /\ client'[windows'[i].pid].pc # "none"
                                             /\ view'[windows'[i].slot] = windows'[i].pid
                                        ELSE windows'[i].pid = 0
      BY <1>3, <1>11, <1>12, <1>16 DEF IInv, WindowsOK
    <2>2. /\ slot_used'[d'.w.slot] /\ client'[d'.w.pid].pc # "none"
          /\ \A i \in DOMAIN windows' : windows'[i].slot # d'.w.slot /\ windows'[i].pid # d'.w.pid
      BY <1>3, <1>4, <1>8, <1>11, <1>12, <1>16
    <2>3. QED BY <1>3, <2>1, <2>2 DEF IInv, WindowsOK
  <1>18. HeldOK'
    <2>1. \A t \in Slots : slot_used'[t] => t = s \/ slot_used[t]
      BY <1>12
    <2>2. \A q \in Pids : Alive(q)' => q = p \/ Alive(q)
      BY <1>11 DEF Alive
    <2>3. QED BY <1>3, <1>4, <1>8, <1>9, <2>1, <2>2 DEF IInv, HeldOK
  <1>19. ClientsOK'
    <2>1. sent[p] = <<>> /\ got[p] = <<>>
      BY <1>2 DEF IInv, ClientsOK
    <2>2. \A q \in Pids : client'[q].pc = "none" => sent'[q] = <<>> /\ got'[q] = <<>> /\ \A t \in Slots : view'[t] # q
      BY <1>11 DEF IInv, ClientsOK
    <2>3. QED BY <1>4, <1>8, <1>11, <2>1, <2>2 DEF ClientsOK
  <1>20. Rings'
    <2>1. \A q \in Pids : client'[q].pc = "take" => client'[q] = client[q]
      BY <1>11
    <2>2. QED BY <1>8, <2>1, RingsFrame DEF IInv
  <1>21. QED BY <1>13, <1>15, <1>17, <1>18, <1>19, <1>20 DEF IInv

LEMMA AddExternalStep ==
    ASSUME IInv, ~Opening, NEW ret \in {"move", "press"}, window_add_external(ret),
           UNCHANGED <<view, ctl, sent, got>>
    PROVE  IInv'
  <1>1. CASE d' = At(ret) /\ UNCHANGED <<windows, focused, slot_used, client>>
    <2>1. d' \in DType /\ d'.pc \in Loop
      BY <1>1, LoopAt DEF Loop
    <2>2. focused' \in 0 .. Len(windows) /\ Like(windows')
      BY <1>1, LikeSelf DEF IInv, Types
    <2>3. QED BY <1>1, <2>1, <2>2, PlainStep
  <1>2. ASSUME NEW s \in FreeSlot, slot_used' = [slot_used EXCEPT ![s] = TRUE],
               IF Len(windows) >= MAX_WINDOWS
               THEN d' = At(ret) /\ UNCHANGED <<windows, focused, client>>
               ELSE SpawnFails(s, ret) \/ Spawned(s, ret)
        PROVE  IInv'
    <2>1. s \in Slots /\ ~slot_used[s]
      BY DEF FreeSlot
    <2>2. Len(windows) < MAX_WINDOWS /\ Len(windows) \in Nat
      BY <2>1, RoomInList, WindowsDomain DEF IInv
    <2>3. SpawnFails(s, ret) \/ Spawned(s, ret)
      BY <1>2, <2>2, Constants
    <2>4. QED BY <1>2, <2>1, <2>3, SpawnFailsStep, SpawnedStep
  <1>3. QED BY <1>1, <1>2 DEF window_add_external

(* The steps between the launch and the list: the page is the client's own *)
(* and nobody puts an event into it yet.                                   *)
LEMMA OpeningStep ==
    ASSUME IInv, Opening, d' \in DType, d'.pc \in {"setup", "offer", "await", "connect"},
           d'.w = d.w, d'.ret = d.ret,
           view' = [view EXCEPT ![d.w.slot] = d.w.pid],
           ctl' \in [Pids -> PageType], \A p \in Pids : p # d.w.pid => ctl'[p] = ctl[p],
           ctl'[d.w.pid].w = 0, ctl'[d.w.pid].r = 0,
           client[d.w.pid].pc = "wait" => ctl'[d.w.pid].state # "CONNECTED",
           UNCHANGED <<windows, focused, slot_used, client, sent, got>>
    PROVE  IInv'
  <1>1. Types /\ d.w \in WindowType /\ d.w.pid \in Pids /\ d.w.slot \in Slots
    BY DEF IInv, DesktopOK, WindowType
  <1>2. Opening' /\ ~Updating' /\ ~Leaving' /\ d'.pc \notin {"map", "store", "bump"}
    BY DEF Opening, Updating, Leaving
  <1>3. view' \in [Slots -> Pids \cup {NONE}] /\ view \in [Slots -> Pids \cup {NONE}]
    BY <1>1 DEF Types
  <1>4. Types'
    BY <1>1, <1>3 DEF Types
  <1>5. DesktopOK'
    BY <1>1, <1>2, <1>3 DEF IInv, DesktopOK
  <1>6. \A i \in DOMAIN windows : windows[i].slot \in Slots /\ windows[i].slot # d.w.slot
    BY <1>1, WindowsDomain DEF IInv, WindowsOK, WindowType
  <1>7. \A i \in DOMAIN windows : view'[windows[i].slot] = view[windows[i].slot]
    BY <1>3, <1>6
  <1>8. WindowsOK'
    BY <1>7 DEF IInv, WindowsOK
  <1>9. HeldOK'
    BY <1>2 DEF IInv, HeldOK, Alive
  <1>10. ClientsOK'
    <2>1. client[d.w.pid].pc # "none"
      BY DEF IInv, WindowsOK
    <2>2. \A q \in Pids : client'[q].pc = "none" => sent'[q] = <<>> /\ got'[q] = <<>> /\ \A t \in Slots : view'[t] # q
      BY <1>3, <2>1 DEF IInv, ClientsOK
    <2>3. QED BY <1>2, <2>2 DEF IInv, ClientsOK
  <1>11. Rings'
    <2> SUFFICES ASSUME NEW q \in Pids PROVE Ring(q)'
      BY DEF Rings
    <2>1. CASE q # d.w.pid
      <3>1. Ring(q)
        BY DEF IInv, Rings
      <3>2. QED BY <1>2, <2>1, <3>1 DEF Ring
    <2>2. CASE q = d.w.pid
      <3>1. client'[q].pc # "take"
        BY <2>2 DEF IInv, ClientsOK
      <3>2. sent[q] = <<>> /\ got[q] = <<>>
        BY <2>2 DEF IInv, ClientsOK
      <3>3. ctl'[q].w = 0 /\ ctl'[q].r = 0 /\ Len(sent'[q]) = 0 /\ Len(got'[q]) = 0
        BY <2>2, <3>2
      <3>4. QED BY <1>2, <3>1, <3>3, Constants DEF Ring
    <2>3. QED BY <2>1, <2>2
  <1>12. QED BY <1>4, <1>5, <1>8, <1>9, <1>10, <1>11 DEF IInv

LEMMA MapStep == ASSUME IInv, map_shm_pages PROVE IInv'
  <1>1. Opening /\ d.pc = "map" /\ d \in DType /\ ctl \in [Pids -> PageType] /\ d.w.pid \in Pids
    BY DEF map_shm_pages, Opening, IInv, DesktopOK, Types
  <1>2. PICK s \in {"INIT", "READY", "ACK", "CONNECTED"} : ctl' = [ctl EXCEPT ![d.w.pid] = [NoPage EXCEPT !.state = s]]
    BY DEF map_shm_pages
  <1> DEFINE page == [NoPage EXCEPT !.state = s]
  <1>3. page \in PageType /\ page.w = 0 /\ page.r = 0
    BY NoPageType DEF NoPage, PageType
  <1>4. ctl' = [ctl EXCEPT ![d.w.pid] = page]
    BY <1>2
  <1> HIDE DEF page
  <1>5. /\ ctl' \in [Pids -> PageType] /\ ctl'[d.w.pid].w = 0 /\ ctl'[d.w.pid].r = 0
        /\ \A p \in Pids : p # d.w.pid => ctl'[p] = ctl[p]
    BY <1>1, <1>3, <1>4
  <1>6. "setup" \in PCs
    BY DEF PCs
  <1>7. d' \in DType /\ d'.pc = "setup" /\ d'.w = d.w /\ d'.ret = d.ret
    BY <1>1, <1>6 DEF map_shm_pages, DType
  <1>8. client[d.w.pid].pc # "wait"
    BY <1>1 DEF IInv, ClientsOK
  <1>9. QED BY <1>1, <1>5, <1>7, <1>8, OpeningStep DEF map_shm_pages

LEMMA StatePage ==
    ASSUME NEW c \in PageType, NEW st \in {"INIT", "READY", "ACK", "CONNECTED"}
    PROVE  /\ [c EXCEPT !.state = st] \in PageType /\ [c EXCEPT !.state = st].state = st
           /\ [c EXCEPT !.state = st].w = c.w /\ [c EXCEPT !.state = st].r = c.r
           /\ [c EXCEPT !.state = st].events = c.events
  BY DEF PageType

LEMMA OpeningPage ==
    ASSUME IInv, d.pc \in {"setup", "offer", "await", "connect"}
    PROVE  /\ Opening /\ d \in DType /\ d.w \in WindowType /\ d.w.pid \in Pids /\ d.w.slot \in Slots
           /\ view[d.w.slot] = d.w.pid /\ view = [view EXCEPT ![d.w.slot] = d.w.pid]
           /\ ctl \in [Pids -> PageType] /\ ctl[d.w.pid].w = 0 /\ ctl[d.w.pid].r = 0
  <1>1. Opening /\ Types /\ ctl \in [Pids -> PageType] /\ d \in DType
    BY DEF IInv, Opening, Types
  <1>2. d.w \in WindowType /\ d.w.pid \in Pids /\ d.w.slot \in Slots /\ view[d.w.slot] = d.w.pid
    BY <1>1 DEF IInv, DesktopOK, WindowType
  <1>3. view = [view EXCEPT ![d.w.slot] = d.w.pid]
    BY <1>1, <1>2 DEF Types
  <1>4. Ring(d.w.pid) /\ sent[d.w.pid] = <<>> /\ got[d.w.pid] = <<>>
    BY <1>1, <1>2 DEF IInv, Rings, ClientsOK
  <1>5. ctl[d.w.pid].w = 0 /\ ctl[d.w.pid].r = 0
    BY <1>4 DEF Ring
  <1>6. QED BY <1>1, <1>2, <1>3, <1>5

LEMMA SetupStep == ASSUME IInv, setup_shm_control PROVE IInv'
  <1>1. d.pc \in {"setup", "offer", "await", "connect"} /\ "offer" \in PCs
    BY DEF setup_shm_control, PCs
  <1>2. /\ Opening /\ d \in DType /\ d.w.pid \in Pids /\ ctl \in [Pids -> PageType]
        /\ view[d.w.slot] = d.w.pid /\ view = [view EXCEPT ![d.w.slot] = d.w.pid]
    BY <1>1, OpeningPage
  <1>3. NoPage \in PageType /\ NoPage.w = 0 /\ NoPage.r = 0 /\ NoPage.state # "CONNECTED"
    BY NoPageType DEF NoPage
  <1>4. ctl' = [ctl EXCEPT ![d.w.pid] = NoPage]
    BY <1>2 DEF setup_shm_control
  <1>5. /\ ctl' \in [Pids -> PageType] /\ ctl'[d.w.pid].w = 0 /\ ctl'[d.w.pid].r = 0
        /\ ctl'[d.w.pid].state # "CONNECTED"
        /\ \A p \in Pids : p # d.w.pid => ctl'[p] = ctl[p]
    BY <1>2, <1>3, <1>4
  <1>6. d' \in DType /\ d'.pc = "offer" /\ d'.w = d.w /\ d'.ret = d.ret
    BY <1>1, <1>2 DEF setup_shm_control, DType
  <1>7. view' = [view EXCEPT ![d.w.slot] = d.w.pid]
    BY <1>2 DEF setup_shm_control
  <1>8. UNCHANGED <<windows, focused, slot_used, client, sent, got>>
    BY DEF setup_shm_control
  <1>9. QED BY <1>2, <1>5, <1>6, <1>7, <1>8, OpeningStep

LEMMA OfferStep == ASSUME IInv, offer PROVE IInv'
  <1>1. d.pc \in {"setup", "offer", "await", "connect"} /\ "await" \in PCs
    BY DEF offer, PCs
  <1>2. /\ Opening /\ d \in DType /\ d.w.pid \in Pids /\ ctl \in [Pids -> PageType]
        /\ view[d.w.slot] = d.w.pid /\ view = [view EXCEPT ![d.w.slot] = d.w.pid]
        /\ ctl[d.w.pid].w = 0 /\ ctl[d.w.pid].r = 0
    BY <1>1, OpeningPage
  <1> DEFINE page == [ctl[d.w.pid] EXCEPT !.state = "READY"]
  <1>3. page \in PageType /\ page.w = 0 /\ page.r = 0 /\ page.state # "CONNECTED"
    <2>1. ctl[d.w.pid] \in PageType
      BY <1>2
    <2>2. page \in PageType /\ page.w = ctl[d.w.pid].w /\ page.r = ctl[d.w.pid].r /\ page.state = "READY"
      BY <2>1, StatePage
    <2> HIDE DEF page
    <2>3. QED BY <1>2, <2>2
  <1>4. ctl' = [ctl EXCEPT ![d.w.pid] = page]
    BY <1>2 DEF offer
  <1> HIDE DEF page
  <1>5. /\ ctl' \in [Pids -> PageType] /\ ctl'[d.w.pid].w = 0 /\ ctl'[d.w.pid].r = 0
        /\ ctl'[d.w.pid].state # "CONNECTED"
        /\ \A p \in Pids : p # d.w.pid => ctl'[p] = ctl[p]
    BY <1>2, <1>3, <1>4
  <1>6. d' \in DType /\ d'.pc = "await" /\ d'.w = d.w /\ d'.ret = d.ret
    <2>1. ConnectYields \in Int /\ d' = [d EXCEPT !.pc = "await", !.t = ConnectYields]
      BY Constants DEF offer
    <2>2. QED BY <1>1, <1>2, <2>1 DEF DType
  <1>7. view' = [view EXCEPT ![d.w.slot] = d.w.pid]
    BY <1>2 DEF offer
  <1>8. UNCHANGED <<windows, focused, slot_used, client, sent, got>>
    BY DEF offer
  <1>9. QED BY <1>2, <1>5, <1>6, <1>7, <1>8, OpeningStep

LEMMA AwaitStep == ASSUME IInv, await PROVE IInv'
  <1>1. d.pc \in {"setup", "offer", "await", "connect"} /\ "connect" \in PCs
    BY DEF await, PCs
  <1>2. /\ Opening /\ d \in DType /\ d.w.pid \in Pids /\ ctl \in [Pids -> PageType]
        /\ view = [view EXCEPT ![d.w.slot] = d.w.pid]
        /\ ctl[d.w.pid].w = 0 /\ ctl[d.w.pid].r = 0
    BY <1>1, OpeningPage
  <1>3. d' \in DType /\ d'.pc \in {"await", "connect"} /\ d'.w = d.w /\ d'.ret = d.ret
    <2>1. d.t \in Int /\ d.t - 1 \in Int /\ 0 \in Int
      BY <1>2 DEF DType
    <2>2. d.pc = "await" /\ d' \in {[d EXCEPT !.t = d.t - 1], [d EXCEPT !.pc = "connect", !.t = 0]}
      BY DEF await, Counted
    <2>3. CASE d' = [d EXCEPT !.t = d.t - 1]
      BY <1>2, <2>1, <2>2, <2>3 DEF DType
    <2>4. CASE d' = [d EXCEPT !.pc = "connect", !.t = 0]
      <3>1. d \in DType /\ "connect" \in PCs
        BY <1>1, <1>2
      <3> DEFINE x == [d EXCEPT !.pc = "connect"]
      <3>2. d' = [x EXCEPT !.t = 0]
        BY <2>4
      <3>3. x \in DType /\ x.pc = "connect" /\ x.w = d.w /\ x.ret = d.ret
        BY <3>1 DEF DType
      <3> HIDE DEF x
      <3>4. d' \in DType /\ d'.pc = x.pc /\ d'.w = x.w /\ d'.ret = x.ret
        BY <3>2, <3>3 DEF DType
      <3>5. QED BY <3>3, <3>4
    <2>5. QED BY <2>2, <2>3, <2>4
  <1>4. client[d.w.pid].pc = "wait" => ctl[d.w.pid].state # "CONNECTED"
    BY <1>2 DEF IInv, ClientsOK
  <1>5. UNCHANGED <<windows, focused, slot_used, view, ctl, client, sent, got>>
    BY DEF await
  <1>6. view' = [view EXCEPT ![d.w.slot] = d.w.pid]
    BY <1>2, <1>5
  <1>7. QED BY <1>2, <1>3, <1>4, <1>5, <1>6, OpeningStep

LEMMA ConnectStep == ASSUME IInv, connect PROVE IInv'
  <1> DEFINE w == d.w
             n == Len(windows) + 1
  <1>1. d.pc \in {"setup", "offer", "await", "connect"}
    BY DEF connect
  <1>2. /\ Opening /\ w \in WindowType /\ w.pid \in Pids /\ w.slot \in Slots
        /\ view[w.slot] = w.pid /\ ctl \in [Pids -> PageType]
    BY <1>1, OpeningPage
  <1>3. Types /\ w.control /\ Len(windows) < MAX_WINDOWS /\ d.ret \in {"move", "press"}
    BY <1>2 DEF IInv, DesktopOK
  <1>4. Added(w) /\ d' = At(d.ret) /\ UNCHANGED <<slot_used, view, client, sent, got>>
    BY DEF connect
  <1>5. /\ windows' \in Seq(WindowType) /\ Len(windows') = Len(windows) + 1
        /\ focused' \in 0 .. Len(windows')
        /\ \A i \in DOMAIN windows : i \in DOMAIN windows' /\ windows'[i] = windows[i]
        /\ \A i \in DOMAIN windows' : i \in DOMAIN windows \/ i = n
        /\ n \in DOMAIN windows' /\ n \notin DOMAIN windows /\ windows'[n] = w
    BY <1>2, <1>3, <1>4, AddedShape
  <1> DEFINE page == [ctl[w.pid] EXCEPT !.state = "CONNECTED"]
  <1>6. /\ ctl' \in [Pids -> PageType]
        /\ \A p \in Pids : /\ ctl'[p].w = ctl[p].w /\ ctl'[p].r = ctl[p].r
                           /\ ctl'[p].events = ctl[p].events
    <2>1. page \in PageType /\ page.w = ctl[w.pid].w /\ page.r = ctl[w.pid].r /\ page.events = ctl[w.pid].events
      BY <1>2, StatePage
    <2>2. ctl' = [ctl EXCEPT ![w.pid] = page] \/ ctl' = ctl
      BY <1>2 DEF connect
    <2> HIDE DEF page
    <2>3. QED BY <1>2, <2>1, <2>2
  <1>7. d' \in DType /\ d'.pc \in {"move", "press"}
    BY <1>3, <1>4, LoopAt DEF Loop
  <1>8. ~Opening' /\ ~Updating' /\ ~Leaving' /\ d'.pc \notin {"map", "store", "bump"}
    BY <1>7 DEF Opening, Updating, Leaving
  <1>9. Len(windows) \in Nat /\ MAX_WINDOWS \in Nat
    BY <1>3, WindowsDomain, Constants
  <1>10. Types'
    BY <1>3, <1>4, <1>5, <1>6, <1>7, <1>9 DEF Types
  <1>11. DesktopOK'
    BY <1>7, <1>8 DEF DesktopOK
  <1>12. /\ slot_used[w.slot] /\ client[w.pid].pc # "none"
         /\ \A i \in DOMAIN windows : windows[i].slot # w.slot /\ windows[i].pid # w.pid
    BY <1>2 DEF IInv, WindowsOK
  <1> HIDE DEF n, w
  <1>13. WindowsOK'
    <2>1. \A i \in DOMAIN windows' : /\ slot_used'[windows'[i].slot]
                                     /\ IF windows'[i].control
                                        THEN /\ windows'[i].pid \in Pids /\ client'[windows'[i].pid].pc # "none"
                                             /\ view'[windows'[i].slot] = windows'[i].pid
                                        ELSE windows'[i].pid = 0
      BY <1>2, <1>3, <1>4, <1>5, <1>12 DEF IInv, WindowsOK
    <2>2. \A i, j \in DOMAIN windows' : i # j => /\ windows'[i].slot # windows'[j].slot
                                                 /\ windows'[i].pid # 0 => windows'[i].pid # windows'[j].pid
      BY <1>5, <1>12 DEF IInv, WindowsOK
    <2>3. QED BY <1>8, <2>1, <2>2 DEF WindowsOK
  <1>14. HeldOK'
    <2>1. \A p \in Pids : Alive(p)' => Alive(p)
      BY <1>4 DEF Alive
    <2>2. \A i \in DOMAIN windows : windows'[i] = windows[i] /\ i \in DOMAIN windows'
      BY <1>5
    <2>3. \A s \in Slots : slot_used'[s] => \E i \in DOMAIN windows' : windows'[i].slot = s
      BY <1>4, <1>5, <2>2 DEF IInv, HeldOK, w
    <2>4. \A p \in Pids : Alive(p)' => \E i \in DOMAIN windows' : windows'[i].pid = p
      BY <1>5, <2>1, <2>2 DEF IInv, HeldOK, w
    <2>5. QED BY <2>3, <2>4 DEF HeldOK
  <1>15. ClientsOK'
    BY <1>4, <1>8 DEF IInv, ClientsOK
  <1>16. Rings'
    BY <1>4, <1>6, <1>8, RingsFrame DEF IInv
  <1>17. QED BY <1>10, <1>11, <1>13, <1>14, <1>15, <1>16 DEF IInv

LEMMA StartMenuStep == ASSUME IInv, start_menu PROVE IInv'
  <1>1. ~Opening
    BY DEF start_menu, Pressing, Opening
  <1>2. QED BY <1>1, AddExternalStep DEF start_menu

LEMMA PollMessagesStep == ASSUME IInv, desktop_poll_messages PROVE IInv'
  <1>1. ~Opening
    BY DEF desktop_poll_messages, Opening
  <1>2. CASE d' = At("press") /\ UNCHANGED <<windows, focused, slot_used, client>>
    <2>1. d' \in DType /\ d'.pc \in Loop \cup {"dead"}
      BY <1>2, LoopAt DEF Loop
    <2>2. focused' \in 0 .. Len(windows) /\ Like(windows')
      BY <1>2, LikeSelf DEF IInv, Types
    <2>3. QED BY <1>1, <1>2, <2>1, <2>2, PlainStep DEF desktop_poll_messages
  <1>3. CASE window_add_external("press")
    BY <1>1, <1>3, AddExternalStep DEF desktop_poll_messages
  <1>4. QED BY <1>2, <1>3 DEF desktop_poll_messages
-----------------------------------------------------------------------------
(* The clients.                                                            *)

LEMMA ClientFrame ==
    ASSUME IInv, NEW p \in Pids, DesktopKept, Alive(p),
           client' \in [Pids -> ClientType], ctl' \in [Pids -> PageType], got' \in [Pids -> Seq(Events)],
           \A q \in Pids : q # p => client'[q] = client[q] /\ ctl'[q] = ctl[q] /\ got'[q] = got[q],
           client'[p].pc # "none", Ring(p)',
           Opening /\ d.w.pid = p => /\ client'[p].pc \in {"ready", "ack", "wait", "gone"}
                                     /\ client'[p].pc = "wait" => ctl'[p].state # "CONNECTED"
                                     /\ got'[p] = <<>>,
           d.pc = "map" /\ d.w.pid = p => client'[p].pc \in {"ready", "gone"}
    PROVE  IInv'
  <1>1. UNCHANGED <<windows, focused, slot_used, view, d, sent>>
    BY DEF DesktopKept
  <1>2. Types'
    BY <1>1 DEF IInv, Types
  <1>3. DesktopOK'
    BY <1>1 DEF IInv, DesktopOK, Opening, Updating, Leaving
  <1>4. \A q \in Pids : client'[q].pc = "none" => client[q].pc = "none" /\ q # p
    OBVIOUS
  <1>5. (Opening <=> Opening') /\ (Opening => d.w.pid \in Pids)
    BY <1>1 DEF IInv, DesktopOK, Opening
  <1>6. WindowsOK'
    <2>1. \A i \in DOMAIN windows : windows[i].control => client'[windows[i].pid].pc # "none"
      BY <1>4 DEF IInv, WindowsOK
    <2>2. Opening => client'[d.w.pid].pc # "none"
      BY <1>4, <1>5 DEF IInv, WindowsOK
    <2>3. QED BY <1>1, <1>5, <2>1, <2>2 DEF IInv, WindowsOK
  <1>7. HeldOK'
    <2>1. \A q \in Pids : Alive(q)' => Alive(q)
      BY DEF Alive
    <2>2. QED BY <1>1, <1>5, <2>1 DEF IInv, HeldOK
  <1>8. ClientsOK'
    <2>1. \A q \in Pids : client'[q].pc = "none" => sent'[q] = <<>> /\ got'[q] = <<>> /\ \A s \in Slots : view'[s] # q
      BY <1>1, <1>4 DEF IInv, ClientsOK
    <2>2. Opening' => /\ sent'[d'.w.pid] = <<>> /\ got'[d'.w.pid] = <<>>
                      /\ client'[d'.w.pid].pc \in {"ready", "ack", "wait", "gone"}
                      /\ client'[d'.w.pid].pc = "wait" => ctl'[d'.w.pid].state # "CONNECTED"
      BY <1>1, <1>5 DEF IInv, ClientsOK
    <2>3. d.pc = "map" => d.w.pid \in Pids
      BY <1>5 DEF Opening
    <2>4. d'.pc = "map" => client'[d'.w.pid].pc \in {"ready", "gone"}
      BY <1>1, <2>3 DEF IInv, ClientsOK
    <2>5. QED BY <2>1, <2>2, <2>4 DEF ClientsOK
  <1>9. Rings'
    <2> SUFFICES ASSUME NEW q \in Pids PROVE Ring(q)'
      BY DEF Rings
    <2>1. CASE q = p
      BY <2>1
    <2>2. CASE q # p
      <3>1. Ring(q)
        BY DEF IInv, Rings
      <3>2. QED BY <1>1, <2>2, <3>1 DEF Ring
    <2>3. QED BY <2>1, <2>2
  <1>10. QED BY <1>2, <1>3, <1>6, <1>7, <1>8, <1>9 DEF IInv

(* A client that waits for the desktop or uses its window has been offered *)
(* the page, and one that uses it is connected.                            *)
LEMMA NotOpening ==
    ASSUME IInv, NEW p \in Pids
    PROVE  /\ client[p].pc \in {"run", "take", "flush"} => ~(Opening /\ d.w.pid = p)
           /\ client[p].pc \in {"ack", "wait"} => ~(d.pc = "map" /\ d.w.pid = p)
           /\ Opening /\ d.w.pid = p => got[p] = <<>>
           /\ d.pc = "map" /\ d.w.pid = p => Opening /\ ~Mapped(p)
  <1>1. d.pc = "map" => Opening
    BY DEF Opening
  <1>2. d.pc = "map" /\ d.w.pid = p => ~Mapped(p)
    BY DEF IInv, DesktopOK, Mapped
  <1>3. QED BY <1>1, <1>2 DEF IInv, ClientsOK

(* A step of a client that leaves the indices and the events alone.        *)
LEMMA ClientGoes ==
    ASSUME IInv, NEW p \in Pids, DesktopKept, UNCHANGED got, Alive(p),
           NEW pc \in {"ready", "ack", "wait", "run", "flush", "gone"}, Goes(p, pc),
           NEW page \in PageType, ctl' = [ctl EXCEPT ![p] = page],
           page.w = ctl[p].w, page.r = ctl[p].r, page.events = ctl[p].events,
           Opening /\ d.w.pid = p => /\ pc \in {"ready", "ack", "wait", "gone"}
                                     /\ pc = "wait" => page.state # "CONNECTED",
           d.pc = "map" /\ d.w.pid = p => pc \in {"ready", "gone"}
    PROVE  IInv'
  <1>1. Types
    BY DEF IInv
  <1>2. ctl \in [Pids -> PageType] /\ client \in [Pids -> ClientType] /\ got \in [Pids -> Seq(Events)]
    BY <1>1 DEF Types
  <1>3. /\ ctl' \in [Pids -> PageType] /\ ctl'[p] = page
        /\ \A q \in Pids : q # p => ctl'[q] = ctl[q]
    BY <1>2
  <1>4. /\ client' \in [Pids -> ClientType] /\ client'[p].pc = pc
        /\ \A q \in Pids : q # p => client'[q] = client[q]
    BY <1>2 DEF Goes, ClientType
  <1>5. Ring(p)'
    <2>1. Ring(p) /\ UNCHANGED <<d, sent, got>>
      BY DEF IInv, Rings, DesktopKept
    <2>2. ctl'[p].w = ctl[p].w /\ ctl'[p].r = ctl[p].r /\ ctl'[p].events = ctl[p].events
      BY <1>3
    <2>3. client'[p].pc # "take"
      BY <1>4
    <2>4. QED BY <2>1, <2>2, <2>3 DEF Ring
  <1>6. Opening /\ d.w.pid = p => got'[p] = <<>>
    BY NotOpening
  <1>7. QED BY <1>2, <1>3, <1>4, <1>5, <1>6, ClientFrame

LEMMA SamePage ==
    ASSUME IInv, NEW p \in Pids
    PROVE  ctl[p] \in PageType /\ ctl = [ctl EXCEPT ![p] = ctl[p]]
  BY DEF IInv, Types

LEMMA DirtyPage ==
    ASSUME NEW c \in PageType
    PROVE  /\ [c EXCEPT !.dirty = TRUE] \in PageType
           /\ [c EXCEPT !.dirty = TRUE].w = c.w /\ [c EXCEPT !.dirty = TRUE].r = c.r
           /\ [c EXCEPT !.dirty = TRUE].events = c.events
  BY DEF PageType

LEMMA ClientInitStep == ASSUME IInv, NEW p \in Pids, client_init(p) PROVE IInv'
  <1>1. DesktopKept /\ UNCHANGED got
    BY DEF client_init
  <1>2. ctl[p] \in PageType /\ ctl = [ctl EXCEPT ![p] = ctl[p]]
    BY SamePage
  <1>3. CASE client[p].pc = "ready" /\ Mapped(p) /\ Goes(p, "ack") /\ UNCHANGED ctl
    <2>1. ctl' = [ctl EXCEPT ![p] = ctl[p]] /\ Alive(p)
      BY <1>2, <1>3 DEF Alive
    <2>2. ~(d.pc = "map" /\ d.w.pid = p)
      BY <1>3, NotOpening
    <2>3. QED BY <1>1, <1>2, <1>3, <2>1, <2>2, ClientGoes
  <1>4. CASE client[p].pc = "ack" /\ Goes(p, "wait") /\ ctl' = [ctl EXCEPT ![p].state = "ACK"]
    <2> DEFINE page == [ctl[p] EXCEPT !.state = "ACK"]
    <2>1. page \in PageType /\ page.state = "ACK" /\ page.w = ctl[p].w /\ page.r = ctl[p].r /\ page.events = ctl[p].events
      BY <1>2, StatePage
    <2>2. ctl' = [ctl EXCEPT ![p] = page] /\ Alive(p)
      BY <1>4 DEF Alive
    <2>3. ~(d.pc = "map" /\ d.w.pid = p)
      BY <1>4, NotOpening
    <2> HIDE DEF page
    <2>4. QED BY <1>1, <1>4, <2>1, <2>2, <2>3, ClientGoes
  <1>5. CASE client[p].pc = "wait" /\ ctl[p].state = "CONNECTED" /\ Goes(p, "run") /\ UNCHANGED ctl
    <2>1. ctl' = [ctl EXCEPT ![p] = ctl[p]] /\ Alive(p)
      BY <1>2, <1>5 DEF Alive
    <2>2. ~(Opening /\ d.w.pid = p)
      BY <1>5 DEF IInv, ClientsOK
    <2>3. ~(d.pc = "map" /\ d.w.pid = p)
      BY <1>5, NotOpening
    <2>4. QED BY <1>1, <1>2, <1>5, <2>1, <2>2, <2>3, ClientGoes
  <1>6. QED BY <1>3, <1>4, <1>5 DEF client_init

LEMMA FlushStep == ASSUME IInv, NEW p \in Pids, flush(p) PROVE IInv'
  <1>1. DesktopKept /\ UNCHANGED got /\ client[p].pc \in {"run", "flush"} /\ Alive(p)
    BY DEF flush, Alive
  <1>2. ctl[p] \in PageType /\ ctl = [ctl EXCEPT ![p] = ctl[p]]
    BY SamePage
  <1>3. ~(Opening /\ d.w.pid = p) /\ ~(d.pc = "map" /\ d.w.pid = p)
    BY <1>1, NotOpening
  <1>4. CASE Goes(p, "flush") /\ ctl' = [ctl EXCEPT ![p].dirty = TRUE]
    <2> DEFINE page == [ctl[p] EXCEPT !.dirty = TRUE]
    <2>1. page \in PageType /\ page.w = ctl[p].w /\ page.r = ctl[p].r /\ page.events = ctl[p].events
      BY <1>2, DirtyPage
    <2>2. ctl' = [ctl EXCEPT ![p] = page]
      BY <1>4
    <2> HIDE DEF page
    <2>3. QED BY <1>1, <1>3, <1>4, <2>1, <2>2, ClientGoes
  <1>5. CASE Goes(p, "run") /\ UNCHANGED ctl
    <2>1. ctl' = [ctl EXCEPT ![p] = ctl[p]]
      BY <1>2, <1>5
    <2>2. QED BY <1>1, <1>2, <1>3, <1>5, <2>1, ClientGoes
  <1>6. QED BY <1>4, <1>5 DEF flush

LEMMA GoneStep == ASSUME IInv, NEW p \in Pids, should_close(p) \/ ends(p) PROVE IInv'
  <1>1. DesktopKept /\ UNCHANGED <<ctl, got>> /\ Alive(p) /\ Goes(p, "gone")
    BY DEF should_close, ends, Alive
  <1>2. ctl[p] \in PageType /\ ctl' = [ctl EXCEPT ![p] = ctl[p]]
    BY <1>1, SamePage
  <1>3. QED BY <1>1, <1>2, ClientGoes

LEMMA PollEventStep == ASSUME IInv, NEW p \in Pids, poll_event(p) PROVE IInv'
  <1> DEFINE evt == ctl[p].events[ctl[p].r % WM_MAX_EVENTS]
  <1>1. /\ DesktopKept /\ UNCHANGED <<ctl, got>> /\ client[p].pc = "run" /\ ctl[p].r # ctl[p].w
        /\ client' = [client EXCEPT ![p].pc = "take", ![p].out = evt] /\ Alive(p)
    BY DEF poll_event, Alive
  <1>2. /\ ctl \in [Pids -> PageType] /\ client \in [Pids -> ClientType] /\ got \in [Pids -> Seq(Events)]
        /\ Ring(p) /\ ctl[p] \in PageType
    BY DEF IInv, Types, Rings
  <1>3. ctl[p].r \in Nat /\ ctl[p].w \in Nat /\ ctl[p].r < ctl[p].w
    <2>1. ctl[p].r \in Nat /\ ctl[p].w \in Nat
      BY <1>2 DEF PageType
    <2>2. ctl[p].r <= ctl[p].w
      BY <1>2 DEF Ring
    <2>3. QED BY <1>1, <2>1, <2>2
  <1>4. evt \in Events \cup {"none"}
    <2>1. ctl[p].r % WM_MAX_EVENTS \in 0 .. WM_MAX_EVENTS - 1
      BY <1>3, ModRange
    <2>2. QED BY <1>2, <2>1 DEF PageType
  <1>5. evt = sent[p][ctl[p].r + 1]
    <2>1. ctl[p].r \in ctl[p].r .. ctl[p].w - 1
      BY <1>3
    <2>2. QED BY <1>2, <2>1 DEF Ring
  <1> HIDE DEF evt
  <1>6. /\ client' \in [Pids -> ClientType] /\ client'[p].pc = "take" /\ client'[p].out = evt
        /\ \A q \in Pids : q # p => client'[q] = client[q]
    BY <1>1, <1>2, <1>4 DEF ClientType
  <1>7. Ring(p)'
    BY <1>1, <1>2, <1>3, <1>5, <1>6 DEF Ring, DesktopKept
  <1>8. ~(Opening /\ d.w.pid = p) /\ ~(d.pc = "map" /\ d.w.pid = p)
    BY <1>1, NotOpening
  <1>9. QED BY <1>1, <1>2, <1>6, <1>7, <1>8, ClientFrame

LEMMA TakeEventStep ==
    ASSUME IInv, NEW p \in Pids, take_event(p)
    PROVE  IInv' /\ got' = [got EXCEPT ![p] = Append(@, sent[p][Len(got[p]) + 1])] /\ Len(got[p]) < Len(sent[p])
  <1> DEFINE page == [ctl[p] EXCEPT !.r = @ + 1]
             out == client[p].out
  <1>1. /\ DesktopKept /\ client[p].pc = "take" /\ Alive(p)
        /\ client' = [client EXCEPT ![p].pc = "run", ![p].out = "none"]
        /\ ctl' = [ctl EXCEPT ![p] = page] /\ got' = [got EXCEPT ![p] = Append(@, out)]
    BY DEF take_event, Alive
  <1>2. /\ ctl \in [Pids -> PageType] /\ client \in [Pids -> ClientType] /\ got \in [Pids -> Seq(Events)]
        /\ sent \in [Pids -> Seq(Events)] /\ Ring(p) /\ ctl[p] \in PageType
    BY DEF IInv, Types, Rings
  <1>3. /\ ctl[p].r \in Nat /\ ctl[p].w \in Nat /\ ctl[p].r < ctl[p].w /\ out = sent[p][ctl[p].r + 1]
        /\ ctl[p].w = Len(sent[p]) /\ ctl[p].r = Len(got[p])
    <2>1. ctl[p].r \in Nat /\ ctl[p].w \in Nat
      BY <1>2 DEF PageType
    <2>2. QED BY <1>1, <1>2, <2>1 DEF Ring
  <1>4. out \in Events /\ got[p] \in Seq(Events)
    <2>1. ctl[p].r + 1 \in 1 .. Len(sent[p]) /\ sent[p] \in Seq(Events)
      BY <1>2, <1>3
    <2>2. QED BY <1>2, <1>3, <2>1
  <1>5. /\ page \in PageType /\ page.r = ctl[p].r + 1 /\ page.w = ctl[p].w /\ page.events = ctl[p].events
    <2>1. ctl[p].r + 1 \in Nat
      BY <1>3
    <2>2. QED BY <1>2, <2>1 DEF PageType
  <1> HIDE DEF page, out
  <1>6. /\ ctl' \in [Pids -> PageType] /\ ctl'[p] = page
        /\ \A q \in Pids : q # p => ctl'[q] = ctl[q]
    BY <1>1, <1>2, <1>5
  <1>7. /\ client' \in [Pids -> ClientType] /\ client'[p].pc = "run"
        /\ \A q \in Pids : q # p => client'[q] = client[q]
    BY <1>1, <1>2 DEF ClientType
  <1>8. Append(got[p], out) \in Seq(Events) /\ Len(Append(got[p], out)) = Len(got[p]) + 1
    BY <1>4, AppendProperties
  <1>9. /\ got' \in [Pids -> Seq(Events)] /\ got'[p] = Append(got[p], out)
        /\ \A q \in Pids : q # p => got'[q] = got[q]
    BY <1>1, <1>2, <1>8
  <1>10. Ring(p)'
    <2>1. UNCHANGED <<d, sent>>
      BY <1>1 DEF DesktopKept
    <2>2. ctl'[p].r = Len(got'[p]) /\ ctl'[p].w = Len(sent'[p])
      BY <1>3, <1>5, <1>6, <1>8, <1>9, <2>1
    <2>3. \A k \in ctl'[p].r .. ctl'[p].w - 1 : ctl'[p].events[k % WM_MAX_EVENTS] = sent'[p][k + 1]
      <3>1. \A k \in ctl'[p].r .. ctl'[p].w - 1 : k \in ctl[p].r .. ctl[p].w - 1
        BY <1>3, <1>5, <1>6
      <3>2. QED BY <1>2, <1>5, <1>6, <2>1, <3>1 DEF Ring
    <2>4. WM_MAX_EVENTS \in Nat
      BY Constants
    <2>5. QED BY <1>2, <1>3, <1>5, <1>6, <1>7, <2>1, <2>2, <2>3, <2>4 DEF Ring
  <1>11. ~(Opening /\ d.w.pid = p) /\ ~(d.pc = "map" /\ d.w.pid = p)
    BY <1>1, NotOpening
  <1>12. IInv'
    BY <1>1, <1>6, <1>7, <1>9, <1>10, <1>11, ClientFrame
  <1>13. out = sent[p][Len(got[p]) + 1] /\ Len(got[p]) < Len(sent[p])
    BY <1>3
  <1>14. QED BY <1>1, <1>12, <1>13
-----------------------------------------------------------------------------
LEMMA InitInv == ASSUME Init PROVE IInv
  <1>1. "press" \in PCs
    BY DEF PCs
  <1>2. d \in DType /\ d.pc = "press" /\ Len(windows) = 0 /\ DOMAIN windows = {}
    BY <1>1, AtType DEF Init
  <1>3. ~Opening /\ ~Updating /\ ~Leaving
    BY <1>2 DEF Opening, Updating, Leaving
  <1>4. Types
    <2>1. windows \in Seq(WindowType) /\ Len(windows) <= MAX_WINDOWS /\ focused \in 0 .. Len(windows)
      BY <1>2, Constants DEF Init
    <2>2. ctl \in [Pids -> PageType]
      BY NoPageType DEF Init
    <2>3. slot_used \in [Slots -> BOOLEAN] /\ view \in [Slots -> Pids \cup {NONE}] /\ client \in [Pids -> ClientType]
      BY DEF Init, ClientType
    <2>4. sent \in [Pids -> Seq(Events)] /\ got \in [Pids -> Seq(Events)]
      BY DEF Init
    <2>5. QED BY <1>2, <2>1, <2>2, <2>3, <2>4 DEF Types
  <1>5. DesktopOK
    BY <1>2, <1>3 DEF DesktopOK
  <1>6. WindowsOK
    BY <1>2, <1>3 DEF WindowsOK
  <1>7. HeldOK
    <2>1. \A p \in Pids : ~Alive(p)
      BY Constants DEF Init, Alive
    <2>2. QED BY <1>3, <2>1 DEF Init, HeldOK
  <1>8. ClientsOK
    <2>1. \A p \in Pids, s \in Slots : view[s] # p
      BY Constants DEF Init
    <2>2. QED BY <1>2, <1>3, <2>1 DEF Init, ClientsOK
  <1>9. Rings
    <2> SUFFICES ASSUME NEW p \in Pids PROVE Ring(p)
      BY DEF Rings
    <2>1. ctl[p].w = 0 /\ ctl[p].r = 0 /\ Len(sent[p]) = 0 /\ Len(got[p]) = 0 /\ client[p].pc # "take"
      BY DEF Init, NoPage
    <2>2. QED BY <1>2, <2>1, Constants DEF Ring
  <1>10. QED BY <1>4, <1>5, <1>6, <1>7, <1>8, <1>9 DEF IInv

LEMMA StutterStep == ASSUME IInv, UNCHANGED vars PROVE IInv'
  BY DEF IInv, vars, Types, DesktopOK, WindowsOK, HeldOK, ClientsOK, Rings, Ring, Opening, Updating, Leaving, Alive

LEMMA DesktopStepInv == ASSUME IInv, DesktopStep PROVE IInv'
  <1>1. ASSUME NEW i \in DOMAIN windows, close_button(i) \/ minimize_button(i) \/ taskbar(i) \/ grab(i) \/ click(i)
        PROVE  IInv'
    BY <1>1, CloseButtonStep, PressSteps
  <1>2. CASE idle
    BY <1>2, PressSteps
  <1>3. CASE map_shm_pages \/ setup_shm_control \/ offer \/ await \/ connect
    BY <1>3, MapStep, SetupStep, OfferStep, AwaitStep, ConnectStep
  <1>4. CASE look \/ send_event \/ store \/ bump \/ clear_dirty
    BY <1>4, LookStep, SendEventStep, StoreStep, BumpStep, ClearStep
  <1>5. CASE await_exit \/ check_exit \/ kill
    BY <1>5, AwaitExitStep, CheckExitStep, KillStep
  <1>6. CASE start_menu \/ mouse_move \/ key \/ pass \/ desktop_poll_messages
    BY <1>6, StartMenuStep, MoveSteps, PollMessagesStep
  <1>7. QED BY <1>1, <1>2, <1>3, <1>4, <1>5, <1>6 DEF DesktopStep

LEMMA NextInv == ASSUME IInv, [Next]_vars PROVE IInv'
  <1>1. CASE DesktopStep
    BY <1>1, DesktopStepInv
  <1>2. ASSUME NEW p \in Pids, ClientStep(p) \/ ends(p) PROVE IInv'
    BY <1>2, ClientInitStep, PollEventStep, TakeEventStep, FlushStep, GoneStep DEF ClientStep
  <1>3. CASE UNCHANGED vars
    BY <1>3, StutterStep
  <1>4. QED BY <1>1, <1>2, <1>3 DEF Next

(* The invariant the results below rest on: windows, slots, pages and      *)
(* processes stay paired, and each ring holds what was put into it and not *)
(* yet taken, through every interleaving of the main loop and the clients. *)
THEOREM DesktopInv == Spec => []IInv
  <1>1. Init => IInv
    BY InitInv
  <1>2. IInv /\ [Next]_vars => IInv'
    BY NextInv
  <1>3. QED BY <1>1, <1>2, PTL DEF Spec

(* Values keep their types; among them, the read index of a ring never     *)
(* passes its write index (TypeOK of Desktop), though the desktop writes   *)
(* one and the client the other without a lock.                            *)
THEOREM DesktopTypeOK == Spec => []TypeOK
  <1>1. ASSUME IInv PROVE TypeOK
    <2>1. Types
      BY <1>1 DEF IInv
    <2>2. ASSUME NEW p \in Pids
          PROVE  /\ ctl[p].state \in {"INIT", "READY", "ACK", "CONNECTED"}
                 /\ ctl[p].w \in Nat /\ ctl[p].r \in 0 .. ctl[p].w
                 /\ client[p].out \in Events \cup {"none"}
                 /\ sent[p] \in Seq(Events) /\ got[p] \in Seq(Events)
      <3>1. ctl[p] \in PageType /\ client[p] \in ClientType /\ sent[p] \in Seq(Events) /\ got[p] \in Seq(Events)
        BY <2>1 DEF Types
      <3>2. ctl[p].r <= ctl[p].w
        BY <1>1 DEF IInv, Rings, Ring
      <3>3. QED BY <3>1, <3>2 DEF PageType, ClientType
    <2>3. QED BY <2>1, <2>2 DEF Types, TypeOK
  <1>2. QED BY <1>1, DesktopInv, PTL
-----------------------------------------------------------------------------
(* Windows, slots, pages and processes.                                    *)

LEMMA AllDifferent ==
    ASSUME IInv
    PROVE  LET S == {windows[i] : i \in DOMAIN windows} IN IsFiniteSet(S) /\ Cardinality(S) = Len(windows)
  <1> DEFINE n == Len(windows)
             S == {windows[i] : i \in DOMAIN windows}
  <1>1. n \in Nat /\ DOMAIN windows = 1 .. n /\ windows \in [1 .. n -> S]
    <2>1. n \in Nat /\ DOMAIN windows = 1 .. n
      BY WindowsDomain DEF IInv
    <2>2. windows = [i \in DOMAIN windows |-> windows[i]]
      BY LenProperties DEF IInv, Types
    <2>3. QED BY <2>1, <2>2
  <1>2. windows \in Surjection(1 .. n, S)
    BY <1>1 DEF Surjection
  <1>3. windows \in Injection(1 .. n, S)
    BY <1>1 DEF Injection, IsInjective, IInv, WindowsOK
  <1>4. IsFiniteSet(1 .. n) /\ Cardinality(1 .. n) = n
    <2>1. 0 \in Int /\ 1 \in Int /\ n \in Int
      BY <1>1
    <2>2. IsFiniteSet(1 .. n) /\ Cardinality(1 .. n) = IF 1 > n THEN 0 ELSE n - 1 + 1
      BY <2>1, FS_Interval
    <2>3. QED BY <1>1, <2>2
  <1> HIDE DEF S
  <1>5. IsFiniteSet(S) /\ Cardinality(S) = n
    BY <1>2, <1>3, <1>4, FS_Surjection
  <1>6. QED BY <1>5 DEF S

LEMMA InvOwnWindow == ASSUME IInv PROVE OwnWindow
  <1> DEFINE S == {windows[i] : i \in DOMAIN windows}
  <1>0. Types
    BY DEF IInv
  <1>1. IsFiniteSet(S) /\ Cardinality(S) = Len(windows) /\ Len(windows) \in Nat
    BY <1>0, AllDifferent, WindowsDomain
  <1>2. Held = IF Opening THEN S \cup {d.w} ELSE S
    BY DEF Held, Opening
  <1>3. Opening => d.w \notin S /\ d.w.slot \in Slots /\ d.w.pid \in Pids
    BY DEF IInv, WindowsOK, DesktopOK, WindowType
  <1>4. \A i \in DOMAIN windows : windows[i].slot \in Slots
    BY <1>0, WindowsDomain DEF WindowType
  <1>5. {s \in Slots : slot_used[s]} = {w.slot : w \in Held}
    <2>1. \A i \in DOMAIN windows : windows[i] \in Held
      BY <1>2
    <2>2. Opening => d.w \in Held
      BY <1>2
    <2>3. \A w \in Held : w.slot \in Slots /\ slot_used[w.slot]
      BY <1>2, <1>3, <1>4 DEF IInv, WindowsOK
    <2>4. \A s \in Slots : slot_used[s] => \E w \in Held : s = w.slot
      BY <2>1, <2>2 DEF IInv, HeldOK
    <2>5. QED BY <2>3, <2>4
  <1>6. Cardinality(Held) = Len(windows) + Cardinality(Held \ S)
    <2>1. CASE Opening
      <3>1. Cardinality(S \cup {d.w}) = Cardinality(S) + 1
        BY <1>1, <1>3, <2>1, FS_AddElement
      <3>2. Held \ S = {d.w}
        BY <1>2, <1>3, <2>1
      <3>3. Cardinality({d.w}) = 1
        BY FS_Singleton
      <3>4. QED BY <1>1, <1>2, <2>1, <3>1, <3>2, <3>3
    <2>2. CASE ~Opening
      <3>1. Held = S /\ Held \ S = {}
        BY <1>2, <2>2
      <3>2. Cardinality({}) = 0
        BY FS_EmptySet
      <3>3. Cardinality(Held \ S) = 0 /\ Cardinality(Held) = Cardinality(S)
        BY <3>1, <3>2, Zenon
      <3>4. QED BY <1>1, <3>3
    <2>3. QED BY <2>1, <2>2
  <1>7. \A v, w \in Held : v.slot = w.slot => v = w
    BY <1>2 DEF IInv, WindowsOK
  <1>8. \A p \in Pids : Alive(p) => \E w \in Held : w.pid = p
    BY <1>2 DEF IInv, HeldOK
  <1>9. \A i \in DOMAIN windows : windows[i].control => view[windows[i].slot] = windows[i].pid
    BY DEF IInv, WindowsOK
  <1>10. QED BY <1>5, <1>6, <1>7, <1>8, <1>9 DEF OwnWindow

(* Slots, pages and processes go together (OwnWindow): a slot in use       *)
(* belongs to one window, every living client has a window, and what the   *)
(* desktop sees at a window's slot is the page of that window's client,    *)
(* however launches, failed launches, exits and closings interleave.       *)
THEOREM DesktopOwnWindow == Spec => []OwnWindow
  <1>1. IInv => OwnWindow
    BY InvOwnWindow
  <1>2. QED BY <1>1, DesktopInv, PTL
-----------------------------------------------------------------------------
(* The focus.                                                              *)

LEMMA LikeUpdate ==
    ASSUME Types, NEW ws, Like(ws), NEW i \in DOMAIN windows, NEW evt, NEW ret, update(ws, i, evt, ret)
    PROVE  Len(windows') = Len(windows)
  <1>1. Like([ws EXCEPT ![i].resized = FALSE])
    BY ResizedShape
  <1>2. Len([ws EXCEPT ![i].resized = FALSE]) = Len(windows)
    BY ONLY <1>1 DEF Like
  <1>3. QED BY ONLY <1>2, update(ws, i, evt, ret) DEF update

LEMMA LenAdded == ASSUME IInv, NEW w, Added(w) PROVE Len(windows') >= Len(windows)
  <1>1. windows \in Seq(WindowType) /\ Len(windows) \in Nat
    BY WindowsDomain DEF IInv, Types
  <1>2. windows \in Seq(WindowType \cup {w})
    BY <1>1
  <1>3. Len(windows') = Len(windows) + 1
    BY <1>2, AppendProperties DEF Added
  <1>4. QED BY <1>1, <1>3

(* Only a window that is closed leaves the list.                           *)
LEMMA Shrinks ==
    ASSUME IInv, [Next]_vars
    PROVE  Len(windows') >= Len(windows) \/ (Leaving /\ Removed(d.i))
  <1>1. Types /\ Len(windows) \in Nat /\ Like(windows)
    BY WindowsDomain, LikeSelf DEF IInv
  <1>2. CASE UNCHANGED windows
    BY <1>1, <1>2
  <1>3. ASSUME NEW i \in DOMAIN windows, minimize_button(i) \/ taskbar(i) PROVE Len(windows') >= Len(windows)
    <2>1. windows' = [windows EXCEPT ![i].minimized = TRUE] \/ windows' = [windows EXCEPT ![i].minimized = FALSE]
      BY <1>3 DEF minimize_button, taskbar, Minimize
    <2>2. Like(windows')
      BY <1>1, <2>1, MinimizedShape, Zenon
    <2>3. QED BY <1>1, <2>2 DEF Like
  <1>4. ASSUME NEW i \in DOMAIN windows, click(i) PROVE Len(windows') >= Len(windows)
    BY <1>1, <1>4, LikeUpdate DEF click
  <1>5. CASE mouse_move
    <2>1. PICK ws \in Dragged : \/ windows' = ws
                               \/ \E i \in Visible : update(ws, i, <<"input">>, At("key"))
      BY <1>5 DEF mouse_move
    <2>2. Like(ws)
      BY <1>1, ResizedShape DEF Dragged, Visible
    <2>3. QED BY <1>1, <2>1, <2>2, LikeUpdate, VisibleType DEF Like
  <1>6. CASE key
    BY <1>1, <1>6, LikeUpdate DEF key
  <1>7. CASE pass
    BY <1>1, <1>7, LikeUpdate, VisibleType DEF pass
  <1>8. CASE start_menu \/ desktop_poll_messages
    <2>1. ASSUME NEW ret, window_add_external(ret) PROVE Len(windows') >= Len(windows)
      <3>1. UNCHANGED windows \/ \E s \in FreeSlot : SpawnFails(s, ret) \/ Spawned(s, ret)
        BY <2>1 DEF window_add_external
      <3>2. ASSUME NEW s, SpawnFails(s, ret) PROVE Len(windows') >= Len(windows)
        <4>1. Added([NoWindow EXCEPT !.slot = s])
          BY <3>2 DEF SpawnFails
        <4>2. QED BY <4>1, LenAdded, Zenon
      <3>3. ASSUME NEW s, Spawned(s, ret) PROVE UNCHANGED windows
        BY <3>3 DEF Spawned
      <3>4. QED BY <1>1, <3>1, <3>2, <3>3
    <2>2. QED BY <1>1, <1>8, <2>1 DEF start_menu, desktop_poll_messages
  <1>9. CASE connect
    BY <1>9, LenAdded DEF connect
  <1>10. CASE check_exit \/ kill
    <2>1. Leaving
      BY <1>10 DEF check_exit, kill, Leaving
    <2>2. QED BY <1>1, <1>10, <2>1 DEF check_exit, kill
  <1>11. ASSUME NEW p \in Pids, ClientStep(p) \/ ends(p) PROVE UNCHANGED windows
    BY <1>11 DEF ClientStep, client_init, poll_event, take_event, flush, should_close, ends, DesktopKept
  <1>12. CASE map_shm_pages \/ setup_shm_control \/ offer \/ await
    BY <1>2, <1>12 DEF map_shm_pages, setup_shm_control, offer, await
  <1>13. CASE look \/ send_event \/ store \/ bump \/ clear_dirty \/ await_exit \/ idle
    BY <1>2, <1>13 DEF look, send_event, store, bump, clear_dirty, await_exit, idle
  <1>14. ASSUME NEW i \in DOMAIN windows, close_button(i) \/ grab(i) PROVE UNCHANGED windows
    BY <1>14 DEF close_button, grab
  <1>15. CASE DesktopStep
    BY <1>2, <1>3, <1>4, <1>5, <1>6, <1>7, <1>8, <1>9, <1>10, <1>12, <1>13, <1>14, <1>15 DEF DesktopStep
  <1>16. CASE UNCHANGED vars
    BY <1>2, <1>16 DEF vars
  <1>17. QED BY <1>2, <1>11, <1>15, <1>16 DEF Next

(* The focus stays on the window it was on when a window closes, and goes  *)
(* to an open one if its own closes (SameWindow): window_close shifts      *)
(* focused_window with the array.                                          *)
THEOREM DesktopSameWindow == Spec => SameWindow
  <1> DEFINE Kept == Len(windows') < Len(windows) =>
                        /\ focused' = NONE => focused = NONE \/ windows' = <<>>
                        /\ focused \notin {NONE, d.i} => /\ focused' \in DOMAIN windows'
                                                         /\ windows'[focused'] = windows[focused]
  <1>1. ASSUME IInv, [Next]_vars PROVE Kept
    <2> SUFFICES ASSUME Len(windows') < Len(windows) PROVE Kept
      OBVIOUS
    <2> DEFINE n == Len(windows)
               i == d.i
    <2>1. /\ windows \in Seq(WindowType) /\ n \in Nat /\ DOMAIN windows = 1 .. n
          /\ focused \in 0 .. n
      BY <1>1, WindowsDomain DEF IInv, Types
    <2>2. Leaving /\ Removed(i)
      <3>1. IInv' /\ Types'
        BY <1>1, NextInv DEF IInv
      <3>2. Len(windows') \in Nat
        BY <3>1 DEF Types
      <3>3. QED BY <1>1, <2>1, <3>2, Shrinks
    <2>3. i \in 1 .. n
      BY <1>1, <2>1, <2>2 DEF IInv, DesktopOK
    <2>4. windows' = RemoveAt(windows, i) /\ focused' = FocusAfter(i)
      BY <2>2 DEF Removed
    <2> HIDE DEF n, i
    <2>5. /\ windows' \in Seq(WindowType) /\ Len(windows') = n - 1
          /\ \A j \in 1 .. n - 1 : windows'[j] = IF j < i THEN windows[j] ELSE windows[j + 1]
      <3>1. i \in 1 .. Len(windows)
        BY <2>3 DEF n
      <3>2. QED BY <2>1, <2>4, <3>1, RemoveAtShape DEF n
    <2>6. DOMAIN windows' = 1 .. n - 1
      BY <2>5, LenProperties
    <2>7. focused' = IF focused = i THEN n - 1 ELSE IF focused > i THEN focused - 1 ELSE focused
      BY <2>1, <2>3, <2>4 DEF FocusAfter, n
    <2>8. focused' = 0 => focused = 0 \/ windows' = <<>>
      <3>1. SUFFICES ASSUME focused' = 0, focused # 0 PROVE windows' = <<>>
        OBVIOUS
      <3>2. n = 1
        BY <2>1, <2>3, <2>7, <3>1
      <3>3. Len(windows') = 0
        BY <2>5, <3>2
      <3>4. QED BY <2>5, <3>3, EmptySeq
    <2>9. focused \notin {0, i} => focused' \in DOMAIN windows' /\ windows'[focused'] = windows[focused]
      <3>1. SUFFICES ASSUME focused \notin {0, i} PROVE focused' \in DOMAIN windows' /\ windows'[focused'] = windows[focused]
        OBVIOUS
      <3>2. focused' \in 1 .. n - 1
        BY <2>1, <2>3, <2>7, <3>1
      <3>3. focused = IF focused' < i THEN focused' ELSE focused' + 1
        BY <2>1, <2>3, <2>7, <3>1
      <3>4. QED BY <2>5, <2>6, <3>2, <3>3
    <2>10. QED BY <2>8, <2>9 DEF NONE, i
  <1>2. QED BY <1>1, DesktopInv, PTL DEF Spec, SameWindow
-----------------------------------------------------------------------------
(* The ring of a window implements a bounded channel: bump accepts the     *)
(* event that store put in place, take_event takes the one poll_event      *)
(* read, and the channel ends with its window.                             *)

LEMMA BumpAccepts == ASSUME IInv, bump PROVE Channel!Next
  <1> DEFINE p == d.w.pid
             e == Head(d.todo)
  <1>1. Updating /\ d.pc = "bump"
    BY DEF bump, Updating
  <1>2. p \in Pids /\ e \in Events /\ Ring(p)
    BY <1>1, UpdatingView DEF IInv, DesktopOK, Rings
  <1>3. sent' = [sent EXCEPT ![p] = Append(@, e)] /\ UNCHANGED got
    BY DEF bump
  <1>4. Len(sent[p]) - Len(got[p]) < WM_MAX_EVENTS
    BY <1>1, <1>2 DEF Ring
  <1>5. Channel!Accept(p, e)
    BY <1>3, <1>4 DEF Channel!Accept
  <1>6. QED BY <1>2, <1>5 DEF Channel!Next

LEMMA TakeTakes == ASSUME IInv, NEW p \in Pids, take_event(p) PROVE Channel!Next
  <1>1. /\ got' = [got EXCEPT ![p] = Append(@, sent[p][Len(got[p]) + 1])]
        /\ Len(got[p]) < Len(sent[p]) /\ UNCHANGED sent
    BY TakeEventStep DEF take_event, DesktopKept
  <1>2. Channel!Take(p)
    BY <1>1 DEF Channel!Take
  <1>3. QED BY <1>2 DEF Channel!Next

LEMMA RemovedCloses == ASSUME IInv, Leaving, Removed(d.i) PROVE Channel!Next \/ UNCHANGED <<sent, got>>
  <1> DEFINE pid == windows[d.i].pid
  <1>1. d.i \in DOMAIN windows /\ Types
    BY DEF IInv, DesktopOK
  <1>2. pid \in 0 .. MaxPid
    BY <1>1, WindowsDomain DEF WindowType
  <1>3. sent' = Ended(pid, sent, <<>>) /\ got' = Ended(pid, got, <<>>)
    BY DEF Removed
  <1> HIDE DEF pid
  <1>4. CASE pid = 0
    BY <1>3, <1>4 DEF Ended
  <1>5. CASE pid # 0
    <2>1. pid \in Pids /\ Channel!Close(pid)
      BY <1>2, <1>3, <1>5 DEF Ended, Pids, Channel!Close
    <2>2. QED BY <2>1 DEF Channel!Next
  <1>6. QED BY <1>4, <1>5

LEMMA ChannelStep == ASSUME IInv, [Next]_vars PROVE [Channel!Next]_<<sent, got>>
  <1>1. CASE bump
    BY <1>1, BumpAccepts
  <1>2. ASSUME NEW p \in Pids, take_event(p) PROVE Channel!Next
    BY <1>2, TakeTakes
  <1>3. CASE check_exit \/ kill
    <2>1. Leaving
      BY <1>3 DEF check_exit, kill, Leaving
    <2>2. Removed(d.i) \/ UNCHANGED <<sent, got>>
      BY <1>3 DEF check_exit, kill
    <2>3. QED BY <2>1, <2>2, RemovedCloses
  <1>4. CASE map_shm_pages \/ setup_shm_control \/ offer \/ await \/ connect
    BY <1>4 DEF map_shm_pages, setup_shm_control, offer, await, connect
  <1>5. CASE look \/ send_event \/ store \/ clear_dirty \/ await_exit \/ idle \/ start_menu
    BY <1>5 DEF look, send_event, store, clear_dirty, await_exit, idle, start_menu
  <1>6. CASE mouse_move \/ key \/ pass \/ desktop_poll_messages
    BY <1>6 DEF mouse_move, key, pass, desktop_poll_messages
  <1>7. ASSUME NEW i \in DOMAIN windows, close_button(i) \/ minimize_button(i) \/ taskbar(i) \/ grab(i) \/ click(i)
        PROVE  UNCHANGED <<sent, got>>
    BY <1>7 DEF close_button, minimize_button, taskbar, grab, click
  <1>8. ASSUME NEW p \in Pids, client_init(p) \/ poll_event(p) \/ flush(p) \/ should_close(p) \/ ends(p)
        PROVE  UNCHANGED <<sent, got>>
    BY <1>8 DEF client_init, poll_event, flush, should_close, ends, DesktopKept
  <1>9. CASE DesktopStep
    BY <1>1, <1>3, <1>4, <1>5, <1>6, <1>7, <1>9 DEF DesktopStep
  <1>10. ASSUME NEW p \in Pids, ClientStep(p) \/ ends(p) PROVE [Channel!Next]_<<sent, got>>
    BY <1>2, <1>8, <1>10 DEF ClientStep
  <1>11. CASE UNCHANGED vars
    BY <1>11 DEF vars
  <1>12. QED BY <1>9, <1>10, <1>11 DEF Next

(* Every behaviour of the desktop and its clients is one of EventChannel   *)
(* (ChannelSpec): events accepted for a client reach it in order, once and *)
(* unchanged, and no more than WM_MAX_EVENTS wait, though the two indices  *)
(* and the entries are written without a lock.                             *)
THEOREM DesktopChannel == Spec => ChannelSpec
  <1>1. Init => Channel!Init
    BY DEF Init, Channel!Init
  <1>2. IInv /\ [Next]_vars => [Channel!Next]_<<sent, got>>
    BY ChannelStep
  <1>3. QED BY <1>1, <1>2, DesktopInv, PTL DEF Spec, ChannelSpec, Channel!Spec
=============================================================================
