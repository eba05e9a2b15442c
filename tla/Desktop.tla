------------------------------ MODULE Desktop -------------------------------
(***************************************************************************)
(* The desktop and the programs behind its windows: the main loop          *)
(* (user/desktop/desktop/main.c), the list of windows (window.c), the      *)
(* windows of other processes (external_window.c) and the client library   *)
(* those processes use (libdesktop/wm_client.c).                           *)
(*                                                                         *)
(* Desktop and client share a page of memory without a lock, and either    *)
(* may be preempted anywhere, so a step makes one access to that page or   *)
(* one system call.  Each launch maps a fresh page into both processes, at *)
(* the address of the window's slot; the page of a launch is named by the  *)
(* process it was made for.  What is drawn, where the pointer is, titles   *)
(* and colours are left out: the user may click on anything visible.       *)
(***************************************************************************)
EXTENDS Integers, Sequences, FiniteSets, SequencesExt

CONSTANTS MAX_WINDOWS,
          WM_MAX_SLOTS,
          WM_MAX_EVENTS,
          ConnectYields,    \* yields wait_for_client makes (500 in the code)
          CloseYields,      \* yields external_window_cleanup makes (50)
          MaxPid,           \* bound on the processes launched
          Quota             \* pid -> bound on the events put into its ring

ASSUME DesktopAssumption ==
    /\ {MAX_WINDOWS, WM_MAX_SLOTS, WM_MAX_EVENTS} \subseteq Nat \ {0}
    /\ WM_MAX_SLOTS <= MAX_WINDOWS    \* both are 16
    /\ {ConnectYields, CloseYields, MaxPid} \subseteq Nat
    /\ Quota \in [1 .. MaxPid -> Nat]

VARIABLES windows,    \* the open windows, windows[0] .. windows[window_count - 1]
          focused,    \* focused_window
          slot_used,
          view,       \* slot -> the page the desktop has mapped there, or NONE
          ctl,        \* page -> the wm_shared_t in it
          client,     \* pid -> [pc, out]
          d,          \* where the desktop is
          sent, got   \* events put into and taken from each ring (ghost)

vars == <<windows, focused, slot_used, view, ctl, client, d, sent, got>>

NONE == 0
Slots == 1 .. WM_MAX_SLOTS
Pids == 1 .. MaxPid         \* pid 0 is the first task of the system
Events == {"input", "resize"}

NoPage == [state |-> "INIT", dirty |-> FALSE, close |-> FALSE, w |-> 0, r |-> 0,
           events |-> [k \in 0 .. WM_MAX_EVENTS - 1 |-> "none"]]
NoWindow == [slot |-> NONE, pid |-> 0, control |-> FALSE, minimized |-> FALSE, resized |-> FALSE]

At(pc) == [pc |-> pc, i |-> 1, t |-> 0, todo |-> <<>>, ret |-> pc, w |-> NoWindow]

(* get_proc_info.  The task with pid 0 is counted as alive for ever: that  *)
(* closing a window without a process kills it is not recorded.            *)
Alive(p) == p = 0 \/ client[p].pc \notin {"none", "gone"}
Visible == {i \in DOMAIN windows : ~windows[i].minimized}
Page(w) == ctl[view[w.slot]]
-----------------------------------------------------------------------------
(* Opening a window: window_add_external and the init callback, which runs *)
(* before the window is counted.                                           *)

AnySlot == {1}  \* mutation: the search does not look at slot_used
FreeSlot == {s \in Slots : ~slot_used[s] /\ \A k \in Slots : ~slot_used[k] => s <= k}

Added(w) == /\ windows' = Append(windows, w)
            /\ focused' = Len(windows) + 1

(* The executable is missing or spawn fails: a window without a process.   *)
SpawnFails(s, ret) ==
    /\ Added([NoWindow EXCEPT !.slot = s])
    /\ d' = At(ret)
    /\ UNCHANGED client

Spawned(s, ret) ==
    \E p \in Pids :
       /\ client[p].pc = "none" /\ \A q \in Pids : q < p => client[q].pc # "none"
       /\ client' = [client EXCEPT ![p].pc = "ready"]
       /\ d' = [At("map") EXCEPT !.w = [NoWindow EXCEPT !.slot = s, !.pid = p, !.control = TRUE], !.ret = ret]
       /\ UNCHANGED <<windows, focused>>

window_add_external(ret) ==
    \/ /\ FreeSlot = {}
       /\ d' = At(ret)
       /\ UNCHANGED <<windows, focused, slot_used, client>>
    \/ \E s \in FreeSlot :
          /\ slot_used' = [slot_used EXCEPT ![s] = TRUE]
          /\ IF Len(windows) >= MAX_WINDOWS
             THEN d' = At(ret) /\ UNCHANGED <<windows, focused, client>>
             ELSE SpawnFails(s, ret) \/ Spawned(s, ret)

(* The fresh page holds whatever was in that memory.                       *)
map_shm_pages ==
    /\ d.pc = "map"
    /\ view' = [view EXCEPT ![d.w.slot] = d.w.pid]
    /\ \E s \in {"INIT", "READY", "ACK", "CONNECTED"} : ctl' = [ctl EXCEPT ![d.w.pid] = [NoPage EXCEPT !.state = s]]
    /\ d' = [d EXCEPT !.pc = "setup"]
    /\ UNCHANGED <<windows, focused, slot_used, client, sent, got>>

setup_shm_control ==
    /\ d.pc = "setup"
    /\ ctl' = [ctl EXCEPT ![view[d.w.slot]] = NoPage]
    /\ d' = [d EXCEPT !.pc = "offer"]
    /\ UNCHANGED <<windows, focused, slot_used, view, client, sent, got>>

offer == /\ d.pc = "offer"
         /\ ctl' = [ctl EXCEPT ![view[d.w.slot]].state = "READY"]
         /\ d' = [d EXCEPT !.pc = "await", !.t = ConnectYields]
         /\ UNCHANGED <<windows, focused, slot_used, view, client, sent, got>>

Forever(t) == t  \* mutation: the yields are not counted
Counted(t) == t - 1

await == /\ d.pc = "await"
         /\ d' = IF Page(d.w).state # "ACK" /\ d.t > 0 THEN [d EXCEPT !.t = Counted(@)]
                 ELSE [d EXCEPT !.pc = "connect", !.t = 0]
         /\ UNCHANGED <<windows, focused, slot_used, view, ctl, client, sent, got>>

connect == /\ d.pc = "connect"
           /\ ctl' = IF Page(d.w).state = "ACK" THEN [ctl EXCEPT ![view[d.w.slot]].state = "CONNECTED"] ELSE ctl
           /\ Added(d.w)
           /\ d' = At(d.ret)
           /\ UNCHANGED <<slot_used, view, client, sent, got>>
-----------------------------------------------------------------------------
(* external_window_update as the list of what is left to do: a resize      *)
(* event if the content size changed, the look for the process, the event  *)
(* at hand, the client's dirty flag.                                       *)
update(ws, i, evt, ret) ==
    LET resize == IF ws[i].resized THEN <<"resize">> ELSE <<>>
    IN /\ windows' = [ws EXCEPT ![i].resized = FALSE]
       /\ d' = IF ~ws[i].control THEN ret
               ELSE [ret EXCEPT !.pc = "update", !.ret = ret.pc, !.w = windows'[i],
                                !.todo = resize \o <<"alive">> \o evt \o <<"dirty">>]

Returned == [d EXCEPT !.pc = d.ret, !.todo = <<>>, !.w = NoWindow]
Rest == IF Tail(d.todo) = <<>> THEN Returned ELSE [d EXCEPT !.todo = Tail(@)]

look == /\ d.pc = "update" /\ Head(d.todo) = "alive"
        /\ d' = IF Alive(d.w.pid) THEN Rest ELSE Returned
        /\ UNCHANGED <<windows, focused, slot_used, view, ctl, client, sent, got>>

(* external_window_send_event, which drops the event when the ring is full.*)
RoomForOneMore(page) == page.w - page.r <= WM_MAX_EVENTS  \* mutation: > for >=
Room(page) == page.w - page.r < WM_MAX_EVENTS

send_event ==
    /\ d.pc = "update" /\ Head(d.todo) \in Events
    /\ d' = IF Room(Page(d.w)) /\ Len(sent[d.w.pid]) < Quota[d.w.pid] THEN [d EXCEPT !.pc = "store"] ELSE Rest
    /\ UNCHANGED <<windows, focused, slot_used, view, ctl, client, sent, got>>

store == /\ d.pc = "store"
         /\ ctl' = [ctl EXCEPT ![view[d.w.slot]].events[Page(d.w).w % WM_MAX_EVENTS] = Head(d.todo)]
         /\ d' = [d EXCEPT !.pc = "bump"]
         /\ UNCHANGED <<windows, focused, slot_used, view, client, sent, got>>

bump == /\ d.pc = "bump"
        /\ ctl' = [ctl EXCEPT ![view[d.w.slot]].w = @ + 1]
        /\ sent' = [sent EXCEPT ![d.w.pid] = Append(@, Head(d.todo))]
        /\ d' = [Rest EXCEPT !.pc = IF Tail(d.todo) = <<>> THEN d.ret ELSE "update"]
        /\ UNCHANGED <<windows, focused, slot_used, view, client, got>>

(* The client that set the flag waits, so test and write are one step.     *)
clear_dirty ==
    /\ d.pc = "update" /\ Head(d.todo) = "dirty"
    /\ ctl' = [ctl EXCEPT ![view[d.w.slot]].dirty = FALSE]
    /\ d' = Rest
    /\ UNCHANGED <<windows, focused, slot_used, view, client, sent, got>>
-----------------------------------------------------------------------------
(* Closing window i: window_close and the cleanup callback.                *)

request_close(i) ==
    /\ ctl' = IF windows[i].control THEN [ctl EXCEPT ![view[windows[i].slot]].close = TRUE] ELSE ctl
    /\ d' = [At("leave") EXCEPT !.i = i, !.t = CloseYields]

await_exit ==
    /\ d.pc = "leave"
    /\ d' = IF Alive(windows[d.i].pid) /\ d.t > 0 THEN [d EXCEPT !.t = @ - 1]
            ELSE [d EXCEPT !.pc = "check", !.t = 0]
    /\ UNCHANGED <<windows, focused, slot_used, view, ctl, client, sent, got>>

FocusKept(i) == IF focused = i THEN Len(windows) - 1 ELSE focused  \* mutation: no shift
FocusAfter(i) == CASE focused = i -> Len(windows) - 1
                   [] focused > i -> focused - 1
                   [] OTHER       -> focused

(* The page is not looked at again, and the channel ends with the window.  *)
Ended(p, f, void) == IF p = 0 THEN f ELSE [f EXCEPT ![p] = void]

Removed(i) == /\ slot_used' = [slot_used EXCEPT ![windows[i].slot] = FALSE]
              /\ windows' = RemoveAt(windows, i)
              /\ focused' = FocusAfter(i)
              /\ ctl' = Ended(windows[i].pid, ctl, NoPage)
              /\ sent' = Ended(windows[i].pid, sent, <<>>)
              /\ got' = Ended(windows[i].pid, got, <<>>)
              /\ d' = At("move")

check_exit ==
    /\ d.pc = "check"
    /\ IF Alive(windows[d.i].pid)
       THEN d' = [d EXCEPT !.pc = "kill"] /\ UNCHANGED <<windows, focused, slot_used, ctl, sent, got>>
       ELSE Removed(d.i)
    /\ UNCHANGED <<view, client>>

(* sys_kill ends the process, and the caller if there is no such process.  *)
Killed(p) == IF p = 0 THEN client ELSE [client EXCEPT ![p].pc = "gone"]

kill == /\ d.pc = "kill"
        /\ IF Alive(windows[d.i].pid)
           THEN Removed(d.i) /\ client' = Killed(windows[d.i].pid)
           ELSE d' = At("dead") /\ UNCHANGED <<windows, focused, slot_used, client, ctl, sent, got>>
        /\ UNCHANGED <<view>>
-----------------------------------------------------------------------------
(* The main loop.  The pointer and the buttons are what mouse_info says.   *)

Pressing == d.pc = "press"

idle == /\ Pressing
        /\ d' = At("move")
        /\ UNCHANGED <<windows, focused, slot_used, view, ctl, client, sent, got>>

start_menu == /\ Pressing
              /\ window_add_external("move")
              /\ UNCHANGED <<view, ctl, sent, got>>

close_button(i) == /\ Pressing /\ i \in Visible
                   /\ request_close(i)
                   /\ UNCHANGED <<windows, focused, slot_used, view, client, sent, got>>

Minimize(i) == /\ windows' = [windows EXCEPT ![i].minimized = TRUE]
               /\ focused' = NONE

minimize_button(i) == /\ Pressing /\ i \in Visible
                      /\ Minimize(i)
                      /\ d' = At("move")
                      /\ UNCHANGED <<slot_used, view, ctl, client, sent, got>>

taskbar(i) == /\ Pressing
              /\ \/ /\ i \in Visible /\ focused = i
                    /\ Minimize(i)
                 \/ /\ ~(i \in Visible /\ focused = i)
                    /\ windows' = [windows EXCEPT ![i].minimized = FALSE]
                    /\ focused' = i
              /\ d' = At("move")
              /\ UNCHANGED <<slot_used, view, ctl, client, sent, got>>

grab(i) == /\ Pressing /\ i \in Visible
           /\ focused' = i
           /\ d' = At("move")
           /\ UNCHANGED <<windows, slot_used, view, ctl, client, sent, got>>

click(i) == /\ Pressing /\ i \in Visible
            /\ focused' = i
            /\ update(windows, i, <<"input">>, At("move"))
            /\ UNCHANGED <<slot_used, view, ctl, client, sent, got>>

(* The pointer moved: the window being dragged may get another size, then  *)
(* the window below the pointer an event.  Which one is dragged is not     *)
(* recorded: a left click needs the button up, and letting go of it ends a *)
(* drag, so no window is closed while dragging_window is its index.        *)
Dragged == {windows} \cup {[windows EXCEPT ![i].resized = TRUE] : i \in {j \in Visible : windows[j].control}}

mouse_move == /\ d.pc = "move"
              /\ \E ws \in Dragged :
                    \/ windows' = ws /\ d' = At("key")
                    \/ \E i \in Visible : update(ws, i, <<"input">>, At("key"))
              /\ UNCHANGED <<focused, slot_used, view, ctl, client, sent, got>>

PassAt(i) == IF i > Len(windows) THEN At("poll") ELSE [At("pass") EXCEPT !.i = i]

key == /\ d.pc = "key"
       /\ \/ windows' = windows /\ d' = PassAt(1)
          \/ focused \in DOMAIN windows /\ update(windows, focused, <<"input">>, PassAt(1))
       /\ UNCHANGED <<focused, slot_used, view, ctl, client, sent, got>>

(* Every window that is not minimized is updated without an event.         *)
pass == /\ d.pc = "pass"
        /\ LET next == PassAt(d.i + 1) IN
           IF d.i \in Visible THEN update(windows, d.i, <<>>, next)
           ELSE d' = next /\ UNCHANGED windows
        /\ UNCHANGED <<focused, slot_used, view, ctl, client, sent, got>>

desktop_poll_messages ==
    /\ d.pc = "poll"
    /\ \/ d' = At("press") /\ UNCHANGED <<windows, focused, slot_used, client>>
       \/ window_add_external("press")
    /\ UNCHANGED <<view, ctl, sent, got>>

DesktopStep ==
    \/ map_shm_pages \/ setup_shm_control \/ offer \/ await \/ connect
    \/ look \/ send_event \/ store \/ bump \/ clear_dirty
    \/ await_exit \/ check_exit \/ kill
    \/ idle \/ start_menu \/ mouse_move \/ key \/ pass \/ desktop_poll_messages
    \/ \E i \in DOMAIN windows : close_button(i) \/ minimize_button(i) \/ taskbar(i) \/ grab(i) \/ click(i)
-----------------------------------------------------------------------------
(* The program behind a window.                                            *)

Goes(p, pc) == client' = [client EXCEPT ![p].pc = pc]
Mapped(p) == \E s \in Slots : view[s] = p
DesktopKept == UNCHANGED <<windows, focused, slot_used, view, d, sent>>

(* wm_client_init: wait for the page, for READY, answer, wait.             *)
client_init(p) ==
    /\ \/ client[p].pc = "ready" /\ Mapped(p) /\ ctl[p].state = "READY" /\ Goes(p, "ack") /\ UNCHANGED ctl
       \/ client[p].pc = "ack" /\ Goes(p, "wait") /\ ctl' = [ctl EXCEPT ![p].state = "ACK"]
       \/ client[p].pc = "wait" /\ ctl[p].state = "CONNECTED" /\ Goes(p, "run") /\ UNCHANGED ctl
    /\ DesktopKept /\ UNCHANGED got

poll_event(p) ==
    /\ client[p].pc = "run" /\ ctl[p].r # ctl[p].w
    /\ client' = [client EXCEPT ![p].pc = "take", ![p].out = ctl[p].events[ctl[p].r % WM_MAX_EVENTS]]
    /\ DesktopKept /\ UNCHANGED <<ctl, got>>

take_event(p) ==
    /\ client[p].pc = "take"
    /\ client' = [client EXCEPT ![p].pc = "run", ![p].out = "none"]
    /\ ctl' = [ctl EXCEPT ![p].r = @ + 1]
    /\ got' = [got EXCEPT ![p] = Append(@, client[p].out)]
    /\ DesktopKept

flush(p) == /\ \/ client[p].pc = "run" /\ Goes(p, "flush") /\ ctl' = [ctl EXCEPT ![p].dirty = TRUE]
               \/ client[p].pc = "flush" /\ ~ctl[p].dirty /\ Goes(p, "run") /\ UNCHANGED ctl
            /\ DesktopKept /\ UNCHANGED got

should_close(p) == /\ client[p].pc = "run" /\ ctl[p].close
                   /\ Goes(p, "gone")
                   /\ DesktopKept /\ UNCHANGED <<ctl, got>>

(* It ends on its own, faults, or is killed by another program.            *)
ends(p) == /\ Alive(p)
           /\ Goes(p, "gone")
           /\ DesktopKept /\ UNCHANGED <<ctl, got>>

ClientStep(p) == client_init(p) \/ poll_event(p) \/ take_event(p) \/ flush(p) \/ should_close(p)

Init == /\ windows = <<>> /\ focused = NONE
        /\ slot_used = [s \in Slots |-> FALSE] /\ view = [s \in Slots |-> NONE]
        /\ ctl = [p \in Pids |-> NoPage]
        /\ client = [p \in Pids |-> [pc |-> "none", out |-> "none"]]
        /\ d = At("press")
        /\ sent = [p \in Pids |-> <<>>] /\ got = [p \in Pids |-> <<>>]

Next == DesktopStep \/ \E p \in Pids : ClientStep(p) \/ ends(p)

Spec == Init /\ [][Next]_vars

(* The round robin gives every process the processor again and again.      *)
FairSpec == Spec /\ WF_vars(DesktopStep) /\ \A p \in Pids : WF_vars(ClientStep(p))
-----------------------------------------------------------------------------
WindowType == [slot : Slots, pid : 0 .. MaxPid, control : BOOLEAN, minimized : BOOLEAN, resized : BOOLEAN]

TypeOK ==
    /\ windows \in Seq(WindowType) /\ Len(windows) <= MAX_WINDOWS
    /\ focused \in 0 .. Len(windows)
    /\ slot_used \in [Slots -> BOOLEAN] /\ view \in [Slots -> Pids \cup {NONE}]
    /\ \A p \in Pids : /\ ctl[p].state \in {"INIT", "READY", "ACK", "CONNECTED"}
                       /\ ctl[p].w \in Nat /\ ctl[p].r \in 0 .. ctl[p].w
                       /\ client[p].out \in Events \cup {"none"}
                       /\ sent[p] \in Seq(Events) /\ got[p] \in Seq(Events)

(* The windows there are, the one being opened included.                   *)
Held == {windows[i] : i \in DOMAIN windows} \cup (IF d.pc \in {"map", "setup", "offer", "await", "connect"} THEN {d.w} ELSE {})

(* Slots, pages and processes go together: the slots in use are those of   *)
(* the windows, one each; every living client has a window, so closing     *)
(* leaves no process behind; and what the desktop sees at the slot of a    *)
(* window is the page of that window's client, not of an earlier one.      *)
OwnWindow ==
    /\ {s \in Slots : slot_used[s]} = {w.slot : w \in Held}
    /\ Cardinality(Held) = Len(windows) + Cardinality(Held \ {windows[i] : i \in DOMAIN windows})
    /\ \A v, w \in Held : v.slot = w.slot => v = w
    /\ \A p \in Pids : Alive(p) => \E w \in Held : w.pid = p
    /\ \A i \in DOMAIN windows : windows[i].control => view[windows[i].slot] = windows[i].pid

(* Windows move down the list when one below them closes; the focus stays  *)
(* on the window it was on, and goes to an open one if its own closes.     *)
SameWindow ==
    [][Len(windows') < Len(windows) =>
          /\ focused' = NONE => focused = NONE \/ windows' = <<>>
          /\ focused \notin {NONE, d.i} => /\ focused' \in DOMAIN windows'
                                           /\ windows'[focused'] = windows[focused]]_vars

(* The ring of each window is a bounded first-in first-out channel, though *)
(* desktop and client change its two indices without a lock.               *)
Channel == INSTANCE EventChannel WITH Clients <- Pids, Capacity <- WM_MAX_EVENTS
ChannelSpec == Channel!Spec

(* wm_client_flush returns: the desktop comes round to every window, even  *)
(* when some other client never answers, dies or does not leave when it is *)
(* asked to.  Not promised: while the window is minimized, or once the     *)
(* desktop has ended.                                                      *)
Minimized(p) == \E i \in DOMAIN windows : windows[i].pid = p /\ windows[i].minimized
FlushReturns == \A p \in Pids : []<>(client[p].pc # "flush" \/ Minimized(p) \/ d.pc = "dead")
=============================================================================
