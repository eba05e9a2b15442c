---------------------------- MODULE EventChannel ----------------------------
(***************************************************************************)
(* What the desktop and the program behind a window promise each other     *)
(* about events: those accepted for a client reach it in order, once and   *)
(* unchanged, and no more than Capacity wait.  An event offered beyond     *)
(* that is not accepted.                                                   *)
(***************************************************************************)
EXTENDS Naturals, Sequences

CONSTANTS Clients, Events, Capacity

VARIABLES sent,   \* client -> the events accepted for it
          got     \* client -> the events it has taken

Init == /\ sent = [p \in Clients |-> <<>>]
        /\ got = [p \in Clients |-> <<>>]

Accept(p, e) == /\ Len(sent[p]) - Len(got[p]) < Capacity
                /\ sent' = [sent EXCEPT ![p] = Append(@, e)]
                /\ UNCHANGED got

Take(p) == /\ Len(got[p]) < Len(sent[p])
           /\ got' = [got EXCEPT ![p] = Append(@, sent[p][Len(@) + 1])]
           /\ UNCHANGED sent

(* The channel ends with the window, whatever is still in it.              *)
Close(p) == /\ sent' = [sent EXCEPT ![p] = <<>>]
            /\ got' = [got EXCEPT ![p] = <<>>]

Next == \E p \in Clients : Take(p) \/ Close(p) \/ \E e \in Events : Accept(p, e)

Spec == Init /\ [][Next]_<<sent, got>>
=============================================================================
