------------------------------ MODULE ReadyLink ------------------------------
(***************************************************************************)
(* What a Connection promises to the classes built on it                   *)
(* (ControlConnection, RemoteCollectionConnection, ProxyConnection...).    *)
(* Two ends, "out" (the side that dialled) and "in" (the side that         *)
(* accepted).  An end becomes ready once, the dialling end first; only a   *)
(* ready end sends or is handed payload messages; what an end is handed is *)
(* what the other end sent, in order, nothing twice and nothing invented;  *)
(* and while the link holds everything sent is eventually handed over.     *)
(***************************************************************************)
EXTENDS Sequences, Naturals

CONSTANT Payloads            \* the messages the upper layer sends

VARIABLES ready,             \* ready[e]: end e has run setup()
          sent,              \* sent[e]: payloads end e has sent so far
          handled,           \* handled[e]: payloads end e was handed so far
          linkUp             \* the TCP connection still carries data

vars == <<ready, sent, handled, linkUp>>

Ends == {"out", "in"}
Peer(e) == IF e = "out" THEN "in" ELSE "out"

Init ==
    /\ ready = [e \in Ends |-> FALSE]
    /\ sent = [e \in Ends |-> <<>>]
    /\ handled = [e \in Ends |-> <<>>]
    /\ linkUp = TRUE

(* The dialling end becomes ready before the accepting end does. *)
BecomeReady(e) ==
    /\ ~ready[e]
    /\ e = "in" => ready["out"]
    /\ ready' = [ready EXCEPT ![e] = TRUE]
    /\ UNCHANGED <<sent, handled, linkUp>>

Send(e) ==
    /\ ready[e]
    /\ \E m \in Payloads : sent' = [sent EXCEPT ![e] = Append(@, m)]
    /\ UNCHANGED <<ready, handled, linkUp>>

(* The next payload in order; never to an end that has not been set up. *)
HandOver(e) ==
    /\ ready[e]
    /\ Len(handled[e]) < Len(sent[Peer(e)])
    /\ handled' = [handled EXCEPT ![e] = Append(@, sent[Peer(e)][Len(@) + 1])]
    /\ UNCHANGED <<ready, sent, linkUp>>

Break ==
    /\ linkUp
    /\ linkUp' = FALSE
    /\ UNCHANGED <<ready, sent, handled>>

Next ==
    \/ \E e \in Ends : BecomeReady(e) \/ Send(e) \/ HandOver(e)
    \/ Break

Fairness ==
    \A e \in Ends :
        /\ WF_vars(linkUp /\ BecomeReady(e))
        /\ WF_vars(linkUp /\ HandOver(e))

Spec == Init /\ [][Next]_vars /\ Fairness
=============================================================================
