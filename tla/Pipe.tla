---------------------------------- MODULE Pipe ----------------------------------
(***************************************************************************)
(* What a DAAP client is promised when it connects to a port that a        *)
(* ProxyListener opened: a two-way pipe to the DAAP server of the peer.    *)
(* Either end reads what the other wrote, in order and once; while the     *)
(* pipe is open it reads all of it, and once it is not the rest is lost.   *)
(***************************************************************************)
EXTENDS Naturals, Sequences

CONSTANT Bytes

VARIABLES sent,         \* sent[e]: what end e wrote
          got,          \* got[e]: what end e read
          open

vars == <<sent, got, open>>

Ends == {"client", "server"}
Other(e) == IF e = "client" THEN "server" ELSE "client"

Init ==
    /\ sent = [e \in Ends |-> <<>>] /\ got = [e \in Ends |-> <<>>]
    /\ open = TRUE

Write(e) ==
    /\ \E b \in Bytes : sent' = [sent EXCEPT ![e] = Append(@, b)]
    /\ UNCHANGED <<got, open>>

(* One read takes any number of the bytes that are due. *)
Read(e) ==
    /\ \E n \in Len(got[e]) + 1 .. Len(sent[Other(e)]) :
          got' = [got EXCEPT ![e] = SubSeq(sent[Other(e)], 1, n)]
    /\ UNCHANGED <<sent, open>>

Break == open /\ open' = FALSE /\ UNCHANGED <<sent, got>>

Next == Break \/ \E e \in Ends : Write(e) \/ Read(e)

Spec == Init /\ [][Next]_vars /\ \A e \in Ends : WF_vars(open /\ Read(e))
=============================================================================
