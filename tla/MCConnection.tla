---------------------------- MODULE MCConnection ----------------------------
(* Connection with short messages: what matters to the framing is that the  *)
(* lengths differ and that the bodies are told apart.                       *)
EXTENDS Connection

MCFirst == <<7>>
MCReady == <<1>>
MCReady2 == <<2>>
MCPayloads == {<<3>>, <<4, 5>>}
MCMaxSend == [e \in Ends |-> IF e = "out" THEN 2 ELSE 1]
=============================================================================
