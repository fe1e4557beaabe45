------------------------------ MODULE Rendezvous ------------------------------
(***************************************************************************)
(* How two hosts agree over XMPP who dials whom: JabberClient, which keeps *)
(* the jids of the peers it believes online, and conjist::newJabberPeer    *)
(* and conjist::jabberMsg, which extend an offer and decide to dial.       *)
(* Processes come and go; the XMPP server announces both.  What becomes of *)
(* a dial is the subject of module Servent.                                *)
(***************************************************************************)
EXTENDS Integers, Sequences

CONSTANTS Hosts,
          Ip,           \* Ip[h]: its rank in the order of QString's operator<
          FreshResource,\* the XMPP server gives each login a resource of its own
          MaxSession    \* bound: MaxSession[h], the logins of h

ASSUME RendezvousAssumption ==
    /\ Ip \in [Hosts -> Nat]
    /\ FreshResource \in BOOLEAN
    /\ MaxSession \in [Hosts -> Nat]

VARIABLES online,       \* the host's process runs and is logged in
          session,      \* session[h]: how often h has logged in
          visible,      \* visible[h]: visibleExternally(), as UPnP found at the start
          peers,        \* peers[h]: m_peerjids
          offers,       \* offers[h]: the jids offered to, a key each (m_offers)
          dials,        \* dials[h]: the keys h has dialled with
          link          \* link[g][h]: stanzas from g that h has not read yet

vars == <<online, session, visible, peers, offers, dials, link>>

Jids == Hosts \X (Nat \ {0})

(* The jid h has: what the server made of the resource "conjist". *)
Jid(h) == <<h, IF FreshResource THEN session[h] ELSE 1>>

(* A uuid: the index-th of the session-th process of a host. *)
Keys == [host : Hosts, session : Nat \ {0}, index : Nat \ {0}]

Stanzas == [type : {"presence", "unavailable", "hidden"}, from : Jids]
           \cup [type : {"visible"}, from : Jids, key : Keys]

Stanza(t, h) == [type |-> t, from |-> Jid(h)]

-----------------------------------------------------------------------------
Init ==
    /\ online = [h \in Hosts |-> FALSE]
    /\ session = [h \in Hosts |-> 0]
    /\ visible = [h \in Hosts |-> FALSE]
    /\ peers = [h \in Hosts |-> {}]
    /\ offers = [h \in Hosts |-> <<>>]
    /\ dials = [h \in Hosts |-> {}]
    /\ link = [g \in Hosts |-> [h \in Hosts |-> <<>>]]

(* h starts, finds a router that forwards a port to it or none, and sends    *)
(* its initial presence: the server passes it on to everyone online (h too)  *)
(* and tells h who they are.                                                 *)
Login(h) ==
    /\ ~online[h] /\ session[h] < MaxSession[h]
    /\ online' = [online EXCEPT ![h] = TRUE]
    /\ session' = [session EXCEPT ![h] = @ + 1]
    /\ \E found \in BOOLEAN : visible' = [visible EXCEPT ![h] = found]
    /\ link' = [f \in Hosts |-> [t \in Hosts |->
          IF f = h /\ online'[t] THEN Append(link[f][t], Stanza("presence", h)')
          ELSE IF t = h /\ online[f] THEN Append(link[f][t], Stanza("presence", f))
          ELSE link[f][t]]]
    /\ UNCHANGED <<peers, offers, dials>>

(* The process ends, and all it knew with it; the server tells the others. *)
Logout(h) ==
    /\ online[h]
    /\ online' = [online EXCEPT ![h] = FALSE]
    /\ peers' = [peers EXCEPT ![h] = {}]
    /\ offers' = [offers EXCEPT ![h] = <<>>]
    /\ dials' = [dials EXCEPT ![h] = {}]
    /\ link' = [f \in Hosts |-> [t \in Hosts |->
          IF t = h THEN <<>>
          ELSE IF f = h /\ online[t] THEN Append(link[f][t], Stanza("unavailable", h))
          ELSE link[f][t]]]
    /\ UNCHANGED <<session, visible>>

(* h reads its next stanza from g, and sends reply to jid. *)
Reads(h, g) == online[h] /\ link[g][h] # <<>>
Consume(h, g) == link' = [link EXCEPT ![g][h] = Tail(@)]
Answer(h, g, jid, reply) ==
    link' = [link EXCEPT ![g][h] = Tail(@),
                         ![h][g] = IF online[g] /\ jid = Jid(g)
                                   THEN Append(@, reply) ELSE @]

(* A definition Slip_D is a plausible slip in the code D models; no action    *)
(* uses it.  The README says which property each slip breaks.                *)
Slip_Known(h, jid) == FALSE
Slip_Offer(h, key) == Stanza("visible", h)

(* m_peerjids.contains(from) *)
Known(h, jid) == jid \in peers[h]

(* The message that invites a peer to dial us. *)
Offer(h, key) == [type |-> "visible", from |-> Jid(h), key |-> key]

(* JabberClient::presenceReceived and conjist::newJabberPeer.  The switch is *)
(* on the type of the <show> element, which an "unavailable" presence does   *)
(* not have: it counts as Online, and no jid ever leaves m_peerjids.         *)
PresenceReceived(h, g) ==
    LET jid == Head(link[g][h]).from
        key == [host |-> h, session |-> session[h], index |-> Len(offers[h]) + 1]
    IN  /\ Reads(h, g)
        /\ Head(link[g][h]).type \in {"presence", "unavailable"}
        /\ peers' = [peers EXCEPT ![h] = @ \cup {jid}]
        /\ \/ /\ Known(h, jid) \/ g = h
              /\ Consume(h, g)
              /\ UNCHANGED offers
           \/ /\ ~Known(h, jid) /\ g # h /\ visible[h]
              /\ offers' = [offers EXCEPT ![h] = Append(@, jid)]
              /\ Answer(h, g, jid, Offer(h, key))
           \/ /\ ~Known(h, jid) /\ g # h /\ ~visible[h]
              /\ Answer(h, g, jid, Stanza("hidden", h))
              /\ UNCHANGED offers
        /\ UNCHANGED <<online, session, visible, dials>>

Slip_LetsPeerInitiate(h, g) == visible[h]
Slip_LetsPeerInitiateNever(h, g) == FALSE

(* Both are visible, and the peer has the higher address. *)
LetsPeerInitiate(h, g) == visible[h] /\ Ip[h] < Ip[g]

(* JabberClient::messageReceived and conjist::jabberMsg. *)
MessageReceived(h, g) ==
    LET m == Head(link[g][h])
        dialled == m.type = "visible" /\ ~LetsPeerInitiate(h, g)
    IN  /\ Reads(h, g)
        /\ m.type \in {"visible", "hidden"}
        /\ Consume(h, g)
        /\ \/ /\ Known(h, m.from) /\ dialled
              /\ dials' = [dials EXCEPT ![h] = @ \cup {m.key}]
           \/ /\ ~(Known(h, m.from) /\ dialled)
              /\ UNCHANGED dials
        /\ UNCHANGED <<online, session, visible, peers, offers>>

Next ==
    \/ \E h \in Hosts : Login(h) \/ Logout(h)
    \/ \E h, g \in Hosts : PresenceReceived(h, g) \/ MessageReceived(h, g)

(* An online process reads what the server sends it. *)
Fairness ==
    \A h, g \in Hosts : WF_vars(PresenceReceived(h, g)) /\ WF_vars(MessageReceived(h, g))

Spec == Init /\ [][Next]_vars /\ Fairness

-----------------------------------------------------------------------------
(* Properties *)

TypeOK ==
    /\ online \in [Hosts -> BOOLEAN]
    /\ session \in [Hosts -> Nat]
    /\ visible \in [Hosts -> BOOLEAN]
    /\ peers \in [Hosts -> SUBSET Jids]
    /\ offers \in [Hosts -> Seq(Jids)]
    /\ dials \in [Hosts -> SUBSET Keys]
    /\ link \in [Hosts -> [Hosts -> Seq(Stanzas)]]

(* The processes of h and g that run now are linked by a dial of h. *)
Initiates(h, g) == \E k \in dials[h] : k.host = g /\ k.session = session[g]

(* "if we are also externally visible, decide who will initate the           *)
(* connection based on the IP addresses (arbitrary but deterministic)"       *)
(* (conjist.cpp:188-189): each side decides on its own, from a message of    *)
(* the other, and never do both dial.                                        *)
OneInitiator == \A h, g \in Hosts : ~(Initiates(h, g) /\ Initiates(g, h))

(* A peer is offered one control connection, however often its presence      *)
(* comes (jabberclient.cpp:28-33, conjist.cpp:140-145).                      *)
OneOfferEach ==
    \A h \in Hosts : \A i, j \in DOMAIN offers[h] :
        offers[h][i] = offers[h][j] => i = j

(* No offer goes unclaimed: a peer that is told to dial is one that does, so *)
(* two hosts that stay online are connected if either is visible             *)
(* (conjist.cpp:165-199).                                                    *)
Settled(h, g) == h # g /\ online[h] /\ online[g] /\ (visible[h] \/ visible[g])
SomebodyDials ==
    \A h, g \in Hosts :
        Settled(h, g) ~> (~Settled(h, g) \/ Initiates(h, g) \/ Initiates(g, h))
=============================================================================
