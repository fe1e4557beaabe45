--------------------------- MODULE RendezvousProofs ---------------------------
(***************************************************************************)
(* Hosts with distinct addresses never dial each other both, and a host    *)
(* extends one offer to each jid, however many hosts there are and however *)
(* often they restart.                                                     *)
(***************************************************************************)
EXTENDS Rendezvous, TLAPS

(* A key k of host g was made by a process of g that ran before, or by the   *)
(* one that runs now, and that was visible then.                             *)
KeySound(g, k) ==
    /\ k.host = g /\ k.session <= session[g]
    /\ k.session = session[g] => visible[g]

(* An offer under way from g bears such a key of another host than its       *)
(* reader's, and so does a dial, of a host that was not to be let initiate.  *)
OffersSound ==
    \A g, h \in Hosts : \A i \in DOMAIN link[g][h] :
        link[g][h][i].type = "visible" =>
            g # h /\ KeySound(g, link[g][h][i].key)

DialsSound ==
    \A h \in Hosts :
        /\ ~online[h] => dials[h] = {}
        /\ \A k \in dials[h] : \E g \in Hosts :
              g # h /\ KeySound(g, k) /\ ~LetsPeerInitiate(h, g)

(* An online host has logged in. *)
LoggedIn == \A h \in Hosts : online[h] => session[h] # 0

RInv == TypeOK /\ LoggedIn /\ OffersSound /\ DialsSound

-----------------------------------------------------------------------------
(* Lemmas *)

LEMMA JidType ==
  ASSUME NEW h \in Hosts, session[h] \in Nat \ {0}
  PROVE  Jid(h) \in Jids
  BY DEF Jid, Jids

LEMMA StanzaType ==
  ASSUME NEW h \in Hosts, session[h] \in Nat \ {0},
         NEW t \in {"presence", "unavailable", "hidden"}
  PROVE  Stanza(t, h) \in Stanzas /\ Stanza(t, h).type = t
<1>1. Jid(h) \in Jids
  BY JidType
<1> QED BY <1>1 DEF Stanza, Stanzas

(* A queue that loses its head and gains at most one sound stanza is sound. *)
Sound(q, g, h) ==
    \A i \in DOMAIN q : q[i].type = "visible" =>
        g # h /\ KeySound(g, q[i].key)

LEMMA TailSound ==
  ASSUME NEW g, NEW h, NEW q \in Seq(Stanzas), q # <<>>, Sound(q, g, h)
  PROVE  Tail(q) \in Seq(Stanzas) /\ Sound(Tail(q), g, h)
<1>1. Tail(q) \in Seq(Stanzas) /\ Len(Tail(q)) = Len(q) - 1
  OBVIOUS
<1>2. \A i \in DOMAIN Tail(q) : i + 1 \in DOMAIN q /\ Tail(q)[i] = q[i + 1]
  OBVIOUS
<1> QED BY <1>1, <1>2 DEF Sound

LEMMA AppendSound ==
  ASSUME NEW g, NEW h, NEW q \in Seq(Stanzas), Sound(q, g, h), NEW m \in Stanzas,
         m.type = "visible" => g # h /\ KeySound(g, m.key)
  PROVE  Append(q, m) \in Seq(Stanzas) /\ Sound(Append(q, m), g, h)
<1>1. Append(q, m) \in Seq(Stanzas)
  OBVIOUS
<1>2. \A i \in DOMAIN Append(q, m) :
         \/ i \in DOMAIN q /\ Append(q, m)[i] = q[i]
         \/ Append(q, m)[i] = m
  OBVIOUS
<1> QED BY <1>1, <1>2 DEF Sound

LEMMA EmptySound ==
  ASSUME NEW g, NEW h
  PROVE  <<>> \in Seq(Stanzas) /\ Sound(<<>>, g, h)
  BY DEF Sound

LEMMA QueueSound ==
  ASSUME RInv, NEW g \in Hosts, NEW h \in Hosts
  PROVE  link[g][h] \in Seq(Stanzas) /\ Sound(link[g][h], g, h)
  BY DEF RInv, TypeOK, OffersSound, Sound

(* Keys stay sound when no host takes on a new visibility. *)
LEMMA KeySoundStays ==
  ASSUME UNCHANGED <<session, visible>>, NEW g, NEW k, KeySound(g, k)
  PROVE  KeySound(g, k)'
  BY DEF KeySound

(* What is left to show of a step that changes link queue by queue. *)
LEMMA LinkSound ==
  ASSUME NEW l, l \in [Hosts -> [Hosts -> Seq(Stanzas)]],
         \A g, h \in Hosts : Sound(l[g][h], g, h), link' = l,
         \A g \in Hosts : \A k \in Keys : KeySound(g, k) => KeySound(g, k)'
  PROVE  OffersSound' /\ link' \in [Hosts -> [Hosts -> Seq(Stanzas)]]
<1> SUFFICES ASSUME NEW g \in Hosts, NEW h \in Hosts,
                    NEW i \in DOMAIN l[g][h], l[g][h][i].type = "visible"
             PROVE  g # h /\ KeySound(g, l[g][h][i].key)'
  BY DEF OffersSound, KeySound
<1>1. g # h /\ KeySound(g, l[g][h][i].key)
  BY DEF Sound
<1>2. l[g][h][i] \in Stanzas
  <2>1. l[g][h] \in Seq(Stanzas)
    OBVIOUS
  <2> QED BY <2>1
<1>3. l[g][h][i].key \in Keys
  BY <1>2 DEF Stanzas
<1> QED BY <1>1, <1>3

-----------------------------------------------------------------------------
(* One lemma per action *)

LEMMA LoginStep ==
  ASSUME RInv, NEW h \in Hosts, Login(h)
  PROVE  RInv'
<1> DEFINE new == Stanza("presence", h)'
           l == [f \in Hosts |-> [t \in Hosts |->
                  IF f = h /\ online'[t] THEN Append(link[f][t], new)
                  ELSE IF t = h /\ online[f]
                    THEN Append(link[f][t], Stanza("presence", f))
                  ELSE link[f][t]]]
<1>1. /\ session' \in [Hosts -> Nat] /\ session'[h] # 0
      /\ online' \in [Hosts -> BOOLEAN] /\ visible' \in [Hosts -> BOOLEAN]
  BY DEF RInv, TypeOK, Login
<1>0. ASSUME NEW g \in Hosts, NEW k \in Keys, KeySound(g, k)
      PROVE  KeySound(g, k)'
  <2>1. k.session \in Nat /\ session[g] \in Nat
    BY DEF Keys, RInv, TypeOK
  <2>2. CASE g = h
    <3>1. session'[g] = session[g] + 1
      BY <2>2 DEF Login, RInv, TypeOK
    <3> QED BY <1>0, <2>1, <3>1 DEF KeySound
  <2>3. CASE g # h
    <3>1. session'[g] = session[g] /\ visible'[g] = visible[g]
      BY <2>3 DEF Login, RInv, TypeOK
    <3> QED BY <1>0, <3>1 DEF KeySound
  <2> QED BY <2>2, <2>3
<1>2. LoggedIn'
  BY <1>1 DEF RInv, TypeOK, LoggedIn, Login
<1>3. new \in Stanzas /\ new.type = "presence"
  <2>1. new = [type |-> "presence",
               from |-> <<h, IF FreshResource THEN session'[h] ELSE 1>>]
    BY DEF Stanza, Jid
  <2>2. <<h, IF FreshResource THEN session'[h] ELSE 1>> \in Jids
    BY <1>1 DEF Jids
  <2> HIDE DEF new
  <2> QED BY <2>1, <2>2 DEF Stanzas
<1>4. link' = l
  BY DEF Login
<1> HIDE DEF new
<1>5. ASSUME NEW f \in Hosts, NEW t \in Hosts
      PROVE  l[f][t] \in Seq(Stanzas) /\ Sound(l[f][t], f, t)
  <2>1. link[f][t] \in Seq(Stanzas) /\ Sound(link[f][t], f, t)
    BY QueueSound
  <2>2. CASE f = h /\ online'[t]
    <3>1. Append(link[f][t], new) \in Seq(Stanzas)
          /\ Sound(Append(link[f][t], new), f, t)
      BY <1>3, <2>1, AppendSound
    <3> QED BY <2>2, <3>1
  <2>3. CASE ~(f = h /\ online'[t]) /\ t = h /\ online[f]
    <3>1. session[f] \in Nat \ {0}
      BY <2>3 DEF RInv, TypeOK, LoggedIn
    <3>2. Stanza("presence", f) \in Stanzas /\ Stanza("presence", f).type = "presence"
      BY <3>1, StanzaType
    <3>3. Append(link[f][t], Stanza("presence", f)) \in Seq(Stanzas)
          /\ Sound(Append(link[f][t], Stanza("presence", f)), f, t)
      BY <3>2, <2>1, AppendSound
    <3> QED BY <2>3, <3>3
  <2>4. CASE ~(f = h /\ online'[t]) /\ ~(t = h /\ online[f])
    BY <2>1, <2>4
  <2> QED BY <2>2, <2>3, <2>4
<1>6. l \in [Hosts -> [Hosts -> Seq(Stanzas)]]
  BY <1>5
<1> HIDE DEF l
<1>7. OffersSound' /\ link' \in [Hosts -> [Hosts -> Seq(Stanzas)]]
  BY <1>0, <1>4, <1>5, <1>6, LinkSound
<1>8. UNCHANGED <<peers, offers, dials>>
  BY DEF Login
<1>9. DialsSound'
  <2>1. dials[h] = {}
    BY DEF RInv, DialsSound, Login
  <2>2. ASSUME NEW f \in Hosts, f # h
        PROVE  online'[f] = online[f] /\ visible'[f] = visible[f]
    BY <2>2 DEF Login, RInv, TypeOK
  <2>3. ASSUME NEW f \in Hosts, ~online'[f]
        PROVE  dials'[f] = {}
    BY <1>8, <2>1, <2>2, <2>3 DEF RInv, DialsSound
  <2>4. ASSUME NEW f \in Hosts, NEW k \in dials'[f]
        PROVE  \E g \in Hosts :
                  g # f /\ KeySound(g, k)' /\ ~LetsPeerInitiate(f, g)'
    <3>1. k \in dials[f] /\ f # h /\ k \in Keys
      BY <1>8, <2>1, <2>4 DEF RInv, TypeOK
    <3>2. PICK g \in Hosts : g # f /\ KeySound(g, k) /\ ~LetsPeerInitiate(f, g)
      BY <3>1 DEF RInv, DialsSound
    <3>3. KeySound(g, k)'
      BY <1>0, <3>1, <3>2
    <3>4. ~LetsPeerInitiate(f, g)'
      BY <2>2, <3>1, <3>2 DEF LetsPeerInitiate
    <3> QED BY <3>2, <3>3, <3>4
  <2> QED BY <2>3, <2>4 DEF DialsSound
<1> QED BY <1>1, <1>2, <1>7, <1>8, <1>9 DEF RInv, TypeOK

LEMMA LogoutStep ==
  ASSUME RInv, NEW h \in Hosts, Logout(h)
  PROVE  RInv'
<1> DEFINE l == [f \in Hosts |-> [t \in Hosts |->
                  IF t = h THEN <<>>
                  ELSE IF f = h /\ online[t]
                    THEN Append(link[f][t], Stanza("unavailable", h))
                  ELSE link[f][t]]]
<1>1. /\ online[h] /\ UNCHANGED <<session, visible>> /\ link' = l
      /\ online' = [online EXCEPT ![h] = FALSE]
      /\ peers' = [peers EXCEPT ![h] = {}]
      /\ offers' = [offers EXCEPT ![h] = <<>>]
      /\ dials' = [dials EXCEPT ![h] = {}]
  BY DEF Logout
<1>2. ASSUME NEW f \in Hosts, NEW t \in Hosts
      PROVE  l[f][t] \in Seq(Stanzas) /\ Sound(l[f][t], f, t)
  <2>1. link[f][t] \in Seq(Stanzas) /\ Sound(link[f][t], f, t)
    BY QueueSound
  <2>2. CASE t = h
    BY <2>2, EmptySound
  <2>3. CASE t # h /\ f = h /\ online[t]
    <3>1. session[h] \in Nat \ {0}
      BY <1>1 DEF RInv, TypeOK, LoggedIn
    <3>2. /\ Stanza("unavailable", h) \in Stanzas
          /\ Stanza("unavailable", h).type = "unavailable"
      BY <3>1, StanzaType
    <3>3. Append(link[f][t], Stanza("unavailable", h)) \in Seq(Stanzas)
          /\ Sound(Append(link[f][t], Stanza("unavailable", h)), f, t)
      BY <3>2, <2>1, AppendSound
    <3> QED BY <2>3, <3>3
  <2>4. CASE t # h /\ ~(f = h /\ online[t])
    BY <2>1, <2>4
  <2> QED BY <2>2, <2>3, <2>4
<1>3. l \in [Hosts -> [Hosts -> Seq(Stanzas)]]
  BY <1>2
<1> HIDE DEF l
<1>4. OffersSound' /\ link' \in [Hosts -> [Hosts -> Seq(Stanzas)]]
  BY <1>1, <1>2, <1>3, LinkSound, KeySoundStays
<1>5. DialsSound'
  <2>1. ASSUME NEW f \in Hosts, f # h
        PROVE  online'[f] = online[f] /\ dials'[f] = dials[f]
    BY <1>1, <2>1 DEF RInv, TypeOK
  <2>2. dials'[h] = {}
    BY <1>1 DEF RInv, TypeOK
  <2> QED BY <1>1, <2>1, <2>2 DEF RInv, DialsSound, LetsPeerInitiate, KeySound
<1>8. LoggedIn'
  BY <1>1 DEF RInv, TypeOK, LoggedIn
<1>6. offers' \in [Hosts -> Seq(Jids)]
  BY <1>1 DEF RInv, TypeOK
<1>7. /\ online' \in [Hosts -> BOOLEAN] /\ session' \in [Hosts -> Nat]
      /\ visible' \in [Hosts -> BOOLEAN]
      /\ peers' \in [Hosts -> SUBSET Jids] /\ dials' \in [Hosts -> SUBSET Keys]
  BY <1>1 DEF RInv, TypeOK
<1> QED BY <1>4, <1>5, <1>6, <1>7, <1>8 DEF RInv, TypeOK

(* Taking a stanza off a queue, and answering it. *)
LEMMA ConsumeSound ==
  ASSUME RInv, NEW h \in Hosts, NEW g \in Hosts, Reads(h, g), Consume(h, g),
         UNCHANGED <<session, visible>>
  PROVE  OffersSound' /\ link' \in [Hosts -> [Hosts -> Seq(Stanzas)]]
<1> DEFINE l == [link EXCEPT ![g][h] = Tail(@)]
<1>1. link' = l /\ link[g][h] # <<>>
  BY DEF Consume, Reads
<1>2. link \in [Hosts -> [Hosts -> Seq(Stanzas)]]
  BY DEF RInv, TypeOK
<1>3. ASSUME NEW f \in Hosts, NEW t \in Hosts
      PROVE  l[f][t] \in Seq(Stanzas) /\ Sound(l[f][t], f, t)
  <2>1. link[f][t] \in Seq(Stanzas) /\ Sound(link[f][t], f, t)
    BY QueueSound
  <2>2. CASE f = g /\ t = h
    <3>1. Tail(link[g][h]) \in Seq(Stanzas) /\ Sound(Tail(link[g][h]), g, h)
      BY <1>1, <2>1, <2>2, TailSound
    <3> QED BY <1>2, <2>2, <3>1
  <2>3. CASE ~(f = g /\ t = h)
    <3>1. l[f][t] = link[f][t]
      BY <1>2, <2>3
    <3> QED BY <2>1, <3>1
  <2> QED BY <2>2, <2>3
<1>4. l \in [Hosts -> [Hosts -> Seq(Stanzas)]]
  BY <1>2, <1>3
<1> HIDE DEF l
<1> QED BY <1>1, <1>3, <1>4, LinkSound, KeySoundStays

LEMMA AnswerSound ==
  ASSUME RInv, NEW h \in Hosts, NEW g \in Hosts, g # h, Reads(h, g),
         NEW jid, NEW reply \in Stanzas, Answer(h, g, jid, reply),
         reply.type = "visible" => KeySound(h, reply.key),
         UNCHANGED <<session, visible>>
  PROVE  OffersSound' /\ link' \in [Hosts -> [Hosts -> Seq(Stanzas)]]
<1> DEFINE to == IF online[g] /\ jid = Jid(g) THEN Append(link[h][g], reply)
                                              ELSE link[h][g]
           l == [link EXCEPT ![g][h] = Tail(@), ![h][g] = to]
<1>1. link \in [Hosts -> [Hosts -> Seq(Stanzas)]]
  BY DEF RInv, TypeOK
<1>2. link' = l /\ link[g][h] # <<>>
  BY <1>1 DEF Answer, Reads
<1>3. to \in Seq(Stanzas) /\ Sound(to, h, g)
  <2>1. link[h][g] \in Seq(Stanzas) /\ Sound(link[h][g], h, g)
    BY QueueSound
  <2>2. Append(link[h][g], reply) \in Seq(Stanzas)
        /\ Sound(Append(link[h][g], reply), h, g)
    BY <2>1, AppendSound
  <2> QED BY <2>1, <2>2
<1> HIDE DEF to
<1>4. ASSUME NEW f \in Hosts, NEW t \in Hosts
      PROVE  l[f][t] \in Seq(Stanzas) /\ Sound(l[f][t], f, t)
  <2>1. link[f][t] \in Seq(Stanzas) /\ Sound(link[f][t], f, t)
    BY QueueSound
  <2>2. CASE f = g /\ t = h
    <3>1. Tail(link[g][h]) \in Seq(Stanzas) /\ Sound(Tail(link[g][h]), g, h)
      BY <1>2, <2>1, <2>2, TailSound
    <3>2. l[g][h] = Tail(link[g][h])
      BY <1>1
    <3> QED BY <2>2, <3>1, <3>2
  <2>3. CASE f = h /\ t = g
    <3>1. l[h][g] = to
      BY <1>1
    <3> QED BY <1>3, <2>3, <3>1
  <2>4. CASE ~(f = g /\ t = h) /\ ~(f = h /\ t = g)
    <3>1. l[f][t] = link[f][t]
      BY <1>1, <2>4
    <3> QED BY <2>1, <3>1
  <2> QED BY <2>2, <2>3, <2>4
<1>5. l \in [Hosts -> [Hosts -> Seq(Stanzas)]]
  BY <1>1, <1>4
<1> HIDE DEF l
<1> QED BY <1>2, <1>4, <1>5, LinkSound, KeySoundStays

LEMMA HeadType ==
  ASSUME RInv, NEW h \in Hosts, NEW g \in Hosts, Reads(h, g)
  PROVE  /\ Head(link[g][h]) \in Stanzas /\ Head(link[g][h]).from \in Jids
         /\ Head(link[g][h]).type = "visible" =>
               /\ g # h /\ KeySound(g, Head(link[g][h]).key)
               /\ Head(link[g][h]).key \in Keys
<1> DEFINE q == link[g][h]
<1>1. q \in Seq(Stanzas) /\ q # <<>> /\ Sound(q, g, h)
  BY QueueSound DEF Reads
<1> HIDE DEF q
<1>2. Head(q) = q[1] /\ 1 \in DOMAIN q /\ Head(q) \in Stanzas
  BY <1>1
<1>3. Head(q).from \in Jids /\ (Head(q).type = "visible" => Head(q).key \in Keys)
  BY <1>2 DEF Stanzas
<1>4. Head(q).type = "visible" => g # h /\ KeySound(g, Head(q).key)
  BY <1>1, <1>2 DEF Sound
<1> QED BY <1>2, <1>3, <1>4 DEF q

LEMMA PresenceReceivedStep ==
  ASSUME RInv, NEW h \in Hosts, NEW g \in Hosts, PresenceReceived(h, g)
  PROVE  RInv'
<1> DEFINE jid == Head(link[g][h]).from
           key == [host |-> h, session |-> session[h], index |-> Len(offers[h]) + 1]
<1>1. Reads(h, g) /\ UNCHANGED <<online, session, visible, dials>>
  BY DEF PresenceReceived
<1>2. jid \in Jids
  BY <1>1, HeadType
<1>3. session[h] \in Nat \ {0}
  BY <1>1 DEF RInv, TypeOK, LoggedIn, Reads
<1>4. peers' \in [Hosts -> SUBSET Jids]
  BY <1>2 DEF RInv, TypeOK, PresenceReceived
<1>5. /\ offers' \in [Hosts -> Seq(Jids)]
      /\ OffersSound' /\ link' \in [Hosts -> [Hosts -> Seq(Stanzas)]]
  <2>0. offers \in [Hosts -> Seq(Jids)] /\ offers[h] \in Seq(Jids)
    BY DEF RInv, TypeOK
  <2>1. CASE Consume(h, g) /\ UNCHANGED offers
    BY <1>1, <2>0, <2>1, ConsumeSound
  <2>2. CASE /\ g # h /\ visible[h]
             /\ offers' = [offers EXCEPT ![h] = Append(@, jid)]
             /\ Answer(h, g, jid, Offer(h, key))
    <3>1. key \in Keys /\ KeySound(h, key)
      BY <1>3, <2>0, <2>2 DEF Keys, KeySound
    <3> HIDE DEF key
    <3>2. Jid(h) \in Jids
      BY <1>3, JidType
    <3>3. Offer(h, key) \in Stanzas /\ Offer(h, key).key = key
      BY <3>1, <3>2 DEF Offer, Stanzas
    <3>4. Append(offers[h], jid) \in Seq(Jids)
      BY <1>2, <2>0
    <3>5. offers' \in [Hosts -> Seq(Jids)]
      BY <2>0, <2>2, <3>4
    <3>6. OffersSound' /\ link' \in [Hosts -> [Hosts -> Seq(Stanzas)]]
      BY <1>1, <2>2, <3>1, <3>3, AnswerSound
    <3> QED BY <3>5, <3>6
  <2>3. CASE g # h /\ Answer(h, g, jid, Stanza("hidden", h)) /\ UNCHANGED offers
    <3>1. Stanza("hidden", h) \in Stanzas /\ Stanza("hidden", h).type = "hidden"
      BY <1>3, StanzaType
    <3>2. OffersSound' /\ link' \in [Hosts -> [Hosts -> Seq(Stanzas)]]
      BY <1>1, <2>3, <3>1, AnswerSound
    <3> QED BY <2>0, <2>3, <3>2
  <2> QED BY <2>1, <2>2, <2>3 DEF PresenceReceived
<1>6. DialsSound' /\ LoggedIn'
  BY <1>1 DEF RInv, DialsSound, LetsPeerInitiate, LoggedIn, KeySound
<1> QED BY <1>1, <1>4, <1>5, <1>6 DEF RInv, TypeOK

LEMMA MessageReceivedStep ==
  ASSUME RInv, NEW h \in Hosts, NEW g \in Hosts, MessageReceived(h, g)
  PROVE  RInv'
<1> DEFINE m == Head(link[g][h])
<1>1. /\ Reads(h, g) /\ Consume(h, g)
      /\ UNCHANGED <<online, session, visible, peers, offers>>
  BY DEF MessageReceived
<1>2. OffersSound' /\ link' \in [Hosts -> [Hosts -> Seq(Stanzas)]]
  BY <1>1, ConsumeSound
<1>3. \/ UNCHANGED dials
      \/ /\ m.type = "visible" /\ ~LetsPeerInitiate(h, g)
         /\ dials' = [dials EXCEPT ![h] = @ \cup {m.key}]
  BY DEF MessageReceived
<1>4. m.type = "visible" =>
         g # h /\ KeySound(g, m.key) /\ m.key \in Keys
  BY <1>1, HeadType
<1> HIDE DEF m
<1>5. dials \in [Hosts -> SUBSET Keys]
  BY DEF RInv, TypeOK
<1>6. dials' \in [Hosts -> SUBSET Keys]
  BY <1>3, <1>4, <1>5
<1>7. DialsSound'
  <2>1. online[h]
    BY <1>1 DEF Reads
  <2>2. ASSUME NEW f \in Hosts, ~online'[f]
        PROVE  dials'[f] = {}
    <3>1. f # h /\ dials[f] = {}
      BY <1>1, <2>1, <2>2 DEF RInv, DialsSound
    <3> QED BY <1>3, <1>5, <3>1
  <2>3. ASSUME NEW f \in Hosts, NEW k \in dials'[f]
        PROVE  \E e \in Hosts :
                  e # f /\ KeySound(e, k)' /\ ~LetsPeerInitiate(f, e)'
    <3>1. \/ k \in dials[f]
          \/ /\ f = h /\ k = m.key
             /\ m.type = "visible" /\ ~LetsPeerInitiate(h, g)
      BY <1>3, <1>5, <2>3
    <3>2. PICK e \in Hosts : e # f /\ KeySound(e, k) /\ ~LetsPeerInitiate(f, e)
      BY <1>4, <3>1 DEF RInv, DialsSound
    <3> QED BY <1>1, <3>2 DEF KeySound, LetsPeerInitiate
  <2> QED BY <2>2, <2>3 DEF DialsSound
<1>8. LoggedIn'
  BY <1>1 DEF RInv, LoggedIn
<1> QED BY <1>1, <1>2, <1>6, <1>7, <1>8 DEF RInv, TypeOK

LEMMA InitRInv == Init => RInv
<1> SUFFICES ASSUME Init
             PROVE  RInv
  OBVIOUS
<1>1. TypeOK
  <2>1. <<>> \in Seq(Stanzas) /\ <<>> \in Seq(Jids)
    OBVIOUS
  <2> QED BY <2>1 DEF Init, TypeOK
<1>2. OffersSound
  BY DEF Init, OffersSound
<1> QED BY <1>1, <1>2 DEF Init, RInv, LoggedIn, DialsSound

LEMMA NextRInv == RInv /\ [Next]_vars => RInv'
<1> SUFFICES ASSUME RInv, [Next]_vars
             PROVE  RInv'
  OBVIOUS
<1>1. CASE UNCHANGED vars
  BY <1>1 DEF vars, RInv, TypeOK, LoggedIn, OffersSound, DialsSound, LetsPeerInitiate,
             KeySound
<1>2. CASE Next
  BY <1>2, LoginStep, LogoutStep, PresenceReceivedStep, MessageReceivedStep DEF Next
<1> QED BY <1>1, <1>2

-----------------------------------------------------------------------------
(* The state of every host keeps its type: a message names the host it      *)
(* comes from, and a key is one its host could have made.                   *)
THEOREM RendezvousTypeCorrect == Spec => []TypeOK
<1>1. RInv => TypeOK
  BY DEF RInv
<1> QED BY <1>1, InitRInv, NextRInv, PTL DEF Spec

(* jabberMsg decides who dials from the two addresses alone, each side on    *)
(* its own and at a time of its own; if no two hosts have the same address,  *)
(* the decisions agree whatever was restarted in between, and whether or not *)
(* it is visible again.                                                      *)
THEOREM OnlyOneInitiates ==
  ASSUME \A g, h \in Hosts : Ip[g] = Ip[h] => g = h
  PROVE  Spec => []OneInitiator
<1>1. ASSUME RInv, NEW h \in Hosts, NEW g \in Hosts, Initiates(h, g)
      PROVE  g # h /\ visible[g] /\ ~LetsPeerInitiate(h, g)
  BY <1>1 DEF RInv, DialsSound, KeySound, Initiates
<1>2. RInv => OneInitiator
  <2> SUFFICES ASSUME RInv, NEW h \in Hosts, NEW g \in Hosts,
                      Initiates(h, g), Initiates(g, h)
               PROVE  FALSE
    BY DEF OneInitiator
  <2>1. g # h /\ visible[g] /\ ~LetsPeerInitiate(h, g)
    BY <1>1
  <2>2. visible[h] /\ ~LetsPeerInitiate(g, h)
    BY <1>1
  <2>3. Ip[g] \in Nat /\ Ip[h] \in Nat
    BY RendezvousAssumption
  <2> QED BY <2>1, <2>2, <2>3 DEF LetsPeerInitiate
<1> QED BY <1>2, InitRInv, NextRInv, PTL DEF Spec
-----------------------------------------------------------------------------
(* An offer is only ever extended to a jid on the list of online peers,      *)
(* which newJabberPeer has put there first.                                  *)
OfferedKnown ==
    \A h \in Hosts : \A i \in DOMAIN offers[h] : offers[h][i] \in peers[h]

OInv == RInv /\ OfferedKnown /\ OneOfferEach

LEMMA AppendOffer ==
  ASSUME OInv, NEW h \in Hosts, NEW jid \in Jids, ~Known(h, jid),
         offers' = [offers EXCEPT ![h] = Append(@, jid)],
         peers' = [peers EXCEPT ![h] = @ \cup {jid}]
  PROVE  OfferedKnown' /\ OneOfferEach'
<1> DEFINE q == offers[h]
<1>1. /\ offers \in [Hosts -> Seq(Jids)] /\ q \in Seq(Jids)
      /\ peers \in [Hosts -> SUBSET Jids]
  BY DEF OInv, RInv, TypeOK
<1>2. jid \notin peers[h]
  BY DEF Known
<1>3. ASSUME NEW g \in Hosts
      PROVE  /\ offers'[g] = IF g = h THEN Append(q, jid) ELSE offers[g]
             /\ peers'[g] = IF g = h THEN peers[h] \cup {jid} ELSE peers[g]
  BY <1>1
<1>4. /\ \A i \in DOMAIN q : q[i] \in peers[h]
      /\ \A i, j \in DOMAIN q : q[i] = q[j] => i = j
  BY DEF OInv, OfferedKnown, OneOfferEach
<1> HIDE DEF q
<1>5. /\ DOMAIN Append(q, jid) = 1..(Len(q) + 1) /\ DOMAIN q = 1..Len(q)
      /\ \A i \in 1..Len(q) : Append(q, jid)[i] = q[i]
      /\ Append(q, jid)[Len(q) + 1] = jid
      /\ Len(q) \in Nat
  BY <1>1
<1>6. \A i \in DOMAIN Append(q, jid) :
         Append(q, jid)[i] \in peers[h] \cup {jid}
  BY <1>4, <1>5
<1>7. \A i, j \in DOMAIN Append(q, jid) :
         Append(q, jid)[i] = Append(q, jid)[j] => i = j
  <2> SUFFICES ASSUME NEW i \in 1..(Len(q) + 1), NEW j \in 1..(Len(q) + 1),
                      Append(q, jid)[i] = Append(q, jid)[j]
               PROVE  i = j
    BY <1>5
  <2>1. CASE i \in 1..Len(q) /\ j \in 1..Len(q)
    BY <1>4, <1>5, <2>1
  <2>2. CASE i = Len(q) + 1 \/ j = Len(q) + 1
    BY <1>2, <1>4, <1>5, <2>2
  <2> QED BY <1>5, <2>1, <2>2
<1>8. OfferedKnown'
  BY <1>3, <1>6 DEF OInv, OfferedKnown
<1>9. OneOfferEach'
  <2> SUFFICES ASSUME NEW g \in Hosts, NEW i \in DOMAIN offers'[g],
                      NEW j \in DOMAIN offers'[g], offers'[g][i] = offers'[g][j]
               PROVE  i = j
    BY DEF OneOfferEach
  <2>1. CASE g = h
    BY <1>3, <1>7, <2>1
  <2>2. CASE g # h
    BY <1>3, <2>2 DEF OInv, OneOfferEach
  <2> QED BY <2>1, <2>2
<1> QED BY <1>8, <1>9

LEMMA NextOInv == OInv /\ [Next]_vars => OInv'
<1> SUFFICES ASSUME OInv, [Next]_vars
             PROVE  OfferedKnown' /\ OneOfferEach'
  BY NextRInv DEF OInv
<1>1. RInv /\ TypeOK /\ OfferedKnown /\ OneOfferEach
  BY DEF OInv, RInv
<1>2. ASSUME UNCHANGED <<peers, offers>>
      PROVE  OfferedKnown' /\ OneOfferEach'
  BY <1>1, <1>2 DEF OfferedKnown, OneOfferEach
<1>3. ASSUME NEW h \in Hosts, Logout(h)
      PROVE  OfferedKnown' /\ OneOfferEach'
  <2>1. ASSUME NEW g \in Hosts
        PROVE  /\ offers'[g] = IF g = h THEN <<>> ELSE offers[g]
               /\ peers'[g] = IF g = h THEN {} ELSE peers[g]
    BY <1>1, <1>3 DEF Logout, TypeOK
  <2>2. DOMAIN <<>> = {}
    OBVIOUS
  <2> QED BY <1>1, <2>1, <2>2 DEF OfferedKnown, OneOfferEach
<1>4. ASSUME NEW h \in Hosts, NEW g \in Hosts, PresenceReceived(h, g)
      PROVE  OfferedKnown' /\ OneOfferEach'
  <2> DEFINE jid == Head(link[g][h]).from
  <2>1. jid \in Jids
    BY <1>1, <1>4, HeadType DEF PresenceReceived
  <2>2. peers' = [peers EXCEPT ![h] = @ \cup {jid}]
    BY <1>4 DEF PresenceReceived
  <2>3. \/ UNCHANGED offers
        \/ ~Known(h, jid) /\ offers' = [offers EXCEPT ![h] = Append(@, jid)]
    BY <1>4 DEF PresenceReceived
  <2> HIDE DEF jid
  <2>4. CASE UNCHANGED offers
    <3>1. \A f \in Hosts : peers[f] \subseteq peers'[f]
      BY <1>1, <2>2 DEF TypeOK
    <3> QED BY <1>1, <2>4, <3>1 DEF OfferedKnown, OneOfferEach
  <2>5. CASE ~Known(h, jid) /\ offers' = [offers EXCEPT ![h] = Append(@, jid)]
    BY <2>1, <2>2, <2>5, AppendOffer
  <2> QED BY <2>3, <2>4, <2>5
<1>5. ASSUME NEW h \in Hosts, Login(h)
      PROVE  UNCHANGED <<peers, offers>>
  BY <1>5 DEF Login
<1>6. ASSUME NEW h \in Hosts, NEW g \in Hosts, MessageReceived(h, g)
      PROVE  UNCHANGED <<peers, offers>>
  BY <1>6 DEF MessageReceived
<1>7. CASE UNCHANGED vars
  BY <1>2, <1>7 DEF vars
<1>8. CASE Next
  BY <1>2, <1>3, <1>4, <1>5, <1>6, <1>8 DEF Next
<1> QED BY <1>7, <1>8

(* However often the presence of a peer comes, from how many logins, a host  *)
(* extends it one offer: the offers are to jids already on the list, and an  *)
(* offer is made to none that is.                                            *)
THEOREM OffersOnce == Spec => []OneOfferEach
<1>1. Init => OInv
  <2> SUFFICES ASSUME Init
               PROVE  OfferedKnown /\ OneOfferEach
    BY InitRInv DEF OInv
  <2>0. DOMAIN <<>> = {}
    OBVIOUS
  <2>1. \A h \in Hosts : DOMAIN offers[h] = {}
    BY <2>0 DEF Init
  <2> QED BY <2>1 DEF OfferedKnown, OneOfferEach
<1>2. OInv => OneOfferEach
  BY DEF OInv
<1> QED BY <1>1, <1>2, NextOInv, PTL DEF Spec
=============================================================================
