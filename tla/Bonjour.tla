-------------------------------- MODULE Bonjour --------------------------------
(***************************************************************************)
(* DAAP services on the local network: the browser that follows them, the  *)
(* resolver that asks for their address, the register that advertises one, *)
(* and what Servent makes of them.  Every DNSServiceProcessResult answers  *)
(* what the daemon has written so far to that query; lookupHost answers    *)
(* from the event loop, in any order.                                      *)
(***************************************************************************)
EXTENDS Integers, FiniteSets, Sequences, SequencesExt

CONSTANTS None,
          Services,     \* DAAP services of other programs on this network
          MaxChanges,   \* bound: services that appear or vanish
          MaxAnswers    \* bound: answers to resolve queries

VARIABLES lan,          \* the services there are
          told,         \* what the daemon wrote to the browse query: [add, record]
          bonjourRecords,       \* the browser's list, in order of appearance
          m_bonjourrecords,     \* Servent's
          resolveRef,   \* dnssref of the resolver: the record it asks for, or None
          answers,      \* how often that query was answered
          bonjourPort,  \* the service whose port was answered last, or None (-1)
          lookups,      \* hosts being looked up, by their services
          cleanups,     \* queued calls of cleanupResolve
          resolved,     \* what bonjourRecordResolved was told: [host, port]
          twice,        \* a query was answered twice
          registerRef,  \* dnssref of the register: the name it advertises, or None
          changes, answered

bonjourVars == <<lan, told, bonjourRecords, m_bonjourrecords, resolveRef, answers, bonjourPort,
                 lookups, cleanups, resolved, twice, registerRef, changes, answered>>

InitBonjour(bound) ==
    /\ lan = {} /\ told = <<>> /\ bonjourRecords = <<>> /\ m_bonjourrecords = {}
    /\ resolveRef = None /\ answers = 0 /\ bonjourPort = None /\ lookups = <<>> /\ cleanups = 0
    /\ resolved = {} /\ twice = FALSE /\ registerRef = None
    /\ changes = bound /\ answered = 0

-----------------------------------------------------------------------------
(* The network: a service appears or vanishes, and the daemon says so. *)
LanChanges ==
    /\ changes < MaxChanges /\ changes' = changes + 1
    /\ \E s \in Services :
          /\ lan' = IF s \in lan THEN lan \ {s} ELSE lan \cup {s}
          /\ told' = Append(told, [add |-> s \notin lan, record |-> s])
    /\ UNCHANGED <<bonjourRecords, m_bonjourrecords, resolveRef, answers, bonjourPort, lookups,
                   cleanups, resolved, twice, registerRef, answered>>

(* removeAll: as Remove of SequencesExt does, by a fold. *)
Without(list, record) ==
    FoldLeft(LAMBDA kept, r : IF r = record THEN kept ELSE Append(kept, r), <<>>, list)

(* bonjourBrowseReply *)
Entered(list, t) ==
    IF ~t.add THEN Without(list, t.record)
    ELSE IF Contains(list, t.record) THEN list ELSE Append(list, t.record)

Slip_Found(list) == m_bonjourrecords \cup Range(list)
Found(list) == Range(list)

Slip_Asks(record) == resolveRef' = record
(* resolveBonjourRecord: one query at a time. *)
Asks(record) == resolveRef' = IF resolveRef = None THEN record ELSE resolveRef

(* updateBonjourRecords.  The daemon may refuse a query. *)
UpdateBonjourRecords(list) ==
    LET new == SelectSeq(list, LAMBDA r : r \notin m_bonjourrecords) IN
    /\ m_bonjourrecords' = Found(list)
    /\ \/ (new = <<>> \/ resolveRef = None) /\ UNCHANGED <<resolveRef, answers>>
       \/ \E i \in DOMAIN new :    \* those before the i-th were refused
             /\ resolveRef = None \/ i = 1
             /\ Asks(new[i])
             /\ answers' = IF resolveRef' = resolveRef THEN answers ELSE 0

(* The browse query's socket: n replies, the last without "more coming". *)
Browsed ==
    /\ \E n \in 1..Len(told) :
          /\ bonjourRecords' = FoldLeft(Entered, bonjourRecords, SubSeq(told, 1, n))
          /\ told' = SubSeq(told, n + 1, Len(told))
          /\ UpdateBonjourRecords(bonjourRecords')
    /\ UNCHANGED <<lan, bonjourPort, lookups, cleanups, resolved, twice, registerRef, changes, answered>>

-----------------------------------------------------------------------------
(* bonjourResolveReply: an error leaves the query as it is; an address is     *)
(* looked up, and a service on two interfaces has two.                       *)
ResolveReply ==
    /\ resolveRef # None /\ answered < MaxAnswers /\ answered' = answered + 1
    /\ \/ UNCHANGED <<bonjourPort, lookups, answers, twice>>
       \/ /\ bonjourPort' = resolveRef /\ lookups' = Append(lookups, resolveRef)
          /\ answers' = answers + 1 /\ twice' = (twice \/ answers > 0)
    /\ UNCHANGED <<lan, told, bonjourRecords, m_bonjourrecords, resolveRef, cleanups, resolved,
                   registerRef, changes>>

(* finishConnect: bonjourRecordResolved is emitted, and cleanup is queued. *)
FinishConnect ==
    /\ \E i \in DOMAIN lookups :
          /\ resolved' = resolved \cup {[host |-> lookups[i], port |-> bonjourPort]}
          /\ lookups' = RemoveAt(lookups, i)
    /\ cleanups' = cleanups + 1
    /\ UNCHANGED <<lan, told, bonjourRecords, m_bonjourrecords, resolveRef, answers, bonjourPort,
                   twice, registerRef, changes, answered>>

CleanupResolve ==
    /\ cleanups > 0 /\ cleanups' = cleanups - 1
    /\ resolveRef' = None /\ bonjourPort' = None /\ answers' = 0
    /\ UNCHANGED <<lan, told, bonjourRecords, m_bonjourrecords, lookups, resolved,
                   twice, registerRef, changes, answered>>

(* registerService: one service for the life of the register. *)
Registers(name) == registerRef' = IF registerRef = None THEN name ELSE registerRef

-----------------------------------------------------------------------------
(* When all that the daemon said is read, Servent knows the services there    *)
(* are, however often each came and went in one reply.                       *)
KnownIsThere == told = <<>> => m_bonjourrecords = lan /\ Len(bonjourRecords) = Cardinality(lan)

(* The address that Servent is told for a record is a host with the port of   *)
(* that host, as long as no query is answered twice: resolver, lookup and     *)
(* cleanup of one record never mix with those of the next.                   *)
ResolvedRight == twice \/ \A r \in resolved : r.port = r.host

=============================================================================
