------------------------------ MODULE LibraryProofs ------------------------------
(***************************************************************************)
(* Wherever the process stops and whatever statements fail, the database   *)
(* is sound, a file is listed to the peers as it was last added, and a     *)
(* search finds the names whose index was built, for any music and any     *)
(* number of stops and failures.                                           *)
(***************************************************************************)
EXTENDS Library, FiniteSetTheorems, NaturalsInduction, WellFoundedInduction, TLAPS

(* A table's rows are a sequence, whatever its keys are. *)
RowsAreSeqs == DOMAIN rows = Tables /\ \A t \in Tables : \E S : rows[t] \in Seq(S)

Statements == {"select", "unjoin", "remove", "insert", "artist", "track", "album", "join"}

(* The addFile call in progress has made the rows it has the ids of. *)
CallShape ==
    \/ job = Idle
    \/ job = [at |-> "index", table |-> job.table, since |-> job.since,
              id |-> job.id, last |-> job.last, left |-> job.left]
    \/ /\ job = [at |-> job.at, url |-> job.url, m |-> job.m, since |-> job.since, fid |-> job.fid,
                 artist |-> job.artist, track |-> job.track, album |-> job.album]
       /\ job.at \in Statements

HasArtist(a) == a \in DOMAIN rows["artist"]
HasTrack(k, a) == k \in DOMAIN rows["track"] /\ rows["track"][k][1] = a
HasAlbum(k, a) == k # 0 => k \in DOMAIN rows["album"] /\ rows["album"][k][1] = a

CallSound ==
    /\ CallShape
    /\ job.at \in {"track", "album", "join"} => HasArtist(job.artist)
    /\ job.at \in {"album", "join"} => HasTrack(job.track, job.artist)
    /\ job.at = "join" => HasAlbum(job.album, job.artist)

(* A statement of the schema that failed, or that is about a table whose      *)
(* statement did.                                                            *)
Lost(s) == s \in lost \/ (s \in DOMAIN Over /\ Over[s] \in lost)
Settled(s) == s \in made \/ Lost(s)

(* The statements updateSchema is through with have taken effect or are lost, *)
(* and all of them are once the version is recorded.                         *)
BootSound ==
    /\ boot \in 0..18 /\ failures \in Nat
    /\ \A i \in 1..18 : boot = 0 \/ i < boot \/ Has("version") => Settled(Schema[i])
    /\ job # Idle => boot = 0

(* Only a table without its unique index has duplicates. *)
UniqueSound ==
    \A t \in DOMAIN Unique : Has(Unique[t]) \/ ~Lost(Unique[t]) => ~Duplicated(t)

(* An id of a file is not given out again. *)
FileIds == lastFile \in Nat /\ DOMAIN file \subseteq 1..lastFile

JInv == RowsAreSeqs /\ CallSound /\ JoinConsistent
VInv == BootSound /\ UniqueSound
LInv == JInv /\ VInv /\ FileIds

-----------------------------------------------------------------------------
(* The schema *)

LEMMA SchemaFacts == DOMAIN Schema = 1..18 /\ Len(Schema) = 18
BY DEF Schema

(* A table is made before what is over it. *)
LEMMA TablesFirst ==
    ASSUME NEW b \in 1..18, Schema[b] \in DOMAIN Over
    PROVE  /\ Over[Schema[b]] \notin DOMAIN Over
           /\ \E i \in 1..b - 1 : Schema[i] = Over[Schema[b]]
<1>1. b \in {2, 4, 6, 8, 10, 12, 14, 16, 18}
  BY DEF Schema, Over
<1>2. CASE b = 2
  BY <1>2, 1 \in 1..1 DEF Schema, Over
<1>3. CASE b = 4
  BY <1>3, 3 \in 1..3 DEF Schema, Over
<1>4. CASE b = 6
  BY <1>4, 5 \in 1..5 DEF Schema, Over
<1>5. CASE b = 8
  BY <1>5, 7 \in 1..7 DEF Schema, Over
<1>6. CASE b = 10
  BY <1>6, 9 \in 1..9 DEF Schema, Over
<1>7. CASE b = 12
  BY <1>7, 11 \in 1..11 DEF Schema, Over
<1>8. CASE b = 14
  BY <1>8, 13 \in 1..13 DEF Schema, Over
<1>9. CASE b = 16
  BY <1>9, 15 \in 1..15 DEF Schema, Over
<1>10. CASE b = 18
  BY <1>10, 17 \in 1..17 DEF Schema, Over
<1> QED BY <1>1, <1>2, <1>3, <1>4, <1>5, <1>6, <1>7, <1>8, <1>9, <1>10

(* What keeps a statement that does not fail from taking effect is lost. *)
LEMMA TurnSettles ==
    ASSUME VInv, boot # 0, ~TakesEffect(Schema[boot])
    PROVE  Lost(Schema[boot])
<1>1. boot \in 1..18
  BY DEF VInv, BootSound
<1> DEFINE s == Schema[boot]
<1>2. CASE s \in DOMAIN Over /\ ~Has(Over[s])
  <2>1. PICK i \in 1..boot - 1 : Schema[i] = Over[s] /\ Over[s] \notin DOMAIN Over
    BY <1>1, <1>2, TablesFirst
  <2>2. i \in 1..18 /\ i < boot
    BY <1>1
  <2>3. Settled(Over[s])
    BY <2>1, <2>2 DEF VInv, BootSound
  <2> QED BY <1>2, <2>1, <2>3 DEF Settled, Lost, Has
<1>3. ASSUME NEW t \in DOMAIN Unique, Unique[t] = s, Duplicated(t)
      PROVE  Lost(s)
  BY <1>3 DEF VInv, UniqueSound
<1> QED BY <1>2, <1>3 DEF TakesEffect

LEMMA UpdateSchemaVInv == VInv /\ UpdateSchema => VInv'
<1> SUFFICES ASSUME VInv, UpdateSchema
             PROVE  VInv'
  OBVIOUS
<1>1. /\ boot \in 1..18 /\ boot' = (IF boot = 18 THEN 0 ELSE boot + 1)
      /\ UNCHANGED <<job, rows, file>> /\ failures' \in Nat /\ job = Idle
  BY SchemaFacts DEF VInv, BootSound, UpdateSchema, Works, Fails
<1>2. made \subseteq made' /\ lost \subseteq lost' /\ made' \subseteq made \cup {Schema[boot]}
  BY DEF UpdateSchema
<1>3. \A s : Settled(s) => Settled(s)'
  BY <1>2 DEF Settled, Lost
<1>4. ASSUME NEW s, s = Schema[boot]
      PROVE  Settled(s)'
  <2>1. CASE made' = (IF TakesEffect(s) THEN made \cup {s} ELSE made)
    <3>1. s \in made' \/ Lost(s)
      BY <1>1, <1>4, <2>1, TurnSettles
    <3> QED BY <1>2, <3>1 DEF Settled, Lost
  <2>2. CASE lost' = lost \cup {s}
    BY <2>2 DEF Settled, Lost
  <2> QED BY <1>4, <2>1, <2>2 DEF UpdateSchema
<1>5. ASSUME NEW i \in 1..18, boot' = 0 \/ i < boot' \/ Has("version")'
      PROVE  Settled(Schema[i])'
  <2>1. CASE i = boot
    BY <1>4, <2>1
  <2>2. CASE i < boot \/ Has("version")
    <3>1. Settled(Schema[i])
      BY <2>2 DEF VInv, BootSound
    <3> QED BY <1>3, <3>1
  <2>3. CASE i > boot /\ ~Has("version")
    <3>1. Schema[boot] = "version"
      BY <1>1, <1>2, <1>5, <2>3 DEF Has
    <3>2. boot = 18
      BY <1>1, <3>1 DEF Schema
    <3> QED BY <2>3, <3>2
  <2> QED BY <1>1, <2>1, <2>2, <2>3
<1>6. ASSUME NEW t \in DOMAIN Unique, Has(Unique[t])' \/ ~Lost(Unique[t])'
      PROVE  ~Duplicated(t)'
  <2>1. Duplicated(t)' <=> Duplicated(t)
    BY <1>1 DEF Duplicated, Content
  <2>2. CASE Has(Unique[t]) \/ ~Lost(Unique[t])
    BY <2>1, <2>2 DEF VInv, UniqueSound
  <2>3. CASE ~Has(Unique[t]) /\ Lost(Unique[t])
    <3>1. Lost(Unique[t])'
      BY <1>2, <2>3 DEF Lost
    <3>2. Unique[t] = Schema[boot] /\ TakesEffect(Schema[boot])
      BY <1>6, <2>3, <3>1 DEF Has, UpdateSchema
    <3> QED BY <2>1, <3>2 DEF TakesEffect
  <2> QED BY <2>2, <2>3
<1>7. BootSound'
  BY <1>1, <1>5 DEF BootSound, Idle
<1>8. UniqueSound'
  BY <1>6 DEF UniqueSound
<1> QED BY <1>7, <1>8 DEF VInv

LEMMA StopVInv == VInv /\ Stop => VInv'
<1> SUFFICES ASSUME VInv, Stop
             PROVE  VInv'
  OBVIOUS
<1>1. /\ UNCHANGED <<made, lost, rows, file>> /\ job' = Idle
      /\ boot' = 1 \/ (boot' = 0 /\ Has("version"))
      /\ failures' \in Nat
  BY DEF Stop, db, Works, Fails, VInv, BootSound
<1>2. ASSUME NEW i \in 1..18, boot' = 0 \/ i < boot' \/ Has("version")'
      PROVE  Settled(Schema[i])'
  <2>1. Has("version")
    BY <1>1, <1>2 DEF Has
  <2> QED BY <1>1, <2>1 DEF VInv, BootSound, Settled, Lost
<1>3. BootSound'
  BY <1>1, <1>2 DEF BootSound, Idle
<1>4. UniqueSound'
  BY <1>1 DEF VInv, UniqueSound, Has, Lost, Duplicated, Content
<1> QED BY <1>3, <1>4 DEF VInv

(* A table stays as it is, loses rows, or gets one that its index allows. *)
Allowed(t) ==
    \/ /\ DOMAIN Content(t)' \subseteq DOMAIN Content(t)
       /\ \A i \in DOMAIN Content(t)' : Content(t)'[i] = Content(t)[i]
    \/ \E x : /\ DOMAIN Content(t)' \subseteq DOMAIN Content(t) \cup {x}
              /\ \A i \in DOMAIN Content(t) : i # x /\ Content(t)'[i] = Content(t)[i]
              /\ Has(Unique[t]) => \A i \in DOMAIN Content(t) : Content(t)[i] # Content(t)'[x]

(* Every other step runs while updateSchema does not, and makes nothing. *)
LEMMA OtherVInv ==
    ASSUME VInv, UNCHANGED <<made, lost, boot>>, failures' \in Nat,
           \/ UNCHANGED <<job, rows, file>>
           \/ boot = 0 /\ \A t \in DOMAIN Unique : Allowed(t)
    PROVE  VInv'
<1>2. BootSound'
  <2>1. \A s : Settled(s)' <=> Settled(s)
    BY DEF Settled, Lost
  <2>2. (job # Idle => boot = 0)'
    BY DEF VInv, BootSound, Idle
  <2> QED BY <2>1, <2>2 DEF VInv, BootSound, Has
<1>3. ASSUME NEW t \in DOMAIN Unique, Has(Unique[t])' \/ ~Lost(Unique[t])'
      PROVE  ~Duplicated(t)'
  <2>1. Has(Unique[t]) \/ ~Lost(Unique[t])
    BY <1>3 DEF Has, Lost
  <2>2. ~Duplicated(t)
    BY <2>1 DEF VInv, UniqueSound
  <2>3. CASE UNCHANGED <<job, rows, file>>
    BY <2>2, <2>3 DEF Duplicated, Content
  <2>4. CASE boot = 0 /\ Allowed(t)
    <3>1. Has(Unique[t])
      <4>1. \E i \in 1..18 : Schema[i] = Unique[t]
        <5>1. t \in {"artist", "track", "album", "file"}
          BY DEF Unique
        <5>2. Schema[2] = Unique["artist"] /\ Schema[4] = Unique["track"]
              /\ Schema[6] = Unique["album"] /\ Schema[14] = Unique["file"]
          BY DEF Schema, Unique
        <5>3. 2 \in 1..18 /\ 4 \in 1..18 /\ 6 \in 1..18 /\ 14 \in 1..18
          OBVIOUS
        <5> QED BY <5>1, <5>2, <5>3
      <4>2. Settled(Unique[t])
        BY <2>4, <4>1 DEF VInv, BootSound
      <4> QED BY <2>1, <4>2 DEF Settled, Has
    <3> QED BY <2>2, <2>4, <3>1 DEF Allowed, Duplicated
  <2> QED BY <2>3, <2>4
<1>4. UniqueSound'
  BY <1>3 DEF UniqueSound
<1> QED BY <1>2, <1>4 DEF VInv

(* So is a step that changes no row. *)
LEMMA SameAllowed ==
    ASSUME VInv, UNCHANGED <<made, lost, boot, rows, file>>, failures' \in Nat,
           UNCHANGED job \/ boot = 0
    PROVE  VInv'
<1>1. \A t : Allowed(t)
  BY DEF Allowed, Content
<1> QED BY <1>1, OtherVInv

-----------------------------------------------------------------------------
(* The rows *)

(* No row is changed or removed. *)
Grown == \A u \in Tables : \A i \in DOMAIN rows[u] : i \in DOMAIN rows'[u] /\ rows'[u][i] = rows[u][i]

(* A table that another row is appended to keeps the rows it has. *)
LEMMA RowAppended ==
    ASSUME RowsAreSeqs, NEW t \in Tables, NEW key,
           rows' = [rows EXCEPT ![t] = Append(@, key)]
    PROVE  /\ RowsAreSeqs'
           /\ Len(rows'[t]) \in DOMAIN rows'[t] /\ rows'[t][Len(rows'[t])] = key
           /\ Len(rows'[t]) # 0
           /\ Grown
<1>1. PICK S : rows[t] \in Seq(S)
  BY DEF RowsAreSeqs
<1>2. rows'[t] = Append(rows[t], key) /\ DOMAIN rows' = Tables
      /\ \A u \in Tables \ {t} : rows'[u] = rows[u]
  BY DEF RowsAreSeqs
<1>3. rows[t] \in Seq(S \cup {key}) /\ key \in S \cup {key}
  BY <1>1
<1>4. /\ rows'[t] \in Seq(S \cup {key}) /\ Len(rows'[t]) = Len(rows[t]) + 1
      /\ rows'[t][Len(rows[t]) + 1] = key
      /\ \A i \in 1..Len(rows[t]) : rows'[t][i] = rows[t][i]
      /\ DOMAIN rows[t] = 1..Len(rows[t]) /\ DOMAIN rows'[t] = 1..Len(rows[t]) + 1
      /\ Len(rows[t]) \in Nat
  BY <1>2, <1>3
<1>5. RowsAreSeqs'
  BY <1>2, <1>4 DEF RowsAreSeqs
<1> QED BY <1>2, <1>4, <1>5 DEF Grown

(* What the queries for a name return is a row with that key, or 0. *)
LEMMA IdOfRow ==
    ASSUME RowsAreSeqs, NEW t \in Tables, NEW id, IdOf(t, id)
    PROVE  /\ RowsAreSeqs' /\ Grown
           /\ id # 0 => id \in DOMAIN rows'[t] /\ rows'[t][id] = Key(t)
<1>1. CASE UNCHANGED rows /\ (id = 0 \/ id \in Found(t, Key(t)))
  BY <1>1 DEF RowsAreSeqs, Grown, Found
<1>2. CASE rows' = [rows EXCEPT ![t] = Append(@, Key(t))] /\ id = Len(rows'[t])
  BY <1>2, RowAppended DEF Grown
<1> QED BY <1>1, <1>2 DEF IdOf

(* They add a row only if the table's index allows it. *)
LEMMA IdOfAllowed ==
    ASSUME RowsAreSeqs, failures \in Nat, NEW t \in Tables, NEW id, IdOf(t, id), UNCHANGED file
    PROVE  /\ failures' \in Nat
           /\ \A u \in DOMAIN Unique : Allowed(u)
<1>1. failures' \in Nat
  BY DEF IdOf, Works, Fails
<1>2. CASE UNCHANGED rows
  BY <1>1, <1>2 DEF Allowed, Content
<1>3. CASE rows' = [rows EXCEPT ![t] = Append(@, Key(t))] /\ RowTaken(t)
  <2>1. PICK S : rows[t] \in Seq(S)
    BY DEF RowsAreSeqs
  <2>2. rows'[t] = Append(rows[t], Key(t)) /\ \A u \in Tables \ {t} : rows'[u] = rows[u]
    BY <1>3 DEF RowsAreSeqs
  <2>3. PICK x : x = Len(rows[t]) + 1
    OBVIOUS
  <2>4. Append(rows[t], Key(t)) = [i \in 1..x |-> IF i = x THEN Key(t) ELSE rows[t][i]]
    BY <2>1, <2>3
  <2>5. /\ DOMAIN rows'[t] = DOMAIN rows[t] \cup {x} /\ rows'[t][x] = Key(t)
        /\ \A i \in DOMAIN rows[t] : i # x /\ rows'[t][i] = rows[t][i]
    BY <2>1, <2>2, <2>3, <2>4
  <2>6. Has(Unique[t]) => \A i \in DOMAIN rows[t] : rows[t][i] # Key(t)
    BY <1>3 DEF RowTaken, Found
  <2>7. t # "file"
    BY DEF Tables
  <2>8. Allowed(t)
    BY <2>5, <2>6, <2>7 DEF Allowed, Content
  <2>9. ASSUME NEW u \in DOMAIN Unique, u # t
        PROVE  Allowed(u)
    <3>1. UNCHANGED Content(u)
      BY <2>2, <2>9 DEF Content, Unique, Tables
    <3> QED BY <3>1 DEF Allowed
  <2> QED BY <1>1, <2>8, <2>9
<1> QED BY <1>1, <1>2, <1>3 DEF IdOf

(* Rows that a table keeps are still the ones that belong together. *)
LEMMA GrownKeeps ==
    ASSUME Grown, NEW a, NEW k
    PROVE  /\ HasArtist(a) => HasArtist(a)'
           /\ HasTrack(k, a) => HasTrack(k, a)'
           /\ HasAlbum(k, a) => HasAlbum(k, a)'
BY DEF Grown, Tables, HasArtist, HasTrack, HasAlbum

LEMMA GrownJoinConsistent ==
    ASSUME Grown, JoinConsistent,
           \A j \in join' \ join : /\ HasArtist(j.artist)' /\ HasTrack(j.track, j.artist)'
                                   /\ HasAlbum(j.album, j.artist)'
    PROVE  JoinConsistent'
<1> SUFFICES ASSUME NEW j \in join'
             PROVE  /\ HasArtist(j.artist)' /\ HasTrack(j.track, j.artist)'
                    /\ HasAlbum(j.album, j.artist)'
  BY DEF JoinConsistent, HasArtist, HasTrack, HasAlbum
<1>1. CASE j \in join
  <2>1. HasArtist(j.artist) /\ HasTrack(j.track, j.artist) /\ HasAlbum(j.album, j.artist)
    BY <1>1 DEF JoinConsistent, HasArtist, HasTrack, HasAlbum
  <2> QED BY <2>1, GrownKeeps
<1> QED BY <1>1

-----------------------------------------------------------------------------
(* The steps of addFile *)

(* A step that leaves the rows alone, adds nothing to file_join and does not  *)
(* move a call beyond the queries for names keeps what JInv says.            *)
LEMMA SameRowsJInv ==
    ASSUME JInv, UNCHANGED rows, join' \subseteq join,
           \/ UNCHANGED job
           \/ CallShape' /\ job'.at \notin {"track", "album", "join"}
    PROVE  JInv'
<1>1. RowsAreSeqs'
  BY DEF JInv, RowsAreSeqs
<1>2. JoinConsistent'
  BY DEF JInv, JoinConsistent
<1>3. CallSound'
  <2>1. CASE UNCHANGED job
    BY <2>1 DEF JInv, CallSound, CallShape, HasArtist, HasTrack, HasAlbum
  <2>2. CASE CallShape' /\ job'.at \notin {"track", "album", "join"}
    BY <2>2 DEF CallSound
  <2> QED BY <2>1, <2>2
<1> QED BY <1>1, <1>2, <1>3 DEF JInv

LEMMA IdleShape == job' = Idle => CallShape' /\ job'.at \notin {"track", "album", "join"}
BY DEF CallShape, Idle

LEMMA ReturnJInv ==
    ASSUME JInv, NEW fid, Return(fid), UNCHANGED rows, join' \subseteq join
    PROVE  JInv'
BY IdleShape, SameRowsJInv DEF Return

(* The shape of a call at one of its statements. *)
LEMMA CallAt ==
    ASSUME CallSound, job.at \in Statements
    PROVE  job = [at |-> job.at, url |-> job.url, m |-> job.m, since |-> job.since, fid |-> job.fid,
                  artist |-> job.artist, track |-> job.track, album |-> job.album]
BY DEF CallSound, CallShape, Idle, Statements

LEMMA AddFileJInv == JInv /\ AddFile => JInv'
<1> SUFFICES ASSUME JInv, AddFile
             PROVE  JInv'
  OBVIOUS
<1>1. UNCHANGED <<rows, join>>
  BY DEF AddFile, db
<1>2. CallShape' /\ job'.at = "select"
  BY DEF AddFile, CallShape, Statements
<1> QED BY <1>1, <1>2, SameRowsJInv

LEMMA SelectFileJInv == JInv /\ SelectFile => JInv'
<1> SUFFICES ASSUME JInv, SelectFile
             PROVE  JInv'
  OBVIOUS
<1>1. UNCHANGED <<rows, join>> /\ job.at = "select"
  BY DEF SelectFile, db
<1>2. PICK at, fid : Goes(at, fid) /\ at \in {"unjoin", "insert"}
  <2>1. (\E id : Goes("unjoin", id)) \/ Goes("insert", 0)
    BY DEF SelectFile
  <2> QED BY <2>1
<1>3. CallShape' /\ job'.at = at
  BY <1>1, <1>2, CallAt DEF Goes, JInv, CallShape, Statements
<1> QED BY <1>1, <1>2, <1>3, SameRowsJInv

LEMMA UnjoinJInv == JInv /\ Unjoin => JInv'
<1> SUFFICES ASSUME JInv, Unjoin
             PROVE  JInv'
  OBVIOUS
<1>1. UNCHANGED rows /\ join' \subseteq join
  BY DEF Unjoin, Unjoined
<1>2. CallShape' /\ job'.at = "remove"
  BY CallAt DEF Unjoin, Goes, JInv, CallShape, Statements
<1> QED BY <1>1, <1>2, SameRowsJInv

LEMMA DeleteFileJInv == JInv /\ DeleteFile => JInv'
<1> SUFFICES ASSUME JInv, DeleteFile
             PROVE  JInv'
  OBVIOUS
<1>1. UNCHANGED <<rows, join>>
  BY DEF DeleteFile
<1>2. CallShape' /\ job'.at = "insert"
  BY CallAt DEF DeleteFile, Goes, JInv, CallShape, Statements
<1> QED BY <1>1, <1>2, SameRowsJInv

LEMMA InsertFileJInv == JInv /\ InsertFile => JInv'
<1> SUFFICES ASSUME JInv, InsertFile
             PROVE  JInv'
  OBVIOUS
<1>1. UNCHANGED <<rows, join>>
  BY DEF InsertFile
<1>2. CASE job' = [job EXCEPT !.at = "artist", !.fid = lastFile']
  <2>1. CallShape' /\ job'.at = "artist"
    BY <1>2, CallAt DEF InsertFile, JInv, CallShape, Statements
  <2> QED BY <1>1, <2>1, SameRowsJInv
<1>3. CASE Return(0)
  BY <1>1, <1>3, ReturnJInv
<1> QED BY <1>2, <1>3 DEF InsertFile, Goes

(* artistId, trackId and albumId give the call an id of a row of the artist   *)
(* it has.                                                                   *)
LEMMA NamedJInv == ASSUME JInv, NEW t \in Tables, Named(t) PROVE JInv'
<1>1. PICK id : /\ IdOf(t, id)
                /\ IF id = 0 /\ t # "album" THEN Return(0)
                   ELSE job' = [job EXCEPT !.at = Next3[t], ![t] = id] /\ UNCHANGED result
  BY DEF Named
<1>2. /\ RowsAreSeqs' /\ Grown
      /\ id # 0 => id \in DOMAIN rows'[t] /\ rows'[t][id] = Key(t)
  BY <1>1, IdOfRow DEF JInv
<1>3. JoinConsistent'
  BY <1>2, GrownJoinConsistent DEF JInv, Named
<1>4. CallSound'
  <2>1. CASE id = 0 /\ t # "album"
    BY <1>1, <2>1, IdleShape DEF Return, CallSound
  <2>2. CASE ~(id = 0 /\ t # "album")
    <3>1. job' = [job EXCEPT !.at = Next3[t], ![t] = id]
      BY <1>1, <2>2
    <3>2. job = [at |-> t, url |-> job.url, m |-> job.m, since |-> job.since, fid |-> job.fid,
                 artist |-> job.artist, track |-> job.track, album |-> job.album]
      BY CallAt DEF Named, JInv, Tables, Statements
    <3>3. CASE t = "artist"
      <4>1. job' = [at |-> "track", url |-> job.url, m |-> job.m, since |-> job.since,
                    fid |-> job.fid, artist |-> id, track |-> job.track, album |-> job.album]
        BY <3>1, <3>2, <3>3 DEF Next3
      <4> QED BY <1>2, <2>2, <3>3, <4>1 DEF CallSound, CallShape, Statements, HasArtist
    <3>4. CASE t = "track"
      <4>1. job' = [at |-> "album", url |-> job.url, m |-> job.m, since |-> job.since,
                    fid |-> job.fid, artist |-> job.artist, track |-> id, album |-> job.album]
        BY <3>1, <3>2, <3>4 DEF Next3
      <4>2. HasArtist(job.artist)'
        BY <1>2, <3>4, <4>1, GrownKeeps DEF JInv, CallSound, Named, HasArtist
      <4>3. HasTrack(id, job.artist)'
        BY <1>2, <2>2, <3>4, <4>1 DEF Key, HasTrack
      <4> QED BY <4>1, <4>2, <4>3 DEF CallSound, CallShape, Statements, HasTrack
    <3>5. CASE t = "album"
      <4>1. job' = [at |-> "join", url |-> job.url, m |-> job.m, since |-> job.since,
                    fid |-> job.fid, artist |-> job.artist, track |-> job.track, album |-> id]
        BY <3>1, <3>2, <3>5 DEF Next3
      <4>2. HasArtist(job.artist)'
        BY <1>2, <3>5, <4>1, GrownKeeps DEF JInv, CallSound, Named, HasArtist
      <4>3. HasTrack(job.track, job.artist)'
        BY <1>2, <3>5, <4>1, GrownKeeps DEF JInv, CallSound, Named, HasTrack
      <4>4. HasAlbum(id, job.artist)'
        BY <1>2, <3>5, <4>1 DEF Key, HasAlbum
      <4> QED BY <4>1, <4>2, <4>3, <4>4 DEF CallSound, CallShape, Statements, HasAlbum
    <3> QED BY <3>3, <3>4, <3>5 DEF Tables
  <2> QED BY <2>1, <2>2
<1> QED BY <1>2, <1>3, <1>4 DEF JInv

LEMMA InsertJoinJInv == JInv /\ InsertJoin => JInv'
<1> SUFFICES ASSUME JInv, InsertJoin
             PROVE  JInv'
  OBVIOUS
<1>1. UNCHANGED rows /\ job' = Idle /\ job.at = "join"
  BY DEF InsertJoin, Return
<1>2. HasArtist(job.artist) /\ HasTrack(job.track, job.artist) /\ HasAlbum(job.album, job.artist)
  BY <1>1 DEF JInv, CallSound
<1>3. Grown
  BY <1>1 DEF Grown
<1>4. ASSUME NEW j \in join' \ join
      PROVE  /\ HasArtist(j.artist)' /\ HasTrack(j.track, j.artist)'
             /\ HasAlbum(j.album, j.artist)'
  <2>1. j.artist = job.artist /\ j.track = job.track /\ j.album = job.album
    BY <1>4 DEF InsertJoin, JoinRow
  <2> QED BY <1>1, <1>2, <2>1 DEF HasArtist, HasTrack, HasAlbum
<1>5. JoinConsistent'
  BY <1>3, <1>4, GrownJoinConsistent DEF JInv
<1>6. RowsAreSeqs' /\ CallSound'
  BY <1>1, IdleShape DEF JInv, RowsAreSeqs, CallSound
<1> QED BY <1>5, <1>6 DEF JInv
-----------------------------------------------------------------------------
(* All of it *)

LEMMA InitLInv == Init => LInv
<1> SUFFICES ASSUME Init
             PROVE  LInv
  OBVIOUS
<1>1. RowsAreSeqs
  BY DEF Init, RowsAreSeqs
<1>2. CallSound
  BY DEF Init, CallSound, CallShape, Idle
<1>3. JoinConsistent
  BY DEF Init, JoinConsistent
<1>4. boot = 1 /\ made = {} /\ failures = 0 /\ job = Idle
  BY DEF Init
<1>5. BootSound
  BY <1>4 DEF BootSound, Has
<1>6. UniqueSound
  BY DEF Init, UniqueSound, Unique, Duplicated, Content, Tables
<1>7. FileIds
  BY DEF Init, FileIds
<1> QED BY <1>1, <1>2, <1>3, <1>5, <1>6, <1>7 DEF LInv, JInv, VInv

(* What addFile's statements do to the tables, their indexes allow. *)
LEMMA AddFileStepVInv ==
    ASSUME JInv, VInv, FileIds, AddFileStep
    PROVE  VInv'
<1>0. failures \in Nat
  BY DEF VInv, BootSound
<1>1. boot = 0 /\ UNCHANGED <<made, lost, boot>>
  <2>1. UNCHANGED <<made, lost, boot>> /\ job.at # "idle"
    BY DEF AddFileStep, SelectFile, Unjoin, DeleteFile, InsertFile, InsertJoin, Named, Tables, db
  <2>2. job # Idle
    BY <2>1 DEF Idle
  <2> QED BY <2>1, <2>2 DEF VInv, BootSound
<1>2. CASE SelectFile \/ Unjoin \/ InsertJoin
  <2>1. UNCHANGED <<rows, file>> /\ failures' \in Nat /\ failures <= failures'
    BY <1>0, <1>2 DEF SelectFile, Unjoin, InsertJoin, Works, Fails, db
  <2> QED BY <1>1, <2>1, SameAllowed
<1>3. CASE DeleteFile
  <2>1. UNCHANGED rows /\ failures' \in Nat /\ failures <= failures'
    BY <1>0, <1>3 DEF DeleteFile, Works, Fails
  <2>2. DOMAIN file' \subseteq DOMAIN file /\ \A i \in DOMAIN file' : file'[i] = file[i]
    BY <1>3 DEF DeleteFile, Unfiled
  <2>3. \A t : Allowed(t)
    BY <2>1, <2>2 DEF Allowed, Content
  <2> QED BY <1>1, <2>1, <2>3, OtherVInv
<1>4. CASE InsertFile
  <2>1. UNCHANGED rows /\ failures' \in Nat /\ failures <= failures'
    BY <1>0, <1>4 DEF InsertFile, Works, Fails
  <2>2. CASE UNCHANGED file
    BY <1>1, <2>1, <2>2, SameAllowed
  <2>3. CASE /\ FileTaken /\ lastFile' = NewFileId
             /\ file' = [id \in DOMAIN file \cup {lastFile'} |->
                           IF id = lastFile' THEN job.url ELSE file[id]]
    <3>1. PICK x : x = lastFile'
      OBVIOUS
    <3>2. /\ DOMAIN file' = DOMAIN file \cup {x} /\ file'[x] = job.url
          /\ \A i \in DOMAIN file : i # x => file'[i] = file[i]
      BY <2>3, <3>1
    <3>3. x \notin DOMAIN file
      BY <2>3, <3>1 DEF FileIds, NewFileId
    <3>4. Has("file_url_uniq") => \A i \in DOMAIN file : file[i] # job.url
      BY <2>3 DEF FileTaken, FileOf
    <3>5. Allowed("file")
      BY <3>2, <3>3, <3>4 DEF Allowed, Content, Unique
    <3>6. ASSUME NEW t \in DOMAIN Unique, t # "file"
          PROVE  Allowed(t)
      BY <2>1, <3>6 DEF Allowed, Content
    <3> QED BY <1>1, <2>1, <3>5, <3>6, OtherVInv
  <2> QED BY <1>4, <2>2, <2>3 DEF InsertFile
<1>5. ASSUME NEW t \in Tables, Named(t)
      PROVE  VInv'
  <2>1. PICK id : IdOf(t, id)
    BY <1>5 DEF Named
  <2>2. UNCHANGED file
    BY <1>5 DEF Named
  <2>3. failures' \in Nat /\ \A u \in DOMAIN Unique : Allowed(u)
    BY <1>0, <2>1, <2>2, IdOfAllowed DEF JInv
  <2> QED BY <1>1, <2>3, OtherVInv
<1> QED BY <1>2, <1>3, <1>4, <1>5 DEF AddFileStep

LEMMA NextFileIds == FileIds /\ [Next]_vars => FileIds'
<1> SUFFICES ASSUME FileIds, [Next]_vars
             PROVE  FileIds'
  OBVIOUS
<1>1. CASE UNCHANGED <<file, lastFile>>
  BY <1>1 DEF FileIds
<1>2. CASE DeleteFile
  <2>1. DOMAIN file' \subseteq DOMAIN file /\ UNCHANGED lastFile
    BY <1>2 DEF DeleteFile, Unfiled
  <2> QED BY <2>1 DEF FileIds
<1>3. CASE InsertFile /\ ~UNCHANGED <<file, lastFile>>
  <2>1. lastFile' = lastFile + 1 /\ DOMAIN file' = DOMAIN file \cup {lastFile'}
    BY <1>3 DEF InsertFile, NewFileId
  <2> QED BY <2>1 DEF FileIds
<1>4. CASE ~DeleteFile /\ ~InsertFile
  <2>1. UNCHANGED <<file, lastFile>>
    BY <1>4 DEF Next, vars, db, Stop, UpdateSchema, ScanFile, AddFile, AddFileStep, SelectFile,
       Unjoin, InsertJoin, Named, NextRow, IndexGram, IndexDone, BuildIndex
  <2> QED BY <2>1 DEF FileIds
<1> QED BY <1>1, <1>2, <1>3, <1>4

(* buildIndex leaves the tables alone. *)
IndexStep == NextRow \/ IndexGram \/ IndexDone \/ \E t \in Searched : BuildIndex(t)

LEMMA IndexStepIs ==
    ASSUME LInv, IndexStep
    PROVE  /\ UNCHANGED <<made, lost, boot, rows, file, lastFile, join, result, todo, queue>>
           /\ boot = 0 /\ job.at \in {"idle", "index"}
           /\ failures' \in Nat /\ failures <= failures'
           /\ CallShape' /\ job'.at \in {"idle", "index"}
<1>1. UNCHANGED <<made, lost, boot, rows, file, lastFile, join, result, todo, queue>>
  BY DEF IndexStep, NextRow, IndexGram, IndexDone, BuildIndex, db
<1>2. failures' \in Nat /\ failures <= failures'
  BY DEF IndexStep, NextRow, IndexGram, IndexDone, BuildIndex, Works, Fails, LInv, VInv, BootSound
<1>3. CASE job.at = "index"
  <2>1. job # Idle
    BY <1>3 DEF Idle
  <2>2. boot = 0
    BY <2>1 DEF LInv, VInv, BootSound
  <2>3. job = [at |-> "index", table |-> job.table, since |-> job.since,
               id |-> job.id, last |-> job.last, left |-> job.left]
    BY <1>3, <2>1 DEF LInv, JInv, CallSound, CallShape, Statements
  <2>4. CASE IndexDone
    BY <1>1, <1>2, <1>3, <2>2, <2>4, IdleShape DEF IndexDone, Idle
  <2>5. CASE NextRow \/ IndexGram
    <3>1. ASSUME NextRow
          PROVE  CallShape' /\ job'.at = "index"
      BY <2>3, <3>1 DEF NextRow, CallShape
    <3>2. ASSUME IndexGram
          PROVE  CallShape' /\ job'.at = "index"
      <4>1. PICK g : job' = [job EXCEPT !.left = @ \ {g}]
        BY <3>2 DEF IndexGram
      <4> QED BY <2>3, <4>1 DEF CallShape
    <3>3. CallShape' /\ job'.at = "index"
      BY <2>5, <3>1, <3>2
    <3> QED BY <1>1, <1>2, <1>3, <2>2, <3>3
  <2>6. CASE \E t \in Searched : BuildIndex(t)
    BY <1>3, <2>1, <2>6 DEF BuildIndex
  <2> QED BY <2>4, <2>5, <2>6 DEF IndexStep
<1>4. CASE job.at # "index"
  <2>1. PICK t \in Searched : BuildIndex(t)
    BY <1>4 DEF IndexStep, NextRow, IndexGram, IndexDone
  <2>2. CallShape' /\ job'.at = "index"
    BY <2>1 DEF BuildIndex, CallShape
  <2>3. boot = 0 /\ job.at = "idle"
    BY <2>1 DEF BuildIndex, Idle
  <2> QED BY <1>1, <1>2, <2>2, <2>3
<1> QED BY <1>3, <1>4

LEMMA NextLInv == LInv /\ [Next]_vars => LInv'
<1> SUFFICES ASSUME LInv, [Next]_vars
             PROVE  LInv'
  OBVIOUS
<1> USE NextFileIds DEF LInv
<1>1. CASE UNCHANGED vars \/ ScanFile
  <2>1. UNCHANGED <<rows, file, join, job, made, lost, boot, failures>>
    BY <1>1 DEF vars, db, ScanFile
  <2>2. VInv'
    BY <2>1 DEF VInv, BootSound, UniqueSound, Settled, Lost, Has, Duplicated, Content
  <2> QED BY <2>1, <2>2, SameRowsJInv
<1>2. CASE Stop
  <2>1. UNCHANGED <<rows, join>> /\ job' = Idle
    BY <1>2 DEF Stop, db
  <2> QED BY <1>2, <2>1, IdleShape, SameRowsJInv, StopVInv
<1>4. CASE UpdateSchema
  <2>1. UNCHANGED <<rows, join, job>>
    BY <1>4 DEF UpdateSchema
  <2> QED BY <1>4, <2>1, SameRowsJInv, UpdateSchemaVInv
<1>5. CASE AddFile
  <2>1. UNCHANGED <<made, lost, boot, rows, file, failures>> /\ boot = 0
    BY <1>5 DEF AddFile, db
  <2>2. VInv'
    BY <2>1 DEF VInv, BootSound, UniqueSound, Settled, Lost, Has, Duplicated, Content
  <2> QED BY <1>5, <2>2, AddFileJInv
<1>6. CASE AddFileStep
  <2>1. JInv'
    BY <1>6, SelectFileJInv, UnjoinJInv, DeleteFileJInv, InsertFileJInv, NamedJInv, InsertJoinJInv
       DEF AddFileStep
  <2> QED BY <1>6, <2>1, AddFileStepVInv
<1>7. CASE IndexStep
  <2>1. /\ UNCHANGED <<made, lost, boot, rows, file, join>> /\ boot = 0
        /\ failures' \in Nat /\ failures <= failures'
        /\ CallShape' /\ job'.at \in {"idle", "index"}
    BY <1>7, IndexStepIs
  <2> QED BY <2>1, SameRowsJInv, SameAllowed
<1> QED BY <1>1, <1>2, <1>4, <1>5, <1>6, <1>7 DEF Next, IndexStep

(* updateSchema records the version last, and addFile makes a file_join row   *)
(* only of ids that were returned for this artist (library.cpp:40-150).      *)
THEOREM DatabaseStaysSound == Spec => []DatabaseSound
<1>1. LInv => DatabaseSound
  <2> SUFFICES ASSUME LInv
               PROVE  VersionLast
    BY DEF LInv, JInv, DatabaseSound
  <2>1. Range(Schema) = {Schema[i] : i \in 1..18}
    BY SchemaFacts DEF Range
  <2>2. Has("version") => \A s \in Range(Schema) : Settled(s)
    BY <2>1 DEF LInv, VInv, BootSound
  <2> QED BY <2>2 DEF VersionLast, Settled, Lost
<1> QED BY <1>1, InitLInv, NextLInv, PTL DEF Spec

-----------------------------------------------------------------------------
(* What is listed of a file that was added *)

(* A file has one row of file_join, and no later file will have its id. *)
FilesSound ==
    /\ \A j \in join : j.file \in 1..lastFile
    /\ \A j, k \in join : j.file = k.file => j = k

(* What the rows j is made of, or will be, are called. *)
Names(j, m) ==
    /\ rows["artist"][j.artist] = sortname(m.artist)
    /\ rows["track"][j.track][2] = sortname(m.track)
    /\ j.album # 0 => rows["album"][j.album][2] = sortname(m.album)

(* A call that removes a file has found one of its url; one that has its new  *)
(* id has a row of the file that is not yet joined, and the ids it has are of *)
(* the names it was given.                                                   *)
CallNamed ==
    /\ job.at \in {"unjoin", "remove"} => job.fid \in DOMAIN file /\ file[job.fid] = job.url
    /\ job.at \in {"artist", "track", "album", "join"} =>
          /\ job.fid \in DOMAIN file /\ file[job.fid] = job.url
          /\ \A j \in join : j.file # job.fid
    /\ job.at \in {"track", "album", "join"} => rows["artist"][job.artist] = sortname(job.m.artist)
    /\ job.at \in {"album", "join"} => rows["track"][job.track][2] = sortname(job.m.track)
    /\ job.at = "join" /\ job.album # 0 => rows["album"][job.album][2] = sortname(job.m.album)

(* A file that was added is there, and joined as it was added, until it is    *)
(* added again.                                                              *)
Joined(u, r) ==
    /\ r.ret \in DOMAIN file /\ file[r.ret] = u
    /\ \E j \in join : j.file = r.ret /\ j.album = r.album /\ Names(j, r.m)
ResultsSound ==
    \A u \in DOMAIN result :
        \A r : r = result[u] /\ r.ret # 0 /\ ~Busy(u) => Joined(u, r)

RInv == JInv /\ FileIds /\ FilesSound /\ CallNamed /\ ResultsSound

(* What is known of a call that is under way. *)
LEMMA CallIs ==
    ASSUME RInv, job.at \in Statements
    PROVE  /\ job = [at |-> job.at, url |-> job.url, m |-> job.m, since |-> job.since, fid |-> job.fid,
                     artist |-> job.artist, track |-> job.track, album |-> job.album]
           /\ \A u : Busy(u) <=> u = job.url
BY CallAt DEF RInv, JInv, Busy, Statements

(* The rows of a table go on being called what they are. *)
LEMMA NamesKept ==
    ASSUME RInv, Grown, NEW j \in join, NEW m, Names(j, m)
    PROVE  Names(j, m)'
<1>1. /\ j.artist \in DOMAIN rows["artist"] /\ j.track \in DOMAIN rows["track"]
      /\ j.album # 0 => j.album \in DOMAIN rows["album"]
  BY DEF RInv, JInv, JoinConsistent
<1>2. /\ rows'["artist"][j.artist] = rows["artist"][j.artist]
      /\ rows'["track"][j.track] = rows["track"][j.track]
      /\ j.album # 0 => rows'["album"][j.album] = rows["album"][j.album]
  BY <1>1 DEF Grown, Tables
<1> QED BY <1>2 DEF Names

(* A file that nothing takes away stays joined as it was. *)
LEMMA JoinedKept ==
    ASSUME RInv, Grown, NEW u, NEW r, Joined(u, r),
           r.ret \in DOMAIN file', file'[r.ret] = file[r.ret],
           \A j \in join : j.file = r.ret => j \in join'
    PROVE  Joined(u, r)'
<1>1. PICK j \in join : j.file = r.ret /\ j.album = r.album /\ Names(j, r.m)
  BY DEF Joined
<1>2. Names(j, r.m)'
  BY <1>1, NamesKept
<1>3. j \in join' /\ file'[r.ret] = u
  BY <1>1 DEF Joined
<1> QED BY <1>1, <1>2, <1>3 DEF Joined

LEMMA SameRowsGrown == ASSUME UNCHANGED rows PROVE Grown
BY DEF Grown

(* The steps of anything but addFile. *)
LEMMA ElsewhereRInv ==
    ASSUME RInv, JInv', FileIds', UNCHANGED <<rows, file, lastFile, join>>,
           \/ UNCHANGED <<job, result>>
           \/ job' = Idle /\ result' = <<>>
           \/ /\ UNCHANGED result /\ job.at \in {"idle", "index"}
              /\ job'.at \in {"idle", "index", "select"}
    PROVE  RInv'
<1>1. FilesSound'
  BY DEF RInv, FilesSound
<1>2. CallNamed'
  <2>1. CASE UNCHANGED job
    BY <2>1 DEF RInv, CallNamed
  <2>2. CASE job'.at \in {"idle", "index", "select"}
    BY <2>2 DEF CallNamed
  <2> QED BY <2>1, <2>2 DEF Idle
<1>3. ResultsSound'
  <2>1. CASE result' = <<>>
    BY <2>1 DEF ResultsSound
  <2>2. CASE /\ UNCHANGED result
             /\ UNCHANGED job \/ job.at \in {"idle", "index"}
    <3> SUFFICES ASSUME NEW u \in DOMAIN result', NEW r, r = result'[u], r.ret # 0, ~Busy(u)'
                 PROVE  Joined(u, r)'
      BY DEF ResultsSound
    <3>1. ~Busy(u)
      BY <2>2 DEF Busy
    <3>2. Joined(u, r)
      BY <2>2, <3>1 DEF RInv, ResultsSound
    <3> QED BY <3>2 DEF Joined, Names
  <2> QED BY <2>1, <2>2
<1> QED BY <1>1, <1>2, <1>3 DEF RInv

(* A step of a call leaves the other files' results as they are, and its own  *)
(* counts only when it has ended.                                            *)
LEMMA CallResults ==
    ASSUME RInv, Grown, job.at \in Statements,
           NEW url, url = job.url,
           \A i \in DOMAIN file : file[i] # url => i \in DOMAIN file' /\ file'[i] = file[i],
           \A j \in join : j.file \in DOMAIN file /\ file[j.file] # url => j \in join',
           \/ UNCHANGED result /\ job'.at \notin {"idle", "index"} /\ job'.url = url
           \/ /\ \E fid : Return(fid)
              /\ \A r : r = result'[url] /\ r.ret # 0 => Joined(url, r)'
    PROVE  ResultsSound'
<1>1. \A u : Busy(u) <=> u = url
  BY CallIs
<1>2. ASSUME NEW u, u # url, NEW r, Joined(u, r)
      PROVE  Joined(u, r)'
  BY <1>2, JoinedKept DEF Joined
<1> SUFFICES ASSUME NEW u \in DOMAIN result', NEW r, r = result'[u], r.ret # 0, ~Busy(u)'
             PROVE  Joined(u, r)'
  BY DEF ResultsSound
<1>3. CASE UNCHANGED result /\ job'.at \notin {"idle", "index"} /\ job'.url = url
  <2>1. u # url
    BY <1>3 DEF Busy
  <2>2. Joined(u, r)
    BY <1>1, <1>3, <2>1 DEF RInv, ResultsSound
  <2> QED BY <1>2, <2>1, <2>2
<1>4. CASE /\ \E fid : Return(fid)
           /\ \A q : q = result'[url] /\ q.ret # 0 => Joined(url, q)'
  <2>1. CASE u = url
    BY <1>4, <2>1
  <2>2. CASE u # url
    <3>1. u \in DOMAIN result /\ r = result[u]
      BY <1>4, <2>2 DEF Return
    <3>2. Joined(u, r)
      BY <1>1, <2>2, <3>1 DEF RInv, ResultsSound
    <3> QED BY <1>2, <2>2, <3>2
  <2> QED BY <2>1, <2>2
<1> QED BY <1>3, <1>4

LEMMA ReturnsNothing ==
    ASSUME Return(0)
    PROVE  job' = Idle /\ result'[job.url].ret = 0 /\ job'.at = "idle"
BY DEF Return, Idle

LEMMA SelectFileRInv == ASSUME RInv, JInv', FileIds', SelectFile PROVE RInv'
<1>1. UNCHANGED <<rows, file, lastFile, join>> /\ job.at = "select" /\ job.at \in Statements
  BY DEF SelectFile, db, Statements
<1>2. /\ UNCHANGED result /\ job'.url = job.url
      /\ \/ job'.at = "unjoin" /\ job'.fid \in FileOf(job.url)
         \/ job'.at = "insert"
  <2>1. \/ \E id \in FileOf(job.url) : Goes("unjoin", id)
        \/ Goes("insert", 0)
    BY DEF SelectFile
  <2> QED BY <1>1, <2>1, CallIs DEF Goes
<1>3. ResultsSound'
  BY <1>1, <1>2, SameRowsGrown, CallResults
<1>4. FilesSound' /\ CallNamed'
  BY <1>1, <1>2 DEF RInv, FilesSound, CallNamed, FileOf
<1> QED BY <1>3, <1>4 DEF RInv

LEMMA UnjoinRInv == ASSUME RInv, JInv', FileIds', Unjoin PROVE RInv'
<1>1. /\ UNCHANGED <<rows, file, lastFile, result>> /\ join' \subseteq join
      /\ job' = [job EXCEPT !.at = "remove", !.fid = job.fid] /\ job.at = "unjoin"
      /\ \A j \in join : j.file # job.fid => j \in join'
  BY DEF Unjoin, Unjoined, Goes
<1>2. /\ job'.at = "remove" /\ job'.url = job.url /\ job'.fid = job.fid
      /\ job.at \in Statements
  BY <1>1, CallIs DEF Statements
<1>5. file[job.fid] = job.url
  BY <1>1 DEF RInv, CallNamed
<1>3. ResultsSound'
  BY <1>1, <1>2, <1>5, SameRowsGrown, CallResults
<1>4. FilesSound' /\ CallNamed'
  BY <1>1, <1>2 DEF RInv, FilesSound, CallNamed
<1> QED BY <1>3, <1>4 DEF RInv

LEMMA DeleteFileRInv == ASSUME RInv, JInv', FileIds', DeleteFile PROVE RInv'
<1>1. /\ UNCHANGED <<rows, join, lastFile, result>>
      /\ job' = [job EXCEPT !.at = "insert", !.fid = job.fid] /\ job.at = "remove"
      /\ DOMAIN file' \subseteq DOMAIN file /\ \A i \in DOMAIN file' : file'[i] = file[i]
      /\ \A i \in DOMAIN file : i # job.fid => i \in DOMAIN file'
  BY DEF DeleteFile, Unfiled, Goes
<1>2. job'.at = "insert" /\ job'.url = job.url /\ job.at \in Statements
  BY <1>1, CallIs DEF Statements
<1>5. file[job.fid] = job.url
  BY <1>1 DEF RInv, CallNamed
<1>3. ResultsSound'
  BY <1>1, <1>2, <1>5, SameRowsGrown, CallResults
<1>4. FilesSound' /\ CallNamed'
  BY <1>1, <1>2 DEF RInv, FilesSound, CallNamed
<1> QED BY <1>3, <1>4 DEF RInv

LEMMA InsertFileRInv == ASSUME RInv, JInv', FileIds', InsertFile PROVE RInv'
<1>1. UNCHANGED <<rows, join>> /\ job.at = "insert" /\ job.at \in Statements /\ Grown
  BY SameRowsGrown DEF InsertFile, Statements
<1>2. CASE Return(0) /\ UNCHANGED <<file, lastFile>>
  <2>1. ResultsSound'
    BY <1>1, <1>2, ReturnsNothing, CallResults
  <2>2. FilesSound' /\ CallNamed'
    BY <1>1, <1>2, ReturnsNothing DEF RInv, FilesSound, CallNamed
  <2> QED BY <2>1, <2>2 DEF RInv
<1>3. CASE /\ lastFile' = NewFileId
           /\ file' = [id \in DOMAIN file \cup {lastFile'} |->
                         IF id = lastFile' THEN job.url ELSE file[id]]
           /\ job' = [job EXCEPT !.at = "artist", !.fid = lastFile'] /\ UNCHANGED result
  <2>1. /\ lastFile \in Nat /\ lastFile' = lastFile + 1 /\ lastFile' \notin DOMAIN file
        /\ \A j \in join : j.file # lastFile'
    BY <1>3 DEF NewFileId, RInv, FilesSound, FileIds
  <2>2. /\ DOMAIN file' = DOMAIN file \cup {lastFile'} /\ file'[lastFile'] = job.url
        /\ \A i \in DOMAIN file : file'[i] = file[i]
    BY <1>3, <2>1
  <2>3. job'.at = "artist" /\ job'.url = job.url /\ job'.fid = lastFile'
    BY <1>1, <1>3, CallIs
  <2>4. ResultsSound'
    BY <1>1, <1>3, <2>2, <2>3, CallResults
  <2>5. FilesSound'
    BY <1>1, <2>1 DEF RInv, FilesSound
  <2>6. CallNamed'
    BY <1>1, <2>1, <2>2, <2>3 DEF CallNamed
  <2> QED BY <2>4, <2>5, <2>6 DEF RInv
<1> QED BY <1>2, <1>3 DEF InsertFile, Goes

LEMMA NamedRInv == ASSUME RInv, JInv', FileIds', NEW t \in Tables, Named(t) PROVE RInv'
<1>1. PICK id : /\ IdOf(t, id)
                /\ IF id = 0 /\ t # "album" THEN Return(0)
                   ELSE job' = [job EXCEPT !.at = Next3[t], ![t] = id] /\ UNCHANGED result
  BY DEF Named
<1>2. /\ Grown
      /\ id # 0 => id \in DOMAIN rows'[t] /\ rows'[t][id] = Key(t)
  BY <1>1, IdOfRow DEF RInv, JInv
<1>3. UNCHANGED <<file, lastFile, join>> /\ job.at = t
      /\ job.at \in {"artist", "track", "album"} /\ job.at \in Statements
  BY DEF Named, Tables, Statements
<1>4. FilesSound'
  BY <1>3 DEF RInv, FilesSound
<1>5. CASE id = 0 /\ t # "album"
  <2>1. Return(0)
    BY <1>1, <1>5
  <2>2. ResultsSound'
    <3>1. Return(0) /\ \A r : r = result'[job.url] => r.ret = 0
      BY <2>1, ReturnsNothing
    <3> QED BY <1>2, <1>3, <3>1, CallResults
  <2>3. CallNamed'
    BY <2>1, ReturnsNothing DEF CallNamed
  <2> QED BY <1>4, <2>2, <2>3 DEF RInv
<1>6. CASE ~(id = 0 /\ t # "album")
  <2>1. job' = [job EXCEPT !.at = Next3[t], ![t] = id] /\ UNCHANGED result
    BY <1>1, <1>6
  <2>2. job = [at |-> t, url |-> job.url, m |-> job.m, since |-> job.since, fid |-> job.fid,
               artist |-> job.artist, track |-> job.track, album |-> job.album]
    BY <1>3, CallIs
  <2>3. /\ job'.url = job.url /\ job'.m = job.m /\ job'.fid = job.fid
        /\ job'.at = Next3[t] /\ job'.at \in {"track", "album", "join"}
        /\ t = "artist" => job'.at = "track" /\ job'.artist = id
        /\ t = "track" => job'.at = "album" /\ job'.track = id /\ job'.artist = job.artist
        /\ t = "album" => /\ job'.at = "join" /\ job'.album = id
                          /\ job'.artist = job.artist /\ job'.track = job.track
    BY <2>1, <2>2 DEF Next3, Tables
  <2>4. ResultsSound'
    BY <1>2, <1>3, <2>1, <2>3, CallResults
  <2>5. /\ job.fid \in DOMAIN file /\ file[job.fid] = job.url
        /\ \A j \in join : j.file # job.fid
    BY <1>3 DEF RInv, CallNamed
  <2>6. t \in {"track", "album"} => /\ HasArtist(job.artist)
                                    /\ rows["artist"][job.artist] = sortname(job.m.artist)
                                    /\ rows'["artist"][job.artist] = rows["artist"][job.artist]
    <3>1. t \in {"track", "album"} => HasArtist(job.artist)
      BY <1>3 DEF RInv, JInv, CallSound
    <3>2. t \in {"track", "album"} => rows["artist"][job.artist] = sortname(job.m.artist)
      BY <1>3 DEF RInv, CallNamed
    <3> QED BY <1>2, <3>1, <3>2 DEF Grown, HasArtist, Tables
  <2>7. t = "album" => /\ HasTrack(job.track, job.artist)
                       /\ rows["track"][job.track][2] = sortname(job.m.track)
                       /\ rows'["track"][job.track] = rows["track"][job.track]
    <3>1. t = "album" => HasTrack(job.track, job.artist)
      BY <1>3 DEF RInv, JInv, CallSound
    <3>2. t = "album" => rows["track"][job.track][2] = sortname(job.m.track)
      BY <1>3 DEF RInv, CallNamed
    <3> QED BY <1>2, <3>1, <3>2 DEF Grown, HasTrack, Tables
  <2>8. /\ t = "artist" => rows'["artist"][id] = sortname(job.m.artist)
        /\ t = "track" => rows'["track"][id][2] = sortname(job.m.track)
        /\ t = "album" /\ id # 0 => rows'["album"][id][2] = sortname(job.m.album)
    <3>1. id # 0 => rows'[t][id] = Key(t)
      BY <1>2
    <3>2. t # "album" => id # 0
      BY <1>6
    <3>3. /\ t = "artist" => Key(t) = sortname(job.m.artist)
          /\ t = "track" => Key(t) = <<job.artist, sortname(job.m.track)>>
          /\ t = "album" => Key(t) = <<job.artist, sortname(job.m.album)>>
      BY DEF Key
    <3>4. \A x, y : <<x, y>>[2] = y
      OBVIOUS
    <3>5. CASE t = "artist"
      BY <3>1, <3>2, <3>3, <3>5
    <3>6. CASE t = "track"
      BY <3>1, <3>2, <3>3, <3>4, <3>6
    <3>7. CASE t = "album"
      BY <3>1, <3>3, <3>4, <3>7
    <3> QED BY <3>5, <3>6, <3>7 DEF Tables
  <2>9. CallNamed'
    BY <1>3, <2>3, <2>5, <2>6, <2>7, <2>8 DEF CallNamed, Tables
  <2> QED BY <1>4, <2>4, <2>9 DEF RInv
<1> QED BY <1>5, <1>6

LEMMA InsertJoinRInv == ASSUME RInv, JInv', FileIds', InsertJoin PROVE RInv'
<1>1. UNCHANGED <<rows, file, lastFile>> /\ job.at = "join" /\ Grown /\ job' = Idle
      /\ job'.at = "idle" /\ job.at \in Statements
  BY SameRowsGrown DEF InsertJoin, Return, Idle, Statements
<1>2. CallNamed'
  BY <1>1 DEF CallNamed
<1>3. CASE Return(0) /\ UNCHANGED join
  <2>1. ResultsSound'
    BY <1>1, <1>3, ReturnsNothing, CallResults
  <2>2. FilesSound'
    BY <1>1, <1>3 DEF RInv, FilesSound
  <2> QED BY <1>2, <2>1, <2>2 DEF RInv
<1>4. CASE join' = join \cup {JoinRow} /\ Return(job.fid)
  <2>1. /\ JoinRow.file = job.fid /\ JoinRow.artist = job.artist
        /\ JoinRow.track = job.track /\ JoinRow.album = job.album
    BY DEF JoinRow
  <2>2. /\ job.fid \in DOMAIN file /\ file[job.fid] = job.url
        /\ \A j \in join : j.file # job.fid
        /\ rows["artist"][job.artist] = sortname(job.m.artist)
        /\ rows["track"][job.track][2] = sortname(job.m.track)
        /\ job.album # 0 => rows["album"][job.album][2] = sortname(job.m.album)
    BY <1>1 DEF RInv, CallNamed
  <2>3. result'[job.url] = [m |-> job.m, ret |-> job.fid, album |-> job.album,
                             failed |-> failures' - job.since]
    BY <1>4 DEF Return
  <2>4. ASSUME NEW url, url = job.url, NEW r, r = result'[url]
        PROVE  Joined(url, r)'
    <3>1. r.m = job.m /\ r.ret = job.fid /\ r.album = job.album
      BY <2>3, <2>4
    <3>2. PICK j \in join' : j = JoinRow
      BY <1>4
    <3>3. Names(j, r.m)'
      BY <1>1, <2>1, <2>2, <3>1, <3>2 DEF Names
    <3> QED BY <1>1, <2>1, <2>2, <2>4, <3>1, <3>2, <3>3 DEF Joined
  <2>5. ResultsSound'
    <3>1. PICK url : url = job.url
      OBVIOUS
    <3>2. \A r : r = result'[url] => Joined(url, r)'
      BY <2>4, <3>1
    <3>3. \A j \in join : j \in join'
      BY <1>4
    <3> QED BY <1>1, <1>4, <3>1, <3>2, <3>3, CallResults
  <2>6. FilesSound'
    <3>1. \A j \in join' : j.file \in 1..lastFile
      BY <1>4, <2>1, <2>2 DEF RInv, FilesSound, FileIds
    <3>2. \A j, k \in join' : j.file = k.file => j = k
      BY <1>4, <2>1, <2>2 DEF RInv, FilesSound
    <3> QED BY <1>1, <3>1, <3>2 DEF RInv, FilesSound
  <2> QED BY <1>2, <2>5, <2>6 DEF RInv
<1> QED BY <1>3, <1>4 DEF InsertJoin

LEMMA InitRInv == Init => RInv
<1> SUFFICES ASSUME Init
             PROVE  RInv
  OBVIOUS
<1>1. JInv /\ FileIds
  BY InitLInv DEF LInv
<1>2. FilesSound /\ ResultsSound
  BY DEF Init, FilesSound, ResultsSound
<1>3. CallNamed
  BY DEF Init, Idle, CallNamed
<1> QED BY <1>1, <1>2, <1>3 DEF RInv

LEMMA NextRInv == RInv /\ LInv /\ LInv' /\ [Next]_vars => RInv'
<1> SUFFICES ASSUME RInv, LInv, JInv', FileIds', [Next]_vars
             PROVE  RInv'
  BY DEF LInv
<1>1. CASE UNCHANGED vars \/ ScanFile \/ UpdateSchema
  <2>1. UNCHANGED <<rows, file, lastFile, join, job, result>>
    BY <1>1 DEF vars, db, ScanFile, UpdateSchema
  <2> QED BY <2>1, ElsewhereRInv
<1>2. CASE Stop
  <2>1. UNCHANGED <<rows, file, lastFile, join>> /\ job' = Idle /\ result' = <<>>
    BY <1>2 DEF Stop, db
  <2> QED BY <2>1, ElsewhereRInv
<1>3. CASE AddFile
  <2>1. /\ UNCHANGED <<rows, file, lastFile, join, result>>
        /\ job.at = "idle" /\ job'.at = "select"
    BY <1>3 DEF AddFile, db, Idle
  <2> QED BY <2>1, ElsewhereRInv
<1>4. CASE IndexStep
  BY <1>4, IndexStepIs, ElsewhereRInv
<1>5. CASE AddFileStep
  BY <1>5, SelectFileRInv, UnjoinRInv, DeleteFileRInv, InsertFileRInv, NamedRInv, InsertJoinRInv
     DEF AddFileStep
<1> QED BY <1>1, <1>2, <1>3, <1>4, <1>5 DEF Next, IndexStep

(* The join of the five tables has one row of a file that is joined, or none  *)
(* if that has no album.                                                     *)
LEMMA ListedIs ==
    ASSUME RInv, NEW u, NEW r, Joined(u, r)
    PROVE  IF r.album = 0 THEN \A k \in Listed(u) : k.file # r.ret ELSE ListedBy(u, r)
<1>1. PICK j \in join : j.file = r.ret /\ j.album = r.album /\ Names(j, r.m)
  BY DEF Joined
<1>2. r.ret \in DOMAIN file /\ file[r.ret] = u
  BY DEF Joined
<1>3. \A k \in Listed(u) : k.file = r.ret => k = j
  BY <1>1, <1>2 DEF Listed, allTracks, RInv, FilesSound
<1>4. CASE r.album = 0
  <2>1. 0 \notin DOMAIN rows["album"]
    BY DEF RInv, JInv, RowsAreSeqs, Tables
  <2> QED BY <1>1, <1>3, <1>4, <2>1 DEF Listed, allTracks
<1>5. CASE r.album # 0
  <2>1. j \in allTracks
    BY <1>1, <1>2, <1>5 DEF allTracks, RInv, JInv, JoinConsistent
  <2>2. j \in Listed(u)
    BY <1>1, <1>2, <2>1 DEF Listed
  <2>3. j.file \in getTrackFids(j.track)
    BY <1>1, <1>2 DEF getTrackFids
  <2> QED BY <1>1, <1>3, <1>5, <2>2, <2>3 DEF ListedBy, Names
<1> QED BY <1>4, <1>5

(* The unique index, if it was made, leaves a url one row, and one id.        *)
LEMMA ListedOnce ==
    ASSUME LInv, NEW u, NEW r, Joined(u, r), Has("file_url_uniq")
    PROVE  \A j \in Listed(u) : j.file = r.ret
<1>1. ~Duplicated("file")
  <2>1. "file" \in DOMAIN Unique /\ Unique["file"] = "file_url_uniq"
    BY DEF Unique
  <2> QED BY <2>1 DEF LInv, VInv, UniqueSound
<1> QED BY <1>1 DEF Listed, allTracks, Joined, Duplicated, Content

(* A url is told to the peers under the id and with the names that its last   *)
(* addFile call had, whatever earlier calls left behind, and only once if its *)
(* unique index was made (library.cpp:40-230).                               *)
THEOREM AddedIsListed == Spec => []ListedAsAdded
<1>1. LInv /\ RInv => ListedAsAdded
  BY ListedIs, ListedOnce DEF ListedAsAdded, RInv, ResultsSound
<1> QED BY <1>1, InitLInv, NextLInv, InitRInv, NextRInv, PTL DEF Spec

-----------------------------------------------------------------------------
(* A call none of whose statements fails *)

(* It returns the id of a file with an album. *)
ResultsGood ==
    \A u \in DOMAIN result : result[u].failed = 0 => result[u].ret # 0 /\ result[u].album # 0

(* Until then, what it found of the file is all there was. *)
CallGood ==
    job.at \in Statements /\ failures = job.since =>
        /\ Has("file_url_uniq") /\ job.at \in {"unjoin", "remove"} =>
              \A i \in DOMAIN file : file[i] = job.url => i = job.fid
        /\ Has("file_url_uniq") /\ job.at = "insert" => FileOf(job.url) = {}
        /\ job.at = "join" => job.album # 0

(* Nothing is added before the tables are made. *)
SinceSound ==
    /\ DOMAIN result # {} => boot = 0
    /\ job.at \in Statements => job.since \in Nat /\ job.since <= failures

GInv == SinceSound /\ (Catalogue \subseteq made => ResultsGood /\ CallGood)

LEMMA InitGInv == Init => GInv
BY DEF Init, GInv, SinceSound, ResultsGood, CallGood, Idle, Statements

(* A call that ends does so with a result that is good or of a failure, and   *)
(* one that goes on has failed or still knows its file.                      *)
LEMMA CallGInv ==
    ASSUME GInv, LInv, RInv, job.at \in Statements, UNCHANGED <<made, boot>>,
           failures' \in Nat, failures <= failures',
           \/ /\ UNCHANGED result /\ job'.at \in Statements /\ job'.since = job.since
              /\ Catalogue \subseteq made => CallGood'
           \/ \E fid : /\ Return(fid)
                       /\ Catalogue \subseteq made /\ failures' = job.since =>
                             fid # 0 /\ job.album # 0
    PROVE  GInv'
<1>1. boot = 0
  <2>1. job # Idle
    BY DEF Idle, Statements
  <2> QED BY <2>1 DEF LInv, VInv, BootSound
<1>2. job.since \in Nat /\ job.since <= failures
  BY DEF GInv, SinceSound
<1>3. CASE /\ UNCHANGED result /\ job'.at \in Statements /\ job'.since = job.since
           /\ Catalogue \subseteq made => CallGood'
  <2>1. failures \in Nat
    BY DEF LInv, VInv, BootSound
  <2> QED BY <1>1, <1>2, <1>3, <2>1 DEF GInv, SinceSound, ResultsGood
<1>4. ASSUME NEW fid, Return(fid),
             Catalogue \subseteq made /\ failures' = job.since => fid # 0 /\ job.album # 0
      PROVE  GInv'
  <2>1. job'.at \notin Statements
    BY <1>4 DEF Return, Idle, Statements
  <2>2. ASSUME Catalogue \subseteq made, NEW u \in DOMAIN result', result'[u].failed = 0
        PROVE  result'[u].ret # 0 /\ result'[u].album # 0
    <3>1. CASE u = job.url
      <4>1. result'[u] = [m |-> job.m, ret |-> fid, album |-> job.album, failed |-> failures' - job.since]
        BY <1>4, <3>1 DEF Return
      <4>2. failures' = job.since
        BY <1>2, <2>2, <4>1
      <4> QED BY <1>4, <2>2, <4>1, <4>2
    <3>2. CASE u # job.url
      <4>1. u \in DOMAIN result /\ result'[u] = result[u]
        BY <1>4, <3>2 DEF Return
      <4> QED BY <2>2, <4>1 DEF GInv, ResultsGood
    <3> QED BY <3>1, <3>2
  <2> QED BY <1>1, <2>1, <2>2 DEF GInv, SinceSound, ResultsGood, CallGood
<1> QED BY <1>3, <1>4

LEMMA FailsCount ==
    ASSUME LInv
    PROVE  /\ Fails(1) => failures' = failures + 1 /\ failures' \in Nat /\ failures <= failures'
           /\ Works => failures' = failures /\ failures' \in Nat /\ failures <= failures'
           /\ failures \in Nat
BY DEF LInv, VInv, BootSound, Works, Fails

LEMMA SelectFileGInv ==
    ASSUME GInv, LInv, RInv, SelectFile, UNCHANGED <<boot>>
    PROVE  GInv'
<1>1. /\ job.at = "select" /\ job.at \in Statements /\ UNCHANGED <<made, file>>
      /\ failures' \in Nat /\ failures <= failures'
  BY FailsCount DEF SelectFile, db, Statements
<1>2. job.since \in Nat /\ job.since <= failures /\ failures \in Nat
  BY <1>1, FailsCount DEF GInv, SinceSound
<1>3. ASSUME NEW id \in FileOf(job.url), Works, Goes("unjoin", id)
      PROVE  GInv'
  <2>1. /\ UNCHANGED result /\ job'.at = "unjoin" /\ job'.fid = id
        /\ job'.url = job.url /\ job'.since = job.since
    BY <1>1, <1>3, CallIs DEF Goes
  <2>2. Has("file_url_uniq") => \A i \in DOMAIN file : file[i] = job.url => i = id
    <3>1. "file" \in DOMAIN Unique /\ Unique["file"] = "file_url_uniq"
      BY DEF Unique
    <3>2. Has("file_url_uniq") => ~Duplicated("file")
      BY <3>1 DEF LInv, VInv, UniqueSound
    <3> QED BY <1>3, <3>2 DEF Duplicated, Content, FileOf
  <2>3. CallGood'
    BY <1>1, <2>1, <2>2 DEF CallGood, Has
  <2>4. job'.at \in Statements
    BY <2>1 DEF Statements
  <2> QED BY <1>1, <2>1, <2>3, <2>4, CallGInv
<1>4. ASSUME Fails(1) \/ FileOf(job.url) = {}, Goes("insert", 0)
      PROVE  GInv'
  <2>1. /\ UNCHANGED result /\ job'.at = "insert"
        /\ job'.url = job.url /\ job'.since = job.since
    BY <1>1, <1>4, CallIs DEF Goes
  <2>2. CallGood'
    BY <1>1, <1>2, <1>4, <2>1, FailsCount DEF CallGood, FileOf
  <2>3. job'.at \in Statements
    BY <2>1 DEF Statements
  <2> QED BY <1>1, <2>1, <2>2, <2>3, CallGInv
<1> QED BY <1>3, <1>4 DEF SelectFile

LEMMA UnjoinGInv ==
    ASSUME GInv, LInv, RInv, Unjoin, UNCHANGED <<boot>>
    PROVE  GInv'
<1>1. /\ job.at = "unjoin" /\ job.at \in Statements /\ UNCHANGED <<made, file>>
      /\ failures' \in Nat /\ failures <= failures'
  BY FailsCount DEF Unjoin, Statements
<1>2. /\ UNCHANGED result /\ job'.at = "remove" /\ job'.fid = job.fid
      /\ job'.url = job.url /\ job'.since = job.since
  BY <1>1, CallIs DEF Unjoin, Goes
<1>3. job.since \in Nat /\ job.since <= failures /\ failures \in Nat
  BY <1>1, FailsCount DEF GInv, SinceSound
<1>4. Catalogue \subseteq made => CallGood'
  BY <1>1, <1>2, <1>3 DEF GInv, CallGood, Has
<1>5. job'.at \in Statements
  BY <1>2 DEF Statements
<1> QED BY <1>1, <1>2, <1>4, <1>5, CallGInv

LEMMA DeleteFileGInv ==
    ASSUME GInv, LInv, RInv, DeleteFile, UNCHANGED <<boot>>
    PROVE  GInv'
<1>1. /\ job.at = "remove" /\ job.at \in Statements /\ UNCHANGED made
      /\ failures' \in Nat /\ failures <= failures'
  BY FailsCount DEF DeleteFile, Statements
<1>2. /\ UNCHANGED result /\ job'.at = "insert"
      /\ job'.url = job.url /\ job'.since = job.since
  BY <1>1, CallIs DEF DeleteFile, Goes
<1>3. job.since \in Nat /\ job.since <= failures /\ failures \in Nat
  BY <1>1, FailsCount DEF GInv, SinceSound
<1>4. ASSUME Catalogue \subseteq made, failures' = job.since, Has("file_url_uniq")
      PROVE  FileOf(job.url)' = {}
  <2>1. failures' = failures /\ file' = Unfiled(job.fid)
    BY <1>3, <1>4, FailsCount DEF DeleteFile
  <2>2. \A i \in DOMAIN file : file[i] = job.url => i = job.fid
    BY <1>1, <1>4, <2>1 DEF GInv, CallGood
  <2>3. \A i \in DOMAIN file' : i \in DOMAIN file /\ i # job.fid /\ file'[i] = file[i]
    BY <2>1 DEF Unfiled
  <2> QED BY <1>2, <2>2, <2>3 DEF FileOf
<1>5. Catalogue \subseteq made => CallGood'
  BY <1>1, <1>2, <1>4 DEF CallGood, Has
<1>6. job'.at \in Statements
  BY <1>2 DEF Statements
<1> QED BY <1>1, <1>2, <1>5, <1>6, CallGInv

LEMMA InsertFileGInv ==
    ASSUME GInv, LInv, RInv, InsertFile, UNCHANGED <<boot>>
    PROVE  GInv'
<1>1. /\ job.at = "insert" /\ job.at \in Statements /\ UNCHANGED made
      /\ failures' \in Nat /\ failures <= failures'
  BY FailsCount DEF InsertFile, Statements
<1>2. job.since \in Nat /\ job.since <= failures /\ failures \in Nat
  BY <1>1, FailsCount DEF GInv, SinceSound
<1>3. CASE Goes("artist", lastFile')
  <2>1. /\ UNCHANGED result /\ job'.at = "artist" /\ job'.since = job.since
    BY <1>1, <1>3, CallIs DEF Goes
  <2>2. CallGood' /\ job'.at \in Statements
    BY <2>1 DEF CallGood, Statements
  <2> QED BY <1>1, <2>1, <2>2, CallGInv
<1>4. CASE (Fails(1) \/ (Works /\ ~FileTaken)) /\ Return(0)
  <2>1. ASSUME Catalogue \subseteq made, failures' = job.since
        PROVE  FALSE
    <3>1. failures' = failures /\ ~FileTaken
      BY <1>2, <1>4, <2>1, FailsCount
    <3>2. Has("file")
      BY <2>1 DEF Catalogue, Has
    <3>3. Has("file_url_uniq") => FileOf(job.url) = {}
      BY <1>1, <2>1, <3>1 DEF GInv, CallGood
    <3> QED BY <3>1, <3>2, <3>3 DEF FileTaken
  <2> QED BY <1>1, <1>4, <2>1, CallGInv
<1> QED BY <1>3, <1>4 DEF InsertFile

LEMMA NamedGInv ==
    ASSUME GInv, LInv, RInv, NEW t \in Tables, Named(t), UNCHANGED <<boot>>
    PROVE  GInv'
<1>1. /\ job.at = t /\ job.at \in Statements /\ UNCHANGED <<made, file>>
  BY DEF Named, Statements, Tables
<1>2. PICK id : /\ IdOf(t, id)
                /\ IF id = 0 /\ t # "album" THEN Return(0)
                   ELSE job' = [job EXCEPT !.at = Next3[t], ![t] = id] /\ UNCHANGED result
  BY DEF Named
<1>3. job.since \in Nat /\ job.since <= failures /\ failures \in Nat
  BY <1>1, FailsCount DEF GInv, SinceSound
<1>4. failures' \in Nat /\ failures <= failures'
  BY <1>2, <1>3 DEF IdOf, Works, Fails
<1>5. ASSUME Catalogue \subseteq made, failures' = job.since
      PROVE  id # 0
  <2>1. failures' = failures
    BY <1>3, <1>4, <1>5
  <2>2. Has(t)
    BY <1>5 DEF Catalogue, Has, Tables
  <2>3. PICK S : rows[t] \in Seq(S)
    BY DEF LInv, JInv, RowsAreSeqs
  <2>4. CASE id \in Found(t, Key(t))
    BY <2>3, <2>4 DEF Found
  <2>5. CASE rows' = [rows EXCEPT ![t] = Append(@, Key(t))] /\ id = Len(rows'[t])
    BY <2>5, RowAppended DEF LInv, JInv
  <2>6. ASSUME NEW n \in 0..1, n = 0 => Found(t, Key(t)) = {},
               Fails(n + 1) \/ (Fails(n) /\ ~RowTaken(t))
        PROVE  FALSE
    BY <1>3, <2>1, <2>2, <2>6 DEF Fails, RowTaken
  <2> QED BY <1>2, <2>4, <2>5, <2>6 DEF IdOf
<1>6. CASE id = 0 /\ t # "album"
  BY <1>1, <1>2, <1>4, <1>5, <1>6, CallGInv
<1>7. CASE ~(id = 0 /\ t # "album")
  <2>1. job' = [job EXCEPT !.at = Next3[t], ![t] = id] /\ UNCHANGED result
    BY <1>2, <1>7
  <2>2. job = [at |-> t, url |-> job.url, m |-> job.m, since |-> job.since, fid |-> job.fid,
               artist |-> job.artist, track |-> job.track, album |-> job.album]
    BY <1>1, CallIs
  <2>3. /\ job'.at \in {"track", "album", "join"} /\ job'.since = job.since
        /\ job'.at = "join" => job'.album = id
    BY <2>1, <2>2 DEF Next3, Tables
  <2>4. Catalogue \subseteq made => CallGood'
    BY <1>5, <2>3 DEF CallGood
  <2>5. job'.at \in Statements
    BY <2>3 DEF Statements
  <2> QED BY <1>1, <1>4, <2>1, <2>3, <2>4, <2>5, CallGInv
<1> QED BY <1>6, <1>7

LEMMA InsertJoinGInv ==
    ASSUME GInv, LInv, RInv, InsertJoin, UNCHANGED <<boot>>
    PROVE  GInv'
<1>1. /\ job.at = "join" /\ job.at \in Statements /\ UNCHANGED made
      /\ failures' \in Nat /\ failures <= failures'
  BY FailsCount DEF InsertJoin, Statements
<1>2. job.since \in Nat /\ job.since <= failures /\ failures \in Nat
  BY <1>1, FailsCount DEF GInv, SinceSound
<1>3. CASE Works /\ Return(job.fid)
  <2>1. job.fid # 0
    BY <1>1 DEF RInv, CallNamed, FileIds
  <2>2. Catalogue \subseteq made /\ failures' = job.since => job.album # 0
    BY <1>1, <1>3, FailsCount DEF GInv, CallGood
  <2> QED BY <1>1, <1>3, <2>1, <2>2, CallGInv
<1>4. CASE (Fails(1) \/ (Works /\ ~Has("file_join"))) /\ Return(0)
  <2>1. ~(Catalogue \subseteq made /\ failures' = job.since)
    BY <1>2, <1>4, FailsCount DEF Catalogue, Has
  <2> QED BY <1>1, <1>4, <2>1, CallGInv
<1> QED BY <1>3, <1>4 DEF InsertJoin

LEMMA NextGInv == GInv /\ LInv /\ RInv /\ [Next]_vars => GInv'
<1> SUFFICES ASSUME GInv, LInv, RInv, [Next]_vars
             PROVE  GInv'
  OBVIOUS
<1>1. CASE UNCHANGED vars \/ ScanFile
  <2>1. UNCHANGED <<made, boot, file, job, result, failures>>
    BY <1>1 DEF vars, db, ScanFile
  <2> QED BY <2>1 DEF GInv, SinceSound, ResultsGood, CallGood, FileOf, Has
<1>2. CASE Stop
  <2>1. DOMAIN result' = {} /\ job'.at \notin Statements
    BY <1>2 DEF Stop, Idle, Statements
  <2> QED BY <2>1 DEF GInv, SinceSound, ResultsGood, CallGood
<1>3. CASE UpdateSchema
  <2>1. boot # 0 /\ UNCHANGED <<job, result>>
    BY <1>3 DEF UpdateSchema
  <2>2. DOMAIN result' = {}
    BY <2>1 DEF GInv, SinceSound
  <2>3. job'.at \notin Statements
    BY <2>1 DEF LInv, VInv, BootSound, Idle, Statements
  <2> QED BY <2>2, <2>3 DEF GInv, SinceSound, ResultsGood, CallGood
<1>4. CASE AddFile
  <2>1. /\ boot = 0 /\ UNCHANGED <<made, boot, result, failures>>
        /\ job'.at = "select" /\ job'.since = failures
    BY <1>4 DEF AddFile, db
  <2>2. failures \in Nat
    BY FailsCount
  <2> QED BY <2>1, <2>2 DEF GInv, SinceSound, ResultsGood, CallGood
<1>5. CASE IndexStep
  <2>1. UNCHANGED <<made, boot, result>> /\ boot = 0 /\ job'.at \notin Statements
    BY <1>5, IndexStepIs DEF Statements
  <2> QED BY <2>1 DEF GInv, SinceSound, ResultsGood, CallGood
<1>6. CASE AddFileStep
  <2>1. UNCHANGED boot
    BY <1>6 DEF AddFileStep
  <2> QED BY <1>6, <2>1, SelectFileGInv, UnjoinGInv, DeleteFileGInv, InsertFileGInv, NamedGInv,
          InsertJoinGInv DEF AddFileStep
<1> QED BY <1>1, <1>2, <1>3, <1>4, <1>5, <1>6 DEF Next, IndexStep

(* A call of addFile none of whose statements fails succeeds and lists the    *)
(* file, whatever earlier calls and stopped processes left behind, once the   *)
(* tables are made (library.cpp:40-230).                                     *)
THEOREM AddingRepairs == Spec => []AddRepairs
<1>1. GInv /\ RInv => AddRepairs
  <2> SUFFICES ASSUME GInv, RInv, NEW u \in DOMAIN result, result[u].failed = 0, ~Busy(u), Catalogue \subseteq made
               PROVE  result[u].ret # 0 /\ ListedBy(u, result[u])
    BY DEF AddRepairs
  <2>1. result[u].ret # 0 /\ result[u].album # 0
    BY DEF GInv, ResultsGood
  <2>2. Joined(u, result[u])
    BY <2>1 DEF RInv, ResultsSound
  <2> QED BY <2>1, <2>2, ListedIs
<1> QED BY <1>1, InitLInv, NextLInv, InitRInv, NextRInv, InitGInv, NextGInv, PTL DEF Spec

-----------------------------------------------------------------------------
(* Counting *)

(* Every set of numbers has a least one. *)
LEMMA Least ==
  ASSUME NEW T \in SUBSET Nat, T # {}
  PROVE  \E x \in T : \A y \in T : x <= y
<1> DEFINE R == {p \in Nat \X Nat : p[1] < p[2]}
<1>1. IsWellFoundedOn(OpToRel(<, Nat), Nat)
  BY NatLessThanWellFounded
<1>2. OpToRel(<, Nat) = R
  BY DEF OpToRel
<1>3. IsWellFoundedOn(R, Nat)
  BY <1>1, <1>2
<1>4. \E x \in T : \A y \in T : ~(<<y, x>> \in R)
  <2> HIDE DEF R
  <2> QED BY <1>3, WFMin
<1>5. ASSUME NEW x \in T, NEW y \in T, ~(<<y, x>> \in R)
      PROVE  x <= y
  <2>1. x \in Nat /\ y \in Nat /\ <<y, x>> \in Nat \X Nat
    OBVIOUS
  <2>2. ~(y < x)
    BY <1>5, <2>1
  <2> QED BY <2>1, <2>2
<1> QED BY <1>4, <1>5

(* How many of the numbers in S are up to i. *)
UpTo(S, i) == {j \in S : j <= i}
Count(S, i) == Cardinality(UpTo(S, i))

LEMMA CountIs ==
    ASSUME NEW n \in Nat, NEW S \in SUBSET (1..n)
    PROVE  /\ IsFiniteSet(S) /\ Cardinality(S) \in Nat
           /\ \A i : IsFiniteSet(UpTo(S, i)) /\ Count(S, i) \in Nat
           /\ Count(S, 0) = 0 /\ Count(S, n) = Cardinality(S)
<1>0. \A j \in S : j \in Nat /\ 1 <= j /\ j <= n
  OBVIOUS
<1>1. IsFiniteSet(S)
  <2>1. IsFiniteSet(1..n)
    BY FS_Interval
  <2> QED BY <2>1, FS_Subset
<1>2. ASSUME NEW i
      PROVE  IsFiniteSet(UpTo(S, i)) /\ Count(S, i) \in Nat
  <2>1. UpTo(S, i) \subseteq S
    BY DEF UpTo
  <2> QED BY <1>1, <2>1, FS_Subset, FS_CardinalityType DEF Count
<1>3. UpTo(S, 0) = {} /\ UpTo(S, n) = S
  <2>1. \A x : x \in UpTo(S, 0) => FALSE
    BY <1>0 DEF UpTo
  <2>2. \A x : x \in UpTo(S, n) <=> x \in S
    BY <1>0 DEF UpTo
  <2> QED BY <2>1, <2>2
<1>4. Count(S, 0) = 0 /\ Count(S, n) = Cardinality(S)
  BY <1>3, FS_EmptySet DEF Count
<1> QED BY <1>1, <1>2, <1>4, FS_CardinalityType

LEMMA CountNext ==
    ASSUME NEW n \in Nat, NEW S \in SUBSET (1..n), NEW i \in Nat \ {0}
    PROVE  Count(S, i) = IF i \in S THEN Count(S, i - 1) + 1 ELSE Count(S, i - 1)
<1>0. \A j \in S : j \in Nat /\ 1 <= j /\ j <= n
  OBVIOUS
<1>1. i \in Nat /\ i # 0
  OBVIOUS
<1>2. CASE i \in S
  <2>1. UpTo(S, i) = UpTo(S, i - 1) \cup {i} /\ i \notin UpTo(S, i - 1)
    <3>1. \A x \in S : x <= i <=> x <= i - 1 \/ x = i
      BY <1>0, <1>1
    <3>2. \A x : x \in UpTo(S, i) <=> x \in UpTo(S, i - 1) \/ x = i
      BY <1>2, <3>1, <1>1 DEF UpTo
    <3>3. i \notin UpTo(S, i - 1)
      BY <1>1 DEF UpTo
    <3> QED BY <3>2, <3>3
  <2>2. IsFiniteSet(UpTo(S, i - 1))
    BY CountIs
  <2> QED BY <1>2, <2>1, <2>2, FS_AddElement DEF Count
<1>3. CASE i \notin S
  <2>1. UpTo(S, i) = UpTo(S, i - 1)
    <3>1. \A x \in S : x <= i <=> x <= i - 1
      BY <1>0, <1>3, <1>1
    <3> QED BY <3>1 DEF UpTo
  <2> QED BY <1>3, <2>1 DEF Count
<1> QED BY <1>2, <1>3

(* Of two of them the smaller has the smaller number. *)
LEMMA CountGrows ==
    ASSUME NEW n \in Nat, NEW S \in SUBSET (1..n), NEW i \in Nat, NEW j \in S, i < j
    PROVE  Count(S, i) < Count(S, j)
<1>0. \A x \in S : x \in Nat /\ 1 <= x /\ x <= n
  OBVIOUS
<1>1. UpTo(S, i) \subseteq UpTo(S, j - 1) /\ j \in Nat \ {0}
  <2>1. j \in Nat \ {0}
    BY <1>0
  <2>2. \A x : x \in UpTo(S, i) => x \in UpTo(S, j - 1)
    BY <1>0, <2>1 DEF UpTo
  <2> QED BY <2>1, <2>2
<1>2. Count(S, i) <= Count(S, j - 1)
  BY <1>1, CountIs, FS_Subset DEF Count
<1>3. Count(S, j) = Count(S, j - 1) + 1
  BY <1>1, CountNext
<1> QED BY <1>2, <1>3, CountIs

(* The k-th smallest is there, and a number of S is the one its count says. *)
LEMMA NthIs ==
    ASSUME NEW n \in Nat, NEW S \in SUBSET (1..n)
    PROVE  /\ \A k \in 1..Cardinality(S) : Nth(S, k) \in S /\ Count(S, Nth(S, k)) = k
           /\ \A i \in S : Count(S, i) \in 1..Cardinality(S) /\ Nth(S, Count(S, i)) = i
<1>1. ASSUME NEW k \in 1..Cardinality(S)
      PROVE  \E i \in S : Count(S, i) = k
  <2> DEFINE T == {i \in Nat : Count(S, i) >= k}
  <2>1. n \in T
    BY CountIs
  <2>2. PICK i \in T : \A j \in T : i <= j
    BY <2>1, Least
  <2>3. i \in Nat \ {0}
    BY <2>2, CountIs
  <2>4. i - 1 \in Nat /\ i - 1 \notin T
    BY <2>2, <2>3
  <2>5. Count(S, i - 1) < k /\ Count(S, i - 1) \in Nat /\ Count(S, i) >= k
    BY <2>2, <2>4, CountIs
  <2>6. Count(S, i) = IF i \in S THEN Count(S, i - 1) + 1 ELSE Count(S, i - 1)
    BY <2>3, CountNext
  <2> QED BY <2>5, <2>6
<1>2. ASSUME NEW k \in 1..Cardinality(S)
      PROVE  Nth(S, k) \in S /\ Count(S, Nth(S, k)) = k
  <2>1. \E i \in S : Cardinality({j \in S : j <= i}) = k
    BY <1>1 DEF Count, UpTo
  <2>2. Nth(S, k) \in S /\ Cardinality({j \in S : j <= Nth(S, k)}) = k
    BY <2>1 DEF Nth
  <2> QED BY <2>2 DEF Count, UpTo
<1>3. ASSUME NEW i \in S
      PROVE  Count(S, i) \in 1..Cardinality(S) /\ Nth(S, Count(S, i)) = i
  <2>1. i \in Nat /\ 0 < i
    OBVIOUS
  <2>2. Count(S, i) > 0
    BY <2>1, CountGrows, CountIs
  <2>3. Count(S, i) <= Cardinality(S)
    <3>1. UpTo(S, i) \subseteq S
      BY DEF UpTo
    <3> QED BY <3>1, CountIs, FS_Subset DEF Count
  <2>4. Count(S, i) \in 1..Cardinality(S)
    BY <2>2, <2>3, CountIs
  <2>5. Nth(S, Count(S, i)) \in S /\ Count(S, Nth(S, Count(S, i))) = Count(S, i)
    BY <1>2, <2>4
  <2>6. ASSUME NEW a \in S, NEW b \in S, a < b
        PROVE  Count(S, a) # Count(S, b)
    <3>1. a \in Nat
      OBVIOUS
    <3>2. Count(S, a) < Count(S, b)
      BY <2>6, <3>1, CountGrows
    <3>3. Count(S, a) \in Nat /\ Count(S, b) \in Nat
      BY CountIs
    <3> QED BY <3>2, <3>3
  <2>7. \A a, b \in S : Count(S, a) = Count(S, b) => a = b
    <3>1. \A a \in S : a \in Nat
      OBVIOUS
    <3> QED BY <2>6, <3>1
  <2> QED BY <2>4, <2>5, <2>7
<1> QED BY <1>2, <1>3

LEMMA NthOfAll ==
    ASSUME NEW n \in Nat, NEW k \in 1..n
    PROVE  Nth(1..n, k) = k
<1>1. UpTo(1..n, k) = 1..k
  BY DEF UpTo
<1>2. Count(1..n, k) = k
  BY <1>1, FS_Interval DEF Count
<1> QED BY <1>2, NthIs

-----------------------------------------------------------------------------
(* Names *)

Word == Seq(DOMAIN Lower)
Sorted(s) == s \in Word /\ sortname(s) = s

LEMMA LoweredIs ==
    ASSUME NEW str \in Word
    PROVE  /\ lowered(str) \in Word /\ DOMAIN lowered(str) = 1..Len(str)
           /\ \A i \in 1..Len(str) : /\ lowered(str)[i] = Lower[str[i]]
                                     /\ Lower[lowered(str)[i]] = lowered(str)[i]
<1>1. DOMAIN str = 1..Len(str) /\ Len(str) \in Nat /\ \A i \in 1..Len(str) : str[i] \in DOMAIN Lower
  BY DEF Word
<1>2. \A i \in 1..Len(str) : lowered(str)[i] = Lower[str[i]] /\ DOMAIN lowered(str) = 1..Len(str)
  BY <1>1 DEF lowered
<1>3. lowered(str) = [i \in 1..Len(str) |-> Lower[str[i]]]
  BY <1>1 DEF lowered
<1>4. \A i \in 1..Len(str) : Lower[str[i]] \in DOMAIN Lower /\ Lower[Lower[str[i]]] = Lower[str[i]]
  BY <1>1, MusicAssumption
<1>5. lowered(str) \in Word
  BY <1>1, <1>3, <1>4 DEF Word
<1> QED BY <1>1, <1>2, <1>3, <1>4, <1>5

LEMMA SortnameIs ==
    ASSUME NEW name \in Word, NEW low, low = lowered(name), NEW n, n = Cardinality(Kept(low))
    PROVE  /\ n \in Nat /\ Kept(low) \in SUBSET (1..Len(name))
           /\ sortname(name) \in Word /\ DOMAIN sortname(name) = 1..n
           /\ \A k \in 1..n : sortname(name)[k] = low[Nth(Kept(low), k)]
<1>1. low \in Word /\ DOMAIN low = 1..Len(name) /\ Len(name) \in Nat
  BY LoweredIs DEF Word
<1>2. Kept(low) \in SUBSET (1..Len(name))
  BY <1>1 DEF Kept
<1>3. n \in Nat /\ \A k \in 1..n : Nth(Kept(low), k) \in 1..Len(name)
  BY <1>1, <1>2, CountIs, NthIs
<1>4. \A i \in 1..Len(name) : low[i] \in DOMAIN Lower
  BY <1>1 DEF Word
<1>5. sortname(name) = [k \in 1..n |-> low[Nth(Kept(low), k)]]
  BY DEF sortname
<1>6. \A k \in 1..n : low[Nth(Kept(low), k)] \in DOMAIN Lower
  BY <1>3, <1>4
<1>7. sortname(name) \in Word
  BY <1>3, <1>5, <1>6 DEF Word
<1> QED BY <1>2, <1>3, <1>5, <1>7

(* What is kept of a name is kept again: what is in front of a space that is  *)
(* kept, and some ink behind it, are kept too.                               *)
LEMMA KeptAgain ==
    ASSUME NEW n \in Nat, NEW low, DOMAIN low = 1..n,
           NEW N \in Nat, N = Cardinality(Kept(low)),
           NEW s, s = [k \in 1..N |-> low[Nth(Kept(low), k)]]
    PROVE  Kept(s) = 1..N
<1> DEFINE S == Kept(low)
<1>1. S \in SUBSET (1..n) /\ DOMAIN s = 1..N
  BY DEF Kept
<1>2. \A k \in 1..N : Nth(S, k) \in S /\ Count(S, Nth(S, k)) = k /\ s[k] = low[Nth(S, k)]
  BY <1>1, NthIs
<1>3. \A i \in S : Count(S, i) \in 1..N /\ s[Count(S, i)] = low[i]
  BY <1>1, NthIs
<1>4. ASSUME NEW k \in 1..N, ~Ink(s, k)
      PROVE  Ink(s, k - 1) /\ \E j \in 1..N : j > k /\ Ink(s, j)
  <2> DEFINE i == Nth(S, k)
  <2>1. i \in S /\ i \in 1..n /\ ~Ink(low, i) /\ Count(S, i) = k
    BY <1>1, <1>2, <1>4 DEF Ink
  <2>2. Ink(low, i - 1) /\ \E j \in 1..n : j > i /\ Ink(low, j)
    BY <2>1 DEF Kept
  <2> HIDE DEF i
  <2>3. i - 1 \in S /\ i - 1 \in Nat
    <3>1. i - 1 \in 1..n
      BY <2>2 DEF Ink
    <3> QED BY <2>2, <3>1 DEF Kept
  <2>4. Count(S, i - 1) = k - 1
    <3>1. i \in Nat \ {0}
      BY <2>1
    <3>2. Count(S, i) = Count(S, i - 1) + 1 /\ Count(S, i - 1) \in Nat
      BY <1>1, <2>1, <3>1, CountNext, CountIs
    <3> QED BY <2>1, <3>2
  <2>5. Ink(s, k - 1)
    BY <1>1, <1>3, <2>2, <2>3, <2>4 DEF Ink
  <2>6. PICK j \in 1..n : j > i /\ Ink(low, j)
    BY <2>2
  <2>7. j \in S
    BY <2>6 DEF Kept, Ink
  <2>8. Count(S, i) < Count(S, j)
    <3>1. i \in Nat /\ i < j
      BY <2>1, <2>6
    <3> QED BY <1>1, <2>7, <3>1, CountGrows
  <2>9. Ink(s, Count(S, j)) /\ Count(S, j) \in 1..N
    BY <1>1, <1>3, <2>6, <2>7 DEF Ink
  <2> QED BY <2>1, <2>5, <2>8, <2>9
<1>5. \A k \in 1..N : k \in Kept(s)
  BY <1>1, <1>4 DEF Kept
<1>6. Kept(s) \subseteq 1..N
  BY <1>1 DEF Kept
<1> QED BY <1>5, <1>6

(* A sortname is its own. *)
LEMMA SortnameSorted ==
    ASSUME NEW name \in Word
    PROVE  Sorted(sortname(name))
<1> DEFINE low == lowered(name)
           n == Cardinality(Kept(low))
           s == sortname(name)
<1>1. /\ n \in Nat /\ Kept(low) \in SUBSET (1..Len(name)) /\ s \in Word /\ DOMAIN s = 1..n
      /\ \A k \in 1..n : s[k] = low[Nth(Kept(low), k)]
  BY SortnameIs
<1>2. DOMAIN low = 1..Len(name) /\ Len(name) \in Nat
      /\ \A i \in 1..Len(name) : Lower[low[i]] = low[i]
  BY LoweredIs DEF Word
<1>3. s = [k \in 1..n |-> low[Nth(Kept(low), k)]]
  BY DEF sortname
<1>4. \A k \in 1..n : Nth(Kept(low), k) \in 1..Len(name)
  BY <1>1, <1>2, NthIs
<1> HIDE DEF low, n, s
<1>5. lowered(s) = s
  <2>1. Len(s) = n
    BY <1>1 DEF Word
  <2>2. \A k \in 1..n : Lower[s[k]] = s[k]
    BY <1>1, <1>2, <1>4
  <2>3. lowered(s) = [k \in 1..n |-> Lower[s[k]]]
    BY <1>1 DEF lowered
  <2>4. lowered(s) = [k \in 1..n |-> s[k]]
    BY <2>2, <2>3
  <2> QED BY <1>3, <2>4, <1>1
<1>6. Kept(s) = 1..n
  BY <1>1, <1>2, <1>3, KeptAgain DEF n
<1>7. sortname(s) = [k \in 1..n |-> s[k]]
  <2>1. Cardinality(1..n) = n
    BY <1>1, FS_Interval
  <2>2. \A k \in 1..n : Nth(1..n, k) = k
    BY <1>1, NthOfAll
  <2>3. sortname(s) = [k \in 1..n |-> s[Nth(1..n, k)]]
    BY <1>5, <1>6, <2>1 DEF sortname
  <2> QED BY <2>2, <2>3
<1>8. sortname(s) = s
  BY <1>3, <1>7, <1>1
<1> QED BY <1>1, <1>8 DEF Sorted, s

LEMMA WiderSeq ==
    ASSUME NEW S, NEW T, NEW s \in Seq(S)
    PROVE  s \in Seq(S \cup T)
<1>1. Len(s) \in Nat /\ s \in [1..Len(s) -> S]
  OBVIOUS
<1>2. s \in [1..Len(s) -> S \cup T]
  BY <1>1
<1> QED BY <1>1, <1>2

LEMMA ConcatIs ==
    ASSUME NEW S, NEW s \in Seq(S), NEW t \in Seq(S), Len(s) # 0
    PROVE  s \o t \in Seq(S) /\ Len(s \o t) \in Nat \ {0}
<1>1. Len(s) \in Nat \ {0} /\ Len(t) \in Nat /\ Len(s \o t) = Len(s) + Len(t)
  OBVIOUS
<1> QED BY <1>1

LEMMA NgramsAre ==
    ASSUME NEW s, Sorted(s)
    PROVE  DOMAIN ngrams(s) # {} /\ \A g \in DOMAIN ngrams(s) : ngrams(s)[g] \in Nat
<1> DEFINE str == <<" ">> \o sortname(s) \o <<" ">>
           at == [j \in DOMAIN str |-> mid(str, j)]
<1>1. sortname(s) \in Seq(DOMAIN Lower \cup {" "})
  <2>1. s \in Seq(DOMAIN Lower) /\ sortname(s) = s
    BY DEF Sorted, Word
  <2> QED BY <2>1, WiderSeq
<1> HIDE DEF str
<1>2. DOMAIN str = 1..Len(str) /\ Len(str) \in Nat /\ 1 \in DOMAIN str
  <2> DEFINE X == DOMAIN Lower \cup {" "}
             front == <<" ">> \o sortname(s)
  <2> HIDE DEF X, front
  <2>1. <<" ">> \in Seq(X) /\ Len(<<" ">>) \in Nat \ {0} /\ sortname(s) \in Seq(X)
    <3>1. " " \in X
      BY DEF X
    <3>2. \A S : \A x \in S : <<x>> \in Seq(S)
      OBVIOUS
    <3>3. Len(<<" ">>) \in Nat \ {0}
      OBVIOUS
    <3> QED BY <1>1, <3>2, <3>3 DEF X
  <2>2. front \in Seq(X) /\ Len(front) \in Nat \ {0}
    BY <2>1, ConcatIs DEF front
  <2>3. front \o <<" ">> \in Seq(X) /\ Len(front \o <<" ">>) \in Nat \ {0}
    BY <2>1, <2>2, ConcatIs
  <2>4. str = front \o <<" ">>
    BY DEF str, front
  <2>5. str \in Seq(X) /\ Len(str) \in Nat \ {0}
    BY <2>3, <2>4
  <2> QED BY <2>5
<1>3. ngrams(s) = [g \in Range(at) |-> Cardinality({j \in DOMAIN at : at[j] = g})]
  BY DEF ngrams, str
<1>4. DOMAIN ngrams(s) = Range(at) /\ at[1] \in Range(at)
  BY <1>2, <1>3 DEF Range
<1>5. ASSUME NEW g
      PROVE  Cardinality({j \in DOMAIN at : at[j] = g}) \in Nat
  <2>1. IsFiniteSet(1..Len(str)) /\ {j \in DOMAIN at : at[j] = g} \subseteq 1..Len(str)
    BY <1>2, FS_Interval
  <2> QED BY <2>1, FS_Subset, FS_CardinalityType
<1> QED BY <1>3, <1>4, <1>5
-----------------------------------------------------------------------------
(* The search indexes *)

(* Names come from the tags, and a row's key is made with sortname. *)
Tags == UNION {Versions[f] : f \in DOMAIN Versions}
Events == [url : DOMAIN Versions, m : Tags]
NamesSound ==
    /\ todo \in Seq(DOMAIN Versions)
    /\ queue \in Seq(Events)
    /\ job.at \in Statements => job.m \in Tags
    /\ \A t \in Tables : \A id \in DOMAIN rows[t] : Sorted(SortOf(t, rows[t][id]))

(* The entry e of t has its count n times at most. *)
Times(t, e, n) == \E k \in 1..n : index[t][e] = k * Grams(t, e[2])[e[1]]
Exact(t, id, g) == <<g, id>> \in DOMAIN index[t] /\ index[t][<<g, id>>] = Grams(t, id)[g]

(* An entry is of a row, which counts once for each build that did not        *)
(* remove it first.                                                          *)
EntriesSound ==
    /\ DOMAIN index = Tables
    /\ \A t \in Tables :
          /\ ~Has(SearchTable[t]) => DOMAIN index[t] = {}
          /\ \A e \in DOMAIN index[t] :
                /\ e = <<e[1], e[2]>> /\ e[2] \in DOMAIN rows[t]
                /\ e[1] \in DOMAIN Grams(t, e[2]) /\ Times(t, e, failures + 1)
BuiltSound ==
    /\ DOMAIN built = Tables
    /\ \A t \in Tables :
          /\ built[t] \in Nat /\ 1..built[t] \subseteq DOMAIN rows[t]
          /\ \A id \in 1..built[t] : \A g \in DOMAIN Grams(t, id) : Exact(t, id, g)

(* The build in progress has dealt with e. *)
Reached(e) == e[2] < job.id \/ (e[2] = job.id /\ e[1] \notin job.left)

BuildShape ==
    /\ job.table \in Tables /\ built[job.table] = 0
    /\ job.id \in Nat /\ job.last \in Nat /\ job.id <= job.last
    /\ 1..job.last \subseteq DOMAIN rows[job.table]
    /\ job.since \in Nat /\ job.since <= failures
    /\ IF job.id = 0 THEN job.left = {} ELSE job.left \subseteq DOMAIN Grams(job.table, job.id)

(* What it has not dealt with is of a build before a failure; if none of its  *)
(* own statements failed, what it has dealt with is all there is.            *)
BuildSound ==
    /\ \A e \in DOMAIN index[job.table] : ~Reached(e) => Times(job.table, e, failures)
    /\ failures = job.since /\ Has(SearchTable[job.table]) =>
          /\ \A e \in DOMAIN index[job.table] : Reached(e)
          /\ \A id \in 1..job.id : \A g \in DOMAIN Grams(job.table, id) :
                id < job.id \/ g \notin job.left => Exact(job.table, id, g)

SInv == /\ NamesSound /\ EntriesSound /\ BuiltSound
        /\ job.at = "index" => BuildShape /\ BuildSound

LEMMA TagsAre == \A m \in Tags : m.artist \in Word /\ m.album \in Word /\ m.track \in Word
BY MusicAssumption DEF Tags, Word

LEMMA ScansAre == \A s \in Scans : s \in Seq(DOMAIN Versions)
<1>1. Walk[Root] \in Seq(DOMAIN Versions)
  BY MusicAssumption
<1>2. <<>> \in Seq(DOMAIN Versions)
  OBVIOUS
<1> QED BY <1>1, <1>2 DEF Scans

LEMMA NoEvents == <<>> \in Seq(Events)
OBVIOUS

(* A row's name has n-grams, each with its count. *)
LEMMA GramsAre ==
    ASSUME SInv, NEW t \in Tables, NEW id \in DOMAIN rows[t]
    PROVE  /\ DOMAIN Grams(t, id) # {}
           /\ \A g \in DOMAIN Grams(t, id) : Grams(t, id)[g] \in Nat
BY NgramsAre DEF Grams, SInv, NamesSound

(* More failures leave room for more. *)
LEMMA TimesMore ==
    ASSUME NEW t, NEW e, NEW m \in Nat, NEW n \in Nat, m <= n, Times(t, e, m)
    PROVE  Times(t, e, n)
BY DEF Times

LEMMA RowsAre ==
    ASSUME LInv, NEW t \in Tables
    PROVE  /\ DOMAIN rows[t] = 1..Len(rows[t]) /\ Len(rows[t]) \in Nat
BY DEF LInv, JInv, RowsAreSeqs

(* Steps that leave the indexes alone and no row behind. *)
LEMMA RowsKeep ==
    ASSUME SInv, LInv, Grown, made \subseteq made', UNCHANGED index, failures' \in Nat, failures <= failures',
           UNCHANGED built \/ built' = [t \in Tables |-> 0]
    PROVE  EntriesSound' /\ BuiltSound'
<1>1. \A t \in Tables : \A id \in DOMAIN rows[t] : id \in DOMAIN rows'[t] /\ Grams(t, id)' = Grams(t, id)
  BY DEF Grown, Grams
<1>2. failures \in Nat
  BY FailsCount
<1>3. EntriesSound'
  <2> SUFFICES ASSUME NEW t \in Tables
               PROVE  /\ ~Has(SearchTable[t])' => DOMAIN index'[t] = {}
                      /\ \A e \in DOMAIN index'[t] :
                            /\ e = <<e[1], e[2]>> /\ e[2] \in DOMAIN rows'[t]
                            /\ e[1] \in DOMAIN Grams(t, e[2])' /\ Times(t, e, failures + 1)'
    BY DEF SInv, EntriesSound
  <2>1. ~Has(SearchTable[t])' => DOMAIN index'[t] = {}
    BY DEF Has, SInv, EntriesSound
  <2>2. ASSUME NEW e \in DOMAIN index[t]
        PROVE  /\ e = <<e[1], e[2]>> /\ e[2] \in DOMAIN rows'[t]
               /\ e[1] \in DOMAIN Grams(t, e[2])' /\ Times(t, e, failures + 1)'
    <3>1. /\ e = <<e[1], e[2]>> /\ e[2] \in DOMAIN rows[t]
          /\ e[1] \in DOMAIN Grams(t, e[2]) /\ Times(t, e, failures + 1)
      BY DEF SInv, EntriesSound
    <3>2. Times(t, e, failures' + 1)
      BY <1>2, <3>1, TimesMore
    <3> QED BY <1>1, <3>1, <3>2 DEF Times
  <2> QED BY <2>1, <2>2
<1>4. BuiltSound'
  <2>1. CASE UNCHANGED built
    <3>1. ASSUME NEW t \in Tables, NEW id \in 1..built[t]
          PROVE  /\ id \in DOMAIN rows'[t]
                 /\ \A g \in DOMAIN Grams(t, id)' : Exact(t, id, g)'
      BY <1>1 DEF SInv, BuiltSound, Exact
    <3> QED BY <2>1, <3>1 DEF SInv, BuiltSound
  <2>2. CASE built' = [t \in Tables |-> 0]
    BY <2>2 DEF BuiltSound
  <2> QED BY <2>1, <2>2
<1> QED BY <1>3, <1>4

LEMMA InitSInv == Init => SInv
<1> SUFFICES ASSUME Init
             PROVE  SInv
  OBVIOUS
<1>1. NamesSound
  <2>1. todo \in Seq(DOMAIN Versions) /\ queue \in Seq(Events)
    BY ScansAre, NoEvents DEF Init
  <2>2. job.at \notin Statements
    BY DEF Init, Idle, Statements
  <2>3. \A t \in Tables : DOMAIN rows[t] = {}
    BY DEF Init
  <2> QED BY <2>1, <2>2, <2>3 DEF NamesSound
<1>2. EntriesSound /\ BuiltSound
  BY DEF Init, EntriesSound, BuiltSound, Tables
<1>3. job.at = "idle"
  BY DEF Init, Idle
<1> QED BY <1>1, <1>2, <1>3 DEF SInv

LEMMA ScanFileSInv == ASSUME SInv, LInv, ScanFile PROVE SInv'
<1>1. todo \in Seq(DOMAIN Versions) /\ queue \in Seq(Events)
  BY DEF SInv, NamesSound
<1>2. Head(todo) \in DOMAIN Versions /\ todo' \in Seq(DOMAIN Versions)
  BY <1>1 DEF ScanFile
<1>3. PICK m \in Versions[Head(todo)] \cup {<<>>} :
          queue' = IF m = <<>> \/ ~Tagged(m) THEN queue ELSE Append(queue, [url |-> Head(todo), m |-> m])
  BY DEF ScanFile
<1>4. m # <<>> => m \in Tags
  BY <1>2, <1>3 DEF Tags
<1>5. m # <<>> => [url |-> Head(todo), m |-> m] \in Events
  <2>1. Head(todo) \in DOMAIN Versions
    BY <1>2
  <2> QED BY <1>4, <2>1 DEF Events
<1>6. queue' \in Seq(Events)
  BY <1>1, <1>3, <1>5
<1>7. UNCHANGED <<rows, index, built, job, made, failures>>
  BY DEF ScanFile, db
<1> QED BY <1>2, <1>6, <1>7
        DEF SInv, NamesSound, EntriesSound, BuiltSound, BuildShape, BuildSound, Times, Exact, Grams, Reached, Has

LEMMA AddFileSInv == ASSUME SInv, LInv, AddFile PROVE SInv'
<1>1. queue \in Seq(Events) /\ queue # <<>> /\ queue' = Tail(queue)
  BY DEF SInv, NamesSound, AddFile
<1>2. Head(queue).m \in Tags /\ queue' \in Seq(Events)
  <2>1. Head(queue) \in Events /\ queue' \in Seq(Events)
    BY <1>1
  <2> QED BY <2>1 DEF Events
<1>3. /\ UNCHANGED <<rows, index, built, todo, made, failures>>
      /\ job'.at = "select" /\ job'.m = Head(queue).m
  BY DEF AddFile, db
<1>4. NamesSound'
  BY <1>2, <1>3 DEF SInv, NamesSound
<1>5. EntriesSound' /\ BuiltSound'
  BY <1>3 DEF SInv, EntriesSound, BuiltSound, Times, Exact, Grams, Has
<1> QED BY <1>3, <1>4, <1>5 DEF SInv

(* A statement of addFile leaves the call's tags as they are. *)
LEMMA CallKeepsTags ==
    ASSUME SInv, LInv, AddFileStep
    PROVE  /\ job.at \in Statements /\ job.m \in Tags
           /\ job'.at # "index" /\ (job'.at \in Statements => job'.m \in Tags)
           /\ UNCHANGED <<index, built, todo, queue, made>>
           /\ failures' \in Nat /\ failures <= failures'
<1>1. job.at \in Statements
  BY DEF AddFileStep, SelectFile, Unjoin, DeleteFile, InsertFile, Named, InsertJoin, Tables, Statements
<1>2. job = [at |-> job.at, url |-> job.url, m |-> job.m, since |-> job.since, fid |-> job.fid,
             artist |-> job.artist, track |-> job.track, album |-> job.album]
  BY <1>1, CallAt DEF LInv, JInv
<1>3. job.m \in Tags
  BY <1>1 DEF SInv, NamesSound
<1>4. ASSUME NEW fid, Return(fid)
      PROVE  job'.at = "idle"
  BY <1>4 DEF Return, Idle
<1>5. ASSUME NEW at, NEW fid, Goes(at, fid)
      PROVE  job'.at = at /\ job'.m = job.m
  BY <1>2, <1>5 DEF Goes
<1>6. ASSUME SelectFile \/ Unjoin \/ DeleteFile \/ InsertFile \/ InsertJoin
      PROVE  job'.at # "index" /\ (job'.at \in Statements => job'.m \in Tags)
  <2>1. \/ \E fid : Return(fid)
        \/ \E fid : Goes("unjoin", fid) \/ Goes("remove", fid) \/ Goes("insert", fid) \/ Goes("artist", fid)
    BY <1>6 DEF SelectFile, Unjoin, DeleteFile, InsertFile, InsertJoin
  <2> QED BY <1>3, <1>4, <1>5, <2>1 DEF Statements
<1>7. ASSUME NEW t \in Tables, Named(t)
      PROVE  job'.at # "index" /\ (job'.at \in Statements => job'.m \in Tags)
  <2>1. PICK id : IF id = 0 /\ t # "album" THEN Return(0)
                  ELSE job' = [job EXCEPT !.at = Next3[t], ![t] = id]
    BY <1>7 DEF Named
  <2>2. CASE id = 0 /\ t # "album"
    BY <1>4, <2>1, <2>2 DEF Statements
  <2>3. CASE ~(id = 0 /\ t # "album")
    <3>1. job' = [job EXCEPT !.at = Next3[t], ![t] = id]
      BY <2>1, <2>3
    <3>2. job'.at = Next3[t] /\ job'.m = job.m
      BY <1>2, <3>1 DEF Tables
    <3>3. Next3[t] \in {"track", "album", "join"}
      BY DEF Next3, Tables
    <3> QED BY <1>3, <3>2, <3>3
  <2> QED BY <2>2, <2>3
<1>8. UNCHANGED <<index, built, todo, queue, made>>
  BY DEF AddFileStep, SelectFile, Unjoin, DeleteFile, InsertFile, Named, InsertJoin, db
<1>9. failures' \in Nat /\ failures <= failures'
  <2>1. failures \in Nat
    BY FailsCount
  <2>2. CASE SelectFile \/ Unjoin \/ DeleteFile \/ InsertFile \/ InsertJoin
    BY <2>2, FailsCount DEF SelectFile, Unjoin, DeleteFile, InsertFile, InsertJoin
  <2>3. CASE \E t \in Tables : Named(t)
    BY <2>1, <2>3 DEF Named, IdOf, Works, Fails
  <2> QED BY <2>2, <2>3 DEF AddFileStep
<1> QED BY <1>1, <1>3, <1>6, <1>7, <1>8, <1>9 DEF AddFileStep

LEMMA AddFileStepSInv == ASSUME SInv, LInv, AddFileStep PROVE SInv'
<1>1. /\ job.m \in Tags /\ job'.at # "index" /\ (job'.at \in Statements => job'.m \in Tags)
      /\ UNCHANGED <<index, built, todo, queue, made>>
      /\ failures' \in Nat /\ failures <= failures'
  BY CallKeepsTags
<1>2. CASE UNCHANGED rows
  <2>1. EntriesSound' /\ BuiltSound'
    BY <1>1, <1>2, SameRowsGrown, RowsKeep
  <2>2. NamesSound'
    BY <1>1, <1>2 DEF SInv, NamesSound
  <2> QED BY <1>1, <2>1, <2>2 DEF SInv
<1>3. ASSUME NEW t \in Tables, Named(t)
      PROVE  SInv'
  <2>1. PICK id : IdOf(t, id)
    BY <1>3 DEF Named
  <2>2. Grown
    BY <2>1, IdOfRow DEF LInv, JInv
  <2>3. \A u \in Tables : \A i \in DOMAIN rows'[u] : i \in DOMAIN rows[u] \/ (u = t /\ rows'[u][i] = Key(t))
    <3>1. CASE UNCHANGED rows
      BY <3>1
    <3>2. CASE rows' = [rows EXCEPT ![t] = Append(@, Key(t))]
      <4>1. PICK S : rows[t] \in Seq(S)
        BY DEF LInv, JInv, RowsAreSeqs
      <4>2. DOMAIN rows[t] = 1..Len(rows[t]) /\ Len(rows[t]) \in Nat
        BY <4>1
      <4>3. Append(rows[t], Key(t)) = [i \in 1..Len(rows[t]) + 1 |->
                                         IF i = Len(rows[t]) + 1 THEN Key(t) ELSE rows[t][i]]
        BY <4>1
      <4>4. rows'[t] = Append(rows[t], Key(t)) /\ \A u \in Tables \ {t} : rows'[u] = rows[u]
        BY <3>2 DEF LInv, JInv, RowsAreSeqs
      <4> QED BY <4>2, <4>3, <4>4
    <3> QED BY <2>1, <3>1, <3>2 DEF IdOf
  <2>4. Sorted(SortOf(t, Key(t)))
    <3>2. Sorted(sortname(job.m.artist)) /\ Sorted(sortname(job.m.track)) /\ Sorted(sortname(job.m.album))
      BY <1>1, TagsAre, SortnameSorted
    <3>3. \A x, y : <<x, y>>[2] = y
      OBVIOUS
    <3>4. CASE t = "artist"
      BY <3>2, <3>4 DEF SortOf, Key
    <3>5. CASE t = "track"
      BY <3>2, <3>3, <3>5 DEF SortOf, Key
    <3>6. CASE t = "album"
      BY <3>2, <3>3, <3>6 DEF SortOf, Key
    <3> QED BY <3>4, <3>5, <3>6 DEF Tables
  <2>5. NamesSound'
    <3>1. ASSUME NEW u \in Tables, NEW i \in DOMAIN rows'[u]
          PROVE  Sorted(SortOf(u, rows'[u][i]))
      <4>1. CASE i \in DOMAIN rows[u]
        <5>1. rows'[u][i] = rows[u][i]
          BY <2>2, <4>1 DEF Grown
        <5> QED BY <4>1, <5>1 DEF SInv, NamesSound
      <4>2. CASE i \notin DOMAIN rows[u]
        BY <2>3, <2>4, <4>2
      <4> QED BY <4>1, <4>2
    <3>2. \A u \in Tables : \A i \in DOMAIN rows'[u] : Sorted(SortOf(u, rows[u][i]))'
      BY <3>1 DEF Sorted, SortOf, sortname, Word, lowered, Kept, Ink, Nth
    <3> QED BY <1>1, <3>2 DEF SInv, NamesSound
  <2>6. EntriesSound' /\ BuiltSound'
    BY <1>1, <2>2, RowsKeep
  <2> QED BY <1>1, <2>5, <2>6 DEF SInv
<1> QED BY <1>2, <1>3 DEF AddFileStep, SelectFile, Unjoin, DeleteFile, InsertFile, InsertJoin, db

LEMMA StopSInv == ASSUME SInv, LInv, Stop PROVE SInv'
<1>1. /\ UNCHANGED <<rows, index, made>> /\ job'.at = "idle" /\ built' = [t \in Tables |-> 0]
      /\ todo' \in Scans /\ queue' = <<>>
      /\ failures' \in Nat /\ failures <= failures'
  BY FailsCount DEF Stop, db, Idle
<1>2. NamesSound'
  <2>1. todo' \in Seq(DOMAIN Versions) /\ queue' \in Seq(Events)
    BY <1>1, ScansAre, NoEvents
  <2> QED BY <1>1, <2>1 DEF SInv, NamesSound, Statements
<1>3. EntriesSound' /\ BuiltSound'
  BY <1>1, SameRowsGrown, RowsKeep
<1> QED BY <1>1, <1>2, <1>3 DEF SInv

LEMMA UpdateSchemaSInv == ASSUME SInv, LInv, UpdateSchema PROVE SInv'
<1>1. /\ UNCHANGED <<rows, index, built, job, todo, queue>> /\ made \subseteq made' /\ boot # 0
      /\ failures' \in Nat /\ failures <= failures'
  BY FailsCount DEF UpdateSchema
<1>2. EntriesSound' /\ BuiltSound'
  BY <1>1, SameRowsGrown, RowsKeep
<1>3. job.at # "index"
  BY <1>1 DEF LInv, VInv, BootSound, Idle
<1>4. NamesSound'
  BY <1>1 DEF SInv, NamesSound
<1> QED BY <1>1, <1>2, <1>3, <1>4 DEF SInv

(* buildIndex goes over the rows there are; unless the DELETE works, the      *)
(* entries of an earlier build are still there.                              *)
LEMMA BuildIndexSInv == ASSUME SInv, LInv, NEW t \in Tables, BuildIndex(t) PROVE SInv'
<1>1. /\ UNCHANGED <<rows, todo, queue, made>> /\ built' = [built EXCEPT ![t] = 0]
      /\ job' = [at |-> "index", table |-> t, since |-> failures,
                 id |-> 0, last |-> Len(rows[t]), left |-> {}]
      /\ failures \in Nat /\ failures' \in Nat /\ failures <= failures'
  BY FailsCount DEF BuildIndex
<1>2. /\ job'.at = "index" /\ job'.table = t /\ job'.since = failures /\ job'.id = 0
      /\ job'.last = Len(rows[t]) /\ job'.left = {}
  BY <1>1
<1>3. /\ DOMAIN index' = Tables /\ \A u \in Tables \ {t} : index'[u] = index[u]
      /\ \/ DOMAIN index'[t] = {}
         \/ failures' = failures + 1 /\ index'[t] = index[t]
  <2>1. CASE Works /\ Has(SearchTable[t]) /\ index' = [index EXCEPT ![t] = Emptied(t)]
    <3>1. DOMAIN Emptied(t) = {}
      BY DEF Emptied
    <3> QED BY <2>1, <3>1 DEF SInv, EntriesSound
  <2>2. CASE Fails(1) /\ UNCHANGED index
    BY <2>2, FailsCount DEF SInv, EntriesSound
  <2>3. CASE ~Has(SearchTable[t]) /\ UNCHANGED index
    BY <2>3 DEF SInv, EntriesSound
  <2> QED BY <2>1, <2>2, <2>3 DEF BuildIndex
<1>4. NamesSound'
  BY <1>1, <1>2 DEF SInv, NamesSound, Statements
<1>5. \A u, i : Grams(u, i)' = Grams(u, i)
  BY <1>1 DEF Grams
<1>6. ASSUME NEW u \in Tables, NEW e \in DOMAIN index'[u]
      PROVE  /\ e = <<e[1], e[2]>> /\ e[2] \in DOMAIN rows'[u]
             /\ e[1] \in DOMAIN Grams(u, e[2])' /\ Times(u, e, failures + 1)'
             /\ u = t => Times(u, e, failures)'
  <2>1. index'[u] = index[u] /\ (u = t => failures' = failures + 1)
    BY <1>3, <1>6
  <2>2. /\ e = <<e[1], e[2]>> /\ e[2] \in DOMAIN rows[u]
        /\ e[1] \in DOMAIN Grams(u, e[2]) /\ Times(u, e, failures + 1)
    BY <2>1 DEF SInv, EntriesSound
  <2>3. Times(u, e, failures' + 1) /\ (u = t => Times(u, e, failures'))
    BY <1>1, <2>1, <2>2, TimesMore
  <2>4. Times(u, e, failures + 1)' /\ (u = t => Times(u, e, failures)')
    BY <1>5, <2>1, <2>3 DEF Times
  <2> QED BY <1>1, <1>5, <2>2, <2>4
<1>7. EntriesSound'
  BY <1>1, <1>3, <1>6 DEF EntriesSound, Has, SInv
<1>8. BuiltSound'
  <2>1. ASSUME NEW u \in Tables
        PROVE  /\ built'[u] \in Nat /\ 1..built'[u] \subseteq DOMAIN rows'[u]
               /\ \A id \in 1..built'[u] : \A g \in DOMAIN Grams(u, id)' : Exact(u, id, g)'
    <3>1. CASE u = t
      <4>1. built'[u] = 0
        BY <1>1, <3>1 DEF SInv, BuiltSound
      <4> QED BY <4>1
    <3>2. CASE u # t
      <4>1. built'[u] = built[u] /\ index'[u] = index[u]
        BY <1>1, <1>3, <3>2 DEF SInv, BuiltSound
      <4> QED BY <1>1, <1>5, <4>1 DEF SInv, BuiltSound, Exact
    <3> QED BY <3>1, <3>2
  <2> QED BY <1>1, <2>1 DEF SInv, BuiltSound
<1>9. BuildShape'
  <2>1. built'[t] = 0
    BY <1>1 DEF SInv, BuiltSound
  <2>2. DOMAIN rows[t] = 1..Len(rows[t]) /\ Len(rows[t]) \in Nat
    BY RowsAre
  <2> QED BY <1>1, <1>2, <2>1, <2>2 DEF BuildShape
<1>10. BuildSound'
  <2>1. \A e \in DOMAIN index'[job'.table] : Times(job.table, e, failures)'
    BY <1>2, <1>6 DEF Times
  <2>2. failures' = job'.since => DOMAIN index'[job'.table] = {}
    BY <1>1, <1>2, <1>3
  <2>3. \A id : id \notin 1..job'.id
    BY <1>2
  <2> QED BY <2>1, <2>2, <2>3 DEF BuildSound
<1> QED BY <1>4, <1>7, <1>8, <1>9, <1>10 DEF SInv

LEMMA IndexCall ==
    ASSUME LInv, job.at = "index"
    PROVE  job = [at |-> "index", table |-> job.table, since |-> job.since,
                  id |-> job.id, last |-> job.last, left |-> job.left]
BY DEF LInv, JInv, CallSound, CallShape, Idle, Statements

LEMMA NextRowSInv == ASSUME SInv, LInv, NextRow PROVE SInv'
<1>1. PICK T, id : T = job.table /\ id = job.id
  OBVIOUS
<1>2. /\ UNCHANGED <<rows, index, built, made, failures, todo, queue>>
      /\ job.at = "index" /\ job.left = {} /\ id < job.last
  BY <1>1 DEF NextRow, db
<1>3. /\ job'.at = "index" /\ job'.table = T /\ job'.since = job.since
      /\ job'.id = id + 1 /\ job'.last = job.last /\ job'.left = DOMAIN Grams(T, id + 1)
  BY <1>1, <1>2, IndexCall DEF NextRow
<1>4. /\ T \in Tables /\ built[T] = 0 /\ id \in Nat /\ job.last \in Nat
      /\ 1..job.last \subseteq DOMAIN rows[T] /\ job.since \in Nat /\ job.since <= failures
  BY <1>1, <1>2 DEF SInv, BuildShape
<1>5. \A u, i : Grams(u, i)' = Grams(u, i)
  BY <1>2 DEF Grams
<1>6. NamesSound' /\ EntriesSound' /\ BuiltSound'
  <2>1. NamesSound'
    BY <1>2, <1>3 DEF SInv, NamesSound, Statements
  <2>2. failures \in Nat
    BY FailsCount
  <2>3. EntriesSound' /\ BuiltSound'
    BY <1>2, <2>2, SameRowsGrown, RowsKeep
  <2> QED BY <2>1, <2>3
<1>7. BuildShape'
  BY <1>2, <1>3, <1>4, <1>5 DEF BuildShape
<1>8. ASSUME NEW e \in DOMAIN index[T]
      PROVE  Reached(e)' <=> Reached(e)
  <2>1. e[2] \in DOMAIN rows[T] /\ e[1] \in DOMAIN Grams(T, e[2])
    BY <1>4 DEF SInv, EntriesSound
  <2>2. e[2] \in Nat
    BY <1>4, <2>1, RowsAre
  <2>3. Reached(e) <=> e[2] <= id
    BY <1>1, <1>2, <1>4, <2>2 DEF Reached
  <2>4. Reached(e)' <=> e[2] < id + 1
    BY <1>3, <2>1 DEF Reached
  <2> QED BY <1>4, <2>2, <2>3, <2>4
<1>9. BuildSound'
  <2>1. \A e \in DOMAIN index'[T] : ~Reached(e)' => Times(T, e, failures)'
    BY <1>1, <1>2, <1>5, <1>8 DEF SInv, BuildSound, Times
  <2>2. ASSUME failures' = job'.since, Has(SearchTable[T])'
        PROVE  /\ \A e \in DOMAIN index'[T] : Reached(e)'
               /\ \A i \in 1..job'.id : \A g \in DOMAIN Grams(T, i)' :
                     i < job'.id \/ g \notin job'.left => Exact(T, i, g)'
    <3>1. failures = job.since /\ Has(SearchTable[T])
      BY <1>2, <1>3, <2>2 DEF Has
    <3>2. \A e \in DOMAIN index'[T] : Reached(e)'
      BY <1>1, <1>2, <1>8, <3>1 DEF SInv, BuildSound
    <3>3. ASSUME NEW i \in 1..id + 1, NEW g \in DOMAIN Grams(T, i),
                 i < id + 1 \/ g \notin DOMAIN Grams(T, id + 1)
          PROVE  Exact(T, i, g)
      <4>1. i \in 1..id
        BY <1>4, <3>3
      <4> QED BY <1>1, <1>2, <3>1, <4>1 DEF SInv, BuildSound
    <3> QED BY <1>2, <1>3, <1>5, <3>2, <3>3 DEF Exact
  <2> QED BY <1>3, <2>1, <2>2 DEF BuildSound
<1> QED BY <1>6, <1>7, <1>9 DEF SInv

(* An n-gram of the row is counted, on top of what an earlier build left of    *)
(* it.                                                                       *)
LEMMA IndexGramSInv == ASSUME SInv, LInv, IndexGram PROVE SInv'
<1>1. PICK T, id, g : T = job.table /\ id = job.id /\ g = (CHOOSE x \in job.left : TRUE)
  OBVIOUS
<1>2. /\ UNCHANGED <<rows, built, made, todo, queue>> /\ job.at = "index" /\ g \in job.left
      /\ failures' \in Nat /\ failures <= failures' /\ failures \in Nat
  BY <1>1, FailsCount DEF IndexGram
<1>3. PICK x : x = <<g, id>>
  OBVIOUS
<1>4. x[1] = g /\ x[2] = id
  BY <1>3
<1>5. /\ job'.at = "index" /\ job'.table = T /\ job'.since = job.since
      /\ job'.id = id /\ job'.last = job.last /\ job'.left = job.left \ {g}
  BY <1>1, <1>2, IndexCall DEF IndexGram
<1>6. /\ T \in Tables /\ built[T] = 0 /\ id \in Nat /\ job.last \in Nat /\ id <= job.last
      /\ 1..job.last \subseteq DOMAIN rows[T] /\ job.since \in Nat /\ job.since <= failures
      /\ id # 0 /\ job.left \subseteq DOMAIN Grams(T, id)
  BY <1>1, <1>2 DEF SInv, BuildShape
<1>7. id \in DOMAIN rows[T] /\ id \in 1..job.last
  BY <1>6
<1>8. PICK num \in Nat : num = Grams(T, id)[g]
  BY <1>2, <1>6, <1>7, GramsAre
<1>9. /\ DOMAIN index' = Tables /\ \A u \in Tables \ {T} : index'[u] = index[u]
      /\ \/ Works /\ Has(SearchTable[T]) /\ index'[T] = Counted(T, x, num)
         \/ (Fails(1) \/ (Works /\ ~Has(SearchTable[T]))) /\ index'[T] = index[T]
  <2>1. DOMAIN index = Tables
    BY DEF SInv, EntriesSound
  <2> QED BY <1>1, <1>3, <1>6, <1>8, <2>1 DEF IndexGram
<1>10. \A u, i : Grams(u, i)' = Grams(u, i)
  BY <1>2 DEF Grams
<1>11. ~Reached(x) /\ Reached(x)'
  BY <1>1, <1>2, <1>4, <1>5, <1>6 DEF Reached
<1>12. ASSUME NEW e, e = <<e[1], e[2]>>, e # x
       PROVE  Reached(e)' <=> Reached(e)
  <2>1. e[1] # g \/ e[2] # id
    BY <1>3, <1>12
  <2> QED BY <1>1, <1>5, <2>1 DEF Reached
<1>13. ASSUME NEW e \in DOMAIN index[T]
       PROVE  /\ e = <<e[1], e[2]>> /\ e[2] \in DOMAIN rows[T]
              /\ e[1] \in DOMAIN Grams(T, e[2]) /\ Times(T, e, failures + 1)
              /\ ~Reached(e) => Times(T, e, failures)
  BY <1>1, <1>2, <1>6 DEF SInv, EntriesSound, BuildSound
<1>14. /\ \A e \in DOMAIN index'[T] : e # x => e \in DOMAIN index[T] /\ index'[T][e] = index[T][e]
       /\ \A e \in DOMAIN index[T] : e \in DOMAIN index'[T]
  BY <1>9 DEF Counted
<1>15. x \in DOMAIN index'[T] => Times(T, x, failures + 1)'
  <2>1. CASE x \in DOMAIN index[T]
    <3>1. PICK k \in 1..failures : index[T][x] = k * num
      BY <1>4, <1>8, <1>11, <1>13, <2>1 DEF Times
    <3>2. CASE index'[T] = index[T]
      <4>1. Times(T, x, failures' + 1)
        BY <1>2, <1>11, <1>13, <2>1, TimesMore
      <4> QED BY <1>10, <3>2, <4>1 DEF Times
    <3>3. CASE index'[T] = Counted(T, x, num)
      <4>1. index'[T][x] = k * num + num
        BY <2>1, <3>1, <3>3 DEF Counted
      <4>2. k + 1 \in 1..failures' + 1 /\ k \in Nat
        BY <1>2
      <4>3. \A a, b \in Nat : a * b + b = (a + 1) * b
        OBVIOUS
      <4>4. index'[T][x] = (k + 1) * num
        BY <1>8, <4>1, <4>2, <4>3
      <4> QED BY <1>4, <1>8, <1>10, <4>2, <4>4 DEF Times
    <3> QED BY <1>9, <3>2, <3>3
  <2>2. CASE x \notin DOMAIN index[T] /\ index'[T] = Counted(T, x, num)
    <3>1. index'[T][x] = num
      BY <2>2 DEF Counted
    <3>2. 1 \in 1..failures' + 1 /\ num = 1 * num
      BY <1>2
    <3> QED BY <1>4, <1>8, <1>10, <3>1, <3>2 DEF Times
  <2> QED BY <1>9, <2>1, <2>2
<1>16. ASSUME NEW e \in DOMAIN index'[T]
       PROVE  /\ e = <<e[1], e[2]>> /\ e[2] \in DOMAIN rows'[T]
              /\ e[1] \in DOMAIN Grams(T, e[2])' /\ Times(T, e, failures + 1)'
              /\ ~Reached(e)' => Times(T, e, failures)'
  <2>1. CASE e = x
    BY <1>2, <1>3, <1>4, <1>6, <1>7, <1>10, <1>11, <1>15, <2>1
  <2>2. CASE e # x
    <3>1. e \in DOMAIN index[T] /\ index'[T][e] = index[T][e]
      BY <1>14, <2>2
    <3>2. Times(T, e, failures' + 1)
      BY <1>2, <1>13, <3>1, TimesMore
    <3>3. ~Reached(e)' => Times(T, e, failures')
      <4>1. Reached(e)' <=> Reached(e)
        BY <1>12, <1>13, <2>2, <3>1
      <4> QED BY <1>2, <1>13, <3>1, <4>1, TimesMore
    <3> QED BY <1>2, <1>10, <1>13, <3>1, <3>2, <3>3 DEF Times
  <2> QED BY <2>1, <2>2
<1>17. EntriesSound'
  <2>1. ASSUME NEW u \in Tables, u # T, NEW e \in DOMAIN index'[u]
        PROVE  /\ e = <<e[1], e[2]>> /\ e[2] \in DOMAIN rows'[u]
               /\ e[1] \in DOMAIN Grams(u, e[2])' /\ Times(u, e, failures + 1)'
    <3>1. index'[u] = index[u]
      BY <1>9, <2>1
    <3>2. /\ e = <<e[1], e[2]>> /\ e[2] \in DOMAIN rows[u]
          /\ e[1] \in DOMAIN Grams(u, e[2]) /\ Times(u, e, failures + 1)
      BY <2>1, <3>1 DEF SInv, EntriesSound
    <3>3. Times(u, e, failures' + 1)
      BY <1>2, <3>2, TimesMore
    <3> QED BY <1>2, <1>10, <3>1, <3>2, <3>3 DEF Times
  <2>2. \A u \in Tables : ~Has(SearchTable[u])' => DOMAIN index'[u] = {}
    BY <1>2, <1>9 DEF SInv, EntriesSound, Has
  <2> QED BY <1>9, <1>16, <2>1, <2>2 DEF EntriesSound
<1>18. BuiltSound'
  <2>1. ASSUME NEW u \in Tables
        PROVE  /\ built'[u] \in Nat /\ 1..built'[u] \subseteq DOMAIN rows'[u]
               /\ \A i \in 1..built'[u] : \A h \in DOMAIN Grams(u, i)' : Exact(u, i, h)'
    <3>1. CASE u = T
      BY <1>2, <1>6, <3>1
    <3>2. CASE u # T
      <4>1. index'[u] = index[u]
        BY <1>9, <3>2
      <4> QED BY <1>2, <1>10, <4>1 DEF SInv, BuiltSound, Exact
    <3> QED BY <3>1, <3>2
  <2> QED BY <1>2, <2>1 DEF SInv, BuiltSound
<1>19. BuildShape'
  BY <1>2, <1>5, <1>6, <1>10 DEF BuildShape
<1>20. BuildSound'
  <2>1. ASSUME failures' = job'.since, Has(SearchTable[T])'
        PROVE  /\ \A e \in DOMAIN index'[T] : Reached(e)'
               /\ \A i \in 1..job'.id : \A h \in DOMAIN Grams(T, i)' :
                     i < job'.id \/ h \notin job'.left => Exact(T, i, h)'
    <3>1. failures = job.since /\ failures' = failures /\ Has(SearchTable[T])
      BY <1>2, <1>5, <1>6, <2>1 DEF Has
    <3>2. index'[T] = Counted(T, x, num)
      BY <1>2, <1>9, <3>1, FailsCount
    <3>3. \A e \in DOMAIN index[T] : Reached(e)
      BY <1>1, <1>2, <3>1 DEF SInv, BuildSound
    <3>4. x \in DOMAIN index'[T] /\ index'[T][x] = num
      BY <1>11, <3>2, <3>3 DEF Counted
    <3>5. \A e \in DOMAIN index'[T] : Reached(e)'
      BY <1>11, <1>12, <1>13, <1>14, <3>3
    <3>6. ASSUME NEW i \in 1..id, NEW h \in DOMAIN Grams(T, i), i < id \/ h \notin job.left \ {g}
          PROVE  <<h, i>> \in DOMAIN index'[T] /\ index'[T][<<h, i>>] = Grams(T, i)[h]
      <4>1. CASE i = id /\ h = g
        BY <1>3, <1>8, <3>4, <4>1
      <4>2. CASE ~(i = id /\ h = g)
        <5>3. i < id \/ h \notin job.left
          BY <1>6, <3>6, <4>2
        <5>1. Exact(T, i, h)
          BY <1>1, <1>2, <3>1, <3>6, <5>3 DEF SInv, BuildSound
        <5>2. <<h, i>> # x
          BY <1>3, <4>2
        <5> QED BY <1>14, <5>1, <5>2 DEF Exact
      <4> QED BY <4>1, <4>2
    <3> QED BY <1>5, <1>10, <3>5, <3>6 DEF Exact
  <2> QED BY <1>5, <1>16, <2>1 DEF BuildSound
<1>21. NamesSound'
  BY <1>2, <1>5 DEF SInv, NamesSound, Statements
<1> QED BY <1>17, <1>18, <1>19, <1>20, <1>21 DEF SInv

LEMMA IndexDoneSInv == ASSUME SInv, LInv, IndexDone PROVE SInv'
<1>1. PICK T : T = job.table
  OBVIOUS
<1>2. /\ UNCHANGED <<rows, index, made, todo, queue>> /\ job.at = "index" /\ job.left = {}
      /\ job'.at = "idle"
      /\ failures' \in Nat /\ failures <= failures' /\ failures \in Nat
  BY FailsCount DEF IndexDone, db, Idle
<1>3. /\ T \in Tables /\ job.id \in Nat /\ job.last \in Nat /\ job.id <= job.last
      /\ 1..job.last \subseteq DOMAIN rows[T] /\ job.since \in Nat /\ job.since <= failures
  BY <1>1, <1>2 DEF SInv, BuildShape
<1>4. \A u, i : Grams(u, i)' = Grams(u, i)
  BY <1>2 DEF Grams
<1>5. /\ DOMAIN built' = Tables /\ \A u \in Tables \ {T} : built'[u] = built[u]
      /\ built'[T] = IF failures' = job.since /\ Has(SearchTable[T]) THEN job.last ELSE 0
  BY <1>1, <1>3 DEF IndexDone, SInv, BuiltSound
<1>6. ASSUME failures' = job.since, Has(SearchTable[T]), NEW i \in 1..job.last,
             NEW g \in DOMAIN Grams(T, i)
      PROVE  Exact(T, i, g)
  <2>1. failures = job.since /\ job.id = job.last
    BY <1>2, <1>3, <1>6, FailsCount DEF IndexDone
  <2> QED BY <1>1, <1>2, <1>6, <2>1 DEF SInv, BuildSound
<1>7. BuiltSound'
  <2>1. ASSUME NEW u \in Tables
        PROVE  /\ built'[u] \in Nat /\ 1..built'[u] \subseteq DOMAIN rows'[u]
               /\ \A i \in 1..built'[u] : \A g \in DOMAIN Grams(u, i)' : Exact(u, i, g)'
    <3>1. CASE u = T
      <4>1. CASE failures' = job.since /\ Has(SearchTable[T])
        BY <1>2, <1>3, <1>4, <1>5, <1>6, <3>1, <4>1 DEF Exact
      <4>2. CASE ~(failures' = job.since /\ Has(SearchTable[T]))
        <5>1. built'[u] = 0
          BY <1>5, <3>1, <4>2
        <5> QED BY <5>1
      <4> QED BY <4>1, <4>2
    <3>2. CASE u # T
      BY <1>2, <1>4, <1>5, <3>2 DEF SInv, BuiltSound, Exact
    <3> QED BY <3>1, <3>2
  <2> QED BY <1>5, <2>1 DEF BuiltSound
<1>8. EntriesSound'
  <2>1. ASSUME NEW u \in Tables, NEW e \in DOMAIN index[u]
        PROVE  Times(u, e, failures + 1)'
    <3>1. Times(u, e, failures + 1)
      BY DEF SInv, EntriesSound
    <3>2. Times(u, e, failures' + 1)
      BY <1>2, <3>1, TimesMore
    <3> QED BY <1>2, <1>4, <3>2 DEF Times
  <2> QED BY <1>2, <1>4, <2>1 DEF SInv, EntriesSound, Has
<1>9. NamesSound'
  BY <1>2 DEF SInv, NamesSound, Statements
<1> QED BY <1>2, <1>7, <1>8, <1>9 DEF SInv

LEMMA NextSInv == SInv /\ LInv /\ [Next]_vars => SInv'
<1> SUFFICES ASSUME SInv, LInv, [Next]_vars
             PROVE  SInv'
  OBVIOUS
<1>1. CASE UNCHANGED vars
  <2>1. UNCHANGED <<rows, index, built, job, todo, queue, made, failures>>
    BY <1>1 DEF vars, db
  <2> QED BY <2>1 DEF SInv, NamesSound, EntriesSound, BuiltSound, BuildShape, BuildSound, Times, Exact,
       Grams, Reached, Has
<1>2. CASE NextRow \/ IndexGram \/ IndexDone \/ \E t \in Searched : BuildIndex(t)
  BY <1>2, NextRowSInv, IndexGramSInv, IndexDoneSInv, BuildIndexSInv, LibraryAssumption
<1>3. CASE Stop \/ UpdateSchema \/ ScanFile \/ AddFile \/ AddFileStep
  BY <1>3, StopSInv, UpdateSchemaSInv, ScanFileSInv, AddFileSInv, AddFileStepSInv
<1> QED BY <1>1, <1>2, <1>3 DEF Next

(* A search by the name of a row sees the entries of the row. *)
LEMMA SearchedRow ==
    ASSUME SInv, NEW t \in Tables, NEW id \in DOMAIN rows[t],
           NEW name, name = SortOf(t, rows[t][id]), Len(name) >= 3,
           \A g \in DOMAIN ngrams(name) : <<g, id>> \in DOMAIN index[t]
    PROVE  id \in DOMAIN searchTable(t, name)
<1>1. Sorted(name)
  BY DEF SInv, NamesSound
<1>2. PICK g : g \in DOMAIN ngrams(name)
  BY <1>1, NgramsAre
<1>3. PICK e \in DOMAIN index[t] : e = <<g, id>>
  BY <1>2
<1>4. e[1] \in DOMAIN ngrams(sortname(name)) /\ e[2] = id
  BY <1>1, <1>2, <1>3 DEF Sorted
<1>5. ~(Len(name) < 3)
  BY <1>1 DEF Sorted, Word
<1> QED BY <1>3, <1>4, <1>5 DEF searchTable

(* A count in a search index is that of the row's name, or a multiple of it    *)
(* that grows only with failures; and after a buildIndex that did not fail it *)
(* is exact and the row's own name finds it, whichever builds were cut short  *)
(* or failed before (library.cpp:247-392).                                   *)
THEOREM NamesAreFound == Spec => []SearchFinds
<1>1. SInv /\ LInv => SearchFinds
  <2> SUFFICES ASSUME SInv, LInv, NEW t \in Tables, NEW id \in DOMAIN rows[t],
                      NEW name, name = SortOf(t, rows[t][id])
               PROVE  /\ \A e \in DOMAIN index[t] : e[2] = id =>
                            /\ e[1] \in DOMAIN ngrams(name)
                            /\ \E k \in 1..failures + 1 : index[t][e] = k * ngrams(name)[e[1]]
                      /\ id <= built[t] =>
                            /\ \A g \in DOMAIN ngrams(name) :
                                  <<g, id>> \in DOMAIN index[t] /\ index[t][<<g, id>>] = ngrams(name)[g]
                            /\ Len(name) >= 3 => id \in DOMAIN searchTable(t, name)
    BY DEF SearchFinds
  <2>1. Grams(t, id) = ngrams(name)
    BY DEF Grams
  <2>2. \A e \in DOMAIN index[t] : e[2] = id =>
            /\ e[1] \in DOMAIN ngrams(name)
            /\ \E k \in 1..failures + 1 : index[t][e] = k * ngrams(name)[e[1]]
    BY <2>1 DEF SInv, EntriesSound, Times
  <2>3. ASSUME id <= built[t]
        PROVE  /\ \A g \in DOMAIN ngrams(name) :
                     <<g, id>> \in DOMAIN index[t] /\ index[t][<<g, id>>] = ngrams(name)[g]
               /\ Len(name) >= 3 => id \in DOMAIN searchTable(t, name)
    <3>1. id \in 1..built[t]
      BY <2>3, RowsAre DEF SInv, BuiltSound
    <3>2. \A g \in DOMAIN ngrams(name) :
              <<g, id>> \in DOMAIN index[t] /\ index[t][<<g, id>>] = ngrams(name)[g]
      BY <2>1, <3>1 DEF SInv, BuiltSound, Exact
    <3> QED BY <3>2, SearchedRow
  <2> QED BY <2>2, <2>3
<1> QED BY <1>1, InitLInv, NextLInv, InitSInv, NextSInv, PTL DEF Spec

=============================================================================
