------------------------------- MODULE Library -------------------------------
(***************************************************************************)
(* The music library (src/src/library): the SQLite catalogue, filled by    *)
(* the MusicScanner thread through queued fileScanned() signals, listed to *)
(* the peers by allTracks() and searched through a trigram index.  Every   *)
(* statement commits by itself and any of them may fail: the process may   *)
(* stop between any two, and only the database survives a restart.         *)
(***************************************************************************)
EXTENDS Integers, SequencesExt

CONSTANTS Tree,         \* directory |-> [files |-> names in order, dirs |-> subdirectories]
          Root,         \* the directory the scanner is given
          Versions,     \* file |-> what TagLib may read from it: sets of
                        \* [artist, album, track |-> sequences of characters]
          Lower,        \* character |-> its lower case
          Searched,     \* the tables buildIndex is called for
          MaxStops,     \* bound: how often the process stops
          MaxFailures   \* bound: how many statements fail

Tables == {"artist", "track", "album"}

ASSUME LibraryAssumption ==
    /\ Root \in DOMAIN Tree /\ Searched \subseteq Tables
    /\ MaxStops \in Nat /\ MaxFailures \in Nat

VARIABLES made,         \* the schema statements that have taken effect
          lost,         \* those that ever failed
          boot,         \* updateSchema's next statement; 0: not running
          rows,         \* rows[t][id]: the columns the unique index of table t is over
          file,         \* id |-> url, of the rows of table file
          lastFile,     \* its AUTOINCREMENT counter
          join,         \* the rows of file_join
          index,        \* index[t]: <<ngram, id>> |-> num
          job,          \* the addFile or buildIndex call in progress
          todo,         \* the files MusicScanner has yet to look at
          queue,        \* fileScanned() events posted to the main thread
          result,       \* url |-> the last addFile call for it in this process
          built,        \* t |-> the rows of t the last buildIndex of this process went
                        \*       over, if no statement of it failed
          stops, failures

db == <<made, rows, file, lastFile, join, index>>
vars == <<db, lost, boot, job, todo, queue, result, built, stops, failures>>

-----------------------------------------------------------------------------
(* Names and n-grams *)

(* The k-th smallest of the numbers in S. *)
Nth(S, k) == CHOOSE i \in S : Cardinality({j \in S : j <= i}) = k

lowered(str) == [i \in DOMAIN str |-> Lower[str[i]]]

(* What trimmed() and a single space for each run of spaces leave of str: its *)
(* ink, and the space after ink that more ink follows.                       *)
Ink(str, i) == i \in DOMAIN str /\ str[i] # " "
Kept(str) == {i \in DOMAIN str : \/ Ink(str, i)
                                 \/ Ink(str, i - 1) /\ \E j \in DOMAIN str : j > i /\ Ink(str, j)}

sortname(name) ==
    LET low == lowered(name)
        kept == Kept(low)
    IN  [k \in 1..Cardinality(kept) |-> low[Nth(kept, k)]]

(* str.mid(j, 3), which is shorter at the end. *)
mid(str, j) == SubSeq(str, j, IF j + 2 > Len(str) THEN Len(str) ELSE j + 2)

(* The trigrams of " name ", as a bag. *)
ngrams(name) ==
    LET str == <<" ">> \o sortname(name) \o <<" ">>
        at == [j \in DOMAIN str |-> mid(str, j)]
    IN  [g \in Range(at) |-> Cardinality({j \in DOMAIN at : at[j] = g})]

-----------------------------------------------------------------------------
(* What the queries return *)

SortOf(t, key) == IF t = "artist" THEN key ELSE key[2]

(* allTracks: the inner join of the five tables. *)
allTracks ==
    {j \in join : /\ j.file \in DOMAIN file
                  /\ j.artist \in DOMAIN rows["artist"]
                  /\ j.album \in DOMAIN rows["album"]
                  /\ j.track \in DOMAIN rows["track"]}

getTrackFids(tid) == {j.file : j \in {k \in join : k.track = tid /\ k.file \in DOMAIN file}}

(* searchTable: id |-> score; LIMIT 10 is beyond the instances. *)
searchTable(t, name) ==
    IF Len(name) < 3 THEN <<>>
    ELSE LET grams == DOMAIN ngrams(sortname(name))
             hits == {e \in DOMAIN index[t] : e[1] \in grams}
         IN  [id \in {e[2] : e \in hits} |->
                 MapThenSumSet(LAMBDA e : IF e[2] = id THEN index[t][e] ELSE 0, hits)]

-----------------------------------------------------------------------------
(* A definition Slip_D is a plausible slip in the code D models; no action    *)
(* uses it.  The README says which property each slip breaks.                *)

(* What the statements of schema.sql make, in their order: a table, an index  *)
(* over one, or the row of settings that records the version.                *)
Slip_Schema ==
    <<"settings", "version",
      "artist", "artist_sortname", "track", "track_artist_sortname",
      "album", "album_artist_sortname",
      "artist_search_index", "artist_search_index_ngram_artist",
      "album_search_index", "album_search_index_ngram_album",
      "track_search_index", "track_search_index_ngram_track",
      "file", "file_url_uniq", "file_join", "file_join_track">>
Schema ==
    <<"artist", "artist_sortname", "track", "track_artist_sortname",
      "album", "album_artist_sortname",
      "artist_search_index", "artist_search_index_ngram_artist",
      "album_search_index", "album_search_index_ngram_album",
      "track_search_index", "track_search_index_ngram_track",
      "file", "file_url_uniq", "file_join", "file_join_track",
      "settings", "version">>

(* The table a statement that makes none is about. *)
Over == [artist_sortname |-> "artist", track_artist_sortname |-> "track",
         album_artist_sortname |-> "album",
         artist_search_index_ngram_artist |-> "artist_search_index",
         album_search_index_ngram_album |-> "album_search_index",
         track_search_index_ngram_track |-> "track_search_index",
         file_url_uniq |-> "file", file_join_track |-> "file_join", version |-> "settings"]

(* The unique index over a table; those of the search tables never meet a     *)
(* second row, since a row is inserted there only if none is to be updated.  *)
Unique == [artist |-> "artist_sortname", track |-> "track_artist_sortname",
           album |-> "album_artist_sortname", file |-> "file_url_uniq"]

SearchTable == [artist |-> "artist_search_index", track |-> "track_search_index",
                album |-> "album_search_index"]

Has(s) == s \in made

(* Table t has two rows that its unique index does not allow. *)
Content(t) == IF t = "file" THEN file ELSE rows[t]
Duplicated(t) == \E i, k \in DOMAIN Content(t) : i # k /\ Content(t)[i] = Content(t)[k]

(* An index needs its table, and a unique one that there are no duplicates;   *)
(* the row of settings needs that table.                                     *)
TakesEffect(s) ==
    /\ s \in DOMAIN Over => Has(Over[s])
    /\ \A t \in DOMAIN Unique : Unique[t] = s => ~Duplicated(t)

Idle == [at |-> "idle"]

(* The order scanDir visits the files in: those of a directory, then its      *)
(* subdirectories.                                                           *)
Walk[d \in DOMAIN Tree] ==
    Tree[d].files \o FlattenSeq([i \in DOMAIN Tree[d].dirs |-> Walk[Tree[d].dirs[i]]])

(* What the directories hold and TagLib reads is written in characters that   *)
(* have a lower case, and a lower case is its own.                           *)
ASSUME MusicAssumption ==
    /\ Walk[Root] \in Seq(DOMAIN Versions)
    /\ \A f \in DOMAIN Versions : \A m \in Versions[f] :
          {m.artist, m.album, m.track} \subseteq Seq(DOMAIN Lower)
    /\ \A c \in DOMAIN Lower : Lower[c] \in DOMAIN Lower /\ Lower[Lower[c]] = Lower[c]

(* The files scanFile hands on have these. *)
Tagged(m) == Len(m.artist) > 0 /\ Len(m.track) > 0

(* What the scanner of a process has to look at, if one is started.  No code  *)
(* under src/ starts it: setupLibrary does if the database file is not there, *)
(* which it asks when the Library has just made it.  What addFile does is     *)
(* stated for whoever starts one, also over a database that is not new.      *)
Scans == {<<>>, Walk[Root]}

Init ==
    /\ made = {} /\ lost = {} /\ boot = 1
    /\ rows = [t \in Tables |-> <<>>]
    /\ file = <<>> /\ lastFile = 0
    /\ join = {}
    /\ index = [t \in Tables |-> <<>>]
    /\ job = Idle
    /\ todo \in Scans /\ queue = <<>>
    /\ result = <<>> /\ built = [t \in Tables |-> 0]
    /\ stops = 0 /\ failures = 0

(* n statements fail: the disk is full, the file locked. *)
Fails(n) == failures + n <= MaxFailures /\ failures' = failures + n
Works == Fails(0)

(* The process stops, and starts again: the Library makes its tables unless   *)
(* the SELECT for the version finds the current one.                         *)
Stop ==
    /\ stops < MaxStops /\ stops' = stops + 1
    /\ \/ Works /\ boot' = IF Has("version") THEN 0 ELSE 1
       \/ Fails(1) /\ boot' = 1
    /\ job' = Idle
    /\ todo' \in Scans /\ queue' = <<>>
    /\ result' = <<>> /\ built' = [t \in Tables |-> 0]
    /\ UNCHANGED <<db, lost>>

(* updateSchema: a failed statement is passed over. *)
UpdateSchema ==
    /\ boot # 0
    /\ boot' = IF boot = Len(Schema) THEN 0 ELSE boot + 1
    /\ \/ /\ Works /\ UNCHANGED lost
          /\ made' = IF TakesEffect(Schema[boot]) THEN made \cup {Schema[boot]} ELSE made
       \/ Fails(1) /\ lost' = lost \cup {Schema[boot]} /\ UNCHANGED made
    /\ UNCHANGED <<rows, file, lastFile, join, index, job, todo, queue, result, built, stops>>

-----------------------------------------------------------------------------
(* The scanner thread *)

ScanFile ==
    /\ todo # <<>> /\ todo' = Tail(todo)
    /\ \E m \in Versions[Head(todo)] \cup {<<>>} :
          /\ m = <<>> <=> Versions[Head(todo)] = {}     \* no tags, or the wrong extension
          /\ queue' = IF m = <<>> \/ ~Tagged(m) THEN queue
                      ELSE Append(queue, [url |-> Head(todo), m |-> m])
    /\ UNCHANGED <<db, lost, boot, job, result, built, stops, failures>>

-----------------------------------------------------------------------------
(* Library::addFile, a statement at a time *)

FileOf(url) == {id \in DOMAIN file : file[id] = url}

(* The main thread takes the next event once the Library is made.  The call   *)
(* remembers how many statements had failed before it.                       *)
AddFile ==
    /\ boot = 0 /\ job = Idle /\ queue # <<>>
    /\ job' = [at |-> "select", url |-> Head(queue).url, m |-> Head(queue).m,
               since |-> failures, fid |-> 0, artist |-> 0, track |-> 0, album |-> 0]
    /\ queue' = Tail(queue)
    /\ UNCHANGED <<db, lost, boot, todo, result, built, stops, failures>>

Return(fid) ==
    /\ job' = Idle
    /\ result' = [u \in DOMAIN result \cup {job.url} |->
                    IF u = job.url THEN [m |-> job.m, ret |-> fid, album |-> job.album,
                                         failed |-> failures' - job.since]
                    ELSE result[u]]

Goes(at, fid) == job' = [job EXCEPT !.at = at, !.fid = fid] /\ UNCHANGED result

(* removeFile: the id of a row of the url; if none is found, or the SELECT     *)
(* fails, nothing is removed.                                                *)
SelectFile ==
    /\ job.at = "select"
    /\ \/ \E id \in FileOf(job.url) : Works /\ Goes("unjoin", id)
       \/ /\ Fails(1) \/ (Works /\ FileOf(job.url) = {})
          /\ Goes("insert", 0)
    /\ UNCHANGED db

(* Then the two DELETEs, whose failure nobody looks at. *)
Unjoined(fid) == {j \in join : j.file # fid}
Unjoin ==
    /\ job.at = "unjoin" /\ Goes("remove", job.fid)
    /\ \/ Works /\ join' = Unjoined(job.fid)
       \/ Fails(1) /\ UNCHANGED join
    /\ UNCHANGED <<made, rows, file, lastFile, index>>

Slip_Unfiled(fid) == file
Unfiled(fid) == [id \in DOMAIN file \ {fid} |-> file[id]]
DeleteFile ==
    /\ job.at = "remove" /\ Goes("insert", job.fid)
    /\ \/ Works /\ file' = Unfiled(job.fid)
       \/ Fails(1) /\ UNCHANGED file
    /\ UNCHANGED <<made, rows, lastFile, join, index>>

Slip_NewFileId == IF DOMAIN file = {} THEN 1 ELSE Max(DOMAIN file) + 1
(* AUTOINCREMENT: an id is not given out again when its row is gone. *)
NewFileId == lastFile + 1

(* INSERT INTO file; file_url_uniq, if it was made, refuses a url that is      *)
(* still there.                                                              *)
FileTaken == Has("file") /\ (Has("file_url_uniq") => FileOf(job.url) = {})
InsertFile ==
    /\ job.at = "insert"
    /\ \/ /\ Works /\ FileTaken
          /\ lastFile' = NewFileId
          /\ file' = [id \in DOMAIN file \cup {lastFile'} |->
                        IF id = lastFile' THEN job.url ELSE file[id]]
          /\ Goes("artist", lastFile')
       \/ /\ Fails(1) \/ (Works /\ ~FileTaken)
          /\ Return(0) /\ UNCHANGED <<file, lastFile>>
    /\ UNCHANGED <<made, rows, join, index>>

Slip_Key(t) == IF t = "artist" THEN sortname(job.m.artist) ELSE <<1, sortname(job.m[t])>>
(* artistId, trackId and albumId: the row with this key, else a new one.     *)
Key(t) == IF t = "artist" THEN sortname(job.m.artist)
          ELSE <<job.artist, sortname(job.m[t])>>

Found(t, key) == {id \in DOMAIN rows[t] : rows[t][id] = key}

(* INSERT INTO table t; its unique index, if it was made, refuses a key that    *)
(* is there.                                                                 *)
RowTaken(t) == Has(t) /\ (Has(Unique[t]) => Found(t, Key(t)) = {})

(* What they may return: an id the SELECT finds; the id of a new row, if it    *)
(* finds none or fails; or 0, if the INSERT fails too or is refused.         *)
IdOf(t, id) ==
    \/ Works /\ id \in Found(t, Key(t)) /\ UNCHANGED rows
    \/ \E n \in 0..1 :
          /\ n = 0 => Found(t, Key(t)) = {}
          /\ \/ /\ Fails(n) /\ RowTaken(t)
                /\ rows' = [rows EXCEPT ![t] = Append(@, Key(t))] /\ id = Len(rows'[t])
             \/ /\ Fails(n + 1) \/ (Fails(n) /\ ~RowTaken(t))
                /\ id = 0 /\ UNCHANGED rows

Next3 == [artist |-> "track", track |-> "album", album |-> "join"]

Named(t) ==
    /\ job.at = t
    /\ \E id \in 0..Len(rows[t]) + 1 :
          /\ IdOf(t, id)
          /\ IF id = 0 /\ t # "album" THEN Return(0)     \* albumId's 0 is not looked at
             ELSE job' = [job EXCEPT !.at = Next3[t], ![t] = id] /\ UNCHANGED result
    /\ UNCHANGED <<made, file, lastFile, join, index>>

JoinRow == [file |-> job.fid, artist |-> job.artist, album |-> job.album, track |-> job.track]

InsertJoin ==
    /\ job.at = "join"
    /\ \/ Works /\ Has("file_join") /\ join' = join \cup {JoinRow} /\ Return(job.fid)
       \/ (Fails(1) \/ (Works /\ ~Has("file_join"))) /\ Return(0) /\ UNCHANGED join
    /\ UNCHANGED <<made, rows, file, lastFile, index>>

AddFileStep ==
    /\ \/ SelectFile \/ Unjoin \/ DeleteFile \/ InsertFile \/ InsertJoin
       \/ \E t \in Tables : Named(t)
    /\ UNCHANGED <<lost, boot, todo, queue, built, stops>>

-----------------------------------------------------------------------------
(* Library::buildIndex, which no code under src/ calls *)

Slip_Emptied(t) == index[t]
Emptied(t) == <<>>

(* The DELETE, whose result nobody reads, and the SELECT of the rows. *)
BuildIndex(t) ==
    /\ boot = 0 /\ job = Idle
    /\ \/ Works /\ Has(SearchTable[t]) /\ index' = [index EXCEPT ![t] = Emptied(t)]
       \/ (Fails(1) \/ (Works /\ ~Has(SearchTable[t]))) /\ UNCHANGED index
    /\ built' = [built EXCEPT ![t] = 0]
    /\ job' = [at |-> "index", table |-> t, since |-> failures,
               id |-> 0, last |-> Len(rows[t]), left |-> {}]
    /\ UNCHANGED <<made, rows, file, lastFile, join, lost, boot, todo, queue, result, stops>>

(* The n-grams of a row's name. *)
Grams(t, id) == ngrams(SortOf(t, rows[t][id]))

NextRow ==
    /\ job.at = "index" /\ job.left = {} /\ job.id < job.last
    /\ job' = [job EXCEPT !.id = @ + 1, !.left = DOMAIN Grams(job.table, job.id + 1)]
    /\ UNCHANGED <<db, lost, boot, todo, queue, result, built, stops, failures>>

(* UPDATE num=num+?, and INSERT if no row was changed. *)
Counted(t, e, num) ==
    [x \in DOMAIN index[t] \cup {e} |->
        IF x # e THEN index[t][x] ELSE IF e \in DOMAIN index[t] THEN index[t][e] + num ELSE num]

(* The next n-gram of the row, in the order of a QMap.  If the UPDATE fails,    *)
(* numRowsAffected() is -1 and there is no INSERT.                           *)
IndexGram ==
    /\ job.at = "index" /\ job.left # {}
    /\ LET t == job.table
           g == CHOOSE x \in job.left : TRUE
       IN  /\ \/ /\ Works /\ Has(SearchTable[t])
                 /\ index' = [index EXCEPT ![t] = Counted(t, <<g, job.id>>, Grams(t, job.id)[g])]
              \/ (Fails(1) \/ (Works /\ ~Has(SearchTable[t]))) /\ UNCHANGED index
           /\ job' = [job EXCEPT !.left = @ \ {g}]
    /\ UNCHANGED <<made, rows, file, lastFile, join, lost, boot, todo, queue, result, built, stops>>

(* There are no more rows, or the SELECT fails, at once or on its way. *)
IndexDone ==
    /\ job.at = "index" /\ job.left = {}
    /\ \/ Works /\ job.id = job.last
       \/ Fails(1) /\ job.id < job.last
    /\ built' = [built EXCEPT ![job.table] =
                    IF failures' = job.since /\ Has(SearchTable[job.table]) THEN job.last ELSE 0]
    /\ job' = Idle
    /\ UNCHANGED <<db, lost, boot, todo, queue, result, stops>>

-----------------------------------------------------------------------------
Next == \/ Stop \/ UpdateSchema \/ ScanFile \/ AddFile \/ AddFileStep
        \/ NextRow \/ IndexGram \/ IndexDone
        \/ \E t \in Searched : BuildIndex(t)

Spec == Init /\ [][Next]_vars

-----------------------------------------------------------------------------
(* Properties *)

(* A database that records its schema version lacks nothing but what failed,   *)
(* which updateSchema passes over for good, and what is over a table that     *)
(* failed, however often the process stopped in the middle of making them.   *)
VersionLast ==
    Has("version") => \A s \in Range(Schema) \ made :
                         s \in lost \/ (s \in DOMAIN Over /\ Over[s] \in lost)

(* Whatever stopped or failed on the way, a file_join row names a track and,  *)
(* unless it is 0, an album of the artist it names.                          *)
JoinConsistent ==
    \A j \in join :
        /\ j.artist \in DOMAIN rows["artist"] /\ j.track \in DOMAIN rows["track"]
        /\ rows["track"][j.track][1] = j.artist
        /\ j.album # 0 => j.album \in DOMAIN rows["album"] /\ rows["album"][j.album][1] = j.artist

(* The database is sound wherever the process stopped and whatever failed:    *)
(* the version recorded in it is of the schema it has, and a file_join row    *)
(* names rows that belong together.                                          *)
DatabaseSound == VersionLast /\ JoinConsistent

(* What the peers are told of a url. *)
Listed(url) == {j \in allTracks : file[j.file] = url}

(* ...for the file with the id, and the tags, of the call r for it. *)
ListedBy(url, r) ==
    \E j \in Listed(url) :
        /\ j.file = r.ret /\ j.file \in getTrackFids(j.track)
        /\ \A k \in Listed(url) : k.file = j.file => k = j
        /\ rows["artist"][j.artist] = sortname(r.m.artist)
        /\ rows["track"][j.track][2] = sortname(r.m.track)
        /\ rows["album"][j.album][2] = sortname(r.m.album)

Busy(u) == job.at \notin {"idle", "index"} /\ job.url = u

(* A file whose last addFile call returned its id is listed under that id,     *)
(* once and with the tags of that call, if its album row was made, whatever   *)
(* rows failed statements or a stopped process left behind; and under no      *)
(* other id, provided that file_url_uniq could be made.  (Without an album    *)
(* row addFile reports success and allTracks drops the file.)                *)
ListedAsAdded ==
    \A u \in DOMAIN result :
        LET r == result[u]
        IN  r.ret # 0 /\ ~Busy(u) =>
                /\ IF r.album = 0 THEN \A j \in Listed(u) : j.file # r.ret ELSE ListedBy(u, r)
                /\ Has("file_url_uniq") => \A j \in Listed(u) : j.file = r.ret

(* The tables addFile writes to. *)
Catalogue == {"file", "artist", "track", "album", "file_join"}

(* A call of addFile none of whose statements fails succeeds, and the file is  *)
(* then listed, although an earlier call for it may have been cut short by a   *)
(* stop or have failed half way.                                             *)
AddRepairs ==
    \A u \in DOMAIN result :
        result[u].failed = 0 /\ ~Busy(u) /\ Catalogue \subseteq made => result[u].ret # 0 /\ ListedBy(u, result[u])

(* An entry of a search index is of an n-gram of the row's name, with its      *)
(* count, or a multiple of it that grows only with failures.  After a         *)
(* buildIndex of which no statement failed the entries are those of the name,  *)
(* and the row is found by it, also when earlier builds were cut short or     *)
(* failed.                                                                   *)
SearchFinds ==
    \A t \in Tables : \A id \in DOMAIN rows[t] :
        LET name == SortOf(t, rows[t][id])
            grams == ngrams(name)
        IN  /\ \A e \in DOMAIN index[t] : e[2] = id =>
                  /\ e[1] \in DOMAIN grams
                  /\ \E k \in 1..failures + 1 : index[t][e] = k * grams[e[1]]
            /\ id <= built[t] =>
                  /\ \A g \in DOMAIN grams : <<g, id>> \in DOMAIN index[t] /\ index[t][<<g, id>>] = grams[g]
                  /\ Len(name) >= 3 => id \in DOMAIN searchTable(t, name)

=============================================================================
