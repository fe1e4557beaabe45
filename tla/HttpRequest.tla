------------------------------ MODULE HttpRequest ------------------------------
(***************************************************************************)
(* What a request that has been read is answered with: mongoose's          *)
(* analyze_request and the handlers it chooses between, and the URLs of    *)
(* the DAAP server, Httpd::handleRequest.  Pure operators; HttpServer says *)
(* who evaluates them and when.                                            *)
(*                                                                         *)
(* A request is a record                                                   *)
(*   pieces   what its client sends, in order: "part" of the header, the   *)
(*            rest of the "head"er, a unit of the "body", or a control     *)
(*            character, "bad"                                             *)
(*   parses   parse_http_request accepts its request line                  *)
(*   version, method, path, query-less and decoded                         *)
(*   slash    the URI ends with "/"                                        *)
(*   length   Content-Length in units of the body, or None                 *)
(*   expect   the Expect header, or None                                   *)
(*   range    <<>>, <<first>> or <<first, last>> of the Range header       *)
(*   since    If-Modified-Since, or None                                   *)
(*   user     the user its Authorization header proves to be, or None      *)
(* An answer is [status, declared, sent]: the status line, the             *)
(* Content-Length it declares (None: none) and the length of the body.     *)
(***************************************************************************)
EXTENDS Integers, FiniteSets, Sequences

CONSTANTS Site,         \* path |-> the file or directory there: [dir, size, mtime,
                        \* readable, script ("cgi", "ssi" or None), index, users]
          Options,      \* the options that are set: [dir_list, protect]
          Tracks,       \* the paths /databases/1/items/<id>.<ext> of the collection
          Wrap,         \* bound: uint64_t counts modulo Wrap
          None

(* A directory is no script, and the index files are looked for in it.        *)
ASSUME HttpRequestAssumption ==
    /\ Wrap \in Nat \ {0} /\ None \notin Nat \cup {"cgi"}
    /\ \A p \in DOMAIN Site :
          /\ Site[p].size \in Nat /\ Site[p].dir \in BOOLEAN
          /\ Site[p].dir => Site[p].script = None
          /\ Site[p].index # None => Site[p].index \in DOMAIN Site

(* What is known of every request. *)
IsRequest(r) ==
    /\ r.pieces \in Seq({"part", "head", "body", "bad"})
    /\ r.length \in Nat \cup {None}
    /\ r.range \in Seq(Nat) /\ Len(r.range) <= 2

Text(status, len) == [status |-> status, declared |-> len, sent |-> len]
Bare(status) == [status |-> status, declared |-> None, sent |-> 0]

(* send_error: its text is not told apart, only that a 304 has none. *)
ErrorText == 1
Error(status) == Text(status, IF status > 199 /\ status \notin {204, 304} THEN ErrorText ELSE 0)

-----------------------------------------------------------------------------
(* The request line and the header *)

is_known_http_method(m) == m \in {"GET", "POST", "HEAD", "PUT", "DELETE"}
parse_http_request(r) == r.parses /\ is_known_http_method(r.method)

VersionKnown(r) == r.version[1] = 1 /\ r.version[2] \in {0, 1}

(* get_request_len on the pieces that have come: -1, 0 (not all yet) or the   *)
(* number of pieces up to the end of the header.                             *)
get_request_len(pieces) ==
    LET ends == {i \in DOMAIN pieces : pieces[i] \in {"head", "bad"}}
        first == CHOOSE i \in ends : \A j \in ends : i <= j
    IN  IF ends = {} THEN 0 ELSE IF pieces[first] = "bad" THEN -1 ELSE first

-----------------------------------------------------------------------------
(* Authorization *)

(* open_auth_file: the users of the file that guards a path, if one does: the *)
(* file of the protect option for this URI, else .htpasswd in the directory. *)
AuthUsers(r) ==
    IF r.path \in DOMAIN Options.protect THEN Options.protect[r.path]
    ELSE IF r.path \in DOMAIN Site THEN Site[r.path].users ELSE None

check_authorization(r) == AuthUsers(r) = None \/ r.user \in AuthUsers(r)

-----------------------------------------------------------------------------
(* The body of a request *)

Refused(r) == r.length = None \/ r.expect \notin {None, "100-continue"}

(* handle_request_body still waits for the client with got units there. *)
WantsBody(r, got) == ~Refused(r) /\ got < r.length

(* A definition Slip_D is a plausible slip in the code D models; no action    *)
(* uses it.  The README says which property each slip breaks.                *)
Slip_BodyErrors(r, got) ==
    IF r.length = None THEN <<Error(411)>>
    ELSE IF r.expect \notin {None, "100-continue"} THEN <<Error(417)>> ELSE <<>>

(* The errors it sends for what has come; it fails if and only if it sends    *)
(* one, which a script that takes no more makes it do as well (PushErrors).  *)
BodyErrors(r, got) ==
    IF r.length = None THEN <<Error(411)>>
    ELSE IF Refused(r) THEN <<Error(417)>>
    ELSE IF got < r.length THEN <<Error(577)>> ELSE <<>>

-----------------------------------------------------------------------------
(* The DAAP URLs *)

DaapUrls == {"/server-info", "/login", "/update", "/databases", "/databases/1/items",
             "/databases/1/containers"}

(* A track makes getTrack dial for it, and is answered 503 in any case; so is *)
(* /logout, whose 204 the switch does not know.                              *)
handleRequest(r) ==
    IF r.method # "GET" THEN Text(404, None)
    ELSE IF r.path \in DaapUrls THEN Text(200, 1)
    ELSE IF r.path \in Tracks \cup {"/logout"} THEN Text(503, None)
    ELSE Text(404, None)

getTrack(r) == r.method = "GET" /\ r.path \in Tracks

-----------------------------------------------------------------------------
(* Files, for a request that comes before Httpd's callback is registered *)

Smaller(a, b) == IF a < b THEN a ELSE b

RangeLength(n, r1, r2, size) == IF n = 2 THEN (r2 - r1 + 1) % Wrap ELSE (size - r1) % Wrap

(* send_file: the whole file or the range asked for, which is not compared    *)
(* with the size; what is sent ends with the file.                           *)
send_file(r, f) ==
    LET n == Len(r.range)
        from == IF n = 0 THEN 0 ELSE r.range[1]
        len == IF n = 0 THEN f.size
               ELSE RangeLength(n, from, IF n = 2 THEN r.range[2] ELSE 0, f.size)
        left == IF from > f.size THEN 0 ELSE f.size - from
    IN  IF ~f.readable THEN Error(500)
        ELSE [status |-> IF n = 0 THEN 200 ELSE 206, declared |-> len,
              sent |-> IF r.method = "HEAD" THEN 0 ELSE Smaller(len, left)]

send_directory(d) == IF d.readable THEN Bare(200) ELSE Error(500)
send_ssi(f) == IF f.readable THEN Bare(200) ELSE Error(500)

(* push() writes each part of a body to the script, which may have closed its *)
(* standard input: then no part comes through, the last one neither.         *)
PushErrors(r) == IF r.method = "POST" /\ r.length > 0 THEN {Error(577)} ELSE {}

(* send_cgi: a pipe, fork or fdopen may fail, and the program may write       *)
(* nothing that can be sent or a status of its own.                          *)
send_cgi(r, got) ==
    LET unread == IF r.method = "POST" THEN BodyErrors(r, got) ELSE <<>>
    IN  {Error(500)} \cup IF unread # <<>> THEN {unread[1]} ELSE {Bare(200)} \cup PushErrors(r)

is_not_modified(r, f) == r.since # None /\ f.mtime < r.since

(* substitute_index_file: the first of the index files that is there. *)
substitute_index_file(d) == d.index # None
Target(r) ==
    LET f == Site[r.path] IN
    IF f.dir /\ r.slash /\ substitute_index_file(f) THEN Site[f.index] ELSE f

ServeFile(r, f, got) ==
    IF f.script = "cgi"
    THEN IF r.method \in {"POST", "GET"} THEN send_cgi(r, got) ELSE {Error(501)}
    ELSE IF f.script = "ssi" THEN {send_ssi(f)}
    ELSE IF is_not_modified(r, f) THEN {Error(304)}
    ELSE {send_file(r, f)}

(* The part of analyze_request below find_callback.  auth_PUT is not set, so  *)
(* nobody may PUT or DELETE.                                                 *)
ServePath(r, got) ==
    IF r.path = ".htpasswd" THEN {Error(403)}
    ELSE IF r.method \in {"PUT", "DELETE"} THEN {Bare(401)}
    ELSE IF r.path \notin DOMAIN Site THEN {Error(404)}
    ELSE LET f == Target(r) IN
         IF ~f.dir THEN ServeFile(r, f, got)
         ELSE IF ~r.slash THEN {Bare(301)}
         ELSE IF Options.dir_list THEN {send_directory(f)} ELSE {Error(403)}

-----------------------------------------------------------------------------
(* process_new_connection with the header read: does it first have to wait    *)
(* for more of the body, cb telling whether find_callback found Httpd's?     *)

Analyzed(r) == parse_http_request(r) /\ VersionKnown(r)

Served(r, cb) == Analyzed(r) /\ check_authorization(r) /\ cb
ToScript(r) == r.method = "POST" /\ r.path \in DOMAIN Site /\ Target(r).script = "cgi"
ForScript(r, cb) == Analyzed(r) /\ check_authorization(r) /\ ~cb /\ ToScript(r)

ReadsBody(r, cb, got) ==
    /\ \/ Served(r, cb) /\ r.method \in {"POST", "PUT"}
       \/ ForScript(r, cb)
    /\ WantsBody(r, got)

Continues(r, got) == IF BodyErrors(r, got) = <<>> THEN <<handleRequest(r)>> ELSE <<>>

(* ...and the answers it then gives, in order. *)
Answers(r, cb, got) ==
    IF ~parse_http_request(r) THEN {<<Error(400)>>}
    ELSE IF ~VersionKnown(r) THEN {<<Error(505)>>}
    ELSE IF ~check_authorization(r) THEN {<<Bare(401)>>}
    ELSE IF cb
    THEN IF r.method \in {"POST", "PUT"}
         THEN {BodyErrors(r, got) \o Continues(r, got)}
         ELSE {<<handleRequest(r)>>}
    ELSE {<<a>> : a \in ServePath(r, got)}

-----------------------------------------------------------------------------
(* The range asked for lies in the file, or none is. *)
RangeInside(r) ==
    \/ r.range = <<>>
    \/ /\ r.path \in DOMAIN Site /\ r.range[1] < Target(r).size
       /\ Len(r.range) = 2 => r.range[2] \in r.range[1]..Target(r).size - 1

=============================================================================
