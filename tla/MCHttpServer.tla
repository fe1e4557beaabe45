----------------------------- MODULE MCHttpServer -----------------------------
(* Either three clients come at once - for a file in the server's working     *)
(* directory, to POST a body, for a track - or one, with any of the requests *)
(* mongoose tells apart.                                                     *)
EXTENDS HttpServer

CONSTANTS c1, c2, c3

File(size) == [dir |-> FALSE, size |-> size, mtime |-> 1, readable |-> TRUE,
               script |-> None, index |-> None, users |-> None]
Dir(index) == [File(0) EXCEPT !.dir = TRUE, !.index = index]
MCSite == ("/a" :> File(3)) @@ ("/shut" :> [File(3) EXCEPT !.readable = FALSE])
       @@ ("/cgi" :> [File(1) EXCEPT !.script = "cgi"]) @@ ("/ssi" :> [File(1) EXCEPT !.script = "ssi"])
       @@ ("/" :> Dir(None)) @@ ("/d" :> Dir("/a")) @@ ("/ours" :> [File(1) EXCEPT !.users = {"us"}])
MCOptions == [dir_list |-> TRUE, protect |-> <<>>]

None1 == [pieces |-> <<>>, parses |-> TRUE, version |-> <<1, 1>>, method |-> "GET",
          path |-> "/", slash |-> FALSE, length |-> None, expect |-> None, range |-> <<>>,
          since |-> None, user |-> None]
Get(path) == [None1 EXCEPT !.pieces = <<"head">>, !.path = path]
Post(n, path) == [Get(path) EXCEPT !.method = "POST", !.length = n, !.pieces = <<"head", "body">>]

Paths == DOMAIN MCSite \cup {"/track", "/login", "/logout", "/none", ".htpasswd"}
Kinds ==
    {Get(p) : p \in Paths} \cup {[Get(p) EXCEPT !.slash = TRUE] : p \in {"/", "/d"}}
    \cup {[Get("/a") EXCEPT !.range = r] : r \in {<<0, 1>>, <<1, 1>>, <<1>>, <<2, 1>>, <<5>>}}
    \cup {[Get("/a") EXCEPT !.since = t] : t \in {1, 2}}
    \cup {[Get("/ours") EXCEPT !.user = "us"], [Get("/a") EXCEPT !.parses = FALSE],
           [Get("/a") EXCEPT !.version = <<1, 2>>], [Get("/cgi") EXCEPT !.method = "HEAD"]}
    \cup {[Get("/a") EXCEPT !.method = m] : m \in {"PUT", "DELETE", "HEAD", "TRACE"}}
    \cup {Post(n, p) : n \in {None, 0, 1, 2}, p \in {"/a", "/cgi", "/login"}}
    \cup {[Post(1, "/login") EXCEPT !.expect = e] : e \in {"100-continue", "else"}}
    \cup {[Get("/a") EXCEPT !.pieces = p] :
             p \in {<<"bad">>, <<"part", "bad">>, <<"part", "part", "part", "head">>}}

MCScripts ==
    {(c1 :> [Get("/a") EXCEPT !.range = <<0, 1>>])
     @@ (c2 :> Post(1, "/cgi"))
     @@ (c3 :> Get("/track"))}
    \cup {(c1 :> r) @@ (c2 :> None1) @@ (c3 :> None1) : r \in Kinds}

=============================================================================
