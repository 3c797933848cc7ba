---------------------------- MODULE MCHttpServer ----------------------------
(* Instances of HttpServer for TLC.                                         *)
EXTENDS HttpServer, TLC

CONSTANTS c1, c2, c3

ThreeConns == {c1, c2, c3}

Api(rest) == <<"/", "api">> \o rest
Get(path) == [NoRequest EXCEPT !.line = TRUE, !.path = path]
Post(path) == [Get(path) EXCEPT !.post = TRUE]
Add(form, length) ==
  [Post(Api(<<"torrents", "/", "upload">>)) EXCEPT !.form = form, !.length = length]
Act(verb, index) ==
  [Post(Api(<<"torrents", "/">>)) EXCEPT !.verb = verb, !.index = index]

(* A client that adds and starts, one that removes, and one that sends no    *)
(* request.                                                                 *)
Mixed ==
  (c1 :> {Add("single", 2), Act("start", 0)})
    @@ (c2 :> {Act("remove", 0)})
    @@ (c3 :> {NoRequest})
=============================================================================
