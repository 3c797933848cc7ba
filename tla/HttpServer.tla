----------------------------- MODULE HttpServer -----------------------------
(***************************************************************************)
(* The panel: http_server.c, with the handlers of main.c and the table they  *)
(* change (TorrentTable), inside the loop of main().  Everything here runs    *)
(* in the main thread; the clients act in between.                           *)
(*                                                                          *)
(* What a client sends is counted in parts: without a body, all headers are  *)
(* one part; else the request line is one, the rest of the headers with the  *)
(* blank line is one, and then come those of the body.  The first           *)
(* recv of a request takes what has arrived, FirstRead parts at most, and    *)
(* only the missing rest of a body is waited for.                            *)
(*                                                                          *)
(* Abstractions.  A connection is served once, and a client that connects    *)
(* again may be any other one.  The engine's tick is reduced to what it      *)
(* makes of an entry.  Sending an answer never blocks.                       *)
(***************************************************************************)
EXTENDS TorrentTable, FiniteSetsExt

CONSTANTS
  Conn,        \* connections that clients may have at a time
  Requests,    \* what each of them may ask
  MaxClients,  \* MAX_CLIENTS, 8 in the code
  MaxBody,     \* HTTP_MAX_BODY, in parts
  FirstRead,   \* what fits into the buffer of the first recv, in parts
  None

ASSUME HttpAssumption == None \notin Conn

VARIABLES
  conn,   \* each connection, as its client and the kernel see it
  table,  \* client_socks[0 .. num_clients-1]; None is -1
  main    \* the main thread, inside http_server_poll or not

vars == <<mgr, conn, table, main>>

-----------------------------------------------------------------------------
(* http_server_register: the first prefix that fits gets the request.        *)
Registered == <<
  [prefix |-> <<"/", "api", "torrents", "/", "add">>, handler |-> "add"],
  [prefix |-> <<"/", "api", "torrents", "/", "upload">>, handler |-> "add"],
  [prefix |-> <<"/", "api", "torrents", "/", "local">>, handler |-> "add"],
  [prefix |-> <<"/", "api", "torrents", "/">>, handler |-> "action"],
  [prefix |-> <<"/", "api", "torrents">>, handler |-> "torrents"],
  [prefix |-> <<"/", "api", "status">>, handler |-> "read"],
  [prefix |-> <<"/">>, handler |-> "read"] >>

HandlerOf(path) ==
  LET fit == {h \in DOMAIN Registered : IsPrefix(Registered[h].prefix, path)}
  IN  IF fit = {} THEN None ELSE Registered[Min(fit)].handler

(* NoRequest: a client that connects and sends nothing.                     *)
(* line: the request line is one.  length: Content-Length in parts, 0 for    *)
(* none.  form: what the body asks to add.  index and verb: from the path.   *)
(* meant: the torrent a page means by that index (see WebPage).              *)
NoRequest == [path |-> <<>>, line |-> FALSE, post |-> FALSE, length |-> 0,
              form |-> "bad", index |-> -1, verb |-> "", meant |-> None]

Idle == [state |-> "idle", request |-> NoRequest, arrived |-> 0,
         ended |-> FALSE]
NoBody == -1
Loop == [at |-> "loop", ready |-> {}, body |-> NoBody]

Init ==
  /\ mgr = Empty
  /\ conn = [c \in Conn |-> Idle]
  /\ table = <<>>
  /\ main = Loop

Open(c) == conn[c].state = "open"
Parts(r) == CASE r = NoRequest -> 0
              [] r # NoRequest /\ r.length = 0 -> 1
              [] OTHER -> 2 + r.length
Wanted(r) == IF r.length < MaxBody THEN r.length ELSE MaxBody

-----------------------------------------------------------------------------
(* Clients.                                                                 *)

Connect(c, r) ==
  /\ conn[c].state = "idle"
  /\ conn' = [conn EXCEPT ![c] = [Idle EXCEPT !.state = "backlog", !.request = r]]
  /\ UNCHANGED <<mgr, table, main>>

(* A client may also stop before it has sent what it announced.             *)
Send(c) ==
  /\ conn[c].state \in {"backlog", "open"} /\ ~conn[c].ended
  /\ conn[c].arrived < Parts(conn[c].request)
  /\ conn' = [conn EXCEPT ![c].arrived = @ + 1]
  /\ UNCHANGED <<mgr, table, main>>

Leave(c) ==
  /\ conn[c].state \in {"backlog", "open"} /\ ~conn[c].ended
  /\ conn' = [conn EXCEPT ![c].ended = TRUE]
  /\ UNCHANGED <<mgr, table, main>>

-----------------------------------------------------------------------------
(* http_server_poll.                                                        *)

Readable == {c \in Conn : Open(c) /\ (conn[c].arrived > 0 \/ conn[c].ended)}

(* select, and at most one accept; a client above the limit is closed.       *)
SelectOnly ==
  /\ main.at = "loop"
  /\ \A c \in Conn : conn[c].state # "backlog"
  /\ main' = [main EXCEPT !.at = "serve", !.ready = Readable]
  /\ UNCHANGED <<mgr, conn, table>>

HasSlot == Len(table) < MaxClients

Accept(c) ==
  /\ main.at = "loop" /\ conn[c].state = "backlog"
  /\ main' = [main EXCEPT !.at = "serve", !.ready = Readable]
  /\ conn' = [conn EXCEPT ![c] = IF HasSlot THEN [@ EXCEPT !.state = "open"]
                                          ELSE Idle]
  /\ table' = IF HasSlot THEN Append(table, c) ELSE table
  /\ UNCHANGED <<mgr>>

(* The connections found readable, in the order of the table.               *)
Waiting == {i \in DOMAIN table : table[i] \in main.ready}
Current == table[Min(Waiting)]
Served == [table EXCEPT ![Min(Waiting)] = None]

(* The client is gone, or what it sent has no request line.                 *)
DropConnection ==
  /\ main.at = "serve" /\ Waiting # {}
  /\ conn[Current].arrived = 0 \/ ~conn[Current].request.line
  /\ conn' = [conn EXCEPT ![Current] = Idle]
  /\ table' = Served
  /\ UNCHANGED <<mgr, main>>

(* A body that is cut short may still be taken for a form, or not.           *)
Forms(r, body) == CASE body = Wanted(r) -> {r.form}
                    [] body \in 1 .. Wanted(r) - 1 -> {r.form, "bad"}
                    [] OTHER -> {"bad"}

(* What the handlers of lists, pages and status answer changes nothing, and  *)
(* neither does a 404.                                                      *)
Effects(r, body) ==
  CASE HandlerOf(r.path) = "add" ->
         {HandleAdd(mgr, r.post /\ body # NoBody, try.form, try.fault) :
            try \in [form : Forms(r, body), fault : Fault]}
    [] HandlerOf(r.path) = "action" ->
         {HandleAction(mgr, r.post, r.index, r.verb, fault) : fault \in Fault}
    [] OTHER -> {mgr}

(* The request has been read: its handler, the answer, the end of the        *)
(* connection.                                                              *)
Handle(body) ==
  /\ mgr' \in Effects(conn[Current].request, body)
  /\ main' = [main EXCEPT !.at = "serve", !.body = NoBody]
  /\ conn' = [conn EXCEPT ![Current] = Idle]
  /\ table' = Served

(* What the first recv of parse_http_request found: without the blank line   *)
(* or a Content-Length, and without memory, there is no body.                *)
FirstBody(c) ==
  LET n == IF conn[c].arrived < FirstRead THEN conn[c].arrived ELSE FirstRead
      want == Wanted(conn[c].request)
  IN  IF n < 2 \/ want = 0 THEN NoBody
      ELSE IF n - 2 < want THEN n - 2 ELSE want

HasRequest ==
  /\ main.at = "serve" /\ Waiting # {}
  /\ conn[Current].arrived > 0 /\ conn[Current].request.line

(* Without memory for the body, or for its rest, the handler gets none, or   *)
(* what the first recv brought.                                             *)
ServeAtOnce ==
  /\ HasRequest
  /\ \E body \in {NoBody, FirstBody(Current)} : Handle(body)

AwaitBody ==
  /\ HasRequest
  /\ FirstBody(Current) \in 0 .. Wanted(conn[Current].request) - 1
  /\ main' = [main EXCEPT !.at = "body", !.body = FirstBody(Current)]
  /\ UNCHANGED <<mgr, conn, table>>

(* The blocking loop over the rest of the body: what has come, the end of    *)
(* what the client sends, or nothing, and then the whole program waits.      *)
(* Mutated: recv is called once and not until the body is complete.          *)
ReadDoneOnce(body) == TRUE
ReadDone(body) == body = Wanted(conn[Current].request)

ReadBody ==
  /\ main.at = "body"
  /\ \E body \in main.body + 1 .. Wanted(conn[Current].request) :
       /\ body <= conn[Current].arrived - 2
       /\ \/ ReadDone(body) /\ Handle(body)
          \/ /\ ~ReadDone(body)
             /\ main' = [main EXCEPT !.body = body]
             /\ UNCHANGED <<mgr, conn, table>>

Gone == conn[Current].ended /\ conn[Current].arrived - 2 = main.body

EndOfBody == main.at = "body" /\ Gone /\ Handle(main.body)

(* The slots of the connections that were closed are given back.            *)
(* Mutated: only when nobody is left.                                       *)
CompactedLazily(t) == IF \A i \in DOMAIN t : t[i] = None THEN <<>> ELSE t
Compacted(t) ==
  LET kept[n \in 0 .. Len(t)] ==
        IF n = 0 THEN <<>>
        ELSE IF t[n] = None THEN kept[n - 1] ELSE Append(kept[n - 1], t[n])
  IN  kept[Len(t)]

(* The poll returns, and main() ticks.                                      *)
Tick ==
  /\ main.at = "serve" /\ Waiting = {}
  /\ table' = Compacted(table)
  /\ main' = Loop
  /\ \/ UNCHANGED mgr
     \/ \E i \in 0 .. Len(mgr.torrents) - 1, state \in {"done", "error"} :
          /\ At(mgr, i).state = "downloading"
          /\ mgr' = Ended(mgr, i, state)
  /\ UNCHANGED conn

(* select fails: the loop ends, and everything is shut down.                *)
ShutDown ==
  /\ main.at = "loop"
  /\ main' = [main EXCEPT !.at = "down"]
  /\ mgr' = AllRemoved(mgr)
  /\ table' = <<>>
  /\ conn' = [c \in Conn |-> IF Open(c) THEN Idle ELSE conn[c]]

-----------------------------------------------------------------------------
Serve ==
  \/ SelectOnly \/ \E c \in Conn : Accept(c)
  \/ DropConnection \/ ServeAtOnce \/ AwaitBody \/ ReadBody \/ EndOfBody
  \/ Tick

Clients == \E c \in Conn :
  Send(c) \/ Leave(c) \/ \E r \in Requests[c] : Connect(c, r)

Next == Serve \/ ShutDown \/ Clients

Spec == Init /\ [][Next]_vars

(* The loop goes on while it can, and a client that the server waits for in  *)
(* the middle of its body sends more or leaves in the end: an assumption     *)
(* about clients, without which the server stands still.  The kernel's queue *)
(* of connections is first come, first served.                               *)
Answering(c) == main.at = "body" /\ Current = c /\ (Send(c) \/ Leave(c))

LiveSpec ==
  /\ Spec
  /\ WF_vars(Serve)
  /\ \A c \in Conn : WF_vars(Answering(c)) /\ SF_vars(Accept(c))

-----------------------------------------------------------------------------
(* No slot and no socket is lost: the open connections are those in the      *)
(* table, each once, and between two polls nothing but them is in it.        *)
SlotsOwned ==
  /\ \A c \in Conn : Open(c) <=> \E i \in DOMAIN table : table[i] = c
  /\ \A i, j \in DOMAIN table : table[i] = table[j] /\ table[i] # None => i = j
  /\ main.at \in {"loop", "down"} => \A i \in DOMAIN table : table[i] # None

(* A handler is never given part of a body that was still coming: when the   *)
(* server has begun to wait for the rest, it calls the handler with all that *)
(* was announced, up to the limit, or when the client will send no more.     *)
BodiesAreWhole ==
  [][main.at = "body" /\ main'.at = "serve" =>
       LET c == conn[Current]
       IN  c.arrived - 2 >= Wanted(c.request) \/ c.ended]_vars

(* An add is all or nothing: one more torrent that runs, or the table as it  *)
(* was.  What could not be started is removed, and nothing else is.          *)
AddsAllOrNothing ==
  [][\A c \in Conn :
       Open(c) /\ conn'[c] = Idle /\ main'.at = "serve"
         /\ HandlerOf(conn[c].request.path) = "add" =>
         \/ mgr' = mgr
         \/ /\ Front(mgr'.torrents) = mgr.torrents
            /\ Running(Last(mgr'.torrents))]_vars

=============================================================================
