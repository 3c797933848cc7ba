------------------------------ MODULE WebPage ------------------------------
(***************************************************************************)
(* The page of web/index.html beside the server: it shows the last list it   *)
(* got, and asks for actions on the rows it shows.                           *)
(***************************************************************************)
EXTENDS HttpServer

VARIABLE shown  \* state.torrents: the torrents in the rows of the page

pageVars == <<vars, shown>>

PageInit == Init /\ shown = <<>>

(* refresh, an upload, or torrentAction with the id of the row.             *)
List == [NoRequest EXCEPT !.line = TRUE, !.path = <<"/", "api", "torrents">>]
Upload(torrent) == [List EXCEPT !.path = <<"/", "api", "torrents", "/", "upload">>,
                       !.post = TRUE, !.length = 1, !.form = torrent]
RemoveRow(row) == [List EXCEPT !.path = <<"/", "api", "torrents", "/">>,
                            !.post = TRUE, !.verb = "remove",
                            !.index = row - 1, !.meant = shown[row]]

Ask ==
  /\ \E c \in Conn, r \in {List} \cup {Upload(t) : t \in Torrent}
                                \cup {RemoveRow(row) : row \in DOMAIN shown} :
       Connect(c, r)
  /\ UNCHANGED shown

(* The list that is answered is what the page shows from then on.            *)
ShowList ==
  /\ ServeAtOnce /\ conn[Current].request = List
  /\ shown' = Shown(mgr)

PageNext ==
  \/ Ask \/ ShowList
  \/ (Serve \/ \E c \in Conn : Send(c)) /\ UNCHANGED shown

PageSpec == PageInit /\ [][PageNext]_pageVars

-----------------------------------------------------------------------------
(* "Remover este torrent da lista?" asks the page of the torrent in a row,   *)
(* and then names it by its index: what is removed is that torrent.          *)
RemovesWhatWasShown ==
  [][\A c \in Conn :
       Open(c) /\ conn'[c] = Idle /\ conn[c].request.verb = "remove" =>
         Range(Shown(mgr)) \ Range(Shown(mgr'))
           \subseteq {conn[c].request.meant}]_pageVars
=============================================================================
