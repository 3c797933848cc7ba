--------------------------- MODULE EngineInvariant ---------------------------
(* The inductive invariant behind the safety properties of TorrentEngine.   *)
(* TLC finds each part to hold on the instances of engine_mixed and         *)
(* engine_memory; TorrentEngine_proofs and Progress_proofs prove it.        *)
EXTENDS TorrentEngine

-----------------------------------------------------------------------------
(* Where the tick is.                                                       *)

(* Inside the visit of a torrent there is one, and inside that of a peer,   *)
(* a peer.                                                                  *)
Cursor ==
  /\ main.at \in {"peers", "recv", "request", "schedule"} =>
       main.cur \in Torrent
  /\ main.at \in {"recv", "request"} => main.slot \in Slot

(* No buffer overflows and no variable leaves its type.                     *)
Typing == TypeOK /\ BlocksFitBuffer /\ Cursor

(* The torrents the tick has yet to visit are downloading, the one it       *)
(* visits has its pieces, and the peers it visits are connected: what       *)
(* torrent_mgr_tick and process_peer test at their start stays true as far  *)
(* as they rely on it.                                                      *)
VisitsConnected ==
  /\ main.at \in {"http", "web", "conn"} => main.todo = {}
  /\ main.at \in {"http", "web", "conn", "torrents"} => main.cur = None
  /\ \A t \in main.todo : Downloading(t) /\ t # main.cur
  /\ main.at \in {"peers", "recv", "request", "schedule"} =>
       prepared[main.cur] /\ state[main.cur] # "absent"
  /\ main.at \in {"recv", "request"} =>
       /\ Downloading(main.cur) /\ peer[main.cur][main.slot].sock
       /\ main.slot \notin main.visit
  /\ main.at \in {"peers", "recv", "request"} =>
       main.visit \subseteq Connected(main.cur)

-----------------------------------------------------------------------------
(* Generations.                                                             *)

(* A generation number belongs to one torrent at most, and one that is yet  *)
(* to be handed out to no torrent and no job.                               *)
GenerationsUnique ==
  /\ \A t \in Torrent : generation[t] < nextGeneration
  /\ \A t \in Torrent : state[t] # "absent" => generation[t] > 0
  /\ \A t, u \in Torrent : generation[t] = generation[u] /\ generation[t] > 0
                             => t = u
  /\ \A s \in WebSlot : webJob[s].status # "empty" =>
       webJob[s].generation \in 1 .. nextGeneration - 1

-----------------------------------------------------------------------------
(* Who holds what.                                                          *)

(* Only a torrent whose pieces are allocated downloads, has peers, complete *)
(* pieces or jobs of its generation.                                        *)
UnpreparedIsIdle ==
  \A t \in Torrent :
    /\ state[t] = "absent" => ~prepared[t]
    /\ ~prepared[t] => /\ ~Downloading(t) /\ JobsOf(t) = {}
                       /\ Connected(t) = {} /\ CompleteIn(pieces[t]) = {}

(* A peer that assembles a piece is connected, the piece is requested, and  *)
(* no other peer assembles it.                                              *)
PeersHoldRequested ==
  \A t \in Torrent : \A p \in Slot : peer[t][p].piece # None =>
    /\ peer[t][p].sock
    /\ pieces[t][peer[t][p].piece] = "requested"
    /\ \A q \in Slot : peer[t][q].piece = peer[t][p].piece => q = p

(* A job of a torrent's generation fetches pieces that are requested, that  *)
(* no other such job fetches and that no peer assembles.                    *)
JobsHoldRequested ==
  \A t \in Torrent : \A s \in JobsOf(t) : \A i \in webJob[s].batch :
    /\ pieces[t][i] = "requested"
    /\ \A r \in JobsOf(t) : i \in webJob[r].batch => r = s
    /\ \A p \in Slot : peer[t][p].piece # i

(* While a torrent downloads, somebody fetches each requested piece.        *)
RequestedIsFetched ==
  \A t \in Torrent : Downloading(t) =>
    \A i \in Piece : pieces[t][i] = "requested" =>
      \/ \E p \in Slot : peer[t][p].piece = i
      \/ \E s \in JobsOf(t) : i \in webJob[s].batch

Holding ==
  /\ GenerationsUnique
  /\ UnpreparedIsIdle
  /\ PeersHoldRequested
  /\ JobsHoldRequested
  /\ RequestedIsFetched

(* ExclusiveOwner and NoOrphan follow from this.                            *)
Ownership == VisitsConnected /\ Holding

-----------------------------------------------------------------------------
(* What is saved.                                                           *)

(* A torrent in the table has a file.                                       *)
HasFile ==
  \A t \in Torrent : IF state[t] = "absent" THEN file[t] = None
                                            ELSE file[t] \in File

(* No two torrents have the same one, if AddOnce keeps them from it.        *)
FilesApart ==
  AddOnce => \A t, u \in Torrent : file[t] = file[u] /\ file[t] # None => t = u

(* A torrent that is done has every piece.                                  *)
DoneIsComplete ==
  \A t \in Torrent : state[t] = "done" => CompleteIn(pieces[t]) = Piece

Filing == HasFile /\ FilesApart

(* DoneIsSaved and RestIsFrozen follow from this, if AddOnce.               *)
Saving == Filing /\ DoneIsComplete /\ (AddOnce => CompleteIsSaved)
=============================================================================
