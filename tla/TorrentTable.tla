---------------------------- MODULE TorrentTable ----------------------------
(***************************************************************************)
(* The array torrents[] of torrent_mgr.c as the handlers of main.c use it:   *)
(* an entry is named by its index, from 0, and a removal shifts those above.  *)
(*                                                                          *)
(* The operations are functions of the manager's state, because a handler    *)
(* makes several of them in one call of the main thread: it adds, starts,    *)
(* and removes again what could not be started.  What TorrentEngine models   *)
(* of an entry (peers, pieces, jobs) is left out here; its descriptor is not *)
(* (file_writer.fd, which single files keep open), since an entry that is    *)
(* shifted or forgotten takes it along.                                      *)
(***************************************************************************)
EXTENDS Integers, Sequences, SequencesExt, FiniteSets

CONSTANT Capacity  \* MAX_TORRENTS, 8 in the code

(* mgr.torrents: torrents[0 .. num_torrents-1], each with its torrent, state  *)
(* and whether its writer is open; mgr.descriptors: how many descriptors of   *)
(* content files the process has open.                                      *)
VARIABLE mgr

-----------------------------------------------------------------------------
(* A single file, several files, or a magnet link; the same torrent may be   *)
(* added again.                                                             *)
Torrent == {"single", "multi", "magnet"}

(* What goes wrong in a start: the directory cannot be made, there is no     *)
(* memory for the piece map, or the file cannot be opened.                   *)
Fault == {"none", "directory", "memory", "file"}

Empty == [torrents |-> <<>>, descriptors |-> 0]

Holds(m, i) == i \in 0 .. Len(m.torrents) - 1
At(m, i) == m.torrents[i + 1]

Fits(m) == Len(m.torrents) < Capacity

Added(m, torrent) ==
  [m EXCEPT !.torrents = Append(@, [torrent |-> torrent, state |-> "stopped",
                                    open |-> FALSE])]

(* file_writer_finish.                                                      *)
Closed(m, i) ==
  [m EXCEPT !.torrents[i + 1].open = FALSE,
            !.descriptors = IF At(m, i).open THEN @ - 1 ELSE @]

Stopped(m, i) ==
  IF Holds(m, i) THEN [Closed(m, i) EXCEPT !.torrents[i + 1].state = "stopped"]
                 ELSE m

(* Magnet links have no metadata, and cannot be started.                    *)
Startable(e, fault) == e.torrent # "magnet" /\ fault = "none"

Running(e) == e.state \in {"downloading", "done"}

(* A torrent that runs or is done is left as it is; any other one is stopped *)
(* first if an earlier run left a piece map or a writer.                     *)
(* Mutated: the writer of the earlier run is forgotten and not closed.       *)
StartedOver(m, i, fault) ==
  LET e == At(m, i)
      opens == Startable(e, fault) /\ e.torrent = "single"
  IN  IF Running(e) THEN m ELSE
      [m EXCEPT
         !.torrents[i + 1].state =
             IF Startable(e, fault) THEN "downloading" ELSE "error",
         !.torrents[i + 1].open = opens,
         !.descriptors = IF opens THEN @ + 1 ELSE @]
Started(m, i, fault) ==
  LET e == At(m, i)
      opens == Startable(e, fault) /\ e.torrent = "single"
  IN  IF Running(e) THEN m ELSE
      [Closed(m, i) EXCEPT
         !.torrents[i + 1].state =
             IF Startable(e, fault) THEN "downloading" ELSE "error",
         !.torrents[i + 1].open = opens,
         !.descriptors = IF opens THEN @ + 1 ELSE @]

Removed(m, i) ==
  IF Holds(m, i)
  THEN [Stopped(m, i) EXCEPT !.torrents = RemoveAt(@, i + 1)]
  ELSE m

(* torrent_mgr_shutdown removes the entries from the last to the first.      *)
AllRemoved(m) ==
  LET left[n \in 0 .. Len(m.torrents)] ==
        IF n = 0 THEN m
        ELSE LET s == left[n - 1] IN Removed(s, Len(s.torrents) - 1)
  IN  left[Len(m.torrents)]

(* What a tick may make of one entry: done, its writer finished, or failed   *)
(* in the middle, its writer left for the next start or stop.                *)
Ended(m, i, state) ==
  IF state = "done" THEN [Closed(m, i) EXCEPT !.torrents[i + 1].state = "done"]
                    ELSE [m EXCEPT !.torrents[i + 1].state = "error"]

-----------------------------------------------------------------------------
(* The handlers, as what they leave; what they answer is left out.           *)

Shown(m) == [i \in DOMAIN m.torrents |-> m.torrents[i].torrent]

(* torrent_start_error_response, with remove_torrent.                       *)
(* Mutated: what could not be started stays in the table.                    *)
AfterFailedAddKeeps(m, i) == m
AfterFailedAdd(m, i) == Removed(m, i)

(* add, upload and local: the form must name a source that can be read and a *)
(* legal destination.  The index is the one torrent_mgr_add returned.        *)
HandleAdd(m, posted, form, fault) ==
  LET index == Len(m.torrents)
      tried == Started(Added(m, form), index, fault)
  IN  IF ~posted \/ form \notin Torrent \/ ~Fits(m) THEN m
      ELSE IF Running(At(tried, index)) THEN tried
      ELSE AfterFailedAdd(tried, index)

(* Stopping or removing an entry that does not exist does nothing, and is    *)
(* answered as a success.                                                   *)
HandleAction(m, posted, index, verb, fault) ==
  CASE posted /\ verb = "start" /\ Holds(m, index) -> Started(m, index, fault)
    [] posted /\ verb = "stop" -> Stopped(m, index)
    [] posted /\ verb = "remove" -> Removed(m, index)
    [] OTHER -> m

-----------------------------------------------------------------------------
(* Descriptors of content files are neither leaked nor closed twice: those   *)
(* that are open belong to the entries in the table, through adds that fail  *)
(* halfway, restarts after an error, shifts and the shutdown.                *)
DescriptorsOwned ==
  mgr.descriptors = Cardinality({i \in DOMAIN mgr.torrents : mgr.torrents[i].open})
=============================================================================
