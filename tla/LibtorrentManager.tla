------------------------- MODULE LibtorrentManager -------------------------
(***************************************************************************)
(* The other build of the manager, torrent_mgr_libtorrent.cpp: the library    *)
(* downloads, and the manager keeps the table that the handlers of main.c     *)
(* name by index.  The table is in two arrays, g_torrents and g_slots, which  *)
(* a removal shifts; the library is asked for its status at every tick, and   *)
(* what happens to a torrent also arrives later, as an alert.                *)
(*                                                                          *)
(* As in TorrentTable the operations are functions of the manager's state m. *)
(* The library, which is not part of the repository, is modelled as far as    *)
(* it is used: it has a torrent once, handles of removed ones are not valid,  *)
(* and a torrent that is auto_managed may be resumed by it.                  *)
(***************************************************************************)
EXTENDS Integers, Sequences, SequencesExt, FiniteSetsExt

CONSTANTS
  Hash,       \* the torrents there are
  Capacity,   \* MAX_TORRENTS
  MaxAlerts,  \* bound: alerts that wait at a time
  None

VARIABLE m  \* the manager and the library's session

-----------------------------------------------------------------------------
State == {"stopped", "downloading", "done", "error"}

(* asked is history: what the user last asked of the torrent.                *)
Torrent(hash) == [hash |-> hash, state |-> "stopped", asked |-> "stopped"]
Slot(hash) == [params |-> hash, handle |-> None, added |-> FALSE, paused |-> TRUE]

Handle == 1 .. Capacity + MaxAlerts + 1
ASSUME LibtorrentAssumption ==
  Capacity \in Nat /\ MaxAlerts \in Nat /\ None \notin Handle

Empty == [torrents |-> <<>>, slots |-> <<>>,
          session |-> [h \in Handle |-> None], alerts |-> <<>>]

Init == m = Empty

Valid(s, h) == h # None /\ s.session[h] # None
WithState(s, i, state) == [s EXCEPT !.torrents[i].state = state]

-----------------------------------------------------------------------------
(* pump_alerts: an alert reaches the entry that has its handle, wherever it  *)
(* has been shifted to; there may be none any more.                         *)
FindByHandle(s, h) ==
  {i \in DOMAIN s.slots : Valid(s, h) /\ s.slots[i].added /\ s.slots[i].handle = h}

HandleAlert(s, alert) ==
  LET found == FindByHandle(s, alert.handle)
  IN  IF found = {} THEN s
      ELSE WithState(s, Min(found), CASE alert.kind = "added" -> "downloading"
                                      [] alert.kind = "finished" -> "done"
                                      [] OTHER -> "error")

Pumped(s) ==
  LET after[n \in 0 .. Len(s.alerts)] ==
        IF n = 0 THEN s ELSE HandleAlert(after[n - 1], s.alerts[n])
  IN  [after[Len(s.alerts)] EXCEPT !.alerts = <<>>]

(* refresh_slot: the library's word, or else what the user asked for last.   *)
Refreshed(s, i) ==
  LET slot == s.slots[i]
      status == s.session[slot.handle]
  IN  IF ~slot.added \/ ~Valid(s, slot.handle) THEN s
      ELSE WithState(s, i, CASE status.failed -> "error"
                             [] ~status.failed /\ status.finished -> "done"
                             [] OTHER -> IF slot.paused THEN "stopped"
                                                        ELSE "downloading")

AllRefreshed(s) ==
  LET after[i \in 0 .. Len(s.slots)] ==
        IF i = 0 THEN s ELSE Refreshed(after[i - 1], i)
  IN  after[Len(s.slots)]

(* torrent_mgr_tick, and with it every status that is answered.             *)
Ticked(s) == AllRefreshed(Pumped(s))

(* torrent_mgr_get: asking for one entry brings all alerts in, too.          *)
Got(s, i) == Refreshed(Pumped(s), i)

(* torrent_mgr_status_json: the page gets the state of each entry.          *)
Listed(s) == [i \in DOMAIN s.torrents |-> s.torrents[i].state]

-----------------------------------------------------------------------------
(* torrent_mgr_add_raw and torrent_mgr_add_magnet.                          *)
Added(s, hash) ==
  [s EXCEPT !.torrents = Append(@, Torrent(hash)), !.slots = Append(@, Slot(hash))]

(* add_torrent gives the handle of a torrent that the session has already.   *)
HandleFor(s, hash) ==
  LET same == {h \in Handle : s.session[h] # None /\ s.session[h].hash = hash}
      used == {h \in Handle : s.session[h] # None} \cup {a.handle : a \in Range(s.alerts)}
                \cup {slot.handle : slot \in Range(s.slots)}
  IN  Min(IF same # {} THEN same ELSE Handle \ used)

InSession(s, i) ==
  LET hash == s.slots[i].params
      h == HandleFor(s, hash)
  IN  [s EXCEPT !.session[h] = IF @ # None THEN @
                               ELSE [hash |-> hash, paused |-> FALSE,
                                     finished |-> FALSE, failed |-> FALSE],
                !.alerts = Append(@, [kind |-> "added", handle |-> h]),
                !.slots[i].handle = h, !.slots[i].added = TRUE,
                !.slots[i].params = None]

Resumed(s, i) ==
  [WithState(s, i, "downloading") EXCEPT !.session[s.slots[i].handle].paused = FALSE,
                                         !.slots[i].paused = FALSE]

(* torrent_mgr_start: the parameters are moved into the library, which may   *)
(* refuse them, and are gone whether it does or not.                        *)
Started(s, i, refused) ==
  LET p == Pumped(s)
      again == p.slots[i].added /\ Valid(p, p.slots[i].handle)
  IN  IF again THEN Resumed(p, i)
      ELSE IF refused \/ p.slots[i].params = None
      THEN [WithState(p, i, "error") EXCEPT !.slots[i].params = None,
                                            !.slots[i].handle = None]
      ELSE Resumed(InSession(p, i), i)

(* Mutated: only the library is told, and not the slot.                      *)
StoppedThere(s, i) ==
  LET h == s.slots[i].handle
  IN  [WithState(s, i, "stopped") EXCEPT
         !.session = IF Valid(s, h) THEN [@ EXCEPT ![h].paused = TRUE] ELSE @]
Stopped(s, i) ==
  LET h == s.slots[i].handle
  IN  [WithState(s, i, "stopped") EXCEPT
         !.slots[i].paused = TRUE,
         !.session = IF Valid(s, h) THEN [@ EXCEPT ![h].paused = TRUE] ELSE @]

(* erase_index shifts both arrays.  Mutated: only one of them.               *)
ErasedBehind(s, i) ==
  [s EXCEPT !.torrents = RemoveAt(@, i), !.slots = Front(@)]
Erased(s, i) ==
  [s EXCEPT !.torrents = RemoveAt(@, i), !.slots = RemoveAt(@, i)]

Removed(s, i) ==
  LET h == s.slots[i].handle
  IN  Erased(IF s.slots[i].added /\ Valid(s, h)
             THEN [s EXCEPT !.session[h] = None] ELSE s, i)

-----------------------------------------------------------------------------
(* The handlers of main.c.                                                  *)

Asked(s, i, what) == [s EXCEPT !.torrents[i].asked = what]

(* A torrent is added and started, and removed again if it does not start.   *)
Upload(hash, refused) ==
  /\ Len(m.torrents) < Capacity
  /\ LET i == Len(m.torrents) + 1
         tried == Started(Added(m, hash), i, refused)
     IN  m' = IF tried.torrents[i].state = "error" THEN Removed(Got(tried, i), i)
              ELSE Asked(Got(tried, i), i, "downloading")

(* Only an answer that reports an error asks for the entry.                  *)
Start(i) ==
  LET tried == Asked(Started(m, i, FALSE), i, "downloading")
  IN  m' = IF tried.torrents[i].state = "error" THEN Got(tried, i) ELSE tried

Stop(i) == m' = Asked(Stopped(m, i), i, "stopped")
RemoveEntry(i) == m' = Removed(m, i)
Tick == m' = Ticked(m)

(* torrent_mgr_shutdown and, when the program is run again, init.            *)
ShutDown == m.torrents # <<>> /\ m' = Empty

-----------------------------------------------------------------------------
(* The library.  What fails is not taken up again.                          *)

Happens(h, status, kind) ==
  /\ Len(m.alerts) < MaxAlerts
  /\ m' = [m EXCEPT !.session[h] = status,
                    !.alerts = Append(@, [kind |-> kind, handle |-> h])]

Downloading(h) ==
  m.session[h] # None /\ ~(m.session[h].paused \/ m.session[h].finished \/ m.session[h].failed)

Finish(h) ==
  Downloading(h) /\ Happens(h, [m.session[h] EXCEPT !.finished = TRUE], "finished")
Fail(h) ==
  Downloading(h) /\ Happens(h, [m.session[h] EXCEPT !.failed = TRUE], "error")

(* Torrents are added with the flag auto_managed.                           *)
AutoResume(h) ==
  /\ m.session[h] # None /\ m.session[h].paused
  /\ m' = [m EXCEPT !.session[h].paused = FALSE]

Next ==
  \/ \E hash \in Hash, refused \in BOOLEAN : Upload(hash, refused)
  \/ \E i \in DOMAIN m.torrents : Start(i) \/ Stop(i) \/ RemoveEntry(i)
  \/ Tick \/ ShutDown
  \/ \E h \in Handle : Finish(h) \/ Fail(h) \/ AutoResume(h)

Spec == Init /\ [][Next]_m

-----------------------------------------------------------------------------
(* What is removed does not go on downloading: the library has only torrents *)
(* of the table.  And a handle, through all the shifts, is that of its        *)
(* entry's torrent.                                                         *)
SessionOwned ==
  /\ Len(m.slots) = Len(m.torrents)
  /\ \A h \in Handle : m.session[h] # None =>
       \E i \in DOMAIN m.slots : m.slots[i].handle = h
  /\ \A i \in DOMAIN m.slots : Valid(m, m.slots[i].handle) =>
       m.session[m.slots[i].handle].hash = m.torrents[i].hash

(* What the page would be told at any moment: of each torrent what the        *)
(* library has made of it, and else what the user asked last of that very     *)
(* torrent.  No alert, however late, brings back an older state, and no shift  *)
(* gives a torrent the pause of its neighbour.  Of an entry whose torrent was *)
(* removed by way of another one, nothing is claimed.                        *)
StatusIsCurrent ==
  LET now == Ticked(m)
  IN  \A i \in DOMAIN now.torrents : Valid(now, now.slots[i].handle) =>
        LET status == now.session[now.slots[i].handle]
        IN  Listed(now)[i] =
              CASE status.failed -> "error"
                [] ~status.failed /\ status.finished -> "done"
                [] OTHER -> now.torrents[i].asked
=============================================================================
