------------------------------ MODULE Download ------------------------------
(***************************************************************************)
(* What the manager promises of its torrents, whoever fetches the pieces:   *)
(* a download starts with nothing, gains verified pieces and never loses    *)
(* one, and is done exactly when it is declared done with every piece.      *)
(* TorrentEngine implements this.                                           *)
(***************************************************************************)
CONSTANTS Torrent, Piece

VARIABLES
  phase,   \* TORRENT_* of each torrent, or "absent"
  have     \* its verified pieces

vars == <<phase, have>>

TypeOK ==
  /\ phase \in [Torrent -> {"absent", "stopped", "downloading", "done", "error"}]
  /\ have \in [Torrent -> SUBSET Piece]

Init ==
  /\ phase = [t \in Torrent |-> "absent"]
  /\ have = [t \in Torrent |-> {}]

Add(t) ==
  /\ phase[t] = "absent"
  /\ phase' = [phase EXCEPT ![t] = "stopped"]
  /\ UNCHANGED have

(* A start that succeeds begins from nothing; one that fails keeps nothing. *)
Start(t, next) ==
  /\ phase[t] \in {"stopped", "error"} /\ next \in {"downloading", "error"}
  /\ phase' = [phase EXCEPT ![t] = next]
  /\ have' = [have EXCEPT ![t] = {}]

(* Pieces arrive, verified and written.                                     *)
Gain(t, S) ==
  /\ phase[t] = "downloading" /\ S # {}
  /\ have' = [have EXCEPT ![t] = @ \cup S]
  /\ UNCHANGED phase

Finish(t) ==
  /\ phase[t] = "downloading" /\ have[t] = Piece
  /\ phase' = [phase EXCEPT ![t] = "done"]
  /\ UNCHANGED have

Fail(t) ==
  /\ phase[t] = "downloading"
  /\ phase' = [phase EXCEPT ![t] = "error"]
  /\ UNCHANGED have

Stop(t) ==
  /\ phase[t] # "absent"
  /\ phase' = [phase EXCEPT ![t] = "stopped"]
  /\ UNCHANGED have

Remove(t) ==
  /\ phase[t] # "absent"
  /\ phase' = [phase EXCEPT ![t] = "absent"]
  /\ have' = [have EXCEPT ![t] = {}]

Next ==
  \E t \in Torrent :
    \/ Add(t)
    \/ \E next \in {"downloading", "error"} : Start(t, next)
    \/ \E S \in SUBSET Piece : Gain(t, S)
    \/ Finish(t)
    \/ Fail(t)
    \/ Stop(t)
    \/ Remove(t)

Spec == Init /\ [][Next]_vars
=============================================================================
