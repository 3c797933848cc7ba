--------------------------- MODULE MCTorrentEngine ---------------------------
(* Instances of TorrentEngine for TLC.                                      *)
EXTENDS EngineInvariant, TLC

CONSTANTS t1, t2, f1, f2, p1, p2, w1, w2

OneTorrent == {t1}
TwoTorrents == {t1, t2}
OneFile == {f1}
TwoFiles == {f1, f2}
OneSlot == {p1}
TwoSlots == {p1, p2}
OneWebSlot == {w1}
TwoWebSlots == {w1, w2}

(* Torrents, paths, peer slots and job slots are interchangeable.           *)
Symmetry ==
  Permutations(Torrent) \cup Permutations(File) \cup Permutations(Slot)
    \cup Permutations(WebSlot)
=============================================================================
