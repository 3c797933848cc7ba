-------------------------- MODULE MCPeerConnections --------------------------
(* Instances of PeerConnections for TLC.                                    *)
EXTENDS PeerConnections, TLC

CONSTANTS t1, a1, a2, a3, p1, p2, d1, j1, j2, s1, s2, s3

OneTorrent == {t1}
TwoAddresses == {a1, a2}
ThreeAddresses == {a1, a2, a3}
OneSlot == {p1}
TwoSlots == {p1, p2}
OneDiscSlot == {d1}
OneConnSlot == {j1}
TwoConnSlots == {j1, j2}
OneSocket == {s1}
TwoSockets == {s1, s2}
ThreeSockets == {s1, s2, s3}

(* Addresses, sockets and entries of arrays are interchangeable.            *)
Symmetry ==
  Permutations(Address) \cup Permutations(Slot) \cup Permutations(ConnSlot)
    \cup Permutations(Socket)
=============================================================================
