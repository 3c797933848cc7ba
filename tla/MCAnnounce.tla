----------------------------- MODULE MCAnnounce -----------------------------
(* An instance of Announce for TLC: a UDP tracker, the same once more in the *)
(* list, one that is not supported, and an HTTP tracker.                     *)
EXTENDS Announce

CONSTANTS u1, h1, s1

Udp == [url |-> u1, scheme |-> "udp", intervals |-> {400}]
Mixed == << Udp, Udp, [url |-> s1, scheme |-> "https", intervals |-> {}],
            [url |-> h1, scheme |-> "http", intervals |-> {5}] >>
=============================================================================
