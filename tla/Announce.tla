------------------------------ MODULE Announce ------------------------------
(***************************************************************************)
(* A discovery worker's round over the trackers of a torrent, and the pause   *)
(* that the main thread makes of its result: announce_to_tracker and          *)
(* collect_discovery of torrent_mgr.c, tracker.c and tracker_udp.c.  What     *)
(* becomes of the addresses is modelled in PeerConnections.                  *)
(*                                                                          *)
(* Abstractions.  The peers of an answer are reduced to whether there are    *)
(* any.  Transaction ids are numbers that do not occur on the wire; in the   *)
(* code they are random.  Time passes in units of 15 s, and only while the    *)
(* worker waits for a datagram.                                              *)
(***************************************************************************)
EXTENDS Integers, Sequences, FiniteSetsExt

CONSTANTS
  Trackers,     \* the announce URL and the announce-list: [url, scheme,
                \* intervals], with what the tracker may ask for, in seconds
  HasAnnounce,  \* whether the first one is the announce URL
  None

(* A tracker may ask for any int.                                           *)
ASSUME AnnounceAssumption ==
  /\ Len(Trackers) \in Nat /\ DOMAIN Trackers = 1 .. Len(Trackers)
  /\ \A i \in DOMAIN Trackers : Trackers[i].intervals \subseteq Int

VARIABLES
  worker,  \* the worker of the round, or none, with its job's result
  wire,    \* the datagrams under way from trackers to the worker
  plan,    \* tracker_interval and tracker_failures of the torrent
  seen     \* history: the intervals asked in this round, the fruitless
           \* rounds in a row, and the time spent on the tracker

vars == <<worker, wire, plan, seen>>

-----------------------------------------------------------------------------
LongestStreak == 6  \* bound on the rounds that are counted
LongestVisit == 7   \* bound on the time that is counted

Larger(a, b) == IF a > b THEN a ELSE b
Smaller(a, b) == IF a < b THEN a ELSE b

Idle == [at |-> "idle", tracker |-> 0, step |-> "connect", attempt |-> 0,
         left |-> 0, tx |-> 0, got |-> 0, interval |-> 30, reported |-> FALSE]

Init ==
  /\ worker = Idle
  /\ wire = {}
  /\ plan = [interval |-> 0, failures |-> 0]
  /\ seen = [asked |-> {}, fruitless |-> 0, spent |-> 0]

Visited == Trackers[worker.tracker]

(* Other schemes, and the announce URL once more, are passed over.          *)
Skipped(i) ==
  \/ Trackers[i].scheme \notin {"http", "udp"}
  \/ HasAnnounce /\ i > 1 /\ Trackers[i].url = Trackers[1].url

Visiting(scheme) ==
  /\ worker.at = "next" /\ worker.tracker <= Len(Trackers)
  /\ ~Skipped(worker.tracker) /\ Visited.scheme = scheme

(* On to the next tracker: without an answer, or with one that has been      *)
(* added to the result.                                                     *)
Passed == [worker EXCEPT !.at = "next", !.tracker = @ + 1]
Answered(interval, peers) ==
  [Passed EXCEPT !.interval = Larger(@, Larger(60, interval)),
                 !.reported = @ \/ peers]

Pass ==
  /\ worker' = Passed
  /\ UNCHANGED <<plan, seen>>
Take(interval, peers) ==
  /\ worker' = Answered(interval, peers)
  /\ seen' = [seen EXCEPT !.asked = @ \cup {interval}]
  /\ UNCHANGED plan

-----------------------------------------------------------------------------
(* schedule_discovery, and announce_to_tracker.                             *)

StartRound ==
  /\ worker.at = "idle" /\ Trackers # <<>>
  /\ worker' = [Idle EXCEPT !.at = "next", !.tracker = 1]
  /\ seen' = [seen EXCEPT !.asked = {}]
  /\ UNCHANGED <<wire, plan>>

SkipTracker ==
  /\ worker.at = "next" /\ worker.tracker <= Len(Trackers)
  /\ Skipped(worker.tracker)
  /\ Pass /\ UNCHANGED wire

(* A malformed URL, an unknown host, no socket, no connection.              *)
CannotReach ==
  /\ \E scheme \in {"http", "udp"} : Visiting(scheme)
  /\ Pass /\ UNCHANGED wire

EndRound ==
  /\ worker.at = "next" /\ worker.tracker > Len(Trackers)
  /\ worker' = [worker EXCEPT !.at = "done"]
  /\ UNCHANGED <<wire, plan, seen>>

-----------------------------------------------------------------------------
(* tracker_announce_udp, and exchange.                                      *)

Unused(used) == CHOOSE n \in 1 .. Cardinality(used) + 1 : n \notin used

(* A new socket: of what earlier visits left on the wire, at most one        *)
(* datagram still gets to it, when the port is the same.                    *)
OpenUdp ==
  /\ Visiting("udp")
  /\ \E kept \in {{}} \cup {{d} : d \in wire} :
       /\ wire' = {[d EXCEPT !.late = TRUE] : d \in kept}
       /\ worker' = [worker EXCEPT !.at = "send", !.step = "connect",
                                   !.attempt = 0,
                                   !.tx = Unused({d.tx : d \in kept})]
  /\ seen' = [seen EXCEPT !.spent = 0]
  /\ UNCHANGED plan

(* 15000 << attempt milliseconds are given to each attempt.                 *)
SendRequest ==
  /\ worker.at = "send"
  /\ worker' = [worker EXCEPT !.at = "wait", !.left = 2 ^ worker.attempt]
  /\ UNCHANGED <<wire, plan, seen>>

CannotSend == worker.at = "send" /\ Pass /\ UNCHANGED wire

(* What a tracker may answer to a step; a datagram with an error is an answer *)
(* to either one.                                                           *)
Datagram == [from |-> None, tx |-> 0, step |-> "connect", kind |-> "ok",
             interval |-> 0, peers |-> FALSE, late |-> FALSE]
Answers(step) ==
  {[Datagram EXCEPT !.step = step, !.kind = kind] : kind \in {"error", "short"}}
    \cup IF step = "connect" THEN {Datagram}
         ELSE {[Datagram EXCEPT !.step = step, !.interval = reply.interval,
                                !.peers = reply.peers] :
                 reply \in [interval : Visited.intervals, peers : BOOLEAN]}

(* A tracker answers a request, and its second copy alike, or never.        *)
TrackerAnswers ==
  /\ worker.at = "wait"
  /\ \A d \in wire : d.late \/ d.tx # worker.tx
  /\ \E answer \in Answers(worker.step) :
       wire' = wire \cup {[answer EXCEPT !.from = Visited.url, !.tx = worker.tx]}
  /\ UNCHANGED <<worker, plan, seen>>

(* Mutated: the transaction id is not compared.                             *)
MatchesAny(d) == TRUE
Matches(d) == d.tx = worker.tx

(* What is no answer to the request is passed over, and select is called     *)
(* again with the time that is left.                                        *)
(* Mutated: with all the time of the attempt.                               *)
AfterIgnoredAgain == [worker EXCEPT !.left = 2 ^ worker.attempt]
AfterIgnored == worker

Receive(d) ==
  /\ worker.at = "wait" /\ worker.left > 0 /\ d.from = Visited.url
  /\ wire' \in {wire, wire \ {d}}  \* the network may deliver it again

Ignore(d) ==
  /\ Receive(d)
  /\ \/ ~Matches(d)
     \/ d.kind # "error" /\ d.step # worker.step
  /\ worker' = AfterIgnored
  /\ UNCHANGED <<plan, seen>>

Refuse(d) ==
  /\ Receive(d) /\ Matches(d)
  /\ \/ d.kind = "error"
     \/ d.kind = "short" /\ d.step = worker.step
  /\ Pass

Connected(d) ==
  /\ Receive(d) /\ Matches(d)
  /\ d.kind = "ok" /\ d.step = "connect" /\ worker.step = "connect"
  /\ worker' = [worker EXCEPT !.at = "send", !.step = "announce", !.attempt = 0,
                              !.tx = Unused({e.tx : e \in wire} \cup {worker.tx})]
  /\ UNCHANGED <<plan, seen>>

(* Without memory for the answer, it is none.                               *)
Announced(d) ==
  /\ Receive(d) /\ Matches(d)
  /\ d.kind = "ok" /\ d.step = "announce" /\ worker.step = "announce"
  /\ Take(d.interval, d.peers) \/ Pass

TimePasses ==
  /\ worker.at = "wait" /\ worker.left > 0
  /\ worker' = [worker EXCEPT !.left = @ - 1]
  /\ seen' = [seen EXCEPT !.spent = Smaller(@ + 1, LongestVisit)]
  /\ UNCHANGED <<wire, plan>>

(* Mutated: the request is sent again and again.                            *)
GivesUpNever == FALSE
GivesUp == worker.attempt = 1

TimeOut ==
  /\ worker.at = "wait" /\ worker.left = 0
  /\ \/ GivesUp /\ Pass
     \/ /\ ~GivesUp
        /\ worker' = [worker EXCEPT !.at = "send", !.attempt = 1]
        /\ UNCHANGED <<plan, seen>>
  /\ UNCHANGED wire

-----------------------------------------------------------------------------
(* tracker_announce: the response comes in two parts, the headers with the   *)
(* status and the body, and is read until the tracker closes, says nothing   *)
(* for 30 s, or has filled the buffer.                                      *)

OpenHttp ==
  /\ Visiting("http")
  /\ worker' = [worker EXCEPT !.at = "read", !.got = 0]
  /\ UNCHANGED <<wire, plan, seen>>

ReadResponse ==
  /\ worker.at = "read" /\ worker.got < 2
  /\ worker' = [worker EXCEPT !.got = @ + 1]
  /\ UNCHANGED <<wire, plan, seen>>

(* parse_http_response: the headers have their end, and the body has come.   *)
HasBody == worker.got = 2

(* A status other than 200, a body that is cut short or is not bencoded, and *)
(* a failure reason count as no answer.                                     *)
ParseResponse ==
  /\ worker.at = "read"
  /\ \/ Pass
     \/ /\ HasBody
        /\ \E i \in Visited.intervals, peers \in BOOLEAN : Take(i, peers)
  /\ UNCHANGED wire

-----------------------------------------------------------------------------
(* collect_discovery, for a torrent that still downloads: the pause until    *)
(* the next round.                                                          *)

RetryDelay(failures) ==
  Smaller(300, 30 * 2 ^ (IF failures > 4 THEN 4
                         ELSE IF failures > 0 THEN failures - 1 ELSE 0))

(* Mutated: the interval that was asked for, even when there were no peers.  *)
PauseAsAsked(interval, failures) == interval
Pause(interval, failures) ==
  IF failures > 0 THEN Larger(interval, RetryDelay(failures)) ELSE interval

Collect ==
  /\ worker.at = "done"
  /\ LET failures == IF worker.reported THEN 0
                     ELSE Smaller(plan.failures + 1, 5)
     IN  plan' = [interval |-> Pause(worker.interval, failures),
                  failures |-> failures]
  /\ seen' = [seen EXCEPT !.fruitless = IF worker.reported THEN 0
                                        ELSE Smaller(@ + 1, LongestStreak)]
  /\ worker' = Idle
  /\ UNCHANGED wire

-----------------------------------------------------------------------------
Work ==
  \/ SkipTracker \/ CannotReach \/ EndRound
  \/ OpenUdp \/ SendRequest \/ CannotSend \/ TimePasses \/ TimeOut
  \/ OpenHttp \/ ReadResponse \/ ParseResponse
  \/ Collect

Next ==
  \/ StartRound \/ Work \/ TrackerAnswers
  \/ \E d \in wire : Ignore(d) \/ Refuse(d) \/ Connected(d) \/ Announced(d)

Spec == Init /\ [][Next]_vars

(* The worker runs, time passes while it waits, and the main thread collects *)
(* its result; trackers need not answer.                                    *)
LiveSpec == Spec /\ WF_vars(Work)

-----------------------------------------------------------------------------
(* A UDP tracker's answer is used only by the request it answers: a late one *)
(* of an earlier visit, or of the other step, changes nothing.               *)
AnswersBelong ==
  [][worker.at = "wait" /\ (worker'.step # worker.step \/ seen'.asked # seen.asked) =>
       \E d \in wire :
         ~d.late /\ d.tx = worker.tx /\ d.step = worker.step /\ d.kind = "ok"]_vars

(* "Ignore stale transactions without extending the deadline": both steps    *)
(* with a tracker take 90 s at most, whatever arrives.                       *)
VisitsAreBounded == seen.spent <= 6

(* The next round is not before any tracker that answered wants it, backs    *)
(* off while rounds bring no peers, and is never put off longer than that:   *)
(* "nova tentativa automática".                                             *)
PausesFit ==
  [][worker.at = "done" =>
       /\ \A asked \in seen.asked : plan'.interval >= Larger(60, asked)
       /\ seen'.fruitless > 0 =>
            plan'.interval >= Smaller(300, 30 * 2 ^ (seen'.fruitless - 1))
       /\ plan'.interval <= Max(seen.asked \cup {300})]_vars

(* A round ends, and the torrent gets its next one, though no tracker        *)
(* answers and stale datagrams keep coming.                                 *)
RoundsEnd == worker.at # "idle" ~> worker.at = "idle"
=============================================================================
