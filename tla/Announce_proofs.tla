--------------------------- MODULE Announce_proofs ---------------------------
(***************************************************************************)
(* The safety properties of Announce, proved for any list of trackers and    *)
(* whatever they answer.                                                    *)
(***************************************************************************)
EXTENDS Announce, FiniteSetTheorems, TLAPS

-----------------------------------------------------------------------------
(* The inductive invariant; TLC finds each part to hold on the instance of   *)
(* the run announce.                                                        *)

Steps == {"connect", "announce"}

Worker == [at : {"idle", "next", "send", "wait", "read", "done"},
           tracker : Nat, step : Steps, attempt : 0 .. 1, left : Nat, tx : Nat,
           got : 0 .. 2, interval : Int, reported : BOOLEAN]

Message == [from : {None} \cup {Trackers[i].url : i \in DOMAIN Trackers},
            tx : Nat, step : Steps, kind : {"ok", "error", "short"},
            interval : Int, peers : BOOLEAN, late : BOOLEAN]

(* A tracker that is being asked is one of the list.                        *)
Typing ==
  /\ worker \in Worker
  /\ worker.at \in {"send", "wait", "read"} => worker.tracker \in DOMAIN Trackers
  /\ worker.at # "idle" => worker.tracker >= 1
  /\ wire \subseteq Message /\ IsFiniteSet(wire)
  /\ plan \in [interval : Int, failures : 0 .. 5]
  /\ seen \in [asked : SUBSET Int, fruitless : 0 .. LongestStreak, spent : Nat]

(* The time that a visit may still take: an attempt of 15 s and one of 30 s  *)
(* for this step, and the same for the next.                                *)
Rest ==
  (IF worker.step = "connect" THEN 3 ELSE 0)
    + (CASE worker.at = "send" -> IF worker.attempt = 0 THEN 3 ELSE 2
         [] worker.at = "wait" ->
              worker.left + IF worker.attempt = 0 THEN 2 ELSE 0
         [] OTHER -> 0)

Budget ==
  /\ seen.spent <= 6
  /\ worker.at \in {"send", "wait"} => seen.spent + Rest <= 6

(* What bears the transaction id in use answers this step of this visit.     *)
Fresh ==
  worker.at \in {"send", "wait"} =>
    \A d \in wire : d.tx = worker.tx =>
      ~d.late /\ (d.kind = "ok" => d.step = worker.step)

(* The result has the longest of the intervals that were asked, or none.     *)
Result ==
  worker.at # "idle" =>
    /\ \A a \in seen.asked : Larger(60, a) <= worker.interval
    /\ \/ worker.interval = 30
       \/ \E a \in seen.asked : worker.interval = Larger(60, a)

(* The fruitless rounds in a row are counted, up to five.                    *)
Streak ==
  plan.failures = Smaller(seen.fruitless, 5)

AnnInv == Typing /\ Budget /\ Fresh /\ Result /\ Streak
-----------------------------------------------------------------------------
(* Lemmas.                                                                  *)

LEMMA InitInv == Init => AnnInv
<1> SUFFICES ASSUME Init  PROVE AnnInv
  OBVIOUS
<1>1. worker \in Worker
  BY DEF Init, Idle, Worker, Steps
<1>2. worker.at = "idle" /\ wire = {} /\ IsFiniteSet(wire)
  BY FS_EmptySet DEF Init, Idle
<1>3. /\ plan.failures = 0 /\ seen.asked = {} /\ seen.fruitless = 0
      /\ seen.spent = 0
      /\ plan \in [interval : Int, failures : 0 .. 5]
      /\ seen \in [asked : SUBSET Int, fruitless : 0 .. LongestStreak, spent : Nat]
  BY DEF Init, LongestStreak
<1> QED
  BY <1>1, <1>2, <1>3
     DEF AnnInv, Typing, Budget, Fresh, Result, Streak, Smaller, LongestStreak

(* There is a number for a new transaction.                                  *)
LEMMA UnusedIsNew ==
  ASSUME NEW used, IsFiniteSet(used)
  PROVE  Unused(used) \in Nat /\ Unused(used) \notin used
<1> DEFINE n == Cardinality(used)
<1>1. n \in Nat
  BY FS_CardinalityType
<1>2. Cardinality(1 .. n + 1) = n + 1
  BY <1>1, FS_Interval
<1>3. ~(1 .. n + 1 \subseteq used)
  <2> SUFFICES ASSUME 1 .. n + 1 \subseteq used  PROVE FALSE
    OBVIOUS
  <2>1. Cardinality(1 .. n + 1) <= n
    BY FS_Subset
  <2> QED  BY <1>1, <1>2, <2>1
<1>4. \E k \in 1 .. n + 1 : k \notin used
  BY <1>3
<1>5. Unused(used) \in 1 .. n + 1 /\ Unused(used) \notin used
  BY <1>4 DEF Unused
<1> QED  BY <1>1, <1>5

LEMMA FiniteTransactions ==
  ASSUME NEW D, IsFiniteSet(D)
  PROVE  IsFiniteSet({d.tx : d \in D})
<1> DEFINE T == {d.tx : d \in D}
           f == [d \in D |-> d.tx]
<1>1. f \in [D -> T] /\ \A x \in T : \E d \in D : f[d] = x
  OBVIOUS
<1>2. f \in Surjection(D, T)
  BY <1>1 DEF Surjection
<1> HIDE DEF f
<1> QED  BY <1>2, FS_Surjection

LEMMA InUse ==
  ASSUME Typing, worker.at \in {"send", "wait", "read"}
  PROVE  worker.tracker \in DOMAIN Trackers /\ Visited.intervals \subseteq Int
  BY AnnounceAssumption DEF Typing, Visited

LEMMA Listed ==
  ASSUME Typing, NEW scheme, Visiting(scheme)
  PROVE  worker.at = "next" /\ worker.tracker \in DOMAIN Trackers
  BY AnnounceAssumption DEF Typing, Visiting, Worker

(* The pauses that fruitless rounds call for.                                *)
LEMMA DelayFits ==
  ASSUME NEW n \in 0 .. LongestStreak
  PROVE  /\ RetryDelay(Smaller(n, 5)) \in 30 .. 300
         /\ n > 0 => RetryDelay(Smaller(n, 5)) >= Smaller(300, 30 * 2 ^ (n - 1))
<1>1. 2 ^ 0 = 1 /\ 2 ^ 1 = 2 /\ 2 ^ 2 = 4 /\ 2 ^ 3 = 8 /\ 2 ^ 4 = 16 /\ 2 ^ 5 = 32
  BY SMT
<1>2. /\ RetryDelay(0) = 30 /\ RetryDelay(1) = 30 /\ RetryDelay(2) = 60
      /\ RetryDelay(3) = 120 /\ RetryDelay(4) = 240 /\ RetryDelay(5) = 300
  BY <1>1 DEF RetryDelay, Smaller
<1>3. n \in {0, 1, 2, 3, 4, 5, 6}
  BY DEF LongestStreak
<1>4. CASE n = 0
  BY <1>1, <1>2, <1>4 DEF Smaller
<1>5. CASE n = 1
  BY <1>1, <1>2, <1>5 DEF Smaller
<1>6. CASE n = 2
  BY <1>1, <1>2, <1>6 DEF Smaller
<1>7. CASE n = 3
  BY <1>1, <1>2, <1>7 DEF Smaller
<1>8. CASE n = 4
  BY <1>1, <1>2, <1>8 DEF Smaller
<1>9. CASE n = 5
  BY <1>1, <1>2, <1>9 DEF Smaller
<1>10. CASE n = 6
  BY <1>1, <1>2, <1>10 DEF Smaller
<1> QED  BY <1>3, <1>4, <1>5, <1>6, <1>7, <1>8, <1>9, <1>10

(* What a step makes of the worker: it stays in the round with the result    *)
(* that it has, and the time and the transactions fit.                      *)
LEMMA PassKeeps ==
  ASSUME AnnInv, Pass, worker.at \in {"next", "send", "wait", "read"},
         wire' \subseteq wire
  PROVE  AnnInv'
<1>1. worker \in Worker
  BY DEF AnnInv, Typing
<1>2. /\ worker' \in Worker /\ worker'.at = "next" /\ worker'.tracker >= 1
      /\ worker'.interval = worker.interval
  <2>1. worker.tracker + 1 \in Nat /\ worker.tracker + 1 >= 1
    BY <1>1 DEF Worker
  <2> QED  BY <1>1, <2>1 DEF Pass, Passed, Worker
<1>3. IsFiniteSet(wire')
  BY FS_Subset DEF AnnInv, Typing
<1>4. plan' = plan /\ seen' = seen
  BY DEF Pass
<1>5. Typing'
  BY <1>2, <1>3, <1>4 DEF AnnInv, Typing
<1>6. Budget' /\ Fresh' /\ Result' /\ Streak'
  BY <1>2, <1>4 DEF AnnInv, Budget, Fresh, Result, Streak
<1> QED  BY <1>5, <1>6 DEF AnnInv

LEMMA TakeKeeps ==
  ASSUME AnnInv, NEW i \in Int, NEW peers \in BOOLEAN, Take(i, peers),
         worker.at \in {"wait", "read"}, wire' \subseteq wire
  PROVE  AnnInv'
<1>1. worker \in Worker /\ worker.interval \in Int
  BY DEF AnnInv, Typing, Worker
<1> DEFINE best == Larger(worker.interval, Larger(60, i))
<1>2. best \in Int /\ best >= worker.interval /\ best >= Larger(60, i)
      /\ (best = worker.interval \/ best = Larger(60, i))
      /\ Larger(60, i) >= 60
  BY <1>1 DEF Larger
<1>3. /\ worker' \in Worker /\ worker'.at = "next" /\ worker'.tracker >= 1
      /\ worker'.interval = best
  <2> HIDE DEF best
  <2>1. worker' = [worker EXCEPT !.at = "next", !.tracker = @ + 1,
                                 !.interval = best,
                                 !.reported = @ \/ peers]
    BY <1>1 DEF Take, Answered, Passed, Worker, best
  <2>2. (worker.reported \/ peers) \in BOOLEAN
    BY <1>1 DEF Worker
  <2>3. worker.tracker + 1 \in Nat /\ worker.tracker + 1 >= 1
    BY <1>1 DEF Worker
  <2> QED  BY <1>1, <1>2, <2>1, <2>2, <2>3 DEF Worker
<1>4. IsFiniteSet(wire')
  BY FS_Subset DEF AnnInv, Typing
<1>5. /\ plan' = plan /\ seen'.asked = seen.asked \cup {i}
      /\ seen'.spent = seen.spent /\ seen'.fruitless = seen.fruitless
      /\ seen' \in [asked : SUBSET Int, fruitless : 0 .. LongestStreak, spent : Nat]
  BY DEF Take, AnnInv, Typing
<1>6. Typing'
  <2> HIDE DEF best
  <2> QED  BY <1>3, <1>4, <1>5 DEF AnnInv, Typing
<1>7. Budget' /\ Fresh' /\ Streak'
  BY <1>3, <1>5 DEF AnnInv, Budget, Fresh, Streak
<1>8. Result'
  <2>1. \A a \in seen.asked : Larger(60, a) <= worker.interval /\ Larger(60, a) \in Int
    <3>1. \A a \in Int : Larger(60, a) \in Int
      BY DEF Larger
    <3> QED  BY <3>1 DEF AnnInv, Result, Typing
  <2> HIDE DEF best
  <2>2. \A a \in seen'.asked : Larger(60, a) <= worker'.interval
    BY <1>1, <1>2, <1>3, <1>5, <2>1
  <2>3. worker'.interval = 30 \/ \E a \in seen'.asked : worker'.interval = Larger(60, a)
    BY <1>1, <1>2, <1>3, <1>5 DEF AnnInv, Result
  <2> QED  BY <2>2, <2>3 DEF Result
<1> QED  BY <1>6, <1>7, <1>8 DEF AnnInv

-----------------------------------------------------------------------------
(* Every step keeps the invariant.                                          *)

LEMMA StartKeeps == AnnInv /\ StartRound => AnnInv'
<1> SUFFICES ASSUME AnnInv, StartRound  PROVE AnnInv'
  OBVIOUS
<1>1. /\ worker' \in Worker /\ worker'.at = "next" /\ worker'.tracker = 1
      /\ worker'.interval = 30
  <2>1. 0 \in 0 .. 1 /\ 0 \in 0 .. 2 /\ 0 \in Nat /\ 1 \in Nat /\ 30 \in Int
    OBVIOUS
  <2>2. worker' = [at |-> "next", tracker |-> 1, step |-> "connect", attempt |-> 0,
                   left |-> 0, tx |-> 0, got |-> 0, interval |-> 30, reported |-> FALSE]
    BY DEF StartRound, Idle
  <2> QED  BY <2>1, <2>2 DEF Worker, Steps
<1>2. /\ wire' = wire /\ plan' = plan /\ seen'.asked = {}
      /\ seen'.spent = seen.spent /\ seen'.fruitless = seen.fruitless
      /\ seen' \in [asked : SUBSET Int, fruitless : 0 .. LongestStreak, spent : Nat]
  BY DEF StartRound, AnnInv, Typing
<1> QED
  BY <1>1, <1>2 DEF AnnInv, Typing, Budget, Fresh, Result, Streak

LEMMA OpenUdpKeeps == AnnInv /\ OpenUdp => AnnInv'
<1> SUFFICES ASSUME AnnInv, OpenUdp  PROVE AnnInv'
  OBVIOUS
<1>1. Visiting("udp") /\ plan' = plan /\ seen' = [seen EXCEPT !.spent = 0]
  BY DEF OpenUdp
<1>2. worker.at = "next" /\ worker.tracker \in DOMAIN Trackers /\ worker \in Worker
  BY <1>1, Listed DEF AnnInv, Typing
<1>3. PICK kept \in {{}} \cup {{d} : d \in wire} :
        /\ wire' = {[d EXCEPT !.late = TRUE] : d \in kept}
        /\ worker' = [worker EXCEPT !.at = "send", !.step = "connect",
                                    !.attempt = 0,
                                    !.tx = Unused({d.tx : d \in kept})]
  BY DEF OpenUdp
<1> DEFINE used == {d.tx : d \in kept}
           n == Unused(used)
<1>4. n \in Nat /\ n \notin used
  <2>1. IsFiniteSet(used)
    <3>1. CASE kept = {}
      BY <3>1, FS_EmptySet
    <3>2. CASE \E d \in wire : kept = {d}
      <4>1. PICK d \in wire : kept = {d}
        BY <3>2
      <4>2. used = {d.tx}
        BY <4>1
      <4> QED  BY <4>2, FS_Singleton
    <3> QED  BY <1>3, <3>1, <3>2
  <2> HIDE DEF used
  <2> QED  BY <2>1, UnusedIsNew
<1>5. /\ worker' \in Worker /\ worker'.at = "send" /\ worker'.step = "connect"
      /\ worker'.attempt = 0 /\ worker'.tracker = worker.tracker
      /\ worker'.interval = worker.interval /\ worker'.tx = n
  <2>1. worker' = [worker EXCEPT !.at = "send", !.step = "connect",
                                 !.attempt = 0, !.tx = n]
    BY <1>3
  <2>2. 0 \in 0 .. 1
    OBVIOUS
  <2> HIDE DEF n
  <2> QED  BY <1>2, <1>4, <2>1, <2>2 DEF Worker, Steps
<1>6. /\ seen'.asked = seen.asked /\ seen'.spent = 0
      /\ seen'.fruitless = seen.fruitless
      /\ seen' \in [asked : SUBSET Int, fruitless : 0 .. LongestStreak, spent : Nat]
  BY <1>1 DEF AnnInv, Typing
<1>7. \A d \in wire : /\ [d EXCEPT !.late = TRUE] \in Message
                    /\ [d EXCEPT !.late = TRUE].tx = d.tx
  BY DEF AnnInv, Typing, Message
<1>8. IsFiniteSet(wire')
  <2>1. CASE kept = {}
    BY <1>3, <2>1, FS_EmptySet
  <2>2. CASE \E d \in wire : kept = {d}
    <3>1. PICK d \in wire : kept = {d}
      BY <2>2
    <3>2. wire' = {[d EXCEPT !.late = TRUE]}
      BY <1>3, <3>1
    <3> QED  BY <3>2, FS_Singleton
  <2> QED  BY <1>3, <2>1, <2>2
<1>9. wire' \subseteq Message /\ \A d \in wire' : d.tx # n
  <2> HIDE DEF n
  <2> SUFFICES ASSUME NEW d \in wire'  PROVE d \in Message /\ d.tx # n
    OBVIOUS
  <2>1. PICK e \in kept : d = [e EXCEPT !.late = TRUE]
    BY <1>3
  <2>2. e \in wire /\ e.tx \in used
    BY <1>3, <2>1
  <2> QED  BY <1>4, <1>7, <2>1, <2>2
<1> HIDE DEF n
<1>10. Typing'
  BY <1>1, <1>2, <1>5, <1>6, <1>8, <1>9, AnnounceAssumption DEF AnnInv, Typing
<1>11. Budget'
  BY <1>5, <1>6 DEF Budget, Rest
<1>12. Fresh' /\ Result' /\ Streak'
  BY <1>1, <1>2, <1>5, <1>6, <1>9 DEF AnnInv, Fresh, Result, Streak
<1> QED  BY <1>10, <1>11, <1>12 DEF AnnInv

(* A request is sent, for the first or the second time.                      *)
LEMMA SendKeeps == AnnInv /\ SendRequest => AnnInv'
<1> SUFFICES ASSUME AnnInv, SendRequest  PROVE AnnInv'
  OBVIOUS
<1>1. worker \in Worker /\ worker.at = "send" /\ worker.attempt \in 0 .. 1
  BY DEF SendRequest, AnnInv, Typing, Worker
<1> DEFINE w == 2 ^ worker.attempt
<1>2. w = IF worker.attempt = 0 THEN 1 ELSE 2
  <2>1. 2 ^ 0 = 1 /\ 2 ^ 1 = 2
    BY SMT
  <2>2. CASE worker.attempt = 0
    BY <2>1, <2>2
  <2>3. CASE worker.attempt = 1
    BY <2>1, <2>3
  <2> QED  BY <1>1, <2>2, <2>3
<1> HIDE DEF w
<1>3. worker' = [worker EXCEPT !.at = "wait", !.left = w]
  BY DEF SendRequest, w
<1>4. /\ worker' \in Worker /\ worker'.at = "wait" /\ worker'.left = w
      /\ worker'.step = worker.step /\ worker'.attempt = worker.attempt
      /\ worker'.interval = worker.interval /\ worker'.tx = worker.tx
      /\ worker'.tracker = worker.tracker
  BY <1>1, <1>2, <1>3 DEF Worker
<1>5. wire' = wire /\ plan' = plan /\ seen' = seen
  BY DEF SendRequest
<1>6. Typing'
  BY <1>1, <1>4, <1>5 DEF AnnInv, Typing
<1>7. Rest' = Rest
  BY <1>1, <1>2, <1>4 DEF Rest
<1>8. Budget' /\ Fresh' /\ Result' /\ Streak'
  BY <1>1, <1>4, <1>5, <1>7 DEF AnnInv, Budget, Fresh, Result, Streak
<1> QED  BY <1>6, <1>8 DEF AnnInv

LEMMA TimeKeeps == AnnInv /\ TimePasses => AnnInv'
<1> SUFFICES ASSUME AnnInv, TimePasses  PROVE AnnInv'
  OBVIOUS
<1>1. worker \in Worker /\ worker.at = "wait" /\ worker.left \in Nat \ {0}
  BY DEF TimePasses, AnnInv, Typing, Worker
<1>2. /\ worker' \in Worker /\ worker'.at = "wait"
      /\ worker'.left = worker.left - 1
      /\ worker'.step = worker.step /\ worker'.attempt = worker.attempt
      /\ worker'.interval = worker.interval /\ worker'.tx = worker.tx
      /\ worker'.tracker = worker.tracker
  <2>1. worker.left - 1 \in Nat
    BY <1>1
  <2> QED  BY <1>1, <2>1 DEF TimePasses, Worker
<1>3. Rest \in Nat /\ Rest' = Rest - 1 /\ seen.spent + Rest <= 6 /\ Rest >= 1
  BY <1>1, <1>2 DEF Rest, AnnInv, Budget
<1>4. /\ wire' = wire /\ plan' = plan
      /\ seen'.asked = seen.asked /\ seen'.fruitless = seen.fruitless
      /\ seen'.spent = seen.spent + 1
      /\ seen' \in [asked : SUBSET Int, fruitless : 0 .. LongestStreak, spent : Nat]
  <2>1. seen \in [asked : SUBSET Int, fruitless : 0 .. LongestStreak, spent : Nat]
    BY DEF AnnInv, Typing
  <2>2. Smaller(seen.spent + 1, LongestVisit) = seen.spent + 1 /\ seen.spent + 1 \in Nat
    BY <1>3, <2>1 DEF Smaller, LongestVisit
  <2> QED  BY <2>1, <2>2 DEF TimePasses
<1>5. Typing'
  BY <1>1, <1>2, <1>4 DEF AnnInv, Typing
<1>6. Budget'
  <2>1. seen.spent \in Nat
    BY DEF AnnInv, Typing
  <2> QED  BY <1>3, <1>4, <2>1 DEF Budget
<1>7. Fresh' /\ Result' /\ Streak'
  BY <1>1, <1>2, <1>4 DEF AnnInv, Fresh, Result, Streak
<1> QED  BY <1>5, <1>6, <1>7 DEF AnnInv

LEMMA TimeOutKeeps == AnnInv /\ TimeOut => AnnInv'
<1> SUFFICES ASSUME AnnInv, TimeOut  PROVE AnnInv'
  OBVIOUS
<1>1. worker \in Worker /\ worker.at = "wait" /\ worker.left = 0 /\ wire' = wire
  BY DEF TimeOut, AnnInv, Typing
<1>2. CASE Pass
  BY <1>1, <1>2, PassKeeps
<1>3. CASE ~GivesUp /\ worker' = [worker EXCEPT !.at = "send", !.attempt = 1]
           /\ UNCHANGED <<plan, seen>>
  <2>1. worker.attempt = 0
    BY <1>1, <1>3 DEF GivesUp, Worker
  <2>2. /\ worker' \in Worker /\ worker'.at = "send" /\ worker'.attempt = 1
        /\ worker'.step = worker.step /\ worker'.tracker = worker.tracker
        /\ worker'.interval = worker.interval /\ worker'.tx = worker.tx
    <3>1. 1 \in 0 .. 1
      OBVIOUS
    <3> QED  BY <1>1, <1>3, <3>1 DEF Worker
  <2>3. Rest' = Rest
    BY <1>1, <2>1, <2>2 DEF Rest
  <2>4. Typing'
    BY <1>1, <1>3, <2>2 DEF AnnInv, Typing
  <2>5. Budget' /\ Fresh' /\ Result' /\ Streak'
    BY <1>1, <1>3, <2>2, <2>3 DEF AnnInv, Budget, Fresh, Result, Streak
  <2> QED  BY <2>4, <2>5 DEF AnnInv
<1> QED  BY <1>2, <1>3 DEF TimeOut

(* A tracker answers: the answer is to this request, and there is no other.  *)
LEMMA AnswerKeeps == AnnInv /\ TrackerAnswers => AnnInv'
<1> SUFFICES ASSUME AnnInv, TrackerAnswers  PROVE AnnInv'
  OBVIOUS
<1>1. /\ worker.at = "wait" /\ UNCHANGED <<worker, plan, seen>>
      /\ worker \in Worker /\ wire \subseteq Message /\ IsFiniteSet(wire)
      /\ worker.tracker \in DOMAIN Trackers /\ Visited.intervals \subseteq Int
  BY InUse DEF TrackerAnswers, AnnInv, Typing
<1>2. PICK answer \in Answers(worker.step) :
        wire' = wire \cup {[answer EXCEPT !.from = Visited.url, !.tx = worker.tx]}
  BY DEF TrackerAnswers
<1>3. /\ Datagram \in Message /\ Datagram.kind = "ok"
      /\ Datagram.step = "connect" /\ Datagram.late = FALSE
  BY DEF Datagram, Message, Steps
<1>4. worker.step \in Steps /\ worker.tx \in Nat
  BY <1>1 DEF Worker
<1>5. answer \in Message /\ answer.late = FALSE /\ answer.step = worker.step
  <2>1. CASE \E kind \in {"error", "short"} :
               answer = [Datagram EXCEPT !.step = worker.step, !.kind = kind]
    BY <1>3, <1>4, <2>1 DEF Message
  <2>2. CASE worker.step = "connect" /\ answer = Datagram
    BY <1>3, <2>2
  <2>3. CASE \E reply \in [interval : Visited.intervals, peers : BOOLEAN] :
               answer = [Datagram EXCEPT !.step = worker.step,
                                         !.interval = reply.interval,
                                         !.peers = reply.peers]
    <3>1. PICK reply \in [interval : Visited.intervals, peers : BOOLEAN] :
               answer = [Datagram EXCEPT !.step = worker.step,
                                         !.interval = reply.interval,
                                         !.peers = reply.peers]
      BY <2>3
    <3>2. reply.interval \in Int /\ reply.peers \in BOOLEAN
      BY <1>1
    <3> QED  BY <1>3, <1>4, <3>1, <3>2 DEF Message
  <2> QED  BY <1>2, <2>1, <2>2, <2>3 DEF Answers
<1> DEFINE d == [answer EXCEPT !.from = Visited.url, !.tx = worker.tx]
<1>6. d \in Message /\ d.late = FALSE /\ d.step = worker.step
  BY <1>1, <1>4, <1>5 DEF Message, Visited
<1> HIDE DEF d
<1>7. wire' = wire \cup {d}
  BY <1>2 DEF d
<1>8. IsFiniteSet(wire')
  BY <1>1, <1>7, FS_AddElement
<1>9. Typing'
  BY <1>1, <1>6, <1>7, <1>8 DEF AnnInv, Typing
<1>10. Fresh'
  BY <1>1, <1>6, <1>7 DEF AnnInv, Fresh
<1>11. Budget' /\ Result' /\ Streak'
  BY <1>1 DEF AnnInv, Budget, Rest, Result, Streak
<1> QED  BY <1>9, <1>10, <1>11 DEF AnnInv

(* A datagram comes.                                                         *)
LEMMA DatagramKeeps ==
  ASSUME AnnInv, NEW d \in wire,
         Ignore(d) \/ Refuse(d) \/ Connected(d) \/ Announced(d)
  PROVE  AnnInv'
<1>1. /\ worker.at = "wait" /\ wire' \subseteq wire /\ worker \in Worker
      /\ worker.tracker \in DOMAIN Trackers
      /\ wire \subseteq Message /\ IsFiniteSet(wire) /\ d \in Message
  BY DEF Ignore, Refuse, Connected, Announced, Receive, AnnInv, Typing
<1>2. IsFiniteSet(wire')
  BY <1>1, FS_Subset
<1>3. CASE Ignore(d)
  <2>1. worker' = worker /\ plan' = plan /\ seen' = seen
    BY <1>3 DEF Ignore, AfterIgnored
  <2>2. Typing'
    BY <1>1, <1>2, <2>1 DEF AnnInv, Typing
  <2>3. Budget' /\ Fresh' /\ Result' /\ Streak'
    BY <1>1, <2>1 DEF AnnInv, Budget, Rest, Fresh, Result, Streak
  <2> QED  BY <2>2, <2>3 DEF AnnInv
<1>4. CASE Refuse(d)
  BY <1>1, <1>4, PassKeeps DEF Refuse
<1>5. CASE Announced(d)
  <2>1. d.interval \in Int /\ d.peers \in BOOLEAN
    BY <1>1 DEF Message
  <2> QED  BY <1>1, <1>5, <2>1, PassKeeps, TakeKeeps DEF Announced
<1>6. CASE Connected(d)
  <2> DEFINE used == {e.tx : e \in wire} \cup {worker.tx}
             n == Unused(used)
  <2>1. worker.step = "connect" /\ plan' = plan /\ seen' = seen
        /\ worker' = [worker EXCEPT !.at = "send", !.step = "announce",
                                    !.attempt = 0, !.tx = n]
    BY <1>6 DEF Connected
  <2>2. n \in Nat /\ n \notin used
    <3>1. IsFiniteSet({e.tx : e \in wire})
      BY <1>1, FiniteTransactions
    <3>2. IsFiniteSet(used)
      BY <3>1, FS_AddElement
    <3> HIDE DEF used
    <3> QED  BY <3>2, UnusedIsNew
  <2> HIDE DEF n
  <2>3. /\ worker' \in Worker /\ worker'.at = "send" /\ worker'.step = "announce"
        /\ worker'.attempt = 0 /\ worker'.tracker = worker.tracker
        /\ worker'.interval = worker.interval /\ worker'.tx = n
    <3>1. 0 \in 0 .. 1
      OBVIOUS
    <3> QED  BY <1>1, <2>1, <2>2, <3>1 DEF Worker, Steps
  <2>4. \A e \in wire' : e.tx # n
    BY <1>1, <2>2
  <2>5. Typing'
    BY <1>1, <1>2, <2>1, <2>3 DEF AnnInv, Typing
  <2>6. Budget'
    <3>1. Rest >= 3 /\ Rest' = 3 /\ Rest \in Int
      BY <1>1, <2>1, <2>3 DEF Rest, Worker
    <3>2. seen.spent \in Nat /\ seen.spent + Rest <= 6
      BY <1>1 DEF AnnInv, Typing, Budget
    <3> QED  BY <2>1, <2>3, <3>1, <3>2 DEF Budget
  <2>7. Fresh' /\ Result' /\ Streak'
    BY <1>1, <2>1, <2>3, <2>4 DEF AnnInv, Fresh, Result, Streak
  <2> QED  BY <2>5, <2>6, <2>7 DEF AnnInv
<1> QED  BY <1>3, <1>4, <1>5, <1>6

LEMMA RoundKeeps ==
  ASSUME AnnInv, EndRound \/ OpenHttp \/ ReadResponse \/ Collect
  PROVE  AnnInv'
<1>1. worker \in Worker
  BY DEF AnnInv, Typing
<1>2. CASE EndRound \/ OpenHttp \/ ReadResponse
  <2>1. /\ worker.at # "idle" /\ UNCHANGED <<wire, plan, seen>>
        /\ worker' \in Worker /\ worker'.at \in {"done", "read"}
        /\ worker'.at = "read" => worker'.tracker \in DOMAIN Trackers
        /\ worker'.tracker = worker.tracker /\ worker'.interval = worker.interval
    <3>1. CASE EndRound
      BY <1>1, <3>1 DEF EndRound, Worker
    <3>2. CASE OpenHttp
      <4>1. worker.at = "next" /\ worker.tracker \in DOMAIN Trackers
        BY <3>2, Listed DEF OpenHttp, AnnInv
      <4>2. 0 \in 0 .. 2
        OBVIOUS
      <4> QED  BY <1>1, <3>2, <4>1, <4>2 DEF OpenHttp, Worker
    <3>3. CASE ReadResponse
      <4>1. worker.got + 1 \in 0 .. 2 /\ worker.at = "read"
        BY <1>1, <3>3 DEF ReadResponse, Worker
      <4> QED  BY <1>1, <3>3, <4>1 DEF ReadResponse, Worker, AnnInv, Typing
    <3> QED  BY <1>2, <3>1, <3>2, <3>3
  <2>2. Typing'
    BY <2>1 DEF AnnInv, Typing
  <2>3. Budget' /\ Fresh' /\ Result' /\ Streak'
    BY <2>1 DEF AnnInv, Budget, Fresh, Result, Streak
  <2> QED  BY <2>2, <2>3 DEF AnnInv
<1>3. CASE Collect
  <2> DEFINE failures == IF worker.reported THEN 0 ELSE Smaller(plan.failures + 1, 5)
             fruitless == IF worker.reported THEN 0
                          ELSE Smaller(seen.fruitless + 1, LongestStreak)
             interval == Pause(worker.interval, failures)
  <2>1. /\ worker' = Idle /\ wire' = wire
        /\ plan' = [interval |-> interval, failures |-> failures]
        /\ seen' = [seen EXCEPT !.fruitless = fruitless]
    BY <1>3 DEF Collect
  <2>2. /\ plan \in [interval : Int, failures : 0 .. 5]
        /\ seen \in [asked : SUBSET Int, fruitless : 0 .. LongestStreak, spent : Nat]
        /\ plan.failures = Smaller(seen.fruitless, 5) /\ worker.interval \in Int
    BY <1>1 DEF AnnInv, Typing, Streak, Worker
  <2>3. /\ fruitless \in 0 .. LongestStreak /\ failures \in 0 .. 5
        /\ failures = Smaller(fruitless, 5)
    BY <2>2 DEF Smaller, LongestStreak
  <2>4. interval \in Int
    BY <2>2, <2>3, DelayFits DEF Pause, Larger
  <2> HIDE DEF failures, fruitless, interval
  <2>5. Idle \in Worker /\ Idle.at = "idle"
    <3>1. 0 \in 0 .. 1 /\ 0 \in 0 .. 2 /\ 0 \in Nat /\ 30 \in Int
      OBVIOUS
    <3> QED  BY <3>1 DEF Idle, Worker, Steps
  <2>6. Typing'
    BY <2>1, <2>2, <2>3, <2>4, <2>5 DEF AnnInv, Typing
  <2>7. Budget' /\ Fresh' /\ Result' /\ Streak'
    BY <2>1, <2>2, <2>3, <2>5 DEF AnnInv, Budget, Fresh, Result, Streak
  <2> QED  BY <2>6, <2>7 DEF AnnInv
<1> QED  BY <1>2, <1>3

LEMMA NextKeeps == AnnInv /\ [Next]_vars => AnnInv'
<1> SUFFICES ASSUME AnnInv, [Next]_vars  PROVE AnnInv'
  OBVIOUS
<1>1. CASE UNCHANGED vars
  BY <1>1 DEF vars, AnnInv, Typing, Budget, Rest, Fresh, Result, Streak
<1>2. CASE SkipTracker \/ CannotReach \/ CannotSend
  <2>1. Pass /\ wire' = wire /\ worker.at \in {"next", "send"}
    BY <1>2 DEF SkipTracker, CannotReach, CannotSend, Visiting
  <2> QED  BY <2>1, PassKeeps
<1>3. CASE ParseResponse
  <2>1. worker.at = "read" /\ wire' = wire
        /\ \/ Pass
           \/ \E i \in Visited.intervals, peers \in BOOLEAN : Take(i, peers)
    BY <1>3 DEF ParseResponse
  <2>2. Visited.intervals \subseteq Int
    BY <2>1, InUse DEF AnnInv
  <2>3. CASE Pass
    BY <2>1, <2>3, PassKeeps
  <2>4. CASE \E i \in Visited.intervals, peers \in BOOLEAN : Take(i, peers)
    BY <2>1, <2>2, <2>4, TakeKeeps
  <2> QED  BY <2>1, <2>3, <2>4
<1>4. CASE EndRound \/ OpenHttp \/ ReadResponse \/ Collect
  BY <1>4, RoundKeeps
<1>5. CASE \/ StartRound \/ OpenUdp \/ SendRequest \/ TimePasses \/ TimeOut
           \/ TrackerAnswers
  BY <1>5, StartKeeps, OpenUdpKeeps, SendKeeps, TimeKeeps, TimeOutKeeps, AnswerKeeps
<1>6. CASE \E d \in wire : Ignore(d) \/ Refuse(d) \/ Connected(d) \/ Announced(d)
  BY <1>6, DatagramKeeps
<1> QED  BY <1>1, <1>2, <1>3, <1>4, <1>5, <1>6 DEF Next, Work

THEOREM AnnInvHolds == Spec => []AnnInv
  BY InitInv, NextKeeps, PTL DEF Spec

-----------------------------------------------------------------------------
(* The theorems.                                                            *)

(* tracker_announce_udp is done with a tracker in 90 s, however many stale   *)
(* or repeated datagrams keep coming while it waits.                        *)
THEOREM VisitsEndInTime == Spec => []VisitsAreBounded
<1>1. AnnInv => VisitsAreBounded
  BY DEF AnnInv, Budget, VisitsAreBounded
<1> QED  BY <1>1, AnnInvHolds, PTL

(* What makes the worker go on to the announce step, or adds to its result,  *)
(* is a good answer to the very request that it waits for.                  *)
THEOREM AnswersAreToTheRequest == Spec => AnswersBelong
<1>1. ASSUME AnnInv, Next, worker.at = "wait",
             worker'.step # worker.step \/ seen'.asked # seen.asked
      PROVE  \E d \in wire :
               ~d.late /\ d.tx = worker.tx /\ d.step = worker.step /\ d.kind = "ok"
  <2>0. worker \in Worker
    BY <1>1 DEF AnnInv, Typing
  <2>1. ~Pass
    BY <1>1, <2>0 DEF Pass, Passed, Worker
  <2>2. ~TimePasses
    BY <1>1, <2>0 DEF TimePasses, Worker, AnnInv, Typing
  <2>3. ~TimeOut
    BY <1>1, <2>0, <2>1 DEF TimeOut, Worker
  <2>4. PICK d \in wire : Ignore(d) \/ Refuse(d) \/ Connected(d) \/ Announced(d)
    BY <1>1, <2>1, <2>2, <2>3
       DEF Next, Work, StartRound, SkipTracker, CannotReach, EndRound, OpenUdp,
           SendRequest, CannotSend, OpenHttp, ReadResponse, ParseResponse, Collect,
           TrackerAnswers, Visiting
  <2>5. ~Ignore(d) /\ ~Refuse(d)
    BY <1>1, <2>1 DEF Ignore, AfterIgnored, Refuse
  <2>6. d.tx = worker.tx /\ d.kind = "ok"
    BY <2>4, <2>5 DEF Connected, Announced, Matches
  <2>7. ~d.late /\ d.step = worker.step
    BY <1>1, <2>6 DEF AnnInv, Fresh
  <2> QED  BY <2>6, <2>7
<1>2. AnnInv /\ [Next]_vars =>
        [worker.at = "wait" /\ (worker'.step # worker.step \/ seen'.asked # seen.asked) =>
           \E d \in wire :
             ~d.late /\ d.tx = worker.tx /\ d.step = worker.step /\ d.kind = "ok"]_vars
  BY <1>1
<1> QED  BY <1>2, AnnInvHolds, PTL DEF Spec, AnswersBelong

(* The pause that collect_discovery sets is as long as every tracker that    *)
(* answered wants, backs off while rounds bring no peers, and is no longer   *)
(* than the longest of what the trackers want and 300 s.                     *)
THEOREM PausesAlwaysFit == Spec => PausesFit
<1>1. ASSUME AnnInv, Next, worker.at = "done"
      PROVE  /\ \A asked \in seen.asked : plan'.interval >= Larger(60, asked)
             /\ seen'.fruitless > 0 =>
                  plan'.interval >= Smaller(300, 30 * 2 ^ (seen'.fruitless - 1))
             /\ plan'.interval <= Max(seen.asked \cup {300})
  <2> DEFINE failures == IF worker.reported THEN 0 ELSE Smaller(plan.failures + 1, 5)
             fruitless == IF worker.reported THEN 0
                          ELSE Smaller(seen.fruitless + 1, LongestStreak)
             delay == RetryDelay(failures)
  <2>0. Collect
    BY <1>1
       DEF Next, Work, StartRound, SkipTracker, CannotReach, EndRound, OpenUdp,
           SendRequest, CannotSend, TimePasses, TimeOut, OpenHttp, ReadResponse,
           ParseResponse, TrackerAnswers, Visiting, Ignore, Refuse, Connected,
           Announced, Receive
  <2>1. /\ plan'.interval = Pause(worker.interval, failures)
        /\ seen'.fruitless = fruitless
    BY <1>1, <2>0 DEF Collect, AnnInv, Typing
  <2>2. /\ plan \in [interval : Int, failures : 0 .. 5]
        /\ seen \in [asked : SUBSET Int, fruitless : 0 .. LongestStreak, spent : Nat]
        /\ plan.failures = Smaller(seen.fruitless, 5) /\ worker.interval \in Int
    BY <1>1 DEF AnnInv, Typing, Streak, Worker
  <2>3. /\ fruitless \in 0 .. LongestStreak /\ failures \in 0 .. 5
        /\ failures = Smaller(fruitless, 5) /\ (fruitless > 0 <=> failures > 0)
    BY <2>2 DEF Smaller, LongestStreak
  <2>4. /\ delay \in 30 .. 300
        /\ fruitless > 0 => delay >= Smaller(300, 30 * 2 ^ (fruitless - 1))
    <3> HIDE DEF failures, fruitless
    <3> QED  BY <2>3, DelayFits
  <2>5. /\ \A a \in seen.asked : Larger(60, a) <= worker.interval
        /\ worker.interval = 30 \/ \E a \in seen.asked : worker.interval = Larger(60, a)
    BY <1>1 DEF AnnInv, Result
  <2> HIDE DEF failures, fruitless, delay
  <2>6. /\ plan'.interval \in Int
        /\ plan'.interval >= worker.interval
        /\ fruitless > 0 => plan'.interval >= delay
        /\ plan'.interval = worker.interval \/ plan'.interval = delay
    BY <2>1, <2>2, <2>3, <2>4 DEF Pause, Larger, delay
  <2>7. \A a \in seen.asked : plan'.interval >= Larger(60, a)
    <3>1. \A a \in Int : Larger(60, a) \in Int
      BY DEF Larger
    <3> QED  BY <2>2, <2>5, <2>6, <3>1
  <2>8. seen'.fruitless > 0 =>
          plan'.interval >= Smaller(300, 30 * 2 ^ (seen'.fruitless - 1))
    <3> DEFINE least == Smaller(300, 30 * 2 ^ (fruitless - 1))
    <3>1. fruitless > 0 => least \in Int
      <4>1. fruitless > 0 => fruitless - 1 \in {0, 1, 2, 3, 4, 5}
        BY <2>3 DEF LongestStreak
      <4>2. \A k \in {0, 1, 2, 3, 4, 5} : Smaller(300, 30 * 2 ^ k) \in Int
        <5>1. /\ 2 ^ 0 = 1 /\ 2 ^ 1 = 2 /\ 2 ^ 2 = 4 /\ 2 ^ 3 = 8 /\ 2 ^ 4 = 16
              /\ 2 ^ 5 = 32
          BY SMT
        <5>2. \A k \in {0, 1, 2, 3, 4, 5} : 2 ^ k \in Int
          BY <5>1
        <5> QED  BY <5>2 DEF Smaller
      <4> QED  BY <4>1, <4>2
    <3> HIDE DEF least
    <3>2. fruitless > 0 => plan'.interval >= least
      BY <2>4, <2>6, <3>1 DEF least
    <3> QED  BY <2>1, <3>2 DEF least
  <2>9. plan'.interval <= Max(seen.asked \cup {300})
    <3> DEFINE S == seen.asked \cup {300}
               m == Larger(300, worker.interval)
    <3>1. m \in S /\ m \in Int /\ \A a \in S : m >= a
      BY <2>2, <2>5 DEF Larger
    <3>2. Max(S) \in S /\ \A a \in S : Max(S) >= a
      <4> HIDE DEF S, m
      <4>1. \E x \in S : \A a \in S : x >= a
        BY <3>1
      <4> QED  BY <4>1 DEF Max
    <3>3. Max(S) >= m /\ Max(S) \in Int
      BY <2>2, <3>1, <3>2
    <3>4. m >= plan'.interval
      BY <2>2, <2>4, <2>6 DEF Larger
    <3> HIDE DEF S, m
    <3>5. plan'.interval <= Max(S)
      BY <2>6, <3>1, <3>3, <3>4
    <3> QED  BY <3>5 DEF S
  <2> QED  BY <2>7, <2>8, <2>9
<1>2. AnnInv /\ [Next]_vars =>
        [worker.at = "done" =>
           /\ \A asked \in seen.asked : plan'.interval >= Larger(60, asked)
           /\ seen'.fruitless > 0 =>
                plan'.interval >= Smaller(300, 30 * 2 ^ (seen'.fruitless - 1))
           /\ plan'.interval <= Max(seen.asked \cup {300})]_vars
  BY <1>1
<1> QED  BY <1>2, AnnInvHolds, PTL DEF Spec, PausesFit
=============================================================================
