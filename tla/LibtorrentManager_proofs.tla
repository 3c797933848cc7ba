---------------------- MODULE LibtorrentManager_proofs ----------------------
(***************************************************************************)
(* The safety properties of LibtorrentManager, proved for any torrents and    *)
(* any capacity, with as many alerts waiting as there may be.               *)
(*                                                                          *)
(* An operation is described by what it leaves alone: alerts and status       *)
(* queries change states only (Restated), and the handlers one entry.        *)
(***************************************************************************)
EXTENDS LibtorrentManager, FiniteSetTheorems, WellFoundedInduction, TLAPS

-----------------------------------------------------------------------------
(* Induction over a length, and functions defined by recursion over one.     *)

LEMMA LeastNatural ==
  ASSUME NEW S, S \subseteq Nat, S # {}
  PROVE  \E n \in S : \A k \in S : n <= k
<1>1. PICK n \in S : \A k \in S : <<k, n>> \notin OpToRel(<, Nat)
  BY NatLessThanWellFounded, WFMin
<1>2. \A k \in S : ~(k < n)
  BY <1>1 DEF OpToRel
<1> QED  BY <1>2

LEMMA UpTo ==
  ASSUME NEW n \in Nat, NEW Good, 0 \in Good,
         \A k \in 1 .. n : k - 1 \in Good => k \in Good
  PROVE  \A k \in 0 .. n : k \in Good
<1> DEFINE Bad == {k \in 0 .. n : k \notin Good}
<1> SUFFICES ASSUME Bad # {}  PROVE FALSE
  OBVIOUS
<1>1. Bad \subseteq Nat
  OBVIOUS
<1> HIDE DEF Bad
<1>2. PICK l \in Bad : \A k \in Bad : l <= k
  BY <1>1, LeastNatural
<1>3. l \in 0 .. n /\ l \notin Good
  BY <1>2 DEF Bad
<1>4. l \in 1 .. n /\ l - 1 \in 0 .. n /\ ~(l <= l - 1)
  BY <1>3
<1>5. l - 1 \in Good
  BY <1>2, <1>4 DEF Bad
<1> QED  BY <1>3, <1>4, <1>5

LEMMA IterationExists ==
  ASSUME NEW S, NEW s \in S, NEW n \in Nat, NEW step \in [S \X (1 .. n) -> S]
  PROVE  \E f \in [0 .. n -> S] :
           f[0] = s /\ \A k \in 1 .. n : f[k] = step[<<f[k - 1], k>>]
<1> DEFINE Is(f, l) == f[0] = s /\ \A k \in 1 .. l : f[k] = step[<<f[k - 1], k>>]
           Good == {l \in 0 .. n : \E f \in [0 .. l -> S] : Is(f, l)}
<1>1. 0 \in Good
  <2> DEFINE f == [k \in 0 .. 0 |-> s]
  <2>1. f \in [0 .. 0 -> S] /\ f[0] = s
    OBVIOUS
  <2>2. 1 .. 0 = {} /\ 0 \in 0 .. n
    OBVIOUS
  <2> HIDE DEF f
  <2>3. Is(f, 0)
    BY <2>1, <2>2
  <2> QED  BY <2>1, <2>2, <2>3
<1>2. ASSUME NEW l \in 1 .. n, l - 1 \in Good  PROVE l \in Good
  <2>1. PICK f \in [0 .. l - 1 -> S] : Is(f, l - 1)
    BY <1>2
  <2>2. l - 1 \in 0 .. l - 1 /\ 0 \in 0 .. l - 1
    OBVIOUS
  <2>3. step[<<f[l - 1], l>>] \in S
    BY <2>2
  <2> DEFINE g == [k \in 0 .. l |-> IF k = l THEN step[<<f[l - 1], l>>] ELSE f[k]]
  <2>4. g \in [0 .. l -> S]
    BY <2>3
  <2>5. g[0] = s
    BY <2>1
  <2>6. ASSUME NEW k \in 1 .. l  PROVE g[k] = step[<<g[k - 1], k>>]
    <3>1. k - 1 \in 0 .. l - 1 /\ g[k - 1] = f[k - 1]
      OBVIOUS
    <3>2. CASE k = l
      <4>1. g[k] = step[<<f[l - 1], l>>] /\ g[k - 1] = f[l - 1]
        BY <3>1, <3>2
      <4> HIDE DEF g
      <4> QED  BY <3>2, <4>1
    <3>3. CASE k # l
      <4>1. k \in 1 .. l - 1 /\ g[k] = f[k]
        BY <3>3
      <4> QED  BY <2>1, <3>1, <4>1
    <3> QED  BY <3>2, <3>3
  <2> HIDE DEF g
  <2> QED  BY <2>4, <2>5, <2>6
<1> HIDE DEF Good
<1>3. n \in Good
  BY <1>1, <1>2, UpTo
<1> QED  BY <1>3 DEF Good

(* An entry of a sequence is removed.                                       *)
LEMMA RemovedElements ==
  ASSUME NEW S, NEW s \in Seq(S), NEW k \in DOMAIN s
  PROVE  LET t == RemoveAt(s, k)
         IN  /\ t \in Seq(S) /\ Len(t) = Len(s) - 1 /\ Len(s) \in Nat
             /\ k \in 1 .. Len(s)
             /\ \A i \in 1 .. Len(s) - 1 : t[i] = IF i < k THEN s[i] ELSE s[i + 1]
<1> DEFINE t == RemoveAt(s, k)
           below == SubSeq(s, 1, k - 1)
           above == SubSeq(s, k + 1, Len(s))
<1>1. Len(s) \in Nat /\ k \in 1 .. Len(s)
  OBVIOUS
<1>2. /\ below \in Seq(S) /\ Len(below) = k - 1
      /\ \A i \in 1 .. k - 1 : below[i] = s[i]
  BY <1>1
<1>3. /\ above \in Seq(S) /\ Len(above) = Len(s) - k
      /\ \A i \in 1 .. Len(s) - k : above[i] = s[k + i]
  BY <1>1
<1>4. t = below \o above
  BY DEF RemoveAt
<1> HIDE DEF t, below, above
<1>5. t \in Seq(S) /\ Len(t) = Len(s) - 1
  BY <1>1, <1>2, <1>3, <1>4
<1>6. ASSUME NEW i \in 1 .. Len(s) - 1
      PROVE  t[i] = IF i < k THEN s[i] ELSE s[i + 1]
  <2>1. CASE i < k
    BY <1>1, <1>2, <1>3, <1>4, <2>1
  <2>2. CASE ~(i < k)
    <3>1. t[i] = above[i - (k - 1)]
      BY <1>1, <1>2, <1>3, <1>4, <2>2
    <3>2. i - (k - 1) \in 1 .. Len(s) - k /\ k + (i - (k - 1)) = i + 1
      BY <1>1, <2>2
    <3>3. above[i - (k - 1)] = s[k + (i - (k - 1))]
      BY <1>3, <3>2
    <3> QED  BY <2>2, <3>1, <3>2, <3>3
  <2> QED  BY <2>1, <2>2
<1> QED  BY <1>1, <1>5, <1>6 DEF t

-----------------------------------------------------------------------------
(* The inductive invariant; TLC finds it to hold on the instance of the run   *)
(* backend.                                                                 *)

Entry == [hash : Hash, state : State, asked : {"stopped", "downloading"}]
SlotType == [params : Hash \cup {None}, handle : Handle \cup {None},
             added : BOOLEAN, paused : BOOLEAN]
Status == [hash : Hash, paused : BOOLEAN, finished : BOOLEAN, failed : BOOLEAN]
Alert == [kind : {"added", "finished", "error"}, handle : Handle]
Manager == [torrents : Seq(Entry), slots : Seq(SlotType),
            session : [Handle -> Status \cup {None}], alerts : Seq(Alert)]

Typed(s) == s \in Manager /\ Len(s.slots) = Len(s.torrents)

(* The library has only torrents of the table.                              *)
Covered(s) ==
  \A h \in Handle : s.session[h] # None => \E i \in DOMAIN s.slots : s.slots[i].handle = h

(* A slot is that of its entry: it will add its torrent, or has its handle.  *)
Matches(s, i) ==
  /\ s.slots[i].params \in {None, s.torrents[i].hash}
  /\ Valid(s, s.slots[i].handle) =>
       /\ s.slots[i].added
       /\ s.session[s.slots[i].handle].hash = s.torrents[i].hash

(* The pause kept in a slot is what the user asked last.                     *)
Agrees(s, i) ==
  Valid(s, s.slots[i].handle) =>
    s.torrents[i].asked = IF s.slots[i].paused THEN "stopped" ELSE "downloading"

Whole(s) ==
  Typed(s) /\ Len(s.torrents) <= Capacity /\ Covered(s)
    /\ \A i \in DOMAIN s.slots : Matches(s, i)

Sound(s) == Whole(s) /\ \A i \in DOMAIN s.slots : Agrees(s, i)

BackendInv == Sound(m)

LEMMA Domains ==
  ASSUME NEW s, Typed(s)
  PROVE  /\ Len(s.slots) \in Nat /\ Len(s.torrents) = Len(s.slots)
         /\ DOMAIN s.slots = 1 .. Len(s.slots) /\ DOMAIN s.torrents = 1 .. Len(s.slots)
         /\ \A i \in DOMAIN s.slots : s.slots[i] \in SlotType /\ s.torrents[i] \in Entry
  BY DEF Typed, Manager

-----------------------------------------------------------------------------
(* What changes states only.                                                *)

Restated(s, r) ==
  /\ Typed(r) /\ r.slots = s.slots /\ r.session = s.session
  /\ \A i \in DOMAIN s.torrents :
       r.torrents[i].hash = s.torrents[i].hash /\ r.torrents[i].asked = s.torrents[i].asked

LEMMA RestatedKeeps ==
  ASSUME NEW s, Typed(s), NEW r, Restated(s, r)
  PROVE  /\ Whole(s) => Whole(r)
         /\ \A i \in DOMAIN s.slots : Agrees(s, i) => Agrees(r, i)
<1>1. Len(r.torrents) = Len(s.torrents) /\ DOMAIN s.torrents = DOMAIN s.slots
  BY Domains DEF Restated, Typed
<1>2. Covered(s) => Covered(r)
  BY DEF Covered, Restated
<1>3. \A i \in DOMAIN s.slots : (Matches(s, i) => Matches(r, i)) /\ (Agrees(s, i) => Agrees(r, i))
  BY <1>1 DEF Matches, Agrees, Restated, Valid
<1> QED  BY <1>1, <1>2, <1>3 DEF Whole, Restated

LEMMA WithStateKeeps ==
  ASSUME NEW s, Typed(s), NEW i \in DOMAIN s.torrents, NEW state \in State
  PROVE  LET r == WithState(s, i, state)
         IN  /\ Restated(s, r) /\ r.alerts = s.alerts /\ r.torrents[i].state = state
             /\ \A k \in DOMAIN s.torrents : k # i => r.torrents[k] = s.torrents[k]
<1> DEFINE e == [s.torrents[i] EXCEPT !.state = state]
           t == [s.torrents EXCEPT ![i] = e]
           r == WithState(s, i, state)
<1>1. s \in Manager /\ s.torrents \in Seq(Entry) /\ s.torrents[i] \in Entry
  BY DEF Typed, Manager
<1>2. /\ e \in Entry /\ e.state = state /\ e.hash = s.torrents[i].hash
      /\ e.asked = s.torrents[i].asked
  BY <1>1 DEF Entry
<1>3. r = [s EXCEPT !.torrents = t]
  BY DEF WithState
<1> HIDE DEF e, r
<1>4. t \in Seq(Entry) /\ Len(t) = Len(s.torrents) /\ t[i] = e
      /\ \A k \in DOMAIN s.torrents : k # i => t[k] = s.torrents[k]
  BY <1>1, <1>2
<1> HIDE DEF t
<1>5. /\ r \in Manager /\ r.torrents = t /\ r.slots = s.slots /\ r.session = s.session
      /\ r.alerts = s.alerts
  BY <1>1, <1>3, <1>4 DEF Manager
<1> QED  BY <1>2, <1>4, <1>5 DEF Restated, Typed, r

LEMMA RestatedTwice ==
  ASSUME NEW s, Typed(s), NEW r, Restated(s, r), NEW u, Restated(r, u)
  PROVE  Restated(s, u)
<1>1. DOMAIN r.torrents = DOMAIN s.torrents
  BY Domains DEF Restated
<1> QED  BY <1>1 DEF Restated

(* The entry that an alert reaches is one of the table.                      *)
LEMMA HandleAlertKeeps ==
  ASSUME NEW s, Typed(s), NEW alert
  PROVE  Restated(s, HandleAlert(s, alert))
<1> DEFINE found == FindByHandle(s, alert.handle)
           state == CASE alert.kind = "added" -> "downloading"
                      [] alert.kind = "finished" -> "done"
                      [] OTHER -> "error"
<1>1. CASE found = {}
  BY <1>1 DEF HandleAlert, Restated
<1>2. CASE found # {}
  <2>1. found \subseteq DOMAIN s.slots /\ DOMAIN s.slots \subseteq Nat
    BY Domains DEF FindByHandle
  <2>2. \E n \in found : \A k \in found : n <= k
    <3> HIDE DEF found
    <3> QED  BY <1>2, <2>1, LeastNatural
  <2>3. Min(found) \in DOMAIN s.torrents
    <3>1. Min(found) \in found
      BY <2>2 DEF Min
    <3> QED  BY <2>1, <3>1, Domains
  <2>4. state \in State
    BY DEF State
  <2>5. HandleAlert(s, alert) = WithState(s, Min(found), state)
    BY <1>2 DEF HandleAlert
  <2> HIDE DEF found, state
  <2> QED  BY <2>3, <2>4, <2>5, WithStateKeeps
<1> QED  BY <1>1, <1>2

(* pump_alerts changes states and empties the queue.                         *)
LEMMA PumpedKeeps ==
  ASSUME NEW s, Typed(s)
  PROVE  Restated(s, Pumped(s)) /\ Pumped(s).alerts = <<>>
<1> DEFINE n == Len(s.alerts)
           S == {r \in Manager : Restated(s, r)}
           Is(f) == f = [k \in 0 .. n |->
                           IF k = 0 THEN s ELSE HandleAlert(f[k - 1], s.alerts[k])]
           after == CHOOSE f : Is(f)
<1>1. n \in Nat /\ s \in S
  BY DEF Typed, Manager, Restated
<1>2. \A r \in S : \A alert : HandleAlert(r, alert) \in S
  <2> SUFFICES ASSUME NEW r \in S, NEW alert  PROVE HandleAlert(r, alert) \in S
    OBVIOUS
  <2>1. Restated(r, HandleAlert(r, alert))
    BY HandleAlertKeeps DEF Restated
  <2>2. Restated(s, HandleAlert(r, alert))
    BY <2>1, RestatedTwice
  <2> QED  BY <2>2 DEF Restated, Typed
<1> HIDE DEF n, S
<1>3. \E f : Is(f)
  <2> DEFINE step == [x \in S \X (1 .. n) |-> HandleAlert(x[1], s.alerts[x[2]])]
  <2>1. step \in [S \X (1 .. n) -> S]
    BY <1>2
  <2>2. \A r \in S, k \in 1 .. n : step[<<r, k>>] = HandleAlert(r, s.alerts[k])
    OBVIOUS
  <2> HIDE DEF step
  <2>3. PICK f \in [0 .. n -> S] :
          f[0] = s /\ \A k \in 1 .. n : f[k] = step[<<f[k - 1], k>>]
    BY <1>1, <2>1, IterationExists
  <2>4. \A k \in 0 .. n : f[k] = IF k = 0 THEN s ELSE HandleAlert(f[k - 1], s.alerts[k])
    <3> SUFFICES ASSUME NEW k \in 0 .. n, k # 0
                 PROVE  f[k] = HandleAlert(f[k - 1], s.alerts[k])
      BY <2>3
    <3>1. k \in 1 .. n /\ k - 1 \in 0 .. n
      BY <1>1
    <3>2. f[k - 1] \in S
      BY <2>3, <3>1
    <3> QED  BY <2>2, <2>3, <3>1, <3>2
  <2> QED  BY <2>4
<1>4. Is(after)
  BY <1>3
<1>5. Pumped(s) = [after[n] EXCEPT !.alerts = <<>>]
  BY DEF Pumped, n
<1> HIDE DEF after
<1>6. \A k \in 0 .. n : after[k] = IF k = 0 THEN s ELSE HandleAlert(after[k - 1], s.alerts[k])
  BY <1>4
<1>7. after[n] \in S
  <2> DEFINE Good == {k \in 0 .. n : after[k] \in S}
  <2>1. 0 \in Good
    BY <1>1, <1>6
  <2>2. ASSUME NEW k \in 1 .. n, k - 1 \in Good  PROVE k \in Good
    <3>1. after[k] = HandleAlert(after[k - 1], s.alerts[k]) /\ after[k - 1] \in S
      BY <1>6, <2>2
    <3> QED  BY <1>2, <3>1
  <2> HIDE DEF Good
  <2>3. n \in Good
    BY <1>1, <2>1, <2>2, UpTo
  <2> QED  BY <2>3 DEF Good
<1> DEFINE r == after[n]
           u == [r EXCEPT !.alerts = <<>>]
<1>8. r \in Manager /\ Restated(s, r)
  BY <1>7 DEF S
<1> HIDE DEF r
<1>9. /\ u \in Manager /\ u.torrents = r.torrents /\ u.slots = r.slots
      /\ u.session = r.session /\ u.alerts = <<>>
  <2>1. <<>> \in Seq(Alert)
    OBVIOUS
  <2>2. r \in Manager
    BY <1>8
  <2> HIDE DEF S
  <2> QED  BY <2>1, <2>2 DEF Manager
<1> HIDE DEF u
<1>10. Restated(s, u) /\ u.alerts = <<>>
  BY <1>8, <1>9 DEF Restated, Typed
<1> QED  BY <1>5, <1>10 DEF u, r

(* The state that refresh_slot gives an entry whose torrent the library has.  *)
Word(s, i) ==
  LET status == s.session[s.slots[i].handle]
  IN  CASE status.failed -> "error"
        [] ~status.failed /\ status.finished -> "done"
        [] OTHER -> IF s.slots[i].paused THEN "stopped" ELSE "downloading"
Known(s, i) == s.slots[i].added /\ Valid(s, s.slots[i].handle)

LEMMA RefreshedKeeps ==
  ASSUME NEW s, Typed(s), NEW i \in DOMAIN s.slots
  PROVE  /\ Restated(s, Refreshed(s, i))
         /\ Known(s, i) => Refreshed(s, i).torrents[i].state = Word(s, i)
         /\ \A k \in DOMAIN s.slots :
              k # i => Refreshed(s, i).torrents[k] = s.torrents[k]
<1>1. CASE ~Known(s, i)
  BY <1>1 DEF Refreshed, Known, Restated
<1>2. CASE Known(s, i)
  <2>1. Refreshed(s, i) = WithState(s, i, Word(s, i))
    BY <1>2 DEF Refreshed, Known, Word
  <2>2. Word(s, i) \in State
    BY DEF Word, State
  <2>3. i \in DOMAIN s.torrents /\ DOMAIN s.torrents = DOMAIN s.slots
    BY Domains
  <2> QED  BY <2>1, <2>2, <2>3, WithStateKeeps
<1> QED  BY <1>1, <1>2

(* After a tick each entry has the library's word.                           *)
LEMMA AllRefreshedKeeps ==
  ASSUME NEW s, Typed(s)
  PROVE  /\ Restated(s, AllRefreshed(s))
         /\ \A i \in DOMAIN s.slots :
              Known(s, i) => AllRefreshed(s).torrents[i].state = Word(s, i)
<1> DEFINE n == Len(s.slots)
           S == {r \in Manager : Restated(s, r)}
           Is(f) == f = [i \in 0 .. n |-> IF i = 0 THEN s ELSE Refreshed(f[i - 1], i)]
           after == CHOOSE f : Is(f)
<1>1. n \in Nat /\ s \in S /\ DOMAIN s.slots = 1 .. n
  BY Domains DEF Typed, Manager, Restated
<1>2. ASSUME NEW r \in S, NEW i \in 1 .. n
      PROVE  /\ Refreshed(r, i) \in S
             /\ Known(s, i) => Refreshed(r, i).torrents[i].state = Word(s, i)
             /\ \A k \in 1 .. n : k # i => Refreshed(r, i).torrents[k] = r.torrents[k]
  <2>1. Typed(r) /\ Restated(s, r) /\ r.slots = s.slots
    BY DEF Restated
  <2>2. i \in DOMAIN r.slots
    BY <1>1, <2>1
  <2>3. /\ Restated(r, Refreshed(r, i))
        /\ Known(r, i) => Refreshed(r, i).torrents[i].state = Word(r, i)
        /\ \A k \in DOMAIN r.slots : k # i => Refreshed(r, i).torrents[k] = r.torrents[k]
    BY <2>1, <2>2, RefreshedKeeps
  <2>4. Known(r, i) = Known(s, i) /\ Word(r, i) = Word(s, i)
    BY <2>1 DEF Known, Word, Valid, Restated
  <2>5. Restated(s, Refreshed(r, i))
    BY <2>1, <2>3, RestatedTwice
  <2>6. Refreshed(r, i) \in S
    BY <2>5 DEF Restated, Typed
  <2> HIDE DEF S
  <2> QED  BY <1>1, <2>1, <2>3, <2>4, <2>6
<1> HIDE DEF n, S
<1>3. \E f : Is(f)
  <2> DEFINE step == [x \in S \X (1 .. n) |-> Refreshed(x[1], x[2])]
  <2>1. step \in [S \X (1 .. n) -> S]
    BY <1>2
  <2>2. \A r \in S, k \in 1 .. n : step[<<r, k>>] = Refreshed(r, k)
    OBVIOUS
  <2> HIDE DEF step
  <2>3. PICK f \in [0 .. n -> S] :
          f[0] = s /\ \A k \in 1 .. n : f[k] = step[<<f[k - 1], k>>]
    BY <1>1, <2>1, IterationExists
  <2>4. \A k \in 0 .. n : f[k] = IF k = 0 THEN s ELSE Refreshed(f[k - 1], k)
    <3> SUFFICES ASSUME NEW k \in 0 .. n, k # 0
                 PROVE  f[k] = Refreshed(f[k - 1], k)
      BY <2>3
    <3>1. k \in 1 .. n /\ k - 1 \in 0 .. n
      BY <1>1
    <3>2. f[k - 1] \in S
      BY <2>3, <3>1
    <3> QED  BY <2>2, <2>3, <3>1, <3>2
  <2> QED  BY <2>4
<1>4. Is(after)
  BY <1>3
<1>5. AllRefreshed(s) = after[n]
  BY DEF AllRefreshed, n
<1> HIDE DEF after
<1>6. \A k \in 0 .. n : after[k] = IF k = 0 THEN s ELSE Refreshed(after[k - 1], k)
  BY <1>4
<1> DEFINE Done(k) ==
      /\ after[k] \in S
      /\ \A i \in 1 .. k : Known(s, i) => after[k].torrents[i].state = Word(s, i)
    Good == {k \in 0 .. n : Done(k)}
<1>7. 0 \in Good
  <2>1. after[0] = s /\ 0 \in 0 .. n /\ 1 .. 0 = {}
    BY <1>1, <1>6
  <2> QED  BY <1>1, <2>1
<1>8. ASSUME NEW k \in 1 .. n, k - 1 \in Good  PROVE k \in Good
  <2>1. Done(k - 1) /\ after[k] = Refreshed(after[k - 1], k) /\ k \in 0 .. n
    BY <1>1, <1>6, <1>8
  <2>2. /\ after[k] \in S
        /\ Known(s, k) => after[k].torrents[k].state = Word(s, k)
        /\ \A i \in 1 .. n : i # k => after[k].torrents[i] = after[k - 1].torrents[i]
    BY <1>2, <2>1
  <2>3. ASSUME NEW i \in 1 .. k, Known(s, i)
        PROVE  after[k].torrents[i].state = Word(s, i)
    <3>1. CASE i = k
      BY <2>2, <2>3, <3>1
    <3>2. CASE i # k
      <4>1. i \in 1 .. k - 1 /\ i \in 1 .. n
        BY <1>1, <3>2
      <4>2. after[k - 1].torrents[i].state = Word(s, i)
        BY <2>1, <2>3, <4>1
      <4> QED  BY <2>2, <3>2, <4>1, <4>2
    <3> QED  BY <3>1, <3>2
  <2> QED  BY <2>1, <2>2, <2>3
<1>9. Done(n)
  <2>1. n \in 0 .. n
    BY <1>1
  <2> HIDE DEF Good
  <2>2. n \in Good
    BY <1>1, <1>7, <1>8, <2>1, UpTo
  <2> QED  BY <2>2 DEF Good
<1> QED  BY <1>1, <1>5, <1>9 DEF S

LEMMA TickedKeeps ==
  ASSUME NEW s, Typed(s)
  PROVE  /\ Restated(s, Ticked(s))
         /\ \A i \in DOMAIN s.slots : Known(s, i) => Ticked(s).torrents[i].state = Word(s, i)
<1> DEFINE p == Pumped(s)
<1>1. Restated(s, p)
  BY PumpedKeeps
<1>2. Typed(p) /\ p.slots = s.slots /\ p.session = s.session
  BY <1>1 DEF Restated
<1> HIDE DEF p
<1>3. /\ Restated(p, AllRefreshed(p))
      /\ \A i \in DOMAIN p.slots : Known(p, i) => AllRefreshed(p).torrents[i].state = Word(p, i)
  BY <1>2, AllRefreshedKeeps
<1>4. \A i \in DOMAIN s.slots : Known(p, i) = Known(s, i) /\ Word(p, i) = Word(s, i)
  BY <1>2 DEF Known, Word, Valid
<1>5. Ticked(s) = AllRefreshed(p)
  BY DEF Ticked, p
<1> QED  BY <1>1, <1>2, <1>3, <1>4, <1>5, RestatedTwice

LEMMA GotKeeps ==
  ASSUME NEW s, Typed(s), NEW i \in DOMAIN s.slots
  PROVE  Restated(s, Got(s, i))
<1> DEFINE p == Pumped(s)
<1>1. Restated(s, p)
  BY PumpedKeeps
<1>2. Typed(p) /\ i \in DOMAIN p.slots
  BY <1>1 DEF Restated
<1> HIDE DEF p
<1>3. Restated(p, Refreshed(p, i))
  BY <1>2, RefreshedKeeps
<1>4. Got(s, i) = Refreshed(p, i)
  BY DEF Got, p
<1> QED  BY <1>1, <1>3, <1>4, RestatedTwice

-----------------------------------------------------------------------------
(* What changes one entry.  Between two steps of a handler the pause of that  *)
(* entry may still differ from what the user is going to have asked.         *)

Fine(s, i) ==
  Whole(s) /\ i \in DOMAIN s.slots /\ \A k \in DOMAIN s.slots : k # i => Agrees(s, k)

Touches(s, r, i) ==
  /\ Typed(r) /\ Len(r.torrents) = Len(s.torrents)
  /\ \A k \in DOMAIN s.torrents : r.torrents[k].hash = s.torrents[k].hash
  /\ \A k \in DOMAIN s.slots : k # i =>
       /\ r.slots[k] = s.slots[k] /\ r.torrents[k].asked = s.torrents[k].asked
       /\ Valid(r, s.slots[k].handle) =>
            /\ Valid(s, s.slots[k].handle)
            /\ r.session[s.slots[k].handle].hash = s.session[s.slots[k].handle].hash

LEMMA RestatedFine ==
  ASSUME NEW s, NEW i, Fine(s, i), NEW r, Restated(s, r)
  PROVE  Fine(r, i) /\ r.slots = s.slots /\ r.session = s.session
<1>1. Typed(s) /\ r.slots = s.slots
  BY DEF Fine, Whole, Restated
<1>2. Whole(r) /\ \A k \in DOMAIN s.slots : Agrees(s, k) => Agrees(r, k)
  BY <1>1, RestatedKeeps DEF Fine
<1> QED  BY <1>1, <1>2 DEF Fine, Restated

LEMMA TouchedFine ==
  ASSUME NEW s, NEW i, Fine(s, i), NEW r, Touches(s, r, i), Matches(r, i),
         \A h \in Handle : r.session[h] # None =>
           \/ r.slots[i].handle = h
           \/ s.session[h] # None /\ s.slots[i].handle # h
  PROVE  Fine(r, i)
<1>1. /\ Whole(s) /\ Typed(s) /\ Typed(r) /\ i \in DOMAIN s.slots
      /\ Len(r.slots) = Len(s.slots) /\ DOMAIN r.slots = DOMAIN s.slots
      /\ DOMAIN s.torrents = DOMAIN s.slots
  <2>1. Typed(s) /\ Typed(r) /\ Len(r.torrents) = Len(s.torrents)
    BY DEF Fine, Whole, Touches
  <2> QED  BY <2>1, Domains DEF Fine
<1>2. \A k \in DOMAIN s.slots : k # i => Matches(r, k) /\ Agrees(r, k)
  <2> SUFFICES ASSUME NEW k \in DOMAIN s.slots, k # i
               PROVE  Matches(r, k) /\ Agrees(r, k)
    OBVIOUS
  <2>1. Matches(s, k) /\ Agrees(s, k)
    BY DEF Fine, Whole
  <2> QED  BY <1>1, <2>1 DEF Matches, Agrees, Touches
<1>3. Covered(r)
  <2> SUFFICES ASSUME NEW h \in Handle, r.session[h] # None
               PROVE  \E k \in DOMAIN r.slots : r.slots[k].handle = h
    BY DEF Covered
  <2>1. CASE r.slots[i].handle = h
    BY <1>1, <2>1
  <2>2. CASE s.session[h] # None /\ s.slots[i].handle # h
    <3>1. PICK k \in DOMAIN s.slots : s.slots[k].handle = h
      BY <1>1, <2>2 DEF Whole, Covered
    <3>2. k # i /\ r.slots[k] = s.slots[k]
      BY <2>2, <3>1 DEF Touches
    <3> QED  BY <1>1, <3>1, <3>2
  <2> QED  BY <2>1, <2>2
<1>4. Len(r.torrents) <= Capacity
  BY <1>1 DEF Whole, Touches
<1> QED  BY <1>1, <1>2, <1>3, <1>4 DEF Fine, Whole

LEMMA FineTypes ==
  ASSUME NEW s, NEW i, Fine(s, i)
  PROVE  /\ Typed(s) /\ s \in Manager /\ i \in DOMAIN s.torrents /\ i \in DOMAIN s.slots
         /\ s.torrents[i] \in Entry /\ s.slots[i] \in SlotType /\ Matches(s, i)
         /\ DOMAIN s.torrents = DOMAIN s.slots
  BY Domains DEF Fine, Whole, Typed

(* A slot, its entry, and a status of the session take new values.           *)
Changed(s, i, e, slot, h, status) ==
  [s EXCEPT !.torrents = [s.torrents EXCEPT ![i] = e],
            !.slots = [s.slots EXCEPT ![i] = slot],
            !.session = [s.session EXCEPT ![h] = status]]

LEMMA ChangedTouches ==
  ASSUME NEW s, NEW i, Fine(s, i), NEW e \in Entry, NEW slot \in SlotType,
         NEW h \in Handle, NEW status \in Status \cup {None},
         e.hash = s.torrents[i].hash,
         s.session[h] # None => status = None \/ status.hash = s.session[h].hash,
         s.session[h] = None /\ status # None =>
           \A k \in DOMAIN s.slots : k # i => s.slots[k].handle # h
  PROVE  LET r == Changed(s, i, e, slot, h, status)
         IN  /\ Touches(s, r, i) /\ r.torrents[i] = e /\ r.slots[i] = slot
             /\ r.session[h] = status /\ r.alerts = s.alerts
             /\ \A g \in Handle : g # h => r.session[g] = s.session[g]
<1> DEFINE t == [s.torrents EXCEPT ![i] = e]
           u == [s.slots EXCEPT ![i] = slot]
           v == [s.session EXCEPT ![h] = status]
           r == Changed(s, i, e, slot, h, status)
<1>1. /\ Typed(s) /\ s \in Manager /\ i \in DOMAIN s.torrents /\ i \in DOMAIN s.slots
      /\ DOMAIN s.torrents = DOMAIN s.slots
  BY FineTypes
<1>2. /\ s.torrents \in Seq(Entry) /\ s.slots \in Seq(SlotType)
      /\ s.session \in [Handle -> Status \cup {None}]
  BY <1>1 DEF Manager
<1>3. /\ t \in Seq(Entry) /\ Len(t) = Len(s.torrents) /\ t[i] = e
      /\ \A k \in DOMAIN s.torrents : k # i => t[k] = s.torrents[k]
  BY <1>1, <1>2
<1>4. /\ u \in Seq(SlotType) /\ Len(u) = Len(s.slots) /\ u[i] = slot
      /\ \A k \in DOMAIN s.slots : k # i => u[k] = s.slots[k]
  BY <1>1, <1>2
<1>5. /\ v \in [Handle -> Status \cup {None}] /\ v[h] = status
      /\ \A g \in Handle : g # h => v[g] = s.session[g]
  BY <1>2
<1>6. r = [s EXCEPT !.torrents = t, !.slots = u, !.session = v]
  BY DEF Changed
<1> HIDE DEF t, u, v, r
<1>7. /\ r \in Manager /\ r.torrents = t /\ r.slots = u /\ r.session = v
      /\ r.alerts = s.alerts
  BY <1>1, <1>3, <1>4, <1>5, <1>6 DEF Manager
<1>8. Typed(r) /\ Len(r.torrents) = Len(s.torrents)
  BY <1>1, <1>3, <1>4, <1>7 DEF Typed
<1>9. \A k \in DOMAIN s.torrents : r.torrents[k].hash = s.torrents[k].hash
  BY <1>3, <1>7
<1>10. ASSUME NEW k \in DOMAIN s.slots, k # i
       PROVE  /\ r.slots[k] = s.slots[k] /\ r.torrents[k].asked = s.torrents[k].asked
              /\ Valid(r, s.slots[k].handle) =>
                   /\ Valid(s, s.slots[k].handle)
                   /\ r.session[s.slots[k].handle].hash = s.session[s.slots[k].handle].hash
  <2> DEFINE g == s.slots[k].handle
  <2>1. g \in Handle \cup {None}
    BY <1>1, Domains DEF SlotType
  <2>2. Valid(r, g) => Valid(s, g) /\ r.session[g].hash = s.session[g].hash
    <3>1. g = h => s.session[h] # None \/ status = None
      BY <1>10
    <3> HIDE DEF g
    <3>2. CASE g = h
      BY <1>5, <1>7, <3>1, <3>2 DEF Valid
    <3>3. CASE g # h
      BY <1>5, <1>7, <2>1, <3>3 DEF Valid
    <3> QED  BY <3>2, <3>3
  <2> QED  BY <1>1, <1>3, <1>4, <1>7, <1>10, <2>2
<1>11. Touches(s, r, i)
  BY <1>8, <1>9, <1>10 DEF Touches
<1> QED  BY <1>3, <1>4, <1>5, <1>7, <1>11 DEF r

(* Only a slot and its entry.                                               *)
EntrySet(s, i, e, slot) ==
  [s EXCEPT !.torrents = [s.torrents EXCEPT ![i] = e],
            !.slots = [s.slots EXCEPT ![i] = slot]]

LEMMA EntryChanged ==
  ASSUME NEW s, NEW i, Fine(s, i), NEW e \in Entry, NEW slot \in SlotType,
         e.hash = s.torrents[i].hash
  PROVE  LET r == EntrySet(s, i, e, slot)
         IN  /\ Touches(s, r, i) /\ r.torrents[i] = e /\ r.slots[i] = slot
             /\ r.session = s.session /\ r.alerts = s.alerts
<1> DEFINE r == EntrySet(s, i, e, slot)
           c == Changed(s, i, e, slot, 1, s.session[1])
<1>1. s \in Manager /\ s.session \in [Handle -> Status \cup {None}]
  BY FineTypes DEF Manager
<1>2. 1 \in Handle
  BY LibtorrentAssumption DEF Handle
<1>3. [s.session EXCEPT ![1] = s.session[1]] = s.session
  BY <1>1
<1>4. c = r
  BY <1>1, <1>3 DEF Changed, EntrySet, Manager
<1>5. r.session = s.session
  BY <1>1 DEF Manager, EntrySet
<1>6. s.session[1] \in Status \cup {None}
  BY <1>1, <1>2
<1> HIDE DEF r
<1>7. /\ Touches(s, c, i) /\ c.torrents[i] = e /\ c.slots[i] = slot /\ c.alerts = s.alerts
  BY <1>2, <1>6, ChangedTouches
<1> QED  BY <1>4, <1>5, <1>7 DEF r

LEMMA AskedFine ==
  ASSUME NEW s, NEW i, Fine(s, i), NEW what \in {"stopped", "downloading"}
  PROVE  LET r == Asked(s, i, what)
         IN  /\ Fine(r, i) /\ r.slots = s.slots /\ r.session = s.session
             /\ r.torrents[i].asked = what /\ r.torrents[i].state = s.torrents[i].state
<1> DEFINE e == [s.torrents[i] EXCEPT !.asked = what]
           slot == s.slots[i]
           r == Asked(s, i, what)
           u == EntrySet(s, i, e, slot)
<1>1. /\ s \in Manager /\ i \in DOMAIN s.torrents /\ i \in DOMAIN s.slots
      /\ s.torrents[i] \in Entry /\ slot \in SlotType /\ Matches(s, i)
  BY FineTypes
<1>2. /\ e \in Entry /\ e.hash = s.torrents[i].hash /\ e.asked = what
      /\ e.state = s.torrents[i].state
  BY <1>1 DEF Entry
<1>3. [s.slots EXCEPT ![i] = slot] = s.slots
  BY <1>1 DEF Manager
<1>4. r = u
  BY <1>1, <1>3 DEF Asked, EntrySet, Manager
<1>5. u.slots = s.slots
  BY <1>1, <1>3 DEF Manager, EntrySet
<1> HIDE DEF e, slot
<1>6. /\ Touches(s, u, i) /\ u.torrents[i] = e /\ u.slots[i] = slot
      /\ u.session = s.session
  BY <1>1, <1>2, EntryChanged
<1> HIDE DEF u, r
<1>7. Matches(u, i)
  BY <1>1, <1>2, <1>5, <1>6 DEF Matches, Valid
<1>8. \A h \in Handle : u.session[h] # None =>
         u.slots[i].handle = h \/ (s.session[h] # None /\ s.slots[i].handle # h)
  BY <1>5, <1>6
<1>9. Fine(u, i)
  BY <1>6, <1>7, <1>8, TouchedFine
<1> QED  BY <1>2, <1>4, <1>5, <1>6, <1>9 DEF r

(* The handle in a slot that is none of the session's may be given up: what   *)
(* a start leaves when the library refuses, or has lost the parameters.      *)
RefusedStart(s, i) ==
  [WithState(s, i, "error") EXCEPT !.slots[i].params = None, !.slots[i].handle = None]

LEMMA RefusedFine ==
  ASSUME NEW s, NEW i, Fine(s, i), ~Valid(s, s.slots[i].handle)
  PROVE  LET r == RefusedStart(s, i)
         IN  Fine(r, i) /\ r.slots[i].handle = None /\ r.torrents[i].state = "error"
<1> DEFINE e == [s.torrents[i] EXCEPT !.state = "error"]
           slot == [s.slots[i] EXCEPT !.params = None, !.handle = None]
           r == RefusedStart(s, i)
           u == EntrySet(s, i, e, slot)
<1>1. /\ s \in Manager /\ i \in DOMAIN s.torrents /\ i \in DOMAIN s.slots
      /\ s.torrents[i] \in Entry /\ s.slots[i] \in SlotType /\ Matches(s, i)
  BY FineTypes
<1>2. e \in Entry /\ e.hash = s.torrents[i].hash /\ e.state = "error"
  <2>1. "error" \in State
    BY DEF State
  <2> QED  BY <1>1, <2>1 DEF Entry
<1>3. slot \in SlotType /\ slot.params = None /\ slot.handle = None
  BY <1>1 DEF SlotType
<1>4. r = u
  BY <1>1 DEF RefusedStart, EntrySet, WithState, Manager
<1> HIDE DEF e, slot
<1>5. /\ Touches(s, u, i) /\ u.torrents[i] = e /\ u.slots[i] = slot
      /\ u.session = s.session
  BY <1>1, <1>2, <1>3, EntryChanged
<1> HIDE DEF u, r
<1>6. Matches(u, i)
  BY <1>3, <1>5 DEF Matches, Valid
<1>7. \A h \in Handle : u.session[h] # None =>
         u.slots[i].handle = h \/ (s.session[h] # None /\ s.slots[i].handle # h)
  BY <1>5, LibtorrentAssumption DEF Valid
<1>8. Fine(u, i)
  BY <1>5, <1>6, <1>7, TouchedFine
<1> QED  BY <1>2, <1>3, <1>4, <1>5, <1>8 DEF r

-----------------------------------------------------------------------------
(* A start.                                                                 *)

(* add_torrent answers with the handle of that torrent, or with a new one:    *)
(* there are more handles than slots, and the session has only theirs.       *)
LEMMA HandleForFits ==
  ASSUME NEW s, Whole(s), s.alerts = <<>>, NEW hash
  PROVE  LET h == HandleFor(s, hash)
         IN  /\ h \in Handle
             /\ s.session[h] # None => s.session[h].hash = hash
             /\ s.session[h] = None => \A k \in DOMAIN s.slots : s.slots[k].handle # h
<1> DEFINE same == {h \in Handle : s.session[h] # None /\ s.session[h].hash = hash}
           used == {h \in Handle : s.session[h] # None} \cup {a.handle : a \in Range(s.alerts)}
                     \cup {slot.handle : slot \in Range(s.slots)}
           n == Len(s.slots)
           owned == {s.slots[k].handle : k \in 1 .. n}
<1>1. n \in Nat /\ DOMAIN s.slots = 1 .. n /\ n <= Capacity
  BY Domains DEF Whole, Typed
<1>2. used \subseteq owned
  <2>1. {a.handle : a \in Range(s.alerts)} = {}
    BY DEF Range
  <2>2. \A slot \in Range(s.slots) : slot.handle \in owned
    BY <1>1 DEF Range
  <2>3. \A h \in Handle : s.session[h] # None => h \in owned
    BY <1>1 DEF Whole, Covered
  <2> HIDE DEF owned
  <2> QED  BY <2>1, <2>2, <2>3
<1>3. \A k \in DOMAIN s.slots : s.slots[k].handle \in used
  BY DEF Range
<1>4. Handle \ used # {}
  <2> SUFFICES ASSUME Handle \subseteq used  PROVE FALSE
    OBVIOUS
  <2>1. Handle \in SUBSET owned
    BY <1>2
  <2> DEFINE f == [k \in 1 .. n |-> s.slots[k].handle]
  <2>2. f \in Surjection(1 .. n, owned)
    BY DEF Surjection
  <2>3. IsFiniteSet(1 .. n) /\ Cardinality(1 .. n) = n
    BY <1>1, FS_Interval
  <2> HIDE DEF f, owned
  <2>4. IsFiniteSet(owned) /\ Cardinality(owned) <= n
    BY <2>2, <2>3, FS_Surjection
  <2>5. Cardinality(Handle) <= Cardinality(owned)
    BY <2>1, <2>4, FS_Subset
  <2>6. Cardinality(Handle) = Capacity + MaxAlerts + 1
    BY LibtorrentAssumption, FS_Interval DEF Handle
  <2>7. Cardinality(owned) \in Nat
    BY <2>4, FS_CardinalityType
  <2> QED  BY <1>1, <2>4, <2>5, <2>6, <2>7, LibtorrentAssumption
<1> DEFINE from == IF same # {} THEN same ELSE Handle \ used
<1>5. HandleFor(s, hash) = Min(from)
  BY DEF HandleFor
<1>6. from # {} /\ from \subseteq Handle /\ from \subseteq Nat
  BY <1>4, LibtorrentAssumption DEF Handle
<1>7. HandleFor(s, hash) \in from
  <2> HIDE DEF from
  <2>1. \E h \in from : \A g \in from : h <= g
    BY <1>6, LeastNatural
  <2> QED  BY <1>5, <2>1 DEF Min
<1> HIDE DEF used
<1>8. CASE same # {}
  BY <1>6, <1>7, <1>8
<1>9. CASE same = {}
  <2>1. HandleFor(s, hash) \in Handle /\ HandleFor(s, hash) \notin used
    BY <1>7, <1>9
  <2>2. s.session[HandleFor(s, hash)] = None
    BY <2>1 DEF used
  <2> QED  BY <1>3, <2>1, <2>2
<1> QED  BY <1>8, <1>9

(* Nobody else has the handle of a torrent that is not in the session.       *)
Alone(s, i, h) ==
  s.session[h] = None => \A k \in DOMAIN s.slots : k # i => s.slots[k].handle # h

Enters(s, i) ==
  LET h == s.slots[i].handle
  IN  /\ h \in Handle /\ s.session[h] \in Status /\ s.slots[i].added
      /\ s.session[h].hash = s.torrents[i].hash /\ Alone(s, i, h)

LEMMA InSessionFine ==
  ASSUME NEW s, NEW i, Fine(s, i), s.alerts = <<>>, ~Valid(s, s.slots[i].handle),
         s.slots[i].params # None
  PROVE  Fine(InSession(s, i), i) /\ Enters(InSession(s, i), i)
<1> DEFINE hash == s.slots[i].params
           h == HandleFor(s, hash)
           status == IF s.session[h] # None THEN s.session[h]
                     ELSE [hash |-> hash, paused |-> FALSE,
                           finished |-> FALSE, failed |-> FALSE]
           slot == [s.slots[i] EXCEPT !.handle = h, !.added = TRUE, !.params = None]
           alert == [kind |-> "added", handle |-> h]
           c == Changed(s, i, s.torrents[i], slot, h, status)
           r == InSession(s, i)
<1>1. /\ s \in Manager /\ i \in DOMAIN s.torrents /\ i \in DOMAIN s.slots
      /\ s.torrents[i] \in Entry /\ s.slots[i] \in SlotType /\ Matches(s, i)
      /\ DOMAIN s.torrents = DOMAIN s.slots
  BY FineTypes
<1>2. hash \in Hash /\ hash = s.torrents[i].hash
  BY <1>1 DEF Matches, SlotType
<1>3. /\ h \in Handle
      /\ s.session[h] # None => s.session[h].hash = hash
      /\ s.session[h] = None => \A k \in DOMAIN s.slots : s.slots[k].handle # h
  BY HandleForFits DEF Fine
<1> HIDE DEF h, hash
<1>4. status \in Status /\ status.hash = hash /\ (status = None => s.session[h] = None)
  BY <1>1, <1>2, <1>3 DEF Manager, Status
<1>5. slot \in SlotType /\ slot.handle = h /\ slot.added /\ slot.params = None
  BY <1>1, <1>3 DEF SlotType
<1>6. r = [c EXCEPT !.alerts = Append(s.alerts, alert)]
  <2>1. [s.torrents EXCEPT ![i] = s.torrents[i]] = s.torrents
    BY <1>1 DEF Manager
  <2>2. r = [s EXCEPT !.session = [s.session EXCEPT ![h] = status],
                      !.alerts = Append(s.alerts, alert),
                      !.slots = [s.slots EXCEPT ![i] = slot]]
    <3> DEFINE one == [s.slots[i] EXCEPT !.handle = h]
               two == [one EXCEPT !.added = TRUE]
               u1 == [s.slots EXCEPT ![i] = one]
               u2 == [u1 EXCEPT ![i] = two]
               u3 == [u2 EXCEPT ![i] = slot]
    <3>1. s.slots \in Seq(SlotType)
      BY <1>1 DEF Manager
    <3>2. one \in SlotType /\ two \in SlotType /\ slot = [two EXCEPT !.params = None]
      BY <1>1, <1>3 DEF SlotType
    <3>3. u1[i] = one /\ u2[i] = two
      BY <1>1, <3>1
    <3>4. u3 = [s.slots EXCEPT ![i] = slot]
      <4> HIDE DEF one, two, slot
      <4> QED  BY <1>1, <3>1
    <3>5. r = [s EXCEPT !.session = [s.session EXCEPT ![h] = status],
                        !.alerts = Append(s.alerts, alert),
                        !.slots = [[[s.slots EXCEPT ![i].handle = h]
                                       EXCEPT ![i].added = TRUE]
                                       EXCEPT ![i].params = None]]
      BY <1>1 DEF InSession, Manager, h, hash
    <3>6. u3 = [[[s.slots EXCEPT ![i].handle = h] EXCEPT ![i].added = TRUE]
                    EXCEPT ![i].params = None]
      <4>1. u2 = [u1 EXCEPT ![i].added = TRUE]
        BY <3>3
      <4>2. u3 = [u2 EXCEPT ![i].params = None]
        BY <3>2, <3>3
      <4> QED  BY <4>1, <4>2
    <3> QED  BY <3>4, <3>5, <3>6
  <2> HIDE DEF r, status, slot, alert
  <2> QED  BY <1>1, <2>1, <2>2 DEF Changed, Manager
<1> HIDE DEF status, slot
<1>7. /\ Touches(s, c, i) /\ c.torrents[i] = s.torrents[i] /\ c.slots[i] = slot
      /\ c.session[h] = status /\ c.alerts = s.alerts
      /\ \A g \in Handle : g # h => c.session[g] = s.session[g]
  BY <1>1, <1>2, <1>3, <1>4, <1>5, ChangedTouches
<1> HIDE DEF c, r
<1>8. Matches(c, i)
  BY <1>2, <1>4, <1>5, <1>7 DEF Matches
<1>9. \A g \in Handle : c.session[g] # None =>
         c.slots[i].handle = g \/ (s.session[g] # None /\ s.slots[i].handle # g)
  BY <1>5, <1>7, LibtorrentAssumption DEF Valid
<1>10. Fine(c, i)
  BY <1>7, <1>8, <1>9, TouchedFine
<1>11. Restated(c, r)
  <2>1. Append(s.alerts, alert) \in Seq(Alert)
    <3>1. alert \in Alert
      BY <1>3 DEF Alert
    <3> QED  BY <1>1, <3>1 DEF Manager
  <2>2. c \in Manager /\ Typed(c)
    BY <1>10, FineTypes
  <2> HIDE DEF alert
  <2>3. /\ r \in Manager /\ r.torrents = c.torrents /\ r.slots = c.slots
        /\ r.session = c.session
    BY <1>6, <2>1, <2>2 DEF Manager
  <2> QED  BY <2>2, <2>3 DEF Restated, Typed
<1>12. Fine(r, i) /\ r.slots = c.slots /\ r.session = c.session
  BY <1>10, <1>11, RestatedFine
<1>13. r.torrents[i].hash = hash
  <2>1. i \in DOMAIN c.torrents
    BY <1>10, FineTypes
  <2> QED  BY <1>2, <1>7, <1>11, <2>1 DEF Restated
<1>14. Alone(r, i, h)
  <2> SUFFICES ASSUME r.session[h] = None, NEW k \in DOMAIN r.slots, k # i
               PROVE  r.slots[k].handle # h
    BY DEF Alone
  <2>1. s.session[h] = None
    BY <1>4, <1>7, <1>12
  <2>2. k \in DOMAIN s.slots
    BY <1>7, <1>10, <1>12, Domains DEF Touches, Fine, Whole
  <2>3. r.slots[k] = s.slots[k]
    BY <1>7, <1>12, <2>2 DEF Touches
  <2> QED  BY <1>3, <2>1, <2>2, <2>3
<1>15. Enters(r, i)
  BY <1>3, <1>4, <1>5, <1>7, <1>12, <1>13, <1>14 DEF Enters
<1> QED  BY <1>12, <1>15 DEF r

LEMMA ResumedFine ==
  ASSUME NEW s, NEW i, Fine(s, i), Enters(s, i)
  PROVE  Fine(Resumed(s, i), i) /\ Resumed(s, i).slots[i].paused = FALSE
<1> DEFINE h == s.slots[i].handle
           e == [s.torrents[i] EXCEPT !.state = "downloading"]
           slot == [s.slots[i] EXCEPT !.paused = FALSE]
           status == [s.session[h] EXCEPT !.paused = FALSE]
           r == Resumed(s, i)
           c == Changed(s, i, e, slot, h, status)
<1>1. /\ s \in Manager /\ i \in DOMAIN s.torrents /\ i \in DOMAIN s.slots
      /\ s.torrents[i] \in Entry /\ s.slots[i] \in SlotType /\ Matches(s, i)
  BY FineTypes
<1>2. /\ h \in Handle /\ s.session[h] \in Status /\ s.slots[i].added
      /\ s.session[h].hash = s.torrents[i].hash /\ Alone(s, i, h)
  BY DEF Enters
<1>3. e \in Entry /\ e.hash = s.torrents[i].hash
  <2>1. "downloading" \in State
    BY DEF State
  <2> QED  BY <1>1, <2>1 DEF Entry
<1>4. /\ slot \in SlotType /\ slot.paused = FALSE /\ slot.handle = h
      /\ slot.added = s.slots[i].added /\ slot.params = s.slots[i].params
  BY <1>1 DEF SlotType
<1>5. status \in Status /\ status.hash = s.session[h].hash
  BY <1>2 DEF Status
<1>6. r = c
  <2>1. s.session \in [Handle -> Status \cup {None}] /\ s.torrents \in Seq(Entry)
    BY <1>1 DEF Manager
  <2> QED  BY <1>1, <1>2, <2>1 DEF Resumed, WithState, Changed, Manager
<1> HIDE DEF e, slot, status, h
<1>7. /\ Touches(s, c, i) /\ c.torrents[i] = e /\ c.slots[i] = slot
      /\ c.session[h] = status
      /\ \A g \in Handle : g # h => c.session[g] = s.session[g]
  <2>1. s.session[h] = None /\ status # None =>
          \A k \in DOMAIN s.slots : k # i => s.slots[k].handle # h
    BY <1>2 DEF Alone
  <2> QED  BY <1>2, <1>3, <1>4, <1>5, <2>1, ChangedTouches
<1> HIDE DEF c, r
<1>8. Matches(c, i)
  <2>1. c.slots[i].params \in {None, c.torrents[i].hash}
    BY <1>1, <1>3, <1>4, <1>7 DEF Matches
  <2> QED  BY <1>2, <1>3, <1>4, <1>5, <1>7, <2>1 DEF Matches
<1>9. \A g \in Handle : c.session[g] # None =>
         c.slots[i].handle = g \/ (s.session[g] # None /\ s.slots[i].handle # g)
  BY <1>4, <1>7 DEF h
<1>10. Fine(c, i)
  BY <1>7, <1>8, <1>9, TouchedFine
<1> QED  BY <1>4, <1>6, <1>7, <1>10 DEF r

(* Whatever comes of a start, the entry is in order; when the library has its *)
(* torrent, it is not paused.                                               *)
Runs(s, i) == Valid(s, s.slots[i].handle) => s.slots[i].paused = FALSE

LEMMA StartedFine ==
  ASSUME NEW s, NEW i, Fine(s, i), NEW refused
  PROVE  Fine(Started(s, i, refused), i) /\ Runs(Started(s, i, refused), i)
<1> DEFINE p == Pumped(s)
           again == p.slots[i].added /\ Valid(p, p.slots[i].handle)
           r == Started(s, i, refused)
<1>1. Restated(s, p) /\ p.alerts = <<>>
  BY FineTypes, PumpedKeeps
<1>2. Fine(p, i)
  BY <1>1, RestatedFine
<1>3. r = IF again THEN Resumed(p, i)
          ELSE IF refused \/ p.slots[i].params = None THEN RefusedStart(p, i)
          ELSE Resumed(InSession(p, i), i)
  BY DEF Started, RefusedStart
<1> HIDE DEF p, r
<1>4. Matches(p, i) /\ p \in Manager /\ p.slots[i] \in SlotType
  BY <1>2, FineTypes
<1>5. CASE again
  <2>1. p.slots[i].handle \in Handle /\ p.session[p.slots[i].handle] \in Status
    BY <1>4, <1>5 DEF Valid, Manager, SlotType
  <2>2. Enters(p, i)
    BY <1>4, <1>5, <2>1 DEF Enters, Matches, Alone, Valid
  <2> QED  BY <1>2, <1>3, <1>5, <2>2, ResumedFine DEF r, Runs
<1>6. CASE ~again /\ (refused \/ p.slots[i].params = None)
  <2>1. ~Valid(p, p.slots[i].handle)
    BY <1>4, <1>6 DEF Matches
  <2>2. Fine(RefusedStart(p, i), i) /\ RefusedStart(p, i).slots[i].handle = None
    BY <1>2, <2>1, RefusedFine
  <2> QED  BY <1>3, <1>6, <2>2 DEF r, Runs, Valid
<1>7. CASE ~again /\ ~(refused \/ p.slots[i].params = None)
  <2>1. ~Valid(p, p.slots[i].handle)
    BY <1>4, <1>7 DEF Matches
  <2>2. Fine(InSession(p, i), i) /\ Enters(InSession(p, i), i)
    BY <1>1, <1>2, <1>7, <2>1, InSessionFine
  <2> QED  BY <1>3, <1>7, <2>2, ResumedFine DEF r, Runs
<1> QED  BY <1>5, <1>6, <1>7

-----------------------------------------------------------------------------
(* The other operations.                                                    *)

LEMMA StoppedFine ==
  ASSUME NEW s, NEW i, Fine(s, i)
  PROVE  Fine(Stopped(s, i), i) /\ Stopped(s, i).slots[i].paused = TRUE
<1> DEFINE h == s.slots[i].handle
           e == [s.torrents[i] EXCEPT !.state = "stopped"]
           slot == [s.slots[i] EXCEPT !.paused = TRUE]
           r == Stopped(s, i)
<1>1. /\ s \in Manager /\ i \in DOMAIN s.torrents /\ i \in DOMAIN s.slots
      /\ s.torrents[i] \in Entry /\ s.slots[i] \in SlotType /\ Matches(s, i)
      /\ s.session \in [Handle -> Status \cup {None}] /\ s.torrents \in Seq(Entry)
  BY FineTypes DEF Manager
<1>2. h \in Handle \cup {None}
  BY <1>1 DEF SlotType
<1>3. e \in Entry /\ e.hash = s.torrents[i].hash
  <2>1. "stopped" \in State
    BY DEF State
  <2> QED  BY <1>1, <2>1 DEF Entry
<1>4. /\ slot \in SlotType /\ slot.paused = TRUE /\ slot.handle = h
      /\ slot.added = s.slots[i].added /\ slot.params = s.slots[i].params
  BY <1>1 DEF SlotType
<1>5. CASE Valid(s, h)
  <2> DEFINE status == [s.session[h] EXCEPT !.paused = TRUE]
             c == Changed(s, i, e, slot, h, status)
  <2>1. h \in Handle /\ s.session[h] \in Status
    BY <1>1, <1>2, <1>5 DEF Valid
  <2>2. status \in Status /\ status.hash = s.session[h].hash
    BY <2>1 DEF Status
  <2>3. r = c
    BY <1>1, <1>5, <2>1 DEF Stopped, WithState, Changed, Manager
  <2>4. s.session[h] # None /\ s.slots[i].added /\ s.session[h].hash = s.torrents[i].hash
    BY <1>1, <1>5 DEF Valid, Matches
  <2> HIDE DEF e, slot, status, h
  <2>5. /\ Touches(s, c, i) /\ c.torrents[i] = e /\ c.slots[i] = slot
        /\ c.session[h] = status
        /\ \A g \in Handle : g # h => c.session[g] = s.session[g]
    BY <1>3, <1>4, <2>1, <2>2, <2>4, ChangedTouches
  <2> HIDE DEF c, r
  <2>6. Matches(c, i)
    <3>1. c.slots[i].params \in {None, c.torrents[i].hash}
      BY <1>1, <1>3, <1>4, <2>5 DEF Matches
    <3> QED  BY <1>3, <1>4, <2>2, <2>4, <2>5, <3>1 DEF Matches
  <2>7. \A g \in Handle : c.session[g] # None =>
           c.slots[i].handle = g \/ (s.session[g] # None /\ s.slots[i].handle # g)
    BY <1>4, <2>5 DEF h
  <2>8. Fine(c, i)
    BY <2>5, <2>6, <2>7, TouchedFine
  <2> QED  BY <1>4, <2>3, <2>5, <2>8 DEF r
<1>6. CASE ~Valid(s, h)
  <2> DEFINE u == EntrySet(s, i, e, slot)
  <2>1. r = u
    BY <1>1, <1>6 DEF Stopped, WithState, EntrySet, Manager
  <2> HIDE DEF e, slot
  <2>2. /\ Touches(s, u, i) /\ u.torrents[i] = e /\ u.slots[i] = slot
        /\ u.session = s.session
    BY <1>3, <1>4, EntryChanged
  <2> HIDE DEF u, r
  <2>3. Matches(u, i)
    BY <1>1, <1>3, <1>4, <1>6, <2>2 DEF Matches, Valid
  <2>4. \A g \in Handle : u.session[g] # None =>
           u.slots[i].handle = g \/ (s.session[g] # None /\ s.slots[i].handle # g)
    BY <1>4, <2>2
  <2>5. Fine(u, i)
    BY <2>2, <2>3, <2>4, TouchedFine
  <2> QED  BY <1>4, <2>1, <2>2, <2>5 DEF r
<1> QED  BY <1>5, <1>6

(* A removal takes the torrent out of the session, and shifts both arrays.   *)
LEMMA RemovedSound ==
  ASSUME NEW s, NEW i, Fine(s, i)
  PROVE  Sound(Removed(s, i))
<1> DEFINE h == s.slots[i].handle
           gone == s.slots[i].added /\ Valid(s, h)
           v == IF gone THEN [s.session EXCEPT ![h] = None] ELSE s.session
           t == RemoveAt(s.torrents, i)
           u == RemoveAt(s.slots, i)
           r == Removed(s, i)
           n == Len(s.slots)
           from(k) == IF k < i THEN k ELSE k + 1
<1>1. /\ Typed(s) /\ s \in Manager /\ i \in DOMAIN s.torrents /\ i \in DOMAIN s.slots
      /\ s.slots[i] \in SlotType /\ Matches(s, i)
      /\ s.session \in [Handle -> Status \cup {None}]
      /\ s.torrents \in Seq(Entry) /\ s.slots \in Seq(SlotType)
  BY FineTypes DEF Manager
<1>2. n \in Nat /\ Len(s.torrents) = n /\ DOMAIN s.slots = 1 .. n /\ i \in 1 .. n
  BY <1>1, Domains
<1>3. h \in Handle \cup {None}
  BY <1>1 DEF SlotType
<1>4. /\ v \in [Handle -> Status \cup {None}]
      /\ \A g \in Handle : v[g] # None => v[g] = s.session[g] /\ h # g
  <2>1. CASE gone
    <3>1. h \in Handle
      BY <1>3, <2>1 DEF Valid
    <3> HIDE DEF h
    <3> QED  BY <1>1, <2>1, <3>1
  <2>2. CASE ~gone
    <3>1. ~Valid(s, h)
      BY <1>1, <2>2 DEF Matches
    <3>2. v = s.session
      BY <2>2
    <3> HIDE DEF h, v
    <3> QED  BY <1>1, <3>1, <3>2, LibtorrentAssumption DEF Valid
  <2> QED  BY <2>1, <2>2
<1>5. r = [s EXCEPT !.torrents = t, !.slots = u, !.session = v]
  <2>1. CASE gone
    <3>1. r = Erased([s EXCEPT !.session[h] = None], i)
      BY <2>1 DEF Removed
    <3> HIDE DEF h, gone
    <3> QED  BY <1>1, <2>1, <3>1 DEF Erased, Manager
  <2>2. CASE ~gone
    <3>1. r = Erased(s, i) /\ v = s.session
      BY <2>2 DEF Removed
    <3> HIDE DEF h, gone, v
    <3> QED  BY <1>1, <3>1 DEF Erased, Manager
  <2> QED  BY <2>1, <2>2
<1>6. /\ t \in Seq(Entry) /\ Len(t) = n - 1
      /\ \A k \in 1 .. n - 1 : t[k] = s.torrents[from(k)]
  BY <1>1, <1>2, RemovedElements
<1>7. /\ u \in Seq(SlotType) /\ Len(u) = n - 1
      /\ \A k \in 1 .. n - 1 : u[k] = s.slots[from(k)]
  BY <1>1, <1>2, RemovedElements
<1> HIDE DEF t, u, v, r
<1>8. /\ r \in Manager /\ r.torrents = t /\ r.slots = u /\ r.session = v
  BY <1>1, <1>4, <1>5, <1>6, <1>7 DEF Manager
<1>9. Typed(r) /\ DOMAIN r.slots = 1 .. n - 1 /\ Len(r.torrents) <= Capacity
  <2>1. n <= Capacity
    BY <1>2 DEF Fine, Whole
  <2>2. n - 1 <= Capacity
    BY <1>2, <2>1, LibtorrentAssumption
  <2>3. Typed(r)
    BY <1>6, <1>7, <1>8 DEF Typed
  <2> QED  BY <1>6, <1>7, <1>8, <2>2, <2>3, Domains
<1>10. ASSUME NEW k \in 1 .. n - 1
       PROVE  Matches(r, k) /\ Agrees(r, k)
  <2>1. from(k) \in 1 .. n /\ from(k) # i
    BY <1>2
  <2> DEFINE j == from(k)
  <2>2. r.slots[k] = s.slots[j] /\ r.torrents[k] = s.torrents[j]
    BY <1>6, <1>7, <1>8
  <2>3. Matches(s, j) /\ Agrees(s, j)
    BY <1>2, <2>1 DEF Fine, Whole
  <2>4. s.slots[j].handle \in Handle \cup {None}
    <3>1. s.slots[j] \in SlotType
      BY <1>1, <1>2, <2>1
    <3> HIDE DEF j
    <3> QED  BY <3>1 DEF SlotType
  <2> HIDE DEF j
  <2>5. Valid(r, s.slots[j].handle) =>
           /\ Valid(s, s.slots[j].handle)
           /\ r.session[s.slots[j].handle] = s.session[s.slots[j].handle]
    BY <1>4, <1>8, <2>4 DEF Valid
  <2> QED  BY <2>2, <2>3, <2>5 DEF Matches, Agrees
<1>11. Covered(r)
  <2> SUFFICES ASSUME NEW g \in Handle, r.session[g] # None
               PROVE  \E k \in DOMAIN r.slots : r.slots[k].handle = g
    BY DEF Covered
  <2>1. s.session[g] # None /\ h # g
    BY <1>4, <1>8
  <2>2. PICK j \in 1 .. n : s.slots[j].handle = g
    BY <1>2, <2>1 DEF Fine, Whole, Covered
  <2>3. j # i
    BY <2>1, <2>2
  <2> DEFINE k == IF j < i THEN j ELSE j - 1
  <2>4. k \in 1 .. n - 1 /\ from(k) = j
    BY <1>2, <2>3
  <2>5. r.slots[k] = s.slots[j]
    BY <1>7, <1>8, <2>4
  <2> QED  BY <1>9, <2>2, <2>4, <2>5
<1> HIDE DEF n
<1>12. Sound(r)
  BY <1>9, <1>10, <1>11 DEF Sound, Whole
<1> QED  BY <1>12 DEF r

(* A new entry is not in the session yet.                                   *)
LEMMA AddedFine ==
  ASSUME NEW s, Sound(s), Len(s.torrents) < Capacity, NEW hash \in Hash
  PROVE  Fine(Added(s, hash), Len(s.torrents) + 1)
<1> DEFINE e == Torrent(hash)
           slot == Slot(hash)
           n == Len(s.slots)
           t == Append(s.torrents, e)
           u == Append(s.slots, slot)
           r == Added(s, hash)
<1>1. /\ Typed(s) /\ s \in Manager /\ n \in Nat /\ Len(s.torrents) = n
      /\ s.torrents \in Seq(Entry) /\ s.slots \in Seq(SlotType)
      /\ DOMAIN s.slots = 1 .. n
  BY Domains DEF Sound, Whole, Typed, Manager
<1>2. e \in Entry /\ e.hash = hash
  BY DEF Torrent, Entry, State
<1>3. slot \in SlotType /\ slot.params = hash /\ slot.handle = None
  BY DEF Slot, SlotType
<1>4. r = [s EXCEPT !.torrents = t, !.slots = u]
  BY DEF Added
<1> HIDE DEF e, slot, r
<1>5. /\ t \in Seq(Entry) /\ Len(t) = n + 1 /\ t[n + 1] = e
      /\ \A k \in 1 .. n : t[k] = s.torrents[k]
  BY <1>1, <1>2
<1>6. /\ u \in Seq(SlotType) /\ Len(u) = n + 1 /\ u[n + 1] = slot
      /\ \A k \in 1 .. n : u[k] = s.slots[k]
  BY <1>1, <1>3
<1> HIDE DEF t, u
<1>7. r \in Manager /\ r.torrents = t /\ r.slots = u /\ r.session = s.session
  BY <1>1, <1>4, <1>5, <1>6 DEF Manager
<1>8. Typed(r) /\ DOMAIN r.slots = 1 .. n + 1 /\ Len(r.torrents) <= Capacity
  BY <1>1, <1>5, <1>6, <1>7, LibtorrentAssumption DEF Typed
<1>9. \A k \in 1 .. n : Matches(r, k) /\ Agrees(r, k)
  <2> SUFFICES ASSUME NEW k \in 1 .. n  PROVE Matches(r, k) /\ Agrees(r, k)
    OBVIOUS
  <2>1. Matches(s, k) /\ Agrees(s, k)
    BY <1>1 DEF Sound, Whole
  <2> QED  BY <1>5, <1>6, <1>7, <2>1 DEF Matches, Agrees, Valid
<1>10. Matches(r, n + 1)
  BY <1>2, <1>3, <1>5, <1>6, <1>7 DEF Matches, Valid
<1>11. Covered(r)
  <2> SUFFICES ASSUME NEW g \in Handle, r.session[g] # None
               PROVE  \E k \in DOMAIN r.slots : r.slots[k].handle = g
    BY DEF Covered
  <2>1. PICK k \in 1 .. n : s.slots[k].handle = g
    BY <1>1, <1>7 DEF Sound, Whole, Covered
  <2>2. k \in 1 .. n + 1 /\ r.slots[k] = s.slots[k]
    BY <1>1, <1>6, <1>7
  <2> QED  BY <1>8, <2>1, <2>2
<1>12. \A k \in 1 .. n + 1 : k \in 1 .. n \/ k = n + 1
  BY <1>1
<1>13. n + 1 \in 1 .. n + 1
  BY <1>1
<1> HIDE DEF n
<1>14. Fine(r, n + 1)
  BY <1>8, <1>9, <1>10, <1>11, <1>12, <1>13 DEF Fine, Whole
<1> QED  BY <1>1, <1>14 DEF r

(* The library changes the status of a torrent that it has, and may report it. *)
LEMMA ReportedSound ==
  ASSUME NEW s, Sound(s), NEW h \in Handle, s.session[h] # None,
         NEW status \in Status, status.hash = s.session[h].hash,
         NEW alerts \in Seq(Alert)
  PROVE  Sound([s EXCEPT !.session = [s.session EXCEPT ![h] = status],
                         !.alerts = alerts])
<1> DEFINE v == [s.session EXCEPT ![h] = status]
           r == [s EXCEPT !.session = v, !.alerts = alerts]
<1>1. Typed(s) /\ s \in Manager /\ s.session \in [Handle -> Status \cup {None}]
  BY DEF Sound, Whole, Typed, Manager
<1>2. /\ v \in [Handle -> Status \cup {None}] /\ v[h] = status
      /\ \A g \in Handle : g # h => v[g] = s.session[g]
  BY <1>1
<1> HIDE DEF v
<1>3. r \in Manager /\ r.torrents = s.torrents /\ r.slots = s.slots /\ r.session = v
  BY <1>1, <1>2 DEF Manager
<1> HIDE DEF r
<1>4. Typed(r) /\ Covered(r)
  BY <1>1, <1>2, <1>3 DEF Typed, Covered, Sound, Whole
<1>5. ASSUME NEW k \in DOMAIN s.slots  PROVE Matches(r, k) /\ Agrees(r, k)
  <2>1. Matches(s, k) /\ Agrees(s, k)
    BY <1>5 DEF Sound, Whole
  <2>2. s.slots[k].handle \in Handle \cup {None}
    BY <1>1, <1>5, Domains DEF SlotType
  <2>3. Valid(r, s.slots[k].handle) =>
           /\ Valid(s, s.slots[k].handle)
           /\ r.session[s.slots[k].handle].hash = s.session[s.slots[k].handle].hash
    <3> DEFINE g == s.slots[k].handle
    <3> HIDE DEF g
    <3>1. Valid(r, g) => Valid(s, g) /\ r.session[g].hash = s.session[g].hash
      <4>1. CASE g = h
        BY <1>2, <1>3, <4>1 DEF Valid
      <4>2. CASE g # h /\ g \in Handle
        BY <1>2, <1>3, <4>2 DEF Valid
      <4>3. CASE g = None
        BY <4>3 DEF Valid
      <4> QED  BY <2>2, <4>1, <4>2, <4>3 DEF g
    <3> QED  BY <3>1 DEF g
  <2> QED  BY <1>3, <2>1, <2>3 DEF Matches, Agrees
<1>6. Sound(r)
  BY <1>3, <1>4, <1>5 DEF Sound, Whole
<1> QED  BY <1>6 DEF r, v

-----------------------------------------------------------------------------
(* Every step keeps the invariant.                                          *)

LEMMA SoundFine ==
  ASSUME NEW s, NEW i
  PROVE  /\ Sound(s) /\ i \in DOMAIN s.slots => Fine(s, i)
         /\ Fine(s, i) /\ Agrees(s, i) => Sound(s)
  BY DEF Sound, Fine

(* At the end of a handler: the pause in the slot is what the user has asked. *)
LEMMA AskedSound ==
  ASSUME NEW s, NEW i, Fine(s, i), NEW what \in {"stopped", "downloading"},
         Valid(s, s.slots[i].handle) => s.slots[i].paused = (what = "stopped")
  PROVE  Sound(Asked(s, i, what)) /\ Fine(Asked(s, i, what), i)
<1> DEFINE r == Asked(s, i, what)
<1>1. /\ Fine(r, i) /\ r.slots = s.slots /\ r.session = s.session
      /\ r.torrents[i].asked = what
  BY AskedFine
<1> HIDE DEF r
<1>2. Agrees(r, i)
  BY <1>1 DEF Agrees, Valid
<1> QED  BY <1>1, <1>2, SoundFine DEF r

LEMMA BackendInit == Init => BackendInv
<1> SUFFICES ASSUME m = Empty  PROVE Sound(m)
  BY DEF Init, BackendInv
<1>1. /\ m.torrents = <<>> /\ m.slots = <<>> /\ m.alerts = <<>>
      /\ m.session = [h \in Handle |-> None]
  BY DEF Empty
<1>2. m \in Manager
  BY DEF Empty, Manager
<1> QED  BY <1>1, <1>2, LibtorrentAssumption DEF Sound, Whole, Typed, Covered

LEMMA UploadKeeps ==
  ASSUME Sound(m), NEW hash \in Hash, NEW refused, Upload(hash, refused)
  PROVE  Sound(m')
<1> DEFINE i == Len(m.torrents) + 1
           tried == Started(Added(m, hash), i, refused)
           got == Got(tried, i)
<1>1. Fine(Added(m, hash), i)
  BY AddedFine DEF Upload
<1>2. /\ m' = IF tried.torrents[i].state = "error" THEN Removed(got, i)
              ELSE Asked(got, i, "downloading")
  BY DEF Upload
<1> HIDE DEF i
<1>3. Fine(tried, i) /\ Runs(tried, i)
  BY <1>1, StartedFine
<1> HIDE DEF tried
<1>4. Restated(tried, got)
  BY <1>3, FineTypes, GotKeeps
<1> HIDE DEF got
<1>5. Fine(got, i) /\ Runs(got, i)
  BY <1>3, <1>4, RestatedFine DEF Runs, Valid
<1>6. Sound(Asked(got, i, "downloading"))
  BY <1>5, AskedSound DEF Runs
<1>7. Sound(Removed(got, i))
  BY <1>5, RemovedSound
<1> QED  BY <1>2, <1>6, <1>7

LEMMA EntryKeeps ==
  ASSUME Sound(m), NEW i \in DOMAIN m.torrents, Start(i) \/ Stop(i) \/ RemoveEntry(i)
  PROVE  Sound(m')
<1>1. i \in DOMAIN m.slots /\ Fine(m, i)
  BY Domains, SoundFine DEF Sound, Whole
<1>2. CASE Start(i)
  <2> DEFINE started == Started(m, i, FALSE)
             tried == Asked(started, i, "downloading")
             got == Got(tried, i)
  <2>1. Fine(started, i) /\ Runs(started, i)
    BY <1>1, StartedFine
  <2>2. m' = IF tried.torrents[i].state = "error" THEN got ELSE tried
    BY <1>2 DEF Start
  <2> HIDE DEF started
  <2>3. Sound(tried) /\ Fine(tried, i)
    BY <2>1, AskedSound DEF Runs
  <2> HIDE DEF tried
  <2>4. Restated(tried, got) /\ Typed(tried)
    BY <2>3, FineTypes, GotKeeps
  <2> HIDE DEF got
  <2>5. Sound(got)
    BY <2>3, <2>4, RestatedKeeps DEF Sound, Restated
  <2> QED  BY <2>2, <2>3, <2>5
<1>3. CASE Stop(i)
  <2>1. Fine(Stopped(m, i), i) /\ Stopped(m, i).slots[i].paused = TRUE
    BY <1>1, StoppedFine
  <2>2. Sound(Asked(Stopped(m, i), i, "stopped"))
    BY <2>1, AskedSound
  <2> QED  BY <1>3, <2>2 DEF Stop
<1>4. CASE RemoveEntry(i)
  BY <1>1, <1>4, RemovedSound DEF RemoveEntry
<1> QED  BY <1>2, <1>3, <1>4

LEMMA LibraryKeeps ==
  ASSUME Sound(m), NEW h \in Handle, Finish(h) \/ Fail(h) \/ AutoResume(h)
  PROVE  Sound(m')
<1> DEFINE changed(status, alerts) ==
      [m EXCEPT !.session = [m.session EXCEPT ![h] = status], !.alerts = alerts]
<1>1. /\ m \in Manager /\ m.session[h] # None /\ m.session[h] \in Status
      /\ m.alerts \in Seq(Alert)
  BY DEF Sound, Whole, Typed, Manager, Finish, Fail, AutoResume, Downloading
<1>2. \A status \in Status, alerts \in Seq(Alert) :
         status.hash = m.session[h].hash => Sound(changed(status, alerts))
  BY <1>1, ReportedSound
<1>3. CASE Finish(h)
  <2> DEFINE status == [m.session[h] EXCEPT !.finished = TRUE]
             alert == [kind |-> "finished", handle |-> h]
  <2>1. status \in Status /\ status.hash = m.session[h].hash
    BY <1>1 DEF Status
  <2>2. alert \in Alert /\ Append(m.alerts, alert) \in Seq(Alert)
    BY <1>1 DEF Alert
  <2>3. m' = changed(status, Append(m.alerts, alert))
    BY <1>3 DEF Finish, Happens
  <2> HIDE DEF status, alert, changed
  <2> QED  BY <1>2, <2>1, <2>2, <2>3
<1>4. CASE Fail(h)
  <2> DEFINE status == [m.session[h] EXCEPT !.failed = TRUE]
             alert == [kind |-> "error", handle |-> h]
  <2>1. status \in Status /\ status.hash = m.session[h].hash
    BY <1>1 DEF Status
  <2>2. alert \in Alert /\ Append(m.alerts, alert) \in Seq(Alert)
    BY <1>1 DEF Alert
  <2>3. m' = changed(status, Append(m.alerts, alert))
    BY <1>4 DEF Fail, Happens
  <2> HIDE DEF status, alert, changed
  <2> QED  BY <1>2, <2>1, <2>2, <2>3
<1>5. CASE AutoResume(h)
  <2> DEFINE status == [m.session[h] EXCEPT !.paused = FALSE]
  <2>1. status \in Status /\ status.hash = m.session[h].hash
    BY <1>1 DEF Status
  <2>2. m' = changed(status, m.alerts)
    BY <1>1, <1>5 DEF AutoResume, Manager
  <2> HIDE DEF status, changed
  <2> QED  BY <1>1, <1>2, <2>1, <2>2
<1> QED  BY <1>3, <1>4, <1>5

LEMMA BackendNext == BackendInv /\ [Next]_m => BackendInv'
<1> SUFFICES ASSUME Sound(m), [Next]_m  PROVE Sound(m')
  BY DEF BackendInv
<1>1. CASE Tick
  <2>1. Typed(m) /\ m' = Ticked(m)
    BY <1>1 DEF Tick, Sound, Whole
  <2>2. Restated(m, Ticked(m))
    BY <2>1, TickedKeeps
  <2> QED  BY <2>1, <2>2, RestatedKeeps DEF Sound, Restated
<1>2. CASE ShutDown
  <2>1. m' = Empty
    BY <1>2 DEF ShutDown
  <2>2. Sound(Empty)
    <3>1. /\ Empty.torrents = <<>> /\ Empty.slots = <<>> /\ Empty.alerts = <<>>
          /\ Empty.session = [h \in Handle |-> None]
      BY DEF Empty
    <3>2. Empty \in Manager
      BY DEF Empty, Manager
    <3> QED  BY <3>1, <3>2, LibtorrentAssumption DEF Sound, Whole, Typed, Covered
  <2> QED  BY <2>1, <2>2
<1>3. CASE UNCHANGED m
  BY <1>3
<1> QED  BY <1>1, <1>2, <1>3, UploadKeeps, EntryKeeps, LibraryKeeps DEF Next

THEOREM BackendInvHolds == Spec => []BackendInv
  BY BackendInit, BackendNext, PTL DEF Spec

-----------------------------------------------------------------------------
(* What the theorems say of the code.                                       *)

(* No torrent that was removed goes on in the session, and no slot has the    *)
(* handle of another torrent than its entry's, through shifts, shared         *)
(* torrents, refused starts and handles that the library gives out.          *)
THEOREM SessionIsOwned == Spec => []SessionOwned
<1>1. BackendInv => SessionOwned
  BY DEF BackendInv, Sound, Whole, Typed, Covered, Matches, SessionOwned
<1> QED  BY <1>1, BackendInvHolds, PTL

(* A tick shows of each torrent what the library has made of it, and else     *)
(* what the user asked last, whatever alerts are still queued and in which    *)
(* order they came.                                                         *)
LEMMA CurrentStatus == BackendInv => StatusIsCurrent
<1> SUFFICES ASSUME Sound(m)  PROVE StatusIsCurrent
  BY DEF BackendInv
<1> DEFINE now == Ticked(m)
<1>1. /\ Typed(m) /\ Restated(m, now)
      /\ \A i \in DOMAIN m.slots : Known(m, i) => now.torrents[i].state = Word(m, i)
  BY TickedKeeps DEF Sound, Whole
<1> SUFFICES ASSUME NEW i \in DOMAIN now.torrents, Valid(now, now.slots[i].handle)
             PROVE  LET status == now.session[now.slots[i].handle]
                    IN  Listed(now)[i] =
                          CASE status.failed -> "error"
                            [] ~status.failed /\ status.finished -> "done"
                            [] OTHER -> now.torrents[i].asked
  BY DEF StatusIsCurrent
<1> HIDE DEF now
<1>2. i \in DOMAIN m.slots /\ i \in DOMAIN m.torrents
  BY <1>1, Domains DEF Restated
<1>3. /\ now.slots = m.slots /\ now.session = m.session
      /\ now.torrents[i].asked = m.torrents[i].asked
  BY <1>1, <1>2 DEF Restated
<1>4. Valid(m, m.slots[i].handle)
  BY <1>3 DEF Valid
<1>5. Known(m, i)
  BY <1>2, <1>4 DEF Known, Sound, Whole, Matches
<1>6. m.torrents[i].asked = IF m.slots[i].paused THEN "stopped" ELSE "downloading"
  BY <1>2, <1>4 DEF Sound, Agrees
<1>7. Listed(now)[i] = Word(m, i)
  BY <1>1, <1>2, <1>5 DEF Listed
<1> QED  BY <1>3, <1>6, <1>7 DEF Word

THEOREM StatusStaysCurrent == Spec => []StatusIsCurrent
  BY CurrentStatus, BackendInvHolds, PTL
=============================================================================
