-------------------------- MODULE HttpServer_proofs --------------------------
(***************************************************************************)
(* The safety properties of HttpServer and of the table it works on, proved   *)
(* for any clients, requests and sizes.                                     *)
(*                                                                          *)
(* What a compaction of the slots and a shutdown make of their arrays are     *)
(* recursive functions of a length.  Induction is by the least               *)
(* counterexample (LeastNatural).                                           *)
(***************************************************************************)
EXTENDS HttpServer, FiniteSetTheorems, WellFoundedInduction, TLAPS

-----------------------------------------------------------------------------
(* The table of torrents: an entry is changed, added or removed.            *)

Entry == [torrent : Torrent, state : {"stopped", "downloading", "done", "error"},
          open : BOOLEAN]

Opened(s) == {k \in DOMAIN s : s[k].open}

(* As many descriptors are open as entries hold one.                         *)
Owned(m) ==
  /\ m \in [torrents : Seq(Entry), descriptors : Int]
  /\ m.descriptors = Cardinality(Opened(m.torrents))

LEMMA LeastNatural ==
  ASSUME NEW S, S \subseteq Nat, S # {}
  PROVE  \E n \in S : \A m \in S : n <= m
<1>1. PICK n \in S : \A m \in S : <<m, n>> \notin OpToRel(<, Nat)
  BY NatLessThanWellFounded, WFMin
<1>2. \A m \in S : ~(m < n)
  BY <1>1 DEF OpToRel
<1> QED  BY <1>2

LEMMA OpenedFinite ==
  ASSUME NEW s \in Seq(Entry)
  PROVE  /\ IsFiniteSet(Opened(s)) /\ Cardinality(Opened(s)) \in Nat
         /\ DOMAIN s = 1 .. Len(s) /\ Len(s) \in Nat
<1>1. DOMAIN s = 1 .. Len(s) /\ Len(s) \in Nat
  OBVIOUS
<1>2. IsFiniteSet(1 .. Len(s))
  BY <1>1, FS_Interval
<1>3. Opened(s) \subseteq 1 .. Len(s)
  BY <1>1 DEF Opened
<1>4. IsFiniteSet(Opened(s))
  BY <1>2, <1>3, FS_Subset
<1> QED  BY <1>1, <1>4, FS_CardinalityType

LEMMA ChangedEntry ==
  ASSUME NEW s \in Seq(Entry), NEW k \in DOMAIN s, NEW e \in Entry
  PROVE  LET t == [s EXCEPT ![k] = e]
         IN  /\ t \in Seq(Entry) /\ Len(t) = Len(s)
             /\ Cardinality(Opened(t)) =
                  Cardinality(Opened(s)) + (IF e.open THEN 1 ELSE 0)
                                         - (IF s[k].open THEN 1 ELSE 0)
<1> DEFINE t == [s EXCEPT ![k] = e]
           rest == Opened(s) \ {k}
<1>1. t \in Seq(Entry) /\ Len(t) = Len(s) /\ DOMAIN t = DOMAIN s
  OBVIOUS
<1>2. IsFiniteSet(rest) /\ Cardinality(rest) \in Nat
  <2>1. IsFiniteSet(Opened(s))
    BY OpenedFinite
  <2>2. IsFiniteSet(rest)
    BY <2>1, FS_Subset
  <2> QED  BY <2>2, FS_CardinalityType
<1>3. Cardinality(rest \cup {k}) = Cardinality(rest) + 1
  BY <1>2, FS_AddElement
<1>4. Cardinality(Opened(s)) = Cardinality(rest) + (IF s[k].open THEN 1 ELSE 0)
  <2>1. CASE s[k].open
    <3>1. Opened(s) = rest \cup {k}
      BY <2>1 DEF Opened
    <3> QED  BY <1>2, <1>3, <2>1, <3>1
  <2>2. CASE ~s[k].open
    <3>1. Opened(s) = rest
      BY <2>2 DEF Opened
    <3> HIDE DEF rest
    <3> QED  BY <1>2, <2>2, <3>1
  <2> QED  BY <2>1, <2>2
<1>5. Cardinality(Opened(t)) = Cardinality(rest) + (IF e.open THEN 1 ELSE 0)
  <2>1. CASE e.open
    <3>1. Opened(t) = rest \cup {k}
      BY <1>1, <2>1 DEF Opened
    <3> HIDE DEF t, rest
    <3> QED  BY <1>2, <1>3, <2>1, <3>1
  <2>2. CASE ~e.open
    <3>1. Opened(t) = rest
      BY <1>1, <2>2 DEF Opened
    <3> HIDE DEF t, rest
    <3> QED  BY <1>2, <2>2, <3>1
  <2> QED  BY <2>1, <2>2
<1> DEFINE a == IF e.open THEN 1 ELSE 0
           b == IF s[k].open THEN 1 ELSE 0
<1>6. a \in Int /\ b \in Int
  OBVIOUS
<1> HIDE DEF t, rest, a, b
<1>7. Cardinality(Opened(t)) = Cardinality(Opened(s)) + a - b
  <2>1. Cardinality(Opened(s)) = Cardinality(rest) + b
    BY <1>4 DEF b
  <2>2. Cardinality(Opened(t)) = Cardinality(rest) + a
    BY <1>5 DEF a
  <2> QED  BY <1>2, <1>6, <2>1, <2>2
<1> QED  BY <1>1, <1>7 DEF t, a, b

LEMMA AppendedEntry ==
  ASSUME NEW s \in Seq(Entry), NEW e \in Entry, ~e.open
  PROVE  Append(s, e) \in Seq(Entry) /\ Opened(Append(s, e)) = Opened(s)
<1>1. /\ Append(s, e) \in Seq(Entry) /\ Len(Append(s, e)) = Len(s) + 1
      /\ \A k \in 1 .. Len(s) : Append(s, e)[k] = s[k]
      /\ Append(s, e)[Len(s) + 1] = e
  OBVIOUS
<1> QED  BY <1>1 DEF Opened

LEMMA RemovedElements ==
  ASSUME NEW S, NEW s \in Seq(S), NEW k \in DOMAIN s
  PROVE  LET t == RemoveAt(s, k)
         IN  /\ t \in Seq(S) /\ Len(t) = Len(s) - 1 /\ Len(s) \in Nat
             /\ k \in 1 .. Len(s)
             /\ \A i \in 1 .. Len(s) - 1 : t[i] = IF i < k THEN s[i] ELSE s[i + 1]
<1> DEFINE t == RemoveAt(s, k)
           below == SubSeq(s, 1, k - 1)
           above == SubSeq(s, k + 1, Len(s))
<1>1. Len(s) \in Nat /\ k \in 1 .. Len(s)
  OBVIOUS
<1>2. /\ below \in Seq(S) /\ Len(below) = k - 1
      /\ \A i \in 1 .. k - 1 : below[i] = s[i]
  BY <1>1
<1>3. /\ above \in Seq(S) /\ Len(above) = Len(s) - k
      /\ \A i \in 1 .. Len(s) - k : above[i] = s[k + i]
  BY <1>1
<1>4. t = below \o above
  BY DEF RemoveAt
<1> HIDE DEF t, below, above
<1>5. t \in Seq(S) /\ Len(t) = Len(s) - 1
  BY <1>1, <1>2, <1>3, <1>4
<1>6. ASSUME NEW i \in 1 .. Len(s) - 1
      PROVE  t[i] = IF i < k THEN s[i] ELSE s[i + 1]
  <2>1. CASE i < k
    BY <1>1, <1>2, <1>3, <1>4, <2>1
  <2>2. CASE ~(i < k)
    <3>1. t[i] = above[i - (k - 1)]
      BY <1>1, <1>2, <1>3, <1>4, <2>2
    <3>2. i - (k - 1) \in 1 .. Len(s) - k /\ k + (i - (k - 1)) = i + 1
      BY <1>1, <2>2
    <3>3. above[i - (k - 1)] = s[k + (i - (k - 1))]
      BY <1>3, <3>2
    <3> QED  BY <2>2, <3>1, <3>2, <3>3
  <2> QED  BY <2>1, <2>2
<1> QED  BY <1>1, <1>5, <1>6 DEF t

(* A removal shifts the entries above, and with them who owns what.          *)
LEMMA RemovedEntry ==
  ASSUME NEW s \in Seq(Entry), NEW k \in DOMAIN s, ~s[k].open
  PROVE  /\ RemoveAt(s, k) \in Seq(Entry)
         /\ Cardinality(Opened(RemoveAt(s, k))) = Cardinality(Opened(s))
<1> DEFINE t == RemoveAt(s, k)
           f == [i \in Opened(s) |-> IF i < k THEN i ELSE i - 1]
<1>1. /\ t \in Seq(Entry) /\ Len(t) = Len(s) - 1 /\ Len(s) \in Nat /\ k \in 1 .. Len(s)
      /\ \A i \in 1 .. Len(s) - 1 : t[i] = IF i < k THEN s[i] ELSE s[i + 1]
  BY RemovedElements
<1>2. Opened(s) \subseteq 1 .. Len(s) /\ k \notin Opened(s)
  BY DEF Opened
<1> HIDE DEF t
<1>3. f \in [Opened(s) -> Opened(t)]
  BY <1>1, <1>2 DEF Opened
<1>4. \A i, j \in Opened(s) : f[i] = f[j] => i = j
  BY <1>1, <1>2
<1>5. \A j \in Opened(t) : \E i \in Opened(s) : f[i] = j
  <2> SUFFICES ASSUME NEW j \in Opened(t)
               PROVE  \E i \in Opened(s) : f[i] = j
    OBVIOUS
  <2>1. j \in 1 .. Len(s) - 1 /\ t[j].open
    BY <1>1 DEF Opened
  <2>2. CASE j < k
    <3>1. j \in Opened(s)
      BY <1>1, <2>1, <2>2 DEF Opened
    <3> QED  BY <2>2, <3>1
  <2>3. CASE ~(j < k)
    <3> DEFINE i == j + 1
    <3>1. i \in Opened(s)
      BY <1>1, <2>1, <2>3 DEF Opened
    <3>2. ~(i < k) /\ i - 1 = j
      BY <1>1, <2>1, <2>3
    <3> HIDE DEF i
    <3>3. f[i] = j
      BY <3>1, <3>2
    <3> QED  BY <3>1, <3>3
  <2> QED  BY <2>2, <2>3
<1> HIDE DEF f
<1>6. f \in Injection(Opened(s), Opened(t))
  BY <1>3, <1>4 DEF Injection, IsInjective
<1>7. f \in Surjection(Opened(s), Opened(t))
  BY <1>3, <1>5 DEF Surjection
<1>8. ExistsBijection(Opened(s), Opened(t))
  BY <1>6, <1>7 DEF Bijection, ExistsBijection
<1>9. IsFiniteSet(Opened(s))
  BY OpenedFinite
<1>10. Cardinality(Opened(t)) = Cardinality(Opened(s))
  BY <1>8, <1>9, FS_Bijection
<1> QED  BY <1>1, <1>10 DEF t

-----------------------------------------------------------------------------
(* The operations of the table.                                             *)

LEMMA AddedOwned ==
  ASSUME NEW m, Owned(m), NEW torrent \in Torrent
  PROVE  /\ Owned(Added(m, torrent))
         /\ Len(Added(m, torrent).torrents) = Len(m.torrents) + 1
<1> DEFINE e == [torrent |-> torrent, state |-> "stopped", open |-> FALSE]
<1>1. m.torrents \in Seq(Entry) /\ m.descriptors \in Int
  BY DEF Owned
<1>2. e \in Entry /\ ~e.open
  BY DEF Entry
<1> HIDE DEF e
<1>3. Append(m.torrents, e) \in Seq(Entry)
      /\ Opened(Append(m.torrents, e)) = Opened(m.torrents)
  BY <1>1, <1>2, AppendedEntry
<1>4. Added(m, torrent) = [m EXCEPT !.torrents = Append(m.torrents, e)]
  BY DEF Added, e
<1>5. Len(Append(m.torrents, e)) = Len(m.torrents) + 1
  BY <1>1
<1> QED  BY <1>1, <1>3, <1>4, <1>5 DEF Owned

(* The entry at index i becomes e, and the descriptors follow.               *)
Reassigned(m, i, e, n) ==
  [m EXCEPT !.torrents = [@ EXCEPT ![i + 1] = e], !.descriptors = n]

LEMMA ReassignedOwned ==
  ASSUME NEW m, Owned(m), NEW i, Holds(m, i), NEW e \in Entry, NEW n,
         n = m.descriptors + (IF e.open THEN 1 ELSE 0)
                           - (IF At(m, i).open THEN 1 ELSE 0)
  PROVE  /\ Owned(Reassigned(m, i, e, n))
         /\ Len(Reassigned(m, i, e, n).torrents) = Len(m.torrents)
         /\ At(Reassigned(m, i, e, n), i) = e
         /\ \A k \in DOMAIN m.torrents \ {i + 1} :
              Reassigned(m, i, e, n).torrents[k] = m.torrents[k]
         /\ Reassigned(m, i, e, n).descriptors = n
<1> DEFINE s == m.torrents
           t == [s EXCEPT ![i + 1] = e]
<1>1. s \in Seq(Entry) /\ m.descriptors = Cardinality(Opened(s))
      /\ m.descriptors \in Int /\ i + 1 \in DOMAIN s
  BY DEF Owned, Holds
<1>2. /\ t \in Seq(Entry) /\ Len(t) = Len(s) /\ t[i + 1] = e
      /\ \A k \in DOMAIN s \ {i + 1} : t[k] = s[k]
      /\ Cardinality(Opened(t)) =
           Cardinality(Opened(s)) + (IF e.open THEN 1 ELSE 0)
                                  - (IF s[i + 1].open THEN 1 ELSE 0)
  BY <1>1, ChangedEntry
<1>3. n = Cardinality(Opened(t)) /\ n \in Int
  <2>1. n = Cardinality(Opened(t))
    BY <1>1, <1>2 DEF At
  <2>2. Cardinality(Opened(t)) \in Nat
    BY <1>2, OpenedFinite
  <2> QED  BY <2>1, <2>2
<1> HIDE DEF t
<1>4. Reassigned(m, i, e, n) = [m EXCEPT !.torrents = t, !.descriptors = n]
  BY DEF Reassigned, t
<1>5. Reassigned(m, i, e, n) \in [torrents : Seq(Entry), descriptors : Int]
      /\ Reassigned(m, i, e, n).torrents = t /\ Reassigned(m, i, e, n).descriptors = n
  BY <1>2, <1>3, <1>4 DEF Owned
<1> QED  BY <1>2, <1>3, <1>5 DEF Owned, At

LEMMA EntryType ==
  ASSUME NEW m, Owned(m), NEW i, Holds(m, i)
  PROVE  At(m, i) \in Entry /\ m.descriptors \in Int /\ i + 1 \in DOMAIN m.torrents
         /\ m.torrents \in Seq(Entry)
  BY DEF Owned, Holds, At

LEMMA ClosedOwned ==
  ASSUME NEW m, Owned(m), NEW i, Holds(m, i)
  PROVE  /\ Owned(Closed(m, i)) /\ Holds(Closed(m, i), i)
         /\ Len(Closed(m, i).torrents) = Len(m.torrents)
         /\ At(Closed(m, i), i) = [At(m, i) EXCEPT !.open = FALSE]
         /\ \A k \in DOMAIN m.torrents \ {i + 1} :
              Closed(m, i).torrents[k] = m.torrents[k]
<1> DEFINE e == [At(m, i) EXCEPT !.open = FALSE]
           n == IF At(m, i).open THEN m.descriptors - 1 ELSE m.descriptors
<1>1. At(m, i) \in Entry /\ m.descriptors \in Int /\ i + 1 \in DOMAIN m.torrents
  BY EntryType
<1>2. e \in Entry /\ ~e.open
  BY <1>1 DEF Entry
<1>3. n = m.descriptors + (IF e.open THEN 1 ELSE 0) - (IF At(m, i).open THEN 1 ELSE 0)
  <2> HIDE DEF e
  <2>1. CASE At(m, i).open
    BY <1>1, <1>2, <2>1
  <2>2. CASE ~At(m, i).open
    BY <1>1, <1>2, <2>2
  <2> QED  BY <2>1, <2>2
<1>4. Closed(m, i) = Reassigned(m, i, e, n)
  BY <1>1 DEF Closed, Reassigned, At
<1> HIDE DEF e, n
<1>5. /\ Owned(Closed(m, i))
      /\ Len(Closed(m, i).torrents) = Len(m.torrents)
      /\ At(Closed(m, i), i) = e
      /\ \A k \in DOMAIN m.torrents \ {i + 1} :
           Closed(m, i).torrents[k] = m.torrents[k]
  BY <1>2, <1>3, <1>4, ReassignedOwned
<1> QED  BY <1>5 DEF Holds, e

(* A new state for an entry.                                                 *)
Restated(m, i, state) == [m EXCEPT !.torrents[i + 1].state = state]

LEMMA RestatedOwned ==
  ASSUME NEW m, Owned(m), NEW i, Holds(m, i),
         NEW state \in {"stopped", "downloading", "done", "error"}
  PROVE  LET r == Restated(m, i, state)
         IN  /\ Owned(r) /\ Len(r.torrents) = Len(m.torrents)
             /\ At(r, i) = [At(m, i) EXCEPT !.state = state]
             /\ \A k \in DOMAIN m.torrents \ {i + 1} : r.torrents[k] = m.torrents[k]
<1> DEFINE e == [At(m, i) EXCEPT !.state = state]
           r == Restated(m, i, state)
           n == m.descriptors
<1>1. At(m, i) \in Entry /\ m.descriptors \in Int /\ i + 1 \in DOMAIN m.torrents
  BY EntryType
<1>2. e \in Entry /\ e.open = At(m, i).open
  BY <1>1 DEF Entry
<1>3. n = m.descriptors + (IF e.open THEN 1 ELSE 0) - (IF At(m, i).open THEN 1 ELSE 0)
  <2> HIDE DEF e
  <2>1. CASE At(m, i).open
    BY <1>1, <1>2, <2>1
  <2>2. CASE ~At(m, i).open
    BY <1>1, <1>2, <2>2
  <2> QED  BY <2>1, <2>2
<1>4. r = Reassigned(m, i, e, n)
  BY <1>1 DEF Restated, Reassigned, At, Owned
<1> HIDE DEF e, n, r
<1>5. /\ Owned(r) /\ Len(r.torrents) = Len(m.torrents) /\ At(r, i) = e
      /\ \A k \in DOMAIN m.torrents \ {i + 1} : r.torrents[k] = m.torrents[k]
  BY <1>2, <1>3, <1>4, ReassignedOwned
<1> QED  BY <1>5 DEF e, r

LEMMA StoppedOwned ==
  ASSUME NEW m, Owned(m), NEW i
  PROVE  /\ Owned(Stopped(m, i))
         /\ Len(Stopped(m, i).torrents) = Len(m.torrents)
         /\ Holds(m, i) => ~At(Stopped(m, i), i).open
         /\ \A k \in DOMAIN m.torrents \ {i + 1} :
              Stopped(m, i).torrents[k] = m.torrents[k]
<1>1. CASE ~Holds(m, i)
  BY <1>1 DEF Stopped
<1>2. CASE Holds(m, i)
  <2> DEFINE c == Closed(m, i)
  <2>1. Stopped(m, i) = Restated(c, i, "stopped")
    BY <1>2 DEF Stopped, Restated
  <2>2. /\ Owned(c) /\ Holds(c, i) /\ Len(c.torrents) = Len(m.torrents)
        /\ At(c, i) = [At(m, i) EXCEPT !.open = FALSE]
        /\ \A k \in DOMAIN m.torrents \ {i + 1} : c.torrents[k] = m.torrents[k]
    BY <1>2, ClosedOwned
  <2>3. At(m, i) \in Entry /\ m.torrents \in Seq(Entry)
    BY <1>2, EntryType
  <2>4. c.torrents \in Seq(Entry) /\ DOMAIN c.torrents = DOMAIN m.torrents
    BY <2>2, <2>3 DEF Owned
  <2> HIDE DEF c
  <2>5. /\ Owned(Stopped(m, i)) /\ Len(Stopped(m, i).torrents) = Len(c.torrents)
        /\ At(Stopped(m, i), i) = [At(c, i) EXCEPT !.state = "stopped"]
        /\ \A k \in DOMAIN c.torrents \ {i + 1} :
             Stopped(m, i).torrents[k] = c.torrents[k]
    <3>1. "stopped" \in {"stopped", "downloading", "done", "error"}
      OBVIOUS
    <3>2. /\ Owned(Restated(c, i, "stopped"))
          /\ Len(Restated(c, i, "stopped").torrents) = Len(c.torrents)
          /\ At(Restated(c, i, "stopped"), i) = [At(c, i) EXCEPT !.state = "stopped"]
          /\ \A k \in DOMAIN c.torrents \ {i + 1} :
               Restated(c, i, "stopped").torrents[k] = c.torrents[k]
      BY <2>2, <3>1, RestatedOwned
    <3> QED  BY <2>1, <3>2
  <2>6. ~At(Stopped(m, i), i).open
    BY <2>2, <2>3, <2>5 DEF Entry
  <2> QED  BY <2>2, <2>4, <2>5, <2>6
<1> QED  BY <1>1, <1>2

LEMMA RemovedOwned ==
  ASSUME NEW m, Owned(m), NEW i
  PROVE  Owned(Removed(m, i))
<1>1. CASE ~Holds(m, i)
  BY <1>1 DEF Removed
<1>2. CASE Holds(m, i)
  <2> DEFINE s == Stopped(m, i)
  <2>1. Owned(s) /\ Len(s.torrents) = Len(m.torrents) /\ ~At(s, i).open
    BY <1>2, StoppedOwned
  <2>2. Removed(m, i) = [s EXCEPT !.torrents = RemoveAt(s.torrents, i + 1)]
    BY <1>2 DEF Removed
  <2> HIDE DEF s
  <2>3. s.torrents \in Seq(Entry) /\ i + 1 \in DOMAIN s.torrents /\ ~s.torrents[i + 1].open
    BY <1>2, <2>1 DEF Owned, Holds, At
  <2>4. /\ RemoveAt(s.torrents, i + 1) \in Seq(Entry)
        /\ Cardinality(Opened(RemoveAt(s.torrents, i + 1)))
             = Cardinality(Opened(s.torrents))
    BY <2>3, RemovedEntry
  <2> QED  BY <2>1, <2>2, <2>4 DEF Owned
<1> QED  BY <1>1, <1>2

LEMMA StartedOwned ==
  ASSUME NEW m, Owned(m), NEW i, Holds(m, i), NEW fault
  PROVE  /\ Owned(Started(m, i, fault)) /\ Holds(Started(m, i, fault), i)
         /\ Len(Started(m, i, fault).torrents) = Len(m.torrents)
         /\ \A k \in DOMAIN m.torrents \ {i + 1} :
              Started(m, i, fault).torrents[k] = m.torrents[k]
<1>0. At(m, i) \in Entry /\ m.torrents \in Seq(Entry)
  BY EntryType
<1>1. CASE Running(At(m, i))
  BY <1>1 DEF Started
<1>2. CASE ~Running(At(m, i))
  <2> DEFINE can == Startable(At(m, i), fault)
             opens == can /\ At(m, i).torrent = "single"
             c == Closed(m, i)
             state == IF can THEN "downloading" ELSE "error"
             n == IF opens THEN c.descriptors + 1 ELSE c.descriptors
             e == [[At(c, i) EXCEPT !.state = state] EXCEPT !.open = opens]
  <2>1. /\ Owned(c) /\ Holds(c, i) /\ Len(c.torrents) = Len(m.torrents)
        /\ At(c, i) = [At(m, i) EXCEPT !.open = FALSE]
        /\ \A k \in DOMAIN m.torrents \ {i + 1} : c.torrents[k] = m.torrents[k]
    BY ClosedOwned
  <2>2. /\ At(c, i) \in Entry /\ c.descriptors \in Int
        /\ i + 1 \in DOMAIN c.torrents /\ c.torrents \in Seq(Entry)
    <3> HIDE DEF c
    <3> QED  BY <2>1, EntryType
  <2>3. ~At(c, i).open
    <3> HIDE DEF c
    <3> QED  BY <1>0, <2>1 DEF Entry
  <2>4. opens \in BOOLEAN /\ state \in {"stopped", "downloading", "done", "error"}
    OBVIOUS
  <2>5. Started(m, i, fault) =
          [c EXCEPT !.torrents[i + 1].state = state, !.torrents[i + 1].open = opens,
                    !.descriptors = n]
    BY <1>2 DEF Started
  <2> HIDE DEF c, opens, state, n
  <2>6. e \in Entry /\ e.open = opens
    BY <2>2, <2>4 DEF Entry
  <2>7. Started(m, i, fault) = Reassigned(c, i, e, n)
    BY <2>1, <2>2, <2>5 DEF Reassigned, At, Owned
  <2>8. n = c.descriptors + (IF e.open THEN 1 ELSE 0) - (IF At(c, i).open THEN 1 ELSE 0)
    <3>1. CASE opens
      BY <2>2, <2>3, <2>6, <3>1 DEF n
    <3>2. CASE ~opens
      BY <2>2, <2>3, <2>6, <3>2 DEF n
    <3> QED  BY <3>1, <3>2
  <2> HIDE DEF e
  <2>9. /\ Owned(Started(m, i, fault))
        /\ Len(Started(m, i, fault).torrents) = Len(c.torrents)
        /\ \A k \in DOMAIN c.torrents \ {i + 1} :
             Started(m, i, fault).torrents[k] = c.torrents[k]
    <3>0. Owned(c) /\ Holds(c, i) /\ e \in Entry
      BY <2>1, <2>6
    <3>1. /\ Owned(Reassigned(c, i, e, n))
          /\ Len(Reassigned(c, i, e, n).torrents) = Len(c.torrents)
          /\ \A k \in DOMAIN c.torrents \ {i + 1} :
               Reassigned(c, i, e, n).torrents[k] = c.torrents[k]
      BY <2>8, <3>0, ReassignedOwned
    <3> QED  BY <2>7, <3>1
  <2>10. DOMAIN c.torrents = DOMAIN m.torrents
    BY <1>0, <2>1, <2>2
  <2> QED  BY <2>1, <2>9, <2>10 DEF Holds
<1> QED
  BY <1>1, <1>2

LEMMA EndedOwned ==
  ASSUME NEW m, Owned(m), NEW i, Holds(m, i), NEW state \in {"done", "error"}
  PROVE  Owned(Ended(m, i, state))
<1>1. "done" \in {"stopped", "downloading", "done", "error"}
      /\ "error" \in {"stopped", "downloading", "done", "error"}
  OBVIOUS
<1>2. Owned(Closed(m, i)) /\ Holds(Closed(m, i), i)
  BY ClosedOwned
<1>3. Owned(Restated(Closed(m, i), i, "done"))
  BY <1>1, <1>2, RestatedOwned
<1>4. Owned(Restated(m, i, "error"))
  BY <1>1, RestatedOwned
<1> QED  BY <1>3, <1>4 DEF Ended, Restated

(* The shutdown, by induction on the entries; first, the function that       *)
(* AllRemoved is defined by exists.                                         *)
AreLeft(f, n, m) ==
  f = [k \in 0 .. n |->
         IF k = 0 THEN m ELSE Removed(f[k - 1], Len(f[k - 1].torrents) - 1)]

LEMMA LeftExists ==
  ASSUME NEW m, NEW n \in Nat
  PROVE  \E f : AreLeft(f, n, m)
<1> DEFINE Bad == {k \in Nat : ~ \E f : AreLeft(f, k, m)}
           R(x) == Removed(x, Len(x.torrents) - 1)
<1> SUFFICES ASSUME Bad # {}  PROVE FALSE
  OBVIOUS
<1>1. PICK l \in Bad : \A k \in Bad : l <= k
  BY LeastNatural
<1>2. l \in Nat /\ ~ \E f : AreLeft(f, l, m)
  BY <1>1
<1>3. CASE l = 0
  <2>1. AreLeft([k \in 0 .. 0 |-> m], 0, m)
    BY DEF AreLeft
  <2> QED  BY <1>2, <1>3, <2>1
<1>4. CASE l # 0
  <2>1. l - 1 \in Nat /\ l - 1 \notin Bad
    BY <1>1, <1>2, <1>4
  <2>2. PICK f : AreLeft(f, l - 1, m)
    BY <2>1
  <2>3. \A k \in 0 .. l - 1 : f[k] = IF k = 0 THEN m ELSE R(f[k - 1])
    BY <2>2 DEF AreLeft
  <2> HIDE DEF R
  <2> DEFINE g == [k \in 0 .. l |-> IF k = l THEN R(f[l - 1]) ELSE f[k]]
  <2>4. \A k \in 0 .. l : g[k] = IF k = 0 THEN m ELSE R(g[k - 1])
    <3> SUFFICES ASSUME NEW k \in 0 .. l
                 PROVE  g[k] = IF k = 0 THEN m ELSE R(g[k - 1])
      OBVIOUS
    <3>1. CASE k = l
      <4>1. g[l - 1] = f[l - 1]
        BY <1>2, <2>1
      <4> QED  BY <1>4, <3>1, <4>1
    <3>2. CASE k # l
      <4>1. k \in 0 .. l - 1 /\ g[k] = f[k]
        BY <1>2, <3>2
      <4>2. k # 0 => g[k - 1] = f[k - 1]
        BY <1>2
      <4> QED  BY <2>3, <4>1, <4>2
    <3> QED  BY <3>1, <3>2
  <2>5. g = [k \in 0 .. l |-> IF k = 0 THEN m ELSE R(g[k - 1])]
    BY <2>4
  <2>6. AreLeft(g, l, m)
    BY <2>5 DEF AreLeft, R
  <2> QED  BY <1>2, <2>6
<1> QED  BY <1>3, <1>4

LEMMA AllRemovedOwned ==
  ASSUME NEW m, Owned(m)
  PROVE  Owned(AllRemoved(m))
<1> DEFINE n == Len(m.torrents)
           f == CHOOSE g : AreLeft(g, n, m)
           Bad == {k \in 0 .. n : ~Owned(f[k])}
<1>0. n \in Nat
  BY DEF Owned
<1>1. AllRemoved(m) = f[n]
  BY DEF AllRemoved, AreLeft
<1>2. AreLeft(f, n, m)
  BY <1>0, LeftExists
<1> HIDE DEF f, n
<1>3. \A k \in 0 .. n :
        f[k] = IF k = 0 THEN m ELSE Removed(f[k - 1], Len(f[k - 1].torrents) - 1)
  BY <1>2 DEF AreLeft
<1>4. Bad = {}
  <2> SUFFICES ASSUME Bad # {}  PROVE FALSE
    OBVIOUS
  <2> Bad \subseteq Nat
    BY <1>0
  <2> HIDE DEF Bad
  <2>1. PICK l \in Bad : \A k \in Bad : l <= k
    BY LeastNatural
  <2> USE DEF Bad
  <2>2. l # 0
    BY <1>0, <1>3, <2>1
  <2>3. l \in 1 .. n /\ l - 1 \in 0 .. n
    BY <1>0, <2>1, <2>2
  <2>4. Owned(f[l - 1])
    BY <2>1, <2>3
  <2>5. Owned(f[l])
    BY <1>3, <2>2, <2>3, <2>4, RemovedOwned
  <2> QED  BY <2>1, <2>5
<1> QED  BY <1>0, <1>1, <1>4

-----------------------------------------------------------------------------
(* The handlers.                                                            *)

(* What could not be started is removed again, and leaves no trace.          *)
LEMMA HandleAddOwned ==
  ASSUME NEW m, Owned(m), NEW posted, NEW form, NEW fault
  PROVE  LET r == HandleAdd(m, posted, form, fault)
         IN  /\ Owned(r)
             /\ \/ r = m
                \/ Front(r.torrents) = m.torrents /\ Running(Last(r.torrents))
<1> DEFINE n == Len(m.torrents)
           added == Added(m, form)
           tried == Started(added, n, fault)
           r == HandleAdd(m, posted, form, fault)
<1>0. m.torrents \in Seq(Entry) /\ n \in Nat
  BY DEF Owned
<1>1. CASE ~posted \/ form \notin Torrent \/ ~Fits(m)
  <2>1. r = m
    BY <1>1 DEF HandleAdd
  <2> QED  BY <2>1
<1>2. CASE ~(~posted \/ form \notin Torrent \/ ~Fits(m))
  <2>1. Owned(added) /\ Len(added.torrents) = n + 1
    BY <1>2, AddedOwned
  <2>2. \A k \in 1 .. n : added.torrents[k] = m.torrents[k]
    BY <1>0 DEF Added, Owned
  <2>3. Holds(added, n)
    BY <1>0, <2>1 DEF Holds
  <2> HIDE DEF added
  <2>4. /\ Owned(tried) /\ Len(tried.torrents) = n + 1 /\ Holds(tried, n)
        /\ \A k \in DOMAIN added.torrents \ {n + 1} :
             tried.torrents[k] = added.torrents[k]
    BY <2>1, <2>3, StartedOwned
  <2>5. added.torrents \in Seq(Entry) /\ tried.torrents \in Seq(Entry)
    BY <2>1, <2>4 DEF Owned
  <2>6. \A k \in 1 .. n : tried.torrents[k] = m.torrents[k]
    <3>1. \A k \in 1 .. n : k \in DOMAIN added.torrents \ {n + 1}
      BY <1>0, <2>1, <2>5
    <3> QED  BY <2>2, <2>4, <3>1
  <2>7. r = IF Running(At(tried, n)) THEN tried ELSE Removed(tried, n)
    BY <1>2 DEF HandleAdd, AfterFailedAdd, added
  <2> HIDE DEF tried, r
  <2>8. CASE Running(At(tried, n))
    <3>1. Front(tried.torrents) = m.torrents
      <4>1. /\ Front(tried.torrents) \in Seq(Entry) /\ Len(Front(tried.torrents)) = n
            /\ \A k \in 1 .. n : Front(tried.torrents)[k] = tried.torrents[k]
        BY <1>0, <2>4, <2>5 DEF Front
      <4> QED  BY <1>0, <2>6, <4>1
    <3>2. Last(tried.torrents) = At(tried, n)
      BY <2>4 DEF Last, At
    <3> QED  BY <2>4, <2>7, <2>8, <3>1, <3>2 DEF r
  <2>9. CASE ~Running(At(tried, n))
    <3> DEFINE s == Stopped(tried, n)
    <3>1. /\ Owned(s) /\ Len(s.torrents) = n + 1
          /\ \A k \in DOMAIN tried.torrents \ {n + 1} : s.torrents[k] = tried.torrents[k]
      BY <2>4, StoppedOwned
    <3>2. \A k \in 1 .. n : s.torrents[k] = m.torrents[k]
      <4>1. \A k \in 1 .. n : k \in DOMAIN tried.torrents \ {n + 1}
        BY <1>0, <2>4, <2>5
      <4> HIDE DEF s
      <4> QED  BY <2>6, <3>1, <4>1
    <3>3. r = [s EXCEPT !.torrents = RemoveAt(s.torrents, n + 1)]
      BY <2>4, <2>7, <2>9 DEF Removed
    <3> HIDE DEF s
    <3>4. s.torrents \in Seq(Entry) /\ n + 1 \in DOMAIN s.torrents
      BY <1>0, <3>1 DEF Owned
    <3>5. /\ RemoveAt(s.torrents, n + 1) \in Seq(Entry)
          /\ Len(RemoveAt(s.torrents, n + 1)) = n
          /\ \A k \in 1 .. n : RemoveAt(s.torrents, n + 1)[k] = s.torrents[k]
      <4>1. /\ RemoveAt(s.torrents, n + 1) \in Seq(Entry)
            /\ Len(RemoveAt(s.torrents, n + 1)) = Len(s.torrents) - 1
            /\ \A k \in 1 .. Len(s.torrents) - 1 :
                 RemoveAt(s.torrents, n + 1)[k] =
                   IF k < n + 1 THEN s.torrents[k] ELSE s.torrents[k + 1]
        BY <3>4, RemovedElements
      <4>2. Len(s.torrents) - 1 = n /\ \A k \in 1 .. n : k < n + 1
        BY <1>0, <3>1
      <4> QED  BY <4>1, <4>2
    <3>6. RemoveAt(s.torrents, n + 1) = m.torrents
      BY <1>0, <3>2, <3>5
    <3>7. Owned(r)
      BY <2>4, <2>7, <2>9, RemovedOwned
    <3>8. r.torrents = m.torrents
      BY <3>1, <3>3, <3>6 DEF Owned
    <3>9. r = m
      BY <3>7, <3>8 DEF Owned
    <3> QED  BY <3>7, <3>9 DEF r
  <2> QED  BY <2>8, <2>9 DEF r
<1> QED  BY <1>1, <1>2

LEMMA HandleActionOwned ==
  ASSUME NEW m, Owned(m), NEW posted, NEW index, NEW verb, NEW fault
  PROVE  Owned(HandleAction(m, posted, index, verb, fault))
<1>1. Holds(m, index) => Owned(Started(m, index, fault))
  BY StartedOwned
<1>2. Owned(Stopped(m, index)) /\ Owned(Removed(m, index))
  BY StoppedOwned, RemovedOwned
<1> QED  BY <1>1, <1>2 DEF HandleAction

LEMMA EffectsOwned ==
  ASSUME Owned(mgr), NEW r, NEW body, mgr' \in Effects(r, body)
  PROVE  /\ Owned(mgr')
         /\ HandlerOf(r.path) = "add" =>
              \/ mgr' = mgr
              \/ /\ Front(mgr'.torrents) = mgr.torrents
                 /\ Running(Last(mgr'.torrents))
<1>1. CASE HandlerOf(r.path) = "add"
  <2>1. PICK try \in [form : Forms(r, body), fault : Fault] :
          mgr' = HandleAdd(mgr, r.post /\ body # NoBody, try.form, try.fault)
    BY <1>1, Zenon DEF Effects
  <2> DEFINE posted == r.post /\ body # NoBody
  <2> HIDE DEF posted
  <2>2. mgr' = HandleAdd(mgr, posted, try.form, try.fault)
    BY <2>1 DEF posted
  <2> QED  BY <2>2, HandleAddOwned
<1>2. CASE HandlerOf(r.path) = "action"
  <2>1. PICK fault \in Fault :
          mgr' = HandleAction(mgr, r.post, r.index, r.verb, fault)
    BY <1>2, Zenon DEF Effects
  <2> QED  BY <1>2, <2>1, HandleActionOwned
<1>3. CASE HandlerOf(r.path) \notin {"add", "action"}
  <2>1. mgr' = mgr
    BY <1>3 DEF Effects
  <2> QED  BY <1>3, <2>1
<1> QED  BY <1>1, <1>2, <1>3

-----------------------------------------------------------------------------
(* The inductive invariant of the server; TLC finds each part to hold on the *)
(* instance of the run http_panel.                                          *)

Request == {NoRequest} \cup UNION {Requests[c] : c \in Conn}
Connection == [state : {"idle", "backlog", "open"}, request : Request,
               arrived : Nat, ended : BOOLEAN]

Typing ==
  /\ conn \in [Conn -> Connection]
  /\ table \in Seq(Conn \cup {None})
  /\ main \in [at : {"loop", "serve", "body", "down"}, ready : SUBSET Conn, body : Int]

(* The body that the server waits for is that of a connection in its table.  *)
Serving == main.at = "body" => Waiting # {}

HttpInv == Typing /\ SlotsOwned /\ Serving /\ Owned(mgr)

-----------------------------------------------------------------------------
(* The slots.                                                               *)

(* The connection that is served is one of the table, and open.              *)
LEMMA CurrentIsOpen ==
  ASSUME Typing, SlotsOwned, Waiting # {}
  PROVE  /\ Min(Waiting) \in DOMAIN table /\ Current = table[Min(Waiting)]
         /\ Current \in Conn /\ Open(Current)
<1>1. Waiting \subseteq DOMAIN table /\ DOMAIN table \subseteq Nat
  BY DEF Waiting, Typing
<1>2. \E n \in Waiting : \A k \in Waiting : n <= k
  <2> HIDE DEF Waiting
  <2> QED  BY <1>1, LeastNatural
<1>3. Min(Waiting) \in Waiting
  BY <1>2 DEF Min
<1>4. table[Min(Waiting)] \in main.ready /\ main.ready \subseteq Conn
  BY <1>3 DEF Waiting, Typing
<1>5. Current \in Conn /\ Current = table[Min(Waiting)]
  BY <1>4 DEF Current
<1> QED  BY <1>1, <1>3, <1>5 DEF SlotsOwned

(* Its slot and the connection are given back together.                      *)
LEMMA ServedOwned ==
  ASSUME HttpInv, Waiting # {}, main.at \in {"serve", "body"},
         conn' = [conn EXCEPT ![Current] = Idle], table' = Served,
         main'.at = "serve",
         main' \in [at : {"loop", "serve", "body", "down"}, ready : SUBSET Conn,
                    body : Int]
  PROVE  Typing' /\ SlotsOwned' /\ Serving'
<1> DEFINE k == Min(Waiting)
<1>1. /\ k \in DOMAIN table /\ Current = table[k] /\ Current \in Conn /\ Open(Current)
      /\ table' = [table EXCEPT ![k] = None]
  BY CurrentIsOpen DEF HttpInv, Served
<1> HIDE DEF k
<1>2. conn \in [Conn -> Connection] /\ table \in Seq(Conn \cup {None})
  BY DEF HttpInv, Typing
<1>3. Idle \in Connection /\ Idle.state = "idle"
  BY DEF Idle, Connection, Request
<1>4. conn' \in [Conn -> Connection]
  BY <1>2, <1>3
<1>5. table' \in Seq(Conn \cup {None}) /\ DOMAIN table' = DOMAIN table
  BY <1>1, <1>2
<1>6. Typing'
  BY <1>4, <1>5 DEF Typing
<1>7. \A c \in Conn : Open(c)' <=> Open(c) /\ c # Current
  BY <1>2, <1>3 DEF Open
<1>8. /\ table'[k] = None
      /\ \A i \in DOMAIN table : i # k => table'[i] = table[i]
  BY <1>1, <1>2
<1>9. /\ \A c \in Conn : Open(c) <=> \E i \in DOMAIN table : table[i] = c
      /\ \A i, j \in DOMAIN table : table[i] = table[j] /\ table[i] # None => i = j
  BY DEF HttpInv, SlotsOwned
<1>10. ASSUME NEW c \in Conn
       PROVE  Open(c)' <=> \E i \in DOMAIN table' : table'[i] = c
  <2>1. c # None
    BY HttpAssumption
  <2>2. CASE c = Current
    <3>1. \A i \in DOMAIN table : table'[i] # c
      BY <1>1, <1>8, <1>9, <2>1, <2>2
    <3> QED  BY <1>5, <1>7, <2>2, <3>1
  <2>3. CASE c # Current
    <3>1. \A i \in DOMAIN table : table'[i] = c <=> table[i] = c
      BY <1>1, <1>8, <2>1, <2>3
    <3> QED  BY <1>5, <1>7, <1>9, <2>3, <3>1
  <2> QED  BY <2>2, <2>3
<1>11. \A i, j \in DOMAIN table' :
         table'[i] = table'[j] /\ table'[i] # None => i = j
  BY <1>5, <1>8, <1>9
<1>12. SlotsOwned' /\ Serving'
  BY <1>10, <1>11 DEF SlotsOwned, Serving
<1> QED  BY <1>6, <1>12

(* The compaction keeps the connections of the table, each once.             *)
AreKept(f, n, t) ==
  f = [k \in 0 .. n |->
         IF k = 0 THEN <<>>
         ELSE IF t[k] = None THEN f[k - 1] ELSE Append(f[k - 1], t[k])]

LEMMA KeptExists ==
  ASSUME NEW t, NEW n \in Nat
  PROVE  \E f : AreKept(f, n, t)
<1> DEFINE Bad == {k \in Nat : ~ \E f : AreKept(f, k, t)}
           R(x, k) == IF t[k] = None THEN x ELSE Append(x, t[k])
<1> SUFFICES ASSUME Bad # {}  PROVE FALSE
  OBVIOUS
<1>1. PICK l \in Bad : \A k \in Bad : l <= k
  BY LeastNatural
<1>2. l \in Nat /\ ~ \E f : AreKept(f, l, t)
  BY <1>1
<1>3. CASE l = 0
  <2>1. AreKept([k \in 0 .. 0 |-> <<>>], 0, t)
    BY DEF AreKept
  <2> QED  BY <1>2, <1>3, <2>1
<1>4. CASE l # 0
  <2>1. l - 1 \in Nat /\ l - 1 \notin Bad
    BY <1>1, <1>2, <1>4
  <2>2. PICK f : AreKept(f, l - 1, t)
    BY <2>1
  <2>3. \A k \in 0 .. l - 1 : f[k] = IF k = 0 THEN <<>> ELSE R(f[k - 1], k)
    BY <2>2 DEF AreKept
  <2> HIDE DEF R
  <2> DEFINE g == [k \in 0 .. l |-> IF k = l THEN R(f[l - 1], l) ELSE f[k]]
  <2>4. \A k \in 0 .. l : g[k] = IF k = 0 THEN <<>> ELSE R(g[k - 1], k)
    <3> SUFFICES ASSUME NEW k \in 0 .. l
                 PROVE  g[k] = IF k = 0 THEN <<>> ELSE R(g[k - 1], k)
      OBVIOUS
    <3>1. CASE k = l
      <4>1. g[l - 1] = f[l - 1]
        BY <1>2, <2>1
      <4> QED  BY <1>4, <3>1, <4>1
    <3>2. CASE k # l
      <4>1. k \in 0 .. l - 1 /\ g[k] = f[k]
        BY <1>2, <3>2
      <4>2. k # 0 => g[k - 1] = f[k - 1]
        BY <1>2
      <4> QED  BY <2>3, <4>1, <4>2
    <3> QED  BY <3>1, <3>2
  <2>5. g = [k \in 0 .. l |-> IF k = 0 THEN <<>> ELSE R(g[k - 1], k)]
    BY <2>4
  <2>6. AreKept(g, l, t)
    BY <2>5 DEF AreKept, R
  <2> QED  BY <1>2, <2>6
<1> QED  BY <1>3, <1>4

LEMMA CompactedKeeps ==
  ASSUME NEW t \in Seq(Conn \cup {None}),
         \A i, j \in DOMAIN t : t[i] = t[j] /\ t[i] # None => i = j
  PROVE  LET u == Compacted(t)
         IN  /\ u \in Seq(Conn)
             /\ \A c \in Conn : (\E i \in DOMAIN u : u[i] = c)
                                  <=> \E i \in DOMAIN t : t[i] = c
             /\ \A i, j \in DOMAIN u : u[i] = u[j] => i = j
<1> DEFINE f == CHOOSE g : AreKept(g, Len(t), t)
           Good(n) ==
             /\ f[n] \in Seq(Conn)
             /\ \A c \in Conn : (\E i \in DOMAIN f[n] : f[n][i] = c)
                                  <=> \E i \in 1 .. n : t[i] = c
             /\ \A i, j \in DOMAIN f[n] : f[n][i] = f[n][j] => i = j
           Bad == {n \in 0 .. Len(t) : ~Good(n)}
<1>0. Len(t) \in Nat /\ DOMAIN t = 1 .. Len(t)
  OBVIOUS
<1>1. Compacted(t) = f[Len(t)]
  BY DEF Compacted, AreKept
<1>2. AreKept(f, Len(t), t)
  BY <1>0, KeptExists
<1> HIDE DEF f
<1>3. \A n \in 0 .. Len(t) :
        f[n] = IF n = 0 THEN <<>>
               ELSE IF t[n] = None THEN f[n - 1] ELSE Append(f[n - 1], t[n])
  BY <1>2 DEF AreKept
<1>4. Good(0)
  <2>1. f[0] = <<>>
    BY <1>0, <1>3
  <2> QED  BY <2>1
<1>5. ASSUME NEW n \in 1 .. Len(t), Good(n - 1)
      PROVE  Good(n)
  <2>1. f[n] = IF t[n] = None THEN f[n - 1] ELSE Append(f[n - 1], t[n])
    BY <1>0, <1>3
  <2>2. 1 .. n = (1 .. n - 1) \cup {n} /\ n \in DOMAIN t
    BY <1>0
  <2>3. CASE t[n] = None
    <3>1. \A c \in Conn : c # t[n]
      BY <2>3, HttpAssumption
    <3> QED  BY <1>5, <2>1, <2>2, <2>3, <3>1
  <2>4. CASE t[n] # None
    <3> DEFINE old == f[n - 1]
               new == f[n]
    <3>1. t[n] \in Conn
      BY <2>2, <2>4
    <3>2. new = Append(old, t[n]) /\ old \in Seq(Conn)
      BY <1>5, <2>1, <2>4
    <3>3. /\ \A c \in Conn : (\E i \in DOMAIN old : old[i] = c)
                                  <=> \E i \in 1 .. n - 1 : t[i] = c
          /\ \A i, j \in DOMAIN old : old[i] = old[j] => i = j
      BY <1>5
    <3> HIDE DEF old, new
    <3>4. /\ new \in Seq(Conn) /\ DOMAIN new = DOMAIN old \cup {Len(old) + 1}
          /\ Len(old) + 1 \notin DOMAIN old /\ new[Len(old) + 1] = t[n]
          /\ \A i \in DOMAIN old : new[i] = old[i]
      BY <3>1, <3>2
    <3>5. \A i \in 1 .. n - 1 : i \in DOMAIN t /\ i # n
      BY <1>0
    <3>6. \A i \in DOMAIN old : old[i] # t[n]
      BY <2>2, <2>4, <3>1, <3>3, <3>5
    <3>7. \A c \in Conn : (\E i \in DOMAIN new : new[i] = c)
                              <=> \E i \in 1 .. n : t[i] = c
      BY <2>2, <3>3, <3>4
    <3>8. \A i, j \in DOMAIN new : new[i] = new[j] => i = j
      BY <3>3, <3>4, <3>6
    <3> QED  BY <3>4, <3>7, <3>8 DEF new
  <2> QED  BY <2>3, <2>4
<1>6. Bad = {}
  <2> SUFFICES ASSUME Bad # {}  PROVE FALSE
    OBVIOUS
  <2> Bad \subseteq Nat
    BY <1>0
  <2> HIDE DEF Bad
  <2>1. PICK l \in Bad : \A k \in Bad : l <= k
    BY LeastNatural
  <2> USE DEF Bad
  <2> HIDE DEF Good
  <2>2. l # 0
    BY <1>4, <2>1
  <2>3. l \in 1 .. Len(t) /\ l - 1 \in 0 .. Len(t)
    BY <1>0, <2>1, <2>2
  <2>4. Good(l - 1)
    BY <2>1, <2>3
  <2>5. Good(l)
    BY <1>5, <2>3, <2>4
  <2> QED  BY <2>1, <2>5
<1>7. Good(Len(t))
  <2> HIDE DEF Good
  <2> QED  BY <1>0, <1>6
<1> QED  BY <1>0, <1>1, <1>7

-----------------------------------------------------------------------------
(* Every step keeps the invariant.                                          *)

Main == [at : {"loop", "serve", "body", "down"}, ready : SUBSET Conn, body : Int]

LEMMA HttpInit == Init => HttpInv
<1> SUFFICES ASSUME Init  PROVE HttpInv
  OBVIOUS
<1>1. Idle \in Connection /\ Idle.state = "idle"
  BY DEF Idle, Connection, Request
<1>2. Typing
  BY <1>1 DEF Init, Typing, Loop, NoBody
<1>3. SlotsOwned /\ Serving
  BY <1>1 DEF Init, SlotsOwned, Serving, Open, Loop
<1>4. Owned(mgr)
  <2>1. Opened(<<>>) = {}
    BY DEF Opened
  <2>2. mgr = [torrents |-> <<>>, descriptors |-> 0]
    BY DEF Init, Empty
  <2> QED  BY <2>1, <2>2, FS_EmptySet DEF Owned
<1> QED  BY <1>2, <1>3, <1>4 DEF HttpInv

(* A step that opens and closes no connection and leaves the table.          *)
LEMMA SlotsKept ==
  ASSUME HttpInv, table' = table, conn' \in [Conn -> Connection], main' \in Main,
         \A c \in Conn : conn'[c].state = "open" <=> conn[c].state = "open",
         main'.at \in {"loop", "down"} => main.at \in {"loop", "down"},
         Serving'
  PROVE  Typing' /\ SlotsOwned' /\ Serving'
<1>1. Typing'
  BY DEF HttpInv, Typing, Main
<1>2. \A c \in Conn : Open(c)' <=> Open(c)
  BY DEF Open
<1>3. SlotsOwned'
  BY <1>2 DEF HttpInv, SlotsOwned
<1> QED  BY <1>1, <1>3

(* What a client does.                                                      *)
LEMMA ClientsKeep == HttpInv /\ Clients => HttpInv'
<1> SUFFICES ASSUME HttpInv, Clients  PROVE HttpInv'
  OBVIOUS
<1>1. conn \in [Conn -> Connection] /\ main \in Main
  BY DEF HttpInv, Typing, Main
<1>2. mgr' = mgr /\ table' = table /\ main' = main
  BY DEF Clients, Send, Leave, Connect
<1>3. /\ conn' \in [Conn -> Connection]
      /\ \A c \in Conn : conn'[c].state = "open" <=> conn[c].state = "open"
  <2>1. ASSUME NEW c \in Conn, Send(c)
        PROVE  <1>3!1 /\ <1>3!2
    <3> DEFINE x == [conn[c] EXCEPT !.arrived = conn[c].arrived + 1]
    <3>1. conn[c].arrived + 1 \in Nat /\ conn[c] \in Connection
      BY <1>1 DEF Connection
    <3>2. x \in Connection /\ x.state = conn[c].state
      BY <3>1 DEF Connection
    <3>3. conn' = [conn EXCEPT ![c] = x]
      BY <2>1 DEF Send
    <3> HIDE DEF x
    <3> QED  BY <1>1, <3>2, <3>3
  <2>2. ASSUME NEW c \in Conn, Leave(c)
        PROVE  <1>3!1 /\ <1>3!2
    <3> DEFINE x == [conn[c] EXCEPT !.ended = TRUE]
    <3>1. x \in Connection /\ x.state = conn[c].state
      BY <1>1 DEF Connection
    <3>2. conn' = [conn EXCEPT ![c] = x]
      BY <2>2 DEF Leave
    <3> HIDE DEF x
    <3> QED  BY <1>1, <3>1, <3>2
  <2>3. ASSUME NEW c \in Conn, NEW r \in Requests[c], Connect(c, r)
        PROVE  <1>3!1 /\ <1>3!2
    <3> DEFINE x == [Idle EXCEPT !.state = "backlog", !.request = r]
    <3>1. r \in Request
      BY DEF Request
    <3>2. x \in Connection /\ x.state = "backlog"
      BY <3>1 DEF Idle, Connection
    <3>3. conn' = [conn EXCEPT ![c] = x] /\ conn[c].state = "idle"
      BY <2>3 DEF Connect
    <3> HIDE DEF x
    <3> QED  BY <1>1, <3>2, <3>3
  <2> QED  BY <2>1, <2>2, <2>3 DEF Clients
<1>4. Serving'
  <2>1. Waiting' = Waiting
    BY <1>2 DEF Waiting
  <2> QED  BY <1>2, <2>1 DEF HttpInv, Serving
<1> QED  BY <1>1, <1>2, <1>3, <1>4, SlotsKept DEF HttpInv, Owned

(* The accept.                                                              *)
LEMMA AcceptKeeps ==
  ASSUME HttpInv, NEW c \in Conn, Accept(c)
  PROVE  HttpInv'
<1>1. conn \in [Conn -> Connection] /\ main \in Main /\ table \in Seq(Conn \cup {None})
  BY DEF HttpInv, Typing, Main
<1>2. /\ main.at = "loop" /\ conn[c].state = "backlog" /\ mgr' = mgr
      /\ main' = [main EXCEPT !.at = "serve", !.ready = Readable]
  BY DEF Accept
<1>3. main' \in Main /\ main'.at = "serve"
  <2>1. Readable \in SUBSET Conn
    BY DEF Readable
  <2> QED  BY <1>1, <1>2, <2>1 DEF Main
<1>4. CASE HasSlot
  <2> DEFINE x == [conn[c] EXCEPT !.state = "open"]
  <2>1. x \in Connection /\ x.state = "open"
    BY <1>1 DEF Connection
  <2>2. conn' = [conn EXCEPT ![c] = x] /\ table' = Append(table, c)
    BY <1>4 DEF Accept
  <2> HIDE DEF x
  <2>3. conn' \in [Conn -> Connection] /\ \A b \in Conn : Open(b)' <=> Open(b) \/ b = c
    BY <1>1, <2>1, <2>2 DEF Open
  <2>4. /\ table' \in Seq(Conn \cup {None})
        /\ DOMAIN table' = DOMAIN table \cup {Len(table) + 1}
        /\ Len(table) + 1 \notin DOMAIN table /\ table'[Len(table) + 1] = c
        /\ \A i \in DOMAIN table : table'[i] = table[i]
    BY <1>1, <2>2
  <2>5. \A i \in DOMAIN table : table[i] # c
    BY <1>2 DEF HttpInv, SlotsOwned, Open
  <2>6. SlotsOwned'
    <3>1. \A b \in Conn : Open(b)' <=> \E i \in DOMAIN table' : table'[i] = b
      BY <2>3, <2>4 DEF HttpInv, SlotsOwned
    <3>2. \A i, j \in DOMAIN table' :
            table'[i] = table'[j] /\ table'[i] # None => i = j
      BY <2>4, <2>5 DEF HttpInv, SlotsOwned
    <3> QED  BY <1>3, <3>1, <3>2 DEF SlotsOwned
  <2> QED  BY <1>2, <1>3, <2>3, <2>4, <2>6 DEF HttpInv, Typing, Serving, Main, Owned
<1>5. CASE ~HasSlot
  <2>1. conn' = [conn EXCEPT ![c] = Idle] /\ table' = table
    BY <1>5 DEF Accept
  <2>2. Idle \in Connection /\ Idle.state = "idle"
    BY DEF Idle, Connection, Request
  <2>3. /\ conn' \in [Conn -> Connection]
        /\ \A b \in Conn : conn'[b].state = "open" <=> conn[b].state = "open"
    BY <1>1, <1>2, <2>1, <2>2
  <2>4. Serving'
    BY <1>3 DEF Serving
  <2> QED  BY <1>2, <1>3, <2>1, <2>3, <2>4, SlotsKept DEF HttpInv, Owned
<1> QED  BY <1>4, <1>5

(* A request is handled.                                                    *)
LEMMA HandleKeeps ==
  ASSUME HttpInv, NEW body, Handle(body), Waiting # {}, main.at \in {"serve", "body"}
  PROVE  HttpInv'
<1>1. main' \in Main /\ main'.at = "serve"
  <2>1. NoBody \in Int
    BY DEF NoBody
  <2>2. main \in Main /\ main' = [main EXCEPT !.at = "serve", !.body = NoBody]
    BY DEF Handle, HttpInv, Typing, Main
  <2> QED  BY <2>1, <2>2 DEF Main
<1>2. Typing' /\ SlotsOwned' /\ Serving'
  BY <1>1, ServedOwned DEF Handle, Main
<1>3. Owned(mgr')
  BY EffectsOwned DEF Handle, HttpInv
<1> QED  BY <1>2, <1>3 DEF HttpInv, Owned

LEMMA TickKeeps == HttpInv /\ Tick => HttpInv'
<1> SUFFICES ASSUME HttpInv, Tick  PROVE HttpInv'
  OBVIOUS
<1>1. table' = Compacted(table) /\ main' = Loop /\ conn' = conn
  BY DEF Tick
<1>2. main' \in Main /\ main'.at = "loop"
  BY <1>1 DEF Main, Loop, NoBody
<1>3. table \in Seq(Conn \cup {None})
      /\ \A i, j \in DOMAIN table : table[i] = table[j] /\ table[i] # None => i = j
  BY DEF HttpInv, Typing, SlotsOwned
<1>4. /\ table' \in Seq(Conn)
      /\ \A c \in Conn : (\E i \in DOMAIN table' : table'[i] = c)
                           <=> \E i \in DOMAIN table : table[i] = c
      /\ \A i, j \in DOMAIN table' : table'[i] = table'[j] => i = j
  BY <1>1, <1>3, CompactedKeeps
<1>5. table' \in Seq(Conn \cup {None}) /\ \A i \in DOMAIN table' : table'[i] # None
  BY <1>4, HttpAssumption
<1>6. \A c \in Conn : Open(c)' <=> Open(c)
  BY <1>1 DEF Open
<1>7. SlotsOwned'
  <2>1. \A c \in Conn : Open(c)' <=> \E i \in DOMAIN table' : table'[i] = c
    BY <1>4, <1>6 DEF HttpInv, SlotsOwned
  <2> QED  BY <1>4, <1>5, <2>1 DEF SlotsOwned
<1>8. Owned(mgr')
  <2>1. CASE UNCHANGED mgr
    BY <2>1 DEF HttpInv
  <2>2. ASSUME NEW i \in 0 .. Len(mgr.torrents) - 1, NEW state \in {"done", "error"},
               mgr' = Ended(mgr, i, state)
        PROVE  Owned(mgr')
    BY <2>2, EndedOwned DEF HttpInv, Holds
  <2> QED  BY <2>1, <2>2 DEF Tick
<1> QED  BY <1>1, <1>2, <1>5, <1>7, <1>8 DEF HttpInv, Typing, Serving, Main, Owned

LEMMA ShutDownKeeps == HttpInv /\ ShutDown => HttpInv'
<1> SUFFICES ASSUME HttpInv, ShutDown  PROVE HttpInv'
  OBVIOUS
<1>1. /\ table' = <<>> /\ main' = [main EXCEPT !.at = "down"]
      /\ conn' = [c \in Conn |-> IF Open(c) THEN Idle ELSE conn[c]]
  BY DEF ShutDown
<1>2. main' \in Main /\ main'.at = "down"
  BY <1>1 DEF HttpInv, Typing, Main
<1>3. Idle \in Connection /\ Idle.state = "idle"
  BY DEF Idle, Connection, Request
<1>4. conn' \in [Conn -> Connection] /\ \A c \in Conn : ~Open(c)'
  BY <1>1, <1>3 DEF HttpInv, Typing, Open
<1>5. Owned(mgr')
  BY AllRemovedOwned DEF ShutDown, HttpInv
<1>6. SlotsOwned' /\ Typing' /\ Serving'
  BY <1>1, <1>2, <1>4 DEF SlotsOwned, Typing, Serving, Main
<1> QED  BY <1>5, <1>6 DEF HttpInv, Owned

LEMMA ServeKeeps == HttpInv /\ Serve => HttpInv'
<1> SUFFICES ASSUME HttpInv, Serve  PROVE HttpInv'
  OBVIOUS
<1>0. main \in Main /\ conn \in [Conn -> Connection]
  BY DEF HttpInv, Typing, Main
<1>1. CASE SelectOnly
  <2>1. Readable \in SUBSET Conn
    BY DEF Readable
  <2>2. /\ main' \in Main /\ main'.at = "serve" /\ UNCHANGED <<mgr, conn, table>>
    BY <1>0, <1>1, <2>1 DEF SelectOnly, Main
  <2>3. Serving'
    BY <2>2 DEF Serving
  <2> QED  BY <1>0, <2>2, <2>3, SlotsKept DEF HttpInv, Owned
<1>2. CASE \E c \in Conn : Accept(c)
  BY <1>2, AcceptKeeps
<1>3. CASE DropConnection
  <2>1. /\ main.at = "serve" /\ Waiting # {} /\ mgr' = mgr /\ main' = main
        /\ conn' = [conn EXCEPT ![Current] = Idle] /\ table' = Served
    BY <1>3 DEF DropConnection
  <2>2. Typing' /\ SlotsOwned' /\ Serving'
    BY <1>0, <2>1, ServedOwned DEF Main
  <2> QED  BY <2>1, <2>2 DEF HttpInv, Owned
<1>4. CASE ServeAtOnce
  BY <1>4, HandleKeeps DEF ServeAtOnce, HasRequest
<1>5. CASE AwaitBody
  <2>1. /\ main.at = "serve" /\ Waiting # {} /\ UNCHANGED <<mgr, conn, table>>
        /\ main' = [main EXCEPT !.at = "body", !.body = FirstBody(Current)]
        /\ FirstBody(Current) \in Int
    BY <1>5 DEF AwaitBody, HasRequest
  <2>2. main' \in Main /\ main'.at = "body" /\ main'.ready = main.ready
    BY <1>0, <2>1 DEF Main
  <2>3. Serving'
    <3>1. Waiting' = Waiting
      BY <2>1, <2>2 DEF Waiting
    <3> QED  BY <2>1, <3>1 DEF Serving
  <2> QED  BY <1>0, <2>1, <2>2, <2>3, SlotsKept DEF HttpInv, Owned
<1>6. CASE ReadBody
  <2>1. main.at = "body" /\ Waiting # {}
    BY <1>6 DEF ReadBody, HttpInv, Serving
  <2>2. PICK body \in main.body + 1 .. Wanted(conn[Current].request) :
          \/ Handle(body)
          \/ main' = [main EXCEPT !.body = body] /\ UNCHANGED <<mgr, conn, table>>
    BY <1>6 DEF ReadBody
  <2>3. CASE Handle(body)
    BY <2>1, <2>3, HandleKeeps
  <2>4. CASE main' = [main EXCEPT !.body = body] /\ UNCHANGED <<mgr, conn, table>>
    <3>1. body \in Int
      BY <2>2
    <3>2. main' \in Main /\ main'.at = "body" /\ main'.ready = main.ready
      BY <1>0, <2>1, <2>4, <3>1 DEF Main
    <3>3. Waiting' = Waiting
      BY <2>4, <3>2 DEF Waiting
    <3>4. Serving'
      BY <2>1, <3>3 DEF Serving
    <3> QED  BY <1>0, <2>4, <3>2, <3>4, SlotsKept DEF HttpInv, Owned
  <2> QED  BY <2>2, <2>3, <2>4
<1>7. CASE EndOfBody
  <2>1. main.at = "body" /\ Waiting # {} /\ Handle(main.body)
    BY <1>7 DEF EndOfBody, HttpInv, Serving
  <2> QED  BY <2>1, HandleKeeps
<1>8. CASE Tick
  BY <1>8, TickKeeps
<1> QED  BY <1>1, <1>2, <1>3, <1>4, <1>5, <1>6, <1>7, <1>8 DEF Serve

LEMMA HttpNext == HttpInv /\ [Next]_vars => HttpInv'
<1>1. HttpInv /\ UNCHANGED vars => HttpInv'
  BY DEF vars, HttpInv, Typing, SlotsOwned, Serving, Owned, Open, Waiting
<1> QED  BY <1>1, ServeKeeps, ShutDownKeeps, ClientsKeep DEF Next

THEOREM HttpInvHolds == Spec => []HttpInv
  BY HttpInit, HttpNext, PTL DEF Spec

-----------------------------------------------------------------------------
(* What the theorems say of the code.                                       *)

(* No slot of client_socks and no socket is lost, through clients that leave *)
(* while they are served, bodies that stop, refused clients and the shutdown. *)
THEOREM SlotsAreOwned == Spec => []SlotsOwned
<1>1. HttpInv => SlotsOwned
  BY DEF HttpInv
<1> QED  BY <1>1, HttpInvHolds, PTL

(* No descriptor of a content file is leaked or closed twice by the handlers, *)
(* the ticks or the shutdown, however many entries the table may have.       *)
THEOREM DescriptorsAreOwned == Spec => []DescriptorsOwned
<1>1. HttpInv => DescriptorsOwned
  BY DEF HttpInv, Owned, DescriptorsOwned, Opened
<1> QED  BY <1>1, HttpInvHolds, PTL

(* When parse_http_request has begun to wait for the rest of a body, the      *)
(* handler gets it whole, up to the limit, or the client sends no more.      *)
LEMMA BodyIsWhole ==
  ASSUME HttpInv, Next, main.at = "body", main'.at = "serve"
  PROVE  LET c == conn[Current]
         IN  c.arrived - 2 >= Wanted(c.request) \/ c.ended
<1>1. ReadBody \/ EndOfBody
  BY DEF Next, Serve, SelectOnly, Accept, DropConnection, ServeAtOnce, AwaitBody,
         HasRequest, Tick, ShutDown, Clients, Send, Leave, Connect
<1>2. CASE ReadBody
  <2>1. PICK body \in main.body + 1 .. Wanted(conn[Current].request) :
          /\ body <= conn[Current].arrived - 2
          /\ \/ ReadDone(body)
             \/ main' = [main EXCEPT !.body = body]
    BY <1>2 DEF ReadBody
  <2>2. main' = [main EXCEPT !.body = body] => main'.at = main.at
    BY DEF HttpInv, Typing
  <2>3. ReadDone(body)
    BY <2>1, <2>2
  <2> QED  BY <2>1, <2>3 DEF ReadDone
<1>3. CASE EndOfBody
  BY <1>3 DEF EndOfBody, Gone
<1> QED  BY <1>1, <1>2, <1>3

THEOREM BodiesComeWhole == Spec => BodiesAreWhole
<1>1. HttpInv /\ [Next]_vars =>
        [main.at = "body" /\ main'.at = "serve" =>
           LET c == conn[Current]
           IN  c.arrived - 2 >= Wanted(c.request) \/ c.ended]_vars
  BY BodyIsWhole
<1> QED  BY <1>1, HttpInvHolds, PTL DEF Spec, BodiesAreWhole

(* The step that ends a connection with an add request, at "serve".          *)
Adds(c) ==
  /\ Open(c) /\ conn'[c] = Idle /\ main'.at = "serve"
  /\ HandlerOf(conn[c].request.path) = "add"
AllOrNothing ==
  \/ mgr' = mgr
  \/ Front(mgr'.torrents) = mgr.torrents /\ Running(Last(mgr'.torrents))

(* A handler ends the connection that it serves and no other open one.       *)
LEMMA HandledAdd ==
  ASSUME HttpInv, NEW body, Handle(body), Waiting # {}, NEW c \in Conn, Adds(c)
  PROVE  AllOrNothing
<1>1. conn \in [Conn -> Connection] /\ Current \in Conn
  BY CurrentIsOpen DEF HttpInv, Typing
<1>2. c = Current
  <2>1. SUFFICES ASSUME c # Current  PROVE FALSE
    OBVIOUS
  <2>2. conn'[c] = conn[c]
    BY <1>1, <2>1 DEF Handle
  <2> QED  BY <2>2 DEF Adds, Open, Idle
<1>3. Owned(mgr) /\ mgr' \in Effects(conn[Current].request, body)
  BY DEF HttpInv, Handle
<1>4. HandlerOf(conn[Current].request.path) = "add"
  BY <1>2 DEF Adds
<1> QED  BY <1>3, <1>4, EffectsOwned DEF AllOrNothing

(* handle_add, and the others that add: one more torrent that runs, or the    *)
(* table as it was, for every fault of the start and every form.             *)
LEMMA AddIsAllOrNothing ==
  ASSUME HttpInv, Next, NEW c \in Conn, Adds(c)
  PROVE  AllOrNothing
<1>1. CASE SelectOnly \/ DropConnection \/ AwaitBody \/ \E b \in Conn : Accept(b)
  BY <1>1 DEF SelectOnly, DropConnection, AwaitBody, Accept, AllOrNothing
<1>2. CASE Clients
  BY <1>2 DEF Clients, Send, Leave, Connect, AllOrNothing
<1>3. CASE ServeAtOnce
  BY <1>3, HandledAdd DEF ServeAtOnce, HasRequest
<1>4. CASE ReadBody
  <2>1. Waiting # {}
    BY <1>4 DEF ReadBody, HttpInv, Serving
  <2>2. PICK body : Handle(body) \/ UNCHANGED mgr
    BY <1>4 DEF ReadBody
  <2> QED  BY <2>1, <2>2, HandledAdd DEF AllOrNothing
<1>5. CASE EndOfBody
  BY <1>5, HandledAdd DEF EndOfBody, HttpInv, Serving
<1>6. CASE Tick \/ ShutDown
  <2>1. main'.at # "serve"
    BY <1>6 DEF Tick, ShutDown, Loop, HttpInv, Typing
  <2> QED  BY <2>1 DEF Adds
<1> QED  BY <1>1, <1>2, <1>3, <1>4, <1>5, <1>6 DEF Next, Serve

THEOREM AddsAreAllOrNothing == Spec => AddsAllOrNothing
<1> DEFINE Prop ==
      \A c \in Conn :
        Open(c) /\ conn'[c] = Idle /\ main'.at = "serve"
          /\ HandlerOf(conn[c].request.path) = "add" =>
          \/ mgr' = mgr
          \/ /\ Front(mgr'.torrents) = mgr.torrents
             /\ Running(Last(mgr'.torrents))
<1>1. HttpInv /\ [Next]_vars => [Prop]_vars
  <2>1. HttpInv /\ Next => Prop
    BY AddIsAllOrNothing DEF Adds, AllOrNothing
  <2> QED  BY <2>1
<1> QED  BY <1>1, HttpInvHolds, PTL DEF Spec, AddsAllOrNothing
=============================================================================
