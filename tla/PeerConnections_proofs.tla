----------------------- MODULE PeerConnections_proofs -----------------------
(***************************************************************************)
(* The safety properties of PeerConnections, proved for any torrents, peers, *)
(* jobs, addresses and sockets.                                             *)
(*                                                                          *)
(* What a drained queue makes of the cache is a recursive function of its    *)
(* length.  Induction is by the least counterexample (LeastNatural).         *)
(***************************************************************************)
EXTENDS PeerConnections, FiniteSetTheorems, WellFoundedInduction, TLAPS

-----------------------------------------------------------------------------
(* The inductive invariant; TLC finds each part to hold on the instance of   *)
(* the run conn_safe.                                                       *)

(* Where the main thread is.  A discovery job that it found to be done stays *)
(* done, and once drained has an empty queue: its worker is over.  The round *)
(* of the candidates continues within the cache.                            *)
Places ==
  /\ main.at \in {"announce", "peers", "connect"} => main.cur \in Torrent
  /\ main.at \in {"drain", "finish"} =>
       /\ main.job \in DiscSlot
       /\ main.done => discJob[main.job].status = "done"
  /\ main.at = "finish" /\ main.done => discJob[main.job].queue = <<>>
  /\ \A t \in Torrent : nextCandidate[t] = 0 \/ nextCandidate[t] < Len(cache[t])

(* A generation belongs to one torrent, and one not yet handed out to none   *)
(* and to no attempt.  An attempt has an address, and a socket only at its   *)
(* end.                                                                     *)
Attempts ==
  /\ \A t \in Torrent : generation[t] < nextGeneration
  /\ \A t, u \in Torrent : generation[t] = generation[u] => t = u
  /\ \A j \in ConnSlot :
       /\ connJob[j].generation < nextGeneration
       /\ connJob[j].status # "empty" => connJob[j].addr \in Address
       /\ connJob[j].sock # None => connJob[j].status = "done"

(* Every socket of a peer or a job is open and nobody else's, and every open *)
(* socket is somebody's.                                                    *)
Sockets ==
  /\ \A t \in Torrent, p \in Slot :
       peer[t][p].sock # None =>
         /\ peer[t][p].sock \in open
         /\ peer[t][p].addr \in Address
         /\ \A u \in Torrent, q \in Slot :
              peer[u][q].sock = peer[t][p].sock => u = t /\ q = p
         /\ \A j \in ConnSlot : connJob[j].sock # peer[t][p].sock
  /\ \A j \in ConnSlot :
       connJob[j].sock # None =>
         /\ connJob[j].sock \in open
         /\ \A k \in ConnSlot : connJob[k].sock = connJob[j].sock => k = j
  /\ \A s \in open :
       \/ \E t \in Torrent, p \in Slot : peer[t][p].sock = s
       \/ \E j \in ConnSlot : connJob[j].sock = s

(* No address is twice in a cache.                                          *)
Distinct(c) == \A i, k \in DOMAIN c : c[i].addr = c[k].addr => i = k
CachesDistinct == \A t \in Torrent : Distinct(cache[t])

(* The addresses that torrent t uses are each used once: by a peer or by an  *)
(* attempt.                                                                 *)
UsedOnce(t) ==
  /\ \A p, q \in Connected(t) : peer[t][p].addr = peer[t][q].addr => p = q
  /\ \A j, k \in Pending(t) : connJob[j].addr = connJob[k].addr => j = k
  /\ \A p \in Connected(t), j \in Pending(t) : peer[t][p].addr # connJob[j].addr

(* The cache of torrent t knows what it uses, and marks what it tries.       *)
UsesKnown(t) ==
  /\ \A p \in Connected(t) : peer[t][p].addr \in Known(cache[t])
  /\ \A j \in Pending(t) : connJob[j].addr \in Known(cache[t])
  /\ \A i \in DOMAIN cache[t] :
       cache[t][i].connecting
         <=> \E j \in Pending(t) : connJob[j].addr = cache[t][i].addr

Fits(t) ==
  Cardinality(Connected(t)) + Cardinality(Pending(t)) <= Cardinality(Slot)

Uses == \A t \in Torrent : Downloading(t) => UsedOnce(t) /\ UsesKnown(t) /\ Fits(t)

ConnInv ==
  TypeOK /\ Places /\ Attempts /\ Sockets /\ CachesDistinct /\ Uses

-----------------------------------------------------------------------------
(* The cache.                                                               *)

LEMMA LeastNatural ==
  ASSUME NEW S, S \subseteq Nat, S # {}
  PROVE  \E n \in S : \A m \in S : n <= m
<1>1. PICK n \in S : \A m \in S : <<m, n>> \notin OpToRel(<, Nat)
  BY NatLessThanWellFounded, WFMin
<1>2. \A m \in S : ~(m < n)
  BY <1>1 DEF OpToRel
<1> QED  BY <1>2

(* Bounded sequences are sequences that are short enough.                    *)
LEMMA BoundedSequences ==
  ASSUME NEW S, NEW n \in Nat, NEW s
  PROVE  s \in BoundedSeq(S, n) <=> s \in Seq(S) /\ Len(s) <= n
  BY DEF BoundedSeq, SeqOf

(* A cache has at most MaxCandidates entries, of the candidates' type.       *)
LEMMA CacheType ==
  ASSUME NEW c
  PROVE  c \in Cache <=> c \in Seq(Candidate) /\ Len(c) <= MaxCandidates
  BY BoundedSequences, CandidatesAssumption DEF Cache

LEMMA FreshType == \A a \in Address : Fresh(a) \in Candidate
  BY CandidatesAssumption DEF Fresh, Candidate

(* Two entries of the same address, both marked or both not.                 *)
Agree(x, y) == x.addr = y.addr /\ x.connecting = y.connecting

(* What may become of a cache but through attempts: the entries that an      *)
(* attempt or a peer uses stay where they are, and no other one is marked.   *)
Spares(old, new, connected) ==
  /\ Len(old) <= Len(new)
  /\ \A i \in DOMAIN old :
       old[i].connecting \/ old[i].addr \in connected => Agree(new[i], old[i])
  /\ \A i \in DOMAIN new :
       new[i].connecting => i \in DOMAIN old /\ Agree(new[i], old[i])

(* At most one entry is replaced.                                           *)
LEMMA OneVictim ==
  ASSUME NEW c \in Cache, NEW connected, NEW i \in DOMAIN c, NEW k \in DOMAIN c,
         IsVictim(c, connected, i), IsVictim(c, connected, k)
  PROVE  i = k
<1>1. c \in Seq(Candidate)
  BY CacheType
<1>2. c[i] \in Candidate /\ c[k] \in Candidate /\ i \in Int /\ k \in Int
  BY <1>1
<1>3. c[i].failures \in Int /\ c[k].failures \in Int
  BY <1>2, CandidatesAssumption DEF Candidate
<1> QED  BY <1>2, <1>3 DEF IsVictim

LEMMA AddOne ==
  ASSUME NEW c \in Cache, Distinct(c), NEW connected, NEW a \in Address
  PROVE  /\ Add(c, connected, a) \in Cache
         /\ Distinct(Add(c, connected, a))
         /\ Spares(c, Add(c, connected, a), connected)
<1> DEFINE d == Add(c, connected, a)
<1>1. c \in Seq(Candidate) /\ Len(c) <= MaxCandidates
  BY CacheType
<1>2. Fresh(a) \in Candidate /\ Fresh(a).addr = a /\ ~Fresh(a).connecting
  BY FreshType DEF Fresh
<1> USE CandidatesAssumption
<1>3. CASE a \in Known(c)
  BY <1>1, <1>3 DEF Add, Spares, Agree
<1>4. CASE a \notin Known(c) /\ Len(c) < MaxCandidates
  <2>1. d = Append(c, Fresh(a))
    BY <1>4 DEF Add
  <2>2. \A i \in DOMAIN c : c[i].addr # a
    BY <1>4 DEF Known
  <2>3. d \in Seq(Candidate) /\ Len(d) = Len(c) + 1
    BY <1>1, <1>2, <2>1
  <2>4. /\ \A i \in DOMAIN c : i \in DOMAIN d /\ d[i] = c[i]
        /\ d[Len(c) + 1] = Fresh(a)
        /\ \A i \in DOMAIN d : i \in DOMAIN c \/ i = Len(c) + 1
    BY <1>1, <1>2, <2>1
  <2>5. d \in Cache
    BY <1>4, <2>3, CacheType
  <2>6. Distinct(d)
    BY <2>2, <2>4, <1>2 DEF Distinct
  <2>7. Spares(c, d, connected)
    BY <1>1, <1>2, <2>3, <2>4 DEF Spares, Agree
  <2> QED  BY <2>5, <2>6, <2>7
<1>5. CASE a \notin Known(c) /\ ~(Len(c) < MaxCandidates)
  <2>1. d = [i \in DOMAIN c |->
               IF IsVictim(c, connected, i) THEN Fresh(a) ELSE c[i]]
    BY <1>5 DEF Add
  <2>2. \A i \in DOMAIN c : c[i].addr # a
    BY <1>5 DEF Known
  <2>3. d \in Seq(Candidate) /\ Len(d) = Len(c)
    BY <1>1, <1>2, <2>1
  <2>4. d \in Cache
    BY <1>1, <2>3, CacheType
  <2>5. /\ DOMAIN d = DOMAIN c
        /\ \A i \in DOMAIN c :
             d[i] = IF IsVictim(c, connected, i) THEN Fresh(a) ELSE c[i]
    BY <2>1
  <2>6. \A i, k \in DOMAIN c :
          IsVictim(c, connected, i) /\ IsVictim(c, connected, k) => i = k
    BY OneVictim
  <2>7. Distinct(d)
    <3> SUFFICES ASSUME NEW i \in DOMAIN c, NEW k \in DOMAIN c,
                        d[i].addr = d[k].addr
                 PROVE  i = k
      BY <2>5 DEF Distinct
    <3>1. CASE IsVictim(c, connected, i) /\ ~IsVictim(c, connected, k)
      BY <3>1, <2>2, <2>5, <1>2
    <3>2. CASE ~IsVictim(c, connected, i) /\ IsVictim(c, connected, k)
      BY <3>2, <2>2, <2>5, <1>2
    <3>3. CASE ~IsVictim(c, connected, i) /\ ~IsVictim(c, connected, k)
      BY <3>3, <2>5 DEF Distinct
    <3> QED  BY <3>1, <3>2, <3>3, <2>6
  <2>8. \A i \in DOMAIN c :
          IsVictim(c, connected, i) =>
            ~c[i].connecting /\ c[i].addr \notin connected
    BY DEF IsVictim, Evictable
  <2>9. Spares(c, d, connected)
    <3>1. \A i \in DOMAIN c :
            c[i].connecting \/ c[i].addr \in connected => Agree(d[i], c[i])
      BY <2>5, <2>8 DEF Agree
    <3>2. \A i \in DOMAIN d :
            d[i].connecting => i \in DOMAIN c /\ Agree(d[i], c[i])
      BY <2>5, <1>2 DEF Agree
    <3> QED  BY <1>1, <2>3, <3>1, <3>2 DEF Spares
  <2> QED  BY <2>4, <2>7, <2>9
<1> QED  BY <1>3, <1>4, <1>5

LEMMA SparesAgain ==
  ASSUME NEW c \in Cache, NEW d \in Cache, NEW e \in Cache, NEW connected,
         Spares(c, d, connected), Spares(d, e, connected)
  PROVE  Spares(c, e, connected)
<1>1. /\ c \in Seq(Candidate) /\ d \in Seq(Candidate) /\ e \in Seq(Candidate)
      /\ DOMAIN c \subseteq DOMAIN d
  BY CacheType DEF Spares
<1>2. Len(c) <= Len(e)
  BY <1>1 DEF Spares
<1>3. \A i \in DOMAIN c :
        c[i].connecting \/ c[i].addr \in connected => Agree(e[i], c[i])
  BY <1>1 DEF Spares, Agree
<1>4. \A i \in DOMAIN e :
        e[i].connecting => i \in DOMAIN c /\ Agree(e[i], c[i])
  BY DEF Spares, Agree
<1> QED  BY <1>2, <1>3, <1>4 DEF Spares

(* The same for all the addresses of a queue, by induction on its length.    *)
(* First, the function that AddAll is defined by exists.                     *)
IsAdded(f, m, c, connected, q) ==
  f = [n \in 0 .. m |->
         IF n = 0 THEN c ELSE Add(f[n - 1], connected, q[n])]

LEMMA AddedExists ==
  ASSUME NEW c, NEW connected, NEW q, NEW m \in Nat
  PROVE  \E f : IsAdded(f, m, c, connected, q)
<1> DEFINE Bad == {n \in Nat : ~ \E f : IsAdded(f, n, c, connected, q)}
<1> SUFFICES Bad = {}
  OBVIOUS
<1>1. SUFFICES ASSUME Bad # {}  PROVE FALSE
  OBVIOUS
<1>2. PICK n \in Bad : \A k \in Bad : n <= k
  BY <1>1, LeastNatural
<1>3. n \in Nat /\ ~ \E f : IsAdded(f, n, c, connected, q)
  BY <1>2
<1>4. CASE n = 0
  <2>1. IsAdded([k \in 0 .. 0 |-> c], 0, c, connected, q)
    BY DEF IsAdded
  <2> QED  BY <1>3, <1>4, <2>1
<1>5. CASE n # 0
  <2>1. n - 1 \in Nat /\ n - 1 \notin Bad
    BY <1>2, <1>3, <1>5
  <2>2. PICK f : IsAdded(f, n - 1, c, connected, q)
    BY <2>1
  <2> DEFINE g == [k \in 0 .. n |-> IF k = n THEN Add(f[n - 1], connected, q[n])
                                           ELSE f[k]]
  <2>3. \A k \in 0 .. n - 1 :
          f[k] = IF k = 0 THEN c ELSE Add(f[k - 1], connected, q[k])
    BY <2>2 DEF IsAdded
  <2>4. \A k \in 0 .. n :
          g[k] = IF k = 0 THEN c ELSE Add(g[k - 1], connected, q[k])
    <3> SUFFICES ASSUME NEW k \in 0 .. n
                 PROVE  g[k] = IF k = 0 THEN c ELSE Add(g[k - 1], connected, q[k])
      OBVIOUS
    <3>1. CASE k = n
      <4>1. n - 1 \in 0 .. n /\ n - 1 # n
        BY <2>1, <1>3
      <4>2. g[n - 1] = f[n - 1]
        BY <4>1
      <4> QED  BY <3>1, <1>5, <4>2
    <3>2. CASE k # n
      <4>1. k \in 0 .. n - 1 /\ g[k] = f[k]
        BY <3>2, <1>3
      <4>2. k # 0 => k - 1 \in 0 .. n /\ k - 1 # n
        BY <1>3
      <4>3. k # 0 => g[k - 1] = f[k - 1]
        BY <4>2
      <4> QED  BY <4>1, <4>3, <2>3
    <3> QED  BY <3>1, <3>2
  <2>5. IsAdded(g, n, c, connected, q)
    BY <2>4 DEF IsAdded
  <2> QED  BY <1>3, <2>5
<1> QED  BY <1>4, <1>5

LEMMA AddMany ==
  ASSUME NEW c \in Cache, Distinct(c), NEW connected, NEW q \in Seq(Address)
  PROVE  /\ AddAll(c, connected, q) \in Cache
         /\ Distinct(AddAll(c, connected, q))
         /\ Spares(c, AddAll(c, connected, q), connected)
<1> DEFINE f == CHOOSE g : IsAdded(g, Len(q), c, connected, q)
           Good(n) == /\ f[n] \in Cache /\ Distinct(f[n])
                      /\ Spares(c, f[n], connected)
           Bad == {n \in 0 .. Len(q) : ~Good(n)}
<1>1. AddAll(c, connected, q) = f[Len(q)]
  BY DEF AddAll, IsAdded
<1>2. IsAdded(f, Len(q), c, connected, q)
  BY AddedExists
<1> HIDE DEF f
<1>3. \A n \in 0 .. Len(q) :
        f[n] = IF n = 0 THEN c ELSE Add(f[n - 1], connected, q[n])
  BY <1>2 DEF IsAdded
<1>4. Good(0)
  <2>1. f[0] = c
    BY <1>3
  <2>2. c \in Seq(Candidate)
    BY CacheType
  <2>3. Spares(c, c, connected)
    BY <2>2 DEF Spares, Agree
  <2> QED  BY <2>1, <2>3
<1>5. ASSUME NEW n \in 1 .. Len(q), Good(n - 1)
      PROVE  Good(n)
  <2>1. f[n] = Add(f[n - 1], connected, q[n]) /\ q[n] \in Address
    BY <1>3
  <2>2. /\ f[n] \in Cache /\ Distinct(f[n])
        /\ Spares(f[n - 1], f[n], connected)
    BY <1>5, <2>1, AddOne
  <2> QED  BY <1>5, <2>2, SparesAgain
<1>6. Bad = {}
  <2> SUFFICES ASSUME Bad # {}  PROVE FALSE
    OBVIOUS
  <2> Bad \subseteq Nat
    OBVIOUS
  <2> HIDE DEF Bad
  <2>1. PICK n \in Bad : \A k \in Bad : n <= k
    BY LeastNatural
  <2> USE DEF Bad
  <2>2. n # 0 /\ n \in 1 .. Len(q) /\ n - 1 \in 0 .. Len(q)
    BY <1>4, <2>1
  <2>3. n - 1 \notin Bad
    BY <2>1, <2>2
  <2> QED  BY <1>5, <2>1, <2>2, <2>3
<1> QED  BY <1>1, <1>6

(* The same addresses at the same places, each marked as before, or all but  *)
(* address a, or also entry k.                                              *)
Placed(c, d) == /\ d \in Cache /\ Len(d) = Len(c) /\ DOMAIN d = DOMAIN c
                /\ \A i \in DOMAIN c : d[i].addr = c[i].addr
Alike(c, d) == Placed(c, d) /\ \A i \in DOMAIN c : Agree(d[i], c[i])
Unmarked(c, d, a) ==
  /\ Placed(c, d)
  /\ \A i \in DOMAIN c : d[i].connecting = (c[i].connecting /\ c[i].addr # a)
Marked(c, d, k) ==
  /\ Placed(c, d)
  /\ \A i \in DOMAIN c : d[i].connecting = (c[i].connecting \/ i = k)

LEMMA Relabelled ==
  ASSUME NEW c \in Cache, NEW f \in [DOMAIN c -> Candidate],
         \A i \in DOMAIN c : f[i].addr = c[i].addr
  PROVE  Placed(c, f)
<1>1. c \in Seq(Candidate) /\ Len(c) <= MaxCandidates /\ DOMAIN c = 1 .. Len(c)
  BY CacheType
<1>2. f \in Seq(Candidate) /\ Len(f) = Len(c)
  BY <1>1
<1>3. f \in Cache
  BY <1>1, <1>2, CacheType
<1> QED  BY <1>2, <1>3 DEF Placed

LEMMA PlacedIsDistinct ==
  ASSUME NEW c, NEW d, Placed(c, d), Distinct(c)
  PROVE  Distinct(d)
  BY DEF Placed, Distinct

LEMMA AlikeSpares ==
  ASSUME NEW c \in Cache, NEW d, Alike(c, d), NEW connected
  PROVE  Spares(c, d, connected)
<1>1. Len(c) \in Nat
  BY CacheType
<1> QED  BY <1>1 DEF Alike, Placed, Spares, Agree

LEMMA FailureIsAlike ==
  ASSUME NEW c \in Cache, NEW a
  PROVE  Alike(c, WithFailure(c, a))
<1> DEFINE g(x) == [x EXCEPT !.failures = IF @ < MaxFailures THEN @ + 1 ELSE @,
                             !.cooling = TRUE]
<1>1. \A i \in DOMAIN c : c[i] \in Candidate
  BY CacheType
<1>2. ASSUME NEW x \in Candidate
      PROVE  g(x) \in Candidate /\ Agree(g(x), x)
  <2>1. x.failures \in 0 .. MaxFailures
    BY DEF Candidate
  <2>2. (IF x.failures < MaxFailures THEN x.failures + 1 ELSE x.failures)
          \in 0 .. MaxFailures
    BY <2>1, CandidatesAssumption
  <2> QED  BY <2>2 DEF Candidate, Agree
<1>3. WithFailure(c, a) = [i \in DOMAIN c |-> IF c[i].addr = a THEN g(c[i]) ELSE c[i]]
  BY DEF WithFailure, Updated
<1> HIDE DEF g
<1>4. \A i \in DOMAIN c : Agree(g(c[i]), c[i]) /\ Agree(c[i], c[i])
  BY <1>1, <1>2 DEF Agree
<1>5. WithFailure(c, a) \in [DOMAIN c -> Candidate]
  BY <1>1, <1>2, <1>3
<1>6. \A i \in DOMAIN c : Agree(WithFailure(c, a)[i], c[i])
  BY <1>3, <1>4
<1>7. Placed(c, WithFailure(c, a))
  BY <1>5, <1>6, Relabelled DEF Agree
<1> QED  BY <1>6, <1>7 DEF Alike

LEMMA SuccessIsAlike ==
  ASSUME NEW c \in Cache, NEW a
  PROVE  Alike(c, WithSuccess(c, a))
<1> DEFINE g(x) == [x EXCEPT !.failures = 0, !.cooling = FALSE]
<1>1. \A i \in DOMAIN c : c[i] \in Candidate
  BY CacheType
<1>2. ASSUME NEW x \in Candidate
      PROVE  g(x) \in Candidate /\ Agree(g(x), x)
  <2>1. 0 \in 0 .. MaxFailures
    BY CandidatesAssumption
  <2> QED  BY <2>1 DEF Candidate, Agree
<1>3. WithSuccess(c, a) = [i \in DOMAIN c |-> IF c[i].addr = a THEN g(c[i]) ELSE c[i]]
  BY DEF WithSuccess, Updated
<1> HIDE DEF g
<1>4. \A i \in DOMAIN c : Agree(g(c[i]), c[i]) /\ Agree(c[i], c[i])
  BY <1>1, <1>2 DEF Agree
<1>5. WithSuccess(c, a) \in [DOMAIN c -> Candidate]
  BY <1>1, <1>2, <1>3
<1>6. \A i \in DOMAIN c : Agree(WithSuccess(c, a)[i], c[i])
  BY <1>3, <1>4
<1>7. Placed(c, WithSuccess(c, a))
  BY <1>5, <1>6, Relabelled DEF Agree
<1> QED  BY <1>6, <1>7 DEF Alike

LEMMA AllFailedIsAlike ==
  ASSUME NEW c \in Cache, NEW S
  PROVE  Alike(c, AllFailed(c, S))
<1>1. \A i \in DOMAIN c :
        AllFailed(c, S)[i] = IF c[i].addr \in S THEN WithFailure(c, c[i].addr)[i]
                                                ELSE c[i]
  BY DEF AllFailed
<1>2. \A i \in DOMAIN c : c[i] \in Candidate
  BY CacheType
<1>3. \A i \in DOMAIN c : /\ WithFailure(c, c[i].addr)[i] \in Candidate
                          /\ Agree(WithFailure(c, c[i].addr)[i], c[i])
  BY FailureIsAlike, CacheType DEF Alike, Placed
<1>4. \A i \in DOMAIN c : /\ AllFailed(c, S)[i] \in Candidate
                          /\ Agree(AllFailed(c, S)[i], c[i])
  BY <1>1, <1>2, <1>3 DEF Agree
<1>5. AllFailed(c, S) \in [DOMAIN c -> Candidate]
  BY <1>4 DEF AllFailed
<1> QED  BY <1>4, <1>5, Relabelled DEF Alike, Agree

LEMMA CoolingIsAlike ==
  ASSUME NEW c \in Cache, NEW i \in DOMAIN c, NEW b \in BOOLEAN
  PROVE  Alike(c, [c EXCEPT ![i].cooling = b])
<1> DEFINE d == [c EXCEPT ![i].cooling = b]
<1>1. \A k \in DOMAIN c : c[k] \in Candidate
  BY CacheType
<1>2. [c[i] EXCEPT !.cooling = b] \in Candidate /\ Agree([c[i] EXCEPT !.cooling = b], c[i])
  BY <1>1 DEF Candidate, Agree
<1>3. \A k \in DOMAIN c : d[k] = IF k = i THEN [c[i] EXCEPT !.cooling = b] ELSE c[k]
  BY DEF Cache
<1>4. DOMAIN d = DOMAIN c /\ d = [k \in DOMAIN c |-> d[k]]
  OBVIOUS
<1>5. \A k \in DOMAIN c : d[k] \in Candidate /\ Agree(d[k], c[k])
  BY <1>1, <1>2, <1>3 DEF Agree
<1>6. d \in [DOMAIN c -> Candidate]
  BY <1>4, <1>5
<1> QED  BY <1>5, <1>6, Relabelled DEF Alike, Agree

LEMMA TriedIsMarked ==
  ASSUME NEW c \in Cache, NEW i \in DOMAIN c
  PROVE  Marked(c, [c EXCEPT ![i].connecting = TRUE], i)
<1> DEFINE d == [c EXCEPT ![i].connecting = TRUE]
<1>1. \A k \in DOMAIN c : c[k] \in Candidate
  BY CacheType
<1>2. /\ [c[i] EXCEPT !.connecting = TRUE] \in Candidate
      /\ [c[i] EXCEPT !.connecting = TRUE].addr = c[i].addr
      /\ [c[i] EXCEPT !.connecting = TRUE].connecting = TRUE
  BY <1>1 DEF Candidate
<1>3. \A k \in DOMAIN c : d[k] = IF k = i THEN [c[i] EXCEPT !.connecting = TRUE] ELSE c[k]
  OBVIOUS
<1>4. DOMAIN d = DOMAIN c /\ d = [k \in DOMAIN c |-> d[k]]
  OBVIOUS
<1>5. \A k \in DOMAIN c : d[k] \in Candidate /\ d[k].addr = c[k].addr
  BY <1>1, <1>2, <1>3
<1>6. d \in [DOMAIN c -> Candidate]
  BY <1>4, <1>5
<1>7. Placed(c, d)
  BY <1>5, <1>6, Relabelled
<1>8. \A k \in DOMAIN c : c[k].connecting \in BOOLEAN
  BY <1>1 DEF Candidate
<1>9. \A k \in DOMAIN c : d[k].connecting = (c[k].connecting \/ k = i)
  BY <1>2, <1>3, <1>8
<1> QED  BY <1>7, <1>9 DEF Marked

LEMMA EndedIsUnmarked ==
  ASSUME NEW c \in Cache, NEW a
  PROVE  Unmarked(c, NotConnecting(c, a), a)
<1> DEFINE g(x) == [x EXCEPT !.connecting = FALSE]
<1>1. \A i \in DOMAIN c : c[i] \in Candidate
  BY CacheType
<1>2. \A x \in Candidate : g(x) \in Candidate /\ g(x).addr = x.addr /\ g(x).connecting = FALSE
                           /\ x.connecting \in BOOLEAN
  BY DEF Candidate
<1>3. NotConnecting(c, a) = [i \in DOMAIN c |-> IF c[i].addr = a THEN g(c[i]) ELSE c[i]]
  BY DEF NotConnecting, Updated
<1> HIDE DEF g
<1>4. NotConnecting(c, a) \in [DOMAIN c -> Candidate]
  BY <1>1, <1>2, <1>3
<1>5. \A i \in DOMAIN c :
        /\ NotConnecting(c, a)[i].addr = c[i].addr
        /\ NotConnecting(c, a)[i].connecting = (c[i].connecting /\ c[i].addr # a)
  BY <1>1, <1>2, <1>3
<1> QED  BY <1>4, <1>5, Relabelled DEF Unmarked

LEMMA UnmarkedAlike ==
  ASSUME NEW c, NEW d, NEW e, NEW a, Unmarked(c, d, a), Alike(d, e)
  PROVE  Unmarked(c, e, a)
  BY DEF Unmarked, Alike, Placed, Agree

-----------------------------------------------------------------------------
(* The main thread's place, and the scalar state.                           *)

LEMMA MainStep ==
  ASSUME TypeOK, Places, Next
  PROVE  /\ main' \in Main
         /\ main'.at \in {"announce", "peers", "connect"} => main'.cur \in Torrent
         /\ main'.at \in {"drain", "finish"} => main'.job \in DiscSlot
<1> USE DEF Main, Stage, Places, lifeVars, cacheVars, peerVars
<1>0. main \in Main
  BY DEF TypeOK
<1>1. CASE main' = main
  BY <1>0, <1>1
<1>2. CASE StartTick
  BY <1>0, <1>2 DEF StartTick
<1>3. ASSUME NEW d \in DiscSlot, AskDiscovery(d)
      PROVE  main' \in Main /\ main'.at = "drain" /\ main'.job = d
  BY <1>0, <1>3 DEF AskDiscovery
<1>4. CASE DrainDiscovery
  BY <1>0, <1>4 DEF DrainDiscovery
<1>5. CASE FinishDiscovery
  BY <1>0, <1>5 DEF FinishDiscovery
<1>6. CASE EndCollectDiscovery
  BY <1>0, <1>6 DEF EndCollectDiscovery
<1>7. CASE EndCollectConnections
  BY <1>0, <1>7 DEF EndCollectConnections
<1>8. ASSUME NEW t \in Torrent, FinishTorrent(t)
      PROVE  main' \in Main /\ main'.at = "torrents"
  BY <1>0, <1>8 DEF FinishTorrent
<1>9. ASSUME NEW t \in Torrent, VisitTorrent(t)
      PROVE  main' \in Main /\ main'.at = "announce" /\ main'.cur = t
  BY <1>0, <1>9 DEF VisitTorrent
<1>10. CASE EndTick
  BY <1>0, <1>10, CandidatesAssumption DEF EndTick, Idle
<1>11. ASSUME NEW d \in DiscSlot, ScheduleDiscovery(d)
       PROVE  main' \in Main /\ main'.at = "peers" /\ main'.cur \in Torrent
  BY <1>0, <1>11 DEF ScheduleDiscovery
<1>12. CASE SkipDiscovery
  BY <1>0, <1>12 DEF SkipDiscovery
<1>13. CASE EndPeers
  BY <1>0, <1>13 DEF EndPeers
<1>14. MayConnect => /\ main.at = "connect" /\ main.cur \in Torrent
                     /\ main.checked + 1 \in 0 .. MaxCandidates
  <2> SUFFICES ASSUME MayConnect
               PROVE  main.checked + 1 \in 0 .. MaxCandidates
    BY DEF MayConnect
  <2>1. main.cur \in Torrent /\ main.checked < Len(cache[main.cur])
    BY DEF MayConnect, Cur
  <2>2. cache[main.cur] \in Cache
    BY <2>1 DEF TypeOK
  <2>3. Len(cache[main.cur]) <= MaxCandidates /\ Len(cache[main.cur]) \in Nat
    BY <2>2, CacheType
  <2>4. main.checked \in Nat
    BY <1>0
  <2> QED  BY <2>1, <2>3, <2>4, CandidatesAssumption
<1>15. CASE SkipCandidate
  BY <1>0, <1>14, <1>15 DEF SkipCandidate
<1>16. ASSUME NEW j \in ConnSlot, Connect(j)
       PROVE  main' \in Main /\ main'.at = "connect" /\ main'.cur \in Torrent
  BY <1>0, <1>14, <1>16 DEF Connect
<1>17. CASE LeaveTorrent
  <2> DEFINE q == [main EXCEPT !.at = "torrents", !.cur = None, !.checked = 0]
  <2>1. 0 \in 0 .. MaxCandidates
    BY CandidatesAssumption
  <2>2. q \in Main /\ q.at = "torrents"
    BY <1>0, <2>1
  <2> QED  BY <1>17, <2>2 DEF LeaveTorrent
<1>18. Next => \/ main' = main \/ StartTick \/ \E d \in DiscSlot : AskDiscovery(d)
               \/ DrainDiscovery \/ FinishDiscovery \/ EndCollectDiscovery
               \/ EndCollectConnections
               \/ \E t \in Torrent : FinishTorrent(t) \/ VisitTorrent(t)
               \/ EndTick \/ \E d \in DiscSlot : ScheduleDiscovery(d)
               \/ SkipDiscovery \/ EndPeers \/ SkipCandidate
               \/ \E j \in ConnSlot : Connect(j)
               \/ LeaveTorrent
  BY DEF Next, Handler, Stop, Start, Worker, EndDiscovery, Publish, EndConnection,
         Tick, CollectStage, DiscardConnection, FailConnection, AdoptConnection,
         TorrentStage, DropPeer, DeliverPiece, FailTorrent, CannotConnect,
         EndConnect, Clock, CoolDown
<1> QED
  BY <1>1, <1>2, <1>3, <1>4, <1>5, <1>6, <1>7, <1>8, <1>9, <1>10, <1>11, <1>12,
     <1>13, <1>15, <1>16, <1>17, <1>18

-----------------------------------------------------------------------------
(* What the steps do to the caches.                                         *)

(* The candidate whose turn it is exists.                                   *)
LEMMA TurnIsLegal ==
  ASSUME TypeOK, Places, MayConnect
  PROVE  /\ Cur \in Torrent /\ Turn \in DOMAIN cache[Cur]
         /\ cache[Cur] \in Cache /\ cache[Cur][Turn] \in Candidate
         /\ Len(cache[Cur]) \in Nat \ {0}
         /\ nextCandidate[Cur] \in Nat
<1>1. Cur \in Torrent /\ main.checked < Len(cache[Cur])
  BY DEF MayConnect, Places, Cur
<1>2. cache[Cur] \in Cache /\ main.checked \in Nat /\ nextCandidate[Cur] \in Nat
  BY <1>1 DEF TypeOK, Main
<1>3. cache[Cur] \in Seq(Candidate)
  BY <1>2, CacheType
<1>4. Len(cache[Cur]) \in Nat \ {0}
  BY <1>1, <1>2, <1>3
<1>5. nextCandidate[Cur] = 0 \/ nextCandidate[Cur] < Len(cache[Cur])
  BY <1>1 DEF Places
<1>6. Turn \in DOMAIN cache[Cur]
  BY <1>2, <1>3, <1>4, <1>5 DEF Turn
<1> QED  BY <1>1, <1>2, <1>3, <1>4, <1>6

(* The ways in which a step changes the cache of torrent t.                  *)
Emptied(t) == cache'[t] = <<>> /\ nextCandidate'[t] = 0
Filled(t) ==
  /\ \E q \in Seq(Address) : cache'[t] = AddAll(cache[t], Endpoints(t), q)
  /\ nextCandidate'[t] = nextCandidate[t]
Relabel(t) ==
  /\ Alike(cache[t], cache'[t])
  /\ \/ nextCandidate'[t] = nextCandidate[t]
     \/ nextCandidate'[t] \in 0 .. Len(cache[t]) - 1
Unmark(t) ==
  /\ \E a : Unmarked(cache[t], cache'[t], a)
  /\ nextCandidate'[t] = nextCandidate[t]
Mark(t) ==
  /\ \E k \in DOMAIN cache[t] : Marked(cache[t], cache'[t], k)
  /\ nextCandidate'[t] \in 0 .. Len(cache[t]) - 1

LEMMA RelabelSame ==
  ASSUME NEW t \in Torrent, TypeOK, cache'[t] = cache[t],
         nextCandidate'[t] = nextCandidate[t]
  PROVE  Relabel(t)
<1>1. cache[t] \in Cache
  BY DEF TypeOK
<1> QED  BY <1>1 DEF Relabel, Alike, Placed, Agree

LEMMA NextTurnType ==
  ASSUME TypeOK, Places, MayConnect, NextTurn
  PROVE  /\ nextCandidate'[Cur] \in 0 .. Len(cache[Cur]) - 1
         /\ \A t \in Torrent \ {Cur} : nextCandidate'[t] = nextCandidate[t]
         /\ nextCandidate' \in [Torrent -> Nat]
<1>1. /\ Cur \in Torrent /\ Len(cache[Cur]) \in Nat \ {0}
      /\ nextCandidate[Cur] \in Nat
  BY TurnIsLegal
<1>2. nextCandidate \in [Torrent -> Nat]
  BY CandidatesAssumption DEF TypeOK
<1> DEFINE n == (nextCandidate[Cur] + 1) % Len(cache[Cur])
<1>3. n \in 0 .. Len(cache[Cur]) - 1
  BY <1>1
<1>4. nextCandidate' = [nextCandidate EXCEPT ![Cur] = n]
  BY DEF NextTurn
<1> HIDE DEF n
<1> QED  BY <1>1, <1>2, <1>3, <1>4

LEMMA CacheSteps ==
  ASSUME TypeOK, Places, Next
  PROVE  /\ DOMAIN cache' = Torrent /\ DOMAIN nextCandidate' = Torrent
         /\ cache' = [t \in Torrent |-> cache'[t]]
         /\ nextCandidate' = [t \in Torrent |-> nextCandidate'[t]]
         /\ \A t \in Torrent :
              Emptied(t) \/ Filled(t) \/ Relabel(t) \/ Unmark(t) \/ Mark(t)
<1> DEFINE Shape == /\ DOMAIN cache' = Torrent /\ DOMAIN nextCandidate' = Torrent
                    /\ cache' = [t \in Torrent |-> cache'[t]]
                    /\ nextCandidate' = [t \in Torrent |-> nextCandidate'[t]]
           Kind(t) == Emptied(t) \/ Filled(t) \/ Relabel(t) \/ Unmark(t) \/ Mark(t)
<1>0. /\ cache \in [Torrent -> Cache] /\ nextCandidate \in [Torrent -> 0 .. MaxCandidates]
      /\ \A t \in Torrent : cache[t] \in Cache
  BY DEF TypeOK
<1>same. CASE UNCHANGED <<cache, nextCandidate>>
  BY <1>0, <1>same, RelabelSame
<1>one. ASSUME NEW t \in Torrent, NEW c, UNCHANGED nextCandidate,
               cache' = [cache EXCEPT ![t] = c],
               Alike(cache[t], c) \/ \E a : Unmarked(cache[t], c, a)
        PROVE  Shape /\ \A u \in Torrent : Kind(u)
  <2>1. Shape
    BY <1>0, <1>one
  <2>2. cache'[t] = c /\ \A u \in Torrent \ {t} : cache'[u] = cache[u]
    BY <1>0, <1>one
  <2>3. \A u \in Torrent \ {t} : Relabel(u)
    BY <2>2, <1>one, RelabelSame
  <2>4. Relabel(t) \/ Unmark(t)
    BY <2>2, <1>one DEF Relabel, Unmark
  <2> QED  BY <2>1, <2>3, <2>4
<1>1. ASSUME NEW t \in Torrent, Renew(t)
      PROVE  Shape /\ \A u \in Torrent : Kind(u)
  <2>1. Shape
    BY <1>0, <1>1 DEF Renew
  <2>2. Emptied(t)
    BY <1>0, <1>1 DEF Renew, Emptied
  <2>3. \A u \in Torrent \ {t} : cache'[u] = cache[u] /\ nextCandidate'[u] = nextCandidate[u]
    BY <1>0, <1>1 DEF Renew
  <2>4. \A u \in Torrent \ {t} : Relabel(u)
    BY <2>3, RelabelSame
  <2> QED  BY <2>1, <2>2, <2>4
<1>2. CASE DrainDiscovery
  <2>1. main.job \in DiscSlot
    BY <1>2 DEF DrainDiscovery, Places
  <2>2. discJob[main.job].queue \in Seq(Address)
    BY <2>1, BoundedSequences, ConnectionsAssumption DEF TypeOK, Discovery
  <2>3. /\ UNCHANGED nextCandidate
        /\ cache' = [t \in Torrent |->
                       IF t \in Live(discJob[main.job].generation)
                         THEN AddAll(cache[t], Endpoints(t), discJob[main.job].queue)
                         ELSE cache[t]]
    BY <1>2 DEF DrainDiscovery
  <2>4. Shape
    BY <1>0, <2>3
  <2>5. ASSUME NEW t \in Torrent
        PROVE  Kind(t)
    <3>1. CASE t \in Live(discJob[main.job].generation)
      BY <2>2, <2>3, <3>1 DEF Filled
    <3>2. CASE t \notin Live(discJob[main.job].generation)
      BY <2>3, <3>2, RelabelSame
    <3> QED  BY <3>1, <3>2
  <2> QED  BY <2>4, <2>5
<1>3. ASSUME NEW j \in ConnSlot, DiscardConnection(j)
      PROVE  Shape /\ \A u \in Torrent : Kind(u)
  <2>1. /\ UNCHANGED nextCandidate
        /\ cache' = [t \in Torrent |->
                       IF t \in Live(connJob[j].generation)
                         THEN NotConnecting(cache[t], connJob[j].addr)
                         ELSE cache[t]]
    BY <1>3 DEF DiscardConnection
  <2>2. Shape
    BY <1>0, <2>1
  <2>3. ASSUME NEW t \in Torrent
        PROVE  Kind(t)
    <3>1. CASE t \in Live(connJob[j].generation)
      BY <1>0, <2>1, <3>1, EndedIsUnmarked DEF Unmark
    <3>2. CASE t \notin Live(connJob[j].generation)
      BY <2>1, <3>2, RelabelSame
    <3> QED  BY <3>1, <3>2
  <2> QED  BY <2>2, <2>3
<1>4. ASSUME NEW j \in ConnSlot, NEW t \in Torrent, FailConnection(j, t)
      PROVE  Shape /\ \A u \in Torrent : Kind(u)
  <2> DEFINE a == connJob[j].addr
             d == NotConnecting(cache[t], a)
  <2>1. /\ UNCHANGED nextCandidate
        /\ cache' = [cache EXCEPT ![t] = WithFailure(d, a)]
    BY <1>4 DEF FailConnection
  <2>2. Unmarked(cache[t], d, a) /\ d \in Cache
    BY <1>0, EndedIsUnmarked DEF Unmarked, Placed
  <2>3. Alike(d, WithFailure(d, a))
    BY <2>2, FailureIsAlike
  <2> HIDE DEF d, a
  <2>4. Unmarked(cache[t], WithFailure(d, a), a)
    BY <2>2, <2>3, UnmarkedAlike
  <2> QED  BY <2>1, <2>4, <1>one
<1>5. ASSUME NEW j \in ConnSlot, NEW t \in Torrent, NEW p \in Slot,
             AdoptConnection(j, t, p)
      PROVE  Shape /\ \A u \in Torrent : Kind(u)
  <2>1. /\ UNCHANGED nextCandidate
        /\ cache' = [cache EXCEPT ![t] = NotConnecting(cache[t], connJob[j].addr)]
    BY <1>5 DEF AdoptConnection
  <2>2. Unmarked(cache[t], NotConnecting(cache[t], connJob[j].addr), connJob[j].addr)
    BY <1>0, EndedIsUnmarked
  <2> QED  BY <2>1, <2>2, <1>one
<1>6. ASSUME NEW t \in Torrent, FinishTorrent(t)
      PROVE  Shape /\ \A u \in Torrent : Kind(u)
  BY <1>0, <1>6, <1>one, AllFailedIsAlike DEF FinishTorrent
<1>7. ASSUME NEW p \in Slot, DropPeer(p)
      PROVE  Shape /\ \A u \in Torrent : Kind(u)
  <2>1. Cur \in Torrent
    BY <1>7 DEF DropPeer, Places, Cur
  <2> QED  BY <1>0, <1>7, <2>1, <1>one, FailureIsAlike DEF DropPeer
<1>8. ASSUME NEW p \in Slot, DeliverPiece(p)
      PROVE  Shape /\ \A u \in Torrent : Kind(u)
  <2>1. Cur \in Torrent
    BY <1>8 DEF DeliverPiece, Places, Cur
  <2> QED  BY <1>0, <1>8, <2>1, <1>one, SuccessIsAlike DEF DeliverPiece
<1>9. ASSUME NEW c, MayConnect, NextTurn, cache' = [cache EXCEPT ![Cur] = c],
             \/ Alike(cache[Cur], c)
             \/ \E k \in DOMAIN cache[Cur] : Marked(cache[Cur], c, k)
      PROVE  Shape /\ \A u \in Torrent : Kind(u)
  <2>1. Cur \in Torrent
    BY <1>9, TurnIsLegal
  <2>2. /\ nextCandidate'[Cur] \in 0 .. Len(cache[Cur]) - 1
        /\ \A t \in Torrent \ {Cur} : nextCandidate'[t] = nextCandidate[t]
        /\ nextCandidate' \in [Torrent -> Nat]
    BY <1>9, NextTurnType
  <2>3. Shape
    BY <1>0, <1>9, <2>2
  <2>4. cache'[Cur] = c /\ \A u \in Torrent \ {Cur} : cache'[u] = cache[u]
    BY <1>0, <1>9, <2>1
  <2>5. \A u \in Torrent \ {Cur} : Relabel(u)
    BY <2>2, <2>4, RelabelSame
  <2>6. Relabel(Cur) \/ Mark(Cur)
    BY <1>9, <2>2, <2>4 DEF Relabel, Mark
  <2> QED  BY <2>3, <2>5, <2>6
<1>10. CASE SkipCandidate
  <2>1. MayConnect /\ NextTurn /\ cache' = cache
    BY <1>10 DEF SkipCandidate
  <2>2. Cur \in Torrent
    BY <2>1, TurnIsLegal
  <2>3. cache' = [cache EXCEPT ![Cur] = cache[Cur]]
    BY <1>0, <2>1
  <2>4. Alike(cache[Cur], cache[Cur])
    BY <1>0, <2>2 DEF Alike, Placed, Agree
  <2> QED  BY <2>1, <2>3, <2>4, <1>9
<1>11. ASSUME NEW j \in ConnSlot, Connect(j)
       PROVE  Shape /\ \A u \in Torrent : Kind(u)
  <2>1. /\ MayConnect /\ NextTurn
        /\ cache' = [cache EXCEPT ![Cur] = [cache[Cur] EXCEPT ![Turn].connecting = TRUE]]
    BY <1>11 DEF Connect
  <2>2. Turn \in DOMAIN cache[Cur] /\ cache[Cur] \in Cache
    BY <2>1, TurnIsLegal
  <2>3. Marked(cache[Cur], [cache[Cur] EXCEPT ![Turn].connecting = TRUE], Turn)
    BY <2>2, TriedIsMarked
  <2> QED  BY <2>1, <2>2, <2>3, <1>9
<1>12. ASSUME NEW b \in BOOLEAN, CannotConnect(b)
       PROVE  Shape /\ \A u \in Torrent : Kind(u)
  <2>1. MayConnect /\ NextTurn
    BY <1>12 DEF CannotConnect
  <2>2. Turn \in DOMAIN cache[Cur] /\ cache[Cur] \in Cache /\ Cur \in Torrent
    BY <2>1, TurnIsLegal
  <2>3. CASE b
    <3>1. cache' = [cache EXCEPT ![Cur] = [cache[Cur] EXCEPT ![Turn].cooling = TRUE]]
      BY <1>12, <2>3 DEF CannotConnect
    <3>2. Alike(cache[Cur], [cache[Cur] EXCEPT ![Turn].cooling = TRUE])
      BY <2>2, CoolingIsAlike
    <3> QED  BY <2>1, <3>1, <3>2, <1>9
  <2>4. CASE ~b
    <3>1. cache' = [cache EXCEPT ![Cur] = cache[Cur]]
      BY <1>0, <1>12, <2>4 DEF CannotConnect
    <3>2. Alike(cache[Cur], cache[Cur])
      BY <1>0, <2>2 DEF Alike, Placed, Agree
    <3> QED  BY <2>1, <3>1, <3>2, <1>9
  <2> QED  BY <2>3, <2>4
<1>13. ASSUME NEW t \in Torrent, NEW i \in DOMAIN cache[t], CoolDown(t, i)
       PROVE  Shape /\ \A u \in Torrent : Kind(u)
  <2>1. /\ cache' = [cache EXCEPT ![t] = [cache[t] EXCEPT ![i].cooling = FALSE]]
        /\ UNCHANGED nextCandidate
    BY <1>13 DEF CoolDown
  <2>2. Alike(cache[t], [cache[t] EXCEPT ![i].cooling = FALSE])
    BY <1>0, CoolingIsAlike
  <2> QED  BY <2>1, <2>2, <1>one
<1>14. \/ UNCHANGED <<cache, nextCandidate>>
       \/ \E t \in Torrent : Renew(t) \/ FinishTorrent(t)
       \/ DrainDiscovery
       \/ \E j \in ConnSlot :
            \/ DiscardConnection(j) \/ Connect(j)
            \/ \E t \in Torrent : \/ FailConnection(j, t)
                                  \/ \E p \in Slot : AdoptConnection(j, t, p)
       \/ \E p \in Slot : DropPeer(p) \/ DeliverPiece(p)
       \/ SkipCandidate \/ \E b \in BOOLEAN : CannotConnect(b)
       \/ \E t \in Torrent : \E i \in DOMAIN cache[t] : CoolDown(t, i)
  BY DEF Next, Handler, Stop, Start, Worker, EndDiscovery, Publish, EndConnection,
         Tick, StartTick, CollectStage, AskDiscovery, FinishDiscovery,
         EndCollectDiscovery, EndCollectConnections, TorrentStage, VisitTorrent,
         EndTick, ScheduleDiscovery, SkipDiscovery, FailTorrent, EndPeers,
         EndConnect, Clock, cacheVars
<1> QED
  BY <1>same, <1>1, <1>2, <1>3, <1>4, <1>5, <1>6, <1>7, <1>8, <1>10, <1>11, <1>12,
     <1>13, <1>14

LEMMA CacheKept ==
  ASSUME TypeOK, Places, CachesDistinct, Next
  PROVE  /\ cache' \in [Torrent -> Cache]
         /\ nextCandidate' \in [Torrent -> 0 .. MaxCandidates]
         /\ CachesDistinct'
         /\ \A t \in Torrent :
              nextCandidate'[t] = 0 \/ nextCandidate'[t] < Len(cache'[t])
<1>1. ASSUME NEW t \in Torrent
      PROVE  /\ cache'[t] \in Cache /\ Distinct(cache'[t])
             /\ nextCandidate'[t] \in 0 .. MaxCandidates
             /\ nextCandidate'[t] = 0 \/ nextCandidate'[t] < Len(cache'[t])
  <2>1. /\ cache[t] \in Cache /\ Distinct(cache[t])
        /\ nextCandidate[t] \in 0 .. MaxCandidates
        /\ nextCandidate[t] = 0 \/ nextCandidate[t] < Len(cache[t])
    BY DEF TypeOK, CachesDistinct, Places
  <2>2. Len(cache[t]) \in Nat /\ Len(cache[t]) <= MaxCandidates
    BY <2>1, CacheType
  <2>3. CASE Emptied(t)
    <3>1. <<>> \in Seq(Candidate) /\ Len(<<>>) <= MaxCandidates
      BY CandidatesAssumption
    <3> <<>> \in Cache
      BY <3>1, CacheType
    <3>2. 0 \in 0 .. MaxCandidates
      BY CandidatesAssumption
    <3> QED  BY <2>3, <3>1, <3>2 DEF Emptied, Distinct
  <2>4. CASE Filled(t)
    <3>1. PICK q \in Seq(Address) : cache'[t] = AddAll(cache[t], Endpoints(t), q)
      BY <2>4 DEF Filled
    <3>2. /\ cache'[t] \in Cache /\ Distinct(cache'[t])
          /\ Spares(cache[t], cache'[t], Endpoints(t))
      BY <2>1, <3>1, AddMany
    <3>3. Len(cache'[t]) \in Nat /\ Len(cache[t]) <= Len(cache'[t])
      BY <3>2, CacheType DEF Spares
    <3>4. nextCandidate'[t] = nextCandidate[t] /\ nextCandidate[t] \in Int
      BY <2>1, <2>4, CandidatesAssumption DEF Filled
    <3>5. nextCandidate'[t] = 0 \/ nextCandidate'[t] < Len(cache'[t])
      BY <2>1, <2>2, <3>3, <3>4
    <3> QED  BY <2>1, <3>2, <3>4, <3>5
  <2>5. CASE Relabel(t) \/ Unmark(t) \/ Mark(t)
    <3>1. Placed(cache[t], cache'[t])
      BY <2>5 DEF Relabel, Unmark, Mark, Alike, Unmarked, Marked
    <3>2. \/ nextCandidate'[t] = nextCandidate[t]
          \/ nextCandidate'[t] \in 0 .. Len(cache[t]) - 1
      BY <2>5 DEF Relabel, Unmark, Mark
    <3>3. Distinct(cache'[t])
      BY <2>1, <3>1, PlacedIsDistinct
    <3>4. nextCandidate'[t] \in 0 .. MaxCandidates
      BY <2>1, <2>2, <3>2, CandidatesAssumption
    <3>5. nextCandidate'[t] = 0 \/ nextCandidate'[t] < Len(cache[t])
      BY <2>1, <2>2, <3>2
    <3> QED  BY <3>1, <3>3, <3>4, <3>5 DEF Placed
  <2> QED  BY <2>3, <2>4, <2>5, CacheSteps
<1>2. /\ cache' = [t \in Torrent |-> cache'[t]]
      /\ nextCandidate' = [t \in Torrent |-> nextCandidate'[t]]
  BY CacheSteps
<1>3. cache' \in [Torrent -> Cache]
  BY <1>1, <1>2
<1>4. nextCandidate' \in [Torrent -> 0 .. MaxCandidates]
  BY <1>1, <1>2
<1> QED  BY <1>1, <1>3, <1>4 DEF CachesDistinct

-----------------------------------------------------------------------------
(* What the steps do to the peers, the attempts and the sockets.             *)

Resting == UNCHANGED <<peer, open, connJob>>
Closing == \E t \in Torrent, P \in SUBSET Slot : Close(t, P) /\ connJob' = connJob
Ending == \E j \in ConnSlot, s \in Socket \cup {None} : EndConnection(j, s)
Freeing ==
  \E j \in ConnSlot :
    /\ Finished(j)
    /\ open' = open \ RefusedSocket(j)
    /\ connJob' = [connJob EXCEPT ![j] = NoConnection]
    /\ peer' = peer
Adopting ==
  \E j \in ConnSlot, t \in Torrent, p \in Slot : AdoptConnection(j, t, p)
Trying == \E j \in ConnSlot : Connect(j)

LEMMA SocketSteps ==
  ASSUME TypeOK, Places, Next
  PROVE  Resting \/ Closing \/ Ending \/ Freeing \/ Adopting \/ Trying
<1>1. ASSUME NEW t \in Torrent, Stop(t)
      PROVE  Closing
  BY <1>1 DEF Stop, Renew, Closing
<1>2. ASSUME NEW t \in Torrent, NEW s \in {"downloading", "error"}, Start(t, s)
      PROVE  Closing
  BY <1>2 DEF Start, Renew, Closing
<1>3. ASSUME NEW t \in Torrent, FinishTorrent(t)
      PROVE  Closing
  BY <1>3 DEF FinishTorrent, Closing
<1>4. ASSUME NEW p \in Slot, DropPeer(p)
      PROVE  Closing
  BY <1>4 DEF DropPeer, Closing, Places, Cur
<1>5. ASSUME NEW P \in SUBSET Slot, FailTorrent(P)
      PROVE  Closing
  BY <1>5 DEF FailTorrent, Closing, Places, Cur
<1>6. ASSUME NEW j \in ConnSlot, DiscardConnection(j)
      PROVE  Freeing
  BY <1>6 DEF DiscardConnection, Freeing
<1>7. ASSUME NEW j \in ConnSlot, NEW t \in Torrent, FailConnection(j, t)
      PROVE  Freeing
  <2>1. RefusedSocket(j) = {}
    BY <1>7 DEF FailConnection, RefusedSocket
  <2> QED  BY <1>7, <2>1 DEF FailConnection, Freeing, peerVars
<1>8. CASE Handler
  BY <1>1, <1>2, <1>8 DEF Handler
<1>9. CASE Worker
  BY <1>9 DEF Worker, Ending, EndDiscovery, Publish, Resting, peerVars
<1>10. CASE StartTick
  BY <1>10 DEF StartTick, Resting, peerVars
<1>11. CASE CollectStage
  BY <1>6, <1>7, <1>11
     DEF CollectStage, AskDiscovery, DrainDiscovery, FinishDiscovery,
         EndCollectDiscovery, EndCollectConnections, Resting, Adopting, peerVars
<1>12. CASE TorrentStage
  BY <1>3, <1>4, <1>5, <1>12
     DEF TorrentStage, VisitTorrent, EndTick, ScheduleDiscovery, SkipDiscovery,
         DeliverPiece, EndPeers, SkipCandidate, CannotConnect, EndConnect, Resting,
         Trying, peerVars
<1>13. CASE Clock
  BY <1>13 DEF Clock, CoolDown, Resting, peerVars
<1> QED  BY <1>8, <1>9, <1>10, <1>11, <1>12, <1>13 DEF Next, Tick

(* The lives of the torrents: a handler renews one of them, or nothing but   *)
(* states changes.                                                          *)
Renewing == \E t \in Torrent : \/ Stop(t)
                               \/ \E s \in {"downloading", "error"} : Start(t, s)
Aging ==
  /\ UNCHANGED <<generation, nextGeneration>>
  /\ state' \in [Torrent -> State]
  /\ \A t \in Torrent : state'[t] = "downloading" => state[t] = "downloading"

LEMMA LifeSteps ==
  ASSUME TypeOK, Places, Next
  PROVE  Renewing \/ Aging
<1>0. state \in [Torrent -> State]
  BY DEF TypeOK
<1>1. ASSUME NEW t \in Torrent, NEW s \in {"done", "error"},
             state' = [state EXCEPT ![t] = s], UNCHANGED <<generation, nextGeneration>>
      PROVE  Aging
  BY <1>0, <1>1 DEF Aging, State
<1>2. CASE UNCHANGED lifeVars
  BY <1>0, <1>2 DEF Aging, lifeVars
<1>3. ASSUME NEW t \in Torrent, FinishTorrent(t)
      PROVE  Aging
  BY <1>1, <1>3 DEF FinishTorrent
<1>4. ASSUME NEW P \in SUBSET Slot, FailTorrent(P)
      PROVE  Aging
  BY <1>1, <1>4 DEF FailTorrent, Places, Cur
<1>5. \/ Handler \/ UNCHANGED lifeVars
      \/ \E t \in Torrent : FinishTorrent(t)
      \/ \E P \in SUBSET Slot : FailTorrent(P)
  BY DEF Next, Worker, EndDiscovery, Publish, EndConnection, Tick, StartTick,
         CollectStage, AskDiscovery, DrainDiscovery, FinishDiscovery,
         EndCollectDiscovery, DiscardConnection, FailConnection, AdoptConnection,
         EndCollectConnections, TorrentStage, VisitTorrent, EndTick,
         ScheduleDiscovery, SkipDiscovery, DropPeer, DeliverPiece, EndPeers,
         SkipCandidate, Connect, CannotConnect, EndConnect, Clock, CoolDown, lifeVars
<1> QED  BY <1>2, <1>3, <1>4, <1>5 DEF Handler, Renewing

LEMMA LifeKept ==
  ASSUME TypeOK, Places, Attempts, Next
  PROVE  /\ state' \in [Torrent -> State]
         /\ generation' \in [Torrent -> 1 .. MaxGeneration]
         /\ nextGeneration' \in 1 .. MaxGeneration + 1
         /\ nextGeneration <= nextGeneration'
         /\ \A t \in Torrent : generation'[t] < nextGeneration'
         /\ \A t, u \in Torrent : generation'[t] = generation'[u] => t = u
<1>0. /\ state \in [Torrent -> State] /\ generation \in [Torrent -> 1 .. MaxGeneration]
      /\ nextGeneration \in 1 .. MaxGeneration + 1 /\ MaxGeneration \in Nat
      /\ \A t \in Torrent : generation[t] < nextGeneration
      /\ \A t, u \in Torrent : generation[t] = generation[u] => t = u
  BY ConnectionsAssumption DEF TypeOK, Attempts
<1>1. CASE Aging
  BY <1>0, <1>1 DEF Aging
<1>2. ASSUME NEW t \in Torrent, NEW s \in State, Renew(t),
             state' = [state EXCEPT ![t] = s]
      PROVE  /\ state' \in [Torrent -> State]
             /\ generation' \in [Torrent -> 1 .. MaxGeneration]
             /\ nextGeneration' \in 1 .. MaxGeneration + 1
             /\ nextGeneration <= nextGeneration'
             /\ \A u \in Torrent : generation'[u] < nextGeneration'
             /\ \A u, v \in Torrent : generation'[u] = generation'[v] => u = v
  <2>1. /\ nextGeneration <= MaxGeneration
        /\ generation' = [generation EXCEPT ![t] = nextGeneration]
        /\ nextGeneration' = nextGeneration + 1
    BY <1>2 DEF Renew
  <2>2. nextGeneration \in 1 .. MaxGeneration
    BY <1>0, <2>1
  <2>3. generation' \in [Torrent -> 1 .. MaxGeneration]
    BY <1>0, <2>1, <2>2
  <2>4. \A u \in Torrent :
          generation'[u] = IF u = t THEN nextGeneration ELSE generation[u]
    BY <1>0, <2>1
  <2>5. \A u \in Torrent : generation'[u] < nextGeneration'
    BY <1>0, <2>1, <2>2, <2>4
  <2>6. \A u \in Torrent : generation[u] # nextGeneration
    BY <1>0
  <2>7. \A u, v \in Torrent : generation'[u] = generation'[v] => u = v
    BY <1>0, <2>4, <2>6
  <2>8. state' \in [Torrent -> State]
    BY <1>0, <1>2
  <2>9. nextGeneration' \in 1 .. MaxGeneration + 1 /\ nextGeneration <= nextGeneration'
    BY <1>0, <2>1, <2>2
  <2> QED  BY <2>3, <2>5, <2>7, <2>8, <2>9
<1>3. CASE Renewing
  <2>1. \E t \in Torrent, s \in State : Renew(t) /\ state' = [state EXCEPT ![t] = s]
    BY <1>3 DEF Renewing, Stop, Start, State
  <2> QED  BY <2>1, <1>2
<1> QED  BY <1>1, <1>3, LifeSteps

(* The attempts, pointwise.                                                 *)
Ended(j, s) ==
  \A k \in ConnSlot :
    connJob'[k] = IF k = j THEN [connJob[j] EXCEPT !.status = "done", !.sock = s]
                          ELSE connJob[k]
Freed(j) ==
  \A k \in ConnSlot : connJob'[k] = IF k = j THEN NoConnection ELSE connJob[k]
Began(j) ==
  /\ \A k \in ConnSlot : k # j => connJob'[k] = connJob[k]
  /\ connJob'[j] = [NoConnection EXCEPT !.status = "running",
                                       !.generation = generation[Cur],
                                       !.addr = cache[Cur][Turn].addr]
  /\ connJob'[j].status = "running" /\ connJob'[j].generation = generation[Cur]
  /\ connJob'[j].addr = cache[Cur][Turn].addr /\ connJob'[j].sock = None

LEMMA JobSteps ==
  ASSUME TypeOK, Places, Next
  PROVE  /\ DOMAIN connJob' = ConnSlot /\ connJob' = [k \in ConnSlot |-> connJob'[k]]
         /\ Resting \/ Closing => connJob' = connJob
         /\ \A j \in ConnSlot : \A s : EndConnection(j, s) => Ended(j, s)
         /\ \A j \in ConnSlot : connJob' = [connJob EXCEPT ![j] = NoConnection] => Freed(j)
         /\ \A j \in ConnSlot : Connect(j) => Began(j)
<1>0. connJob \in [ConnSlot -> Connection]
  BY DEF TypeOK
<1>1. DOMAIN connJob' = ConnSlot /\ connJob' = [k \in ConnSlot |-> connJob'[k]]
  BY <1>0, SocketSteps
     DEF Resting, Closing, Ending, EndConnection, Freeing, Adopting, AdoptConnection,
         Trying, Connect
<1>2. Resting \/ Closing => connJob' = connJob
  BY DEF Resting, Closing
<1>3. ASSUME NEW j \in ConnSlot, NEW s, EndConnection(j, s)
      PROVE  Ended(j, s)
  <2>1. connJob' = [connJob EXCEPT ![j].status = "done", ![j].sock = s]
    BY <1>3 DEF EndConnection
  <2> QED  BY <1>0, <2>1 DEF Ended, Connection
<1>4. ASSUME NEW j \in ConnSlot, connJob' = [connJob EXCEPT ![j] = NoConnection]
      PROVE  Freed(j)
  BY <1>0, <1>4 DEF Freed
<1>5. ASSUME NEW j \in ConnSlot, Connect(j)
      PROVE  Began(j)
  <2>1. connJob' = [connJob EXCEPT
                   ![j] = [NoConnection EXCEPT !.status = "running",
                                               !.generation = generation[Cur],
                                               !.addr = cache[Cur][Turn].addr]]
    BY <1>5 DEF Connect
  <2>2. \A g, a :
          LET x == [NoConnection EXCEPT !.status = "running", !.generation = g,
                                        !.addr = a]
          IN  /\ x.status = "running" /\ x.generation = g /\ x.addr = a
              /\ x.sock = None
    BY DEF NoConnection
  <2> QED  BY <1>0, <2>1, <2>2 DEF Began
<1> QED  BY <1>1, <1>2, <1>3, <1>4, <1>5

JobOK(x, n) ==
  /\ x \in Connection /\ x.generation < n
  /\ x.status # "empty" => x.addr \in Address
  /\ x.sock # None => x.status = "done"

LEMMA JobsKept ==
  ASSUME TypeOK, Places, Attempts, Next
  PROVE  \A j \in ConnSlot : JobOK(connJob'[j], nextGeneration')
<1>0. /\ \A j \in ConnSlot : JobOK(connJob[j], nextGeneration)
      /\ nextGeneration \in Nat \ {0} /\ nextGeneration' \in Nat
      /\ nextGeneration <= nextGeneration'
  BY LifeKept, ConnectionsAssumption DEF TypeOK, Attempts, JobOK
<1>1. ASSUME NEW x, JobOK(x, nextGeneration)
      PROVE  JobOK(x, nextGeneration')
  <2>1. x.generation \in Int
    BY <1>1, ConnectionsAssumption DEF JobOK, Connection
  <2> QED  BY <1>0, <1>1, <2>1 DEF JobOK
<1>2. SUFFICES \A j \in ConnSlot : JobOK(connJob'[j], nextGeneration)
  BY <1>1
<1>3. CASE Resting \/ Closing
  BY <1>0, <1>3, JobSteps
<1>4. CASE Ending
  <2>1. PICK j \in ConnSlot, s \in Socket \cup {None} : EndConnection(j, s)
    BY <1>4 DEF Ending
  <2> DEFINE x == [connJob[j] EXCEPT !.status = "done", !.sock = s]
  <2>2. connJob[j].status = "running" /\ JobOK(connJob[j], nextGeneration)
    BY <1>0, <2>1 DEF EndConnection
  <2>3. /\ x \in Connection /\ x.generation = connJob[j].generation
        /\ x.status = "done" /\ x.addr = connJob[j].addr
    BY <2>2 DEF JobOK, Connection
  <2>4. JobOK(x, nextGeneration)
    BY <2>2, <2>3 DEF JobOK
  <2> QED  BY <1>0, <2>1, <2>4, JobSteps DEF Ended
<1>5. JobOK(NoConnection, nextGeneration)
  <2>1. NoConnection \in Connection
    BY ConnectionsAssumption DEF NoConnection, Connection
  <2>2. 0 < nextGeneration
    BY <1>0
  <2> QED  BY <2>1, <2>2 DEF JobOK, NoConnection
<1>6. CASE Freeing \/ Adopting
  <2>1. PICK j \in ConnSlot : connJob' = [connJob EXCEPT ![j] = NoConnection]
    BY <1>6 DEF Freeing, Adopting, AdoptConnection
  <2> QED  BY <1>0, <1>5, <2>1, JobSteps DEF Freed
<1>7. CASE Trying
  <2>1. PICK j \in ConnSlot : Connect(j)
    BY <1>7 DEF Trying
  <2>2. MayConnect
    BY <2>1 DEF Connect
  <2>3. Cur \in Torrent /\ cache[Cur][Turn] \in Candidate
    BY <2>2, TurnIsLegal
  <2>4. generation[Cur] \in 1 .. MaxGeneration /\ generation[Cur] < nextGeneration
        /\ cache[Cur][Turn].addr \in Address
    BY <2>3 DEF TypeOK, Attempts, Candidate
  <2> DEFINE x == connJob'[j]
  <2>5. generation[Cur] \in 0 .. MaxGeneration /\ NoConnection \in Connection
    BY <1>5, <2>4, ConnectionsAssumption DEF JobOK
  <2>6. Began(j)
    BY <2>1, JobSteps
  <2>8. x \in Connection
    BY <2>4, <2>5, <2>6 DEF Connection, Began
  <2>7. JobOK(x, nextGeneration)
    BY <2>4, <2>6, <2>8 DEF JobOK, Began
  <2> QED  BY <1>0, <2>6, <2>7 DEF Began
<1> QED  BY <1>3, <1>4, <1>6, <1>7, SocketSteps

(* The peers, pointwise.                                                    *)
Closes(t, P) ==
  \A u \in Torrent, p \in Slot :
    peer'[u][p] = IF u = t /\ p \in P THEN Closed ELSE peer[u][p]
Adopts(j, t, p) ==
  \A u \in Torrent, q \in Slot :
    peer'[u][q] = IF u = t /\ q = p
                  THEN [addr |-> connJob[j].addr, sock |-> connJob[j].sock]
                  ELSE peer[u][q]

LEMMA PeerSteps ==
  ASSUME TypeOK
  PROVE  /\ \A t \in Torrent, P \in SUBSET Slot : Close(t, P) => Closes(t, P)
         /\ \A j \in ConnSlot, t \in Torrent, p \in Slot :
              AdoptConnection(j, t, p) => Adopts(j, t, p)
<1>0. peer \in [Torrent -> [Slot -> Peer]]
  BY DEF TypeOK
<1>1. ASSUME NEW t \in Torrent, NEW P \in SUBSET Slot, Close(t, P)
      PROVE  Closes(t, P)
  <2>1. peer' = [peer EXCEPT ![t] =
                  [p \in Slot |-> IF p \in P THEN Closed ELSE peer[t][p]]]
    BY <1>1 DEF Close
  <2> QED  BY <1>0, <2>1 DEF Closes
<1>2. ASSUME NEW j \in ConnSlot, NEW t \in Torrent, NEW p \in Slot,
             AdoptConnection(j, t, p)
      PROVE  Adopts(j, t, p)
  BY <1>0, <1>2 DEF AdoptConnection, Adopts
<1> QED  BY <1>1, <1>2

LEMMA PeersKept ==
  ASSUME TypeOK, Places, Attempts, Next
  PROVE  peer' \in [Torrent -> [Slot -> Peer]] /\ open' \subseteq Socket
<1>0. peer \in [Torrent -> [Slot -> Peer]] /\ open \subseteq Socket
  BY DEF TypeOK
<1>1. CASE Resting
  BY <1>0, <1>1 DEF Resting
<1>2. CASE Closing
  BY <1>0, <1>2 DEF Closing, Close, Closed, Peer
<1>3. CASE Ending
  BY <1>0, <1>3 DEF Ending, EndConnection
<1>4. CASE Freeing
  BY <1>0, <1>4 DEF Freeing
<1>5. CASE Adopting
  <2>1. PICK j \in ConnSlot, t \in Torrent, p \in Slot : AdoptConnection(j, t, p)
    BY <1>5 DEF Adopting
  <2>2. [addr |-> connJob[j].addr, sock |-> connJob[j].sock] \in Peer
    BY DEF TypeOK, Connection, Peer
  <2> QED  BY <1>0, <2>1, <2>2 DEF AdoptConnection
<1>6. CASE Trying
  BY <1>0, <1>6 DEF Trying, Connect, peerVars
<1> QED  BY <1>1, <1>2, <1>3, <1>4, <1>5, <1>6, SocketSteps

(* Each socket keeps exactly one owner while it is open.                     *)
LEMMA SocketsKept ==
  ASSUME TypeOK, Places, Attempts, Sockets, Next
  PROVE  Sockets'
<1> USE DEF Sockets
<1>0. /\ open \subseteq Socket /\ None \notin Socket
      /\ \A t \in Torrent, p \in Slot : peer[t][p] \in Peer
      /\ \A j \in ConnSlot : connJob[j] \in Connection
  BY ConnectionsAssumption DEF TypeOK
<1>1. CASE Resting
  BY <1>1 DEF Resting
<1>2. CASE Closing
  <2>1. PICK t \in Torrent, P \in SUBSET Slot : Close(t, P) /\ connJob' = connJob
    BY <1>2 DEF Closing
  <2>2. Closes(t, P)
    BY <2>1, PeerSteps
  <2>3. \A s : s \in open' <=> s \in open /\ \A p \in P : peer[t][p].sock # s \/ s = None
    BY <2>1 DEF Close, SocketsOf
  <2>4. \A u \in Torrent, p \in Slot :
          peer'[u][p].sock # None =>
            /\ peer'[u][p] = peer[u][p] /\ ~(u = t /\ p \in P)
    BY <2>2 DEF Closes, Closed
  <2>5. \A u \in Torrent, p \in Slot :
          peer'[u][p].sock # None =>
            /\ peer'[u][p].sock \in open'
            /\ peer'[u][p].addr \in Address
            /\ \A v \in Torrent, q \in Slot :
                 peer'[v][q].sock = peer'[u][p].sock => v = u /\ q = p
            /\ \A j \in ConnSlot : connJob'[j].sock # peer'[u][p].sock
    BY <2>1, <2>3, <2>4
  <2>6. \A j \in ConnSlot :
          connJob'[j].sock # None =>
            /\ connJob'[j].sock \in open'
            /\ \A k \in ConnSlot : connJob'[k].sock = connJob'[j].sock => k = j
    BY <2>1, <2>3
  <2>7. \A s \in open' :
          \/ \E u \in Torrent, p \in Slot : peer'[u][p].sock = s
          \/ \E j \in ConnSlot : connJob'[j].sock = s
    <3> SUFFICES ASSUME NEW s \in open', NEW u \in Torrent, NEW p \in Slot,
                        peer[u][p].sock = s
                 PROVE  peer'[u][p].sock = s
      BY <2>1, <2>3
    <3>1. s # None
      BY <1>0, <2>3
    <3> QED  BY <2>2, <2>3, <3>1 DEF Closes
  <2> QED  BY <2>5, <2>6, <2>7
<1>3. CASE Ending
  <2>1. PICK j \in ConnSlot, s \in Socket \cup {None} : EndConnection(j, s)
    BY <1>3 DEF Ending
  <2>2. /\ Ended(j, s) /\ peer' = peer /\ s \notin open /\ connJob[j].status = "running"
        /\ open' = open \cup ({s} \ {None})
    BY <2>1, JobSteps DEF EndConnection
  <2>3. \A k \in ConnSlot : connJob'[k].sock = IF k = j THEN s ELSE connJob[k].sock
    BY <1>0, <2>2 DEF Ended, Connection
  <2>4. connJob[j].sock = None
    BY <2>2 DEF Attempts
  <2>5. \A u \in Torrent, p \in Slot : s # None => peer[u][p].sock # s
    BY <2>2
  <2>6. \A k \in ConnSlot : s # None => connJob[k].sock # s
    BY <2>2
  <2>7. \A u \in Torrent, q \in Slot :
          peer'[u][q].sock # None =>
            /\ peer'[u][q].sock \in open'
            /\ peer'[u][q].addr \in Address
            /\ \A v \in Torrent, r \in Slot :
                 peer'[v][r].sock = peer'[u][q].sock => v = u /\ r = q
            /\ \A k \in ConnSlot : connJob'[k].sock # peer'[u][q].sock
    BY <1>0, <2>2, <2>3, <2>4, <2>5, <2>6
  <2>8. \A i \in ConnSlot :
          connJob'[i].sock # None =>
            /\ connJob'[i].sock \in open'
            /\ \A k \in ConnSlot : connJob'[k].sock = connJob'[i].sock => k = i
    BY <1>0, <2>2, <2>3, <2>4, <2>5, <2>6
  <2>9. \A x \in open' :
          \/ \E u \in Torrent, q \in Slot : peer'[u][q].sock = x
          \/ \E i \in ConnSlot : connJob'[i].sock = x
    BY <1>0, <2>2, <2>3, <2>4, <2>5, <2>6
  <2> QED  BY <2>7, <2>8, <2>9
<1>4. CASE Freeing
  <2>1. PICK j \in ConnSlot :
          /\ open' = open \ RefusedSocket(j) /\ peer' = peer
          /\ connJob' = [connJob EXCEPT ![j] = NoConnection]
    BY <1>4 DEF Freeing
  <2>2. \A k \in ConnSlot : connJob'[k].sock = IF k = j THEN None ELSE connJob[k].sock
    BY <2>1, JobSteps DEF Freed, NoConnection
  <2>3. \A s : s \in open' <=> s \in open /\ (s # connJob[j].sock \/ s = None)
    BY <2>1 DEF RefusedSocket
  <2> QED  BY <1>0, <2>1, <2>2, <2>3
<1>5. CASE Adopting
  <2>1. PICK j \in ConnSlot, t \in Torrent, p \in Slot : AdoptConnection(j, t, p)
    BY <1>5 DEF Adopting
  <2>2. /\ connJob' = [connJob EXCEPT ![j] = NoConnection] /\ open' = open
        /\ connJob[j].sock # None /\ peer[t][p].sock = None
        /\ connJob[j].status = "done"
    BY <2>1 DEF AdoptConnection, Connected, Finished
  <2>3. \A k \in ConnSlot : connJob'[k].sock = IF k = j THEN None ELSE connJob[k].sock
    BY <2>2, JobSteps DEF Freed, NoConnection
  <2>4. \A u \in Torrent, q \in Slot :
          /\ peer'[u][q].sock = IF u = t /\ q = p THEN connJob[j].sock ELSE peer[u][q].sock
          /\ peer'[u][q].addr = IF u = t /\ q = p THEN connJob[j].addr ELSE peer[u][q].addr
    <3> DEFINE x == [addr |-> connJob[j].addr, sock |-> connJob[j].sock]
    <3>1. x.addr = connJob[j].addr /\ x.sock = connJob[j].sock
      OBVIOUS
    <3>2. \A u \in Torrent, q \in Slot :
            peer'[u][q] = IF u = t /\ q = p THEN x ELSE peer[u][q]
      BY <2>1, PeerSteps DEF Adopts
    <3> HIDE DEF x
    <3> QED  BY <3>1, <3>2
  <2>5. connJob[j].addr \in Address
    BY <2>2 DEF Attempts
  <2>6. \A u \in Torrent, q \in Slot :
          peer'[u][q].sock # None =>
            /\ peer'[u][q].sock \in open'
            /\ peer'[u][q].addr \in Address
            /\ \A v \in Torrent, r \in Slot :
                 peer'[v][r].sock = peer'[u][q].sock => v = u /\ r = q
            /\ \A k \in ConnSlot : connJob'[k].sock # peer'[u][q].sock
    BY <1>0, <2>2, <2>3, <2>4, <2>5
  <2>7. \A i \in ConnSlot :
          connJob'[i].sock # None =>
            /\ connJob'[i].sock \in open'
            /\ \A k \in ConnSlot : connJob'[k].sock = connJob'[i].sock => k = i
    BY <1>0, <2>2, <2>3, <2>4, <2>5
  <2>8. \A x \in open' :
          \/ \E u \in Torrent, q \in Slot : peer'[u][q].sock = x
          \/ \E i \in ConnSlot : connJob'[i].sock = x
    BY <1>0, <2>2, <2>3, <2>4, <2>5
  <2> QED  BY <2>6, <2>7, <2>8
<1>6. CASE Trying
  <2>1. PICK j \in ConnSlot : Connect(j)
    BY <1>6 DEF Trying
  <2>2. Began(j) /\ peer' = peer /\ open' = open /\ connJob[j].status = "empty"
    BY <2>1, JobSteps DEF Connect, peerVars
  <2>3. \A k \in ConnSlot : connJob'[k].sock = IF k = j THEN None ELSE connJob[k].sock
    BY <2>2 DEF Began
  <2>4. connJob[j].sock = None
    BY <2>2 DEF Attempts
  <2> QED  BY <2>2, <2>3, <2>4
<1> QED  BY <1>1, <1>2, <1>3, <1>4, <1>5, <1>6, SocketSteps

-----------------------------------------------------------------------------
(* What the steps mean to one torrent that downloads.                       *)

(* The attempts of the torrent are as before, each with the same address.    *)
SamePending(t) ==
  /\ Pending(t)' = Pending(t)
  /\ \A j \in Pending(t) : connJob'[j].addr = connJob[j].addr

(* Peers may have left, and addresses come.                                 *)
FewerPeers(t) ==
  \A p \in Slot : \/ peer'[t][p] = peer[t][p]
                  \/ peer'[t][p] = Closed

(* Attempt j is over.                                                       *)
OnePendingLess(t, j) ==
  /\ j \in Pending(t) /\ Pending(t)' = Pending(t) \ {j}
  /\ \A k \in Pending(t) \ {j} : connJob'[k].addr = connJob[k].addr
  /\ Unmarked(cache[t], cache'[t], connJob[j].addr)

(* Attempt j begins, for a candidate that is neither tried nor a peer.       *)
OnePendingMore(t, j) ==
  /\ j \notin Pending(t) /\ j \in ConnSlot /\ Pending(t)' = Pending(t) \cup {j}
  /\ \A k \in Pending(t) : connJob'[k].addr = connJob[k].addr
  /\ Cardinality(Connected(t)) + Cardinality(Pending(t)) < Cardinality(Slot)
  /\ \E i \in DOMAIN cache[t] :
       /\ connJob'[j].addr = cache[t][i].addr
       /\ ~cache[t][i].connecting
       /\ \A p \in Connected(t) : peer[t][p].addr # cache[t][i].addr
       /\ Marked(cache[t], cache'[t], i)

Restarted(t) ==
  /\ cache'[t] = <<>> /\ Pending(t)' = {}
  /\ \A p \in Slot : peer'[t][p] = Closed
Continued(t) ==
  /\ SamePending(t) /\ FewerPeers(t)
  /\ Spares(cache[t], cache'[t], Endpoints(t))
GaveUp(t, j) ==
  OnePendingLess(t, j) /\ peer'[t] = peer[t]
Gained(t, j, p) ==
  /\ OnePendingLess(t, j)
  /\ p \in Slot \ Connected(t) /\ connJob[j].addr \notin Endpoints(t)
  /\ peer'[t][p].addr = connJob[j].addr /\ peer'[t][p].sock # None
  /\ \A q \in Slot \ {p} : peer'[t][q] = peer[t][q]
Tried(t, j) ==
  OnePendingMore(t, j) /\ peer'[t] = peer[t]

TorrentStep(t) ==
  \/ Restarted(t) \/ Continued(t)
  \/ \E j \in ConnSlot : \/ GaveUp(t, j) \/ Tried(t, j)
                         \/ \E p \in Slot : Gained(t, j, p)

LEMMA PendingSame ==
  ASSUME NEW t \in Torrent, generation'[t] = generation[t],
         \A j \in ConnSlot :
           /\ (connJob'[j].status = "empty") = (connJob[j].status = "empty")
           /\ connJob'[j].generation = connJob[j].generation
           /\ connJob'[j].addr = connJob[j].addr
  PROVE  SamePending(t)
  BY DEF SamePending, Pending

LEMMA SpareSame ==
  ASSUME TypeOK, NEW t \in Torrent, cache'[t] = cache[t], NEW S
  PROVE  Spares(cache[t], cache'[t], S)
<1>1. Len(cache[t]) \in Nat
  BY CacheType DEF TypeOK
<1> QED  BY <1>1 DEF Spares, Agree

LEMMA SpareAlike ==
  ASSUME TypeOK, NEW t \in Torrent, Alike(cache[t], cache'[t]), NEW S
  PROVE  Spares(cache[t], cache'[t], S)
  BY AlikeSpares DEF TypeOK

LEMMA RenewedRestarts ==
  ASSUME ConnInv, NEW t \in Torrent, Renew(t), connJob' = connJob
  PROVE  Restarted(t)
<1>0. generation \in [Torrent -> 1 .. MaxGeneration] /\ cache \in [Torrent -> Cache] /\ TypeOK
  BY DEF ConnInv, TypeOK
<1>1. cache'[t] = <<>> /\ generation'[t] = nextGeneration
  BY <1>0 DEF Renew
<1>2. \A p \in Slot : peer'[t][p] = Closed
  BY <1>0, PeerSteps DEF Renew, Closes
<1>3. \A j \in ConnSlot : /\ connJob[j].generation < nextGeneration
                          /\ connJob[j].generation \in Int
  BY ConnectionsAssumption DEF ConnInv, Attempts, TypeOK, Connection
<1>4. nextGeneration \in Int
  BY ConnectionsAssumption DEF ConnInv, TypeOK
<1>5. \A j \in ConnSlot : connJob'[j].generation # generation'[t]
  BY <1>1, <1>3, <1>4
<1>6. Pending(t)' = {}
  BY <1>5 DEF Pending
<1> QED  BY <1>1, <1>2, <1>6 DEF Restarted

LEMMA TorrentSteps ==
  ASSUME ConnInv, Next, NEW t \in Torrent, state'[t] = "downloading"
  PROVE  TorrentStep(t)
<1> USE DEF ConnInv
<1>0. /\ \A u \in Torrent : cache[u] \in Cache /\ Distinct(cache[u])
      /\ cache \in [Torrent -> Cache]
      /\ generation \in [Torrent -> 1 .. MaxGeneration]
      /\ peer \in [Torrent -> [Slot -> Peer]]
      /\ state \in [Torrent -> State]
  BY DEF TypeOK, CachesDistinct
<1>rest. ASSUME UNCHANGED <<generation, connJob>>, FewerPeers(t),
                Spares(cache[t], cache'[t], Endpoints(t))
         PROVE  Continued(t)
  BY <1>rest, PendingSame DEF Continued
<1>still. ASSUME peer' = peer
          PROVE  FewerPeers(t)
  BY <1>still DEF FewerPeers
<1>gone. ASSUME NEW u \in Torrent, NEW P \in SUBSET Slot, Close(u, P)
         PROVE  FewerPeers(t)
  BY <1>gone, PeerSteps DEF Closes, FewerPeers
<1>1. ASSUME NEW u \in Torrent, Renew(u), connJob' = connJob
      PROVE  TorrentStep(t)
  <2>1. \A v \in Torrent :
          generation'[v] = IF v = u THEN nextGeneration ELSE generation[v]
    BY <1>0, <1>1 DEF Renew
  <2>2. CASE u = t
    BY <1>1, <2>2, RenewedRestarts DEF TorrentStep
  <2>3. CASE u # t
    <3>1. cache'[t] = cache[t] /\ generation'[t] = generation[t]
      BY <1>0, <1>1, <2>1, <2>3 DEF Renew
    <3>2. FewerPeers(t)
      BY <1>1, <1>gone DEF Renew
    <3>3. SamePending(t)
      BY <1>1, <3>1, PendingSame
    <3> QED  BY <3>1, <3>2, <3>3, SpareSame DEF TorrentStep, Continued
  <2> QED  BY <2>2, <2>3
<1>2. CASE Handler
  BY <1>1, <1>2 DEF Handler, Stop, Start
<1>3. ASSUME UNCHANGED <<generation, cache, peer, connJob>>
      PROVE  TorrentStep(t)
  BY <1>3, <1>rest, <1>still, SpareSame DEF TorrentStep
<1>4. ASSUME NEW j \in ConnSlot, NEW s, EndConnection(j, s)
      PROVE  TorrentStep(t)
  <2>1. \A k \in ConnSlot :
          /\ (connJob'[k].status = "empty") = (connJob[k].status = "empty")
          /\ connJob'[k].generation = connJob[k].generation
          /\ connJob'[k].addr = connJob[k].addr
    <3> DEFINE x == [connJob[j] EXCEPT !.status = "done", !.sock = s]
    <3>1. connJob[j] \in Connection /\ connJob[j].status = "running"
      BY <1>4 DEF EndConnection, TypeOK
    <3>2. /\ x.status = "done" /\ x.generation = connJob[j].generation
          /\ x.addr = connJob[j].addr
      BY <3>1 DEF Connection
    <3>3. \A k \in ConnSlot : connJob'[k] = IF k = j THEN x ELSE connJob[k]
      BY <1>4, JobSteps DEF Ended
    <3> HIDE DEF x
    <3> QED  BY <3>1, <3>2, <3>3
  <2>2. UNCHANGED <<generation, cache, peer>>
    BY <1>4 DEF EndConnection, lifeVars, cacheVars
  <2>3. SamePending(t)
    BY <2>1, <2>2, PendingSame
  <2> QED  BY <2>2, <2>3, <1>still, SpareSame DEF TorrentStep, Continued
<1>5. CASE DrainDiscovery
  <2>1. main.job \in DiscSlot
    BY <1>5 DEF DrainDiscovery, Places
  <2>2. discJob[main.job].queue \in Seq(Address)
    BY <2>1, BoundedSequences, ConnectionsAssumption DEF TypeOK, Discovery
  <2>3. /\ UNCHANGED <<generation, peer, connJob>>
        /\ cache' = [u \in Torrent |->
                       IF u \in Live(discJob[main.job].generation)
                         THEN AddAll(cache[u], Endpoints(u), discJob[main.job].queue)
                         ELSE cache[u]]
    BY <1>5 DEF DrainDiscovery, lifeVars, peerVars
  <2>4. Spares(cache[t], cache'[t], Endpoints(t))
    <3>1. CASE t \in Live(discJob[main.job].generation)
      BY <1>0, <2>2, <2>3, <3>1, AddMany
    <3>2. CASE t \notin Live(discJob[main.job].generation)
      BY <2>3, <3>2, SpareSame
    <3> QED  BY <3>1, <3>2
  <2> QED  BY <2>3, <2>4, <1>rest, <1>still DEF TorrentStep
<1>6. ASSUME NEW j \in ConnSlot, Finished(j), Freed(j), UNCHANGED <<generation, state>>
      PROVE  /\ t \in Live(connJob[j].generation) =>
                  /\ j \in Pending(t) /\ Pending(t)' = Pending(t) \ {j}
                  /\ \A k \in Pending(t) \ {j} : connJob'[k].addr = connJob[k].addr
             /\ t \notin Live(connJob[j].generation) => SamePending(t)
  <2>1. connJob[j].status = "done" /\ Downloading(t)
    BY <1>6 DEF Finished, Downloading
  <2>2. NoConnection.status = "empty"
    BY DEF NoConnection
  <2>3. t \in Live(connJob[j].generation) <=> connJob[j].generation = generation[t]
    BY <2>1 DEF Live
  <2>4. Pending(t)' = Pending(t) \ {j}
    BY <1>6, <2>2 DEF Freed, Pending
  <2>5. \A k \in Pending(t) \ {j} : connJob'[k].addr = connJob[k].addr
    BY <1>6 DEF Freed, Pending
  <2>6. j \in Pending(t) <=> t \in Live(connJob[j].generation)
    BY <2>1, <2>3 DEF Pending
  <2>7. ASSUME t \notin Live(connJob[j].generation)
        PROVE  SamePending(t)
    BY <2>4, <2>5, <2>6, <2>7 DEF SamePending
  <2> QED  BY <2>4, <2>5, <2>6, <2>7
<1>7. ASSUME NEW j \in ConnSlot, DiscardConnection(j)
      PROVE  TorrentStep(t)
  <2>1. /\ Finished(j) /\ Freed(j) /\ UNCHANGED <<generation, state, peer>>
        /\ cache' = [u \in Torrent |->
                       IF u \in Live(connJob[j].generation)
                         THEN NotConnecting(cache[u], connJob[j].addr)
                         ELSE cache[u]]
    BY <1>7, JobSteps DEF DiscardConnection, lifeVars
  <2>2. CASE t \in Live(connJob[j].generation)
    <3>1. Unmarked(cache[t], cache'[t], connJob[j].addr)
      BY <1>0, <2>1, <2>2, EndedIsUnmarked
    <3>2. GaveUp(t, j)
      BY <1>6, <2>1, <2>2, <3>1 DEF GaveUp, OnePendingLess
    <3> QED  BY <3>2 DEF TorrentStep
  <2>3. CASE t \notin Live(connJob[j].generation)
    <3>1. cache'[t] = cache[t]
      BY <2>1, <2>3
    <3> QED  BY <1>6, <2>1, <2>3, <3>1, <1>still, SpareSame DEF TorrentStep, Continued
  <2> QED  BY <2>2, <2>3
<1>8. ASSUME NEW j \in ConnSlot, NEW u \in Torrent, u \in Live(connJob[j].generation)
      PROVE  t \in Live(connJob[j].generation) => t = u
  BY <1>8 DEF Live, Attempts
<1>9. ASSUME NEW j \in ConnSlot, NEW u \in Torrent, FailConnection(j, u)
      PROVE  TorrentStep(t)
  <2> DEFINE a == connJob[j].addr
             d == NotConnecting(cache[u], a)
  <2>1. /\ Finished(j) /\ Freed(j) /\ UNCHANGED <<generation, state, peer>>
        /\ u \in Live(connJob[j].generation)
        /\ cache' = [cache EXCEPT ![u] = WithFailure(d, a)]
    BY <1>9, JobSteps DEF FailConnection, lifeVars, peerVars
  <2>2. CASE t = u
    <3>1. Unmarked(cache[u], d, a) /\ d \in Cache
      BY <1>0, EndedIsUnmarked DEF Unmarked, Placed
    <3>2. Alike(d, WithFailure(d, a))
      BY <3>1, FailureIsAlike
    <3>3. Unmarked(cache[t], WithFailure(d, a), a)
      BY <2>2, <3>1, <3>2, UnmarkedAlike
    <3>4. Unmarked(cache[t], cache'[t], a)
      BY <1>0, <2>1, <2>2, <3>3
    <3>5. GaveUp(t, j)
      BY <1>6, <2>1, <2>2, <3>4 DEF GaveUp, OnePendingLess
    <3> QED  BY <3>5 DEF TorrentStep
  <2>3. CASE t # u
    <3>1. cache'[t] = cache[t]
      BY <1>0, <2>1, <2>3
    <3>2. t \notin Live(connJob[j].generation)
      BY <1>8, <2>1, <2>3
    <3> QED  BY <1>6, <2>1, <3>1, <3>2, <1>still, SpareSame DEF TorrentStep, Continued
  <2> QED  BY <2>2, <2>3
<1>10. ASSUME NEW j \in ConnSlot, NEW u \in Torrent, NEW p \in Slot,
              AdoptConnection(j, u, p)
       PROVE  TorrentStep(t)
  <2>1. /\ Finished(j) /\ Freed(j) /\ UNCHANGED <<generation, state>>
        /\ u \in Live(connJob[j].generation) /\ connJob[j].sock # None
        /\ connJob[j].addr \notin Endpoints(u) /\ p \in Slot \ Connected(u)
        /\ cache' = [cache EXCEPT ![u] = NotConnecting(cache[u], connJob[j].addr)]
    BY <1>10, JobSteps DEF AdoptConnection, lifeVars
  <2>2. Adopts(j, u, p)
    BY <1>10, PeerSteps
  <2>3. CASE t = u
    <3>1. Unmarked(cache[t], cache'[t], connJob[j].addr)
      BY <1>0, <2>1, <2>3, EndedIsUnmarked
    <3>2. OnePendingLess(t, j)
      BY <1>6, <2>1, <2>3, <3>1 DEF OnePendingLess
    <3>3. /\ peer'[t][p].addr = connJob[j].addr /\ peer'[t][p].sock # None
          /\ \A q \in Slot \ {p} : peer'[t][q] = peer[t][q]
      BY <2>1, <2>2, <2>3 DEF Adopts
    <3>4. Gained(t, j, p)
      BY <2>1, <2>3, <3>2, <3>3 DEF Gained
    <3> QED  BY <3>4 DEF TorrentStep
  <2>4. CASE t # u
    <3>1. cache'[t] = cache[t]
      BY <1>0, <2>1, <2>4
    <3>2. t \notin Live(connJob[j].generation)
      BY <1>8, <2>1, <2>4
    <3>3. FewerPeers(t)
      BY <2>2, <2>4 DEF Adopts, FewerPeers
    <3> QED  BY <1>6, <2>1, <3>1, <3>2, <3>3, SpareSame DEF TorrentStep, Continued
  <2> QED  BY <2>3, <2>4
<1>11. ASSUME NEW u \in Torrent, FinishTorrent(u)
       PROVE  TorrentStep(t)
  <2>1. /\ UNCHANGED <<generation, connJob>> /\ Close(u, Slot)
        /\ cache' = [cache EXCEPT ![u] = AllFailed(cache[u], Endpoints(u))]
        /\ state' = [state EXCEPT ![u] = "done"]
    BY <1>11 DEF FinishTorrent
  <2>2. t # u
    BY <1>0, <2>1
  <2>3. cache'[t] = cache[t]
    BY <1>0, <2>1, <2>2
  <2> QED  BY <2>1, <2>3, <1>gone, <1>rest, SpareSame DEF TorrentStep
<1>12. ASSUME NEW p \in Slot, DropPeer(p)
       PROVE  TorrentStep(t)
  <2>1. /\ UNCHANGED <<generation, connJob>> /\ Cur \in Torrent /\ Close(Cur, {p})
        /\ cache' = [cache EXCEPT ![Cur] = WithFailure(cache[Cur], peer[Cur][p].addr)]
    BY <1>12 DEF DropPeer, Places, Cur, lifeVars
  <2>2. FewerPeers(t)
    BY <2>1, <1>gone
  <2>3. Alike(cache[t], cache'[t]) \/ cache'[t] = cache[t]
    BY <1>0, <2>1, FailureIsAlike
  <2> QED  BY <2>1, <2>2, <2>3, <1>rest, SpareSame, SpareAlike DEF TorrentStep
<1>13. ASSUME NEW p \in Slot, DeliverPiece(p)
       PROVE  TorrentStep(t)
  <2>1. /\ UNCHANGED <<generation, connJob, peer>> /\ Cur \in Torrent
        /\ cache' = [cache EXCEPT ![Cur] = WithSuccess(cache[Cur], peer[Cur][p].addr)]
    BY <1>13 DEF DeliverPiece, Places, Cur, lifeVars, peerVars
  <2>3. Alike(cache[t], cache'[t]) \/ cache'[t] = cache[t]
    BY <1>0, <2>1, SuccessIsAlike
  <2> QED  BY <2>1, <2>3, <1>still, <1>rest, SpareSame, SpareAlike DEF TorrentStep
<1>14. ASSUME NEW P \in SUBSET Slot, FailTorrent(P)
       PROVE  TorrentStep(t)
  <2>1. /\ UNCHANGED <<generation, connJob, cache>> /\ Cur \in Torrent /\ Close(Cur, P)
    BY <1>14 DEF FailTorrent, Places, Cur, cacheVars
  <2> QED  BY <2>1, <1>gone, <1>rest, SpareSame DEF TorrentStep
<1>15. ASSUME NEW j \in ConnSlot, Connect(j)
       PROVE  TorrentStep(t)
  <2>1. /\ MayConnect /\ Ready(Cur, cache[Cur][Turn]) /\ connJob[j].status = "empty"
        /\ cache' = [cache EXCEPT ![Cur] = [cache[Cur] EXCEPT ![Turn].connecting = TRUE]]
        /\ UNCHANGED <<generation, peer>> /\ Began(j)
    BY <1>15, JobSteps DEF Connect, lifeVars, peerVars
  <2>2. Turn \in DOMAIN cache[Cur] /\ cache[Cur] \in Cache /\ Cur \in Torrent
    BY <2>1, TurnIsLegal
  <2>3. CASE t = Cur
    <3>1. Marked(cache[t], cache'[t], Turn)
      BY <1>0, <2>1, <2>2, <2>3, TriedIsMarked
    <3>2. j \notin Pending(t) /\ Pending(t)' = Pending(t) \cup {j}
      BY <2>1, <2>3 DEF Pending, Began
    <3>3. \A k \in Pending(t) : connJob'[k].addr = connJob[k].addr
      BY <2>1, <3>2 DEF Began, Pending
    <3>4. Cardinality(Connected(t)) + Cardinality(Pending(t)) < Cardinality(Slot)
      BY <2>1, <2>3 DEF MayConnect, Room
    <3>5. /\ ~cache[t][Turn].connecting
          /\ \A p \in Connected(t) : peer[t][p].addr # cache[t][Turn].addr
      BY <2>1, <2>3 DEF Ready, Endpoints
    <3>6. connJob'[j].addr = cache[t][Turn].addr
      BY <2>1, <2>3 DEF Began
    <3>7. Turn \in DOMAIN cache[t]
      BY <2>2, <2>3
    <3>8. OnePendingMore(t, j)
      BY <3>1, <3>2, <3>3, <3>4, <3>5, <3>6, <3>7 DEF OnePendingMore
    <3>9. Tried(t, j)
      BY <2>1, <3>8 DEF Tried
    <3> QED  BY <3>9 DEF TorrentStep
  <2>4. CASE t # Cur
    <3>1. cache'[t] = cache[t]
      BY <1>0, <2>1, <2>2, <2>4
    <3>2. generation[t] # generation[Cur]
      BY <2>2, <2>4 DEF Attempts
    <3>3. SamePending(t)
      BY <2>1, <3>2 DEF Began, Pending, SamePending
    <3> QED  BY <2>1, <3>1, <3>3, <1>still, SpareSame DEF TorrentStep, Continued
  <2> QED  BY <2>3, <2>4
<1>16. ASSUME NEW b \in BOOLEAN, CannotConnect(b)
       PROVE  TorrentStep(t)
  <2>1. /\ MayConnect /\ UNCHANGED <<generation, peer, connJob>>
        /\ cache' = IF b THEN [cache EXCEPT ![Cur] = [cache[Cur] EXCEPT ![Turn].cooling = TRUE]]
                         ELSE cache
    BY <1>16 DEF CannotConnect, lifeVars, peerVars
  <2>2. Turn \in DOMAIN cache[Cur] /\ cache[Cur] \in Cache /\ Cur \in Torrent
    BY <2>1, TurnIsLegal
  <2>3. Alike(cache[t], cache'[t]) \/ cache'[t] = cache[t]
    BY <1>0, <2>1, <2>2, CoolingIsAlike
  <2> QED  BY <2>1, <2>3, <1>still, <1>rest, SpareSame, SpareAlike DEF TorrentStep
<1>17. ASSUME NEW u \in Torrent, NEW i \in DOMAIN cache[u], CoolDown(u, i)
       PROVE  TorrentStep(t)
  <2>1. /\ UNCHANGED <<generation, peer, connJob>>
        /\ cache' = [cache EXCEPT ![u] = [cache[u] EXCEPT ![i].cooling = FALSE]]
    BY <1>17 DEF CoolDown, lifeVars, peerVars
  <2>2. Alike(cache[t], cache'[t]) \/ cache'[t] = cache[t]
    BY <1>0, <2>1, CoolingIsAlike
  <2> QED  BY <2>1, <2>2, <1>still, <1>rest, SpareSame, SpareAlike DEF TorrentStep
<1>18. \/ Handler \/ UNCHANGED <<generation, cache, peer, connJob>>
       \/ DrainDiscovery
       \/ \E j \in ConnSlot :
            \/ DiscardConnection(j) \/ Connect(j)
            \/ \E s \in Socket \cup {None} : EndConnection(j, s)
            \/ \E u \in Torrent : \/ FailConnection(j, u)
                                  \/ \E p \in Slot : AdoptConnection(j, u, p)
       \/ \E u \in Torrent : FinishTorrent(u)
       \/ \E p \in Slot : DropPeer(p) \/ DeliverPiece(p)
       \/ \E P \in SUBSET Slot : FailTorrent(P)
       \/ \E b \in BOOLEAN : CannotConnect(b)
       \/ \E u \in Torrent : \E i \in DOMAIN cache[u] : CoolDown(u, i)
  BY DEF Next, Worker, EndDiscovery, Publish, Tick, StartTick, CollectStage,
         AskDiscovery, FinishDiscovery, EndCollectDiscovery, EndCollectConnections,
         TorrentStage, VisitTorrent, EndTick, ScheduleDiscovery, SkipDiscovery,
         EndPeers, SkipCandidate, EndConnect, Clock, lifeVars, cacheVars, peerVars
<1> QED
  BY <1>2, <1>3, <1>4, <1>5, <1>7, <1>9, <1>10, <1>11, <1>12, <1>13, <1>14, <1>15,
     <1>16, <1>17, <1>18

-----------------------------------------------------------------------------
(* What a torrent uses stays known, marked and used once, and fits.          *)

LEMMA UsesType ==
  ASSUME TypeOK, NEW t \in Torrent
  PROVE  /\ IsFiniteSet(Connected(t)) /\ Cardinality(Connected(t)) \in Nat
         /\ IsFiniteSet(Pending(t)) /\ Cardinality(Pending(t)) \in Nat
         /\ Cardinality(Slot) \in Nat
         /\ Connected(t) \subseteq Slot /\ Pending(t) \subseteq ConnSlot
<1>1. Connected(t) \subseteq Slot /\ Pending(t) \subseteq ConnSlot
  BY DEF Connected, Pending
<1>2. IsFiniteSet(Connected(t)) /\ IsFiniteSet(Pending(t)) /\ IsFiniteSet(Slot)
  BY <1>1, FS_Subset, ConnectionsAssumption
<1> QED  BY <1>1, <1>2, FS_CardinalityType

LEMMA RestartKeepsUses ==
  ASSUME NEW t \in Torrent, Restarted(t)
  PROVE  UsedOnce(t)' /\ UsesKnown(t)' /\ Fits(t)'
<1>1. Connected(t)' = {} /\ Pending(t)' = {}
  BY DEF Restarted, Connected, Closed
<1>2. UsedOnce(t)'
  BY <1>1 DEF UsedOnce
<1>3. UsesKnown(t)'
  BY <1>1 DEF UsesKnown, Restarted
<1>4. Cardinality({}) = 0 /\ Cardinality(Slot) \in Nat
  BY FS_EmptySet, FS_CardinalityType, ConnectionsAssumption
<1>5. Fits(t)'
  BY <1>1, <1>4 DEF Fits
<1> QED  BY <1>2, <1>3, <1>5

(* What the cache spares stays known and as it is marked.                    *)
LEMMA ContinuedKeepsUses ==
  ASSUME ConnInv, NEW t \in Torrent, Downloading(t), Continued(t),
         cache'[t] \in Cache, CachesDistinct'
  PROVE  UsedOnce(t)' /\ UsesKnown(t)' /\ Fits(t)'
<1>0. UsedOnce(t) /\ UsesKnown(t) /\ Fits(t) /\ cache[t] \in Cache
  BY DEF ConnInv, Uses, TypeOK
<1>1. /\ Connected(t)' \subseteq Connected(t)
      /\ \A p \in Connected(t)' : peer'[t][p] = peer[t][p]
  BY DEF Continued, FewerPeers, Connected, Closed
<1>2. /\ Pending(t)' = Pending(t)
      /\ \A j \in Pending(t) : connJob'[j].addr = connJob[j].addr
  BY DEF Continued, SamePending
<1>3. UsedOnce(t)'
  BY <1>0, <1>1, <1>2 DEF UsedOnce
<1>4. DOMAIN cache[t] \subseteq DOMAIN cache'[t]
  BY <1>0, CacheType DEF Continued, Spares
<1>5. \A i \in DOMAIN cache[t] :
        cache[t][i].connecting \/ cache[t][i].addr \in Endpoints(t) =>
          Agree(cache'[t][i], cache[t][i])
  BY DEF Continued, Spares
<1>6. \A i \in DOMAIN cache'[t] :
        cache'[t][i].connecting => i \in DOMAIN cache[t] /\ Agree(cache'[t][i], cache[t][i])
  BY DEF Continued, Spares
<1>7. \A p \in Connected(t)' : peer'[t][p].addr \in Known(cache'[t])
  <2> SUFFICES ASSUME NEW p \in Connected(t)'
               PROVE  peer'[t][p].addr \in Known(cache'[t])
    OBVIOUS
  <2>1. peer[t][p].addr \in Endpoints(t) /\ peer[t][p].addr \in Known(cache[t])
    BY <1>0, <1>1 DEF Endpoints, UsesKnown
  <2>2. PICK i \in DOMAIN cache[t] : cache[t][i].addr = peer[t][p].addr
    BY <2>1 DEF Known
  <2>3. cache'[t][i].addr = peer'[t][p].addr /\ i \in DOMAIN cache'[t]
    BY <1>1, <1>4, <1>5, <2>1, <2>2 DEF Agree
  <2> QED  BY <2>3 DEF Known
<1>8. \A j \in Pending(t) :
        \E i \in DOMAIN cache[t] :
          /\ cache[t][i].addr = connJob[j].addr /\ cache[t][i].connecting
          /\ i \in DOMAIN cache'[t] /\ Agree(cache'[t][i], cache[t][i])
  BY <1>0, <1>4, <1>5 DEF UsesKnown, Known
<1>9. \A j \in Pending(t)' : connJob'[j].addr \in Known(cache'[t])
  BY <1>2, <1>8 DEF Known, Agree
<1>10. \A i \in DOMAIN cache'[t] :
         cache'[t][i].connecting
           <=> \E j \in Pending(t)' : connJob'[j].addr = cache'[t][i].addr
  <2> SUFFICES ASSUME NEW i \in DOMAIN cache'[t]
               PROVE  cache'[t][i].connecting
                        <=> \E j \in Pending(t) : connJob[j].addr = cache'[t][i].addr
    BY <1>2
  <2>1. ASSUME cache'[t][i].connecting
        PROVE  \E j \in Pending(t) : connJob[j].addr = cache'[t][i].addr
    BY <1>0, <1>6, <2>1 DEF UsesKnown, Agree
  <2>2. ASSUME NEW j \in Pending(t), connJob[j].addr = cache'[t][i].addr
        PROVE  cache'[t][i].connecting
    <3>1. PICK k \in DOMAIN cache[t] :
            /\ cache[t][k].addr = connJob[j].addr /\ cache[t][k].connecting
            /\ k \in DOMAIN cache'[t] /\ Agree(cache'[t][k], cache[t][k])
      BY <1>8
    <3>2. k = i
      BY <2>2, <3>1 DEF CachesDistinct, Distinct, Agree
    <3> QED  BY <3>1, <3>2 DEF Agree
  <2> QED  BY <2>1, <2>2
<1>11. UsesKnown(t)'
  BY <1>7, <1>9, <1>10 DEF UsesKnown
<1>12. Cardinality(Connected(t)') <= Cardinality(Connected(t))
  BY <1>1, UsesType, FS_Subset DEF ConnInv
<1>13. Cardinality(Connected(t)') \in Nat
  BY <1>1, UsesType, FS_Subset, FS_CardinalityType DEF ConnInv
<1>14. Fits(t)'
  BY <1>0, <1>2, <1>12, <1>13, UsesType DEF Fits, ConnInv
<1> QED  BY <1>3, <1>11, <1>14

(* The end of an attempt takes its mark away, and only that one.             *)
LEMMA EndKeepsMarks ==
  ASSUME NEW t \in Torrent, UsedOnce(t), UsesKnown(t),
         NEW j \in ConnSlot, OnePendingLess(t, j),
         \A i \in DOMAIN cache[t] : cache[t][i].connecting \in BOOLEAN
  PROVE  /\ Known(cache'[t]) = Known(cache[t])
         /\ \A k \in Pending(t)' : connJob'[k].addr \in Known(cache'[t])
         /\ \A k, l \in Pending(t)' : connJob'[k].addr = connJob'[l].addr => k = l
         /\ \A i \in DOMAIN cache'[t] :
              cache'[t][i].connecting
                <=> \E k \in Pending(t)' : connJob'[k].addr = cache'[t][i].addr
<1>1. /\ j \in Pending(t) /\ Pending(t)' = Pending(t) \ {j}
      /\ \A k \in Pending(t) \ {j} : connJob'[k].addr = connJob[k].addr
  BY DEF OnePendingLess
<1>2. /\ DOMAIN cache'[t] = DOMAIN cache[t]
      /\ \A i \in DOMAIN cache[t] :
           /\ cache'[t][i].addr = cache[t][i].addr
           /\ cache'[t][i].connecting
                = (cache[t][i].connecting /\ cache[t][i].addr # connJob[j].addr)
  BY DEF OnePendingLess, Unmarked, Placed
<1>3. Known(cache'[t]) = Known(cache[t])
  BY <1>2 DEF Known
<1>4. \A k \in Pending(t)' : connJob'[k].addr \in Known(cache'[t])
  BY <1>1, <1>3 DEF UsesKnown
<1>5. \A k, l \in Pending(t)' : connJob'[k].addr = connJob'[l].addr => k = l
  BY <1>1 DEF UsedOnce
<1>6. \A k \in Pending(t) \ {j} : connJob[k].addr # connJob[j].addr
  BY <1>1 DEF UsedOnce
<1>7. \A i \in DOMAIN cache[t] :
        cache[t][i].connecting
          <=> \E k \in Pending(t) : connJob[k].addr = cache[t][i].addr
  BY DEF UsesKnown
<1>8. \A i \in DOMAIN cache'[t] :
        cache'[t][i].connecting
          <=> \E k \in Pending(t)' : connJob'[k].addr = cache'[t][i].addr
  <2> SUFFICES ASSUME NEW i \in DOMAIN cache[t]
               PROVE  cache'[t][i].connecting
                        <=> \E k \in Pending(t)' : connJob'[k].addr = cache'[t][i].addr
    BY <1>2
  <2>1. cache'[t][i].connecting
          <=> cache[t][i].connecting /\ cache[t][i].addr # connJob[j].addr
    BY <1>2
  <2>2. (\E k \in Pending(t)' : connJob'[k].addr = cache'[t][i].addr)
          <=> \E k \in Pending(t) \ {j} : connJob[k].addr = cache[t][i].addr
    BY <1>1, <1>2
  <2>3. (\E k \in Pending(t) \ {j} : connJob[k].addr = cache[t][i].addr)
          <=> /\ \E k \in Pending(t) : connJob[k].addr = cache[t][i].addr
              /\ cache[t][i].addr # connJob[j].addr
    BY <1>6
  <2>4. cache[t][i].connecting
          <=> \E k \in Pending(t) : connJob[k].addr = cache[t][i].addr
    BY <1>7
  <2> QED  BY <2>1, <2>2, <2>3, <2>4
<1> QED  BY <1>3, <1>4, <1>5, <1>8

LEMMA MarksType ==
  ASSUME TypeOK, NEW t \in Torrent
  PROVE  \A i \in DOMAIN cache[t] : cache[t][i].connecting \in BOOLEAN
<1>1. cache[t] \in Seq(Candidate)
  BY CacheType DEF TypeOK
<1>2. \A i \in DOMAIN cache[t] : cache[t][i] \in Candidate
  BY <1>1
<1> QED  BY <1>2 DEF Candidate

LEMMA GiveUpKeepsUses ==
  ASSUME ConnInv, NEW t \in Torrent, Downloading(t), NEW j \in ConnSlot, GaveUp(t, j)
  PROVE  UsedOnce(t)' /\ UsesKnown(t)' /\ Fits(t)'
<1>0. UsedOnce(t) /\ UsesKnown(t) /\ Fits(t) /\ TypeOK
  BY DEF ConnInv, Uses
<1>1. OnePendingLess(t, j) /\ peer'[t] = peer[t]
  BY DEF GaveUp
<1>2. Connected(t)' = Connected(t) /\ \A p \in Slot : peer'[t][p] = peer[t][p]
  BY <1>1 DEF Connected
<1>3. /\ Known(cache'[t]) = Known(cache[t])
      /\ \A k \in Pending(t)' : connJob'[k].addr \in Known(cache'[t])
      /\ \A k, l \in Pending(t)' : connJob'[k].addr = connJob'[l].addr => k = l
      /\ \A i \in DOMAIN cache'[t] :
           cache'[t][i].connecting
             <=> \E k \in Pending(t)' : connJob'[k].addr = cache'[t][i].addr
  BY <1>0, <1>1, MarksType, EndKeepsMarks
<1>4. /\ Pending(t)' = Pending(t) \ {j}
      /\ \A k \in Pending(t)' : connJob'[k].addr = connJob[k].addr
  BY <1>1 DEF OnePendingLess
<1>5. Connected(t) \subseteq Slot
  BY DEF Connected
<1>6. UsedOnce(t)'
  BY <1>0, <1>2, <1>3, <1>4, <1>5 DEF UsedOnce
<1>7. UsesKnown(t)'
  BY <1>0, <1>2, <1>3, <1>5 DEF UsesKnown
<1>8. Cardinality(Pending(t)') <= Cardinality(Pending(t)) /\ Cardinality(Pending(t)') \in Nat
  BY <1>0, <1>4, UsesType, FS_Subset, FS_CardinalityType
<1>9. Fits(t)'
  BY <1>0, <1>2, <1>8, UsesType DEF Fits
<1> QED  BY <1>6, <1>7, <1>9

(* A place in peers[] is taken for the one that the attempt held.            *)
LEMMA GainKeepsUses ==
  ASSUME ConnInv, NEW t \in Torrent, Downloading(t), NEW j \in ConnSlot,
         NEW p \in Slot, Gained(t, j, p)
  PROVE  UsedOnce(t)' /\ UsesKnown(t)' /\ Fits(t)'
<1>0. UsedOnce(t) /\ UsesKnown(t) /\ Fits(t) /\ TypeOK
  BY DEF ConnInv, Uses
<1>1. /\ OnePendingLess(t, j) /\ p \notin Connected(t)
      /\ connJob[j].addr \notin Endpoints(t)
      /\ peer'[t][p].addr = connJob[j].addr /\ peer'[t][p].sock # None
      /\ \A q \in Slot \ {p} : peer'[t][q] = peer[t][q]
  BY DEF Gained
<1>2. Connected(t)' = Connected(t) \cup {p}
  BY <1>1 DEF Connected
<1>3. /\ Known(cache'[t]) = Known(cache[t])
      /\ \A k \in Pending(t)' : connJob'[k].addr \in Known(cache'[t])
      /\ \A k, l \in Pending(t)' : connJob'[k].addr = connJob'[l].addr => k = l
      /\ \A i \in DOMAIN cache'[t] :
           cache'[t][i].connecting
             <=> \E k \in Pending(t)' : connJob'[k].addr = cache'[t][i].addr
  BY <1>0, <1>1, MarksType, EndKeepsMarks
<1>4. /\ j \in Pending(t) /\ Pending(t)' = Pending(t) \ {j}
      /\ \A k \in Pending(t)' : connJob'[k].addr = connJob[k].addr
  BY <1>1 DEF OnePendingLess
<1>5. \A q \in Connected(t) : /\ q \in Slot \ {p} /\ peer'[t][q] = peer[t][q]
                             /\ peer[t][q].addr # connJob[j].addr
  BY <1>1 DEF Connected, Endpoints
<1>6. \A k \in Pending(t) \ {j} : connJob[k].addr # connJob[j].addr
  BY <1>0, <1>4 DEF UsedOnce
<1>7. UsedOnce(t)'
  <2>1. \A q, r \in Connected(t)' : peer'[t][q].addr = peer'[t][r].addr => q = r
    BY <1>0, <1>1, <1>2, <1>5 DEF UsedOnce
  <2>2. \A q \in Connected(t)', k \in Pending(t)' : peer'[t][q].addr # connJob'[k].addr
    BY <1>0, <1>1, <1>2, <1>4, <1>5, <1>6 DEF UsedOnce
  <2> QED  BY <1>3, <2>1, <2>2 DEF UsedOnce
<1>8. UsesKnown(t)'
  <2>1. \A q \in Connected(t)' : peer'[t][q].addr \in Known(cache'[t])
    BY <1>0, <1>1, <1>2, <1>3, <1>4, <1>5 DEF UsesKnown
  <2> QED  BY <1>3, <2>1 DEF UsesKnown
<1>9. Cardinality(Pending(t)') = Cardinality(Pending(t)) - 1
  BY <1>0, <1>4, UsesType, FS_RemoveElement
<1>10. Cardinality(Connected(t)') = Cardinality(Connected(t)) + 1
  BY <1>0, <1>1, <1>2, UsesType, FS_AddElement
<1>11. Fits(t)'
  BY <1>0, <1>9, <1>10, UsesType DEF Fits
<1> QED  BY <1>7, <1>8, <1>11

LEMMA TryKeepsUses ==
  ASSUME ConnInv, NEW t \in Torrent, Downloading(t), NEW j \in ConnSlot, Tried(t, j)
  PROVE  UsedOnce(t)' /\ UsesKnown(t)' /\ Fits(t)'
<1>0. UsedOnce(t) /\ UsesKnown(t) /\ Fits(t) /\ TypeOK /\ Distinct(cache[t])
  BY DEF ConnInv, Uses, CachesDistinct
<1>1. OnePendingMore(t, j) /\ peer'[t] = peer[t]
  BY DEF Tried
<1>2. PICK i \in DOMAIN cache[t] :
        /\ connJob'[j].addr = cache[t][i].addr
        /\ ~cache[t][i].connecting
        /\ \A p \in Connected(t) : peer[t][p].addr # cache[t][i].addr
        /\ Marked(cache[t], cache'[t], i)
  BY <1>1 DEF OnePendingMore
<1>3. /\ j \notin Pending(t) /\ Pending(t)' = Pending(t) \cup {j}
      /\ \A k \in Pending(t) : connJob'[k].addr = connJob[k].addr
      /\ Cardinality(Connected(t)) + Cardinality(Pending(t)) < Cardinality(Slot)
  BY <1>1 DEF OnePendingMore
<1>4. Connected(t)' = Connected(t) /\ \A p \in Connected(t) : peer'[t][p] = peer[t][p]
  BY <1>1 DEF Connected
<1>5. /\ DOMAIN cache'[t] = DOMAIN cache[t]
      /\ \A k \in DOMAIN cache[t] :
           /\ cache'[t][k].addr = cache[t][k].addr
           /\ cache'[t][k].connecting = (cache[t][k].connecting \/ k = i)
  BY <1>2 DEF Marked, Placed
<1>6. Known(cache'[t]) = Known(cache[t])
  BY <1>5 DEF Known
<1>7. \A k \in Pending(t) : connJob[k].addr # cache[t][i].addr
  BY <1>0, <1>2 DEF UsesKnown
<1>8. UsedOnce(t)'
  <2>1. \A k, l \in Pending(t)' : connJob'[k].addr = connJob'[l].addr => k = l
    BY <1>0, <1>2, <1>3, <1>7 DEF UsedOnce
  <2>2. \A p \in Connected(t)', k \in Pending(t)' : peer'[t][p].addr # connJob'[k].addr
    BY <1>0, <1>2, <1>3, <1>4 DEF UsedOnce
  <2>3. \A p, q \in Connected(t)' : peer'[t][p].addr = peer'[t][q].addr => p = q
    BY <1>0, <1>4 DEF UsedOnce
  <2> QED  BY <2>1, <2>2, <2>3 DEF UsedOnce
<1>9. UsesKnown(t)'
  <2>1. \A p \in Connected(t)' : peer'[t][p].addr \in Known(cache'[t])
    BY <1>0, <1>4, <1>6 DEF UsesKnown
  <2>2. cache[t][i].addr \in Known(cache[t])
    BY DEF Known
  <2>3. \A k \in Pending(t)' : connJob'[k].addr \in Known(cache'[t])
    BY <1>0, <1>2, <1>3, <1>6, <2>2 DEF UsesKnown
  <2>4. \A k \in DOMAIN cache[t] :
          cache[t][k].connecting
            <=> \E l \in Pending(t) : connJob[l].addr = cache[t][k].addr
    BY <1>0 DEF UsesKnown
  <2>5. \A k \in DOMAIN cache[t] : cache[t][k].addr = cache[t][i].addr => k = i
    BY <1>0 DEF Distinct
  <2>6. \A k \in DOMAIN cache'[t] :
          cache'[t][k].connecting
            <=> \E l \in Pending(t)' : connJob'[l].addr = cache'[t][k].addr
    <3> SUFFICES ASSUME NEW k \in DOMAIN cache[t]
                 PROVE  cache'[t][k].connecting
                          <=> \E l \in Pending(t)' : connJob'[l].addr = cache'[t][k].addr
      BY <1>5
    <3>1. cache'[t][k].connecting <=> cache[t][k].connecting \/ k = i
      BY <1>5
    <3>2. (\E l \in Pending(t)' : connJob'[l].addr = cache'[t][k].addr)
            <=> \/ \E l \in Pending(t) : connJob[l].addr = cache[t][k].addr
                \/ cache[t][i].addr = cache[t][k].addr
      BY <1>2, <1>3, <1>5
    <3>3. cache[t][i].addr = cache[t][k].addr <=> k = i
      BY <2>5
    <3> QED  BY <2>4, <3>1, <3>2, <3>3
  <2> QED  BY <2>1, <2>3, <2>6 DEF UsesKnown
<1>10. Cardinality(Pending(t)') = Cardinality(Pending(t)) + 1
  BY <1>0, <1>3, UsesType, FS_AddElement
<1>11. Fits(t)'
  BY <1>0, <1>3, <1>4, <1>10, UsesType DEF Fits
<1> QED  BY <1>8, <1>9, <1>11

LEMMA UsesKept ==
  ASSUME ConnInv, Next
  PROVE  Uses'
<1> SUFFICES ASSUME NEW t \in Torrent, state'[t] = "downloading"
             PROVE  UsedOnce(t)' /\ UsesKnown(t)' /\ Fits(t)'
  BY DEF Uses, Downloading
<1>1. TorrentStep(t)
  BY TorrentSteps
<1>2. CASE Restarted(t)
  BY <1>2, RestartKeepsUses
<1>3. CASE ~Restarted(t)
  <2>1. Downloading(t)
    <3>1. CASE Aging
      BY <3>1 DEF Aging, Downloading
    <3>2. CASE Renewing
      <4>1. PICK u \in Torrent, s \in State :
              Renew(u) /\ connJob' = connJob /\ state' = [state EXCEPT ![u] = s]
        BY <3>2 DEF Renewing, Stop, Start, State
      <4>2. u # t
        BY <1>3, <4>1, RenewedRestarts
      <4>3. state \in [Torrent -> State]
        BY DEF ConnInv, TypeOK
      <4> QED  BY <4>1, <4>2, <4>3 DEF Downloading
    <3> QED  BY <3>1, <3>2, LifeSteps DEF ConnInv
  <2>2. cache'[t] \in Cache /\ CachesDistinct'
    BY CacheKept DEF ConnInv
  <2>3. CASE Continued(t)
    BY <2>1, <2>2, <2>3, ContinuedKeepsUses
  <2>4. CASE \E j \in ConnSlot : GaveUp(t, j)
    BY <2>1, <2>4, GiveUpKeepsUses
  <2>5. CASE \E j \in ConnSlot : Tried(t, j)
    BY <2>1, <2>5, TryKeepsUses
  <2>6. CASE \E j \in ConnSlot, p \in Slot : Gained(t, j, p)
    BY <2>1, <2>6, GainKeepsUses
  <2> QED  BY <1>1, <1>3, <2>3, <2>4, <2>5, <2>6 DEF TorrentStep
<1> QED  BY <1>2, <1>3

-----------------------------------------------------------------------------
(* Discovery jobs.                                                          *)

LEMMA DiscoveryKept ==
  ASSUME TypeOK, Places, Next
  PROVE  /\ discJob' \in [DiscSlot -> Discovery]
         /\ main'.at \in {"drain", "finish"} /\ main'.done =>
              discJob'[main'.job].status = "done"
         /\ main'.at = "finish" /\ main'.done => discJob'[main'.job].queue = <<>>
<1>0. discJob \in [DiscSlot -> Discovery] /\ main \in Main
  BY DEF TypeOK
<1> DEFINE Over1 == main'.at \in {"drain", "finish"} /\ main'.done =>
                      discJob'[main'.job].status = "done"
           Over2 == main'.at = "finish" /\ main'.done =>
                      discJob'[main'.job].queue = <<>>
<1>job. /\ main.at \in {"drain", "finish"} =>
             /\ main.job \in DiscSlot
             /\ main.done => discJob[main.job].status = "done"
        /\ main.at = "finish" /\ main.done => discJob[main.job].queue = <<>>
  BY DEF Places
<1>1. CASE UNCHANGED <<main, discJob>>
  BY <1>0, <1>1, <1>job
<1>2. CASE discJob' = discJob /\ main'.at \notin {"drain", "finish"}
  BY <1>0, <1>2
<1>3. ASSUME NEW d \in DiscSlot, NEW a \in Address, Publish(d, a)
      PROVE  discJob' \in [DiscSlot -> Discovery] /\ Over1 /\ Over2
  <2> DEFINE q == discJob[d].queue
             r == IF Takes(q, a) THEN Append(q, a) ELSE q
             x == [discJob[d] EXCEPT !.queue = r]
  <2>1. /\ discJob[d].status = "running" /\ main' = main
        /\ discJob' = [discJob EXCEPT ![d] = x]
    BY <1>3 DEF Publish
  <2>2. q \in Seq(Address) /\ Len(q) <= QueueLimit /\ discJob[d] \in Discovery
    BY <1>0, BoundedSequences, ConnectionsAssumption DEF Discovery
  <2>3. r \in Seq(Address) /\ Len(r) <= QueueLimit
    <3>1. CASE Takes(q, a)
      BY <2>2, <3>1, ConnectionsAssumption DEF Takes
    <3>2. CASE ~Takes(q, a)
      BY <2>2, <3>2
    <3> QED  BY <3>1, <3>2
  <2>4. r \in BoundedSeq(Address, QueueLimit)
    BY <2>3, BoundedSequences, ConnectionsAssumption
  <2> HIDE DEF r
  <2>5. x \in Discovery /\ x.status = discJob[d].status
    BY <2>2, <2>4 DEF Discovery
  <2> HIDE DEF x
  <2>6. discJob' \in [DiscSlot -> Discovery]
    BY <1>0, <2>1, <2>5
  <2>7. \A e \in DiscSlot : discJob[e].status = "done" => discJob'[e] = discJob[e]
    BY <1>0, <2>1
  <2> QED  BY <1>job, <2>1, <2>6, <2>7
<1>4. ASSUME NEW d \in DiscSlot, EndDiscovery(d)
      PROVE  discJob' \in [DiscSlot -> Discovery] /\ Over1 /\ Over2
  <2> DEFINE x == [discJob[d] EXCEPT !.status = "done"]
  <2>1. /\ discJob[d].status = "running" /\ main' = main
        /\ discJob' = [discJob EXCEPT ![d] = x]
    BY <1>4 DEF EndDiscovery
  <2>2. x \in Discovery
    BY <1>0 DEF Discovery
  <2> HIDE DEF x
  <2>6. discJob' \in [DiscSlot -> Discovery]
    BY <1>0, <2>1, <2>2
  <2>7. \A e \in DiscSlot : discJob[e].status = "done" => discJob'[e] = discJob[e]
    BY <1>0, <2>1
  <2> QED  BY <1>job, <2>1, <2>6, <2>7
<1>5. ASSUME NEW d \in DiscSlot, AskDiscovery(d)
      PROVE  discJob' \in [DiscSlot -> Discovery] /\ Over1 /\ Over2
  BY <1>0, <1>5 DEF AskDiscovery, Main
<1>6. CASE DrainDiscovery
  <2> DEFINE x == [discJob[main.job] EXCEPT !.queue = <<>>]
  <2>1. /\ main.at = "drain" /\ main' = [main EXCEPT !.at = "finish"]
        /\ discJob' = [discJob EXCEPT ![main.job] = x] /\ main.job \in DiscSlot
    BY <1>6, <1>job DEF DrainDiscovery
  <2>2. <<>> \in Seq(Address) /\ Len(<<>>) <= QueueLimit
    BY ConnectionsAssumption
  <2>3. <<>> \in BoundedSeq(Address, QueueLimit)
    BY <2>2, BoundedSequences, ConnectionsAssumption
  <2>4. x \in Discovery /\ x.queue = <<>> /\ x.status = discJob[main.job].status
    BY <1>0, <2>1, <2>3 DEF Discovery
  <2> HIDE DEF x
  <2>5. main'.job = main.job /\ main'.done = main.done
    BY <1>0, <2>1 DEF Main
  <2> QED  BY <1>0, <1>job, <2>1, <2>4, <2>5
<1>7. CASE FinishDiscovery
  <2>1. main.at = "finish" /\ main.job \in DiscSlot /\ main'.at = "disc"
    BY <1>0, <1>7, <1>job DEF FinishDiscovery, Main
  <2>2. NoDiscovery \in Discovery
    <3>1. <<>> \in Seq(Address) /\ Len(<<>>) <= QueueLimit
      BY ConnectionsAssumption
    <3>2. <<>> \in BoundedSeq(Address, QueueLimit)
      BY <3>1, BoundedSequences, ConnectionsAssumption
    <3> QED  BY <3>2, ConnectionsAssumption DEF NoDiscovery, Discovery
  <2> QED  BY <1>0, <1>7, <2>1, <2>2 DEF FinishDiscovery
<1>8. ASSUME NEW d \in DiscSlot, ScheduleDiscovery(d)
      PROVE  discJob' \in [DiscSlot -> Discovery] /\ Over1 /\ Over2
  <2> DEFINE x == [NoDiscovery EXCEPT !.status = "running",
                                      !.generation = generation[Cur]]
  <2>1. /\ main.at = "announce" /\ main'.at = "peers"
        /\ discJob' = [discJob EXCEPT ![d] = x]
    BY <1>0, <1>8 DEF ScheduleDiscovery, Main
  <2>2. generation[Cur] \in 0 .. MaxGeneration
    BY <2>1, ConnectionsAssumption DEF Places, Cur, TypeOK
  <2>3. NoDiscovery \in Discovery
    <3>1. <<>> \in Seq(Address) /\ Len(<<>>) <= QueueLimit
      BY ConnectionsAssumption
    <3>2. <<>> \in BoundedSeq(Address, QueueLimit)
      BY <3>1, BoundedSequences, ConnectionsAssumption
    <3> QED  BY <3>2, ConnectionsAssumption DEF NoDiscovery, Discovery
  <2>4. x \in Discovery
    BY <2>2, <2>3 DEF Discovery
  <2> HIDE DEF x
  <2> QED  BY <1>0, <2>1, <2>4
<1>9. \/ UNCHANGED <<main, discJob>>
      \/ discJob' = discJob /\ main'.at \notin {"drain", "finish"}
      \/ \E d \in DiscSlot : \/ EndDiscovery(d) \/ AskDiscovery(d) \/ ScheduleDiscovery(d)
                              \/ \E a \in Address : Publish(d, a)
      \/ DrainDiscovery \/ FinishDiscovery
  <2> USE DEF Main
  <2>1. CASE Handler \/ Clock
    BY <2>1 DEF Handler, Stop, Start, Clock, CoolDown
  <2>2. CASE Worker
    BY <2>2 DEF Worker, EndConnection
  <2>3. CASE StartTick \/ EndCollectDiscovery \/ EndCollectConnections
    BY <1>0, <2>3 DEF StartTick, EndCollectDiscovery, EndCollectConnections
  <2>5. CASE CollectStage
    BY <2>3, <2>5
       DEF CollectStage, DiscardConnection, FailConnection, AdoptConnection
  <2>4. CASE TorrentStage
    <3>1. LeaveTorrent => main'.at = "torrents"
      BY <1>0 DEF LeaveTorrent
    <3>2. MayConnect => main.at = "connect"
      BY DEF MayConnect
    <3>3. ASSUME NEW t \in Torrent, FinishTorrent(t) \/ VisitTorrent(t)
          PROVE  discJob' = discJob /\ main'.at \notin {"drain", "finish"}
      BY <1>0, <3>3 DEF FinishTorrent, VisitTorrent
    <3>4. CASE EndTick \/ SkipDiscovery \/ EndPeers
      BY <1>0, <3>4 DEF EndTick, Idle, SkipDiscovery, EndPeers
    <3>5. CASE SkipCandidate \/ \E j \in ConnSlot : Connect(j)
      BY <1>0, <3>2, <3>5 DEF SkipCandidate, Connect
    <3>6. CASE EndConnect \/ \E paused \in BOOLEAN : CannotConnect(paused)
      BY <3>1, <3>6 DEF CannotConnect, EndConnect
    <3>7. CASE \/ \E p \in Slot : DropPeer(p) \/ DeliverPiece(p)
               \/ \E P \in SUBSET Slot : FailTorrent(P)
      BY <3>7 DEF DropPeer, DeliverPiece, FailTorrent
    <3> QED  BY <2>4, <3>3, <3>4, <3>5, <3>6, <3>7 DEF TorrentStage
  <2> QED  BY <2>1, <2>2, <2>3, <2>4, <2>5 DEF Next, Tick
<1> QED  BY <1>1, <1>2, <1>3, <1>4, <1>5, <1>6, <1>7, <1>8, <1>9

-----------------------------------------------------------------------------
(* The invariant.                                                           *)

LEMMA ConnInvInit == Init => ConnInv
<1> SUFFICES ASSUME Init  PROVE ConnInv
  OBVIOUS
<1>1. Cardinality(Torrent) \in Nat /\ Cardinality(Torrent) <= MaxGeneration
      /\ MaxGeneration \in Nat
  BY FS_CardinalityType, ConnectionsAssumption
<1>2. generation \in [Torrent -> 1 .. Cardinality(Torrent)]
      /\ \A t, u \in Torrent : generation[t] = generation[u] => t = u
  BY DEF Init
<1>3. TypeOK
  <2>1. main \in Main
    <3>1. 0 \in 0 .. MaxCandidates
      BY CandidatesAssumption
    <3> QED  BY <3>1 DEF Init, Idle, Main, Stage
  <2>2. state \in [Torrent -> State]
    BY DEF Init, State
  <2>3. generation \in [Torrent -> 1 .. MaxGeneration]
    BY <1>1, <1>2
  <2>4. nextGeneration \in 1 .. MaxGeneration + 1
    BY <1>1 DEF Init
  <2>5. cache \in [Torrent -> Cache]
    <3>1. <<>> \in Seq(Candidate) /\ Len(<<>>) <= MaxCandidates
      BY CandidatesAssumption
    <3>2. <<>> \in Cache
      BY <3>1, CacheType
    <3> QED  BY <3>2 DEF Init
  <2>6. nextCandidate \in [Torrent -> 0 .. MaxCandidates]
    BY CandidatesAssumption DEF Init
  <2>7. peer \in [Torrent -> [Slot -> Peer]]
    BY DEF Init, Closed, Peer
  <2>8. discJob \in [DiscSlot -> Discovery]
    <3>1. <<>> \in Seq(Address) /\ Len(<<>>) <= QueueLimit
      BY ConnectionsAssumption
    <3>2. <<>> \in BoundedSeq(Address, QueueLimit)
      BY <3>1, BoundedSequences, ConnectionsAssumption
    <3>3. NoDiscovery \in Discovery
      BY <3>2, ConnectionsAssumption DEF NoDiscovery, Discovery
    <3> QED  BY <3>3 DEF Init
  <2>9. connJob \in [ConnSlot -> Connection]
    <3>1. NoConnection \in Connection
      BY ConnectionsAssumption DEF NoConnection, Connection
    <3> QED  BY <3>1 DEF Init
  <2> QED  BY <2>1, <2>2, <2>3, <2>4, <2>5, <2>6, <2>7, <2>8, <2>9 DEF Init, TypeOK
<1>4. Places
  BY DEF Init, Idle, Places
<1>5. Attempts
  <2>1. \A t \in Torrent : generation[t] < nextGeneration
    BY <1>1, <1>2 DEF Init
  <2>2. \A j \in ConnSlot : connJob[j] = NoConnection
    BY DEF Init
  <2>3. 0 < nextGeneration
    BY <1>1 DEF Init
  <2> QED  BY <1>2, <2>1, <2>2, <2>3 DEF Attempts, NoConnection
<1>6. Sockets
  BY DEF Init, Sockets, Closed, NoConnection
<1>7. CachesDistinct
  BY DEF Init, CachesDistinct, Distinct
<1>8. Uses
  BY DEF Init, Uses, Downloading
<1> QED  BY <1>3, <1>4, <1>5, <1>6, <1>7, <1>8 DEF ConnInv

LEMMA ConnInvNext == ConnInv /\ [Next]_vars => ConnInv'
<1>1. ASSUME ConnInv, Next
      PROVE  ConnInv'
  <2> USE <1>1 DEF ConnInv
  <2>1. main' \in Main
    BY MainStep
  <2>2. \A j \in ConnSlot : JobOK(connJob'[j], nextGeneration')
    BY JobsKept
  <2>3. connJob' \in [ConnSlot -> Connection]
    BY <2>2, JobSteps DEF JobOK
  <2>4. TypeOK'
    BY <2>1, <2>3, LifeKept, CacheKept, PeersKept, DiscoveryKept DEF TypeOK
  <2>5. Places'
    BY MainStep, DiscoveryKept, CacheKept DEF Places
  <2>6. Attempts'
    BY <2>2, LifeKept DEF Attempts, JobOK
  <2>7. Sockets'
    BY SocketsKept
  <2>8. CachesDistinct'
    BY CacheKept
  <2>9. Uses'
    BY UsesKept
  <2> QED  BY <2>4, <2>5, <2>6, <2>7, <2>8, <2>9
<1>2. ASSUME ConnInv, UNCHANGED vars
      PROVE  ConnInv'
  <2> USE <1>2 DEF vars
  <2>1. TypeOK'
    BY DEF ConnInv, TypeOK
  <2>2. Places' /\ Attempts' /\ Sockets'
    BY DEF ConnInv, Places, Attempts, Sockets
  <2>3. CachesDistinct'
    BY DEF ConnInv, CachesDistinct, Distinct
  <2>4. Uses'
    <3> SUFFICES ASSUME NEW t \in Torrent, Downloading(t)
                 PROVE  UsedOnce(t)' /\ UsesKnown(t)' /\ Fits(t)'
      BY DEF Uses, Downloading
    <3>1. Connected(t)' = Connected(t) /\ Pending(t)' = Pending(t)
      BY DEF Connected, Pending
    <3>2. UsedOnce(t) /\ UsesKnown(t) /\ Fits(t)
      BY DEF ConnInv, Uses
    <3> QED  BY <3>1, <3>2 DEF UsedOnce, UsesKnown, Fits, Known
  <2> QED  BY <2>1, <2>2, <2>3, <2>4 DEF ConnInv
<1> QED  BY <1>1, <1>2

THEOREM ConnInvHolds == Spec => []ConnInv
  BY ConnInvInit, ConnInvNext, PTL DEF Spec

-----------------------------------------------------------------------------
(* The theorems.                                                            *)

(* Every variable of discovery and connections keeps its type; the turn of   *)
(* the candidates never leaves the cache that it goes round.                *)
THEOREM ConnectionsTypeCorrect == Spec => []TypeOK
<1>1. ConnInv => TypeOK
  BY DEF ConnInv
<1> QED  BY <1>1, ConnInvHolds, PTL

(* A socket is open exactly while a peer or a finished attempt owns it, and  *)
(* has one owner: none is leaked, closed twice or used after it was closed.  *)
THEOREM SocketsAreOwned == Spec => []SocketsOwned
<1>1. ConnInv => SocketsOwned
  <2> SUFFICES ASSUME ConnInv, NEW s \in Socket
               PROVE  Cardinality(SocketOwners(s)) = IF s \in open THEN 1 ELSE 0
    BY DEF SocketsOwned
  <2>0. Sockets /\ s # None
    BY ConnectionsAssumption DEF ConnInv
  <2>1. CASE s \notin open
    <3>1. SocketOwners(s) = {}
      BY <2>0, <2>1 DEF Sockets, SocketOwners
    <3> QED  BY <2>1, <3>1, FS_EmptySet
  <2>2. CASE s \in open
    <3>0. \E o : SocketOwners(s) = {o}
      <4>1. CASE \E t \in Torrent, p \in Slot : peer[t][p].sock = s
        <5>1. PICK t \in Torrent, p \in Slot : peer[t][p].sock = s
          BY <4>1
        <5>2. \A u \in Torrent, q \in Slot : peer[u][q].sock = s => u = t /\ q = p
          BY <2>0, <5>1 DEF Sockets
        <5>3. \A j \in ConnSlot : connJob[j].sock # s
          BY <2>0, <5>1 DEF Sockets
        <5>4. {x \in Torrent \X Slot : peer[x[1]][x[2]].sock = s} = {<<t, p>>}
          BY <5>1, <5>2
        <5>5. {k \in ConnSlot : connJob[k].sock = s} = {}
          BY <5>3
        <5>6. SocketOwners(s) = {<<t, p>>}
          BY <5>4, <5>5 DEF SocketOwners
        <5> QED  BY <5>6
      <4>2. CASE \E j \in ConnSlot : connJob[j].sock = s
        <5>1. PICK j \in ConnSlot : connJob[j].sock = s
          BY <4>2
        <5>2. \A k \in ConnSlot : connJob[k].sock = s => k = j
          BY <2>0, <5>1 DEF Sockets
        <5>3. \A u \in Torrent, q \in Slot : peer[u][q].sock # s
          BY <2>0, <5>1 DEF Sockets
        <5>4. {x \in Torrent \X Slot : peer[x[1]][x[2]].sock = s} = {}
          BY <5>3
        <5>5. {k \in ConnSlot : connJob[k].sock = s} = {j}
          BY <5>1, <5>2
        <5>6. SocketOwners(s) = {<<"job", j>>}
          BY <5>4, <5>5 DEF SocketOwners
        <5> QED  BY <5>6
      <4> QED  BY <2>0, <2>2, <4>1, <4>2 DEF Sockets
    <3>1. PICK o : SocketOwners(s) = {o}
      BY <3>0
    <3>2. Cardinality({o}) = 1
      BY FS_Singleton
    <3> QED  BY <2>2, <3>1, <3>2
  <2> QED  BY <2>1, <2>2
<1> QED  BY <1>1, ConnInvHolds, PTL

(* While a torrent downloads, a candidate is marked as connecting exactly    *)
(* while an attempt of this run is under way for it.                         *)
THEOREM MarksHaveAttempts == Spec => []ConnectingHasJob
<1>1. ConnInv => ConnectingHasJob
  <2> SUFFICES ASSUME ConnInv, NEW t \in Torrent, Downloading(t)
               PROVE  {cache[t][i].addr : i \in {k \in DOMAIN cache[t] : cache[t][k].connecting}}
                        = {connJob[j].addr : j \in Pending(t)}
    BY DEF ConnectingHasJob
  <2>1. UsesKnown(t)
    BY DEF ConnInv, Uses
  <2> QED  BY <2>1 DEF UsesKnown, Known
<1> QED  BY <1>1, ConnInvHolds, PTL

(* The peers and the attempts under way of a torrent that downloads fit in   *)
(* peers[].                                                                 *)
THEOREM AttemptsAlwaysFit == Spec => []AttemptsFit
<1>1. ConnInv => AttemptsFit
  BY DEF ConnInv, Uses, Fits, AttemptsFit
<1> QED  BY <1>1, ConnInvHolds, PTL

(* The addresses of peers and attempts stay in the cache, whatever comes in  *)
(* from trackers and replaces other entries.                                *)
THEOREM PeersStayKnown == Spec => []PeersAreKnown
<1>1. ConnInv => PeersAreKnown
  BY DEF ConnInv, Uses, UsesKnown, PeersAreKnown, Endpoints
<1> QED  BY <1>1, ConnInvHolds, PTL

(* The image of a finite set under a function that is injective on it.       *)
LEMMA ImageCardinality ==
  ASSUME NEW S, NEW f, IsFiniteSet(S), \A x, y \in S : f[x] = f[y] => x = y
  PROVE  Cardinality({f[x] : x \in S}) = Cardinality(S)
<1> DEFINE g == [x \in S |-> f[x]]
           T == {f[x] : x \in S}
<1>1. g \in Bijection(S, T)
  <2>1. g \in [S -> T] /\ \A x, y \in S : g[x] = g[y] => x = y
    OBVIOUS
  <2>2. \A z \in T : \E x \in S : g[x] = z
    OBVIOUS
  <2>3. g \in Injection(S, T)
    BY <2>1 DEF Injection, IsInjective
  <2>4. g \in Surjection(S, T)
    BY <2>1, <2>2 DEF Surjection
  <2> QED  BY <2>3, <2>4 DEF Bijection
<1>2. ExistsBijection(S, T)
  BY <1>1 DEF ExistsBijection
<1> QED  BY <1>2, FS_Bijection

(* No address is in the cache twice, connected twice, tried twice at once,   *)
(* or tried while connected.                                                *)
THEOREM EndpointsStayDistinct == Spec => []EndpointsDistinct
<1>1. ConnInv => EndpointsDistinct
  <2> SUFFICES ASSUME ConnInv, NEW t \in Torrent, Downloading(t)
               PROVE  /\ Cardinality(Known(cache[t])) = Len(cache[t])
                      /\ Cardinality(Endpoints(t)) = Cardinality(Connected(t))
                      /\ Cardinality({connJob[j].addr : j \in Pending(t)}) = Cardinality(Pending(t))
                      /\ Endpoints(t) \cap {connJob[j].addr : j \in Pending(t)} = {}
    BY DEF EndpointsDistinct
  <2>0. UsedOnce(t) /\ Distinct(cache[t]) /\ TypeOK /\ cache[t] \in Cache
    BY DEF ConnInv, Uses, CachesDistinct, TypeOK
  <2>1. Cardinality(Known(cache[t])) = Len(cache[t])
    <3>1. DOMAIN cache[t] = 1 .. Len(cache[t]) /\ Len(cache[t]) \in Nat
      BY <2>0, CacheType
    <3>2. IsFiniteSet(1 .. Len(cache[t])) /\ Cardinality(1 .. Len(cache[t])) = Len(cache[t])
      BY <3>1, FS_Interval
    <3> DEFINE f == [i \in DOMAIN cache[t] |-> cache[t][i].addr]
    <3>3. \A i, k \in DOMAIN cache[t] : f[i] = f[k] => i = k
      BY <2>0 DEF Distinct
    <3>4. Known(cache[t]) = {f[i] : i \in DOMAIN cache[t]}
      BY DEF Known
    <3>5. IsFiniteSet(DOMAIN cache[t])
      BY <3>1, <3>2
    <3> HIDE DEF f
    <3>6. Cardinality({f[i] : i \in DOMAIN cache[t]}) = Cardinality(DOMAIN cache[t])
      BY <3>3, <3>5, ImageCardinality
    <3> QED  BY <3>1, <3>2, <3>4, <3>6
  <2>2. Cardinality(Endpoints(t)) = Cardinality(Connected(t))
    <3> DEFINE f == [p \in Connected(t) |-> peer[t][p].addr]
    <3>1. \A p, q \in Connected(t) : f[p] = f[q] => p = q
      BY <2>0 DEF UsedOnce
    <3>2. Endpoints(t) = {f[p] : p \in Connected(t)}
      BY DEF Endpoints
    <3>3. IsFiniteSet(Connected(t))
      BY <2>0, UsesType
    <3> HIDE DEF f
    <3>4. Cardinality({f[p] : p \in Connected(t)}) = Cardinality(Connected(t))
      BY <3>1, <3>3, ImageCardinality
    <3> QED  BY <3>2, <3>4
  <2>3. Cardinality({connJob[j].addr : j \in Pending(t)}) = Cardinality(Pending(t))
    <3> DEFINE f == [j \in Pending(t) |-> connJob[j].addr]
    <3>1. \A j, k \in Pending(t) : f[j] = f[k] => j = k
      BY <2>0 DEF UsedOnce
    <3>2. {connJob[j].addr : j \in Pending(t)} = {f[j] : j \in Pending(t)}
      OBVIOUS
    <3>3. IsFiniteSet(Pending(t))
      BY <2>0, UsesType
    <3> HIDE DEF f
    <3>4. Cardinality({f[j] : j \in Pending(t)}) = Cardinality(Pending(t))
      BY <3>1, <3>3, ImageCardinality
    <3> QED  BY <3>2, <3>4
  <2>4. Endpoints(t) \cap {connJob[j].addr : j \in Pending(t)} = {}
    BY <2>0 DEF UsedOnce, Endpoints
  <2> QED  BY <2>1, <2>2, <2>3, <2>4
<1> QED  BY <1>1, ConnInvHolds, PTL

(* A discovery job is freed only once its worker is over and its queue is    *)
(* empty: no address that a tracker sent is lost.                            *)
THEOREM JobsAreFreedInTime == Spec => FreedJobsAreOver
<1>1. ASSUME ConnInv, Next, NEW d \in DiscSlot,
             discJob[d].status # "empty", discJob'[d].status = "empty"
      PROVE  discJob[d].status = "done" /\ discJob[d].queue = <<>>
  <2>0. discJob \in [DiscSlot -> Discovery] /\ Places /\ main \in Main
    BY <1>1 DEF ConnInv, TypeOK
  <2>1. CASE discJob' = discJob
    BY <1>1, <2>1
  <2>2. ASSUME NEW e \in DiscSlot, NEW a \in Address, Publish(e, a)
        PROVE  FALSE
    BY <1>1, <2>0, <2>2 DEF Publish, Discovery
  <2>3. ASSUME NEW e \in DiscSlot, EndDiscovery(e)
        PROVE  FALSE
    BY <1>1, <2>0, <2>3 DEF EndDiscovery, Discovery
  <2>4. CASE DrainDiscovery
    BY <1>1, <2>0, <2>4 DEF DrainDiscovery, Discovery
  <2>5. CASE FinishDiscovery
    BY <1>1, <2>0, <2>5 DEF FinishDiscovery, Over, Places
  <2>6. ASSUME NEW e \in DiscSlot, ScheduleDiscovery(e)
        PROVE  FALSE
    <3>1. discJob' = [discJob EXCEPT ![e] = [NoDiscovery EXCEPT !.status = "running",
                                                !.generation = generation[Cur]]]
      BY <2>6 DEF ScheduleDiscovery
    <3>2. \A g : [NoDiscovery EXCEPT !.status = "running", !.generation = g].status = "running"
      BY DEF NoDiscovery
    <3> QED  BY <1>1, <2>0, <3>1, <3>2
  <2>7. \/ discJob' = discJob \/ DrainDiscovery \/ FinishDiscovery
        \/ \E e \in DiscSlot : \/ EndDiscovery(e) \/ ScheduleDiscovery(e)
                                \/ \E a \in Address : Publish(e, a)
    BY <1>1
       DEF Next, Handler, Stop, Start, Worker, EndConnection, Tick, StartTick,
           CollectStage, AskDiscovery, EndCollectDiscovery, DiscardConnection,
           FailConnection, AdoptConnection, EndCollectConnections, TorrentStage,
           FinishTorrent, VisitTorrent, EndTick, SkipDiscovery, DropPeer, DeliverPiece,
           FailTorrent, EndPeers, SkipCandidate, Connect, CannotConnect, EndConnect,
           Clock, CoolDown
  <2> QED  BY <2>1, <2>2, <2>3, <2>4, <2>5, <2>6, <2>7
<1>2. ConnInv /\ [Next]_vars =>
        [\A d \in DiscSlot :
           discJob[d].status # "empty" /\ discJob'[d].status = "empty" =>
             discJob[d].status = "done" /\ discJob[d].queue = <<>>]_vars
  BY <1>1
<1> QED  BY <1>2, ConnInvHolds, PTL DEF Spec, FreedJobsAreOver
=============================================================================
