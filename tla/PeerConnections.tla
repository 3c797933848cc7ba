--------------------------- MODULE PeerConnections ---------------------------
(***************************************************************************)
(* Where the peers of TorrentEngine come from (torrent_mgr.c): discovery    *)
(* workers ask the trackers and publish addresses into a queue they share   *)
(* with the main thread, the main thread moves them to the torrent's cache  *)
(* of candidates, and connection workers turn candidates into sockets.      *)
(*                                                                          *)
(* Both kinds of worker know their torrent by its generation only.  The     *)
(* main thread visits its stages in the order of torrent_mgr_tick; what a   *)
(* connected peer does is left to TorrentEngine and shows here as a peer    *)
(* that delivers, leaves, or takes its torrent down with it.                *)
(*                                                                          *)
(* Abstractions.  Removing a torrent and adding it again is a stop: both    *)
(* empty the cache and change the generation.  Every start renews the       *)
(* generation; the code spares that for a torrent that never got as far as  *)
(* having pieces, whose generation no worker knows.                         *)
(* Clocks are left out: a pause ends at any time, and a tracker request may *)
(* be due at any visit.  A tracker that returns several addresses publishes *)
(* them one after the other.                                                *)
(***************************************************************************)
EXTENDS Candidates

CONSTANTS
  Torrent,        \* entries of torrents[]
  Slot,           \* entries of peers[] (MAX_PEERS_PER_TORRENT)
  DiscSlot,       \* entries of discovery_jobs[]
  ConnSlot,       \* entries of peer_connect_jobs[]
  Socket,         \* file descriptors
  None,
  ConnParallel,   \* PEER_CONNECT_PARALLEL
  QueueLimit,     \* capacity of a discovery job's queue (MAX_TRACKER_PEERS)
  MaxGeneration   \* bound: generation numbers handed out

ASSUME ConnectionsAssumption ==
  /\ ConnParallel \in Nat /\ QueueLimit \in Nat /\ MaxGeneration \in Nat
  /\ IsFiniteSet(Torrent) /\ Cardinality(Torrent) <= MaxGeneration
  /\ IsFiniteSet(Slot) /\ IsFiniteSet(ConnSlot)
  /\ None \notin Torrent \cup Address \cup Socket \cup DiscSlot

VARIABLES
  main,            \* where the main thread is
  state,           \* TORRENT_* of each torrent
  generation,
  nextGeneration,  \* next_generation
  cache,           \* peer_candidates[] of each torrent
  nextCandidate,   \* next_candidate: where the round continues
  peer,            \* peers[] of each torrent
  discJob,         \* discovery_jobs[]
  connJob,         \* peer_connect_jobs[]
  open             \* the sockets that are open

vars == <<main, state, generation, nextGeneration, cache, nextCandidate, peer,
          discJob, connJob, open>>

lifeVars == <<state, generation, nextGeneration>>
cacheVars == <<cache, nextCandidate>>
peerVars == <<peer, open>>

-----------------------------------------------------------------------------
(* State.                                                                   *)

State == {"stopped", "downloading", "done", "error"}

Stage == {"http", "disc", "drain", "finish", "conn", "torrents", "announce",
          "peers", "connect"}

Main == [at : Stage,
         jobs : SUBSET DiscSlot,        \* discovery jobs yet to be looked at
         job : DiscSlot \cup {None},    \* the one looked at
         done : BOOLEAN,                \* its worker was done when asked
         todo : SUBSET Torrent,         \* torrents yet to be visited
         cur : Torrent \cup {None},
         checked : 0 .. MaxCandidates]  \* candidates looked at in this visit

Idle == [at |-> "http", jobs |-> {}, job |-> None, done |-> FALSE,
         todo |-> {}, cur |-> None, checked |-> 0]

Peer == [addr : Address \cup {None}, sock : Socket \cup {None}]
Closed == [addr |-> None, sock |-> None]

Discovery == [status : {"empty", "running", "done"},
              generation : 0 .. MaxGeneration,
              queue : BoundedSeq(Address, QueueLimit)]
NoDiscovery == [status |-> "empty", generation |-> 0, queue |-> <<>>]

Connection == [status : {"empty", "running", "done"},
               generation : 0 .. MaxGeneration,
               addr : Address \cup {None},
               sock : Socket \cup {None}]
NoConnection == [status |-> "empty", generation |-> 0, addr |-> None,
                 sock |-> None]

Init ==
  /\ main = Idle
  /\ state = [t \in Torrent |-> "stopped"]
  /\ generation \in {g \in [Torrent -> 1 .. Cardinality(Torrent)] :
                       \A t, u \in Torrent : g[t] = g[u] => t = u}
  /\ nextGeneration = Cardinality(Torrent) + 1
  /\ cache = [t \in Torrent |-> <<>>]
  /\ nextCandidate = [t \in Torrent |-> 0]
  /\ peer = [t \in Torrent |-> [p \in Slot |-> Closed]]
  /\ discJob = [d \in DiscSlot |-> NoDiscovery]
  /\ connJob = [j \in ConnSlot |-> NoConnection]
  /\ open = {}

-----------------------------------------------------------------------------
(* Helpers.                                                                 *)

Downloading(t) == state[t] = "downloading"

(* The torrents a worker's results may still go to.  Mutated: whatever the  *)
(* generation.                                                              *)
LiveAnyGeneration(g) == {t \in Torrent : Downloading(t)}
Live(g) == {t \in Torrent : Downloading(t) /\ generation[t] = g}

Connected(t) == {p \in Slot : peer[t][p].sock # None}

Endpoints(t) == {peer[t][p].addr : p \in Connected(t)}

SocketsOf(t, P) == {peer[t][p].sock : p \in P} \ {None}

(* disconnect_peer for the peers in P: sockets are closed.                  *)
Close(t, P) ==
  /\ peer' = [peer EXCEPT ![t] =
                [p \in Slot |-> IF p \in P THEN Closed ELSE @[p]]]
  /\ open' = open \ SocketsOf(t, P)

(* The cache once every address of S has failed.                            *)
AllFailed(c, S) ==
  [i \in DOMAIN c |-> IF c[i].addr \in S THEN WithFailure(c, c[i].addr)[i]
                                         ELSE c[i]]

(* The connection attempts of torrent t, finished or not.                   *)
Pending(t) ==
  {j \in ConnSlot : connJob[j].status # "empty"
                    /\ connJob[j].generation = generation[t]}

-----------------------------------------------------------------------------
(* The HTTP handlers.                                                       *)

(* torrent_mgr_stop, up to the new state: peers are closed, the cache is     *)
(* emptied, and the workers of the torrent go on for nobody.                *)
Renew(t) ==
  /\ nextGeneration <= MaxGeneration
  /\ generation' = [generation EXCEPT ![t] = nextGeneration]
  /\ nextGeneration' = nextGeneration + 1
  /\ Close(t, Slot)
  /\ cache' = [cache EXCEPT ![t] = <<>>]
  /\ nextCandidate' = [nextCandidate EXCEPT ![t] = 0]

(* torrent_mgr_start stops what an earlier run left, and may fail.          *)
Start(t, next) ==
  /\ main.at = "http" /\ state[t] \in {"stopped", "error"}
  /\ state' = [state EXCEPT ![t] = next]
  /\ Renew(t)
  /\ UNCHANGED <<main, discJob, connJob>>

(* torrent_mgr_stop, and torrent_mgr_remove followed by an addition.        *)
Stop(t) ==
  /\ main.at = "http"
  /\ state' = [state EXCEPT ![t] = "stopped"]
  /\ Renew(t)
  /\ UNCHANGED <<main, discJob, connJob>>

StartTick ==
  /\ main.at = "http"
  /\ main' = [main EXCEPT !.at = "disc",
                          !.jobs = {d \in DiscSlot :
                                      discJob[d].status # "empty"}]
  /\ UNCHANGED <<lifeVars, cacheVars, peerVars, discJob, connJob>>

-----------------------------------------------------------------------------
(* Discovery: the worker, and collect_discovery.                            *)

(* An address is queued, unless it is already there or the queue is full.   *)
(* Mutated: full or not.                                                    *)
TakesAny(queue, a) == ~Contains(queue, a)
Takes(queue, a) == ~Contains(queue, a) /\ Len(queue) < QueueLimit

(* publish_candidates.                                                      *)
Publish(d, a) ==
  /\ discJob[d].status = "running"
  /\ discJob' = [discJob EXCEPT ![d].queue =
                   IF Takes(@, a) THEN Append(@, a) ELSE @]
  /\ UNCHANGED <<main, lifeVars, cacheVars, peerVars, connJob>>

(* The worker has asked its last tracker.                                   *)
EndDiscovery(d) ==
  /\ discJob[d].status = "running"
  /\ discJob' = [discJob EXCEPT ![d].status = "done"]
  /\ UNCHANGED <<main, lifeVars, cacheVars, peerVars, connJob>>

(* collect_discovery asks whether the worker is done ...                    *)
AskDiscovery(d) ==
  /\ main.at = "disc" /\ d \in main.jobs
  /\ main' = [main EXCEPT !.at = "drain", !.jobs = @ \ {d}, !.job = d,
                          !.done = discJob[d].status = "done"]
  /\ UNCHANGED <<lifeVars, cacheVars, peerVars, discJob, connJob>>

(* ... then takes what is in the queue, holding its mutex ...               *)
DrainDiscovery ==
  LET job == discJob[main.job]
  IN /\ main.at = "drain"
     /\ main' = [main EXCEPT !.at = "finish"]
     /\ cache' = [t \in Torrent |->
                    IF t \in Live(job.generation)
                      THEN AddAll(cache[t], Endpoints(t), job.queue)
                      ELSE cache[t]]
     /\ discJob' = [discJob EXCEPT ![main.job].queue = <<>>]
     /\ UNCHANGED <<lifeVars, nextCandidate, peerVars, connJob>>

(* The job may be freed.  Mutated: asked again, or only if it is of use.    *)
OverNow == discJob[main.job].status = "done"
OverIfLive == main.done /\ Live(discJob[main.job].generation) # {}
Over == main.done

(* ... and frees the job, if it was done before its queue was emptied.      *)
FinishDiscovery ==
  /\ main.at = "finish"
  /\ main' = [main EXCEPT !.at = "disc", !.job = None, !.done = FALSE]
  /\ discJob' = IF Over THEN [discJob EXCEPT ![main.job] = NoDiscovery]
                        ELSE discJob
  /\ UNCHANGED <<lifeVars, cacheVars, peerVars, connJob>>

EndCollectDiscovery ==
  /\ main.at = "disc" /\ main.jobs = {}
  /\ main' = [main EXCEPT !.at = "conn"]
  /\ UNCHANGED <<lifeVars, cacheVars, peerVars, discJob, connJob>>

-----------------------------------------------------------------------------
(* Connections: the worker, and collect_peer_connections.                   *)

(* connect_candidate: connected and shaken hands, with socket s, or failed, *)
(* having closed what it opened.                                            *)
EndConnection(j, s) ==
  /\ connJob[j].status = "running"
  /\ s \notin open
  /\ connJob' = [connJob EXCEPT ![j].status = "done", ![j].sock = s]
  /\ open' = open \cup ({s} \ {None})
  /\ UNCHANGED <<main, lifeVars, cacheVars, peer, discJob>>

(* An attempt to be collected.  Mutated: only if it is of use to a torrent. *)
FinishedIfLive(j) ==
  /\ main.at = "conn" /\ connJob[j].status = "done"
  /\ Live(connJob[j].generation) # {}
Finished(j) == main.at = "conn" /\ connJob[j].status = "done"

(* What becomes of the socket of a job that nobody takes over.  Mutated: it *)
(* is forgotten.                                                            *)
ForgottenSocket(j) == {}
RefusedSocket(j) == {connJob[j].sock} \ {None}

(* The attempt of address a is over.  Mutated: its mark stays.              *)
StillConnecting(c, a) == c
NotConnecting(c, a) == Updated(c, a, LAMBDA x : [x EXCEPT !.connecting = FALSE])

(* A downloading torrent that would have no use for the socket of job j.    *)
HasNoPlace(t, j) ==
  /\ connJob[j].sock # None
  /\ connJob[j].addr \in Endpoints(t) \/ Connected(t) = Slot

(* Nobody waits for the connection any more, or nobody has a place for it.  *)
DiscardConnection(j) ==
  LET live == Live(connJob[j].generation)
  IN /\ Finished(j) /\ \A t \in live : HasNoPlace(t, j)
     /\ open' = open \ RefusedSocket(j)
     /\ cache' = [t \in Torrent |->
                    IF t \in live THEN NotConnecting(cache[t], connJob[j].addr)
                                  ELSE cache[t]]
     /\ connJob' = [connJob EXCEPT ![j] = NoConnection]
     /\ UNCHANGED <<main, lifeVars, nextCandidate, peer, discJob>>

FailConnection(j, t) ==
  LET a == connJob[j].addr
  IN /\ Finished(j) /\ t \in Live(connJob[j].generation)
     /\ connJob[j].sock = None
     /\ cache' = [cache EXCEPT ![t] = WithFailure(NotConnecting(@, a), a)]
     /\ connJob' = [connJob EXCEPT ![j] = NoConnection]
     /\ UNCHANGED <<main, lifeVars, nextCandidate, peerVars, discJob>>

(* The socket goes to a free entry of peers[].                              *)
AdoptConnection(j, t, p) ==
  LET a == connJob[j].addr
  IN /\ Finished(j) /\ t \in Live(connJob[j].generation)
     /\ connJob[j].sock # None
     /\ a \notin Endpoints(t) /\ p \in Slot \ Connected(t)
     /\ cache' = [cache EXCEPT ![t] = NotConnecting(@, a)]
     /\ peer' = [peer EXCEPT ![t][p] = [addr |-> a, sock |-> connJob[j].sock]]
     /\ connJob' = [connJob EXCEPT ![j] = NoConnection]
     /\ UNCHANGED <<main, lifeVars, nextCandidate, open, discJob>>

(* All its finished jobs collected, the tick turns to the torrents.         *)
EndCollectConnections ==
  /\ main.at = "conn" /\ \A j \in ConnSlot : ~Finished(j)
  /\ main' = [main EXCEPT !.at = "torrents",
                          !.todo = {t \in Torrent : Downloading(t)}]
  /\ UNCHANGED <<lifeVars, cacheVars, peerVars, discJob, connJob>>

-----------------------------------------------------------------------------
(* The loop over the torrents.                                              *)

(* The download is complete: all peers are dropped, still as failures.      *)
FinishTorrent(t) ==
  /\ main.at = "torrents" /\ t \in main.todo
  /\ main' = [main EXCEPT !.todo = @ \ {t}]
  /\ state' = [state EXCEPT ![t] = "done"]
  /\ cache' = [cache EXCEPT ![t] = AllFailed(@, Endpoints(t))]
  /\ Close(t, Slot)
  /\ UNCHANGED <<generation, nextGeneration, nextCandidate, discJob, connJob>>

VisitTorrent(t) ==
  /\ main.at = "torrents" /\ t \in main.todo
  /\ main' = [main EXCEPT !.at = "announce", !.todo = @ \ {t}, !.cur = t]
  /\ UNCHANGED <<lifeVars, cacheVars, peerVars, discJob, connJob>>

EndTick ==
  /\ main.at = "torrents" /\ main.todo = {}
  /\ main' = Idle
  /\ UNCHANGED <<lifeVars, cacheVars, peerVars, discJob, connJob>>

Cur == main.cur

(* schedule_discovery: one job at a time for a generation.                  *)
Discovering(t) ==
  \E d \in DiscSlot : /\ discJob[d].status # "empty"
                      /\ discJob[d].generation = generation[t]

ScheduleDiscovery(d) ==
  /\ main.at = "announce" /\ ~Discovering(Cur)
  /\ discJob[d].status = "empty"
  /\ main' = [main EXCEPT !.at = "peers"]
  /\ discJob' = [discJob EXCEPT
                   ![d] = [NoDiscovery EXCEPT !.status = "running",
                                              !.generation = generation[Cur]]]
  /\ UNCHANGED <<lifeVars, cacheVars, peerVars, connJob>>

(* Not due, under way, no free job, or no memory or thread for one.         *)
SkipDiscovery ==
  /\ main.at = "announce"
  /\ main' = [main EXCEPT !.at = "peers"]
  /\ UNCHANGED <<lifeVars, cacheVars, peerVars, discJob, connJob>>

(* process_peer drops a peer: that counts as a failure of its address.      *)
DropPeer(p) ==
  /\ main.at = "peers" /\ Downloading(Cur) /\ p \in Connected(Cur)
  /\ cache' = [cache EXCEPT ![Cur] = WithFailure(@, peer[Cur][p].addr)]
  /\ Close(Cur, {p})
  /\ UNCHANGED <<main, lifeVars, nextCandidate, discJob, connJob>>

(* A peer completes a piece.                                                *)
DeliverPiece(p) ==
  /\ main.at = "peers" /\ Downloading(Cur) /\ p \in Connected(Cur)
  /\ cache' = [cache EXCEPT ![Cur] = WithSuccess(@, peer[Cur][p].addr)]
  /\ UNCHANGED <<main, lifeVars, nextCandidate, peerVars, discJob, connJob>>

(* The torrent fails while a peer is processed: the peer whose piece cannot *)
(* be written is dropped, without a failure, one that would need too large  *)
(* a piece stays, and so do the others.                                     *)
FailTorrent(P) ==
  /\ main.at = "peers" /\ Downloading(Cur)
  /\ P \subseteq Connected(Cur) /\ Cardinality(P) <= 1
  /\ Connected(Cur) # {}
  /\ state' = [state EXCEPT ![Cur] = "error"]
  /\ Close(Cur, P)
  /\ UNCHANGED <<main, generation, nextGeneration, cacheVars, discJob, connJob>>

EndPeers ==
  /\ main.at = "peers"
  /\ main' = [main EXCEPT !.at = "connect"]
  /\ UNCHANGED <<lifeVars, cacheVars, peerVars, discJob, connJob>>

-----------------------------------------------------------------------------
(* schedule_peer_connections, one candidate per step.                       *)

(* There is room for the peer of one more attempt.  Mutated: the attempts   *)
(* under way are not counted.                                               *)
RoomAnyPending(t) == Cardinality(Connected(t)) < Cardinality(Slot)
Room(t) == Cardinality(Connected(t)) + Cardinality(Pending(t)) < Cardinality(Slot)

MayConnect ==
  /\ main.at = "connect"
  /\ main.checked < Len(cache[Cur])
  /\ Cardinality(Pending(Cur)) < ConnParallel
  /\ Room(Cur)

(* The candidate whose turn it is, and the turn after it.  Mutated: always  *)
(* from the first on.                                                       *)
TurnFromFirst == main.checked + 1
Turn == nextCandidate[Cur] + 1

NextTurn ==
  nextCandidate' =
    [nextCandidate EXCEPT ![Cur] = (@ + 1) % Len(cache[Cur])]

(* A candidate that may be tried now.                                       *)
Ready(t, c) == ~c.connecting /\ ~c.cooling /\ c.addr \notin Endpoints(t)

SkipCandidate ==
  /\ MayConnect /\ ~Ready(Cur, cache[Cur][Turn])
  /\ NextTurn
  /\ main' = [main EXCEPT !.checked = @ + 1]
  /\ UNCHANGED <<lifeVars, cache, peerVars, discJob, connJob>>

Connect(j) ==
  /\ MayConnect /\ Ready(Cur, cache[Cur][Turn])
  /\ connJob[j].status = "empty"
  /\ NextTurn
  /\ main' = [main EXCEPT !.checked = @ + 1]
  /\ cache' = [cache EXCEPT ![Cur][Turn].connecting = TRUE]
  /\ connJob' = [connJob EXCEPT
                   ![j] = [NoConnection EXCEPT !.status = "running",
                                               !.generation = generation[Cur],
                                               !.addr = cache[Cur][Turn].addr]]
  /\ UNCHANGED <<lifeVars, peerVars, discJob>>

LeaveTorrent == main' = [main EXCEPT !.at = "torrents", !.cur = None, !.checked = 0]

(* No free job or no memory, or no thread, after which the candidate pauses.*)
CannotConnect(paused) ==
  /\ MayConnect /\ Ready(Cur, cache[Cur][Turn])
  /\ NextTurn
  /\ LeaveTorrent
  /\ cache' = IF paused THEN [cache EXCEPT ![Cur][Turn].cooling = TRUE]
                        ELSE cache
  /\ UNCHANGED <<lifeVars, peerVars, discJob, connJob>>

EndConnect ==
  /\ main.at = "connect" /\ ~MayConnect
  /\ LeaveTorrent
  /\ UNCHANGED <<lifeVars, cacheVars, peerVars, discJob, connJob>>

(* The pause of a candidate is over.                                        *)
CoolDown(t, i) ==
  /\ cache[t][i].cooling
  /\ cache' = [cache EXCEPT ![t][i].cooling = FALSE]
  /\ UNCHANGED <<main, lifeVars, nextCandidate, peerVars, discJob, connJob>>

-----------------------------------------------------------------------------
(* The system.                                                              *)

Handler ==
  \E t \in Torrent :
    Stop(t) \/ \E next \in {"downloading", "error"} : Start(t, next)

Worker ==
  \/ \E d \in DiscSlot : EndDiscovery(d) \/ \E a \in Address : Publish(d, a)
  \/ \E j \in ConnSlot, s \in Socket \cup {None} : EndConnection(j, s)

CollectStage ==
  \/ \E d \in DiscSlot : AskDiscovery(d)
  \/ DrainDiscovery \/ FinishDiscovery \/ EndCollectDiscovery
  \/ \E j \in ConnSlot :
       \/ DiscardConnection(j)
       \/ \E t \in Torrent : \/ FailConnection(j, t)
                             \/ \E p \in Slot : AdoptConnection(j, t, p)
  \/ EndCollectConnections

TorrentStage ==
  \/ \E t \in Torrent : FinishTorrent(t) \/ VisitTorrent(t)
  \/ EndTick
  \/ \E d \in DiscSlot : ScheduleDiscovery(d)
  \/ SkipDiscovery
  \/ \E p \in Slot : DropPeer(p) \/ DeliverPiece(p)
  \/ \E P \in SUBSET Slot : FailTorrent(P)
  \/ EndPeers
  \/ SkipCandidate
  \/ \E j \in ConnSlot : Connect(j)
  \/ \E paused \in BOOLEAN : CannotConnect(paused)
  \/ EndConnect

Tick == StartTick \/ CollectStage \/ TorrentStage

Clock == \E t \in Torrent : \E i \in DOMAIN cache[t] : CoolDown(t, i)

Next == Handler \/ Worker \/ Tick \/ Clock

Spec == Init /\ [][Next]_vars

(* The main loop keeps ticking and every worker ends: connections,          *)
(* handshakes and tracker requests all have timeouts.                       *)
Fairness ==
  /\ WF_vars(Tick)
  /\ \A d \in DiscSlot : WF_vars(EndDiscovery(d))
  /\ \A j \in ConnSlot : WF_vars(\E s \in Socket \cup {None} : EndConnection(j, s))

(* Memory and threads are not always short, and a due tracker request is    *)
(* due again until it is made.                                              *)
Served ==
  /\ SF_vars(\E d \in DiscSlot : ScheduleDiscovery(d))
  /\ \A a \in Address :
       SF_vars(\E j \in ConnSlot : Connect(j) /\ cache[Cur][Turn].addr = a)

LiveSpec == Spec /\ Fairness /\ Served

-----------------------------------------------------------------------------
(* Properties.                                                              *)

(* Every variable keeps its type.                                           *)
TypeOK ==
  /\ main \in Main
  /\ state \in [Torrent -> State]
  /\ generation \in [Torrent -> 1 .. MaxGeneration]
  /\ nextGeneration \in 1 .. MaxGeneration + 1
  /\ cache \in [Torrent -> Cache]
  /\ nextCandidate \in [Torrent -> 0 .. MaxCandidates]
  /\ peer \in [Torrent -> [Slot -> Peer]]
  /\ discJob \in [DiscSlot -> Discovery]
  /\ connJob \in [ConnSlot -> Connection]
  /\ open \subseteq Socket

(* The open sockets are those of the peers and those that finished attempts *)
(* hand over, each with one owner: none is leaked when a stale attempt      *)
(* succeeds, none is closed twice or used after it was closed.              *)
SocketOwners(s) ==
  {o \in Torrent \X Slot : peer[o[1]][o[2]].sock = s}
    \cup {<<"job", j>> : j \in {k \in ConnSlot : connJob[k].sock = s}}

SocketsOwned ==
  \A s \in Socket :
    Cardinality(SocketOwners(s)) = IF s \in open THEN 1 ELSE 0

(* While a torrent downloads, a candidate is marked as connecting exactly   *)
(* while an attempt of this run is under way for it.  A mark that outlives  *)
(* its attempt would keep the address from being tried ever again; a mark   *)
(* lost, here to an attempt of an earlier run, would let it be tried twice. *)
ConnectingHasJob ==
  \A t \in Torrent : Downloading(t) =>
    {cache[t][i].addr : i \in {k \in DOMAIN cache[t] : cache[t][k].connecting}}
      = {connJob[j].addr : j \in Pending(t)}

(* No address is in the cache twice, connected twice, tried twice at once,  *)
(* or tried while connected: "cache de enderecos sem duplicatas".           *)
EndpointsDistinct ==
  \A t \in Torrent : Downloading(t) =>
    /\ Cardinality(Known(cache[t])) = Len(cache[t])
    /\ Cardinality(Endpoints(t)) = Cardinality(Connected(t))
    /\ Cardinality({connJob[j].addr : j \in Pending(t)}) = Cardinality(Pending(t))
    /\ Endpoints(t) \cap {connJob[j].addr : j \in Pending(t)} = {}

(* The peers of a torrent and its attempts under way fit in peers[], so     *)
(* that a connection, once made, always finds a place.                      *)
AttemptsFit ==
  \A t \in Torrent : Downloading(t) =>
    Cardinality(Connected(t)) + Cardinality(Pending(t)) <= Cardinality(Slot)

(* A connected peer and an attempt under way keep their entry in the cache, *)
(* however many addresses the trackers send: otherwise their failure would  *)
(* be recorded nowhere and the address tried again without a pause.         *)
PeersAreKnown ==
  \A t \in Torrent : Downloading(t) =>
    Endpoints(t) \cup {connJob[j].addr : j \in Pending(t)} \subseteq Known(cache[t])

(* A discovery job is freed only once its worker will not touch it again,   *)
(* and with nothing left in its queue: no address found is lost.            *)
FreedJobsAreOver ==
  [][\A d \in DiscSlot :
       discJob[d].status # "empty" /\ discJob'[d].status = "empty" =>
         discJob[d].status = "done" /\ discJob[d].queue = <<>>]_vars

(* Whatever became of its torrent, a finished discovery or attempt gives    *)
(* its job back: workers of earlier runs never exhaust the jobs for good.   *)
JobsDrain ==
  /\ \A d \in DiscSlot : discJob[d].status = "done" ~> discJob[d].status = "empty"
  /\ \A j \in ConnSlot : connJob[j].status = "done" ~> connJob[j].status = "empty"

(* A downloading torrent gets a tracker request of its own, although those  *)
(* of its earlier runs may occupy the jobs.                                 *)
DiscoveryStarts ==
  \A t \in Torrent : Downloading(t) ~> Discovering(t) \/ ~Downloading(t)

(* The round of the candidates leaves nobody out: one that may be tried is, *)
(* unless it is evicted, or all places for peers are taken.                 *)
CandidatesTried ==
  \A t \in Torrent, a \in Address :
    (\E i \in DOMAIN cache[t] :
          cache[t][i].addr = a /\ Ready(t, cache[t][i]) /\ Downloading(t))
         ~> \/ ~Downloading(t) \/ a \notin Known(cache[t])
            \/ ~Room(t) \/ a \in Endpoints(t)
            \/ \E i \in DOMAIN cache[t] :
                 cache[t][i].addr = a /\ ~Ready(t, cache[t][i])
=============================================================================
