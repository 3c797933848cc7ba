---------------------------- MODULE TorrentEngine ----------------------------
(***************************************************************************)
(* The download engine of torrent_mgr.c: the life cycle of managed torrents *)
(* (add, start, stop, remove), the peers that assemble pieces block by      *)
(* block, the web seed workers that fetch batches of pieces, the memory     *)
(* they share and the files they write.                                     *)
(*                                                                          *)
(* Only the main thread touches torrents.  It alternates between the HTTP   *)
(* handlers, which call add, start, stop and remove, and torrent_mgr_tick,  *)
(* which goes through its stages in order; main.at is its program counter.  *)
(* Web seed workers run at any time and touch nothing but their own job: a  *)
(* job is tied to a torrent by the generation number it was created with,   *)
(* and stop gives the torrent a new one.                                    *)
(*                                                                          *)
(* Abstractions.  A torrent keeps one identity for its whole life (the code *)
(* shifts array entries on removal, between ticks).  All torrents have the  *)
(* same shape, and are single-file ones.  Clocks are left out: a peer may   *)
(* time out whenever it is visited.  How a peer connection comes about is   *)
(* PeerConnections; here an established one simply arrives.                 *)
(***************************************************************************)
EXTENDS Pieces

CONSTANTS
  Torrent,        \* entries of torrents[] (MAX_TORRENTS)
  File,           \* paths of downloaded files
  Slot,           \* entries of a torrent's peers[] (MAX_PEERS_PER_TORRENT)
  WebSlot,        \* entries of web_seed_jobs[] (WEB_SEED_MAX_JOBS)
  None,           \* no torrent, slot, piece or file
  AssemblyLimit,  \* ASSEMBLY_LIMIT, bytes
  BlockSize,      \* PEER_BLOCK_SIZE, bytes
  EventBudget,    \* frames read from a peer per visit, 8 in the code
  WebParallel,    \* WEB_SEED_PARALLEL_PER_TORRENT
  WebBatch,       \* WEB_SEED_BATCH_PIECES
  MaxGeneration,  \* bound: generation numbers handed out
  AddOnce         \* TRUE: a file is added again only after its removal

ASSUME EngineAssumption ==
  /\ AssemblyLimit \in Nat /\ BlockSize \in Nat \ {0}
  /\ EventBudget \in Nat \ {0}
  /\ WebParallel \in Nat /\ WebBatch \in Nat \ {0}
  /\ MaxGeneration \in Nat
  /\ AddOnce \in BOOLEAN
  /\ IsFiniteSet(Torrent) /\ IsFiniteSet(Slot) /\ IsFiniteSet(WebSlot)
  /\ None \notin Torrent \cup File \cup Slot \cup Piece

VARIABLES
  main,            \* where the main thread is
  state,           \* TORRENT_* of each torrent, or "absent"
  generation,      \* the torrent's current generation
  nextGeneration,  \* next_generation
  prepared,        \* piece_mgr.pieces is allocated
  pieces,          \* piece map of each torrent
  numComplete,     \* piece_mgr.num_complete
  downloaded,      \* bytes verified and saved
  file,            \* the path a torrent writes
  peer,            \* peers[] of each torrent
  activePeers,     \* active_peers
  assembly,        \* assembly_bytes: bytes allocated for pieces in assembly
  webJob,          \* web_seed_jobs[]
  disk             \* what each file holds, piece by piece

vars == <<main, state, generation, nextGeneration, prepared, pieces,
          numComplete, downloaded, file, peer, activePeers, assembly, webJob,
          disk>>

lifeVars == <<generation, nextGeneration, prepared, file>>
peerVars == <<peer, activePeers, assembly>>
progressVars == <<pieces, numComplete, downloaded, disk>>

-----------------------------------------------------------------------------
(* State.                                                                   *)

State == {"absent", "stopped", "downloading", "done", "error"}

Stage == {"http", "web", "conn", "torrents", "peers", "recv", "request",
          "schedule"}

(* Ranges of the counters kept in records.                                  *)
Budget == 0 .. EventBudget
Received == 0 .. PieceLength
Pending == 0 .. BlockSize
Generation == 0 .. MaxGeneration

Main == [at : Stage,                      \* stage of the tick
         todo : SUBSET Torrent,           \* torrents the tick has yet to visit
         cur : Torrent \cup {None},       \* torrent being visited
         visit : SUBSET Slot,             \* its peers yet to be visited
         slot : Slot \cup {None},         \* peer being visited
         budget : Budget]                 \* frames it may still deliver

PeerRecord == [sock : BOOLEAN,            \* connected
               choked : BOOLEAN,
               bits : SUBSET Piece,       \* bitfield; {} when there is none
               piece : Piece \cup {None}, \* last_request when piece_data is set
               received : Received,
               pending : Pending,         \* length of the outstanding request
               intact : BOOLEAN]          \* the bytes received are the piece's

Job == [status : {"empty", "fetching", "done"},
        generation : Generation,
        batch : SUBSET Piece,
        ok : BOOLEAN,                     \* the worker obtained every byte
        good : SUBSET Piece]              \* pieces whose bytes match their hash

(* Of a piece's place in a file: nothing since the file was opened, the     *)
(* piece's own bytes, or others.                                            *)
Content == {"none", "good", "bad"}

Idle == [at |-> "http", todo |-> {}, cur |-> None, visit |-> {},
         slot |-> None, budget |-> 0]

(* A slot of peers[] with sock = -1.                                        *)
Closed == [sock |-> FALSE, choked |-> TRUE, bits |-> {}, piece |-> None,
           received |-> 0, pending |-> 0, intact |-> TRUE]

NoJob == [status |-> "empty", generation |-> 0, batch |-> {}, ok |-> FALSE,
          good |-> {}]

EmptyFile == [i \in Piece |-> "none"]

Init ==
  /\ main = Idle
  /\ state = [t \in Torrent |-> "absent"]
  /\ generation = [t \in Torrent |-> 0]
  /\ nextGeneration = 1
  /\ prepared = [t \in Torrent |-> FALSE]
  /\ pieces = [t \in Torrent |-> AllFree]
  /\ numComplete = [t \in Torrent |-> 0]
  /\ downloaded = [t \in Torrent |-> 0]
  /\ file = [t \in Torrent |-> None]
  /\ peer = [t \in Torrent |-> [p \in Slot |-> Closed]]
  /\ activePeers = [t \in Torrent |-> 0]
  /\ assembly = 0
  /\ webJob = [s \in WebSlot |-> NoJob]
  /\ disk = [f \in File |-> EmptyFile]

-----------------------------------------------------------------------------
(* Helpers.                                                                 *)

Downloading(t) == state[t] = "downloading"

Connected(t) == {p \in Slot : peer[t][p].sock}

(* The pieces being assembled by the peers in P of torrent t, which         *)
(* release_piece gives back.  Mutated: they are not given back.             *)
HeldByNobody(t, P) == {}
HeldBy(t, P) == {peer[t][p].piece : p \in P} \ {None}

(* The bytes of the assembly buffers (piece_data) of those peers, each      *)
(* named by its peer and its position.                                      *)
Buffers(t, P) ==
  {b \in ({t} \X P) \X (1 .. PieceLength) :
     LET i == peer[t][b[1][2]].piece IN i # None /\ b[2] <= PieceSize(i)}

(* How many of the peers in P leave active_peers: those with a socket.      *)
(* Mutated: disconnect_peer counts without looking at the socket.           *)
LeavingCountsClosed(t, P) == Cardinality(P)
Leaving(t, P) == Cardinality(Connected(t) \cap P)

(* The part of disconnect_peer and release_piece, for every peer in P of t, *)
(* that does not concern the piece map.                                     *)
CloseSockets(t, P) ==
  /\ peer' = [peer EXCEPT ![t] =
                [p \in Slot |-> IF p \in P THEN Closed ELSE peer[t][p]]]
  /\ activePeers' = [activePeers EXCEPT ![t] = @ - Leaving(t, P)]
  /\ assembly' = assembly - Cardinality(Buffers(t, P))

(* disconnect_peer for every peer in P: sockets are closed, and the piece   *)
(* each one was assembling is free again.                                   *)
Disconnect(t, P) ==
  /\ CloseSockets(t, P)
  /\ pieces' = [pieces EXCEPT ![t] = Freed(@, HeldBy(t, P))]

(* The same for all peers of a torrent that is stopped, whose active_peers  *)
(* is then set to 0.                                                        *)
CloseAll(t) ==
  /\ peer' = [peer EXCEPT ![t] = [p \in Slot |-> Closed]]
  /\ activePeers' = [activePeers EXCEPT ![t] = 0]
  /\ assembly' = assembly - Cardinality(Buffers(t, Slot))

(* The generation a torrent has once it is stopped.  Mutated: the old one.  *)
UnstoppedGeneration(t) == generation[t]
StoppedGeneration(t) == nextGeneration

(* The torrents a finished job may still act on: the one of its generation, *)
(* if it is downloading.  Mutated: one of the two conditions is forgotten.  *)
LiveAnyState(g) == {t \in Torrent : generation[t] = g}
LiveAnyGeneration(g) == {t \in Torrent : Downloading(t)}
Live(g) == {t \in Torrent : Downloading(t) /\ generation[t] = g}

-----------------------------------------------------------------------------
(* The HTTP handlers' calls: torrent_mgr_add, start, stop, remove.          *)

Add(t, f) ==
  /\ main.at = "http" /\ state[t] = "absent"
  /\ nextGeneration < MaxGeneration
  /\ AddOnce => \A u \in Torrent : file[u] # f
  /\ state' = [state EXCEPT ![t] = "stopped"]
  /\ file' = [file EXCEPT ![t] = f]
  /\ generation' = [generation EXCEPT ![t] = nextGeneration]
  /\ nextGeneration' = nextGeneration + 1
  /\ UNCHANGED <<main, prepared, progressVars, peerVars, webJob>>

(* torrent_mgr_start from STOPPED or ERROR; in any other state it changes   *)
(* nothing.  A run that got as far as allocating its pieces is stopped and  *)
(* destroyed first.  outcome says how far the new one gets: "early" fails   *)
(* before the pieces are allocated (directory, magnet link, memory), "file" *)
(* when the file cannot be opened, and opening it truncates it.             *)
Start(t, outcome) ==
  /\ main.at = "http" /\ state[t] \in {"stopped", "error"}
  /\ IF prepared[t]
       THEN /\ nextGeneration < MaxGeneration
            /\ CloseAll(t)
            /\ generation' = [generation EXCEPT ![t] = StoppedGeneration(t)]
            /\ nextGeneration' = nextGeneration + 1
       ELSE UNCHANGED <<peer, activePeers, assembly, generation,
                        nextGeneration>>
  /\ state' = [state EXCEPT
                 ![t] = IF outcome = "ok" THEN "downloading" ELSE "error"]
  /\ prepared' = [prepared EXCEPT ![t] = outcome # "early"]
  /\ pieces' = [pieces EXCEPT ![t] = AllFree]
  /\ numComplete' = [numComplete EXCEPT ![t] = 0]
  /\ downloaded' = [downloaded EXCEPT ![t] = 0]
  /\ disk' = IF outcome = "ok" THEN [disk EXCEPT ![file[t]] = EmptyFile]
                               ELSE disk
  /\ UNCHANGED <<main, file, webJob>>

Stop(t) ==
  /\ main.at = "http" /\ state[t] # "absent"
  /\ nextGeneration < MaxGeneration
  /\ state' = [state EXCEPT ![t] = "stopped"]
  /\ generation' = [generation EXCEPT ![t] = StoppedGeneration(t)]
  /\ nextGeneration' = nextGeneration + 1
  /\ CloseAll(t)
  /\ pieces' = [pieces EXCEPT ![t] = Freed(@, HeldBy(t, Slot))]
  /\ UNCHANGED <<main, prepared, numComplete, downloaded, file, webJob, disk>>

(* torrent_mgr_remove: stop, then everything about the torrent is cleared.  *)
Remove(t) ==
  /\ main.at = "http" /\ state[t] # "absent"
  /\ nextGeneration < MaxGeneration
  /\ CloseAll(t)
  /\ nextGeneration' = nextGeneration + 1
  /\ state' = [state EXCEPT ![t] = "absent"]
  /\ generation' = [generation EXCEPT ![t] = 0]
  /\ prepared' = [prepared EXCEPT ![t] = FALSE]
  /\ pieces' = [pieces EXCEPT ![t] = AllFree]
  /\ numComplete' = [numComplete EXCEPT ![t] = 0]
  /\ downloaded' = [downloaded EXCEPT ![t] = 0]
  /\ file' = [file EXCEPT ![t] = None]
  /\ UNCHANGED <<main, webJob, disk>>

StartTick ==
  /\ main.at = "http"
  /\ main' = [main EXCEPT !.at = "web"]
  /\ UNCHANGED <<state, lifeVars, peerVars, progressVars, webJob>>

-----------------------------------------------------------------------------
(* Web seeds: the worker, and collect_web_seed.                             *)

(* fetch_web_seed_piece: the worker of job s ends, at any time, with or     *)
(* without the bytes it was asked for; those of the pieces in good are      *)
(* right.                                                                   *)
FetchWebSeed(s, ok, good) ==
  /\ webJob[s].status = "fetching"
  /\ good \subseteq webJob[s].batch /\ (~ok => good = {})
  /\ webJob' = [webJob EXCEPT ![s] = [@ EXCEPT !.status = "done",
                                               !.ok = ok, !.good = good]]
  /\ UNCHANGED <<main, state, lifeVars, peerVars, progressVars>>

(* A finished job, to be collected at this stage.  Mutated: only if it is   *)
(* of use to a torrent.                                                     *)
CollectableIfLive(s) ==
  /\ main.at = "web" /\ webJob[s].status = "done"
  /\ Live(webJob[s].generation) # {}
Collectable(s) == main.at = "web" /\ webJob[s].status = "done"

FreeJob(s) == webJob' = [webJob EXCEPT ![s] = NoJob]

(* The torrent is gone, at rest, or of a later generation.                  *)
DiscardWebSeed(s) ==
  /\ Collectable(s) /\ Live(webJob[s].generation) = {}
  /\ FreeJob(s)
  /\ UNCHANGED <<main, state, lifeVars, peerVars, progressVars>>

FailWebSeed(s, t) ==
  /\ Collectable(s) /\ t \in Live(webJob[s].generation) /\ ~webJob[s].ok
  /\ pieces' = [pieces EXCEPT ![t] = Freed(@, webJob[s].batch)]
  /\ FreeJob(s)
  /\ UNCHANGED <<main, state, lifeVars, peerVars, numComplete, downloaded,
                 disk>>

(* The pieces of job s that are saved when fault is the first one that      *)
(* fails its hash or its write (None: no piece fails).                      *)
Saved(s, t, fault) ==
  {i \in webJob[s].batch \ CompleteIn(pieces[t]) : fault = None \/ i < fault}

(* The SHA-1 comparison of the pieces in S.  Mutated: it is skipped.        *)
VerifiesAnything(s, S) == TRUE
Verifies(s, S) == S \subseteq webJob[s].good

(* The pieces given back when fault is the first that failed: it and those  *)
(* after it.  Mutated: it alone.                                            *)
GivenBackFault(s, fault) == webJob[s].batch \cap {fault}
GivenBack(s, fault) == {i \in webJob[s].batch : fault # None /\ i >= fault}

(* A file after the writes of the pieces in saved, and, if the bytes of     *)
(* fault are right, a write of it that failed half-way.                     *)
AfterWrites(content, saved, fault, good) ==
  [i \in Piece |-> CASE i \in saved \cap good -> "good"
                     [] i \in saved \ good -> "bad"
                     [] i = fault /\ i \in good -> "bad"
                     [] OTHER -> content[i]]

(* Pieces are verified and written in order until one fails.                *)
CollectWebSeed(s, t, fault) ==
  /\ Collectable(s) /\ t \in Live(webJob[s].generation) /\ webJob[s].ok
  /\ fault = None \/ fault \in webJob[s].batch \ CompleteIn(pieces[t])
  /\ LET saved == Saved(s, t, fault)
     IN /\ Verifies(s, saved)
        /\ pieces' = [pieces EXCEPT
                        ![t] = Freed(Completed(@, saved), GivenBack(s, fault))]
        /\ numComplete' = [numComplete EXCEPT ![t] = @ + Cardinality(saved)]
        /\ downloaded' =
             [downloaded EXCEPT ![t] = @ + Cardinality(BytesOf(saved))]
        /\ disk' = [disk EXCEPT ![file[t]] =
                      AfterWrites(@, saved, fault, webJob[s].good)]
  /\ FreeJob(s)
  /\ UNCHANGED <<main, state, lifeVars, peerVars>>

(* Every finished job has been collected.                                   *)
EndCollectWebSeed ==
  /\ main.at = "web" /\ \A s \in WebSlot : ~Collectable(s)
  /\ main' = [main EXCEPT !.at = "conn"]
  /\ UNCHANGED <<state, lifeVars, peerVars, progressVars, webJob>>

-----------------------------------------------------------------------------
(* The stage where new connections are taken over, and the loop over the    *)
(* torrents.                                                                *)

(* A connection made for t takes a free entry of its peers[].               *)
AdoptPeer(t, p) ==
  /\ main.at = "conn" /\ Downloading(t) /\ ~peer[t][p].sock
  /\ peer' = [peer EXCEPT ![t][p] = [Closed EXCEPT !.sock = TRUE]]
  /\ activePeers' = [activePeers EXCEPT ![t] = @ + 1]
  /\ UNCHANGED <<main, state, lifeVars, assembly, progressVars, webJob>>

EndCollectPeers ==
  /\ main.at = "conn"
  /\ main' = [main EXCEPT !.at = "torrents",
                          !.todo = {t \in Torrent : Downloading(t)}]
  /\ UNCHANGED <<state, lifeVars, peerVars, progressVars, webJob>>

(* A finished download: peers are closed, the file too.                     *)
FinishTorrent(t) ==
  /\ main.at = "torrents" /\ t \in main.todo /\ IsDone(numComplete[t])
  /\ main' = [main EXCEPT !.todo = @ \ {t}]
  /\ state' = [state EXCEPT ![t] = "done"]
  /\ Disconnect(t, Slot)
  /\ UNCHANGED <<lifeVars, numComplete, downloaded, webJob, disk>>

VisitTorrent(t) ==
  /\ main.at = "torrents" /\ t \in main.todo /\ ~IsDone(numComplete[t])
  /\ main' = [main EXCEPT !.at = "peers", !.todo = @ \ {t}, !.cur = t,
                          !.visit = Connected(t)]
  /\ UNCHANGED <<state, lifeVars, peerVars, progressVars, webJob>>

EndTick ==
  /\ main.at = "torrents" /\ main.todo = {}
  /\ main' = Idle
  /\ UNCHANGED <<state, lifeVars, peerVars, progressVars, webJob>>

-----------------------------------------------------------------------------
(* process_peer, for peer main.slot of torrent main.cur.                    *)

Cur == main.cur
Now == peer[main.cur][main.slot]

BackToPeers == main' = [main EXCEPT !.at = "peers", !.slot = None, !.budget = 0]

SetPeer(record) ==
  peer' = [peer EXCEPT ![main.cur] = [@ EXCEPT ![main.slot] = record]]

(* The peer is dropped: choked too long, request or connection timed out.   *)
TimeOutPeer(p) ==
  /\ main.at = "peers" /\ p \in main.visit /\ Downloading(Cur)
  /\ main' = [main EXCEPT !.visit = @ \ {p}]
  /\ Disconnect(Cur, {p})
  /\ UNCHANGED <<state, lifeVars, numComplete, downloaded, webJob, disk>>

VisitPeer(p) ==
  /\ main.at = "peers" /\ p \in main.visit /\ Downloading(Cur)
  /\ main' = [main EXCEPT !.at = "recv", !.visit = @ \ {p}, !.slot = p,
                          !.budget = EventBudget]
  /\ UNCHANGED <<state, lifeVars, peerVars, progressVars, webJob>>

(* All peers visited, or the torrent is in error: process_peer returns at   *)
(* once for those left.                                                     *)
EndPeers ==
  /\ main.at = "peers" /\ (main.visit = {} \/ ~Downloading(Cur))
  /\ main' = [main EXCEPT !.at = "schedule", !.visit = {}]
  /\ UNCHANGED <<state, lifeVars, peerVars, progressVars, webJob>>

(* Reading one frame takes one unit of the budget.  Mutated: it does not.   *)
ReceiveForever ==
  /\ main.at = "recv" /\ main.budget > 0
  /\ UNCHANGED main
Receive ==
  /\ main.at = "recv" /\ main.budget > 0
  /\ main' = [main EXCEPT !.budget = @ - 1]

(* Mutated: choking gives up what was received of the piece.                *)
RecvChokeForgets ==
  /\ Receive
  /\ SetPeer([Now EXCEPT !.choked = TRUE, !.pending = 0, !.received = 0])
  /\ UNCHANGED <<state, lifeVars, activePeers, assembly, progressVars, webJob>>
RecvChoke ==
  /\ Receive
  /\ SetPeer([Now EXCEPT !.choked = TRUE, !.pending = 0])
  /\ UNCHANGED <<state, lifeVars, activePeers, assembly, progressVars, webJob>>

RecvUnchoke ==
  /\ Receive
  /\ SetPeer([Now EXCEPT !.choked = FALSE])
  /\ UNCHANGED <<state, lifeVars, activePeers, assembly, progressVars, webJob>>

(* BITFIELD replaces the peer's pieces.                                     *)
RecvBitfield(bits) ==
  /\ Receive
  /\ SetPeer([Now EXCEPT !.bits = bits])
  /\ UNCHANGED <<state, lifeVars, activePeers, assembly, progressVars, webJob>>

(* HAVE adds one.                                                           *)
RecvHave(i) ==
  /\ Receive
  /\ SetPeer([Now EXCEPT !.bits = @ \cup {i}])
  /\ UNCHANGED <<state, lifeVars, activePeers, assembly, progressVars, webJob>>

(* Frames that only count as activity, and blocks that answer no            *)
(* outstanding request: nothing pending, another piece or another offset.   *)
RecvIgnored ==
  /\ Receive
  /\ UNCHANGED <<state, lifeVars, peerVars, progressVars, webJob>>

(* The connection failed, or the peer sent an invalid frame: a bad length,  *)
(* a piece out of range, a block of the wrong length.                       *)
RecvBad ==
  /\ main.at = "recv" /\ main.budget > 0
  /\ BackToPeers
  /\ Disconnect(Cur, {main.slot})
  /\ UNCHANGED <<state, lifeVars, numComplete, downloaded, webJob, disk>>

(* The outstanding block arrives, intact or not: [index, begin, length] are *)
(* those of the request.                                                    *)
Awaited == Now.piece # None /\ Now.pending > 0

ReceivedAfter == Now.received + Now.pending

RecvBlock(intact) ==
  /\ Receive /\ Awaited
  /\ ReceivedAfter < PieceSize(Now.piece)
  /\ SetPeer([Now EXCEPT !.received = ReceivedAfter, !.pending = 0,
                         !.intact = @ /\ intact])
  /\ UNCHANGED <<state, lifeVars, activePeers, assembly, progressVars, webJob>>

LastBlock ==
  /\ main.at = "recv" /\ main.budget > 0 /\ Awaited
  /\ ReceivedAfter = PieceSize(Now.piece)

(* The SHA-1 comparison of the assembled piece.  Mutated: it is skipped.    *)
AssembledAnything(intact) == TRUE
Assembled(intact) == Now.intact /\ intact

(* The last block completes a piece that fails its hash.                    *)
RecvCorruptPiece(intact) ==
  /\ LastBlock /\ ~Assembled(intact)
  /\ BackToPeers
  /\ Disconnect(Cur, {main.slot})
  /\ UNCHANGED <<state, lifeVars, numComplete, downloaded, webJob, disk>>

(* The piece is right and cannot be written: the torrent fails.             *)
RecvUnwritablePiece(intact) ==
  /\ LastBlock /\ Assembled(intact)
  /\ BackToPeers
  /\ state' = [state EXCEPT ![Cur] = "error"]
  /\ Disconnect(Cur, {main.slot})
  /\ disk' = [disk EXCEPT ![file[Cur]][Now.piece] = "bad"]
  /\ UNCHANGED <<lifeVars, numComplete, downloaded, webJob>>

(* The piece is right and written: it is complete, and its buffer freed.    *)
RecvPiece(intact) ==
  /\ LastBlock /\ Assembled(intact)
  /\ main' = [main EXCEPT !.budget = @ - 1]
  /\ pieces' = [pieces EXCEPT
                  ![Cur] = Freed(Completed(@, {Now.piece}), {Now.piece})]
  /\ numComplete' = [numComplete EXCEPT ![Cur] = @ + 1]
  /\ downloaded' = [downloaded EXCEPT ![Cur] = @ + PieceSize(Now.piece)]
  /\ disk' = [disk EXCEPT ![file[Cur]][Now.piece] =
                           IF Now.intact /\ intact THEN "good" ELSE "bad"]
  /\ assembly' = assembly - Cardinality(Buffers(Cur, {main.slot}))
  /\ SetPeer([Now EXCEPT !.piece = None, !.received = 0, !.pending = 0,
                         !.intact = TRUE])
  /\ UNCHANGED <<state, lifeVars, activePeers, webJob>>

(* No complete frame is waiting, or the budget is spent.                    *)
EndRecv ==
  /\ main.at = "recv"
  /\ main' = [main EXCEPT !.at = "request", !.budget = 0]
  /\ UNCHANGED <<state, lifeVars, peerVars, progressVars, webJob>>

(* The piece the scheduler of process_peer would give the peer next.        *)
Offered(i) ==
  /\ Now.piece = None
  /\ ~IsDone(numComplete[Cur])
  /\ IsNext(pieces[Cur], i, Now.bits)

(* The piece fits in what the other buffers leave of the limit.  Mutated:   *)
(* in the limit.                                                            *)
FitsAlone(i) == PieceSize(i) <= AssemblyLimit
Fits(i) == PieceSize(i) <= AssemblyLimit - assembly

MayRequest == main.at = "request" /\ ~Now.choked /\ Now.pending = 0

(* Length of the request for what follows the bytes received of piece i.    *)
(* Mutated: all that is left of it, or always a whole block.                *)
RequestLengthAll(i, received) == PieceSize(i) - received
RequestLengthBlock(i, received) == BlockSize
RequestLength(i, received) ==
  IF PieceSize(i) - received > BlockSize THEN BlockSize
                                         ELSE PieceSize(i) - received

(* Choked, waiting for a block, nothing to ask for, or no memory for it now.*)
RequestNothing ==
  /\ main.at = "request"
  /\ \/ Now.choked \/ Now.pending > 0
     \/ Now.piece = None /\ \A i \in Piece :
          Offered(i) => ~Fits(i) /\ PieceSize(i) <= AssemblyLimit
  /\ BackToPeers
  /\ UNCHANGED <<state, lifeVars, peerVars, progressVars, webJob>>

(* A piece that no peer could ever assemble: the torrent fails.             *)
RequestTooLarge(i) ==
  /\ MayRequest /\ Offered(i) /\ PieceSize(i) > AssemblyLimit
  /\ BackToPeers
  /\ state' = [state EXCEPT ![Cur] = "error"]
  /\ UNCHANGED <<lifeVars, peerVars, progressVars, webJob>>

(* A new piece: its buffer is allocated and its first block requested.      *)
RequestPiece(i) ==
  /\ MayRequest /\ Offered(i) /\ Fits(i)
  /\ BackToPeers
  /\ pieces' = [pieces EXCEPT ![Cur] = Requested(@, {i})]
  /\ assembly' = assembly + PieceSize(i)
  /\ SetPeer([Now EXCEPT !.piece = i, !.received = 0,
                         !.pending = RequestLength(i, 0)])
  /\ UNCHANGED <<state, lifeVars, activePeers, numComplete, downloaded, disk,
                 webJob>>

(* The next block of the piece in assembly, after a block or an unchoke.    *)
RequestBlock ==
  /\ MayRequest /\ Now.piece # None
  /\ BackToPeers
  /\ SetPeer([Now EXCEPT !.pending = RequestLength(Now.piece, Now.received)])
  /\ UNCHANGED <<state, lifeVars, activePeers, assembly, progressVars, webJob>>

(* The buffer cannot be allocated, or the request cannot be sent.           *)
RequestFails ==
  /\ MayRequest
  /\ Now.piece # None \/ \E i \in Piece : Offered(i) /\ Fits(i)
  /\ BackToPeers
  /\ Disconnect(Cur, {main.slot})
  /\ UNCHANGED <<state, lifeVars, numComplete, downloaded, webJob, disk>>

-----------------------------------------------------------------------------
(* schedule_web_seed, for torrent main.cur.                                 *)

(* The jobs whose torrent is t, finished or not.                            *)
JobsOf(t) ==
  {s \in WebSlot : webJob[s].status # "empty"
                   /\ webJob[s].generation = generation[t]}

(* The batch a new job would take: the first free piece and the free ones   *)
(* that follow it, up to WebBatch of them and AssemblyLimit bytes.          *)
(* Mutated: the pieces that follow, free or not.                            *)
BatchAny(t) ==
  {i \in Piece : \E first \in Piece :
     /\ IsNext(pieces[t], first, Piece)
     /\ i \in first .. first + WebBatch - 1
     /\ SpanSize(first, i) <= AssemblyLimit}
Batch(t) ==
  {i \in Piece : \E first \in Piece :
     /\ ~IsDone(numComplete[t]) /\ IsNext(pieces[t], first, Piece)
     /\ i \in first .. first + WebBatch - 1
     /\ first .. i \subseteq FreeIn(pieces[t])
     /\ SpanSize(first, i) <= AssemblyLimit}

ScheduleWebSeed(s) ==
  /\ main.at = "schedule" /\ webJob[s].status = "empty"
  /\ Cardinality(JobsOf(Cur)) < WebParallel
  /\ Batch(Cur) # {}
  /\ webJob' = [webJob EXCEPT ![s] =
                  [NoJob EXCEPT !.status = "fetching",
                                !.generation = generation[Cur],
                                !.batch = Batch(Cur)]]
  /\ pieces' = [pieces EXCEPT ![Cur] = Requested(@, Batch(Cur))]
  /\ UNCHANGED <<main, state, lifeVars, peerVars, numComplete, downloaded,
                 disk>>

(* Nothing more to schedule, or no memory or thread for it.                 *)
EndSchedule ==
  /\ main.at = "schedule"
  /\ main' = [main EXCEPT !.at = "torrents", !.cur = None]
  /\ UNCHANGED <<state, lifeVars, peerVars, progressVars, webJob>>

-----------------------------------------------------------------------------
(* The system.                                                              *)

Handler ==
  \E t \in Torrent :
     \/ \E f \in File : Add(t, f)
     \/ \E outcome \in {"early", "file", "ok"} : Start(t, outcome)
     \/ Stop(t)
     \/ Remove(t)

Worker ==
  \E s \in WebSlot, ok \in BOOLEAN :
     \E good \in SUBSET webJob[s].batch : FetchWebSeed(s, ok, good)

CollectStage ==
  \/ \E s \in WebSlot :
       \/ DiscardWebSeed(s)
       \/ \E t \in Torrent :
            \/ FailWebSeed(s, t)
            \/ \E fault \in Piece \cup {None} : CollectWebSeed(s, t, fault)
  \/ EndCollectWebSeed
  \/ \E t \in Torrent, p \in Slot : AdoptPeer(t, p)
  \/ EndCollectPeers

TorrentStage ==
  \/ \E t \in Torrent : FinishTorrent(t) \/ VisitTorrent(t)
  \/ EndTick
  \/ \E s \in WebSlot : ScheduleWebSeed(s)
  \/ EndSchedule

PeerStage ==
  \/ \E p \in Slot : TimeOutPeer(p) \/ VisitPeer(p)
  \/ EndPeers
  \/ RecvChoke \/ RecvUnchoke \/ RecvIgnored \/ RecvBad
  \/ \E bits \in SUBSET Piece : RecvBitfield(bits)
  \/ \E i \in Piece : RecvHave(i)
  \/ \E intact \in BOOLEAN :
       \/ RecvBlock(intact) \/ RecvCorruptPiece(intact)
       \/ RecvUnwritablePiece(intact) \/ RecvPiece(intact)
  \/ EndRecv
  \/ RequestNothing \/ RequestBlock \/ RequestFails
  \/ \E i \in Piece : RequestTooLarge(i) \/ RequestPiece(i)

Tick == StartTick \/ CollectStage \/ TorrentStage \/ PeerStage

Next == Handler \/ Worker \/ Tick

Spec == Init /\ [][Next]_vars

(* The main loop keeps ticking, and every web seed request ends: its        *)
(* sockets have timeouts.                                                   *)
Fairness ==
  /\ WF_vars(Tick)
  /\ \A s \in WebSlot :
       WF_vars(\E ok \in BOOLEAN, good \in SUBSET Piece :
                 FetchWebSeed(s, ok, good))

FairSpec == Spec /\ Fairness

(* What a download needs of the world to end: no peer holds on for ever     *)
(* (one that stalls is timed out sooner or later), a web seed answers       *)
(* rightly now and then, and writes and thread creation do not fail for     *)
(* ever.                                                                    *)
Seeded ==
  /\ \A p \in Slot : SF_vars(TimeOutPeer(p))
  /\ \A s \in WebSlot :
       /\ SF_vars(FetchWebSeed(s, TRUE, webJob[s].batch))
       /\ SF_vars(ScheduleWebSeed(s))
       /\ \A t \in Torrent : SF_vars(CollectWebSeed(s, t, None))

SeededSpec == FairSpec /\ Seeded

-----------------------------------------------------------------------------
(* Properties.                                                              *)

(* Every variable keeps its type.                                           *)
TypeOK ==
  /\ main \in Main
  /\ state \in [Torrent -> State]
  /\ generation \in [Torrent -> Generation]
  /\ nextGeneration \in 1 .. MaxGeneration + 1
  /\ prepared \in [Torrent -> BOOLEAN]
  /\ pieces \in [Torrent -> PieceMap]
  /\ numComplete \in [Torrent -> Nat]
  /\ downloaded \in [Torrent -> Nat]
  /\ file \in [Torrent -> File \cup {None}]
  /\ peer \in [Torrent -> [Slot -> PeerRecord]]
  /\ activePeers \in [Torrent -> Int]
  /\ assembly \in Int
  /\ webJob \in [WebSlot -> Job]
  /\ disk \in [File -> [Piece -> Content]]

(* Who is fetching piece i of torrent t: peers with a buffer for it, and    *)
(* web seed jobs of the torrent's generation.                               *)
Owners(t, i) ==
  {<<"peer", p>> : p \in {q \in Slot : peer[t][q].piece = i}}
    \cup {<<"web", s>> : s \in {r \in JobsOf(t) : i \in webJob[r].batch}}

(* A piece is fetched by at most one peer or web seed job, and only while   *)
(* it is "requested".  Otherwise two of them would complete it twice:       *)
(* piece_mgr_complete counts blindly, so the torrent would be declared done *)
(* with a piece missing.                                                    *)
ExclusiveOwner ==
  \A t \in Torrent, i \in Piece :
    /\ Owners(t, i) # {} => pieces[t][i] = "requested"
    /\ \A a, b \in Owners(t, i) : a = b

(* While a torrent downloads, a "requested" piece has somebody fetching it. *)
(* piece_mgr_get_next skips requested pieces, so one that nobody fetches    *)
(* would never be asked for again and the download would hang.              *)
NoOrphan ==
  \A t \in Torrent, i \in Piece :
    Downloading(t) /\ pieces[t][i] = "requested" => Owners(t, i) # {}

(* The engine's counters, which a dozen ways out of an assembly, a piece and  *)
(* a connection adjust one by one, are what they count.  assembly_bytes is   *)
(* what the buffers of all torrents take, and within the limit: a byte       *)
(* leaked by one path would in the end keep every peer of every torrent from *)
(* requesting anything.                                                     *)
MemoryAccounted ==
  /\ assembly = Cardinality(UNION {Buffers(t, Slot) : t \in Torrent})
  /\ assembly <= AssemblyLimit

(* active_peers counts the connected peers, whatever way they leave.        *)
PeersAccounted ==
  \A t \in Torrent : activePeers[t] = Cardinality(Connected(t))

(* num_complete, which decides that a torrent is done, and downloaded,      *)
(* which the panel shows, are those of the complete pieces.                 *)
ProgressAccounted ==
  \A t \in Torrent :
    /\ numComplete[t] = Cardinality(CompleteIn(pieces[t]))
    /\ downloaded[t] = Cardinality(BytesOf(CompleteIn(pieces[t])))

(* All of them.                                                             *)
CountersExact == MemoryAccounted /\ PeersAccounted /\ ProgressAccounted

(* A complete piece is in the torrent's file, verified.                     *)
CompleteIsSaved ==
  \A t \in Torrent : \A i \in CompleteIn(pieces[t]) :
    disk[file[t]][i] = "good"

(* "Download completed; all pieces verified and saved".                     *)
DoneIsSaved ==
  \A t \in Torrent : state[t] = "done" =>
    \A i \in Piece : disk[file[t]][i] = "good"

(* The same, at the moment it is logged and the torrent becomes "done".     *)
SavedWhenDeclared ==
  [][\A t \in Torrent : state[t] # "done" /\ state'[t] = "done" =>
       \A i \in Piece : disk[file[t]][i] = "good"]_vars

(* What a peer is asked for, added to what it has sent, never exceeds the   *)
(* buffer of its piece, and a buffer that is full is never kept.            *)
BlocksFitBuffer ==
  \A t \in Torrent, p \in Slot :
    LET q == peer[t][p]
    IN q.piece # None => /\ q.received < PieceSize(q.piece)
                         /\ q.received + q.pending <= PieceSize(q.piece)

(* A torrent at rest or in error has no use for late results: until it is   *)
(* started again, neither its progress nor its file changes, whatever jobs  *)
(* of its earlier runs are still to be collected.                           *)
RestIsFrozen ==
  [][\A t \in Torrent :
       state[t] \in {"stopped", "done", "error"} /\ state'[t] = state[t]
         /\ nextGeneration' = nextGeneration
         => /\ CompleteIn(pieces'[t]) = CompleteIn(pieces[t])
            /\ downloaded'[t] = downloaded[t]
            /\ disk'[file[t]] = disk[file[t]]]_vars

(* A peer that stays connected keeps the bytes it has sent of a piece, also *)
(* across choke and unchoke, until the piece is complete.                   *)
BlocksAreKept ==
  [][\A t \in Torrent, p \in Slot :
       LET q == peer[t][p]
       IN q.piece # None /\ peer'[t][p].sock =>
            \/ peer'[t][p].piece = q.piece /\ peer'[t][p].received >= q.received
            \/ pieces'[t][q.piece] = "complete"]_vars

(* The tick always returns to the HTTP handlers: no peer and no torrent can *)
(* keep it.                                                                 *)
TickReturns == []<>(main.at = "http")

(* Whatever became of its torrent, a finished job gives its slot back.      *)
JobsDrain ==
  \A s \in WebSlot : webJob[s].status = "done" ~> webJob[s].status = "empty"

(* With a web seed that answers and peers that do not hold on for ever, a   *)
(* download does not hang: it completes, fails, or is stopped by the user.  *)
DownloadsEnd ==
  \A t \in Torrent : Downloading(t) ~> ~Downloading(t)

(* The engine is a Download whose verified pieces are the complete ones:    *)
(* the counter that ends a download, the shared piece map and the stale     *)
(* jobs never show.                                                         *)
Promise == INSTANCE Download WITH
  phase <- state, have <- [t \in Torrent |-> CompleteIn(pieces[t])]

ImplementsDownload == Promise!Spec
=============================================================================
