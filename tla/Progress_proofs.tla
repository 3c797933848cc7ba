---------------------------- MODULE Progress_proofs ----------------------------
(* What the engine counts is what there is, what it saves is kept, and it   *)
(* implements Download.                                                     *)
EXTENDS TorrentEngine_proofs

-----------------------------------------------------------------------------
(* What a step may do to the peers, the counters beside them and their      *)
(* pieces in assembly.                                                      *)

(* The record of the peer being visited changes; the peer stays connected,  *)
(* and what it assembles stays with it.                                     *)
PeerRefreshed ==
  /\ main.at \in {"recv", "request"}
  /\ \E q \in PeerRecord : /\ SetPeer(q)
                           /\ q.sock = Now.sock /\ q.piece = Now.piece
                           /\ q.received >= Now.received
  /\ UNCHANGED <<activePeers, assembly, pieces>>

LEMMA RefreshSteps ==
  ASSUME Typing,
         \/ RecvChoke \/ RecvUnchoke
         \/ \E bits \in SUBSET Piece : RecvBitfield(bits)
         \/ \E i \in Piece : RecvHave(i)
         \/ \E intact \in BOOLEAN : RecvBlock(intact)
         \/ RequestBlock
  PROVE  PeerRefreshed
<1>1. /\ main.at \in {"recv", "request"}
      /\ UNCHANGED <<activePeers, assembly, pieces>>
  BY DEF RecvChoke, RecvUnchoke, RecvBitfield, RecvHave, RecvBlock,
         RequestBlock, Receive, MayRequest, progressVars
<1>2. peer' \in [Torrent -> [Slot -> PeerRecord]]
  <2>1. Typing'
    BY PeerTyping DEF PeerStage
  <2> QED
    BY <2>1 DEF Typing, TypeOK
<1>3. /\ main.cur \in Torrent /\ main.slot \in Slot /\ Now \in PeerRecord
      /\ Now.received \in Nat /\ Now.pending \in Nat
  BY <1>1, NowTyping
<1>4. \E q : /\ SetPeer(q)
             /\ q.sock = Now.sock /\ q.piece = Now.piece
             /\ q.received >= Now.received
  <2> DEFINE Kept == \E q : /\ SetPeer(q)
                           /\ q.sock = Now.sock /\ q.piece = Now.piece
                           /\ q.received >= Now.received
  <2>1. ASSUME RecvChoke
        PROVE  Kept
    <3> DEFINE q == [Now EXCEPT !.choked = TRUE, !.pending = 0]
    <3>1. SetPeer(q)
      BY <2>1 DEF RecvChoke
    <3>2. q.sock = Now.sock /\ q.piece = Now.piece /\ q.received = Now.received
      BY <1>3 DEF PeerRecord
    <3> HIDE DEF q
    <3> QED
      BY <1>3, <3>1, <3>2
  <2>2. ASSUME RecvUnchoke
        PROVE  Kept
    <3> DEFINE q == [Now EXCEPT !.choked = FALSE]
    <3>1. SetPeer(q)
      BY <2>2 DEF RecvUnchoke
    <3>2. q.sock = Now.sock /\ q.piece = Now.piece /\ q.received = Now.received
      BY <1>3 DEF PeerRecord
    <3> HIDE DEF q
    <3> QED
      BY <1>3, <3>1, <3>2
  <2>3. ASSUME NEW bits \in SUBSET Piece, RecvBitfield(bits)
        PROVE  Kept
    <3> DEFINE q == [Now EXCEPT !.bits = bits]
    <3>1. SetPeer(q)
      BY <2>3 DEF RecvBitfield
    <3>2. q.sock = Now.sock /\ q.piece = Now.piece /\ q.received = Now.received
      BY <1>3 DEF PeerRecord
    <3> HIDE DEF q
    <3> QED
      BY <1>3, <3>1, <3>2
  <2>4. ASSUME NEW i \in Piece, RecvHave(i)
        PROVE  Kept
    <3> DEFINE q == [Now EXCEPT !.bits = @ \cup {i}]
    <3>1. SetPeer(q)
      BY <2>4 DEF RecvHave
    <3>2. q.sock = Now.sock /\ q.piece = Now.piece /\ q.received = Now.received
      BY <1>3 DEF PeerRecord
    <3> HIDE DEF q
    <3> QED
      BY <1>3, <3>1, <3>2
  <2>5. ASSUME NEW intact \in BOOLEAN, RecvBlock(intact)
        PROVE  Kept
    <3> DEFINE q == [Now EXCEPT !.received = ReceivedAfter, !.pending = 0,
                                !.intact = @ /\ intact]
    <3>1. SetPeer(q)
      BY <2>5 DEF RecvBlock
    <3>2. /\ q.sock = Now.sock /\ q.piece = Now.piece
          /\ q.received = ReceivedAfter
      BY <1>3 DEF PeerRecord
    <3>3. ReceivedAfter >= Now.received
      BY <1>3 DEF ReceivedAfter
    <3> HIDE DEF q
    <3> QED
      BY <3>1, <3>2, <3>3
  <2>6. ASSUME RequestBlock
        PROVE  Kept
    <3> DEFINE q == [Now EXCEPT !.pending = RequestLength(Now.piece, Now.received)]
    <3>1. SetPeer(q)
      BY <2>6 DEF RequestBlock
    <3>2. q.sock = Now.sock /\ q.piece = Now.piece /\ q.received = Now.received
      BY <1>3 DEF PeerRecord
    <3> HIDE DEF q
    <3> QED
      BY <1>3, <3>1, <3>2
  <2> QED
    BY <2>1, <2>2, <2>3, <2>4, <2>5, <2>6
<1>5. \A q : SetPeer(q) => q \in PeerRecord
  BY <1>2, <1>3 DEF SetPeer, Typing, TypeOK
<1> QED
  BY <1>1, <1>4, <1>5 DEF PeerRefreshed

(* Every step is of one of six kinds.                                       *)
LEMMA PeerSteps ==
  ASSUME Typing, Ownership, Next
  PROVE  \/ UNCHANGED <<peer, activePeers, assembly>>
         \/ PeerRefreshed
         \/ \E t \in Torrent : CloseAll(t)
         \/ \E t \in Torrent, P \in SUBSET Slot : Disconnect(t, P)
         \/ \E t \in Torrent, p \in Slot : AdoptPeer(t, p)
         \/ \E intact \in BOOLEAN : RecvPiece(intact)
         \/ \E i \in Piece : RequestPiece(i)
<1>1. CASE Handler
  BY <1>1 DEF Handler, Add, Start, Stop, Remove, peerVars
<1>2. CASE Worker
  BY <1>2 DEF Worker, FetchWebSeed, peerVars
<1>3. CASE StartTick
  BY <1>3 DEF StartTick, peerVars
<1>4. CASE CollectStage
  BY <1>4 DEF CollectStage, DiscardWebSeed, FailWebSeed, CollectWebSeed,
              EndCollectWebSeed, EndCollectPeers, peerVars
<1>5. CASE TorrentStage
  BY <1>5 DEF TorrentStage, FinishTorrent, VisitTorrent, EndTick,
              ScheduleWebSeed, EndSchedule, peerVars
<1>6. CASE PeerStage
  <2>1. main.at \in {"peers", "recv", "request"} =>
          /\ Cur \in Torrent
          /\ main.at # "peers" => {main.slot} \in SUBSET Slot
    BY DEF Typing, Cursor, Cur
  <2>2. ASSUME NEW p \in Slot, TimeOutPeer(p)
        PROVE  Disconnect(Cur, {p}) /\ Cur \in Torrent
    BY <2>1, <2>2 DEF TimeOutPeer
  <2>3. CASE \/ RecvBad \/ RequestFails
             \/ \E intact \in BOOLEAN : \/ RecvCorruptPiece(intact)
                                        \/ RecvUnwritablePiece(intact)
    BY <2>1, <2>3 DEF RecvBad, RequestFails, RecvCorruptPiece,
                      RecvUnwritablePiece, LastBlock, MayRequest
  <2>4. CASE \/ \E p \in Slot : VisitPeer(p)
             \/ EndPeers \/ RecvIgnored \/ EndRecv \/ RequestNothing
             \/ \E i \in Piece : RequestTooLarge(i)
    BY <2>4 DEF VisitPeer, EndPeers, RecvIgnored, EndRecv, RequestNothing,
                RequestTooLarge, peerVars
  <2>5. CASE \/ RecvChoke \/ RecvUnchoke \/ RequestBlock
             \/ \E bits \in SUBSET Piece : RecvBitfield(bits)
             \/ \E i \in Piece : RecvHave(i)
             \/ \E intact \in BOOLEAN : RecvBlock(intact)
    BY <2>5, RefreshSteps
  <2> QED
    BY <1>6, <2>2, <2>3, <2>4, <2>5 DEF PeerStage
<1> QED
  BY <1>1, <1>2, <1>3, <1>4, <1>5, <1>6 DEF Next, Tick

-----------------------------------------------------------------------------
(* The counters that go with the peers.                                     *)

(* What disconnecting peers does to each of them, and what closing all of a *)
(* torrent's does.                                                          *)
LEMMA DroppedPeers ==
  ASSUME Typing, NEW t \in Torrent, NEW P \in SUBSET Slot,
         \/ Disconnect(t, P)
         \/ P = Slot /\ CloseAll(t)
  PROVE  /\ \A u \in Torrent, p \in Slot :
              IF u = t /\ p \in P
                THEN ~peer'[u][p].sock /\ peer'[u][p].piece = None
                ELSE peer'[u][p] = peer[u][p]
         /\ assembly' = assembly - Cardinality(Buffers(t, P))
BY DEF Disconnect, CloseSockets, CloseAll, Typing, TypeOK, Closed

(* How the other steps change them.                                         *)
LEMMA KeptPeers ==
  ASSUME Typing, Ownership
  PROVE  /\ PeerRefreshed =>
              /\ UNCHANGED <<activePeers, assembly>>
              /\ \A u \in Torrent, p \in Slot :
                   /\ peer'[u][p].sock = peer[u][p].sock
                   /\ peer'[u][p].piece = peer[u][p].piece
                   /\ peer'[u][p].received >= peer[u][p].received
         /\ \A t \in Torrent, p \in Slot : AdoptPeer(t, p) =>
              /\ peer'[t][p].sock /\ ~peer[t][p].sock
              /\ activePeers' = [activePeers EXCEPT ![t] = @ + 1]
              /\ UNCHANGED assembly
              /\ \A u \in Torrent, q \in Slot :
                   /\ u # t \/ q # p => peer'[u][q] = peer[u][q]
                   /\ peer'[u][q].piece = peer[u][q].piece
         /\ \A intact \in BOOLEAN : RecvPiece(intact) =>
              /\ main.cur \in Torrent /\ main.slot \in Slot
              /\ Now.piece \in Piece
              /\ UNCHANGED activePeers
              /\ assembly' = assembly - Cardinality(Buffers(Cur, {main.slot}))
              /\ \A u \in Torrent, q \in Slot :
                   /\ peer'[u][q].sock = peer[u][q].sock
                   /\ IF u = main.cur /\ q = main.slot
                        THEN peer'[u][q].piece = None
                        ELSE peer'[u][q] = peer[u][q]
         /\ \A i \in Piece : RequestPiece(i) =>
              /\ main.cur \in Torrent /\ main.slot \in Slot
              /\ Now.piece = None /\ Fits(i)
              /\ UNCHANGED activePeers
              /\ assembly' = assembly + PieceSize(i)
              /\ \A u \in Torrent, q \in Slot :
                   /\ peer'[u][q].sock = peer[u][q].sock
                   /\ IF u = main.cur /\ q = main.slot
                        THEN peer'[u][q].piece = i
                        ELSE peer'[u][q] = peer[u][q]
<1>1. ASSUME PeerRefreshed
      PROVE  /\ UNCHANGED <<activePeers, assembly>>
             /\ \A u \in Torrent, p \in Slot :
                  /\ peer'[u][p].sock = peer[u][p].sock
                  /\ peer'[u][p].piece = peer[u][p].piece
                  /\ peer'[u][p].received >= peer[u][p].received
  <2>1. PICK q \in PeerRecord : /\ SetPeer(q)
                                /\ q.sock = Now.sock /\ q.piece = Now.piece
                                /\ q.received >= Now.received
    BY <1>1 DEF PeerRefreshed
  <2>2. main.cur \in Torrent /\ main.slot \in Slot
    BY <1>1, NowTyping DEF PeerRefreshed
  <2>3. \A u \in Torrent, p \in Slot :
          peer'[u][p] = IF u = main.cur /\ p = main.slot THEN q
                                                         ELSE peer[u][p]
    BY <2>1, <2>2 DEF SetPeer, Typing, TypeOK
  <2>4. \A u \in Torrent, p \in Slot : peer[u][p].received >= peer[u][p].received
    BY PiecesAssumption DEF Typing, TypeOK, PeerRecord, Received
  <2> QED
    BY <1>1, <2>1, <2>3, <2>4 DEF PeerRefreshed, Now
<1>2. ASSUME NEW t \in Torrent, NEW p \in Slot, AdoptPeer(t, p)
      PROVE  /\ peer'[t][p].sock /\ ~peer[t][p].sock
             /\ activePeers' = [activePeers EXCEPT ![t] = @ + 1]
             /\ UNCHANGED assembly
             /\ \A u \in Torrent, q \in Slot :
                  /\ u # t \/ q # p => peer'[u][q] = peer[u][q]
                  /\ peer'[u][q].piece = peer[u][q].piece
  <2> DEFINE new == [Closed EXCEPT !.sock = TRUE]
  <2>1. new.sock /\ new.piece = None
    BY DEF Closed
  <2>2. /\ peer' = [peer EXCEPT ![t][p] = new]
        /\ activePeers' = [activePeers EXCEPT ![t] = @ + 1]
        /\ UNCHANGED assembly /\ ~peer[t][p].sock
    BY <1>2 DEF AdoptPeer
  <2> HIDE DEF new
  <2>3. peer[t][p].piece = None
    BY <2>2 DEF Ownership, Holding, PeersHoldRequested
  <2> QED
    BY <2>1, <2>2, <2>3 DEF Typing, TypeOK
<1>3. ASSUME NEW intact \in BOOLEAN, RecvPiece(intact)
      PROVE  /\ main.cur \in Torrent /\ main.slot \in Slot
             /\ Now.piece \in Piece
             /\ UNCHANGED activePeers
             /\ assembly' = assembly - Cardinality(Buffers(Cur, {main.slot}))
             /\ \A u \in Torrent, q \in Slot :
                  /\ peer'[u][q].sock = peer[u][q].sock
                  /\ IF u = main.cur /\ q = main.slot
                       THEN peer'[u][q].piece = None
                       ELSE peer'[u][q] = peer[u][q]
  <2> DEFINE r == [Now EXCEPT !.piece = None, !.received = 0, !.pending = 0,
                              !.intact = TRUE]
  <2>1. /\ SetPeer(r) /\ UNCHANGED activePeers
        /\ assembly' = assembly - Cardinality(Buffers(Cur, {main.slot}))
        /\ main.at = "recv" /\ Now.piece # None
    BY <1>3 DEF RecvPiece, LastBlock, Awaited
  <2>2. /\ main.cur \in Torrent /\ main.slot \in Slot
        /\ Now \in PeerRecord /\ Now.piece \in Piece
    BY <2>1, NowTyping
  <2>3. r.sock = Now.sock /\ r.piece = None
    BY <2>2 DEF PeerRecord
  <2> HIDE DEF r
  <2> QED
    BY <2>1, <2>2, <2>3 DEF SetPeer, Now, Typing, TypeOK
<1>4. ASSUME NEW i \in Piece, RequestPiece(i)
      PROVE  /\ main.cur \in Torrent /\ main.slot \in Slot
             /\ Now.piece = None /\ Fits(i)
             /\ UNCHANGED activePeers
             /\ assembly' = assembly + PieceSize(i)
             /\ \A u \in Torrent, q \in Slot :
                  /\ peer'[u][q].sock = peer[u][q].sock
                  /\ IF u = main.cur /\ q = main.slot
                       THEN peer'[u][q].piece = i
                       ELSE peer'[u][q] = peer[u][q]
  <2> DEFINE r == [Now EXCEPT !.piece = i, !.received = 0,
                              !.pending = RequestLength(i, 0)]
  <2>1. /\ SetPeer(r) /\ UNCHANGED activePeers
        /\ assembly' = assembly + PieceSize(i)
        /\ main.at = "request" /\ Now.piece = None /\ Fits(i)
    BY <1>4 DEF RequestPiece, MayRequest, Offered
  <2>2. main.cur \in Torrent /\ main.slot \in Slot /\ Now \in PeerRecord
    BY <2>1, NowTyping
  <2>3. r.sock = Now.sock /\ r.piece = i
    BY <2>2 DEF PeerRecord
  <2> HIDE DEF r
  <2> QED
    BY <2>1, <2>2, <2>3 DEF SetPeer, Now, Typing, TypeOK
<1> QED
  BY <1>1, <1>2, <1>3, <1>4

(* active_peers counts the connected peers.                                 *)
LEMMA PeersStep ==
  ASSUME Typing, Ownership, PeersAccounted, Next
  PROVE  PeersAccounted'
<1>1. \A u \in Torrent : IsFiniteSet(Connected(u))
  BY EngineAssumption, FS_Subset DEF Connected
<1>2. ASSUME UNCHANGED activePeers,
             \A u \in Torrent, p \in Slot : peer'[u][p].sock = peer[u][p].sock
      PROVE  PeersAccounted'
  BY <1>2 DEF PeersAccounted, Connected
<1>3. ASSUME UNCHANGED <<peer, activePeers>> PROVE PeersAccounted'
  BY <1>3 DEF PeersAccounted, Connected
<1>4. ASSUME NEW t \in Torrent, CloseAll(t) PROVE PeersAccounted'
  <2>1. /\ Connected(t)' = {}
        /\ \A u \in Torrent : u # t => Connected(u)' = Connected(u)
    BY <1>4, DroppedPeers DEF Connected
  <2>2. \A u \in Torrent : activePeers'[u] = IF u = t THEN 0 ELSE activePeers[u]
    BY <1>4 DEF CloseAll, Typing, TypeOK
  <2> QED
    BY <2>1, <2>2, FS_EmptySet DEF PeersAccounted
<1>5. ASSUME NEW t \in Torrent, NEW P \in SUBSET Slot, Disconnect(t, P)
      PROVE  PeersAccounted'
  <2>1. /\ Connected(t)' = Connected(t) \ P
        /\ \A u \in Torrent : u # t => Connected(u)' = Connected(u)
    BY <1>5, DroppedPeers DEF Connected
  <2>2. \A u \in Torrent : activePeers'[u] =
          IF u = t THEN activePeers[u] - Cardinality(Connected(t) \cap P)
                   ELSE activePeers[u]
    BY <1>5 DEF Disconnect, CloseSockets, Leaving, Typing, TypeOK
  <2>3. Cardinality(Connected(t) \ P) =
          Cardinality(Connected(t)) - Cardinality(Connected(t) \cap P)
    BY <1>1, FS_Difference
  <2> QED
    BY <2>1, <2>2, <2>3 DEF PeersAccounted
<1>6. ASSUME NEW t \in Torrent, NEW p \in Slot, AdoptPeer(t, p)
      PROVE  PeersAccounted'
  <2>1. /\ Connected(t)' = Connected(t) \cup {p} /\ p \notin Connected(t)
        /\ \A u \in Torrent : u # t => Connected(u)' = Connected(u)
    BY <1>6, KeptPeers DEF Connected
  <2>2. \A u \in Torrent : activePeers'[u] =
          IF u = t THEN activePeers[u] + 1 ELSE activePeers[u]
    BY <1>6, KeptPeers DEF Typing, TypeOK
  <2>3. Cardinality(Connected(t) \cup {p}) = Cardinality(Connected(t)) + 1
    BY <1>1, <2>1, FS_AddElement
  <2> QED
    BY <2>1, <2>2, <2>3 DEF PeersAccounted
<1>7. CASE PeerRefreshed
  BY <1>2, <1>7, KeptPeers
<1>8. CASE \/ \E intact \in BOOLEAN : RecvPiece(intact)
           \/ \E i \in Piece : RequestPiece(i)
  BY <1>2, <1>8, KeptPeers
<1> QED
  BY <1>3, <1>4, <1>5, <1>6, <1>7, <1>8, PeerSteps

(* The bytes of all assembly buffers, each named by its torrent, its peer   *)
(* and its position.                                                        *)
AllBuffers ==
  {b \in (Torrent \X Slot) \X (1 .. PieceLength) :
     LET i == peer[b[1][1]][b[1][2]].piece
     IN i # None /\ b[2] <= PieceSize(i)}

LEMMA AllBuffersProperties ==
  /\ UNION {Buffers(t, Slot) : t \in Torrent} = AllBuffers
  /\ \A t \in Torrent, P \in SUBSET Slot :
       Buffers(t, P) = {b \in AllBuffers : b[1][1] = t /\ b[1][2] \in P}
  /\ IsFiniteSet(AllBuffers) /\ Cardinality(AllBuffers) \in Nat
<1>1. UNION {Buffers(t, Slot) : t \in Torrent} = AllBuffers
  BY DEF Buffers, AllBuffers
<1>2. \A t \in Torrent, P \in SUBSET Slot :
        Buffers(t, P) = {b \in AllBuffers : b[1][1] = t /\ b[1][2] \in P}
  BY DEF Buffers, AllBuffers
<1>3. IsFiniteSet((Torrent \X Slot) \X (1 .. PieceLength))
  <2>1. IsFiniteSet(1 .. PieceLength)
    BY PiecesAssumption, FS_Interval
  <2>2. IsFiniteSet(Torrent \X Slot)
    BY EngineAssumption, FS_Product
  <2> QED
    BY <2>1, <2>2, FS_Product
<1>4. AllBuffers \subseteq (Torrent \X Slot) \X (1 .. PieceLength)
  BY DEF AllBuffers
<1> QED
  BY <1>1, <1>2, <1>3, <1>4, FS_Subset, FS_CardinalityType

(* assembly_bytes is what the buffers of all torrents take.                 *)
LEMMA MemoryStep ==
  ASSUME Typing, Ownership, MemoryAccounted, Next
  PROVE  MemoryAccounted'
<1>1. /\ MemoryAccounted <=> assembly = Cardinality(AllBuffers)
                             /\ assembly <= AssemblyLimit
      /\ MemoryAccounted' <=> assembly' = Cardinality(AllBuffers')
                              /\ assembly' <= AssemblyLimit
  <2>1. UNION {Buffers(t, Slot)' : t \in Torrent} = AllBuffers'
    BY DEF Buffers, AllBuffers
  <2> QED
    BY <2>1, AllBuffersProperties DEF MemoryAccounted
<1>2. IsFiniteSet(AllBuffers) /\ Cardinality(AllBuffers) \in Nat
      /\ AssemblyLimit \in Nat
  BY AllBuffersProperties, EngineAssumption
<1>3. ASSUME UNCHANGED assembly,
             \A u \in Torrent, p \in Slot : peer'[u][p].piece = peer[u][p].piece
      PROVE  MemoryAccounted'
  <2>1. AllBuffers' = AllBuffers
    BY <1>3 DEF AllBuffers
  <2> QED
    BY <1>1, <1>3, <2>1
<1>4. CASE UNCHANGED <<peer, assembly>>
  BY <1>1, <1>4 DEF AllBuffers
<1>5. ASSUME NEW t \in Torrent, NEW P \in SUBSET Slot,
             \A u \in Torrent, p \in Slot :
               IF u = t /\ p \in P THEN peer'[u][p].piece = None
                                   ELSE peer'[u][p] = peer[u][p],
             assembly' = assembly - Cardinality(Buffers(t, P))
      PROVE  MemoryAccounted'
  <2>1. AllBuffers' = AllBuffers \ Buffers(t, P)
    BY <1>5 DEF AllBuffers, Buffers
  <2>2. AllBuffers \cap Buffers(t, P) = Buffers(t, P)
    BY AllBuffersProperties
  <2>3. Cardinality(AllBuffers') =
          Cardinality(AllBuffers) - Cardinality(Buffers(t, P))
    BY <1>2, <2>1, <2>2, FS_Difference
  <2>4. Cardinality(Buffers(t, P)) \in Nat
    BY CountsAreNat
  <2> QED
    BY <1>1, <1>2, <1>5, <2>3, <2>4
<1>6. ASSUME NEW i \in Piece, RequestPiece(i) PROVE MemoryAccounted'
  <2> DEFINE t == main.cur
             p == main.slot
             new == {<<t, p>>} \X (1 .. PieceSize(i))
  <2>1. /\ t \in Torrent /\ p \in Slot /\ peer[t][p].piece = None
        /\ Fits(i) /\ assembly' = assembly + PieceSize(i)
        /\ \A u \in Torrent, q \in Slot :
             IF u = t /\ q = p THEN peer'[u][q].piece = i
                               ELSE peer'[u][q] = peer[u][q]
    BY <1>6, KeptPeers DEF Now
  <2>2. PieceSize(i) \in 1 .. PieceLength /\ i # None /\ PieceLength \in Nat
    BY PieceSizeRange, EngineAssumption, PiecesAssumption
  <2> HIDE DEF t, p
  <2>3. AllBuffers' = AllBuffers \cup new /\ AllBuffers \cap new = {}
    BY <2>1, <2>2 DEF AllBuffers
  <2>4. IsFiniteSet(new) /\ Cardinality(new) = PieceSize(i)
    <3>1. IsFiniteSet(1 .. PieceSize(i)) /\ Cardinality(1 .. PieceSize(i)) = PieceSize(i)
      BY <2>2, FS_Interval
    <3>2. IsFiniteSet({<<t, p>>}) /\ Cardinality({<<t, p>>}) = 1
      BY FS_Singleton
    <3>3. IsFiniteSet(new) /\ Cardinality(new) = 1 * PieceSize(i)
      BY <3>1, <3>2, FS_Product
    <3> QED
      BY <2>2, <3>3
  <2> HIDE DEF new
  <2>5. Cardinality(AllBuffers') = Cardinality(AllBuffers) + PieceSize(i)
    BY <1>2, <2>2, <2>3, <2>4, FS_Union, FS_EmptySet
  <2> QED
    BY <1>1, <1>2, <2>1, <2>2, <2>5 DEF Fits
<1>7. CASE PeerRefreshed \/ \E t \in Torrent, p \in Slot : AdoptPeer(t, p)
  BY <1>3, <1>7, KeptPeers
<1>8. CASE \E t \in Torrent : CloseAll(t)
  BY <1>5, <1>8, DroppedPeers
<1>9. CASE \E t \in Torrent, P \in SUBSET Slot : Disconnect(t, P)
  BY <1>5, <1>9, DroppedPeers
<1>10. CASE \E intact \in BOOLEAN : RecvPiece(intact)
  <2>1. /\ main.cur \in Torrent /\ {main.slot} \in SUBSET Slot
        /\ assembly' = assembly - Cardinality(Buffers(main.cur, {main.slot}))
        /\ \A u \in Torrent, q \in Slot :
             IF u = main.cur /\ q \in {main.slot}
               THEN peer'[u][q].piece = None
               ELSE peer'[u][q] = peer[u][q]
    BY <1>10, KeptPeers DEF Cur
  <2> QED
    BY <1>5, <2>1
<1> QED
  BY <1>4, <1>6, <1>7, <1>8, <1>9, <1>10, PeerSteps

-----------------------------------------------------------------------------
(* What a step may do to the pieces and to the counters of the progress.    *)

(* What the operations of the piece manager do to the complete pieces.      *)
LEMMA CompleteAfter ==
  /\ CompleteIn(AllFree) = {}
  /\ \A pm \in PieceMap, S \in SUBSET Piece :
       /\ CompleteIn(pm) \in SUBSET Piece
       /\ Completed(pm, S) \in PieceMap
       /\ CompleteIn(Completed(pm, S)) = CompleteIn(pm) \cup S
       /\ S \cap CompleteIn(pm) = {} =>
            CompleteIn(Requested(pm, S)) = CompleteIn(pm)
  /\ \A pm \in PieceMap : \A S : CompleteIn(Freed(pm, S)) = CompleteIn(pm)
<1>1. CompleteIn(AllFree) = {}
  BY DEF CompleteIn, AllFree
<1>2. ASSUME NEW pm \in PieceMap, NEW S \in SUBSET Piece
      PROVE  /\ CompleteIn(pm) \in SUBSET Piece
             /\ Completed(pm, S) \in PieceMap
             /\ CompleteIn(Completed(pm, S)) = CompleteIn(pm) \cup S
             /\ S \cap CompleteIn(pm) = {} =>
                  CompleteIn(Requested(pm, S)) = CompleteIn(pm)
  BY DEF CompleteIn, Completed, Requested, PieceMap, PieceState
<1>3. ASSUME NEW pm \in PieceMap, NEW S
      PROVE  CompleteIn(Freed(pm, S)) = CompleteIn(pm)
  BY DEF CompleteIn, Freed, PieceMap
<1> QED
  BY <1>1, <1>2, <1>3

(* The complete pieces of every torrent stay, and so do the counters.       *)
ProgressKept ==
  /\ UNCHANGED <<numComplete, downloaded>>
  /\ \A u \in Torrent : CompleteIn(pieces'[u]) = CompleteIn(pieces[u])

(* Torrent t begins anew.                                                   *)
ProgressReset(t) ==
  /\ pieces' = [pieces EXCEPT ![t] = AllFree]
  /\ numComplete' = [numComplete EXCEPT ![t] = 0]
  /\ downloaded' = [downloaded EXCEPT ![t] = 0]

(* Torrent t downloads, and gains the pieces of S.                          *)
ProgressMade(t, S) ==
  /\ Downloading(t) /\ UNCHANGED <<state, lifeVars>>
  /\ S \cap CompleteIn(pieces[t]) = {}
  /\ \A u \in Torrent :
       CompleteIn(pieces'[u]) = IF u = t THEN CompleteIn(pieces[t]) \cup S
                                         ELSE CompleteIn(pieces[u])
  /\ numComplete' = [numComplete EXCEPT ![t] = @ + Cardinality(S)]
  /\ downloaded' = [downloaded EXCEPT ![t] = @ + Cardinality(BytesOf(S))]

(* Only pieces change, and none that is complete.                           *)
LEMMA FreedKeeps ==
  ASSUME Typing, NEW t \in Torrent, NEW S,
         pieces' = [pieces EXCEPT ![t] = Freed(@, S)],
         UNCHANGED <<numComplete, downloaded>>
  PROVE  ProgressKept
BY CompleteAfter DEF ProgressKept, Typing, TypeOK

LEMMA RequestedKeeps ==
  ASSUME Typing, NEW t \in Torrent, NEW S \in SUBSET FreeIn(pieces[t]),
         pieces' = [pieces EXCEPT ![t] = Requested(@, S)],
         UNCHANGED <<numComplete, downloaded>>
  PROVE  ProgressKept
<1>1. S \in SUBSET Piece /\ S \cap CompleteIn(pieces[t]) = {}
  BY DEF FreeIn, CompleteIn
<1>2. pieces[t] \in PieceMap
  BY DEF Typing, TypeOK
<1> QED
  BY <1>1, <1>2, CompleteAfter DEF ProgressKept, Typing, TypeOK

(* What a piece of size n adds to the count of bytes.                       *)
LEMMA BytesOfPiece ==
  ASSUME NEW i \in Piece
  PROVE  Cardinality(BytesOf({i})) = PieceSize(i)
<1>1. PieceSize(i) \in 1 .. PieceLength /\ PieceLength \in Nat
  BY PieceSizeRange, PiecesAssumption
<1>2. BytesOf({i}) = {i} \X (1 .. PieceSize(i))
  BY <1>1 DEF BytesOf
<1>3. /\ IsFiniteSet(1 .. PieceSize(i))
      /\ Cardinality(1 .. PieceSize(i)) = PieceSize(i)
  BY <1>1, FS_Interval
<1>4. Cardinality({i} \X (1 .. PieceSize(i))) = 1 * PieceSize(i)
  <2>1. IsFiniteSet({i}) /\ Cardinality({i}) = 1
    BY FS_Singleton
  <2> QED
    BY <1>3, <2>1, FS_Product
<1>5. 1 * PieceSize(i) = PieceSize(i)
  BY <1>1
<1> QED
  BY <1>2, <1>4, <1>5, Zenon

LEMMA BytesFinite == \A S \in SUBSET Piece : IsFiniteSet(BytesOf(S))
<1> SUFFICES ASSUME NEW S \in SUBSET Piece PROVE IsFiniteSet(BytesOf(S))
  OBVIOUS
<1>1. IsFiniteSet(S)
  BY PieceFinite, FS_Subset
<1>2. IsFiniteSet(1 .. PieceLength)
  BY PiecesAssumption, FS_Interval
<1>3. IsFiniteSet(S \X (1 .. PieceLength))
  BY <1>1, <1>2, FS_Product
<1>4. BytesOf(S) \subseteq S \X (1 .. PieceLength)
  BY DEF BytesOf
<1> QED
  BY <1>3, <1>4, FS_Subset

LEMMA DisjointUnion ==
  ASSUME NEW S, NEW T, IsFiniteSet(S), IsFiniteSet(T), S \cap T = {}
  PROVE  Cardinality(S \cup T) = Cardinality(S) + Cardinality(T)
<1>1. Cardinality(S \cup T)
        = Cardinality(S) + Cardinality(T) - Cardinality(S \cap T)
  BY FS_Union
<1>2. Cardinality(S) \in Nat /\ Cardinality(T) \in Nat
  BY FS_CardinalityType
<1> QED
  BY <1>1, <1>2, FS_EmptySet

(* Pieces arrive from peers or from web seeds.                              *)
LEMMA GainSteps ==
  ASSUME Typing, Ownership
  PROVE  /\ \A intact \in BOOLEAN : RecvPiece(intact) =>
              /\ Cur \in Torrent /\ Now.piece \in Piece
              /\ ProgressMade(Cur, {Now.piece})
         /\ \A s \in WebSlot, t \in Torrent, fault \in Piece \cup {None} :
              CollectWebSeed(s, t, fault) =>
                /\ Saved(s, t, fault) \in SUBSET Piece
                /\ ProgressMade(t, Saved(s, t, fault))
<1>1. ASSUME NEW intact \in BOOLEAN, RecvPiece(intact)
      PROVE  /\ Cur \in Torrent /\ Now.piece \in Piece
             /\ ProgressMade(Cur, {Now.piece})
  <2> DEFINE i == Now.piece
  <2>1. /\ main.at = "recv" /\ Cur \in Torrent /\ main.slot \in Slot
        /\ i \in Piece /\ i # None /\ peer[Cur][main.slot].piece = i
    BY <1>1, NowTyping DEF RecvPiece, LastBlock, Awaited, Now, Cur
  <2>2. Downloading(Cur)
    BY <2>1 DEF Ownership, VisitsConnected, Cur
  <2>3. pieces[Cur][i] = "requested"
    BY <2>1 DEF Ownership, Holding, PeersHoldRequested
  <2>4. /\ pieces' = [pieces EXCEPT ![Cur] = Freed(Completed(@, {i}), {i})]
        /\ numComplete' = [numComplete EXCEPT ![Cur] = @ + 1]
        /\ downloaded' = [downloaded EXCEPT ![Cur] = @ + PieceSize(i)]
        /\ UNCHANGED <<state, lifeVars>>
    BY <1>1 DEF RecvPiece
  <2>5. Cardinality({i}) = 1 /\ Cardinality(BytesOf({i})) = PieceSize(i)
    BY <2>1, BytesOfPiece, FS_Singleton
  <2>6. pieces \in [Torrent -> PieceMap]
    BY DEF Typing, TypeOK
  <2> HIDE DEF i
  <2>7. /\ Completed(pieces[Cur], {i}) \in PieceMap
        /\ CompleteIn(Completed(pieces[Cur], {i}))
             = CompleteIn(pieces[Cur]) \cup {i}
    BY <2>1, <2>6, CompleteAfter
  <2>8. \A u \in Torrent :
          CompleteIn(pieces'[u]) = IF u = Cur THEN CompleteIn(pieces[Cur]) \cup {i}
                                              ELSE CompleteIn(pieces[u])
    <3>1. /\ pieces'[Cur] = Freed(Completed(pieces[Cur], {i}), {i})
          /\ \A u \in Torrent : u # Cur => pieces'[u] = pieces[u]
      BY <2>1, <2>4, <2>6
    <3>2. CompleteIn(pieces'[Cur]) = CompleteIn(Completed(pieces[Cur], {i}))
      BY <2>7, <3>1, CompleteAfter
    <3> QED
      BY <2>7, <3>1, <3>2
  <2>9. {i} \cap CompleteIn(pieces[Cur]) = {}
    BY <2>3 DEF CompleteIn
  <2>10. ProgressMade(Cur, {i})
    BY <2>2, <2>4, <2>5, <2>8, <2>9 DEF ProgressMade
  <2> QED
    BY <2>1, <2>10 DEF i
<1>2. ASSUME NEW s \in WebSlot, NEW t \in Torrent,
             NEW fault \in Piece \cup {None}, CollectWebSeed(s, t, fault)
      PROVE  /\ Saved(s, t, fault) \in SUBSET Piece
             /\ ProgressMade(t, Saved(s, t, fault))
  <2> DEFINE saved == Saved(s, t, fault)
  <2>1. /\ pieces' = [pieces EXCEPT
                        ![t] = Freed(Completed(@, saved), GivenBack(s, fault))]
        /\ numComplete' = [numComplete EXCEPT ![t] = @ + Cardinality(saved)]
        /\ downloaded' =
             [downloaded EXCEPT ![t] = @ + Cardinality(BytesOf(saved))]
        /\ UNCHANGED <<state, lifeVars>> /\ Downloading(t)
    BY <1>2 DEF CollectWebSeed, Live
  <2>2. saved \in SUBSET Piece /\ saved \cap CompleteIn(pieces[t]) = {}
    BY DEF Saved, Typing, TypeOK, Job
  <2>3. pieces \in [Torrent -> PieceMap]
    BY DEF Typing, TypeOK
  <2> HIDE DEF saved
  <2>4. /\ Completed(pieces[t], saved) \in PieceMap
        /\ CompleteIn(Completed(pieces[t], saved))
             = CompleteIn(pieces[t]) \cup saved
    BY <2>2, <2>3, CompleteAfter
  <2>5. \A u \in Torrent :
          CompleteIn(pieces'[u]) = IF u = t THEN CompleteIn(pieces[t]) \cup saved
                                            ELSE CompleteIn(pieces[u])
    BY <2>1, <2>3, <2>4, CompleteAfter
  <2>6. ProgressMade(t, saved)
    BY <2>1, <2>2, <2>5 DEF ProgressMade
  <2> QED
    BY <2>2, <2>6 DEF saved
<1> QED
  BY <1>1, <1>2

(* No other step of the tick, nor a worker, touches what is complete.       *)
LEMMA OtherProgress ==
  ASSUME Typing, Ownership,
         Worker \/ Tick,
         ~ \E intact \in BOOLEAN : RecvPiece(intact),
         ~ \E s \in WebSlot, t \in Torrent, fault \in Piece \cup {None} :
             CollectWebSeed(s, t, fault)
  PROVE  ProgressKept
<1>1. CASE UNCHANGED <<pieces, numComplete, downloaded>>
  BY <1>1 DEF ProgressKept
<1>2. CASE Worker \/ StartTick
  BY <1>1, <1>2 DEF Worker, FetchWebSeed, StartTick, progressVars
<1>3. CASE CollectStage
  <2>1. ASSUME NEW s \in WebSlot, NEW t \in Torrent, FailWebSeed(s, t)
        PROVE  ProgressKept
    BY <2>1, FreedKeeps DEF FailWebSeed
  <2> QED
    BY <1>1, <1>3, <2>1
    DEF CollectStage, DiscardWebSeed, EndCollectWebSeed, AdoptPeer,
        EndCollectPeers, progressVars
<1>4. ASSUME NEW t \in Torrent, NEW P \in SUBSET Slot, Disconnect(t, P),
             UNCHANGED <<numComplete, downloaded>>
      PROVE  ProgressKept
  BY <1>4, FreedKeeps DEF Disconnect
<1>5. main.at \in {"peers", "recv", "request", "schedule"} => Cur \in Torrent
  BY DEF Typing, Cursor, Cur
<1>6. main.at \in {"recv", "request"} => {main.slot} \in SUBSET Slot
  BY DEF Typing, Cursor
<1>7. CASE TorrentStage
  <2>1. ASSUME NEW s \in WebSlot, ScheduleWebSeed(s) PROVE ProgressKept
    <3>1. Batch(Cur) \in SUBSET FreeIn(pieces[Cur])
      BY DEF Batch, Piece
    <3> QED
      BY <1>5, <2>1, <3>1, RequestedKeeps DEF ScheduleWebSeed
  <2>2. ASSUME NEW t \in Torrent, FinishTorrent(t) PROVE ProgressKept
    BY <1>4, <2>2 DEF FinishTorrent
  <2> QED
    BY <1>1, <1>7, <2>1, <2>2
    DEF TorrentStage, VisitTorrent, EndTick, EndSchedule, progressVars
<1>8. CASE PeerStage
  <2>1. ASSUME NEW i \in Piece, RequestPiece(i) PROVE ProgressKept
    <3>1. {i} \in SUBSET FreeIn(pieces[Cur])
      BY <2>1 DEF RequestPiece, Offered, IsNext
    <3> QED
      BY <1>5, <2>1, <3>1, RequestedKeeps DEF RequestPiece, MayRequest
  <2>2. ASSUME NEW p \in Slot, TimeOutPeer(p) PROVE ProgressKept
    BY <1>4, <1>5, <2>2 DEF TimeOutPeer
  <2>3. CASE \/ RecvBad \/ RequestFails
             \/ \E intact \in BOOLEAN : \/ RecvCorruptPiece(intact)
                                        \/ RecvUnwritablePiece(intact)
    BY <1>4, <1>5, <1>6, <2>3
    DEF RecvBad, RequestFails, RecvCorruptPiece, RecvUnwritablePiece,
        LastBlock, MayRequest
  <2>4. CASE \/ \E p \in Slot : VisitPeer(p)
             \/ EndPeers \/ RecvIgnored \/ EndRecv \/ RequestNothing
             \/ RecvChoke \/ RecvUnchoke \/ RequestBlock
             \/ \E bits \in SUBSET Piece : RecvBitfield(bits)
             \/ \E i \in Piece : RecvHave(i) \/ RequestTooLarge(i)
             \/ \E intact \in BOOLEAN : RecvBlock(intact)
    BY <1>1, <2>4
    DEF VisitPeer, EndPeers, RecvIgnored, EndRecv, RequestNothing, RecvChoke,
        RecvUnchoke, RequestBlock, RecvBitfield, RecvHave, RequestTooLarge,
        RecvBlock, progressVars
  <2> QED
    BY <1>8, <2>1, <2>2, <2>3, <2>4 DEF PeerStage
<1> QED
  BY <1>2, <1>3, <1>7, <1>8 DEF Tick

(* The handlers keep what is complete, or begin anew.                       *)
LEMMA HandlerProgress ==
  ASSUME Typing, NEW t \in Torrent
  PROVE  /\ (\E f \in File : Add(t, f)) \/ Stop(t) => ProgressKept
         /\ (\E outcome : Start(t, outcome)) \/ Remove(t) => ProgressReset(t)
<1>1. ASSUME NEW f \in File, Add(t, f) PROVE ProgressKept
  BY <1>1 DEF Add, ProgressKept, progressVars
<1>2. ASSUME Stop(t) PROVE ProgressKept
  BY <1>2, FreedKeeps DEF Stop
<1>3. ASSUME (\E outcome : Start(t, outcome)) \/ Remove(t)
      PROVE  ProgressReset(t)
  BY <1>3 DEF Start, Remove, ProgressReset
<1> QED
  BY <1>1, <1>2, <1>3

(* Every step is of one of three kinds.                                     *)
LEMMA ProgressSteps ==
  ASSUME Typing, Ownership, Next
  PROVE  \/ ProgressKept
         \/ \E t \in Torrent : ProgressReset(t)
         \/ \E t \in Torrent, S \in SUBSET Piece : ProgressMade(t, S)
<1>1. CASE Handler
  <2>1. PICK t \in Torrent :
          \/ \E f \in File : Add(t, f)
          \/ \E outcome \in {"early", "file", "ok"} : Start(t, outcome)
          \/ Stop(t)
          \/ Remove(t)
    BY <1>1 DEF Handler
  <2> QED
    BY <2>1, HandlerProgress
<1>2. ASSUME NEW intact \in BOOLEAN, RecvPiece(intact)
      PROVE  \E t \in Torrent, S \in SUBSET Piece : ProgressMade(t, S)
  <2>1. /\ Cur \in Torrent /\ {Now.piece} \in SUBSET Piece
        /\ ProgressMade(Cur, {Now.piece})
    BY <1>2, GainSteps
  <2> QED
    BY <2>1
<1>3. ASSUME NEW s \in WebSlot, NEW t \in Torrent,
             NEW fault \in Piece \cup {None}, CollectWebSeed(s, t, fault)
      PROVE  \E u \in Torrent, S \in SUBSET Piece : ProgressMade(u, S)
  BY <1>3, GainSteps
<1> QED
  BY <1>1, <1>2, <1>3, OtherProgress DEF Next

(* num_complete and downloaded count the complete pieces and their bytes.   *)
LEMMA ProgressStep ==
  ASSUME Typing, Ownership, ProgressAccounted, Next
  PROVE  ProgressAccounted'
<1>1. CASE ProgressKept
  BY <1>1 DEF ProgressKept, ProgressAccounted
<1>2. ASSUME NEW t \in Torrent, ProgressReset(t) PROVE ProgressAccounted'
  <2>1. \A u \in Torrent :
          IF u = t THEN /\ pieces'[u] = AllFree /\ numComplete'[u] = 0
                        /\ downloaded'[u] = 0
                   ELSE /\ pieces'[u] = pieces[u]
                        /\ numComplete'[u] = numComplete[u]
                        /\ downloaded'[u] = downloaded[u]
    BY <1>2 DEF ProgressReset, Typing, TypeOK
  <2>2. CompleteIn(AllFree) = {} /\ BytesOf({}) = {}
    BY CompleteAfter DEF BytesOf
  <2> QED
    BY <2>1, <2>2, FS_EmptySet DEF ProgressAccounted
<1>3. ASSUME NEW t \in Torrent, NEW S \in SUBSET Piece, ProgressMade(t, S)
      PROVE  ProgressAccounted'
  <2> DEFINE C == CompleteIn(pieces[t])
  <2>1. /\ S \cap C = {} /\ C \in SUBSET Piece
        /\ \A u \in Torrent :
             CompleteIn(pieces'[u]) = IF u = t THEN C \cup S
                                               ELSE CompleteIn(pieces[u])
    BY <1>3 DEF ProgressMade, CompleteIn
  <2>2. \A u \in Torrent :
          IF u = t
            THEN /\ numComplete'[u] = numComplete[u] + Cardinality(S)
                 /\ downloaded'[u] = downloaded[u] + Cardinality(BytesOf(S))
            ELSE /\ numComplete'[u] = numComplete[u]
                 /\ downloaded'[u] = downloaded[u]
    BY <1>3 DEF ProgressMade, Typing, TypeOK
  <2>3. /\ numComplete[t] = Cardinality(C)
        /\ downloaded[t] = Cardinality(BytesOf(C))
    BY DEF ProgressAccounted
  <2> HIDE DEF C
  <2>4. Cardinality(C \cup S) = Cardinality(C) + Cardinality(S)
    BY <2>1, PieceFinite, FS_Subset, DisjointUnion
  <2>5. /\ BytesOf(C \cup S) = BytesOf(C) \cup BytesOf(S)
        /\ BytesOf(C) \cap BytesOf(S) = {}
    BY <2>1 DEF BytesOf
  <2>6. Cardinality(BytesOf(C \cup S))
          = Cardinality(BytesOf(C)) + Cardinality(BytesOf(S))
    BY <2>1, <2>5, BytesFinite, DisjointUnion
  <2> QED
    BY <2>1, <2>2, <2>3, <2>4, <2>6 DEF ProgressAccounted
<1> QED
  BY <1>1, <1>2, <1>3, ProgressSteps

-----------------------------------------------------------------------------
(* The counters are exact.                                                  *)

LEMMA InitCounters == Init => CountersExact
<1> SUFFICES ASSUME Init PROVE CountersExact
  OBVIOUS
<1>1. \A t \in Torrent : /\ pieces[t] = AllFree
                         /\ numComplete[t] = 0 /\ downloaded[t] = 0
                         /\ activePeers[t] = 0
                         /\ \A p \in Slot : /\ ~peer[t][p].sock
                                            /\ peer[t][p].piece = None
  BY DEF Init, Closed
<1>2. AllBuffers = {} /\ assembly = 0
  BY <1>1 DEF AllBuffers, Init
<1>3. MemoryAccounted
  BY <1>2, AllBuffersProperties, EngineAssumption, FS_EmptySet
  DEF MemoryAccounted
<1>4. PeersAccounted
  <2>1. \A t \in Torrent : Connected(t) = {}
    BY <1>1 DEF Connected
  <2> QED
    BY <1>1, <2>1, FS_EmptySet DEF PeersAccounted
<1>5. ProgressAccounted
  <2>1. CompleteIn(AllFree) = {} /\ BytesOf({}) = {}
    BY CompleteAfter DEF BytesOf
  <2> QED
    BY <1>1, <2>1, FS_EmptySet DEF ProgressAccounted
<1> QED
  BY <1>3, <1>4, <1>5 DEF CountersExact

LEMMA NextCounters ==
  Typing /\ Ownership /\ CountersExact /\ [Next]_vars => CountersExact'
<1> SUFFICES ASSUME Typing, Ownership, CountersExact, [Next]_vars
             PROVE  CountersExact'
  OBVIOUS
<1>1. CASE UNCHANGED vars
  <2>1. UNCHANGED <<assembly, activePeers, numComplete, downloaded, pieces,
                    peer>>
    BY <1>1 DEF vars
  <2>2. AllBuffers' = AllBuffers
    BY <2>1 DEF AllBuffers
  <2>3. MemoryAccounted'
    BY <2>1 DEF CountersExact, MemoryAccounted, Buffers
  <2> QED
    BY <2>1, <2>3
    DEF CountersExact, PeersAccounted, ProgressAccounted, Connected
<1>2. CASE Next
  BY <1>2, MemoryStep, PeersStep, ProgressStep DEF CountersExact
<1> QED
  BY <1>1, <1>2

LEMMA CountersInvariant == Spec => [](Typing /\ Ownership /\ CountersExact)
<1>1. Init => CountersExact
  BY InitCounters
<1>2. Typing /\ Ownership /\ CountersExact /\ [Next]_vars => CountersExact'
  BY NextCounters
<1> QED
  BY <1>1, <1>2, OwnershipInvariant, PTL DEF Spec

(* assembly_bytes, active_peers, num_complete and downloaded are what they  *)
(* count, and the buffers of all torrents stay within the limit.            *)
THEOREM CountersAreExact == Spec => []CountersExact
  BY CountersInvariant, PTL

-----------------------------------------------------------------------------
(* What is saved is kept.                                                   *)

(* The tick ends downloads, and does nothing else to a torrent's state.     *)
LEMMA TickStates ==
  ASSUME Typing, Ownership, Worker \/ Tick
  PROVE  /\ UNCHANGED <<file, generation, nextGeneration>>
         /\ \/ UNCHANGED state
            \/ \E t \in Torrent : /\ Downloading(t)
                                  /\ state' = [state EXCEPT ![t] = "error"]
            \/ \E t \in Torrent : FinishTorrent(t) /\ Downloading(t)
         /\ \A u \in Torrent : state[u] = "absent" <=> state'[u] = "absent"
<1>1. main.at \in {"recv", "request"} => Cur \in Torrent /\ Downloading(Cur)
  BY NowTyping DEF Ownership, VisitsConnected, Cur
<1>2. /\ UNCHANGED <<file, generation, nextGeneration>>
      /\ \/ UNCHANGED state
         \/ \E t \in Torrent : /\ Downloading(t)
                               /\ state' = [state EXCEPT ![t] = "error"]
         \/ \E t \in Torrent : FinishTorrent(t) /\ Downloading(t)
  <2>1. CASE UNCHANGED <<state, lifeVars>>
    BY <2>1 DEF lifeVars
  <2>2. CASE Worker \/ StartTick
    BY <2>1, <2>2 DEF Worker, FetchWebSeed, StartTick
  <2>3. CASE CollectStage
    BY <2>1, <2>3
    DEF CollectStage, DiscardWebSeed, FailWebSeed, CollectWebSeed,
        EndCollectWebSeed, AdoptPeer, EndCollectPeers
  <2>4. CASE TorrentStage
    <3>1. ASSUME NEW t \in Torrent, FinishTorrent(t)
          PROVE  Downloading(t) /\ UNCHANGED lifeVars
      BY <3>1 DEF FinishTorrent, Ownership, VisitsConnected
    <3>2. CASE \E t \in Torrent : FinishTorrent(t)
      BY <3>1, <3>2 DEF lifeVars
    <3> QED
      BY <2>1, <2>4, <3>2
      DEF TorrentStage, VisitTorrent, EndTick, ScheduleWebSeed, EndSchedule
  <2>5. CASE PeerStage
    <3>1. CASE \/ \E i \in Piece : RequestTooLarge(i)
               \/ \E intact \in BOOLEAN : RecvUnwritablePiece(intact)
      BY <1>1, <3>1
      DEF RequestTooLarge, RecvUnwritablePiece, MayRequest, LastBlock, lifeVars
    <3>2. CASE \/ \E p \in Slot : TimeOutPeer(p) \/ VisitPeer(p)
               \/ EndPeers \/ RecvChoke \/ RecvUnchoke \/ RecvIgnored \/ RecvBad
               \/ \E bits \in SUBSET Piece : RecvBitfield(bits)
               \/ \E i \in Piece : RecvHave(i) \/ RequestPiece(i)
               \/ \E intact \in BOOLEAN : \/ RecvBlock(intact)
                                          \/ RecvCorruptPiece(intact)
                                          \/ RecvPiece(intact)
               \/ EndRecv \/ RequestNothing \/ RequestBlock \/ RequestFails
      BY <2>1, <3>2
      DEF TimeOutPeer, VisitPeer, EndPeers, RecvChoke, RecvUnchoke,
          RecvIgnored, RecvBad, RecvBitfield, RecvHave, RequestPiece,
          RecvBlock, RecvCorruptPiece, RecvPiece, EndRecv, RequestNothing,
          RequestBlock, RequestFails
    <3> QED
      BY <2>5, <3>1, <3>2 DEF PeerStage
  <2> QED
    BY <2>2, <2>3, <2>4, <2>5 DEF Tick
<1>3. \A t \in Torrent : FinishTorrent(t) => state' = [state EXCEPT ![t] = "done"]
  BY DEF FinishTorrent
<1>4. \A u \in Torrent : state[u] = "absent" <=> state'[u] = "absent"
  BY <1>2, <1>3 DEF Downloading, Typing, TypeOK
<1> QED
  BY <1>2, <1>4

(* Files belong to torrents from their addition to their removal.           *)
LEMMA FileSteps ==
  ASSUME Typing, Ownership, Filing, Next
  PROVE  /\ Filing'
         /\ \A t \in Torrent : CompleteIn(pieces'[t]) # {}
                                 => file'[t] = file[t] /\ file[t] \in File
<1>1. \A t \in Torrent : CompleteIn(pieces[t]) # {} => state[t] # "absent"
  BY DEF Ownership, Holding, UnpreparedIsIdle
<1>2. ASSUME NEW t \in Torrent, NEW f \in File, Add(t, f)
      PROVE  /\ Filing'
             /\ \A u \in Torrent : CompleteIn(pieces'[u]) # {}
                                     => file'[u] = file[u] /\ file[u] \in File
  <2>1. /\ state[t] = "absent" /\ UNCHANGED pieces
        /\ AddOnce => \A u \in Torrent : file[u] # f
        /\ \A u \in Torrent :
             /\ state'[u] = IF u = t THEN "stopped" ELSE state[u]
             /\ file'[u] = IF u = t THEN f ELSE file[u]
    BY <1>2 DEF Add, progressVars, Typing, TypeOK
  <2> QED
    BY <1>1, <2>1 DEF Filing, HasFile, FilesApart
<1>3. ASSUME NEW t \in Torrent, Remove(t)
      PROVE  /\ Filing'
             /\ \A u \in Torrent : CompleteIn(pieces'[u]) # {}
                                     => file'[u] = file[u] /\ file[u] \in File
  <2>1. \A u \in Torrent :
          /\ state'[u] = IF u = t THEN "absent" ELSE state[u]
          /\ file'[u] = IF u = t THEN None ELSE file[u]
          /\ pieces'[u] = IF u = t THEN AllFree ELSE pieces[u]
    BY <1>3 DEF Remove, Typing, TypeOK
  <2> QED
    BY <1>1, <2>1, CompleteAfter DEF Filing, HasFile, FilesApart
<1>4. ASSUME UNCHANGED file,
             \A u \in Torrent : state[u] = "absent" <=> state'[u] = "absent",
             \/ ProgressKept
             \/ \E t \in Torrent : ProgressReset(t)
             \/ \E t \in Torrent : \E S \in SUBSET Piece : ProgressMade(t, S)
      PROVE  /\ Filing'
             /\ \A u \in Torrent : CompleteIn(pieces'[u]) # {}
                                     => file'[u] = file[u] /\ file[u] \in File
  <2>1. Filing'
    BY <1>4 DEF Filing, HasFile, FilesApart
  <2>2. CASE ProgressKept
    BY <1>1, <1>4, <2>1, <2>2 DEF ProgressKept, Filing, HasFile
  <2>3. ASSUME NEW t \in Torrent, ProgressReset(t), NEW u \in Torrent,
               CompleteIn(pieces'[u]) # {}
        PROVE  file[u] \in File
    <3>1. pieces'[u] = IF u = t THEN AllFree ELSE pieces[u]
      BY <2>3 DEF ProgressReset, Typing, TypeOK
    <3> QED
      BY <1>1, <2>3, <3>1, CompleteAfter DEF Filing, HasFile
  <2>4. ASSUME NEW t \in Torrent, NEW S \in SUBSET Piece, ProgressMade(t, S),
               NEW u \in Torrent, CompleteIn(pieces'[u]) # {}
        PROVE  file[u] \in File
    BY <1>1, <2>4 DEF ProgressMade, Downloading, Filing, HasFile
  <2> QED
    BY <1>4, <2>1, <2>2, <2>3, <2>4
<1>5. CASE Handler
  <2>1. ASSUME NEW t \in Torrent,
               Stop(t) \/ \E outcome \in {"early", "file", "ok"} : Start(t, outcome)
        PROVE  /\ UNCHANGED file
               /\ \A u \in Torrent : state[u] = "absent" <=> state'[u] = "absent"
    <3>1. CASE Stop(t)
      BY <3>1 DEF Stop, Typing, TypeOK
    <3>2. ASSUME NEW outcome \in {"early", "file", "ok"}, Start(t, outcome)
          PROVE  /\ UNCHANGED file
                 /\ \A u \in Torrent :
                      state[u] = "absent" <=> state'[u] = "absent"
      BY <3>2 DEF Start, Typing, TypeOK
    <3> QED
      BY <2>1, <3>1, <3>2
  <2> QED
    BY <1>2, <1>3, <1>4, <1>5, <2>1, ProgressSteps DEF Handler
<1>6. CASE Worker \/ Tick
  <2>1. /\ UNCHANGED file
        /\ \A u \in Torrent : state[u] = "absent" <=> state'[u] = "absent"
    BY <1>6, TickStates
  <2> QED
    BY <1>4, <2>1, ProgressSteps
<1> QED
  BY <1>5, <1>6 DEF Next

(* Nothing is written: what is complete stays, or a torrent begins anew.    *)
DiskKept ==
  UNCHANGED disk /\ (ProgressKept \/ \E t \in Torrent : ProgressReset(t))

(* Torrent t starts: its file is opened and truncated.                      *)
DiskTruncated(t) ==
  /\ state[t] \in {"stopped", "error"} /\ state'[t] = "downloading"
  /\ file[t] \in File /\ ProgressReset(t)
  /\ disk' = [disk EXCEPT ![file[t]] = EmptyFile]

(* Torrent t downloads and writes its file: pieces that become complete are *)
(* written right, and those that are complete not at all.                   *)
DiskWritten(t) ==
  /\ Downloading(t) /\ file[t] \in File
  /\ \A f \in File \ {file[t]} : disk'[f] = disk[f]
  /\ \A u \in Torrent \ {t} :
       /\ CompleteIn(pieces'[u]) = CompleteIn(pieces[u])
       /\ downloaded'[u] = downloaded[u]
  /\ \A i \in CompleteIn(pieces'[t]) :
       \/ disk'[file[t]][i] = "good"
       \/ /\ i \in CompleteIn(pieces[t])
          /\ disk'[file[t]][i] = disk[file[t]][i]

LEMMA WriteSteps ==
  ASSUME Typing, Ownership, HasFile
  PROVE  /\ \A intact \in BOOLEAN :
              RecvPiece(intact) \/ RecvUnwritablePiece(intact)
                => Cur \in Torrent /\ DiskWritten(Cur)
         /\ \A s \in WebSlot, t \in Torrent, fault \in Piece \cup {None} :
              CollectWebSeed(s, t, fault) => DiskWritten(t)
<1>1. \A t \in Torrent : Downloading(t) => file[t] \in File
  BY DEF HasFile, Downloading
<1>2. disk \in [File -> [Piece -> Content]]
  BY DEF Typing, TypeOK
<1>3. ASSUME NEW intact \in BOOLEAN,
             RecvPiece(intact) \/ RecvUnwritablePiece(intact)
      PROVE  Cur \in Torrent /\ DiskWritten(Cur)
  <2>1. main.at = "recv" /\ Now.piece # None /\ Assembled(intact)
    BY <1>3 DEF RecvPiece, RecvUnwritablePiece, LastBlock, Awaited
  <2>2. /\ Cur \in Torrent /\ main.slot \in Slot
        /\ Now.piece \in Piece /\ peer[Cur][main.slot].piece = Now.piece
    BY <2>1, NowTyping DEF Now, Cur
  <2>3. Downloading(Cur) /\ file[Cur] \in File
    BY <1>1, <2>1, <2>2 DEF Ownership, VisitsConnected, Cur
  <2>4. pieces[Cur][Now.piece] = "requested"
    BY <2>1, <2>2 DEF Ownership, Holding, PeersHoldRequested
  <2>5. CASE RecvPiece(intact)
    <3>1. ProgressMade(Cur, {Now.piece})
      BY <2>5, GainSteps
    <3>2. disk' = [disk EXCEPT ![file[Cur]][Now.piece] = "good"]
      BY <2>1, <2>5 DEF RecvPiece, Assembled
    <3>3. /\ \A f \in File \ {file[Cur]} : disk'[f] = disk[f]
          /\ \A i \in Piece :
               disk'[file[Cur]][i] = IF i = Now.piece THEN "good"
                                                      ELSE disk[file[Cur]][i]
      BY <1>2, <2>2, <2>3, <3>2
    <3>4. \A u \in Torrent :
            CompleteIn(pieces'[u]) =
              IF u = Cur THEN CompleteIn(pieces[Cur]) \cup {Now.piece}
                         ELSE CompleteIn(pieces[u])
      BY <3>1 DEF ProgressMade
    <3>5. \A u \in Torrent \ {Cur} : downloaded'[u] = downloaded[u]
      BY <2>2, <3>1 DEF ProgressMade, Typing, TypeOK
    <3>6. CompleteIn(pieces[Cur]) \subseteq Piece
      BY DEF CompleteIn
    <3> QED
      BY <2>2, <2>3, <3>3, <3>4, <3>5, <3>6 DEF DiskWritten
  <2>6. CASE RecvUnwritablePiece(intact)
    <3>1. disk' = [disk EXCEPT ![file[Cur]][Now.piece] = "bad"]
      BY <2>6 DEF RecvUnwritablePiece
    <3>2. Disconnect(Cur, {main.slot}) /\ UNCHANGED <<numComplete, downloaded>>
      BY <2>6 DEF RecvUnwritablePiece
    <3>3. ProgressKept
      BY <2>2, <3>2, FreedKeeps DEF Disconnect
    <3>4. /\ \A f \in File \ {file[Cur]} : disk'[f] = disk[f]
          /\ \A i \in Piece : i # Now.piece =>
               disk'[file[Cur]][i] = disk[file[Cur]][i]
      BY <1>2, <2>2, <2>3, <3>1
    <3>5. \A i \in CompleteIn(pieces[Cur]) : i \in Piece /\ i # Now.piece
      BY <2>4 DEF CompleteIn
    <3> QED
      BY <2>2, <2>3, <3>3, <3>4, <3>5 DEF DiskWritten, ProgressKept
  <2> QED
    BY <1>3, <2>2, <2>5, <2>6
<1>4. ASSUME NEW s \in WebSlot, NEW t \in Torrent,
             NEW fault \in Piece \cup {None}, CollectWebSeed(s, t, fault)
      PROVE  DiskWritten(t)
  <2> DEFINE saved == Saved(s, t, fault)
             good == webJob[s].good
  <2>1. /\ disk' = [disk EXCEPT ![file[t]] = AfterWrites(@, saved, fault, good)]
        /\ fault = None \/ fault \in webJob[s].batch \ CompleteIn(pieces[t])
        /\ saved \subseteq good
    BY <1>4 DEF CollectWebSeed, Verifies
  <2>2. saved \in SUBSET Piece /\ ProgressMade(t, saved)
    BY <1>4, GainSteps
  <2>3. Downloading(t) /\ file[t] \in File
    BY <1>1, <2>2 DEF ProgressMade
  <2> HIDE DEF saved, good
  <2>4. /\ \A f \in File \ {file[t]} : disk'[f] = disk[f]
        /\ disk'[file[t]] = AfterWrites(disk[file[t]], saved, fault, good)
    BY <1>2, <2>1, <2>3
  <2>5. ASSUME NEW i \in saved PROVE disk'[file[t]][i] = "good"
    <3>1. i \in Piece /\ i \in saved \cap good /\ i \notin saved \ good
      BY <2>1, <2>2
    <3>2. i # fault
      <4>1. i # None /\ (fault = None \/ i < fault)
        BY <3>1, EngineAssumption DEF saved, Saved
      <4>2. i \in Int /\ (fault # None => fault \in Int)
        BY <3>1 DEF Piece
      <4> QED
        BY <4>1, <4>2
    <3> QED
      BY <2>4, <3>1, <3>2 DEF AfterWrites
  <2>6. ASSUME NEW i \in CompleteIn(pieces[t])
        PROVE  disk'[file[t]][i] = disk[file[t]][i]
    <3>1. i \in Piece /\ i # None /\ i # fault /\ i \notin saved
      BY <2>1, <2>2, EngineAssumption DEF ProgressMade, CompleteIn
    <3> QED
      BY <2>4, <3>1 DEF AfterWrites
  <2>7. \A u \in Torrent :
          CompleteIn(pieces'[u]) = IF u = t THEN CompleteIn(pieces[t]) \cup saved
                                            ELSE CompleteIn(pieces[u])
    BY <2>2 DEF ProgressMade
  <2>8. \A u \in Torrent \ {t} : downloaded'[u] = downloaded[u]
    BY <2>2 DEF ProgressMade, Typing, TypeOK
  <2> QED
    BY <2>3, <2>4, <2>5, <2>6, <2>7, <2>8 DEF DiskWritten
<1> QED
  BY <1>3, <1>4

(* Every step is of one of these three kinds.                               *)
LEMMA DiskSteps ==
  ASSUME Typing, Ownership, HasFile, Next
  PROVE  \/ DiskKept
         \/ \E t \in Torrent : DiskTruncated(t)
         \/ \E t \in Torrent : DiskWritten(t)
<1>1. ASSUME NEW t \in Torrent, NEW outcome \in {"early", "file", "ok"},
             Start(t, outcome)
      PROVE  DiskKept \/ DiskTruncated(t)
  <2>1. ProgressReset(t)
    BY <1>1, HandlerProgress
  <2>2. CASE outcome = "ok"
    <3>1. /\ state[t] \in {"stopped", "error"}
          /\ state' = [state EXCEPT ![t] = "downloading"]
          /\ disk' = [disk EXCEPT ![file[t]] = EmptyFile]
      BY <1>1, <2>2 DEF Start
    <3> QED
      BY <2>1, <3>1 DEF DiskTruncated, HasFile, Typing, TypeOK
  <2>3. CASE outcome # "ok"
    BY <1>1, <2>1, <2>3 DEF Start, DiskKept
  <2> QED
    BY <2>2, <2>3
<1>2. CASE Handler
  <2>1. ASSUME NEW t \in Torrent, (\E f \in File : Add(t, f)) \/ Stop(t)
        PROVE  DiskKept
    BY <2>1, HandlerProgress DEF DiskKept, Add, Stop, progressVars
  <2>2. ASSUME NEW t \in Torrent, Remove(t) PROVE DiskKept
    BY <2>2, HandlerProgress DEF DiskKept, Remove
  <2> QED
    BY <1>1, <1>2, <2>1, <2>2 DEF Handler
<1>3. ASSUME Worker \/ Tick,
             ~ \E intact \in BOOLEAN : RecvPiece(intact),
             ~ \E intact \in BOOLEAN : RecvUnwritablePiece(intact),
             ~ \E s \in WebSlot, t \in Torrent, fault \in Piece \cup {None} :
                 CollectWebSeed(s, t, fault)
      PROVE  DiskKept
  <2>1. ProgressKept
    BY <1>3, OtherProgress
  <2>2. CASE Worker \/ StartTick
    BY <2>1, <2>2 DEF DiskKept, Worker, FetchWebSeed, StartTick, progressVars
  <2>3. CASE CollectStage
    BY <1>3, <2>1, <2>3
    DEF DiskKept, CollectStage, DiscardWebSeed, FailWebSeed,
        EndCollectWebSeed, AdoptPeer, EndCollectPeers, progressVars
  <2>4. CASE TorrentStage
    BY <2>1, <2>4
    DEF DiskKept, TorrentStage, FinishTorrent, VisitTorrent, EndTick,
        ScheduleWebSeed, EndSchedule, progressVars
  <2>5. CASE PeerStage
    BY <1>3, <2>1, <2>5
    DEF DiskKept, PeerStage, TimeOutPeer, VisitPeer, EndPeers, RecvChoke,
        RecvUnchoke, RecvIgnored, RecvBad, RecvBitfield, RecvHave, RecvBlock,
        RecvCorruptPiece, EndRecv, RequestNothing, RequestTooLarge,
        RequestPiece, RequestBlock, RequestFails, progressVars
  <2> QED
    BY <1>3, <2>2, <2>3, <2>4, <2>5 DEF Tick
<1> QED
  BY <1>2, <1>3, WriteSteps DEF Next

(* A torrent is declared done when its counter says so, and the counter is  *)
(* right.                                                                   *)
LEMMA DoneMeansComplete ==
  ASSUME Typing, CountersExact, NEW t \in Torrent, IsDone(numComplete[t])
  PROVE  CompleteIn(pieces[t]) = Piece
<1>1. numComplete[t] = Cardinality(CompleteIn(pieces[t]))
  BY DEF CountersExact, ProgressAccounted
<1>2. CompleteIn(pieces[t]) \in SUBSET Piece
  BY DEF CompleteIn
<1>3. IsFiniteSet(Piece) /\ Cardinality(Piece) = NumPieces
  <2>1. 0 \in Int /\ NumPieces - 1 \in Int /\ ~ 0 > NumPieces - 1
        /\ (NumPieces - 1) - 0 + 1 = NumPieces
    BY PiecesAssumption
  <2> QED
    BY <2>1, FS_Interval DEF Piece
<1>4. /\ Cardinality(CompleteIn(pieces[t])) \in Nat
      /\ Cardinality(CompleteIn(pieces[t])) <= NumPieces
      /\ NumPieces = Cardinality(CompleteIn(pieces[t]))
           => CompleteIn(pieces[t]) = Piece
  BY <1>2, <1>3, FS_Subset, FS_CardinalityType
<1> QED
  BY <1>1, <1>4, PiecesAssumption DEF IsDone

LEMMA DoneStep ==
  ASSUME Typing, Ownership, CountersExact, DoneIsComplete, Next
  PROVE  DoneIsComplete'
<1> SUFFICES ASSUME NEW t \in Torrent, state'[t] = "done"
             PROVE  CompleteIn(pieces'[t]) = Piece
  BY DEF DoneIsComplete
<1>1. \A pm \in PieceMap : CompleteIn(pm) \in SUBSET Piece
  BY CompleteAfter
<1>2. CASE Handler
  <2>1. PICK u \in Torrent :
          \/ \E f \in File : Add(u, f)
          \/ \E outcome \in {"early", "file", "ok"} : Start(u, outcome)
          \/ Stop(u)
          \/ Remove(u)
    BY <1>2 DEF Handler
  <2>2. u # t /\ state[t] = "done"
    <3>1. \E next \in {"stopped", "downloading", "error", "absent"} :
            state' = [state EXCEPT ![u] = next]
      BY <2>1 DEF Add, Start, Stop, Remove
    <3> QED
      BY <3>1 DEF Typing, TypeOK
  <2>3. CompleteIn(pieces'[t]) = CompleteIn(pieces[t])
    BY <2>1, <2>2, HandlerProgress
    DEF ProgressKept, ProgressReset, Typing, TypeOK
  <2> QED
    BY <2>2, <2>3 DEF DoneIsComplete
<1>3. CASE Worker \/ Tick
  <2>1. CASE ~ \E u \in Torrent : FinishTorrent(u) /\ Downloading(u)
    <3>1. state[t] = "done"
      BY <1>3, <2>1, TickStates DEF Typing, TypeOK
    <3>2. CompleteIn(pieces[t]) = Piece
      BY <3>1 DEF DoneIsComplete
    <3>3. CASE ProgressKept
      BY <3>2, <3>3 DEF ProgressKept
    <3>4. CASE \E u \in Torrent, S \in SUBSET Piece : ProgressMade(u, S)
      BY <3>1, <3>2, <3>4 DEF ProgressMade, Downloading
    <3> QED
      BY <1>3, <3>3, <3>4, OtherProgress, GainSteps
  <2>2. ASSUME NEW u \in Torrent, FinishTorrent(u)
        PROVE  CompleteIn(pieces'[t]) = Piece
    <3>1. /\ state' = [state EXCEPT ![u] = "done"]
          /\ IsDone(numComplete[u])
          /\ Disconnect(u, Slot) /\ UNCHANGED <<numComplete, downloaded>>
      BY <2>2 DEF FinishTorrent
    <3>2. CompleteIn(pieces'[t]) = CompleteIn(pieces[t])
      BY <3>1, FreedKeeps DEF Disconnect, ProgressKept
    <3>3. CASE t = u
      BY <3>1, <3>2, <3>3, DoneMeansComplete
    <3>4. CASE t # u
      BY <3>1, <3>2, <3>4 DEF DoneIsComplete, Typing, TypeOK
    <3> QED
      BY <3>3, <3>4
  <2> QED
    BY <2>1, <2>2
<1> QED
  BY <1>2, <1>3 DEF Next

LEMMA SavedStep ==
  ASSUME Typing, Ownership, Filing, CompleteIsSaved, AddOnce, Next
  PROVE  CompleteIsSaved'
<1> SUFFICES ASSUME NEW t \in Torrent, NEW i \in CompleteIn(pieces'[t])
             PROVE  disk'[file'[t]][i] = "good"
  BY DEF CompleteIsSaved
<1>1. file'[t] = file[t] /\ file[t] \in File
  BY FileSteps
<1>2. \A u \in Torrent : file[u] = file[t] => u = t
  BY <1>1, EngineAssumption DEF Filing, FilesApart
<1>3. \A k \in CompleteIn(pieces[t]) : disk[file[t]][k] = "good"
  BY DEF CompleteIsSaved
<1>4. ASSUME NEW u \in Torrent, ProgressReset(u)
      PROVE  u # t /\ i \in CompleteIn(pieces[t])
  BY <1>4, CompleteAfter DEF ProgressReset, Typing, TypeOK
<1>5. CASE DiskKept
  BY <1>1, <1>3, <1>4, <1>5 DEF DiskKept, ProgressKept
<1>6. ASSUME NEW u \in Torrent, DiskTruncated(u)
      PROVE  disk'[file'[t]][i] = "good"
  <2>1. u # t /\ i \in CompleteIn(pieces[t])
    BY <1>4, <1>6 DEF DiskTruncated
  <2> QED
    BY <1>1, <1>2, <1>3, <1>6, <2>1 DEF DiskTruncated, Typing, TypeOK
<1>7. ASSUME NEW u \in Torrent, DiskWritten(u)
      PROVE  disk'[file'[t]][i] = "good"
  <2>1. CASE u = t
    BY <1>1, <1>3, <1>7, <2>1 DEF DiskWritten
  <2>2. CASE u # t
    BY <1>1, <1>2, <1>3, <1>7, <2>2 DEF DiskWritten
  <2> QED
    BY <2>1, <2>2
<1> QED
  BY <1>5, <1>6, <1>7, DiskSteps DEF Filing

(* The inductive invariant of the engine.                                   *)
EngineInv == Typing /\ Ownership /\ CountersExact /\ Saving

LEMMA InitSaving == Init => Saving
<1> SUFFICES ASSUME Init PROVE Saving
  OBVIOUS
<1>1. \A t \in Torrent : /\ state[t] = "absent" /\ file[t] = None
                         /\ CompleteIn(pieces[t]) = {}
  BY CompleteAfter DEF Init
<1> QED
  BY <1>1 DEF Saving, Filing, HasFile, FilesApart, DoneIsComplete,
              CompleteIsSaved

LEMMA EngineInvHolds == Spec => []EngineInv
<1>1. Init => Saving
  BY InitSaving
<1>2. Typing /\ Ownership /\ CountersExact /\ Saving /\ [Next]_vars => Saving'
  <2> SUFFICES ASSUME Typing, Ownership, CountersExact, Saving, [Next]_vars
               PROVE  Saving'
    OBVIOUS
  <2>1. CASE UNCHANGED vars
    BY <2>1 DEF vars, Saving, Filing, HasFile, FilesApart, DoneIsComplete,
                CompleteIsSaved
  <2>2. CASE Next
    BY <2>2, FileSteps, DoneStep, SavedStep DEF Saving
  <2> QED
    BY <2>1, <2>2
<1> QED
  BY <1>1, <1>2, CountersInvariant, PTL DEF Spec, EngineInv

(* A complete piece is in the torrent's file, verified.                     *)
THEOREM CompletePiecesAreSaved == ASSUME AddOnce PROVE Spec => []CompleteIsSaved
<1>1. EngineInv => CompleteIsSaved
  BY DEF EngineInv, Saving
<1> QED
  BY <1>1, EngineInvHolds, PTL

(* A torrent that is done has every piece in its file, verified.            *)
THEOREM DoneTorrentsAreSaved == ASSUME AddOnce PROVE Spec => []DoneIsSaved
<1>1. EngineInv => DoneIsSaved
  BY DEF EngineInv, Saving, DoneIsComplete, CompleteIsSaved, DoneIsSaved
<1> QED
  BY <1>1, EngineInvHolds, PTL

(* The moment a torrent becomes done, every piece is in its file.           *)
THEOREM SavedAtCompletion == ASSUME AddOnce PROVE Spec => SavedWhenDeclared
<1>1. ASSUME EngineInv, [Next]_vars, NEW t \in Torrent,
             state[t] # "done", state'[t] = "done", NEW i \in Piece
      PROVE  disk[file[t]][i] = "good"
  <2>1. Next
    BY <1>1 DEF vars
  <2>2. CASE Handler
    <3>1. \E u \in Torrent,
             next \in {"stopped", "downloading", "error", "absent"} :
               state' = [state EXCEPT ![u] = next]
      BY <2>2 DEF Handler, Add, Start, Stop, Remove
    <3> QED
      BY <1>1, <3>1 DEF EngineInv, Typing, TypeOK
  <2>3. CASE Worker \/ Tick
    <3>1. FinishTorrent(t)
      <4>1. \/ UNCHANGED state
            \/ \E u \in Torrent : state' = [state EXCEPT ![u] = "error"]
            \/ \E u \in Torrent : FinishTorrent(u)
        BY <1>1, <2>3, TickStates DEF EngineInv
      <4>2. PICK u \in Torrent : FinishTorrent(u)
        BY <1>1, <4>1 DEF EngineInv, Typing, TypeOK
      <4>3. state' = [state EXCEPT ![u] = "done"]
        BY <4>2 DEF FinishTorrent
      <4>4. u = t
        BY <1>1, <4>3 DEF EngineInv, Typing, TypeOK
      <4> QED
        BY <4>2, <4>4
    <3>2. CompleteIn(pieces[t]) = Piece
      BY <1>1, <3>1, DoneMeansComplete DEF FinishTorrent, EngineInv
    <3> QED
      BY <1>1, <3>2 DEF EngineInv, Saving, CompleteIsSaved
  <2> QED
    BY <2>1, <2>2, <2>3 DEF Next
<1>2. EngineInv /\ [Next]_vars =>
        [\A t \in Torrent : state[t] # "done" /\ state'[t] = "done" =>
           \A i \in Piece : disk[file[t]][i] = "good"]_vars
  BY <1>1
<1> QED
  BY <1>2, EngineInvHolds, PTL DEF Spec, SavedWhenDeclared

-----------------------------------------------------------------------------
(* What no step may do.                                                     *)

(* A start that changes no generation is that of a torrent with nothing yet.*)
LEMMA QuietReset ==
  ASSUME EngineInv, Next, NEW t \in Torrent, ProgressReset(t),
         state'[t] = state[t], nextGeneration' = nextGeneration,
         state[t] \in {"stopped", "done", "error"}
  PROVE  /\ CompleteIn(pieces'[t]) = CompleteIn(pieces[t])
         /\ downloaded'[t] = downloaded[t]
<1>1. pieces'[t] = AllFree /\ downloaded'[t] = 0
  BY DEF ProgressReset, EngineInv, Typing, TypeOK
<1>2. CompleteIn(AllFree) = {} /\ BytesOf({}) = {}
  BY CompleteAfter DEF BytesOf
<1>3. CompleteIn(pieces[t]) = {} => downloaded[t] = 0
  BY <1>2, FS_EmptySet DEF EngineInv, CountersExact, ProgressAccounted
<1>4. CompleteIn(pieces[t]) = CompleteIn(pieces'[t])
  <2>1. CASE Handler
    <3>1. PICK u \in Torrent :
            \/ \E f \in File : Add(u, f)
            \/ \E outcome \in {"early", "file", "ok"} : Start(u, outcome)
            \/ Stop(u)
            \/ Remove(u)
      BY <2>1 DEF Handler
    <3>2. nextGeneration \in Int
      BY DEF EngineInv, Typing, TypeOK
    <3>3. \E outcome \in {"early", "file", "ok"} :
            Start(u, outcome) /\ ~prepared[u]
      BY <3>1, <3>2 DEF Add, Start, Stop, Remove
    <3>4. CASE u = t
      BY <1>1, <1>2, <3>3, <3>4
      DEF EngineInv, Ownership, Holding, UnpreparedIsIdle
    <3>5. CASE u # t
      BY <3>3, <3>5 DEF Start, EngineInv, Typing, TypeOK
    <3> QED
      BY <3>4, <3>5
  <2>2. CASE Worker \/ Tick
    <3>1. CASE ProgressKept
      BY <3>1 DEF ProgressKept
    <3>2. ASSUME NEW u \in Torrent, NEW S \in SUBSET Piece, ProgressMade(u, S)
          PROVE  CompleteIn(pieces[t]) = CompleteIn(pieces'[t])
      BY <3>2 DEF ProgressMade, Downloading
    <3> QED
      BY <2>2, <3>1, <3>2, OtherProgress, GainSteps DEF EngineInv
  <2> QED
    BY <2>1, <2>2 DEF Next
<1> QED
  BY <1>1, <1>2, <1>3, <1>4

(* A torrent at rest or in error keeps its progress and its file, whatever  *)
(* jobs of its earlier runs are still to be collected.                      *)
THEOREM RestingTorrentsAreFrozen == ASSUME AddOnce PROVE Spec => RestIsFrozen
<1> DEFINE Resting(t) == /\ state[t] \in {"stopped", "done", "error"}
                         /\ state'[t] = state[t]
                         /\ nextGeneration' = nextGeneration
           Frozen(t) == /\ CompleteIn(pieces'[t]) = CompleteIn(pieces[t])
                        /\ downloaded'[t] = downloaded[t]
                        /\ disk'[file[t]] = disk[file[t]]
<1>1. ASSUME EngineInv, Next, NEW t \in Torrent, Resting(t)
      PROVE  Frozen(t)
  <2>1. file[t] \in File /\ \A u \in Torrent : file[u] = file[t] => u = t
    BY <1>1, EngineAssumption
    DEF EngineInv, Saving, Filing, HasFile, FilesApart
  <2>2. ~Downloading(t)
    BY <1>1 DEF Downloading
  <2>3. ASSUME NEW u \in Torrent, ProgressReset(u)
        PROVE  /\ CompleteIn(pieces'[t]) = CompleteIn(pieces[t])
               /\ downloaded'[t] = downloaded[t]
    <3>1. CASE u = t
      BY <1>1, <2>3, <3>1, QuietReset
    <3>2. CASE u # t
      BY <2>3, <3>2, <1>1 DEF ProgressReset, EngineInv, Typing, TypeOK
    <3> QED
      BY <3>1, <3>2
  <2>4. CASE DiskKept
    BY <2>3, <2>4 DEF DiskKept, ProgressKept
  <2>5. ASSUME NEW u \in Torrent, DiskTruncated(u) PROVE Frozen(t)
    <3>1. u # t
      BY <1>1, <2>5 DEF DiskTruncated
    <3>2. disk'[file[t]] = disk[file[t]]
      BY <1>1, <2>1, <2>5, <3>1 DEF DiskTruncated, EngineInv, Typing, TypeOK
    <3> QED
      BY <2>3, <2>5, <3>2 DEF DiskTruncated
  <2>6. ASSUME NEW u \in Torrent, DiskWritten(u) PROVE Frozen(t)
    <3>1. u # t
      BY <2>2, <2>6 DEF DiskWritten
    <3> QED
      BY <2>1, <2>6, <3>1 DEF DiskWritten
  <2> QED
    BY <1>1, <2>4, <2>5, <2>6, DiskSteps DEF EngineInv, Saving, Filing
<1>2. EngineInv /\ [Next]_vars =>
        [\A t \in Torrent :
           state[t] \in {"stopped", "done", "error"} /\ state'[t] = state[t]
             /\ nextGeneration' = nextGeneration
           => /\ CompleteIn(pieces'[t]) = CompleteIn(pieces[t])
              /\ downloaded'[t] = downloaded[t]
              /\ disk'[file[t]] = disk[file[t]]]_vars
  BY <1>1
<1> QED
  BY <1>2, EngineInvHolds, PTL DEF Spec, RestIsFrozen

(* A peer that stays connected keeps what it has sent of a piece until the  *)
(* piece is complete.                                                       *)
THEOREM BlocksAreNeverLost == Spec => BlocksAreKept
<1> DEFINE Keeps(t, p) ==
             LET q == peer[t][p]
             IN q.piece # None /\ peer'[t][p].sock =>
                  \/ /\ peer'[t][p].piece = q.piece
                     /\ peer'[t][p].received >= q.received
                  \/ pieces'[t][q.piece] = "complete"
<1>1. ASSUME Typing, Ownership, Next, NEW t \in Torrent, NEW p \in Slot
      PROVE  Keeps(t, p)
  <2>1. peer[t][p].received >= peer[t][p].received
    BY <1>1, PiecesAssumption DEF Typing, TypeOK, PeerRecord, Received
  <2>2. CASE peer'[t][p] = peer[t][p]
    BY <2>1, <2>2
  <2>3. CASE PeerRefreshed
    BY <1>1, <2>3, KeptPeers
  <2>4. ASSUME NEW u \in Torrent, NEW P \in SUBSET Slot,
               Disconnect(u, P) \/ (P = Slot /\ CloseAll(u))
        PROVE  Keeps(t, p)
    BY <1>1, <2>2, <2>4, DroppedPeers
  <2>5. ASSUME NEW u \in Torrent, NEW q \in Slot, AdoptPeer(u, q)
        PROVE  Keeps(t, p)
    <3>1. peer[u][q].piece = None
      BY <1>1, <2>5, KeptPeers DEF Ownership, Holding, PeersHoldRequested
    <3> QED
      BY <1>1, <2>2, <2>5, <3>1, KeptPeers
  <2>6. ASSUME NEW intact \in BOOLEAN, RecvPiece(intact) PROVE Keeps(t, p)
    <3>1. CASE t = main.cur /\ p = main.slot
      <4>1. /\ Cur = t /\ peer[t][p] = Now
            /\ Now.piece \in Piece /\ ProgressMade(Cur, {Now.piece})
        BY <1>1, <2>6, <3>1, GainSteps DEF Now, Cur
      <4>2. Now.piece \in CompleteIn(pieces'[t])
        BY <4>1 DEF ProgressMade
      <4> QED
        BY <4>1, <4>2 DEF CompleteIn
    <3>2. CASE t # main.cur \/ p # main.slot
      BY <1>1, <2>2, <2>6, <3>2, KeptPeers
    <3> QED
      BY <3>1, <3>2
  <2>7. ASSUME NEW i \in Piece, RequestPiece(i) PROVE Keeps(t, p)
    BY <1>1, <2>2, <2>7, KeptPeers DEF Now
  <2> QED
    BY <1>1, <2>2, <2>3, <2>4, <2>5, <2>6, <2>7, PeerSteps
<1>2. Typing /\ Ownership /\ [Next]_vars =>
        [\A t \in Torrent, p \in Slot :
           LET q == peer[t][p]
           IN q.piece # None /\ peer'[t][p].sock =>
                \/ peer'[t][p].piece = q.piece /\ peer'[t][p].received >= q.received
                \/ pieces'[t][q.piece] = "complete"]_vars
  BY <1>1
<1> QED
  BY <1>2, OwnershipInvariant, PTL DEF Spec, BlocksAreKept

-----------------------------------------------------------------------------
(* The engine implements Download.                                          *)

(* The verified pieces of every torrent: what Download calls have.          *)
Have == [t \in Torrent |-> CompleteIn(pieces[t])]

(* Each kind of step, as the abstract specification sees it.                *)
LEMMA HaveAfter ==
  ASSUME Typing
  PROVE  /\ ProgressKept => Have' = Have
         /\ \A t \in Torrent : ProgressReset(t) =>
              Have' = [Have EXCEPT ![t] = {}]
         /\ \A t \in Torrent, S \in SUBSET Piece : ProgressMade(t, S) =>
              Have' = [Have EXCEPT ![t] = @ \cup S]
<1>1. ProgressKept => Have' = Have
  BY DEF ProgressKept, Have
<1>2. ASSUME NEW t \in Torrent, ProgressReset(t)
      PROVE  Have' = [Have EXCEPT ![t] = {}]
  <2>1. \A u \in Torrent : pieces'[u] = IF u = t THEN AllFree ELSE pieces[u]
    BY <1>2 DEF ProgressReset, Typing, TypeOK
  <2> QED
    BY <2>1, CompleteAfter DEF Have
<1>3. ASSUME NEW t \in Torrent, NEW S \in SUBSET Piece, ProgressMade(t, S)
      PROVE  Have' = [Have EXCEPT ![t] = @ \cup S]
  BY <1>3 DEF ProgressMade, Have
<1> QED
  BY <1>1, <1>2, <1>3

(* A handler's call is the abstract operation of its name.                  *)
LEMMA HandlerImplements ==
  ASSUME Typing, Handler
  PROVE  Promise!Next
<1>1. ASSUME NEW t \in Torrent, NEW f \in File, Add(t, f)
      PROVE  Promise!Add(t)
  <2>1. Have' = Have
    BY <1>1, HandlerProgress, HaveAfter
  <2> QED
    BY <1>1, <2>1 DEF Add, Promise!Add, Have
<1>2. ASSUME NEW t \in Torrent, NEW outcome \in {"early", "file", "ok"},
             Start(t, outcome)
      PROVE  \E next \in {"downloading", "error"} : Promise!Start(t, next)
  <2>1. Have' = [Have EXCEPT ![t] = {}]
    BY <1>2, HandlerProgress, HaveAfter
  <2>2. PICK next \in {"downloading", "error"} :
          state' = [state EXCEPT ![t] = next]
    BY <1>2 DEF Start
  <2> QED
    BY <1>2, <2>1, <2>2 DEF Start, Promise!Start, Have
<1>3. ASSUME NEW t \in Torrent, Stop(t) PROVE Promise!Stop(t)
  <2>1. Have' = Have
    BY <1>3, HandlerProgress, HaveAfter
  <2> QED
    BY <1>3, <2>1 DEF Stop, Promise!Stop, Have
<1>4. ASSUME NEW t \in Torrent, Remove(t) PROVE Promise!Remove(t)
  <2>1. Have' = [Have EXCEPT ![t] = {}]
    BY <1>4, HandlerProgress, HaveAfter
  <2> QED
    BY <1>4, <2>1 DEF Remove, Promise!Remove, Have
<1> QED
  BY <1>1, <1>2, <1>3, <1>4 DEF Handler, Promise!Next

(* A step of the tick gains pieces, finishes or fails a download, or does   *)
(* not show.                                                                *)
LEMMA TickImplements ==
  ASSUME Typing, Ownership, CountersExact, Worker \/ Tick
  PROVE  Promise!Next \/ UNCHANGED Promise!vars
<1>1. ASSUME NEW t \in Torrent, NEW S \in SUBSET Piece, ProgressMade(t, S)
      PROVE  Promise!Next \/ UNCHANGED Promise!vars
  <2>1. Have' = [Have EXCEPT ![t] = @ \cup S] /\ UNCHANGED state
        /\ Downloading(t)
    BY <1>1, HaveAfter DEF ProgressMade
  <2>2. CASE S = {}
    <3>1. Have' = Have
      BY <2>1, <2>2 DEF Have
    <3> QED
      BY <2>1, <3>1 DEF Promise!vars, Have
  <2>3. CASE S # {}
    <3>1. Promise!Gain(t, S)
      BY <2>1, <2>3 DEF Promise!Gain, Have, Downloading
    <3> QED
      BY <3>1 DEF Promise!Next
  <2> QED
    BY <2>2, <2>3
<1>2. CASE ProgressKept
  <2>1. Have' = Have
    BY <1>2, HaveAfter
  <2>2. CASE UNCHANGED state
    BY <2>1, <2>2 DEF Promise!vars, Have
  <2>3. ASSUME NEW t \in Torrent, Downloading(t),
               state' = [state EXCEPT ![t] = "error"]
        PROVE  Promise!Next
    <3>1. Promise!Fail(t)
      BY <2>1, <2>3 DEF Promise!Fail, Have, Downloading
    <3> QED
      BY <3>1 DEF Promise!Next
  <2>4. ASSUME NEW t \in Torrent, FinishTorrent(t), Downloading(t)
        PROVE  Promise!Next
    <3>1. CompleteIn(pieces[t]) = Piece /\ state' = [state EXCEPT ![t] = "done"]
      BY <2>4, DoneMeansComplete DEF FinishTorrent
    <3>2. Promise!Finish(t)
      BY <2>1, <2>4, <3>1 DEF Promise!Finish, Have, Downloading
    <3> QED
      BY <3>2 DEF Promise!Next
  <2> QED
    BY <2>2, <2>3, <2>4, TickStates
<1> QED
  BY <1>1, <1>2, GainSteps, OtherProgress

(* Whoever fetches the pieces, a download starts with nothing, gains        *)
(* verified pieces, never loses one, and is done exactly when it has all.   *)
THEOREM EngineImplementsDownload == Spec => ImplementsDownload
<1>1. Init => Promise!Init
  <2> SUFFICES ASSUME Init PROVE Promise!Init
    OBVIOUS
  <2>1. \A t \in Torrent : CompleteIn(pieces[t]) = {}
    BY CompleteAfter DEF Init
  <2> QED
    BY <2>1 DEF Init, Promise!Init
<1>2. Typing /\ Ownership /\ CountersExact /\ [Next]_vars
        => [Promise!Next]_(Promise!vars)
  <2> SUFFICES ASSUME Typing, Ownership, CountersExact, [Next]_vars
               PROVE  Promise!Next \/ UNCHANGED Promise!vars
    OBVIOUS
  <2>1. CASE UNCHANGED vars
    BY <2>1 DEF vars, Promise!vars
  <2>2. CASE Next
    BY <2>2, HandlerImplements, TickImplements DEF Next
  <2> QED
    BY <2>1, <2>2
<1> QED
  BY <1>1, <1>2, CountersInvariant, PTL DEF Spec, ImplementsDownload, Promise!Spec
=============================================================================
