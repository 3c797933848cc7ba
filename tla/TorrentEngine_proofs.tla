------------------------- MODULE TorrentEngine_proofs -------------------------
(* Types and owners in TorrentEngine, for every value of its constants: what *)
(* each variable is, and that every requested piece of a downloading torrent *)
(* has exactly one owner.                                                   *)
EXTENDS EngineInvariant, FiniteSetTheorems, TLAPS

-----------------------------------------------------------------------------
(* Pieces and finite sets.                                                  *)

LEMMA PieceSizeRange == \A i \in Piece : PieceSize(i) \in 1 .. PieceLength
  BY PiecesAssumption DEF Piece, PieceSize

LEMMA PieceFinite == IsFiniteSet(Piece)
  BY PiecesAssumption, FS_Interval DEF Piece

(* The counts the actions take are natural numbers.                         *)
LEMMA CountsAreNat ==
  /\ \A S \in SUBSET Piece : Cardinality(S) \in Nat
  /\ \A S \in SUBSET Piece : Cardinality(BytesOf(S)) \in Nat
  /\ \A t \in Torrent, P \in SUBSET Slot : Cardinality(Buffers(t, P)) \in Nat
  /\ \A t \in Torrent, P \in SUBSET Slot : Leaving(t, P) \in Nat
<1>1. \A S \in SUBSET Piece : IsFiniteSet(S) /\ Cardinality(S) \in Nat
  BY PieceFinite, FS_Subset, FS_CardinalityType
<1>2. IsFiniteSet(1 .. PieceLength)
  BY PiecesAssumption, FS_Interval
<1>3. ASSUME NEW S \in SUBSET Piece
      PROVE  Cardinality(BytesOf(S)) \in Nat
  <2>1. IsFiniteSet(S \X (1 .. PieceLength))
    BY <1>1, <1>2, FS_Product
  <2>2. BytesOf(S) \subseteq S \X (1 .. PieceLength)
    BY DEF BytesOf
  <2> QED
    BY <2>1, <2>2, FS_Subset, FS_CardinalityType
<1>4. \A P \in SUBSET Slot : IsFiniteSet(P)
  BY EngineAssumption, FS_Subset
<1>5. ASSUME NEW t \in Torrent, NEW P \in SUBSET Slot
      PROVE  Cardinality(Buffers(t, P)) \in Nat
  <2>1. IsFiniteSet(({t} \X P) \X (1 .. PieceLength))
    BY <1>2, <1>4, FS_Singleton, FS_Product
  <2>2. Buffers(t, P) \subseteq ({t} \X P) \X (1 .. PieceLength)
    BY DEF Buffers
  <2> QED
    BY <2>1, <2>2, FS_Subset, FS_CardinalityType
<1>6. ASSUME NEW t \in Torrent, NEW P \in SUBSET Slot
      PROVE  Leaving(t, P) \in Nat
  <2>1. Connected(t) \cap P \subseteq P
    OBVIOUS
  <2> QED
    BY <1>4, <2>1, FS_Subset, FS_CardinalityType DEF Leaving
<1> QED
  BY <1>1, <1>3, <1>5, <1>6

-----------------------------------------------------------------------------
(* Type correctness.                                                        *)

LEMMA Ranges ==
  /\ 0 \in Budget /\ 0 \in Received /\ 0 \in Pending /\ 0 \in Generation
  /\ \A b \in Budget : b > 0 => b - 1 \in Budget
  /\ \A g \in 1 .. MaxGeneration + 1 : g < MaxGeneration =>
       g \in Generation /\ g + 1 \in 1 .. MaxGeneration + 1
  BY PiecesAssumption, EngineAssumption
  DEF Budget, Received, Pending, Generation

LEMMA RecordTypes ==
  /\ Closed \in PeerRecord /\ Closed.piece = None
  /\ [Closed EXCEPT !.sock = TRUE] \in PeerRecord
  /\ [Closed EXCEPT !.sock = TRUE].piece = None
  /\ NoJob \in Job
  /\ AllFree \in PieceMap
  /\ EmptyFile \in [Piece -> Content]
<1>1. Closed \in PeerRecord /\ Closed.piece = None
  BY Ranges DEF Closed, PeerRecord
<1>2. NoJob \in Job
  BY Ranges DEF NoJob, Job
<1>3. AllFree \in PieceMap /\ EmptyFile \in [Piece -> Content]
  BY DEF AllFree, PieceMap, PieceState, EmptyFile, Content
<1> QED
  BY <1>1, <1>2, <1>3 DEF PeerRecord

LEMMA InitTyping == Init => Typing
  BY Ranges, RecordTypes, EngineAssumption
  DEF Init, Typing, TypeOK, BlocksFitBuffer, Cursor, Idle, Main, Stage, State

(* disconnect_peer keeps the types, and touches no peer but those it drops. *)
LEMMA DisconnectTyping ==
  ASSUME Typing, NEW t \in Torrent, NEW P \in SUBSET Slot, Disconnect(t, P)
  PROVE  /\ peer' \in [Torrent -> [Slot -> PeerRecord]]
         /\ activePeers' \in [Torrent -> Int]
         /\ assembly' \in Int
         /\ pieces' \in [Torrent -> PieceMap]
         /\ BlocksFitBuffer'
<1>1. Cardinality(Buffers(t, P)) \in Nat /\ Leaving(t, P) \in Nat
  BY CountsAreNat
<1>2. pieces' \in [Torrent -> PieceMap]
  BY DEF Disconnect, Freed, Typing, TypeOK, PieceMap, PieceState
<1> QED
  BY <1>1, <1>2, RecordTypes
  DEF Disconnect, CloseSockets, Typing, TypeOK, BlocksFitBuffer

LEMMA HandlerTyping == Typing /\ (Handler \/ StartTick) => Typing'
<1> SUFFICES ASSUME Typing PROVE Handler \/ StartTick => Typing'
  OBVIOUS
<1> USE DEF Typing, TypeOK, BlocksFitBuffer, Cursor, lifeVars, peerVars,
            progressVars
<1>1. ASSUME NEW t \in Torrent, NEW f \in File, Add(t, f) PROVE Typing'
  BY <1>1, Ranges DEF Add, State
<1>2. \A t \in Torrent : CloseAll(t) =>
        /\ peer' \in [Torrent -> [Slot -> PeerRecord]]
        /\ activePeers' \in [Torrent -> Int]
        /\ assembly' \in Int
        /\ \A u \in Torrent, p \in Slot : \/ peer'[u][p] = peer[u][p]
                                         \/ peer'[u][p].piece = None
  <2> SUFFICES ASSUME NEW t \in Torrent, CloseAll(t)
               PROVE  /\ peer' \in [Torrent -> [Slot -> PeerRecord]]
                      /\ activePeers' \in [Torrent -> Int]
                      /\ assembly' \in Int
                      /\ \A u \in Torrent, p \in Slot :
                           \/ peer'[u][p] = peer[u][p]
                           \/ peer'[u][p].piece = None
    OBVIOUS
  <2>1. Cardinality(Buffers(t, Slot)) \in Nat
    BY CountsAreNat
  <2> QED
    BY <2>1, RecordTypes DEF CloseAll
<1>3. ASSUME NEW t \in Torrent, NEW outcome \in {"early", "file", "ok"},
             Start(t, outcome)
      PROVE  Typing'
  <2>1. /\ peer' \in [Torrent -> [Slot -> PeerRecord]]
        /\ activePeers' \in [Torrent -> Int]
        /\ assembly' \in Int
        /\ \A u \in Torrent, p \in Slot : \/ peer'[u][p] = peer[u][p]
                                         \/ peer'[u][p].piece = None
    BY <1>2, <1>3 DEF Start
  <2>2. /\ generation' \in [Torrent -> Generation]
        /\ nextGeneration' \in 1 .. MaxGeneration + 1
    <3>1. \/ /\ nextGeneration < MaxGeneration
             /\ generation' = [generation EXCEPT ![t] = nextGeneration]
             /\ nextGeneration' = nextGeneration + 1
          \/ UNCHANGED <<generation, nextGeneration>>
      BY <1>3, Zenon DEF Start, StoppedGeneration
    <3>2. generation \in [Torrent -> Generation]
          /\ nextGeneration \in 1 .. MaxGeneration + 1
      OBVIOUS
    <3> HIDE DEF Typing
    <3> QED
      BY <3>1, <3>2, Ranges
  <2>3. disk' \in [File -> [Piece -> Content]]
    BY RecordTypes, <1>3 DEF Start
  <2> QED
    BY RecordTypes, <1>3, <2>1, <2>2, <2>3 DEF Start, State
<1>4. ASSUME NEW t \in Torrent, Stop(t) PROVE Typing'
  BY RecordTypes, <1>2, <1>4, Ranges
  DEF Stop, State, StoppedGeneration, Freed, PieceMap, PieceState
<1>5. ASSUME NEW t \in Torrent, Remove(t) PROVE Typing'
  BY RecordTypes, <1>2, <1>5, Ranges DEF Remove, State
<1>6. CASE StartTick
  BY <1>6 DEF StartTick, Main, Stage
<1> QED
  BY <1>1, <1>3, <1>4, <1>5, <1>6 DEF Handler

LEMMA WebSeedTyping ==
  Typing /\ (Worker \/ CollectStage) => Typing'
<1> SUFFICES ASSUME Typing PROVE Worker \/ CollectStage => Typing'
  OBVIOUS
<1> USE DEF Typing, TypeOK, BlocksFitBuffer, Cursor, lifeVars, peerVars,
            progressVars
<1>1. ASSUME NEW s \in WebSlot, NEW ok \in BOOLEAN, NEW good \in SUBSET webJob[s].batch,
             FetchWebSeed(s, ok, good)
      PROVE  Typing'
  BY <1>1 DEF FetchWebSeed, Job
<1>2. ASSUME NEW s \in WebSlot, DiscardWebSeed(s) PROVE Typing'
  BY RecordTypes, <1>2 DEF DiscardWebSeed, FreeJob
<1>3. ASSUME NEW s \in WebSlot, NEW t \in Torrent, FailWebSeed(s, t)
      PROVE  Typing'
  BY RecordTypes, <1>3 DEF FailWebSeed, FreeJob, Live, Freed, PieceMap, PieceState
<1>4. ASSUME NEW s \in WebSlot, NEW t \in Torrent,
             NEW fault \in Piece \cup {None}, CollectWebSeed(s, t, fault)
      PROVE  Typing'
  <2> DEFINE saved == Saved(s, t, fault)
  <2>1. saved \in SUBSET Piece
    BY DEF Saved, Job
  <2>2. Cardinality(saved) \in Nat /\ Cardinality(BytesOf(saved)) \in Nat
    BY <2>1, CountsAreNat
  <2>3. /\ numComplete' \in [Torrent -> Nat]
        /\ downloaded' \in [Torrent -> Nat]
    BY <1>4, <2>2 DEF CollectWebSeed
  <2>4. pieces' \in [Torrent -> PieceMap]
    BY <1>4 DEF CollectWebSeed, Freed, Completed, PieceMap, PieceState
  <2>5. disk' \in [File -> [Piece -> Content]]
    <3>1. ASSUME NEW content \in [Piece -> Content]
          PROVE  AfterWrites(content, saved, fault, webJob[s].good)
                   \in [Piece -> Content]
      BY <3>1 DEF AfterWrites, Content
    <3> QED
      BY <1>4, <3>1 DEF CollectWebSeed
  <2> QED
    BY RecordTypes, <1>4, <2>3, <2>4, <2>5 DEF CollectWebSeed, FreeJob
<1>5. CASE EndCollectWebSeed
  BY <1>5 DEF EndCollectWebSeed, Main, Stage
<1>6. ASSUME NEW t \in Torrent, NEW p \in Slot, AdoptPeer(t, p) PROVE Typing'
  BY <1>6, RecordTypes DEF AdoptPeer
<1>7. CASE EndCollectPeers
  BY <1>7 DEF EndCollectPeers, Main, Stage
<1> QED
  BY <1>1, <1>2, <1>3, <1>4, <1>5, <1>6, <1>7 DEF Worker, CollectStage

LEMMA TorrentTyping == Typing /\ TorrentStage => Typing'
<1> SUFFICES ASSUME Typing PROVE TorrentStage => Typing'
  OBVIOUS
<1> USE DEF Typing, TypeOK, BlocksFitBuffer, Cursor, lifeVars, peerVars,
            progressVars
<1>1. ASSUME NEW t \in Torrent, FinishTorrent(t) PROVE Typing'
  <2>1. Disconnect(t, Slot)
    BY <1>1 DEF FinishTorrent
  <2>2. /\ peer' \in [Torrent -> [Slot -> PeerRecord]]
        /\ activePeers' \in [Torrent -> Int]
        /\ assembly' \in Int
        /\ pieces' \in [Torrent -> PieceMap]
        /\ BlocksFitBuffer'
    BY <2>1, DisconnectTyping
  <2> QED
    BY <1>1, <2>2 DEF FinishTorrent, Main, State
<1>2. ASSUME NEW t \in Torrent, VisitTorrent(t) PROVE Typing'
  <2>1. Connected(t) \in SUBSET Slot
    BY DEF Connected
  <2>2. main' \in Main /\ Cursor'
    BY <1>2, <2>1 DEF VisitTorrent, Main, Stage
  <2> QED
    BY <1>2, <2>2 DEF VisitTorrent
<1>3. CASE EndTick
  BY <1>3, Ranges DEF EndTick, Idle, Main, Stage
<1>4. ASSUME NEW s \in WebSlot, ScheduleWebSeed(s) PROVE Typing'
  <2>1. Batch(Cur) \subseteq Piece
    BY DEF Batch
  <2>2. [NoJob EXCEPT !.status = "fetching", !.generation = generation[Cur],
                      !.batch = Batch(Cur)] \in Job
    BY <1>4, <2>1 DEF ScheduleWebSeed, NoJob, Job, Cur
  <2> QED
    BY <1>4, <2>1, <2>2
    DEF ScheduleWebSeed, Requested, PieceMap, PieceState, Cur
<1>5. CASE EndSchedule
  BY <1>5 DEF EndSchedule, Main, Stage
<1> QED
  BY <1>1, <1>2, <1>3, <1>4, <1>5 DEF TorrentStage

(* The peer being visited.                                                  *)
LEMMA NowTyping ==
  ASSUME Typing, main.at \in {"recv", "request"}
  PROVE  /\ main.cur \in Torrent /\ main.slot \in Slot
         /\ Now \in PeerRecord
         /\ Now.received \in Nat /\ Now.pending \in Nat
         /\ Now.piece # None => /\ Now.piece \in Piece
                                /\ Now.received < PieceSize(Now.piece)
                                /\ ReceivedAfter <= PieceSize(Now.piece)
                                /\ PieceSize(Now.piece) \in 1 .. PieceLength
<1>1. main.cur \in Torrent /\ main.slot \in Slot
  BY DEF Typing, Cursor
<1>2. Now \in PeerRecord
  BY <1>1 DEF Typing, TypeOK, Now
<1>3. /\ Now.received \in Nat /\ Now.pending \in Nat
      /\ Now.piece # None => Now.piece \in Piece
  BY <1>2, PiecesAssumption, EngineAssumption
  DEF PeerRecord, Received, Pending
<1>4. Now.piece # None => /\ Now.received < PieceSize(Now.piece)
                          /\ ReceivedAfter <= PieceSize(Now.piece)
  BY <1>1 DEF Typing, BlocksFitBuffer, Now, ReceivedAfter
<1> QED
  BY <1>1, <1>2, <1>3, <1>4, PieceSizeRange

(* Replacing its record by one that fits its buffer.                        *)
LEMMA SetPeerTyping ==
  ASSUME Typing, main.at \in {"recv", "request"},
         NEW q \in PeerRecord, SetPeer(q),
         q.piece # None => /\ q.received < PieceSize(q.piece)
                           /\ q.received + q.pending <= PieceSize(q.piece)
  PROVE  peer' \in [Torrent -> [Slot -> PeerRecord]] /\ BlocksFitBuffer'
BY NowTyping DEF SetPeer, Typing, TypeOK, BlocksFitBuffer

(* A step of the peer stage that changes but the tick and that record.      *)
LEMMA PeerStepTyping ==
  ASSUME Typing, main' \in Main, Cursor',
         peer' \in [Torrent -> [Slot -> PeerRecord]], BlocksFitBuffer',
         UNCHANGED <<state, lifeVars, activePeers, assembly, progressVars,
                     webJob>>
  PROVE  Typing'
BY DEF Typing, TypeOK, lifeVars, progressVars

(* Going on with the visit of the same peer, or back to the loop over them. *)
LEMMA PeerCursor ==
  ASSUME Typing
  PROVE  /\ Receive => main' \in Main /\ Cursor' /\ main.at = "recv"
         /\ main.at \in {"recv", "request"} /\ BackToPeers
              => main' \in Main /\ Cursor'
<1>1. main \in Main /\ Cursor
  BY DEF Typing, TypeOK
<1>2. Receive => main' \in Main /\ Cursor' /\ main.at = "recv"
  BY <1>1, Ranges DEF Receive, Cursor, Main
<1>3. ASSUME main.at \in {"recv", "request"}, BackToPeers
      PROVE  main' \in Main /\ Cursor'
  <2>1. main' \in Main
    BY <1>1, <1>3, Ranges DEF BackToPeers, Main, Stage
  <2>2. main'.at = "peers" /\ main'.cur = main.cur
    BY <1>1, <1>3 DEF BackToPeers, Main
  <2> QED
    BY <1>1, <1>3, <2>1, <2>2 DEF Cursor
<1> QED
  BY <1>2, <1>3

(* Dropping the peer being visited.                                         *)
LEMMA DropTyping ==
  ASSUME Typing, main.at \in {"recv", "request"}, Disconnect(Cur, {main.slot})
  PROVE  /\ peer' \in [Torrent -> [Slot -> PeerRecord]]
         /\ activePeers' \in [Torrent -> Int]
         /\ assembly' \in Int
         /\ pieces' \in [Torrent -> PieceMap]
         /\ BlocksFitBuffer'
<1>1. {main.slot} \in SUBSET Slot /\ Cur \in Torrent
  BY NowTyping DEF Cur
<1> QED
  BY <1>1, DisconnectTyping

LEMMA RecvTyping ==
  ASSUME Typing
  PROVE  /\ RecvChoke => Typing'
         /\ RecvUnchoke => Typing'
         /\ \A bits \in SUBSET Piece : RecvBitfield(bits) => Typing'
         /\ \A i \in Piece : RecvHave(i) => Typing'
         /\ RecvIgnored => Typing'
         /\ RecvBad => Typing'
         /\ \A intact \in BOOLEAN : RecvBlock(intact) => Typing'
<1>1. CASE RecvChoke
  <2> DEFINE q == [Now EXCEPT !.choked = TRUE, !.pending = 0]
  <2>1. Receive /\ SetPeer(q) /\ main.at = "recv"
    BY <1>1, PeerCursor DEF RecvChoke
  <2>2. q \in PeerRecord
    BY <2>1, NowTyping, Ranges DEF PeerRecord
  <2>3. q.piece = Now.piece /\ q.received = Now.received /\ q.pending = 0
    BY <2>1, NowTyping DEF PeerRecord
  <2> HIDE DEF q
  <2>4. q.piece # None => /\ q.received < PieceSize(q.piece)
                          /\ q.received + q.pending <= PieceSize(q.piece)
    BY <2>1, <2>3, NowTyping
  <2>5. peer' \in [Torrent -> [Slot -> PeerRecord]] /\ BlocksFitBuffer'
    BY <2>1, <2>2, <2>4, SetPeerTyping
  <2> QED
    BY <1>1, <2>1, <2>5, PeerCursor, PeerStepTyping DEF RecvChoke
<1>2. ASSUME Receive,
             NEW q \in PeerRecord, SetPeer(q), q.piece = Now.piece,
             q.received = Now.received, q.pending = Now.pending,
             UNCHANGED <<state, lifeVars, activePeers, assembly, progressVars,
                         webJob>>
      PROVE  Typing'
  <2>1. main.at = "recv"
    BY <1>2 DEF Receive
  <2>2. q.piece # None => /\ q.received < PieceSize(q.piece)
                          /\ q.received + q.pending <= PieceSize(q.piece)
    BY <1>2, <2>1, NowTyping DEF ReceivedAfter
  <2>3. peer' \in [Torrent -> [Slot -> PeerRecord]] /\ BlocksFitBuffer'
    BY <1>2, <2>1, <2>2, SetPeerTyping
  <2> QED
    BY <1>2, <2>3, PeerCursor, PeerStepTyping
<1>3. Receive => Now \in PeerRecord
  BY NowTyping DEF Receive
<1>4. CASE RecvUnchoke
  <2> DEFINE q == [Now EXCEPT !.choked = FALSE]
  <2>1. /\ q \in PeerRecord /\ q.piece = Now.piece
        /\ q.received = Now.received /\ q.pending = Now.pending
    BY <1>3, <1>4 DEF RecvUnchoke, PeerRecord
  <2> QED
    BY <1>2, <1>4, <2>1 DEF RecvUnchoke
<1>5. ASSUME NEW bits \in SUBSET Piece, RecvBitfield(bits) PROVE Typing'
  <2> DEFINE q == [Now EXCEPT !.bits = bits]
  <2>1. /\ q \in PeerRecord /\ q.piece = Now.piece
        /\ q.received = Now.received /\ q.pending = Now.pending
    BY <1>3, <1>5 DEF RecvBitfield, PeerRecord
  <2> QED
    BY <1>2, <1>5, <2>1 DEF RecvBitfield
<1>6. ASSUME NEW i \in Piece, RecvHave(i) PROVE Typing'
  <2> DEFINE q == [Now EXCEPT !.bits = @ \cup {i}]
  <2>1. /\ q \in PeerRecord /\ q.piece = Now.piece
        /\ q.received = Now.received /\ q.pending = Now.pending
    BY <1>3, <1>6 DEF RecvHave, PeerRecord
  <2> QED
    BY <1>2, <1>6, <2>1 DEF RecvHave
<1>7. CASE RecvIgnored
  BY <1>7, PeerCursor
  DEF RecvIgnored, Typing, TypeOK, BlocksFitBuffer, lifeVars, peerVars,
      progressVars
<1>8. CASE RecvBad
  <2>1. main.at = "recv" /\ BackToPeers /\ Disconnect(Cur, {main.slot})
    BY <1>8 DEF RecvBad
  <2> QED
    BY <1>8, <2>1, PeerCursor, DropTyping
    DEF RecvBad, Typing, TypeOK, lifeVars
<1>9. ASSUME NEW intact \in BOOLEAN, RecvBlock(intact) PROVE Typing'
  <2> DEFINE q == [Now EXCEPT !.received = ReceivedAfter, !.pending = 0,
                              !.intact = @ /\ intact]
  <2>1. /\ Receive /\ SetPeer(q) /\ main.at = "recv"
        /\ Now.piece # None /\ ReceivedAfter < PieceSize(Now.piece)
    BY <1>9, PeerCursor DEF RecvBlock, Awaited
  <2>2. ReceivedAfter \in Received
    BY <2>1, NowTyping, PiecesAssumption DEF ReceivedAfter, Received
  <2>3. q \in PeerRecord
    BY <2>1, <2>2, NowTyping, Ranges DEF PeerRecord
  <2>4. q.piece = Now.piece /\ q.received = ReceivedAfter /\ q.pending = 0
    BY <2>1, NowTyping DEF PeerRecord
  <2> HIDE DEF q
  <2>5. q.piece # None => /\ q.received < PieceSize(q.piece)
                          /\ q.received + q.pending <= PieceSize(q.piece)
    BY <2>1, <2>2, <2>4, NowTyping DEF Received
  <2>6. peer' \in [Torrent -> [Slot -> PeerRecord]] /\ BlocksFitBuffer'
    BY <2>1, <2>3, <2>5, SetPeerTyping
  <2> QED
    BY <1>9, <2>1, <2>6, PeerCursor, PeerStepTyping DEF RecvBlock
<1> QED
  BY <1>1, <1>4, <1>5, <1>6, <1>7, <1>8, <1>9

LEMMA RecvPieceTyping ==
  ASSUME Typing, NEW intact \in BOOLEAN
  PROVE  /\ RecvCorruptPiece(intact) => Typing'
         /\ RecvUnwritablePiece(intact) => Typing'
         /\ RecvPiece(intact) => Typing'
<1>1. CASE RecvCorruptPiece(intact)
  <2>1. main.at = "recv" /\ BackToPeers /\ Disconnect(Cur, {main.slot})
    BY <1>1 DEF RecvCorruptPiece, LastBlock
  <2> QED
    BY <1>1, <2>1, PeerCursor, DropTyping
    DEF RecvCorruptPiece, Typing, TypeOK, lifeVars
<1>2. CASE RecvUnwritablePiece(intact)
  <2>1. main.at = "recv" /\ BackToPeers /\ Disconnect(Cur, {main.slot})
    BY <1>2 DEF RecvUnwritablePiece, LastBlock
  <2>2. /\ state' \in [Torrent -> State]
        /\ disk' \in [File -> [Piece -> Content]]
    <3>1. state' \in [Torrent -> State]
      BY <1>2 DEF RecvUnwritablePiece, Typing, TypeOK, State
    <3>2. disk' \in [File -> [Piece -> Content]]
      BY <1>2 DEF RecvUnwritablePiece, Typing, TypeOK, Content
    <3> QED
      BY <3>1, <3>2
  <2> QED
    BY <1>2, <2>1, <2>2, PeerCursor, DropTyping
    DEF RecvUnwritablePiece, Typing, TypeOK, lifeVars
<1>3. CASE RecvPiece(intact)
  <2> DEFINE q == [Now EXCEPT !.piece = None, !.received = 0, !.pending = 0,
                              !.intact = TRUE]
  <2>1. /\ SetPeer(q) /\ main.at = "recv" /\ main.budget > 0
        /\ main' = [main EXCEPT !.budget = @ - 1] /\ Now.piece # None
    BY <1>3 DEF RecvPiece, LastBlock, Awaited
  <2>2. main' \in Main /\ Cursor'
    BY <2>1, PeerCursor DEF Receive
  <2>3. q \in PeerRecord /\ q.piece = None
    BY <2>1, NowTyping, Ranges DEF PeerRecord
  <2> HIDE DEF q
  <2>4. peer' \in [Torrent -> [Slot -> PeerRecord]] /\ BlocksFitBuffer'
    BY <2>1, <2>3, SetPeerTyping
  <2>5. pieces' \in [Torrent -> PieceMap]
    BY <1>3
    DEF RecvPiece, Typing, TypeOK, Freed, Completed, PieceMap, PieceState
  <2>6. PieceSize(Now.piece) \in Nat
    BY <2>1, NowTyping, PiecesAssumption
  <2>7. /\ numComplete' \in [Torrent -> Nat] /\ downloaded' \in [Torrent -> Nat]
    <3>1. /\ numComplete' = [numComplete EXCEPT ![Cur] = @ + 1]
          /\ downloaded' = [downloaded EXCEPT ![Cur] = @ + PieceSize(Now.piece)]
      BY <1>3 DEF RecvPiece
    <3>2. numComplete \in [Torrent -> Nat] /\ downloaded \in [Torrent -> Nat]
      BY DEF Typing, TypeOK
    <3>3. \A f \in [Torrent -> Nat], n \in Nat, t \in Torrent :
            [f EXCEPT ![t] = @ + n] \in [Torrent -> Nat]
      OBVIOUS
    <3>4. Cur \in Torrent
      BY <2>1, NowTyping DEF Cur
    <3> QED
      BY <2>6, <3>1, <3>2, <3>3, <3>4
  <2>8. disk' \in [File -> [Piece -> Content]]
    BY <1>3 DEF RecvPiece, Typing, TypeOK, Content
  <2>9. assembly' \in Int
    <3>1. Cur \in Torrent /\ {main.slot} \in SUBSET Slot
      BY <2>1, NowTyping DEF Cur
    <3>2. Cardinality(Buffers(Cur, {main.slot})) \in Nat
      BY <3>1, CountsAreNat
    <3> QED
      BY <1>3, <3>2 DEF RecvPiece, Typing, TypeOK
  <2> QED
    BY <1>3, <2>2, <2>4, <2>5, <2>7, <2>8, <2>9
    DEF RecvPiece, Typing, TypeOK, lifeVars
<1> QED
  BY <1>1, <1>2, <1>3

LEMMA RequestTyping ==
  ASSUME Typing
  PROVE  /\ EndRecv => Typing'
         /\ RequestNothing => Typing'
         /\ \A i \in Piece : RequestTooLarge(i) => Typing'
         /\ \A i \in Piece : RequestPiece(i) => Typing'
         /\ RequestBlock => Typing'
         /\ RequestFails => Typing'
<1>1. CASE EndRecv
  <2>1. main' \in Main /\ Cursor'
    <3>1. main \in Main /\ Cursor
      BY DEF Typing, TypeOK
    <3>2. main' \in Main
      BY <1>1, <3>1, Ranges DEF EndRecv, Main, Stage
    <3>3. main'.cur = main.cur /\ main'.slot = main.slot
      BY <1>1, <3>1 DEF EndRecv, Main
    <3> QED
      BY <1>1, <3>1, <3>2, <3>3 DEF EndRecv, Cursor
  <2> QED
    BY <1>1, <2>1
    DEF EndRecv, Typing, TypeOK, BlocksFitBuffer, lifeVars, peerVars,
        progressVars
<1>2. CASE RequestNothing
  <2>1. main' \in Main /\ Cursor'
    BY <1>2, PeerCursor DEF RequestNothing
  <2> QED
    BY <1>2, <2>1
    DEF RequestNothing, Typing, TypeOK, BlocksFitBuffer, lifeVars, peerVars,
        progressVars
<1>3. ASSUME NEW i \in Piece, RequestTooLarge(i) PROVE Typing'
  <2>1. main' \in Main /\ Cursor'
    BY <1>3, PeerCursor DEF RequestTooLarge, MayRequest
  <2>2. state' \in [Torrent -> State]
    BY <1>3 DEF RequestTooLarge, Typing, TypeOK, State
  <2> QED
    BY <1>3, <2>1, <2>2
    DEF RequestTooLarge, Typing, TypeOK, BlocksFitBuffer, lifeVars, peerVars,
        progressVars
(* The length asked for fits.                                               *)
<1>4. \A i \in Piece, r \in Received : r < PieceSize(i) =>
        /\ RequestLength(i, r) \in Pending
        /\ r + RequestLength(i, r) <= PieceSize(i)
  BY PieceSizeRange, PiecesAssumption, EngineAssumption
  DEF RequestLength, Received, Pending
<1>5. ASSUME NEW i \in Piece, RequestPiece(i) PROVE Typing'
  <2> DEFINE q == [Now EXCEPT !.piece = i, !.received = 0,
                              !.pending = RequestLength(i, 0)]
  <2>1. SetPeer(q) /\ main.at = "request" /\ BackToPeers
    BY <1>5 DEF RequestPiece, MayRequest
  <2>2. /\ 0 \in Received /\ 0 < PieceSize(i) /\ PieceSize(i) \in Int
        /\ RequestLength(i, 0) \in Pending
        /\ 0 + RequestLength(i, 0) <= PieceSize(i)
    BY <1>4, Ranges, PieceSizeRange, PiecesAssumption
  <2>3. q \in PeerRecord
    BY <2>1, <2>2, NowTyping DEF PeerRecord
  <2>4. q.piece = i /\ q.received = 0 /\ q.pending = RequestLength(i, 0)
    BY <2>1, NowTyping DEF PeerRecord
  <2> HIDE DEF q
  <2>5. peer' \in [Torrent -> [Slot -> PeerRecord]] /\ BlocksFitBuffer'
    BY <2>1, <2>2, <2>3, <2>4, SetPeerTyping
  <2>6. main' \in Main /\ Cursor'
    BY <2>1, PeerCursor
  <2>7. pieces' \in [Torrent -> PieceMap]
    BY <1>5 DEF RequestPiece, Typing, TypeOK, Requested, PieceMap, PieceState
  <2>8. assembly' \in Int
    BY <1>5, <2>2 DEF RequestPiece, Typing, TypeOK
  <2> QED
    BY <1>5, <2>5, <2>6, <2>7, <2>8 DEF RequestPiece, Typing, TypeOK, lifeVars
<1>6. CASE RequestBlock
  <2> DEFINE q == [Now EXCEPT !.pending = RequestLength(Now.piece, Now.received)]
  <2>1. /\ SetPeer(q) /\ main.at = "request" /\ BackToPeers
        /\ Now.piece # None
    BY <1>6 DEF RequestBlock, MayRequest
  <2>2. /\ Now \in PeerRecord /\ Now.piece \in Piece /\ Now.received \in Received
        /\ Now.received < PieceSize(Now.piece)
    BY <2>1, NowTyping DEF PeerRecord
  <2>3. q \in PeerRecord
    BY <1>4, <2>2 DEF PeerRecord
  <2>4. /\ q.piece = Now.piece /\ q.received = Now.received
        /\ q.pending = RequestLength(Now.piece, Now.received)
    BY <2>2 DEF PeerRecord
  <2> HIDE DEF q
  <2>5. peer' \in [Torrent -> [Slot -> PeerRecord]] /\ BlocksFitBuffer'
    BY <1>4, <2>1, <2>2, <2>3, <2>4, SetPeerTyping
  <2> QED
    BY <1>6, <2>1, <2>5, PeerCursor, PeerStepTyping DEF RequestBlock
<1>7. CASE RequestFails
  <2>1. main.at = "request" /\ BackToPeers /\ Disconnect(Cur, {main.slot})
    BY <1>7 DEF RequestFails, MayRequest
  <2> QED
    BY <1>7, <2>1, PeerCursor, DropTyping
    DEF RequestFails, Typing, TypeOK, lifeVars
<1> QED
  BY <1>1, <1>2, <1>3, <1>5, <1>6, <1>7

LEMMA PeerTyping == Typing /\ PeerStage => Typing'
<1> SUFFICES ASSUME Typing PROVE PeerStage => Typing'
  OBVIOUS
<1>1. ASSUME NEW p \in Slot, TimeOutPeer(p) PROVE Typing'
  <2>1. /\ Cur \in Torrent /\ {p} \in SUBSET Slot /\ Disconnect(Cur, {p})
        /\ main.at = "peers"
    BY <1>1 DEF TimeOutPeer, Typing, Cursor, Cur
  <2>2. /\ peer' \in [Torrent -> [Slot -> PeerRecord]]
        /\ activePeers' \in [Torrent -> Int]
        /\ assembly' \in Int
        /\ pieces' \in [Torrent -> PieceMap]
        /\ BlocksFitBuffer'
    BY <2>1, DisconnectTyping
  <2>3. main' \in Main /\ Cursor'
    BY <1>1 DEF TimeOutPeer, Typing, TypeOK, Cursor, Main
  <2> QED
    BY <1>1, <2>2, <2>3 DEF TimeOutPeer, Typing, TypeOK, lifeVars
<1>2. ASSUME NEW p \in Slot, VisitPeer(p) PROVE Typing'
  <2>1. main \in Main /\ Cursor /\ EventBudget \in Budget
    BY EngineAssumption DEF Typing, TypeOK, Budget
  <2>2. main' \in Main
    BY <1>2, <2>1 DEF VisitPeer, Main, Stage
  <2>3. main'.cur = main.cur /\ main'.slot = p
    BY <1>2, <2>1 DEF VisitPeer, Main
  <2>4. Cursor'
    BY <1>2, <2>1, <2>3 DEF VisitPeer, Cursor
  <2> QED
    BY <1>2, <2>2, <2>4
    DEF VisitPeer, Typing, TypeOK, BlocksFitBuffer, lifeVars, peerVars,
        progressVars
<1>3. CASE EndPeers
  <2>1. main' \in Main /\ Cursor'
    BY <1>3 DEF EndPeers, Typing, TypeOK, Cursor, Main, Stage
  <2> QED
    BY <1>3, <2>1
    DEF EndPeers, Typing, TypeOK, BlocksFitBuffer, lifeVars, peerVars,
        progressVars
<1> QED
  BY <1>1, <1>2, <1>3, RecvTyping, RecvPieceTyping, RequestTyping DEF PeerStage

LEMMA NextTyping == Typing /\ [Next]_vars => Typing'
<1>1. Typing /\ UNCHANGED vars => Typing'
  BY DEF vars, Typing, TypeOK, BlocksFitBuffer, Cursor
<1> QED
  BY <1>1, HandlerTyping, WebSeedTyping, TorrentTyping, PeerTyping
  DEF Next, Tick

LEMMA TypingInvariant == Spec => []Typing
  BY InitTyping, NextTyping, PTL DEF Spec

(* Every variable keeps its type.                                           *)
THEOREM TypeCorrect == Spec => []TypeOK
<1>1. Typing => TypeOK
  BY DEF Typing
<1> QED
  BY <1>1, TypingInvariant, PTL

(* No peer is asked for more than its buffer holds: see BlocksFitBuffer.    *)
THEOREM BuffersNeverOverflow == Spec => []BlocksFitBuffer
<1>1. Typing => BlocksFitBuffer
  BY DEF Typing
<1> QED
  BY <1>1, TypingInvariant, PTL

-----------------------------------------------------------------------------
(* Steps that leave alone who holds what.                                   *)

LEMMA InitOwnership == Init => Ownership
<1> SUFFICES ASSUME Init PROVE Ownership
  OBVIOUS
<1>1. /\ main.todo = {} /\ main.at = "http" /\ main.cur = None
      /\ nextGeneration = 1
      /\ \A t \in Torrent : /\ state[t] = "absent" /\ generation[t] = 0
                            /\ pieces[t] = AllFree /\ ~prepared[t]
                            /\ \A p \in Slot : /\ ~peer[t][p].sock
                                               /\ peer[t][p].piece = None
      /\ \A s \in WebSlot : webJob[s].status = "empty"
  BY DEF Init, Idle, Closed, NoJob
<1>2. VisitsConnected
  BY <1>1 DEF VisitsConnected
<1>3. GenerationsUnique
  BY <1>1 DEF GenerationsUnique
<1>4. UnpreparedIsIdle
  BY <1>1
  DEF UnpreparedIsIdle, Downloading, JobsOf, Connected, CompleteIn, AllFree
<1>5. PeersHoldRequested /\ JobsHoldRequested /\ RequestedIsFetched
  BY <1>1 DEF PeersHoldRequested, JobsHoldRequested, RequestedIsFetched,
              JobsOf, Downloading
<1> QED
  BY <1>2, <1>3, <1>4, <1>5 DEF Ownership, Holding

(* Neither a torrent's pieces nor the holders of any of them change, and no *)
(* torrent starts to download.                                              *)
LEMMA HoldersUnchanged ==
  ASSUME Holding, UNCHANGED <<lifeVars, pieces>>,
         \A t \in Torrent : /\ Downloading(t)' => Downloading(t)
                            /\ state[t] = "absent" <=> state'[t] = "absent",
         \A t \in Torrent, p \in Slot :
           /\ peer'[t][p].sock = peer[t][p].sock
           /\ peer'[t][p].piece = peer[t][p].piece,
         \A s \in WebSlot :
           /\ webJob'[s].status = "empty" <=> webJob[s].status = "empty"
           /\ webJob'[s].generation = webJob[s].generation
           /\ webJob'[s].batch = webJob[s].batch
  PROVE  Holding'
<1>1. /\ \A t \in Torrent : JobsOf(t)' = JobsOf(t)
      /\ \A t \in Torrent : Connected(t)' = Connected(t)
  BY DEF JobsOf, Connected, lifeVars
<1>2. GenerationsUnique'
  BY DEF Holding, GenerationsUnique, lifeVars
<1>3. UnpreparedIsIdle'
  BY <1>1 DEF Holding, UnpreparedIsIdle, lifeVars
<1>4. PeersHoldRequested'
  BY DEF Holding, PeersHoldRequested
<1>5. JobsHoldRequested'
  BY <1>1 DEF Holding, JobsHoldRequested, JobsOf
<1>6. RequestedIsFetched'
  BY <1>1 DEF Holding, RequestedIsFetched, JobsOf
<1> QED
  BY <1>2, <1>3, <1>4, <1>5, <1>6 DEF Holding

(* Peers are dropped, and what they held is free again.                     *)
LEMMA HoldersDropped ==
  ASSUME Typing, Holding, NEW t \in Torrent, NEW P \in SUBSET Slot,
         Disconnect(t, P), UNCHANGED <<lifeVars, webJob>>,
         \A u \in Torrent : /\ Downloading(u)' => Downloading(u)
                            /\ state[u] = "absent" <=> state'[u] = "absent"
  PROVE  Holding'
<1> DEFINE held == HeldBy(t, P)
<1>1. \A u \in Torrent, p \in Slot :
        IF u = t /\ p \in P
          THEN ~peer'[u][p].sock /\ peer'[u][p].piece = None
          ELSE peer'[u][p] = peer[u][p]
  BY DEF Disconnect, CloseSockets, Typing, TypeOK, Closed
<1>2. \A u \in Torrent, i \in Piece :
        pieces'[u][i] = IF u = t /\ i \in held /\ pieces[u][i] # "complete"
                          THEN "free" ELSE pieces[u][i]
  BY DEF Disconnect, Freed, Typing, TypeOK, PieceMap
<1>3. \A i \in Piece : i \in held <=> \E p \in P : peer[t][p].piece = i
  BY EngineAssumption DEF HeldBy
<1>4. \A u \in Torrent : JobsOf(u)' = JobsOf(u)
  BY DEF JobsOf, lifeVars
<1>5. \A u \in Torrent, p \in Slot : peer[u][p].piece \in Piece \cup {None}
  BY DEF Typing, TypeOK, PeerRecord
<1>6. \A u \in Torrent : \A s \in JobsOf(u) : webJob[s].batch \subseteq Piece
  BY DEF Typing, TypeOK, Job, JobsOf
<1> HIDE DEF held
<1>7. GenerationsUnique'
  BY DEF Holding, GenerationsUnique, lifeVars
<1>8. UnpreparedIsIdle'
  BY <1>1, <1>2, <1>4
  DEF Holding, UnpreparedIsIdle, Connected, CompleteIn, lifeVars
<1>9. PeersHoldRequested'
  BY <1>1, <1>2, <1>3, <1>5 DEF Holding, PeersHoldRequested
<1>10. JobsHoldRequested'
  <2> SUFFICES ASSUME NEW u \in Torrent, NEW s \in JobsOf(u),
                      NEW i \in webJob[s].batch
               PROVE  /\ pieces'[u][i] = "requested"
                      /\ \A r \in JobsOf(u) : i \in webJob[r].batch => r = s
                      /\ \A p \in Slot : peer'[u][p].piece # i
    BY <1>4 DEF JobsHoldRequested
  <2>1. i \in Piece /\ i # None
    BY <1>6, EngineAssumption
  <2>2. /\ pieces[u][i] = "requested"
        /\ \A r \in JobsOf(u) : i \in webJob[r].batch => r = s
        /\ \A p \in Slot : peer[u][p].piece # i
    BY DEF Holding, JobsHoldRequested
  <2>3. u = t => i \notin held
    BY <1>3, <2>1, <2>2
  <2>4. pieces'[u][i] = "requested"
    BY <1>2, <2>1, <2>2, <2>3
  <2>5. \A p \in Slot : peer'[u][p].piece # i
    BY <1>1, <2>1, <2>2
  <2> QED
    BY <2>2, <2>4, <2>5
<1>11. RequestedIsFetched'
  BY <1>1, <1>2, <1>3, <1>4 DEF Holding, RequestedIsFetched
<1> QED
  BY <1>7, <1>8, <1>9, <1>10, <1>11 DEF Holding

(* Nothing but the tick's place changes, or what is known of a peer.        *)
LEMMA QuietSteps ==
  ASSUME Typing, Ownership,
         \/ StartTick \/ EndCollectWebSeed \/ EndCollectPeers
         \/ \E t \in Torrent : VisitTorrent(t)
         \/ EndTick \/ EndSchedule
         \/ \E p \in Slot : VisitPeer(p)
         \/ EndPeers \/ RecvIgnored \/ EndRecv \/ RequestNothing
         \/ \E i \in Piece : RequestTooLarge(i)
  PROVE  Holding'
<1>1. /\ UNCHANGED <<lifeVars, pieces, peer, webJob>>
      /\ \A t \in Torrent : /\ Downloading(t)' => Downloading(t)
                            /\ state[t] = "absent" <=> state'[t] = "absent"
  <2>1. CASE \E i \in Piece : RequestTooLarge(i)
    <3>1. /\ Downloading(Cur) /\ Cur \in Torrent
          /\ state' = [state EXCEPT ![Cur] = "error"]
          /\ UNCHANGED <<lifeVars, pieces, peer, webJob>>
      BY <2>1, NowTyping
      DEF Ownership, VisitsConnected, RequestTooLarge, MayRequest, Cur,
          peerVars, progressVars
    <3> QED
      BY <3>1 DEF Typing, TypeOK, Downloading
  <2>2. CASE UNCHANGED <<state, lifeVars, pieces, peer, webJob>>
    BY <2>2 DEF Downloading
  <2> QED
    BY <2>1, <2>2
    DEF StartTick, EndCollectWebSeed, EndCollectPeers, VisitTorrent, EndTick,
        EndSchedule, VisitPeer, EndPeers, RecvIgnored, EndRecv,
        RequestNothing, peerVars, progressVars
<1> QED
  BY <1>1, HoldersUnchanged DEF Ownership

LEMMA PeerRecordSteps ==
  ASSUME Typing, Ownership,
         \/ RecvChoke \/ RecvUnchoke
         \/ \E bits \in SUBSET Piece : RecvBitfield(bits)
         \/ \E i \in Piece : RecvHave(i)
         \/ \E intact \in BOOLEAN : RecvBlock(intact)
         \/ RequestBlock
  PROVE  Holding'
<1>1. /\ main.at \in {"recv", "request"}
      /\ UNCHANGED <<state, lifeVars, pieces, webJob>>
  BY DEF RecvChoke, RecvUnchoke, RecvBitfield, RecvHave, RecvBlock,
         RequestBlock, Receive, MayRequest, progressVars
<1>2. \E q : SetPeer(q) /\ q.sock = Now.sock /\ q.piece = Now.piece
  <2>1. Now \in PeerRecord
    BY <1>1, NowTyping
  <2>2. CASE RecvChoke
    <3> DEFINE q == [Now EXCEPT !.choked = TRUE, !.pending = 0]
    <3>1. SetPeer(q)
      BY <2>2 DEF RecvChoke
    <3>2. q.sock = Now.sock /\ q.piece = Now.piece
      BY <2>1 DEF PeerRecord
    <3> QED
      BY <3>1, <3>2
  <2>3. CASE RecvUnchoke
    BY <2>1, <2>3 DEF RecvUnchoke, PeerRecord
  <2>4. CASE \E bits \in SUBSET Piece : RecvBitfield(bits)
    BY <2>1, <2>4 DEF RecvBitfield, PeerRecord
  <2>5. CASE \E i \in Piece : RecvHave(i)
    BY <2>1, <2>5 DEF RecvHave, PeerRecord
  <2>6. ASSUME NEW intact \in BOOLEAN, RecvBlock(intact)
        PROVE  \E q : SetPeer(q) /\ q.sock = Now.sock /\ q.piece = Now.piece
    <3> DEFINE q == [Now EXCEPT !.received = ReceivedAfter, !.pending = 0,
                                !.intact = @ /\ intact]
    <3>1. SetPeer(q)
      BY <2>6 DEF RecvBlock
    <3>2. q.sock = Now.sock /\ q.piece = Now.piece
      BY <2>1 DEF PeerRecord
    <3> QED
      BY <3>1, <3>2
  <2>7. CASE RequestBlock
    BY <2>1, <2>7 DEF RequestBlock, PeerRecord
  <2> QED
    BY <2>2, <2>3, <2>4, <2>5, <2>6, <2>7
<1>3. \A t \in Torrent, p \in Slot : /\ peer'[t][p].sock = peer[t][p].sock
                                     /\ peer'[t][p].piece = peer[t][p].piece
  BY <1>1, <1>2, NowTyping DEF SetPeer, Now, Typing, TypeOK
<1> QED
  BY <1>1, <1>3, HoldersUnchanged DEF Ownership, Downloading

LEMMA DropSteps ==
  ASSUME Typing, Ownership,
         \/ \E t \in Torrent : FinishTorrent(t)
         \/ \E p \in Slot : TimeOutPeer(p)
         \/ RecvBad \/ RequestFails
         \/ \E intact \in BOOLEAN : \/ RecvCorruptPiece(intact)
                                    \/ RecvUnwritablePiece(intact)
  PROVE  Holding'
<1>1. \E t \in Torrent, P \in SUBSET Slot :
        /\ Disconnect(t, P)
        /\ Downloading(t)
        /\ \/ state' = state
           \/ \E next \in {"done", "error"} :
                state' = [state EXCEPT ![t] = next]
        /\ UNCHANGED <<lifeVars, webJob>>
  <2>1. CASE \E t \in Torrent : FinishTorrent(t)
    BY <2>1 DEF Ownership, VisitsConnected, FinishTorrent
  <2>2. CASE \E p \in Slot : TimeOutPeer(p)
    BY <2>2 DEF TimeOutPeer, Typing, Cursor, Cur
  <2>3. main.at \in {"recv", "request"} =>
          Cur \in Torrent /\ {main.slot} \in SUBSET Slot /\ Downloading(Cur)
    BY NowTyping DEF Ownership, VisitsConnected, Cur
  <2>4. CASE RecvBad \/ RequestFails
    BY <2>3, <2>4 DEF RecvBad, RequestFails, MayRequest
  <2>5. CASE \E intact \in BOOLEAN : \/ RecvCorruptPiece(intact)
                                     \/ RecvUnwritablePiece(intact)
    BY <2>3, <2>5 DEF RecvCorruptPiece, RecvUnwritablePiece, LastBlock
  <2> QED
    BY <2>1, <2>2, <2>4, <2>5
<1>2. PICK t \in Torrent, P \in SUBSET Slot :
        /\ Disconnect(t, P)
        /\ Downloading(t)
        /\ \/ state' = state
           \/ \E next \in {"done", "error"} :
                state' = [state EXCEPT ![t] = next]
        /\ UNCHANGED <<lifeVars, webJob>>
  BY <1>1
<1>3. \A u \in Torrent : /\ Downloading(u)' => Downloading(u)
                         /\ state[u] = "absent" <=> state'[u] = "absent"
  BY <1>2 DEF Typing, TypeOK, Downloading
<1> QED
  BY <1>2, <1>3, HoldersDropped DEF Ownership

-----------------------------------------------------------------------------
(* Web seed jobs.                                                           *)

LEMMA JobsAfterFree ==
  ASSUME Typing, NEW s \in WebSlot, FreeJob(s), UNCHANGED lifeVars
  PROVE  /\ \A r \in WebSlot : r # s => webJob'[r] = webJob[r]
         /\ webJob'[s].status = "empty"
         /\ \A u \in Torrent : JobsOf(u)' = JobsOf(u) \ {s}
<1>1. /\ \A r \in WebSlot : r # s => webJob'[r] = webJob[r]
      /\ webJob'[s].status = "empty"
  BY DEF FreeJob, NoJob, Typing, TypeOK
<1> QED
  BY <1>1 DEF JobsOf, lifeVars

(* A job ends: its pieces are complete or free.                             *)
LEMMA JobEnds ==
  ASSUME Typing, Holding, NEW s \in WebSlot, FreeJob(s),
         webJob[s].status # "empty",
         UNCHANGED <<state, lifeVars, peer>>,
         NEW t \in Live(webJob[s].generation),
         \A u \in Torrent, i \in Piece :
           IF u = t /\ i \in webJob[s].batch
             THEN pieces'[u][i] # "requested"
             ELSE pieces'[u][i] = pieces[u][i]
  PROVE  Holding'
<1>1. /\ t \in Torrent /\ Downloading(t) /\ s \in JobsOf(t)
      /\ \A u \in Torrent : s \in JobsOf(u) => u = t
  BY DEF Live, JobsOf, Holding, GenerationsUnique
<1>2. /\ \A r \in WebSlot : r # s => webJob'[r] = webJob[r]
      /\ webJob'[s].status = "empty"
      /\ \A u \in Torrent : JobsOf(u)' = JobsOf(u) \ {s}
  BY JobsAfterFree
<1>3. \A u \in Torrent : Connected(u)' = Connected(u)
  BY DEF Connected
<1>4. \A u \in Torrent, p \in Slot : peer[u][p].piece \in Piece \cup {None}
  BY DEF Typing, TypeOK, PeerRecord
<1>5. \A u \in Torrent : \A r \in JobsOf(u) :
        r \in WebSlot /\ webJob[r].batch \subseteq Piece
  BY DEF Typing, TypeOK, Job, JobsOf
<1>6. GenerationsUnique'
  BY <1>2 DEF Holding, GenerationsUnique, lifeVars
<1>7. UnpreparedIsIdle'
  BY <1>1, <1>2, <1>3
  DEF Holding, UnpreparedIsIdle, CompleteIn, Downloading, lifeVars
<1>8. PeersHoldRequested'
  BY <1>1, <1>4, EngineAssumption
  DEF Holding, PeersHoldRequested, JobsHoldRequested
<1>9. JobsHoldRequested'
  <2> SUFFICES ASSUME NEW u \in Torrent, NEW r \in JobsOf(u) \ {s},
                      NEW i \in webJob[r].batch
               PROVE  /\ pieces'[u][i] = "requested"
                      /\ \A q \in JobsOf(u) \ {s} :
                           i \in webJob'[q].batch => q = r
                      /\ \A p \in Slot : peer[u][p].piece # i
    BY <1>2, <1>5 DEF JobsHoldRequested
  <2>1. /\ pieces[u][i] = "requested"
        /\ \A q \in JobsOf(u) : i \in webJob[q].batch => q = r
        /\ \A p \in Slot : peer[u][p].piece # i
    BY DEF Holding, JobsHoldRequested
  <2>2. u = t => i \notin webJob[s].batch
    BY <1>1, <2>1
  <2> QED
    BY <1>2, <1>5, <2>1, <2>2
<1>10. RequestedIsFetched'
  <2> SUFFICES ASSUME NEW u \in Torrent, Downloading(u), NEW i \in Piece,
                      pieces'[u][i] = "requested"
               PROVE  \/ \E p \in Slot : peer[u][p].piece = i
                      \/ \E r \in JobsOf(u) \ {s} : i \in webJob'[r].batch
    BY <1>2 DEF RequestedIsFetched, Downloading
  <2>1. pieces[u][i] = "requested" /\ (u = t => i \notin webJob[s].batch)
    OBVIOUS
  <2>2. \/ \E p \in Slot : peer[u][p].piece = i
        \/ \E r \in JobsOf(u) : i \in webJob[r].batch
    BY <2>1 DEF Holding, RequestedIsFetched
  <2>3. \A r \in JobsOf(u) : i \in webJob[r].batch => r # s
    BY <1>1, <2>1
  <2> QED
    BY <1>2, <1>5, <2>2, <2>3
<1> QED
  BY <1>6, <1>7, <1>8, <1>9, <1>10 DEF Holding

LEMMA FetchHolding ==
  ASSUME Typing, Ownership, Worker
  PROVE  Holding'
<1> PICK s \in WebSlot, ok \in BOOLEAN :
      \E good \in SUBSET webJob[s].batch : FetchWebSeed(s, ok, good)
  BY DEF Worker
<1>1. /\ UNCHANGED <<state, lifeVars, pieces, peer>>
      /\ \A r \in WebSlot :
           /\ webJob'[r].status = "empty" <=> webJob[r].status = "empty"
           /\ webJob'[r].generation = webJob[r].generation
           /\ webJob'[r].batch = webJob[r].batch
  BY DEF FetchWebSeed, Typing, TypeOK, Job, peerVars, progressVars
<1> QED
  BY <1>1, HoldersUnchanged DEF Ownership, Downloading

LEMMA CollectHolding ==
  ASSUME Typing, Ownership, NEW s \in WebSlot,
         \/ DiscardWebSeed(s)
         \/ \E t \in Torrent : FailWebSeed(s, t)
         \/ \E t \in Torrent, fault \in Piece \cup {None} :
              CollectWebSeed(s, t, fault)
  PROVE  Holding'
<1>1. CASE DiscardWebSeed(s)
  <2>1. /\ UNCHANGED <<state, lifeVars, peer, pieces>> /\ FreeJob(s)
        /\ Live(webJob[s].generation) = {}
    BY <1>1 DEF DiscardWebSeed, peerVars, progressVars
  <2>2. /\ \A r \in WebSlot : r # s => webJob'[r] = webJob[r]
        /\ webJob'[s].status = "empty"
        /\ \A u \in Torrent : JobsOf(u)' = JobsOf(u) \ {s}
    BY <2>1, JobsAfterFree
  <2>3. \A u \in Torrent : Connected(u)' = Connected(u)
    BY <2>1 DEF Connected
  <2>4. \A u \in Torrent : JobsOf(u) \subseteq WebSlot
    BY DEF JobsOf
  <2>5. \A u \in Torrent : Downloading(u) => s \notin JobsOf(u)
    BY <2>1 DEF Live, JobsOf
  <2>6. GenerationsUnique'
    BY <2>1, <2>2 DEF Ownership, Holding, GenerationsUnique, lifeVars
  <2>7. UnpreparedIsIdle'
    BY <2>1, <2>2, <2>3
    DEF Ownership, Holding, UnpreparedIsIdle, Downloading, lifeVars
  <2>8. PeersHoldRequested'
    BY <2>1 DEF Ownership, Holding, PeersHoldRequested
  <2>9. JobsHoldRequested'
    BY <2>1, <2>2, <2>4 DEF Ownership, Holding, JobsHoldRequested
  <2>10. RequestedIsFetched'
    BY <2>1, <2>2, <2>4, <2>5
    DEF Ownership, Holding, RequestedIsFetched, Downloading
  <2> QED
    BY <2>6, <2>7, <2>8, <2>9, <2>10 DEF Holding
<1>2. ASSUME NEW t \in Torrent, FailWebSeed(s, t) PROVE Holding'
  <2>1. /\ UNCHANGED <<state, lifeVars, peer>> /\ FreeJob(s)
        /\ t \in Live(webJob[s].generation) /\ webJob[s].status # "empty"
    BY <1>2 DEF FailWebSeed, Collectable, peerVars
  <2>2. \A u \in Torrent, i \in Piece :
          IF u = t /\ i \in webJob[s].batch
            THEN pieces'[u][i] # "requested"
            ELSE pieces'[u][i] = pieces[u][i]
    BY <1>2 DEF FailWebSeed, Freed, Typing, TypeOK, PieceMap
  <2> QED
    BY <2>1, <2>2, JobEnds DEF Ownership
<1>3. ASSUME NEW t \in Torrent, NEW fault \in Piece \cup {None},
             CollectWebSeed(s, t, fault)
      PROVE  Holding'
  <2>1. /\ UNCHANGED <<state, lifeVars, peer>> /\ FreeJob(s)
        /\ t \in Live(webJob[s].generation) /\ webJob[s].status # "empty"
    BY <1>3 DEF CollectWebSeed, Collectable, peerVars
  <2>2. pieces' = [pieces EXCEPT
                     ![t] = Freed(Completed(@, Saved(s, t, fault)),
                                  GivenBack(s, fault))]
    BY <1>3 DEF CollectWebSeed
  <2>3. /\ Saved(s, t, fault) \subseteq webJob[s].batch
        /\ GivenBack(s, fault) \subseteq webJob[s].batch
        /\ \A i \in webJob[s].batch : \/ pieces[t][i] = "complete"
                                      \/ i \in Saved(s, t, fault)
                                      \/ i \in GivenBack(s, fault)
    BY EngineAssumption
    DEF Saved, GivenBack, CompleteIn, Typing, TypeOK, Job, Piece
  <2>4. webJob[s].batch \subseteq Piece
    BY DEF Typing, TypeOK, Job
  <2>5. \A u \in Torrent, i \in Piece :
          IF u = t /\ i \in webJob[s].batch
            THEN pieces'[u][i] # "requested"
            ELSE pieces'[u][i] = pieces[u][i]
    BY <2>2, <2>3, <2>4 DEF Freed, Completed, Typing, TypeOK, PieceMap
  <2> QED
    BY <2>1, <2>5, JobEnds DEF Ownership
<1> QED
  BY <1>1, <1>2, <1>3

LEMMA ScheduleHolding ==
  ASSUME Typing, Ownership, NEW s \in WebSlot, ScheduleWebSeed(s)
  PROVE  Holding'
<1> DEFINE t == Cur
           batch == Batch(t)
<1>1. /\ t \in Torrent /\ prepared[t] /\ state[t] # "absent"
      /\ UNCHANGED <<state, lifeVars, peer>> /\ webJob[s].status = "empty"
  BY DEF ScheduleWebSeed, Typing, Cursor, Ownership, VisitsConnected, Cur,
         peerVars
<1>2. /\ \A r \in WebSlot : r # s => webJob'[r] = webJob[r]
      /\ webJob'[s].status = "fetching" /\ webJob'[s].batch = batch
      /\ webJob'[s].generation = generation[t]
  BY DEF ScheduleWebSeed, NoJob, Typing, TypeOK
<1>3. batch \subseteq Piece /\ \A i \in batch : pieces[t][i] = "free"
  BY DEF Batch, FreeIn, Piece
<1>4. \A u \in Torrent, i \in Piece :
        pieces'[u][i] = IF u = t /\ i \in batch THEN "requested"
                                                ELSE pieces[u][i]
  BY <1>1 DEF ScheduleWebSeed, Requested, Typing, TypeOK, PieceMap
<1>5. /\ generation[t] \in 1 .. nextGeneration - 1
      /\ \A u \in Torrent : generation[u] = generation[t] => u = t
      /\ JobsOf(t) \subseteq WebSlot
  BY <1>1, Ranges
  DEF Ownership, Holding, GenerationsUnique, Typing, TypeOK, Generation, JobsOf
<1> HIDE DEF t, batch
<1>6. \A u \in Torrent : JobsOf(u)' = IF u = t THEN JobsOf(t) \cup {s}
                                              ELSE JobsOf(u)
  <2>1. UNCHANGED generation
    BY DEF ScheduleWebSeed, lifeVars
  <2> QED
    BY <1>1, <1>2, <1>5, <2>1 DEF JobsOf
<1>7. \A u \in Torrent : /\ Connected(u)' = Connected(u)
                         /\ s \notin JobsOf(u) /\ JobsOf(u) \subseteq WebSlot
  BY <1>1 DEF Connected, JobsOf
<1>8. UNCHANGED lifeVars
  BY DEF ScheduleWebSeed
<1>9. GenerationsUnique'
  BY <1>1, <1>2, <1>5, <1>8 DEF Ownership, Holding, GenerationsUnique, lifeVars
<1>10. UnpreparedIsIdle'
  BY <1>1, <1>4, <1>6, <1>7, <1>8
  DEF Ownership, Holding, UnpreparedIsIdle, Downloading, CompleteIn, lifeVars
<1>11. PeersHoldRequested'
  BY <1>1, <1>4, EngineAssumption
  DEF Ownership, Holding, PeersHoldRequested, Typing, TypeOK, PeerRecord
<1>12. JobsHoldRequested'
  <2> SUFFICES ASSUME NEW u \in Torrent, NEW r \in JobsOf(u)',
                      NEW i \in webJob'[r].batch
               PROVE  /\ pieces'[u][i] = "requested"
                      /\ \A q \in JobsOf(u)' : i \in webJob'[q].batch => q = r
                      /\ \A p \in Slot : peer[u][p].piece # i
    BY <1>1 DEF JobsHoldRequested
  <2>1. CASE u = t /\ r = s
    <3>1. i \in batch /\ i \in Piece /\ pieces[t][i] = "free" /\ i # None
      BY <1>2, <1>3, <2>1, EngineAssumption
    <3>2. \A q \in JobsOf(t) : i \notin webJob[q].batch
      BY <3>1, <1>1 DEF Ownership, Holding, JobsHoldRequested
    <3>3. \A p \in Slot : peer[t][p].piece # i
      BY <3>1, <1>1 DEF Ownership, Holding, PeersHoldRequested
    <3> QED
      BY <1>1, <1>2, <1>4, <1>6, <1>7, <2>1, <3>1, <3>2, <3>3
  <2>2. CASE ~(u = t /\ r = s)
    <3>1. r \in JobsOf(u) /\ r # s /\ r \in WebSlot /\ i \in webJob[r].batch
      BY <1>2, <1>6, <1>7, <2>2
    <3>2. /\ pieces[u][i] = "requested" /\ i \in Piece
          /\ \A q \in JobsOf(u) : i \in webJob[q].batch => q = r
          /\ \A p \in Slot : peer[u][p].piece # i
      BY <3>1 DEF Ownership, Holding, JobsHoldRequested, Typing, TypeOK, Job
    <3>3. u = t => i \notin batch
      BY <1>3, <3>2
    <3>4. pieces'[u][i] = "requested"
      BY <1>4, <3>2
    <3>5. \A q \in JobsOf(u)' : i \in webJob'[q].batch => q = r
      BY <1>2, <1>6, <1>7, <3>2, <3>3
    <3> QED
      BY <3>2, <3>4, <3>5
  <2> QED
    BY <2>1, <2>2
<1>13. RequestedIsFetched'
  <2> SUFFICES ASSUME NEW u \in Torrent, Downloading(u), NEW i \in Piece,
                      pieces'[u][i] = "requested"
               PROVE  \/ \E p \in Slot : peer[u][p].piece = i
                      \/ \E r \in JobsOf(u)' : i \in webJob'[r].batch
    BY <1>1 DEF RequestedIsFetched, Downloading
  <2>1. CASE u = t /\ i \in batch
    BY <1>2, <1>6, <2>1
  <2>2. CASE ~(u = t /\ i \in batch)
    <3>1. \/ \E p \in Slot : peer[u][p].piece = i
          \/ \E r \in JobsOf(u) : i \in webJob[r].batch
      BY <1>4, <2>2 DEF Ownership, Holding, RequestedIsFetched
    <3> QED
      BY <1>2, <1>6, <1>7, <3>1
  <2> QED
    BY <2>1, <2>2
<1> QED
  BY <1>9, <1>10, <1>11, <1>12, <1>13 DEF Holding

-----------------------------------------------------------------------------
(* Peers that come, take a piece and complete it.                           *)

LEMMA AdoptHolding ==
  ASSUME Typing, Ownership, NEW t \in Torrent, NEW p \in Slot, AdoptPeer(t, p)
  PROVE  Holding'
<1>1. /\ Downloading(t) /\ UNCHANGED <<state, lifeVars, pieces, webJob>>
      /\ \A u \in Torrent, q \in Slot :
           IF u = t /\ q = p THEN peer'[u][q].piece = None
                             ELSE peer'[u][q] = peer[u][q]
  BY DEF AdoptPeer, Closed, Typing, TypeOK, progressVars
<1>2. peer[t][p].piece = None
  BY EngineAssumption
  DEF AdoptPeer, Ownership, Holding, PeersHoldRequested
<1>3. \A u \in Torrent : JobsOf(u)' = JobsOf(u)
  BY <1>1 DEF JobsOf, lifeVars
<1>4. \A u \in Torrent, q \in Slot : peer'[u][q].piece = peer[u][q].piece
  BY <1>1, <1>2
<1>5. GenerationsUnique'
  BY <1>1 DEF Ownership, Holding, GenerationsUnique, lifeVars
<1>6. UnpreparedIsIdle'
  <2>1. prepared[t]
    BY <1>1 DEF Ownership, Holding, UnpreparedIsIdle
  <2> QED
    BY <1>1, <1>3, <2>1
    DEF Ownership, Holding, UnpreparedIsIdle, Connected, Downloading, lifeVars
<1>7. PeersHoldRequested'
  BY <1>1, <1>2, <1>4 DEF Ownership, Holding, PeersHoldRequested
<1>8. JobsHoldRequested'
  BY <1>1, <1>3, <1>4 DEF Ownership, Holding, JobsHoldRequested
<1>9. RequestedIsFetched'
  BY <1>1, <1>3, <1>4
  DEF Ownership, Holding, RequestedIsFetched, Downloading
<1> QED
  BY <1>5, <1>6, <1>7, <1>8, <1>9 DEF Holding

LEMMA RecvPieceHolding ==
  ASSUME Typing, Ownership, NEW intact \in BOOLEAN, RecvPiece(intact)
  PROVE  Holding'
<1> DEFINE t == main.cur
           p == main.slot
           i == Now.piece
<1>1. /\ main.at = "recv" /\ t \in Torrent /\ p \in Slot
      /\ i \in Piece /\ i # None /\ peer[t][p].piece = i
  BY NowTyping DEF RecvPiece, LastBlock, Awaited, Now
<1>2. Downloading(t) /\ prepared[t] /\ peer[t][p].sock
  BY <1>1 DEF Ownership, VisitsConnected
<1>3. UNCHANGED <<state, lifeVars, webJob>>
  BY DEF RecvPiece
<1>4. \A u \in Torrent, q \in Slot :
        IF u = t /\ q = p THEN peer'[u][q].sock /\ peer'[u][q].piece = None
                          ELSE peer'[u][q] = peer[u][q]
  <2> DEFINE r == [Now EXCEPT !.piece = None, !.received = 0, !.pending = 0,
                              !.intact = TRUE]
  <2>1. peer' = [peer EXCEPT ![t] = [@ EXCEPT ![p] = r]]
    BY DEF RecvPiece, SetPeer
  <2>2. r.sock = peer[t][p].sock /\ r.piece = None
    BY <1>1, NowTyping DEF PeerRecord, Now
  <2> HIDE DEF r
  <2> QED
    BY <1>1, <1>2, <2>1, <2>2 DEF Typing, TypeOK
<1>5. \A u \in Torrent, k \in Piece :
        pieces'[u][k] = IF u = t /\ k = i THEN "complete" ELSE pieces[u][k]
  <2>1. pieces' = [pieces EXCEPT ![t] = Freed(Completed(@, {i}), {i})]
    BY DEF RecvPiece, Cur
  <2> QED
    BY <2>1, <1>1 DEF Freed, Completed, Typing, TypeOK, PieceMap
<1>6. \A u \in Torrent : JobsOf(u)' = JobsOf(u)
  BY <1>3 DEF JobsOf, lifeVars
<1>7. \A u \in Torrent : Connected(u)' = Connected(u)
  BY <1>2, <1>4 DEF Connected
<1>8. \A u \in Torrent : /\ \A q \in Slot : peer[u][q].piece \in Piece \cup {None}
                         /\ \A s \in JobsOf(u) : webJob[s].batch \subseteq Piece
  BY DEF Typing, TypeOK, PeerRecord, Job, JobsOf
<1> HIDE DEF t, p, i
<1>9. GenerationsUnique'
  BY <1>3 DEF Ownership, Holding, GenerationsUnique, lifeVars
<1>10. UnpreparedIsIdle'
  BY <1>2, <1>3, <1>5, <1>6, <1>7
  DEF Ownership, Holding, UnpreparedIsIdle, CompleteIn, Downloading, lifeVars
<1>11. PeersHoldRequested'
  <2>1. \A q \in Slot : peer[t][q].piece = i => q = p
    BY <1>1 DEF Ownership, Holding, PeersHoldRequested
  <2> QED
    BY <1>1, <1>4, <1>5, <1>8, <2>1 DEF Ownership, Holding, PeersHoldRequested
<1>12. JobsHoldRequested'
  <2>1. \A s \in JobsOf(t) : i \notin webJob[s].batch
    BY <1>1 DEF Ownership, Holding, JobsHoldRequested
  <2>2. \A u \in Torrent, q \in Slot : \/ peer'[u][q].piece = None
                                       \/ peer'[u][q].piece = peer[u][q].piece
    BY <1>4
  <2> SUFFICES ASSUME NEW u \in Torrent, NEW s \in JobsOf(u),
                      NEW k \in webJob[s].batch
               PROVE  /\ pieces'[u][k] = "requested"
                      /\ \A r \in JobsOf(u) : k \in webJob[r].batch => r = s
                      /\ \A q \in Slot : peer'[u][q].piece # k
    BY <1>3, <1>6 DEF JobsHoldRequested
  <2>3. /\ k \in Piece /\ k # None /\ pieces[u][k] = "requested"
        /\ \A r \in JobsOf(u) : k \in webJob[r].batch => r = s
        /\ \A q \in Slot : peer[u][q].piece # k
    BY <1>8, EngineAssumption DEF Ownership, Holding, JobsHoldRequested
  <2>4. pieces'[u][k] = "requested"
    BY <1>5, <2>1, <2>3
  <2>5. \A q \in Slot : peer'[u][q].piece # k
    BY <2>2, <2>3
  <2> QED
    BY <2>3, <2>4, <2>5
<1>13. RequestedIsFetched'
  BY <1>3, <1>4, <1>5, <1>6, <1>1
  DEF Ownership, Holding, RequestedIsFetched, Downloading
<1> QED
  BY <1>9, <1>10, <1>11, <1>12, <1>13 DEF Holding

LEMMA RequestPieceHolding ==
  ASSUME Typing, Ownership, NEW i \in Piece, RequestPiece(i)
  PROVE  Holding'
<1> DEFINE t == main.cur
           p == main.slot
<1>1. /\ main.at = "request" /\ t \in Torrent /\ p \in Slot
      /\ peer[t][p].piece = None /\ pieces[t][i] = "free" /\ i # None
  BY NowTyping, EngineAssumption
  DEF RequestPiece, MayRequest, Offered, Now, IsNext, FreeIn, Cur
<1>2. Downloading(t) /\ prepared[t] /\ peer[t][p].sock
  BY <1>1 DEF Ownership, VisitsConnected
<1>3. UNCHANGED <<state, lifeVars, webJob>>
  BY DEF RequestPiece
<1>4. \A u \in Torrent, q \in Slot :
        IF u = t /\ q = p THEN peer'[u][q].sock /\ peer'[u][q].piece = i
                          ELSE peer'[u][q] = peer[u][q]
  <2> DEFINE r == [Now EXCEPT !.piece = i, !.received = 0,
                              !.pending = RequestLength(i, 0)]
  <2>1. peer' = [peer EXCEPT ![t] = [@ EXCEPT ![p] = r]]
    BY DEF RequestPiece, SetPeer
  <2>2. r.sock = peer[t][p].sock /\ r.piece = i
    BY <1>1, NowTyping DEF PeerRecord, Now
  <2> HIDE DEF r
  <2> QED
    BY <1>1, <1>2, <2>1, <2>2 DEF Typing, TypeOK
<1>5. \A u \in Torrent, k \in Piece :
        pieces'[u][k] = IF u = t /\ k = i THEN "requested" ELSE pieces[u][k]
  BY <1>1 DEF RequestPiece, Requested, Cur, Typing, TypeOK, PieceMap
<1>6. \A u \in Torrent : JobsOf(u)' = JobsOf(u)
  BY <1>3 DEF JobsOf, lifeVars
<1>7. \A u \in Torrent : Connected(u)' = Connected(u)
  BY <1>2, <1>4 DEF Connected
<1>8. \A u \in Torrent : /\ \A q \in Slot : peer[u][q].piece \in Piece \cup {None}
                         /\ \A s \in JobsOf(u) : webJob[s].batch \subseteq Piece
  BY DEF Typing, TypeOK, PeerRecord, Job, JobsOf
<1>9. /\ \A q \in Slot : peer[t][q].piece # i
      /\ \A s \in JobsOf(t) : i \notin webJob[s].batch
  BY <1>1
  DEF Ownership, Holding, PeersHoldRequested, JobsHoldRequested
<1> HIDE DEF t, p
<1>10. GenerationsUnique'
  BY <1>3 DEF Ownership, Holding, GenerationsUnique, lifeVars
<1>11. UnpreparedIsIdle'
  BY <1>2, <1>3, <1>5, <1>6, <1>7
  DEF Ownership, Holding, UnpreparedIsIdle, CompleteIn, Downloading, lifeVars
<1>12. PeersHoldRequested'
  BY <1>1, <1>4, <1>5, <1>8, <1>9 DEF Ownership, Holding, PeersHoldRequested
<1>13. JobsHoldRequested'
  BY <1>1, <1>3, <1>4, <1>5, <1>6, <1>8, <1>9
  DEF Ownership, Holding, JobsHoldRequested
<1>14. RequestedIsFetched'
  <2> SUFFICES ASSUME NEW u \in Torrent, Downloading(u), NEW k \in Piece,
                      pieces'[u][k] = "requested"
               PROVE  \/ \E q \in Slot : peer'[u][q].piece = k
                      \/ \E s \in JobsOf(u) : k \in webJob[s].batch
    BY <1>3, <1>6 DEF RequestedIsFetched, Downloading
  <2>1. CASE u = t /\ k = i
    BY <1>1, <1>4, <2>1
  <2>2. CASE ~(u = t /\ k = i)
    <3>1. pieces[u][k] = "requested"
      BY <1>5, <2>2
    <3>2. \/ \E q \in Slot : peer[u][q].piece = k
          \/ \E s \in JobsOf(u) : k \in webJob[s].batch
      BY <3>1 DEF Ownership, Holding, RequestedIsFetched
    <3>3. \A q \in Slot : peer[u][q].piece = k => peer'[u][q].piece = k
      BY <1>1, <1>4, EngineAssumption
    <3> QED
      BY <3>2, <3>3
  <2> QED
    BY <2>1, <2>2
<1> QED
  BY <1>10, <1>11, <1>12, <1>13, <1>14 DEF Holding

-----------------------------------------------------------------------------
(* The handlers.                                                            *)

(* Torrent t is left without peers, jobs or requested pieces.               *)
LEMMA TorrentReset ==
  ASSUME Typing, Holding, NEW t \in Torrent, UNCHANGED webJob,
         \A u \in Torrent \ {t} :
           /\ state'[u] = state[u] /\ generation'[u] = generation[u]
           /\ prepared'[u] = prepared[u] /\ pieces'[u] = pieces[u]
           /\ peer'[u] = peer[u],
         \A p \in Slot : ~peer'[t][p].sock /\ peer'[t][p].piece = None,
         JobsOf(t)' = {},
         state'[t] = "absent" => ~prepared'[t],
         ~prepared'[t] => ~Downloading(t)' /\ CompleteIn(pieces'[t]) = {},
         Downloading(t)' => \A i \in Piece : pieces'[t][i] # "requested",
         GenerationsUnique'
  PROVE  Holding'
<1>1. \A u \in Torrent \ {t} : /\ JobsOf(u)' = JobsOf(u)
                               /\ Connected(u)' = Connected(u)
                               /\ Downloading(u)' <=> Downloading(u)
  BY DEF JobsOf, Connected, Downloading
<1>2. UnpreparedIsIdle'
  <2>1. Connected(t)' = {}
    BY DEF Connected
  <2> SUFFICES ASSUME NEW u \in Torrent
               PROVE  /\ state'[u] = "absent" => ~prepared'[u]
                      /\ ~prepared'[u] =>
                           /\ ~Downloading(u)' /\ JobsOf(u)' = {}
                           /\ Connected(u)' = {} /\ CompleteIn(pieces'[u]) = {}
    BY DEF UnpreparedIsIdle
  <2>2. CASE u = t
    BY <2>1, <2>2
  <2>3. CASE u # t
    BY <1>1, <2>3 DEF Holding, UnpreparedIsIdle
  <2> QED
    BY <2>2, <2>3
<1>3. PeersHoldRequested'
  BY DEF Holding, PeersHoldRequested
<1>4. JobsHoldRequested'
  BY <1>1 DEF Holding, JobsHoldRequested
<1>5. RequestedIsFetched'
  <2> SUFFICES ASSUME NEW u \in Torrent, Downloading(u)', NEW i \in Piece,
                      pieces'[u][i] = "requested"
               PROVE  \/ \E p \in Slot : peer'[u][p].piece = i
                      \/ \E s \in JobsOf(u)' : i \in webJob[s].batch
    BY DEF RequestedIsFetched
  <2>1. u # t
    OBVIOUS
  <2> QED
    BY <1>1, <2>1 DEF Holding, RequestedIsFetched
<1> QED
  BY <1>2, <1>3, <1>4, <1>5 DEF Holding

(* No job has a generation that is yet to be handed out.                    *)
LEMMA FreshGeneration ==
  ASSUME Typing, Holding, NEW t \in Torrent, nextGeneration < MaxGeneration,
         UNCHANGED webJob,
         generation' = [generation EXCEPT ![t] = nextGeneration],
         nextGeneration' = nextGeneration + 1,
         \A u \in Torrent \ {t} : state'[u] = state[u]
  PROVE  JobsOf(t)' = {} /\ GenerationsUnique'
<1>1. /\ nextGeneration \in Nat \ {0}
      /\ generation'[t] = nextGeneration
      /\ \A u \in Torrent : generation[u] \in Nat
      /\ \A u \in Torrent \ {t} : generation'[u] = generation[u]
  BY EngineAssumption DEF Typing, TypeOK, Generation
<1>2. \A u \in Torrent \ {t} : generation'[u] < generation'[t]
  BY <1>1 DEF Holding, GenerationsUnique
<1>3. \A s \in WebSlot : webJob[s].status # "empty" =>
        /\ webJob[s].generation \in 1 .. nextGeneration - 1
        /\ webJob[s].generation \in 1 .. nextGeneration' - 1
        /\ webJob[s].generation # generation'[t]
  BY <1>1 DEF Holding, GenerationsUnique
<1>4. JobsOf(t)' = {}
  BY <1>3 DEF JobsOf
<1>5. \A u \in Torrent : /\ generation'[u] < nextGeneration'
                         /\ state'[u] # "absent" => generation'[u] > 0
  BY <1>1, <1>2 DEF Holding, GenerationsUnique
<1>6. \A u, v \in Torrent : generation'[u] = generation'[v]
                              /\ generation'[u] > 0 => u = v
  BY <1>1, <1>2 DEF Holding, GenerationsUnique
<1> QED
  BY <1>3, <1>4, <1>5, <1>6 DEF GenerationsUnique

LEMMA HandlerHolding ==
  ASSUME Typing, Ownership, NEW t \in Torrent,
         \/ \E f \in File : Add(t, f)
         \/ \E outcome \in {"early", "file", "ok"} : Start(t, outcome)
         \/ Stop(t)
         \/ Remove(t)
  PROVE  Holding'
<1>1. CloseAll(t) =>
        /\ \A u \in Torrent \ {t} : peer'[u] = peer[u]
        /\ \A p \in Slot : ~peer'[t][p].sock /\ peer'[t][p].piece = None
  BY DEF CloseAll, Closed, Typing, TypeOK
<1>2. ~prepared[t] =>
        /\ \A p \in Slot : ~peer[t][p].sock /\ peer[t][p].piece = None
        /\ JobsOf(t) = {} /\ CompleteIn(pieces[t]) = {}
  BY EngineAssumption
  DEF Ownership, Holding, UnpreparedIsIdle, PeersHoldRequested, Connected
<1>3. CompleteIn(AllFree) = {} /\ \A i \in Piece : AllFree[i] # "requested"
  BY DEF CompleteIn, AllFree
<1>4. ASSUME NEW f \in File, Add(t, f) PROVE Holding'
  <2>1. /\ state[t] = "absent" /\ nextGeneration < MaxGeneration
        /\ state' = [state EXCEPT ![t] = "stopped"]
        /\ generation' = [generation EXCEPT ![t] = nextGeneration]
        /\ nextGeneration' = nextGeneration + 1
        /\ UNCHANGED <<prepared, pieces, peer, webJob>>
    BY <1>4 DEF Add, peerVars, progressVars
  <2>2. \A u \in Torrent \ {t} : /\ state'[u] = state[u]
                                 /\ generation'[u] = generation[u]
    BY <2>1 DEF Typing, TypeOK
  <2>3. JobsOf(t)' = {} /\ GenerationsUnique'
    BY <2>1, <2>2, FreshGeneration DEF Ownership
  <2>4. ~prepared[t]
    BY <2>1 DEF Ownership, Holding, UnpreparedIsIdle
  <2>5. state'[t] = "stopped"
    BY <2>1 DEF Typing, TypeOK
  <2> QED
    BY <1>2, <2>1, <2>2, <2>3, <2>4, <2>5, TorrentReset
    DEF Ownership, Downloading
<1>5. ASSUME NEW outcome \in {"early", "file", "ok"}, Start(t, outcome)
      PROVE  Holding'
  <2>1. /\ state[t] \in {"stopped", "error"}
        /\ state'[t] \in {"downloading", "error"}
        /\ prepared'[t] <=> outcome # "early"
        /\ state'[t] = "downloading" <=> outcome = "ok"
        /\ pieces'[t] = AllFree
        /\ UNCHANGED webJob
        /\ \A u \in Torrent \ {t} : /\ state'[u] = state[u]
                                    /\ prepared'[u] = prepared[u]
                                    /\ pieces'[u] = pieces[u]
    BY <1>5 DEF Start, Typing, TypeOK
  <2>2. /\ \A u \in Torrent \ {t} : /\ peer'[u] = peer[u]
                                    /\ generation'[u] = generation[u]
        /\ \A p \in Slot : ~peer'[t][p].sock /\ peer'[t][p].piece = None
        /\ JobsOf(t)' = {} /\ GenerationsUnique'
    <3>1. CASE prepared[t]
      <4>1. /\ CloseAll(t) /\ nextGeneration < MaxGeneration
            /\ generation' = [generation EXCEPT ![t] = nextGeneration]
            /\ nextGeneration' = nextGeneration + 1
        BY <1>5, <3>1 DEF Start, StoppedGeneration
      <4>2. \A u \in Torrent \ {t} : generation'[u] = generation[u]
        BY <4>1 DEF Typing, TypeOK
      <4> QED
        BY <1>1, <2>1, <4>1, <4>2, FreshGeneration DEF Ownership
    <3>2. CASE ~prepared[t]
      <4>1. UNCHANGED <<peer, generation, nextGeneration>>
        BY <1>5, <3>2 DEF Start
      <4>2. JobsOf(t)' = JobsOf(t)
        BY <2>1, <4>1 DEF JobsOf
      <4>3. GenerationsUnique'
        BY <2>1, <4>1 DEF Ownership, Holding, GenerationsUnique
      <4> QED
        BY <1>2, <3>2, <4>1, <4>2, <4>3
    <3> QED
      BY <3>1, <3>2
  <2> QED
    BY <1>3, <2>1, <2>2, TorrentReset DEF Ownership, Downloading
<1>6. CASE Stop(t)
  <2>1. /\ nextGeneration < MaxGeneration /\ state[t] # "absent"
        /\ state' = [state EXCEPT ![t] = "stopped"]
        /\ generation' = [generation EXCEPT ![t] = nextGeneration]
        /\ nextGeneration' = nextGeneration + 1
        /\ CloseAll(t)
        /\ pieces' = [pieces EXCEPT ![t] = Freed(@, HeldBy(t, Slot))]
        /\ UNCHANGED <<prepared, webJob>>
    BY <1>6 DEF Stop, StoppedGeneration
  <2>2. /\ state'[t] = "stopped"
        /\ \A u \in Torrent \ {t} : /\ state'[u] = state[u]
                                    /\ generation'[u] = generation[u]
                                    /\ pieces'[u] = pieces[u]
    BY <2>1 DEF Typing, TypeOK
  <2>3. JobsOf(t)' = {} /\ GenerationsUnique'
    BY <2>1, <2>2, FreshGeneration DEF Ownership
  <2>4. CompleteIn(pieces'[t]) = CompleteIn(pieces[t])
    BY <2>1 DEF CompleteIn, Freed, Typing, TypeOK, PieceMap
  <2> QED
    BY <1>1, <1>2, <2>1, <2>2, <2>3, <2>4, TorrentReset
    DEF Ownership, Downloading
<1>7. CASE Remove(t)
  <2>1. /\ CloseAll(t) /\ UNCHANGED webJob
        /\ state'[t] = "absent" /\ generation'[t] = 0 /\ ~prepared'[t]
        /\ pieces'[t] = AllFree /\ nextGeneration' = nextGeneration + 1
        /\ \A u \in Torrent \ {t} : /\ state'[u] = state[u]
                                    /\ generation'[u] = generation[u]
                                    /\ prepared'[u] = prepared[u]
                                    /\ pieces'[u] = pieces[u]
    BY <1>7 DEF Remove, Typing, TypeOK
  <2>2. nextGeneration \in Nat \ {0}
        /\ \A u \in Torrent : generation[u] \in Nat
    BY EngineAssumption DEF Typing, TypeOK, Generation
  <2>3. \A s \in WebSlot : webJob[s].status # "empty" =>
          /\ webJob[s].generation \in 1 .. nextGeneration' - 1
          /\ webJob[s].generation # 0
    BY <2>1, <2>2 DEF Ownership, Holding, GenerationsUnique
  <2>4. JobsOf(t)' = {}
    BY <2>1, <2>3 DEF JobsOf
  <2>5. GenerationsUnique'
    BY <2>1, <2>2, <2>3 DEF Ownership, Holding, GenerationsUnique
  <2> QED
    BY <1>1, <1>3, <2>1, <2>4, <2>5, TorrentReset DEF Ownership, Downloading
<1> QED
  BY <1>4, <1>5, <1>6, <1>7

-----------------------------------------------------------------------------
(* What the tick relies on while it visits torrents and peers.              *)

(* A step outside the loop over the torrents.                               *)
LEMMA VisitsOutside ==
  ASSUME VisitsConnected, main.at \in {"http", "web", "conn"},
         main'.at \in {"http", "web", "conn"},
         main'.todo = main.todo, main'.cur = main.cur
  PROVE  VisitsConnected'
BY DEF VisitsConnected

(* A step within the visit of a torrent, after which the peers yet to be    *)
(* visited are connected.                                                   *)
LEMMA VisitsInside ==
  ASSUME Typing, VisitsConnected,
         main.at \in {"peers", "recv", "request", "schedule"},
         main'.at \in {"peers", "schedule"},
         main'.todo = main.todo, main'.cur = main.cur,
         main'.at = "peers" => main'.visit \subseteq Connected(main.cur)',
         UNCHANGED prepared,
         \/ UNCHANGED state
         \/ state' = [state EXCEPT ![main.cur] = "error"]
  PROVE  VisitsConnected'
<1>1. main.cur \in Torrent /\ main.todo \subseteq Torrent
  BY DEF Typing, TypeOK, Cursor, Main
<1>2. state'[main.cur] # "absent"
      /\ \A t \in main.todo : state'[t] = state[t]
  BY <1>1 DEF VisitsConnected, Typing, TypeOK
<1> QED
  BY <1>2 DEF VisitsConnected, Downloading

LEMMA VisitsUnchanged ==
  ASSUME Typing, VisitsConnected, UNCHANGED <<state, prepared>>,
         main'.at = main.at, main'.todo = main.todo, main'.cur = main.cur,
         main'.visit = main.visit, main'.slot = main.slot,
         main.at \in {"peers", "recv", "request"} =>
           \A p \in Slot : peer'[main.cur][p].sock = peer[main.cur][p].sock
  PROVE  VisitsConnected'
<1>1. main.at \in {"recv", "request"} => main.slot \in Slot
  BY DEF Typing, Cursor
<1>2. main.at \in {"peers", "recv", "request"} =>
        Connected(main.cur)' = Connected(main.cur)
  BY DEF Connected
<1> QED
  BY <1>1, <1>2 DEF VisitsConnected, Downloading

LEMMA VisitsOutsideSteps ==
  ASSUME Typing, Ownership, Handler \/ StartTick \/ CollectStage
  PROVE  VisitsConnected'
<1>1. main \in Main
  BY DEF Typing, TypeOK
<1>2. CASE Handler
  BY <1>2, VisitsOutside
  DEF Ownership, Handler, Add, Start, Stop, Remove
<1>3. CASE StartTick
  BY <1>1, <1>3, VisitsOutside DEF Ownership, StartTick, Main
<1>4. CASE EndCollectWebSeed
  BY <1>1, <1>4, VisitsOutside DEF Ownership, EndCollectWebSeed, Main
<1>5. CASE EndCollectPeers
  <2>1. /\ main'.at = "torrents" /\ main'.cur = main.cur /\ main.cur = None
        /\ main'.todo = {t \in Torrent : Downloading(t)}
        /\ UNCHANGED state
    BY <1>1, <1>5
    DEF EndCollectPeers, Main, Ownership, VisitsConnected
  <2> QED
    BY <2>1, EngineAssumption DEF VisitsConnected, Downloading
<1>6. CASE CollectStage /\ ~EndCollectWebSeed /\ ~EndCollectPeers
  <2>1. main.at \in {"web", "conn"} /\ UNCHANGED main
    BY <1>6 DEF CollectStage, DiscardWebSeed, FailWebSeed, CollectWebSeed,
                AdoptPeer, Collectable
  <2> QED
    BY <2>1, VisitsOutside DEF Ownership
<1> QED
  BY <1>2, <1>3, <1>4, <1>5, <1>6

LEMMA VisitsTorrentSteps ==
  ASSUME Typing, Ownership, TorrentStage
  PROVE  VisitsConnected'
<1>1. main \in Main
  BY DEF Typing, TypeOK
<1>2. ASSUME NEW t \in Torrent, FinishTorrent(t) PROVE VisitsConnected'
  <2>1. /\ main.at = "torrents" /\ main'.at = "torrents"
        /\ main'.cur = main.cur /\ main'.todo = main.todo \ {t}
    BY <1>1, <1>2 DEF FinishTorrent, Main
  <2>2. \A u \in main'.todo : u # t /\ state'[u] = state[u]
    BY <1>1, <1>2, <2>1 DEF FinishTorrent, Typing, TypeOK, Main
  <2> QED
    BY <2>1, <2>2 DEF Ownership, VisitsConnected, Downloading
<1>3. ASSUME NEW t \in Torrent, VisitTorrent(t) PROVE VisitsConnected'
  <2>1. /\ main'.at = "peers" /\ main'.cur = t /\ main'.visit = Connected(t)
        /\ main'.todo = main.todo \ {t} /\ t \in main.todo
        /\ UNCHANGED <<state, prepared, peer>>
    BY <1>1, <1>3 DEF VisitTorrent, Main, lifeVars, peerVars
  <2>2. Downloading(t) /\ prepared[t]
    BY <2>1
    DEF Ownership, VisitsConnected, Holding, UnpreparedIsIdle
  <2>3. Connected(t)' = Connected(t)
    BY <2>1 DEF Connected
  <2> QED
    BY <2>1, <2>2, <2>3 DEF Ownership, VisitsConnected, Downloading
<1>4. CASE EndTick
  BY <1>4 DEF EndTick, Idle, VisitsConnected
<1>5. ASSUME NEW s \in WebSlot, ScheduleWebSeed(s) PROVE VisitsConnected'
  BY <1>5, VisitsUnchanged DEF Ownership, ScheduleWebSeed, lifeVars
<1>6. CASE EndSchedule
  <2>1. /\ main'.at = "torrents" /\ main'.cur = None /\ main'.todo = main.todo
        /\ UNCHANGED state /\ main.todo \subseteq Torrent
    BY <1>1, <1>6 DEF EndSchedule, Main
  <2> QED
    BY <2>1, EngineAssumption DEF Ownership, VisitsConnected, Downloading
<1> QED
  BY <1>2, <1>3, <1>4, <1>5, <1>6 DEF TorrentStage

(* Peer p of the torrent being visited is dropped, and not to be visited    *)
(* any more.                                                                *)
LEMMA VisitsDrop ==
  ASSUME Typing, VisitsConnected, NEW p \in Slot,
         main.at \in {"peers", "recv", "request"},
         Disconnect(Cur, {p}),
         main'.at = "peers", main'.todo = main.todo, main'.cur = main.cur,
         main'.visit = main.visit \ {p},
         UNCHANGED prepared,
         \/ UNCHANGED state
         \/ state' = [state EXCEPT ![main.cur] = "error"]
  PROVE  VisitsConnected'
<1>1. main.cur \in Torrent
  BY DEF Typing, Cursor
<1>2. \A q \in Slot : q # p => peer'[main.cur][q] = peer[main.cur][q]
  BY <1>1 DEF Disconnect, CloseSockets, Cur, Typing, TypeOK
<1>3. main.visit \subseteq Connected(main.cur)
  BY DEF VisitsConnected
<1>4. main'.visit \subseteq Connected(main.cur)'
  BY <1>2, <1>3 DEF Connected
<1> QED
  BY <1>4, VisitsInside

LEMMA VisitsPeerSteps ==
  ASSUME Typing, Ownership, PeerStage
  PROVE  VisitsConnected'
<1>1. main \in Main
  BY DEF Typing, TypeOK
<1>2. VisitsConnected
  BY DEF Ownership
<1>3. ASSUME NEW p \in Slot, TimeOutPeer(p) PROVE VisitsConnected'
  <2>1. /\ main.at = "peers" /\ Disconnect(Cur, {p})
        /\ main'.at = "peers" /\ main'.todo = main.todo
        /\ main'.cur = main.cur /\ main'.visit = main.visit \ {p}
        /\ UNCHANGED <<state, prepared>>
    BY <1>1, <1>3 DEF TimeOutPeer, Main, lifeVars
  <2> QED
    BY <1>2, <2>1, VisitsDrop
<1>4. ASSUME NEW p \in Slot, VisitPeer(p) PROVE VisitsConnected'
  <2>1. /\ main.at = "peers" /\ p \in main.visit /\ Downloading(main.cur)
        /\ main'.at = "recv" /\ main'.todo = main.todo
        /\ main'.cur = main.cur /\ main'.visit = main.visit \ {p}
        /\ main'.slot = p
        /\ UNCHANGED <<state, prepared, peer>>
    BY <1>1, <1>4 DEF VisitPeer, Main, lifeVars, peerVars, Cur
  <2>2. Connected(main.cur)' = Connected(main.cur)
    BY <2>1 DEF Connected
  <2> QED
    BY <1>2, <2>1, <2>2 DEF VisitsConnected, Downloading, Connected
<1>5. CASE EndPeers
  <2>1. /\ main.at = "peers" /\ main'.at = "schedule"
        /\ main'.todo = main.todo /\ main'.cur = main.cur
        /\ UNCHANGED <<state, prepared>>
    BY <1>1, <1>5 DEF EndPeers, Main, lifeVars
  <2> QED
    BY <1>2, <2>1, VisitsInside
(* Frames and requests that leave the peer connected.                       *)
<1>6. \A q : SetPeer(q) /\ main.at \in {"recv", "request"}
               /\ q.sock = Now.sock
        => \A p \in Slot : peer'[main.cur][p].sock = peer[main.cur][p].sock
  BY NowTyping DEF SetPeer, Now, Typing, TypeOK
<1>7. CASE \/ RecvChoke \/ RecvUnchoke \/ RecvIgnored
           \/ \E bits \in SUBSET Piece : RecvBitfield(bits)
           \/ \E i \in Piece : RecvHave(i)
           \/ \E intact \in BOOLEAN : RecvBlock(intact) \/ RecvPiece(intact)
  <2>1. /\ main.at = "recv" /\ main' = [main EXCEPT !.budget = @ - 1]
        /\ UNCHANGED <<state, prepared>>
    BY <1>7 DEF RecvChoke, RecvUnchoke, RecvIgnored, RecvBitfield, RecvHave,
                RecvBlock, RecvPiece, LastBlock, Receive, lifeVars
  <2>2. UNCHANGED peer \/ \E q : SetPeer(q) /\ q.sock = Now.sock
    <3>1. Now \in PeerRecord
      BY <2>1, NowTyping
    <3>2. CASE RecvChoke
      <4>1. [Now EXCEPT !.choked = TRUE, !.pending = 0].sock = Now.sock
        BY <3>1 DEF PeerRecord
      <4> QED
        BY <3>2, <4>1 DEF RecvChoke
    <3>3. CASE RecvUnchoke
      BY <3>1, <3>3 DEF RecvUnchoke, PeerRecord
    <3>4. CASE RecvIgnored
      BY <3>4 DEF RecvIgnored, peerVars
    <3>5. CASE \E bits \in SUBSET Piece : RecvBitfield(bits)
      BY <3>1, <3>5 DEF RecvBitfield, PeerRecord
    <3>6. CASE \E i \in Piece : RecvHave(i)
      BY <3>1, <3>6 DEF RecvHave, PeerRecord
    <3>7. ASSUME NEW intact \in BOOLEAN, RecvBlock(intact)
          PROVE  \E q : SetPeer(q) /\ q.sock = Now.sock
      <4> DEFINE q == [Now EXCEPT !.received = ReceivedAfter, !.pending = 0,
                                  !.intact = @ /\ intact]
      <4>1. SetPeer(q)
        BY <3>7 DEF RecvBlock
      <4>2. q.sock = Now.sock
        BY <3>1 DEF PeerRecord
      <4> QED
        BY <4>1, <4>2
    <3>8. ASSUME NEW intact \in BOOLEAN, RecvPiece(intact)
          PROVE  \E q : SetPeer(q) /\ q.sock = Now.sock
      <4> DEFINE q == [Now EXCEPT !.piece = None, !.received = 0,
                                  !.pending = 0, !.intact = TRUE]
      <4>1. SetPeer(q)
        BY <3>8 DEF RecvPiece
      <4>2. q.sock = Now.sock
        BY <3>1 DEF PeerRecord
      <4> QED
        BY <4>1, <4>2
    <3> QED
      BY <1>7, <3>2, <3>3, <3>4, <3>5, <3>6, <3>7, <3>8
  <2>3. /\ main'.at = main.at /\ main'.todo = main.todo /\ main'.cur = main.cur
        /\ main'.visit = main.visit /\ main'.slot = main.slot
    BY <1>1, <2>1 DEF Main
  <2>4. \A p \in Slot : peer'[main.cur][p].sock = peer[main.cur][p].sock
    BY <1>6, <2>1, <2>2
  <2> QED
    BY <1>2, <2>1, <2>3, <2>4, VisitsUnchanged
<1>8. CASE EndRecv
  <2>1. /\ main.at = "recv" /\ main'.at = "request" /\ main'.todo = main.todo
        /\ main'.cur = main.cur /\ main'.visit = main.visit
        /\ main'.slot = main.slot
        /\ UNCHANGED <<state, prepared, peer>>
    BY <1>1, <1>8 DEF EndRecv, Main, lifeVars, peerVars
  <2>2. Connected(main.cur)' = Connected(main.cur)
    BY <2>1 DEF Connected
  <2> QED
    BY <1>2, <2>1, <2>2 DEF VisitsConnected, Downloading
(* Back to the loop over the peers.                                         *)
<1>9. main.at \in {"recv", "request"} /\ BackToPeers =>
        /\ main'.at = "peers" /\ main'.todo = main.todo
        /\ main'.cur = main.cur /\ main'.visit = main.visit
        /\ main'.visit = main.visit \ {main.slot}
  BY <1>1, <1>2 DEF BackToPeers, Main, VisitsConnected
<1>10. CASE \/ RecvBad \/ RequestFails
            \/ \E intact \in BOOLEAN : \/ RecvCorruptPiece(intact)
                                       \/ RecvUnwritablePiece(intact)
  <2>1. /\ main.at \in {"recv", "request"} /\ BackToPeers
        /\ Disconnect(Cur, {main.slot}) /\ UNCHANGED prepared
        /\ \/ UNCHANGED state
           \/ state' = [state EXCEPT ![main.cur] = "error"]
    BY <1>10 DEF RecvBad, RequestFails, RecvCorruptPiece, RecvUnwritablePiece,
                 LastBlock, MayRequest, lifeVars, Cur
  <2> QED
    BY <1>2, <1>9, <2>1, NowTyping, VisitsDrop
<1>11. CASE \/ RequestNothing \/ RequestBlock
            \/ \E i \in Piece : RequestTooLarge(i) \/ RequestPiece(i)
  <2>1. /\ main.at = "request" /\ BackToPeers /\ UNCHANGED prepared
        /\ \/ UNCHANGED state
           \/ state' = [state EXCEPT ![main.cur] = "error"]
    BY <1>11 DEF RequestNothing, RequestBlock, RequestTooLarge, RequestPiece,
                 MayRequest, lifeVars, Cur
  <2>2. UNCHANGED peer \/ \E q : SetPeer(q) /\ q.sock = Now.sock
    <3>1. Now \in PeerRecord
      BY <2>1, NowTyping
    <3>2. CASE RequestNothing \/ \E i \in Piece : RequestTooLarge(i)
      BY <3>2 DEF RequestNothing, RequestTooLarge, peerVars
    <3>3. CASE RequestBlock
      BY <3>1, <3>3 DEF RequestBlock, PeerRecord
    <3>4. ASSUME NEW i \in Piece, RequestPiece(i)
          PROVE  \E q : SetPeer(q) /\ q.sock = Now.sock
      <4> DEFINE q == [Now EXCEPT !.piece = i, !.received = 0,
                                  !.pending = RequestLength(i, 0)]
      <4>1. SetPeer(q)
        BY <3>4 DEF RequestPiece
      <4>2. q.sock = Now.sock
        BY <3>1 DEF PeerRecord
      <4> QED
        BY <4>1, <4>2
    <3> QED
      BY <1>11, <3>2, <3>3, <3>4
  <2>3. \A p \in Slot : peer'[main.cur][p].sock = peer[main.cur][p].sock
    BY <1>6, <2>1, <2>2
  <2>4. main'.visit \subseteq Connected(main.cur)'
    BY <1>2, <1>9, <2>1, <2>3 DEF VisitsConnected, Connected
  <2> QED
    BY <1>2, <1>9, <2>1, <2>4, VisitsInside
<1> QED
  BY <1>3, <1>4, <1>5, <1>7, <1>8, <1>10, <1>11 DEF PeerStage

-----------------------------------------------------------------------------
(* The theorems.                                                            *)

LEMMA NextOwnership == Typing /\ Ownership /\ [Next]_vars => Ownership'
<1> SUFFICES ASSUME Typing, Ownership, [Next]_vars PROVE Ownership'
  OBVIOUS
<1>1. CASE UNCHANGED vars
  <2>1. UNCHANGED <<main, state, generation, nextGeneration, prepared, pieces,
                    peer, webJob>>
    BY <1>1 DEF vars
  <2> QED
    BY <2>1
    DEF Ownership, VisitsConnected, Holding, GenerationsUnique,
        UnpreparedIsIdle, PeersHoldRequested, JobsHoldRequested,
        RequestedIsFetched, Downloading, Connected, JobsOf
<1>2. CASE Next
  <2>1. VisitsConnected'
    <3>1. CASE Worker
      BY <3>1, VisitsUnchanged
      DEF Ownership, Worker, FetchWebSeed, lifeVars, peerVars
    <3> QED
      BY <1>2, <3>1, VisitsOutsideSteps, VisitsTorrentSteps, VisitsPeerSteps
      DEF Next, Tick
  <2>2. Holding'
    <3>1. CASE Handler
      <4>1. PICK t \in Torrent :
              \/ \E f \in File : Add(t, f)
              \/ \E outcome \in {"early", "file", "ok"} : Start(t, outcome)
              \/ Stop(t)
              \/ Remove(t)
        BY <3>1 DEF Handler
      <4> QED
        BY <4>1, HandlerHolding
    <3>2. CASE Worker
      BY <3>2, FetchHolding
    <3>3. ASSUME NEW s \in WebSlot,
                 \/ DiscardWebSeed(s)
                 \/ \E t \in Torrent : FailWebSeed(s, t)
                 \/ \E t \in Torrent, fault \in Piece \cup {None} :
                      CollectWebSeed(s, t, fault)
          PROVE  Holding'
      BY <3>3, CollectHolding
    <3>4. ASSUME NEW t \in Torrent, NEW p \in Slot, AdoptPeer(t, p)
          PROVE  Holding'
      BY <3>4, AdoptHolding
    <3>5. ASSUME NEW s \in WebSlot, ScheduleWebSeed(s) PROVE Holding'
      BY <3>5, ScheduleHolding
    <3>6. ASSUME NEW intact \in BOOLEAN, RecvPiece(intact) PROVE Holding'
      BY <3>6, RecvPieceHolding
    <3>7. ASSUME NEW i \in Piece, RequestPiece(i) PROVE Holding'
      BY <3>7, RequestPieceHolding
    <3>8. CASE \/ StartTick \/ EndCollectWebSeed \/ EndCollectPeers
               \/ \E t \in Torrent : VisitTorrent(t)
               \/ EndTick \/ EndSchedule
               \/ \E p \in Slot : VisitPeer(p)
               \/ EndPeers \/ RecvIgnored \/ EndRecv \/ RequestNothing
               \/ \E i \in Piece : RequestTooLarge(i)
      BY <3>8, QuietSteps
    <3>9. ASSUME NEW intact \in BOOLEAN, RecvBlock(intact) PROVE Holding'
      BY <3>9, PeerRecordSteps
    <3>10. CASE \/ \E t \in Torrent : FinishTorrent(t)
                \/ \E p \in Slot : TimeOutPeer(p)
                \/ RecvBad \/ RequestFails
                \/ \E intact \in BOOLEAN : \/ RecvCorruptPiece(intact)
                                           \/ RecvUnwritablePiece(intact)
      BY <3>10, DropSteps
    <3>11. CASE CollectStage
      BY <3>3, <3>4, <3>8, <3>11 DEF CollectStage
    <3>12. CASE TorrentStage
      BY <3>5, <3>8, <3>10, <3>12 DEF TorrentStage
    <3>13. CASE PeerStage
      <4>1. CASE \E p \in Slot : TimeOutPeer(p) \/ VisitPeer(p)
        BY <3>8, <3>10, <4>1
      <4>2. CASE \E i \in Piece : RequestTooLarge(i) \/ RequestPiece(i)
        BY <3>7, <3>8, <4>2
      <4>3. CASE \E intact \in BOOLEAN :
                   \/ RecvBlock(intact) \/ RecvCorruptPiece(intact)
                   \/ RecvUnwritablePiece(intact) \/ RecvPiece(intact)
        BY <3>6, <3>9, <3>10, <4>3
      <4>4. CASE EndPeers \/ RecvIgnored \/ EndRecv \/ RequestNothing
        BY <3>8, <4>4
      <4>5. CASE \/ RecvChoke \/ RecvUnchoke \/ RequestBlock
                 \/ \E bits \in SUBSET Piece : RecvBitfield(bits)
                 \/ \E i \in Piece : RecvHave(i)
        BY <4>5, PeerRecordSteps
      <4>6. CASE RecvBad \/ RequestFails
        BY <3>10, <4>6
      <4> QED
        BY <3>13, <4>1, <4>2, <4>3, <4>4, <4>5, <4>6 DEF PeerStage
    <3>14. CASE StartTick
      BY <3>8, <3>14
    <3> QED
      BY <1>2, <3>1, <3>2, <3>11, <3>12, <3>13, <3>14 DEF Next, Tick
  <2> QED
    BY <2>1, <2>2 DEF Ownership
<1> QED
  BY <1>1, <1>2

LEMMA OwnershipInvariant == Spec => [](Typing /\ Ownership)
<1>1. Init => Typing /\ Ownership
  BY InitTyping, InitOwnership
<1>2. Typing /\ Ownership /\ [Next]_vars => (Typing /\ Ownership)'
  BY NextTyping, NextOwnership
<1> QED
  BY <1>1, <1>2, PTL DEF Spec

(* No piece is ever fetched by two peers, two web seed jobs or one of each. *)
THEOREM OwnersAreExclusive == Spec => []ExclusiveOwner
<1>1. Typing /\ Ownership => ExclusiveOwner
  <2> SUFFICES ASSUME Typing, Ownership, NEW t \in Torrent, NEW i \in Piece
               PROVE  /\ Owners(t, i) # {} => pieces[t][i] = "requested"
                      /\ \A a, b \in Owners(t, i) : a = b
    BY DEF ExclusiveOwner
  <2>1. \A p \in Slot : peer[t][p].piece = i =>
          /\ pieces[t][i] = "requested"
          /\ \A q \in Slot : peer[t][q].piece = i => q = p
    BY EngineAssumption DEF Ownership, Holding, PeersHoldRequested
  <2>2. \A s \in JobsOf(t) : i \in webJob[s].batch =>
          /\ pieces[t][i] = "requested"
          /\ \A r \in JobsOf(t) : i \in webJob[r].batch => r = s
          /\ \A p \in Slot : peer[t][p].piece # i
    BY DEF Ownership, Holding, JobsHoldRequested
  <2> QED
    BY <2>1, <2>2 DEF Owners
<1> QED
  BY <1>1, OwnershipInvariant, PTL

(* No requested piece of a downloading torrent is forgotten.                *)
THEOREM NothingIsOrphaned == Spec => []NoOrphan
<1>1. Ownership => NoOrphan
  BY DEF Ownership, Holding, RequestedIsFetched, NoOrphan, Owners
<1> QED
  BY <1>1, OwnershipInvariant, PTL
=============================================================================
