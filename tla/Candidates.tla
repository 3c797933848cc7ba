----------------------------- MODULE Candidates -----------------------------
(***************************************************************************)
(* The cache of peer addresses of one torrent (peer_candidates[] of         *)
(* managed_torrent_t): a sequence of distinct addresses, each with its      *)
(* record of failed attempts.  The order matters: attempts go round it.     *)
(***************************************************************************)
EXTENDS Integers, FiniteSets, Sequences, SequencesExt

CONSTANTS
  Address,        \* endpoints of peers
  MaxCandidates,  \* MAX_TRACKER_PEERS
  MaxFailures     \* failures are counted up to this, 5 in the code

ASSUME CandidatesAssumption ==
  /\ MaxCandidates \in Nat \ {0}
  /\ MaxFailures \in Nat \ {0}

Candidate == [addr : Address,
              failures : 0 .. MaxFailures,
              cooling : BOOLEAN,     \* retry_after is in the future
              connecting : BOOLEAN]  \* a connection attempt is under way

Cache == BoundedSeq(Candidate, MaxCandidates)

Fresh(a) == [addr |-> a, failures |-> 0, cooling |-> FALSE, connecting |-> FALSE]

Known(cache) == {cache[i].addr : i \in DOMAIN cache}

(* The cache with the candidate of address a, if there is one, changed by   *)
(* Change.                                                                  *)
Updated(cache, a, Change(_)) ==
  [i \in DOMAIN cache |->
     IF cache[i].addr = a THEN Change(cache[i]) ELSE cache[i]]

(* record_peer_failure: one more failure, and a pause before the next       *)
(* attempt.                                                                 *)
WithFailure(cache, a) ==
  Updated(cache, a, LAMBDA c :
    [c EXCEPT !.failures = IF @ < MaxFailures THEN @ + 1 ELSE @,
              !.cooling = TRUE])

(* A peer that delivered a piece is trusted again.                          *)
WithSuccess(cache, a) ==
  Updated(cache, a, LAMBDA c : [c EXCEPT !.failures = 0, !.cooling = FALSE])

(* The entries that a new address may replace: those that failed and that   *)
(* no attempt and no connection uses.  Mutated: connections do not count.   *)
EvictableAnyPeer(cache, connected) ==
  {i \in DOMAIN cache : ~cache[i].connecting /\ cache[i].failures > 0}
Evictable(cache, connected) ==
  {i \in DOMAIN cache : /\ ~cache[i].connecting /\ cache[i].failures > 0
                        /\ cache[i].addr \notin connected}

(* The first of those that failed most often.                               *)
IsVictim(cache, connected, i) ==
  /\ i \in Evictable(cache, connected)
  /\ \A k \in Evictable(cache, connected) :
       \/ cache[k].failures < cache[i].failures
       \/ cache[k].failures = cache[i].failures /\ i <= k

(* add_candidate: a known address changes nothing; in a full cache the new  *)
(* one takes the place of a victim, or is dropped.  Mutated: what is known  *)
(* is added again.                                                          *)
AddAgain(cache, connected, a) ==
  IF Len(cache) < MaxCandidates THEN Append(cache, Fresh(a)) ELSE cache
Add(cache, connected, a) ==
  IF a \in Known(cache) THEN cache
  ELSE IF Len(cache) < MaxCandidates THEN Append(cache, Fresh(a))
  ELSE [i \in DOMAIN cache |->
          IF IsVictim(cache, connected, i) THEN Fresh(a) ELSE cache[i]]

(* The addresses of a queue, in order.                                      *)
AddAll(cache, connected, queue) ==
  LET after[n \in 0 .. Len(queue)] ==
        IF n = 0 THEN cache ELSE Add(after[n - 1], connected, queue[n])
  IN  after[Len(queue)]
=============================================================================
