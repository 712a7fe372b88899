------------------------------- MODULE Peers -------------------------------
(***************************************************************************)
(* communication/connection_manager.py: the peers a rover is connected     *)
(* with, refreshed by their heartbeats, marked by a loop that looks at     *)
(* them every HEARTBEAT_INTERVAL, and dropped, the oldest first, when      *)
(* there are too many.  Times are kept as ages, in ticks.                  *)
(***************************************************************************)
EXTENDS Naturals, Sequences, SequencesExt

CONSTANTS Peer,
          MaxPeers,     \* MAX_PEERS
          Interval,     \* HEARTBEAT_INTERVAL
          StaleAfter    \* STALE_ROVER_TIMEOUT

ASSUME PeersAssumption ==
  MaxPeers \in Nat \ {0} /\ Interval \in Nat \ {0} /\ StaleAfter \in Nat

VARIABLES peers,       \* _peers in the order they connected: who, is_active, and the
                       \* age of the last heartbeat
          slept,       \* how long ago the loop last looked
          watching     \* _running

peerVars == <<peers, slept, watching>>

OldAge == StaleAfter + Interval + 1    \* as good as any older

PeersTypeOK ==
  /\ peers \in Seq([id : Peer, active : BOOLEAN, age : 0..OldAge])
  /\ \A i, j \in DOMAIN peers : peers[i].id = peers[j].id => i = j
  /\ slept \in 0..Interval /\ watching \in BOOLEAN

PeersInit == peers = <<>> /\ slept = 0 /\ watching = FALSE

Connected(p, t) == \E i \in DOMAIN t : t[i].id = p
Fresh(p) == [id |-> p, active |-> TRUE, age |-> 0]
Without(p, t) == RemoveAt(t, CHOOSE i \in DOMAIN t : t[i].id = p)
Refreshed(p, t) == [i \in DOMAIN t |-> IF t[i].id = p THEN Fresh(p) ELSE t[i]]

\* Mutant: a known peer is registered beside its old entry.
RegisterTwice(p) ==
  LET kept == IF Len(peers) >= MaxPeers THEN Tail(peers) ELSE peers IN
  peers' = Append(kept, Fresh(p))

\* register_peer(): a full table drops its oldest peer first, even if p is in it.
Register(p) ==
  LET kept == IF Len(peers) >= MaxPeers THEN Tail(peers) ELSE peers IN
  peers' = IF Connected(p, kept) THEN Refreshed(p, kept) ELSE Append(kept, Fresh(p))

RegisterPeer(p) == Register(p) /\ UNCHANGED <<slept, watching>>

\* handle_heartbeat(): with an address, of an unknown peer too.
HandleHeartbeat(p, address) ==
  /\ IF Connected(p, peers) THEN peers' = Refreshed(p, peers)
     ELSE IF address THEN Register(p) ELSE UNCHANGED peers
  /\ UNCHANGED <<slept, watching>>

RemovePeer(p) ==
  /\ Connected(p, peers) /\ peers' = Without(p, peers)
  /\ UNCHANGED <<slept, watching>>

\* Mutant: a peer that is late is looked at in the next round.
LookAgain ==
  [i \in DOMAIN peers |-> [peers[i] EXCEPT !.active = @ /\ peers[i].age <= StaleAfter + Interval]]

Look == [i \in DOMAIN peers |-> [peers[i] EXCEPT !.active = @ /\ peers[i].age <= StaleAfter]]

\* monitor(): the loop begins, and looks every interval; the event loop does not let
\* it wait for longer.
Monitor ==
  /\ watching => slept = Interval
  /\ peers' = Look /\ slept' = 0 /\ watching' = TRUE

StopMonitor == watching' = FALSE /\ peers' = <<>> /\ slept' = 0

PeersTick ==
  /\ watching => slept < Interval
  /\ slept' = IF watching THEN slept + 1 ELSE slept
  /\ peers' = [i \in DOMAIN peers |-> [peers[i] EXCEPT !.age = IF @ < OldAge THEN @ + 1 ELSE @]]
  /\ UNCHANGED watching

PeersNext ==
  \/ Monitor \/ StopMonitor \/ PeersTick
  \/ \E p \in Peer :
       RegisterPeer(p) \/ RemovePeer(p) \/ \E address \in BOOLEAN : HandleHeartbeat(p, address)

PeersSpec == PeersInit /\ [][PeersNext]_peerVars
-----------------------------------------------------------------------------
(* Properties *)

\* The table is bounded, and while the loop runs nobody in it passes for active who has
\* been silent for longer than the timeout and one round of the loop, whoever came
\* back, was dropped or was registered again meanwhile.  (active_peers() is stricter by a
\* timeout of its own.)
NobodyIsForgotten ==
  /\ Len(peers) <= MaxPeers
  /\ watching => \A i \in DOMAIN peers :
                   peers[i].active => peers[i].age <= StaleAfter + Interval
=============================================================================
