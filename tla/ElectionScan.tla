---------------------------- MODULE ElectionScan ----------------------------
(***************************************************************************)
(* awdl_election_run (src/src/awdl/election.rs) step by step: the reset,   *)
(* the loop over the peer table, the final assignments.  The daemon calls  *)
(* it with a snapshot of a HashMap's values, whose iteration order is      *)
(* arbitrary (src/src/awdl/mod.rs), so the loop may visit the peers in any *)
(* order.  One behaviour of this module is one call.                       *)
(***************************************************************************)
EXTENDS Election

CONSTANTS
  Self,     \* the address of the node that runs the election
  Syncs,    \* the sync addresses that peers may announce
  Heights,  \* the heights that peers may announce
  Metrics,  \* the master metrics that peers may announce
  Counters  \* the master counters that peers may announce

ASSUME ScanAssumption ==
  /\ Self \in Address
  /\ Syncs \subseteq Address
  /\ Heights \subseteq U32
  /\ Metrics \subseteq U32
  /\ Counters \subseteq U32

VARIABLES
  state,  \* the election state of the node
  peers,  \* the snapshot: address |-> [election, valid]
  todo,   \* the peers that the loop has not reached yet
  best,   \* the address of the best peer so far, Self for None
  pc      \* "start", "scan" or "done"

vars == <<state, peers, todo, best, pc>>

\* What a table entry of the peer a may hold.  The peer's own metric and
\* counter and the master's address do not take part in the comparison.
PeerStates(a) ==
  [ self_addr : {a}, master_addr : {MaxAddr}, sync_addr : Syncs, height : Heights,
    master_metric : Metrics, self_metric : {MetricInit},
    master_counter : Counters, self_counter : {CounterInit} ]

Others == Address \ {Self}

Snapshots ==
  UNION { { t \in [D -> [election : UNION {PeerStates(a) : a \in D}, valid : BOOLEAN]] :
              \A a \in D : t[a].election.self_addr = a } : D \in SUBSET Others }

\* The node's state before the call: fresh, or left by an earlier call that
\* followed one of the peers of the snapshot t.
Earlier(t) == {NewState(Self)} \cup {Adopt(NewState(Self), t[a].election) : a \in DOMAIN t}

TypeOK ==
  /\ state \in ElectionState /\ state.self_addr = Self
  /\ \A a \in DOMAIN peers :
       /\ a \in Others
       /\ peers[a].election \in PeerStates(a)
       /\ peers[a].valid \in BOOLEAN
  /\ todo \subseteq DOMAIN peers
  /\ best \in {Self} \cup DOMAIN peers
  /\ pc \in {"start", "scan", "done"}

(***************************************************************************)
(* The call.                                                               *)
(***************************************************************************)

Init ==
  /\ peers \in Snapshots
  /\ state \in Earlier(peers)
  /\ todo = DOMAIN peers
  /\ best = Self
  /\ pc = "start"

\* Erroneous: the loop entered with the state of the earlier election.
NoReset ==
  /\ pc = "start"
  /\ pc' = "scan"
  /\ UNCHANGED <<state, peers, todo, best>>

\* reset_self before the loop
Reset ==
  /\ pc = "start"
  /\ state' = ResetSelf(state)
  /\ pc' = "scan"
  /\ UNCHANGED <<peers, todo, best>>

\* Erroneous: every peer compared with the node itself.
BestIsSelf == state

BestState == IF best = Self THEN state ELSE peers[best].election

Passes(a) == Eligible(Self, peers[a].election, peers[a].valid)

\* One turn of the loop that ends in a continue.
Skip(a) ==
  /\ pc = "scan"
  /\ a \in todo
  /\ Passes(a) => ~ Beats(peers[a].election, BestState)
  /\ todo' = todo \ {a}
  /\ UNCHANGED <<state, peers, best, pc>>

\* One turn of the loop that makes the peer the best one.
Accept(a) ==
  /\ pc = "scan"
  /\ a \in todo
  /\ Passes(a)
  /\ Beats(peers[a].election, BestState)
  /\ best' = a
  /\ todo' = todo \ {a}
  /\ UNCHANGED <<state, peers, pc>>

\* The assignments after the loop.
Finish ==
  /\ pc = "scan"
  /\ todo = {}
  /\ state' = IF best = Self THEN state ELSE Adopt(state, peers[best].election)
  /\ pc' = "done"
  /\ UNCHANGED <<peers, todo, best>>

Next ==
  \/ Reset
  \/ \E a \in todo : Skip(a) \/ Accept(a)
  \/ Finish

Spec == Init /\ [][Next]_vars

(***************************************************************************)
(* Properties.                                                             *)
(***************************************************************************)

Rivals(S) == {peers[a].election : a \in {b \in S : Passes(b)}}

\* Whatever order the table is visited in, the call returns the outcome that
\* the comparison alone defines: the node follows the one eligible peer that
\* no other candidate beats, or nobody when its own state is not beaten.
ScanElects == pc = "done" => Outcomes(state, Rivals(DOMAIN peers)) = {state}

\* The loop invariant: the best state so far is not beaten by the node itself
\* nor by any eligible peer already visited, and is one of those.
LoopInv ==
  /\ pc = "start" => todo = DOMAIN peers /\ best = Self
  /\ pc = "scan" =>
       /\ state = ResetSelf(state)
       /\ best # Self => best \notin todo /\ Passes(best)
       /\ IsBest(BestState, {state} \cup Rivals(DOMAIN peers \ todo))

\* No tree outgrows the limit, whatever its peers announce: the height a node
\* takes on is at most the maximal one, also where the sum height + 1 wraps
\* around (a peer at the last u32 passes the filter; its follower then
\* announces 0).
HeightBounded == pc = "done" => state.height <= TreeMaxHeight

=============================================================================
