------------------------------ MODULE Election ------------------------------
(***************************************************************************)
(* The master election of src/src/awdl/election.rs as operators on one     *)
(* node's election state.  The state machines that use them are            *)
(* ElectionScan (the loop of awdl_election_run over one peer table) and    *)
(* AwdlMesh (many nodes that exchange their states in action frames).      *)
(*                                                                         *)
(* A MAC address is the natural number that its six bytes spell, most      *)
(* significant byte first: compare_ether_addr compares the bytes from the  *)
(* first to the last, which is the order of those numbers.                 *)
(***************************************************************************)
EXTENDS Integers, FiniteSets

CONSTANTS
  MaxAddr,        \* the largest address (2^48 - 1 in the code)
  TreeMaxHeight,  \* AWDL_ELECTION_TREE_MAX_HEIGHT (10 in the code)
  MetricInit,     \* AWDL_ELECTION_METRIC_INIT (60 in the code)
  CounterInit,    \* AWDL_ELECTION_COUNTER_INIT (0 in the code)
  Word            \* the number of values of a u32 (2^32 in the code)

ASSUME AddrAssumption == MaxAddr \in Nat
ASSUME WordAssumption == Word \in Nat \ {0}
ASSUME InitAssumption == MetricInit \in 0 .. Word - 1 /\ CounterInit \in 0 .. Word - 1
ASSUME HeightAssumption == TreeMaxHeight \in 1 .. Word - 1

Address == 0 .. MaxAddr
U32 == 0 .. Word - 1

\* struct AwdlElectionState
ElectionState ==
  [ self_addr      : Address,
    master_addr    : Address,
    sync_addr      : Address,
    height         : U32,
    master_metric  : U32,
    self_metric    : U32,
    master_counter : U32,
    self_counter   : U32 ]

(***************************************************************************)
(* Construction and reset.                                                 *)
(***************************************************************************)

\* reset_self: the node is its own master, at the root of its own tree, and
\* competes with its own metric and counter.
ResetSelf(s) ==
  [ s EXCEPT !.height = 0,
             !.master_addr = s.self_addr,
             !.sync_addr = s.self_addr,
             !.master_metric = s.self_metric,
             !.master_counter = s.self_counter ]

\* AwdlElectionState::new followed by awdl_election_state_init.
NewState(a) ==
  [ self_addr |-> a, master_addr |-> a, sync_addr |-> a, height |-> 0,
    master_metric |-> MetricInit, self_metric |-> MetricInit,
    master_counter |-> CounterInit, self_counter |-> CounterInit ]

(***************************************************************************)
(* Comparison.                                                             *)
(***************************************************************************)

\* awdl_election_is_sync_master
IsSyncMaster(s, addr) == s.sync_addr = addr

\* awdl_election_compare_master(a, b) > 0: the counter decides, then the metric.
MasterAbove(a, b) ==
  \/ a.master_counter > b.master_counter
  \/ a.master_counter = b.master_counter /\ a.master_metric > b.master_metric

\* awdl_election_compare_master(a, b) = 0
MasterEqual(a, b) ==
  a.master_counter = b.master_counter /\ a.master_metric = b.master_metric

\* Erroneous, for checking that the properties notice it: the longer path
\* preferred.
BeatsLonger(p, b) ==
  MasterAbove(p, b) \/ (MasterEqual(p, b) /\ p.height > b.height)

\* The peer state p takes the place of the best state b found so far: none of
\* the loop's three rejections (lower master, longer path, smaller address).
Beats(p, b) ==
  \/ MasterAbove(p, b)
  \/ /\ MasterEqual(p, b)
     /\ \/ p.height < b.height
        \/ p.height = b.height /\ p.self_addr > b.self_addr

(***************************************************************************)
(* The filters of the loop.  The height is a u32, so height + 1 wraps in   *)
(* the release build.                                                      *)
(***************************************************************************)

\* Erroneous: the height compared without the level that is added.
TooLargeLate(p) == p.height > TreeMaxHeight

TooLarge(p) == (p.height + 1) % Word > TreeMaxHeight

\* Erroneous: peers that are not valid yet compete.
EligibleInvalid(self, p, valid) == ~ TooLarge(p) /\ ~ IsSyncMaster(p, self)

\* A valid peer that survives both filters of the loop.
Eligible(self, p, valid) ==
  /\ valid
  /\ ~ TooLarge(p)
  /\ ~ IsSyncMaster(p, self)

\* The states of a peer table that an election of n over it may choose from:
\* the snapshot that the daemon takes of the table, after the filters.
Candidates(n, table) ==
  {table[p].election : p \in {q \in DOMAIN table :
                                Eligible(n, table[q].election, table[q].is_valid)}}

(***************************************************************************)
(* The outcome.                                                            *)
(***************************************************************************)

\* Erroneous: the whole peer state taken over, its self_addr included.
AdoptWhole(s, p) ==
  [p EXCEPT !.sync_addr = p.self_addr, !.height = (p.height + 1) % Word]

\* Erroneous: the height of the peer taken over without the level below it.
AdoptLevel(s, p) ==
  [ s EXCEPT !.master_addr = p.master_addr,
             !.sync_addr = p.self_addr,
             !.master_metric = p.master_metric,
             !.master_counter = p.master_counter,
             !.height = p.height ]

\* The assignments after the loop when the peer state p was accepted last.
Adopt(s, p) ==
  [ s EXCEPT !.master_addr = p.master_addr,
             !.sync_addr = p.self_addr,
             !.master_metric = p.master_metric,
             !.master_counter = p.master_counter,
             !.height = (p.height + 1) % Word ]

\* b is the best state of the candidates C: no other candidate beats it.
IsBest(b, C) == b \in C /\ \A c \in C : ~ Beats(c, b)

\* Erroneous: the first eligible peer accepted without comparing it with self.
OutcomesPeersOnly(s, C) ==
  LET self == ResetSelf(s)
  IN IF C = {} THEN {self} ELSE {Adopt(self, b) : b \in {c \in C : IsBest(c, C)}}

\* What awdl_election_run leaves in the place of the state s when the eligible
\* peer states are C: the node stays its own master when no peer beats it, and
\* otherwise follows the best one.
Outcomes(s, C) ==
  LET self == ResetSelf(s)
  IN { IF b = self THEN self ELSE Adopt(self, b) :
         b \in {c \in C \cup {self} : IsBest(c, C \cup {self})} }

=============================================================================
