------------------------- MODULE ElectionScan_proofs -------------------------
(***************************************************************************)
(* awdl_election_run computes the outcome that the comparison alone        *)
(* defines, for every table and every order in which the loop visits it.   *)
(***************************************************************************)
EXTENDS ElectionScan, TLAPS

(***************************************************************************)
(* The types of the operators of Election.                                 *)
(***************************************************************************)

\* A fresh state and a reset state are election states of the same node.
LEMMA NewStateType ==
  ASSUME NEW a \in Address
  PROVE  NewState(a) \in ElectionState /\ NewState(a).self_addr = a
<1>1. 0 \in U32
  BY WordAssumption DEF U32
<1> QED
  BY <1>1, InitAssumption DEF NewState, ElectionState, U32

LEMMA ResetSelfType ==
  ASSUME NEW s \in ElectionState
  PROVE  /\ ResetSelf(s) \in ElectionState
         /\ ResetSelf(s).self_addr = s.self_addr
         /\ ResetSelf(s).sync_addr = s.self_addr
<1>1. 0 \in U32
  BY WordAssumption DEF U32
<1> QED
  BY <1>1 DEF ResetSelf, ElectionState

LEMMA AdoptType ==
  ASSUME NEW s \in ElectionState, NEW p \in ElectionState
  PROVE  /\ Adopt(s, p) \in ElectionState
         /\ Adopt(s, p).self_addr = s.self_addr
         /\ Adopt(s, p).sync_addr = p.self_addr
<1>1. (p.height + 1) % Word \in U32
  BY WordAssumption DEF U32, ElectionState
<1> QED
  BY <1>1 DEF Adopt, ElectionState

(***************************************************************************)
(* Beats is a strict order, total on states with different addresses.      *)
(***************************************************************************)

\* Addresses and words are natural numbers.
LEMMA StateNats ==
  ASSUME NEW s \in ElectionState
  PROVE  /\ s.self_addr \in Nat
         /\ s.height \in Nat
         /\ s.master_metric \in Nat
         /\ s.master_counter \in Nat
<1>1. /\ s.self_addr \in Address /\ s.height \in U32
      /\ s.master_metric \in U32 /\ s.master_counter \in U32
  BY DEF ElectionState
<1> QED
  BY <1>1, AddrAssumption, WordAssumption DEF Address, U32

LEMMA BeatsIrreflexive ==
  ASSUME NEW s \in ElectionState
  PROVE  ~ Beats(s, s)
BY StateNats DEF Beats, MasterAbove, MasterEqual

LEMMA BeatsTransitive ==
  ASSUME NEW r \in ElectionState, NEW s \in ElectionState, NEW t \in ElectionState,
         Beats(r, s), Beats(s, t)
  PROVE  Beats(r, t)
BY StateNats DEF Beats, MasterAbove, MasterEqual

LEMMA BeatsTotal ==
  ASSUME NEW s \in ElectionState, NEW t \in ElectionState, s.self_addr # t.self_addr
  PROVE  Beats(s, t) \/ Beats(t, s)
BY StateNats DEF Beats, MasterAbove, MasterEqual

\* An election has at most one outcome when the candidates have different
\* addresses and none has the node's own.
LEMMA BestUnique ==
  ASSUME NEW C \in SUBSET ElectionState,
         \A c, d \in C : c.self_addr = d.self_addr => c = d,
         NEW a, IsBest(a, C), NEW b, IsBest(b, C)
  PROVE  a = b
<1>1. /\ a \in C /\ b \in C /\ a \in ElectionState /\ b \in ElectionState
      /\ ~ Beats(a, b) /\ ~ Beats(b, a)
  BY DEF IsBest
<1>2. a.self_addr = b.self_addr
  BY <1>1, BeatsTotal
<1> QED
  BY <1>1, <1>2

LEMMA PeerStateType ==
  ASSUME NEW a \in Address
  PROVE  PeerStates(a) \subseteq ElectionState /\ \A s \in PeerStates(a) : s.self_addr = a
<1>1. MaxAddr \in Address
  BY AddrAssumption DEF Address
<1> QED
  BY <1>1, ScanAssumption, InitAssumption DEF PeerStates, ElectionState, U32

\* The type invariant, stated with what the proofs use of it.
LEMMA ScanTypes ==
  ASSUME TypeOK
  PROVE  /\ state \in ElectionState
         /\ state.self_addr = Self
         /\ \A a \in DOMAIN peers :
              /\ a # Self
              /\ peers[a].election \in ElectionState
              /\ peers[a].election.self_addr = a
BY PeerStateType DEF TypeOK, Others

LEMMA InitType == Init => TypeOK
<1> SUFFICES ASSUME Init PROVE TypeOK
  OBVIOUS
<1>1. PICK D \in SUBSET Others :
        /\ peers \in [D -> [election : UNION {PeerStates(a) : a \in D}, valid : BOOLEAN]]
        /\ \A a \in D : peers[a].election.self_addr = a
  BY DEF Init, Snapshots
<1>2. ASSUME NEW a \in DOMAIN peers
      PROVE  /\ a \in Others
             /\ peers[a].election \in PeerStates(a)
             /\ peers[a].valid \in BOOLEAN
  <2>1. a \in Others /\ a \in D
    BY <1>1
  <2>2. PICK b \in D : peers[a].election \in PeerStates(b)
    BY <1>1, <2>1
  <2>3. b = a
    BY <1>1, <2>1, <2>2, PeerStateType DEF Others
  <2> QED
    BY <1>1, <2>1, <2>2, <2>3
<1>3. state \in ElectionState /\ state.self_addr = Self
  <2>1. NewState(Self) \in ElectionState /\ NewState(Self).self_addr = Self
    BY ScanAssumption, NewStateType
  <2>2. ASSUME NEW a \in DOMAIN peers
        PROVE  LET s == Adopt(NewState(Self), peers[a].election)
               IN  s \in ElectionState /\ s.self_addr = Self
    <3>1. peers[a].election \in ElectionState
      BY <1>2, PeerStateType DEF Others
    <3> QED
      BY <2>1, <3>1, AdoptType
  <2> QED
    BY <2>1, <2>2 DEF Init, Earlier
<1> QED
  BY <1>2, <1>3 DEF Init, TypeOK

\* The type invariant of the call holds in every reachable state.
THEOREM TypeCorrect == Spec => []TypeOK
<1>1. TypeOK /\ [Next]_vars => TypeOK'
  <2> SUFFICES ASSUME TypeOK, [Next]_vars PROVE TypeOK'
    OBVIOUS
  <2>1. CASE Reset
    BY <2>1, ResetSelfType DEF Reset, TypeOK
  <2>2. ASSUME NEW a \in todo, Skip(a) PROVE TypeOK'
    BY <2>2 DEF Skip, TypeOK
  <2>3. ASSUME NEW a \in todo, Accept(a) PROVE TypeOK'
    BY <2>3 DEF Accept, TypeOK
  <2>4. CASE Finish
    <3>1. state' = state \/ \E a \in DOMAIN peers : state' = Adopt(state, peers[a].election)
      BY <2>4 DEF Finish, TypeOK
    <3>2. state' \in ElectionState /\ state'.self_addr = Self
      BY <3>1, ScanTypes, AdoptType
    <3> QED
      BY <2>4, <3>2 DEF Finish, TypeOK
  <2>5. CASE UNCHANGED vars
    BY <2>5 DEF vars, TypeOK
  <2> QED
    BY <2>1, <2>2, <2>3, <2>4, <2>5 DEF Next
<1> QED
  BY <1>1, InitType, PTL DEF Spec

(***************************************************************************)
(* The loop invariant.                                                     *)
(***************************************************************************)

\* Resetting a reset state changes nothing.
LEMMA ResetIdempotent ==
  ASSUME NEW s \in ElectionState
  PROVE  ResetSelf(ResetSelf(s)) = ResetSelf(s)
BY DEF ResetSelf, ElectionState

LEMMA CandidatesType ==
  ASSUME TypeOK, NEW S \in SUBSET DOMAIN peers
  PROVE  /\ Rivals(S) \subseteq ElectionState
         /\ \A c \in Rivals(S) : /\ c.self_addr \in S
                                     /\ Passes(c.self_addr)
                                     /\ c = peers[c.self_addr].election
BY ScanTypes DEF Rivals

\* The part of LoopInv about the loop itself, for the best state b and the
\* visited peers S.
Best(b, S) == IsBest(b, {state} \cup Rivals(S))

\* A peer that takes the place of the best state beats whatever that one did.
LEMMA AcceptBest ==
  ASSUME TypeOK, NEW S \in SUBSET DOMAIN peers, NEW a \in DOMAIN peers, Passes(a),
         NEW b \in ElectionState, Best(b, S), Beats(peers[a].election, b)
  PROVE  Best(peers[a].election, S \cup {a})
<1> DEFINE e == peers[a].election
           C == {state} \cup Rivals(S)
<1>1. e \in ElectionState /\ C \subseteq ElectionState
  BY ScanTypes, CandidatesType
<1>2. {state} \cup Rivals(S \cup {a}) = C \cup {e}
  BY DEF Rivals
<1>3. \A c \in C : ~ Beats(c, e)
  <2> SUFFICES ASSUME NEW c \in C, Beats(c, e) PROVE FALSE
    OBVIOUS
  <2>1. Beats(c, b)
    BY <1>1, BeatsTransitive
  <2> QED
    BY <2>1 DEF Best, IsBest
<1>4. ~ Beats(e, e)
  BY <1>1, BeatsIrreflexive
<1> QED
  BY <1>2, <1>3, <1>4 DEF Best, IsBest

\* A peer that is filtered out or does not beat the best state leaves it best.
LEMMA SkipBest ==
  ASSUME TypeOK, NEW S \in SUBSET DOMAIN peers, NEW a \in DOMAIN peers,
         NEW b, Best(b, S), Passes(a) => ~ Beats(peers[a].election, b)
  PROVE  Best(b, S \cup {a})
<1>1. CASE Passes(a)
  <2>1. {state} \cup Rivals(S \cup {a}) = {state} \cup Rivals(S) \cup {peers[a].election}
    BY <1>1 DEF Rivals
  <2> QED
    BY <1>1, <2>1 DEF Best, IsBest
<1>2. CASE ~ Passes(a)
  <2>1. Rivals(S \cup {a}) = Rivals(S)
    BY <1>2 DEF Rivals
  <2> QED
    BY <2>1 DEF Best
<1> QED
  BY <1>1, <1>2

\* In every reachable state of the loop the best state so far is not beaten by
\* the node itself nor by any eligible peer already visited.
THEOREM LoopCorrect == Spec => []LoopInv
<1>1. Init => LoopInv
  BY DEF Init, LoopInv
<1>2. TypeOK /\ LoopInv /\ [Next]_vars => LoopInv'
  <2> SUFFICES ASSUME TypeOK, LoopInv, [Next]_vars PROVE LoopInv'
    OBVIOUS
  <2>1. CASE Reset
    <3>1. /\ state' = ResetSelf(state) /\ peers' = peers /\ pc' = "scan"
          /\ todo' = DOMAIN peers /\ best' = Self
      BY <2>1 DEF Reset, LoopInv
    <3>2. state' = ResetSelf(state')
      BY <3>1, ScanTypes, ResetIdempotent
    <3>3. Rivals(DOMAIN peers \ todo)' = {} /\ BestState' = state'
      BY <3>1 DEF Rivals, BestState
    <3>4. ~ Beats(state', state')
      BY <3>1, ScanTypes, ResetSelfType, BeatsIrreflexive
    <3> QED
      BY <3>1, <3>2, <3>3, <3>4 DEF LoopInv, IsBest
  <2>2. ASSUME NEW a \in todo, Skip(a) PROVE LoopInv'
    <3> DEFINE S == DOMAIN peers \ todo
    <3>1. /\ pc = "scan" /\ a \in DOMAIN peers
          /\ Passes(a) => ~ Beats(peers[a].election, BestState)
          /\ UNCHANGED <<state, peers, best, pc>>
          /\ todo' = todo \ {a}
      BY <2>2 DEF Skip, TypeOK
    <3>2. Best(BestState, S)
      BY <3>1 DEF LoopInv, Best
    <3>3. Best(BestState, S \cup {a})
      BY <3>1, <3>2, SkipBest
    <3>4. S \cup {a} = DOMAIN peers \ todo'
      BY <3>1
    <3>5. IsBest(BestState, {state} \cup Rivals(DOMAIN peers \ todo))'
      BY <3>1, <3>3, <3>4 DEF Best, BestState, Rivals, Passes
    <3> QED
      BY <3>1, <3>5 DEF LoopInv, Passes
  <2>3. ASSUME NEW a \in todo, Accept(a) PROVE LoopInv'
    <3> DEFINE S == DOMAIN peers \ todo
    <3>1. /\ pc = "scan" /\ a \in DOMAIN peers /\ Passes(a)
          /\ Beats(peers[a].election, BestState)
          /\ UNCHANGED <<state, peers, pc>>
          /\ todo' = todo \ {a} /\ best' = a
      BY <2>3 DEF Accept, TypeOK
    <3>2. Best(BestState, S) /\ BestState \in ElectionState
      BY <3>1, ScanTypes DEF LoopInv, Best, BestState, TypeOK
    <3>3. Best(peers[a].election, S \cup {a})
      BY <3>1, <3>2, AcceptBest
    <3>4. S \cup {a} = DOMAIN peers \ todo' /\ BestState' = peers[a].election
      BY <3>1, ScanTypes DEF BestState
    <3>5. IsBest(BestState, {state} \cup Rivals(DOMAIN peers \ todo))'
      BY <3>1, <3>3, <3>4 DEF Best, Rivals, Passes
    <3> QED
      BY <3>1, <3>5 DEF LoopInv, Passes
  <2>4. CASE Finish
    BY <2>4 DEF Finish, LoopInv
  <2>5. CASE UNCHANGED vars
    BY <2>5 DEF vars, LoopInv, IsBest, BestState, Rivals, Passes
  <2> QED
    BY <2>1, <2>2, <2>3, <2>4, <2>5 DEF Next
<1> QED
  BY <1>1, <1>2, TypeCorrect, PTL DEF Spec

(***************************************************************************)
(* The outcome of the call.                                                *)
(***************************************************************************)

\* The best state after the loop is the only best one, so that the assignments
\* after the loop leave the only outcome.
LEMMA FinishElects ==
  ASSUME TypeOK, LoopInv, Finish
  PROVE  Outcomes(state', Rivals(DOMAIN peers)) = {state'}
<1> DEFINE C == Rivals(DOMAIN peers)
           self == ResetSelf(state')
           pick(b) == IF b = self THEN self ELSE Adopt(self, b)
<1>1. /\ pc = "scan" /\ todo = {} /\ peers' = peers /\ best' = best
      /\ state' = IF best = Self THEN state ELSE Adopt(state, peers[best].election)
  BY DEF Finish
<1>2. /\ state = ResetSelf(state)
      /\ IsBest(BestState, {state} \cup C)
  BY <1>1 DEF LoopInv
<1>3. self = state
  <2>1. CASE best = Self
    BY <1>1, <1>2, <2>1
  <2>2. CASE best # Self
    <3>1. /\ state \in ElectionState
          /\ peers[best].election \in ElectionState
          /\ state' = Adopt(state, peers[best].election)
      BY <1>1, <2>2, ScanTypes DEF TypeOK
    <3>2. /\ state'.self_addr = state.self_addr
          /\ state'.self_metric = state.self_metric
          /\ state'.self_counter = state.self_counter
      BY <3>1 DEF Adopt, ElectionState
    <3>3. state' \in ElectionState
      BY <3>1, AdoptType
    <3>4. ResetSelf(state') = ResetSelf(state)
      BY <3>1, <3>2, <3>3 DEF ResetSelf, ElectionState
    <3> QED
      BY <1>2, <3>4
  <2> QED
    BY <2>1, <2>2
<1>4. /\ {state} \cup C \in SUBSET ElectionState
      /\ \A c, d \in {state} \cup C : c.self_addr = d.self_addr => c = d
  <2>1. C \subseteq ElectionState
        /\ \A c \in C : c.self_addr \in DOMAIN peers /\ c = peers[c.self_addr].election
    BY CandidatesType
  <2>2. state \in ElectionState /\ state.self_addr = Self /\ \A a \in DOMAIN peers : a # Self
    BY ScanTypes
  <2> QED
    BY <2>1, <2>2
<1>5. {b \in C \cup {self} : IsBest(b, C \cup {self})} = {BestState}
  <2>1. C \cup {self} = {state} \cup C
    BY <1>3
  <2>2. BestState \in {state} \cup C /\ IsBest(BestState, {state} \cup C)
    BY <1>2 DEF IsBest
  <2>3. \A b \in {state} \cup C : IsBest(b, {state} \cup C) => b = BestState
    BY <1>4, <2>2, BestUnique
  <2> QED
    BY <2>1, <2>2, <2>3
<1>6. Outcomes(state', C) = {pick(BestState)}
  BY <1>5 DEF Outcomes
<1>7. pick(BestState) = state'
  <2>1. CASE best = Self
    BY <1>1, <1>3, <2>1 DEF BestState
  <2>2. CASE best # Self
    <3>1. BestState = peers[best].election /\ BestState.self_addr # Self
      BY <2>2, ScanTypes DEF BestState, TypeOK
    <3>2. BestState # self
      BY <1>3, <3>1, ScanTypes
    <3> QED
      BY <1>1, <1>3, <2>2, <3>1, <3>2
  <2> QED
    BY <2>1, <2>2
<1> QED
  BY <1>6, <1>7

\* When the call returns, the node is in the one state that the comparison
\* defines, whatever the order of the visits was.
THEOREM ScanCorrect == Spec => []ScanElects
<1>1. Init => ScanElects
  BY DEF Init, ScanElects
<1>2. TypeOK /\ LoopInv /\ ScanElects /\ [Next]_vars => ScanElects'
  <2> SUFFICES ASSUME TypeOK, LoopInv, ScanElects, [Next]_vars PROVE ScanElects'
    OBVIOUS
  <2>1. CASE Reset
    BY <2>1 DEF Reset, ScanElects
  <2>2. ASSUME NEW a \in todo, Skip(a) PROVE ScanElects'
    BY <2>2 DEF Skip, ScanElects
  <2>3. ASSUME NEW a \in todo, Accept(a) PROVE ScanElects'
    BY <2>3 DEF Accept, ScanElects
  <2>4. CASE Finish
    <3>1. Outcomes(state', Rivals(DOMAIN peers)) = {state'}
      BY <2>4, FinishElects
    <3>2. peers' = peers
      BY <2>4 DEF Finish
    <3> QED
      BY <3>1, <3>2 DEF ScanElects, Rivals, Passes
  <2>5. CASE UNCHANGED vars
    BY <2>5 DEF vars, ScanElects, Rivals, Passes
  <2> QED
    BY <2>1, <2>2, <2>3, <2>4, <2>5 DEF Next
<1> QED
  BY <1>1, <1>2, LoopCorrect, TypeCorrect, PTL DEF Spec

\* No call leaves the node at a height above the limit, for any heights that
\* the peers announce, the one that wraps around included.
THEOREM HeightIsBounded == Spec => []HeightBounded
<1>1. Init => HeightBounded
  BY DEF Init, HeightBounded
<1>2. TypeOK /\ LoopInv /\ HeightBounded /\ [Next]_vars => HeightBounded'
  <2> SUFFICES ASSUME TypeOK, LoopInv, HeightBounded, [Next]_vars PROVE HeightBounded'
    OBVIOUS
  <2>1. CASE Reset
    BY <2>1 DEF Reset, HeightBounded
  <2>2. ASSUME NEW a \in todo, Skip(a) PROVE HeightBounded'
    BY <2>2 DEF Skip, HeightBounded
  <2>3. ASSUME NEW a \in todo, Accept(a) PROVE HeightBounded'
    BY <2>3 DEF Accept, HeightBounded
  <2>4. CASE Finish
    <3>1. CASE best = Self
      <4>1. state'.height = 0
        BY <2>4, <3>1, ScanTypes DEF Finish, LoopInv, ResetSelf, ElectionState
      <4> QED
        BY <4>1, HeightAssumption DEF HeightBounded
    <3>2. CASE best # Self
      <4>1. Passes(best) /\ state' = Adopt(state, peers[best].election)
        BY <2>4, <3>2 DEF Finish, LoopInv
      <4>2. state \in ElectionState /\ peers[best].election \in ElectionState
        BY <3>2, ScanTypes DEF TypeOK
      <4>3. state'.height = (peers[best].election.height + 1) % Word
        BY <4>1, <4>2 DEF Adopt, ElectionState
      <4>4. (peers[best].election.height + 1) % Word \in U32
        BY <4>2, WordAssumption DEF ElectionState, U32
      <4> QED
        BY <4>1, <4>3, <4>4, HeightAssumption
           DEF HeightBounded, Passes, Eligible, TooLarge, U32
    <3> QED
      BY <3>1, <3>2
  <2>5. CASE UNCHANGED vars
    BY <2>5 DEF vars, HeightBounded
  <2> QED
    BY <2>1, <2>2, <2>3, <2>4, <2>5 DEF Next
<1> QED
  BY <1>1, <1>2, LoopCorrect, TypeCorrect, PTL DEF Spec

=============================================================================
