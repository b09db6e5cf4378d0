--------------------------- MODULE AwdlMesh_proofs ---------------------------
(***************************************************************************)
(* Proofs about AwdlMesh for every set of nodes, links, timeout and bound: *)
(* type correctness, the sync master is a known valid peer, and - when no  *)
(* foreign device takes part - the flat tree, hence no sync cycle.         *)
(***************************************************************************)
EXTENDS AwdlMesh, TLAPS, WellFoundedInduction

(***************************************************************************)
(* The types of the operators of Election.                                 *)
(***************************************************************************)

\* A fresh state and a reset state are election states of the same node.
LEMMA NewStateType ==
  ASSUME NEW a \in Address
  PROVE  NewState(a) \in ElectionState /\ NewState(a).self_addr = a
<1>1. 0 \in U32
  BY WordAssumption DEF U32
<1> QED
  BY <1>1, InitAssumption DEF NewState, ElectionState, U32

LEMMA ResetSelfType ==
  ASSUME NEW s \in ElectionState
  PROVE  /\ ResetSelf(s) \in ElectionState
         /\ ResetSelf(s).self_addr = s.self_addr
         /\ ResetSelf(s).sync_addr = s.self_addr
<1>1. 0 \in U32
  BY WordAssumption DEF U32
<1> QED
  BY <1>1 DEF ResetSelf, ElectionState

LEMMA AdoptType ==
  ASSUME NEW s \in ElectionState, NEW p \in ElectionState
  PROVE  /\ Adopt(s, p) \in ElectionState
         /\ Adopt(s, p).self_addr = s.self_addr
         /\ Adopt(s, p).sync_addr = p.self_addr
<1>1. (p.height + 1) % Word \in U32
  BY WordAssumption DEF U32, ElectionState
<1> QED
  BY <1>1 DEF Adopt, ElectionState

\* An election leaves the node its own master or the follower of a candidate.
LEMMA OutcomesType ==
  ASSUME NEW s \in ElectionState, NEW C \in SUBSET ElectionState,
         NEW new \in Outcomes(s, C)
  PROVE  /\ new \in ElectionState
         /\ new.self_addr = s.self_addr
         /\ \/ new.sync_addr = s.self_addr
            \/ \E c \in C : new.sync_addr = c.self_addr
<1>1. PICK b \in C \cup {ResetSelf(s)} :
        new = IF b = ResetSelf(s) THEN ResetSelf(s) ELSE Adopt(ResetSelf(s), b)
  BY DEF Outcomes
<1>2. CASE b = ResetSelf(s)
  BY <1>1, <1>2, ResetSelfType
<1>3. CASE b # ResetSelf(s)
  BY <1>1, <1>3, ResetSelfType, AdoptType
<1> QED
  BY <1>2, <1>3

\* Two election states with equal fields are equal.
LEMMA StateEqual ==
  ASSUME NEW s \in ElectionState, NEW t \in ElectionState,
         s.self_addr = t.self_addr, s.master_addr = t.master_addr,
         s.sync_addr = t.sync_addr, s.height = t.height,
         s.master_metric = t.master_metric, s.self_metric = t.self_metric,
         s.master_counter = t.master_counter, s.self_counter = t.self_counter
  PROVE  s = t
BY DEF ElectionState

(***************************************************************************)
(* Type correctness.                                                       *)
(***************************************************************************)

\* The candidates of an election are states of known valid peers.
LEMMA CandidatesType ==
  ASSUME NEW n \in Node, NEW table,
         DOMAIN table \subseteq Device \ {n},
         \A p \in DOMAIN table : table[p] \in Entry /\ table[p].election.self_addr = p
  PROVE  /\ Candidates(n, table) \subseteq ElectionState
         /\ \A c \in Candidates(n, table) :
              /\ c.self_addr \in DOMAIN table
              /\ table[c.self_addr].is_valid
              /\ table[c.self_addr].election = c
BY DEF Candidates, Entry, Eligible

LEMMA AnnouncedType ==
  ASSUME NEW d \in Device, TypeOK
  PROVE  Announced(d) \in ElectionState /\ Announced(d).self_addr = d
<1>1. CASE d \in Node
  BY <1>1 DEF Announced, TypeOK
<1>2. CASE d \notin Node
  <2>1. NewState(d) \in ElectionState /\ NewState(d).self_addr = d
    BY NewStateType, MeshAssumption
  <2> QED
    BY <1>2, <2>1, MeshAssumption DEF Announced, ElectionState
<1> QED
  BY <1>1, <1>2

\* What a node learns from a frame keeps its table a table.
LEMMA LearnType ==
  ASSUME TypeOK, NEW n \in Node, NEW frame \in Frame,
         frame.election.self_addr \in Device \ {n}
  PROVE  LET table == Learn(peers[n], frame)
         IN  /\ DOMAIN table = DOMAIN peers[n] \cup {frame.election.self_addr}
             /\ \A p \in DOMAIN table : table[p] \in Entry /\ table[p].election.self_addr = p
<1> DEFINE table == peers[n]
           src == frame.election.self_addr
           valid == (src \in DOMAIN table /\ table[src].is_valid) \/ frame.type = "MIF"
<1>1. valid \in BOOLEAN
  OBVIOUS
<1>2. 0 \in 0 .. Timeout + 1
  BY MeshAssumption
<1>3. [election |-> frame.election, is_valid |-> valid, age |-> 0] \in Entry
  BY <1>1, <1>2 DEF Frame, Entry
<1>4. \A p \in DOMAIN table : table[p] \in Entry /\ table[p].election.self_addr = p
  BY DEF TypeOK
<1> QED
  BY <1>3, <1>4 DEF Learn

\* The type invariant of the mesh holds in every reachable state.
THEOREM TypeCorrect == Spec => []TypeOK
<1>1. Init => TypeOK
  <2> SUFFICES ASSUME Init PROVE TypeOK
    OBVIOUS
  <2>1. \A n \in Node : NewState(n) \in ElectionState /\ NewState(n).self_addr = n
    BY NewStateType, MeshAssumption DEF Device
  <2>2. DOMAIN EmptyTable = {}
    BY DEF EmptyTable
  <2> QED
    BY <2>1, <2>2, MeshAssumption DEF Init, TypeOK
<1>2. TypeOK /\ [Next]_vars => TypeOK'
  <2> SUFFICES ASSUME TypeOK, [Next]_vars PROVE TypeOK'
    OBVIOUS
  <2>1. ASSUME NEW d \in Device, NEW type \in FrameTypes, NEW S \in SUBSET Receivers(d),
               SendAction(d, type, S)
        PROVE  TypeOK'
    <3> DEFINE f == [type |-> type, election |-> Announced(d)]
    <3>1. f \in Frame /\ f.election.self_addr = d
      BY AnnouncedType DEF Frame
    <3>2. \A m \in S : m \in Node /\ d # m
      BY MeshAssumption DEF Receivers
    <3>3. inbox' = [m \in Node |-> IF m \in S THEN Append(inbox[m], f) ELSE inbox[m]]
      BY <2>1 DEF SendAction, Deliver
    <3>4. ASSUME NEW m \in Node
          PROVE  /\ inbox'[m] \in Seq(Frame)
                 /\ \A i \in 1 .. Len(inbox'[m]) :
                      inbox'[m][i].election.self_addr \in Device \ {m}
      <4>1. inbox[m] \in Seq(Frame)
            /\ \A i \in 1 .. Len(inbox[m]) : inbox[m][i].election.self_addr \in Device \ {m}
        BY DEF TypeOK
      <4>2. CASE m \in S
        <5>1. inbox'[m] = Append(inbox[m], f)
          BY <3>3, <4>2
        <5>2. inbox'[m] \in Seq(Frame) /\ Len(inbox'[m]) = Len(inbox[m]) + 1
          BY <3>1, <4>1, <5>1
        <5>3. ASSUME NEW i \in 1 .. Len(inbox'[m])
              PROVE  inbox'[m][i].election.self_addr \in Device \ {m}
          <6>1. inbox'[m][i] = IF i = Len(inbox[m]) + 1 THEN f ELSE inbox[m][i]
            BY <3>1, <4>1, <5>1, <5>2
          <6> QED
            BY <3>1, <3>2, <4>1, <4>2, <5>2, <6>1
        <5> QED
          BY <5>2, <5>3
      <4> QED
        BY <3>3, <4>1, <4>2
    <3> QED
      BY <2>1, <3>3, <3>4 DEF SendAction, TypeOK
  <2>2. ASSUME NEW n \in Node, RxAction(n) PROVE TypeOK'
    <3> DEFINE f == Head(inbox[n])
               t == Learn(peers[n], f)
    <3>1. /\ inbox[n] \in Seq(Frame) /\ inbox[n] # <<>>
          /\ \A i \in 1 .. Len(inbox[n]) : inbox[n][i].election.self_addr \in Device \ {n}
      BY <2>2 DEF RxAction, TypeOK
    <3>2. f \in Frame /\ f.election.self_addr \in Device \ {n}
      BY <3>1
    <3>3. /\ DOMAIN t = DOMAIN peers[n] \cup {f.election.self_addr}
          /\ \A p \in DOMAIN t : t[p] \in Entry /\ t[p].election.self_addr = p
      BY <3>2, LearnType
    <3>4. peers' = [peers EXCEPT ![n] = t] /\ inbox' = [inbox EXCEPT ![n] = Tail(@)]
      BY <2>2 DEF RxAction
    <3>5. Tail(inbox[n]) \in Seq(Frame)
          /\ \A i \in 1 .. Len(Tail(inbox[n])) :
               Tail(inbox[n])[i].election.self_addr \in Device \ {n}
      BY <3>1
    <3>6. DOMAIN t \subseteq Device \ {n}
      BY <3>2, <3>3 DEF TypeOK
    <3> HIDE DEF t, f
    <3> QED
      BY <2>2, <3>3, <3>4, <3>5, <3>6 DEF RxAction, TypeOK
  <2>3. ASSUME NEW n \in Node, CleanPeers(n) PROVE TypeOK'
    <3> DEFINE t == RemoveBefore(peers[n])
    <3>1. /\ DOMAIN t \subseteq Device \ {n}
          /\ \A p \in DOMAIN t : t[p] \in Entry /\ t[p].election.self_addr = p
      BY DEF RemoveBefore, TypeOK
    <3>2. PICK new \in Outcomes(elec[n], Candidates(n, t)) : elec' = [elec EXCEPT ![n] = new]
      BY <2>3 DEF CleanPeers, Elect
    <3>3. Candidates(n, t) \in SUBSET ElectionState
      BY <3>1, CandidatesType
    <3>4. elec[n] \in ElectionState /\ elec[n].self_addr = n
      BY DEF TypeOK
    <3>5. new \in ElectionState /\ new.self_addr = n
      BY <3>2, <3>3, <3>4, OutcomesType
    <3>6. peers' = [peers EXCEPT ![n] = t]
      BY <2>3 DEF CleanPeers
    <3> HIDE DEF t
    <3> QED
      BY <2>3, <3>1, <3>2, <3>5, <3>6 DEF CleanPeers, TypeOK
  <2>4. ASSUME NEW n \in Node, ElectionTimer(n) PROVE TypeOK'
    <3>1. PICK new \in Outcomes(elec[n], Candidates(n, peers[n])) :
             elec' = [elec EXCEPT ![n] = new]
      BY <2>4 DEF ElectionTimer, Elect
    <3>2. Candidates(n, peers[n]) \in SUBSET ElectionState
      BY CandidatesType DEF TypeOK
    <3>3. elec[n] \in ElectionState /\ elec[n].self_addr = n
      BY DEF TypeOK
    <3>4. new \in ElectionState /\ new.self_addr = n
      BY <3>1, <3>2, <3>3, OutcomesType
    <3> QED
      BY <2>4, <3>1, <3>4 DEF ElectionTimer, TypeOK
  <2>5. ASSUME NEW n \in Node, Tick(n) PROVE TypeOK'
    <3> DEFINE t == Aged(peers[n])
    <3>1. peers' = [peers EXCEPT ![n] = t]
      BY <2>5 DEF Tick
    <3>2. ASSUME NEW p \in DOMAIN peers[n]
          PROVE  t[p] \in Entry /\ t[p].election.self_addr = p
      <4>1. peers[n][p] \in Entry /\ peers[n][p].election.self_addr = p
        BY DEF TypeOK
      <4>2. t[p] = [peers[n][p] EXCEPT !.age = IF peers[n][p].age <= Timeout
                                               THEN peers[n][p].age + 1
                                               ELSE peers[n][p].age]
        BY DEF Aged
      <4> QED
        BY <4>1, <4>2, MeshAssumption DEF Entry
    <3>3. DOMAIN t = DOMAIN peers[n]
      BY DEF Aged
    <3> HIDE DEF t
    <3> QED
      BY <2>5, <3>1, <3>2, <3>3 DEF Tick, TypeOK
  <2>6. ASSUME NEW d \in Device, Start(d) PROVE TypeOK'
    BY <2>6 DEF Start, TypeOK
  <2>7. ASSUME NEW d \in Device, Stop(d) PROVE TypeOK'
    <3>1. \A n \in Node : NewState(n) \in ElectionState /\ NewState(n).self_addr = n
      BY NewStateType, MeshAssumption DEF Device
    <3>2. DOMAIN EmptyTable = {}
      BY DEF EmptyTable
    <3> QED
      BY <2>7, <3>1, <3>2 DEF Stop, TypeOK
  <2>8. CASE UNCHANGED vars
    BY <2>8 DEF vars, TypeOK
  <2> QED
    BY <2>1, <2>2, <2>3, <2>4, <2>5, <2>6, <2>7, <2>8 DEF Next
<1> QED
  BY <1>1, <1>2, PTL DEF Spec

(***************************************************************************)
(* The sync master is a known valid peer.  With TypeOK the property is     *)
(* inductive: learning never drops a peer or its validity, and the removal *)
(* of silent peers comes with an election over those that are left.        *)
(***************************************************************************)

\* What an election over a table of node n leaves is SyncMasterKnown for it.
LEMMA ElectedKnown ==
  ASSUME NEW n \in Node, NEW table, NEW s \in ElectionState, s.self_addr = n,
         DOMAIN table \subseteq Device \ {n},
         \A p \in DOMAIN table : table[p] \in Entry /\ table[p].election.self_addr = p,
         NEW new \in Outcomes(s, Candidates(n, table))
  PROVE  \/ new.sync_addr = n
         \/ new.sync_addr \in DOMAIN table /\ table[new.sync_addr].is_valid
<1>1. /\ Candidates(n, table) \in SUBSET ElectionState
      /\ \A c \in Candidates(n, table) :
           c.self_addr \in DOMAIN table /\ table[c.self_addr].is_valid
  BY CandidatesType
<1> HIDE DEF Candidates
<1> QED
  BY <1>1, OutcomesType

\* In every reachable state each node that has a sync master finds it, valid,
\* in its own peer table.
THEOREM SyncMasterIsKnown == Spec => []SyncMasterKnown
<1>1. Init => SyncMasterKnown
  BY DEF Init, SyncMasterKnown, NewState
<1>2. TypeOK /\ SyncMasterKnown /\ [Next]_vars => SyncMasterKnown'
  <2> SUFFICES ASSUME TypeOK, SyncMasterKnown, [Next]_vars PROVE SyncMasterKnown'
    OBVIOUS
  <2> DEFINE Known(n) == \/ elec[n].sync_addr = n
                         \/ /\ elec[n].sync_addr \in DOMAIN peers[n]
                            /\ peers[n][elec[n].sync_addr].is_valid
  <2>1. ASSUME NEW d \in Device, NEW type \in FrameTypes, NEW S \in SUBSET Receivers(d),
               SendAction(d, type, S)
        PROVE  SyncMasterKnown'
    BY <2>1 DEF SendAction, SyncMasterKnown
  <2>2. ASSUME NEW n \in Node, RxAction(n) PROVE SyncMasterKnown'
    <3> DEFINE t == Learn(peers[n], Head(inbox[n]))
    <3>1. \A p \in DOMAIN peers[n] : p \in DOMAIN t /\ (peers[n][p].is_valid => t[p].is_valid)
      BY DEF Learn
    <3>2. peers' = [peers EXCEPT ![n] = t] /\ elec' = elec
      BY <2>2 DEF RxAction
    <3> HIDE DEF t
    <3> QED
      BY <3>1, <3>2 DEF TypeOK, SyncMasterKnown
  <2>3. ASSUME NEW n \in Node, CleanPeers(n) PROVE SyncMasterKnown'
    <3> DEFINE t == RemoveBefore(peers[n])
    <3>1. /\ DOMAIN t \subseteq Device \ {n}
          /\ \A p \in DOMAIN t : t[p] \in Entry /\ t[p].election.self_addr = p
      BY DEF RemoveBefore, TypeOK
    <3>2. PICK new \in Outcomes(elec[n], Candidates(n, t)) : elec' = [elec EXCEPT ![n] = new]
      BY <2>3 DEF CleanPeers, Elect
    <3>3. peers' = [peers EXCEPT ![n] = t]
      BY <2>3 DEF CleanPeers
    <3>4. elec[n] \in ElectionState /\ elec[n].self_addr = n
      BY DEF TypeOK
    <3> HIDE DEF t
    <3>5. new.sync_addr = n \/ (new.sync_addr \in DOMAIN t /\ t[new.sync_addr].is_valid)
      BY <3>1, <3>2, <3>4, ElectedKnown
    <3> QED
      BY <3>2, <3>3, <3>5 DEF TypeOK, SyncMasterKnown
  <2>4. ASSUME NEW n \in Node, ElectionTimer(n) PROVE SyncMasterKnown'
    <3>1. /\ DOMAIN peers[n] \subseteq Device \ {n}
          /\ \A p \in DOMAIN peers[n] :
               peers[n][p] \in Entry /\ peers[n][p].election.self_addr = p
      BY DEF TypeOK
    <3>2. PICK new \in Outcomes(elec[n], Candidates(n, peers[n])) :
             elec' = [elec EXCEPT ![n] = new]
      BY <2>4 DEF ElectionTimer, Elect
    <3>3. elec[n] \in ElectionState /\ elec[n].self_addr = n
      BY DEF TypeOK
    <3>4. \/ new.sync_addr = n
          \/ new.sync_addr \in DOMAIN peers[n] /\ peers[n][new.sync_addr].is_valid
      BY <3>1, <3>2, <3>3, ElectedKnown
    <3> QED
      BY <2>4, <3>2, <3>4 DEF ElectionTimer, TypeOK, SyncMasterKnown
  <2>5. ASSUME NEW n \in Node, Tick(n) PROVE SyncMasterKnown'
    <3>1. DOMAIN Aged(peers[n]) = DOMAIN peers[n]
          /\ \A p \in DOMAIN peers[n] : Aged(peers[n])[p].is_valid = peers[n][p].is_valid
      BY DEF Aged, TypeOK, Entry
    <3> QED
      BY <2>5, <3>1 DEF Tick, TypeOK, SyncMasterKnown
  <2>6. ASSUME NEW d \in Device, Start(d) PROVE SyncMasterKnown'
    BY <2>6 DEF Start, SyncMasterKnown
  <2>7. ASSUME NEW d \in Device, Stop(d) PROVE SyncMasterKnown'
    <3>1. \A n \in Node : NewState(n).sync_addr = n
      BY DEF NewState
    <3> QED
      BY <2>7, <3>1 DEF Stop, SyncMasterKnown
  <2>8. CASE UNCHANGED vars
    BY <2>8 DEF vars, SyncMasterKnown
  <2> QED
    BY <2>1, <2>2, <2>3, <2>4, <2>5, <2>6, <2>7, <2>8 DEF Next
<1> QED
  BY <1>1, <1>2, TypeCorrect, PTL DEF Spec

(***************************************************************************)
(* The flat tree.                                                          *)
(***************************************************************************)

\* A follower's state is an election state of the follower.
LEMMA FollowerType ==
  ASSUME NEW n \in Address, NEW m \in Address
  PROVE  Follower(n, m) \in ElectionState /\ Follower(n, m).self_addr = n
<1>1. 1 \in U32
  BY WordAssumption, HeightAssumption DEF U32
<1> QED
  BY <1>1, InitAssumption DEF Follower, ElectionState, U32

\* Reset leaves a node in a flat state as new; adopting a fresh state is
\* following it directly.
LEMMA FlatReset ==
  ASSUME NEW s \in ElectionState, FlatState(s)
  PROVE  ResetSelf(s) = NewState(s.self_addr)
<1>1. s.self_addr \in Address /\ s.self_metric = MetricInit /\ s.self_counter = CounterInit
  BY DEF FlatState, NewState, Follower, ElectionState
<1>2. /\ ResetSelf(s).self_addr = s.self_addr
      /\ ResetSelf(s).master_addr = s.self_addr
      /\ ResetSelf(s).sync_addr = s.self_addr
      /\ ResetSelf(s).height = 0
      /\ ResetSelf(s).master_metric = MetricInit
      /\ ResetSelf(s).self_metric = MetricInit
      /\ ResetSelf(s).master_counter = CounterInit
      /\ ResetSelf(s).self_counter = CounterInit
  BY <1>1 DEF ResetSelf, ElectionState
<1>3. /\ NewState(s.self_addr).self_addr = s.self_addr
      /\ NewState(s.self_addr).master_addr = s.self_addr
      /\ NewState(s.self_addr).sync_addr = s.self_addr
      /\ NewState(s.self_addr).height = 0
      /\ NewState(s.self_addr).master_metric = MetricInit
      /\ NewState(s.self_addr).self_metric = MetricInit
      /\ NewState(s.self_addr).master_counter = CounterInit
      /\ NewState(s.self_addr).self_counter = CounterInit
  BY DEF NewState
<1> QED
  BY <1>1, <1>2, <1>3, StateEqual, ResetSelfType, NewStateType

LEMMA FlatAdopt ==
  ASSUME NEW n \in Address, NEW m \in Address
  PROVE  Adopt(NewState(n), NewState(m)) = Follower(n, m)
<1> DEFINE a == Adopt(NewState(n), NewState(m))
           f == Follower(n, m)
<1>1. Word \in Nat /\ Word > 1
  BY WordAssumption, HeightAssumption
<1>2. (NewState(m).height + 1) % Word = 1
  BY <1>1 DEF NewState
<1>3. /\ a.self_addr = n /\ a.master_addr = m /\ a.sync_addr = m /\ a.height = 1
      /\ a.master_metric = MetricInit /\ a.self_metric = MetricInit
      /\ a.master_counter = CounterInit /\ a.self_counter = CounterInit
  BY <1>2 DEF Adopt, NewState
<1>4. /\ f.self_addr = n /\ f.master_addr = m /\ f.sync_addr = m /\ f.height = 1
      /\ f.master_metric = MetricInit /\ f.self_metric = MetricInit
      /\ f.master_counter = CounterInit /\ f.self_counter = CounterInit
  BY DEF Follower
<1>5. a \in ElectionState /\ f \in ElectionState
  BY AdoptType, NewStateType, FollowerType
<1>6. a = f
  <2> HIDE DEF a, f
  <2> QED
    BY <1>3, <1>4, <1>5, StateEqual
<1> QED
  BY <1>6

\* When every candidate is in a flat state, a node becomes its own master or the
\* direct follower of a higher node that is one, and no candidate beats the
\* choice: a candidate that is not beaten by the node's own reset state is its
\* own master and has a higher address, since all metrics and counters are equal.
LEMMA FlatOutcome ==
  ASSUME NEW n \in Node, Node \subseteq Address,
         NEW s \in ElectionState, s.self_addr = n, FlatState(s),
         NEW C \in SUBSET ElectionState,
         \A c \in C : FlatState(c) /\ c.self_addr \in Node \ {n},
         NEW new \in Outcomes(s, C)
  PROVE  \/ new = NewState(n) /\ \A c \in C : ~ Beats(c, NewState(n))
         \/ \E m \in Node : /\ m > n /\ new = Follower(n, m) /\ NewState(m) \in C
                            /\ \A c \in C : ~ Beats(c, NewState(m))
<1> DEFINE self == ResetSelf(s)
<1>1. self = NewState(n)
  BY FlatReset
<1>2. PICK b \in C \cup {self} :
        /\ \A c \in C \cup {self} : ~ Beats(c, b)
        /\ new = IF b = self THEN self ELSE Adopt(self, b)
  BY DEF Outcomes, IsBest
<1>3. CASE b = self
  BY <1>1, <1>2, <1>3
<1>4. CASE b # self
  <2>1. b \in C /\ b \in ElectionState /\ FlatState(b) /\ b.self_addr \in Node \ {n}
    BY <1>2, <1>4
  <2>2. ~ Beats(self, b)
    BY <1>2
  <2>3. b = NewState(b.self_addr)
    <3> SUFFICES ASSUME NEW m \in Node, b = Follower(b.self_addr, m) PROVE FALSE
      BY <2>1 DEF FlatState
    <3>1. b.height = 1 /\ b.master_metric = MetricInit /\ b.master_counter = CounterInit
      BY DEF Follower, NewState
    <3>2. self.height = 0 /\ self.master_metric = MetricInit /\ self.master_counter = CounterInit
      BY <1>1 DEF NewState
    <3> QED
      BY <2>2, <3>1, <3>2 DEF Beats, MasterEqual
  <2>4. b.self_addr > n
    <3>1. b.height = 0 /\ b.master_metric = MetricInit /\ b.master_counter = CounterInit
      BY <2>3 DEF NewState
    <3>2. self.height = 0 /\ self.master_metric = MetricInit /\ self.master_counter = CounterInit
          /\ self.self_addr = n
      BY <1>1 DEF NewState
    <3> HIDE DEF self
    <3>3. ~ (n > b.self_addr)
      BY <2>2, <3>1, <3>2 DEF Beats, MasterEqual
    <3>4. n \in Address /\ b.self_addr \in Address /\ b.self_addr # n
      BY <2>1
    <3>5. n \in Nat /\ b.self_addr \in Nat
      BY <3>4, AddrAssumption DEF Address
    <3> QED
      BY <3>3, <3>4, <3>5
  <2>5. new = Follower(n, b.self_addr)
    <3>1. n \in Address /\ b.self_addr \in Address
      BY <2>1
    <3>2. new = Adopt(NewState(n), NewState(b.self_addr))
      BY <1>1, <1>2, <1>4, <2>3
    <3> QED
      BY <3>1, <3>2, FlatAdopt
  <2>6. \A c \in C : ~ Beats(c, b)
    BY <1>2
  <2> HIDE DEF self
  <2> QED
    BY <2>1, <2>3, <2>4, <2>5, <2>6
<1> QED
  BY <1>3, <1>4

\* When every candidate is in a flat state, the outcome is one.
LEMMA FlatElection ==
  ASSUME NEW n \in Node, Node \subseteq Address,
         NEW s \in ElectionState, s.self_addr = n, FlatState(s),
         NEW C \in SUBSET ElectionState,
         \A c \in C : FlatState(c) /\ c.self_addr \in Node \ {n},
         NEW new \in Outcomes(s, C)
  PROVE  FlatState(new)
<1>1. NewState(n).self_addr = n /\ \A m : Follower(n, m).self_addr = n
  BY DEF NewState, Follower
<1>2. new = NewState(n) \/ \E m \in Node : m > n /\ new = Follower(n, m)
  BY FlatOutcome
<1> QED
  BY <1>1, <1>2 DEF FlatState

\* Without foreign devices every state that a node has, a table holds or a
\* frame carries is flat.
THEOREM FlatMesh ==
  ASSUME Foreign = {}
  PROVE  Spec => []FlatInv
<1>1. Init => FlatInv
  <2> SUFFICES ASSUME Init PROVE FlatInv
    OBVIOUS
  <2>1. \A n \in Node : FlatState(NewState(n))
    BY DEF FlatState, NewState
  <2>2. DOMAIN EmptyTable = {}
    BY DEF EmptyTable
  <2> QED
    BY <2>1, <2>2 DEF Init, FlatInv, FlatTree
<1>2. TypeOK /\ FlatInv /\ [Next]_vars => FlatInv'
  <2> SUFFICES ASSUME TypeOK, FlatInv, [Next]_vars PROVE FlatInv'
    OBVIOUS
  <2>0. Node \subseteq Address /\ Device = Node
    BY MeshAssumption DEF Device
  <2>1. ASSUME NEW d \in Device, NEW type \in FrameTypes, NEW S \in SUBSET Receivers(d),
               SendAction(d, type, S)
        PROVE  FlatInv'
    <3> DEFINE f == [type |-> type, election |-> Announced(d)]
    <3>1. f \in Frame /\ FlatState(f.election)
      BY <2>0, AnnouncedType DEF Frame, Announced, FlatInv, FlatTree
    <3>2. inbox' = [m \in Node |-> IF m \in S THEN Append(inbox[m], f) ELSE inbox[m]]
      BY <2>1 DEF SendAction, Deliver
    <3> HIDE DEF f
    <3>3. ASSUME NEW m \in Node, NEW i \in 1 .. Len(inbox'[m])
          PROVE  FlatState(inbox'[m][i].election)
      <4>1. inbox[m] \in Seq(Frame)
            /\ \A j \in 1 .. Len(inbox[m]) : FlatState(inbox[m][j].election)
        BY DEF TypeOK, FlatInv
      <4>2. CASE m \in S
        <5>1. inbox'[m] = Append(inbox[m], f)
          BY <3>2, <4>2
        <5>2. i \in 1 .. Len(inbox[m]) + 1
              /\ inbox'[m][i] = IF i = Len(inbox[m]) + 1 THEN f ELSE inbox[m][i]
          BY <3>1, <4>1, <5>1
        <5> QED
          BY <3>1, <4>1, <5>2
      <4> QED
        BY <3>2, <4>1, <4>2
    <3> QED
      BY <2>1, <3>3 DEF SendAction, FlatInv, FlatTree
  <2>2. ASSUME NEW n \in Node, RxAction(n) PROVE FlatInv'
    <3> DEFINE f == Head(inbox[n])
               t == Learn(peers[n], f)
    <3>1. /\ inbox[n] \in Seq(Frame) /\ inbox[n] # <<>>
          /\ \A i \in 1 .. Len(inbox[n]) : FlatState(inbox[n][i].election)
      BY <2>2 DEF RxAction, TypeOK, FlatInv
    <3>2. FlatState(f.election)
      BY <3>1
    <3>3. \A p \in DOMAIN t : FlatState(t[p].election)
      BY <3>2 DEF Learn, FlatInv
    <3>4. peers' = [peers EXCEPT ![n] = t] /\ inbox' = [inbox EXCEPT ![n] = Tail(@)]
          /\ elec' = elec
      BY <2>2 DEF RxAction
    <3>5. \A i \in 1 .. Len(Tail(inbox[n])) : FlatState(Tail(inbox[n])[i].election)
      BY <3>1
    <3> HIDE DEF t, f
    <3> QED
      BY <3>3, <3>4, <3>5 DEF TypeOK, FlatInv, FlatTree
  <2>3. ASSUME NEW n \in Node, NEW table, NEW new \in Outcomes(elec[n], Candidates(n, table)),
               DOMAIN table \subseteq DOMAIN peers[n],
               \A p \in DOMAIN table : table[p] = peers[n][p]
        PROVE  FlatState(new)
    <3>1. /\ DOMAIN table \subseteq Device \ {n}
          /\ \A p \in DOMAIN table : table[p] \in Entry /\ table[p].election.self_addr = p
      BY <2>3 DEF TypeOK
    <3>2. /\ Candidates(n, table) \in SUBSET ElectionState
          /\ \A c \in Candidates(n, table) :
               c.self_addr \in DOMAIN table /\ table[c.self_addr].election = c
      BY <3>1, CandidatesType
    <3>3. \A c \in Candidates(n, table) : FlatState(c) /\ c.self_addr \in Node \ {n}
      BY <2>0, <2>3, <3>1, <3>2 DEF FlatInv
    <3>4. elec[n] \in ElectionState /\ elec[n].self_addr = n /\ FlatState(elec[n])
      BY DEF TypeOK, FlatInv, FlatTree
    <3> HIDE DEF Candidates
    <3> QED
      BY <2>0, <2>3, <3>2, <3>3, <3>4, FlatElection
  <2>4. ASSUME NEW n \in Node, CleanPeers(n) PROVE FlatInv'
    <3> DEFINE t == RemoveBefore(peers[n])
    <3>1. DOMAIN t \subseteq DOMAIN peers[n] /\ \A p \in DOMAIN t : t[p] = peers[n][p]
      BY DEF RemoveBefore
    <3>2. PICK new \in Outcomes(elec[n], Candidates(n, t)) : elec' = [elec EXCEPT ![n] = new]
      BY <2>4 DEF CleanPeers, Elect
    <3>3. peers' = [peers EXCEPT ![n] = t] /\ inbox' = inbox
      BY <2>4 DEF CleanPeers
    <3> HIDE DEF t
    <3>4. FlatState(new)
      BY <2>3, <3>1, <3>2
    <3> QED
      BY <3>1, <3>2, <3>3, <3>4 DEF TypeOK, FlatInv, FlatTree
  <2>5. ASSUME NEW n \in Node, ElectionTimer(n) PROVE FlatInv'
    <3>1. PICK new \in Outcomes(elec[n], Candidates(n, peers[n])) :
             elec' = [elec EXCEPT ![n] = new]
      BY <2>5 DEF ElectionTimer, Elect
    <3>2. FlatState(new)
      BY <2>3, <3>1
    <3> QED
      BY <2>5, <3>1, <3>2 DEF ElectionTimer, TypeOK, FlatInv, FlatTree
  <2>6. ASSUME NEW n \in Node, Tick(n) PROVE FlatInv'
    <3>1. DOMAIN Aged(peers[n]) = DOMAIN peers[n]
          /\ \A p \in DOMAIN peers[n] : Aged(peers[n])[p].election = peers[n][p].election
      BY DEF Aged, TypeOK, Entry
    <3> QED
      BY <2>6, <3>1 DEF Tick, TypeOK, FlatInv, FlatTree
  <2>7. ASSUME NEW d \in Device, Start(d) PROVE FlatInv'
    BY <2>7 DEF Start, FlatInv, FlatTree
  <2>8. ASSUME NEW d \in Device, Stop(d) PROVE FlatInv'
    <3>1. \A n \in Node : FlatState(NewState(n))
      BY DEF FlatState, NewState
    <3>2. DOMAIN EmptyTable = {} /\ Len(<<>>) = 0
      BY DEF EmptyTable
    <3> QED
      BY <2>8, <3>1, <3>2 DEF Stop, FlatInv, FlatTree
  <2>9. CASE UNCHANGED vars
    BY <2>9 DEF vars, FlatInv, FlatTree
  <2> QED
    BY <2>1, <2>2, <2>4, <2>5, <2>6, <2>7, <2>8, <2>9 DEF Next
<1> QED
  BY <1>1, <1>2, TypeCorrect, PTL DEF Spec

(***************************************************************************)
(* No sync cycle.                                                          *)
(***************************************************************************)

\* A non-empty set of addresses has a highest one: the well-foundedness of <
\* on the distances to MaxAddr.
LEMMA HighestAddress ==
  ASSUME NEW C \in SUBSET Address, C # {}
  PROVE  \E m \in C : \A n \in C : n <= m
<1> DEFINE D == {MaxAddr - a : a \in C}
<1>1. D \subseteq Nat /\ D # {}
  <2>1. \A a \in C : a \in Int /\ 0 <= a /\ a <= MaxAddr
    BY AddrAssumption DEF Address
  <2>2. \A a \in C : MaxAddr - a \in Nat
    BY <2>1, AddrAssumption
  <2> QED
    BY <2>2
<1>2. PICK x \in D : \A y \in D : ~ (<<y, x>> \in OpToRel(<, Nat))
  <2> HIDE DEF D
  <2> QED
    BY <1>1, NatLessThanWellFounded, WFMin
<1>3. \A y \in D : ~ (y < x)
  BY <1>1, <1>2 DEF OpToRel
<1>4. PICK m \in C : x = MaxAddr - m
  OBVIOUS
<1>5. ASSUME NEW n \in C PROVE n <= m
  <2>1. ~ (MaxAddr - n < MaxAddr - m)
    BY <1>3, <1>4
  <2>2. n \in Int /\ m \in Int /\ MaxAddr \in Int
    BY AddrAssumption DEF Address
  <2> QED
    BY <2>1, <2>2
<1> QED
  BY <1>5

\* A flat tree has no cycle: a node only follows higher nodes, so the highest
\* node of a set follows none of its members but itself.
LEMMA FlatNoCycle ==
  ASSUME FlatTree, TypeOK, Node \subseteq Address
  PROVE  NoSyncCycle
<1> SUFFICES ASSUME NEW C \in SUBSET Node, C # {}
             PROVE  \E n \in C : elec[n].sync_addr \notin C \ {n}
  BY DEF NoSyncCycle
<1>1. PICK m \in C : \A n \in C : n <= m
  BY HighestAddress
<1>2. elec[m].sync_addr = m \/ (elec[m].sync_addr > m /\ elec[m].sync_addr \in Node)
  <2>1. FlatState(elec[m]) /\ elec[m].self_addr = m
    BY DEF FlatTree, TypeOK
  <2>2. CASE elec[m] = NewState(m)
    BY <2>2 DEF NewState
  <2>3. ASSUME NEW k \in Node, k > m, elec[m] = Follower(m, k)
        PROVE  elec[m].sync_addr = k
    BY <2>3 DEF Follower
  <2> QED
    BY <2>1, <2>2, <2>3 DEF FlatState
<1>3. ASSUME elec[m].sync_addr \in C, elec[m].sync_addr > m PROVE FALSE
  <2>1. elec[m].sync_addr <= m
    BY <1>1, <1>3
  <2>2. elec[m].sync_addr \in Address /\ m \in Address
    BY <1>3
  <2>3. elec[m].sync_addr \in Int /\ m \in Int
    BY <2>2, AddrAssumption DEF Address
  <2> QED
    BY <1>3, <2>1, <2>3
<1> QED
  BY <1>2, <1>3

\* Nodes of this program among themselves never follow each other in a circle,
\* whatever is lost or delayed and whoever stops and starts.
THEOREM NoCycles ==
  ASSUME Foreign = {}
  PROVE  Spec => []NoSyncCycle
<1>1. Node \subseteq Address
  BY MeshAssumption DEF Device
<1>2. FlatInv /\ TypeOK => NoSyncCycle
  BY <1>1, FlatNoCycle DEF FlatInv
<1> QED
  BY <1>2, FlatMesh, TypeCorrect, PTL

(***************************************************************************)
(* A settled mesh stays settled.                                           *)
(***************************************************************************)

\* A flat state that has itself as sync master is fresh; one that has another
\* is that node's follower.
LEMMA FlatSync ==
  ASSUME NEW n \in Node, Node \subseteq Address, NEW s, s.self_addr = n, FlatState(s)
  PROVE  /\ s.sync_addr = n => s = NewState(n)
         /\ s.sync_addr # n => s = Follower(n, s.sync_addr)
<1>1. CASE s = NewState(n)
  BY <1>1 DEF NewState
<1>2. ASSUME NEW m \in Node, m > n, s = Follower(n, m)
      PROVE  s.sync_addr = m /\ m # n
  <2>1. n \in Int /\ m \in Int
    BY AddrAssumption DEF Address
  <2> QED
    BY <1>2, <2>1 DEF Follower
<1> QED
  BY <1>1, <1>2 DEF FlatState

\* Among fresh states the higher address beats the lower.
LEMMA HigherBeats ==
  ASSUME NEW a \in Address, NEW b \in Address
  PROVE  Beats(NewState(a), NewState(b)) <=> a > b
<1>1. MetricInit \in Int /\ CounterInit \in Int
  BY InitAssumption, WordAssumption
<1> QED
  BY <1>1 DEF Beats, MasterAbove, MasterEqual, NewState

\* In a calm mesh a higher master of n is a fresh candidate of n's elections,
\* and a fresh candidate above n is a higher master of it.
LEMMA CalmCandidates ==
  ASSUME TypeOK, Calm, NEW n \in Node \cap up
  PROVE  LET C == Candidates(n, peers[n])
         IN  /\ C \in SUBSET ElectionState
             /\ \A c \in C : FlatState(c) /\ c.self_addr \in Node \ {n}
             /\ \A m \in HigherMasters(n) : NewState(m) \in C
             /\ \A m \in Node : m > n /\ NewState(m) \in C => m \in HigherMasters(n)
<1> DEFINE C == Candidates(n, peers[n])
<1>0. Node \subseteq Address
  BY MeshAssumption DEF Device
<1>1. /\ DOMAIN peers[n] \subseteq Device \ {n}
      /\ \A p \in DOMAIN peers[n] : peers[n][p] \in Entry /\ peers[n][p].election.self_addr = p
  BY DEF TypeOK
<1>2. /\ C \in SUBSET ElectionState
      /\ \A c \in C : /\ c.self_addr \in DOMAIN peers[n]
                      /\ peers[n][c.self_addr].election = c
  BY <1>1, CandidatesType
<1>3. \A p \in DOMAIN peers[n] : /\ p \in Node \cap up /\ <<p, n>> \in InRange
                                 /\ peers[n][p].election = elec[p]
  BY <1>1 DEF Calm, Current
<1>4. \A m \in Node \cap up : elec[m].self_addr = m /\ FlatState(elec[m])
  BY DEF TypeOK, Calm
<1>5. \A c \in C : FlatState(c) /\ c.self_addr \in Node \ {n}
  <2> SUFFICES ASSUME NEW c \in C PROVE FlatState(c) /\ c.self_addr \in Node \ {n}
    OBVIOUS
  <2> HIDE DEF C
  <2> DEFINE p == c.self_addr
  <2>1. p \in DOMAIN peers[n] /\ peers[n][p].election = c
    BY <1>2
  <2>2. p \in Node \cap up /\ p # n /\ c = elec[p]
    BY <1>1, <1>3, <2>1
  <2> QED
    BY <1>4, <2>2
<1>6. ASSUME NEW m \in HigherMasters(n) PROVE NewState(m) \in C
  <2>1. m \in Node \cap up /\ elec[m].sync_addr = m
    BY DEF HigherMasters
  <2>2. elec[m] = NewState(m)
    BY <1>0, <1>4, <2>1, FlatSync
  <2>3. m \in DOMAIN peers[n] /\ peers[n][m].is_valid
    BY DEF Calm
  <2>4. peers[n][m].election = NewState(m) /\ m # n
    BY <1>1, <1>3, <2>2, <2>3
  <2>5. ~ TooLarge(NewState(m))
    <3>1. (0 + 1) % Word = 1
      BY WordAssumption, HeightAssumption
    <3>2. NewState(m).height = 0
      BY DEF NewState
    <3> QED
      BY <3>1, <3>2, HeightAssumption, WordAssumption DEF TooLarge
  <2>6. ~ IsSyncMaster(NewState(m), n)
    BY <2>4 DEF IsSyncMaster, NewState
  <2> QED
    BY <2>3, <2>4, <2>5, <2>6 DEF Candidates, Eligible
<1>7. ASSUME NEW m \in Node, m > n, NewState(m) \in C PROVE m \in HigherMasters(n)
  <2>1. NewState(m).self_addr = m /\ NewState(m).sync_addr = m
    BY DEF NewState
  <2> HIDE DEF C
  <2>2. m \in DOMAIN peers[n] /\ peers[n][m].election = NewState(m)
    BY <1>2, <1>7, <2>1
  <2>3. m \in Node \cap up /\ <<m, n>> \in InRange /\ elec[m].sync_addr = m
    BY <1>3, <2>1, <2>2
  <2> QED
    BY <1>7, <2>3 DEF HigherMasters
<1> QED
  BY <1>2, <1>5, <1>6, <1>7

\* In a calm mesh an election leaves the node's state as it is.
LEMMA CalmElection ==
  ASSUME TypeOK, Calm, NEW n \in Node \cap up,
         NEW new \in Outcomes(elec[n], Candidates(n, peers[n]))
  PROVE  new = elec[n]
<1> DEFINE C == Candidates(n, peers[n])
<1>0. Node \subseteq Address
  BY MeshAssumption DEF Device
<1>1. elec[n] \in ElectionState /\ elec[n].self_addr = n /\ FlatState(elec[n])
  BY DEF TypeOK, Calm
<1>2. /\ C \in SUBSET ElectionState
      /\ \A c \in C : FlatState(c) /\ c.self_addr \in Node \ {n}
      /\ \A m \in HigherMasters(n) : NewState(m) \in C
      /\ \A m \in Node : m > n /\ NewState(m) \in C => m \in HigherMasters(n)
  BY CalmCandidates
<1>3. IF HigherMasters(n) = {}
      THEN elec[n].sync_addr = n
      ELSE /\ elec[n].sync_addr \in HigherMasters(n)
           /\ \A m \in HigherMasters(n) : m <= elec[n].sync_addr
  BY DEF Calm, Settled
<1>4. \A m \in HigherMasters(n) : m \in Node /\ m > n /\ m # n
  <2>1. \A m \in HigherMasters(n) : m \in Node /\ m > n
    BY DEF HigherMasters
  <2>2. \A m \in Node : m \in Int
    BY <1>0, AddrAssumption DEF Address
  <2> QED
    BY <2>1, <2>2
<1>5. new \in Outcomes(elec[n], C)
  OBVIOUS
<1> HIDE DEF C
<1>6. CASE new = NewState(n) /\ \A c \in C : ~ Beats(c, NewState(n))
  <2>1. HigherMasters(n) = {}
    BY <1>0, <1>2, <1>4, <1>6, HigherBeats
  <2> QED
    BY <1>0, <1>1, <1>3, <1>6, <2>1, FlatSync
<1>7. ASSUME NEW q \in Node, q > n, new = Follower(n, q), NewState(q) \in C,
             \A c \in C : ~ Beats(c, NewState(q))
      PROVE  new = elec[n]
  <2> DEFINE k == elec[n].sync_addr
  <2>1. q \in HigherMasters(n)
    BY <1>2, <1>7
  <2>2. k \in HigherMasters(n) /\ q <= k
    BY <1>3, <2>1
  <2>3. k \in Node /\ k # n /\ NewState(k) \in C
    BY <1>2, <1>4, <2>2
  <2>4. elec[n] = Follower(n, k)
    BY <1>0, <1>1, <2>3, FlatSync
  <2> HIDE DEF k
  <2>5. ~ (k > q)
    BY <1>0, <1>7, <2>3, HigherBeats
  <2>6. k \in Int /\ q \in Int
    BY <1>0, <2>3, AddrAssumption DEF Address
  <2>7. k = q
    BY <2>2, <2>5, <2>6
  <2> QED
    BY <1>7, <2>4, <2>7
<1> QED
  BY <1>0, <1>1, <1>2, <1>5, <1>6, <1>7, FlatOutcome

\* A mesh that has settled with nothing of the past left in its tables and
\* buffers stays so while no device starts or stops: whatever is announced, lost
\* or delayed and however the timers fall, every election confirms the tree.  It
\* rests on the medium that Timely describes and on a timeout of a tick or more.
THEOREM CalmStays ==
  ASSUME Timely, Timeout >= 1
  PROVE  Spec => [][Calm /\ UNCHANGED up => Calm']_vars
<1>1. TypeOK /\ [Next]_vars => [Calm /\ UNCHANGED up => Calm']_vars
  <2> SUFFICES ASSUME TypeOK, Next, Calm, UNCHANGED up PROVE Calm'
    BY DEF Calm, Settled, Current, HigherMasters, vars
  <2>0. up' = up /\ up \cap Foreign = {} /\ Settled
        /\ \A n \in Node \cap up :
             /\ FlatState(elec[n])
             /\ \A p \in DOMAIN peers[n] :
                  Current(n, peers[n][p].election) /\ peers[n][p].age <= 1
             /\ \A i \in 1 .. Len(inbox[n]) : Current(n, inbox[n][i].election)
             /\ \A m \in HigherMasters(n) : m \in DOMAIN peers[n] /\ peers[n][m].is_valid
    BY DEF Calm
  <2>1. ASSUME elec' = elec,
               ASSUME NEW n \in Node \cap up
               PROVE  /\ \A p \in DOMAIN peers'[n] :
                           Current(n, peers'[n][p].election) /\ peers'[n][p].age <= 1
                      /\ \A i \in 1 .. Len(inbox'[n]) : Current(n, inbox'[n][i].election)
                      /\ \A m \in HigherMasters(n) :
                           m \in DOMAIN peers'[n] /\ peers'[n][m].is_valid
        PROVE  Calm'
    <3>1. Settled' /\ up' \cap Foreign = {}
      BY <2>0, <2>1 DEF Settled, HigherMasters
    <3>2. \A n : HigherMasters(n)' = HigherMasters(n)
      BY <2>0, <2>1 DEF HigherMasters
    <3>3. \A n, s : Current(n, s) <=> (/\ s.self_addr \in Node \cap up'
                                       /\ <<s.self_addr, n>> \in InRange
                                       /\ s = elec'[s.self_addr])
      BY <2>0, <2>1 DEF Current
    <3> QED
      BY <2>0, <2>1, <3>1, <3>2, <3>3 DEF Calm, Current
  <2>2. ASSUME NEW d \in Device, NEW type \in FrameTypes, NEW S \in SUBSET Receivers(d),
               SendAction(d, type, S)
        PROVE  Calm'
    <3> DEFINE f == [type |-> type, election |-> Announced(d)]
    <3>1. d \in Node \cap up /\ f.election = elec[d] /\ elec[d].self_addr = d
      BY <2>0, <2>2 DEF SendAction, Announced, Device, TypeOK
    <3>2. f \in Frame
      BY AnnouncedType DEF Frame
    <3>3. /\ inbox' = [m \in Node |-> IF m \in S THEN Append(inbox[m], f) ELSE inbox[m]]
          /\ elec' = elec /\ peers' = peers
      BY <2>2 DEF SendAction, Deliver
    <3> HIDE DEF f
    <3>4. ASSUME NEW n \in Node \cap up, NEW i \in 1 .. Len(inbox'[n])
          PROVE  Current(n, inbox'[n][i].election)
      <4>1. inbox[n] \in Seq(Frame)
            /\ \A j \in 1 .. Len(inbox[n]) : Current(n, inbox[n][j].election)
        BY <2>0 DEF TypeOK
      <4>2. CASE n \in S
        <5>1. inbox'[n] = Append(inbox[n], f)
          BY <3>3, <4>2
        <5>2. i \in 1 .. Len(inbox[n]) + 1
              /\ inbox'[n][i] = IF i = Len(inbox[n]) + 1 THEN f ELSE inbox[n][i]
          BY <3>2, <4>1, <5>1
        <5>3. Current(n, f.election)
          BY <3>1, <4>2 DEF Receivers, Current
        <5> QED
          BY <4>1, <5>2, <5>3
      <4> QED
        BY <3>3, <4>1, <4>2
    <3> QED
      BY <2>0, <2>1, <3>3, <3>4
  <2>3. ASSUME NEW k \in Node, RxAction(k) PROVE Calm'
    <3> DEFINE f == Head(inbox[k])
               t == Learn(peers[k], f)
    <3>1. /\ k \in up /\ inbox[k] \in Seq(Frame) /\ inbox[k] # <<>>
          /\ \A i \in 1 .. Len(inbox[k]) : Current(k, inbox[k][i].election)
      BY <2>0, <2>3 DEF RxAction, TypeOK
    <3>2. Current(k, f.election)
      BY <3>1
    <3>3. \A i \in 1 .. Len(Tail(inbox[k])) : Current(k, Tail(inbox[k])[i].election)
      BY <3>1
    <3>4. \A p \in DOMAIN t : Current(k, t[p].election) /\ t[p].age <= 1
      <4>1. ASSUME NEW p \in DOMAIN t, p = f.election.self_addr
            PROVE  t[p].election = f.election /\ t[p].age = 0
        BY <4>1 DEF Learn
      <4>2. ASSUME NEW p \in DOMAIN t, p # f.election.self_addr
            PROVE  p \in DOMAIN peers[k] /\ t[p] = peers[k][p]
        BY <4>2 DEF Learn
      <4> HIDE DEF t, f
      <4> QED
        BY <2>0, <3>1, <3>2, <4>1, <4>2
    <3>5. \A p \in DOMAIN peers[k] : p \in DOMAIN t /\ (peers[k][p].is_valid => t[p].is_valid)
      BY DEF Learn
    <3>6. /\ peers' = [peers EXCEPT ![k] = t] /\ inbox' = [inbox EXCEPT ![k] = Tail(@)]
          /\ elec' = elec
      BY <2>3 DEF RxAction
    <3> HIDE DEF t, f
    <3>7. \A n \in Node : /\ peers'[n] = IF n = k THEN t ELSE peers[n]
                         /\ inbox'[n] = IF n = k THEN Tail(inbox[k]) ELSE inbox[n]
      BY <3>6 DEF TypeOK
    <3>8. ASSUME NEW n \in Node \cap up
          PROVE  /\ \A p \in DOMAIN peers'[n] :
                      Current(n, peers'[n][p].election) /\ peers'[n][p].age <= 1
                 /\ \A i \in 1 .. Len(inbox'[n]) : Current(n, inbox'[n][i].election)
                 /\ \A m \in HigherMasters(n) :
                      m \in DOMAIN peers'[n] /\ peers'[n][m].is_valid
      <4>1. CASE n = k
        <5>1. peers'[n] = t /\ inbox'[n] = Tail(inbox[k])
          BY <3>7, <4>1
        <5> QED
          BY <2>0, <3>3, <3>4, <3>5, <4>1, <5>1
      <4>2. CASE n # k
        <5>1. peers'[n] = peers[n] /\ inbox'[n] = inbox[n]
          BY <3>7, <4>2
        <5> QED
          BY <2>0, <5>1
      <4> QED
        BY <4>1, <4>2
    <3> QED
      BY <2>1, <3>6, <3>8
  <2>4. ASSUME NEW k \in Node \cap up, NEW table, Elect(k, table), inbox' = inbox,
               DOMAIN table = DOMAIN peers[k], \A p \in DOMAIN table : table[p] = peers[k][p],
               \A n \in Node : peers'[n] = IF n = k THEN table ELSE peers[n]
        PROVE  Calm'
    <3>1. Candidates(k, table) = Candidates(k, peers[k])
      BY <2>4 DEF Candidates
    <3>2. PICK new \in Outcomes(elec[k], Candidates(k, peers[k])) :
             elec' = [elec EXCEPT ![k] = new]
      BY <2>4, <3>1 DEF Elect
    <3>3. new = elec[k]
      BY <3>2, CalmElection
    <3>4. elec' = elec
      BY <3>2, <3>3 DEF TypeOK
    <3>5. \A n \in Node : /\ DOMAIN peers'[n] = DOMAIN peers[n]
                          /\ \A p \in DOMAIN peers[n] : peers'[n][p] = peers[n][p]
      BY <2>4
    <3> QED
      BY <2>0, <2>1, <2>4, <3>4, <3>5
  <2>5. ASSUME NEW k \in Node, CleanPeers(k) PROVE Calm'
    <3> DEFINE t == RemoveBefore(peers[k])
    <3>1. k \in up /\ Elect(k, t) /\ inbox' = inbox /\ peers' = [peers EXCEPT ![k] = t]
      BY <2>5 DEF CleanPeers
    <3>2. \A p \in DOMAIN peers[k] : peers[k][p].age <= Timeout
      <4>1. \A p \in DOMAIN peers[k] : peers[k][p].age <= 1 /\ peers[k][p].age \in Int
        BY <2>0, <3>1, MeshAssumption DEF TypeOK, Entry
      <4> QED
        BY <4>1, MeshAssumption
    <3>3. DOMAIN t = DOMAIN peers[k] /\ \A p \in DOMAIN t : t[p] = peers[k][p]
      BY <3>2 DEF RemoveBefore
    <3> HIDE DEF t
    <3>4. \A n \in Node : peers'[n] = IF n = k THEN t ELSE peers[n]
      BY <3>1 DEF TypeOK
    <3> QED
      BY <2>4, <3>1, <3>3, <3>4
  <2>6. ASSUME NEW k \in Node, ElectionTimer(k) PROVE Calm'
    <3>1. k \in up /\ Elect(k, peers[k]) /\ inbox' = inbox /\ peers' = peers
      BY <2>6 DEF ElectionTimer
    <3> QED
      BY <2>4, <3>1
  <2>7. ASSUME NEW k \in Node, Tick(k) PROVE Calm'
    <3> DEFINE t == Aged(peers[k])
    <3>1. k \in up /\ Heard(k) /\ elec' = elec /\ inbox' = inbox
          /\ peers' = [peers EXCEPT ![k] = t]
      BY <2>7 DEF Tick
    <3>2. ASSUME NEW p \in DOMAIN peers[k]
          PROVE  t[p].election = peers[k][p].election /\ t[p].is_valid = peers[k][p].is_valid
                 /\ t[p].age <= 1
      <4>1. peers[k][p] \in Entry /\ peers[k][p].election.self_addr = p
        BY DEF TypeOK
      <4>2. p \in up /\ <<p, k>> \in InRange
        BY <2>0, <3>1, <4>1 DEF Current
      <4>3. peers[k][p].age = 0
        BY <3>1, <4>2 DEF Heard
      <4>4. t[p] = [peers[k][p] EXCEPT !.age = 1]
        BY <4>3, MeshAssumption DEF Aged
      <4> QED
        BY <4>1, <4>4 DEF Entry
    <3>3. DOMAIN t = DOMAIN peers[k]
      BY DEF Aged
    <3> HIDE DEF t
    <3>4. \A n \in Node : peers'[n] = IF n = k THEN t ELSE peers[n]
      BY <3>1 DEF TypeOK
    <3>5. ASSUME NEW n \in Node \cap up
          PROVE  /\ \A p \in DOMAIN peers'[n] :
                      Current(n, peers'[n][p].election) /\ peers'[n][p].age <= 1
                 /\ \A i \in 1 .. Len(inbox'[n]) : Current(n, inbox'[n][i].election)
                 /\ \A m \in HigherMasters(n) :
                      m \in DOMAIN peers'[n] /\ peers'[n][m].is_valid
      <4>1. CASE n = k
        <5>1. peers'[n] = t /\ inbox'[n] = inbox[n]
          BY <3>1, <3>4, <4>1
        <5> QED
          BY <2>0, <3>2, <3>3, <4>1, <5>1
      <4>2. CASE n # k
        <5>1. peers'[n] = peers[n] /\ inbox'[n] = inbox[n]
          BY <3>1, <3>4, <4>2
        <5> QED
          BY <2>0, <5>1
      <4> QED
        BY <4>1, <4>2
    <3> QED
      BY <2>1, <3>1, <3>5
  <2>8. ASSUME NEW d \in Device, Start(d) \/ Stop(d) PROVE FALSE
    BY <2>0, <2>8 DEF Start, Stop
  <2> QED
    BY <2>2, <2>3, <2>5, <2>6, <2>7, <2>8 DEF Next
<1> QED
  BY <1>1, TypeCorrect, PTL DEF Spec

=============================================================================
