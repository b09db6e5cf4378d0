---------------------------- MODULE AwdlRx_proofs ----------------------------
(***************************************************************************)
(* Proofs about AwdlRx, for any peers, announcements and sizes of a word:  *)
(* its types, whose validity is earned and current, what an entry holds,   *)
(* who may be sync master, and who sets the clock.                         *)
(***************************************************************************)
EXTENDS AwdlRx, TLAPS

(***************************************************************************)
(* The types of the operators of Election.                                 *)
(***************************************************************************)

\* A fresh state and a reset state are election states of the same node.
LEMMA NewStateType ==
  ASSUME NEW a \in Address
  PROVE  NewState(a) \in ElectionState /\ NewState(a).self_addr = a
<1>1. 0 \in U32
  BY WordAssumption DEF U32
<1> QED
  BY <1>1, InitAssumption DEF NewState, ElectionState, U32

LEMMA ResetSelfType ==
  ASSUME NEW s \in ElectionState
  PROVE  /\ ResetSelf(s) \in ElectionState
         /\ ResetSelf(s).self_addr = s.self_addr
         /\ ResetSelf(s).sync_addr = s.self_addr
<1>1. 0 \in U32
  BY WordAssumption DEF U32
<1> QED
  BY <1>1 DEF ResetSelf, ElectionState

LEMMA AdoptType ==
  ASSUME NEW s \in ElectionState, NEW p \in ElectionState
  PROVE  /\ Adopt(s, p) \in ElectionState
         /\ Adopt(s, p).self_addr = s.self_addr
         /\ Adopt(s, p).sync_addr = p.self_addr
<1>1. (p.height + 1) % Word \in U32
  BY WordAssumption DEF U32, ElectionState
<1> QED
  BY <1>1 DEF Adopt, ElectionState

\* An election leaves the node its own master or the follower of a candidate.
LEMMA OutcomesType ==
  ASSUME NEW s \in ElectionState, NEW C \in SUBSET ElectionState,
         NEW new \in Outcomes(s, C)
  PROVE  /\ new \in ElectionState
         /\ new.self_addr = s.self_addr
         /\ \/ new.sync_addr = s.self_addr
            \/ \E c \in C : new.sync_addr = c.self_addr
<1>1. PICK b \in C \cup {ResetSelf(s)} :
        new = IF b = ResetSelf(s) THEN ResetSelf(s) ELSE Adopt(ResetSelf(s), b)
  BY DEF Outcomes
<1>2. CASE b = ResetSelf(s)
  BY <1>1, <1>2, ResetSelfType
<1>3. CASE b # ResetSelf(s)
  BY <1>1, <1>3, ResetSelfType, AdoptType
<1> QED
  BY <1>2, <1>3

\* Two election states with equal fields are equal.
LEMMA StateEqual ==
  ASSUME NEW s \in ElectionState, NEW t \in ElectionState,
         s.self_addr = t.self_addr, s.master_addr = t.master_addr,
         s.sync_addr = t.sync_addr, s.height = t.height,
         s.master_metric = t.master_metric, s.self_metric = t.self_metric,
         s.master_counter = t.master_counter, s.self_counter = t.self_counter
  PROVE  s = t
BY DEF ElectionState

(***************************************************************************)
(* What the handlers make of an entry.                                     *)
(***************************************************************************)

LEMMA NoFrameIsNone ==
  ASSUME NEW f \in Frame
  PROVE  f # NoFrame /\ f.src \in Peer /\ f.src # Self
BY RxAssumption DEF Frame, NoFrame

LEMMA NewPeerType ==
  ASSUME NEW p \in Peer
  PROVE  /\ NewPeer(p) \in Entry
         /\ NewPeer(p).election = NewState(p) /\ NewPeer(p).election.self_addr = p
         /\ ~ NewPeer(p).version /\ ~ NewPeer(p).sent_mif
         /\ ~ NewPeer(p).is_valid /\ ~ NewPeer(p).supports_v2
<1>1. NewState(p) \in ElectionState /\ NewState(p).self_addr = p
  BY NewStateType, RxAssumption
<1> QED
  BY <1>1 DEF NewPeer, Entry

LEMMA StoreV1Type ==
  ASSUME NEW s \in ElectionState, NEW a \in ElectionState, NEW n \in 0 .. 4
  PROVE  StoreV1(s, a, n) \in ElectionState /\ StoreV1(s, a, n).self_addr = s.self_addr
BY DEF StoreV1, ElectionState

LEMMA StoreV2Type ==
  ASSUME NEW s \in ElectionState, NEW a \in ElectionState, NEW n \in 0 .. 6
  PROVE  StoreV2(s, a, n) \in ElectionState /\ StoreV2(s, a, n).self_addr = s.self_addr
BY DEF StoreV2, ElectionState

\* A TLV that breaks off before its first field stores nothing.
LEMMA StoreNothing ==
  ASSUME NEW s \in ElectionState, NEW a \in ElectionState
  PROVE  StoreV1(s, a, 0) = s /\ StoreV2(s, a, 0) = s
<1> DEFINE t == StoreV1(s, a, 0)
           u == StoreV2(s, a, 0)
<1>1. t \in ElectionState /\ u \in ElectionState
  BY StoreV1Type, StoreV2Type
<1>2. /\ t.self_addr = s.self_addr /\ t.master_addr = s.master_addr
      /\ t.sync_addr = s.sync_addr /\ t.height = s.height
      /\ t.master_metric = s.master_metric /\ t.self_metric = s.self_metric
      /\ t.master_counter = s.master_counter /\ t.self_counter = s.self_counter
  BY DEF StoreV1, ElectionState
<1>3. /\ u.self_addr = s.self_addr /\ u.master_addr = s.master_addr
      /\ u.sync_addr = s.sync_addr /\ u.height = s.height
      /\ u.master_metric = s.master_metric /\ u.self_metric = s.self_metric
      /\ u.master_counter = s.master_counter /\ u.self_counter = s.self_counter
  BY DEF StoreV2, ElectionState
<1> HIDE DEF t, u
<1>4. t = s
  BY <1>1, <1>2, StateEqual
<1>5. u = s
  BY <1>1, <1>3, StateEqual
<1> QED
  BY <1>4, <1>5 DEF t, u

\* A whole v2 TLV leaves nothing of what was stored before it, of another v2 TLV
\* or of a v1 one.
LEMMA StoreV2Whole ==
  ASSUME NEW s \in ElectionState, NEW a \in ElectionState, s.self_addr = a.self_addr
  PROVE  StoreV2(s, a, 6) = a
<1>1. StoreV2(s, a, 6) \in ElectionState /\ StoreV2(s, a, 6).self_addr = a.self_addr
  BY StoreV2Type
<1>2. LET t == StoreV2(s, a, 6)
      IN  /\ t.master_addr = a.master_addr /\ t.sync_addr = a.sync_addr
          /\ t.height = a.height /\ t.master_metric = a.master_metric
          /\ t.self_metric = a.self_metric /\ t.master_counter = a.master_counter
          /\ t.self_counter = a.self_counter
  BY DEF StoreV2, ElectionState
<1> QED
  BY <1>1, <1>2, StateEqual

\* A whole v1 TLV on an entry that has seen nothing but whole v1 TLVs.
LEMMA StoreV1Whole ==
  ASSUME NEW p \in Peer, NEW a \in ElectionState, NEW b \in ElectionState
  PROVE  /\ StoreV1(NewState(p), a, 4) = V1View(p, a)
         /\ StoreV1(V1View(p, b), a, 4) = V1View(p, a)
<1>1. NewState(p) \in ElectionState
  BY NewStateType, RxAssumption
<1>2. V1View(p, a) \in ElectionState /\ V1View(p, b) \in ElectionState
  BY <1>1, StoreV1Type DEF V1View
<1>3. StoreV1(V1View(p, b), a, 4) \in ElectionState
  BY <1>2, StoreV1Type
<1>4. LET t == StoreV1(V1View(p, b), a, 4)
          u == V1View(p, a)
      IN  /\ t.self_addr = u.self_addr /\ t.master_addr = u.master_addr
          /\ t.sync_addr = u.sync_addr /\ t.height = u.height
          /\ t.master_metric = u.master_metric /\ t.self_metric = u.self_metric
          /\ t.master_counter = u.master_counter /\ t.self_counter = u.self_counter
  BY <1>1 DEF V1View, StoreV1, ElectionState
<1> QED
  BY <1>2, <1>3, <1>4, StateEqual DEF V1View

\* The candidates of an election are states of known valid peers.
LEMMA RxCandidates ==
  ASSUME NEW table,
         \A p \in DOMAIN table : table[p] \in Entry /\ table[p].election.self_addr = p
  PROVE  /\ Candidates(Self, table) \in SUBSET ElectionState
         /\ \A c \in Candidates(Self, table) :
              c.self_addr \in DOMAIN table /\ table[c.self_addr].is_valid
BY DEF Candidates, Entry, Eligible

\* A peer table, as TypeOK has it.
IsTable(t) ==
  DOMAIN t \subseteq Peer /\ \A q \in DOMAIN t : t[q] \in Entry /\ t[q].election.self_addr = q

\* What peer_add leaves in the table, the validity of p aside.
LEMMA PeerAddTable ==
  ASSUME NEW p \in Peer, NEW table, IsTable(table)
  PROVE  /\ IsTable(PeerAdd(table, p)) /\ DOMAIN PeerAdd(table, p) = DOMAIN table \cup {p}
         /\ \A q \in DOMAIN table \ {p} : PeerAdd(table, p)[q] = table[q]
         /\ p \notin DOMAIN table => PeerAdd(table, p)[p] = NewPeer(p)
         /\ p \in DOMAIN table =>
              /\ PeerAdd(table, p)[p].election = table[p].election
              /\ PeerAdd(table, p)[p].version = table[p].version
              /\ PeerAdd(table, p)[p].supports_v2 = table[p].supports_v2
              /\ PeerAdd(table, p)[p].sent_mif = table[p].sent_mif
              /\ PeerAdd(table, p)[p].is_valid = CheckValid(table[p])
<1> DEFINE t == PeerAdd(table, p)
<1>1. DOMAIN t = DOMAIN table \cup {p} /\ \A q \in DOMAIN table \ {p} : t[q] = table[q]
  BY DEF PeerAdd
<1>2. p \in DOMAIN table =>
        /\ t[p].election = table[p].election /\ t[p].version = table[p].version
        /\ t[p].supports_v2 = table[p].supports_v2
        /\ t[p].sent_mif = table[p].sent_mif
        /\ t[p].is_valid = CheckValid(table[p]) /\ t[p] \in Entry
        /\ t[p].election.self_addr = p
  <2> SUFFICES ASSUME p \in DOMAIN table
               PROVE  /\ t[p].election = table[p].election /\ t[p].version = table[p].version
                      /\ t[p].supports_v2 = table[p].supports_v2
                      /\ t[p].sent_mif = table[p].sent_mif
                      /\ t[p].is_valid = CheckValid(table[p]) /\ t[p] \in Entry
                      /\ t[p].election.self_addr = p
    OBVIOUS
  <2>1. t[p] = [table[p] EXCEPT !.is_valid = CheckValid(table[p])]
    BY DEF PeerAdd
  <2>2. CheckValid(table[p]) \in BOOLEAN
    BY DEF CheckValid
  <2>3. table[p] \in Entry /\ table[p].election.self_addr = p
    BY DEF IsTable
  <2>4. t[p] \in Entry
    BY <2>1, <2>2, <2>3, Zenon DEF Entry
  <2> QED
    BY <2>1, <2>3, <2>4 DEF Entry
<1>3. p \notin DOMAIN table => t[p] = NewPeer(p)
  BY DEF PeerAdd
<1>4. IsTable(t)
  <2>1. t[p] \in Entry /\ t[p].election.self_addr = p
    BY <1>2, <1>3, NewPeerType
  <2>2. ASSUME NEW q \in DOMAIN table, q # p
        PROVE  t[q] \in Entry /\ t[q].election.self_addr = q
    <3>1. t[q] = table[q]
      BY <1>1, <2>2
    <3> QED
      BY <3>1 DEF IsTable
  <2>3. DOMAIN t \subseteq Peer
    BY <1>1 DEF IsTable
  <2> QED
    BY <1>1, <2>1, <2>2, <2>3 DEF IsTable
<1> QED
  BY <1>1, <1>2, <1>3, <1>4

(***************************************************************************)
(* What a handler that gives up leaves in the history.                     *)
(***************************************************************************)

LEMMA GiveUpHistory ==
  ASSUME TypeOK, parse # NoFrame, NEW torn \in BOOLEAN, GiveUp(torn)
  PROVE  /\ parse' = NoFrame
         /\ hist' \in [Peer -> Record]
         /\ \A q \in Peer : hist'[q].mif = hist[q].mif /\ hist'[q].version = hist[q].version
         /\ \A q \in Peer \ {parse.src} : hist'[q] = hist[q]
         /\ hist'[parse.src].failed
         /\ hist'[parse.src].torn = (hist[parse.src].torn \/ torn)
<1> DEFINE p == parse.src
<1>1. p \in Peer /\ hist \in [Peer -> Record]
  BY NoFrameIsNone DEF TypeOK
<1>2. hist' = [hist EXCEPT ![p] = [hist[p] EXCEPT !.failed = TRUE,
                                                 !.torn = hist[p].torn \/ torn]]
  BY <1>1 DEF GiveUp
<1>3. hist[p] \in Record
  BY <1>1
<1>4. hist'[p] = [hist[p] EXCEPT !.failed = TRUE, !.torn = hist[p].torn \/ torn]
      /\ \A q \in Peer \ {p} : hist'[q] = hist[q]
  BY <1>1, <1>2
<1>5. hist'[p] \in Record
  BY <1>3, <1>4, Zenon DEF Record
<1>6. /\ hist'[p].mif = hist[p].mif /\ hist'[p].version = hist[p].version
      /\ hist'[p].failed /\ hist'[p].torn = (hist[p].torn \/ torn)
  BY <1>3, <1>4 DEF Record
<1>7. hist' \in [Peer -> Record]
  BY <1>1, <1>2, <1>4, <1>5
<1> QED
  BY <1>1, <1>4, <1>6, <1>7 DEF GiveUp

\* What the end of a frame notes in the entry of its sender.
LEMMA SentMifTable ==
  ASSUME TypeOK, parse # NoFrame, NEW p, p = parse.src, NEW t, t = SentMif(peers)
  PROVE  /\ IsTable(t) /\ DOMAIN t = DOMAIN peers
         /\ \A q \in DOMAIN t \ {p} : t[q] = peers[q]
         /\ t[p].election = peers[p].election /\ t[p].version = peers[p].version
         /\ t[p].supports_v2 = peers[p].supports_v2
         /\ t[p].sent_mif = (peers[p].sent_mif \/ parse.type = "MIF")
<1> DEFINE b == peers[p].sent_mif \/ parse.type = "MIF"
<1>1. p \in DOMAIN peers /\ peers[p] \in Entry /\ peers[p].election.self_addr = p
  BY DEF TypeOK
<1>2. t = [peers EXCEPT ![p] = [peers[p] EXCEPT !.sent_mif = b]]
  BY <1>1 DEF SentMif
<1>3. /\ DOMAIN t = DOMAIN peers /\ \A q \in DOMAIN t \ {p} : t[q] = peers[q]
      /\ t[p] = [peers[p] EXCEPT !.sent_mif = b]
  BY <1>1, <1>2
<1>4. b \in BOOLEAN
  OBVIOUS
<1> HIDE DEF b
<1>5. /\ t[p] \in Entry /\ t[p].election = peers[p].election
      /\ t[p].version = peers[p].version /\ t[p].supports_v2 = peers[p].supports_v2
      /\ t[p].sent_mif = b
  BY <1>1, <1>3, <1>4 DEF Entry
<1>6. IsTable(t)
  <2>1. t[p] \in Entry /\ t[p].election.self_addr = p
    BY <1>1, <1>5
  <2>2. ASSUME NEW q \in DOMAIN peers, q # p
        PROVE  t[q] \in Entry /\ t[q].election.self_addr = q
    <3>1. t[q] = peers[q]
      BY <1>3, <2>2
    <3> QED
      BY <3>1 DEF TypeOK
  <2>3. DOMAIN t \subseteq Peer
    BY <1>3 DEF TypeOK
  <2> QED
    BY <1>3, <2>1, <2>2, <2>3 DEF IsTable
<1> QED
  BY <1>3, <1>5, <1>6 DEF b

\* An election leaves the node its own master, or the follower of a valid peer.
LEMMA ElectType ==
  ASSUME NEW table,
         \A p \in DOMAIN table : table[p] \in Entry /\ table[p].election.self_addr = p,
         elec \in ElectionState, elec.self_addr = Self, Elect(table)
  PROVE  /\ elec' \in ElectionState /\ elec'.self_addr = Self
         /\ \/ elec'.sync_addr = Self
            \/ elec'.sync_addr \in DOMAIN table /\ table[elec'.sync_addr].is_valid
<1> DEFINE C == Candidates(Self, table)
<1>1. C \in SUBSET ElectionState
      /\ \A c \in C : c.self_addr \in DOMAIN table /\ table[c.self_addr].is_valid
  BY RxCandidates
<1>2. elec' \in Outcomes(elec, C)
  BY DEF Elect
<1> HIDE DEF C
<1> QED
  BY <1>1, <1>2, OutcomesType

\* A new entry for one known peer keeps the table a table.
LEMMA TableType ==
  ASSUME TypeOK, NEW p \in DOMAIN peers, NEW e \in Entry, e.election.self_addr = p,
         peers' = [peers EXCEPT ![p] = e]
  PROVE  /\ DOMAIN peers' = DOMAIN peers
         /\ IsTable(peers') /\ peers'[p] = e
         /\ \A q \in DOMAIN peers \ {p} : peers'[q] = peers[q]
BY DEF TypeOK, IsTable

LEMMA EntryFields ==
  ASSUME NEW e \in Entry
  PROVE  /\ e.election \in ElectionState /\ e.version \in BOOLEAN
         /\ e.supports_v2 \in BOOLEAN /\ e.sent_mif \in BOOLEAN /\ e.is_valid \in BOOLEAN
BY DEF Entry

\* The history of one peer changes.
LEMMA HistoryType ==
  ASSUME TypeOK, NEW p \in Peer, NEW r \in Record, hist' = [hist EXCEPT ![p] = r]
  PROVE  /\ hist' \in [Peer -> Record] /\ hist'[p] = r
         /\ \A q \in Peer \ {p} : hist'[q] = hist[q]
BY DEF TypeOK

(***************************************************************************)
(* What each step of a frame from p does.                                  *)
(***************************************************************************)

\* Only the entry and the history of p change.
OnlyOf(p) ==
  /\ IsTable(peers')
  /\ \A q \in DOMAIN peers \ {p} : peers'[q] = peers[q]
  /\ hist' \in [Peer -> Record]
  /\ \A q \in Peer \ {p} : hist'[q] = hist[q]

\* The facts that make a peer valid are recorded for ever, and now these too.
Recorded(p, mif, version) ==
  /\ hist'[p].mif = (hist[p].mif \/ mif)
  /\ hist'[p].version = (hist[p].version \/ version)

\* The frame goes on, or the handler has given up.
GoesOn == parse' = parse
GaveUp(p) == parse' = NoFrame /\ hist'[p].failed

\* The fields of the entry that validity is computed from are as they were.
SameFacts(p) ==
  /\ peers'[p].version = peers[p].version
  /\ peers'[p].sent_mif = peers[p].sent_mif

LEMMA GaveUpRecord ==
  ASSUME TypeOK, parse # NoFrame, NEW torn \in BOOLEAN, GiveUp(torn), NEW p, p = parse.src
  PROVE  /\ hist' \in [Peer -> Record] /\ \A q \in Peer \ {p} : hist'[q] = hist[q]
         /\ GaveUp(p) /\ Recorded(p, FALSE, FALSE)
         /\ torn \/ hist'[p].torn = hist[p].torn
         /\ torn => hist'[p].torn
<1>1. p \in Peer
  BY NoFrameIsNone DEF TypeOK
<1>2. /\ hist' \in [Peer -> Record] /\ \A q \in Peer \ {p} : hist'[q] = hist[q]
      /\ parse' = NoFrame /\ hist'[p].failed
      /\ hist'[p].torn = (hist[p].torn \/ torn)
      /\ hist'[p].mif = hist[p].mif /\ hist'[p].version = hist[p].version
  BY <1>1, GiveUpHistory
<1>3. hist[p].mif \in BOOLEAN /\ hist[p].version \in BOOLEAN /\ hist[p].torn \in BOOLEAN
  BY <1>1 DEF TypeOK, Record
<1> QED
  BY <1>2, <1>3 DEF GaveUp, Recorded

\* The sender of the frame that is handled.
LEMMA Sender ==
  ASSUME TypeOK, parse # NoFrame, NEW p, p = parse.src
  PROVE  /\ parse \in Frame /\ p \in Peer /\ p # Self /\ p \in DOMAIN peers
         /\ peers[p] \in Entry /\ peers[p].election \in ElectionState
         /\ peers[p].election.self_addr = p /\ hist[p] \in Record
         /\ IsTable(peers)
BY NoFrameIsNone, EntryFields DEF TypeOK, IsTable

LEMMA BeginStep ==
  ASSUME TypeOK, NEW p \in Peer, NEW type \in {"PSF", "MIF"},
         NEW rssi \in {"above", "grace", "below"}, BeginFrame(p, type, rssi)
  PROVE  /\ OnlyOf(p) /\ DOMAIN peers' = DOMAIN peers \cup {p}
         /\ parse' \in Frame /\ parse'.src = p
         /\ Recorded(p, FALSE, FALSE) /\ hist'[p].torn = hist[p].torn
         /\ p \in DOMAIN peers =>
              /\ SameFacts(p) /\ peers'[p].is_valid = CheckValid(peers[p])
              /\ peers'[p].election = peers[p].election
              /\ peers'[p].supports_v2 = peers[p].supports_v2
         /\ p \notin DOMAIN peers => peers'[p] = NewPeer(p)
<1>1. parse' \in Frame /\ parse'.src = p
  BY DEF BeginFrame, Frame
<1>2. IsTable(peers) /\ peers' = PeerAdd(peers, p)
  BY DEF TypeOK, IsTable, BeginFrame
<1>3. hist[p] \in Record
  BY DEF TypeOK
<1>4. hist' = [hist EXCEPT ![p] = [hist[p] EXCEPT !.failed = FALSE]]
  BY DEF BeginFrame, TypeOK
<1>5. [hist[p] EXCEPT !.failed = FALSE] \in Record
  BY <1>3 DEF Record
<1>6. /\ hist' \in [Peer -> Record] /\ \A q \in Peer \ {p} : hist'[q] = hist[q]
      /\ hist'[p] = [hist[p] EXCEPT !.failed = FALSE]
  BY <1>4, <1>5, HistoryType
<1>7. Recorded(p, FALSE, FALSE) /\ hist'[p].torn = hist[p].torn
  BY <1>3, <1>6 DEF Record, Recorded
<1>8. OnlyOf(p) /\ DOMAIN peers' = DOMAIN peers \cup {p}
  <2>1. IsTable(PeerAdd(peers, p)) /\ DOMAIN PeerAdd(peers, p) = DOMAIN peers \cup {p}
        /\ \A q \in DOMAIN peers \ {p} : PeerAdd(peers, p)[q] = peers[q]
    BY <1>2, PeerAddTable, Zenon
  <2> QED
    BY <1>2, <1>6, <2>1 DEF OnlyOf
<1>9. p \notin DOMAIN peers => peers'[p] = NewPeer(p)
  BY <1>2, PeerAddTable
<1>10. p \in DOMAIN peers =>
         /\ SameFacts(p) /\ peers'[p].is_valid = CheckValid(peers[p])
         /\ peers'[p].election = peers[p].election
         /\ peers'[p].supports_v2 = peers[p].supports_v2
  BY <1>2, PeerAddTable, Zenon DEF SameFacts
<1> QED
  BY <1>1, <1>7, <1>8, <1>9, <1>10

LEMMA VersionStep ==
  ASSUME TypeOK, NEW whole \in BOOLEAN, NEW nonzero \in BOOLEAN, VersionTlv(whole, nonzero),
         NEW p, p = parse.src
  PROVE  /\ OnlyOf(p) /\ DOMAIN peers' = DOMAIN peers
         /\ GoesOn \/ GaveUp(p)
         /\ Recorded(p, FALSE, whole /\ nonzero) /\ hist'[p].torn = hist[p].torn
         /\ peers'[p].election = peers[p].election
         /\ peers'[p].supports_v2 = peers[p].supports_v2
         /\ peers'[p].is_valid = peers[p].is_valid
         /\ peers'[p].sent_mif = peers[p].sent_mif
         /\ peers'[p].version => peers[p].version \/ (whole /\ nonzero)
<1>1. parse # NoFrame
  BY DEF VersionTlv
<1>2. /\ p \in Peer /\ p \in DOMAIN peers /\ peers[p] \in Entry /\ hist[p] \in Record
      /\ peers[p].election.self_addr = p /\ IsTable(peers)
  BY <1>1, Sender
<1>3. CASE whole
  <2> DEFINE e == [peers[p] EXCEPT !.version = nonzero]
             b == hist[p].version \/ nonzero
             r == [hist[p] EXCEPT !.version = b]
  <2>1. peers' = [peers EXCEPT ![p] = e] /\ hist' = [hist EXCEPT ![p] = r] /\ parse' = parse
    BY <1>2, <1>3 DEF VersionTlv, TypeOK
  <2>2. /\ e \in Entry /\ e.election = peers[p].election /\ e.version = nonzero
        /\ e.supports_v2 = peers[p].supports_v2 /\ e.sent_mif = peers[p].sent_mif
        /\ e.is_valid = peers[p].is_valid
    BY <1>2 DEF Entry
  <2>3. b \in BOOLEAN /\ b = (hist[p].version \/ nonzero)
    OBVIOUS
  <2>4. r = [hist[p] EXCEPT !.version = b]
    OBVIOUS
  <2> HIDE DEF e, b, r
  <2>5. /\ r \in Record /\ r.mif = hist[p].mif /\ r.version = b /\ r.torn = hist[p].torn
    BY <1>2, <2>3, <2>4 DEF Record
  <2>6. DOMAIN peers' = DOMAIN peers /\ peers'[p] = e
        /\ IsTable(peers') /\ \A q \in DOMAIN peers \ {p} : peers'[q] = peers[q]
    BY <1>2, <2>1, <2>2, TableType
  <2>7. /\ hist' \in [Peer -> Record] /\ hist'[p] = r
        /\ \A q \in Peer \ {p} : hist'[q] = hist[q]
    BY <1>2, <2>1, <2>5, HistoryType
  <2>8. Recorded(p, FALSE, whole /\ nonzero)
    <3>1. hist[p].mif \in BOOLEAN /\ hist[p].version \in BOOLEAN
      BY <1>2 DEF Record
    <3> QED
      BY <1>3, <2>3, <2>5, <2>7, <3>1 DEF Recorded
  <2> QED
    BY <1>3, <2>1, <2>2, <2>5, <2>6, <2>7, <2>8 DEF OnlyOf, GoesOn
<1>4. CASE ~ whole
  <2>1. GiveUp(FALSE) /\ peers' = peers
    BY <1>4 DEF VersionTlv
  <2>2. /\ hist' \in [Peer -> Record] /\ \A q \in Peer \ {p} : hist'[q] = hist[q]
        /\ GaveUp(p) /\ Recorded(p, FALSE, FALSE) /\ hist'[p].torn = hist[p].torn
    BY <1>1, <2>1, GaveUpRecord
  <2>3. Recorded(p, FALSE, whole /\ nonzero)
    BY <1>4, <2>2 DEF Recorded
  <2> QED
    BY <1>2, <2>1, <2>2, <2>3 DEF OnlyOf
<1> QED
  BY <1>3, <1>4

\* Which announcement an election TLV stores how much of.
LEMMA ElectionV1Step ==
  ASSUME TypeOK, NEW a \in Announced, NEW n \in 0 .. 4, ElectionV1Tlv(a, n),
         NEW p, p = parse.src
  PROVE  /\ OnlyOf(p) /\ DOMAIN peers' = DOMAIN peers
         /\ GoesOn \/ GaveUp(p)
         /\ Recorded(p, FALSE, FALSE)
         /\ n \in 1 .. 3 => hist'[p].torn
         /\ n \notin 1 .. 3 => hist'[p].torn = hist[p].torn
         /\ SameFacts(p) /\ peers'[p].is_valid = peers[p].is_valid
         /\ ~ peers[p].supports_v2 /\ ~ peers'[p].supports_v2
         /\ a \in Announce[p] /\ a \in ElectionState
         /\ peers'[p].election = StoreV1(peers[p].election, a, n)
<1>1. parse # NoFrame
  BY DEF ElectionV1Tlv
<1>2. /\ p \in Peer /\ p \in DOMAIN peers /\ peers[p] \in Entry /\ hist[p] \in Record
      /\ peers[p].election \in ElectionState /\ peers[p].election.self_addr = p
  BY <1>1, Sender
<1>3. a \in Announce[p] /\ a \in ElectionState /\ ~ peers[p].supports_v2
  BY <1>2, RxAssumption DEF ElectionV1Tlv, V1Counts
<1> DEFINE s == StoreV1(peers[p].election, a, n)
           e == [peers[p] EXCEPT !.election = s]
<1>4. s \in ElectionState /\ s.self_addr = p
  BY <1>2, <1>3, StoreV1Type
<1>5. peers' = [peers EXCEPT ![p] = e]
  BY DEF ElectionV1Tlv
<1>6. s = StoreV1(peers[p].election, a, n) /\ e = [peers[p] EXCEPT !.election = s]
  OBVIOUS
<1> HIDE DEF s, e
<1>7. /\ e \in Entry /\ e.election = s /\ e.supports_v2 = peers[p].supports_v2
      /\ e.version = peers[p].version /\ e.sent_mif = peers[p].sent_mif
      /\ e.is_valid = peers[p].is_valid
  BY <1>2, <1>4, <1>6 DEF Entry
<1>8. DOMAIN peers' = DOMAIN peers /\ peers'[p] = e
      /\ IsTable(peers') /\ \A q \in DOMAIN peers \ {p} : peers'[q] = peers[q]
  BY <1>2, <1>4, <1>5, <1>7, TableType
<1>9. /\ hist' \in [Peer -> Record] /\ \A q \in Peer \ {p} : hist'[q] = hist[q]
      /\ GoesOn \/ GaveUp(p)
      /\ Recorded(p, FALSE, FALSE)
      /\ n \in 1 .. 3 => hist'[p].torn
      /\ n \notin 1 .. 3 => hist'[p].torn = hist[p].torn
  <2>1. CASE n = 4
    <3>1. hist' = hist /\ parse' = parse
      BY <2>1 DEF ElectionV1Tlv
    <3>2. hist[p].mif \in BOOLEAN /\ hist[p].version \in BOOLEAN
      BY <1>2 DEF Record
    <3> QED
      BY <2>1, <3>1, <3>2 DEF TypeOK, GoesOn, Recorded
  <2>2. CASE n = 0
    <3>1. GiveUp(FALSE)
      BY <2>2 DEF ElectionV1Tlv, GiveUp
    <3>2. /\ hist' \in [Peer -> Record] /\ \A q \in Peer \ {p} : hist'[q] = hist[q]
          /\ GaveUp(p) /\ Recorded(p, FALSE, FALSE) /\ hist'[p].torn = hist[p].torn
      BY <1>1, <3>1, GaveUpRecord
    <3>3. n \notin 1 .. 3
      BY <2>2
    <3> QED
      BY <3>2, <3>3
  <2>3. CASE n \in 1 .. 3
    <3>1. n > 0 /\ n # 0 /\ n # 4
      BY <2>3
    <3>2. GiveUp(n > 0)
      BY <3>1 DEF ElectionV1Tlv
    <3>3. GiveUp(TRUE)
      BY <3>1, <3>2 DEF GiveUp
    <3>4. /\ hist' \in [Peer -> Record] /\ \A q \in Peer \ {p} : hist'[q] = hist[q]
          /\ GaveUp(p) /\ Recorded(p, FALSE, FALSE) /\ hist'[p].torn
      BY <1>1, <3>3, GaveUpRecord
    <3> QED
      BY <2>3, <3>1, <3>4
  <2>4. n = 4 \/ n = 0 \/ n \in 1 .. 3
    OBVIOUS
  <2> QED
    BY <2>1, <2>2, <2>3, <2>4, Zenon
<1> QED
  BY <1>3, <1>6, <1>7, <1>8, <1>9 DEF OnlyOf, SameFacts

LEMMA ElectionV2Step ==
  ASSUME TypeOK, NEW a \in Announced, NEW n \in 0 .. 6, ElectionV2Tlv(a, n),
         NEW p, p = parse.src
  PROVE  /\ OnlyOf(p) /\ DOMAIN peers' = DOMAIN peers
         /\ GoesOn \/ GaveUp(p)
         /\ Recorded(p, FALSE, FALSE)
         /\ n \in 1 .. 5 => hist'[p].torn
         /\ n = 0 => hist'[p].torn = hist[p].torn
         /\ SameFacts(p) /\ peers'[p].is_valid = peers[p].is_valid
         /\ n = 6 => peers'[p].supports_v2
         /\ n = 0 => peers'[p].supports_v2 = peers[p].supports_v2
         /\ a \in Announce[p] /\ a \in ElectionState /\ a.self_addr = p
         /\ peers'[p].election = StoreV2(peers[p].election, a, n)
<1>1. parse # NoFrame
  BY DEF ElectionV2Tlv
<1>2. /\ p \in Peer /\ p \in DOMAIN peers /\ peers[p] \in Entry /\ hist[p] \in Record
      /\ peers[p].election \in ElectionState /\ peers[p].election.self_addr = p
  BY <1>1, Sender
<1>3. a \in Announce[p] /\ a \in ElectionState /\ a.self_addr = p
  BY <1>2, RxAssumption DEF ElectionV2Tlv
<1> DEFINE s == StoreV2(peers[p].election, a, n)
           b == peers[p].supports_v2 \/ n = 6
           e == [peers[p] EXCEPT !.election = s, !.supports_v2 = b]
<1>4. s \in ElectionState /\ s.self_addr = p
  BY <1>2, <1>3, StoreV2Type
<1>5. peers' = [peers EXCEPT ![p] = e]
  BY DEF ElectionV2Tlv
<1>6. /\ s = StoreV2(peers[p].election, a, n) /\ b \in BOOLEAN
      /\ e = [peers[p] EXCEPT !.election = s, !.supports_v2 = b]
  OBVIOUS
<1>7. (n = 6 => b = TRUE) /\ (n # 6 => b = peers[p].supports_v2)
  BY <1>2 DEF Entry
<1> HIDE DEF s, b, e
<1>8. /\ e \in Entry /\ e.election = s /\ e.supports_v2 = b
      /\ e.version = peers[p].version /\ e.sent_mif = peers[p].sent_mif
      /\ e.is_valid = peers[p].is_valid
  BY <1>2, <1>4, <1>6 DEF Entry
<1>9. DOMAIN peers' = DOMAIN peers /\ peers'[p] = e
      /\ IsTable(peers') /\ \A q \in DOMAIN peers \ {p} : peers'[q] = peers[q]
  BY <1>2, <1>4, <1>5, <1>8, TableType
<1>10. /\ hist' \in [Peer -> Record] /\ \A q \in Peer \ {p} : hist'[q] = hist[q]
       /\ GoesOn \/ GaveUp(p)
       /\ Recorded(p, FALSE, FALSE)
       /\ n \in 1 .. 5 => hist'[p].torn
       /\ n = 0 => hist'[p].torn = hist[p].torn
  <2>1. CASE n = 6
    <3>1. hist' = [hist EXCEPT ![p] = [hist[p] EXCEPT !.torn = FALSE]] /\ parse' = parse
      BY <1>2, <2>1 DEF ElectionV2Tlv, TypeOK
    <3>2. /\ [hist[p] EXCEPT !.torn = FALSE] \in Record
          /\ [hist[p] EXCEPT !.torn = FALSE].mif = hist[p].mif
          /\ [hist[p] EXCEPT !.torn = FALSE].version = hist[p].version
          /\ hist[p].mif \in BOOLEAN /\ hist[p].version \in BOOLEAN
      BY <1>2 DEF Record
    <3>3. /\ hist' \in [Peer -> Record] /\ hist'[p] = [hist[p] EXCEPT !.torn = FALSE]
          /\ \A q \in Peer \ {p} : hist'[q] = hist[q]
      BY <1>2, <3>1, <3>2, HistoryType
    <3> QED
      BY <2>1, <3>1, <3>2, <3>3 DEF GoesOn, Recorded
  <2>2. CASE n = 0
    <3>1. GiveUp(FALSE)
      BY <2>2 DEF ElectionV2Tlv, GiveUp
    <3>2. /\ hist' \in [Peer -> Record] /\ \A q \in Peer \ {p} : hist'[q] = hist[q]
          /\ GaveUp(p) /\ Recorded(p, FALSE, FALSE) /\ hist'[p].torn = hist[p].torn
      BY <1>1, <3>1, GaveUpRecord
    <3>3. n \notin 1 .. 5
      BY <2>2
    <3> QED
      BY <3>2, <3>3
  <2>3. CASE n \in 1 .. 5
    <3>1. n > 0 /\ n # 0 /\ n # 6
      BY <2>3
    <3>2. GiveUp(n > 0)
      BY <3>1 DEF ElectionV2Tlv
    <3>3. GiveUp(TRUE)
      BY <3>1, <3>2 DEF GiveUp
    <3>4. /\ hist' \in [Peer -> Record] /\ \A q \in Peer \ {p} : hist'[q] = hist[q]
          /\ GaveUp(p) /\ Recorded(p, FALSE, FALSE) /\ hist'[p].torn
      BY <1>1, <3>3, GaveUpRecord
    <3> QED
      BY <2>3, <3>1, <3>4
  <2>4. n = 6 \/ n = 0 \/ n \in 1 .. 5
    OBVIOUS
  <2> QED
    BY <2>1, <2>2, <2>3, <2>4, Zenon
<1>11. (n = 6 => peers'[p].supports_v2) /\ (n = 0 => peers'[p].supports_v2 = peers[p].supports_v2)
  BY <1>7, <1>8, <1>9
<1> QED
  BY <1>3, <1>6, <1>8, <1>9, <1>10, <1>11 DEF OnlyOf, SameFacts

LEMMA EndStep ==
  ASSUME TypeOK, EndFrame, NEW p, p = parse.src
  PROVE  /\ OnlyOf(p) /\ DOMAIN peers' = DOMAIN peers
         /\ parse' = NoFrame
         /\ Recorded(p, parse.type = "MIF", FALSE) /\ hist'[p].torn = hist[p].torn
         /\ peers'[p].election = peers[p].election
         /\ peers'[p].supports_v2 = peers[p].supports_v2
         /\ peers'[p].version = peers[p].version
         /\ peers'[p].sent_mif = (peers[p].sent_mif \/ parse.type = "MIF")
         /\ peers'[p].is_valid = CheckValid(peers'[p])
<1>1. /\ parse # NoFrame /\ parse' = NoFrame
  BY DEF EndFrame
<1>2. p \in Peer /\ p \in DOMAIN peers /\ hist[p] \in Record
  BY <1>1, Sender
<1> DEFINE t == SentMif(peers)
           b == hist[p].mif \/ parse.type = "MIF"
           r == [hist[p] EXCEPT !.mif = b]
<1>3. peers' = PeerAdd(t, p) /\ hist' = [hist EXCEPT ![p] = r]
  BY <1>2 DEF EndFrame, TypeOK
<1>4. /\ IsTable(t) /\ DOMAIN t = DOMAIN peers
      /\ \A q \in DOMAIN t \ {p} : t[q] = peers[q]
      /\ t[p].election = peers[p].election /\ t[p].version = peers[p].version
      /\ t[p].supports_v2 = peers[p].supports_v2
      /\ t[p].sent_mif = (peers[p].sent_mif \/ parse.type = "MIF")
  BY <1>1, SentMifTable
<1>5. b \in BOOLEAN /\ b = (hist[p].mif \/ parse.type = "MIF")
      /\ r = [hist[p] EXCEPT !.mif = b]
  OBVIOUS
<1> HIDE DEF t, b, r
<1>6. /\ r \in Record /\ r.mif = b /\ r.version = hist[p].version /\ r.torn = hist[p].torn
      /\ hist[p].version \in BOOLEAN
  BY <1>2, <1>5 DEF Record
<1>7. /\ hist' \in [Peer -> Record] /\ hist'[p] = r
      /\ \A q \in Peer \ {p} : hist'[q] = hist[q]
  BY <1>2, <1>3, <1>6, HistoryType
<1>8. IsTable(peers') /\ DOMAIN peers' = DOMAIN peers
      /\ \A q \in DOMAIN peers \ {p} : peers'[q] = peers[q]
  <2>1. IsTable(PeerAdd(t, p)) /\ DOMAIN PeerAdd(t, p) = DOMAIN t \cup {p}
        /\ \A q \in DOMAIN t \ {p} : PeerAdd(t, p)[q] = t[q]
    <3>1. IsTable(t) /\ p \in Peer
      BY <1>2, <1>4
    <3> QED
      BY <3>1, PeerAddTable
  <2> QED
    BY <1>2, <1>3, <1>4, <2>1
<1>9. /\ peers'[p].election = t[p].election /\ peers'[p].version = t[p].version
      /\ peers'[p].supports_v2 = t[p].supports_v2 /\ peers'[p].sent_mif = t[p].sent_mif
      /\ peers'[p].is_valid = CheckValid(t[p])
  <2>1. p \in DOMAIN t
    BY <1>2, <1>4
  <2> QED
    BY <1>2, <1>3, <1>4, <2>1, PeerAddTable, Zenon
<1>10. peers'[p].is_valid = CheckValid(peers'[p])
  BY <1>9 DEF CheckValid
<1>11. Recorded(p, parse.type = "MIF", FALSE)
  BY <1>5, <1>6, <1>7 DEF Recorded
<1> QED
  BY <1>1, <1>4, <1>6, <1>7, <1>8, <1>9, <1>10, <1>11 DEF OnlyOf

LEMMA CleanStep ==
  ASSUME TypeOK, NEW S \in SUBSET DOMAIN peers, CleanPeers(S)
  PROVE  /\ IsTable(peers') /\ DOMAIN peers' = DOMAIN peers \ S
         /\ \A q \in DOMAIN peers' : peers'[q] = peers[q] /\ hist'[q] = hist[q]
         /\ hist' \in [Peer -> Record]
         /\ elec' \in ElectionState /\ elec'.self_addr = Self
         /\ \/ elec'.sync_addr = Self
            \/ elec'.sync_addr \in DOMAIN peers' /\ peers'[elec'.sync_addr].is_valid
<1>1. IsTable(peers') /\ DOMAIN peers' = DOMAIN peers \ S
  BY DEF CleanPeers, TypeOK, IsTable
<1>2. \A q \in DOMAIN peers' : peers'[q] = peers[q] /\ hist'[q] = hist[q]
  BY DEF CleanPeers, TypeOK
<1>3. hist' \in [Peer -> Record]
  BY DEF CleanPeers, TypeOK, NoRecord, Record
<1>4. /\ Elect(peers') /\ elec \in ElectionState /\ elec.self_addr = Self
      /\ \A p \in DOMAIN peers' : peers'[p] \in Entry /\ peers'[p].election.self_addr = p
  BY <1>1 DEF CleanPeers, TypeOK, IsTable
<1> QED
  BY <1>1, <1>2, <1>3, <1>4, ElectType

LEMMA TimerStep ==
  ASSUME TypeOK, ElectionTimer
  PROVE  /\ elec' \in ElectionState /\ elec'.self_addr = Self
         /\ \/ elec'.sync_addr = Self
            \/ elec'.sync_addr \in DOMAIN peers /\ peers[elec'.sync_addr].is_valid
<1>1. /\ Elect(peers) /\ elec \in ElectionState /\ elec.self_addr = Self
      /\ \A p \in DOMAIN peers : peers[p] \in Entry /\ peers[p].election.self_addr = p
  BY DEF ElectionTimer, TypeOK
<1> QED
  BY <1>1, ElectType

(***************************************************************************)
(* Type correctness.                                                       *)
(***************************************************************************)

\* What a step of a frame leaves is of its type.
LEMMA FrameType ==
  ASSUME TypeOK, NEW p, OnlyOf(p), DOMAIN peers \subseteq DOMAIN peers', UNCHANGED elec,
         sync' \in {sync, p}, p \in Peer,
         \/ parse' \in Frame /\ parse'.src \in DOMAIN peers'
         \/ GoesOn \/ parse' = NoFrame
  PROVE  TypeOK'
<1>1. parse' \in Frame \cup {NoFrame} /\ (parse' # NoFrame => parse'.src \in DOMAIN peers')
  BY DEF TypeOK, GoesOn
<1> QED
  BY <1>1 DEF OnlyOf, TypeOK, IsTable

\* Frames, TLVs and timers leave the state of its type.
THEOREM TypeCorrect == Spec => []TypeOK
<1>1. Init => TypeOK
  <2> SUFFICES ASSUME Init PROVE TypeOK
    OBVIOUS
  <2>1. NewState(Self) \in ElectionState /\ NewState(Self).self_addr = Self
    BY NewStateType, RxAssumption
  <2>2. NoRecord \in Record
    BY DEF NoRecord, Record
  <2> QED
    BY <2>1, <2>2 DEF Init, TypeOK
<1>2. TypeOK /\ [Next]_vars => TypeOK'
  <2> SUFFICES ASSUME TypeOK, [Next]_vars PROVE TypeOK'
    OBVIOUS
  <2> DEFINE p == parse.src
  <2>0. parse # NoFrame => p \in Peer
    BY Sender
  <2>1. ASSUME NEW q \in Peer, NEW type \in {"PSF", "MIF"},
               NEW rssi \in {"above", "grace", "below"}, BeginFrame(q, type, rssi)
        PROVE  TypeOK'
    <3>1. OnlyOf(q) /\ DOMAIN peers' = DOMAIN peers \cup {q}
          /\ parse' \in Frame /\ parse'.src = q
      BY <2>1, BeginStep
    <3>2. sync' = sync /\ UNCHANGED elec
      BY <2>1 DEF BeginFrame
    <3> QED
      BY <3>1, <3>2, FrameType
  <2>2. CASE BadTlv
    BY <2>2, GiveUpHistory DEF BadTlv, TypeOK
  <2>3. ASSUME NEW whole \in BOOLEAN, SyncTlv(whole) PROVE TypeOK'
    <3>1. CASE whole
      BY <2>0, <2>3, <3>1 DEF SyncTlv, TypeOK
    <3>2. CASE ~ whole
      BY <2>3, <3>2, GiveUpHistory DEF SyncTlv, TypeOK
    <3> QED
      BY <3>1, <3>2
  <2>4. ASSUME NEW whole \in BOOLEAN, NEW nonzero \in BOOLEAN, VersionTlv(whole, nonzero)
        PROVE  TypeOK'
    <3>1. p \in Peer /\ sync' = sync /\ UNCHANGED elec
      BY <2>0, <2>4 DEF VersionTlv
    <3>2. OnlyOf(p) /\ DOMAIN peers' = DOMAIN peers /\ (GoesOn \/ GaveUp(p))
      BY <2>4, VersionStep
    <3> QED
      BY <3>1, <3>2, FrameType DEF GaveUp
  <2>5. ASSUME NEW a \in Announced, NEW n \in 0 .. 4, ElectionV1Tlv(a, n) PROVE TypeOK'
    <3>1. p \in Peer /\ sync' = sync /\ UNCHANGED elec
      BY <2>0, <2>5 DEF ElectionV1Tlv
    <3>2. OnlyOf(p) /\ DOMAIN peers' = DOMAIN peers /\ (GoesOn \/ GaveUp(p))
      BY <2>5, ElectionV1Step
    <3> QED
      BY <3>1, <3>2, FrameType DEF GaveUp
  <2>6. ASSUME NEW a \in Announced, NEW n \in 0 .. 6, ElectionV2Tlv(a, n) PROVE TypeOK'
    <3>1. p \in Peer /\ sync' = sync /\ UNCHANGED elec
      BY <2>0, <2>6 DEF ElectionV2Tlv
    <3>2. OnlyOf(p) /\ DOMAIN peers' = DOMAIN peers /\ (GoesOn \/ GaveUp(p))
      BY <2>6, ElectionV2Step
    <3> QED
      BY <3>1, <3>2, FrameType DEF GaveUp
  <2>7. CASE EndFrame
    <3>1. p \in Peer /\ sync' = sync /\ UNCHANGED elec
      BY <2>0, <2>7 DEF EndFrame
    <3>2. OnlyOf(p) /\ DOMAIN peers' = DOMAIN peers /\ parse' = NoFrame
      BY <2>7, EndStep
    <3> QED
      BY <3>1, <3>2, FrameType
  <2>8. ASSUME NEW S \in SUBSET DOMAIN peers, CleanPeers(S) PROVE TypeOK'
    BY <2>8, CleanStep DEF CleanPeers, TypeOK, IsTable
  <2>9. CASE ElectionTimer
    BY <2>9, TimerStep DEF ElectionTimer, TypeOK
  <2>10. CASE UNCHANGED vars
    BY <2>10 DEF TypeOK, vars
  <2> QED
    BY <2>1, <2>2, <2>3, <2>4, <2>5, <2>6, <2>7, <2>8, <2>9, <2>10 DEF Next, Tlv
<1> QED
  BY <1>1, <1>2, PTL DEF Spec

(***************************************************************************)
(* Validity is earned.                                                     *)
(***************************************************************************)

\* What an entry holds of the facts that make it valid has been received.
Sound(p) ==
  /\ peers[p].sent_mif => hist[p].mif
  /\ peers[p].version => hist[p].version
  /\ peers[p].is_valid => Earned(p)

TableSound == \A p \in DOMAIN peers : Sound(p)

\* A step that changes one entry keeps the table sound when it keeps that one sound.
LEMMA SoundOf ==
  ASSUME TypeOK, TableSound, NEW p \in Peer, OnlyOf(p), DOMAIN peers' \subseteq DOMAIN peers \cup {p},
         p \in DOMAIN peers' => Sound(p)'
  PROVE  TableSound'
<1> SUFFICES ASSUME NEW q \in DOMAIN peers', q # p PROVE Sound(q)'
  BY DEF TableSound
<1>1. q \in DOMAIN peers /\ q \in Peer /\ peers'[q] = peers[q] /\ hist'[q] = hist[q]
  BY DEF OnlyOf, IsTable
<1>2. Sound(q)
  BY <1>1 DEF TableSound
<1> QED
  BY <1>1, <1>2 DEF Sound, Earned

\* A step that leaves the table alone and loses nothing of the history.
LEMMA SoundKept ==
  ASSUME TypeOK, TableSound, peers' = peers,
         \A q \in Peer : hist'[q].mif = hist[q].mif /\ hist'[q].version = hist[q].version
  PROVE  TableSound'
<1> SUFFICES ASSUME NEW q \in DOMAIN peers PROVE Sound(q)'
  BY DEF TableSound
<1>1. Sound(q) /\ q \in Peer
  BY DEF TableSound, TypeOK
<1> QED
  BY <1>1 DEF Sound, Earned

LEMMA SoundStep == TypeOK /\ TableSound /\ [Next]_vars => TableSound'
<1> SUFFICES ASSUME TypeOK, TableSound, [Next]_vars PROVE TableSound'
  OBVIOUS
<1>a. PICK p : p = parse.src
  OBVIOUS
<1>0. parse # NoFrame => p \in Peer /\ p \in DOMAIN peers /\ Sound(p)
  BY <1>a, Sender DEF TableSound
<1>1. ASSUME NEW q \in Peer, NEW type \in {"PSF", "MIF"},
             NEW rssi \in {"above", "grace", "below"}, BeginFrame(q, type, rssi)
      PROVE  TableSound'
  <2>1. OnlyOf(q) /\ DOMAIN peers' = DOMAIN peers \cup {q} /\ Recorded(q, FALSE, FALSE)
    BY <1>1, BeginStep
  <2>2. Sound(q)'
    <3>1. CASE q \in DOMAIN peers
      <4>1. SameFacts(q) /\ peers'[q].is_valid = CheckValid(peers[q]) /\ Sound(q)
        BY <1>1, <3>1, BeginStep DEF TableSound
      <4> QED
        BY <2>1, <4>1 DEF SameFacts, Sound, Earned, CheckValid, Recorded
    <3>2. CASE q \notin DOMAIN peers
      BY <1>1, <3>2, BeginStep, NewPeerType DEF Sound
    <3> QED
      BY <3>1, <3>2
  <2> QED
    BY <2>1, <2>2, SoundOf
<1>2. CASE BadTlv
  BY <1>2, GiveUpHistory, SoundKept DEF BadTlv
<1>3. ASSUME NEW whole \in BOOLEAN, SyncTlv(whole) PROVE TableSound'
  <2>1. CASE whole
    BY <1>3, <2>1, SoundKept DEF SyncTlv
  <2>2. CASE ~ whole
    BY <1>3, <2>2, GiveUpHistory, SoundKept DEF SyncTlv
  <2> QED
    BY <2>1, <2>2
<1>4. ASSUME NEW whole \in BOOLEAN, NEW nonzero \in BOOLEAN, VersionTlv(whole, nonzero)
      PROVE  TableSound'
  <2>1. p \in Peer /\ Sound(p)
    BY <1>0, <1>4 DEF VersionTlv
  <2>2. /\ OnlyOf(p) /\ DOMAIN peers' = DOMAIN peers /\ Recorded(p, FALSE, whole /\ nonzero)
        /\ peers'[p].is_valid = peers[p].is_valid /\ peers'[p].sent_mif = peers[p].sent_mif
        /\ peers'[p].version => peers[p].version \/ (whole /\ nonzero)
    BY <1>4, <1>a, VersionStep
  <2>3. Sound(p)'
    BY <2>1, <2>2 DEF Sound, Earned, Recorded
  <2> QED
    BY <2>1, <2>2, <2>3, SoundOf
<1>5. ASSUME NEW a \in Announced, NEW n \in 0 .. 4, ElectionV1Tlv(a, n) PROVE TableSound'
  <2>1. p \in Peer /\ Sound(p)
    BY <1>0, <1>5 DEF ElectionV1Tlv
  <2>2. /\ OnlyOf(p) /\ DOMAIN peers' = DOMAIN peers /\ Recorded(p, FALSE, FALSE)
        /\ SameFacts(p) /\ peers'[p].is_valid = peers[p].is_valid
    BY <1>5, <1>a, ElectionV1Step
  <2>3. Sound(p)'
    BY <2>1, <2>2 DEF Sound, Earned, Recorded, SameFacts
  <2> QED
    BY <2>1, <2>2, <2>3, SoundOf
<1>6. ASSUME NEW a \in Announced, NEW n \in 0 .. 6, ElectionV2Tlv(a, n) PROVE TableSound'
  <2>1. p \in Peer /\ Sound(p)
    BY <1>0, <1>6 DEF ElectionV2Tlv
  <2>2. /\ OnlyOf(p) /\ DOMAIN peers' = DOMAIN peers /\ Recorded(p, FALSE, FALSE)
        /\ SameFacts(p) /\ peers'[p].is_valid = peers[p].is_valid
    BY <1>6, <1>a, ElectionV2Step
  <2>3. Sound(p)'
    BY <2>1, <2>2 DEF Sound, Earned, Recorded, SameFacts
  <2> QED
    BY <2>1, <2>2, <2>3, SoundOf
<1>7. CASE EndFrame
  <2>1. p \in Peer /\ Sound(p)
    BY <1>0, <1>7 DEF EndFrame
  <2>2. /\ OnlyOf(p) /\ DOMAIN peers' = DOMAIN peers
        /\ Recorded(p, parse.type = "MIF", FALSE)
        /\ peers'[p].version = peers[p].version
        /\ peers'[p].sent_mif = (peers[p].sent_mif \/ parse.type = "MIF")
        /\ peers'[p].is_valid = CheckValid(peers'[p])
    BY <1>7, <1>a, EndStep
  <2>3. Sound(p)'
    BY <2>1, <2>2 DEF Sound, Earned, Recorded, CheckValid
  <2> QED
    BY <2>1, <2>2, <2>3, SoundOf
<1>8. ASSUME NEW S \in SUBSET DOMAIN peers, CleanPeers(S) PROVE TableSound'
  <2> SUFFICES ASSUME NEW q \in DOMAIN peers' PROVE Sound(q)'
    BY DEF TableSound
  <2>1. q \in DOMAIN peers /\ peers'[q] = peers[q] /\ hist'[q] = hist[q]
    BY <1>8, CleanStep
  <2>2. Sound(q)
    BY <2>1 DEF TableSound
  <2> QED
    BY <2>1, <2>2 DEF Sound, Earned
<1>9. CASE ElectionTimer
  BY <1>9, SoundKept DEF ElectionTimer
<1>10. CASE UNCHANGED vars
  BY <1>10, SoundKept DEF vars
<1> QED
  BY <1>1, <1>2, <1>3, <1>4, <1>5, <1>6, <1>7, <1>8, <1>9, <1>10 DEF Next, Tlv

LEMMA AlwaysSound == Spec => []TableSound
<1>1. Init => TableSound
  BY DEF Init, TableSound
<1> QED
  BY <1>1, SoundStep, TypeCorrect, PTL DEF Spec

\* A peer is valid only when, since it was inserted, a MIF of it was handled to
\* its end and a non-zero version of it was stored (check_valid of peers.rs).
THEOREM ValidityEarned == Spec => []ValidEarned
<1>1. TableSound => ValidEarned
  BY DEF TableSound, Sound, ValidEarned
<1> QED
  BY <1>1, AlwaysSound, PTL

(***************************************************************************)
(* Validity is current.                                                    *)
(***************************************************************************)

\* The steps of a frame that leave the table alone.
LEMMA QuietStep ==
  ASSUME TypeOK, BadTlv \/ \E whole \in BOOLEAN : SyncTlv(whole), NEW p, p = parse.src
  PROVE  /\ OnlyOf(p) /\ peers' = peers /\ (GoesOn \/ GaveUp(p))
         /\ Recorded(p, FALSE, FALSE) /\ hist'[p].torn = hist[p].torn
<1>1. parse # NoFrame /\ peers' = peers
  BY DEF BadTlv, SyncTlv
<1>2. IsTable(peers) /\ p \in Peer /\ hist[p] \in Record /\ hist \in [Peer -> Record]
  BY <1>1, Sender DEF TypeOK
<1>3. CASE GiveUp(FALSE)
  BY <1>1, <1>2, <1>3, GaveUpRecord DEF OnlyOf
<1>4. CASE UNCHANGED <<parse, hist>>
  <2>1. hist[p].mif \in BOOLEAN /\ hist[p].version \in BOOLEAN
    BY <1>2 DEF Record
  <2> QED
    BY <1>1, <1>2, <1>4, <2>1 DEF OnlyOf, GoesOn, Recorded
<1> QED
  BY <1>3, <1>4 DEF BadTlv, SyncTlv

\* What ValidCurrent says of one peer.
Current(p) ==
  peers[p].is_valid = CheckValid(peers[p]) \/ hist[p].failed \/ parse.src = p

\* A frame of p disturbs nobody else.
LEMMA CurrentOf ==
  ASSUME TypeOK, ValidCurrent, NEW p \in Peer, OnlyOf(p),
         DOMAIN peers' \subseteq DOMAIN peers \cup {p}, parse.src \in {p, Self},
         p \in DOMAIN peers' => Current(p)'
  PROVE  ValidCurrent'
<1> SUFFICES ASSUME NEW q \in DOMAIN peers', q # p PROVE Current(q)'
  BY DEF ValidCurrent, Current
<1>1. q \in DOMAIN peers /\ q \in Peer /\ peers'[q] = peers[q] /\ hist'[q] = hist[q]
  BY DEF OnlyOf, IsTable
<1>2. q # Self
  BY <1>1, RxAssumption
<1>3. peers[q].is_valid = CheckValid(peers[q]) \/ hist[q].failed
  BY <1>1, <1>2 DEF ValidCurrent
<1> QED
  BY <1>1, <1>3 DEF Current, CheckValid

\* Within a frame, and after one that was given up, p need not be current.
LEMMA CurrentInFrame ==
  ASSUME TypeOK, ValidCurrent, parse # NoFrame, NEW p, p = parse.src, OnlyOf(p),
         DOMAIN peers' = DOMAIN peers, GoesOn \/ GaveUp(p)
  PROVE  ValidCurrent'
<1>1. p \in Peer
  BY Sender
<1>2. Current(p)'
  BY DEF Current, GoesOn, GaveUp
<1> QED
  BY <1>1, <1>2, CurrentOf

LEMMA CurrentStep == TypeOK /\ ValidCurrent /\ [Next]_vars => ValidCurrent'
<1> SUFFICES ASSUME TypeOK, ValidCurrent, [Next]_vars PROVE ValidCurrent'
  OBVIOUS
<1>0. PICK p : p = parse.src
  OBVIOUS
<1>1. ASSUME NEW q \in Peer, NEW type \in {"PSF", "MIF"},
             NEW rssi \in {"above", "grace", "below"}, BeginFrame(q, type, rssi)
      PROVE  ValidCurrent'
  <2>1. OnlyOf(q) /\ DOMAIN peers' = DOMAIN peers \cup {q} /\ parse'.src = q
    BY <1>1, BeginStep
  <2>2. parse.src = Self
    BY <1>1 DEF BeginFrame, NoFrame
  <2> QED
    BY <2>1, <2>2, CurrentOf DEF Current
<1>2. CASE BadTlv \/ \E whole \in BOOLEAN : SyncTlv(whole)
  <2>1. parse # NoFrame
    BY <1>2 DEF BadTlv, SyncTlv
  <2>2. OnlyOf(p) /\ DOMAIN peers' = DOMAIN peers /\ (GoesOn \/ GaveUp(p))
    BY <1>0, <1>2, QuietStep
  <2> QED
    BY <1>0, <2>1, <2>2, CurrentInFrame
<1>4. ASSUME NEW whole \in BOOLEAN, NEW nonzero \in BOOLEAN, VersionTlv(whole, nonzero)
      PROVE  ValidCurrent'
  <2>1. parse # NoFrame
    BY <1>4 DEF VersionTlv
  <2>2. OnlyOf(p) /\ DOMAIN peers' = DOMAIN peers /\ (GoesOn \/ GaveUp(p))
    BY <1>0, <1>4, VersionStep
  <2> QED
    BY <1>0, <2>1, <2>2, CurrentInFrame
<1>5. ASSUME NEW a \in Announced, NEW n \in 0 .. 4, ElectionV1Tlv(a, n) PROVE ValidCurrent'
  <2>1. parse # NoFrame
    BY <1>5 DEF ElectionV1Tlv
  <2>2. OnlyOf(p) /\ DOMAIN peers' = DOMAIN peers /\ (GoesOn \/ GaveUp(p))
    BY <1>0, <1>5, ElectionV1Step
  <2> QED
    BY <1>0, <2>1, <2>2, CurrentInFrame
<1>6. ASSUME NEW a \in Announced, NEW n \in 0 .. 6, ElectionV2Tlv(a, n) PROVE ValidCurrent'
  <2>1. parse # NoFrame
    BY <1>6 DEF ElectionV2Tlv
  <2>2. OnlyOf(p) /\ DOMAIN peers' = DOMAIN peers /\ (GoesOn \/ GaveUp(p))
    BY <1>0, <1>6, ElectionV2Step
  <2> QED
    BY <1>0, <2>1, <2>2, CurrentInFrame
<1>7. CASE EndFrame
  <2>1. p \in Peer
    BY <1>0, <1>7, Sender DEF EndFrame
  <2>2. /\ OnlyOf(p) /\ DOMAIN peers' = DOMAIN peers
        /\ peers'[p].is_valid = CheckValid(peers'[p])
    BY <1>0, <1>7, EndStep
  <2>3. Current(p)'
    BY <2>2 DEF Current, CheckValid
  <2> QED
    BY <1>0, <2>1, <2>2, <2>3, CurrentOf
<1>8. ASSUME NEW S \in SUBSET DOMAIN peers, CleanPeers(S) PROVE ValidCurrent'
  <2> SUFFICES ASSUME NEW q \in DOMAIN peers' PROVE Current(q)'
    BY DEF ValidCurrent, Current
  <2>1. /\ q \in DOMAIN peers /\ peers'[q] = peers[q] /\ hist'[q] = hist[q]
        /\ parse' = parse
    BY <1>8, CleanStep DEF CleanPeers
  <2>2. Current(q)
    BY <2>1 DEF ValidCurrent, Current
  <2> QED
    BY <2>1, <2>2 DEF Current, CheckValid
<1>9. CASE ElectionTimer
  BY <1>9 DEF ElectionTimer, ValidCurrent, CheckValid
<1>10. CASE UNCHANGED vars
  BY <1>10 DEF vars, ValidCurrent, CheckValid
<1> QED
  BY <1>1, <1>2, <1>4, <1>5, <1>6, <1>7, <1>8, <1>9, <1>10 DEF Next, Tlv

\* Between frames is_valid is what the stored facts make of it, but for a peer
\* whose last frame was given up (peer_add at the start and the end of
\* awdl_rx_action).
THEOREM ValidityCurrent == Spec => []ValidCurrent
<1>1. Init => ValidCurrent
  BY DEF Init, ValidCurrent
<1> QED
  BY <1>1, CurrentStep, TypeCorrect, PTL DEF Spec

(***************************************************************************)
(* Entries are whole.                                                      *)
(***************************************************************************)

\* What EntryWhole says of one peer.
Whole(p) ==
  \/ hist[p].torn
  \/ peers[p].supports_v2 /\ peers[p].election \in Announce[p]
  \/ /\ ~ peers[p].supports_v2
     /\ peers[p].election \in {NewState(p)} \cup {V1View(p, a) : a \in Announce[p]}

LEMMA WholeOf ==
  ASSUME TypeOK, EntryWhole, NEW p \in Peer, OnlyOf(p),
         DOMAIN peers' \subseteq DOMAIN peers \cup {p},
         p \in DOMAIN peers' => Whole(p)'
  PROVE  EntryWhole'
<1> SUFFICES ASSUME NEW q \in DOMAIN peers', q # p PROVE Whole(q)'
  BY DEF EntryWhole, Whole
<1>1. q \in DOMAIN peers /\ peers'[q] = peers[q] /\ hist'[q] = hist[q]
  BY DEF OnlyOf, IsTable
<1>2. Whole(q)
  BY <1>1 DEF EntryWhole, Whole
<1> QED
  BY <1>1, <1>2 DEF Whole

\* A step that leaves the election state of p, and whether it is torn, alone.
LEMMA WholeKept ==
  ASSUME TypeOK, EntryWhole, NEW p \in Peer, OnlyOf(p), p \in DOMAIN peers,
         DOMAIN peers' = DOMAIN peers, hist'[p].torn = hist[p].torn,
         peers'[p].election = peers[p].election,
         peers'[p].supports_v2 = peers[p].supports_v2
  PROVE  EntryWhole'
<1>1. Whole(p)
  BY DEF EntryWhole, Whole
<1>2. Whole(p)'
  BY <1>1 DEF Whole
<1> QED
  BY <1>2, WholeOf

LEMMA WholeStep == TypeOK /\ EntryWhole /\ [Next]_vars => EntryWhole'
<1> SUFFICES ASSUME TypeOK, EntryWhole, [Next]_vars PROVE EntryWhole'
  OBVIOUS
<1>a. PICK p : p = parse.src
  OBVIOUS
<1>0. parse # NoFrame =>
        /\ p \in Peer /\ p \in DOMAIN peers /\ peers[p].election \in ElectionState
        /\ peers[p].election.self_addr = p /\ Whole(p)
  BY <1>a, Sender DEF EntryWhole, Whole
<1>1. ASSUME NEW q \in Peer, NEW type \in {"PSF", "MIF"},
             NEW rssi \in {"above", "grace", "below"}, BeginFrame(q, type, rssi)
      PROVE  EntryWhole'
  <2>1. OnlyOf(q) /\ DOMAIN peers' = DOMAIN peers \cup {q} /\ hist'[q].torn = hist[q].torn
    BY <1>1, BeginStep
  <2>2. CASE q \in DOMAIN peers
    <3>1. peers'[q].election = peers[q].election /\ peers'[q].supports_v2 = peers[q].supports_v2
      BY <1>1, <2>2, BeginStep
    <3> QED
      BY <2>1, <2>2, <3>1, WholeKept
  <2>3. CASE q \notin DOMAIN peers
    <3>1. peers'[q].election = NewState(q) /\ ~ peers'[q].supports_v2
      BY <1>1, <2>3, BeginStep, NewPeerType
    <3>2. Whole(q)'
      BY <3>1 DEF Whole
    <3> QED
      BY <2>1, <3>2, WholeOf
  <2> QED
    BY <2>2, <2>3
<1>2. CASE BadTlv \/ \E whole \in BOOLEAN : SyncTlv(whole)
  <2>1. p \in Peer /\ p \in DOMAIN peers
    BY <1>0, <1>2 DEF BadTlv, SyncTlv
  <2>2. OnlyOf(p) /\ peers' = peers /\ hist'[p].torn = hist[p].torn
    BY <1>a, <1>2, QuietStep
  <2> QED
    BY <2>1, <2>2, WholeKept
<1>4. ASSUME NEW whole \in BOOLEAN, NEW nonzero \in BOOLEAN, VersionTlv(whole, nonzero)
      PROVE  EntryWhole'
  <2>1. p \in Peer /\ p \in DOMAIN peers
    BY <1>0, <1>4 DEF VersionTlv
  <2>2. /\ OnlyOf(p) /\ DOMAIN peers' = DOMAIN peers /\ hist'[p].torn = hist[p].torn
        /\ peers'[p].election = peers[p].election
        /\ peers'[p].supports_v2 = peers[p].supports_v2
    BY <1>a, <1>4, VersionStep
  <2> QED
    BY <2>1, <2>2, WholeKept
<1>5. ASSUME NEW a \in Announced, NEW n \in 0 .. 4, ElectionV1Tlv(a, n) PROVE EntryWhole'
  <2> DEFINE s == peers[p].election
  <2>1. p \in Peer /\ p \in DOMAIN peers /\ s \in ElectionState /\ Whole(p)
    BY <1>0, <1>5 DEF ElectionV1Tlv
  <2>2. OnlyOf(p) /\ DOMAIN peers' = DOMAIN peers
    BY <1>a, <1>5, ElectionV1Step
  <2>3. /\ ~ peers[p].supports_v2 /\ ~ peers'[p].supports_v2
        /\ a \in Announce[p] /\ a \in ElectionState
        /\ peers'[p].election = StoreV1(s, a, n)
    BY <1>a, <1>5, ElectionV1Step
  <2>4. CASE n \in 1 .. 3
    <3>1. hist'[p].torn
      BY <1>a, <1>5, <2>4, ElectionV1Step
    <3> QED
      BY <2>1, <2>2, <3>1, WholeOf DEF Whole
  <2>5. CASE n = 0
    <3>1. n \notin 1 .. 3
      BY <2>5
    <3>2. hist'[p].torn = hist[p].torn
      BY <1>a, <1>5, <3>1, ElectionV1Step
    <3>3. peers'[p].election = s
      BY <2>1, <2>3, <2>5, StoreNothing
    <3>4. peers'[p].supports_v2 = peers[p].supports_v2
      <4>1. IsTable(peers) /\ IsTable(peers')
        BY <2>2 DEF OnlyOf, TypeOK, IsTable
      <4> QED
        BY <2>1, <2>2, <2>3, <4>1, EntryFields DEF IsTable
    <3> QED
      BY <2>1, <2>2, <3>2, <3>3, <3>4, WholeKept
  <2>6. CASE n = 4
    <3>1. n \notin 1 .. 3
      BY <2>6
    <3>2. hist'[p].torn = hist[p].torn
      BY <1>a, <1>5, <3>1, ElectionV1Step
    <3>3. ~ hist[p].torn => peers'[p].election = V1View(p, a)
      <4> SUFFICES ASSUME ~ hist[p].torn PROVE StoreV1(s, a, 4) = V1View(p, a)
        BY <2>3, <2>6
      <4>1. s = NewState(p) \/ \E b \in Announce[p] : s = V1View(p, b)
        BY <2>1, <2>3 DEF Whole
      <4>2. Announce[p] \subseteq ElectionState
        BY <2>1, RxAssumption
      <4> QED
        BY <2>1, <2>3, <4>1, <4>2, StoreV1Whole
    <3>4. Whole(p)'
      BY <2>3, <3>2, <3>3 DEF Whole
    <3> QED
      BY <2>1, <2>2, <3>4, WholeOf
  <2> QED
    BY <2>4, <2>5, <2>6
<1>6. ASSUME NEW a \in Announced, NEW n \in 0 .. 6, ElectionV2Tlv(a, n) PROVE EntryWhole'
  <2> DEFINE s == peers[p].election
  <2>1. /\ p \in Peer /\ p \in DOMAIN peers /\ s \in ElectionState
        /\ s.self_addr = p
    BY <1>0, <1>6 DEF ElectionV2Tlv
  <2>2. OnlyOf(p) /\ DOMAIN peers' = DOMAIN peers
    BY <1>a, <1>6, ElectionV2Step
  <2>3. /\ a \in Announce[p] /\ a \in ElectionState /\ a.self_addr = p
        /\ peers'[p].election = StoreV2(s, a, n)
    BY <1>a, <1>6, ElectionV2Step
  <2>4. CASE n \in 1 .. 5
    <3>1. hist'[p].torn
      BY <1>a, <1>6, <2>4, ElectionV2Step
    <3> QED
      BY <2>1, <2>2, <3>1, WholeOf DEF Whole
  <2>5. CASE n = 0
    <3>1. hist'[p].torn = hist[p].torn
      BY <1>a, <1>6, <2>5, ElectionV2Step
    <3>2. peers'[p].supports_v2 = peers[p].supports_v2
      BY <1>a, <1>6, <2>5, ElectionV2Step
    <3>3. peers'[p].election = s
      BY <2>1, <2>3, <2>5, StoreNothing
    <3> QED
      BY <2>1, <2>2, <3>1, <3>2, <3>3, WholeKept
  <2>6. CASE n = 6
    <3>1. peers'[p].supports_v2
      BY <1>a, <1>6, <2>6, ElectionV2Step
    <3>2. peers'[p].election = a
      BY <2>1, <2>3, <2>6, StoreV2Whole
    <3>3. Whole(p)'
      BY <2>3, <3>1, <3>2 DEF Whole
    <3> QED
      BY <2>1, <2>2, <3>3, WholeOf
  <2> QED
    BY <2>4, <2>5, <2>6
<1>7. CASE EndFrame
  <2>1. p \in Peer /\ p \in DOMAIN peers
    BY <1>0, <1>7 DEF EndFrame
  <2>2. /\ OnlyOf(p) /\ DOMAIN peers' = DOMAIN peers /\ hist'[p].torn = hist[p].torn
        /\ peers'[p].election = peers[p].election
        /\ peers'[p].supports_v2 = peers[p].supports_v2
    BY <1>a, <1>7, EndStep
  <2> QED
    BY <2>1, <2>2, WholeKept
<1>8. ASSUME NEW S \in SUBSET DOMAIN peers, CleanPeers(S) PROVE EntryWhole'
  <2> SUFFICES ASSUME NEW q \in DOMAIN peers' PROVE Whole(q)'
    BY DEF EntryWhole, Whole
  <2>1. q \in DOMAIN peers /\ peers'[q] = peers[q] /\ hist'[q] = hist[q]
    BY <1>8, CleanStep
  <2>2. Whole(q)
    BY <2>1 DEF EntryWhole, Whole
  <2> QED
    BY <2>1, <2>2 DEF Whole
<1>9. CASE ElectionTimer
  BY <1>9 DEF ElectionTimer, EntryWhole
<1>10. CASE UNCHANGED vars
  BY <1>10 DEF vars, EntryWhole
<1> QED
  BY <1>1, <1>2, <1>4, <1>5, <1>6, <1>7, <1>8, <1>9, <1>10 DEF Next, Tlv

\* What the table holds of a peer's election state is one announcement of that
\* peer, whole, unless a handler gave up in the middle of one (the election TLV
\* handlers of rx.rs, with the early return of the older version).
THEOREM EntriesWhole == Spec => []EntryWhole
<1>1. Init => EntryWhole
  BY DEF Init, EntryWhole
<1> QED
  BY <1>1, WholeStep, TypeCorrect, PTL DEF Spec

(***************************************************************************)
(* The sync master.                                                        *)
(***************************************************************************)

\* A peer of which the facts were recorded stays earned over a step of a frame.
LEMMA EarnedKept ==
  ASSUME NEW p \in Peer, OnlyOf(p), NEW mif, NEW version, Recorded(p, mif, version),
         NEW q \in Peer, Earned(q)
  PROVE  Earned(q)'
<1>1. CASE q = p
  BY <1>1 DEF Recorded, Earned
<1>2. CASE q # p
  BY <1>2 DEF OnlyOf, Earned
<1> QED
  BY <1>1, <1>2

LEMMA MasterKept ==
  ASSUME TypeOK, MasterEarned, UNCHANGED elec, NEW p \in Peer, OnlyOf(p),
         DOMAIN peers \subseteq DOMAIN peers',
         NEW mif, NEW version, Recorded(p, mif, version)
  PROVE  MasterEarned'
<1>1. \A q \in Peer : Earned(q) => Earned(q)'
  BY EarnedKept
<1>2. elec.sync_addr # Self =>
        elec.sync_addr \in DOMAIN peers /\ elec.sync_addr \in Peer /\ Earned(elec.sync_addr)
  BY DEF MasterEarned, TypeOK
<1>3. ASSUME NEW q, q = elec.sync_addr, q # Self PROVE q \in DOMAIN peers' /\ Earned(q)'
  BY <1>1, <1>2, <1>3
<1> QED
  BY <1>3 DEF MasterEarned, Earned

LEMMA MasterStep ==
  TypeOK /\ TableSound /\ TableSound' /\ MasterEarned /\ [Next]_vars => MasterEarned'
<1> SUFFICES ASSUME TypeOK, TableSound, TableSound', MasterEarned, [Next]_vars
             PROVE  MasterEarned'
  OBVIOUS
<1>a. PICK p : p = parse.src
  OBVIOUS
<1>0. parse # NoFrame => p \in Peer
  BY <1>a, Sender
<1>1. ASSUME NEW q \in Peer, NEW type \in {"PSF", "MIF"},
             NEW rssi \in {"above", "grace", "below"}, BeginFrame(q, type, rssi)
      PROVE  MasterEarned'
  <2>1. OnlyOf(q) /\ DOMAIN peers \subseteq DOMAIN peers' /\ Recorded(q, FALSE, FALSE)
    BY <1>1, BeginStep
  <2>2. UNCHANGED elec
    BY <1>1 DEF BeginFrame
  <2> QED
    BY <2>1, <2>2, MasterKept
<1>2. CASE BadTlv \/ \E whole \in BOOLEAN : SyncTlv(whole)
  <2>1. p \in Peer /\ UNCHANGED elec
    BY <1>0, <1>2 DEF BadTlv, SyncTlv
  <2>2. OnlyOf(p) /\ DOMAIN peers \subseteq DOMAIN peers' /\ Recorded(p, FALSE, FALSE)
    BY <1>a, <1>2, QuietStep
  <2> QED
    BY <2>1, <2>2, MasterKept
<1>4. ASSUME NEW whole \in BOOLEAN, NEW nonzero \in BOOLEAN, VersionTlv(whole, nonzero)
      PROVE  MasterEarned'
  <2>1. p \in Peer /\ UNCHANGED elec
    BY <1>0, <1>4 DEF VersionTlv
  <2>2. OnlyOf(p) /\ DOMAIN peers \subseteq DOMAIN peers'
        /\ Recorded(p, FALSE, whole /\ nonzero)
    BY <1>a, <1>4, VersionStep
  <2> QED
    BY <2>1, <2>2, MasterKept
<1>5. ASSUME NEW a \in Announced, NEW n \in 0 .. 4, ElectionV1Tlv(a, n) PROVE MasterEarned'
  <2>1. p \in Peer /\ UNCHANGED elec
    BY <1>0, <1>5 DEF ElectionV1Tlv
  <2>2. OnlyOf(p) /\ DOMAIN peers \subseteq DOMAIN peers' /\ Recorded(p, FALSE, FALSE)
    BY <1>a, <1>5, ElectionV1Step
  <2> QED
    BY <2>1, <2>2, MasterKept
<1>6. ASSUME NEW a \in Announced, NEW n \in 0 .. 6, ElectionV2Tlv(a, n) PROVE MasterEarned'
  <2>1. p \in Peer /\ UNCHANGED elec
    BY <1>0, <1>6 DEF ElectionV2Tlv
  <2>2. OnlyOf(p) /\ DOMAIN peers \subseteq DOMAIN peers' /\ Recorded(p, FALSE, FALSE)
    BY <1>a, <1>6, ElectionV2Step
  <2> QED
    BY <2>1, <2>2, MasterKept
<1>7. CASE EndFrame
  <2>1. p \in Peer /\ UNCHANGED elec
    BY <1>0, <1>7 DEF EndFrame
  <2>2. OnlyOf(p) /\ DOMAIN peers \subseteq DOMAIN peers'
        /\ Recorded(p, parse.type = "MIF", FALSE)
    BY <1>a, <1>7, EndStep
  <2> QED
    BY <2>1, <2>2, MasterKept
<1>8. ASSUME NEW S \in SUBSET DOMAIN peers, CleanPeers(S) PROVE MasterEarned'
  <2>1. \/ elec'.sync_addr = Self
        \/ elec'.sync_addr \in DOMAIN peers' /\ peers'[elec'.sync_addr].is_valid
    BY <1>8, CleanStep
  <2> QED
    BY <2>1 DEF MasterEarned, TableSound, Sound, Earned
<1>9. CASE ElectionTimer
  <2>1. \/ elec'.sync_addr = Self
        \/ elec'.sync_addr \in DOMAIN peers /\ peers[elec'.sync_addr].is_valid
    BY <1>9, TimerStep
  <2>2. peers' = peers
    BY <1>9 DEF ElectionTimer
  <2> QED
    BY <2>1, <2>2 DEF MasterEarned, TableSound, Sound, Earned
<1>10. CASE UNCHANGED vars
  BY <1>10 DEF vars, MasterEarned, Earned
<1> QED
  BY <1>1, <1>2, <1>4, <1>5, <1>6, <1>7, <1>8, <1>9, <1>10 DEF Next, Tlv

\* The sync master stays a known peer that has earned its validity, whatever
\* frames come between two elections (awdl_election_run over the table, and the
\* election behind every removal in mod.rs).
THEOREM MasterIsEarned == Spec => []MasterEarned
<1>1. Init => MasterEarned
  BY DEF Init, MasterEarned, NewState
<1> QED
  BY <1>1, MasterStep, AlwaysSound, TypeCorrect, PTL DEF Spec

\* Who sets the clock of this node has earned its validity
\* (awdl_handle_sync_params_tlv of rx.rs).
THEOREM ClockIsEarned == Spec => SyncEarned
<1>1. TypeOK /\ MasterEarned /\ [Next]_vars
        => [sync' # sync => sync' \in DOMAIN peers /\ Earned(sync')]_vars
  <2> SUFFICES ASSUME TypeOK, MasterEarned, Next, sync' # sync
               PROVE  sync' \in DOMAIN peers /\ Earned(sync')
    BY DEF vars
  <2>1. \E whole \in BOOLEAN : SyncTlv(whole)
    BY DEF Next, Tlv, BeginFrame, BadTlv, VersionTlv, ElectionV1Tlv, ElectionV2Tlv, EndFrame,
           CleanPeers, ElectionTimer
  <2>2. parse # NoFrame /\ sync' = parse.src /\ elec.sync_addr = parse.src
    BY <2>1 DEF SyncTlv, AcceptsSync, IsSyncMaster
  <2>3. parse.src # Self
    BY <2>2, Sender
  <2> QED
    BY <2>2, <2>3 DEF MasterEarned
<1> QED
  BY <1>1, MasterIsEarned, TypeCorrect, PTL DEF Spec, SyncEarned

=============================================================================
