------------------------------- MODULE AwdlRx -------------------------------
(***************************************************************************)
(* One node's handling of AWDL action frames, TLV by TLV                   *)
(* (src/src/awdl/rx.rs with peers.rs, and the peer and election timers of  *)
(* mod.rs).  AwdlMesh takes a frame as a whole; here a frame is a header,  *)
(* any number of TLVs, and an end, and the handler gives up at the first   *)
(* TLV it cannot parse, keeping what it has stored by then.                *)
(*                                                                         *)
(* The daemon holds its mutex from the first to the last step of a frame,  *)
(* so no timer runs between them.  What the senders put into their frames  *)
(* is chosen freely from a set of announcements per peer.                  *)
(***************************************************************************)
EXTENDS Election

CONSTANTS
  Self,      \* this node's address
  Peer,      \* the addresses frames may come from
  Announce   \* Announce[p]: the election states that p may announce

ASSUME RxAssumption ==
  /\ Self \in Address
  /\ Peer \subseteq Address \ {Self}
  /\ Announce \in [Peer -> SUBSET ElectionState]
  /\ \A p \in Peer : \A a \in Announce[p] : a.self_addr = p

VARIABLES
  peers,  \* AwdlState.peers, a function from the known peers to entries
  elec,   \* AwdlState.election
  sync,   \* AwdlState.sync, as the device whose parameters it was last set from
  parse,  \* the frame that is being handled, or NoFrame
  hist    \* history: what has been received from each peer since its insertion

vars == <<peers, elec, sync, parse, hist>>

\* struct AwdlPeer.  version stands for "version and devclass are non-zero".
Entry ==
  [ election : ElectionState, version : BOOLEAN, supports_v2 : BOOLEAN,
    sent_mif : BOOLEAN, is_valid : BOOLEAN ]

NoFrame == [src |-> Self, type |-> "none"]
Frame == [src : Peer, type : {"PSF", "MIF"}]

\* mif: a MIF was handled to its end; version: a non-zero version was stored;
\* failed: the handler gave up on the last frame; torn: it gave up within an
\* election TLV, and no complete v2 TLV has come since.
Record == [mif : BOOLEAN, version : BOOLEAN, failed : BOOLEAN, torn : BOOLEAN]
NoRecord == [mif |-> FALSE, version |-> FALSE, failed |-> FALSE, torn |-> FALSE]

TypeOK ==
  /\ DOMAIN peers \subseteq Peer
  /\ \A p \in DOMAIN peers : peers[p] \in Entry /\ peers[p].election.self_addr = p
  /\ elec \in ElectionState /\ elec.self_addr = Self
  /\ sync \in Peer \cup {Self}
  /\ parse \in Frame \cup {NoFrame}
  /\ parse # NoFrame => parse.src \in DOMAIN peers
  /\ hist \in [Peer -> Record]

Init ==
  /\ peers = [p \in {} |-> p]
  /\ elec = NewState(Self)
  /\ sync = Self
  /\ parse = NoFrame
  /\ hist = [p \in Peer |-> NoRecord]

(***************************************************************************)
(* The peer table.                                                         *)
(***************************************************************************)

\* AwdlPeer::new
NewPeer(p) ==
  [ election |-> NewState(p), version |-> FALSE, supports_v2 |-> FALSE,
    sent_mif |-> FALSE, is_valid |-> FALSE ]

CheckValid(e) == e.sent_mif /\ e.version

\* Erroneous: the validity of a known peer is left as it is.
PeerAddNew(table, p) ==
  [q \in DOMAIN table \cup {p} |-> IF q \in DOMAIN table THEN table[q] ELSE NewPeer(p)]

\* peer_add: inserts a peer that is not known, and recomputes is_valid.
PeerAdd(table, p) ==
  [ q \in DOMAIN table \cup {p} |->
      IF q # p THEN table[q]
      ELSE IF p \in DOMAIN table
           THEN [table[p] EXCEPT !.is_valid = CheckValid(table[p])]
           ELSE NewPeer(p) ]

(***************************************************************************)
(* The start of awdl_rx_action.  A known peer is heard down to the grace   *)
(* below the RSSI threshold, a new one only above the threshold; a frame   *)
(* below is ignored.                                                       *)
(***************************************************************************)

Loud(p, rssi) == rssi = "above" \/ (rssi = "grace" /\ p \in DOMAIN peers)

BeginFrame(p, type, rssi) ==
  /\ parse = NoFrame
  /\ Loud(p, rssi)
  /\ parse' = [src |-> p, type |-> type]
  /\ peers' = PeerAdd(peers, p)
  /\ hist' = [hist EXCEPT ![p].failed = FALSE]
  /\ UNCHANGED <<elec, sync>>

\* The handler gives up: UnexpectedFormat is returned at once.
GiveUp(torn) ==
  /\ parse' = NoFrame
  /\ hist' = [hist EXCEPT ![parse.src].failed = TRUE,
                          ![parse.src].torn = hist[parse.src].torn \/ torn]

(***************************************************************************)
(* The TLV handlers.  "whole" says whether the reads of the handler stay   *)
(* within the TLV, and in those that store field by field, n is the number *)
(* of fields that do.                                                      *)
(***************************************************************************)

\* A TLV whose header or declared length runs over the frame, and a channel
\* sequence, service or data path TLV that is short or carries a value the
\* handler does not support.  What those three store (sequence, name, country,
\* infrastructure address) is read by nothing that is modelled here, so their
\* success, and a TLV of another type, leaves the state alone.
BadTlv ==
  /\ parse # NoFrame
  /\ GiveUp(FALSE)
  /\ UNCHANGED <<peers, elec, sync>>

\* Erroneous: everybody's sync parameters are taken.
AcceptsSyncAny == TRUE

AcceptsSync == IsSyncMaster(elec, parse.src)

SyncTlv(whole) ==
  /\ parse # NoFrame
  /\ AcceptsSync
  /\ IF whole
     THEN sync' = parse.src /\ UNCHANGED <<parse, hist>>
     ELSE GiveUp(FALSE) /\ UNCHANGED sync
  /\ UNCHANGED <<peers, elec>>

\* The first n of the fields height, master_addr, master_metric, self_metric.
StoreV1(s, a, n) ==
  [ s EXCEPT !.height        = IF n >= 1 THEN a.height ELSE s.height,
             !.master_addr   = IF n >= 2 THEN a.master_addr ELSE s.master_addr,
             !.master_metric = IF n >= 3 THEN a.master_metric ELSE s.master_metric,
             !.self_metric   = IF n >= 4 THEN a.self_metric ELSE s.self_metric ]

\* Erroneous: without the early return.
V1CountsAlways(e) == TRUE

\* Once a peer has sent a complete v2 TLV, its v1 TLVs are skipped.
V1Counts(e) == ~ e.supports_v2

ElectionV1Tlv(a, n) ==
  LET p == parse.src
  IN /\ parse # NoFrame
     /\ a \in Announce[p]
     /\ V1Counts(peers[p])
     /\ peers' = [peers EXCEPT ![p].election = StoreV1(peers[p].election, a, n)]
     /\ IF n = 4 THEN UNCHANGED <<parse, hist>> ELSE GiveUp(n > 0)
     /\ UNCHANGED <<elec, sync>>

\* The first n of: both addresses, counter, height, metric, self metric, self
\* counter.  The two addresses are read before either is stored.
StoreV2(s, a, n) ==
  [ s EXCEPT !.master_addr    = IF n >= 1 THEN a.master_addr ELSE s.master_addr,
             !.sync_addr      = IF n >= 1 THEN a.sync_addr ELSE s.sync_addr,
             !.master_counter = IF n >= 2 THEN a.master_counter ELSE s.master_counter,
             !.height         = IF n >= 3 THEN a.height ELSE s.height,
             !.master_metric  = IF n >= 4 THEN a.master_metric ELSE s.master_metric,
             !.self_metric    = IF n >= 5 THEN a.self_metric ELSE s.self_metric,
             !.self_counter   = IF n >= 6 THEN a.self_counter ELSE s.self_counter ]

ElectionV2Tlv(a, n) ==
  LET p == parse.src
  IN /\ parse # NoFrame
     /\ a \in Announce[p]
     /\ peers' = [peers EXCEPT ![p].election = StoreV2(peers[p].election, a, n),
                               ![p].supports_v2 = peers[p].supports_v2 \/ n = 6]
     /\ IF n = 6
        THEN hist' = [hist EXCEPT ![p].torn = FALSE] /\ UNCHANGED parse
        ELSE GiveUp(n > 0)
     /\ UNCHANGED <<elec, sync>>

VersionTlv(whole, nonzero) ==
  LET p == parse.src
  IN /\ parse # NoFrame
     /\ IF whole
        THEN /\ peers' = [peers EXCEPT ![p].version = nonzero]
             /\ hist' = [hist EXCEPT ![p].version = hist[p].version \/ nonzero]
             /\ UNCHANGED parse
        ELSE GiveUp(FALSE) /\ UNCHANGED peers
     /\ UNCHANGED <<elec, sync>>

Announced == UNION {Announce[p] : p \in Peer}

Tlv ==
  \/ BadTlv
  \/ \E whole \in BOOLEAN : SyncTlv(whole)
  \/ \E whole, nonzero \in BOOLEAN : VersionTlv(whole, nonzero)
  \/ \E a \in Announced, n \in 0 .. 4 : ElectionV1Tlv(a, n)
  \/ \E a \in Announced, n \in 0 .. 6 : ElectionV2Tlv(a, n)

\* Erroneous: every complete frame counts as a MIF.
SentMifAny(table) == [table EXCEPT ![parse.src].sent_mif = TRUE]

SentMif(table) ==
  [table EXCEPT ![parse.src].sent_mif = table[parse.src].sent_mif \/ parse.type = "MIF"]

\* Every TLV has been handled: a MIF is noted, and the validity recomputed.
EndFrame ==
  LET p == parse.src
  IN /\ parse # NoFrame
     /\ peers' = PeerAdd(SentMif(peers), p)
     /\ hist' = [hist EXCEPT ![p].mif = hist[p].mif \/ parse.type = "MIF"]
     /\ parse' = NoFrame
     /\ UNCHANGED <<elec, sync>>

(***************************************************************************)
(* The timers, between two frames.  Which peers are silent for the timeout *)
(* is left open: the set S.                                                *)
(***************************************************************************)

Elect(table) == elec' \in Outcomes(elec, Candidates(Self, table))

CleanPeers(S) ==
  /\ parse = NoFrame
  /\ S \subseteq DOMAIN peers
  /\ peers' = [p \in DOMAIN peers \ S |-> peers[p]]
  /\ hist' = [p \in Peer |-> IF p \in S THEN NoRecord ELSE hist[p]]
  /\ Elect([p \in DOMAIN peers \ S |-> peers[p]])
  /\ UNCHANGED <<sync, parse>>

ElectionTimer ==
  /\ parse = NoFrame
  /\ Elect(peers)
  /\ UNCHANGED <<peers, sync, parse, hist>>

Next ==
  \/ \E p \in Peer, type \in {"PSF", "MIF"}, rssi \in {"above", "grace", "below"} :
       BeginFrame(p, type, rssi)
  \/ Tlv
  \/ EndFrame
  \/ \E S \in SUBSET DOMAIN peers : CleanPeers(S)
  \/ ElectionTimer

Spec == Init /\ [][Next]_vars

(***************************************************************************)
(* Properties.                                                             *)
(***************************************************************************)

\* A valid peer has earned it: since it was inserted, one of its MIFs was
\* handled to the end and one of its version TLVs was non-zero.  The facts may
\* come in different frames, in either order, with failing frames in between.
Earned(p) == hist[p].mif /\ hist[p].version
ValidEarned == \A p \in DOMAIN peers : peers[p].is_valid => Earned(p)

\* is_valid is recomputed at the start and at the end of a frame, not where the
\* fields it depends on are stored: between frames it agrees with them, except
\* for a peer whose last frame the handler gave up on.
ValidCurrent ==
  \A p \in DOMAIN peers :
    peers[p].is_valid = CheckValid(peers[p]) \/ hist[p].failed \/ parse.src = p

\* What a peer with v1 TLVs only has in its entry.
V1View(p, a) == StoreV1(NewState(p), a, 4)

\* The election state stored for a peer is one that the peer announced, whole:
\* never fields of two announcements, or of a v1 and a v2 TLV, next to each
\* other, unless the handler gave up in the middle of an election TLV.
EntryWhole ==
  \A p \in DOMAIN peers :
    LET s == peers[p].election
    IN \/ hist[p].torn
       \/ peers[p].supports_v2 /\ s \in Announce[p]
       \/ /\ ~ peers[p].supports_v2
          /\ s \in {NewState(p)} \cup {V1View(p, a) : a \in Announce[p]}

\* The sync master is a peer that is still in the table and has earned its
\* validity there, whatever frames have come since the election.
MasterEarned ==
  elec.sync_addr = Self \/ (elec.sync_addr \in DOMAIN peers /\ Earned(elec.sync_addr))

\* The node's clock is only ever set from a peer that has earned its validity.
SyncEarned == [][sync' # sync => sync' \in DOMAIN peers /\ Earned(sync')]_vars

=============================================================================
