------------------------------ MODULE AwdlMesh ------------------------------
(***************************************************************************)
(* The AWDL mesh: several nodes that run this program's daemon announce    *)
(* their election states in action frames, learn those of their neighbours *)
(* into a peer table, forget silent peers and elect a sync master from the *)
(* table (src/src/awdl/election.rs, peers.rs, rx.rs, tx.rs, mod.rs).       *)
(*                                                                         *)
(* Foreign devices (other implementations of AWDL) may announce a master   *)
(* metric that no node of this program can have; how they elect is not     *)
(* modelled, they announce themselves as masters until they leave.         *)
(*                                                                         *)
(* Frames are whole: the parsing of a frame TLV by TLV, its failures and   *)
(* the RSSI filter are not part of this module.  A frame that is lost,     *)
(* filtered or refused is one that is not delivered.                       *)
(***************************************************************************)
EXTENDS Election, Sequences

CONSTANTS
  Node,            \* the addresses of the nodes that run this program
  Foreign,         \* the addresses of the other AWDL devices
  Steady,          \* the devices that run all the time
  InRange,         \* the pairs <<sender, receiver>> that hear each other
  ForeignMetric,   \* the self metric of a foreign device
  ForeignCounter,  \* its self counter
  Timeout,         \* peers.timeout, in ticks
  FrameTypes,      \* the frame types that are sent: a subset of {"PSF", "MIF"}
  InboxCap,        \* bound: frames that wait in one node's capture buffer
  Timely           \* TRUE: a tick passes only when every live peer was heard

Device == Node \cup Foreign

ASSUME MeshAssumption ==
  /\ Device \subseteq Address
  /\ Node \cap Foreign = {}
  /\ Steady \subseteq Device
  /\ InRange \subseteq {link \in Device \X Node : link[1] # link[2]}
  /\ ForeignMetric \in U32
  /\ ForeignCounter \in U32
  /\ Timeout \in Nat
  /\ FrameTypes \subseteq {"PSF", "MIF"}
  /\ InboxCap \in Nat \ {0}
  /\ Timely \in BOOLEAN

VARIABLES
  up,     \* the devices that are running
  elec,   \* elec[n]: the election state of node n (AwdlState.election)
  peers,  \* peers[n]: the peer table of node n (AwdlState.peers), a function
          \* from the addresses of the known peers to entries
  inbox   \* inbox[n]: the frames captured for n that its loop has not read

vars == <<up, elec, peers, inbox>>

Frame == [type : FrameTypes, election : ElectionState]

\* An entry keeps the peer's announced state, whether it is valid, and the
\* ticks since its last_update.  Ages stop at Timeout + 1.
Entry == [election : ElectionState, is_valid : BOOLEAN, age : 0 .. Timeout + 1]

Table(n) == UNION {[D -> Entry] : D \in SUBSET (Device \ {n})}

TypeOK ==
  /\ up \subseteq Device
  /\ elec \in [Node -> ElectionState]
  /\ \A n \in Node : elec[n].self_addr = n
  /\ DOMAIN peers = Node
  /\ \A n \in Node : DOMAIN peers[n] \subseteq Device \ {n}
  /\ \A n \in Node : \A p \in DOMAIN peers[n] :
       peers[n][p] \in Entry /\ peers[n][p].election.self_addr = p
  /\ DOMAIN inbox = Node
  /\ \A n \in Node :
       /\ inbox[n] \in Seq(Frame)
       /\ \A i \in 1 .. Len(inbox[n]) : inbox[n][i].election.self_addr \in Device \ {n}

EmptyTable == [p \in {} |-> p]

Init ==
  /\ up = Steady
  /\ elec = [n \in Node |-> NewState(n)]
  /\ peers = [n \in Node |-> EmptyTable]
  /\ inbox = [n \in Node |-> <<>>]

(***************************************************************************)
(* Sending.  A broadcast reaches some of the running nodes in range; a     *)
(* receiver whose capture buffer is full loses the frame.                  *)
(***************************************************************************)

Receivers(d) ==
  {m \in Node \cap up : <<d, m>> \in InRange /\ Len(inbox[m]) < InboxCap}

Deliver(frame, S) ==
  inbox' = [m \in Node |-> IF m \in S THEN Append(inbox[m], frame) ELSE inbox[m]]

\* What the election TLV of a device announces: a node its current state, a
\* foreign device itself.
Announced(d) ==
  IF d \in Node
  THEN elec[d]
  ELSE [NewState(d) EXCEPT !.master_metric = ForeignMetric, !.self_metric = ForeignMetric,
                           !.master_counter = ForeignCounter, !.self_counter = ForeignCounter]

\* The PSF or MIF timer of a node (or a foreign device) fires: send_action
\* announces its state of that moment.
SendAction(d, type, S) ==
  /\ d \in up
  /\ S \subseteq Receivers(d)
  /\ Deliver([type |-> type, election |-> Announced(d)], S)
  /\ UNCHANGED <<up, elec, peers>>

(***************************************************************************)
(* Receiving: awdl_rx_action on the oldest frame.  It inserts or refreshes *)
(* the peer, takes over what the frame announces, and makes the peer valid *)
(* when a MIF has been parsed since its insertion; every frame carries a   *)
(* version TLV with the non-zero version and device class check_valid asks *)
(* for.                                                                    *)
(***************************************************************************)

\* Erroneous: the entry stored under the announced master's address.
LearnByMaster(table, frame) ==
  [ p \in DOMAIN table \cup {frame.election.master_addr} |->
      IF p = frame.election.master_addr
      THEN [election |-> frame.election, is_valid |-> frame.type = "MIF", age |-> 0]
      ELSE table[p] ]

Learn(table, frame) ==
  LET src == frame.election.self_addr
      known == src \in DOMAIN table /\ table[src].is_valid
  IN [ p \in DOMAIN table \cup {src} |->
         IF p = src
         THEN [election |-> frame.election,
               is_valid |-> known \/ frame.type = "MIF",
               age |-> 0]
         ELSE table[p] ]

RxAction(n) ==
  /\ n \in up
  /\ inbox[n] # <<>>
  /\ peers' = [peers EXCEPT ![n] = Learn(@, Head(inbox[n]))]
  /\ inbox' = [inbox EXCEPT ![n] = Tail(@)]
  /\ UNCHANGED <<up, elec>>

(***************************************************************************)
(* The peer and election timers of run_daemon_loop.  Each runs the         *)
(* election on the table as it is; the peer timer removes the peers whose  *)
(* last_update is older than the timeout first.                            *)
(***************************************************************************)

\* Erroneous: nothing is ever removed.
RemoveNone(table) == table

\* peers_remove_before(now - timeout)
RemoveBefore(table) ==
  [p \in {q \in DOMAIN table : table[q].age <= Timeout} |-> table[p]]

Elect(n, table) ==
  \E new \in Outcomes(elec[n], Candidates(n, table)) : elec' = [elec EXCEPT ![n] = new]

\* Erroneous: the election left to the election timer.
CleanOnly(n) ==
  /\ n \in up
  /\ peers' = [peers EXCEPT ![n] = RemoveBefore(@)]
  /\ UNCHANGED <<up, elec, inbox>>

CleanPeers(n) ==
  /\ n \in up
  /\ peers' = [peers EXCEPT ![n] = RemoveBefore(@)]
  /\ Elect(n, RemoveBefore(peers[n]))
  /\ UNCHANGED <<up, inbox>>

ElectionTimer(n) ==
  /\ n \in up
  /\ Elect(n, peers[n])
  /\ UNCHANGED <<up, peers, inbox>>

(***************************************************************************)
(* Time.  Each node's clock ticks on its own.  With Timely, the medium is  *)
(* assumed to deliver at least one frame of each running peer per tick     *)
(* (the nodes send some nine PSFs per second and the timeout is two).      *)
(***************************************************************************)

Heard(n) == \A p \in DOMAIN peers[n] \cap up : <<p, n>> \in InRange => peers[n][p].age = 0

Aged(table) ==
  [p \in DOMAIN table |->
     [table[p] EXCEPT !.age = IF table[p].age <= Timeout THEN @ + 1 ELSE @]]

Tick(n) ==
  /\ n \in up
  /\ Timely => Heard(n)
  /\ peers' = [peers EXCEPT ![n] = Aged(@)]
  /\ UNCHANGED <<up, elec, inbox>>

(***************************************************************************)
(* Starting and stopping.  Nothing is persisted: a daemon starts with      *)
(* AwdlState::new, and stopping it, or its crash, loses its state.  A      *)
(* foreign device comes and goes.                                          *)
(***************************************************************************)

Start(d) ==
  /\ d \notin up
  /\ up' = up \cup {d}
  /\ UNCHANGED <<elec, peers, inbox>>

Stop(d) ==
  /\ d \in up \ Steady
  /\ up' = up \ {d}
  /\ elec' = [n \in Node |-> IF n = d THEN NewState(n) ELSE elec[n]]
  /\ peers' = [n \in Node |-> IF n = d THEN EmptyTable ELSE peers[n]]
  /\ inbox' = [n \in Node |-> IF n = d THEN <<>> ELSE inbox[n]]

Next ==
  \/ \E d \in Device, type \in FrameTypes : \E S \in SUBSET Receivers(d) : SendAction(d, type, S)
  \/ \E n \in Node : RxAction(n) \/ CleanPeers(n) \/ ElectionTimer(n) \/ Tick(n)
  \/ \E d \in Device : Start(d) \/ Stop(d)

Spec == Init /\ [][Next]_vars

(***************************************************************************)
(* Fairness.  The loop runs every timer again and again and drains the     *)
(* capture buffer on every turn (weak fairness; the peer timer elects too, *)
(* so nothing is asked of the election timer); the medium does not lose    *)
(* every MIF of a link that keeps being able to carry one (strong).        *)
(***************************************************************************)

SendTo(d, m) ==
  \E S \in SUBSET Receivers(d) : m \in S /\ SendAction(d, "MIF", S)

Fairness ==
  /\ \A n \in Node :
       /\ WF_vars(RxAction(n))
       /\ WF_vars(CleanPeers(n))
       /\ WF_vars(Tick(n))
  /\ \A link \in InRange : SF_vars(SendTo(link[1], link[2]))

FairSpec == Spec /\ Fairness

(***************************************************************************)
(* Properties.                                                             *)
(***************************************************************************)

\* "do not allow cycles in sync tree": following sync_addr from node to node
\* never comes back, that is, no set of nodes follows only its own members.
NoSyncCycle ==
  \A C \in (SUBSET Node) \ {{}} :
    \E n \in C : elec[n].sync_addr \notin C \ {n}

\* The state of a node that follows the master m directly.
Follower(a, m) ==
  [ self_addr |-> a, master_addr |-> m, sync_addr |-> m, height |-> 1,
    master_metric |-> MetricInit, self_metric |-> MetricInit,
    master_counter |-> CounterInit, self_counter |-> CounterInit ]

\* A state that is its own master's or a direct follower's of a higher node.
FlatState(s) ==
  \/ s = NewState(s.self_addr)
  \/ \E m \in Node : m > s.self_addr /\ s = Follower(s.self_addr, m)

\* The tree that this program's nodes build among themselves: all compete with
\* the same metric and counter, so a node is its own master or follows, one
\* level below it, a master with a higher address.
FlatTree == \A n \in Node : FlatState(elec[n])

\* The flat tree with what keeps it so: however old the states are that the
\* tables hold and the frames carry, each was of that form when it was sent.
FlatInv ==
  /\ FlatTree
  /\ \A n \in Node : \A p \in DOMAIN peers[n] : FlatState(peers[n][p].election)
  /\ \A n \in Node : \A i \in 1 .. Len(inbox[n]) : FlatState(inbox[n][i].election)

\* A node only follows a peer that is in its table and valid: the removal of a
\* silent peer and the election that replaces it as sync master are one step.
SyncMasterKnown ==
  \A n \in Node :
    \/ elec[n].sync_addr = n
    \/ /\ elec[n].sync_addr \in DOMAIN peers[n]
       /\ peers[n][elec[n].sync_addr].is_valid

\* The masters that the running node n hears and that have higher addresses.
HigherMasters(n) ==
  {m \in Node \cap up : <<m, n>> \in InRange /\ m > n /\ elec[m].sync_addr = m}

\* Every running node follows the highest master it hears, if one is above it.
Settled ==
  \A n \in Node \cap up :
    IF HigherMasters(n) = {}
    THEN elec[n].sync_addr = n
    ELSE /\ elec[n].sync_addr \in HigherMasters(n)
         /\ \A m \in HigherMasters(n) : m <= elec[n].sync_addr

\* What a running node has heard, a table entry or a frame, is what a running
\* neighbour still announces.
Current(n, s) ==
  /\ s.self_addr \in Node \cap up /\ <<s.self_addr, n>> \in InRange
  /\ s = elec[s.self_addr]

\* A settled mesh in which nothing of the past is left and no master is still
\* to be heard of, so that no election has another outcome.
Calm ==
  /\ Settled
  /\ up \cap Foreign = {}
  /\ \A n \in Node \cap up :
       /\ FlatState(elec[n])
       /\ \A p \in DOMAIN peers[n] : Current(n, peers[n][p].election) /\ peers[n][p].age <= 1
       /\ \A i \in 1 .. Len(inbox[n]) : Current(n, inbox[n][i].election)
       /\ \A m \in HigherMasters(n) : m \in DOMAIN peers[n] /\ peers[n][m].is_valid

\* Once devices stop coming and going and the foreign ones are gone, the nodes
\* settle for good: a departed master's announcements do not circulate forever
\* among the nodes that repeat them, because every repetition is one level
\* deeper and the height is bounded.  In the end nothing of it is left in any
\* table or buffer.
Settles ==
  (<>[](up \cap Foreign = {}) /\ <>[][FALSE]_up) => <>[]Calm

=============================================================================
