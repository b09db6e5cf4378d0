------------------------------ MODULE AwdlSync ------------------------------
(***************************************************************************)
(* Availability windows: how the nodes of a sync tree keep their schedules *)
(* together (src/src/awdl/sync.rs, the sync parameters TLV of tx.rs and    *)
(* rx.rs, and the slot that mod.rs switches the channel by).               *)
(*                                                                         *)
(* Windows (AW) of AwPeriod time units (TU) are counted by a u16; Presence *)
(* of them are an extended window (EAW).  A node keeps the counter and the *)
(* time of an EAW's beginning, and derives everything else from its clock. *)
(* A sync frame carries the sender's counter and the whole TUs to the next *)
(* EAW; the receiver subtracts them from the time at which it handles the  *)
(* frame.                                                                  *)
(*                                                                         *)
(* last_update, an absolute time, is modelled by "since", the ticks (Tu to *)
(* the TU) from it to the present, modulo the Cycle of the u16 counter:    *)
(* nothing that a node derives depends on more.                            *)
(*                                                                         *)
(* The tree is a chain: node 0 is the master and n follows n - 1.          *)
(***************************************************************************)
EXTENDS Integers

CONSTANTS
  Depth,        \* the deepest node
  Tu,           \* ticks per TU (1024 us in the code)
  AwPeriod,     \* aw_period: TUs per window (16 in the code)
  Presence,     \* presence_mode: windows per EAW (4 in the code)
  SeqLength,    \* AWDL_CHANSEQ_LENGTH (16 in the code)
  CounterWord,  \* the number of values of the u16 window counter (2^16)
  Threshold,    \* AWDL_SYNC_THRESHOLD (3 in the code)
  MaxDelay,     \* assumption: ticks from building a frame to handling it
  Jumps         \* bound: the ticks by which a clock may be set, modulo Cycle

Eaw == Presence * AwPeriod
Cycle == CounterWord * AwPeriod * Tu

ASSUME SyncAssumption ==
  /\ Depth \in Nat /\ MaxDelay \in Nat /\ Threshold \in Nat
  /\ {Tu, AwPeriod, Presence, SeqLength, CounterWord} \subseteq Nat \ {0}
  /\ CounterWord % (Presence * SeqLength) = 0
  /\ Jumps \subseteq 0 .. Cycle - 1

Node == 0 .. Depth

VARIABLES
  since,       \* since[n]: ticks since AwdlSyncState.last_update of node n
  aw_counter,  \* AwdlSyncState.aw_counter of each node
  air,         \* air[n]: the frame of n - 1 that n has not handled, or NoFrame
  synced       \* history: the nodes whose schedule derives from the master's

vars == <<since, aw_counter, air, synced>>

NoFrame == [tx_down |-> 0, next_aw_seq |-> 0, age |-> 0, synced |-> FALSE]
Frame ==
  [ tx_down : 1 .. Eaw, next_aw_seq : 0 .. CounterWord - 1, age : 0 .. MaxDelay,
    synced : BOOLEAN ]

TypeOK ==
  /\ since \in [Node -> 0 .. Cycle - 1]
  /\ aw_counter \in [Node -> 0 .. CounterWord - 1]
  /\ \A n \in Node : aw_counter[n] % Presence = 0
  /\ air \in [Node -> Frame \cup {NoFrame}]
  /\ synced \subseteq Node /\ 0 \in synced

Init ==
  /\ since = [n \in Node |-> 0]
  /\ aw_counter = [n \in Node |-> 0]
  /\ air = [n \in Node |-> NoFrame]
  /\ synced = {0}

(***************************************************************************)
(* What a node derives from its schedule.                                  *)
(***************************************************************************)

SinceTu(n) == since[n] \div Tu

\* awdl_sync_next_aw_tu
NextAwTu(n) == Eaw - (SinceTu(n) % Eaw)

\* Erroneous: the windows of past EAWs not counted.
CurrentAwOfEaw(n) == (aw_counter[n] + (SinceTu(n) % Eaw) \div AwPeriod) % CounterWord

\* awdl_sync_current_aw
CurrentAw(n) ==
  ( aw_counter[n] + (SinceTu(n) % Eaw) \div AwPeriod
                  + Presence * (SinceTu(n) \div Eaw) ) % CounterWord

\* awdl_sync_current_eaw, and the slot of the channel sequence it selects.
CurrentEaw(n) == CurrentAw(n) \div Presence
Slot(n) == CurrentEaw(n) % SeqLength

RemoteEaw(frame) == frame.next_aw_seq \div Presence

\* Erroneous: the sign of the second difference.
ErrorTuSum(n, frame) ==
  (RemoteEaw(frame) - CurrentEaw(n)) * Eaw + (frame.tx_down - NextAwTu(n))

\* awdl_sync_error_tu
ErrorTu(n, frame) ==
  (RemoteEaw(frame) - CurrentEaw(n)) * Eaw - (frame.tx_down - NextAwTu(n))

\* The measurement that meas_err counts.
Counted(n, frame) == ErrorTu(n, frame) > Threshold \/ ErrorTu(n, frame) < -Threshold

(***************************************************************************)
(* Steps.                                                                  *)
(***************************************************************************)

Tick ==
  /\ \A n \in Node : air[n] # NoFrame => air[n].age < MaxDelay
  /\ since' = [n \in Node |-> (since[n] + 1) % Cycle]
  /\ air' = [n \in Node |-> IF air[n] = NoFrame THEN NoFrame ELSE [air[n] EXCEPT !.age = @ + 1]]
  /\ UNCHANGED <<aw_counter, synced>>

\* n - 1 builds a frame that n will capture.
Send(n) ==
  /\ n > 0
  /\ air[n] = NoFrame
  /\ air' = [air EXCEPT ![n] = [tx_down |-> NextAwTu(n - 1), next_aw_seq |-> CurrentAw(n - 1),
                                age |-> 0, synced |-> n - 1 \in synced]]
  /\ UNCHANGED <<since, aw_counter, synced>>

\* Erroneous: the window of the frame stored with the beginning of its EAW.
MaskNone(counter) == counter

\* aw_counter & 0xfffc: the first window of the EAW.
Mask(counter) == counter - (counter % Presence)

\* awdl_handle_sync_params_tlv with awdl_sync_update_last.
Receive(n) ==
  /\ air[n] # NoFrame
  /\ since' = [since EXCEPT ![n] = (Eaw - air[n].tx_down) * Tu]
  /\ aw_counter' = [aw_counter EXCEPT ![n] = Mask(air[n].next_aw_seq)]
  /\ synced' = IF air[n].synced THEN synced \cup {n} ELSE synced \ {n}
  /\ air' = [air EXCEPT ![n] = NoFrame]

\* AwdlSyncState::new: a node that restarts begins a schedule of its own, and
\* when it is the master nobody's schedule derives from the new one yet.
Restart(n) ==
  /\ since' = [since EXCEPT ![n] = 0]
  /\ aw_counter' = [aw_counter EXCEPT ![n] = 0]
  /\ IF n = 0
     THEN synced' = {0} /\ air' = [m \in Node |-> [air[m] EXCEPT !.synced = FALSE]]
     ELSE synced' = synced \ {n} /\ air' = [air EXCEPT ![n] = NoFrame]

\* clock_time_us reads the wall clock, which someone may set to any time, ahead
\* or back, while a frame waits: the u64 difference to last_update wraps, and
\* what counts of it is its remainder by the Cycle.
ClockStep(n) ==
  /\ \E jump \in Jumps : since' = [since EXCEPT ![n] = (@ + jump) % Cycle]
  /\ UNCHANGED aw_counter
  /\ IF n = 0
     THEN synced' = {0} /\ air' = [m \in Node |-> [air[m] EXCEPT !.synced = FALSE]]
     ELSE synced' = synced \ {n} /\ UNCHANGED air

Next == Tick \/ \E n \in Node : Send(n) \/ Receive(n) \/ Restart(n) \/ ClockStep(n)

Spec == Init /\ [][Next]_vars

(***************************************************************************)
(* Properties.                                                             *)
(***************************************************************************)

\* Where node n is in the cycle of the window counter, in ticks.
Position(n) == aw_counter[n] * AwPeriod * Tu + since[n]

\* How far node n is behind the master.
Lag(n) == (Position(0) - Position(n)) % Cycle

\* Every level loses less than a TU to the rounding of tx_down, and the delay
\* of the frame.
MaxLag(n) == n * (Tu - 1 + MaxDelay)

\* A node whose schedule derives from the master's, by however many frames and
\* over nodes that synchronise again in between, is never ahead of the master,
\* and behind it by a bound that depends on its level only: errors do not add
\* up over time, and the wrap-around of the counter does no harm.
LagBounded == \A n \in synced : Lag(n) <= MaxLag(n)

\* Such nodes are on the master's channel: from MaxLag after an EAW begins to
\* its end both select the same slot of the channel sequence.
SlotsAgree ==
  \A n \in synced : Position(0) % (Eaw * Tu) >= MaxLag(n) => Slot(n) = Slot(0)

\* A measurement between two nodes that derive their schedules from the master
\* is not counted as an error.
InSync(n) == n \in synced /\ air[n].synced
NoFalseError ==
  [][\A n \in Node : Receive(n) /\ InSync(n) => ~ Counted(n, air[n])]_vars

\* The same, as long as the counters of the two are on the same side of the
\* wrap-around.
SameSide(n) == RemoteEaw(air[n]) - CurrentEaw(n) \in {-1, 0, 1}
ErrorSmall ==
  [][\A n \in Node : Receive(n) /\ InSync(n) /\ SameSide(n) => ~ Counted(n, air[n])]_vars

=============================================================================
