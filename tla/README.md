# CosmicDrop: TLA+ models and proofs

CosmicDrop is an AirDrop implementation for the COSMIC desktop: a panel applet
(`src/src/app.rs`), an AirDrop client and server (`client.rs`, `server.rs`) and an
embedded AWDL daemon (`src/src/awdl/`), a Rust port of the OWL project. This
directory models the parts whose correctness depends on interleavings, lost or
late frames, restarts and small numbers, checks them with TLC and proves the
most important facts with TLAPS.

Source paths begin at the repository's checkout in `src/`, so the Rust files
are `src/src/...`.

## Inventory

| Component | State | Operations | Interacts with |
|---|---|---|---|
| Master election, `awdl/election.rs` | own election state (master, sync master, height, metrics, counters) | `awdl_election_run`, reset, compare | reads the peer table, decides whose sync parameters are used |
| Peer table, `awdl/peers.rs` | map address -> peer (election state, validity facts, last update) | add/refresh, remove old, iterate | written by receive, read by election |
| Receive path, `awdl/rx.rs` | peer table, sync state, counters | parse radiotap/802.11/AWDL frame, one handler per TLV, data and A-MSDU conversion | called by the daemon loop per captured frame |
| Transmit path, `awdl/tx.rs`, `frame.rs` | sequence numbers | build PSF/MIF and data frames | reads election, sync, channel state |
| Synchronisation, `awdl/sync.rs` | availability-window counter and last update | current window, error, update | written by receive, read by channel switch and transmit |
| Channel sequence, `awdl/channel.rs` | own sequence, current channel | encodings, frequency mapping | read by daemon loop |
| Daemon loop and manager, `awdl/mod.rs`, `state.rs`, `io.rs`, `netlink.rs` | timers, context behind a mutex, stop flag, TAP descriptor | start, stop, drop, loop turn | GUI thread starts and stops it |
| Applet, `app.rs` | windows, pages, discovered list, message queues, handles of the background threads | `update` per message, `drain_background` | starts/stops browser, server, AWDL; spawns transfers |
| Browser, `client.rs` | map service -> receiver, stop flag | mDNS events, `/Discover` probe | applet via a channel |
| Sender, `client.rs` | one HTTP transfer | `/Ask`, `/Upload`, response parsing, CPIO archive | remote server |
| Server, `server.rs` | listener, stop flag, connections | bind with retry, accept loop, `/Discover`, `/Ask`, `/Upload` | applet via a channel, remote client |
| Configuration and keys, `config.rs` | key and certificate files | create, load, interface detection | read by client and server |
| Helpers: `util.rs`, `siphash.rs`, `crc32.rs`, `wire.rs` | none | pure functions | everything |

### What is hard here

* **Election over stale announcements.** Each node decides on a table of what it
  heard last; frames wait in the capture buffer, are lost, or announce a device
  that is gone. Cycles and ghosts of departed masters are the risks.
* **Validity of a peer** is spread over three fields that different TLVs and
  frame types set, in a handler that stops at the first TLV it cannot parse.
* **Time** is the wall clock in microseconds, subtracted without sign.
* **Threads of the applet.** Browser, server and AWDL threads are started and
  stopped by flags and talk back through queues; an old thread may still run
  when a new one starts.
* **Partial failures** of start-up (TAP, AWDL, server bind) leave some parts
  running and others not.
* **HTTP over TLS by hand**: bodies of a declared length, end of file, an ask
  and an upload on separate connections.
* **Bytes at literal offsets**: builders fill packed structs, handlers read
  numbers of bytes from literal offsets, and frames may stop anywhere.
* **Files written in two steps**: a certificate and a key that belong together,
  made by applets that may die or run at once.

## Modules

`MC_<M>.tla` only gives values to the constants of `<M>`; `<M>_proofs.tla` holds
its theorems. A definition whose comment begins with *Erroneous* is a plausible
bug that stands next to the definition it would replace; nothing uses it, and
`PROJECT.json` ("mutants") says which property notices it.

```
Election --+-- ElectionScan            AwdlSync     Receiving     Keys
           +-- AwdlMesh                Discovery
           +-- AwdlRx                  Layout ----- Frames
                                       TransferPromise <-- refined by -- Transfer
```

**Election** is `awdl/election.rs` as operators: `Beats` is the three rejections
of the loop taken together, `Eligible` its filters (valid, height, cycle),
`ResetSelf` and `Adopt` the assignments before and after it. `Outcomes(s, C)` is
the abstract promise: the node is its own master, or follows the one candidate
nobody beats. A `u32` has `Word` values, so `height + 1` wraps as it does in the
release build.

**ElectionScan** is one call of `awdl_election_run`: `Reset`, one `Skip` or
`Accept` per visited peer, `Finish`. The table is a `HashMap`, so the next peer
is any that is left. `ScanElects` says that this implements `Outcomes`, which is
what **AwdlMesh** and **AwdlRx** then use as one step.

**AwdlMesh** is the protocol of several daemons. `elec`, `peers` and `inbox` are
each node's `AwdlState.election`, `AwdlState.peers` and capture buffer.
`SendAction` is the PSF or MIF timer, which broadcasts to any subset of the
nodes in range (a frame is lost for the others); `RxAction` handles the oldest
captured frame; `CleanPeers` and `ElectionTimer` are the timers of
`run_daemon_loop`, each with the election it runs; `Tick` ages a table;
`Start`/`Stop` are a daemon's start, stop or crash, which lose everything. A
foreign device announces itself as master with a better metric than any node of
this program has.

**AwdlRx** takes a frame apart: `BeginFrame` (RSSI filter, `peer_add`), one
action per TLV with how many of its fields were readable, `EndFrame` (a MIF
noted, validity recomputed). An unreadable field ends the handler with what it
has stored (`GiveUp`). The daemon's mutex is held for the whole frame, so timers
run only between frames. `hist` is a history variable that the code does not
have; no guard reads it.

**AwdlSync** is `awdl/sync.rs` for a chain of nodes: `Send` builds the sync
parameters of a frame, `Receive` is `awdl_sync_update_last`, `CurrentAw`,
`NextAwTu`, `Slot` and `ErrorTu` are the functions of the same names. A node's
`last_update` is the ticks since then, modulo the cycle of the `u16` counter.
`ClockStep` is somebody who sets the wall clock, ahead or back: the `u64`
difference wraps, and its remainder by the cycle is what counts of it. `synced`
is history; it says who has taken the master's clock since the last step or
restart on the way to it.

**Layout** is the wire format of an action frame, written twice, as the code has
it twice: the structs that `tx.rs` fills, as sequences of fields with their
sizes, and the offsets at which the handlers of `rx.rs` read, with the tests
that refuse a value. **Frames** takes one received frame through `rx.rs` by
those offsets: `RadiotapParse`, `CheckFcs`, `Header`, then `RssiFilter` and
`Tlv` per turn of the loop of `awdl_rx_action`, or `Subframe` per turn of that
of `awdl_rx_data_amsdu`, or `Data`. Where the walk stands on no unit of the
sender, the size it reads is any. What the TLVs do to the table is AwdlRx's
matter. The aggregates and the radiotap headers come from other programs; a
header may be refused, and may declare a length that leaves fields outside
(`Found`).

**Receiving** is the Receive page: `StartServer` and `StartAwdl` are the two
halves of `start_server`, `StopServer` is `stop_server` (by Stop or by closing
the popup), `Joined` the end of the wait for a daemon thread, `Tick` the draining
of the server's channel. A server thread is `Bind`, `SeeStop`, `Shutdown`; a
daemon thread a loop that looks at its flag twice a turn. `Turn`, `Resolved` and
`Switched` are the two netlink requests with which it changes the channel, each
of which waits for the kernel, may fail, and may leave its socket open
(`leaked`); `tuned` is the channel that the code records whether or not the
switch succeeded. Threads are numbered by the start that made them, so an old
one and its successor may run at once. Other programs of the host take and
leave the ports.

**Discovery** is the Send page's list: the GUI side is `StartDiscovery`,
`StopDiscovery`, `Tick`; the browser thread is `ServiceResolved`, `Probed`,
`ServiceRemoved`, `SeeStop`; `Appears` and `Goes` are the services around, which
mDNS reports to every browser that runs. `Message::ScrollSend` is
`StopDiscovery` followed by `StartDiscovery`; that other steps may come in
between only adds behaviours.

**Transfer** has a sender thread per transfer (`Connect`, `Answered`, `Refused`,
`BrokenOff`), a server task per connection (`HandleAsk`, `HandleUpload`, then
`Create` and `Write` for each entry of the archive, then `Unpacked` or
`UnpackFails`, then `Reply`), the network, which may break a connection (`Cut`)
or go silent on it without telling either end (`Silence`), and the receiver's
applet. Each `Start` makes a server with a channel of its own; `listening` is
the one whose channel is `Window.server_rx`. A task tells its events to its own
server's channel (`Tell`), and they reach the window only while that is the one
(`Reaches`): `Drain` takes them to the page at a tick, and `Stop` drops the
channel with what no tick has taken (`stop_server`). The tasks of a stopped
server live on until its accept loop has seen the stop (`SeeStop`); then the
runtime drops each task where it waits (`Drop`) and waits for those that unpack
(`extract_upload` does not await), while the next server may be up.
**TransferPromise** is what all of this promises: of each transfer the sender is
told one ending; the receiver hears, each at most once and in this order, that
it is asked, that it has accepted, and one ending; a stop drops what was not
taken; and the sender is told of success only when the receiver has been told
the ending, or has stopped the server of that upload. Transfer implements it
(`KeepsPromise`): `coming` and `heard` are the channel and the page, `reach` the
transfers whose events the window can still get, `told` what the sender's window
would show.

**Keys** is the certificate and the key of `config.rs`, for any number of
applets: `Start` finds or misses the files, `Open` and `Write` are the two steps
of each `fs::write`, `WriteFails` a full disk, `Dies` the end of an applet
anywhere. `ServerTls` is the loading, in which a text is the sequence of its PEM
markers and bodies, and a block is cut where `load_certs` cuts it.

## Runs

| Run | What it shows | Bounds, and why they are enough |
|---|---|---|
| `scan` | Every table visited in every order ends in the outcome the comparison defines; no call leaves the node above the height limit | Up to three peers, below and above the node, with two values of each compared field and heights up to the last of a `u32` of few values: the comparison has three levels, and a third peer is needed for a best that is replaced and then defended. Proved for all values |
| `mesh_two` | Two nodes that stop, restart, lose frames and read them late never follow each other, and follow only known valid peers | Capture buffers of two frames, so that a stale frame can wait behind another; a timeout of one tick. The full state space; proved for all values |
| `mesh_cycle` | A violation: with a foreign master two nodes follow each other in spite of the filter | The smallest such mesh |
| `mesh_foreign_live` | A departed foreign master's announcements die out, from tables and buffers too, and the nodes settle | Three nodes in a one-way ring, so that an announcement can travel round and come back deeper; trees of height 2, and one height above the limit that does not wrap |
| `rx` | Who is valid, what the table stores, who may be followed and who sets the clock, when frames break off anywhere | One peer with two announcements that differ in every field, so that any mixture is visible, and a second peer to elect against |
| `sync` | Lags are bounded per level over restarts, late frames, wrap-around and a wall clock that is set; nodes in sync share a slot and count no error | Three levels, so that errors could add up; a counter that wraps every 24 ticks; a clock step of 12 ticks (`Jumps`), which is half of a cycle and so ahead and back at once. The `VIEW` takes positions modulo the cycle: nothing that a node derives, and no property, tells more of them apart |
| `receiving` | No server or daemon thread is lost, every one ends, failures are told, a start leaves two sockets at most | Two starts: a predecessor that has not ended, and its successor. Other programs may take the configured port, the next one, or both. The safety properties are proved for any number of starts |
| `receiving_port` | A violation: the new server is advertised with a port it does not listen on | Two starts, nobody else on the host |
| `discovery` | The list follows the browser's map and settles on what is there | One service that stays where it is first seen and one that moves; two changes and two starts: a change may hit the probe of an earlier one, or the old browser while the new one runs |
| `transfer` | What either user is told is what was done, and what was reported is on the disk; together, what TransferPromise promises | Two transfers that share one of two names, each on its two connections; the folder, with two files, is begun first, and only its connections does the network break or silence (`Fragile`). Two starts (`MaxStarts`): a server that was stopped and its successor, with tasks of both |
| `keys` | A violation: the first Start with a pair of files that is whole is refused | Two applets, with no files at first or a whole older pair |
| `frames` | What is read is what was written, and the walks keep step with the sender | The frames of this program with names of no, some, the most and one more than the most characters; aggregates of two and of three sub-frames, with sizes for each padding and below what can be converted; each stopped at every byte. Radiotap headers of one or two present words and any of their fields, whole or refused, and of lengths that end before, at and behind the fields; one frame that is neither management nor data. The lengths are those of the code (16, 4, 64) |

Deadlock is checked for the mesh, the receive path and synchronisation, whose
processes never end; the other systems come to rest when the user does nothing
more, an applet ends or the frame is handled.

## Fairness

* AwdlMesh: `RxAction`, `CleanPeers` and `Tick` are weakly fair, because every
  turn of `run_daemon_loop` drains the capture buffer and serves each timer that
  is due. A link is strongly fair for MIFs: frames are lost, but not all of
  them for ever. Nothing is asked of the separate election timer or of PSFs.
  With `Timely` a tick passes only after every running peer was heard, which
  stands for some nine PSFs a second against a timeout of two seconds.
* Receiving, Discovery, Transfer: threads and tasks that can go on do (the
  operating system and the async runtime schedule them), and the GUI's 120 ms
  timer fires. The user, the services and the network owe nothing, neither that
  they act nor that they stop. Two assumptions are on what the program waits for
  without a timeout: that the kernel answers netlink requests (`GuiResolved`,
  `StartAwdl`, and `Resolved` and `Switched` of a `Daemon`),
  and that a probe of a service ends (`Probed`); `GuiReturns` and
  Discovery's `StopsEventually` would fail without them.
* There is a third wait without a timeout, about which nothing is assumed: the
  sender's for an answer (`src/src/client.rs:220`, `:372`). When the receiver's
  host sleeps or goes out of range nobody closes the connection, and the thread
  waits for ever. Transfer has this (`Silence`), and its two liveness properties
  say so: a transfer ends, and the outcome of the last one is shown, unless its
  connection is silent for ever. `WaitIsServed` is about connections that carry.
  Both are of the form `<>[]`, as a transfer is begun once.
* Where a liveness property speaks of a quiet future (`Settles`, `ListSettles`),
  that is its premise and not a fairness condition.

## Proofs

All theorems are for every value of the constants that the modules' `ASSUME`s
allow; none needs a bound of a run.

| Module | Theorems | Inductive invariant |
|---|---|---|
| ElectionScan | `TypeCorrect`, `HeightIsBounded`, `LoopCorrect`, `ScanCorrect` | `LoopInv` |
| AwdlMesh | `TypeCorrect`, `SyncMasterIsKnown`, `FlatMesh`, `NoCycles`, `CalmStays` | `FlatInv`; `Calm` |
| AwdlRx | `TypeCorrect`, `ValidityEarned`, `ValidityCurrent`, `EntriesWhole`, `MasterIsEarned`, `ClockIsEarned` | `TableSound` |
| AwdlSync | `TypeCorrect`, `LagIsBounded`, `SlotsMeet`, `ErrorIsSmall` | `IInv`: `LagBounded`, `FramesBounded`, `MasterDeaf` |
| Frames | `TypeCorrect`, `WalksInStep`, `ReadsAsWritten` | `WalkInv`, `ReadInv` |
| Receiving | `TypeCorrect`, `ServersOwned`, `DaemonsAreOwned`, `LeftoverOnlyAfterFailure`, `SocketsAreBounded`, `FailureIsKept` | `IInv`: `Handles`, `Leaks`; `Unstopped` |
| Discovery | `TypeCorrect`, `ListFollows`, `QuietListIsWorld` | `IInv`: `Queues`, `Handles`, `ListAgrees`; `MapFollows` |
| Transfer | `TypeCorrect`, `WaitServed`, `SuccessHandled`, `ReportedSaved`, `TransferImplementsPromise` | `IInv`: `ServersOK`, `Served`, `Told`, `Disk` |
| Keys (in Receiving_proofs, under `Pair!`) | `PairTypeCorrect`, `UndisturbedIsWhole`, `PairsStay`, `NobodyServes` | `PairInv` |

* **ElectionScan**: `LoopCorrect` (`LoopInv`: the best so far is not beaten by
  the node or by any visited peer that passed the filters); `ScanCorrect`, from
  the invariant and the lemma that `Beats` is a strict total order on states of
  different addresses, so that the best is unique and the visiting order cannot
  matter. `HeightIsBounded` holds at the wrap of `height + 1` too, because the
  follower adds one with the same wrap.
* **AwdlMesh**: `FlatMesh` and from it `NoCycles`, both under the assumption that
  no foreign device takes part. That there is no cycle is not inductive: an
  election reads announcements of the past. `FlatInv` says of every state that
  a table or a frame holds, however old, that it is a master's own or that of a
  direct follower of a master with a higher address; an election over such
  states yields such a state. A cycle
  would then have to climb in addresses for ever. `mesh_cycle` shows that the
  assumption is needed. `CalmStays` is the safety half of `Settles`. That every
  node follows the highest master it hears is not kept by a step alone: an old
  entry or frame may still unsettle it. `Calm` adds that what the running nodes'
  tables and buffers hold is what neighbours announce now, and that every master
  above a node is a valid peer of it; each election then has one outcome, the
  state the node has (`FlatOutcome`, `CalmElection`). The theorem assumes the
  medium of `Timely` and a timeout of a tick at least, as the run does, and that
  no device starts or stops; that the mesh gets to `Calm` is what the run checks.
* **AwdlRx**: that a valid peer has earned it is not inductive, since the code
  stores validity apart from the facts it comes from: `TableSound` says of every
  entry, in the middle of a frame too, that each stored fact was sent by the
  peer since it was inserted. One lemma for each handler shows that it keeps
  `TableSound`; the election is taken from `Outcomes`, so `MasterIsEarned`
  needs no more than that only valid peers are eligible, and `ClockIsEarned`
  follows, since the handler takes the clock from the sync master alone.
* **Frames**: `WalkInv` says where the walk stands after as many units as it has
  handled: at the start of the next unit, or at the end of the bytes when the
  frame stopped in the padding. That the starts of units increase (`Increasing`)
  is an induction over the units. The library's induction theorems have an
  operator as a parameter; `Induction` says the same of a set and follows from
  `WFMin`. `ReadsAsWritten` compares two texts of the program, the structs
  of `frame.rs` and the literal offsets of `rx.rs`, for every length of the
  channel sequence and of the name: `EndSteps` and `EndRises` are about the sums
  of field sizes, `MeetsOne` says that a read which starts where a field starts
  and is no longer gets that field alone, and one lemma per TLV follows the
  offsets of its handler. Its hypothesis `PresenceMode = 4` is the value that
  `awdl_sync_state_init` sets and that the handler of the channel sequence
  compares with. `ReadInv` adds that a whole action frame of another node is
  never given up on the way, which needs `WalkInv`.
* **AwdlSync**: `LagBounded` is not inductive, because a frame may be old when
  it is handled: `FramesBounded` says of each frame in the air how far behind
  the master it will put its receiver, with the rounding of its level and its
  age. `MasterDeaf` keeps the reference still. All of this is modulo the cycle
  of the counter: `DivModUnique` and `ModShift` are the two facts about
  remainders that everything rests on. A wall clock that is set takes its node
  out of `synced`, and all the others when it is the master's. `SlotsMeet` has no further hypothesis. `ErrorIsSmall` has
  two: the lag of the deepest node is within the threshold, and two EAWs and
  this lag fit into a cycle. With the constants of the code, a threshold of three
  TU, the first asks that one TU and the delay of a frame, for each level, are
  three TU at most: two levels with frames handled within half a TU, or one
  with frames handled within two. It is what the threshold can promise, and a
  slower or deeper mesh may count errors though its nodes are in sync.
* **Discovery**: the list and the map differ while events are under way, and
  between the two halves of a resolved service (the entry is in the map, its
  probe is not answered). `ListAgrees` says that the list with all queued events
  of the window's browser replayed is the map but for that one entry; `Handles`
  that nothing has touched the queues of a browser that is still to start, so
  that an old browser's events never reach the new list. The replay is a
  recursive function over the queue; `ShownExists` proves that there is one and
  `ReplayOneMore` what one more event does to it. `QuietListIsWorld` adds the
  other side, mDNS: `MapFollows` says of each browser that runs that what its map
  or a queued event says of a service, and no later event takes back, is so
  (`News`). One lemma each is about an event that is taken, one that is told, and
  a browser that is new. With the queues empty the list is then the world, which
  is the safety half of `ListSettles`.
* **Receiving**: the strengthening `Handles` relates the two handles of the
  window: a daemon the window holds belongs to the start whose server it holds,
  or to one whose server never ran. For the sockets
  (`Leaks`), a start leaves one open in the window's thread at most, and its
  daemon one, because `tuned` is set whatever comes of the first switch.
  `FailureIsKept` is the safety half of `FailureShown`: a server that the window
  holds was not told to stop (`Unstopped`), so if it has ended its Error was sent,
  and is in the channel until the page has it.
* **Transfer**: the strengthening says which servers there are and which of them
  the window listens to (`ServersOK`), for each transfer which task may serve
  which request (`Served`), which events it has told, wherever they went, and
  that an upload's answer is on its way only after it was handled (`Told`), and
  what is on the disk while a task is in the middle of an archive (`Disk`). It is
  needed because a broken connection lets the sender finish while its task still
  unpacks, and a stop lets the task unpack for a window that no longer listens.
  The refinement needs it for the events, each of which must be the next one
  though the sender may have given up, and for success, which must come after
  the ending was told if the window can still hear of it; a connection maps to
  the abstract meeting of the two, a stop to the abstract stop, other steps to
  their namesakes or to stutters.
* **Keys**: `NobodyServes` turns the finding of the run `keys` into a statement
  about every state: no file, whole, torn or mixed, gets through `load_certs`.
  What the pair would be worth if it did is the other two: it is whole and of
  one origin if no applet died or met another while making it
  (`UndisturbedIsWhole`), and otherwise it stays as it is (`PairsStay`).

Every type and safety invariant of a passing run is the conclusion of a
theorem, and so are the action properties. Model-checked only: everything about
liveness (`Settles`, `StopsEventually`, `GuiReturns`, `FailureShown`,
`ListSettles`, `OutcomeShown`, `EveryTransferEnds`), which
rests on fairness and with it on `ENABLED`, outside the prover's reach; and the
three violations, which are single behaviours.

## Findings

Three runs end in a counterexample, each against a comment of the code:
`mesh_cycle`, `receiving_port`, `keys`; `PROJECT.json` quotes the comments. The
last is the gravest: as long as `load_certs` cuts a certificate two bytes too
late, the Receive page cannot start a server at all. Receiving and Transfer
model what comes after a certificate that loads.

Other disagreements met while reading, which no run is about:

* The height filter wraps: a peer that announces the largest `u32` is adopted,
  although `src/src/awdl/election.rs:117` rejects what would be `too large`. The
  follower's own height wraps to zero as well, so `HeightBounded` holds. (In a
  debug build the addition panics instead.)
* The TAP descriptor is a plain number, so nothing closes it: it outlives the
  daemon whose lifetime `src/src/awdl/mod.rs:107` gives it, and later daemons of
  the same process find the device busy.
* The radiotap parser says that only the fields it steps over matter, `and that
  is sufficient` (`src/src/awdl/rx.rs:81`). A driver that reports the channel puts
  it between the rate and the signal, and the signal read is then the low byte
  of the frequency: on channel 6 (2437 MHz, 0x0985) that is -123 dBm, and every
  action frame is filtered out. A second present word moves the flags too.
  An FHSS field would stand there too. `ReadAsWritten` is about drivers that write
  none of these (`Standard`).
* The EtherType of a data frame is read from the protocol id of the LLC header
  (`src/src/awdl/rx.rs:556`) and not from the field that the AWDL data header
  has for it.
* The builder of data frames, which nothing calls, writes the protocol id and
  the EtherType in host order under comments that say big-endian
  (`src/src/awdl/tx.rs:421`, `:437`).
* The nl80211 family is asked for by a name without its final zero byte
  (`src/src/awdl/netlink.rs:346`).
* Received files are saved to the current directory (`src/src/server.rs:321`),
  where `src/README.md:69` promises `~/.opendrop` or the configured one.
* An upload is answered with 200 though its archive failed to unpack
  (`src/src/server.rs:336`). `SuccessIsHandled` is worded accordingly. When the
  receiver's user presses Stop while it unpacks, the Error goes into a channel
  that `stop_server` has dropped (`src/src/app.rs:546`): the sender reads "Upload
  successful." and the receiver's user reads nothing. Transfer allows that, and
  shows that it is the only way.
* `extract_upload` ignores what `unpack_in` returns (`src/src/server.rs:398`), so
  that an entry it skips because of its name is reported as saved.
  `ReportedIsSaved` leaves such entries out; no archive of this program has one.
* A receiver that moves while it is listed keeps its old address
  (`src/src/client.rs:121`, `or_insert`). `ShowsWorld` excludes it.
* Of several sub-frames of an A-MSDU that can be converted, the code returns the
  last; its comment says the first (`src/src/awdl/rx.rs:671`). `Subframe` has it
  as the code does it. `WalkedAsWritten` says only that one of them is returned
  when there is one, and does not settle which.
* `clock_time_us` is called monotonic and reads the wall clock
  (`src/src/awdl/state.rs:114`); AwdlSync's `ClockStep` is about that.
* `awdl_sync_error_tu` subtracts wrapping counters plainly
  (`src/src/awdl/sync.rs:84`): around a wrap the error is a whole cycle, which
  only counts a measurement. `ErrorSmall` is about counters of the same side.
* The size test of the v2 election TLV expects 39 bytes, the struct has 43
  (`src/src/awdl/frame.rs:408`).

## Abstractions, and what is not modelled

* MAC addresses are naturals in the order in which the code compares them.
  Plists, HTTP headers and archive formats are left out. In Layout and Frames a
  byte is the field it belongs to, and a value is what a reader compares.
* AwdlRx takes a parse as whole or broken off at a field, at any field; Frames
  shows at which bytes that happens.
* Time is ticks, and the clocks of AwdlSync run at one speed. In AwdlMesh ages
  only grow: a clock that is set ahead or back is one that expires early or
  late, which `Tick` and `CleanPeers` allow without `Timely`.
* In Receiving a daemon thread that cannot be spawned is left out (its TAP
  device would stay open like that of any other). Settings do not change.
* The archive's entries, which services exist and whether a probe is answered
  are the environment's choice. TLS, TCP, mDNS, the kernel and the file system
  are external.
* Not modelled, and why: views, icons and file types (presentation); siphash and
  crc32 (standard algorithms without state, for which known answers are the
  better test); the frequency tables (constants); the packet sockets and the
  contents of netlink messages (they go to a kernel that is external, and the
  code looks at nothing but the errors); what the TAP device carries (it is
  read and passed on without state); `/Discover` on the server (it only answers).

## Plan

What is left: the deadlines of `run_daemon_loop` as a module of its own. AwdlMesh
leaves open when a timer is due, which is sound for its safety and assumed, as
fairness, for `Settles`.
