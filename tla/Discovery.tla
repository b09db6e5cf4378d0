------------------------------ MODULE Discovery ------------------------------
(***************************************************************************)
(* The discovery of receivers: the browser thread that follows mDNS and     *)
(* probes every service it finds, and the list the Send page shows          *)
(* (src/src/client.rs AirDropBrowser::start; src/src/app.rs                 *)
(* start_discovery, stop_discovery, drain_background).                      *)
(*                                                                         *)
(* The browser keeps a map of its own under a lock, and tells the GUI about *)
(* changes through a channel; while it waits for the answer to a probe it   *)
(* handles no event and sees no stop.  Every start makes a thread, a map    *)
(* and channels, numbered here by the start.  mDNS and the services are     *)
(* external: services come, move to another address, and go.                *)
(***************************************************************************)
EXTENDS Naturals, Sequences, FiniteSets, SequencesExt

CONSTANTS
  Services,   \* the AirDrop services around, by id
  Addresses,  \* the addresses they may have
  Movers,     \* the services that may change their address while they are there
  AtFirst,    \* where the services may be to begin with
  MaxStarts,  \* bound: how many times discovery starts
  MaxChanges  \* bound: how many times a service comes, moves or goes

Gone == "gone"
ASSUME ServicesAssumption == IsFiniteSet(Services)
ASSUME AddressesAssumption == Gone \notin Addresses
ASSUME AtFirstAssumption == AtFirst \subseteq [Services -> Addresses \cup {Gone}]
ASSUME StartsAssumption == MaxStarts \in Nat
ASSUME ChangesAssumption == MaxChanges \in Nat

VARIABLES
  browser,    \* Window.browser_stop and browser_rx: the start they belong to, or None
  receivers,  \* Window.receivers: the entry shown for each id
  starts,     \* how many starts there were
  task,       \* the browser thread of each start
  stop_sent,  \* the starts with a message in the stop channel
  map,        \* each browser's receivers, by id
  probe,      \* the receiver each browser waits for an answer from
  events,     \* the events in each browser's channel to the GUI
  mdns,       \* the events in the channel from mDNS to each browser
  world,      \* the address of each service, or Gone
  changes     \* how many changes there were

guiVars == <<browser, receivers, starts>>
threadVars == <<task, stop_sent, map, probe, events>>
worldVars == <<world, changes>>
vars == <<guiVars, threadVars, mdns, worldVars>>

None == 0
Starts == 1 .. MaxStarts

(* What an entry says: where the service is, and whether it answered the    *)
(* probe (`name' and `discoverable' are set together).                      *)
Entry == [address : Addresses, discoverable : BOOLEAN]
Resolved(s, a) == [kind |-> "resolved", id |-> s, address |-> a]
Lost(s) == [kind |-> "lost", id |-> s]
Found(s, e) == [kind |-> "found", id |-> s, entry |-> e]
Removed(s) == [kind |-> "removed", id |-> s]

Nothing == [s \in {} |-> None]
With(f, s, e) == [t \in DOMAIN f \cup {s} |-> IF t = s THEN e ELSE f[t]]
Without(f, s) == [t \in DOMAIN f \ {s} |-> f[t]]

Init ==
  /\ browser = None /\ receivers = Nothing /\ starts = 0
  /\ task = [n \in Starts |-> "none"] /\ stop_sent = {}
  /\ map = [n \in Starts |-> Nothing]
  /\ probe = [n \in Starts |-> <<>>]
  /\ events = [n \in Starts |-> <<>>]
  /\ mdns = [n \in Starts |-> <<>>]
  /\ world \in AtFirst
  /\ changes = 0

-----------------------------------------------------------------------------
(* The GUI thread. *)

(* mDNS tells a new browser of the services that are there, in any order.   *)
Present == {s \in Services : world[s] # Gone}
Answers == {[i \in DOMAIN q |-> Resolved(q[i], world[q[i]])] : q \in SetToSeqs(Present)}

(* start_discovery: Message::Page(Send) without a browser. *)
StartDiscovery ==
  /\ browser = None /\ starts < MaxStarts
  /\ starts' = starts + 1
  /\ browser' = starts'
  /\ task' = [task EXCEPT ![starts'] = "loop"]
  /\ receivers' = Nothing
  /\ \E q \in Answers : mdns' = [mdns EXCEPT ![starts'] = q]
  /\ UNCHANGED <<stop_sent, map, probe, events, worldVars>>

(* stop_discovery: Message::PopupClosed, and the first half of ScrollSend.  *)
(* The list stays as it is; the channel goes with its receiver.             *)
StopDiscovery ==
  /\ browser # None
  /\ stop_sent' = stop_sent \cup {browser}
  /\ browser' = None
  /\ events' = [events EXCEPT ![browser] = <<>>]
  /\ UNCHANGED <<receivers, starts, task, map, probe, mdns, worldVars>>

\* Erroneous: an entry that is listed is not replaced.
ApplyNewOnly(list, ev) ==
  IF ev.kind = "found"
    THEN IF ev.id \in DOMAIN list THEN list ELSE With(list, ev.id, ev.entry)
    ELSE Without(list, ev.id)

(* One event of the browser, as drain_background takes it. *)
Apply(list, ev) ==
  IF ev.kind = "found" THEN With(list, ev.id, ev.entry) ELSE Without(list, ev.id)
Replay(list, evs) ==
  LET shown[i \in 0 .. Len(evs)] == IF i = 0 THEN list ELSE Apply(shown[i - 1], evs[i])
  IN shown[Len(evs)]

(* Message::Tick. *)
Tick ==
  /\ browser # None /\ events[browser] # <<>>
  /\ receivers' = Replay(receivers, events[browser])
  /\ events' = [events EXCEPT ![browser] = <<>>]
  /\ UNCHANGED <<browser, starts, task, stop_sent, map, probe, mdns, worldVars>>

-----------------------------------------------------------------------------
(* The browser thread of start n. *)

Send(n, ev) == IF browser = n THEN [events EXCEPT ![n] = Append(@, ev)] ELSE events

\* Erroneous: the stop channel is not looked at.
EndTurnLooping(n, m, q) ==
  /\ task' = [task EXCEPT ![n] = "loop"]
  /\ map' = [map EXCEPT ![n] = m] /\ mdns' = [mdns EXCEPT ![n] = q]

(* A turn ends with a look at the stop channel; what the thread had, the    *)
(* map m and the queue q, goes with it.                                     *)
EndTurn(n, m, q) ==
  LET stop == n \in stop_sent IN
    /\ task' = [task EXCEPT ![n] = IF stop THEN "ended" ELSE "loop"]
    /\ map' = [map EXCEPT ![n] = IF stop THEN Nothing ELSE m]
    /\ mdns' = [mdns EXCEPT ![n] = IF stop THEN <<>> ELSE q]

\* Erroneous: the address replaced, but nothing inserted.
OrInsertKnown(f, s, e) == [t \in DOMAIN f |-> IF t = s THEN e ELSE f[t]]

(* ServiceResolved: an entry the map has already keeps its address; the     *)
(* probe goes to the new one.                                               *)
OrInsert(f, s, e) == IF s \in DOMAIN f THEN f ELSE With(f, s, e)

ServiceResolved(n) ==
  /\ task[n] = "loop" /\ mdns[n] # <<>> /\ Head(mdns[n]).kind = "resolved"
  /\ LET ev == Head(mdns[n])
         e == [address |-> ev.address, discoverable |-> FALSE] IN
       /\ map' = [map EXCEPT ![n] = OrInsert(@, ev.id, e)]
       /\ probe' = [probe EXCEPT ![n] = <<ev.id, ev.address>>]
  /\ mdns' = [mdns EXCEPT ![n] = Tail(@)]
  /\ task' = [task EXCEPT ![n] = "probe"]
  /\ UNCHANGED <<guiVars, stop_sent, events, worldVars>>

(* The probe ends, with a name when a service at that address gave one: the *)
(* entry is completed and a copy goes to the GUI.                           *)
Probed(n) ==
  /\ task[n] = "probe"
  /\ \E ok \in BOOLEAN :
       LET s == probe[n][1]
           e == [map[n][s] EXCEPT !.discoverable = ok] IN
         /\ ok => world[s] = probe[n][2]
         /\ EndTurn(n, With(map[n], s, e), mdns[n])
         /\ events' = Send(n, Found(s, e))
  /\ probe' = [probe EXCEPT ![n] = <<>>]
  /\ UNCHANGED <<guiVars, stop_sent, worldVars>>

\* Erroneous: the GUI is not told.
ServiceRemovedQuietly(n) ==
  /\ task[n] = "loop" /\ mdns[n] # <<>> /\ Head(mdns[n]).kind = "lost"
  /\ EndTurn(n, Without(map[n], Head(mdns[n]).id), Tail(mdns[n]))
  /\ UNCHANGED <<guiVars, stop_sent, probe, events, worldVars>>

\* Erroneous: the map keeps the entry.
ServiceRemovedMapKept(n) ==
  /\ task[n] = "loop" /\ mdns[n] # <<>> /\ Head(mdns[n]).kind = "lost"
  /\ events' = Send(n, Removed(Head(mdns[n]).id))
  /\ EndTurn(n, map[n], Tail(mdns[n]))
  /\ UNCHANGED <<guiVars, stop_sent, probe, worldVars>>

ServiceRemoved(n) ==
  /\ task[n] = "loop" /\ mdns[n] # <<>> /\ Head(mdns[n]).kind = "lost"
  /\ LET s == Head(mdns[n]).id IN
       /\ EndTurn(n, Without(map[n], s), Tail(mdns[n]))
       /\ events' = Send(n, Removed(s))
  /\ UNCHANGED <<guiVars, stop_sent, probe, worldVars>>

(* A turn that finds no event. *)
SeeStop(n) ==
  /\ task[n] = "loop" /\ mdns[n] = <<>> /\ n \in stop_sent
  /\ EndTurn(n, map[n], <<>>)
  /\ UNCHANGED <<guiVars, stop_sent, probe, events, worldVars>>

-----------------------------------------------------------------------------
(* Outside: a service comes, is announced again or moves, or goes;       *)
(* mDNS tells every browser whose thread still runs.                        *)

Tell(ev) == mdns' = [n \in Starts |-> IF task[n] \in {"loop", "probe"}
                                        THEN Append(mdns[n], ev) ELSE mdns[n]]
Change(s, a) ==
  /\ changes < MaxChanges /\ changes' = changes + 1
  /\ world' = [world EXCEPT ![s] = a]
  /\ UNCHANGED <<guiVars, threadVars>>

Appears(s) ==
  \E a \in Addresses :
    /\ world[s] \in {Gone, a} \/ s \in Movers
    /\ Change(s, a) /\ Tell(Resolved(s, a))
Goes(s) == world[s] # Gone /\ Change(s, Gone) /\ Tell(Lost(s))

-----------------------------------------------------------------------------
Browser(n) == ServiceResolved(n) \/ Probed(n) \/ ServiceRemoved(n) \/ SeeStop(n)

Next ==
  \/ StartDiscovery \/ StopDiscovery \/ Tick
  \/ \E n \in Starts : Browser(n)
  \/ \E s \in Services : Appears(s) \/ Goes(s)

Spec == Init /\ [][Next]_vars

(* The thread runs, a probe ends (the client has no timeout of its own),    *)
(* and the GUI's timer fires.                                               *)
Fairness == WF_vars(Tick) /\ \A n \in Starts : WF_vars(Browser(n))
FairSpec == Spec /\ Fairness

-----------------------------------------------------------------------------
(* Properties *)

IsEntries(f) == DOMAIN f \subseteq Services /\ \A s \in DOMAIN f : f[s] \in Entry

TypeOK ==
  /\ browser \in {None} \cup Starts /\ IsEntries(receivers) /\ starts \in 0 .. MaxStarts
  /\ task \in [Starts -> {"none", "loop", "probe", "ended"}] /\ stop_sent \in SUBSET Starts
  /\ DOMAIN map = Starts
  /\ \A n \in Starts :
       /\ IsEntries(map[n])
       /\ task[n] = "probe" => probe[n] \in Services \X Addresses /\ probe[n][1] \in DOMAIN map[n]
       /\ task[n] # "probe" => probe[n] = <<>>
  /\ world \in [Services -> Addresses \cup {Gone}] /\ changes \in 0 .. MaxChanges

(* What the GUI will show when it has taken all events of its browser is    *)
(* the browser's map, but for the receiver that is being probed for the     *)
(* first time: the list shows no receiver of an earlier discovery and none  *)
(* that was removed, and it shows every entry as the map has it             *)
(* (client.rs AirDropBrowser::start; app.rs drain_background).              *)
ListFollowsMap ==
  browser # None =>
    LET list == Replay(receivers, events[browser])
        own == map[browser] IN
      /\ DOMAIN list \subseteq DOMAIN own
      /\ \A s \in DOMAIN list : list[s] = own[s]
      /\ \A s \in DOMAIN own \ DOMAIN list : task[browser] = "probe" /\ probe[browser][1] = s

(* When no event is under way, from mDNS or to the window, the list shows   *)
(* the services that are there and no others, each where it is if it never  *)
(* moved while it was there: an entry keeps the address it was first        *)
(* resolved with (client.rs AirDropBrowser::start).                         *)
ShowsWorld ==
  /\ DOMAIN receivers = Present
  /\ \A s \in Present \ Movers : receivers[s].address = world[s]
Quiet ==
  browser # None /\ task[browser] = "loop" /\ mdns[browser] = <<>> /\ events[browser] = <<>>
QuietShowsWorld == Quiet => ShowsWorld

(* Once services stay as they are and the discovery goes on, the list comes *)
(* to show them.                                                            *)
ListSettles ==
  <>[](browser # None) => <>[]ShowsWorld

(* A browser that was told to stop ends, though it does not look while it   *)
(* waits for a probe.                                                       *)
StopsEventually == \A n \in Starts : (n \in stop_sent) ~> (task[n] = "ended")
=============================================================================
