------------------------------ MODULE Receiving ------------------------------
(***************************************************************************)
(* The receiving half of the applet: what Start and Stop on the Receive     *)
(* page, and closing the popup, do to the AirDrop server and to the AWDL    *)
(* daemon (src/src/app.rs start_server, stop_server, drain_background;      *)
(* src/src/server.rs AirDropServer::start; src/src/awdl/mod.rs start, stop, *)
(* drop).                                                                   *)
(*                                                                         *)
(* The GUI thread handles one message at a time, and within a message it    *)
(* may wait for a daemon thread to end.  Every start makes a server thread  *)
(* and a daemon thread, numbered here by the start that made them; a server *)
(* that was told to stop still runs, and holds its port, until it looks.    *)
(* The conversations with clients are the subject of Transfer.              *)
(***************************************************************************)
EXTENDS Naturals, Sequences, FiniteSets

CONSTANTS
  MaxStarts,  \* bound: how many times the user presses Start
  Port,       \* config.port
  Takers      \* the ports that other programs of the host may take

ASSUME StartsAssumption == MaxStarts \in Nat
ASSUME PortAssumption == Port \in Nat \ {0}
ASSUME TakersAssumption == Takers \subseteq {Port, Port + 1}

VARIABLES
  server,     \* Window.server_stop and server_rx: the start they belong to, or None
  running,    \* Window.server_running
  awdl,       \* Window.awdl: the start it belongs to, or None
  gui,        \* where the GUI thread is
  joining,    \* the daemon thread the GUI waits for, or None
  starts,     \* how many starts there were
  shown,      \* the starts whose server's Error is in receive_messages
  task,       \* the server thread of each start
  stop_sent,  \* the starts with a message in the stop channel
  port,       \* the port each server thread listens on, or None
  events,     \* the events in each server's channel to the GUI
  daemon,     \* the daemon thread of each start
  stop_flag,  \* the starts whose daemon's stop flag is set
  tap,        \* the start whose daemon got the TAP device, or None
  tuned,      \* the starts whose daemon takes the sequence's channel for current
  leaked,     \* how many netlink sockets were left open
  others      \* the ports other programs listen on

guiVars == <<server, running, awdl, gui, joining, starts, shown>>
serverVars == <<task, stop_sent, port, events>>
netVars == <<tuned, leaked>>
daemonVars == <<daemon, stop_flag, tap, netVars>>
vars == <<guiVars, serverVars, daemonVars, others>>

None == 0
Starts == 1 .. MaxStarts
\* Erroneous: the wrong port tried next.
PortsOffByOne == {Port, Port + 2}
Ports == {Port, Port + 1}
TaskStates == {"none", "bind", "accept", "closing", "ended"}
DaemonStates == {"none", "loop", "turn", "resolve", "set", "ended"}
Alive == {"loop", "turn", "resolve", "set"}

Init ==
  /\ server = None /\ running = FALSE /\ awdl = None
  /\ gui = "idle" /\ joining = None /\ starts = 0 /\ shown = {}
  /\ task = [n \in Starts |-> "none"]
  /\ stop_sent = {}
  /\ port = [n \in Starts |-> None]
  /\ events = [n \in Starts |-> <<>>]
  /\ daemon = [n \in Starts |-> "none"]
  /\ stop_flag = {} /\ tap = None /\ tuned = {} /\ leaked = 0
  /\ others \in SUBSET Takers

-----------------------------------------------------------------------------
(* The GUI thread. *)

(* start_server, first half: AirDropServer::start registers the service     *)
(* over mDNS and spawns the thread, or fails (no certificate, no IPv6       *)
(* address on the interface).  Either way the AWDL half follows.            *)
StartServer ==
  /\ gui = "idle" /\ ~running /\ starts < MaxStarts
  /\ starts' = starts + 1
  /\ \/ /\ server' = starts' /\ running' = TRUE
        /\ task' = [task EXCEPT ![starts'] = "bind"]
     \/ UNCHANGED <<server, running, task>>
  /\ gui' = "awdl"
  /\ UNCHANGED <<awdl, joining, shown, stop_sent, port, events, daemonVars, others>>

(* awdl::start cannot open packet I/O on the interface. *)
AwdlUnavailable ==
  /\ gui = "awdl"
  /\ gui' = "idle"
  /\ UNCHANGED <<server, running, awdl, joining, starts, shown, serverVars, daemonVars, others>>

\* Erroneous: the end of the daemon is not waited for.
StopAwdlNoJoin(n) ==
  /\ stop_flag' = stop_flag \cup ({n} \ {None})
  /\ joining' = None /\ gui' = "idle"

\* Erroneous: the flag is not set.
StopAwdlNoFlag(n) ==
  /\ stop_flag' = stop_flag /\ joining' = n
  /\ gui' = IF n = None THEN "idle" ELSE "join"

(* The wait of Awdl::stop and of its Drop: the flag, then the join.         *)
StopAwdl(n) ==
  /\ stop_flag' = stop_flag \cup ({n} \ {None})
  /\ joining' = n
  /\ gui' = IF n = None THEN "idle" ELSE "join"

(* open_tun gets the TAP device when no descriptor of the process holds it; *)
(* without the privileges, or while one does, the daemon goes without.      *)
OpenTun(n) == tap' \in IF tap = None THEN {None, n} ELSE {tap}

(* start_server, second half: awdl::start opens the TAP device and sets the *)
(* channel, for which the GUI thread itself waits for the kernel.           *)
OpenAwdl ==
  /\ gui = "awdl"
  /\ OpenTun(starts)
  /\ gui' = "resolve"
  /\ UNCHANGED <<server, running, awdl, joining, starts, shown, serverVars, daemon, stop_flag,
                 netVars, others>>

(* genl_resolve_family has the id of nl80211. *)
GuiResolved ==
  /\ gui = "resolve" /\ gui' = "set"
  /\ UNCHANGED <<server, running, awdl, joining, starts, shown, serverVars, daemonVars, others>>

(* set_channel returns.  When the family is not resolved it returns before  *)
(* the socket is closed, if there was one; from there on it closes it.      *)
SetChannelReturns(state) ==
  \/ state = "resolve" /\ leaked' \in {leaked, leaked + 1}
  \/ state = "set" /\ UNCHANGED leaked

(* Whether the channel could be set or not the new daemon runs, and storing *)
(* its handle drops the one that was there.                                 *)
StartAwdl ==
  /\ SetChannelReturns(gui)
  /\ daemon' = [daemon EXCEPT ![starts] = "loop"]
  /\ awdl' = starts
  /\ StopAwdl(awdl)
  /\ UNCHANGED <<server, running, starts, shown, tap, tuned, serverVars, others>>

\* Erroneous: the handle is dropped without a message.
StopServerNoSend ==
  /\ gui = "idle"
  /\ server' = None /\ running' = FALSE /\ awdl' = None
  /\ StopAwdl(awdl)
  /\ UNCHANGED <<starts, shown, serverVars, daemon, tap, netVars, others>>

\* Erroneous: the daemon is left running.
StopServerAlone ==
  /\ gui = "idle"
  /\ stop_sent' = stop_sent \cup ({server} \ {None})
  /\ server' = None /\ running' = FALSE
  /\ UNCHANGED <<awdl, gui, joining, starts, shown, task, port, events, daemonVars, others>>

(* stop_server. *)
StopServer ==
  /\ gui = "idle"
  /\ stop_sent' = stop_sent \cup ({server} \ {None})
  /\ server' = None /\ running' = FALSE
  /\ awdl' = None
  /\ StopAwdl(awdl)
  /\ UNCHANGED <<starts, shown, task, port, events, daemon, tap, netVars, others>>

(* Stop on the Receive page, and Message::PopupClosed. *)
ToggleOff == running /\ StopServer

Joined ==
  /\ gui = "join" /\ daemon[joining] = "ended"
  /\ gui' = "idle" /\ joining' = None
  /\ UNCHANGED <<server, running, awdl, starts, shown, serverVars, daemonVars, others>>

(* Message::Tick: drain_background empties the channel of the server. *)
Tick ==
  /\ gui = "idle" /\ server # None /\ events[server] # <<>>
  /\ shown' = shown \cup {n \in {server} : \E i \in DOMAIN events[n] : events[n][i] = "Error"}
  /\ events' = [events EXCEPT ![server] = <<>>]
  /\ UNCHANGED <<server, running, awdl, gui, joining, starts, task, stop_sent, port,
                 daemonVars, others>>

-----------------------------------------------------------------------------
(* The server thread of start n. *)

Free(p) == p \notin others /\ \A n \in Starts : port[n] # p

(* A channel whose receiver was dropped takes no more events. *)
Sent(n, es) == IF server = n THEN [events EXCEPT ![n] = @ \o es] ELSE events

(* bind_with_retry: the configured port, or the one after it. *)
Bind(n) ==
  /\ task[n] = "bind"
  /\ \E p \in Ports :
       /\ Free(p) /\ (p = Port \/ ~Free(Port))
       /\ port' = [port EXCEPT ![n] = p]
  /\ task' = [task EXCEPT ![n] = "accept"]
  /\ events' = Sent(n, <<"Start">>)
  /\ UNCHANGED <<guiVars, stop_sent, daemonVars, others>>

\* Erroneous: no Error is sent.
BindFailsSilently(n) ==
  /\ task[n] = "bind" /\ \A p \in Ports : ~Free(p)
  /\ task' = [task EXCEPT ![n] = "closing"]
  /\ events' = Sent(n, <<"Start">>)
  /\ UNCHANGED <<guiVars, stop_sent, port, daemonVars, others>>

BindFails(n) ==
  /\ task[n] = "bind" /\ \A p \in Ports : ~Free(p)
  /\ task' = [task EXCEPT ![n] = "closing"]
  /\ events' = Sent(n, <<"Start", "Error">>)
  /\ UNCHANGED <<guiVars, stop_sent, port, daemonVars, others>>

\* Erroneous: the listener is kept.
SeeStopLeak(n) ==
  /\ task[n] = "accept" /\ n \in stop_sent
  /\ task' = [task EXCEPT ![n] = "closing"]
  /\ UNCHANGED <<guiVars, stop_sent, port, events, daemonVars, others>>

(* The accept loop looks at the stop channel between two waits of 100 ms;   *)
(* with the runtime the listener goes.                                      *)
SeeStop(n) ==
  /\ task[n] = "accept" /\ n \in stop_sent
  /\ task' = [task EXCEPT ![n] = "closing"]
  /\ port' = [port EXCEPT ![n] = None]
  /\ UNCHANGED <<guiVars, stop_sent, events, daemonVars, others>>

(* The service is withdrawn from mDNS, and the thread ends. *)
Shutdown(n) ==
  /\ task[n] = "closing"
  /\ task' = [task EXCEPT ![n] = "ended"]
  /\ UNCHANGED <<guiVars, stop_sent, port, events, daemonVars, others>>

-----------------------------------------------------------------------------
(* The daemon thread of start n. *)

Goes(n, from, to) ==
  /\ daemon[n] = from
  /\ daemon' = [daemon EXCEPT ![n] = to]
Step(n, from, to) ==
  /\ Goes(n, from, to)
  /\ UNCHANGED <<guiVars, serverVars, stop_flag, tap, netVars, others>>

(* The two looks at the flag, at the head of the loop and after the sleep. *)
DaemonEnds(n) == n \in stop_flag /\ Step(n, "loop", "ended")
DaemonGoesOn(n) == n \notin stop_flag /\ Step(n, "loop", "turn")

(* A turn switches the channel when the current one is not the slot's; the  *)
(* sequence has one channel in all slots.                                   *)
Turn(n) == Step(n, "turn", "loop") \/ (n \notin tuned /\ Step(n, "turn", "resolve"))
Resolved(n) == Step(n, "resolve", "set")

\* Erroneous: the channel becomes current only when the switch succeeded.
SwitchedIfSet(n) ==
  /\ SetChannelReturns(daemon[n])
  /\ Goes(n, daemon[n], "loop")
  /\ tuned' = IF daemon[n] = "set" THEN tuned \cup {n} ELSE tuned
  /\ UNCHANGED <<guiVars, serverVars, stop_flag, tap, others>>

(* The switch is over, and the channel is current, set or not. *)
Switched(n) ==
  /\ SetChannelReturns(daemon[n])
  /\ Goes(n, daemon[n], "loop")
  /\ tuned' = tuned \cup {n}
  /\ UNCHANGED <<guiVars, serverVars, stop_flag, tap, others>>

-----------------------------------------------------------------------------
(* Other programs of the host, a second applet among them. *)

OtherListens ==
  \E p \in Takers :
    /\ Free(p) /\ others' = others \cup {p}
    /\ UNCHANGED <<guiVars, serverVars, daemonVars>>

OtherCloses ==
  \E p \in others :
    /\ others' = others \ {p}
    /\ UNCHANGED <<guiVars, serverVars, daemonVars>>

-----------------------------------------------------------------------------
User == StartServer \/ ToggleOff
Gui == AwdlUnavailable \/ OpenAwdl \/ GuiResolved \/ StartAwdl \/ Joined \/ Tick
Server(n) == Bind(n) \/ BindFails(n) \/ SeeStop(n) \/ Shutdown(n)
Daemon(n) == DaemonEnds(n) \/ DaemonGoesOn(n) \/ Turn(n) \/ Resolved(n) \/ Switched(n)

Next ==
  \/ User \/ Gui
  \/ \E n \in Starts : Server(n) \/ Daemon(n)
  \/ OtherListens \/ OtherCloses

Spec == Init /\ [][Next]_vars

(* Threads run, the GUI's timer fires, and the kernel answers. *)
Fairness ==
  /\ WF_vars(AwdlUnavailable \/ OpenAwdl) /\ WF_vars(GuiResolved \/ StartAwdl) /\ WF_vars(Joined) /\ WF_vars(Tick)
  /\ \A n \in Starts : WF_vars(Server(n)) /\ WF_vars(Daemon(n))
FairSpec == Spec /\ Fairness

-----------------------------------------------------------------------------
(* Properties *)

TypeOK ==
  /\ server \in {None} \cup Starts /\ running \in BOOLEAN
  /\ awdl \in {None} \cup Starts /\ joining \in {None} \cup Starts
  /\ gui \in {"idle", "awdl", "resolve", "set", "join"} /\ starts \in 0 .. MaxStarts
  /\ shown \in SUBSET Starts
  /\ task \in [Starts -> TaskStates] /\ stop_sent \in SUBSET Starts
  /\ port \in [Starts -> {None, Port, Port + 1}]
  /\ events \in [Starts -> Seq({"Start", "Error"})]
  /\ daemon \in [Starts -> DaemonStates] /\ stop_flag \in SUBSET Starts
  /\ tap \in {None} \cup Starts /\ tuned \in SUBSET Starts /\ leaked \in Nat
  /\ others \in SUBSET {Port, Port + 1}

(* A server thread that was not told to stop is the one the applet can      *)
(* stop: however Start, Stop and closing the popup follow each other, none  *)
(* goes on listening behind a page that says it is stopped (app.rs          *)
(* start_server, stop_server).                                              *)
NoOrphanServer ==
  \A n \in Starts :
    (task[n] \in {"bind", "accept"} /\ n \notin stop_sent) => (server = n /\ running)

(* A daemon thread lives only while the applet holds its handle or waits    *)
(* for its end, and the daemon whose handle it holds was not told to stop:  *)
(* `Handle to a running AWDL instance' (awdl/mod.rs Awdl, stop, drop).      *)
DaemonsOwned ==
  /\ \A n \in Starts : daemon[n] \in Alive => n \in {awdl, joining}
  /\ awdl # None => (daemon[awdl] \in Alive /\ awdl \notin stop_flag)

(* While the applet is not receiving, an AWDL daemon runs only if the       *)
(* server of the same start had failed: start_server starts the daemon      *)
(* nevertheless, and neither Stop nor closing the popup reaches it.         *)
LeftoverExplained ==
  (~running /\ gui = "idle" /\ awdl # None) => task[awdl] = "none"

(* A running and advertised server listens on the port it is advertised     *)
(* with (server.rs AirDropServer::start: `It advertises via mDNS and serves *)
(* the HTTP(S) endpoint').                                                  *)
AdvertisedPort == \A n \in Starts : task[n] = "accept" => port[n] = Port

(* A channel switch that fails leaves a socket open, but it is not tried    *)
(* again: every start leaves two at most, its own and its daemon's, however *)
(* long the daemon runs (awdl/netlink.rs set_channel; awdl/mod.rs           *)
(* run_daemon_loop).                                                        *)
SocketsBounded == leaked <= 2 * starts

(* A server that was told to stop ends and gives its port back, whenever    *)
(* the message comes (server.rs, the accept loop).                          *)
StopsEventually ==
  \A n \in Starts : (n \in stop_sent) ~> (task[n] = "ended" /\ port[n] = None)

(* The GUI thread, which waits for the kernel and for daemon threads that   *)
(* may wait for the kernel, always comes back to its messages               *)
(* (awdl/netlink.rs nl_send_recv; awdl/mod.rs start, Awdl::stop, Drop).     *)
GuiReturns == (gui # "idle") ~> (gui = "idle")

(* The user of a server that could not bind is told, or has stopped it      *)
(* before (server.rs, the Error event; app.rs drain_background).            *)
FailureShown ==
  \A n \in Starts :
    (task[n] \in {"closing", "ended"} /\ server = n) ~> (n \in shown \/ server # n)
=============================================================================
