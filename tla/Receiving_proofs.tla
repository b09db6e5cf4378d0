--------------------------- MODULE Receiving_proofs ---------------------------
(***************************************************************************)
(* Proofs about the Receive page.  Receiving: for any number of starts and  *)
(* any behaviour of other programs, no server and no daemon is lost, and no *)
(* more than two sockets a start are.  Keys: what becomes of the            *)
(* certificate and the key that a start loads.                              *)
(***************************************************************************)
EXTENDS Receiving, FiniteSetTheorems, SequenceTheorems, TLAPS

(* What the handles of the applet have to do with the starts: handles and   *)
(* flags belong to starts that have happened; the daemon about to start has *)
(* not run before; and a daemon that the applet holds belongs to a start    *)
(* whose server never ran, or to the server the applet holds as well.       *)
Starting == gui \in {"awdl", "resolve", "set"}
Handles ==
  /\ gui # "join" => joining = None
  /\ stop_flag \subseteq 1 .. starts /\ awdl <= starts /\ joining <= starts
  /\ Starting => (starts \in Starts /\ starts \notin stop_flag /\ starts # awdl)
  /\ \A n \in Starts : n > starts => task[n] = "none"
  /\ (awdl # None /\ task[awdl] # "none") => (server = awdl /\ running)
  /\ (Starting /\ task[starts] # "none") => (server = starts /\ running)

(* Every socket left open belongs to the one call of a start that is past   *)
(* it, or to the one call of a daemon that takes its channel for current.   *)
Leaks ==
  /\ tuned \subseteq 1 .. starts
  /\ \A n \in tuned : daemon[n] \notin {"resolve", "set"}
  /\ leaked <= (IF Starting THEN starts - 1 ELSE starts) + Cardinality(tuned)

IInv == TypeOK /\ NoOrphanServer /\ DaemonsOwned /\ Handles /\ Leaks

USE StartsAssumption, PortAssumption, TakersAssumption DEF None, Starts, Ports,
    TaskStates, DaemonStates, Alive

(* Sending events keeps the channels what they are. *)
LEMMA SentType ==
  ASSUME events \in [Starts -> Seq({"Start", "Error"})], NEW n \in Starts,
         NEW es \in Seq({"Start", "Error"})
  PROVE  Sent(n, es) \in [Starts -> Seq({"Start", "Error"})]
<1>1. events[n] \o es \in Seq({"Start", "Error"})
  OBVIOUS
<1> QED BY <1>1 DEF Sent

(* The daemons that take their channel for current are finitely many.       *)
LEMMA TunedFinite ==
  ASSUME TypeOK, tuned \subseteq 1 .. starts
  PROVE  /\ IsFiniteSet(tuned) /\ Cardinality(tuned) \in Nat /\ Cardinality(tuned) <= starts
         /\ \A n \in Starts : n \notin tuned => Cardinality(tuned \cup {n}) = Cardinality(tuned) + 1
<1>1. starts \in Nat
  BY DEF TypeOK
<1>2. IsFiniteSet(1 .. starts) /\ Cardinality(1 .. starts) = starts
  BY <1>1, FS_Interval
<1>3. IsFiniteSet(tuned) /\ Cardinality(tuned) \in Nat /\ Cardinality(tuned) <= starts
  BY <1>2, FS_Subset, FS_CardinalityType
<1> QED BY <1>3, FS_AddElement

LEMMA InitInv == Init => IInv
<1> SUFFICES ASSUME Init PROVE IInv
  OBVIOUS
<1>1. <<>> \in Seq({"Start", "Error"})
  OBVIOUS
<1>2. events \in [Starts -> Seq({"Start", "Error"})]
  BY <1>1 DEF Init
<1>3. others \in SUBSET {Port, Port + 1}
  BY DEF Init
<1>4. TypeOK
  <2>1. /\ task \in [Starts -> TaskStates] /\ daemon \in [Starts -> DaemonStates]
        /\ port \in [Starts -> {None, Port, Port + 1}]
    BY DEF Init
  <2>2. /\ server = None /\ running = FALSE /\ awdl = None /\ joining = None
        /\ gui = "idle" /\ starts = 0 /\ shown = {} /\ stop_sent = {}
        /\ stop_flag = {} /\ tap = None /\ tuned = {} /\ leaked = 0
    BY DEF Init
  <2>3. running \in BOOLEAN /\ gui \in {"idle", "awdl", "resolve", "set", "join"}
    BY <2>2, Zenon
  <2>4. /\ server \in {None} \cup Starts /\ awdl \in {None} \cup Starts
        /\ joining \in {None} \cup Starts /\ tap \in {None} \cup Starts
        /\ shown \in SUBSET Starts /\ stop_sent \in SUBSET Starts /\ stop_flag \in SUBSET Starts
        /\ tuned \in SUBSET Starts
    BY <2>2, Zenon
  <2>5. starts \in 0 .. MaxStarts /\ leaked \in Nat
    BY <2>2
  <2> QED BY <1>2, <1>3, <2>1, <2>3, <2>4, <2>5 DEF TypeOK
<1>5. NoOrphanServer /\ DaemonsOwned /\ Handles
  BY DEF Init, NoOrphanServer, DaemonsOwned, Handles, Starting
<1>6. Leaks
  BY FS_EmptySet DEF Init, Leaks, Starting
<1> QED BY <1>4, <1>5, <1>6 DEF IInv

(* What is leaked depends on little. *)
LEMMA LeaksKeep ==
  ASSUME IInv, UNCHANGED netVars, starts' \in Nat,
         \/ starts' = starts /\ (Starting' => Starting)
         \/ starts' = starts + 1,
         \A n \in tuned : daemon'[n] \notin {"resolve", "set"}
  PROVE  Leaks'
<1>1. Cardinality(tuned) \in Nat /\ starts \in Nat /\ leaked \in Nat
  BY TunedFinite DEF IInv, Leaks, TypeOK
<1> QED BY <1>1 DEF IInv, Leaks, netVars

(* A step of the GUI thread. *)
LEMMA GuiStep ==
  ASSUME IInv, User \/ Gui
  PROVE  IInv'
<1> USE DEF IInv
<1>1. CASE StartServer
  <2>1. starts' \in Starts /\ starts' = starts + 1 /\ task' \in [Starts -> TaskStates]
    BY <1>1 DEF StartServer, TypeOK
  <2>2. UNCHANGED <<events, port, daemon, stop_sent, stop_flag, tap, tuned, leaked, others, shown,
                    joining, awdl>>
    BY <1>1 DEF StartServer, daemonVars, netVars
  <2>3. server' \in {None} \cup Starts /\ running' \in BOOLEAN /\ gui' = "awdl"
    BY <1>1, <2>1 DEF StartServer, TypeOK
  <2>4. TypeOK'
    BY <2>1, <2>2, <2>3 DEF TypeOK
  <2>5. NoOrphanServer'
    BY <1>1 DEF StartServer, NoOrphanServer, TypeOK
  <2>6. DaemonsOwned'
    BY <1>1 DEF StartServer, DaemonsOwned, TypeOK, daemonVars
  <2>7. Handles'
    BY <1>1 DEF StartServer, Handles, Starting, TypeOK, daemonVars
  <2>8. Leaks'
    BY <2>1, <2>2, LeaksKeep DEF Leaks, netVars
  <2> QED BY <2>4, <2>5, <2>6, <2>7, <2>8
<1>2. CASE ToggleOff
  <2> USE DEF ToggleOff, StopServer, StopAwdl
  <2>1. TypeOK'
    BY <1>2 DEF TypeOK, netVars
  <2>2. NoOrphanServer'
    BY <1>2 DEF NoOrphanServer, TypeOK
  <2>3. DaemonsOwned'
    BY <1>2 DEF DaemonsOwned, Handles, TypeOK
  <2>4. Handles'
    BY <1>2 DEF DaemonsOwned, Handles, Starting, TypeOK
  <2>5. Leaks'
    BY <1>2, LeaksKeep DEF Leaks, Starting, TypeOK
  <2> QED BY <2>1, <2>2, <2>3, <2>4, <2>5
<1>3. CASE AwdlUnavailable
  <2>1. TypeOK' /\ NoOrphanServer' /\ DaemonsOwned' /\ Handles'
    BY <1>3 DEF AwdlUnavailable, TypeOK, NoOrphanServer, DaemonsOwned, Handles, Starting,
      serverVars, daemonVars, netVars
  <2>2. Leaks'
    BY <1>3, LeaksKeep DEF AwdlUnavailable, Leaks, Starting, TypeOK, daemonVars
  <2> QED BY <2>1, <2>2
<1>4. CASE OpenAwdl \/ GuiResolved
  <2>1. /\ UNCHANGED <<server, running, awdl, joining, starts, shown, serverVars, daemon,
                       stop_flag, netVars, others>>
        /\ gui \in {"awdl", "resolve"} /\ gui' \in {"resolve", "set"}
        /\ tap' \in {None} \cup Starts
    <3>1. starts \in Starts /\ tap \in {None} \cup Starts
      BY <1>4 DEF OpenAwdl, GuiResolved, Handles, Starting, TypeOK
    <3> QED BY <1>4, <3>1 DEF OpenAwdl, GuiResolved, OpenTun, daemonVars
  <2>2. TypeOK'
    BY <2>1 DEF TypeOK, serverVars, netVars
  <2>3. NoOrphanServer' /\ DaemonsOwned'
    BY <2>1 DEF NoOrphanServer, DaemonsOwned, serverVars
  <2>4. Handles'
    BY <2>1 DEF Handles, Starting, serverVars
  <2>5. Leaks'
    BY <2>1, LeaksKeep DEF Leaks, Starting, TypeOK
  <2> QED BY <2>2, <2>3, <2>4, <2>5
<1>5. CASE StartAwdl
  <2> USE DEF StartAwdl, StopAwdl, SetChannelReturns, serverVars
  <2>1. gui \in {"resolve", "set"} /\ leaked' \in {leaked, leaked + 1}
    BY <1>5
  <2>2. TypeOK'
    BY <1>5 DEF TypeOK, Handles, Starting
  <2>3. NoOrphanServer'
    BY <1>5 DEF NoOrphanServer
  <2>4. DaemonsOwned'
    BY <1>5, <2>1 DEF DaemonsOwned, Handles, Starting, TypeOK
  <2>5. Handles'
    BY <1>5, <2>1 DEF Handles, Starting, TypeOK
  <2>6. Leaks'
    <3>1. Cardinality(tuned) \in Nat /\ starts \in Nat /\ leaked \in Nat /\ starts' = starts
      BY <1>5, TunedFinite DEF Leaks, TypeOK
    <3>2. tuned' = tuned /\ Starting /\ ~Starting'
      BY <1>5, <2>1 DEF Starting
    <3>3. \A n \in tuned : daemon'[n] \notin {"resolve", "set"}
      BY <1>5 DEF Leaks, TypeOK
    <3> QED BY <2>1, <3>1, <3>2, <3>3 DEF Leaks
  <2> QED BY <2>2, <2>3, <2>4, <2>5, <2>6
<1>6. CASE Joined
  <2>1. TypeOK' /\ NoOrphanServer' /\ DaemonsOwned' /\ Handles'
    BY <1>6 DEF Joined, TypeOK, NoOrphanServer, DaemonsOwned, Handles, Starting, serverVars,
      daemonVars, netVars
  <2>2. Leaks'
    BY <1>6, LeaksKeep DEF Joined, Leaks, Starting, TypeOK, daemonVars
  <2> QED BY <2>1, <2>2
<1>7. CASE Tick
  <2>1. <<>> \in Seq({"Start", "Error"})
    OBVIOUS
  <2>2. events' \in [Starts -> Seq({"Start", "Error"})] /\ shown' \in SUBSET Starts
    BY <1>7, <2>1 DEF Tick, TypeOK
  <2>3. TypeOK'
    BY <1>7, <2>2 DEF Tick, TypeOK, daemonVars, netVars
  <2>4. NoOrphanServer' /\ DaemonsOwned' /\ Handles'
    BY <1>7 DEF Tick, NoOrphanServer, DaemonsOwned, Handles, Starting, daemonVars
  <2>5. Leaks'
    BY <1>7, LeaksKeep DEF Tick, Leaks, Starting, TypeOK, daemonVars
  <2> QED BY <2>3, <2>4, <2>5
<1> QED BY <1>1, <1>2, <1>3, <1>4, <1>5, <1>6, <1>7 DEF User, Gui

(* A step of a server thread. *)
LEMMA ServerStep ==
  ASSUME IInv, NEW n \in Starts, Server(n)
  PROVE  IInv'
<1> USE DEF IInv
<1>1. <<"Start">> \in Seq({"Start", "Error"}) /\ <<"Start", "Error">> \in Seq({"Start", "Error"})
  OBVIOUS
<1>2. UNCHANGED <<guiVars, daemonVars, others>>
  BY DEF Server, Bind, BindFails, SeeStop, Shutdown
<1>3. Leaks'
  BY <1>2, LeaksKeep DEF Leaks, Starting, TypeOK, guiVars, daemonVars
<1>4. DaemonsOwned'
  BY <1>2 DEF DaemonsOwned, guiVars, daemonVars
<1>5. CASE Bind(n)
  <2>1. TypeOK'
    BY <1>1, <1>5, SentType DEF Bind, TypeOK, guiVars, daemonVars, netVars
  <2>2. NoOrphanServer'
    BY <1>5 DEF Bind, NoOrphanServer, TypeOK, guiVars
  <2>3. Handles'
    BY <1>5 DEF Bind, Handles, Starting, TypeOK, guiVars, daemonVars
  <2> QED BY <1>3, <1>4, <2>1, <2>2, <2>3
<1>6. CASE BindFails(n)
  <2>1. TypeOK'
    BY <1>1, <1>6, SentType DEF BindFails, TypeOK, guiVars, daemonVars, netVars
  <2>2. NoOrphanServer'
    BY <1>6 DEF BindFails, NoOrphanServer, TypeOK, guiVars
  <2>3. Handles'
    BY <1>6 DEF BindFails, Handles, Starting, TypeOK, guiVars, daemonVars
  <2> QED BY <1>3, <1>4, <2>1, <2>2, <2>3
<1>7. CASE SeeStop(n) \/ Shutdown(n)
  <2>1. TypeOK'
    BY <1>7 DEF SeeStop, Shutdown, TypeOK, guiVars, daemonVars, netVars
  <2>2. NoOrphanServer'
    BY <1>7 DEF SeeStop, Shutdown, TypeOK, NoOrphanServer, guiVars
  <2>3. \A u \in Starts : task'[u] = "none" <=> task[u] = "none"
    BY <1>7 DEF SeeStop, Shutdown, TypeOK
  <2>4. UNCHANGED <<server, running, awdl, gui, joining, starts, stop_flag>>
    BY <1>2 DEF guiVars, daemonVars
  <2>5. Handles'
    BY <2>3, <2>4 DEF TypeOK, Handles, Starting
  <2> QED BY <1>3, <1>4, <2>1, <2>2, <2>5
<1> QED BY <1>5, <1>6, <1>7 DEF Server

(* A step of a daemon thread. *)
LEMMA DaemonStep ==
  ASSUME IInv, NEW n \in Starts, Daemon(n)
  PROVE  IInv'
<1> USE DEF IInv
<1>1. /\ UNCHANGED <<guiVars, serverVars, stop_flag, tap, others>>
      /\ daemon[n] \in Alive
      /\ \E to \in DaemonStates :
           /\ daemon' = [daemon EXCEPT ![n] = to]
           /\ to \in Alive \/ (to = "ended" /\ n \in stop_flag)
  BY DEF Daemon, DaemonEnds, DaemonGoesOn, Turn, Resolved, Switched, SetChannelReturns, Step, Goes
<1>2. tuned' \in SUBSET Starts /\ leaked' \in Nat
  <2>1. \/ UNCHANGED <<tuned, leaked>>
        \/ tuned' = tuned \cup {n} /\ leaked' \in {leaked, leaked + 1}
    BY DEF Daemon, DaemonEnds, DaemonGoesOn, Turn, Resolved, Switched, SetChannelReturns, Step,
      netVars
  <2>2. tuned \subseteq Starts /\ leaked \in Nat
    BY DEF TypeOK
  <2>3. tuned' \subseteq Starts
    BY <2>1, <2>2
  <2>4. leaked' \in Nat
    BY <2>1, <2>2
  <2> QED BY <2>3, <2>4
<1>3. TypeOK' /\ NoOrphanServer' /\ Handles'
  BY <1>1, <1>2 DEF TypeOK, NoOrphanServer, Handles, Starting, guiVars, serverVars
<1>4. DaemonsOwned'
  BY <1>1 DEF TypeOK, DaemonsOwned, guiVars
<1>5. Leaks'
  <2>1. starts' = starts /\ Starting' = Starting /\ starts \in Nat
    BY <1>1 DEF guiVars, Starting, TypeOK
  <2>2. CASE Switched(n)
    <3>1. /\ daemon[n] \in {"resolve", "set"} /\ leaked' \in {leaked, leaked + 1}
          /\ tuned' = tuned \cup {n} /\ daemon' = [daemon EXCEPT ![n] = "loop"]
      BY <2>2 DEF Switched, SetChannelReturns, Goes
    <3>2. n \in 1 .. starts /\ n \notin tuned
      BY <1>1, <3>1 DEF DaemonsOwned, Handles, Leaks, TypeOK
    <3>3. Cardinality(tuned') = Cardinality(tuned) + 1 /\ Cardinality(tuned) \in Nat
      BY <3>1, <3>2, TunedFinite DEF Leaks
    <3>4. tuned' \subseteq 1 .. starts /\ \A u \in tuned' : daemon'[u] \notin {"resolve", "set"}
      BY <3>1, <3>2 DEF Leaks, TypeOK
    <3> QED BY <2>1, <3>1, <3>3, <3>4 DEF Leaks, TypeOK
  <2>3. CASE ~Switched(n)
    <3>1. UNCHANGED netVars
      BY <2>3 DEF Daemon, DaemonEnds, DaemonGoesOn, Turn, Resolved, Step
    <3>2. daemon'[n] = "resolve" => n \notin tuned
      BY <2>3, <3>1 DEF Daemon, DaemonEnds, DaemonGoesOn, Turn, Resolved, Step, Goes, TypeOK
    <3>3. daemon'[n] = "set" => n \notin tuned
      BY <2>3 DEF Daemon, DaemonEnds, DaemonGoesOn, Turn, Resolved, Step, Goes, TypeOK, Leaks
    <3>4. \A u \in tuned : daemon'[u] \notin {"resolve", "set"}
      BY <1>1, <3>2, <3>3 DEF Leaks, TypeOK
    <3> QED BY <2>1, <3>1, <3>4, LeaksKeep
  <2> QED BY <2>2, <2>3
<1> QED BY <1>3, <1>4, <1>5

LEMMA NextInv == IInv /\ [Next]_vars => IInv'
<1> SUFFICES ASSUME IInv, [Next]_vars PROVE IInv'
  OBVIOUS
<1>1. CASE User \/ Gui
  BY <1>1, GuiStep
<1>2. ASSUME NEW n \in Starts, Server(n) PROVE IInv'
  BY <1>2, ServerStep
<1>3. ASSUME NEW n \in Starts, Daemon(n) PROVE IInv'
  BY <1>3, DaemonStep
<1>4. CASE OtherListens \/ OtherCloses
  <2>1. UNCHANGED <<guiVars, serverVars, daemonVars>>
    BY <1>4 DEF OtherListens, OtherCloses
  <2>2. others' \in SUBSET {Port, Port + 1}
    BY <1>4 DEF OtherListens, OtherCloses, IInv, TypeOK
  <2>3. TypeOK'
    BY <2>1, <2>2 DEF IInv, TypeOK, guiVars, serverVars, daemonVars, netVars
  <2>4. NoOrphanServer' /\ DaemonsOwned' /\ Handles' /\ Leaks'
    BY <2>1 DEF IInv, NoOrphanServer, DaemonsOwned, Handles, Leaks, Starting, guiVars, serverVars,
      daemonVars, netVars
  <2> QED BY <2>3, <2>4 DEF IInv
<1>5. CASE UNCHANGED vars
  <2>1. UNCHANGED <<guiVars, serverVars, daemonVars, others>>
    BY <1>5 DEF vars
  <2>2. TypeOK'
    BY <2>1 DEF IInv, TypeOK, guiVars, serverVars, daemonVars, netVars
  <2>3. NoOrphanServer' /\ DaemonsOwned' /\ Handles' /\ Leaks'
    BY <2>1 DEF IInv, NoOrphanServer, DaemonsOwned, Handles, Leaks, Starting, guiVars, serverVars,
      daemonVars, netVars
  <2> QED BY <2>2, <2>3 DEF IInv
<1> QED BY <1>1, <1>2, <1>3, <1>4, <1>5 DEF Next

LEMMA Invariance == Spec => []IInv
  BY InitInv, NextInv, PTL DEF Spec

(* The state of the applet and its threads is always of its type. *)
THEOREM TypeCorrect == Spec => []TypeOK
  BY Invariance, PTL DEF IInv

(* No server thread listens that the applet cannot stop (app.rs             *)
(* start_server, stop_server).                                              *)
THEOREM ServersOwned == Spec => []NoOrphanServer
  BY Invariance, PTL DEF IInv

(* The applet holds every daemon thread that runs, or waits for its end     *)
(* (awdl/mod.rs Awdl, stop, drop).                                          *)
THEOREM DaemonsAreOwned == Spec => []DaemonsOwned
  BY Invariance, PTL DEF IInv

(* A daemon is left running by an applet that does not receive only when    *)
(* the server of its start had failed (app.rs start_server).                *)
THEOREM LeftoverOnlyAfterFailure == Spec => []LeftoverExplained
<1>1. IInv => LeftoverExplained
  BY DEF IInv, Handles, LeftoverExplained
<1> QED BY <1>1, Invariance, PTL

(* A start leaves two netlink sockets open at most: the switch that failed  *)
(* in awdl::start and the one that failed in its daemon, which is not tried *)
(* again (awdl/netlink.rs set_channel; awdl/mod.rs run_daemon_loop).        *)
THEOREM SocketsAreBounded == Spec => []SocketsBounded
<1>1. IInv => SocketsBounded
  <2> SUFFICES ASSUME IInv PROVE SocketsBounded
    OBVIOUS
  <2>1. Cardinality(tuned) \in Nat /\ Cardinality(tuned) <= starts
    BY TunedFinite DEF IInv, Leaks
  <2> QED BY <2>1 DEF IInv, Leaks, TypeOK, SocketsBounded
<1> QED BY <1>1, Invariance, PTL

-----------------------------------------------------------------------------
(* A failure is not lost. *)

\* A server that the window holds was not told to stop, and its end is one that
\* it has told: the Error is in its channel or already on the page.
Unstopped == stop_sent \subseteq 1 .. starts /\ server <= starts /\ server \notin stop_sent
FailureKept ==
  server # None /\ task[server] \in {"closing", "ended"} =>
    server \in shown \/ \E i \in DOMAIN events[server] : events[server][i] = "Error"

LEMMA FailureGui == IInv /\ Unstopped /\ FailureKept /\ (User \/ Gui) => (Unstopped /\ FailureKept)'
<1> SUFFICES ASSUME IInv, Unstopped, FailureKept, User \/ Gui PROVE (Unstopped /\ FailureKept)'
  OBVIOUS
<1> USE DEF IInv, Unstopped, FailureKept
<1>1. CASE StartServer
  <2>1. starts \in Nat /\ starts' = starts + 1 /\ starts' \in Starts
        /\ UNCHANGED <<shown, stop_sent, events>>
    BY <1>1 DEF StartServer, TypeOK
  <2>2. CASE server' = starts' /\ task' = [task EXCEPT ![starts'] = "bind"]
    BY <2>1, <2>2 DEF TypeOK
  <2>3. CASE UNCHANGED <<server, running, task>>
    BY <2>1, <2>3 DEF TypeOK
  <2> QED BY <1>1, <2>2, <2>3 DEF StartServer
<1>2. CASE ToggleOff
  <2>1. starts' = starts /\ starts \in Nat /\ server' = None
        /\ stop_sent' = stop_sent \cup ({server} \ {None}) /\ server \in {None} \cup Starts
    BY <1>2 DEF ToggleOff, StopServer, TypeOK
  <2> QED BY <2>1
<1>3. CASE Tick
  <2>1. /\ server \in Starts /\ events' = [events EXCEPT ![server] = <<>>]
        /\ UNCHANGED <<server, starts, task, stop_sent>>
        /\ shown' = shown \cup {n \in {server} : \E i \in DOMAIN events[n] : events[n][i] = "Error"}
    BY <1>3 DEF Tick, TypeOK
  <2> QED BY <2>1
<1>4. CASE AwdlUnavailable \/ OpenAwdl \/ GuiResolved \/ StartAwdl \/ Joined
  <2>1. UNCHANGED <<server, starts, shown, task, stop_sent, events>>
    BY <1>4 DEF AwdlUnavailable, OpenAwdl, GuiResolved, StartAwdl, Joined, serverVars
  <2> QED BY <2>1
<1> QED BY <1>1, <1>2, <1>3, <1>4 DEF User, Gui

LEMMA FailureServer ==
  ASSUME IInv, Unstopped, FailureKept, NEW n \in Starts, Server(n)
  PROVE  (Unstopped /\ FailureKept)'
<1> USE DEF IInv, Unstopped, FailureKept
<1>1. UNCHANGED <<server, starts, shown, stop_sent>>
  BY DEF Server, Bind, BindFails, SeeStop, Shutdown, guiVars
<1>2. \A k \in Starts \ {n} : task'[k] = task[k] /\ events'[k] = events[k]
  BY DEF Server, Bind, BindFails, SeeStop, Shutdown, Sent, TypeOK
<1>3. CASE server # n
  BY <1>1, <1>2, <1>3 DEF TypeOK
<1>4. CASE server = n /\ Bind(n)
  <2>1. task'[n] = "accept"
    BY <1>4 DEF Bind, TypeOK
  <2> QED BY <1>1, <1>4, <2>1
<1>5. CASE server = n /\ BindFails(n)
  <2> DEFINE q == events[n]
             es == <<"Start", "Error">>
             i == Len(q) + 2
  <2>1. q \in Seq({"Start", "Error"}) /\ es \in Seq({"Start", "Error"})
    BY DEF TypeOK
  <2>2. i \in DOMAIN (q \o es) /\ (q \o es)[i] = "Error"
    BY <2>1
  <2>3. events'[n] = q \o es
    BY <1>5 DEF BindFails, Sent, TypeOK
  <2> QED BY <1>1, <1>5, <2>2, <2>3
<1>6. CASE server = n /\ SeeStop(n)
  BY <1>6 DEF SeeStop
<1>7. CASE server = n /\ Shutdown(n)
  <2>1. task[n] = "closing" /\ events' = events
    BY <1>7 DEF Shutdown
  <2> QED BY <1>1, <1>7, <2>1
<1> QED BY <1>3, <1>4, <1>5, <1>6, <1>7 DEF Server

\* The Error of a server that could not bind is on the page or on its way there
\* as long as the window holds that server, however it is started, stopped and
\* drained (server.rs, the Error event; app.rs drain_background).  FailureShown
\* adds that it arrives.
THEOREM FailureIsKept == Spec => []FailureKept
<1>1. Init => Unstopped /\ FailureKept
  BY DEF Init, Unstopped, FailureKept
<1>2. IInv /\ Unstopped /\ FailureKept /\ [Next]_vars => (Unstopped /\ FailureKept)'
  <2> SUFFICES ASSUME IInv, Unstopped, FailureKept, [Next]_vars PROVE (Unstopped /\ FailureKept)'
    OBVIOUS
  <2>1. CASE User \/ Gui
    BY <2>1, FailureGui
  <2>2. ASSUME NEW n \in Starts, Server(n) PROVE (Unstopped /\ FailureKept)'
    BY <2>2, FailureServer
  <2>3. ASSUME UNCHANGED <<server, starts, shown, task, stop_sent, events>>
        PROVE  (Unstopped /\ FailureKept)'
    BY <2>3 DEF Unstopped, FailureKept
  <2>4. ASSUME NEW n \in Starts, Daemon(n) PROVE (Unstopped /\ FailureKept)'
    <3>1. UNCHANGED <<guiVars, serverVars>>
      BY <2>4 DEF Daemon, DaemonEnds, DaemonGoesOn, Turn, Resolved, Switched, Step
    <3> QED BY <2>3, <3>1 DEF guiVars, serverVars
  <2>5. CASE OtherListens \/ OtherCloses \/ UNCHANGED vars
    BY <2>3, <2>5 DEF OtherListens, OtherCloses, vars, guiVars, serverVars
  <2> QED BY <2>1, <2>2, <2>4, <2>5 DEF Next
<1> QED BY <1>1, <1>2, Invariance, PTL DEF Spec

(***************************************************************************)
(* The certificate and the key that StartServer needs, of which Receiving   *)
(* only says that AirDropServer::start may fail: module Keys, for any       *)
(* number of runs of the applet.                                            *)
(***************************************************************************)
CONSTANTS Runs, Older
VARIABLES exists, text, at, disturbed
Pair == INSTANCE Keys

Tokens == Pair!Markers \cup Runs \cup {Older}
HasConfig == {"ready", "built", "refused"}
Busy(r) == at[r] \in Pair!Creating

-----------------------------------------------------------------------------
(* Types. *)

LEMMA PemType ==
  ASSUME NEW p \in Runs \cup {Older}
  PROVE  Pair!Pem(p) \in Seq(Tokens) /\ Pair!Torn(p) \subseteq Seq(Tokens)
<1>1. p \in Tokens /\ "BEGIN" \in Tokens /\ "END" \in Tokens
  BY DEF Tokens, Pair!Markers
<1>2. <<"BEGIN", p, "END">> \in Seq(Tokens)
  BY <1>1
<1>3. <<>> \in Seq(Tokens) /\ <<"BEGIN">> \in Seq(Tokens) /\ <<"BEGIN", p>> \in Seq(Tokens)
  BY <1>1
<1> QED
  BY <1>2, <1>3 DEF Pair!Pem, Pair!Torn

\* The files, their texts and the places of the runs are always of their types.
THEOREM PairTypeCorrect == Pair!Spec => []Pair!TypeOK
<1> USE DEF Pair!TypeOK
<1>t. Tokens = Pair!Markers \cup Runs \cup {Older}
  BY DEF Tokens
<1>1. Pair!Init => Pair!TypeOK
  <2> SUFFICES ASSUME Pair!Init PROVE Pair!TypeOK
    OBVIOUS
  <2>1. <<>> \in Seq(Tokens) /\ Pair!Pem(Older) \in Seq(Tokens)
    BY PemType DEF Pair!Torn
  <2>2. text \in [Pair!Files -> Seq(Tokens)]
    BY <2>1 DEF Pair!Init
  <2> QED
    BY <1>t, <2>2 DEF Pair!Init, Pair!Files
<1>2. Pair!TypeOK /\ [Pair!Next]_(Pair!vars) => Pair!TypeOK'
  <2> SUFFICES ASSUME Pair!TypeOK, [Pair!Next]_(Pair!vars) PROVE Pair!TypeOK'
    OBVIOUS
  <2>1. ASSUME NEW r \in Runs, Pair!Start(r) PROVE Pair!TypeOK'
    BY <2>1 DEF Pair!Start, Pair!Go, Pair!Creating
  <2>2. ASSUME NEW r \in Runs, Pair!Dies(r) PROVE Pair!TypeOK'
    BY <2>2 DEF Pair!Dies, Pair!Go
  <2>3. ASSUME NEW r \in Runs, Pair!ServerTls(r) PROVE Pair!TypeOK'
    BY <2>3 DEF Pair!ServerTls, Pair!Go
  <2>4. ASSUME NEW r \in Runs, NEW f \in Pair!Files, Pair!Open(r, f) PROVE Pair!TypeOK'
    <3>1. <<>> \in Seq(Tokens)
      OBVIOUS
    <3>2. text' \in [Pair!Files -> Seq(Tokens)]
      BY <1>t, <2>4, <3>1 DEF Pair!Open
    <3> QED
      BY <1>t, <2>4, <3>2 DEF Pair!Open, Pair!Go, Pair!Writes, Pair!Creating, Pair!Files
  <2>5. ASSUME NEW r \in Runs, NEW f \in Pair!Files, Pair!Write(r, f) PROVE Pair!TypeOK'
    <3>1. text' \in [Pair!Files -> Seq(Tokens)]
      BY <1>t, <2>5, PemType DEF Pair!Write
    <3> QED
      BY <1>t, <2>5, <3>1 DEF Pair!Write, Pair!Go, Pair!After, Pair!Creating
  <2>6. ASSUME NEW r \in Runs, NEW f \in Pair!Files, Pair!WriteFails(r, f) PROVE Pair!TypeOK'
    <3>1. PICK s \in Pair!Torn(r) : text' = [text EXCEPT ![f] = s]
      BY <2>6 DEF Pair!WriteFails
    <3>2. s \in Seq(Tokens)
      BY PemType
    <3>3. text' \in [Pair!Files -> Seq(Tokens)]
      BY <1>t, <3>1, <3>2
    <3> QED
      BY <1>t, <2>6, <3>3 DEF Pair!WriteFails, Pair!Go
  <2>7. CASE UNCHANGED Pair!vars
    BY <2>7 DEF Pair!vars
  <2> QED
    BY <2>1, <2>2, <2>3, <2>4, <2>5, <2>6, <2>7 DEF Pair!Next
<1> QED
  BY <1>1, <1>2, PTL DEF Pair!Spec

-----------------------------------------------------------------------------
(* What the files hold. *)

\* Once both files exist and nobody makes them they stay as they are, torn or
\* whole, in every step of any number of runs.
THEOREM PairsStay == Pair!Spec => Pair!NeverRepaired
<1>1. ASSUME [Pair!Next]_(Pair!vars), exists = Pair!Files,
             \A r \in Runs : at[r] \notin Pair!Creating
      PROVE  UNCHANGED <<exists, text>>
  <2>1. ASSUME NEW r \in Runs, NEW f \in Pair!Files,
               Pair!Open(r, f) \/ Pair!Write(r, f) \/ Pair!WriteFails(r, f)
        PROVE  at[r] \in Pair!Creating
    BY <2>1 DEF Pair!Open, Pair!Write, Pair!WriteFails, Pair!Opens, Pair!Writes, Pair!Creating,
                Pair!Files
  <2> QED
    BY <1>1, <2>1 DEF Pair!Next, Pair!Start, Pair!Dies, Pair!ServerTls, Pair!vars
<1> QED
  BY <1>1, PTL DEF Pair!Spec, Pair!NeverRepaired

\* While nothing has disturbed them: one run at a time makes a pair, none has a
\* configuration then, its certificate is written before its key, and two
\* files that nobody is making are a whole pair.
PairInv ==
  ~disturbed =>
    /\ \A r, o \in Runs : Busy(r) /\ Busy(o) => r = o
    /\ \A r, o \in Runs : at[r] \in HasConfig => exists = Pair!Files /\ ~Busy(o)
    /\ \A r \in Runs : at[r] \in {"write cert", "open key", "write key"} => "cert" \in exists
    /\ \A r \in Runs : at[r] \in {"open key", "write key"} => text["cert"] = Pair!Pem(r)
    /\ \A r \in Runs : at[r] = "write key" => "key" \in exists
    /\ (exists = Pair!Files /\ \A r \in Runs : ~Busy(r)) =>
         \E p \in Runs \cup {Older} : Pair!PairOf(p)

\* A whole pair for every configuration of an undisturbed history.
THEOREM UndisturbedIsWhole == Pair!Spec => []Pair!UndisturbedPair
<1> USE DEF PairInv, Pair!TypeOK, Busy, HasConfig, Pair!Creating
<1>1. Pair!Init => PairInv
  <2> SUFFICES ASSUME Pair!Init PROVE PairInv
    OBVIOUS
  <2>1. \A r \in Runs : at[r] = "off"
    BY DEF Pair!Init
  <2>2. exists = Pair!Files => Pair!PairOf(Older)
    BY DEF Pair!Init, Pair!PairOf
  <2> QED
    BY <2>1, <2>2
<1>2. Pair!TypeOK /\ PairInv /\ [Pair!Next]_(Pair!vars) => PairInv'
  <2> SUFFICES ASSUME Pair!TypeOK, PairInv, [Pair!Next]_(Pair!vars), ~disturbed' PROVE PairInv'
    OBVIOUS
  <2>1. ASSUME NEW r \in Runs, Pair!Start(r) PROVE PairInv'
    <3>1. ~disturbed /\ \A o \in Runs : ~Busy(o)
      BY <2>1 DEF Pair!Start
    <3>2. \A o \in Runs \ {r} : at'[o] = at[o]
      BY <2>1 DEF Pair!Start, Pair!Go
    <3>3. UNCHANGED <<exists, text>> /\ \A p : Pair!PairOf(p)' <=> Pair!PairOf(p)
      BY <2>1 DEF Pair!Start, Pair!PairOf
    <3>4. at'[r] = IF exists = Pair!Files THEN "ready" ELSE "open cert"
      BY <2>1 DEF Pair!Start, Pair!Go
    <3> QED
      BY <3>1, <3>2, <3>3, <3>4
  <2>2. ASSUME NEW r \in Runs, Pair!Dies(r) PROVE PairInv'
    <3>1. ~disturbed /\ ~Busy(r)
      BY <2>2 DEF Pair!Dies
    <3>2. at'[r] = "dead" /\ \A o \in Runs \ {r} : at'[o] = at[o]
      BY <2>2 DEF Pair!Dies, Pair!Go
    <3>3. UNCHANGED <<exists, text>> /\ \A p : Pair!PairOf(p)' <=> Pair!PairOf(p)
      BY <2>2 DEF Pair!Dies, Pair!PairOf
    <3> QED
      BY <3>1, <3>2, <3>3
  <2>3. ASSUME NEW r \in Runs, Pair!ServerTls(r) PROVE PairInv'
    <3>1. ~disturbed /\ at[r] \in HasConfig
      BY <2>3 DEF Pair!ServerTls
    <3>2. at'[r] \in {"built", "refused"} /\ \A o \in Runs \ {r} : at'[o] = at[o]
      BY <2>3 DEF Pair!ServerTls, Pair!Go
    <3>3. UNCHANGED <<exists, text>> /\ \A p : Pair!PairOf(p)' <=> Pair!PairOf(p)
      BY <2>3 DEF Pair!ServerTls, Pair!PairOf
    <3> QED
      BY <3>1, <3>2, <3>3
  <2>4. ASSUME NEW r \in Runs, NEW f \in Pair!Files, Pair!Open(r, f) PROVE PairInv'
    <3>1. ~disturbed /\ at[r] = Pair!Opens(f) /\ Busy(r)
      BY <2>4 DEF Pair!Open, Pair!Opens
    <3>2. at'[r] = Pair!Writes(f) /\ \A o \in Runs \ {r} : at'[o] = at[o]
      BY <2>4 DEF Pair!Open, Pair!Go
    <3>3. exists' = exists \cup {f} /\ (f = "key" => text'["cert"] = text["cert"])
      BY <2>4 DEF Pair!Open, Pair!Files
    <3>4. \A o \in Runs \ {r} : ~Busy(o) /\ at[o] \notin HasConfig
      BY <3>1
    <3> QED
      BY <3>1, <3>2, <3>3, <3>4 DEF Pair!Opens, Pair!Writes, Pair!Files
  <2>5. ASSUME NEW r \in Runs, NEW f \in Pair!Files, Pair!Write(r, f) PROVE PairInv'
    <3>1. ~disturbed /\ at[r] = Pair!Writes(f) /\ Busy(r) /\ UNCHANGED exists
      BY <2>5 DEF Pair!Write, Pair!Writes
    <3>2. at'[r] = Pair!After(f) /\ \A o \in Runs \ {r} : at'[o] = at[o]
      BY <2>5 DEF Pair!Write, Pair!Go
    <3>3. text'[f] = Pair!Pem(r) /\ (f = "key" => text'["cert"] = text["cert"])
      BY <2>5 DEF Pair!Write, Pair!Files
    <3>4. \A o \in Runs \ {r} : ~Busy(o) /\ at[o] \notin HasConfig
      BY <3>1
    <3>5. CASE f = "cert"
      BY <3>1, <3>2, <3>3, <3>4, <3>5 DEF Pair!After, Pair!Writes
    <3>6. CASE f = "key"
      <4>1. Pair!PairOf(r)'
        BY <3>1, <3>3, <3>6 DEF Pair!PairOf, Pair!Files, Pair!Writes
      <4>2. at'[r] = "ready"
        BY <3>2, <3>6 DEF Pair!After
      <4> QED
        BY <3>2, <3>4, <4>1, <4>2 DEF Pair!PairOf
    <3> QED
      BY <3>5, <3>6 DEF Pair!Files
  <2>6. ASSUME NEW r \in Runs, NEW f \in Pair!Files, Pair!WriteFails(r, f) PROVE PairInv'
    BY <2>6 DEF Pair!WriteFails
  <2>7. CASE UNCHANGED Pair!vars
    BY <2>7 DEF Pair!vars, Pair!PairOf
  <2> QED
    BY <2>1, <2>2, <2>3, <2>4, <2>5, <2>6, <2>7 DEF Pair!Next
<1>3. PairInv => Pair!UndisturbedPair
  BY DEF Pair!UndisturbedPair
<1> QED
  BY <1>1, <1>2, <1>3, PairTypeCorrect, PTL DEF Pair!Spec

-----------------------------------------------------------------------------
(* What server_tls makes of them. *)

\* A body with two dashes behind it is no base64.
LEMMA CutFails ==
  ASSUME NEW t \in Seq(Tokens)
  PROVE  ~Pair!CertsLoad(t)
<1> SUFFICES ASSUME Pair!CertsLoad(t) PROVE FALSE
  OBVIOUS
<1>1. PICK b \in Pair!Bodies(t) : Pair!Decodes(Pair!CertBlock(b))
  BY DEF Pair!CertsLoad
<1>2. PICK i \in 0 .. Len(t), j \in 1 .. Len(t) : b = SubSeq(t, i + 1, j - 1)
  BY <1>1 DEF Pair!Bodies
<1>3. \A k \in i + 1 .. j - 1 : k \in 1 .. Len(t)
  BY <1>2, LenProperties
<1>4. b \in Seq(Tokens)
  BY <1>2, <1>3, SubSeqProperties
<1>5. Len(Pair!CertBlock(b)) = Len(b) + 1 /\ Pair!CertBlock(b)[Len(b) + 1] = "--" /\ Len(b) \in Nat
  BY <1>4 DEF Pair!CertBlock
<1>6. Pair!CertBlock(b)[Len(b) + 1] \notin Pair!Markers
  BY <1>1, <1>5 DEF Pair!Decodes
<1> QED
  BY <1>5, <1>6 DEF Pair!Markers

\* Whatever the files hold, no run of the applet gets a configuration for its
\* server.
THEOREM NobodyServes == Pair!Spec => []Pair!NeverBuilt
<1>1. Pair!Init => Pair!NeverBuilt
  BY DEF Pair!Init, Pair!NeverBuilt
<1>2. Pair!TypeOK /\ Pair!NeverBuilt /\ [Pair!Next]_(Pair!vars) => Pair!NeverBuilt'
  <2> SUFFICES ASSUME Pair!TypeOK, Pair!NeverBuilt, [Pair!Next]_(Pair!vars) PROVE Pair!NeverBuilt'
    OBVIOUS
  <2> USE DEF Pair!NeverBuilt, Pair!Go
  <2>1. ASSUME NEW r \in Runs, Pair!Start(r) PROVE Pair!NeverBuilt'
    BY <2>1 DEF Pair!Start, Pair!TypeOK
  <2>2. ASSUME NEW r \in Runs, Pair!Dies(r) PROVE Pair!NeverBuilt'
    BY <2>2 DEF Pair!Dies, Pair!TypeOK
  <2>3. ASSUME NEW r \in Runs, Pair!ServerTls(r) PROVE Pair!NeverBuilt'
    <3>1. text["cert"] \in Seq(Tokens)
      BY DEF Pair!TypeOK, Tokens, Pair!Files
    <3>2. ~Pair!CertsLoad(text["cert"])
      BY <3>1, CutFails
    <3> QED
      BY <2>3, <3>2 DEF Pair!ServerTls, Pair!TypeOK
  <2>4. ASSUME NEW r \in Runs, NEW f \in Pair!Files, Pair!Open(r, f) PROVE Pair!NeverBuilt'
    BY <2>4 DEF Pair!Open, Pair!Writes, Pair!TypeOK
  <2>5. ASSUME NEW r \in Runs, NEW f \in Pair!Files, Pair!Write(r, f) PROVE Pair!NeverBuilt'
    BY <2>5 DEF Pair!Write, Pair!After, Pair!TypeOK
  <2>6. ASSUME NEW r \in Runs, NEW f \in Pair!Files, Pair!WriteFails(r, f) PROVE Pair!NeverBuilt'
    BY <2>6 DEF Pair!WriteFails, Pair!TypeOK
  <2>7. CASE UNCHANGED Pair!vars
    BY <2>7 DEF Pair!vars
  <2> QED
    BY <2>1, <2>2, <2>3, <2>4, <2>5, <2>6, <2>7 DEF Pair!Next
<1> QED
  BY <1>1, <1>2, PairTypeCorrect, PTL DEF Pair!Spec

===============================================================================
