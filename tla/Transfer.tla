------------------------------- MODULE Transfer -------------------------------
(***************************************************************************)
(* Sending files from one applet to another: the sender thread of each      *)
(* transfer asks and then uploads, each on a connection of its own; the     *)
(* server handles every connection in a task of its own and unpacks what it *)
(* is sent; either end, or the network, may break off at any time, and the  *)
(* receiver's user may stop the server and start another                    *)
(* (src/src/app.rs begin_send, start_server, stop_server, drain_background; *)
(* src/src/client.rs send_post, send_ask_async, send_upload_async;          *)
(* src/src/server.rs AirDropServer::start, handle_connection,               *)
(* extract_upload).                                                         *)
(*                                                                         *)
(* TLS, TCP, the archive's format and the file system are external.  A      *)
(* connection that is closed without a farewell is an error to both ends,   *)
(* as rustls makes it; one that goes silent is nothing to either, since     *)
(* neither reads with a timeout.                                            *)
(***************************************************************************)
EXTENDS Naturals, Sequences

CONSTANTS
  Transfers,  \* the transfers the user begins
  Names,      \* the names of files
  Entries,    \* the files in each transfer's archive, in order
  NoTransfer, \* the channel of no transfer
  Fragile,    \* bound: the transfers whose connections the network may fail
  MaxStarts   \* bound: how many times the receiver is started

ASSUME EntriesAssumption == Entries \in [Transfers -> Seq(Names) \ {<<>>}]
ASSUME NoTransferAssumption == NoTransfer \notin Transfers
ASSUME FragileAssumption == Fragile \subseteq Transfers
ASSUME StartsAssumption == MaxStarts \in Nat

(* A start of the receiver makes a server, with a thread, an accept loop    *)
(* and a channel of its own.                                                *)
Servers == 1 .. MaxStarts
NoServer == 0

(* The ServerEvents of a transfer.                                          *)
Endings == {"Received", "Error"}
Events == {"Ask", "Accepted"} \cup Endings

VARIABLES
  sending,    \* the transfer whose channel is Window.send_rx
  shown,      \* the transfers whose outcome is in Window.send_messages
  sender,     \* where the thread of each transfer is
  outcome,    \* the message in each transfer's channel
  wire,       \* the connection of each transfer's present request
  handler,    \* the task that serves it
  home,       \* the server whose task that is
  entry,      \* how many entries that task has unpacked
  disk,       \* what is under each name: who wrote it, and whether all of it
  server,     \* where the thread of each server is
  listening,  \* the server whose channel is Window.server_rx
  coming,     \* the events of each transfer in that channel
  heard       \* the events of each transfer on the Receive page

senderVars == <<sending, shown, sender, outcome>>
taskVars == <<handler, entry, disk>>
serverVars == <<server, listening>>
newsVars == <<coming, heard>>
vars == <<senderVars, wire, home, taskVars, serverVars, newsVars>>

Absent == [by |-> NoTransfer, whole |-> FALSE]
Pending == "none"

Init ==
  /\ sending = NoTransfer /\ shown = {}
  /\ sender = [t \in Transfers |-> "idle"]
  /\ outcome = [t \in Transfers |-> Pending]
  /\ wire = [t \in Transfers |-> "none"]
  /\ handler = [t \in Transfers |-> "none"]
  /\ entry = [t \in Transfers |-> 0]
  /\ home = [t \in Transfers |-> NoServer]
  /\ disk = [f \in Names |-> Absent]
  /\ server = [s \in Servers |-> "none"] /\ listening = NoServer
  /\ coming = [t \in Transfers |-> {}] /\ heard = [t \in Transfers |-> {}]

-----------------------------------------------------------------------------
(* The sender. *)

(* begin_send: the thread starts, and the channel of an earlier transfer is *)
(* dropped with what it holds or will hold.                                 *)
BeginSend(t) ==
  /\ sender[t] = "idle"
  /\ sender' = [sender EXCEPT ![t] = "ask"]
  /\ sending' = t
  /\ UNCHANGED <<shown, outcome, wire, home, taskVars, serverVars, newsVars>>

Ends(t, message) ==
  /\ sender' = [sender EXCEPT ![t] = "done"]
  /\ outcome' = [outcome EXCEPT ![t] = message]

(* send_post connects to the server on the announced port, one that was     *)
(* told to stop and has not seen it included, and its accept loop spawns a  *)
(* task for the connection that reads its request.                          *)
Connect(t) ==
  /\ sender[t] \in {"ask", "upload"} /\ wire[t] = "none"
  /\ \E s \in Servers :
       server[s] \in {"up", "stopping"} /\ home' = [home EXCEPT ![t] = s]
  /\ wire' = [wire EXCEPT ![t] = "request"]
  /\ handler' = [handler EXCEPT ![t] = sender[t]]
  /\ UNCHANGED <<senderVars, entry, disk, serverVars, newsVars>>

(* No connection, or no archive of a file that is gone. *)
Refused(t) ==
  /\ sender[t] \in {"ask", "upload"} /\ wire[t] = "none"
  /\ Ends(t, "error")
  /\ UNCHANGED <<sending, shown, wire, home, taskVars, serverVars, newsVars>>

(* The answer to an ask lets the upload begin; that to the upload is the    *)
(* outcome.                                                                 *)
Answered(t) ==
  /\ wire[t] = "response"
  /\ wire' = [wire EXCEPT ![t] = "none"]
  /\ IF sender[t] = "ask"
       THEN sender' = [sender EXCEPT ![t] = "upload"] /\ UNCHANGED outcome
       ELSE Ends(t, "success")
  /\ UNCHANGED <<sending, shown, home, taskVars, serverVars, newsVars>>

\* Erroneous: the thread ends without a message.
BrokenOffSilently(t) ==
  /\ wire[t] = "cut"
  /\ wire' = [wire EXCEPT ![t] = "none"]
  /\ Ends(t, Pending)
  /\ UNCHANGED <<sending, shown, home, taskVars, serverVars, newsVars>>

\* Erroneous: the request is sent again.
BrokenOffAgain(t) ==
  /\ wire[t] = "cut"
  /\ wire' = [wire EXCEPT ![t] = "none"]
  /\ UNCHANGED <<senderVars, home, taskVars, serverVars, newsVars>>

(* No answer. *)
BrokenOff(t) ==
  /\ wire[t] = "cut"
  /\ wire' = [wire EXCEPT ![t] = "none"]
  /\ Ends(t, "error")
  /\ UNCHANGED <<sending, shown, home, taskVars, serverVars, newsVars>>

(* Message::Tick in the sender's applet. *)
Tick ==
  /\ sending # NoTransfer /\ outcome[sending] # Pending /\ sending \notin shown
  /\ shown' = shown \cup {sending}
  /\ UNCHANGED <<sending, sender, outcome, wire, home, taskVars, serverVars, newsVars>>

-----------------------------------------------------------------------------
(* The server's tasks. *)

(* event_tx.send, whose result is ignored: the event reaches the window     *)
(* unless that has dropped the channel of this task's server.               *)
Reaches(t) == home[t] \in Servers /\ listening = home[t]
Tell(t, what) ==
  /\ coming' = IF Reaches(t) THEN [coming EXCEPT ![t] = @ \cup {what}] ELSE coming
  /\ UNCHANGED heard

Becomes(t, state) == handler' = [handler EXCEPT ![t] = state]

(* /Ask: the user is told; the answer is always yes. *)
HandleAsk(t) ==
  /\ handler[t] = "ask"
  /\ Tell(t, "Ask")
  /\ Becomes(t, "reply")
  /\ UNCHANGED <<senderVars, wire, home, entry, disk, serverVars>>

(* /Upload, up to extract_upload. *)
HandleUpload(t) ==
  /\ handler[t] = "upload"
  /\ Tell(t, "Accepted")
  /\ Becomes(t, "unpack")
  /\ entry' = [entry EXCEPT ![t] = 0]
  /\ UNCHANGED <<senderVars, wire, home, disk, serverVars>>

(* The next entry is created in place of what has its name, then written: a *)
(* file that was replaced meanwhile is written without a name.              *)
Current(t) == Entries[t][entry[t] + 1]

Create(t) ==
  /\ handler[t] = "unpack" /\ entry[t] < Len(Entries[t])
  /\ disk' = [disk EXCEPT ![Current(t)] = [by |-> t, whole |-> FALSE]]
  /\ Becomes(t, "write")
  /\ UNCHANGED <<senderVars, wire, home, entry, serverVars, newsVars>>

Written(t, f) == IF disk[f].by = t THEN [disk EXCEPT ![f].whole = TRUE] ELSE disk

\* Erroneous: one entry too many is counted.
WriteSkips(t) ==
  /\ handler[t] = "write"
  /\ disk' = Written(t, Current(t))
  /\ entry' = [entry EXCEPT ![t] = @ + 2]
  /\ Becomes(t, "unpack")
  /\ UNCHANGED <<senderVars, wire, home, serverVars, newsVars>>

Write(t) ==
  /\ handler[t] = "write"
  /\ disk' = Written(t, Current(t))
  /\ entry' = [entry EXCEPT ![t] = @ + 1]
  /\ Becomes(t, "unpack")
  /\ UNCHANGED <<senderVars, wire, home, serverVars, newsVars>>

\* Erroneous: the result of extract_upload is not looked at.
UnpackFailsReported(t) ==
  /\ handler[t] \in {"unpack", "write"}
  /\ Tell(t, "Received")
  /\ Becomes(t, "reply")
  /\ UNCHANGED <<senderVars, wire, home, entry, disk, serverVars>>

\* Erroneous: the error ends the task, and the connection stays open.
UnpackFailsUnanswered(t) ==
  /\ handler[t] \in {"unpack", "write"}
  /\ Tell(t, "Error")
  /\ Becomes(t, "none")
  /\ UNCHANGED <<senderVars, wire, home, entry, disk, serverVars>>

\* Erroneous: the error is not passed on to the receiver's user.
UnpackFailsUntold(t) ==
  /\ handler[t] \in {"unpack", "write"}
  /\ Becomes(t, "reply")
  /\ UNCHANGED <<senderVars, wire, home, entry, disk, serverVars, newsVars>>

(* It may fail anywhere, before the first entry and after the last too: a   *)
(* broken archive, a full disk.  What was unpacked stays and is not         *)
(* reported, and the answer is the same.                                    *)
UnpackFails(t) ==
  /\ handler[t] \in {"unpack", "write"}
  /\ Tell(t, "Error")
  /\ Becomes(t, "reply")
  /\ entry' = [entry EXCEPT ![t] = 0]
  /\ UNCHANGED <<senderVars, wire, home, disk, serverVars>>

Unpacked(t) ==
  /\ handler[t] = "unpack" /\ entry[t] = Len(Entries[t])
  /\ Tell(t, "Received")
  /\ Becomes(t, "reply")
  /\ entry' = [entry EXCEPT ![t] = 0]
  /\ UNCHANGED <<senderVars, wire, home, disk, serverVars>>

(* write_response, 200 in either case. *)
Reply(t) ==
  /\ handler[t] = "reply"
  /\ Becomes(t, "none")
  /\ wire' = [wire EXCEPT ![t] = IF @ = "request" THEN "response" ELSE @]
  /\ UNCHANGED <<senderVars, home, entry, disk, serverVars, newsVars>>

-----------------------------------------------------------------------------
(* The network. *)

(* It breaks a connection: a task that still reads gives up, and one that   *)
(* has its request goes on.                                                 *)
Cut(t) ==
  /\ t \in Fragile /\ wire[t] \in {"request", "response", "silent"}
  /\ wire' = [wire EXCEPT ![t] = "cut"]
  /\ UNCHANGED handler \/ (handler[t] \in {"ask", "upload", "stuck"} /\ Becomes(t, "none"))
  /\ UNCHANGED <<senderVars, home, entry, disk, serverVars, newsVars>>

(* It carries nothing more, and tells neither end: the other host sleeps or *)
(* is out of range.  A task without all of its request waits for the rest.  *)
Silence(t) ==
  /\ t \in Fragile /\ wire[t] \in {"request", "response"}
  /\ wire' = [wire EXCEPT ![t] = "silent"]
  /\ UNCHANGED handler \/ (handler[t] \in {"ask", "upload"} /\ Becomes(t, "stuck"))
  /\ UNCHANGED <<senderVars, home, entry, disk, serverVars, newsVars>>

-----------------------------------------------------------------------------
(* The receiver's applet and its servers. *)

(* Message::Tick in the receiver's applet: drain_background. *)
Drain ==
  /\ listening # NoServer /\ \E t \in Transfers : coming[t] # {}
  /\ heard' = [t \in Transfers |-> heard[t] \cup coming[t]]
  /\ coming' = [t \in Transfers |-> {}]
  /\ UNCHANGED <<senderVars, wire, home, taskVars, serverVars>>

(* The receiver's user presses Stop or closes the popup: the server is told *)
(* and its channel is dropped, with the events that no tick has taken.      *)
Stop ==
  /\ listening # NoServer
  /\ server' = [server EXCEPT ![listening] = IF @ = "up" THEN "stopping" ELSE "over"]
  /\ listening' = NoServer
  /\ coming' = [t \in Transfers |-> {}]
  /\ UNCHANGED <<senderVars, wire, home, taskVars, heard>>

(* The accept loop sees the stop, and the listener is closed. *)
SeeStop(s) ==
  /\ server[s] = "stopping"
  /\ server' = [server EXCEPT ![s] = "over"]
  /\ UNCHANGED <<senderVars, wire, home, taskVars, listening, newsVars>>

\* Erroneous: the connection outlives its task.
DropSilently(t) ==
  /\ home[t] \in Servers /\ server[home[t]] = "over"
  /\ handler[t] \in {"ask", "upload", "reply", "stuck"}
  /\ Becomes(t, "none")
  /\ UNCHANGED <<senderVars, wire, home, entry, disk, serverVars, newsVars>>

(* The runtime of a server that is over drops every task where it waits; it *)
(* waits itself for those that unpack, while the next server may be up.     *)
Drop(t) ==
  /\ home[t] \in Servers /\ server[home[t]] = "over"
  /\ handler[t] \in {"ask", "upload", "reply", "stuck"}
  /\ Becomes(t, "none")
  /\ wire' = [wire EXCEPT ![t] = IF @ = "request" THEN "cut" ELSE @]
  /\ UNCHANGED <<senderVars, home, entry, disk, serverVars, newsVars>>

(* Start.  While the server before still listens, the new one gets the next *)
(* port, or none: senders are told of the configured port and miss it.  It  *)
(* binds in its own thread (Receiving); no sender meets it before that.     *)
Start(s) ==
  /\ listening = NoServer
  /\ server[s] = "none" /\ \A r \in 1 .. s - 1 : server[r] # "none"
  /\ server' = [server EXCEPT ![s] =
                  IF \E r \in Servers : server[r] = "stopping" THEN "aside" ELSE "up"]
  /\ listening' = s
  /\ UNCHANGED <<senderVars, wire, home, taskVars, newsVars>>

-----------------------------------------------------------------------------
Sender(t) == Connect(t) \/ Refused(t) \/ Answered(t) \/ BrokenOff(t)
Handler(t) ==
  \/ HandleAsk(t) \/ HandleUpload(t) \/ Create(t) \/ Write(t)
  \/ UnpackFails(t) \/ Unpacked(t) \/ Reply(t) \/ Drop(t)

Next ==
  \/ Tick \/ Drain \/ Stop
  \/ \E s \in Servers : SeeStop(s) \/ Start(s)
  \/ \E t \in Transfers : BeginSend(t) \/ Sender(t) \/ Handler(t) \/ Cut(t) \/ Silence(t)

Spec == Init /\ [][Next]_vars

(* Threads and tasks run, and the sender's timer fires. *)
Fairness ==
  /\ WF_vars(Tick)
  /\ \A s \in Servers : WF_vars(SeeStop(s))
  /\ \A t \in Transfers : WF_vars(Sender(t)) /\ WF_vars(Handler(t))
FairSpec == Spec /\ Fairness

-----------------------------------------------------------------------------
(* Properties *)

TypeOK ==
  /\ sending \in Transfers \cup {NoTransfer} /\ shown \in SUBSET Transfers
  /\ sender \in [Transfers -> {"idle", "ask", "upload", "done"}]
  /\ outcome \in [Transfers -> {Pending, "success", "error"}]
  /\ wire \in [Transfers -> {"none", "request", "response", "silent", "cut"}]
  /\ handler \in [Transfers -> {"none", "ask", "upload", "stuck", "unpack", "write", "reply"}]
  /\ home \in [Transfers -> Servers \cup {NoServer}]
  /\ entry \in [Transfers -> Nat] /\ \A t \in Transfers : entry[t] <= Len(Entries[t])
  /\ disk \in [Names -> [by : Transfers \cup {NoTransfer}, whole : BOOLEAN]]
  /\ server \in [Servers -> {"none", "up", "aside", "stopping", "over"}]
  /\ listening \in Servers \cup {NoServer}
  /\ coming \in [Transfers -> SUBSET Events] /\ heard \in [Transfers -> SUBSET Events]

(* What the receiver's user knows of a transfer, or will at the next tick   *)
(* unless the receiver is stopped before.                                   *)
News(t) == heard[t] \cup coming[t]

(* A client that waits for an answer, without a timeout, on a connection    *)
(* that still carries has a task that works for it (client.rs send_post;    *)
(* server.rs handle_connection).                                            *)
WaitIsServed == \A t \in Transfers : wire[t] = "request" => handler[t] \notin {"none", "stuck"}

(* What was reported as saved is on the disk, whole, unless a transfer with *)
(* a file of the same name has since begun to write that (server.rs         *)
(* extract_upload).                                                         *)
ReportedIsSaved ==
  \A t \in Transfers : "Received" \in News(t) =>
    \A i \in DOMAIN Entries[t] :
      LET d == disk[Entries[t][i]] IN
        /\ d.by # NoTransfer
        /\ d.by = t => d.whole

(* When a sender was told of success, the user of a receiver that has not   *)
(* stopped the server of that upload since knows how it ended: that all of  *)
(* the archive was unpacked, or that it could not be, which the answer does *)
(* not tell apart.  One who pressed Stop meanwhile may know of neither      *)
(* (app.rs begin_send, stop_server; server.rs handle_connection).           *)
SuccessIsHandled ==
  \A t \in Transfers :
    outcome[t] = "success" /\ Reaches(t) => News(t) \cap Endings # {}

(* The outcome of the transfer that was begun last is shown in the end,     *)
(* unless its connection is silent for ever (app.rs begin_send,             *)
(* drain_background).                                                       *)
OutcomeShown ==
  <>[](sending \in Transfers => sending \in shown \/ wire[sending] = "silent")

(* Every transfer that is begun ends, the ones the window has forgotten     *)
(* too, unless its connection is silent for ever: send_post waits without a *)
(* timeout, so a stop, a drop, a break or a failure on either side must     *)
(* reach it (app.rs begin_send; client.rs send_post).  A transfer is begun  *)
(* once, so that from some time on none is on its way.                      *)
EveryTransferEnds ==
  <>[](\A t \in Transfers : sender[t] \in {"ask", "upload"} => wire[t] = "silent")

(* The abstract specification: the sender sees its thread, and its message  *)
(* once that has ended; the receiver hears the events of the tasks whose    *)
(* server's channel it holds.                                               *)
SenderSees(t) ==
  CASE sender[t] = "idle" -> "idle"
    [] sender[t] \in {"ask", "upload"} -> "sending"
    [] OTHER -> outcome[t]
Promise == INSTANCE TransferPromise
  WITH told <- [t \in Transfers |-> SenderSees(t)],
       reach <- {t \in Transfers : Reaches(t)}

(* What the two users are told of the transfers, over two connections each, *)
(* with breaks, stops and restarts, is what the abstract specification      *)
(* allows: each event comes in its turn and once, a stop drops what was not *)
(* taken, and success is told after the ending, or after a stop that came   *)
(* between (app.rs begin_send, stop_server; server.rs handle_connection).   *)
KeepsPromise == Promise!Spec
===============================================================================
