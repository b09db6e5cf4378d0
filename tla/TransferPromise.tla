---------------------------- MODULE TransferPromise ----------------------------
(***************************************************************************)
(* What sending a file promises to the two users, with nothing of how it is *)
(* done: what the sender is told of a transfer and what the receiver is     *)
(* told of it (the messages of src/src/app.rs begin_send, the ServerEvents  *)
(* of src/src/server.rs), and what a stop of the receiver may drop of it.   *)
(***************************************************************************)
CONSTANTS
  Transfers   \* the transfers the user begins

VARIABLES
  told,       \* what the sender sees of each transfer
  reach,      \* the transfers whose events reach the receiver's window
  coming,     \* the events of each on their way to the Receive page
  heard       \* the events of each on the page

vars == <<told, reach, coming, heard>>

Nothing == [t \in Transfers |-> {}]
Endings == {"Received", "Error"}

Init ==
  /\ told = [t \in Transfers |-> "idle"]
  /\ reach = {} /\ coming = Nothing /\ heard = Nothing

Begin(t) ==
  /\ told[t] = "idle"
  /\ told' = [told EXCEPT ![t] = "sending"]
  /\ UNCHANGED <<reach, coming, heard>>

(* A sender that waits comes to a receiver that listens. *)
Meet(t) ==
  /\ told[t] = "sending"
  /\ reach' = reach \cup {t}
  /\ UNCHANGED <<told, coming, heard>>

(* The ask comes first, and once; the acceptance next, and once, perhaps    *)
(* after a stop that dropped the ask; one ending after the acceptance, and  *)
(* perhaps after the sender gave up.                                        *)
Follows(what, news) ==
  CASE what = "Ask" -> news = {}
    [] what = "Accepted" -> news \subseteq {"Ask"}
    [] OTHER -> "Accepted" \in news /\ news \cap Endings = {}

Tell(t, what) ==
  /\ t \in reach /\ told[t] \in {"sending", "error"}
  /\ Follows(what, heard[t] \cup coming[t])
  /\ coming' = [coming EXCEPT ![t] = @ \cup {what}]
  /\ UNCHANGED <<told, reach, heard>>

Hear ==
  /\ heard' = [t \in Transfers |-> heard[t] \cup coming[t]]
  /\ coming' = Nothing
  /\ UNCHANGED <<told, reach>>

(* The receiver stops: nothing of what runs now reaches it any more. *)
Stop ==
  /\ reach' = {} /\ coming' = Nothing
  /\ UNCHANGED <<told, heard>>

(* The sender may fail at any time, and succeeds only when the receiver     *)
(* knows the end, or has stopped.                                           *)
Fail(t) ==
  /\ told[t] = "sending"
  /\ told' = [told EXCEPT ![t] = "error"]
  /\ UNCHANGED <<reach, coming, heard>>

Succeed(t) ==
  /\ told[t] = "sending"
  /\ t \in reach => (heard[t] \cup coming[t]) \cap Endings # {}
  /\ told' = [told EXCEPT ![t] = "success"]
  /\ UNCHANGED <<reach, coming, heard>>

Next ==
  \/ Hear \/ Stop
  \/ \E t \in Transfers :
       \/ Begin(t) \/ Meet(t) \/ Fail(t) \/ Succeed(t)
       \/ \E what \in {"Ask", "Accepted"} \cup Endings : Tell(t, what)

Spec == Init /\ [][Next]_vars
===============================================================================
