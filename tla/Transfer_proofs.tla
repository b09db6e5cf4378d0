---------------------------- MODULE Transfer_proofs ----------------------------
(***************************************************************************)
(* Proofs about Transfer: for any transfers, archives, breaks, stops and    *)
(* starts, what the two users are told agrees with what was done, and is    *)
(* what TransferPromise promises.                                           *)
(***************************************************************************)
EXTENDS Transfer, TLAPS

Unpacking == {"unpack", "write"}

(* The window holds the channel of the server that is up, or of one aside.  *)
ServersOK ==
  /\ \A s \in Servers : server[s] \in {"up", "aside"} => listening = s
  /\ listening # NoServer => server[listening] \in {"up", "aside"}
  /\ \A r, s \in Servers : server[r] = "stopping" => server[s] # "up"

(* The upload of t has reached a task: the sender waits for it or has gone. *)
Uploading(t) == sender[t] = "done" \/ (sender[t] = "upload" /\ wire[t] # "none")

(* The task that serves a connection serves the request its sender waits    *)
(* for, on a server that has accepted it, and a connection without a        *)
(* request has none.                                                        *)
Served(t) ==
  /\ wire[t] = "request" => handler[t] \notin {"none", "stuck"}
  /\ (wire[t] \in {"request", "silent"} /\ handler[t] = "ask") => sender[t] = "ask"
  /\ wire[t] # "none" => sender[t] \in {"ask", "upload"}
  /\ wire[t] = "response" => handler[t] = "none"
  /\ (wire[t] = "none" /\ sender[t] # "done") => handler[t] = "none"
  /\ handler[t] \in {"upload", "unpack", "write"} => Uploading(t)
  /\ home[t] \in Servers => server[home[t]] \in {"up", "stopping", "over"}

(* The receiver knows the end, if its events still reach it.                *)
Ended(t) == Reaches(t) => News(t) \cap Endings # {}

(* How far the news are follows from where the sender and the task are: an  *)
(* ask is answered when it was told, an upload when its end was told.       *)
Told(t) ==
  /\ sender[t] = "idle" => News(t) = {}
  /\ (sender[t] = "ask" /\ wire[t] = "none") => News(t) = {}
  /\ handler[t] = "ask" => News(t) = {}
  /\ sender[t] = "ask" => News(t) \subseteq {"Ask"}
  /\ (sender[t] = "upload" /\ wire[t] = "none") => News(t) \subseteq {"Ask"}
  /\ handler[t] = "upload" => News(t) \subseteq {"Ask"}
  /\ handler[t] \in Unpacking => News(t) \cap Endings = {}
  /\ (handler[t] \in Unpacking /\ Reaches(t)) => "Accepted" \in News(t)
  /\ (sender[t] = "upload" /\ wire[t] = "request" /\ handler[t] = "reply") => Ended(t)
  /\ (sender[t] = "upload" /\ wire[t] = "response") => Ended(t)
  /\ outcome[t] = "success" => (Ended(t) /\ sender[t] = "done" /\ handler[t] = "none")
  /\ sender[t] = "done" => outcome[t] # Pending

(* The entry a task writes has been created, and what it unpacked before is *)
(* whole, unless it has the same name, or another task took that.           *)
Writes(t) ==
  handler[t] = "write" =>
    entry[t] < Len(Entries[t]) /\ disk[Current(t)].by # NoTransfer
Kept(t, i) ==
  /\ disk[Entries[t][i]].by # NoTransfer
  /\ disk[Entries[t][i]].by = t =>
       \/ disk[Entries[t][i]].whole = TRUE
       \/ handler[t] = "write" /\ Entries[t][i] = Current(t)
Unpacks(t) == handler[t] \in Unpacking => \A i \in 1 .. entry[t] : Kept(t, i)
Saved(t) ==
  "Received" \in News(t) =>
    \A i \in 1 .. Len(Entries[t]) :
      /\ disk[Entries[t][i]].by # NoTransfer
      /\ disk[Entries[t][i]].by = t => disk[Entries[t][i]].whole = TRUE

Disk(t) == Writes(t) /\ Unpacks(t) /\ Saved(t)

IInv == TypeOK /\ ServersOK /\ \A t \in Transfers : Served(t) /\ Told(t) /\ Disk(t)

USE EntriesAssumption, NoTransferAssumption, FragileAssumption, StartsAssumption

(* The entry a task has come to is a name. *)
LEMMA CurrentName ==
  ASSUME NEW t \in Transfers, entry[t] \in Nat, entry[t] < Len(Entries[t])
  PROVE  Current(t) \in Names
  BY DEF Current

(* A count of no entries is within any archive. *)
LEMMA NoEntries ==
  ASSUME NEW t \in Transfers, entry \in [Transfers -> Nat],
         \A u \in Transfers : entry[u] <= Len(Entries[u]),
         entry' = [entry EXCEPT ![t] = 0]
  PROVE  entry' \in [Transfers -> Nat] /\ \A u \in Transfers : entry'[u] <= Len(Entries[u])
<1>1. Len(Entries[t]) \in Nat
  OBVIOUS
<1> QED BY <1>1

(* No server is none of the servers, and the events differ. *)
LEMMA NoServerIsNone == NoServer \notin Servers
  BY DEF NoServer, Servers

LEMMA Kinds ==
  /\ Endings \subseteq Events /\ "Ask" \in Events /\ "Accepted" \in Events
  /\ "Received" \in Endings /\ "Error" \in Endings
  /\ "Ask" \notin Endings /\ "Accepted" \notin Endings
  BY DEF Endings, Events

(* What is told is added to the news, if it reaches the window. *)
LEMMA Tells ==
  ASSUME NEW t \in Transfers, NEW what \in Events, Tell(t, what), TypeOK
  PROVE  /\ coming' \in [Transfers -> SUBSET Events] /\ heard' = heard
         /\ \A u \in Transfers \ {t} : coming'[u] = coming[u]
         /\ News(t)' = IF Reaches(t) THEN News(t) \cup {what} ELSE News(t)
<1>1. coming \in [Transfers -> SUBSET Events] /\ heard' = heard
  BY DEF TypeOK, Tell
<1>2. CASE Reaches(t)
  <2>1. coming' = [coming EXCEPT ![t] = coming[t] \cup {what}]
    BY <1>2 DEF Tell
  <2>2. coming[t] \cup {what} \in SUBSET Events
    BY <1>1
  <2>3. coming' \in [Transfers -> SUBSET Events] /\ coming'[t] = coming[t] \cup {what}
        /\ \A u \in Transfers \ {t} : coming'[u] = coming[u]
    BY <1>1, <2>1, <2>2
  <2> QED BY <1>1, <1>2, <2>3 DEF News
<1>3. CASE ~Reaches(t)
  <2>1. coming' = coming
    BY <1>3 DEF Tell
  <2> QED BY <1>1, <1>3, <2>1 DEF News
<1> QED BY <1>2, <1>3

(* What another transfer's invariant depends on. *)
LEMMA Frame ==
  ASSUME NEW t \in Transfers, Served(t), Told(t),
         sender'[t] = sender[t], outcome'[t] = outcome[t], wire'[t] = wire[t],
         handler'[t] = handler[t], home'[t] = home[t],
         News(t)' \subseteq News(t), Reaches(t)' => Reaches(t) /\ News(t)' = News(t),
         home[t] \in Servers => server'[home[t]] \in {"up", "stopping", "over"}
  PROVE  Served(t)' /\ Told(t)'
<1>1. Served(t)'
  BY DEF Served, Uploading
<1>2. Ended(t) => Ended(t)'
  BY DEF Ended
<1>3. Told(t)'
  BY <1>2 DEF Told
<1> QED BY <1>1, <1>3

LEMMA DiskFrame ==
  ASSUME NEW t \in Transfers, Disk(t), disk' = disk,
         handler'[t] \in Unpacking => handler'[t] = handler[t] /\ entry'[t] = entry[t],
         "Received" \in News(t)' => "Received" \in News(t)
  PROVE  Disk(t)'
  BY DEF Disk, Writes, Unpacks, Saved, Kept, Current, Unpacking

LEMMA InitInv == Init => IInv
<1> SUFFICES ASSUME Init PROVE IInv
  OBVIOUS
<1>1. TypeOK
  BY DEF Init, TypeOK, Pending, Absent
<1>2. ServersOK
  BY DEF Init, ServersOK
<1>3. ASSUME NEW t \in Transfers PROVE Served(t) /\ Told(t) /\ Disk(t)
  <2>1. News(t) = {} /\ home[t] \notin Servers
    BY NoServerIsNone DEF Init, News
  <2> QED BY <2>1 DEF Init, Pending, Served, Told, Disk, Writes, Unpacks, Unpacking, Saved, Uploading
<1> QED BY <1>1, <1>2, <1>3 DEF IInv

(* The other transfers when a step concerns one and leaves the disk alone.  *)
LEMMA OthersKeep ==
  ASSUME IInv, NEW t \in Transfers, disk' = disk, UNCHANGED serverVars, heard' = heard,
         \A u \in Transfers \ {t} :
           /\ sender'[u] = sender[u] /\ outcome'[u] = outcome[u] /\ wire'[u] = wire[u]
           /\ handler'[u] = handler[u] /\ entry'[u] = entry[u] /\ home'[u] = home[u]
           /\ coming'[u] = coming[u]
  PROVE  ServersOK' /\ \A u \in Transfers \ {t} : Served(u)' /\ Told(u)' /\ Disk(u)'
<1>1. ServersOK'
  BY DEF IInv, ServersOK, serverVars
<1>2. ASSUME NEW u \in Transfers \ {t} PROVE Served(u)' /\ Told(u)' /\ Disk(u)'
  <2>1. Served(u) /\ Told(u) /\ Disk(u)
    BY DEF IInv
  <2>2. News(u)' = News(u) /\ Reaches(u)' = Reaches(u)
    BY DEF News, Reaches, serverVars
  <2>3. home[u] \in Servers => server'[home[u]] \in {"up", "stopping", "over"}
    BY <2>1 DEF Served, serverVars
  <2> QED BY <2>1, <2>2, <2>3, Frame, DiskFrame
<1> QED BY <1>1, <1>2

(* A step of a sender. *)
LEMMA SenderStep ==
  ASSUME IInv, NEW t \in Transfers, Sender(t)
  PROVE  IInv'
<1> USE DEF IInv
<1>1. Served(t) /\ Told(t) /\ Disk(t)
  OBVIOUS
<1>2. CASE Connect(t)
  <2>1. coming' = coming /\ heard' = heard /\ News(t)' = News(t)
    BY <1>2 DEF Connect, newsVars, News
  <2>3. TypeOK'
    BY <1>2, <2>1 DEF Connect, senderVars, taskVars, serverVars, newsVars, TypeOK, Pending
  <2>4. ServersOK' /\ \A u \in Transfers \ {t} : Served(u)' /\ Told(u)' /\ Disk(u)'
    BY <1>2, <2>1, OthersKeep DEF Connect, senderVars, taskVars, serverVars, newsVars, TypeOK
  <2>5. Served(t)'
    BY <1>2, <1>1 DEF Connect, senderVars, taskVars, serverVars, newsVars, TypeOK, Served, Uploading
  <2>6. Told(t)'
    BY <1>2, <1>1, <2>1 DEF Connect, senderVars, taskVars, serverVars, newsVars, TypeOK, Served, Told, Ended, Pending, Uploading, Unpacking
  <2>7. Disk(t)'
    BY <1>2, <1>1, <2>1, DiskFrame DEF Connect, senderVars, taskVars, serverVars, newsVars, TypeOK, Unpacking
  <2> QED BY <2>3, <2>4, <2>5, <2>6, <2>7
<1>3. CASE Refused(t)
  <2>1. coming' = coming /\ heard' = heard /\ News(t)' = News(t)
    BY <1>3 DEF Refused, newsVars, News
  <2>2. Reaches(t)' = Reaches(t)
    BY <1>3 DEF Refused, Reaches, serverVars
  <2>3. TypeOK'
    BY <1>3, <2>1 DEF Refused, Ends, senderVars, taskVars, serverVars, newsVars, TypeOK, Pending
  <2>4. ServersOK' /\ \A u \in Transfers \ {t} : Served(u)' /\ Told(u)' /\ Disk(u)'
    BY <1>3, <2>1, OthersKeep DEF Refused, Ends, senderVars, taskVars, serverVars, newsVars, TypeOK
  <2>5. Served(t)'
    BY <1>3, <1>1 DEF Refused, Ends, senderVars, taskVars, serverVars, newsVars, TypeOK, Served, Uploading
  <2>6. Told(t)'
    BY <1>3, <1>1, <2>1, <2>2 DEF Refused, Ends, senderVars, taskVars, serverVars, newsVars, TypeOK, Served, Told, Ended, Pending, Uploading, Unpacking
  <2>7. Disk(t)'
    BY <1>3, <1>1, <2>1, DiskFrame DEF Refused, Ends, senderVars, taskVars, serverVars, newsVars, TypeOK, Unpacking
  <2> QED BY <2>3, <2>4, <2>5, <2>6, <2>7
<1>4. CASE Answered(t)
  <2>1. coming' = coming /\ heard' = heard /\ News(t)' = News(t)
    BY <1>4 DEF Answered, newsVars, News
  <2>2. Reaches(t)' = Reaches(t)
    BY <1>4 DEF Answered, Reaches, serverVars
  <2>3. TypeOK'
    BY <1>4, <2>1 DEF Answered, Ends, senderVars, taskVars, serverVars, newsVars, TypeOK, Pending
  <2>4. ServersOK' /\ \A u \in Transfers \ {t} : Served(u)' /\ Told(u)' /\ Disk(u)'
    BY <1>4, <2>1, OthersKeep DEF Answered, Ends, senderVars, taskVars, serverVars, newsVars, TypeOK
  <2>5. Served(t)'
    BY <1>4, <1>1 DEF Answered, Ends, senderVars, taskVars, serverVars, newsVars, TypeOK, Served, Uploading
  <2>6. Told(t)'
    BY <1>4, <1>1, <2>1, <2>2 DEF Answered, Ends, senderVars, taskVars, serverVars, newsVars, TypeOK, Served, Told, Ended, Pending, Uploading, Unpacking
  <2>7. Disk(t)'
    BY <1>4, <1>1, <2>1, DiskFrame DEF Answered, Ends, senderVars, taskVars, serverVars, newsVars, TypeOK, Unpacking
  <2> QED BY <2>3, <2>4, <2>5, <2>6, <2>7
<1>5. CASE BrokenOff(t)
  <2>1. coming' = coming /\ heard' = heard /\ News(t)' = News(t)
    BY <1>5 DEF BrokenOff, newsVars, News
  <2>2. Reaches(t)' = Reaches(t)
    BY <1>5 DEF BrokenOff, Reaches, serverVars
  <2>3. TypeOK'
    BY <1>5, <2>1 DEF BrokenOff, Ends, senderVars, taskVars, serverVars, newsVars, TypeOK, Pending
  <2>4. ServersOK' /\ \A u \in Transfers \ {t} : Served(u)' /\ Told(u)' /\ Disk(u)'
    BY <1>5, <2>1, OthersKeep DEF BrokenOff, Ends, senderVars, taskVars, serverVars, newsVars, TypeOK
  <2>5. Served(t)'
    BY <1>5, <1>1 DEF BrokenOff, Ends, senderVars, taskVars, serverVars, newsVars, TypeOK, Served, Uploading
  <2>6. Told(t)'
    BY <1>5, <1>1, <2>1, <2>2 DEF BrokenOff, Ends, senderVars, taskVars, serverVars, newsVars, TypeOK, Served, Told, Ended, Pending, Uploading, Unpacking
  <2>7. Disk(t)'
    BY <1>5, <1>1, <2>1, DiskFrame DEF BrokenOff, Ends, senderVars, taskVars, serverVars, newsVars, TypeOK, Unpacking
  <2> QED BY <2>3, <2>4, <2>5, <2>6, <2>7
<1> QED BY <1>2, <1>3, <1>4, <1>5 DEF Sender

(* A step of a task of the server. *)
LEMMA HandlerStep ==
  ASSUME IInv, NEW t \in Transfers, Handler(t)
  PROVE  IInv'
<1> USE DEF IInv
<1>1. Served(t) /\ Told(t) /\ Disk(t)
  OBVIOUS
<1>2. CASE HandleAsk(t)
  <2>1. /\ coming' \in [Transfers -> SUBSET Events] /\ heard' = heard
        /\ \A u \in Transfers \ {t} : coming'[u] = coming[u]
        /\ News(t)' = IF Reaches(t) THEN News(t) \cup {"Ask"} ELSE News(t)
    BY <1>2, Kinds, Tells DEF HandleAsk
  <2>2. Reaches(t)' = Reaches(t)
    BY <1>2 DEF HandleAsk, Reaches, serverVars
  <2>3. TypeOK'
    BY <1>2, <2>1 DEF HandleAsk, Becomes, senderVars, taskVars, serverVars, newsVars, TypeOK
  <2>4. ServersOK' /\ \A u \in Transfers \ {t} : Served(u)' /\ Told(u)' /\ Disk(u)'
    BY <1>2, <2>1, OthersKeep DEF HandleAsk, Becomes, senderVars, taskVars, serverVars, newsVars, TypeOK
  <2>5. Served(t)'
    BY <1>2, <1>1 DEF HandleAsk, Becomes, senderVars, taskVars, serverVars, newsVars, TypeOK, Served, Uploading
  <2>6. Told(t)'
    BY <1>2, <1>1, <2>1, <2>2, Kinds DEF HandleAsk, Becomes, senderVars, taskVars, serverVars, newsVars, TypeOK, Served, Told, Ended, Pending, Uploading, Unpacking
  <2>7. Disk(t)'
    BY <1>2, <1>1, <2>1, DiskFrame DEF HandleAsk, Becomes, senderVars, taskVars, serverVars, newsVars, TypeOK, Unpacking
  <2> QED BY <2>3, <2>4, <2>5, <2>6, <2>7
<1>3. CASE HandleUpload(t)
  <2>1. /\ coming' \in [Transfers -> SUBSET Events] /\ heard' = heard
        /\ \A u \in Transfers \ {t} : coming'[u] = coming[u]
        /\ News(t)' = IF Reaches(t) THEN News(t) \cup {"Accepted"} ELSE News(t)
    BY <1>3, Kinds, Tells DEF HandleUpload
  <2>2. Reaches(t)' = Reaches(t)
    BY <1>3 DEF HandleUpload, Reaches, serverVars
  <2>3. TypeOK'
    BY <1>3, <2>1, NoEntries DEF HandleUpload, Becomes, senderVars, serverVars, newsVars, TypeOK
  <2>4. ServersOK' /\ \A u \in Transfers \ {t} : Served(u)' /\ Told(u)' /\ Disk(u)'
    BY <1>3, <2>1, OthersKeep DEF HandleUpload, Becomes, senderVars, taskVars, serverVars, newsVars, TypeOK
  <2>5. Served(t)'
    BY <1>3, <1>1 DEF HandleUpload, Becomes, senderVars, taskVars, serverVars, newsVars, TypeOK, Served, Uploading
  <2>6. Told(t)'
    BY <1>3, <1>1, <2>1, <2>2, Kinds DEF HandleUpload, Becomes, senderVars, taskVars, serverVars, newsVars, TypeOK, Served, Told, Ended, Pending, Uploading, Unpacking
  <2>7. Disk(t)'
    BY <1>3, <1>1, <2>1, Kinds DEF HandleUpload, Becomes, TypeOK, Disk, Writes, Unpacks, Saved, Told
  <2> QED BY <2>3, <2>4, <2>5, <2>6, <2>7
<1>4. CASE Create(t)
  <2>1. /\ UNCHANGED <<home, serverVars, newsVars>> /\ ServersOK'
        /\ \A u \in Transfers : News(u)' = News(u) /\ Reaches(u)' = Reaches(u)
    BY <1>4 DEF Create, serverVars, newsVars, News, Reaches, ServersOK
  <2> DEFINE f == Current(t)
  <2>5. entry[t] < Len(Entries[t]) /\ f \in Names /\ f = Entries[t][entry[t] + 1]
    BY <1>4, CurrentName DEF Create, TypeOK, Current
  <2>6. /\ UNCHANGED <<senderVars, wire, home, entry, serverVars, newsVars>>
        /\ handler[t] = "unpack" /\ handler' = [handler EXCEPT ![t] = "write"]
        /\ disk' = [disk EXCEPT ![f] = [by |-> t, whole |-> FALSE]]
    BY <1>4 DEF Create, Becomes
  <2>7. disk'[f].by = t /\ \A g \in Names \ {f} : disk'[g] = disk[g]
    BY <2>5, <2>6 DEF TypeOK
  <2>8. TypeOK'
    BY <2>1, <2>5, <2>6 DEF TypeOK, senderVars, serverVars, newsVars
  <2>9. ASSUME NEW u \in Transfers \ {t} PROVE Served(u)' /\ Told(u)'
    <3>1. Served(u) /\ Told(u)
      BY <2>9
    <3>2. home[u] \in Servers => server'[home[u]] \in {"up", "stopping", "over"}
      BY <2>1, <3>1 DEF Served, serverVars
    <3> QED BY <2>1, <2>6, <3>1, <3>2, Frame DEF TypeOK, senderVars
  <2>10. ASSUME NEW u \in Transfers \ {t} PROVE Disk(u)'
    <3>1. Disk(u) /\ handler'[u] = handler[u] /\ entry'[u] = entry[u]
          /\ News(u)' = News(u)
      BY <2>1, <2>6 DEF TypeOK
    <3>2. \A i \in 1 .. Len(Entries[u]) : Entries[u][i] \in Names
      OBVIOUS
    <3>3. Writes(u)'
      BY <2>5, <2>6, <2>7, <3>1, <3>2 DEF Disk, Writes, Current, TypeOK
    <3>4. Unpacks(u)'
      BY <2>5, <2>6, <2>7, <3>1, <3>2 DEF Disk, Unpacks, Kept, Current, TypeOK, Unpacking
    <3>5. Saved(u)'
      BY <2>5, <2>6, <2>7, <3>1, <3>2 DEF Disk, Saved, TypeOK
    <3> QED BY <3>3, <3>4, <3>5 DEF Disk
  <2>11. Served(t)' /\ Told(t)'
    BY <1>1, <2>1, <2>6 DEF TypeOK, senderVars, serverVars, newsVars, Served, Told, Ended, Uploading, Unpacking
  <2>12. Disk(t)'
    <3>1. \A i \in 1 .. Len(Entries[t]) : Entries[t][i] \in Names
      OBVIOUS
    <3>2. Current(t)' = f /\ entry'[t] = entry[t] /\ handler'[t] = "write"
      BY <2>6 DEF Current, TypeOK
    <3>3. Writes(t)'
      BY <2>5, <2>7, <3>2 DEF Writes
    <3>4. Unpacks(t)'
      <4> SUFFICES ASSUME NEW i \in 1 .. entry[t] PROVE Kept(t, i)'
        BY <3>2 DEF Unpacks
      <4>1. Kept(t, i) /\ i \in 1 .. Len(Entries[t]) /\ handler[t] # "write"
        BY <1>1, <2>5, <2>6 DEF Disk, Unpacks, Unpacking, TypeOK
      <4>2. CASE Entries[t][i] = f
        BY <2>7, <3>2, <4>2 DEF Kept
      <4>3. CASE Entries[t][i] # f
        BY <2>7, <3>1, <4>1, <4>3 DEF Kept
      <4> QED BY <4>2, <4>3
    <3>5. "Received" \notin News(t)'
      BY <1>1, <2>1, <2>6, Kinds DEF Told, Unpacking
    <3> QED BY <3>3, <3>4, <3>5 DEF Disk, Saved
  <2> QED BY <2>1, <2>8, <2>9, <2>10, <2>11, <2>12
<1>5. CASE Write(t)
  <2>1. /\ UNCHANGED <<home, serverVars, newsVars>> /\ ServersOK'
        /\ \A u \in Transfers : News(u)' = News(u) /\ Reaches(u)' = Reaches(u)
    BY <1>5 DEF Write, serverVars, newsVars, News, Reaches, ServersOK
  <2> DEFINE f == Current(t)
  <2>5. /\ entry[t] < Len(Entries[t]) /\ f \in Names /\ f = Entries[t][entry[t] + 1]
        /\ disk[f].by # NoTransfer /\ entry[t] \in Nat
    BY <1>5, <1>1, CurrentName DEF Write, TypeOK, Current, Disk, Writes
  <2>6. /\ UNCHANGED <<senderVars, wire, home, serverVars, newsVars>>
        /\ handler[t] = "write" /\ handler' = [handler EXCEPT ![t] = "unpack"]
        /\ entry' = [entry EXCEPT ![t] = entry[t] + 1]
        /\ disk' = Written(t, f)
    BY <1>5 DEF Write, Becomes
  <2>7. /\ \A g \in Names : disk'[g].by = disk[g].by
        /\ \A g \in Names : disk[g].whole = TRUE => disk'[g].whole = TRUE
        /\ disk[f].by = t => disk'[f].whole = TRUE
        /\ disk' \in [Names -> [by : Transfers \cup {NoTransfer}, whole : BOOLEAN]]
    <3>1. CASE disk[f].by = t
      <4> DEFINE d == [disk[f] EXCEPT !.whole = TRUE]
      <4>1. disk' = [disk EXCEPT ![f] = d]
        BY <2>6, <3>1 DEF Written
      <4>2. /\ disk[f] \in [by : Transfers \cup {NoTransfer}, whole : BOOLEAN]
            /\ disk \in [Names -> [by : Transfers \cup {NoTransfer}, whole : BOOLEAN]]
        BY <2>5 DEF TypeOK
      <4>3. d.by = t /\ d.whole = TRUE
            /\ d \in [by : Transfers \cup {NoTransfer}, whole : BOOLEAN]
        BY <3>1, <4>2
      <4> HIDE DEF d
      <4>4. disk'[f] = d /\ \A g \in Names \ {f} : disk'[g] = disk[g]
        BY <2>5, <4>1, <4>2
      <4>5. disk' \in [Names -> [by : Transfers \cup {NoTransfer}, whole : BOOLEAN]]
        BY <2>5, <4>1, <4>2, <4>3
      <4>6. ASSUME NEW g \in Names
            PROVE  disk'[g].by = disk[g].by /\ (disk[g].whole = TRUE => disk'[g].whole = TRUE)
        <5>1. CASE g = f
          BY <3>1, <4>3, <4>4, <5>1
        <5>2. CASE g # f
          BY <4>4, <5>2
        <5> QED BY <5>1, <5>2
      <4> QED BY <4>3, <4>4, <4>5, <4>6
    <3>2. CASE disk[f].by # t
      <4>1. disk' = disk
        BY <2>6, <3>2 DEF Written
      <4> QED BY <3>2, <4>1 DEF TypeOK
    <3> QED BY <3>1, <3>2
  <2>8. TypeOK'
    BY <2>1, <2>5, <2>6, <2>7 DEF TypeOK, senderVars, serverVars, newsVars
  <2>9. ASSUME NEW u \in Transfers \ {t} PROVE Served(u)' /\ Told(u)'
    <3>1. Served(u) /\ Told(u)
      BY <2>9
    <3>2. home[u] \in Servers => server'[home[u]] \in {"up", "stopping", "over"}
      BY <2>1, <3>1 DEF Served, serverVars
    <3> QED BY <2>1, <2>6, <3>1, <3>2, Frame DEF TypeOK, senderVars
  <2>10. ASSUME NEW u \in Transfers \ {t} PROVE Disk(u)'
    <3>1. Disk(u) /\ handler'[u] = handler[u] /\ entry'[u] = entry[u]
          /\ News(u)' = News(u)
      BY <2>1, <2>6 DEF TypeOK
    <3>2. \A i \in 1 .. Len(Entries[u]) : Entries[u][i] \in Names
      OBVIOUS
    <3>3. entry[u] \in Nat /\ entry[u] <= Len(Entries[u]) /\ Current(u)' = Current(u)
      BY <3>1 DEF TypeOK, Current
    <3>4. Writes(u)'
      BY <2>7, <3>1, <3>3, CurrentName DEF Disk, Writes
    <3>5. Unpacks(u)'
      <4> SUFFICES ASSUME handler[u] \in Unpacking, NEW i \in 1 .. entry[u]
                   PROVE  Kept(u, i)'
        BY <3>1 DEF Unpacks
      <4>1. Kept(u, i) /\ Entries[u][i] \in Names
        BY <3>1, <3>2, <3>3 DEF Disk, Unpacks
      <4>2. CASE handler[u] = "write" /\ Entries[u][i] = Current(u)
        BY <2>7, <3>1, <3>3, <4>1, <4>2 DEF Kept
      <4>3. CASE ~(handler[u] = "write" /\ Entries[u][i] = Current(u))
        BY <2>7, <3>1, <3>3, <4>1, <4>3 DEF Kept
      <4> QED BY <4>2, <4>3
    <3>6. Saved(u)'
      BY <2>7, <3>1, <3>2 DEF Disk, Saved
    <3> QED BY <3>4, <3>5, <3>6 DEF Disk
  <2>11. Served(t)' /\ Told(t)'
    BY <1>1, <2>1, <2>6 DEF TypeOK, senderVars, serverVars, newsVars, Served, Told, Ended, Uploading, Unpacking
  <2>12. Disk(t)'
    <3>1. \A i \in 1 .. Len(Entries[t]) : Entries[t][i] \in Names
      OBVIOUS
    <3>2. entry'[t] = entry[t] + 1 /\ handler'[t] = "unpack"
      BY <2>6 DEF TypeOK
    <3>3. Unpacks(t)'
      <4> SUFFICES ASSUME NEW i \in 1 .. entry[t] + 1 PROVE Kept(t, i)'
        BY <3>2 DEF Unpacks
      <4>1. CASE Entries[t][i] = f
        BY <2>5, <2>7, <4>1 DEF Kept
      <4>2. CASE Entries[t][i] # f
        <5>1. i \in 1 .. entry[t] /\ i \in 1 .. Len(Entries[t])
          BY <2>5, <4>2
        <5>2. Kept(t, i)
          BY <1>1, <2>6, <5>1 DEF Disk, Unpacks, Unpacking
        <5> QED BY <2>7, <3>1, <4>2, <5>1, <5>2 DEF Kept
      <4> QED BY <4>1, <4>2
    <3>4. "Received" \notin News(t)'
      BY <1>1, <2>1, <2>6, Kinds DEF Told, Unpacking
    <3> QED BY <3>2, <3>3, <3>4 DEF Disk, Saved, Writes
  <2> QED BY <2>1, <2>8, <2>9, <2>10, <2>11, <2>12
<1>6. CASE UnpackFails(t)
  <2>1. /\ coming' \in [Transfers -> SUBSET Events] /\ heard' = heard
        /\ \A u \in Transfers \ {t} : coming'[u] = coming[u]
        /\ News(t)' = IF Reaches(t) THEN News(t) \cup {"Error"} ELSE News(t)
    BY <1>6, Kinds, Tells DEF UnpackFails
  <2>2. Reaches(t)' = Reaches(t)
    BY <1>6 DEF UnpackFails, Reaches, serverVars
  <2>3. TypeOK'
    BY <1>6, <2>1, NoEntries DEF UnpackFails, Becomes, senderVars, serverVars, newsVars, TypeOK
  <2>4. ServersOK' /\ \A u \in Transfers \ {t} : Served(u)' /\ Told(u)' /\ Disk(u)'
    BY <1>6, <2>1, OthersKeep DEF UnpackFails, Becomes, senderVars, taskVars, serverVars, newsVars, TypeOK
  <2>5. Served(t)'
    BY <1>6, <1>1 DEF UnpackFails, Becomes, senderVars, taskVars, serverVars, newsVars, TypeOK, Served, Uploading
  <2>6. Told(t)'
    BY <1>6, <1>1, <2>1, <2>2, Kinds DEF UnpackFails, Becomes, senderVars, taskVars, serverVars, newsVars, TypeOK, Served, Told, Ended, Pending, Uploading, Unpacking
  <2>7. Disk(t)'
    BY <1>6, <1>1, <2>1, DiskFrame DEF UnpackFails, Becomes, senderVars, taskVars, serverVars, newsVars, TypeOK, Unpacking
  <2> QED BY <2>3, <2>4, <2>5, <2>6, <2>7
<1>7. CASE Unpacked(t)
  <2>1. /\ coming' \in [Transfers -> SUBSET Events] /\ heard' = heard
        /\ \A u \in Transfers \ {t} : coming'[u] = coming[u]
        /\ News(t)' = IF Reaches(t) THEN News(t) \cup {"Received"} ELSE News(t)
    BY <1>7, Kinds, Tells DEF Unpacked
  <2>2. Reaches(t)' = Reaches(t)
    BY <1>7 DEF Unpacked, Reaches, serverVars
  <2>3. TypeOK'
    BY <1>7, <2>1, NoEntries DEF Unpacked, Becomes, senderVars, serverVars, newsVars, TypeOK
  <2>4. ServersOK' /\ \A u \in Transfers \ {t} : Served(u)' /\ Told(u)' /\ Disk(u)'
    BY <1>7, <2>1, OthersKeep DEF Unpacked, Becomes, senderVars, taskVars, serverVars, newsVars, TypeOK
  <2>5. Served(t)'
    BY <1>7, <1>1 DEF Unpacked, Becomes, senderVars, taskVars, serverVars, newsVars, TypeOK, Served, Uploading
  <2>6. Told(t)'
    BY <1>7, <1>1, <2>1, <2>2, Kinds DEF Unpacked, Becomes, senderVars, taskVars, serverVars, newsVars, TypeOK, Served, Told, Ended, Pending, Uploading, Unpacking
  <2>7. \A i \in 1 .. Len(Entries[t]) :
          /\ disk[Entries[t][i]].by # NoTransfer
          /\ disk[Entries[t][i]].by = t => disk[Entries[t][i]].whole = TRUE
    BY <1>7, <1>1 DEF Unpacked, Disk, Unpacks, Unpacking, Kept
  <2>8. Disk(t)'
    BY <1>7, <2>7 DEF Unpacked, Becomes, TypeOK, Disk, Writes, Unpacks, Unpacking, Saved
  <2> QED BY <2>3, <2>4, <2>5, <2>6, <2>8
<1>8. CASE Reply(t)
  <2>1. coming' = coming /\ heard' = heard /\ News(t)' = News(t)
    BY <1>8 DEF Reply, newsVars, News
  <2>2. Reaches(t)' = Reaches(t)
    BY <1>8 DEF Reply, Reaches, serverVars
  <2>3. TypeOK'
    BY <1>8, <2>1 DEF Reply, Becomes, senderVars, taskVars, serverVars, newsVars, TypeOK
  <2>4. ServersOK' /\ \A u \in Transfers \ {t} : Served(u)' /\ Told(u)' /\ Disk(u)'
    BY <1>8, <2>1, OthersKeep DEF Reply, Becomes, senderVars, taskVars, serverVars, newsVars, TypeOK
  <2>5. Served(t)'
    BY <1>8, <1>1 DEF Reply, Becomes, senderVars, taskVars, serverVars, newsVars, TypeOK, Served, Uploading
  <2>6. Told(t)'
    BY <1>8, <1>1, <2>1, <2>2, Kinds DEF Reply, Becomes, senderVars, taskVars, serverVars, newsVars, TypeOK, Served, Told, Ended, Pending, Uploading, Unpacking
  <2>7. Disk(t)'
    BY <1>8, <1>1, <2>1, DiskFrame DEF Reply, Becomes, senderVars, taskVars, serverVars, newsVars, TypeOK, Unpacking
  <2> QED BY <2>3, <2>4, <2>5, <2>6, <2>7
<1>9. CASE Drop(t)
  <2>1. coming' = coming /\ heard' = heard /\ News(t)' = News(t)
    BY <1>9 DEF Drop, newsVars, News
  <2>2. Reaches(t)' = Reaches(t)
    BY <1>9 DEF Drop, Reaches, serverVars
  <2>3. TypeOK'
    BY <1>9, <2>1 DEF Drop, Becomes, senderVars, taskVars, serverVars, newsVars, TypeOK
  <2>4. ServersOK' /\ \A u \in Transfers \ {t} : Served(u)' /\ Told(u)' /\ Disk(u)'
    BY <1>9, <2>1, OthersKeep DEF Drop, Becomes, senderVars, taskVars, serverVars, newsVars, TypeOK
  <2>5. Served(t)'
    BY <1>9, <1>1 DEF Drop, Becomes, senderVars, taskVars, serverVars, newsVars, TypeOK, Served, Uploading
  <2>6. Told(t)'
    BY <1>9, <1>1, <2>1, <2>2, Kinds DEF Drop, Becomes, senderVars, taskVars, serverVars, newsVars, TypeOK, Served, Told, Ended, Pending, Uploading, Unpacking
  <2>7. Disk(t)'
    BY <1>9, <1>1, <2>1, DiskFrame DEF Drop, Becomes, senderVars, taskVars, serverVars, newsVars, TypeOK, Unpacking
  <2> QED BY <2>3, <2>4, <2>5, <2>6, <2>7
<1> QED BY <1>2, <1>3, <1>4, <1>5, <1>6, <1>7, <1>8, <1>9 DEF Handler

(* The network breaks a connection. *)
LEMMA CutStep ==
  ASSUME IInv, NEW t \in Transfers, Cut(t)
  PROVE  IInv'
<1> USE DEF IInv
<1>1. Served(t) /\ Told(t) /\ Disk(t)
  OBVIOUS
<1>2. /\ coming' = coming /\ heard' = heard /\ disk' = disk /\ entry' = entry
      /\ News(t)' = News(t) /\ Reaches(t)' = Reaches(t)
  BY DEF Cut, senderVars, taskVars, serverVars, newsVars, News, Reaches
<1>3. TypeOK'
  BY <1>2 DEF Cut, Becomes, senderVars, taskVars, serverVars, newsVars, TypeOK
<1>4. ServersOK' /\ \A u \in Transfers \ {t} : Served(u)' /\ Told(u)' /\ Disk(u)'
  BY <1>2, OthersKeep DEF Cut, Becomes, senderVars, taskVars, serverVars, newsVars, TypeOK
<1>5. Served(t)'
  BY <1>1 DEF Cut, Becomes, senderVars, taskVars, serverVars, newsVars, TypeOK, Served, Uploading
<1>6. Told(t)'
  BY <1>1, <1>2 DEF Cut, Becomes, senderVars, taskVars, serverVars, newsVars, TypeOK, Served, Told, Ended, Uploading, Unpacking, Pending
<1>7. Disk(t)'
  BY <1>1, <1>2, DiskFrame DEF Cut, Becomes, senderVars, taskVars, serverVars, newsVars, TypeOK, Unpacking
<1> QED BY <1>3, <1>4, <1>5, <1>6, <1>7

(* The network goes silent. *)
LEMMA SilenceStep ==
  ASSUME IInv, NEW t \in Transfers, Silence(t)
  PROVE  IInv'
<1> USE DEF IInv
<1>1. Served(t) /\ Told(t) /\ Disk(t)
  OBVIOUS
<1>2. /\ coming' = coming /\ heard' = heard /\ disk' = disk /\ entry' = entry
      /\ News(t)' = News(t) /\ Reaches(t)' = Reaches(t)
  BY DEF Silence, senderVars, taskVars, serverVars, newsVars, News, Reaches
<1>3. TypeOK'
  BY <1>2 DEF Silence, Becomes, senderVars, taskVars, serverVars, newsVars, TypeOK
<1>4. ServersOK' /\ \A u \in Transfers \ {t} : Served(u)' /\ Told(u)' /\ Disk(u)'
  BY <1>2, OthersKeep DEF Silence, Becomes, senderVars, taskVars, serverVars, newsVars, TypeOK
<1>5. Served(t)'
  BY <1>1 DEF Silence, Becomes, senderVars, taskVars, serverVars, newsVars, TypeOK, Served, Uploading
<1>6. Told(t)'
  BY <1>1, <1>2 DEF Silence, Becomes, senderVars, taskVars, serverVars, newsVars, TypeOK, Served, Told, Ended, Uploading, Unpacking, Pending
<1>7. Disk(t)'
  BY <1>1, <1>2, DiskFrame DEF Silence, Becomes, senderVars, taskVars, serverVars, newsVars, TypeOK, Unpacking
<1> QED BY <1>3, <1>4, <1>5, <1>6, <1>7

(* The user begins a transfer. *)
LEMMA BeginSendStep ==
  ASSUME IInv, NEW t \in Transfers, BeginSend(t)
  PROVE  IInv'
<1> USE DEF IInv
<1>1. Served(t) /\ Told(t) /\ Disk(t)
  OBVIOUS
<1>2. /\ coming' = coming /\ heard' = heard /\ disk' = disk /\ entry' = entry
      /\ News(t)' = News(t) /\ Reaches(t)' = Reaches(t)
  BY DEF BeginSend, senderVars, taskVars, serverVars, newsVars, News, Reaches
<1>3. TypeOK'
  BY <1>2 DEF BeginSend, senderVars, taskVars, serverVars, newsVars, TypeOK
<1>4. ServersOK' /\ \A u \in Transfers \ {t} : Served(u)' /\ Told(u)' /\ Disk(u)'
  BY <1>2, OthersKeep DEF BeginSend, senderVars, taskVars, serverVars, newsVars, TypeOK
<1>5. Served(t)'
  BY <1>1 DEF BeginSend, senderVars, taskVars, serverVars, newsVars, TypeOK, Served, Uploading
<1>6. Told(t)'
  BY <1>1, <1>2 DEF BeginSend, senderVars, taskVars, serverVars, newsVars, TypeOK, Served, Told, Ended, Uploading, Unpacking, Pending
<1>7. Disk(t)'
  BY <1>1, <1>2, DiskFrame DEF BeginSend, senderVars, taskVars, serverVars, newsVars, TypeOK, Unpacking
<1> QED BY <1>3, <1>4, <1>5, <1>6, <1>7

(* A step of the receiver's applet or of a server: the news of a transfer   *)
(* stay, or fewer of them reach a window that has stopped.                  *)
LEMMA ReceiverKeeps ==
  ASSUME IInv, TypeOK', ServersOK',
         UNCHANGED <<sender, outcome, wire, handler, home, entry, disk>>,
         \A t \in Transfers :
           /\ News(t)' \subseteq News(t)
           /\ Reaches(t)' => Reaches(t) /\ News(t)' = News(t)
           /\ home[t] \in Servers => server'[home[t]] \in {"up", "stopping", "over"}
  PROVE  IInv'
<1>1. ASSUME NEW t \in Transfers PROVE Served(t)' /\ Told(t)' /\ Disk(t)'
  <2>1. Served(t) /\ Told(t) /\ Disk(t)
    BY DEF IInv
  <2> QED BY <2>1, Frame, DiskFrame
<1> QED BY <1>1 DEF IInv

LEMMA DrainStep ==
  ASSUME IInv, Drain
  PROVE  IInv' /\ \A t \in Transfers : News(t)' = News(t)
<1>1. TypeOK' /\ ServersOK'
  BY DEF IInv, TypeOK, ServersOK, Drain, senderVars, taskVars, serverVars
<1>2. ASSUME NEW t \in Transfers PROVE News(t)' = News(t) /\ Reaches(t)' = Reaches(t)
  BY DEF News, Reaches, Drain, serverVars
<1>3. ASSUME NEW t \in Transfers
      PROVE  home[t] \in Servers => server'[home[t]] \in {"up", "stopping", "over"}
  BY DEF IInv, Served, Drain, serverVars
<1>4. UNCHANGED <<sender, outcome, wire, handler, home, entry, disk>>
  BY DEF Drain, senderVars, taskVars
<1> QED BY <1>1, <1>2, <1>3, <1>4, ReceiverKeeps

LEMMA StopStep ==
  ASSUME IInv, Stop
  PROVE  IInv'
<1>1. listening \in Servers /\ server[listening] \in {"up", "aside"}
      /\ server \in [Servers -> {"none", "up", "aside", "stopping", "over"}]
  BY DEF Stop, IInv, TypeOK, ServersOK
<1>2. /\ listening' = NoServer /\ coming' = [t \in Transfers |-> {}] /\ heard' = heard
      /\ server' = [server EXCEPT ![listening] = IF server[listening] = "up" THEN "stopping" ELSE "over"]
  BY DEF Stop
<1>3. TypeOK'
  BY <1>1, <1>2 DEF IInv, TypeOK, Stop, senderVars, taskVars
<1>4. ServersOK'
  BY <1>1, <1>2 DEF IInv, ServersOK
<1>5. ASSUME NEW t \in Transfers
      PROVE  /\ News(t)' \subseteq News(t) /\ ~Reaches(t)'
             /\ home[t] \in Servers => server'[home[t]] \in {"up", "stopping", "over"}
  <2>1. News(t)' \subseteq News(t)
    BY <1>2 DEF News
  <2>2. ~Reaches(t)'
    BY <1>2, NoServerIsNone DEF Reaches
  <2>3. home[t] \in Servers => server'[home[t]] \in {"up", "stopping", "over"}
    BY <1>1, <1>2 DEF IInv, Served
  <2> QED BY <2>1, <2>2, <2>3
<1>6. UNCHANGED <<sender, outcome, wire, handler, home, entry, disk>>
  BY DEF Stop, senderVars, taskVars
<1> QED BY <1>3, <1>4, <1>5, <1>6, ReceiverKeeps

LEMMA SeeStopStep ==
  ASSUME IInv, NEW s \in Servers, SeeStop(s)
  PROVE  IInv'
<1>1. /\ server[s] = "stopping" /\ server' = [server EXCEPT ![s] = "over"]
      /\ server \in [Servers -> {"none", "up", "aside", "stopping", "over"}]
      /\ listening' = listening /\ UNCHANGED newsVars
  BY DEF SeeStop, IInv, TypeOK
<1>2. TypeOK'
  BY <1>1 DEF IInv, TypeOK, SeeStop, senderVars, taskVars, newsVars
<1>3. ServersOK'
  <2>1. listening # NoServer => listening \in Servers /\ listening # s
    BY <1>1 DEF IInv, TypeOK, ServersOK
  <2> QED BY <1>1, <2>1 DEF IInv, ServersOK
<1>4. ASSUME NEW t \in Transfers
      PROVE  /\ News(t)' = News(t) /\ Reaches(t)' = Reaches(t)
             /\ home[t] \in Servers => server'[home[t]] \in {"up", "stopping", "over"}
  <2>1. News(t)' = News(t) /\ Reaches(t)' = Reaches(t)
    BY <1>1 DEF SeeStop, News, Reaches, newsVars
  <2>2. home[t] \in Servers => server'[home[t]] \in {"up", "stopping", "over"}
    BY <1>1 DEF IInv, Served
  <2> QED BY <2>1, <2>2
<1>5. UNCHANGED <<sender, outcome, wire, handler, home, entry, disk>>
  BY DEF SeeStop, senderVars, taskVars
<1> QED BY <1>2, <1>3, <1>4, <1>5, ReceiverKeeps

LEMMA StartStep ==
  ASSUME IInv, NEW s \in Servers, Start(s)
  PROVE  IInv' /\ \A t \in Transfers : ~Reaches(t) /\ ~Reaches(t)'
<1>1. /\ server[s] = "none" /\ listening = NoServer /\ listening' = s
      /\ server \in [Servers -> {"none", "up", "aside", "stopping", "over"}]
      /\ UNCHANGED newsVars
  BY DEF Start, IInv, TypeOK
<1>2. PICK where \in {"up", "aside"} :
        /\ server' = [server EXCEPT ![s] = where]
        /\ where = "up" => \A r \in Servers : server[r] # "stopping"
  BY DEF Start
<1>3. TypeOK'
  BY <1>1, <1>2 DEF IInv, TypeOK, Start, senderVars, taskVars, newsVars
<1>4. ServersOK'
  <2>1. \A r \in Servers : server[r] \notin {"up", "aside"}
    BY <1>1, NoServerIsNone DEF IInv, ServersOK
  <2> QED BY <1>1, <1>2, <2>1 DEF ServersOK
<1>5. ASSUME NEW t \in Transfers
      PROVE  /\ News(t)' = News(t) /\ ~Reaches(t) /\ ~Reaches(t)'
             /\ home[t] \in Servers => server'[home[t]] \in {"up", "stopping", "over"}
  <2>1. News(t)' = News(t) /\ home' = home
    BY <1>1 DEF Start, News, newsVars
  <2>2. home[t] \in Servers => home[t] # s
    BY <1>1 DEF IInv, Served
  <2>3. ~Reaches(t) /\ ~Reaches(t)'
    BY <1>1, <2>1, <2>2, NoServerIsNone DEF Reaches
  <2>4. home[t] \in Servers => server'[home[t]] \in {"up", "stopping", "over"}
    BY <1>1, <1>2, <2>2 DEF IInv, Served
  <2> QED BY <2>1, <2>3, <2>4
<1>6. UNCHANGED <<sender, outcome, wire, handler, home, entry, disk>>
  BY DEF Start, senderVars, taskVars
<1>7. IInv'
  BY <1>3, <1>4, <1>5, <1>6, ReceiverKeeps
<1> QED BY <1>5, <1>7

(* The steps of nobody's transfer. *)
LEMMA OtherStep ==
  ASSUME IInv, Tick \/ UNCHANGED vars
  PROVE  IInv'
<1>1. UNCHANGED <<sender, outcome, wire, home, taskVars, serverVars, newsVars>>
  BY DEF Tick, vars, senderVars
<1>2. TypeOK'
  BY <1>1 DEF IInv, TypeOK, Tick, vars, senderVars, taskVars, serverVars, newsVars
<1>3. ServersOK'
  BY <1>1 DEF IInv, ServersOK, serverVars
<1>4. ASSUME NEW t \in Transfers
      PROVE  /\ News(t)' = News(t) /\ Reaches(t)' = Reaches(t)
             /\ home[t] \in Servers => server'[home[t]] \in {"up", "stopping", "over"}
  BY <1>1 DEF IInv, Served, News, Reaches, serverVars, newsVars
<1> QED BY <1>1, <1>2, <1>3, <1>4, ReceiverKeeps DEF taskVars

(* Every step keeps the invariant. *)
LEMMA NextInv == IInv /\ [Next]_vars => IInv'
<1> SUFFICES ASSUME IInv, [Next]_vars PROVE IInv'
  OBVIOUS
<1>1. CASE Tick \/ Drain \/ Stop \/ UNCHANGED vars
  BY <1>1, OtherStep, DrainStep, StopStep
<1>2. ASSUME NEW s \in Servers, SeeStop(s) \/ Start(s) PROVE IInv'
  BY <1>2, SeeStopStep, StartStep
<1>3. ASSUME NEW t \in Transfers, BeginSend(t) \/ Sender(t) \/ Handler(t) \/ Cut(t) \/ Silence(t)
      PROVE  IInv'
  BY <1>3, BeginSendStep, SenderStep, HandlerStep, CutStep, SilenceStep
<1> QED BY <1>1, <1>2, <1>3 DEF Next

(* The invariant holds always. *)
LEMMA Invariance == Spec => []IInv
  BY InitInv, NextInv, PTL DEF Spec

(* The state is always of its type. *)
THEOREM TypeCorrect == Spec => []TypeOK
  BY Invariance, PTL DEF IInv

(* A client that waits for an answer always has a task of the server that   *)
(* works for it, however the receiver is stopped and started and whatever   *)
(* the network breaks, unless the connection is silent: it waits without a  *)
(* timeout (client.rs send_post; server.rs handle_connection).              *)
THEOREM WaitServed == Spec => []WaitIsServed
<1>1. IInv => WaitIsServed
  BY DEF IInv, Served, WaitIsServed
<1> QED BY <1>1, Invariance, PTL

(* When a sender was told of success, the receiver's user knows that the    *)
(* archive was unpacked or that this failed, or has stopped the server that *)
(* took it (app.rs begin_send, stop_server; server.rs handle_connection).   *)
THEOREM SuccessHandled == Spec => []SuccessIsHandled
<1>1. IInv => SuccessIsHandled
  BY DEF IInv, Told, Ended, SuccessIsHandled
<1> QED BY <1>1, Invariance, PTL

(* What the receiver's user was told is saved is on the disk and whole,     *)
(* unless a later transfer took the name, whatever transfers run at once    *)
(* (server.rs extract_upload).                                              *)
THEOREM ReportedSaved == Spec => []ReportedIsSaved
<1>1. IInv => ReportedIsSaved
  <2> SUFFICES ASSUME IInv, NEW t \in Transfers, "Received" \in News(t),
                      NEW i \in DOMAIN Entries[t]
               PROVE  /\ disk[Entries[t][i]].by # NoTransfer
                      /\ disk[Entries[t][i]].by = t => disk[Entries[t][i]].whole
    BY DEF ReportedIsSaved
  <2>1. i \in 1 .. Len(Entries[t])
    OBVIOUS
  <2> QED BY <2>1 DEF IInv, Disk, Saved
<1> QED BY <1>1, Invariance, PTL

-----------------------------------------------------------------------------
(* Transfer implements TransferPromise. *)

Sees == [t \in Transfers |-> SenderSees(t)]
Reached == {t \in Transfers : Reaches(t)}

LEMMA InitPromise == Init => Promise!Init
<1> SUFFICES ASSUME Init PROVE Promise!Init
  OBVIOUS
<1>1. \A t \in Transfers : SenderSees(t) = "idle" /\ ~Reaches(t)
  BY NoServerIsNone DEF Init, SenderSees, Reaches
<1>2. coming = Promise!Nothing /\ heard = Promise!Nothing
  BY DEF Init, Promise!Nothing
<1> QED BY <1>1, <1>2 DEF Promise!Init

(* What the senders see when the threads and their messages stay.           *)
LEMMA SameSees ==
  ASSUME sender' = sender, outcome' = outcome
  PROVE  Sees' = Sees
  BY DEF Sees, SenderSees

LEMMA OneSees ==
  ASSUME NEW t \in Transfers,
         \A u \in Transfers \ {t} : sender'[u] = sender[u] /\ outcome'[u] = outcome[u]
  PROVE  Sees' = [Sees EXCEPT ![t] = SenderSees(t)']
<1>1. \A u \in Transfers \ {t} : SenderSees(u)' = SenderSees(u)
  BY DEF SenderSees
<1> QED BY <1>1 DEF Sees

(* Whom the receiver hears when its window and the tasks' servers stay.     *)
LEMMA SameReached ==
  ASSUME \A t \in Transfers : Reaches(t)' = Reaches(t)
  PROVE  Reached' = Reached
  BY DEF Reached

(* A step that neither tells anything nor changes whom the receiver hears.  *)
LEMMA Stutters ==
  ASSUME sender' = sender, outcome' = outcome, UNCHANGED newsVars,
         \A t \in Transfers : Reaches(t)' = Reaches(t)
  PROVE  UNCHANGED Promise!vars
  BY SameSees, SameReached DEF Promise!vars, Sees, Reached, newsVars

(* A sender meets the listening server, or one that was told to stop: then  *)
(* the receiver did not hear of it before either.                           *)
LEMMA ConnectMeets ==
  ASSUME IInv, NEW t \in Transfers, Connect(t)
  PROVE  Promise!Next \/ UNCHANGED Promise!vars
<1>1. PICK s \in Servers :
        server[s] \in {"up", "stopping"} /\ home' = [home EXCEPT ![t] = s]
  BY DEF Connect
<1>2. /\ sender' = sender /\ outcome' = outcome /\ UNCHANGED newsVars
      /\ listening' = listening /\ sender[t] \in {"ask", "upload"}
      /\ home'[t] = s /\ \A u \in Transfers \ {t} : home'[u] = home[u]
  BY <1>1 DEF Connect, senderVars, serverVars, IInv, TypeOK
<1>3. \A u \in Transfers \ {t} : Reaches(u)' = Reaches(u)
  BY <1>2 DEF Reaches
<1>4. CASE listening = s
  <2>1. Reached' = Reached \cup {t}
    BY <1>2, <1>3, <1>4 DEF Reached, Reaches
  <2>2. Sees' = Sees /\ Sees[t] = "sending"
    BY <1>2, SameSees DEF Sees, SenderSees
  <2>3. Promise!Meet(t)
    BY <1>2, <2>1, <2>2 DEF Promise!Meet, Sees, Reached, newsVars
  <2> QED BY <2>3 DEF Promise!Next
<1>5. CASE listening # s
  <2>1. server[s] = "stopping"
    BY <1>1, <1>5 DEF IInv, ServersOK
  <2>2. ~Reaches(t)
    <3> SUFFICES ASSUME Reaches(t) PROVE FALSE
      OBVIOUS
    <3>1. home[t] \in Servers /\ listening = home[t]
      BY DEF Reaches
    <3>2. server[home[t]] \in {"up", "aside"} /\ server[home[t]] \in {"up", "stopping", "over"}
      BY <3>1, NoServerIsNone DEF IInv, ServersOK, Served
    <3> QED BY <2>1, <3>1, <3>2 DEF IInv, ServersOK
  <2>3. ~Reaches(t)'
    BY <1>2, <1>5 DEF Reaches
  <2>4. Reaches(t)' = Reaches(t)
    BY <2>2, <2>3 DEF Reaches
  <2> QED BY <1>2, <1>3, <2>4, Stutters
<1> QED BY <1>4, <1>5

(* An event is told when it is next, or reaches nobody. *)
LEMMA TellStep ==
  ASSUME IInv, NEW t \in Transfers, NEW what \in Events, Tell(t, what),
         handler[t] # "none", sender[t] # "idle", outcome[t] # "success",
         Reaches(t) => Promise!Follows(what, News(t)),
         sender' = sender, outcome' = outcome, UNCHANGED <<home, serverVars>>
  PROVE  Promise!Next \/ UNCHANGED Promise!vars
<1>1. \A u \in Transfers : Reaches(u)' = Reaches(u)
  BY DEF Reaches, serverVars
<1>2. CASE ~Reaches(t)
  BY <1>1, <1>2, Stutters DEF Tell, newsVars
<1>3. CASE Reaches(t)
  <2>1. SenderSees(t) \in {"sending", "error"}
    <3>1. sender[t] \in {"ask", "upload", "done"} /\ outcome[t] \in {Pending, "error"}
      BY DEF IInv, TypeOK
    <3>2. sender[t] = "done" => outcome[t] # Pending
      BY DEF IInv, Told
    <3> QED BY <3>1, <3>2 DEF SenderSees
  <2>2. Sees' = Sees /\ Reached' = Reached
    BY <1>1, SameSees, SameReached
  <2>3. t \in Reached /\ Sees[t] \in {"sending", "error"}
    BY <1>3, <2>1 DEF Reached, Sees
  <2>4. heard' = heard /\ coming' = [coming EXCEPT ![t] = coming[t] \cup {what}]
    BY <1>3 DEF Tell
  <2>5. Promise!Tell(t, what)
    BY <1>3, <2>2, <2>3, <2>4 DEF Promise!Tell, Sees, Reached, News
  <2> QED BY <2>5 DEF Promise!Next, Promise!Endings, Events, Endings
<1> QED BY <1>2, <1>3

(* Every step of the transfers is a step of the promise, or none of it.     *)
LEMMA NextPromise == IInv /\ [Next]_vars => [Promise!Next]_(Promise!vars)
<1> SUFFICES ASSUME IInv, [Next]_vars PROVE Promise!Next \/ UNCHANGED Promise!vars
  OBVIOUS
<1>1. CASE Tick \/ UNCHANGED vars
  <2>1. sender' = sender /\ outcome' = outcome /\ UNCHANGED <<newsVars, home, serverVars>>
    BY <1>1 DEF Tick, vars, senderVars
  <2> QED BY <2>1, Stutters DEF Reaches, serverVars
<1>2. CASE Drain
  <2>1. Sees' = Sees /\ Reached' = Reached
    BY <1>2, SameSees, SameReached DEF Drain, senderVars, serverVars, Reaches
  <2>2. Promise!Hear
    BY <1>2, <2>1 DEF Drain, Promise!Hear, Promise!Nothing, Sees, Reached
  <2> QED BY <2>2 DEF Promise!Next
<1>3. CASE Stop
  <2>1. Sees' = Sees
    BY <1>3, SameSees DEF Stop, senderVars
  <2>2. Reached' = {}
    BY <1>3, NoServerIsNone DEF Stop, Reached, Reaches
  <2>3. Promise!Stop
    BY <1>3, <2>1, <2>2 DEF Stop, Promise!Stop, Promise!Nothing, Sees, Reached
  <2> QED BY <2>3 DEF Promise!Next
<1>4. ASSUME NEW s \in Servers, SeeStop(s) PROVE UNCHANGED Promise!vars
  BY <1>4, Stutters DEF SeeStop, senderVars, Reaches
<1>5. ASSUME NEW s \in Servers, Start(s) PROVE UNCHANGED Promise!vars
  <2>1. ASSUME NEW t \in Transfers PROVE Reaches(t)' = Reaches(t)
    <3>1. ~Reaches(t) /\ ~Reaches(t)'
      BY <1>5, StartStep
    <3> QED BY <3>1 DEF Reaches
  <2> QED BY <1>5, <2>1, Stutters DEF Start, senderVars
<1>6. ASSUME NEW t \in Transfers, Create(t) \/ Write(t) \/ Reply(t) \/ Drop(t) \/ Cut(t) \/ Silence(t)
      PROVE  UNCHANGED Promise!vars
  <2>1. sender' = sender /\ outcome' = outcome /\ UNCHANGED <<newsVars, home, serverVars>>
    BY <1>6 DEF Create, Write, Reply, Drop, Cut, Silence, senderVars
  <2> QED BY <2>1, Stutters DEF Reaches, serverVars
<1>7. ASSUME NEW t \in Transfers, BeginSend(t) PROVE Promise!Next
  <2>1. SenderSees(t) = "idle" /\ SenderSees(t)' = "sending"
    BY <1>7 DEF BeginSend, SenderSees, IInv, TypeOK
  <2>2. Sees' = [Sees EXCEPT ![t] = "sending"]
    BY <1>7, <2>1, OneSees DEF BeginSend, IInv, TypeOK
  <2>3. UNCHANGED newsVars /\ Reached' = Reached
    BY <1>7, SameReached DEF BeginSend, Reaches, serverVars
  <2>4. Promise!Begin(t)
    BY <2>1, <2>2, <2>3 DEF Promise!Begin, Sees, Reached, newsVars
  <2> QED BY <2>4 DEF Promise!Next
<1>8. ASSUME NEW t \in Transfers, Refused(t) \/ BrokenOff(t) PROVE Promise!Next
  <2>1. sender[t] \in {"ask", "upload"}
    BY <1>8 DEF Refused, BrokenOff, IInv, Served
  <2>2. SenderSees(t) = "sending" /\ SenderSees(t)' = "error"
    BY <1>8, <2>1 DEF Refused, BrokenOff, Ends, SenderSees, IInv, TypeOK
  <2>3. Sees' = [Sees EXCEPT ![t] = "error"]
    BY <1>8, <2>2, OneSees DEF Refused, BrokenOff, Ends, IInv, TypeOK
  <2>4. UNCHANGED newsVars /\ Reached' = Reached
    BY <1>8, SameReached DEF Refused, BrokenOff, Reaches, serverVars
  <2>5. Promise!Fail(t)
    BY <2>2, <2>3, <2>4 DEF Promise!Fail, Sees, Reached, newsVars
  <2> QED BY <2>5 DEF Promise!Next
<1>9. ASSUME NEW t \in Transfers, Answered(t) PROVE Promise!Next \/ UNCHANGED Promise!vars
  <2>1. sender[t] \in {"ask", "upload"}
    BY <1>9 DEF Answered, IInv, Served
  <2>2. UNCHANGED newsVars /\ Reached' = Reached
    BY <1>9, SameReached DEF Answered, Reaches, serverVars
  <2>3. CASE sender[t] = "ask"
    <3>1. SenderSees(t)' = SenderSees(t)
      BY <1>9, <2>3 DEF Answered, SenderSees, IInv, TypeOK
    <3>2. Sees' = [Sees EXCEPT ![t] = SenderSees(t)]
      BY <1>9, <2>3, <3>1, OneSees DEF Answered, IInv, TypeOK
    <3>3. Sees' = Sees
      BY <3>2 DEF Sees
    <3> QED BY <2>2, <3>3 DEF Promise!vars, Sees, Reached, newsVars
  <2>4. CASE sender[t] = "upload"
    <3>1. SenderSees(t) = "sending" /\ SenderSees(t)' = "success"
      BY <1>9, <2>4 DEF Answered, Ends, SenderSees, IInv, TypeOK
    <3>2. Sees' = [Sees EXCEPT ![t] = "success"]
      BY <1>9, <2>4, <3>1, OneSees DEF Answered, Ends, IInv, TypeOK
    <3>3. t \in Reached => (heard[t] \cup coming[t]) \cap Endings # {}
      BY <1>9, <2>4 DEF Answered, IInv, Told, Ended, Reached, News
    <3>4. Promise!Succeed(t)
      BY <2>2, <3>1, <3>2, <3>3 DEF Promise!Succeed, Promise!Endings, Endings, Sees, Reached, newsVars
    <3> QED BY <3>4 DEF Promise!Next
  <2> QED BY <2>1, <2>3, <2>4
<1>10. ASSUME NEW t \in Transfers, HandleAsk(t) \/ HandleUpload(t) \/ UnpackFails(t) \/ Unpacked(t)
       PROVE  Promise!Next \/ UNCHANGED Promise!vars
  <2>1. PICK what \in Events :
          Tell(t, what) /\ (Reaches(t) => Promise!Follows(what, News(t)))
    <3>1. CASE HandleAsk(t)
      BY <3>1, Kinds DEF HandleAsk, IInv, Told, Promise!Follows
    <3>2. CASE HandleUpload(t)
      BY <3>2, Kinds DEF HandleUpload, IInv, Told, Promise!Follows
    <3>3. CASE UnpackFails(t)
      BY <3>3, Kinds DEF UnpackFails, IInv, Told, Unpacking, Promise!Follows, Promise!Endings, Endings
    <3>4. CASE Unpacked(t)
      BY <3>4, Kinds DEF Unpacked, IInv, Told, Unpacking, Promise!Follows, Promise!Endings, Endings
    <3> QED BY <1>10, <3>1, <3>2, <3>3, <3>4
  <2>2. /\ sender' = sender /\ outcome' = outcome /\ UNCHANGED <<home, serverVars>>
        /\ handler[t] \in {"ask", "upload", "unpack", "write"}
    BY <1>10 DEF HandleAsk, HandleUpload, UnpackFails, Unpacked, senderVars
  <2>3. wire[t] = "none" => sender[t] = "done"
    BY <2>2 DEF IInv, Served
  <2>4. sender[t] # "idle"
    BY <2>3 DEF IInv, Served
  <2>5. outcome[t] # "success"
    BY <2>2 DEF IInv, Told
  <2> QED BY <2>1, <2>2, <2>4, <2>5, TellStep
<1> QED BY <1>1, <1>2, <1>3, <1>4, <1>5, <1>6, <1>7, <1>8, <1>9, <1>10, ConnectMeets DEF Next, Sender, Handler

(* Whatever runs at once, breaks, stops and starts, the two users are told  *)
(* of each transfer what TransferPromise says: the receiver hears the ask,  *)
(* the acceptance and one ending, in order and once each, as long as it     *)
(* does not stop, and the sender succeeds only after that ending or a stop  *)
(* (app.rs begin_send, stop_server; server.rs handle_connection).           *)
THEOREM TransferImplementsPromise == Spec => KeepsPromise
  BY InitPromise, NextPromise, Invariance, PTL DEF Spec, KeepsPromise, Promise!Spec
================================================================================
