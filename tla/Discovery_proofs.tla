--------------------------- MODULE Discovery_proofs ---------------------------
(***************************************************************************)
(* Theorems about Discovery, for any services, addresses and numbers of     *)
(* starts and changes: types, that the list of the window, brought up to    *)
(* date by the events under way, is the map of the browser, and that it     *)
(* shows the services that are there when no event is under way.  What the  *)
(* events add up to is a recursive function over a queue of any length; it  *)
(* is reasoned about by induction over the set of lengths for which a       *)
(* statement holds.                                                         *)
(***************************************************************************)
EXTENDS Discovery, SequenceTheorems, FiniteSetTheorems, WellFoundedInduction, TLAPS

-----------------------------------------------------------------------------
(* Replaying events. *)

\* Induction for a set: the smallest number outside would be a successor.
LEMMA Induction ==
  ASSUME NEW S, 0 \in S, \A i \in Nat : i \in S => i + 1 \in S
  PROVE  Nat \subseteq S
<1> DEFINE T == Nat \ S
<1> SUFFICES ASSUME T # {} PROVE FALSE
  OBVIOUS
<1>1. PICK x \in T : \A y \in T : ~ (<<y, x>> \in OpToRel(<, Nat))
  <2>1. T \subseteq Nat
    OBVIOUS
  <2> HIDE DEF T
  <2> QED BY <2>1, NatLessThanWellFounded, WFMin
<1>2. x \in Nat \ {0} /\ x - 1 \in Nat
  OBVIOUS
<1>3. \A y \in T : ~ (y < x)
  BY <1>1 DEF OpToRel
<1>4. x - 1 \in S
  BY <1>2, <1>3
<1> QED BY <1>2, <1>4

\* The list after each event, as Replay defines it.
Lists(list, evs, f) ==
  f = [i \in 0 .. Len(evs) |-> IF i = 0 THEN list ELSE Apply(f[i - 1], evs[i])]
Shown(list, evs) == CHOOSE f : Lists(list, evs, f)

LEMMA ReplayShown ==
  ASSUME NEW list, NEW evs
  PROVE  Replay(list, evs) = Shown(list, evs)[Len(evs)]
BY DEF Replay, Shown, Lists

LEMMA ShownExists ==
  ASSUME NEW list, NEW evs, Len(evs) \in Nat
  PROVE  Lists(list, evs, Shown(list, evs))
<1> DEFINE Upto(f, n) ==
             f = [i \in 0 .. n |-> IF i = 0 THEN list ELSE Apply(f[i - 1], evs[i])]
           S == {n \in Nat : \E f : Upto(f, n)}
<1>1. 0 \in S
  <2> DEFINE g == [i \in 0 .. 0 |-> list]
  <2>1. Upto(g, 0)
    OBVIOUS
  <2> HIDE DEF g, Upto
  <2> QED BY <2>1
<1>2. ASSUME NEW n \in Nat, n \in S PROVE n + 1 \in S
  <2>1. PICK f : Upto(f, n)
    BY <1>2
  <2> DEFINE g == [i \in 0 .. n + 1 |-> IF i = n + 1 THEN Apply(f[n], evs[n + 1]) ELSE f[i]]
  <2>2. \A i \in 0 .. n : g[i] = f[i]
    OBVIOUS
  <2>3. g[n + 1] = Apply(f[n], evs[n + 1])
    OBVIOUS
  <2>4. g = [i \in 0 .. n + 1 |-> g[i]]
    OBVIOUS
  <2>5. \A i \in 0 .. n + 1 : g[i] = IF i = 0 THEN list ELSE Apply(g[i - 1], evs[i])
    <3> SUFFICES ASSUME NEW i \in 0 .. n + 1
                 PROVE  g[i] = IF i = 0 THEN list ELSE Apply(g[i - 1], evs[i])
      OBVIOUS
    <3> HIDE DEF g
    <3>1. CASE i = n + 1
      <4>1. g[n] = f[n] /\ i # 0 /\ i - 1 = n
        BY <2>2, <3>1
      <4> QED BY <2>3, <3>1, <4>1
    <3>2. CASE i # n + 1
      <4>1. i \in 0 .. n /\ (i # 0 => i - 1 \in 0 .. n)
        BY <3>2
      <4>2. f[i] = IF i = 0 THEN list ELSE Apply(f[i - 1], evs[i])
        BY <2>1, <4>1
      <4> QED BY <2>2, <4>1, <4>2
    <3> QED BY <3>1, <3>2
  <2>6. Upto(g, n + 1)
    <3> HIDE DEF g
    <3> QED BY <2>4, <2>5
  <2> HIDE DEF g, Upto
  <2> QED BY <2>6
<1>3. Nat \subseteq S
  <2> HIDE DEF S
  <2> QED BY <1>1, <1>2, Induction
<1>4. \E f : Lists(list, evs, f)
  BY <1>3 DEF Lists
<1> QED BY <1>4 DEF Shown

\* The browser's events one by one are what drain_background takes at once.
LEMMA ReplayNothing ==
  ASSUME NEW list
  PROVE  Replay(list, <<>>) = list
<1>1. Len(<<>>) = 0
  OBVIOUS
<1>2. Lists(list, <<>>, Shown(list, <<>>))
  BY <1>1, ShownExists
<1> QED BY <1>1, <1>2, ReplayShown DEF Lists

LEMMA ReplayOneMore ==
  ASSUME NEW E, NEW list, NEW evs \in Seq(E), NEW ev \in E
  PROVE  Replay(list, Append(evs, ev)) = Apply(Replay(list, evs), ev)
<1> DEFINE n == Len(evs)
           more == Append(evs, ev)
           f == Shown(list, evs)
           g == Shown(list, more)
           S == {i \in Nat : i <= n => f[i] = g[i]}
<1>1. n \in Nat /\ Len(more) = n + 1 /\ more[n + 1] = ev /\ \A i \in 1 .. n : more[i] = evs[i]
  OBVIOUS
<1> HIDE DEF n, more
<1>2. f = [i \in 0 .. n |-> IF i = 0 THEN list ELSE Apply(f[i - 1], evs[i])]
  BY <1>1, ShownExists DEF Lists, n
<1>3. g = [i \in 0 .. n + 1 |-> IF i = 0 THEN list ELSE Apply(g[i - 1], more[i])]
  BY <1>1, ShownExists DEF Lists
<1> HIDE DEF f, g
<1>4. 0 \in S
  <2>1. f[0] = list
    BY <1>1, <1>2
  <2>2. g[0] = list
    BY <1>1, <1>3
  <2> QED BY <2>1, <2>2
<1>5. ASSUME NEW i \in Nat, i \in S PROVE i + 1 \in S
  <2> SUFFICES ASSUME i + 1 <= n PROVE f[i + 1] = g[i + 1]
    OBVIOUS
  <2>1. i + 1 \in 1 .. n /\ i + 1 \in 0 .. n /\ i + 1 \in 0 .. n + 1 /\ i + 1 # 0 /\ i + 1 - 1 = i
    BY <1>1
  <2>2. f[i + 1] = Apply(f[i], evs[i + 1])
    <3>1. \A j \in 0 .. n : f[j] = IF j = 0 THEN list ELSE Apply(f[j - 1], evs[j])
      BY <1>2
    <3> QED BY <2>1, <3>1
  <2>3. g[i + 1] = Apply(g[i], more[i + 1])
    <3>1. \A j \in 0 .. n + 1 : g[j] = IF j = 0 THEN list ELSE Apply(g[j - 1], more[j])
      BY <1>3
    <3> QED BY <2>1, <3>1
  <2>4. f[i] = g[i]
    BY <1>1, <1>5, <2>1
  <2> QED BY <1>1, <2>1, <2>2, <2>3, <2>4
<1>6. f[n] = g[n]
  <2>1. Nat \subseteq S
    <3> HIDE DEF S
    <3> QED BY <1>4, <1>5, Induction
  <2> QED BY <1>1, <2>1
<1>7. g[n + 1] = Apply(g[n], ev)
  <2>1. n + 1 \in 0 .. n + 1 /\ n + 1 # 0 /\ n + 1 - 1 = n
    BY <1>1
  <2> QED BY <1>1, <1>3, <2>1
<1>8. Replay(list, evs) = f[n] /\ Replay(list, more) = g[n + 1]
  BY <1>1, ReplayShown DEF f, g, n
<1> QED BY <1>6, <1>7, <1>8 DEF more

\* A list of entries stays one under the events of a browser.
GuiEvent ==
  [kind : {"found"}, id : Services, entry : Entry] \cup [kind : {"removed"}, id : Services]

LEMMA ListTypes ==
  ASSUME NEW list, IsEntries(list), NEW s \in Services
  PROVE  /\ IsEntries(Without(list, s))
         /\ \A e \in Entry : IsEntries(With(list, s, e)) /\ IsEntries(OrInsert(list, s, e))
<1>1. IsEntries(Without(list, s))
  BY DEF IsEntries, Without
<1>2. \A e \in Entry : IsEntries(With(list, s, e))
  BY DEF IsEntries, With
<1> QED BY <1>1, <1>2 DEF OrInsert

LEMMA ReplayType ==
  ASSUME NEW list, IsEntries(list), NEW evs \in Seq(GuiEvent)
  PROVE  IsEntries(Replay(list, evs))
<1> DEFINE n == Len(evs)
           f == Shown(list, evs)
           S == {i \in Nat : i <= n => IsEntries(f[i])}
<1>1. n \in Nat /\ \A i \in 1 .. n : evs[i] \in GuiEvent
  OBVIOUS
<1>2. \A i \in 0 .. n : f[i] = IF i = 0 THEN list ELSE Apply(f[i - 1], evs[i])
  <2>1. f = [i \in 0 .. n |-> IF i = 0 THEN list ELSE Apply(f[i - 1], evs[i])]
    BY <1>1, ShownExists DEF Lists
  <2> HIDE DEF f, n
  <2> QED BY <2>1
<1> HIDE DEF n, f
<1>3. 0 \in S
  <2>1. f[0] = list
    BY <1>1, <1>2
  <2> QED BY <2>1
<1>4. ASSUME NEW i \in Nat, i \in S PROVE i + 1 \in S
  <2> SUFFICES ASSUME i + 1 <= n PROVE IsEntries(f[i + 1])
    OBVIOUS
  <2>1. i + 1 \in 1 .. n /\ i + 1 \in 0 .. n /\ i + 1 # 0 /\ i + 1 - 1 = i /\ i <= n
    BY <1>1
  <2>2. f[i + 1] = Apply(f[i], evs[i + 1])
    BY <1>2, <2>1
  <2>3. IsEntries(f[i]) /\ evs[i + 1] \in GuiEvent
    BY <1>1, <1>4, <2>1
  <2> HIDE DEF S
  <2>4. CASE evs[i + 1].kind = "found"
    BY <2>2, <2>3, <2>4, ListTypes DEF Apply, GuiEvent
  <2>5. CASE evs[i + 1].kind # "found"
    BY <2>2, <2>3, <2>5, ListTypes DEF Apply, GuiEvent
  <2> QED BY <2>4, <2>5
<1>5. Nat \subseteq S
  <2> HIDE DEF S
  <2> QED BY <1>3, <1>4, Induction
<1> QED BY <1>1, <1>5, ReplayShown DEF n, f

-----------------------------------------------------------------------------
(* The inductive invariant. *)

MdnsEvent ==
  [kind : {"resolved"}, id : Services, address : Addresses] \cup [kind : {"lost"}, id : Services]

Queues ==
  /\ mdns \in [Starts -> Seq(MdnsEvent)] /\ events \in [Starts -> Seq(GuiEvent)]
  /\ DOMAIN probe = Starts

(* The browser that the GUI holds is the last one and was not told to stop; *)
(* what a start will use nothing has touched before it.                     *)
Handles ==
  /\ stop_sent \subseteq 1 .. starts /\ browser <= starts
  /\ browser # None => browser \notin stop_sent /\ task[browser] \in {"loop", "probe"}
  /\ \A n \in Starts : n > starts =>
       task[n] = "none" /\ map[n] = Nothing /\ events[n] = <<>>

(* The list shows what the map has, except the pending entry. *)
Agree(list, own, pending) ==
  /\ DOMAIN list \subseteq DOMAIN own
  /\ \A s \in DOMAIN list : list[s] = own[s]
  /\ DOMAIN own \ DOMAIN list \subseteq pending
Pending == IF task[browser] = "probe" THEN {probe[browser][1]} ELSE {}
ListAgrees == browser # None => Agree(Replay(receivers, events[browser]), map[browser], Pending)

IInv == TypeOK /\ Queues /\ Handles /\ ListAgrees

LEMMA AgreeSteps ==
  ASSUME NEW list, NEW own, NEW s, NEW e
  PROVE  /\ Agree(list, own, {}) => Agree(list, OrInsert(own, s, e), {s})
         /\ Agree(list, own, {}) => Agree(Without(list, s), Without(own, s), {})
         /\ Agree(list, own, {s}) => Agree(With(list, s, e), With(own, s, e), {})
<1>1. Agree(list, own, {}) => Agree(list, OrInsert(own, s, e), {s})
  BY DEF Agree, OrInsert, With
<1>2. Agree(list, own, {}) => Agree(Without(list, s), Without(own, s), {})
  BY DEF Agree, Without
<1>3. Agree(list, own, {s}) => Agree(With(list, s, e), With(own, s, e), {})
  BY DEF Agree, With
<1> QED BY <1>1, <1>2, <1>3

USE StartsAssumption, ChangesAssumption DEF None, Starts

LEMMA InitInv == Init => IInv
<1> SUFFICES ASSUME Init PROVE IInv
  OBVIOUS
<1>1. IsEntries(Nothing)
  BY DEF IsEntries, Nothing
<1>2. TypeOK
  BY <1>1, AtFirstAssumption DEF Init, TypeOK
<1>3. Queues
  BY DEF Init, Queues
<1> QED BY <1>2, <1>3 DEF Init, IInv, Handles, ListAgrees

LEMMA StartInv == IInv /\ StartDiscovery => IInv'
<1> SUFFICES ASSUME IInv, StartDiscovery PROVE IInv'
  OBVIOUS
<1> USE DEF IInv
<1> DEFINE n == starts + 1
<1>1. n \in Starts /\ starts \in Nat /\ n \notin stop_sent /\ n > starts
  BY DEF StartDiscovery, TypeOK, Handles
<1>2. /\ starts' = n /\ browser' = n /\ browser = None
      /\ task' = [task EXCEPT ![n] = "loop"] /\ receivers' = Nothing
      /\ UNCHANGED <<stop_sent, map, probe, events, world, changes>>
  BY DEF StartDiscovery, worldVars
<1>3. task[n] = "none" /\ map[n] = Nothing /\ events[n] = <<>>
  BY <1>1 DEF Handles
<1>4. mdns' \in [Starts -> Seq(MdnsEvent)]
  <2>1. PICK q \in Answers : mdns' = [mdns EXCEPT ![n] = q]
    BY DEF StartDiscovery
  <2>2. PICK p \in SetToSeqs(Present) : q = [i \in DOMAIN p |-> Resolved(p[i], world[p[i]])]
    BY <2>1 DEF Answers
  <2>3. Cardinality(Present) \in Nat
    <3>1. Present \subseteq Services
      BY DEF Present
    <3> QED BY <3>1, ServicesAssumption, FS_Subset, FS_CardinalityType
  <2>4. p \in [1 .. Cardinality(Present) -> Present]
    BY DEF SetToSeqs
  <2>5. \A s \in Present : Resolved(s, world[s]) \in MdnsEvent
    BY DEF Present, TypeOK, Resolved, MdnsEvent
  <2>6. q \in [1 .. Cardinality(Present) -> MdnsEvent]
    <3> HIDE DEF IInv
    <3>1. DOMAIN p = 1 .. Cardinality(Present)
      BY <2>4
    <3> DEFINE c == 1 .. Cardinality(Present)
    <3>2. \A i \in c : Resolved(p[i], world[p[i]]) \in MdnsEvent
      BY <2>4, <2>5
    <3> HIDE DEF c
    <3> QED BY <2>2, <3>1, <3>2 DEF c
  <2>7. q \in Seq(MdnsEvent)
    BY <2>3, <2>6
  <2> QED BY <2>1, <2>7, <1>1 DEF Queues
<1>5. IsEntries(receivers')
  BY <1>2 DEF IsEntries, Nothing
<1> HIDE DEF n
<1>6. TypeOK'
  <2>1. starts' \in 0 .. MaxStarts
    BY <1>1, <1>2
  <2>2. \A m \in Starts : task'[m] = "probe" <=> task[m] = "probe"
    BY <1>2, <1>3 DEF TypeOK
  <2>3. \A m \in Starts : IsEntries(map'[m])
    BY <1>2 DEF TypeOK, IsEntries
  <2> QED BY <1>1, <1>2, <1>5, <2>1, <2>2, <2>3 DEF TypeOK
<1>7. Queues'
  BY <1>2, <1>4 DEF Queues
<1>8. Handles'
  <2>1. stop_sent' \subseteq 1 .. starts'
    BY <1>1, <1>2 DEF Handles, n
  <2>2. task'[n] = "loop"
    BY <1>1, <1>2 DEF TypeOK
  <2>3. \A m \in Starts : m > starts' => m > starts /\ m # n
    BY <1>1, <1>2 DEF n
  <2>4. \A m \in Starts : m > starts' => task'[m] = task[m]
    BY <1>1, <1>2, <2>3 DEF TypeOK
  <2> QED BY <1>1, <1>2, <2>1, <2>2, <2>3, <2>4 DEF Handles, Nothing
<1>9. ListAgrees'
  <2>1. Replay(receivers', events'[browser']) = Nothing
    BY <1>2, <1>3, ReplayNothing
  <2>2. map'[browser'] = Nothing
    BY <1>2, <1>3
  <2>3. \A p : Agree(Nothing, Nothing, p)
    BY DEF Agree
  <2> QED BY <2>1, <2>2, <2>3 DEF ListAgrees, Agree, Pending
<1> QED BY <1>6, <1>7, <1>8, <1>9

LEMMA StopInv == IInv /\ StopDiscovery => IInv'
<1> SUFFICES ASSUME IInv, StopDiscovery PROVE IInv'
  OBVIOUS
<1> USE DEF IInv
<1>1. /\ browser \in Starts /\ stop_sent' = stop_sent \cup {browser} /\ browser' = None
      /\ events' = [events EXCEPT ![browser] = <<>>]
      /\ UNCHANGED <<receivers, starts, task, map, probe, mdns, world, changes>>
  BY DEF StopDiscovery, worldVars, TypeOK
<1>2. TypeOK'
  BY <1>1 DEF TypeOK, IsEntries
<1>3. Queues'
  BY <1>1 DEF Queues
<1>4. Handles'
  <2>1. browser <= starts /\ starts \in Nat /\ stop_sent' \subseteq 1 .. starts
    BY <1>1 DEF Handles, TypeOK
  <2>2. \A n \in Starts : events[n] = <<>> => events'[n] = <<>>
    BY <1>1 DEF Queues
  <2> QED BY <1>1, <2>1, <2>2 DEF Handles, Nothing
<1>5. ListAgrees'
  BY <1>1 DEF ListAgrees
<1> QED BY <1>2, <1>3, <1>4, <1>5

LEMMA TickInv == IInv /\ Tick => IInv'
<1> SUFFICES ASSUME IInv, Tick PROVE IInv'
  OBVIOUS
<1> USE DEF IInv
<1>1. /\ browser \in Starts /\ receivers' = Replay(receivers, events[browser])
      /\ events' = [events EXCEPT ![browser] = <<>>]
      /\ UNCHANGED <<browser, starts, task, stop_sent, map, probe, mdns, world, changes>>
  BY DEF Tick, worldVars, TypeOK
<1>2. IsEntries(receivers')
  <2>1. events[browser] \in Seq(GuiEvent) /\ IsEntries(receivers)
    BY <1>1 DEF Queues, TypeOK
  <2> QED BY <1>1, <2>1, ReplayType
<1>3. TypeOK'
  BY <1>1, <1>2 DEF TypeOK, IsEntries
<1>4. Queues'
  BY <1>1 DEF Queues
<1>5. Handles'
  BY <1>1 DEF Handles, Nothing, TypeOK, Queues
<1>6. ListAgrees'
  <2>1. events'[browser'] = <<>>
    BY <1>1 DEF Queues
  <2>2. Replay(receivers', events'[browser']) = Replay(receivers, events[browser])
    BY <1>1, <2>1, ReplayNothing
  <2>3. Pending' = Pending
    BY <1>1 DEF Pending
  <2>4. Agree(Replay(receivers, events[browser]), map[browser], Pending)
    BY <1>1 DEF ListAgrees
  <2> QED BY <1>1, <2>2, <2>3, <2>4 DEF ListAgrees, Agree
<1> QED BY <1>3, <1>4, <1>5, <1>6

LEMMA SendType ==
  ASSUME Queues, NEW n \in Starts, NEW ev \in GuiEvent
  PROVE  /\ Send(n, ev) \in [Starts -> Seq(GuiEvent)]
         /\ \A k \in Starts : k # browser => Send(n, ev)[k] = events[k]
<1>1. events \in [Starts -> Seq(GuiEvent)] /\ Append(events[n], ev) \in Seq(GuiEvent)
  BY DEF Queues
<1> QED BY <1>1 DEF Send

\* A turn of a browser's thread that leaves it with a map m and a queue q, and
\* sends events to the GUI's browser at most.
LEMMA EndTurnTypes ==
  ASSUME IInv, NEW n \in Starts, task[n] \in {"loop", "probe"}, NEW m, NEW q,
         EndTurn(n, m, q), IsEntries(m), q \in Seq(MdnsEvent),
         events' \in [Starts -> Seq(GuiEvent)],
         \A k \in Starts : k # browser => events'[k] = events[k],
         UNCHANGED guiVars, UNCHANGED stop_sent, UNCHANGED worldVars,
         DOMAIN probe' = Starts, probe'[n] = <<>>, \A k \in Starts \ {n} : probe'[k] = probe[k]
  PROVE  TypeOK' /\ Queues' /\ Handles'
<1> USE DEF IInv
<1>1. /\ task' = [task EXCEPT ![n] = IF n \in stop_sent THEN "ended" ELSE "loop"]
      /\ map' = [map EXCEPT ![n] = IF n \in stop_sent THEN Nothing ELSE m]
      /\ mdns' = [mdns EXCEPT ![n] = IF n \in stop_sent THEN <<>> ELSE q]
  BY DEF EndTurn
<1>2. UNCHANGED <<browser, receivers, starts, stop_sent, world, changes>>
  BY DEF guiVars, worldVars
<1>3. IsEntries(Nothing)
  BY DEF IsEntries, Nothing
<1>4. DOMAIN map' = Starts /\ \A k \in Starts : IsEntries(map'[k])
  BY <1>1, <1>3 DEF TypeOK
<1>5. /\ task' \in [Starts -> {"none", "loop", "probe", "ended"}] /\ task'[n] # "probe"
      /\ \A k \in Starts \ {n} : task'[k] = task[k] /\ map'[k] = map[k]
  BY <1>1 DEF TypeOK
<1>6. TypeOK'
  <2>1. \A k \in Starts :
          /\ task'[k] = "probe" =>
               probe'[k] \in Services \X Addresses /\ probe'[k][1] \in DOMAIN map'[k]
          /\ task'[k] # "probe" => probe'[k] = <<>>
    BY <1>5 DEF TypeOK
  <2> QED BY <1>2, <1>4, <1>5, <2>1 DEF TypeOK, IsEntries
<1>8. mdns' \in [Starts -> Seq(MdnsEvent)]
  <2>1. <<>> \in Seq(MdnsEvent)
    OBVIOUS
  <2> QED BY <1>1, <2>1 DEF Queues
<1>9. Queues'
  BY <1>8 DEF Queues
<1>10. Handles'
  <2>1. n <= starts
    <3>1. starts \in Nat /\ n \in Nat /\ task[n] # "none"
      BY DEF TypeOK
    <3> QED BY <3>1 DEF Handles
  <2>2. browser # None => task'[browser] \in {"loop", "probe"}
    BY <1>1, <1>5 DEF Handles, TypeOK
  <2>3. \A k \in Starts : k > starts => k # n /\ k # browser
    <3>1. browser \in Nat /\ starts \in Nat /\ browser <= starts
      BY DEF TypeOK, Handles
    <3> QED BY <2>1, <3>1
  <2> QED BY <1>2, <1>5, <2>2, <2>3 DEF Handles, Nothing
<1> QED BY <1>6, <1>9, <1>10

\* The thread of another start changes nothing the GUI will see.
LEMMA OthersAgree ==
  ASSUME IInv, NEW n \in Starts, n # browser, UNCHANGED guiVars,
         \A k \in Starts \ {n} : /\ task'[k] = task[k] /\ map'[k] = map[k]
                                 /\ probe'[k] = probe[k] /\ events'[k] = events[k]
  PROVE  ListAgrees'
<1>1. browser # None => browser \in Starts \ {n}
  BY DEF IInv, TypeOK
<1> QED BY <1>1 DEF IInv, ListAgrees, Agree, Pending, guiVars

LEMMA ResolvedInv ==
  ASSUME IInv, NEW n \in Starts, ServiceResolved(n)
  PROVE  IInv'
<1> USE DEF IInv
<1> DEFINE ev == Head(mdns[n])
           e == [address |-> ev.address, discoverable |-> FALSE]
<1>1. /\ task[n] = "loop" /\ mdns[n] # <<>> /\ ev.kind = "resolved"
      /\ map' = [map EXCEPT ![n] = OrInsert(@, ev.id, e)]
      /\ probe' = [probe EXCEPT ![n] = <<ev.id, ev.address>>]
      /\ mdns' = [mdns EXCEPT ![n] = Tail(@)]
      /\ task' = [task EXCEPT ![n] = "probe"]
      /\ UNCHANGED <<browser, receivers, starts, stop_sent, events, world, changes>>
  BY DEF ServiceResolved, guiVars, worldVars
<1>2. /\ ev \in MdnsEvent /\ Tail(mdns[n]) \in Seq(MdnsEvent)
  BY <1>1 DEF Queues
<1>3. ev.id \in Services /\ ev.address \in Addresses /\ e \in Entry
  BY <1>1, <1>2 DEF MdnsEvent, Entry
<1> HIDE DEF ev, e
<1> DEFINE own == OrInsert(map[n], ev.id, e)
<1>4. IsEntries(own) /\ ev.id \in DOMAIN own
  <2>1. IsEntries(map[n])
    BY DEF TypeOK
  <2>2. ev.id \in DOMAIN own
    BY DEF OrInsert, With
  <2> QED BY <1>3, <2>1, <2>2, ListTypes
<1>5. /\ map'[n] = own /\ probe'[n] = <<ev.id, ev.address>> /\ task'[n] = "probe"
      /\ DOMAIN map' = Starts /\ DOMAIN probe' = Starts
      /\ \A k \in Starts \ {n} : task'[k] = task[k] /\ map'[k] = map[k] /\ probe'[k] = probe[k]
  BY <1>1 DEF TypeOK, Queues
<1> HIDE DEF own
<1>6. TypeOK'
  <2>1. task' \in [Starts -> {"none", "loop", "probe", "ended"}]
    BY <1>1 DEF TypeOK
  <2>2. \A k \in Starts :
          /\ IsEntries(map'[k])
          /\ task'[k] = "probe" =>
               probe'[k] \in Services \X Addresses /\ probe'[k][1] \in DOMAIN map'[k]
          /\ task'[k] # "probe" => probe'[k] = <<>>
    <3> SUFFICES ASSUME NEW k \in Starts
                 PROVE  /\ IsEntries(map'[k])
                        /\ task'[k] = "probe" =>
                             probe'[k] \in Services \X Addresses /\ probe'[k][1] \in DOMAIN map'[k]
                        /\ task'[k] # "probe" => probe'[k] = <<>>
      OBVIOUS
    <3>1. CASE k = n
      <4>1. <<ev.id, ev.address>> \in Services \X Addresses /\ <<ev.id, ev.address>>[1] = ev.id
        BY <1>3
      <4> QED BY <1>4, <1>5, <3>1, <4>1
    <3>2. CASE k # n
      BY <1>5, <3>2 DEF TypeOK
    <3> QED BY <3>1, <3>2
  <2> QED BY <1>1, <1>5, <2>1, <2>2 DEF TypeOK, IsEntries
<1>7. Queues'
  BY <1>1, <1>2, <1>5 DEF Queues
<1>8. Handles'
  <2>1. n <= starts
    BY <1>1 DEF Handles, TypeOK
  <2>2. browser # None => task'[browser] \in {"loop", "probe"}
    BY <1>1, <1>5 DEF Handles, TypeOK
  <2>3. \A k \in Starts : k > starts => k # n
    BY <2>1 DEF TypeOK
  <2> QED BY <1>1, <1>5, <2>2, <2>3 DEF Handles, Nothing
<1>9. ListAgrees'
  <2>1. CASE n # browser
    BY <1>1, <1>5, <2>1, OthersAgree DEF guiVars
  <2>2. CASE n = browser
    <3> DEFINE list == Replay(receivers, events[n])
    <3>1. Agree(list, map[n], {})
      BY <1>1, <2>2 DEF ListAgrees, Pending
    <3> HIDE DEF list
    <3>2. Agree(list, own, {ev.id})
      BY <3>1, AgreeSteps DEF own
    <3>3. Pending' = {ev.id}
      BY <1>1, <1>5, <2>2 DEF Pending
    <3> QED BY <1>1, <1>5, <2>2, <3>2, <3>3 DEF ListAgrees, Agree, list
  <2> QED BY <2>1, <2>2
<1> QED BY <1>6, <1>7, <1>8, <1>9

\* A turn that sends an event: the list follows when the map agrees.
LEMMA EndTurnAgrees ==
  ASSUME IInv, NEW n \in Starts, n = browser, NEW m, NEW q, EndTurn(n, m, q), UNCHANGED guiVars,
         NEW ev \in GuiEvent, events' = Send(n, ev),
         Agree(Apply(Replay(receivers, events[n]), ev), m, {})
  PROVE  ListAgrees'
<1>1. n \notin stop_sent /\ browser' = browser /\ receivers' = receivers
  BY DEF IInv, Handles, guiVars
<1>2. map'[n] = m /\ task'[n] = "loop"
  BY <1>1 DEF EndTurn, IInv, TypeOK
<1>3. events[n] \in Seq(GuiEvent) /\ events'[n] = Append(events[n], ev)
  BY DEF Send, IInv, Queues
<1>4. Replay(receivers, events'[n]) = Apply(Replay(receivers, events[n]), ev)
  BY <1>3, ReplayOneMore
<1>5. Pending' = {}
  BY <1>1, <1>2 DEF Pending
<1>6. Agree(Replay(receivers, events'[n]), map'[n], Pending')
  BY <1>2, <1>4, <1>5
<1> QED BY <1>1, <1>6 DEF ListAgrees, Agree

LEMMA ProbedInv ==
  ASSUME IInv, NEW n \in Starts, Probed(n)
  PROVE  IInv'
<1> USE DEF IInv
<1> DEFINE s == probe[n][1]
<1>1. PICK ok \in BOOLEAN :
        LET e == [map[n][s] EXCEPT !.discoverable = ok] IN
          /\ EndTurn(n, With(map[n], s, e), mdns[n])
          /\ events' = Send(n, Found(s, e))
  BY DEF Probed
<1> DEFINE e == [map[n][s] EXCEPT !.discoverable = ok]
           m == With(map[n], s, e)
           ev == Found(s, e)
<1>2. /\ task[n] = "probe" /\ EndTurn(n, m, mdns[n]) /\ events' = Send(n, ev)
      /\ probe' = [probe EXCEPT ![n] = <<>>] /\ UNCHANGED <<guiVars, stop_sent, worldVars>>
  BY <1>1 DEF Probed
<1>3. s \in Services /\ map[n][s] \in Entry /\ IsEntries(map[n])
  BY <1>2 DEF TypeOK, IsEntries
<1>4. e \in Entry
  BY <1>3 DEF Entry
<1> HIDE DEF s, e
<1>5. ev \in GuiEvent /\ IsEntries(m)
  BY <1>3, <1>4, ListTypes DEF GuiEvent, Found
<1>6. mdns[n] \in Seq(MdnsEvent)
  BY DEF Queues
<1>7. DOMAIN probe' = Starts /\ probe'[n] = <<>> /\ \A k \in Starts \ {n} : probe'[k] = probe[k]
  BY <1>2 DEF Queues
<1> HIDE DEF m, ev
<1>8. TypeOK' /\ Queues' /\ Handles'
  BY <1>2, <1>5, <1>6, <1>7, SendType, EndTurnTypes
<1>9. ListAgrees'
  <2>1. CASE n # browser
    <3>1. \A k \in Starts \ {n} : task'[k] = task[k] /\ map'[k] = map[k] /\ events'[k] = events[k]
      BY <1>2, <2>1 DEF EndTurn, Send, TypeOK
    <3> QED BY <1>2, <1>7, <2>1, <3>1, OthersAgree
  <2>2. CASE n = browser
    <3> DEFINE list == Replay(receivers, events[n])
    <3>1. Agree(list, map[n], {s})
      BY <1>2, <2>2 DEF ListAgrees, Pending, s
    <3> HIDE DEF list
    <3>2. Apply(list, ev) = With(list, s, e)
      BY DEF Apply, ev, Found
    <3>3. Agree(Apply(list, ev), m, {})
      BY <3>1, <3>2, AgreeSteps DEF m
    <3> QED BY <1>2, <1>5, <2>2, <3>3, EndTurnAgrees DEF list
  <2> QED BY <2>1, <2>2
<1> QED BY <1>8, <1>9

LEMMA RemovedInv ==
  ASSUME IInv, NEW n \in Starts, ServiceRemoved(n)
  PROVE  IInv'
<1> USE DEF IInv
<1> DEFINE s == Head(mdns[n]).id
           q == Tail(mdns[n])
           m == Without(map[n], s)
           ev == Removed(s)
<1>1. /\ task[n] = "loop" /\ mdns[n] # <<>> /\ Head(mdns[n]).kind = "lost"
      /\ EndTurn(n, m, q) /\ events' = Send(n, ev)
      /\ UNCHANGED <<guiVars, stop_sent, probe, worldVars>>
  BY DEF ServiceRemoved
<1>2. Head(mdns[n]) \in MdnsEvent /\ q \in Seq(MdnsEvent)
  BY <1>1 DEF Queues
<1>3. s \in Services
  BY <1>1, <1>2 DEF MdnsEvent
<1> HIDE DEF s, q
<1>4. ev \in GuiEvent /\ IsEntries(m)
  BY <1>3, ListTypes DEF GuiEvent, Removed, TypeOK
<1>5. DOMAIN probe' = Starts /\ probe'[n] = <<>> /\ \A k \in Starts \ {n} : probe'[k] = probe[k]
  BY <1>1 DEF Queues, TypeOK
<1> HIDE DEF m, ev
<1>6. TypeOK' /\ Queues' /\ Handles'
  BY <1>1, <1>2, <1>4, <1>5, SendType, EndTurnTypes
<1>7. ListAgrees'
  <2>1. CASE n # browser
    <3>1. \A k \in Starts \ {n} : task'[k] = task[k] /\ map'[k] = map[k] /\ events'[k] = events[k]
      BY <1>1, <2>1 DEF EndTurn, Send, TypeOK
    <3> QED BY <1>1, <1>5, <2>1, <3>1, OthersAgree
  <2>2. CASE n = browser
    <3> DEFINE list == Replay(receivers, events[n])
    <3>1. Agree(list, map[n], {})
      BY <1>1, <2>2 DEF ListAgrees, Pending
    <3> HIDE DEF list
    <3>2. Apply(list, ev) = Without(list, s)
      BY DEF Apply, ev, Removed
    <3>3. Agree(Apply(list, ev), m, {})
      BY <3>1, <3>2, AgreeSteps DEF m
    <3> QED BY <1>1, <1>4, <2>2, <3>3, EndTurnAgrees DEF list
  <2> QED BY <2>1, <2>2
<1> QED BY <1>6, <1>7

LEMMA SeeStopInv ==
  ASSUME IInv, NEW n \in Starts, SeeStop(n)
  PROVE  IInv'
<1> USE DEF IInv
<1>1. /\ task[n] = "loop" /\ mdns[n] = <<>> /\ n \in stop_sent /\ EndTurn(n, map[n], <<>>)
      /\ UNCHANGED <<guiVars, stop_sent, probe, events, worldVars>>
  BY DEF SeeStop
<1>2. n # browser
  BY <1>1 DEF Handles
<1>3. IsEntries(map[n]) /\ <<>> \in Seq(MdnsEvent)
  BY DEF TypeOK
<1>4. DOMAIN probe' = Starts /\ probe'[n] = <<>> /\ \A k \in Starts \ {n} : probe'[k] = probe[k]
  BY <1>1 DEF Queues, TypeOK
<1>5. TypeOK' /\ Queues' /\ Handles'
  <2>1. events' \in [Starts -> Seq(GuiEvent)] /\ \A k \in Starts : events'[k] = events[k]
    BY <1>1 DEF Queues
  <2> QED BY <1>1, <1>3, <1>4, <2>1, EndTurnTypes
<1>6. ListAgrees'
  <2>1. \A k \in Starts \ {n} : task'[k] = task[k] /\ map'[k] = map[k] /\ events'[k] = events[k]
    BY <1>1 DEF EndTurn, TypeOK
  <2> QED BY <1>1, <1>2, <1>4, <2>1, OthersAgree
<1> QED BY <1>5, <1>6

\* mDNS tells every browser whose thread runs of a service.
LEMMA ChangeInv ==
  ASSUME IInv, NEW s \in Services, NEW a \in Addresses \cup {Gone}, NEW ev \in MdnsEvent,
         Change(s, a), Tell(ev)
  PROVE  IInv'
<1> USE DEF IInv
<1>1. /\ UNCHANGED <<browser, receivers, starts, task, stop_sent, map, probe, events>>
      /\ changes' \in 0 .. MaxChanges /\ world' \in [Services -> Addresses \cup {Gone}]
  BY DEF Change, guiVars, threadVars, TypeOK
<1>2. mdns' \in [Starts -> Seq(MdnsEvent)]
  BY DEF Tell, Queues
<1>3. TypeOK'
  BY <1>1 DEF TypeOK, IsEntries
<1>4. Queues' /\ Handles'
  BY <1>1, <1>2 DEF Queues, Handles, Nothing
<1>5. ListAgrees'
  BY <1>1 DEF ListAgrees, Agree, Pending
<1> QED BY <1>3, <1>4, <1>5

LEMMA Invariance == Spec => []IInv
<1>1. IInv /\ [Next]_vars => IInv'
  <2> SUFFICES ASSUME IInv, [Next]_vars PROVE IInv'
    OBVIOUS
  <2>1. ASSUME NEW n \in Starts, Browser(n) PROVE IInv'
    BY <2>1, ResolvedInv, ProbedInv, RemovedInv, SeeStopInv DEF Browser
  <2>2. ASSUME NEW s \in Services, Appears(s) PROVE IInv'
    <3>1. PICK a \in Addresses : Change(s, a) /\ Tell(Resolved(s, a))
      BY <2>2 DEF Appears
    <3>2. Resolved(s, a) \in MdnsEvent
      BY DEF Resolved, MdnsEvent
    <3> QED BY <3>1, <3>2, ChangeInv
  <2>3. ASSUME NEW s \in Services, Goes(s) PROVE IInv'
    <3>1. Change(s, Gone) /\ Tell(Lost(s)) /\ Lost(s) \in MdnsEvent
      BY <2>3 DEF Goes, Lost, MdnsEvent
    <3> QED BY <3>1, ChangeInv
  <2>4. CASE UNCHANGED vars
    <3>1. UNCHANGED <<browser, receivers, starts, task, stop_sent, map, probe, events, mdns,
                      world, changes>>
      BY <2>4 DEF vars, guiVars, threadVars, worldVars
    <3>2. TypeOK' /\ Queues' /\ Handles'
      BY <3>1 DEF TypeOK, IsEntries, Queues, Handles, Nothing, IInv
    <3>3. ListAgrees'
      BY <3>1 DEF ListAgrees, Agree, Pending, IInv
    <3> QED BY <3>2, <3>3 DEF IInv
  <2> QED BY <2>1, <2>2, <2>3, <2>4, StartInv, StopInv, TickInv DEF Next
<1> QED BY <1>1, InitInv, PTL DEF Spec

\* Entries of services that exist, in the list and in every browser's map; a
\* thread that waits for a probe has the entry it probes (client.rs
\* AirDropBrowser::start, which completes it without asking).
THEOREM TypeCorrect == Spec => []TypeOK
  BY Invariance, PTL DEF IInv

\* When the GUI has taken all events of its browser, the list is the browser's
\* map but for the entry that is probed for the first time, at every moment of
\* any number of discoveries (app.rs drain_background).
THEOREM ListFollows == Spec => []ListFollowsMap
<1>1. IInv => ListFollowsMap
  <2> SUFFICES ASSUME IInv, browser # None
               PROVE  LET list == Replay(receivers, events[browser])
                          own == map[browser] IN
                        /\ DOMAIN list \subseteq DOMAIN own
                        /\ \A s \in DOMAIN list : list[s] = own[s]
                        /\ \A s \in DOMAIN own \ DOMAIN list :
                             task[browser] = "probe" /\ probe[browser][1] = s
    BY DEF ListFollowsMap
  <2>1. Agree(Replay(receivers, events[browser]), map[browser], Pending)
    BY DEF IInv, ListAgrees
  <2> QED BY <2>1 DEF Agree, Pending
<1> QED BY <1>1, Invariance, PTL

-----------------------------------------------------------------------------
(* What a browser will know. *)

\* An event about service s that is behind place i of a queue.
Later(q, i, s, kind) == \E j \in 1 .. Len(q) : j > i /\ q[j].id = s /\ q[j].kind = kind

There(w, s, a) == w[s] # Gone /\ (s \notin Movers => w[s] = a)

(* A map, the queue behind it, and the world: what nothing later takes back *)
(* is so.                                                                   *)
News(w, q, own) ==
  \A s \in Services :
    /\ \A i \in 1 .. Len(q) :
         q[i].id = s =>
           /\ q[i].kind = "resolved" /\ ~ Later(q, i, s, "lost") => There(w, s, q[i].address)
           /\ q[i].kind = "lost" /\ ~ Later(q, i, s, "resolved") => w[s] = Gone
    /\ s \in DOMAIN own /\ ~ Later(q, 0, s, "lost") => There(w, s, own[s].address)
    /\ s \notin DOMAIN own /\ ~ Later(q, 0, s, "resolved") => w[s] = Gone

Running(n) == task[n] \in {"loop", "probe"}
MapFollows == \A n \in Starts : Running(n) => News(world, mdns[n], map[n])

\* What is behind a place of the tail was behind the next of the queue.
LEMMA LaterTail ==
  ASSUME NEW q \in Seq(MdnsEvent), q # <<>>
  PROVE  /\ Len(q) \in Nat \ {0} /\ Len(Tail(q)) = Len(q) - 1 /\ Head(q) = q[1]
         /\ \A i \in 1 .. Len(q) - 1 : Tail(q)[i] = q[i + 1] /\ i + 1 \in 1 .. Len(q)
         /\ \A i \in 0 .. Len(q) - 1 : \A s, kind :
              Later(Tail(q), i, s, kind) <=> Later(q, i + 1, s, kind)
         /\ \A s, kind :
              Later(q, 0, s, kind) <=> (q[1].id = s /\ q[1].kind = kind) \/ Later(q, 1, s, kind)
<1> DEFINE t == Tail(q)
           n == Len(q)
<1>1. /\ n \in Nat \ {0} /\ Len(t) = n - 1 /\ Head(q) = q[1]
      /\ \A i \in 1 .. n - 1 : t[i] = q[i + 1] /\ i + 1 \in 1 .. n
  OBVIOUS
<1> HIDE DEF t, n
<1>2. ASSUME NEW i \in 0 .. n - 1, NEW s, NEW kind
      PROVE  Later(t, i, s, kind) <=> Later(q, i + 1, s, kind)
  <2>1. ASSUME Later(t, i, s, kind) PROVE Later(q, i + 1, s, kind)
    <3>1. PICK j \in 1 .. n - 1 : j > i /\ t[j].id = s /\ t[j].kind = kind
      BY <1>1, <2>1 DEF Later
    <3>2. j + 1 \in 1 .. n /\ j + 1 > i + 1 /\ q[j + 1] = t[j]
      BY <1>1, <3>1
    <3> QED BY <3>1, <3>2 DEF Later, n
  <2>2. ASSUME Later(q, i + 1, s, kind) PROVE Later(t, i, s, kind)
    <3>1. PICK j \in 1 .. n : j > i + 1 /\ q[j].id = s /\ q[j].kind = kind
      BY <2>2 DEF Later, n
    <3>2. j - 1 \in 1 .. n - 1 /\ j - 1 > i /\ j - 1 + 1 = j
      BY <1>1, <3>1
    <3>3. t[j - 1] = q[j]
      BY <1>1, <3>2
    <3> QED BY <1>1, <3>1, <3>2, <3>3 DEF Later
  <2> QED BY <2>1, <2>2
<1>3. ASSUME NEW s, NEW kind
      PROVE  Later(q, 0, s, kind) <=> (q[1].id = s /\ q[1].kind = kind) \/ Later(q, 1, s, kind)
  <2>1. \A j \in 1 .. n : j > 0 /\ (j = 1 \/ j > 1)
    BY <1>1
  <2>2. 1 \in 1 .. n
    BY <1>1
  <2> QED BY <2>1, <2>2 DEF Later, n
<1> QED BY <1>1, <1>2, <1>3 DEF t, n

\* The browser takes an event and does with its map what the event says.
LEMMA NewsTaken ==
  ASSUME NEW w, NEW q \in Seq(MdnsEvent), q # <<>>, NEW own, NEW new, News(w, q, own),
         LET ev == Head(q) IN
           \/ /\ ev.kind = "resolved"
              /\ DOMAIN new = DOMAIN own \cup {ev.id}
              /\ ev.id \notin DOMAIN own => new[ev.id].address = ev.address
              /\ \A s \in DOMAIN own : new[s].address = own[s].address
           \/ /\ ev.kind = "lost"
              /\ DOMAIN new = DOMAIN own \ {ev.id}
              /\ \A s \in DOMAIN new : new[s] = own[s]
  PROVE  News(w, Tail(q), new)
<1> DEFINE t == Tail(q)
           n == Len(q)
<1>1. /\ n \in Nat \ {0} /\ Len(t) = n - 1 /\ Head(q) = q[1]
      /\ \A i \in 1 .. n - 1 : t[i] = q[i + 1] /\ i + 1 \in 1 .. n
      /\ \A i \in 0 .. n - 1 : \A s, kind : Later(t, i, s, kind) <=> Later(q, i + 1, s, kind)
      /\ \A s, kind :
           Later(q, 0, s, kind) <=> (q[1].id = s /\ q[1].kind = kind) \/ Later(q, 1, s, kind)
  BY LaterTail
<1>2. /\ 0 \in 0 .. n - 1 /\ 0 + 1 = 1 /\ 1 \in 1 .. n
      /\ \A i \in 1 .. n - 1 : i \in 0 .. n - 1
  BY <1>1
<1> HIDE DEF t, n
<1> SUFFICES ASSUME NEW s \in Services
             PROVE  /\ \A i \in 1 .. Len(t) :
                         t[i].id = s =>
                           /\ t[i].kind = "resolved" /\ ~ Later(t, i, s, "lost") =>
                                There(w, s, t[i].address)
                           /\ t[i].kind = "lost" /\ ~ Later(t, i, s, "resolved") =>
                                w[s] = Gone
                    /\ s \in DOMAIN new /\ ~ Later(t, 0, s, "lost") => There(w, s, new[s].address)
                    /\ s \notin DOMAIN new /\ ~ Later(t, 0, s, "resolved") => w[s] = Gone
  BY DEF News, t
<1>3. \A i \in 1 .. n :
        q[i].id = s =>
          /\ q[i].kind = "resolved" /\ ~ Later(q, i, s, "lost") => There(w, s, q[i].address)
          /\ q[i].kind = "lost" /\ ~ Later(q, i, s, "resolved") => w[s] = Gone
  BY DEF News, n
<1>4. /\ s \in DOMAIN own /\ ~ Later(q, 0, s, "lost") => There(w, s, own[s].address)
      /\ s \notin DOMAIN own /\ ~ Later(q, 0, s, "resolved") => w[s] = Gone
  BY DEF News
<1>5. \A i \in 1 .. Len(t) :
        t[i].id = s =>
          /\ t[i].kind = "resolved" /\ ~ Later(t, i, s, "lost") => There(w, s, t[i].address)
          /\ t[i].kind = "lost" /\ ~ Later(t, i, s, "resolved") => w[s] = Gone
  BY <1>1, <1>2, <1>3
<1>6. \A kind : Later(t, 0, s, kind) <=> Later(q, 1, s, kind)
  BY <1>1, <1>2
<1>7. \A kind : ~ (q[1].id = s /\ q[1].kind = kind)
                  => (Later(t, 0, s, kind) <=> Later(q, 0, s, kind))
  BY <1>1, <1>6
<1>8. CASE q[1].kind = "resolved"
  <2>1. /\ DOMAIN new = DOMAIN own \cup {q[1].id}
        /\ q[1].id \notin DOMAIN own => new[q[1].id].address = q[1].address
        /\ \A r \in DOMAIN own : new[r].address = own[r].address
    BY <1>1, <1>8
  <2>2. ASSUME s \in DOMAIN new, ~ Later(t, 0, s, "lost") PROVE There(w, s, new[s].address)
    <3>1. ~ Later(q, 1, s, "lost") /\ ~ Later(q, 0, s, "lost")
      BY <1>6, <1>7, <1>8, <2>2
    <3>2. CASE s \in DOMAIN own
      BY <1>4, <2>1, <3>1, <3>2
    <3>3. CASE s \notin DOMAIN own
      BY <1>2, <1>3, <1>8, <2>1, <2>2, <3>1, <3>3
    <3> QED BY <3>2, <3>3
  <2>3. ASSUME s \notin DOMAIN new, ~ Later(t, 0, s, "resolved") PROVE w[s] = Gone
    BY <1>4, <1>7, <2>1, <2>3
  <2> QED BY <1>5, <2>2, <2>3
<1>9. CASE q[1].kind = "lost"
  <2>1. /\ DOMAIN new = DOMAIN own \ {q[1].id}
        /\ \A r \in DOMAIN new : new[r] = own[r]
    BY <1>1, <1>9
  <2>2. ASSUME s \in DOMAIN new, ~ Later(t, 0, s, "lost") PROVE There(w, s, new[s].address)
    BY <1>4, <1>7, <2>1, <2>2
  <2>3. ASSUME s \notin DOMAIN new, ~ Later(t, 0, s, "resolved") PROVE w[s] = Gone
    <3>1. ~ Later(q, 1, s, "resolved") /\ ~ Later(q, 0, s, "resolved")
      BY <1>6, <1>7, <1>9, <2>3
    <3>2. CASE s = q[1].id
      BY <1>2, <1>3, <1>9, <3>1, <3>2
    <3>3. CASE s # q[1].id
      BY <1>4, <2>1, <2>3, <3>1, <3>3
    <3> QED BY <3>2, <3>3
  <2> QED BY <1>5, <2>2, <2>3
<1> QED BY <1>1, <1>8, <1>9 DEF t

\* A service comes, is announced again or goes, and the browser is told.
LEMMA NewsTold ==
  ASSUME NEW w \in [Services -> Addresses \cup {Gone}], NEW q \in Seq(MdnsEvent), NEW own,
         NEW r \in Services, NEW a, NEW ev, ev.id = r, News(w, q, own),
         \/ /\ ev.kind = "resolved" /\ ev.address = a /\ a # Gone
            /\ w[r] \in {Gone, a} \/ r \in Movers
         \/ ev.kind = "lost" /\ a = Gone
  PROVE  News([w EXCEPT ![r] = a], Append(q, ev), own)
<1> DEFINE t == Append(q, ev)
           n == Len(q)
           v == [w EXCEPT ![r] = a]
<1>1. /\ n \in Nat /\ Len(t) = n + 1 /\ t[n + 1] = ev
      /\ \A i \in 1 .. n : t[i] = q[i]
  OBVIOUS
<1>2. v[r] = a /\ \A s \in Services \ {r} : v[s] = w[s]
  OBVIOUS
<1> HIDE DEF t, n, v
<1>3. 1 .. n + 1 = (1 .. n) \cup {n + 1} /\ \A i \in 0 .. n : n + 1 > i
  BY <1>1
<1>4. ASSUME NEW s \in Services, NEW i \in 0 .. n, NEW kind
      PROVE  Later(t, i, s, kind) <=> Later(q, i, s, kind) \/ (r = s /\ ev.kind = kind)
  BY <1>1, <1>3 DEF Later, n
<1>5. 0 \in 0 .. n /\ \A i \in 1 .. n : i \in 0 .. n
  BY <1>1
<1> SUFFICES ASSUME NEW s \in Services
             PROVE  /\ \A i \in 1 .. Len(t) :
                         t[i].id = s =>
                           /\ t[i].kind = "resolved" /\ ~ Later(t, i, s, "lost") =>
                                There(v, s, t[i].address)
                           /\ t[i].kind = "lost" /\ ~ Later(t, i, s, "resolved") => v[s] = Gone
                    /\ s \in DOMAIN own /\ ~ Later(t, 0, s, "lost") => There(v, s, own[s].address)
                    /\ s \notin DOMAIN own /\ ~ Later(t, 0, s, "resolved") => v[s] = Gone
  BY DEF News, t, v
<1>6. /\ \A i \in 1 .. n :
           q[i].id = s =>
             /\ q[i].kind = "resolved" /\ ~ Later(q, i, s, "lost") => There(w, s, q[i].address)
             /\ q[i].kind = "lost" /\ ~ Later(q, i, s, "resolved") => w[s] = Gone
      /\ s \in DOMAIN own /\ ~ Later(q, 0, s, "lost") => There(w, s, own[s].address)
      /\ s \notin DOMAIN own /\ ~ Later(q, 0, s, "resolved") => w[s] = Gone
  BY DEF News, n
\* What was so of s is so, unless the new event takes it back.
<1>7. ASSUME NEW b, There(w, s, b), ~ (r = s /\ ev.kind = "lost") PROVE There(v, s, b)
  BY <1>2, <1>7 DEF There
<1>8. ASSUME w[s] = Gone, ~ (r = s /\ ev.kind = "resolved") PROVE v[s] = Gone
  BY <1>2, <1>8
<1>9. ASSUME NEW i \in 1 .. n, t[i].id = s
      PROVE  /\ t[i].kind = "resolved" /\ ~ Later(t, i, s, "lost") => There(v, s, t[i].address)
             /\ t[i].kind = "lost" /\ ~ Later(t, i, s, "resolved") => v[s] = Gone
  BY <1>1, <1>4, <1>5, <1>6, <1>7, <1>8, <1>9
<1>10. ASSUME r = s
       PROVE  /\ ev.kind = "resolved" => There(v, s, ev.address)
              /\ ev.kind = "lost" => v[s] = Gone
  BY <1>2, <1>10 DEF There
<1>11. /\ s \in DOMAIN own /\ ~ Later(t, 0, s, "lost") => There(v, s, own[s].address)
       /\ s \notin DOMAIN own /\ ~ Later(t, 0, s, "resolved") => v[s] = Gone
  BY <1>4, <1>5, <1>6, <1>7, <1>8
<1> QED BY <1>1, <1>3, <1>9, <1>10, <1>11

\* A new browser is told of all services that are there.
LEMMA NewsFirst ==
  ASSUME NEW w, NEW q, NEW c \in Nat, NEW p \in [1 .. c -> Services],
         \A i \in 1 .. c : w[p[i]] # Gone,
         \A s \in Services : w[s] # Gone => \E i \in 1 .. c : p[i] = s,
         q = [i \in 1 .. c |-> Resolved(p[i], w[p[i]])]
  PROVE  News(w, q, Nothing)
<1>1. Len(q) = c /\ \A i \in 1 .. c : q[i] = Resolved(p[i], w[p[i]])
  OBVIOUS
<1>2. \A i \in 1 .. c : q[i].id = p[i] /\ q[i].kind = "resolved" /\ q[i].address = w[p[i]] /\ i > 0
  BY <1>1 DEF Resolved
<1>3. \A s : s \notin DOMAIN Nothing
  BY DEF Nothing
<1>4. \A s \in Services : ~ Later(q, 0, s, "resolved") => w[s] = Gone
  BY <1>1, <1>2 DEF Later
<1>5. \A i \in 1 .. Len(q) : q[i].kind # "lost" /\ There(w, q[i].id, q[i].address)
  BY <1>1, <1>2 DEF There
<1> QED BY <1>3, <1>4, <1>5 DEF News

\* Any order in which a finite set is listed lists all of it.
LEMMA ListsAll ==
  ASSUME NEW S, IsFiniteSet(S), NEW p \in SetToSeqs(S)
  PROVE  \A s \in S : \E i \in 1 .. Cardinality(S) : p[i] = s
<1> DEFINE D == 1 .. Cardinality(S)
<1>1. Cardinality(S) \in Nat
  BY FS_CardinalityType
<1>2. p \in [D -> S] /\ \A i, j \in D : i # j => p[i] # p[j]
  BY DEF SetToSeqs
<1>3. IsFiniteSet(D) /\ Cardinality(D) = Cardinality(S)
  <2>1. IsFiniteSet(D) /\ Cardinality(D) = IF 1 > Cardinality(S) THEN 0 ELSE Cardinality(S) - 1 + 1
    BY <1>1, FS_Interval
  <2> HIDE DEF D
  <2> QED BY <1>1, <2>1
<1>4. p \in Injection(D, S)
  BY <1>2 DEF Injection, IsInjective
<1> HIDE DEF D
<1>5. p \in Surjection(D, S)
  BY <1>3, <1>4, FS_Injection
<1> QED BY <1>5 DEF Surjection, D

\* A turn of the thread of start n, when the services stay as they are: the map
\* and the queue of this thread are all that changes.
LEMMA TurnFollows ==
  ASSUME IInv, MapFollows, NEW n \in Starts, Running(n), UNCHANGED world,
         \A k \in Starts \ {n} : task'[k] = task[k] /\ map'[k] = map[k] /\ mdns'[k] = mdns[k],
         Running(n)' => News(world, mdns'[n], map'[n])
  PROVE  MapFollows'
<1> SUFFICES ASSUME NEW k \in Starts, Running(k)' PROVE News(world, mdns'[k], map'[k])
  BY DEF MapFollows
<1>1. CASE k = n
  BY <1>1
<1>2. CASE k # n
  BY <1>2 DEF MapFollows, Running
<1> QED BY <1>1, <1>2

LEMMA EndTurnFollows ==
  ASSUME IInv, MapFollows, NEW n \in Starts, Running(n), UNCHANGED world, NEW m, NEW q,
         EndTurn(n, m, q), n \notin stop_sent => News(world, q, m)
  PROVE  MapFollows'
<1>1. \A k \in Starts \ {n} : task'[k] = task[k] /\ map'[k] = map[k] /\ mdns'[k] = mdns[k]
  BY DEF EndTurn, IInv, TypeOK, Queues
<1>2. n \in stop_sent => ~ Running(n)'
  BY DEF EndTurn, IInv, TypeOK, Running
<1>3. n \notin stop_sent => map'[n] = m /\ mdns'[n] = q
  BY DEF EndTurn, IInv, TypeOK, Queues
<1> QED BY <1>1, <1>2, <1>3, TurnFollows

LEMMA StartFollows == IInv /\ MapFollows /\ StartDiscovery => MapFollows'
<1> SUFFICES ASSUME IInv, MapFollows, StartDiscovery PROVE MapFollows'
  OBVIOUS
<1> DEFINE n == starts + 1
           c == Cardinality(Present)
<1>1. n \in Starts /\ starts \in Nat /\ n > starts
  BY DEF StartDiscovery, IInv, TypeOK
<1>2. map[n] = Nothing
  BY <1>1 DEF IInv, Handles
<1>3. task' = [task EXCEPT ![n] = "loop"] /\ map' = map /\ world' = world
  BY DEF StartDiscovery, worldVars
<1>4. PICK q \in Answers : mdns' = [mdns EXCEPT ![n] = q]
  BY DEF StartDiscovery
<1>5. PICK p \in SetToSeqs(Present) : q = [i \in DOMAIN p |-> Resolved(p[i], world[p[i]])]
  BY <1>4 DEF Answers
<1>6. IsFiniteSet(Present) /\ c \in Nat /\ Present \subseteq Services
  <2>1. Present \subseteq Services
    BY DEF Present
  <2> QED BY <2>1, ServicesAssumption, FS_Subset, FS_CardinalityType
<1>7. p \in [1 .. c -> Present]
  BY DEF SetToSeqs
<1>8. \A s \in Present : \E i \in 1 .. c : p[i] = s
  BY <1>6, ListsAll
<1> HIDE DEF c, n
<1>9. News(world, q, Nothing)
  <2>1. p \in [1 .. c -> Services] /\ \A i \in 1 .. c : world[p[i]] # Gone
    BY <1>6, <1>7 DEF Present
  <2>2. \A s \in Services : world[s] # Gone => \E i \in 1 .. c : p[i] = s
    BY <1>8 DEF Present
  <2>3. q = [i \in 1 .. c |-> Resolved(p[i], world[p[i]])]
    BY <1>5, <1>7
  <2> QED BY <1>6, <2>1, <2>2, <2>3, NewsFirst
<1>10. /\ mdns'[n] = q
       /\ \A k \in Starts \ {n} : task'[k] = task[k] /\ mdns'[k] = mdns[k]
  BY <1>1, <1>3, <1>4 DEF IInv, TypeOK, Queues
<1> SUFFICES ASSUME NEW k \in Starts, Running(k)' PROVE News(world', mdns'[k], map'[k])
  BY DEF MapFollows
<1>11. CASE k = n
  BY <1>2, <1>3, <1>9, <1>10, <1>11
<1>12. CASE k # n
  BY <1>3, <1>10, <1>12 DEF MapFollows, Running
<1> QED BY <1>11, <1>12

LEMMA ResolvedFollows ==
  ASSUME IInv, MapFollows, NEW n \in Starts, ServiceResolved(n)
  PROVE  MapFollows'
<1> DEFINE ev == Head(mdns[n])
           e == [address |-> ev.address, discoverable |-> FALSE]
           own == OrInsert(map[n], ev.id, e)
<1>1. /\ task[n] = "loop" /\ mdns[n] # <<>> /\ ev.kind = "resolved"
      /\ map' = [map EXCEPT ![n] = own]
      /\ mdns' = [mdns EXCEPT ![n] = Tail(@)]
      /\ task' = [task EXCEPT ![n] = "probe"]
      /\ world' = world
  BY DEF ServiceResolved, worldVars
<1>2. mdns[n] \in Seq(MdnsEvent)
  BY DEF IInv, Queues
<1>3. News(world, mdns[n], map[n])
  BY <1>1 DEF MapFollows, Running
<1>4. e.address = ev.address
  OBVIOUS
<1> HIDE DEF e
<1>5. /\ DOMAIN own = DOMAIN map[n] \cup {ev.id}
      /\ ev.id \notin DOMAIN map[n] => own[ev.id].address = ev.address
      /\ \A s \in DOMAIN map[n] : own[s].address = map[n][s].address
  BY <1>4 DEF OrInsert, With
<1> HIDE DEF own
<1>6. News(world, Tail(mdns[n]), own)
  BY <1>1, <1>2, <1>3, <1>5, NewsTaken
<1>7. /\ map'[n] = own /\ mdns'[n] = Tail(mdns[n])
      /\ \A k \in Starts \ {n} : task'[k] = task[k] /\ map'[k] = map[k] /\ mdns'[k] = mdns[k]
  BY <1>1 DEF IInv, TypeOK, Queues
<1> QED BY <1>1, <1>6, <1>7, TurnFollows DEF Running

LEMMA ProbedFollows ==
  ASSUME IInv, MapFollows, NEW n \in Starts, Probed(n)
  PROVE  MapFollows'
<1> DEFINE s == probe[n][1]
<1>1. PICK ok \in BOOLEAN :
        EndTurn(n, With(map[n], s, [map[n][s] EXCEPT !.discoverable = ok]), mdns[n])
  BY DEF Probed
<1> DEFINE m == With(map[n], s, [map[n][s] EXCEPT !.discoverable = ok])
<1>2. task[n] = "probe" /\ EndTurn(n, m, mdns[n]) /\ world' = world
  BY <1>1 DEF Probed, worldVars
<1>3. s \in DOMAIN map[n] /\ IsEntries(map[n])
  BY <1>2 DEF IInv, TypeOK
<1>4. map[n][s] \in Entry
  BY <1>3 DEF IsEntries
<1> HIDE DEF s
<1>5. DOMAIN m = DOMAIN map[n] /\ \A r \in DOMAIN m : m[r].address = map[n][r].address
  BY <1>3, <1>4 DEF With, Entry
<1> HIDE DEF m
<1>6. News(world, mdns[n], map[n])
  BY <1>2 DEF MapFollows, Running
<1>7. News(world, mdns[n], m)
  BY <1>5, <1>6 DEF News
<1> QED BY <1>2, <1>7, EndTurnFollows DEF Running

LEMMA RemovedFollows ==
  ASSUME IInv, MapFollows, NEW n \in Starts, ServiceRemoved(n)
  PROVE  MapFollows'
<1> DEFINE ev == Head(mdns[n])
           m == Without(map[n], ev.id)
           q == Tail(mdns[n])
<1>1. /\ task[n] = "loop" /\ mdns[n] # <<>> /\ ev.kind = "lost"
      /\ EndTurn(n, m, q) /\ world' = world
  BY DEF ServiceRemoved, worldVars
<1>2. mdns[n] \in Seq(MdnsEvent) /\ News(world, mdns[n], map[n])
  BY <1>1 DEF IInv, Queues, MapFollows, Running
<1>3. DOMAIN m = DOMAIN map[n] \ {ev.id} /\ \A r \in DOMAIN m : m[r] = map[n][r]
  BY DEF Without
<1> HIDE DEF m
<1>4. News(world, q, m)
  BY <1>1, <1>2, <1>3, NewsTaken
<1> HIDE DEF q
<1> QED BY <1>1, <1>4, EndTurnFollows DEF Running

LEMMA ChangeFollows ==
  ASSUME IInv, MapFollows,
         NEW s \in Services, NEW a \in Addresses \cup {Gone}, NEW ev \in MdnsEvent, ev.id = s,
         Change(s, a), Tell(ev),
         \/ /\ ev.kind = "resolved" /\ ev.address = a /\ a # Gone
            /\ world[s] \in {Gone, a} \/ s \in Movers
         \/ ev.kind = "lost" /\ a = Gone
  PROVE  MapFollows'
<1>1. task' = task /\ map' = map /\ world' = [world EXCEPT ![s] = a]
  BY DEF Change, threadVars
<1> SUFFICES ASSUME NEW k \in Starts, Running(k) PROVE News(world', mdns'[k], map[k])
  BY <1>1 DEF MapFollows, Running
<1>2. mdns'[k] = Append(mdns[k], ev)
  BY DEF Tell, Running
<1>3. mdns[k] \in Seq(MdnsEvent) /\ world \in [Services -> Addresses \cup {Gone}]
  BY DEF IInv, Queues, TypeOK
<1>4. News(world, mdns[k], map[k])
  BY DEF MapFollows
<1>5. News([world EXCEPT ![s] = a], Append(mdns[k], ev), map[k])
  BY <1>3, <1>4, NewsTold
<1> QED BY <1>1, <1>2, <1>5

LEMMA Following == Spec => []MapFollows
<1>1. Init => MapFollows
  BY DEF Init, MapFollows, Running
<1>2. IInv /\ MapFollows /\ [Next]_vars => MapFollows'
  <2> SUFFICES ASSUME IInv, MapFollows, [Next]_vars PROVE MapFollows'
    OBVIOUS
  <2>1. CASE StopDiscovery \/ Tick \/ UNCHANGED vars
    <3>1. task' = task /\ map' = map /\ mdns' = mdns /\ world' = world
      BY <2>1 DEF StopDiscovery, Tick, vars, threadVars, worldVars
    <3> QED BY <3>1 DEF MapFollows, Running
  <2>2. ASSUME NEW n \in Starts, SeeStop(n) PROVE MapFollows'
    <3>1. Running(n) /\ world' = world /\ EndTurn(n, map[n], <<>>) /\ n \in stop_sent
      BY <2>2 DEF SeeStop, worldVars, Running
    <3> QED BY <3>1, EndTurnFollows
  <2>3. ASSUME NEW n \in Starts, Browser(n) PROVE MapFollows'
    BY <2>2, <2>3, ResolvedFollows, ProbedFollows, RemovedFollows DEF Browser
  <2>4. ASSUME NEW s \in Services, Appears(s) PROVE MapFollows'
    <3>1. PICK a \in Addresses : /\ world[s] \in {Gone, a} \/ s \in Movers
                                 /\ Change(s, a) /\ Tell(Resolved(s, a))
      BY <2>4 DEF Appears
    <3>2. /\ Resolved(s, a) \in MdnsEvent /\ Resolved(s, a).id = s
          /\ Resolved(s, a).kind = "resolved" /\ Resolved(s, a).address = a
      BY DEF Resolved, MdnsEvent
    <3>3. a # Gone
      BY AddressesAssumption
    <3> QED BY <3>1, <3>2, <3>3, ChangeFollows
  <2>5. ASSUME NEW s \in Services, Goes(s) PROVE MapFollows'
    <3>1. /\ Change(s, Gone) /\ Tell(Lost(s)) /\ Lost(s) \in MdnsEvent
          /\ Lost(s).id = s /\ Lost(s).kind = "lost"
      BY <2>5 DEF Goes, Lost, MdnsEvent
    <3> QED BY <3>1, ChangeFollows
  <2> QED BY <2>1, <2>3, <2>4, <2>5, StartFollows DEF Next
<1> QED BY <1>1, <1>2, Invariance, PTL DEF Spec

\* With no event under way the list shows the services that are there, those
\* that do not move where they are, whatever came while the discovery was
\* started, probed, or stopped and started again (client.rs AirDropBrowser::start;
\* app.rs drain_background).
THEOREM QuietListIsWorld == Spec => []QuietShowsWorld
<1>1. IInv /\ MapFollows => QuietShowsWorld
  <2> SUFFICES ASSUME IInv, MapFollows, Quiet PROVE ShowsWorld
    BY DEF QuietShowsWorld
  <2>1. browser \in Starts /\ task[browser] = "loop" /\ mdns[browser] = <<>>
    BY DEF Quiet, IInv, TypeOK
  <2>2. Agree(receivers, map[browser], {})
    <3>1. Replay(receivers, events[browser]) = receivers
      BY ReplayNothing DEF Quiet
    <3> QED BY <2>1, <3>1 DEF IInv, ListAgrees, Pending, Quiet
  <2>3. News(world, <<>>, map[browser])
    BY <2>1 DEF MapFollows, Running
  <2>4. \A s, kind : ~ Later(<<>>, 0, s, kind)
    BY DEF Later
  <2>5. \A s \in Services :
          /\ s \in DOMAIN map[browser] => There(world, s, map[browser][s].address)
          /\ s \notin DOMAIN map[browser] => world[s] = Gone
    BY <2>3, <2>4 DEF News
  <2>6. DOMAIN receivers = DOMAIN map[browser] /\ DOMAIN map[browser] \subseteq Services
    BY <2>1, <2>2 DEF Agree, IInv, TypeOK, IsEntries
  <2>7. DOMAIN receivers = Present
    BY <2>5, <2>6 DEF Present, There
  <2>8. \A s \in Present \ Movers : receivers[s].address = world[s]
    BY <2>2, <2>5, <2>6, <2>7 DEF Agree, There
  <2> QED BY <2>7, <2>8 DEF ShowsWorld
<1> QED BY <1>1, Invariance, Following, PTL

=============================================================================
