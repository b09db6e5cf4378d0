------------------------------ MODULE Frames_proofs ------------------------------
(***************************************************************************)
(* That the walks keep step with the sender, for every frame: any number    *)
(* of units of any sizes, stopped at any byte; and that the reads of an     *)
(* action frame get the fields that they are meant for, for every length of *)
(* the channel sequence and of the name.                                    *)
(***************************************************************************)
EXTENDS Frames, SequenceTheorems, WellFoundedInduction, TLAPS

\* Induction for a set: the smallest number outside would be a successor.
LEMMA Induction ==
  ASSUME NEW S, 0 \in S, \A i \in Nat : i \in S => i + 1 \in S
  PROVE  Nat \subseteq S
<1> DEFINE T == Nat \ S
<1> SUFFICES ASSUME T # {} PROVE FALSE
  OBVIOUS
<1>1. PICK x \in T : \A y \in T : ~ (<<y, x>> \in OpToRel(<, Nat))
  <2>1. T \subseteq Nat
    OBVIOUS
  <2> HIDE DEF T
  <2> QED BY <2>1, NatLessThanWellFounded, WFMin
<1>2. x \in Nat \ {0} /\ x - 1 \in Nat
  OBVIOUS
<1>3. \A y \in T : ~ (y < x)
  BY <1>1 DEF OpToRel
<1>4. x - 1 \in S
  BY <1>2, <1>3
<1> QED BY <1>2, <1>4

N == Len(body.size)

\* What the assumptions say of the frame at hand.
LEMMA BodyFacts ==
  ASSUME frame \in Frames
  PROVE  /\ N \in Nat
         /\ \A i \in 1 .. N : body.size[i] \in Nat
         /\ \A i \in 1 .. N + 1 : body.start[i] \in Nat
         /\ body.kind \in {"MIF", "PSF", "data", "qos data", "aggregate", "other"}
         /\ body.start[1] = 0
         /\ frame.sent \in Nat
         /\ Headers(body) \in Nat /\ Overhead(body) \in Nat
         /\ \A i \in 1 .. N : Aligned(body, body.size[i]) \in Nat
<1> DEFINE b == frame.body
<1>1. b \in DOMAIN Bodies /\ frame.sent \in 0 .. SizeOfFrame(Bodies[b])
  BY FramesAssumption
<1>2. Bodies[b].size \in Seq(Nat)
  BY <1>1, BodiesAssumption
<1>3. Bodies[b].start \in [1 .. Len(Bodies[b].size) + 1 -> Nat]
  BY <1>1, BodiesAssumption
<1>4. Bodies[b].kind \in {"MIF", "PSF", "data", "qos data", "aggregate", "other"} /\ Bodies[b].start[1] = 0
  BY <1>1, BodiesAssumption
<1> HIDE DEF b
<1>5. N \in Nat /\ \A i \in 1 .. N : body.size[i] \in Nat
  BY <1>2 DEF body, N, b
<1>6. \A i \in 1 .. N + 1 : body.start[i] \in Nat
  BY <1>3 DEF body, N, b
<1>7. Headers(body) \in Nat /\ Overhead(body) \in Nat
  BY DEF Headers, Overhead
<1>8. \A i \in 1 .. N : Aligned(body, body.size[i]) \in Nat
  BY <1>5 DEF Aligned
<1>9. frame.sent \in Nat
  <2>1. body.start[N + 1] \in Nat
    BY <1>5, <1>6
  <2>2. SizeOfFrame(body) \in Nat
    BY <1>7, <2>1 DEF SizeOfFrame, N
  <2>3. frame.sent \in 0 .. SizeOfFrame(body)
    BY <1>1 DEF body, b
  <2> QED
    BY <2>2, <2>3
<1> QED
  BY <1>4, <1>5, <1>6, <1>7, <1>8, <1>9 DEF body, b

LEMMA SentFits ==
  ASSUME frame \in Frames
  PROVE  body.start[N + 1] \in Nat /\ frame.sent <= Headers(body) + body.start[N + 1]
<1>1. frame.sent \in 0 .. SizeOfFrame(body)
  BY FramesAssumption DEF body
<1>2. SizeOfFrame(body) = Headers(body) + body.start[N + 1]
  BY DEF SizeOfFrame, N
<1>3. Headers(body) \in Nat /\ N \in Nat
  BY BodyFacts
<1>4. N + 1 \in 1 .. N + 1
  BY <1>3
<1>5. body.start[N + 1] \in Nat
  BY <1>4, BodyFacts
<1> QED
  BY <1>1, <1>2, <1>3, <1>5

LEMMA Adjacent ==
  ASSUME frame \in Frames, NEW i \in 1 .. N
  PROVE  body.start[i + 1] =
           body.start[i] + Overhead(body) + body.size[i] + Aligned(body, body.size[i])
<1>1. frame.body \in DOMAIN Bodies
  BY FramesAssumption
<1> QED
  BY <1>1, BodiesAssumption DEF body, N

\* Units that have a header of their own start one behind the other.
LEMMA Increasing ==
  ASSUME frame \in Frames, Overhead(body) > 0,
         NEW i \in 1 .. N + 1, NEW j \in 1 .. N + 1, i < j
  PROVE  body.start[i] < body.start[j]
<1> DEFINE start == body.start
           S == {d \in Nat : i + d + 1 <= N + 1 => start[i] < start[i + d + 1]}
<1>1. /\ N \in Nat /\ Overhead(body) \in Nat
      /\ \A k \in 1 .. N + 1 : start[k] \in Nat
  BY BodyFacts
<1>2. ASSUME NEW k \in 1 .. N PROVE start[k] < start[k + 1]
  <2>1. body.size[k] \in Nat /\ Aligned(body, body.size[k]) \in Nat
    BY BodyFacts
  <2>2. k \in 1 .. N + 1
    BY <1>1
  <2> QED BY <1>1, <2>1, <2>2, Adjacent
<1> HIDE DEF start
<1>3. 0 \in S
  <2>1. i + 0 + 1 <= N + 1 => i \in 1 .. N /\ i + 0 + 1 = i + 1
    BY <1>1
  <2> QED BY <1>2, <2>1
<1>4. ASSUME NEW d \in Nat, d \in S PROVE d + 1 \in S
  <2> SUFFICES ASSUME i + (d + 1) + 1 <= N + 1 PROVE start[i] < start[i + (d + 1) + 1]
    OBVIOUS
  <2> DEFINE k == i + d + 1
  <2>1. k \in 1 .. N /\ k \in 1 .. N + 1 /\ k + 1 \in 1 .. N + 1 /\ i + (d + 1) + 1 = k + 1
    BY <1>1
  <2>2. start[i] < start[k]
    BY <1>1, <1>4
  <2> HIDE DEF k
  <2>3. start[k] < start[k + 1]
    BY <1>2, <2>1
  <2>4. start[i] \in Nat /\ start[k] \in Nat /\ start[k + 1] \in Nat
    BY <1>1, <2>1
  <2> QED BY <2>1, <2>2, <2>3, <2>4
<1>5. Nat \subseteq S
  <2> HIDE DEF S
  <2> QED BY <1>3, <1>4, Induction
<1>6. j - i - 1 \in Nat /\ i + (j - i - 1) + 1 = j /\ j <= N + 1
  BY <1>1
<1>7. start[i] < start[j]
  BY <1>5, <1>6
<1> QED BY <1>7 DEF start

\* What the two loops do with a unit of that size.
TlvOver(n) ==
  /\ pc = "tlvs"
  /\ at + 3 + n <= len
  /\ Handled(n)
  /\ misread \subseteq misread'
  /\ \/ at' = at + 3 + n /\ pc' = pc /\ verdict' = verdict
     \/ at' = at /\ pc' = "done" /\ verdict' = "UnexpectedFormat"
  /\ UNCHANGED <<frame, flags, len, kept>>

SubframeOver(n) ==
  /\ pc = "aggregate"
  /\ at + 14 + n <= len
  /\ Handled(n)
  /\ kept' = IF OnUnit /\ Converts(Unit, n) THEN Unit ELSE kept
  /\ at' = at + 14 + n + IF Padding(n) <= len - (at + 14 + n) THEN Padding(n)
                         ELSE len - (at + 14 + n)
  /\ UNCHANGED <<frame, pc, flags, len, misread, verdict>>

LEMMA HandledTypes ==
  ASSUME TypeOK, NEW n \in Nat, Handled(n)
  PROVE  walked' \in Seq([at : Nat, size : Nat])
<1>1. [at |-> at, size |-> n] \in [at : Nat, size : Nat]
  BY DEF TypeOK
<1> QED
  BY <1>1, AppendProperties DEF Handled, TypeOK

LEMMA SizesFacts ==
  ASSUME TypeOK
  PROVE  /\ \A n \in SizesHere : n \in Nat
         /\ OnUnit => Unit \in 1 .. N /\ body.start[Unit] = at
<1>1. OnUnit => Unit \in 1 .. N /\ body.start[Unit] = at
  BY DEF OnUnit, Unit, N
<1>2. frame \in Frames /\ len \in Nat
  BY DEF TypeOK
<1>3. ASSUME OnUnit PROVE body.size[Unit] \in Nat
  BY <1>1, <1>2, <1>3, BodyFacts
<1>4. \A n \in SizesHere : n \in Nat
  BY <1>2, <1>3 DEF SizesHere
<1> QED
  BY <1>1, <1>4

\* The walk stands on the unit whose start it has reached.
LEMMA UnitIs ==
  ASSUME TypeOK, Overhead(body) > 0, NEW k \in 1 .. N, at = body.start[k]
  PROVE  OnUnit /\ Unit = k /\ SizesHere = {body.size[k]}
<1>1. OnUnit
  BY DEF OnUnit, N
<1>2. Unit \in 1 .. N /\ body.start[Unit] = at
  BY <1>1, SizesFacts
<1>3. Unit = k
  <2>1. frame \in Frames
    BY DEF TypeOK
  <2>0. N \in Nat
    BY <2>1, BodyFacts
  <2>2. k \in 1 .. N + 1 /\ Unit \in 1 .. N + 1
    BY <1>2, <2>0
  <2>4. body.start[k] \in Nat
    BY <2>1, <2>2, BodyFacts
  <2>3. ~(Unit < k) /\ ~(k < Unit)
    <3>1. Unit < k => body.start[Unit] < body.start[k]
      BY <1>2, <2>1, <2>2, Increasing
    <3>2. k < Unit => body.start[k] < body.start[Unit]
      BY <1>2, <2>1, <2>2, Increasing
    <3> QED
      BY <1>2, <2>4, <3>1, <3>2
  <2> QED
    BY <1>2, <2>2, <2>3
<1> QED
  BY <1>1, <1>3 DEF SizesHere

\* Every unit behind k starts behind the end of k.
LEMMA LaterUnits ==
  ASSUME frame \in Frames, Overhead(body) > 0, NEW k \in 1 .. N, NEW i \in 1 .. N, i >= k
  PROVE  body.start[i] + Overhead(body) + body.size[i]
           >= body.start[k] + Overhead(body) + body.size[k]
<1>0. N \in Nat
  BY BodyFacts
<1>1. k \in 1 .. N + 1 /\ k + 1 \in 1 .. N + 1 /\ i \in 1 .. N + 1
  BY <1>0
<1>2. body.start[k + 1] =
        body.start[k] + Overhead(body) + body.size[k] + Aligned(body, body.size[k])
  BY Adjacent
<1>3. /\ body.start[k] \in Nat /\ body.start[i] \in Nat /\ body.start[k + 1] \in Nat
      /\ body.size[k] \in Nat /\ body.size[i] \in Nat
  BY <1>1, BodyFacts
<1>4. Overhead(body) \in Nat /\ Aligned(body, body.size[k]) \in Nat
  BY BodyFacts
<1>5. CASE i = k
  BY <1>5, <1>3, <1>4
<1>6. CASE i > k
  <2>1. body.start[i] >= body.start[k + 1]
    <3>1. i = k + 1 \/ k + 1 < i
      BY <1>6
    <3>2. k + 1 < i => body.start[k + 1] < body.start[i]
      BY <1>1, Increasing
    <3> QED
      BY <3>1, <3>2, <1>3
  <2> QED
    BY <2>1, <1>2, <1>3, <1>4
<1> QED
  BY <1>5, <1>6

----------------------------------------------------------------------------

\* The parts of the walk stay within their types; stated of every reachable state.
THEOREM TypeCorrect == Spec => []TypeOK
<1>1. Init => TypeOK
  <2>1. <<>> \in Seq([at : Nat, size : Nat])
    OBVIOUS
  <2> QED
    BY <2>1 DEF Init, TypeOK
<1>2. TypeOK /\ [Next]_vars => TypeOK'
  <2> SUFFICES ASSUME TypeOK, [Next]_vars PROVE TypeOK'
    OBVIOUS
  <2>0. frame \in Frames /\ frame.sent \in Nat /\ Headers(body) \in Nat
    BY BodyFacts DEF TypeOK
  <2>1. CASE RadiotapParse
    <3>1. flags' \subseteq {"fcs", "badfcs"}
      <4>1. flags' = flags \/ flags' \in FlagsRead
        BY <2>1 DEF RadiotapParse
      <4> QED
        BY <4>1 DEF FlagsRead, TypeOK
    <3>2. len' \in Nat
      <4>1. len' = len \/ len' = frame.sent + 4 \/ len' = frame.sent + 0
        BY <2>1 DEF RadiotapParse
      <4>2. len \in Nat
        BY DEF TypeOK
      <4> QED
        BY <2>0, <4>1, <4>2
    <3> QED
      BY <2>1, <3>1, <3>2 DEF RadiotapParse, Ends, TypeOK
  <2>2. CASE CheckFcs
    <3>1. len' \in Nat
      BY <2>2 DEF CheckFcs, TypeOK
    <3> QED
      BY <2>2, <3>1 DEF CheckFcs, Ends, TypeOK
  <2>3. CASE Header
    <3>1. len' \in Nat
      BY <2>0, <2>3 DEF Header, TypeOK
    <3>2. pc' \in {"done", "action", "data", "qos data", "aggregate"}
      <4>1. body.kind \in {"MIF", "PSF", "data", "qos data", "aggregate", "other"}
        BY <2>0, BodyFacts
      <4> QED
        BY <2>3, <4>1 DEF Header, Ends, IsAction
    <3> QED
      BY <2>3, <3>1, <3>2 DEF Header, TypeOK
  <2>4. CASE RssiFilter
    BY <2>4 DEF RssiFilter, Ends, TypeOK
  <2>5. CASE Tlv
    <3>1. PICK n \in SizesHere : TlvOver(n)
      BY <2>5 DEF Tlv, TlvOver, Ends
    <3>2. n \in Nat /\ at \in Nat
      BY SizesFacts DEF TypeOK
    <3>3. walked' \in Seq([at : Nat, size : Nat])
      BY <3>1, <3>2, HandledTypes DEF TlvOver
    <3>4. at' \in Nat
      BY <3>1, <3>2 DEF TlvOver
    <3> QED
      BY <3>1, <3>3, <3>4 DEF TlvOver, TypeOK
  <2>6. CASE TlvsEnd
    BY <2>6 DEF TlvsEnd, Ends, TypeOK
  <2>7. CASE Data
    BY <2>7 DEF Data, Ends, TypeOK
  <2>8. CASE Subframe
    <3>1. PICK n \in SizesHere : SubframeOver(n)
      BY <2>8 DEF Subframe, SubframeOver
    <3>2. n \in Nat /\ at \in Nat /\ len \in Nat
      BY SizesFacts DEF TypeOK
    <3>3. walked' \in Seq([at : Nat, size : Nat])
      BY <3>1, <3>2, HandledTypes DEF SubframeOver
    <3>4. at' \in Nat
      <4>1. Padding(n) \in Nat
        BY <3>2 DEF Padding
      <4>2. at' = at + 14 + n + Padding(n) \/ at' = len
        BY <3>1, <3>2, <4>1 DEF SubframeOver
      <4> QED
        BY <3>2, <4>1, <4>2
    <3>5. kept' \in Nat
      <4>1. OnUnit => Unit \in Nat
        BY SizesFacts
      <4> QED
        BY <3>1, <4>1 DEF SubframeOver, TypeOK
    <3> QED
      BY <3>1, <3>3, <3>4, <3>5 DEF SubframeOver, TypeOK
  <2>9. CASE SubframesEnd
    BY <2>9 DEF SubframesEnd, Ends, TypeOK
  <2>10. CASE UNCHANGED vars
    BY <2>10 DEF vars, TypeOK
  <2> QED
    BY <2>1, <2>2, <2>3, <2>4, <2>5, <2>6, <2>7, <2>8, <2>9, <2>10 DEF Next
<1> QED
  BY <1>1, <1>2, PTL DEF Spec

----------------------------------------------------------------------------

Right == "radio flags" \notin misread
K == Len(walked)

LEMMA Counts ==
  ASSUME TypeOK
  PROVE  frame \in Frames /\ K \in Nat /\ N \in Nat /\ len \in Nat /\ at \in Nat /\ kept \in Nat
<1>1. frame \in Frames /\ len \in Nat /\ at \in Nat /\ kept \in Nat
  BY DEF TypeOK
<1>2. walked \in Seq([at : Nat, size : Nat])
  BY DEF TypeOK
<1>3. K \in Nat
  BY <1>2, LenProperties DEF K
<1>4. N \in Nat
  BY <1>1, BodyFacts
<1> QED
  BY <1>1, <1>3, <1>4

\* Where the handlers are, and that the length is what the sender meant it to be.
PlaceInv ==
  /\ pc \in {"radiotap", "fcs", "header", "action"} => walked = <<>> /\ at = 0 /\ kept = 0
  /\ pc # "done" => verdict = "none"
  /\ pc \in {"action", "tlvs"} => IsAction(body)
  /\ pc = "aggregate" => body.kind = "aggregate"
  /\ pc \in {"data", "qos data"} => body.kind = pc
  /\ (pc = "fcs" /\ Right) =>
       /\ "fcs" \in flags <=> frame.fcs
       /\ len = frame.sent + IF frame.fcs THEN 4 ELSE 0
  /\ (pc = "header" /\ Right) => len = frame.sent
  /\ (pc \in {"action", "tlvs", "data", "qos data", "aggregate"} /\ Right) =>
       frame.sent = Headers(body) + len

\* The units that were handled are the first of the sender's.
PrefixInv ==
  Right =>
    /\ K <= N
    /\ \A i \in 1 .. K : walked[i] = [at |-> body.start[i], size |-> body.size[i]]

\* The walk stands where the next unit starts, or at the end of a padding that did
\* not arrive.
PositionInv ==
  Right =>
    /\ pc = "tlvs" => at = body.start[K + 1]
    /\ pc = "aggregate" => at = body.start[K + 1] \/ (at = len /\ len < body.start[K + 1])

CompleteInv ==
  (Right /\ verdict = "Ok" /\ body.kind \notin {"data", "qos data"}) =>
    \A i \in 1 .. N : Arrived(i) => i <= K

KeptInv ==
  (Right /\ body.kind = "aggregate") =>
    /\ kept \in 0 .. K
    /\ \A i \in 1 .. K : Converts(i, walked[i].size) => i <= kept
    /\ kept # 0 => Converts(kept, walked[kept].size)

WalkParts == PlaceInv /\ PrefixInv /\ PositionInv /\ CompleteInv /\ KeptInv
WalkInv == TypeOK /\ PlaceInv /\ PrefixInv /\ PositionInv /\ CompleteInv /\ KeptInv

LEMMA InitWalk == Init => WalkInv
<1> SUFFICES ASSUME Init PROVE WalkInv
  OBVIOUS
<1>1. TypeOK
  <2>1. <<>> \in Seq([at : Nat, size : Nat])
    OBVIOUS
  <2> QED
    BY <2>1 DEF Init, TypeOK
<1>2. K = 0 /\ N \in Nat
  BY <1>1, BodyFacts DEF Init, K, TypeOK
<1>3. PlaceInv
  BY DEF Init, PlaceInv
<1>4. PrefixInv /\ KeptInv
  BY <1>2 DEF Init, PrefixInv, KeptInv
<1>5. PositionInv /\ CompleteInv
  BY DEF Init, PositionInv, CompleteInv
<1> QED
  BY <1>1, <1>3, <1>4, <1>5 DEF WalkInv

Stops ==
  \/ at = body.start[K + 1] /\ \E n \in SizesHere : at + Overhead(body) + n > len
  \/ at = body.start[K + 1] /\ at + Overhead(body) > len
  \/ len < body.start[K + 1]

\* No unit behind the last that was handled is there, where a loop stops.
LEMMA NoneLeft ==
  ASSUME TypeOK, Overhead(body) > 0, frame.sent = Headers(body) + len, Stops
  PROVE  \A i \in 1 .. N : Arrived(i) => i <= K
<1> SUFFICES ASSUME NEW i \in 1 .. N, i > K PROVE ~Arrived(i)
  BY Counts
<1>1. frame \in Frames /\ K \in Nat /\ N \in Nat /\ len \in Nat /\ at \in Nat
  BY Counts
<1>2. Headers(body) \in Nat /\ Overhead(body) \in Nat
  BY <1>1, BodyFacts
<1>3. K + 1 \in 1 .. N /\ i >= K + 1 /\ K + 1 \in 1 .. N + 1 /\ i \in 1 .. N + 1
  BY <1>1
<1>4. /\ body.start[K + 1] \in Nat /\ body.size[K + 1] \in Nat
      /\ body.start[i] \in Nat /\ body.size[i] \in Nat
  BY <1>1, <1>3, BodyFacts
<1>5. body.start[i] + Overhead(body) + body.size[i]
        >= body.start[K + 1] + Overhead(body) + body.size[K + 1]
  BY <1>1, <1>3, LaterUnits
<1>6. body.start[K + 1] + Overhead(body) + body.size[K + 1] > len
  <2>1. CASE at = body.start[K + 1] /\ \E n \in SizesHere : at + Overhead(body) + n > len
    <3>1. SizesHere = {body.size[K + 1]}
      BY <1>3, <2>1, UnitIs
    <3> QED
      BY <2>1, <3>1
  <2>2. CASE at = body.start[K + 1] /\ at + Overhead(body) > len
    BY <1>1, <1>2, <1>4, <2>2
  <2>3. CASE len < body.start[K + 1]
    BY <1>1, <1>2, <1>4, <2>3
  <2> QED
    BY <2>1, <2>2, <2>3 DEF Stops
<1> QED
  BY <1>1, <1>2, <1>4, <1>5, <1>6 DEF Arrived

\* One more unit was handled, and it was the sender's next.
LEMMA OneMore ==
  ASSUME TypeOK, PrefixInv, Right, NEW n \in SizesHere, Handled(n), frame' = frame,
         Overhead(body) > 0, K < N, at = body.start[K + 1]
  PROVE  /\ n = body.size[K + 1] /\ Unit = K + 1 /\ OnUnit
         /\ K' = K + 1
         /\ PrefixInv'
         /\ \A i \in 1 .. K : walked'[i] = walked[i]
         /\ walked'[K + 1].size = n
<1>1. frame \in Frames /\ K \in Nat /\ N \in Nat
  BY Counts
<1>2. K + 1 \in 1 .. N
  BY <1>1
<1>3. OnUnit /\ Unit = K + 1 /\ SizesHere = {body.size[K + 1]}
  BY <1>2, UnitIs
<1>4. n = body.size[K + 1] /\ n \in Nat
  BY <1>1, <1>2, <1>3, BodyFacts
<1> DEFINE e == [at |-> at, size |-> n]
<1>5. walked \in Seq([at : Nat, size : Nat]) /\ e \in [at : Nat, size : Nat]
  BY <1>4 DEF TypeOK
<1>6. walked' = Append(walked, e)
  BY DEF Handled
<1>7. /\ Len(walked') = Len(walked) + 1
      /\ \A i \in 1 .. Len(walked) : walked'[i] = walked[i]
      /\ walked'[Len(walked) + 1] = e
  BY <1>5, <1>6, AppendProperties
<1>8. K' = K + 1 /\ walked'[K + 1] = e /\ \A i \in 1 .. K : walked'[i] = walked[i]
  BY <1>7 DEF K
<1>9. body' = body /\ N' = N
  BY DEF body, N
<1>10. PrefixInv'
  <2>1. \A i \in 1 .. K : walked[i] = [at |-> body.start[i], size |-> body.size[i]]
    BY DEF PrefixInv
  <2>2. e = [at |-> body.start[K + 1], size |-> body.size[K + 1]]
    BY <1>4
  <2>3. \A i \in 1 .. K + 1 : walked'[i] = [at |-> body.start[i], size |-> body.size[i]]
    <3> TAKE i \in 1 .. K + 1
    <3>1. i \in 1 .. K \/ i = K + 1
      BY <1>1
    <3> QED
      BY <1>8, <2>1, <2>2, <3>1
  <2> QED
    BY <1>1, <1>2, <1>8, <1>9, <2>3 DEF PrefixInv
<1> QED
  BY <1>3, <1>4, <1>8, <1>10

\* A step that walks over no unit keeps what is said of them.
LEMMA NoUnit ==
  ASSUME WalkInv, UNCHANGED <<frame, walked, kept>>, misread \subseteq misread'
  PROVE  PrefixInv' /\ KeptInv' /\ body' = body /\ K' = K /\ N' = N /\ (Right' => Right)
<1>1. body' = body /\ K' = K /\ N' = N /\ (Right' => Right)
  BY DEF body, K, N, Right
<1>2. PrefixInv'
  BY <1>1 DEF WalkInv, PrefixInv
<1>3. KeptInv'
  BY <1>1 DEF WalkInv, KeptInv, Converts, body
<1> QED
  BY <1>1, <1>2, <1>3

\* Flags that stand where they are looked for are those of the driver.
LEMMA FlagsOf ==
  ASSUME ReadRight(frame.radio, "radio flags"), NEW f \in FlagsRead
  PROVE  f = (IF frame.fcs THEN {"fcs"} ELSE {}) \cup (IF frame.good THEN {} ELSE {"badfcs"})
BY DEF FlagsRead

LEMMA RadiotapWalk ==
  WalkInv /\ RadiotapParse =>
    PlaceInv' /\ PositionInv' /\ CompleteInv' /\ PrefixInv' /\ KeptInv'
<1> SUFFICES ASSUME WalkInv, RadiotapParse
             PROVE PlaceInv' /\ PositionInv' /\ CompleteInv' /\ PrefixInv' /\ KeptInv'
  OBVIOUS
<1>1. /\ pc = "radiotap" /\ verdict = "none" /\ walked = <<>> /\ at = 0 /\ kept = 0
      /\ UNCHANGED <<frame, at, walked, kept>>
      /\ \/ pc' = "done" /\ verdict' = "UnexpectedFormat"
         \/ pc' = "fcs" /\ verdict' = "none"
  BY DEF RadiotapParse, Ends, WalkInv, PlaceInv
<1>2. K' = 0 /\ N' \in Nat
  <2>1. N \in Nat /\ N' = N
    BY <1>1, Counts DEF WalkInv, N, body
  <2> QED
    BY <1>1, <2>1 DEF K
<1>3. pc' = "fcs" /\ Right' => ("fcs" \in flags' <=> frame.fcs)
  <2> SUFFICES ASSUME pc' = "fcs" PROVE Right' => ("fcs" \in flags' <=> frame.fcs)
    OBVIOUS
  <2>1. Right' => ReadRight(frame.radio, "radio flags")
    BY DEF RadiotapParse, Ends, Right
  <2>2. ReadRight(frame.radio, "radio flags") =>
          flags' = (IF frame.fcs THEN {"fcs"} ELSE {}) \cup
                   (IF frame.good THEN {} ELSE {"badfcs"})
    BY FlagsOf DEF RadiotapParse, Ends
  <2>3. frame.fcs => "fcs" \in (IF frame.fcs THEN {"fcs"} ELSE {}) \cup
                               (IF frame.good THEN {} ELSE {"badfcs"})
    OBVIOUS
  <2>4. ~frame.fcs => "fcs" \notin (IF frame.fcs THEN {"fcs"} ELSE {}) \cup
                                   (IF frame.good THEN {} ELSE {"badfcs"})
    OBVIOUS
  <2> QED
    BY <2>1, <2>2, <2>3, <2>4
<1>4. pc' = "fcs" => len' = frame.sent + IF frame.fcs THEN 4 ELSE 0
  BY DEF RadiotapParse, Ends
<1>5. PlaceInv'
  BY <1>1, <1>3, <1>4 DEF PlaceInv
<1>6. PositionInv' /\ CompleteInv'
  BY <1>1 DEF PositionInv, CompleteInv
<1>7. PrefixInv' /\ KeptInv'
  BY <1>1, <1>2 DEF PrefixInv, KeptInv
<1> QED
  BY <1>5, <1>6, <1>7

LEMMA CheckFcsWalk == WalkInv /\ CheckFcs => PlaceInv' /\ PositionInv' /\ CompleteInv'
<1> SUFFICES ASSUME WalkInv, CheckFcs PROVE PlaceInv' /\ PositionInv' /\ CompleteInv'
  OBVIOUS
<1>0. /\ pc = "fcs" /\ verdict = "none" /\ walked = <<>> /\ at = 0 /\ kept = 0
      /\ UNCHANGED <<frame, at, walked, misread, kept>>
  BY DEF CheckFcs, WalkInv, PlaceInv
<1>9. \/ pc' = "done" /\ verdict' = "IgnoreFailedCrc"
      \/ pc' = "header" /\ verdict' = verdict
  BY DEF CheckFcs, Ends
<1>1. /\ pc = "fcs" /\ verdict = "none" /\ walked = <<>> /\ at = 0 /\ kept = 0
      /\ UNCHANGED <<frame, at, walked, misread, kept>>
      /\ \/ pc' = "done" /\ verdict' = "IgnoreFailedCrc"
         \/ pc' = "header" /\ verdict' = "none"
  BY <1>0, <1>9
<1>2. ASSUME pc' = "header", Right' PROVE len' = frame.sent
  <2>1. Right /\ frame.sent \in Nat
    BY <1>1, <1>2, BodyFacts, Counts DEF Right, WalkInv
  <2>2. /\ "fcs" \in flags <=> frame.fcs
        /\ len = frame.sent + IF frame.fcs THEN 4 ELSE 0
    BY <1>1, <2>1 DEF WalkInv, PlaceInv
  <2>3. len' = IF "fcs" \in flags /\ len >= 4 THEN len - 4 ELSE len
    BY <1>2 DEF CheckFcs, Ends
  <2>4. CASE frame.fcs
    BY <2>1, <2>2, <2>3, <2>4
  <2>5. CASE ~frame.fcs
    BY <2>1, <2>2, <2>3, <2>5
  <2> QED
    BY <2>4, <2>5
<1>3. PlaceInv'
  BY <1>1, <1>2 DEF PlaceInv
<1> QED
  BY <1>1, <1>3 DEF PositionInv, CompleteInv

LEMMA HeaderWalk == WalkInv /\ Header => PlaceInv' /\ PositionInv' /\ CompleteInv'
<1> SUFFICES ASSUME WalkInv, Header PROVE PlaceInv' /\ PositionInv' /\ CompleteInv'
  OBVIOUS
<1>0. frame \in Frames /\ len \in Nat /\ N \in Nat
  BY Counts DEF WalkInv
<1>1. /\ pc = "header" /\ verdict = "none" /\ walked = <<>> /\ at = 0 /\ kept = 0
      /\ UNCHANGED <<frame, at, walked, misread, kept>>
      /\ (Right => len = frame.sent)
  BY DEF Header, WalkInv, PlaceInv
<1>2. body' = body /\ N' = N /\ K' = 0 /\ (Right' => Right)
  BY <1>1 DEF body, N, K, Right
<1>3. CASE pc' = "done" /\ verdict' # "Ok"
  BY <1>1, <1>3 DEF PlaceInv, PositionInv, CompleteInv
<1>4. CASE /\ pc' = (IF IsAction(body) THEN "action" ELSE body.kind)
           /\ verdict' = verdict /\ len >= Headers(body) /\ body.kind # "other"
           /\ len' = len - Headers(body)
  <2>1. Headers(body) \in Nat /\ body.start[1] = 0
        /\ body.kind \in {"MIF", "PSF", "data", "qos data", "aggregate", "other"}
    BY <1>0, BodyFacts
  <2>2. Right' => frame'.sent = Headers(body') + len'
    <3>1. Right' => frame.sent = len
      BY <1>1, <1>2
    <3>0. len' = len - Headers(body)
      BY <1>4
    <3>3. Headers(body) \in Nat /\ len \in Nat
      BY <1>0, BodyFacts
    <3>2. len = Headers(body) + len'
      BY <3>3, <3>0
    <3> QED
      BY <1>1, <1>2, <3>1, <3>2
  <2>3. /\ pc' = "action" => IsAction(body')
        /\ pc' = "aggregate" => body'.kind = "aggregate"
        /\ pc' \in {"data", "qos data"} => body'.kind = pc'
        /\ pc' \in {"action", "data", "qos data", "aggregate"}
    BY <1>2, <1>4, <2>1 DEF IsAction
  <2>4. PlaceInv'
    BY <1>1, <1>4, <2>2, <2>3 DEF PlaceInv
  <2>5. PositionInv'
    <3>0. at' = 0 /\ K' + 1 = 1
      BY <1>1, <1>2
    <3>1. at' = body'.start[K' + 1]
      BY <1>2, <2>1, <3>0
    <3> QED
      BY <3>1 DEF PositionInv
  <2>6. CompleteInv'
    BY <1>1, <1>4 DEF CompleteInv
  <2> QED
    BY <2>4, <2>5, <2>6
<1> QED
  BY <1>3, <1>4 DEF Header, Ends

LEMMA RssiWalk == WalkInv /\ RssiFilter => PlaceInv' /\ PositionInv' /\ CompleteInv'
<1> SUFFICES ASSUME WalkInv, RssiFilter PROVE PlaceInv' /\ PositionInv' /\ CompleteInv'
  OBVIOUS
<1>0. /\ pc = "action" /\ verdict = "none" /\ walked = <<>> /\ at = 0 /\ IsAction(body)
      /\ Right => frame.sent = Headers(body) + len
      /\ UNCHANGED <<frame, len, at, walked, misread, kept>>
  BY DEF RssiFilter, WalkInv, PlaceInv
<1>9. \/ pc' = "tlvs" /\ verdict' = verdict
      \/ pc' = "done" /\ verdict' = "IgnoreRssi"
  BY DEF RssiFilter, Ends
<1>1. /\ pc = "action" /\ verdict = "none" /\ walked = <<>> /\ at = 0 /\ IsAction(body)
      /\ Right => frame.sent = Headers(body) + len
      /\ UNCHANGED <<frame, len, at, walked, misread, kept>>
      /\ \/ pc' = "tlvs" /\ verdict' = "none"
         \/ pc' = "done" /\ verdict' = "IgnoreRssi"
  BY <1>0, <1>9
<1>2. body' = body /\ K' = 0 /\ (Right' => Right)
  BY <1>1 DEF body, K, Right
<1>3. body.start[1] = 0
  BY BodyFacts, Counts DEF WalkInv
<1>4. PlaceInv'
  BY <1>1, <1>2 DEF PlaceInv
<1>5. PositionInv'
  BY <1>1, <1>2, <1>3 DEF PositionInv
<1>6. CompleteInv'
  BY <1>1 DEF CompleteInv
<1> QED
  BY <1>4, <1>5, <1>6

LEMMA TlvWalk ==
  ASSUME WalkInv, NEW n \in SizesHere, TlvOver(n)
  PROVE  WalkParts'
<1>1. /\ frame \in Frames /\ K \in Nat /\ N \in Nat /\ len \in Nat /\ at \in Nat
      /\ TypeOK /\ n \in Nat
  BY Counts, SizesFacts DEF WalkInv
<1>2. /\ pc = "tlvs" /\ verdict = "none" /\ IsAction(body) /\ at + 3 + n <= len
      /\ Handled(n) /\ UNCHANGED <<frame, flags, len, kept>>
      /\ misread \subseteq misread'
  BY DEF TlvOver, WalkInv, PlaceInv
<1>3. \/ at' = at + 3 + n /\ pc' = "tlvs" /\ verdict' = "none"
      \/ at' = at /\ pc' = "done" /\ verdict' = "UnexpectedFormat"
  BY <1>2 DEF TlvOver
<1>4. body' = body /\ N' = N /\ (Right' => Right)
  BY <1>2 DEF body, N, Right
<1>5. body.kind # "aggregate" /\ Overhead(body) = 3
  BY <1>2 DEF IsAction, Overhead
<1>6. ASSUME Right
      PROVE  frame.sent = Headers(body) + len /\ at = body.start[K + 1] /\ K <= N
  BY <1>2, <1>6 DEF WalkInv, PlaceInv, PositionInv, PrefixInv
<1>7. ASSUME Right PROVE K < N
  <2>1. frame.sent <= Headers(body) + body.start[N + 1]
    BY <1>1, SentFits
  <2>2. Headers(body) \in Nat /\ body.start[N + 1] \in Nat
    BY <1>1, BodyFacts, SentFits
  <2>3. K = N => len <= at
    BY <1>1, <1>6, <1>7, <2>1, <2>2
  <2> QED
    BY <1>1, <1>2, <1>6, <1>7, <2>3
<1>8. PlaceInv'
  BY <1>2, <1>3, <1>4, <1>6 DEF PlaceInv
<1>9. ASSUME Right
      PROVE  n = body.size[K + 1] /\ K' = K + 1 /\ PrefixInv'
  BY <1>1, <1>2, <1>5, <1>6, <1>7, <1>9, OneMore DEF WalkInv
<1>10. PrefixInv'
  BY <1>4, <1>9 DEF PrefixInv
<1>11. PositionInv'
  <2> SUFFICES ASSUME Right', pc' = "tlvs" PROVE at' = body'.start[K' + 1]
    BY <1>3 DEF PositionInv
  <2>1. Right /\ at' = at + 3 + n
    BY <1>3, <1>4
  <2>2. K + 1 \in 1 .. N /\ K + 1 \in 1 .. N + 1
    BY <1>1, <1>7, <2>1
  <2>3. body.start[K + 1 + 1] =
          body.start[K + 1] + Overhead(body) + body.size[K + 1] + Aligned(body, body.size[K + 1])
    BY <1>1, <2>2, Adjacent
  <2>4. Overhead(body) = 3 /\ Aligned(body, body.size[K + 1]) = 0
    BY <1>2, <1>5 DEF Overhead, Aligned
  <2>5. body.start[K + 1] \in Nat
    BY <1>1, <2>2, BodyFacts
  <2>6. body.start[K + 1 + 1] = at + 3 + n
    BY <1>1, <1>6, <1>9, <2>1, <2>3, <2>4, <2>5
  <2> QED
    BY <1>4, <1>9, <2>1, <2>6
<1>12. CompleteInv'
  BY <1>3 DEF CompleteInv
<1>13. KeptInv'
  BY <1>4, <1>5 DEF KeptInv
<1> QED
  BY <1>8, <1>10, <1>11, <1>12, <1>13 DEF WalkParts

LEMMA TlvsEndWalk == WalkInv /\ TlvsEnd => PlaceInv' /\ PositionInv' /\ CompleteInv'
<1> SUFFICES ASSUME WalkInv, TlvsEnd PROVE PlaceInv' /\ PositionInv' /\ CompleteInv'
  OBVIOUS
<1>1. /\ pc = "tlvs" /\ pc' = "done" /\ IsAction(body)
      /\ UNCHANGED <<frame, len, at, walked, misread, kept>>
      /\ verdict' = "Ok" => at >= len
  BY DEF TlvsEnd, Ends, WalkInv, PlaceInv
<1>2. PlaceInv' /\ PositionInv'
  BY <1>1 DEF PlaceInv, PositionInv
<1>3. CompleteInv'
  <2>1. body' = body /\ N' = N /\ K' = K /\ (Right' => Right)
    BY <1>1 DEF body, N, K, Right
  <2> SUFFICES ASSUME Right', verdict' = "Ok" PROVE \A i \in 1 .. N : Arrived(i) => i <= K
    BY <1>1, <2>1 DEF CompleteInv, Arrived
  <2>2. TypeOK /\ Right /\ at = body.start[K + 1] /\ frame.sent = Headers(body) + len
    BY <1>1, <2>1 DEF WalkInv, PlaceInv, PositionInv
  <2>3. at + Overhead(body) > len /\ Overhead(body) > 0
    <3>1. Overhead(body) = 3
      BY <1>1 DEF Overhead
    <3>2. at \in Nat /\ len \in Nat /\ at >= len
      BY <1>1, <2>2, Counts
    <3> QED
      BY <3>1, <3>2
  <2> QED
    BY <2>2, <2>3, NoneLeft DEF Stops
<1> QED
  BY <1>2, <1>3

LEMMA DataWalk == WalkInv /\ Data => WalkParts'
<1> SUFFICES ASSUME WalkInv, Data PROVE WalkParts'
  OBVIOUS
<1>1. /\ pc \in {"data", "qos data"} /\ pc' = "done" /\ body.kind = pc
      /\ UNCHANGED <<frame, walked, misread>>
  BY DEF Data, Ends, WalkInv, PlaceInv
<1>2. body' = body /\ N' = N /\ K' = K /\ (Right' => Right)
  BY <1>1 DEF body, N, K, Right
<1>3. PlaceInv' /\ PositionInv' /\ CompleteInv' /\ KeptInv'
  BY <1>1, <1>2 DEF PlaceInv, PositionInv, CompleteInv, KeptInv
<1>4. PrefixInv'
  BY <1>1, <1>2 DEF WalkInv, PrefixInv
<1> QED
  BY <1>3, <1>4 DEF WalkParts

LEMMA SubframeWalk ==
  ASSUME WalkInv, NEW n \in SizesHere, SubframeOver(n)
  PROVE  WalkParts'
<1>1. /\ frame \in Frames /\ K \in Nat /\ N \in Nat /\ len \in Nat /\ at \in Nat /\ kept \in Nat
      /\ TypeOK /\ n \in Nat
  BY Counts, SizesFacts DEF WalkInv
<1>2. /\ pc = "aggregate" /\ verdict = "none" /\ body.kind = "aggregate" /\ at + 14 + n <= len
      /\ Handled(n) /\ UNCHANGED <<frame, pc, flags, len, misread, verdict>>
  BY DEF SubframeOver, WalkInv, PlaceInv
<1>3. body' = body /\ N' = N /\ Right' = Right
  BY <1>2 DEF body, N, Right
<1>4. Overhead(body) = 14
  BY <1>2 DEF Overhead, IsAction
<1>5. ASSUME Right
      PROVE  frame.sent = Headers(body) + len /\ at = body.start[K + 1] /\ K <= N
  <2>1. at # len
    BY <1>1, <1>2
  <2> QED
    BY <1>2, <1>5, <2>1 DEF WalkInv, PlaceInv, PositionInv, PrefixInv
<1>6. ASSUME Right PROVE K < N
  <2>1. frame.sent <= Headers(body) + body.start[N + 1]
    BY <1>1, SentFits
  <2>2. Headers(body) \in Nat /\ body.start[N + 1] \in Nat
    BY <1>1, BodyFacts, SentFits
  <2>3. K = N => len <= at
    BY <1>1, <1>5, <1>6, <2>1, <2>2
  <2> QED
    BY <1>1, <1>2, <1>5, <1>6, <2>3
<1>7. ASSUME Right
      PROVE  /\ n = body.size[K + 1] /\ K' = K + 1 /\ PrefixInv' /\ OnUnit /\ Unit = K + 1
             /\ \A i \in 1 .. K : walked'[i] = walked[i]
             /\ walked'[K + 1].size = n
  BY <1>1, <1>2, <1>4, <1>5, <1>6, <1>7, OneMore DEF WalkInv
<1>8. PlaceInv'
  BY <1>2, <1>3 DEF WalkInv, PlaceInv
<1>9. PrefixInv'
  BY <1>3, <1>7 DEF PrefixInv
<1>10. PositionInv'
  <2> SUFFICES ASSUME Right
               PROVE  at' = body.start[K + 2] \/ (at' = len /\ len < body.start[K + 2])
    <3>1. Right' => K' + 1 = K + 2
      BY <1>1, <1>3, <1>7
    <3> QED
      BY <1>2, <1>3, <3>1 DEF PositionInv
  <2>1. K + 1 \in 1 .. N /\ K + 1 \in 1 .. N + 1 /\ K + 1 + 1 = K + 2
    BY <1>1, <1>6
  <2>2. body.start[K + 2] =
          body.start[K + 1] + 14 + body.size[K + 1] + Aligned(body, body.size[K + 1])
    BY <1>1, <1>4, <2>1, Adjacent
  <2>3. Aligned(body, body.size[K + 1]) = Padding(n) /\ Padding(n) \in Nat
    BY <1>1, <1>2, <1>7 DEF Aligned, Padding
  <2>4. body.start[K + 2] = at + 14 + n + Padding(n)
    BY <1>5, <1>7, <2>2, <2>3
  <2>5. at' = at + 14 + n + IF Padding(n) <= len - (at + 14 + n) THEN Padding(n)
                           ELSE len - (at + 14 + n)
    BY DEF SubframeOver
  <2> QED
    BY <1>1, <2>3, <2>4, <2>5
<1>11. CompleteInv'
  BY <1>2 DEF CompleteInv
<1>12. KeptInv'
  <2> SUFFICES ASSUME Right
               PROVE  /\ kept' \in 0 .. K + 1
                      /\ \A i \in 1 .. K + 1 : Converts(i, walked'[i].size) => i <= kept'
                      /\ kept' # 0 => Converts(kept', walked'[kept'].size)
    <3>1. \A i, m : Converts(i, m)' <=> Converts(i, m)
      BY <1>2, <1>3 DEF Converts
    <3> QED
      BY <1>3, <1>7, <3>1 DEF KeptInv, Converts
  <2>1. /\ kept \in 0 .. K
        /\ \A i \in 1 .. K : Converts(i, walked[i].size) => i <= kept
        /\ kept # 0 => Converts(kept, walked[kept].size)
    BY <1>2 DEF WalkInv, KeptInv
  <2>2. CASE Converts(K + 1, n)
    <3>1. kept' = K + 1
      BY <1>7, <2>2 DEF SubframeOver
    <3> QED
      BY <1>1, <1>7, <2>2, <3>1
  <2>3. CASE ~Converts(K + 1, n)
    <3>1. kept' = kept
      BY <1>7, <2>3 DEF SubframeOver
    <3>2. \A i \in 1 .. K + 1 : i \in 1 .. K \/ i = K + 1
      BY <1>1
    <3>3. \A i \in 1 .. K + 1 : Converts(i, walked'[i].size) => i <= kept
      BY <1>7, <2>1, <2>3, <3>2
    <3>4. kept # 0 => kept \in 1 .. K
      BY <1>1, <2>1
    <3>5. kept # 0 => Converts(kept, walked'[kept].size)
      BY <1>7, <2>1, <3>4
    <3>6. kept \in 0 .. K + 1
      BY <1>1, <2>1
    <3> QED
      BY <3>1, <3>3, <3>5, <3>6
  <2> QED
    BY <2>2, <2>3
<1> QED
  BY <1>8, <1>9, <1>10, <1>11, <1>12 DEF WalkParts

LEMMA SubframesEndWalk == WalkInv /\ SubframesEnd => PlaceInv' /\ PositionInv' /\ CompleteInv'
<1> SUFFICES ASSUME WalkInv, SubframesEnd PROVE PlaceInv' /\ PositionInv' /\ CompleteInv'
  OBVIOUS
<1>1. /\ pc = "aggregate" /\ pc' = "done" /\ body.kind = "aggregate"
      /\ UNCHANGED <<frame, len, at, walked, misread, kept>>
      /\ at + 14 > len \/ \E n \in SizesHere : at + 14 + n > len
  BY DEF SubframesEnd, Ends, WalkInv, PlaceInv
<1>2. PlaceInv' /\ PositionInv'
  BY <1>1 DEF PlaceInv, PositionInv
<1>3. CompleteInv'
  <2>1. body' = body /\ N' = N /\ K' = K /\ (Right' => Right)
    BY <1>1 DEF body, N, K, Right
  <2> SUFFICES ASSUME Right' PROVE \A i \in 1 .. N : Arrived(i) => i <= K
    BY <1>1, <2>1 DEF CompleteInv, Arrived
  <2>2. /\ TypeOK /\ Right /\ frame.sent = Headers(body) + len
        /\ at = body.start[K + 1] \/ (at = len /\ len < body.start[K + 1])
    BY <1>1, <2>1 DEF WalkInv, PlaceInv, PositionInv
  <2>3. Overhead(body) = 14 /\ Overhead(body) > 0
    BY <1>1 DEF Overhead, IsAction
  <2>4. Stops
    BY <1>1, <2>2, <2>3 DEF Stops
  <2> QED
    BY <2>2, <2>3, <2>4, NoneLeft
<1> QED
  BY <1>2, <1>3

----------------------------------------------------------------------------

LEMMA NextWalk == WalkInv /\ TypeOK' /\ [Next]_vars => WalkInv'
<1> SUFFICES ASSUME WalkInv, TypeOK', [Next]_vars PROVE WalkParts'
  BY DEF WalkInv, WalkParts
<1>1. CASE RadiotapParse
  BY <1>1, RadiotapWalk DEF WalkParts
<1>2. CASE CheckFcs
  <2>1. UNCHANGED <<frame, walked, kept>> /\ misread \subseteq misread'
    BY <1>2 DEF CheckFcs
  <2> QED
    BY <1>2, <2>1, CheckFcsWalk, NoUnit DEF WalkParts
<1>3. CASE Header
  <2>1. UNCHANGED <<frame, walked, kept>> /\ misread \subseteq misread'
    BY <1>3 DEF Header
  <2> QED
    BY <1>3, <2>1, HeaderWalk, NoUnit DEF WalkParts
<1>4. CASE RssiFilter
  <2>1. UNCHANGED <<frame, walked, kept>> /\ misread \subseteq misread'
    BY <1>4 DEF RssiFilter
  <2> QED
    BY <1>4, <2>1, RssiWalk, NoUnit DEF WalkParts
<1>5. CASE Tlv
  <2>1. PICK n \in SizesHere : TlvOver(n)
    BY <1>5 DEF Tlv, TlvOver, Ends
  <2> QED
    BY <2>1, TlvWalk
<1>6. CASE TlvsEnd
  <2>1. UNCHANGED <<frame, walked, kept>> /\ misread \subseteq misread'
    BY <1>6 DEF TlvsEnd
  <2> QED
    BY <1>6, <2>1, TlvsEndWalk, NoUnit DEF WalkParts
<1>7. CASE Data
  BY <1>7, DataWalk
<1>8. CASE Subframe
  <2>1. PICK n \in SizesHere : SubframeOver(n)
    BY <1>8 DEF Subframe, SubframeOver
  <2> QED
    BY <2>1, SubframeWalk
<1>9. CASE SubframesEnd
  <2>1. UNCHANGED <<frame, walked, kept>> /\ misread \subseteq misread'
    BY <1>9 DEF SubframesEnd
  <2> QED
    BY <1>9, <2>1, SubframesEndWalk, NoUnit DEF WalkParts
<1>10. CASE UNCHANGED vars
  <2>1. PrefixInv' /\ KeptInv' /\ body' = body /\ K' = K /\ N' = N /\ (Right' => Right)
    BY <1>10, NoUnit DEF vars
  <2>2. PlaceInv'
    BY <1>10, <2>1 DEF vars, WalkInv, PlaceInv
  <2>3. PositionInv'
    BY <1>10, <2>1 DEF vars, WalkInv, PositionInv
  <2>4. CompleteInv'
    BY <1>10, <2>1 DEF vars, WalkInv, CompleteInv, Arrived
  <2> QED
    BY <2>1, <2>2, <2>3, <2>4 DEF WalkParts
<1> QED
  BY <1>1, <1>2, <1>3, <1>4, <1>5, <1>6, <1>7, <1>8, <1>9, <1>10 DEF Next

LEMMA WalkInvIsEnough == WalkInv => WalkedAsWritten
<1> SUFFICES ASSUME WalkInv PROVE WalkedAsWritten
  OBVIOUS
<1>1. K \in Nat /\ N \in Nat
  BY Counts DEF WalkInv
<1> SUFFICES ASSUME Right
             PROVE  /\ \A i \in 1 .. K :
                         i \in 1 .. N /\ walked[i] = [at |-> body.start[i], size |-> body.size[i]]
                    /\ (verdict = "Ok" /\ body.kind \notin {"data", "qos data"}) =>
                         \A i \in 1 .. N : Arrived(i) => i <= K
                    /\ body.kind = "aggregate" =>
                         /\ kept \in 0 .. K
                         /\ kept # 0 => Converts(kept, walked[kept].size)
                         /\ kept = 0 => \A i \in 1 .. K : ~Converts(i, walked[i].size)
  BY DEF WalkedAsWritten, Right, K, N
<1>2. K <= N /\ \A i \in 1 .. K : walked[i] = [at |-> body.start[i], size |-> body.size[i]]
  BY DEF WalkInv, PrefixInv
<1>3. \A i \in 1 .. K : i \in 1 .. N
  BY <1>1, <1>2
<1>4. (verdict = "Ok" /\ body.kind \notin {"data", "qos data"}) =>
        \A i \in 1 .. N : Arrived(i) => i <= K
  BY DEF WalkInv, CompleteInv
<1>5. body.kind = "aggregate" =>
        /\ kept \in 0 .. K /\ (kept # 0 => Converts(kept, walked[kept].size))
        /\ \A i \in 1 .. K : Converts(i, walked[i].size) => i <= kept
  BY DEF WalkInv, KeptInv
<1>6. ASSUME body.kind = "aggregate", kept = 0, NEW i \in 1 .. K PROVE ~Converts(i, walked[i].size)
  BY <1>1, <1>5, <1>6
<1> QED
  BY <1>2, <1>3, <1>4, <1>5, <1>6

\* The loops of rx.rs over TLVs and over sub-frames handle the units of the sender
\* and nothing else, in its order, and skip none that arrived whole; of the
\* sub-frames that can be converted one is returned.
THEOREM WalksInStep == Spec => []WalkedAsWritten
<1>1. Init => WalkInv
  BY InitWalk
<1>2. WalkInv /\ TypeOK' /\ [Next]_vars => WalkInv'
  BY NextWalk
<1>3. WalkInv => WalkedAsWritten
  BY WalkInvIsEnough
<1>4. Spec => []TypeOK
  BY TypeCorrect
<1> QED
  BY <1>1, <1>2, <1>3, <1>4, PTL DEF Spec

----------------------------------------------------------------------------
(* Layouts: where fields end, for any sizes. *)

\* The sums that End defines.
Sums(s, n, f) == f = [i \in 0 .. n |-> IF i = 0 THEN 0 ELSE f[i - 1] + s[i].size]

IsLayout(s) == Len(s) \in Nat /\ \A i \in 1 .. Len(s) : s[i].size \in Nat

LEMMA SumsExist ==
  ASSUME NEW s, NEW m \in Nat
  PROVE  \E f : Sums(s, m, f)
<1> DEFINE S == {n \in Nat : \E f : Sums(s, n, f)}
<1>1. 0 \in S
  <2> DEFINE g == [i \in 0 .. 0 |-> 0]
  <2>1. Sums(s, 0, g)
    BY DEF Sums
  <2> HIDE DEF g
  <2> QED BY <2>1
<1>2. ASSUME NEW n \in Nat, n \in S PROVE n + 1 \in S
  <2>1. PICK f : Sums(s, n, f)
    BY <1>2
  <2> DEFINE g == [i \in 0 .. n + 1 |-> IF i = n + 1 THEN f[n] + s[n + 1].size ELSE f[i]]
  <2>2. \A i \in 0 .. n : g[i] = f[i]
    OBVIOUS
  <2>3. g[n + 1] = f[n] + s[n + 1].size
    OBVIOUS
  <2>4. g = [i \in 0 .. n + 1 |-> g[i]]
    OBVIOUS
  <2>5. \A i \in 0 .. n + 1 : g[i] = IF i = 0 THEN 0 ELSE g[i - 1] + s[i].size
    <3> SUFFICES ASSUME NEW i \in 0 .. n + 1
                 PROVE  g[i] = IF i = 0 THEN 0 ELSE g[i - 1] + s[i].size
      OBVIOUS
    <3> HIDE DEF g
    <3>1. CASE i = n + 1
      <4>1. g[n] = f[n] /\ i # 0 /\ i - 1 = n
        BY <2>2, <3>1
      <4> QED BY <2>3, <3>1, <4>1
    <3>2. CASE i # n + 1
      <4>1. i \in 0 .. n /\ (i # 0 => i - 1 \in 0 .. n)
        BY <3>2
      <4>2. f[i] = IF i = 0 THEN 0 ELSE f[i - 1] + s[i].size
        BY <2>1, <4>1 DEF Sums
      <4> QED BY <2>2, <4>1, <4>2
    <3> QED BY <3>1, <3>2
  <2>6. Sums(s, n + 1, g)
    <3> HIDE DEF g
    <3> QED BY <2>4, <2>5 DEF Sums
  <2> HIDE DEF g
  <2> QED BY <2>6
<1>3. Nat \subseteq S
  <2> HIDE DEF S
  <2> QED BY <1>1, <1>2, Induction
<1> QED BY <1>3

\* End one field at a time.
LEMMA EndSteps ==
  ASSUME NEW s, IsLayout(s)
  PROVE  /\ End(s)[0] = 0
         /\ \A i \in 1 .. Len(s) : End(s)[i] = End(s)[i - 1] + s[i].size
<1>1. Sums(s, Len(s), End(s))
  <2>1. End(s) = CHOOSE f : Sums(s, Len(s), f)
    BY DEF End, Sums
  <2> QED BY <2>1, SumsExist DEF IsLayout
<1>2. \A i \in 0 .. Len(s) : End(s)[i] = IF i = 0 THEN 0 ELSE End(s)[i - 1] + s[i].size
  BY <1>1 DEF Sums
<1>3. Len(s) \in Nat
  BY DEF IsLayout
<1> QED BY <1>2, <1>3

LEMMA EndRises ==
  ASSUME NEW s, IsLayout(s)
  PROVE  /\ \A i \in 0 .. Len(s) : End(s)[i] \in Nat
         /\ \A i, j \in 0 .. Len(s) : i <= j => End(s)[i] <= End(s)[j]
<1> DEFINE n == Len(s)
           e == End(s)
           S == {k \in Nat : k <= n => \A i \in 0 .. k : e[i] \in Nat /\ e[i] <= e[k]}
<1>1. n \in Nat /\ \A i \in 1 .. n : s[i].size \in Nat
  BY DEF IsLayout
<1>2. e[0] = 0 /\ \A i \in 1 .. n : e[i] = e[i - 1] + s[i].size
  BY EndSteps
<1> HIDE DEF n, e
<1>3. 0 \in S
  BY <1>2
<1>4. ASSUME NEW k \in Nat, k \in S PROVE k + 1 \in S
  <2> SUFFICES ASSUME k + 1 <= n
               PROVE  \A i \in 0 .. k + 1 : e[i] \in Nat /\ e[i] <= e[k + 1]
    OBVIOUS
  <2>1. e[k] \in Nat /\ \A i \in 0 .. k : e[i] \in Nat /\ e[i] <= e[k]
    BY <1>1, <1>4
  <2>2. k + 1 \in 1 .. n /\ s[k + 1].size \in Nat
    BY <1>1
  <2>3. e[k + 1] = e[k] + s[k + 1].size
    BY <1>2, <2>2
  <2>4. e[k + 1] \in Nat /\ e[k] <= e[k + 1]
    BY <2>1, <2>2, <2>3
  <2>5. \A i \in 0 .. k + 1 : i = k + 1 \/ i \in 0 .. k
    OBVIOUS
  <2> QED BY <2>1, <2>4, <2>5
<1>5. Nat \subseteq S
  <2> HIDE DEF S
  <2> QED BY <1>3, <1>4, Induction
<1>6. ASSUME NEW j \in 0 .. n PROVE \A i \in 0 .. j : e[i] \in Nat /\ e[i] <= e[j]
  BY <1>1, <1>5
<1> QED BY <1>1, <1>6 DEF n, e

\* A read that is meant for a field and gets its first bytes.
Meets(s, read) ==
  \E k \in 1 .. Len(s) :
    /\ s[k].name = read.name /\ s[k].n = read.n
    /\ End(s)[k - 1] = read.off
    /\ read.size \in Nat \ {0} /\ read.size <= s[k].size

LEMMA MeetsOne ==
  ASSUME NEW s, IsLayout(s), NEW read, Meets(s, read)
  PROVE  /\ Fields(s, read.off, read.size) = {[name |-> read.name, n |-> read.n]}
         /\ read.off + read.size <= SizeOf(s)
<1>1. PICK k \in 1 .. Len(s) :
        /\ s[k].name = read.name /\ s[k].n = read.n
        /\ End(s)[k - 1] = read.off
        /\ read.size \in Nat \ {0} /\ read.size <= s[k].size
  BY DEF Meets
<1> DEFINE e == End(s)
           m == Len(s)
<1>2. /\ m \in Nat /\ k \in 1 .. m /\ \A i \in 1 .. m : s[i].size \in Nat
      /\ \A i \in 1 .. m : e[i] = e[i - 1] + s[i].size
      /\ \A i \in 0 .. m : e[i] \in Nat
      /\ \A i, j \in 0 .. m : i <= j => e[i] <= e[j]
  BY <1>1, EndSteps, EndRises DEF IsLayout
<1> HIDE DEF e, m
<1>3. k - 1 \in 0 .. m /\ k \in 0 .. m /\ m \in 0 .. m
  BY <1>2
<1>4. e[k] = e[k - 1] + s[k].size /\ e[k] <= e[m] /\ e[m] \in Nat /\ e[k - 1] \in Nat
  BY <1>2, <1>3
<1>5. ASSUME NEW i \in 1 .. m, e[i - 1] = read.off, read.size <= s[i].size PROVE i = k
  <2>1. i - 1 \in 0 .. m /\ i \in 0 .. m
    BY <1>2
  <2>2. e[i] = e[i - 1] + s[i].size /\ e[i - 1] \in Nat /\ s[i].size \in Nat
    BY <1>2, <2>1
  <2>3. e[i - 1] = e[k - 1]
    BY <1>1, <1>5 DEF e
  <2>4. e[i] > e[k - 1] /\ e[k] > e[i - 1]
    <3>1. s[i].size > 0 /\ s[k].size > 0
      BY <1>1, <1>2, <1>5, <2>2
    <3> QED BY <1>2, <1>4, <2>2, <2>3, <3>1
  <2>5. ~ (i < k)
    <3>1. i < k => i <= k - 1
      BY <1>2
    <3>2. i <= k - 1 => e[i] <= e[k - 1]
      BY <1>2, <1>3, <2>1
    <3>3. e[i] \in Int /\ e[k - 1] \in Int
      BY <1>2, <1>3, <2>1
    <3> QED BY <1>2, <2>4, <3>1, <3>2, <3>3
  <2>6. ~ (k < i)
    <3>1. k < i => k <= i - 1
      BY <1>2
    <3>2. k <= i - 1 => e[k] <= e[i - 1]
      BY <1>2, <1>3, <2>1
    <3>3. e[k] \in Int /\ e[i - 1] \in Int
      BY <1>2, <1>3, <2>1
    <3> QED BY <1>2, <2>4, <3>1, <3>2, <3>3
  <2> QED BY <1>2, <2>5, <2>6
<1>6. {i \in 1 .. m : e[i - 1] = read.off /\ read.size <= s[i].size} = {k}
  BY <1>1, <1>2, <1>5 DEF e
<1>7. Fields(s, read.off, read.size) = {[name |-> s[k].name, n |-> s[k].n]}
  BY <1>6 DEF Fields, e, m
<1>8. SizeOf(s) = e[m]
  BY DEF SizeOf, e, m
<1>9. read.off + read.size <= SizeOf(s)
  BY <1>1, <1>2, <1>4, <1>8 DEF e
<1> QED BY <1>1, <1>7, <1>9

\* The election TLV.
LEMMA ElectionMet ==
  /\ IsLayout(ElectionTlv.value)
  /\ \A read \in ElectionReads : Meets(ElectionTlv.value, read)
<1> DEFINE s == ElectionTlv.value
           e == End(s)
<1>1. /\ Len(s) = 8
      /\ s[1].size = 1 /\ s[2].size = 2
      /\ s[3].size = 1 /\ s[3].name = "distancetop" /\ s[3].n = 0
      /\ s[4].size = 1
      /\ s[5].size = 6 /\ s[5].name = "top_master_addr" /\ s[5].n = 0
      /\ s[6].size = 4 /\ s[6].name = "top_master_metric" /\ s[6].n = 0
      /\ s[7].size = 4 /\ s[7].name = "self_metric" /\ s[7].n = 0
      /\ s[8].size = 2
  BY DEF ElectionTlv, Plain, Declared, Field, Numbered
<1> HIDE DEF s
<1>2. IsLayout(s)
  <2>1. \A i \in 1 .. 8 : i \in {1, 2, 3, 4, 5, 6, 7, 8}
    OBVIOUS
  <2> QED BY <1>1, <2>1 DEF IsLayout
<1>3. e[0] = 0 /\ \A i \in 1 .. 8 : e[i] = e[i - 1] + s[i].size
  BY <1>1, <1>2, EndSteps
<1> HIDE DEF e
<1>4. e[1] = 1 /\ e[2] = 3 /\ e[3] = 4 /\ e[4] = 5 /\ e[5] = 11 /\ e[6] = 15
  BY <1>1, <1>3
<1>5. ASSUME NEW read \in ElectionReads PROVE Meets(s, read)
  <2>1. CASE read = Read("distancetop", 3, 1)
    BY <1>1, <1>4, <2>1 DEF Meets, Read, NumberedRead, e
  <2>2. CASE read = Read("top_master_addr", 5, 6)
    BY <1>1, <1>4, <2>2 DEF Meets, Read, NumberedRead, e
  <2>3. CASE read = Read("top_master_metric", 11, 4)
    BY <1>1, <1>4, <2>3 DEF Meets, Read, NumberedRead, e
  <2>4. CASE read = Read("self_metric", 15, 4)
    BY <1>1, <1>4, <2>4 DEF Meets, Read, NumberedRead, e
  <2> QED BY <2>1, <2>2, <2>3, <2>4 DEF ElectionReads
<1> QED BY <1>2, <1>5 DEF s

LEMMA ElectionV2Met ==
  /\ IsLayout(ElectionV2Tlv.value)
  /\ \A read \in ElectionV2Reads : Meets(ElectionV2Tlv.value, read)
<1> DEFINE s == ElectionV2Tlv.value
           e == End(s)
<1>1. /\ Len(s) = 9
      /\ s[1].size = 6 /\ s[1].name = "master_addr" /\ s[1].n = 0
      /\ s[2].size = 6 /\ s[2].name = "sync_addr" /\ s[2].n = 0
      /\ s[3].size = 4 /\ s[3].name = "master_counter" /\ s[3].n = 0
      /\ s[4].size = 4 /\ s[4].name = "distance_to_master" /\ s[4].n = 0
      /\ s[5].size = 4 /\ s[5].name = "master_metric" /\ s[5].n = 0
      /\ s[6].size = 4 /\ s[6].name = "self_metric" /\ s[6].n = 0
      /\ s[7].size = 4 /\ s[8].size = 4
      /\ s[9].size = 4 /\ s[9].name = "self_counter" /\ s[9].n = 0
  BY DEF ElectionV2Tlv, Plain, Declared, Field, Numbered
<1> HIDE DEF s
<1>2. IsLayout(s)
  <2>1. \A i \in 1 .. 9 : i \in {1, 2, 3, 4, 5, 6, 7, 8, 9}
    OBVIOUS
  <2> QED BY <1>1, <2>1 DEF IsLayout
<1>3. e[0] = 0 /\ \A i \in 1 .. 9 : e[i] = e[i - 1] + s[i].size
  BY <1>1, <1>2, EndSteps
<1> HIDE DEF e
<1>4. e[1] = 6 /\ e[2] = 12 /\ e[3] = 16 /\ e[4] = 20 /\ e[5] = 24 /\ e[6] = 28
  BY <1>1, <1>3
<1>5. e[7] = 32 /\ e[8] = 36
  BY <1>1, <1>3, <1>4
<1>6. ASSUME NEW read \in ElectionV2Reads PROVE Meets(s, read)
  <2>1. CASE read = Read("master_addr", 0, 6)
    BY <1>1, <1>3, <2>1 DEF Meets, Read, NumberedRead, e
  <2>2. CASE read = Read("sync_addr", 6, 6)
    BY <1>1, <1>4, <2>2 DEF Meets, Read, NumberedRead, e
  <2>3. CASE read = Read("master_counter", 12, 4)
    BY <1>1, <1>4, <2>3 DEF Meets, Read, NumberedRead, e
  <2>4. CASE read = Read("distance_to_master", 16, 4)
    BY <1>1, <1>4, <2>4 DEF Meets, Read, NumberedRead, e
  <2>5. CASE read = Read("master_metric", 20, 4)
    BY <1>1, <1>4, <2>5 DEF Meets, Read, NumberedRead, e
  <2>6. CASE read = Read("self_metric", 24, 4)
    BY <1>1, <1>4, <2>6 DEF Meets, Read, NumberedRead, e
  <2>7. CASE read = Read("self_counter", 36, 4)
    BY <1>1, <1>5, <2>7 DEF Meets, Read, NumberedRead, e
  <2> QED BY <2>1, <2>2, <2>3, <2>4, <2>5, <2>6, <2>7 DEF ElectionV2Reads
<1> QED BY <1>2, <1>6 DEF s

LEMMA VersionMet ==
  /\ IsLayout(VersionTlv.value)
  /\ \A read \in VersionReads : Meets(VersionTlv.value, read)
<1> DEFINE s == VersionTlv.value
           e == End(s)
<1>1. /\ Len(s) = 2
      /\ s[1].size = 1 /\ s[1].name = "version" /\ s[1].n = 0
      /\ s[2].size = 1 /\ s[2].name = "devclass" /\ s[2].n = 0
  BY DEF VersionTlv, Plain, Declared, Field, Numbered
<1> HIDE DEF s
<1>2. IsLayout(s)
  <2>1. \A i \in 1 .. 2 : i \in {1, 2}
    OBVIOUS
  <2> QED BY <1>1, <2>1 DEF IsLayout
<1>3. e[0] = 0 /\ \A i \in 1 .. 2 : e[i] = e[i - 1] + s[i].size
  BY <1>1, <1>2, EndSteps
<1> HIDE DEF e
<1>4. e[1] = 1
  BY <1>1, <1>3
<1>5. ASSUME NEW read \in VersionReads PROVE Meets(s, read)
  <2>1. CASE read = Read("version", 0, 1)
    BY <1>1, <1>3, <2>1 DEF Meets, Read, NumberedRead, e
  <2>2. CASE read = Read("devclass", 1, 1)
    BY <1>1, <1>4, <2>2 DEF Meets, Read, NumberedRead, e
  <2> QED BY <2>1, <2>2 DEF VersionReads
<1> QED BY <1>2, <1>5 DEF s

\* What the handler skips takes no bytes: the flags of this program announce three
\* of the six parts.
LEMMA DataPathMet ==
  /\ IsLayout(DataPathTlv.value)
  /\ \A read \in DataPathReads :
       /\ Meets(DataPathTlv.value, read)
       /\ read.name \in {"flags", "country_code", "social_channels", "awdl_addr"}
<1> DEFINE s == DataPathTlv.value
           e == End(s)
           announced == {i \in 1 .. Len(PathParts) : PathParts[i].flag \in PathFlags}
           taken == [i \in 1 .. Len(PathParts) |->
                       [size |-> IF i \in announced THEN PathParts[i].size ELSE 0]]
           f == End(taken)
<1>1. /\ Len(s) = 5
      /\ s[1].size = 2 /\ s[1].name = "flags" /\ s[1].n = 0
      /\ s[2].size = 3 /\ s[2].name = "country_code" /\ s[2].n = 0
      /\ s[3].size = 2 /\ s[3].name = "social_channels" /\ s[3].n = 0
      /\ s[4].size = 6 /\ s[4].name = "awdl_addr" /\ s[4].n = 0
      /\ s[5].size = 2
  BY DEF DataPathTlv, Plain, Declared, Field, Numbered
<1> HIDE DEF s
<1>2. IsLayout(s)
  <2>1. \A i \in 1 .. 5 : i \in {1, 2, 3, 4, 5}
    OBVIOUS
  <2> QED BY <1>1, <2>1 DEF IsLayout
<1>3. e[0] = 0 /\ \A i \in 1 .. 5 : e[i] = e[i - 1] + s[i].size
  BY <1>1, <1>2, EndSteps
<1> HIDE DEF e
<1>4. e[1] = 2 /\ e[2] = 5 /\ e[3] = 7
  BY <1>1, <1>3
<1>5. /\ Len(PathParts) = 6
      /\ PathParts[1] = [flag |-> 8, name |-> "country_code", size |-> 3]
      /\ PathParts[2] = [flag |-> 9, name |-> "social_channels", size |-> 2]
      /\ PathParts[3].flag = 0 /\ PathParts[4].flag = 0 /\ PathParts[5].flag = 1
      /\ PathParts[6] = [flag |-> 2, name |-> "awdl_addr", size |-> 6]
  BY DEF PathParts
<1>6. announced = {1, 2, 6}
  <2>1. \A i \in 1 .. 6 : i \in {1, 2, 3, 4, 5, 6}
    OBVIOUS
  <2> QED BY <1>5, <2>1 DEF PathFlags
<1> HIDE DEF announced
<1>7. /\ Len(taken) = 6 /\ taken[1].size = 3 /\ taken[2].size = 2 /\ taken[3].size = 0
      /\ taken[4].size = 0 /\ taken[5].size = 0 /\ taken[6].size = 6
  BY <1>5, <1>6
<1> HIDE DEF taken
<1>8. IsLayout(taken)
  <2>1. \A i \in 1 .. 6 : i \in {1, 2, 3, 4, 5, 6}
    OBVIOUS
  <2> QED BY <1>7, <2>1 DEF IsLayout
<1>9. f[0] = 0 /\ \A i \in 1 .. 6 : f[i] = f[i - 1] + taken[i].size
  BY <1>7, <1>8, EndSteps
<1> HIDE DEF f
<1>10. f[0] = 0 /\ f[1] = 3 /\ f[5] = 5
  <2>1. f[1] = 3 /\ f[2] = 5
    BY <1>7, <1>9
  <2>2. f[3] = 5 /\ f[4] = 5
    BY <1>7, <1>9, <2>1
  <2> QED BY <1>7, <1>9, <2>1, <2>2
<1>11. DataPathReads =
         {Read("flags", 0, 2)}
         \cup {Read(PathParts[i].name, 2 + f[i - 1], PathParts[i].size) : i \in announced}
  BY DEF DataPathReads, announced, taken, f
<1>12. ASSUME NEW read \in DataPathReads
       PROVE  /\ Meets(s, read)
              /\ read.name \in {"flags", "country_code", "social_channels", "awdl_addr"}
  <2>1. \/ read = Read("flags", 0, 2) \/ read = Read("country_code", 2, 3)
        \/ read = Read("social_channels", 5, 2) \/ read = Read("awdl_addr", 7, 6)
    BY <1>5, <1>6, <1>10, <1>11
  <2>2. CASE read = Read("flags", 0, 2)
    BY <1>1, <1>3, <2>2 DEF Meets, Read, NumberedRead, e
  <2>3. CASE read = Read("country_code", 2, 3)
    BY <1>1, <1>4, <2>3 DEF Meets, Read, NumberedRead, e
  <2>4. CASE read = Read("social_channels", 5, 2)
    BY <1>1, <1>4, <2>4 DEF Meets, Read, NumberedRead, e
  <2>5. CASE read = Read("awdl_addr", 7, 6)
    BY <1>1, <1>4, <2>5 DEF Meets, Read, NumberedRead, e
  <2> QED BY <2>1, <2>2, <2>3, <2>4, <2>5
<1> QED BY <1>2, <1>12 DEF s

\* A host of any name, also of one that is longer than what the handler keeps.
LEMMA ArpaMet ==
  ASSUME NEW name \in Nat
  PROVE  /\ IsLayout(ArpaTlv(name).value) /\ ArpaTlv(name).length = SizeOf(ArpaTlv(name).value)
         /\ \A read \in ArpaReads(name) :
              read.size # 0 => Meets(ArpaTlv(name).value, read)
         /\ \A read \in ArpaReads(name) : read.off + read.size <= SizeOf(ArpaTlv(name).value)
<1> DEFINE s == ArpaTlv(name).value
           e == End(s)
<1>1. /\ Len(s) = 4
      /\ s[1].size = 1
      /\ s[2].size = 1 /\ s[2].name = "name_length" /\ s[2].n = 0
      /\ s[3].size = name /\ s[3].name = "name" /\ s[3].n = 0
      /\ s[4].size = 2
  BY DEF ArpaTlv, Declared, Field, Numbered
<1>2. ArpaTlv(name).length = 2 + name + 2
  BY DEF ArpaTlv, Declared
<1> HIDE DEF s
<1>3. IsLayout(s)
  <2>1. \A i \in 1 .. 4 : i \in {1, 2, 3, 4}
    OBVIOUS
  <2> QED BY <1>1, <2>1 DEF IsLayout
<1>4. e[0] = 0 /\ \A i \in 1 .. 4 : e[i] = e[i - 1] + s[i].size
  BY <1>1, <1>3, EndSteps
<1> HIDE DEF e
<1>5. e[1] = 1 /\ e[2] = 2 /\ e[3] = 2 + name /\ e[4] = 2 + name + 2
  BY <1>1, <1>4
<1>6. SizeOf(s) = 2 + name + 2
  BY <1>1, <1>5 DEF SizeOf, e
<1>7. ASSUME NEW read \in ArpaReads(name)
      PROVE  /\ read.size # 0 => Meets(s, read)
             /\ read.off + read.size <= SizeOf(s)
  <2>1. CASE read = Read("name_length", 1, 1)
    BY <1>1, <1>5, <1>6, <2>1 DEF Meets, Read, NumberedRead, e
  <2>2. CASE read = Read("name", 2, IF name <= NameMax THEN name ELSE NameMax)
    <3>1. /\ read.name = "name" /\ read.n = 0 /\ read.off = 2
          /\ read.size \in Nat /\ read.size <= name
      BY <2>2, NameAssumption DEF Read, NumberedRead
    <3>2. read.size # 0 => Meets(s, read)
      BY <1>1, <1>5, <3>1 DEF Meets, e
    <3> QED BY <1>6, <3>1, <3>2
  <2> QED BY <2>1, <2>2 DEF ArpaReads
<1> QED BY <1>2, <1>3, <1>6, <1>7 DEF s

IsSequence(s) == \E S : s \in Seq(S)

\* The join u of a sequence of m and one of n elements.
Join(u, s, m, t, n) ==
  /\ u = s \o t
  /\ IsSequence(s) /\ Len(s) = m
  /\ IsSequence(t) /\ Len(t) = n

LEMMA Joined ==
  ASSUME NEW s, NEW t, NEW u, NEW m, NEW n, Join(u, s, m, t, n)
  PROVE  /\ IsSequence(u) /\ m \in Nat /\ n \in Nat
         /\ Len(u) = m + n
         /\ \A i \in 1 .. m : u[i] = s[i]
         /\ \A i \in 1 .. n : u[m + i] = t[i]
         /\ IsLayout(s) /\ IsLayout(t) => IsLayout(u)
<1> USE DEF Join
<1>1. PICK A : s \in Seq(A)
  BY DEF IsSequence
<1>2. PICK B : t \in Seq(B)
  BY DEF IsSequence
<1>3. s \in Seq(A \cup B) /\ t \in Seq(A \cup B)
  BY <1>1, <1>2
<1>4. /\ u \in Seq(A \cup B)
      /\ Len(u) = m + n
      /\ \A i \in 1 .. m + n : u[i] = IF i <= m THEN s[i] ELSE t[i - m]
  BY <1>3, ConcatProperties
<1>5. m \in Nat /\ n \in Nat
  BY <1>3
<1>6. ASSUME NEW i \in 1 .. n PROVE u[m + i] = t[i]
  <2>1. m + i \in 1 .. m + n /\ ~(m + i <= m) /\ m + i - m = i
    BY <1>5
  <2> QED BY <1>4, <2>1
<1>7. ASSUME NEW i \in 1 .. m PROVE u[i] = s[i]
  <2>1. i \in 1 .. m + n /\ i <= m
    BY <1>5
  <2> QED BY <1>4, <2>1
<1>8. ASSUME IsLayout(s), IsLayout(t) PROVE IsLayout(u)
  <2>1. (\A i \in 1 .. m : s[i].size \in Nat) /\ (\A i \in 1 .. n : t[i].size \in Nat)
    BY <1>8 DEF IsLayout
  <2>2. ASSUME NEW i \in 1 .. m + n PROVE u[i].size \in Nat
    <3>1. CASE i \in 1 .. m
      BY <1>7, <2>1, <3>1
    <3>2. CASE i \notin 1 .. m
      <4>1. i - m \in 1 .. n /\ i = m + (i - m)
        BY <1>5, <3>2
      <4> QED BY <1>6, <2>1, <4>1
    <3> QED BY <3>1, <3>2
  <2> QED BY <1>4, <1>5, <2>2 DEF IsLayout
<1> QED BY <1>4, <1>5, <1>6, <1>7, <1>8 DEF IsSequence

LEMMA ChanseqShape ==
  /\ IsSequence(Chanseq) /\ IsLayout(Chanseq) /\ Len(Chanseq) = 5 + ChanseqLength
  /\ Chanseq[1] = Field("count", 1) /\ Chanseq[2] = Field("encoding", 1)
  /\ Chanseq[3] = Field("duplicate_count", 1) /\ Chanseq[4] = Field("step_count", 1)
  /\ Chanseq[5] = Field("fill_channel", 2)
  /\ \A i \in 1 .. ChanseqLength : Chanseq[5 + i] = Numbered("channel", i, 2)
<1> DEFINE a == << Field("count", 1), Field("encoding", 1), Field("duplicate_count", 1),
                   Field("step_count", 1), Field("fill_channel", 2) >>
           b == [i \in 1 .. ChanseqLength |-> Numbered("channel", i, 2)]
<1>1. ChanseqLength \in Nat
  BY LengthAssumption
<1>2. IsSequence(a) /\ Len(a) = 5
  <2>1. Len(a) = 5 /\ a = [i \in 1 .. 5 |-> a[i]]
    OBVIOUS
  <2> HIDE DEF a
  <2>2. a \in Seq({a[i] : i \in 1 .. 5})
    BY <2>1
  <2> QED BY <2>1, <2>2 DEF IsSequence
<1>3. IsSequence(b) /\ Len(b) = ChanseqLength
  <2>1. Len(b) = ChanseqLength
    BY <1>1
  <2>2. b = [i \in 1 .. ChanseqLength |-> b[i]]
    OBVIOUS
  <2> HIDE DEF b
  <2>3. b \in Seq({b[i] : i \in 1 .. ChanseqLength})
    BY <1>1, <2>2
  <2> QED BY <2>1, <2>3 DEF IsSequence
<1>4. \A i \in 1 .. ChanseqLength : b[i] = Numbered("channel", i, 2)
  OBVIOUS
<1>5. /\ a[1] = Field("count", 1) /\ a[2] = Field("encoding", 1)
      /\ a[3] = Field("duplicate_count", 1) /\ a[4] = Field("step_count", 1)
      /\ a[5] = Field("fill_channel", 2)
  OBVIOUS
<1>6. Chanseq = a \o b
  BY DEF Chanseq
<1> HIDE DEF a, b
<1>7. IsLayout(a) /\ IsLayout(b)
  <2>1. \A i \in 1 .. 5 : i \in {1, 2, 3, 4, 5}
    OBVIOUS
  <2> QED BY <1>1, <1>2, <1>3, <1>4, <1>5, <2>1 DEF IsLayout, Field, Numbered
<1>8. /\ IsSequence(Chanseq) /\ IsLayout(Chanseq) /\ Len(Chanseq) = 5 + ChanseqLength
      /\ \A i \in 1 .. 5 : Chanseq[i] = a[i]
      /\ \A i \in 1 .. ChanseqLength : Chanseq[5 + i] = b[i]
  <2>1. Join(Chanseq, a, 5, b, ChanseqLength)
    BY <1>2, <1>3, <1>6 DEF Join
  <2> QED BY <1>7, <2>1, Joined
<1> QED BY <1>4, <1>5, <1>8

LEMMA ChanseqMet ==
  /\ IsLayout(ChanseqTlv.value)
  /\ \A read \in ChanseqReads : Meets(ChanseqTlv.value, read)
<1> DEFINE s == ChanseqTlv.value
           t == <<Field("padding", 3)>>
           e == End(s)
           m == 5 + ChanseqLength
<1>1. ChanseqLength \in Nat /\ m \in Nat
  BY LengthAssumption
<1>2. IsSequence(t) /\ IsLayout(t) /\ Len(t) = 1
  <2>1. Len(t) = 1 /\ t[1].size = 3
    BY DEF Field, Numbered
  <2>2. t \in Seq({Field("padding", 3)})
    OBVIOUS
  <2> HIDE DEF t
  <2> QED BY <2>1, <2>2 DEF IsSequence, IsLayout
<1>3. s = Chanseq \o t
  BY DEF ChanseqTlv, Plain, Declared
<1> HIDE DEF s, t
<1>4. Join(s, Chanseq, m, t, 1)
  BY <1>2, <1>3, ChanseqShape DEF Join
<1>5. IsLayout(s) /\ Len(s) = m + 1 /\ \A i \in 1 .. m : s[i] = Chanseq[i]
  <2> HIDE DEF m
  <2> QED BY <1>2, <1>4, Joined, ChanseqShape
<1>6. /\ s[1].size = 1 /\ s[1].name = "count" /\ s[1].n = 0
      /\ s[2].size = 1 /\ s[2].name = "encoding" /\ s[2].n = 0
      /\ s[3].size = 1 /\ s[3].name = "duplicate_count" /\ s[3].n = 0
      /\ s[4].size = 1 /\ s[4].name = "step_count" /\ s[4].n = 0
      /\ s[5].size = 2 /\ s[5].name = "fill_channel" /\ s[5].n = 0
  BY <1>1, <1>5, ChanseqShape DEF Field, Numbered
<1>7. ASSUME NEW i \in 1 .. ChanseqLength
      PROVE  5 + i \in 1 .. m /\ s[5 + i].size = 2 /\ s[5 + i].name = "channel" /\ s[5 + i].n = i
  <2>1. 5 + i \in 1 .. m
    BY <1>1
  <2>2. Chanseq[5 + i] = Numbered("channel", i, 2)
    BY ChanseqShape
  <2>3. s[5 + i] = Numbered("channel", i, 2)
    BY <1>5, <2>1, <2>2
  <2> QED BY <2>1, <2>3 DEF Numbered
<1>8. e[0] = 0 /\ \A i \in 1 .. m + 1 : e[i] = e[i - 1] + s[i].size
  BY <1>5, EndSteps
<1> HIDE DEF e
<1>9. 1 \in 1 .. m /\ 2 \in 1 .. m /\ 3 \in 1 .. m /\ 4 \in 1 .. m /\ 5 \in 1 .. m
  BY <1>1
<1>10. e[1] = 1 /\ e[2] = 2 /\ e[3] = 3 /\ e[4] = 4 /\ e[5] = 6
  <2>1. \A i \in 1 .. 5 : e[i] = e[i - 1] + s[i].size
    BY <1>1, <1>8
  <2> QED BY <1>6, <1>8, <2>1
<1>11. \A i \in Nat : i <= ChanseqLength => e[5 + i] = 6 + i * 2
  <2> DEFINE S == {i \in Nat : i <= ChanseqLength => e[5 + i] = 6 + i * 2}
  <2>1. 0 \in S
    BY <1>10
  <2>2. ASSUME NEW i \in Nat, i \in S PROVE i + 1 \in S
    <3> SUFFICES ASSUME i + 1 <= ChanseqLength PROVE e[5 + (i + 1)] = 6 + (i + 1) * 2
      OBVIOUS
    <3>1. i + 1 \in 1 .. ChanseqLength /\ 5 + (i + 1) \in 1 .. m + 1 /\ 5 + (i + 1) - 1 = 5 + i
      BY <1>1
    <3>2. e[5 + (i + 1)] = e[5 + i] + s[5 + (i + 1)].size
      BY <1>8, <3>1
    <3>3. s[5 + (i + 1)].size = 2
      BY <1>7, <3>1
    <3>4. e[5 + i] = 6 + i * 2
      BY <1>1, <2>2
    <3> QED BY <3>2, <3>3, <3>4
  <2> HIDE DEF S
  <2>3. Nat \subseteq S
    BY <2>1, <2>2, Induction
  <2> QED BY <2>3 DEF S
<1>12. \A i \in 1 .. m : i \in 1 .. Len(s)
  BY <1>1, <1>5
<1>13. ASSUME NEW read \in ChanseqReads PROVE Meets(s, read)
  <2>1. CASE read = Read("count", 0, 1)
    BY <1>6, <1>8, <1>9, <1>12, <2>1 DEF Meets, Read, NumberedRead, e
  <2>2. CASE read = Read("encoding", 1, 1)
    BY <1>6, <1>9, <1>10, <1>12, <2>2 DEF Meets, Read, NumberedRead, e
  <2>3. CASE read = Read("duplicate_count", 2, 1)
    BY <1>6, <1>9, <1>10, <1>12, <2>3 DEF Meets, Read, NumberedRead, e
  <2>4. CASE read = Read("step_count", 3, 1)
    BY <1>6, <1>9, <1>10, <1>12, <2>4 DEF Meets, Read, NumberedRead, e
  <2>5. CASE read = Read("fill_channel", 4, 2)
    BY <1>6, <1>9, <1>10, <1>12, <2>5 DEF Meets, Read, NumberedRead, e
  <2>6. ASSUME NEW i \in 1 .. ChanseqLength, read = NumberedRead("channel", i, 6 + (i - 1) * 2, 2)
        PROVE  Meets(s, read)
    <3>1. i - 1 \in Nat /\ i - 1 <= ChanseqLength /\ 5 + (i - 1) = 5 + i - 1
      BY <1>1
    <3>2. e[5 + i - 1] = 6 + (i - 1) * 2
      BY <1>11, <3>1
    <3>3. /\ read.name = "channel" /\ read.n = i /\ read.off = 6 + (i - 1) * 2 /\ read.size = 2
      BY <2>6 DEF NumberedRead
    <3>4. 5 + i \in 1 .. Len(s)
      BY <1>7, <1>12
    <3> QED BY <1>7, <3>2, <3>3, <3>4 DEF Meets, e
  <2> QED BY <2>1, <2>2, <2>3, <2>4, <2>5, <2>6 DEF ChanseqReads
<1> QED BY <1>5, <1>13 DEF s

LEMMA SyncMet ==
  /\ IsLayout(SyncParamsTlv.value)
  /\ \A read \in SyncReads : Meets(SyncParamsTlv.value, read)
<1> DEFINE s == SyncParamsTlv.value
           a == SyncFields
           t == <<Field("padding", 2)>>
           e == End(s)
<1>1. ChanseqLength \in Nat
  BY LengthAssumption
<1>2. IsSequence(t) /\ IsLayout(t) /\ Len(t) = 1
  <2>1. Len(t) = 1 /\ t[1].size = 2
    BY DEF Field, Numbered
  <2>2. t \in Seq({Field("padding", 2)})
    OBVIOUS
  <2> HIDE DEF t
  <2> QED BY <2>1, <2>2 DEF IsSequence, IsLayout
<1>3. s = (a \o Chanseq) \o t
  BY DEF SyncParamsTlv, Plain, Declared
<1>4. /\ Len(a) = 19
      /\ a[1].size = 1 /\ a[2].size = 2 /\ a[3].size = 1 /\ a[4].size = 1 /\ a[5].size = 2
      /\ a[6].size = 2 /\ a[7].size = 2 /\ a[8].size = 2 /\ a[9].size = 2 /\ a[10].size = 2
      /\ a[11].size = 1 /\ a[12].size = 1 /\ a[13].size = 1 /\ a[14].size = 1
      /\ a[15].size = 6 /\ a[16].size = 1 /\ a[17].size = 1 /\ a[18].size = 2
      /\ a[19].size = 2
      /\ a[2].name = "tx_down_counter" /\ a[2].n = 0
      /\ a[18].name = "next_aw_seq" /\ a[18].n = 0
  BY DEF SyncFields, Field, Numbered
<1>5. IsSequence(a) /\ IsLayout(a)
  <2>1. a = [i \in 1 .. 19 |-> a[i]]
    BY DEF SyncFields
  <2> HIDE DEF a
  <2>2. a \in Seq({a[i] : i \in 1 .. 19})
    BY <2>1
  <2>3. \A i \in 1 .. 19 : i \in {1, 2, 3, 4, 5, 6, 7, 8, 9, 10} \cup
                                {11, 12, 13, 14, 15, 16, 17, 18, 19}
    OBVIOUS
  <2>4. \A i \in 1 .. 19 : a[i].size \in Nat
    <3> TAKE i \in 1 .. 19
    <3>1. \/ i \in {1, 2, 3, 4, 5} \/ i \in {6, 7, 8, 9, 10}
          \/ i \in {11, 12, 13, 14, 15} \/ i \in {16, 17, 18, 19}
      BY <2>3
    <3>2. i \in {1, 2, 3, 4, 5} => a[i].size \in Nat
      BY <1>4
    <3>3. i \in {6, 7, 8, 9, 10} => a[i].size \in Nat
      BY <1>4
    <3>4. i \in {11, 12, 13, 14, 15} => a[i].size \in Nat
      BY <1>4
    <3>5. i \in {16, 17, 18, 19} => a[i].size \in Nat
      BY <1>4
    <3> QED BY <3>1, <3>2, <3>3, <3>4, <3>5
  <2> QED BY <1>4, <2>2, <2>4 DEF IsSequence, IsLayout
<1> HIDE DEF s, a, t
<1>6. IsLayout(s) /\ Len(s) \in Nat /\ Len(s) >= 19 /\ \A i \in 1 .. 19 : s[i] = a[i]
  <2> DEFINE c == a \o Chanseq
  <2>1. /\ IsSequence(c) /\ IsLayout(c) /\ Len(c) = 19 + (5 + ChanseqLength)
        /\ \A i \in 1 .. 19 : c[i] = a[i]
    <3>1. Join(c, a, 19, Chanseq, 5 + ChanseqLength)
      BY <1>4, <1>5, ChanseqShape DEF Join
    <3>2. IsLayout(Chanseq)
      BY ChanseqShape
    <3> DEFINE d == 5 + ChanseqLength
    <3> HIDE DEF c, d
    <3>3. Join(c, a, 19, Chanseq, d)
      BY <3>1 DEF d
    <3>4. /\ IsSequence(c) /\ IsLayout(c) /\ Len(c) = 19 + d
          /\ \A i \in 1 .. 19 : c[i] = a[i]
      <4>1. IsSequence(c)
        BY <3>3, Joined
      <4>2. Len(c) = 19 + d
        BY <3>3, Joined
      <4>3. \A i \in 1 .. 19 : c[i] = a[i]
        BY <3>3, Joined
      <4>4. IsLayout(a) /\ IsLayout(Chanseq) => IsLayout(c)
        BY <3>3, Joined
      <4> QED BY <1>5, <3>2, <4>1, <4>2, <4>3, <4>4
    <3> QED BY <3>4 DEF d
  <2> HIDE DEF c
  <2>2. /\ IsLayout(s) /\ Len(s) = Len(c) + 1
        /\ \A i \in 1 .. Len(c) : s[i] = c[i]
    <3>1. Join(s, c, Len(c), t, 1)
      BY <1>2, <1>3, <2>1 DEF Join, c
    <3>2. IsLayout(c) /\ IsLayout(t)
      BY <1>2, <2>1
    <3> QED BY <3>1, <3>2, Joined
  <2> QED BY <1>1, <2>1, <2>2
<1>7. IsLayout(s)
  BY <1>6
<1>8. e[0] = 0 /\ \A i \in 1 .. 19 : e[i] = e[i - 1] + a[i].size
  <2> DEFINE m == Len(s)
  <2>0. m \in Nat /\ m >= 19
    BY <1>6
  <2> HIDE DEF m
  <2>1. \A i \in 1 .. 19 : i \in 1 .. m
    BY <2>0
  <2> USE DEF m
  <2> QED BY <1>6, <1>7, <2>1, EndSteps
<1> HIDE DEF e
<1>9. e[1] = 1 /\ e[2] = 3 /\ e[3] = 4 /\ e[4] = 5 /\ e[5] = 7 /\ e[6] = 9
  BY <1>4, <1>8
<1>10. e[7] = 11 /\ e[8] = 13 /\ e[9] = 15 /\ e[10] = 17 /\ e[11] = 18 /\ e[12] = 19
  BY <1>4, <1>8, <1>9
<1>11. e[13] = 20 /\ e[14] = 21 /\ e[15] = 27 /\ e[16] = 28 /\ e[17] = 29
  BY <1>4, <1>8, <1>10
<1>12. ASSUME NEW read \in SyncReads PROVE Meets(s, read)
  <2>0. 2 \in 1 .. Len(s) /\ 18 \in 1 .. Len(s) /\ s[2] = a[2] /\ s[18] = a[18]
    <3> DEFINE m == Len(s)
    <3>1. m \in Nat /\ m >= 19
      BY <1>6
    <3> HIDE DEF m
    <3>2. 2 \in 1 .. m /\ 18 \in 1 .. m
      BY <3>1
    <3>3. s[2] = a[2]
      <4>1. 2 \in 1 .. 19
        OBVIOUS
      <4> QED BY ONLY <1>6, <4>1
    <3>4. s[18] = a[18]
      <4>1. 18 \in 1 .. 19
        OBVIOUS
      <4> QED BY ONLY <1>6, <4>1
    <3> QED BY <3>2, <3>3, <3>4 DEF m
  <2>1. CASE read = Read("tx_down_counter", 1, 2)
    BY <1>4, <1>9, <2>0, <2>1 DEF Meets, Read, NumberedRead, e
  <2>2. CASE read = Read("next_aw_seq", 29, 2)
    BY <1>4, <1>11, <2>0, <2>2 DEF Meets, Read, NumberedRead, e
  <2> QED BY <2>1, <2>2 DEF SyncReads
<1> QED BY <1>7, <1>12 DEF s

----------------------------------------------------------------------------
(* The TLVs of a frame. *)

Tlvs(name) ==
  {SyncParamsTlv, ElectionTlv, ChanseqTlv, ElectionV2Tlv, ServiceTlv, HtTlv, ArpaTlv(name),
   DataPathTlv, VersionTlv}

LEMMA ActionTlvsAre ==
  ASSUME NEW kind, NEW name
  PROVE  ActionTlvs(kind, name) \in Seq(Tlvs(name))
<1> DEFINE a == <<SyncParamsTlv, ElectionTlv, ChanseqTlv, ElectionV2Tlv, ServiceTlv>>
           b == IF kind = "MIF" THEN <<HtTlv, ArpaTlv(name)>> ELSE <<>>
           c == <<DataPathTlv, VersionTlv>>
           S == Tlvs(name)
<1>1. a \in Seq(S)
  BY DEF Tlvs
<1>2. b \in Seq(S)
  <2>1. HtTlv \in S /\ ArpaTlv(name) \in S
    BY DEF Tlvs
  <2> HIDE DEF S
  <2>2. <<HtTlv, ArpaTlv(name)>> \in Seq(S) /\ <<>> \in Seq(S)
    BY <2>1
  <2> QED BY <2>2
<1>3. c \in Seq(S)
  BY DEF Tlvs
<1>4. ActionTlvs(kind, name) = a \o b \o c
  BY DEF ActionTlvs
<1> HIDE DEF a, b, c, S
<1>5. a \o b \in Seq(S)
  BY <1>1, <1>2, ConcatProperties
<1>6. (a \o b) \o c \in Seq(S)
  BY <1>3, <1>5, ConcatProperties
<1> QED BY <1>4, <1>6 DEF S

\* What a read of a handler gets, for a TLV of that value and that length.
Gets(tlv, read) ==
  /\ read.size > 0 =>
       Fields(tlv.value, read.off, read.size) = {[name |-> read.name, n |-> read.n]}
  /\ read.off + read.size <= tlv.length

Plainly(tlv) == IsLayout(tlv.value) /\ tlv.length = SizeOf(tlv.value)

LEMMA MetGets ==
  ASSUME NEW tlv, NEW read, Plainly(tlv), Meets(tlv.value, read)
  PROVE  Gets(tlv, read)
BY MeetsOne DEF Plainly, Gets

LEMMA OtherFields ==
  ASSUME NEW field,
         field \notin {"count", "duplicate_count", "step_count", "fill_channel", "encoding"}
  PROVE  Accepted(field, Written(field))
BY DEF Accepted

LEMMA ChanseqFields ==
  ASSUME PresenceMode = 4,
         NEW field \in {"count", "duplicate_count", "step_count", "fill_channel", "encoding"}
  PROVE  Accepted(field, Written(field))
BY LengthAssumption DEF Accepted, Written

LEMMA HandlersAccept ==
  ASSUME PresenceMode = 4, NEW name \in Nat, NEW tlv \in Tlvs(name),
         NEW read \in Reads(tlv.type, name)
  PROVE  Gets(tlv, read) /\ Accepted(read.name, Written(read.name))
<1>1. CASE tlv = SyncParamsTlv
  <2>1. Reads(tlv.type, name) = SyncReads /\ Plainly(tlv)
    BY <1>1, SyncMet DEF SyncParamsTlv, Plain, Declared, Reads, Plainly
  <2>2. read.name \in {"tx_down_counter", "next_aw_seq"}
    BY <2>1 DEF SyncReads, Read, NumberedRead
  <2> QED BY <1>1, <2>1, <2>2, SyncMet, MetGets, OtherFields
<1>2. CASE tlv = ElectionTlv
  <2>1. Reads(tlv.type, name) = ElectionReads /\ Plainly(tlv)
    BY <1>2, ElectionMet DEF ElectionTlv, Plain, Declared, Reads, Plainly
  <2>2. read.name \in {"distancetop", "top_master_addr", "top_master_metric", "self_metric"}
    BY <2>1 DEF ElectionReads, Read, NumberedRead
  <2> QED BY <1>2, <2>1, <2>2, ElectionMet, MetGets, OtherFields
<1>3. CASE tlv = ChanseqTlv
  <2>1. Reads(tlv.type, name) = ChanseqReads /\ Plainly(tlv)
    BY <1>3, ChanseqMet DEF ChanseqTlv, Plain, Declared, Reads, Plainly
  <2>2. \/ read.name \in {"count", "duplicate_count", "step_count", "fill_channel", "encoding"}
        \/ read.name = "channel"
    BY <2>1 DEF ChanseqReads, Read, NumberedRead
  <2> QED BY <1>3, <2>1, <2>2, ChanseqMet, MetGets, OtherFields, ChanseqFields
<1>4. CASE tlv = ElectionV2Tlv
  <2>1. Reads(tlv.type, name) = ElectionV2Reads /\ Plainly(tlv)
    BY <1>4, ElectionV2Met DEF ElectionV2Tlv, Plain, Declared, Reads, Plainly
  <2>2. read.name \in {"master_addr", "sync_addr", "master_counter", "distance_to_master",
                       "master_metric", "self_metric", "self_counter"}
    BY <2>1 DEF ElectionV2Reads, Read, NumberedRead
  <2> QED BY <1>4, <2>1, <2>2, ElectionV2Met, MetGets, OtherFields
<1>5. CASE tlv = ServiceTlv \/ tlv = HtTlv
  <2>1. tlv.type \in {"service", "ht"}
    BY <1>5 DEF ServiceTlv, HtTlv, Plain, Declared
  <2>2. Reads(tlv.type, name) = {}
    BY <2>1 DEF Reads
  <2> QED BY <2>2
<1>6. CASE tlv = ArpaTlv(name)
  <2>1. Reads(tlv.type, name) = ArpaReads(name) /\ Plainly(tlv)
    BY <1>6, ArpaMet DEF ArpaTlv, Declared, Reads, Plainly
  <2>2. read.name \in {"name_length", "name"} /\ read.size \in Nat
    BY <2>1, NameAssumption DEF ArpaReads, Read, NumberedRead
  <2>3. /\ read.size # 0 => Meets(tlv.value, read)
        /\ read.off + read.size <= tlv.length
    BY <1>6, <2>1, ArpaMet
  <2>4. Gets(tlv, read)
    <3>1. CASE read.size = 0
      BY <2>3, <3>1 DEF Gets
    <3>2. CASE read.size # 0
      BY <2>1, <2>3, <3>2, MetGets
    <3> QED BY <3>1, <3>2
  <2> QED BY <2>2, <2>4, OtherFields
<1>7. CASE tlv = DataPathTlv
  <2>1. Reads(tlv.type, name) = DataPathReads /\ Plainly(tlv)
    BY <1>7, DataPathMet DEF DataPathTlv, Plain, Declared, Reads, Plainly
  <2>2. read.name \in {"flags", "country_code", "social_channels", "awdl_addr"}
    BY <2>1, DataPathMet
  <2> QED BY <1>7, <2>1, <2>2, DataPathMet, MetGets, OtherFields
<1>8. CASE tlv = VersionTlv
  <2>1. Reads(tlv.type, name) = VersionReads /\ Plainly(tlv)
    BY <1>8, VersionMet DEF VersionTlv, Plain, Declared, Reads, Plainly
  <2>2. read.name \in {"version", "devclass"}
    BY <2>1 DEF VersionReads, Read, NumberedRead
  <2> QED BY <1>8, <2>1, <2>2, VersionMet, MetGets, OtherFields
<1> QED BY <1>1, <1>2, <1>3, <1>4, <1>5, <1>6, <1>7, <1>8 DEF Tlvs

----------------------------------------------------------------------------
(* What is read is what was written. *)

Narrow == Standard(frame.radio)

LEMMA NarrowIsRight ==
  ASSUME frame \in Frames, Narrow, NEW name
  PROVE  ReadRight(frame.radio, name)
<1> DEFINE radio == frame.radio
<1>1. radio \in [words : Nat \ {0}, present : SUBSET RadioNames, length : Nat, whole : BOOLEAN]
  BY FramesAssumption
<1>2. radio.words = 1 /\ radio.present \ {"channel", "fhss"} = radio.present
  BY DEF Narrow, Standard
<1>3. AsRead(radio) = radio
  <2>1. AsRead(radio) = [radio EXCEPT !.words = 1, !.present = radio.present]
    BY <1>2 DEF AsRead
  <2> HIDE DEF radio
  <2> QED BY <1>1, <1>2, <2>1
<1>4. name \in radio.present => Found(radio, name)
  BY DEF Narrow, Standard
<1> HIDE DEF radio
<1>5. ReadRight(radio, name)
  BY <1>3, <1>4 DEF ReadRight, ReadAt
<1> QED BY <1>5 DEF radio

LEMMA UnitIsRead ==
  ASSUME PresenceMode = 4, TypeOK, IsAction(body), OnUnit
  PROVE  MissedHere = {} /\ ParsesHere
<1> DEFINE name == body.name
           tlvs == ActionTlvs(body.kind, name)
           tlv == tlvs[Unit]
<1>1. name \in Nat /\ body = ActionBody(body.kind, name)
  BY FramesAssumption, ActionAssumption DEF TypeOK, body
<1>2. body.tlvs = tlvs /\ body.size = [i \in 1 .. Len(tlvs) |-> tlvs[i].length]
  BY <1>1 DEF ActionBody
<1>3. tlvs \in Seq(Tlvs(name))
  BY ActionTlvsAre
<1> HIDE DEF tlvs
<1>4. Len(body.size) = Len(tlvs) /\ Len(tlvs) \in Nat
  BY <1>2, <1>3
<1>5. Unit \in 1 .. Len(tlvs)
  BY <1>4, SizesFacts DEF N
<1>6. tlv \in Tlvs(name) /\ body.size[Unit] = tlv.length /\ body.tlvs[Unit] = tlv
  BY <1>2, <1>3, <1>5
<1> HIDE DEF tlv
<1>7. ASSUME NEW read \in ReadsHere
      PROVE  Gets(tlv, read) /\ Accepted(read.name, Written(read.name))
  BY <1>1, <1>6, <1>7, HandlersAccept DEF ReadsHere
<1>8. MissedHere = {}
  BY <1>6, <1>7 DEF MissedHere, Gets
<1>9. ParsesHere
  BY <1>6, <1>7 DEF ParsesHere, Gets
<1> QED BY <1>8, <1>9

Whole ==
  IsAction(body) /\ frame.sent = SizeOfFrame(body) /\ frame.good /\ frame.strong /\ ~frame.own

ReadInv ==
  Narrow =>
    /\ misread = {}
    /\ Whole => /\ pc = "fcs" => "badfcs" \notin flags
                /\ pc = "done" => verdict = "Ok" /\ K = N

LEMMA ReadInit == Init => ReadInv
BY DEF Init, ReadInv

LEMMA ReadRadiotap == WalkInv /\ ReadInv /\ RadiotapParse => ReadInv'
<1> SUFFICES ASSUME WalkInv, RadiotapParse, Narrow
             PROVE  misread' = {} /\ pc' = "fcs" /\ (frame.good => "badfcs" \notin flags')
  BY DEF RadiotapParse, ReadInv, Narrow, Whole, body
<1>0. frame.radio.whole
  BY DEF Narrow, Standard
<1>1. frame \in Frames
  BY DEF WalkInv, TypeOK
<1>2. ReadRight(frame.radio, "radio flags") /\ ReadRight(frame.radio, "signal")
  BY <1>1, NarrowIsRight
<1>3. misread' = {} /\ pc' = "fcs"
  BY <1>0, <1>2 DEF RadiotapParse
<1>4. flags' = (IF frame.fcs THEN {"fcs"} ELSE {}) \cup (IF frame.good THEN {} ELSE {"badfcs"})
  <2>1. flags' \in FlagsRead
    BY <1>0 DEF RadiotapParse
  <2> QED BY <1>2, <2>1, FlagsOf
<1> QED BY <1>3, <1>4

LEMMA ReadCheckFcs == ReadInv /\ CheckFcs => ReadInv'
BY DEF CheckFcs, Ends, ReadInv, Narrow, Whole, body

LEMMA ReadHeader == WalkInv /\ ReadInv /\ Header => ReadInv'
<1> SUFFICES ASSUME WalkInv, ReadInv, Header PROVE ReadInv'
  OBVIOUS
<1>0. UNCHANGED <<frame, misread>>
  BY DEF Header
<1> SUFFICES ASSUME Narrow, Whole PROVE pc' = "action"
  BY <1>0 DEF ReadInv, Narrow, Whole, body
<1>1. frame \in Frames /\ len \in Nat /\ N \in Nat
  BY Counts DEF WalkInv
<1>2. misread = {} /\ pc = "header"
  BY DEF ReadInv, Header
<1>3. len = frame.sent
  BY <1>2 DEF WalkInv, PlaceInv, Right
<1>4. Headers(body) \in Nat /\ Headers(body) >= 24 /\ body.start[N + 1] \in Nat
  <2>1. Headers(body) \in Nat /\ body.start[N + 1] \in Nat
    BY <1>1, BodyFacts, SentFits
  <2>2. Headers(body) = 40
    BY DEF Headers, Whole
  <2> QED BY <2>1, <2>2
<1>5. frame.sent = Headers(body) + body.start[N + 1]
  BY DEF Whole, SizeOfFrame, N
<1>6. len >= Headers(body) /\ len >= 24
  BY <1>3, <1>4, <1>5
<1>7. body.kind # "other"
  BY DEF Whole, IsAction
<1> QED BY <1>1, <1>4, <1>6, <1>7 DEF Header, Ends, Whole

LEMMA ReadRssi == ReadInv /\ RssiFilter => ReadInv'
BY DEF RssiFilter, Ends, ReadInv, Narrow, Whole, body

LEMMA ReadTlv ==
  ASSUME PresenceMode = 4, WalkInv, ReadInv, Tlv
  PROVE  ReadInv'
<1>1. /\ TypeOK /\ frame \in Frames /\ len \in Nat /\ at \in Nat /\ N \in Nat /\ K \in Nat
      /\ pc = "tlvs" /\ IsAction(body) /\ frame' = frame
  BY Counts DEF Tlv, WalkInv, PlaceInv
<1> SUFFICES ASSUME Narrow PROVE misread' = {} /\ pc' = "tlvs"
  BY <1>1 DEF ReadInv, Narrow, Whole, body
<1>2. misread = {} /\ Right
  BY DEF ReadInv, Right
<1>3. at = body.start[K + 1] /\ frame.sent = Headers(body) + len /\ K <= N
  BY <1>1, <1>2 DEF WalkInv, PositionInv, PlaceInv, PrefixInv
<1>4. PICK n \in SizesHere, heeds \in BOOLEAN :
        /\ at + 3 + n <= len
        /\ misread' = misread \cup (IF OnUnit /\ heeds THEN MissedHere ELSE {})
        /\ \/ pc' = pc
           \/ FALSE \in Parses(heeds)
  BY DEF Tlv
<1>5. n \in Nat
  BY <1>1, SizesFacts
<1>6. K < N
  <2>1. frame.sent <= Headers(body) + body.start[N + 1]
    BY <1>1, SentFits
  <2>2. Headers(body) \in Nat /\ body.start[N + 1] \in Nat
    BY <1>1, BodyFacts, SentFits
  <2>3. K = N => len <= at
    BY <1>1, <1>3, <2>1, <2>2
  <2> QED BY <1>1, <1>3, <1>4, <1>5, <2>3
<1>7. OnUnit
  <2>1. K + 1 \in 1 .. N /\ Overhead(body) > 0
    BY <1>1, <1>6 DEF Overhead
  <2> QED BY <1>1, <1>3, <2>1, UnitIs
<1>8. MissedHere = {} /\ ParsesHere
  BY <1>1, <1>7, UnitIsRead
<1>9. Parses(heeds) = {TRUE}
  BY <1>7, <1>8 DEF Parses
<1> QED BY <1>1, <1>2, <1>4, <1>8, <1>9

LEMMA ReadTlvsEnd == WalkInv /\ ReadInv /\ TlvsEnd => ReadInv'
<1> SUFFICES ASSUME WalkInv, ReadInv, TlvsEnd PROVE ReadInv'
  OBVIOUS
<1>1. /\ TypeOK /\ frame \in Frames /\ len \in Nat /\ at \in Nat /\ N \in Nat /\ K \in Nat
      /\ pc = "tlvs" /\ IsAction(body) /\ UNCHANGED <<frame, misread, walked>>
  BY Counts DEF TlvsEnd, WalkInv, PlaceInv
<1>2. K' = K /\ N' = N /\ (Whole' => Whole) /\ (Narrow' => Narrow)
  BY <1>1 DEF K, N, body, Whole, Narrow
<1> SUFFICES ASSUME Narrow, Whole PROVE verdict' = "Ok" /\ K = N
  BY <1>1, <1>2 DEF ReadInv, TlvsEnd, Ends
<1>3. misread = {} /\ Right
  BY DEF ReadInv, Right
<1>4. at = body.start[K + 1] /\ frame.sent = Headers(body) + len /\ K <= N
  BY <1>1, <1>3 DEF WalkInv, PositionInv, PlaceInv, PrefixInv
<1>5. Headers(body) \in Nat /\ body.start[N + 1] \in Nat
  BY <1>1, BodyFacts, SentFits
<1>6. len = body.start[N + 1]
  <2>1. frame.sent = Headers(body) + body.start[N + 1]
    BY DEF Whole, SizeOfFrame, N
  <2> QED BY <1>1, <1>4, <1>5, <2>1
<1>7. ASSUME K < N
      PROVE  /\ SizesHere = {body.size[K + 1]} /\ body.size[K + 1] \in Nat
             /\ at + 3 + body.size[K + 1] <= len
  <2>1. K + 1 \in 1 .. N /\ N \in 1 .. N /\ K + 1 <= N
    BY <1>1, <1>7
  <2>3. Overhead(body) = 3 /\ Overhead(body) > 0
    BY <1>1 DEF Overhead
  <2>2. SizesHere = {body.size[K + 1]}
    BY <1>1, <1>4, <2>1, <2>3, UnitIs
  <2>4. /\ body.start[N] + Overhead(body) + body.size[N]
             >= body.start[K + 1] + Overhead(body) + body.size[K + 1]
        /\ body.start[N + 1] =
             body.start[N] + Overhead(body) + body.size[N] + Aligned(body, body.size[N])
    BY <1>1, <2>1, <2>3, LaterUnits, Adjacent
  <2>5. /\ body.size[K + 1] \in Nat /\ body.size[N] \in Nat /\ Aligned(body, body.size[N]) \in Nat
        /\ body.start[K + 1] \in Nat /\ body.start[N] \in Nat
    <3>1. K + 1 \in 1 .. N + 1 /\ N \in 1 .. N + 1
      BY <1>1, <2>1
    <3> QED BY <1>1, <2>1, <3>1, BodyFacts
  <2>6. body.start[K + 1] + 3 + body.size[K + 1] <= body.start[N + 1]
    BY <2>3, <2>4, <2>5
  <2> QED BY <1>4, <1>6, <2>2, <2>5, <2>6
<1>8. K = N
  <2> SUFFICES ASSUME K < N PROVE FALSE
    BY <1>1, <1>4
  <2>1. at < len /\ ~(at + 3 > len)
    BY <1>1, <1>7
  <2>2. \A n \in SizesHere : ~(at + 3 + n > len)
    BY <1>1, <1>7
  <2> QED BY <1>1, <2>1, <2>2 DEF TlvsEnd
<1>9. at = len
  BY <1>4, <1>6, <1>8
<1> QED BY <1>1, <1>8, <1>9 DEF TlvsEnd, Ends

LEMMA ReadOthers ==
  ASSUME WalkInv, ReadInv, Data \/ Subframe \/ SubframesEnd \/ UNCHANGED vars
  PROVE  ReadInv'
<1>1. CASE Data
  <2>1. ~IsAction(body)
    BY <1>1 DEF Data, WalkInv, PlaceInv, IsAction
  <2> QED BY <1>1, <2>1 DEF Data, Ends, ReadInv, Narrow, Whole, body
<1>2. CASE Subframe
  BY <1>2 DEF Subframe, ReadInv, Narrow, Whole, body
<1>3. CASE SubframesEnd
  <2>1. ~IsAction(body)
    BY <1>3 DEF SubframesEnd, WalkInv, PlaceInv, IsAction
  <2> QED BY <1>3, <2>1 DEF SubframesEnd, Ends, ReadInv, Narrow, Whole, body
<1>4. CASE UNCHANGED vars
  BY <1>4 DEF vars, ReadInv, Narrow, Whole, body, K, N
<1> QED BY <1>1, <1>2, <1>3, <1>4

\* The offsets of rx.rs are those of the structs of frame.rs, for every length of
\* the channel sequence and of a name: as long as the driver writes one present
\* word and nothing between rate and signal, no read gets the bytes of another field, wherever the
\* frame stops, and awdl_rx_action takes a whole frame of another node to its end.
\* The presence mode is that of awdl_sync_state_init.
THEOREM ReadsAsWritten ==
  ASSUME PresenceMode = 4
  PROVE  Spec => []ReadAsWritten
<1>1. Init => WalkInv /\ ReadInv
  BY InitWalk, ReadInit
<1>2. WalkInv /\ ReadInv /\ TypeOK' /\ [Next]_vars => WalkInv' /\ ReadInv'
  <2> SUFFICES ASSUME WalkInv, ReadInv, TypeOK', [Next]_vars PROVE WalkInv' /\ ReadInv'
    OBVIOUS
  <2>1. WalkInv'
    BY NextWalk
  <2>2. ReadInv'
    BY ReadRadiotap, ReadCheckFcs, ReadHeader, ReadRssi, ReadTlv, ReadTlvsEnd, ReadOthers
       DEF Next
  <2> QED BY <2>1, <2>2
<1>3. ReadInv => ReadAsWritten
  BY DEF ReadInv, ReadAsWritten, Narrow, Whole, K, N
<1>4. Spec => []TypeOK
  BY TypeCorrect
<1> QED BY <1>1, <1>2, <1>3, <1>4, PTL DEF Spec

=============================================================================
