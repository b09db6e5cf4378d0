--------------------------- MODULE AwdlSync_proofs ---------------------------
(***************************************************************************)
(* Theorems about AwdlSync, for every depth of the tree and all lengths of *)
(* windows, sequences and counters: types, the bound on the lags, the      *)
(* agreement on the slot, and the errors that are measured.                *)
(***************************************************************************)
EXTENDS AwdlSync, TLAPS

(***************************************************************************)
(* Division.                                                               *)
(***************************************************************************)

\* What div and mod of a positive number are,
LEMMA DivMod ==
  ASSUME NEW a \in Int, NEW b \in Nat \ {0}
  PROVE  a \div b \in Int /\ a % b \in 0 .. b - 1 /\ a = b * (a \div b) + (a % b)
OBVIOUS

\* and that nothing else is like them.
Splits(a, b, q, r) == q \in Int /\ r \in 0 .. b - 1 /\ a = b * q + r

LEMMA DivModUnique ==
  ASSUME NEW a \in Int, NEW b \in Nat \ {0}, NEW q, NEW r, Splits(a, b, q, r)
  PROVE  a \div b = q /\ a % b = r
BY DEF Splits

LEMMA ModShift ==
  ASSUME NEW a \in Int, NEW b \in Nat \ {0}, NEW k \in Int, NEW c \in Int, c = a + b * k
  PROVE  c % b = a % b
<1>1. a = b * (a \div b) + (a % b) /\ a \div b \in Int /\ a % b \in 0 .. b - 1
  BY DivMod
<1>2. Splits(c, b, a \div b + k, a % b)
  BY <1>1 DEF Splits
<1> QED BY <1>2, DivModUnique

Shifted(c, a, b) == \E k \in Int : c = a + b * k

LEMMA SameRemainder ==
  ASSUME NEW a \in Int, NEW b \in Nat \ {0}, NEW c \in Int, Shifted(c, a, b)
  PROVE  c % b = a % b
<1>1. PICK k \in Int : c = a + b * k
  BY DEF Shifted
<1> QED BY <1>1, ModShift

\* A remainder is below every number that is congruent and not negative.
LEMMA ModBelow ==
  ASSUME NEW a \in Int, NEW b \in Nat \ {0}, NEW k \in Int, NEW lag \in Nat, a = lag + b * k
  PROVE  a % b <= lag
<1>1. a % b = lag % b
  <2>1. lag \in Int
    OBVIOUS
  <2> QED BY <2>1, ModShift
<1>2. lag = b * (lag \div b) + (lag % b) /\ lag \div b \in Int /\ lag % b \in 0 .. b - 1
  BY DivMod
<1>3. lag \div b >= 0
  BY <1>2
<1>4. b * (lag \div b) >= 0
  BY <1>2, <1>3
<1> QED BY <1>1, <1>2, <1>4

(***************************************************************************)
(* The lengths.                                                            *)
(***************************************************************************)

LEMMA Lengths ==
  /\ Depth \in Nat /\ MaxDelay \in Nat /\ Threshold \in Nat
  /\ Tu \in Nat \ {0} /\ AwPeriod \in Nat \ {0} /\ Presence \in Nat \ {0}
  /\ SeqLength \in Nat \ {0} /\ CounterWord \in Nat \ {0}
  /\ Eaw \in Nat \ {0} /\ Eaw = Presence * AwPeriod
  /\ Cycle \in Nat \ {0} /\ Cycle = CounterWord * AwPeriod * Tu
<1>1. /\ Depth \in Nat /\ MaxDelay \in Nat /\ Threshold \in Nat
      /\ Tu \in Nat \ {0} /\ AwPeriod \in Nat \ {0} /\ Presence \in Nat \ {0}
      /\ SeqLength \in Nat \ {0} /\ CounterWord \in Nat \ {0}
  BY SyncAssumption
<1>2. Presence * AwPeriod \in Nat \ {0}
  BY <1>1
<1>3. CounterWord * AwPeriod \in Nat \ {0}
  BY <1>1
<1>4. CounterWord * AwPeriod * Tu \in Nat \ {0}
  BY <1>1, <1>3
<1> QED BY <1>1, <1>2, <1>4 DEF Eaw, Cycle

\* The counter wraps around at the end of a channel sequence.
LEMMA Sequences ==
  \E m \in Nat \ {0} :
    /\ CounterWord = Presence * (SeqLength * m)
    /\ Cycle = (Eaw * Tu) * (SeqLength * m)
    /\ SeqLength * m \in Nat \ {0}
<1> DEFINE per == Presence * SeqLength
           m == CounterWord \div per
<1>1. per \in Nat \ {0}
  BY Lengths
<1>2. CounterWord % per = 0
  BY SyncAssumption
<1>3. CounterWord = per * m /\ m \in Int
  <2> HIDE DEF per
  <2> QED BY <1>1, <1>2, DivMod, Lengths
<1> HIDE DEF m
<1>4. m > 0
  <2> HIDE DEF per
  <2> QED BY <1>1, <1>3, Lengths
<1>5. SeqLength * m \in Nat \ {0}
  BY <1>3, <1>4, Lengths
<1>6. CounterWord = Presence * (SeqLength * m)
  BY <1>3, Lengths
<1>7. Cycle = (Eaw * Tu) * (SeqLength * m)
  <2> DEFINE k == SeqLength * m
  <2>1. k \in Nat /\ CounterWord = Presence * k
    BY <1>5, <1>6
  <2> HIDE DEF k
  <2>2. Cycle = (Presence * k) * AwPeriod * Tu
    BY <2>1, Lengths
  <2>3. @ = ((Presence * AwPeriod) * Tu) * k
    BY <2>1, Lengths
  <2> QED BY <2>2, <2>3, Lengths DEF k
<1> QED BY <1>3, <1>4, <1>5, <1>6, <1>7

(***************************************************************************)
(* What a node derives, as a place in the cycle.                           *)
(***************************************************************************)

\* How far into its EAW a node is, in ticks.
IntoEaw(n) == (Eaw - NextAwTu(n)) * Tu + (since[n] % Tu)

\* Ticks, whole TUs and whole EAWs since the last update.
LEMMA SinceParts ==
  ASSUME TypeOK, NEW n \in Node
  PROVE  \E e \in Nat, g \in 0 .. Eaw - 1 :
           /\ SinceTu(n) % Eaw = g /\ SinceTu(n) \div Eaw = e
           /\ since[n] = Tu * (Eaw * e + g) + (since[n] % Tu)
           /\ NextAwTu(n) = Eaw - g
           /\ since[n] % Tu \in 0 .. Tu - 1
<1> DEFINE q == SinceTu(n)
<1>1. since[n] \in Nat /\ Tu \in Nat \ {0} /\ Eaw \in Nat \ {0}
  BY Lengths DEF TypeOK
<1>2. q \in Int /\ since[n] = Tu * q + (since[n] % Tu) /\ since[n] % Tu \in 0 .. Tu - 1
  <2>1. since[n] \in Int
    BY <1>1
  <2> QED BY <1>1, <2>1, DivMod DEF SinceTu
<1> HIDE DEF q
<1>3. q >= 0
  BY <1>1, <1>2
<1>4. q \div Eaw \in Int /\ q % Eaw \in 0 .. Eaw - 1 /\ q = Eaw * (q \div Eaw) + (q % Eaw)
  BY <1>1, <1>2, DivMod
<1>5. q \div Eaw >= 0
  BY <1>1, <1>3, <1>4
<1>6. since[n] = Tu * (Eaw * (q \div Eaw) + (q % Eaw)) + (since[n] % Tu)
  BY <1>2, <1>4
<1> QED BY <1>2, <1>4, <1>5, <1>6 DEF q, NextAwTu

LEMMA WindowSum ==
  ASSUME NEW P \in Nat \ {0}, NEW A \in Nat \ {0}, NEW T \in Nat \ {0}, NEW w \in Nat \ {0},
         NEW a \in Int, NEW e \in Int, NEW g \in Int, NEW r \in Int, NEW x \in Int, NEW z \in Int,
         a + e = w * z + x
  PROVE  x * ((P * A) * T) + g * T + r
           = (P * a) * A * T + (T * ((P * A) * e + g) + r) + ((P * A) * T * w) * (-z)
<1> DEFINE B == (P * A) * T
<1>1. B \in Int
  OBVIOUS
<1>2. (P * a) * A * T = B * a
  OBVIOUS
<1>3. T * ((P * A) * e + g) = B * e + g * T
  OBVIOUS
<1> HIDE DEF B
<1>4. B * a + B * e + (B * w) * (-z) = B * (a + e - w * z)
  BY <1>1
<1>5. x * B = B * (a + e - w * z)
  BY <1>1
<1> QED BY <1>1, <1>2, <1>3, <1>4, <1>5 DEF B

\* The window a node finds itself in, the EAW of that and its first window;
\* all of it is one place in the cycle, the one where the node is.
LEMMA Windows ==
  ASSUME TypeOK, NEW n \in Node
  PROVE  /\ CurrentAw(n) \in 0 .. CounterWord - 1
         /\ CurrentEaw(n) \in Nat
         /\ Presence * CurrentEaw(n) < CounterWord
         /\ Mask(CurrentAw(n)) = Presence * CurrentEaw(n)
         /\ NextAwTu(n) \in 1 .. Eaw
         /\ since[n] % Tu \in 0 .. Tu - 1
         /\ IntoEaw(n) \in 0 .. Eaw * Tu - 1
         /\ \E k \in Int : CurrentEaw(n) * (Eaw * Tu) + IntoEaw(n) = Position(n) + Cycle * k
<1>1. PICK e \in Nat, g \in 0 .. Eaw - 1 :
        /\ SinceTu(n) % Eaw = g /\ SinceTu(n) \div Eaw = e
        /\ since[n] = Tu * (Eaw * e + g) + (since[n] % Tu)
        /\ NextAwTu(n) = Eaw - g
        /\ since[n] % Tu \in 0 .. Tu - 1
  BY SinceParts
<1>2. PICK m \in Nat \ {0} :
        /\ CounterWord = Presence * (SeqLength * m)
        /\ Cycle = (Eaw * Tu) * (SeqLength * m)
        /\ SeqLength * m \in Nat \ {0}
  BY Sequences
<1> DEFINE w == SeqLength * m
           j == g \div AwPeriod
           a == aw_counter[n] \div Presence
           x == (a + e) % w
           z == (a + e) \div w
<1>3. w \in Nat \ {0} /\ CounterWord = Presence * w /\ Cycle = (Eaw * Tu) * w
  BY <1>2
<1>4. a \in Int /\ aw_counter[n] = Presence * a
  <2>1. aw_counter[n] \in Int /\ aw_counter[n] % Presence = 0
    BY DEF TypeOK
  <2>2. Presence \in Nat \ {0}
    BY Lengths
  <2>3. a \in Int /\ aw_counter[n] = Presence * a + (aw_counter[n] % Presence)
    BY <2>1, <2>2, DivMod
  <2> HIDE DEF a
  <2> QED BY <2>1, <2>2, <2>3
<1>5. j \in 0 .. Presence - 1
  <2>1. j \in Int /\ g = AwPeriod * j + (g % AwPeriod) /\ g % AwPeriod \in 0 .. AwPeriod - 1
    BY Lengths, DivMod
  <2> HIDE DEF j
  <2>2. j >= 0
    BY <2>1, Lengths
  <2>3. AwPeriod * j < AwPeriod * Presence
    BY <2>1, Lengths
  <2> QED BY <2>1, <2>2, <2>3, Lengths
<1> HIDE DEF w, j, a
<1>6. x \in 0 .. w - 1 /\ z \in Int /\ a + e = w * z + x
  <2>1. a + e \in Int
    BY <1>4
  <2> QED BY <1>3, <2>1, DivMod
<1> HIDE DEF x, z
<1>7. Presence * x + j \in 0 .. CounterWord - 1
  <2>1. Presence * x + Presence <= Presence * w
    BY <1>3, <1>6, Lengths
  <2>2. Presence * x >= 0
    BY <1>6, Lengths
  <2> QED BY <2>1, <2>2, <1>3, <1>5, <1>6, Lengths
<1>8. CurrentAw(n) = Presence * x + j
  <2> DEFINE s == aw_counter[n] + j + Presence * e
  <2>1. s = Presence * (a + e) + j
    BY <1>4, <1>5, Lengths
  <2>2. s = (Presence * w) * z + (Presence * x + j)
    BY <2>1, <1>3, <1>5, <1>6, Lengths
  <2>3. Splits(s, CounterWord, z, Presence * x + j)
    BY <2>2, <1>3, <1>6, <1>7 DEF Splits
  <2>4. s \in Int
    BY <1>4, <1>5, Lengths
  <2>5. s % CounterWord = Presence * x + j
    <3> HIDE DEF s
    <3> QED BY <2>3, <2>4, Lengths, DivModUnique
  <2> QED BY <2>5, <1>1 DEF CurrentAw, j
<1>9. CurrentEaw(n) = x /\ Mask(CurrentAw(n)) = Presence * x
  <2>1. Splits(CurrentAw(n), Presence, x, j)
    BY <1>5, <1>6, <1>8 DEF Splits
  <2>2. CurrentAw(n) \in Int
    BY <1>7, <1>8
  <2>3. CurrentAw(n) \div Presence = x /\ CurrentAw(n) % Presence = j
    BY <2>1, <2>2, Lengths, DivModUnique
  <2>4. Mask(CurrentAw(n)) = CurrentAw(n) - j
    BY <2>3 DEF Mask
  <2>5. Presence * x \in Int
    BY <1>6, Lengths
  <2> QED BY <2>3, <2>4, <2>5, <1>5, <1>8 DEF CurrentEaw
<1>10. Presence * x < CounterWord
  BY <1>5, <1>6, <1>7, Lengths
<1> DEFINE r == since[n] % Tu
<1>11. IntoEaw(n) = g * Tu + r
  BY <1>1, Lengths DEF IntoEaw
<1>12. r \in 0 .. Tu - 1
  BY <1>1
<1> HIDE DEF r
<1>13. IntoEaw(n) \in 0 .. Eaw * Tu - 1
  <2>1. g * Tu + Tu <= Eaw * Tu
    BY Lengths
  <2>2. g * Tu >= 0
    BY Lengths
  <2> QED BY <1>11, <1>12, <2>1, <2>2, Lengths
<1>14. x * (Eaw * Tu) + IntoEaw(n) = Position(n) + Cycle * (-z)
  <2>1. x * ((Presence * AwPeriod) * Tu) + g * Tu + r
          = (Presence * a) * AwPeriod * Tu + (Tu * ((Presence * AwPeriod) * e + g) + r)
            + ((Presence * AwPeriod) * Tu * w) * (-z)
    BY <1>3, <1>4, <1>6, <1>12, Lengths, WindowSum
  <2>2. Position(n) = (Presence * a) * AwPeriod * Tu + (Tu * ((Presence * AwPeriod) * e + g) + r)
    BY <1>1, <1>4, Lengths DEF Position, r
  <2>3. (Presence * AwPeriod) * Tu * w = Cycle
    BY <1>3, Lengths
  <2>4. x * (Eaw * Tu) + g * Tu + r = Position(n) + Cycle * (-z)
    BY <2>1, <2>2, <2>3 DEF Eaw
  <2>5. x * (Eaw * Tu) \in Int /\ g * Tu \in Int /\ r \in Int
    BY <1>6, <1>12, Lengths
  <2> QED BY <2>4, <2>5, <1>11
<1>15. -z \in Int
  BY <1>6
<1>16. NextAwTu(n) \in 1 .. Eaw /\ since[n] % Tu \in 0 .. Tu - 1
  BY <1>1, Lengths
<1>17. CurrentEaw(n) \in Nat
  BY <1>6, <1>9
<1>18. \E k \in Int : CurrentEaw(n) * (Eaw * Tu) + IntoEaw(n) = Position(n) + Cycle * k
  BY <1>9, <1>14, <1>15
<1> QED BY <1>7, <1>8, <1>9, <1>10, <1>13, <1>16, <1>17, <1>18

(***************************************************************************)
(* The inductive invariant: the master hears nothing, and a frame that     *)
(* derives from the master's schedule is late by the lag of its sender,    *)
(* the rounding and its age.                                               *)
(***************************************************************************)

\* Where a frame puts the node that handles it.
FrameAt(f) == Mask(f.next_aw_seq) * AwPeriod * Tu + (Eaw - f.tx_down) * Tu

FramesBounded ==
  \A n \in Node :
    air[n].synced =>
      (Position(0) - FrameAt(air[n])) % Cycle <= MaxLag(n - 1) + (Tu - 1) + air[n].age

MasterDeaf == air[0] = NoFrame

IInv == TypeOK /\ MasterDeaf /\ LagBounded /\ FramesBounded

\* Masking a window leaves the first one of its EAW.
LEMMA MaskType ==
  ASSUME NEW c \in 0 .. CounterWord - 1
  PROVE  Mask(c) \in 0 .. CounterWord - 1 /\ Mask(c) % Presence = 0
<1>1. /\ c \in Int /\ Presence \in Nat \ {0} /\ CounterWord \in Nat \ {0}
  BY Lengths
<1>2. /\ c \div Presence \in Int /\ c % Presence \in 0 .. Presence - 1
      /\ c = Presence * (c \div Presence) + (c % Presence)
  BY <1>1, DivMod
<1>3. Mask(c) = Presence * (c \div Presence)
  BY <1>1, <1>2 DEF Mask
<1>4. c \div Presence >= 0
  BY <1>1, <1>2
<1>5. Presence * (c \div Presence) >= 0
  BY <1>1, <1>2, <1>4
<1>6. Splits(Mask(c), Presence, c \div Presence, 0)
  BY <1>1, <1>2, <1>3 DEF Splits
<1>7. Mask(c) \in Int
  BY <1>1, <1>2, <1>3
<1>8. Mask(c) % Presence = 0
  BY <1>1, <1>6, <1>7, DivModUnique
<1> QED BY <1>1, <1>2, <1>3, <1>5, <1>8

LEMMA FrameAtType ==
  ASSUME NEW f \in Frame
  PROVE  FrameAt(f) \in Int /\ (Eaw - f.tx_down) * Tu \in 0 .. Cycle - 1
<1>1. /\ f.next_aw_seq \in 0 .. CounterWord - 1 /\ f.tx_down \in 1 .. Eaw
  BY DEF Frame
<1>2. Mask(f.next_aw_seq) \in Int
  BY <1>1, MaskType, Lengths
<1>3. (Eaw - f.tx_down) * Tu \in Int /\ (Eaw - f.tx_down) * Tu >= 0
  BY <1>1, Lengths
<1>4. (Eaw - f.tx_down) * Tu < Eaw * Tu
  BY <1>1, Lengths
<1>5. Eaw * Tu <= Cycle
  <2>1. PICK m \in Nat \ {0} : Cycle = (Eaw * Tu) * (SeqLength * m) /\ SeqLength * m \in Nat \ {0}
    BY Sequences
  <2>2. Eaw * Tu \in Nat
    BY Lengths
  <2> QED BY <2>1, <2>2
<1> QED BY <1>2, <1>3, <1>4, <1>5, Lengths DEF FrameAt

LEMMA Places ==
  ASSUME TypeOK
  PROVE  /\ 0 \in Node
         /\ \A n \in Node : n \in Nat /\ Position(n) \in Int /\ MaxLag(n) \in Nat
<1>1. \A n \in Node : n \in Nat
  BY Lengths DEF Node
<1>2. \A n \in Node : aw_counter[n] \in Int /\ since[n] \in Int
  BY Lengths DEF TypeOK
<1>3. \A n \in Node : Position(n) \in Int
  BY <1>2, Lengths DEF Position
<1>4. \A n \in Node : MaxLag(n) \in Nat
  BY <1>1, Lengths DEF MaxLag
<1> QED BY <1>1, <1>3, <1>4, Lengths DEF Node

\* A lag that grows, in the cycle, grows by no more.
Later(c, d, more) == c \in Int /\ \E k \in Int : c = d + more + Cycle * k

LEMMA LagGrows ==
  ASSUME NEW c, NEW d \in Int, NEW more \in Nat, Later(c, d, more)
  PROVE  /\ c % Cycle <= (d % Cycle) + more
         /\ c % Cycle \in Nat /\ d % Cycle \in Nat
<1>1. Cycle \in Nat \ {0} /\ c \in Int
  BY Lengths DEF Later
<1>2. /\ d \div Cycle \in Int /\ d % Cycle \in 0 .. Cycle - 1
      /\ d = Cycle * (d \div Cycle) + (d % Cycle)
  BY <1>1, DivMod
<1>3. PICK k \in Int : c = d + more + Cycle * k
  BY DEF Later
<1>4. c = ((d % Cycle) + more) + Cycle * (d \div Cycle + k)
  BY <1>1, <1>2, <1>3
<1>5. (d % Cycle) + more \in Nat /\ d \div Cycle + k \in Int
  BY <1>1, <1>2
<1>6. c % Cycle <= (d % Cycle) + more
  BY <1>1, <1>4, <1>5, ModBelow
<1>7. c % Cycle \in 0 .. Cycle - 1
  BY <1>1, DivMod
<1> QED BY <1>1, <1>2, <1>6, <1>7

LEMMA InitInv == Init => IInv
<1> SUFFICES ASSUME Init PROVE IInv
  OBVIOUS
<1>1. 0 \in 0 .. Cycle - 1 /\ 0 \in 0 .. CounterWord - 1 /\ 0 \in Node
  BY Lengths DEF Node
<1>2. 0 % Presence = 0 /\ 0 % Cycle = 0
  BY Lengths
<1>3. TypeOK
  BY <1>1, <1>2 DEF Init, TypeOK
<1>4. MasterDeaf /\ FramesBounded
  BY <1>1 DEF Init, MasterDeaf, FramesBounded, NoFrame
<1>5. LagBounded
  <2>1. Lag(0) = 0
    BY <1>1, <1>2, <1>3, Places DEF Lag
  <2>2. MaxLag(0) \in Nat
    BY <1>3, Places
  <2> QED BY <2>1, <2>2 DEF LagBounded, Init
<1> QED BY <1>3, <1>4, <1>5 DEF IInv

LEMMA TickInv == IInv /\ Tick => IInv'
<1> SUFFICES ASSUME IInv, Tick PROVE IInv'
  OBVIOUS
<1> USE DEF IInv
<1>1. Cycle \in Nat \ {0}
  BY Lengths
<1>2. \A n \in Node : since[n] \in Int /\ since'[n] = (since[n] + 1) % Cycle
  BY Lengths DEF TypeOK, Tick
<1>3. \A n \in Node : /\ since'[n] \in 0 .. Cycle - 1
                     /\ \E k \in Int : since'[n] = since[n] + 1 + Cycle * k
  <2> SUFFICES ASSUME NEW n \in Node
               PROVE  /\ since'[n] \in 0 .. Cycle - 1
                      /\ \E k \in Int : since'[n] = since[n] + 1 + Cycle * k
    OBVIOUS
  <2>1. since[n] + 1 \in Int
    BY <1>2
  <2>2. PICK z \in Int : (since[n] + 1) % Cycle \in 0 .. Cycle - 1
                         /\ since[n] + 1 = Cycle * z + ((since[n] + 1) % Cycle)
    BY <1>1, <2>1, DivMod
  <2>3. -z \in Int /\ since'[n] = since[n] + 1 + Cycle * (-z)
    BY <1>1, <1>2, <2>2
  <2> QED BY <1>2, <2>2, <2>3
<1>4. \A n \in Node : air[n] # NoFrame => air[n] \in Frame /\ air[n].age < MaxDelay
  BY DEF TypeOK, Tick
<1>5. \A n \in Node :
        IF air[n] = NoFrame THEN air'[n] = NoFrame
        ELSE air'[n] = [air[n] EXCEPT !.age = @ + 1] /\ air'[n] \in Frame
  BY <1>4, Lengths DEF Tick, Frame
<1>6. TypeOK'
  <2>1. since' \in [Node -> 0 .. Cycle - 1]
    BY <1>3 DEF Tick
  <2>2. air' \in [Node -> Frame \cup {NoFrame}]
    BY <1>5 DEF Tick
  <2> QED BY <2>1, <2>2 DEF TypeOK, Tick
<1>7. MasterDeaf'
  BY <1>5, Places DEF MasterDeaf
<1>8. \A n \in Node : /\ Position(n)' \in Int
                     /\ \E k \in Int : Position(n)' = Position(n) + 1 + Cycle * k
  <2> SUFFICES ASSUME NEW n \in Node
               PROVE  /\ Position(n)' \in Int
                      /\ \E k \in Int : Position(n)' = Position(n) + 1 + Cycle * k
    OBVIOUS
  <2>1. PICK k \in Int : since'[n] = since[n] + 1 + Cycle * k
    BY <1>3
  <2>2. aw_counter'[n] * AwPeriod * Tu = aw_counter[n] * AwPeriod * Tu
        /\ aw_counter[n] * AwPeriod * Tu \in Int
    BY Lengths DEF Tick, TypeOK
  <2>3. Cycle * k \in Int
    BY <1>1
  <2>4. Position(n)' = Position(n) + 1 + Cycle * k
    BY <1>2, <2>1, <2>2, <2>3 DEF Position
  <2> QED BY <2>3, <2>4, Places
<1>9. LagBounded'
  <2> SUFFICES ASSUME NEW n \in synced PROVE (Position(0)' - Position(n)') % Cycle <= MaxLag(n)
    BY DEF LagBounded, Lag, MaxLag, Tick
  <2>1. n \in Node /\ 0 \in Node
    BY Places DEF TypeOK
  <2>2. PICK k \in Int, j \in Int : /\ Position(0)' = Position(0) + 1 + Cycle * k
                                    /\ Position(n)' = Position(n) + 1 + Cycle * j
    BY <1>8, <2>1
  <2>3. Position(0)' - Position(n)' = (Position(0) - Position(n)) + 0 + Cycle * (k - j)
    BY <1>1, <2>1, <2>2, Places
  <2>4. (Position(0) - Position(n)) % Cycle <= MaxLag(n)
    BY DEF LagBounded, Lag
  <2>5. Later(Position(0)' - Position(n)', Position(0) - Position(n), 0)
    BY <2>1, <2>2, <2>3, <1>8 DEF Later
  <2>6. Position(0) - Position(n) \in Int
    BY <2>1, Places
  <2> QED BY <2>1, <2>4, <2>5, <2>6, Places, LagGrows
<1>10. FramesBounded'
  <2> SUFFICES ASSUME NEW n \in Node, air'[n].synced
               PROVE  (Position(0)' - FrameAt(air'[n])) % Cycle
                        <= MaxLag(n - 1) + (Tu - 1) + air'[n].age
    BY DEF FramesBounded, MaxLag, FrameAt, Mask
  <2>1. air[n] \in Frame /\ air'[n] = [air[n] EXCEPT !.age = @ + 1]
    BY <1>4, <1>5 DEF NoFrame
  <2>2. /\ FrameAt(air'[n]) = FrameAt(air[n]) /\ air[n].synced /\ air'[n].age = air[n].age + 1
        /\ air[n].age \in Nat
    BY <2>1, Lengths DEF FrameAt, Frame
  <2>3. FrameAt(air[n]) \in Int /\ 0 \in Node
    BY <2>1, FrameAtType, Places
  <2>4. PICK k \in Int : Position(0)' = Position(0) + 1 + Cycle * k
    BY <1>8, <2>3
  <2>5. Position(0)' - FrameAt(air'[n]) = (Position(0) - FrameAt(air[n])) + 1 + Cycle * k
    BY <1>1, <2>2, <2>3, <2>4, Places
  <2>6. MaxLag(n - 1) + (Tu - 1) + air[n].age \in Int
    BY <2>2, Lengths DEF MaxLag, Node
  <2>7. Later(Position(0)' - FrameAt(air'[n]), Position(0) - FrameAt(air[n]), 1)
    BY <2>2, <2>3, <2>4, <2>5, <1>8 DEF Later
  <2>8. Position(0) - FrameAt(air[n]) \in Int
    BY <2>3, Places
  <2>9. (Position(0) - FrameAt(air[n])) % Cycle <= MaxLag(n - 1) + (Tu - 1) + air[n].age
    BY <2>2 DEF FramesBounded
  <2>10. /\ (Position(0)' - FrameAt(air'[n])) % Cycle
               <= ((Position(0) - FrameAt(air[n])) % Cycle) + 1
         /\ (Position(0)' - FrameAt(air'[n])) % Cycle \in Nat
         /\ (Position(0) - FrameAt(air[n])) % Cycle \in Nat
    BY <2>7, <2>8, LagGrows
  <2>11. MaxLag(n - 1) \in Int /\ Tu \in Int
    BY Lengths DEF MaxLag, Node
  <2> QED BY <2>2, <2>9, <2>10, <2>11
<1> QED BY <1>6, <1>7, <1>9, <1>10

LEMMA SendInv ==
  ASSUME IInv, NEW n \in Node, Send(n)
  PROVE  IInv'
<1> USE DEF IInv
<1> DEFINE f == [ tx_down |-> NextAwTu(n - 1), next_aw_seq |-> CurrentAw(n - 1),
                  age |-> 0, synced |-> n - 1 \in synced ]
<1>1. n \in Nat \ {0} /\ n - 1 \in Node
  BY Lengths DEF Send, Node
<1>2. /\ air' = [air EXCEPT ![n] = f]
      /\ since' = since /\ aw_counter' = aw_counter /\ synced' = synced
  BY DEF Send
<1>3. f \in Frame
  <2>1. NextAwTu(n - 1) \in 1 .. Eaw /\ CurrentAw(n - 1) \in 0 .. CounterWord - 1
    BY <1>1, Windows
  <2>2. 0 \in 0 .. MaxDelay
    BY Lengths
  <2> QED BY <2>1, <2>2 DEF Frame
<1>4. TypeOK'
  BY <1>2, <1>3 DEF TypeOK
<1>5. MasterDeaf'
  BY <1>1, <1>2, Places DEF MasterDeaf, TypeOK
<1>6. \A m \in Node : Position(m)' = Position(m)
  BY <1>2 DEF Position
<1>7. LagBounded'
  BY <1>2, <1>6, Places DEF LagBounded, Lag, MaxLag, TypeOK
<1>8. ASSUME f.synced
      PROVE  (Position(0) - FrameAt(f)) % Cycle <= MaxLag(n - 1) + (Tu - 1) + f.age
  <2> DEFINE r == since[n - 1] % Tu
  <2>1. PICK k \in Int :
          CurrentEaw(n - 1) * (Eaw * Tu) + IntoEaw(n - 1) = Position(n - 1) + Cycle * k
    BY <1>1, Windows
  <2>2. FrameAt(f) = (Presence * CurrentEaw(n - 1)) * AwPeriod * Tu + (Eaw - NextAwTu(n - 1)) * Tu
    BY <1>1, Windows DEF FrameAt
  <2>3. CurrentEaw(n - 1) \in Nat /\ NextAwTu(n - 1) \in Int /\ r \in 0 .. Tu - 1
    BY <1>1, Windows, Lengths
  <2>4. (Presence * CurrentEaw(n - 1)) * AwPeriod * Tu = CurrentEaw(n - 1) * (Eaw * Tu)
    BY <2>3, Lengths
  <2>5. (Eaw - NextAwTu(n - 1)) * Tu \in Int /\ CurrentEaw(n - 1) * (Eaw * Tu) \in Int
    BY <2>3, Lengths
  <2> HIDE DEF r
  <2>6. IntoEaw(n - 1) = (Eaw - NextAwTu(n - 1)) * Tu + r
    BY DEF IntoEaw, r
  <2>7. Cycle * k \in Int /\ Cycle * (-k) = -(Cycle * k) /\ -k \in Int
    BY Lengths
  <2>8. Position(n - 1) \in Int /\ Position(0) \in Int
    BY <1>1, Places
  <2>9. FrameAt(f) = Position(n - 1) + Cycle * k - r
    BY <2>1, <2>2, <2>3, <2>4, <2>5, <2>6, <2>7, <2>8
  <2>10. Position(0) - FrameAt(f) = (Position(0) - Position(n - 1)) + r + Cycle * (-k)
    BY <2>3, <2>7, <2>8, <2>9
  <2>11. Later(Position(0) - FrameAt(f), Position(0) - Position(n - 1), r)
    BY <2>3, <2>7, <2>8, <2>10 DEF Later
  <2>12. (Position(0) - Position(n - 1)) % Cycle <= MaxLag(n - 1)
    BY <1>8 DEF LagBounded, Lag
  <2>13. r \in Nat /\ Position(0) - Position(n - 1) \in Int
    BY <2>3, <2>8, Lengths
  <2>14. /\ (Position(0) - FrameAt(f)) % Cycle <= ((Position(0) - Position(n - 1)) % Cycle) + r
         /\ (Position(0) - FrameAt(f)) % Cycle \in Nat
         /\ (Position(0) - Position(n - 1)) % Cycle \in Nat
    BY <2>11, <2>13, LagGrows
  <2> HIDE DEF f
  <2>15. MaxLag(n - 1) \in Nat /\ f.age = 0
    BY <1>1, Places DEF f
  <2> QED BY <2>3, <2>12, <2>14, <2>15, Lengths
<1>9. FramesBounded'
  <2> SUFFICES ASSUME NEW m \in Node, air'[m].synced
               PROVE  (Position(0) - FrameAt(air'[m])) % Cycle
                        <= MaxLag(m - 1) + (Tu - 1) + air'[m].age
    BY <1>6, Places DEF FramesBounded, MaxLag, FrameAt, Mask
  <2>1. CASE m = n
    <3> HIDE DEF f
    <3>1. air'[m] = f
      BY <1>2, <2>1 DEF TypeOK
    <3> QED BY <1>8, <2>1, <3>1
  <2>2. CASE m # n
    BY <1>2, <2>2 DEF FramesBounded, TypeOK
  <2> QED BY <2>1, <2>2
<1> QED BY <1>4, <1>5, <1>7, <1>9

LEMMA ReceiveInv ==
  ASSUME IInv, NEW n \in Node, Receive(n)
  PROVE  IInv'
<1> USE DEF IInv
<1> DEFINE f == air[n]
<1>1. n # 0 /\ f \in Frame
  BY DEF Receive, MasterDeaf, TypeOK
<1>2. n \in Nat /\ n - 1 \in Node
  BY <1>1, Lengths DEF Node
<1>3. /\ since' = [since EXCEPT ![n] = (Eaw - f.tx_down) * Tu]
      /\ aw_counter' = [aw_counter EXCEPT ![n] = Mask(f.next_aw_seq)]
      /\ synced' = IF f.synced THEN synced \cup {n} ELSE synced \ {n}
      /\ air' = [air EXCEPT ![n] = NoFrame]
  BY DEF Receive
<1> HIDE DEF f
<1>4. (Eaw - f.tx_down) * Tu \in 0 .. Cycle - 1 /\ FrameAt(f) \in Int
  BY <1>1, FrameAtType
<1>5. Mask(f.next_aw_seq) \in 0 .. CounterWord - 1 /\ Mask(f.next_aw_seq) % Presence = 0
  BY <1>1, MaskType DEF Frame
<1>6. TypeOK'
  BY <1>1, <1>3, <1>4, <1>5 DEF TypeOK
<1>7. MasterDeaf'
  BY <1>1, <1>3, Places DEF MasterDeaf, TypeOK
<1>8. /\ \A m \in Node \ {n} : Position(m)' = Position(m)
      /\ Position(n)' = FrameAt(f)
  BY <1>3 DEF Position, FrameAt, TypeOK
<1>9. Position(0)' = Position(0) /\ 0 \in Node
  BY <1>1, <1>8, Places
<1>10. LagBounded'
  <2> SUFFICES ASSUME NEW m \in synced' PROVE (Position(0) - Position(m)') % Cycle <= MaxLag(m)
    BY <1>9 DEF LagBounded, Lag, MaxLag
  <2>1. CASE m # n
    BY <1>3, <1>8, <2>1 DEF LagBounded, Lag, TypeOK
  <2>2. CASE m = n
    <3>1. f.synced
      BY <1>3, <2>2
    <3>2. (Position(0) - FrameAt(f)) % Cycle <= MaxLag(n - 1) + (Tu - 1) + f.age
      BY <3>1 DEF FramesBounded, f
    <3>3. f.age \in 0 .. MaxDelay
      BY <1>1 DEF Frame
    <3>4. MaxLag(n - 1) + (Tu - 1) + MaxDelay = MaxLag(n)
      BY <1>2, Lengths DEF MaxLag
    <3>5. (Position(0) - FrameAt(f)) % Cycle \in Int /\ MaxLag(n - 1) \in Nat
      <4>1. Position(0) - FrameAt(f) \in Int
        BY <1>4, Places
      <4> QED BY <4>1, <1>2, Places, Lengths, DivMod
    <3> QED BY <1>8, <2>2, <3>2, <3>3, <3>4, <3>5, Lengths
  <2> QED BY <2>1, <2>2
<1>11. FramesBounded'
  <2> SUFFICES ASSUME NEW m \in Node, air'[m].synced
               PROVE  (Position(0) - FrameAt(air'[m])) % Cycle
                        <= MaxLag(m - 1) + (Tu - 1) + air'[m].age
    BY <1>9 DEF FramesBounded, MaxLag, FrameAt, Mask
  <2>1. m # n /\ air'[m] = air[m]
    BY <1>3 DEF NoFrame, TypeOK
  <2> QED BY <2>1 DEF FramesBounded
<1> QED BY <1>6, <1>7, <1>10, <1>11

LEMMA Unsynced ==
  /\ [NoFrame EXCEPT !.synced = FALSE] = NoFrame
  /\ TypeOK => [m \in Node |-> [air[m] EXCEPT !.synced = FALSE]] \in [Node -> Frame \cup {NoFrame}]
<1>1. [NoFrame EXCEPT !.synced = FALSE] = NoFrame
  <2> DEFINE S == [tx_down : Int, next_aw_seq : Int, age : Int, synced : BOOLEAN]
             e == [NoFrame EXCEPT !.synced = FALSE]
  <2>1. NoFrame \in S
    BY DEF NoFrame
  <2>2. e \in S
    BY <2>1
  <2>3. \A a \in S : a = [tx_down |-> a.tx_down, next_aw_seq |-> a.next_aw_seq,
                         age |-> a.age, synced |-> a.synced]
    OBVIOUS
  <2>4. e.tx_down = 0 /\ e.next_aw_seq = 0 /\ e.age = 0 /\ e.synced = FALSE
    BY <2>1 DEF NoFrame
  <2> HIDE DEF e
  <2>5. e = [tx_down |-> 0, next_aw_seq |-> 0, age |-> 0, synced |-> FALSE]
    BY <2>2, <2>3, <2>4
  <2> QED BY <2>5 DEF e, NoFrame
<1>2. \A f \in Frame : [f EXCEPT !.synced = FALSE] \in Frame
  BY DEF Frame
<1> DEFINE G == Frame \cup {NoFrame}
           Cut(f) == [f EXCEPT !.synced = FALSE]
<1>3. \A f \in G : Cut(f) \in G
  BY <1>1, <1>2
<1>4. TypeOK => \A m \in Node : air[m] \in G
  BY DEF TypeOK
<1> HIDE DEF G, Cut
<1>5. TypeOK => [m \in Node |-> Cut(air[m])] \in [Node -> G]
  BY <1>3, <1>4
<1> QED BY <1>1, <1>5 DEF G, Cut

\* A master whose schedule jumps or begins anew leaves nobody synchronised.
LEMMA MasterJumps ==
  ASSUME IInv, TypeOK', synced' = {0},
         air' = [m \in Node |-> [air[m] EXCEPT !.synced = FALSE]]
  PROVE  IInv'
<1>0. TypeOK /\ 0 \in Node
  BY Places DEF IInv
<1>1. \A m \in Node : ~ air'[m].synced
  BY DEF IInv, TypeOK, Frame, NoFrame
<1>2. MasterDeaf'
  <2>1. air'[0] = [air[0] EXCEPT !.synced = FALSE] /\ air[0] = NoFrame
    BY <1>0 DEF IInv, MasterDeaf
  <2>2. air'[0] = NoFrame
    BY <2>1, Unsynced
  <2> QED BY <2>2 DEF MasterDeaf
<1>3. FramesBounded'
  BY <1>1 DEF FramesBounded
<1>4. LagBounded'
  <2>1. Lag(0)' = 0
    <3>1. Position(0)' \in Int
      <4>1. aw_counter'[0] \in Int /\ since'[0] \in Int
        BY <1>0, Lengths DEF TypeOK
      <4> QED BY <4>1, Lengths DEF Position
    <3>2. Position(0)' - Position(0)' = 0 /\ 0 % Cycle = 0
      BY <3>1, Lengths
    <3> QED BY <3>2 DEF Lag
  <2>2. MaxLag(0) \in Nat
    BY <1>0, Places
  <2> QED BY <2>1, <2>2 DEF LagBounded, MaxLag
<1> QED BY <1>2, <1>3, <1>4 DEF IInv

\* Another node whose schedule jumps or begins anew only leaves the set.
LEMMA FollowerJumps ==
  ASSUME IInv, TypeOK', NEW n \in Node \ {0}, synced' = synced \ {n},
         \A m \in Node \ {n} : since'[m] = since[m] /\ aw_counter'[m] = aw_counter[m],
         \A m \in Node : air'[m] \in {air[m], NoFrame}
  PROVE  IInv'
<1>1. 0 \in Node
  BY Places DEF IInv
<1>2. \A m \in Node \ {n} : Position(m)' = Position(m)
  BY DEF Position
<1>3. MasterDeaf'
  BY <1>1 DEF IInv, MasterDeaf
<1>4. LagBounded'
  BY <1>1, <1>2 DEF IInv, LagBounded, Lag, MaxLag, TypeOK
<1>5. FramesBounded'
  <2> SUFFICES ASSUME NEW m \in Node, air'[m].synced
               PROVE  (Position(0) - FrameAt(air'[m])) % Cycle
                        <= MaxLag(m - 1) + (Tu - 1) + air'[m].age
    BY <1>1, <1>2 DEF FramesBounded, MaxLag, FrameAt, Mask
  <2>1. air'[m] = air[m]
    BY DEF NoFrame
  <2> QED BY <2>1 DEF IInv, FramesBounded
<1> QED BY <1>3, <1>4, <1>5 DEF IInv

LEMMA RestartInv ==
  ASSUME IInv, NEW n \in Node, Restart(n)
  PROVE  IInv'
<1>1. 0 \in 0 .. Cycle - 1 /\ 0 \in 0 .. CounterWord - 1 /\ 0 % Presence = 0
  BY Lengths
<1>2. air' \in [Node -> Frame \cup {NoFrame}]
  <2>1. CASE n = 0
    BY <2>1, Unsynced DEF Restart, IInv
  <2>2. CASE n # 0
    BY <2>2 DEF Restart, IInv, TypeOK
  <2> QED BY <2>1, <2>2
<1>3. TypeOK'
  BY <1>1, <1>2 DEF Restart, IInv, TypeOK
<1>4. CASE n = 0
  BY <1>3, <1>4, MasterJumps DEF Restart
<1>5. CASE n # 0
  <2>1. \A m \in Node \ {n} : since'[m] = since[m] /\ aw_counter'[m] = aw_counter[m]
    BY DEF Restart, IInv, TypeOK
  <2>2. synced' = synced \ {n} /\ \A m \in Node : air'[m] \in {air[m], NoFrame}
    BY <1>5 DEF Restart, IInv, TypeOK
  <2> QED BY <1>3, <1>5, <2>1, <2>2, FollowerJumps
<1> QED BY <1>4, <1>5

LEMMA ClockStepInv ==
  ASSUME IInv, NEW n \in Node, ClockStep(n)
  PROVE  IInv'
<1>1. since' \in [Node -> 0 .. Cycle - 1]
  <2>1. PICK jump \in Jumps : since' = [since EXCEPT ![n] = (@ + jump) % Cycle]
    BY DEF ClockStep
  <2>2. since[n] + jump \in Int /\ Cycle \in Nat \ {0}
    BY SyncAssumption, Lengths DEF IInv, TypeOK
  <2>3. (since[n] + jump) % Cycle \in 0 .. Cycle - 1
    BY <2>2, DivMod
  <2> QED BY <2>1, <2>3 DEF IInv, TypeOK
<1>2. air' \in [Node -> Frame \cup {NoFrame}]
  <2>1. CASE n = 0
    BY <2>1, Unsynced DEF ClockStep, IInv
  <2>2. CASE n # 0
    BY <2>2 DEF ClockStep, IInv, TypeOK
  <2> QED BY <2>1, <2>2
<1>3. TypeOK'
  BY <1>1, <1>2 DEF ClockStep, IInv, TypeOK
<1>4. CASE n = 0
  BY <1>3, <1>4, MasterJumps DEF ClockStep
<1>5. CASE n # 0
  <2>1. \A m \in Node \ {n} : since'[m] = since[m] /\ aw_counter'[m] = aw_counter[m]
    BY DEF ClockStep, IInv, TypeOK
  <2>2. synced' = synced \ {n} /\ \A m \in Node : air'[m] \in {air[m], NoFrame}
    BY <1>5 DEF ClockStep
  <2> QED BY <1>3, <1>5, <2>1, <2>2, FollowerJumps
<1> QED BY <1>4, <1>5

LEMMA Invariant == Spec => []IInv
<1>1. IInv /\ [Next]_vars => IInv'
  <2> SUFFICES ASSUME IInv, [Next]_vars PROVE IInv'
    OBVIOUS
  <2>1. CASE Tick
    BY <2>1, TickInv
  <2>2. ASSUME NEW n \in Node, Send(n) PROVE IInv'
    BY <2>2, SendInv
  <2>3. ASSUME NEW n \in Node, Receive(n) PROVE IInv'
    BY <2>3, ReceiveInv
  <2>4. ASSUME NEW n \in Node, Restart(n) PROVE IInv'
    BY <2>4, RestartInv
  <2>5. ASSUME NEW n \in Node, ClockStep(n) PROVE IInv'
    BY <2>5, ClockStepInv
  <2>6. CASE UNCHANGED vars
    BY <2>6 DEF vars, IInv, TypeOK, MasterDeaf, LagBounded, FramesBounded, Lag, Position, MaxLag,
                FrameAt, Mask
  <2> QED BY <2>1, <2>2, <2>3, <2>4, <2>5, <2>6 DEF Next
<1> QED BY <1>1, InitInv, PTL DEF Spec

(***************************************************************************)
(* The theorems.                                                           *)
(***************************************************************************)

\* Ticks and counters stay within the cycle of the u16 counter, every node
\* stores the first window of an EAW (the mask of awdl_handle_sync_params_tlv),
\* and the frames of awdl_init_full_action have a next EAW that is one to an
\* EAW away, at whatever moment they are built.
THEOREM TypeCorrect == Spec => []TypeOK
<1>1. IInv => TypeOK
  BY DEF IInv
<1> QED BY <1>1, Invariant, PTL

\* A node that derives its schedule from the master's, however often it or the
\* nodes between synchronised, is at most MaxLag behind (awdl_sync_update_last).
THEOREM LagIsBounded == Spec => []LagBounded
<1>1. IInv => LagBounded
  BY DEF IInv
<1> QED BY <1>1, Invariant, PTL

\* From MaxLag after the master's EAW began to its end, a node that derives its
\* schedule from the master's is in the same EAW, up to whole cycles of the
\* counter and so up to whole channel sequences.
LEMMA SameSlot ==
  ASSUME IInv, NEW n \in synced, Position(0) % (Eaw * Tu) >= MaxLag(n)
  PROVE  Slot(n) = Slot(0)
<1> DEFINE E == Eaw * Tu
           lag == (Position(0) - Position(n)) % Cycle
           z == (Position(0) - Position(n)) \div Cycle
<1>1. TypeOK /\ n \in Node /\ 0 \in Node /\ lag <= MaxLag(n)
  BY Places DEF IInv, TypeOK, LagBounded, Lag
<1>2. Position(0) \in Int /\ Position(n) \in Int /\ MaxLag(n) \in Nat
  BY <1>1, Places
<1>3. E \in Nat \ {0} /\ Cycle \in Nat \ {0} /\ SeqLength \in Nat \ {0}
  BY Lengths
<1>4. lag \in Nat /\ z \in Int /\ Position(0) - Position(n) = Cycle * z + lag
  <2> DEFINE d == Position(0) - Position(n)
  <2>1. d \in Int
    BY <1>2
  <2> HIDE DEF d
  <2>2. /\ d \div Cycle \in Int /\ d % Cycle \in 0 .. Cycle - 1
        /\ d = Cycle * (d \div Cycle) + (d % Cycle)
    BY <2>1, <1>3, DivMod
  <2>3. d % Cycle \in Nat
    BY <2>2, <1>3
  <2> QED BY <2>2, <2>3 DEF d
<1>5. PICK k \in Int : CurrentEaw(n) * E + IntoEaw(n) = Position(n) + Cycle * k
  BY <1>1, Windows
<1>6. PICK j \in Int : CurrentEaw(0) * E + IntoEaw(0) = Position(0) + Cycle * j
  BY <1>1, Windows
<1>7. /\ CurrentEaw(n) \in Int /\ IntoEaw(n) \in 0 .. E - 1
      /\ CurrentEaw(0) \in Int /\ IntoEaw(0) \in 0 .. E - 1
  BY <1>1, Windows
<1>8. PICK m \in Nat \ {0} : Cycle = E * (SeqLength * m)
  BY Sequences
<1> HIDE DEF E, lag, z
<1>9. IntoEaw(0) >= lag
  <2>1. SeqLength * m * j \in Int /\ Cycle * j = E * (SeqLength * m * j)
    BY <1>3, <1>8
  <2> DEFINE w == SeqLength * m * j
             c == Position(0) + E * w
  <2>2. w \in Int /\ c \in Int /\ CurrentEaw(0) * E + IntoEaw(0) = c
    BY <1>2, <1>3, <1>6, <2>1
  <2>3. Splits(c, E, CurrentEaw(0), IntoEaw(0))
    <3> HIDE DEF c
    <3> QED BY <1>3, <1>7, <2>2 DEF Splits
  <2>4. c % E = Position(0) % E
    <3>1. Shifted(c, Position(0), E)
      <4> HIDE DEF w
      <4> QED BY <2>2 DEF Shifted
    <3> HIDE DEF c
    <3> QED BY <1>2, <1>3, <2>2, <3>1, SameRemainder
  <2>5. IntoEaw(0) = Position(0) % E
    <3> HIDE DEF c
    <3> QED BY <1>3, <2>2, <2>3, <2>4, DivModUnique
  <2>6. Position(0) % E >= MaxLag(n)
    BY DEF E
  <2> QED BY <1>1, <1>2, <1>4, <1>7, <2>5, <2>6 DEF lag
<1>10. CurrentEaw(0) = CurrentEaw(n) + SeqLength * (m * (z + j - k))
  <2> DEFINE K == z + j - k
             q == CurrentEaw(n) + SeqLength * (m * K)
             c == CurrentEaw(0) * E + IntoEaw(0) - lag
  <2>1. K \in Int /\ q \in Int /\ Cycle * K = E * (SeqLength * (m * K))
    BY <1>3, <1>4, <1>7, <1>8
  <2>2. Cycle * K = Cycle * z + Cycle * j - Cycle * k /\ Cycle * z \in Int /\ Cycle * j \in Int
        /\ Cycle * k \in Int
    BY <1>3, <1>4
  <2>3. CurrentEaw(n) * E \in Int /\ CurrentEaw(0) * E \in Int
    BY <1>3, <1>7
  <2>4. c = CurrentEaw(n) * E + Cycle * K + IntoEaw(n)
    <3> DEFINE an == CurrentEaw(n) * E
               a0 == CurrentEaw(0) * E
               cz == Cycle * z
               cj == Cycle * j
               ck == Cycle * k
               cK == Cycle * K
    <3>1. /\ an \in Int /\ a0 \in Int /\ cz \in Int /\ cj \in Int /\ ck \in Int
          /\ cK = cz + cj - ck /\ an + IntoEaw(n) = Position(n) + ck
          /\ a0 + IntoEaw(0) = Position(0) + cj /\ Position(0) - Position(n) = cz + lag
      BY <1>4, <1>5, <1>6, <2>2, <2>3
    <3> HIDE DEF an, a0, cz, cj, ck, cK
    <3>2. IntoEaw(n) \in Int /\ IntoEaw(0) \in Int
      BY <1>7
    <3>3. a0 + IntoEaw(0) - lag = an + cK + IntoEaw(n)
      BY <3>1, <3>2, <1>2, <1>4
    <3> QED BY <3>3 DEF a0, an, cK
  <2>5. E * q = CurrentEaw(n) * E + Cycle * K
    <3>1. SeqLength * (m * K) \in Int
      BY <1>3, <2>1
    <3> DEFINE y == SeqLength * (m * K)
    <3>2. y \in Int /\ Cycle * K = E * y
      BY <2>1, <3>1
    <3> HIDE DEF y, K
    <3>3. E * (CurrentEaw(n) + y) = CurrentEaw(n) * E + E * y
      BY <1>3, <1>7, <3>2
    <3> QED BY <3>2, <3>3 DEF y
  <2>6. Splits(c, E, q, IntoEaw(n))
    <3>1. c = E * q + IntoEaw(n)
      BY <2>4, <2>5
    <3> HIDE DEF c, q
    <3> QED BY <1>7, <2>1, <3>1 DEF Splits
  <2>7. Splits(c, E, CurrentEaw(0), IntoEaw(0) - lag)
    <3>1. IntoEaw(0) - lag \in 0 .. E - 1
      BY <1>3, <1>4, <1>7, <1>9
    <3>2. c = E * CurrentEaw(0) + (IntoEaw(0) - lag)
      BY <1>3, <1>4, <1>7, <2>3
    <3> HIDE DEF c
    <3> QED BY <1>7, <3>1, <3>2 DEF Splits
  <2>8. c \in Int
    BY <1>4, <1>7, <2>3
  <2> HIDE DEF c, q
  <2>9. q = CurrentEaw(0)
    BY <1>3, <2>6, <2>7, <2>8, DivModUnique
  <2> QED BY <2>9 DEF q
<1>11. m * (z + j - k) \in Int
  BY <1>4
<1> DEFINE y == m * (z + j - k)
<1>12. CurrentEaw(0) = CurrentEaw(n) + SeqLength * y /\ y \in Int
  BY <1>10, <1>11
<1> HIDE DEF y
<1>13. CurrentEaw(0) % SeqLength = CurrentEaw(n) % SeqLength
  <2>1. Shifted(CurrentEaw(0), CurrentEaw(n), SeqLength)
    BY <1>12 DEF Shifted
  <2> QED BY <1>3, <1>7, <2>1, SameRemainder
<1> QED BY <1>13 DEF Slot

\* Nodes that derive their schedules from the master's are on its channel
\* except while the EAW changes: awdl_sync_current_eaw selects the same slot.
THEOREM SlotsMeet == Spec => []SlotsAgree
<1>1. IInv => SlotsAgree
  BY SameSlot DEF SlotsAgree
<1> QED BY <1>1, Invariant, PTL

\* Two schedules less than the cycle apart that count the same EAWs from zero
\* are no further apart than the cycle says.
LEMMA NoWrap ==
  ASSUME NEW d \in Int, NEW rest \in Int, NEW k \in Int, NEW c \in Nat \ {0},
         d = rest + c * k, d - rest < c, rest - d < c
  PROVE  d = rest
<1>1. c * k < c /\ c * k > -c /\ c * k \in Int
  OBVIOUS
<1>2. k < 1 /\ k > -1
  BY <1>1
<1> QED BY <1>2

LEMMA SmallError ==
  ASSUME IInv, NEW n \in Node, Receive(n), InSync(n), SameSide(n),
         MaxLag(Depth) <= Threshold * Tu, 2 * Eaw * Tu + MaxLag(Depth) <= Cycle
  PROVE  ~ Counted(n, air[n])
<1> DEFINE f == air[n]
           F == RemoteEaw(f) * Eaw + (Eaw - f.tx_down)
           G == CurrentEaw(n) * Eaw + (Eaw - NextAwTu(n))
           r == since[n] % Tu
           late == (Position(0) - FrameAt(f)) % Cycle
           lag == (Position(0) - Position(n)) % Cycle
<1>1. TypeOK /\ f \in Frame /\ n \in Nat \ {0} /\ n - 1 \in Node /\ 0 \in Node
  <2>1. TypeOK /\ f \in Frame /\ n # 0
    BY DEF IInv, Receive, MasterDeaf, TypeOK
  <2> QED BY <2>1, Places, Lengths DEF Node
<1>2. f.next_aw_seq \in 0 .. CounterWord - 1 /\ f.tx_down \in 1 .. Eaw /\ f.age \in 0 .. MaxDelay
  BY <1>1 DEF Frame
<1>3. /\ Position(0) \in Int /\ Position(n) \in Int /\ FrameAt(f) \in Int
      /\ MaxLag(n) \in Nat /\ MaxLag(n - 1) \in Nat
  BY <1>1, Places, FrameAtType
<1> HIDE DEF f
<1>4. /\ RemoteEaw(f) \in Int /\ Mask(f.next_aw_seq) = Presence * RemoteEaw(f)
  <2> DEFINE s == f.next_aw_seq
  <2>1. s \in Int /\ Presence \in Nat \ {0}
    BY <1>2, Lengths
  <2> HIDE DEF s
  <2>2. /\ s \div Presence \in Int /\ s % Presence \in 0 .. Presence - 1
        /\ s = Presence * (s \div Presence) + (s % Presence)
    BY <2>1, DivMod
  <2>3. Presence * (s \div Presence) \in Int
    BY <2>1, <2>2
  <2>4. Mask(s) = Presence * (s \div Presence)
    BY <2>1, <2>2, <2>3 DEF Mask
  <2> QED BY <2>2, <2>4 DEF s, RemoteEaw
<1>5. /\ CurrentEaw(n) \in Int /\ NextAwTu(n) \in 1 .. Eaw /\ r \in 0 .. Tu - 1
      /\ \E k \in Int : CurrentEaw(n) * (Eaw * Tu) + IntoEaw(n) = Position(n) + Cycle * k
  BY <1>1, Windows
<1> HIDE DEF r
<1>6. F \in Int /\ G \in Int /\ ErrorTu(n, f) = F - G
  BY <1>2, <1>4, <1>5, Lengths DEF ErrorTu
<1>7. FrameAt(f) = F * Tu
  <2>1. (Presence * RemoteEaw(f)) * AwPeriod * Tu = (RemoteEaw(f) * Eaw) * Tu
    BY <1>4, Lengths
  <2>2. (RemoteEaw(f) * Eaw) * Tu + (Eaw - f.tx_down) * Tu = F * Tu
    BY <1>2, <1>4, Lengths
  <2> QED BY <1>4, <2>1, <2>2 DEF FrameAt
<1>8. \E k \in Int : G * Tu + r = Position(n) + Cycle * k
  <2>1. CurrentEaw(n) * (Eaw * Tu) + (Eaw - NextAwTu(n)) * Tu = G * Tu
    BY <1>5, Lengths
  <2>2. CurrentEaw(n) * (Eaw * Tu) + IntoEaw(n) = G * Tu + r
    <3>1. CurrentEaw(n) * (Eaw * Tu) \in Int /\ (Eaw - NextAwTu(n)) * Tu \in Int
      BY <1>5, Lengths
    <3>2. r \in Int
      BY <1>5, Lengths
    <3> HIDE DEF G
    <3> QED BY <2>1, <3>1, <3>2 DEF IntoEaw, r
  <2> QED BY <1>5, <2>2
<1>9. /\ late \in Nat /\ late <= MaxLag(n)
      /\ \E k \in Int : Position(0) - FrameAt(f) = late + Cycle * k
  <2> DEFINE d == Position(0) - FrameAt(f)
  <2>1. d \in Int /\ Cycle \in Nat \ {0}
    BY <1>3, Lengths
  <2> HIDE DEF d
  <2>2. /\ d \div Cycle \in Int /\ d % Cycle \in 0 .. Cycle - 1
        /\ d = Cycle * (d \div Cycle) + (d % Cycle)
    BY <2>1, DivMod
  <2>3. d % Cycle <= MaxLag(n - 1) + (Tu - 1) + f.age
    BY DEF IInv, FramesBounded, InSync, d, f
  <2>4. MaxLag(n - 1) + (Tu - 1) + MaxDelay = MaxLag(n)
    BY <1>1, Lengths DEF MaxLag
  <2>5. d % Cycle \in Nat /\ d = (d % Cycle) + Cycle * (d \div Cycle)
    BY <2>1, <2>2
  <2>6. d % Cycle <= MaxLag(n)
    BY <1>2, <1>3, <2>3, <2>4, <2>5, Lengths
  <2> QED BY <2>2, <2>5, <2>6 DEF d
<1>10. lag \in Nat /\ lag <= MaxLag(n) /\ \E k \in Int : Position(0) - Position(n) = lag + Cycle * k
  <2> DEFINE d == Position(0) - Position(n)
  <2>1. d \in Int /\ Cycle \in Nat \ {0}
    BY <1>3, Lengths
  <2> HIDE DEF d
  <2>2. /\ d \div Cycle \in Int /\ d % Cycle \in 0 .. Cycle - 1
        /\ d = Cycle * (d \div Cycle) + (d % Cycle)
    BY <2>1, DivMod
  <2>3. d % Cycle <= MaxLag(n)
    BY DEF IInv, LagBounded, Lag, InSync, d
  <2>4. d % Cycle \in Nat /\ d = (d % Cycle) + Cycle * (d \div Cycle)
    BY <2>1, <2>2
  <2> QED BY <2>2, <2>3, <2>4 DEF d
<1>11. MaxLag(n) <= Threshold * Tu /\ 2 * Eaw * Tu + MaxLag(n) <= Cycle
  <2>1. n <= Depth
    BY DEF Node
  <2>2. n * (Tu - 1 + MaxDelay) <= Depth * (Tu - 1 + MaxDelay)
    BY <1>1, <2>1, Lengths
  <2>3. MaxLag(n) <= MaxLag(Depth) /\ MaxLag(Depth) \in Int
    BY <2>2, Lengths DEF MaxLag
  <2> QED BY <1>3, <2>3, Lengths
<1> HIDE DEF F, G, late, lag
<1>12. (F - G) * Tu = r + lag - late
  <2>1. PICK a \in Int, b \in Int, c \in Int :
          /\ Position(0) - FrameAt(f) = late + Cycle * a
          /\ Position(0) - Position(n) = lag + Cycle * b
          /\ G * Tu + r = Position(n) + Cycle * c
    BY <1>8, <1>9, <1>10
  <2> DEFINE k == b - a - c
  <2>2. k \in Int /\ Cycle * k = Cycle * b - Cycle * a - Cycle * c
        /\ Cycle * a \in Int /\ Cycle * b \in Int /\ Cycle * c \in Int
    BY Lengths
  <2>3. F * Tu \in Int /\ G * Tu \in Int /\ (F - G) * Tu = F * Tu - G * Tu /\ r \in Int
    BY <1>5, <1>6, Lengths
  <2> HIDE DEF k
  <2>4. (F - G) * Tu = (r + lag - late) + Cycle * k
    <3> DEFINE fa == F * Tu
               ga == G * Tu
               pa == Cycle * a
               pb == Cycle * b
               pc == Cycle * c
               pk == Cycle * k
    <3>1. /\ fa \in Int /\ ga \in Int /\ pa \in Int /\ pb \in Int /\ pc \in Int /\ r \in Int
          /\ Position(0) - fa = late + pa /\ Position(0) - Position(n) = lag + pb
          /\ ga + r = Position(n) + pc /\ pk = pb - pa - pc
      BY <1>7, <2>1, <2>2, <2>3
    <3> HIDE DEF fa, ga, pa, pb, pc, pk
    <3>2. fa - ga = (r + lag - late) + pk
      BY <1>3, <1>9, <1>10, <3>1
    <3> QED BY <2>3, <3>2 DEF fa, ga, pk
  <2>5. F - G <= 2 * Eaw - 1 /\ G - F <= 2 * Eaw - 1
    <3> DEFINE e == RemoteEaw(f) - CurrentEaw(n)
    <3>1. e \in {-1, 0, 1}
      BY DEF SameSide, f
    <3>2. F - G = e * Eaw + NextAwTu(n) - f.tx_down
      BY <1>2, <1>4, <1>5, Lengths DEF F, G
    <3> HIDE DEF e
    <3> QED BY <1>2, <1>5, <1>6, <3>1, <3>2, Lengths
  <2>6. (F - G) * Tu <= 2 * Eaw * Tu - Tu /\ (G - F) * Tu <= 2 * Eaw * Tu - Tu
    <3>1. (F - G) * Tu <= (2 * Eaw - 1) * Tu /\ (G - F) * Tu <= (2 * Eaw - 1) * Tu
      BY <1>6, <2>5, Lengths
    <3> QED BY <3>1, Lengths
  <2>7. 2 * Eaw * Tu \in Int /\ (G - F) * Tu = -((F - G) * Tu) /\ (F - G) * Tu \in Int
    BY <1>6, Lengths
  <2> DEFINE d == (F - G) * Tu
             rest == r + lag - late
  <2>8. d \in Int /\ rest \in Int
    BY <1>9, <1>10, <2>3, <2>7
  <2>9. d - rest < Cycle /\ rest - d < Cycle
    <3> DEFINE ee == 2 * Eaw * Tu
    <3>1. /\ d <= ee - Tu /\ -d <= ee - Tu /\ ee \in Int /\ ee + MaxLag(n) <= Cycle
      BY <1>11, <2>6, <2>7
    <3> HIDE DEF d, ee
    <3> QED BY <1>3, <1>5, <1>9, <1>10, <2>8, <3>1, Lengths
  <2> HIDE DEF d, rest
  <2>10. d = rest
    BY <2>2, <2>4, <2>8, <2>9, NoWrap, Lengths DEF d, rest
  <2> QED BY <2>10 DEF d, rest
<1>13. F - G <= Threshold
  <2> SUFFICES ASSUME F - G >= Threshold + 1 PROVE FALSE
    BY <1>6, Lengths
  <2>1. (F - G) * Tu >= (Threshold + 1) * Tu
    BY <1>6, Lengths
  <2>2. (Threshold + 1) * Tu = Threshold * Tu + Tu /\ Threshold * Tu \in Int /\ (F - G) * Tu \in Int
    BY <1>6, Lengths
  <2> QED BY <1>3, <1>5, <1>9, <1>10, <1>11, <1>12, <2>1, <2>2, Lengths
<1>14. F - G >= -Threshold
  <2> SUFFICES ASSUME G - F >= Threshold + 1 PROVE FALSE
    BY <1>6, Lengths
  <2>1. (G - F) * Tu >= (Threshold + 1) * Tu
    BY <1>6, Lengths
  <2>2. /\ (Threshold + 1) * Tu = Threshold * Tu + Tu /\ Threshold * Tu \in Int
        /\ (G - F) * Tu = -((F - G) * Tu) /\ (F - G) * Tu \in Int
    BY <1>6, Lengths
  <2> QED BY <1>3, <1>5, <1>9, <1>10, <1>11, <1>12, <2>1, <2>2, Lengths
<1> QED BY <1>6, <1>13, <1>14, Lengths DEF Counted, f

\* awdl_sync_error_tu between two nodes that derive their schedules from the
\* master's, on one side of the wrap-around, is not counted in meas_err: when
\* the lag of the deepest node is within the threshold, and two EAWs and that
\* lag within the cycle.
THEOREM ErrorIsSmall ==
  ASSUME MaxLag(Depth) <= Threshold * Tu, 2 * Eaw * Tu + MaxLag(Depth) <= Cycle
  PROVE  Spec => ErrorSmall
<1>1. IInv => \A n \in Node : Receive(n) /\ InSync(n) /\ SameSide(n) => ~ Counted(n, air[n])
  BY SmallError
<1> QED BY <1>1, Invariant, PTL DEF ErrorSmall

=============================================================================
