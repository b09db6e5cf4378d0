------------------------------- MODULE MC_Frames -------------------------------
(* Small instance of Frames: action frames and aggregates that stop at any byte, *)
(* and a whole action frame behind radiotap headers of any shape.                *)
EXTENDS Frames

Actions ==
  {[kind |-> "PSF", name |-> 0]}
  \cup [kind : {"MIF"}, name : {0, 5, NameMax, NameMax + 1}]
Payloads == [kind : {"data", "qos data", "other"}, llc : BOOLEAN]
\* Sizes too short to be converted, and one for each padding.
Aggregates ==
  [kind : {"aggregate"}, size : [1 .. 2 -> {7, 16, 17, 18, 19}], llc : [1 .. 2 -> BOOLEAN]]
  \cup [kind : {"aggregate"}, size : [1 .. 3 -> {7, 16, 17}], llc : {<<TRUE, TRUE, TRUE>>}]

Aggregate(size, llc) ==
  LET start[i \in 1 .. Len(size) + 1] ==
        IF i = 1 THEN 0
        ELSE start[i - 1] + 14 + size[i - 1] + Aligned([kind |-> "aggregate"], size[i - 1])
  IN [kind |-> "aggregate", size |-> size, llc |-> llc, start |-> start]

Payload(kind, llc) ==
  [kind |-> kind, size |-> <<17>>, llc |-> <<llc>>, start |-> <<0, 17>>]

MCBodies ==
  [b \in Actions \cup Payloads \cup Aggregates |->
     IF b \in Actions THEN ActionBody(b.kind, b.name)
     ELSE IF b \in Payloads THEN Payload(b.kind, b.llc)
     ELSE Aggregate(b.size, b.llc)]

\* A header of 8 bytes with a time, the flags, the rate and the signal.
OneWord ==
  [words |-> 1, present |-> {"tsft", "radio flags", "rate", "signal"}, length |-> 19,
   whole |-> TRUE]

\* Headers with or without each field, some of which declare less than their fields
\* take, or are refused.
AnyRadio ==
  [words : 1 .. 2, present : SUBSET RadioNames, length : {8, 9, 17, 40}, whole : BOOLEAN]

\* Every body stopped at every byte, from a peer that is near.
StoppedFrames ==
  UNION {[body : {b}, sent : 0 .. SizeOfFrame(MCBodies[b]), radio : {OneWord},
          fcs : {TRUE}, good : {TRUE}, own : {FALSE}, strong : {TRUE}, known : BOOLEAN] :
           b \in DOMAIN MCBodies}

\* A whole action frame behind every radiotap header.
RadioFrames ==
  LET psf == [kind |-> "PSF", name |-> 0]
  IN {f \in [body : {psf}, sent : {SizeOfFrame(MCBodies[psf])}, radio : AnyRadio,
             fcs : BOOLEAN, good : BOOLEAN, own : BOOLEAN, strong : BOOLEAN, known : {TRUE}] :
        (f.fcs \/ ~f.good) => "radio flags" \in f.radio.present}

MCFrames == StoppedFrames \cup RadioFrames

=============================================================================
