--------------------------------- MODULE Frames ---------------------------------
(***************************************************************************)
(* One received frame on its way through src/src/awdl/rx.rs, byte offset by *)
(* byte offset: the radiotap header, the check sequence, the 802.11 header, *)
(* and the walk over the TLVs of an action frame or over the sub-frames of  *)
(* an aggregate.  A frame may stop at any byte.  What the TLVs do to the    *)
(* peers is the matter of module AwdlRx; here it matters that what is read  *)
(* is what was written.                                                     *)
(***************************************************************************)
EXTENDS Layout, Integers

CONSTANTS
  Bodies,  \* Bodies[b]: what a frame b carries
  Frames   \* the frames on the air, as a driver delivers them

\* awdl_init_full_action_frame: a body has units, which are TLVs or sub-frames,
\* with the offset at which each starts (and at which the last one ends) and the
\* size it declares.
ActionBody(subtype, name) ==
  LET tlvs == ActionTlvs(subtype, name)
  IN [kind |-> subtype, name |-> name, tlvs |-> tlvs,
      size |-> [i \in 1 .. Len(tlvs) |-> tlvs[i].length], start |-> Start(tlvs)]

IsAction(body) == body.kind \in {"MIF", "PSF"}

\* Between a declared size and the unit stand the type and the length of a TLV,
\* or the two addresses and the length of a sub-frame.
Overhead(body) == IF IsAction(body) THEN 3 ELSE IF body.kind = "aggregate" THEN 14 ELSE 0

\* Sub-frames are sent at multiples of four.
Aligned(body, n) == IF body.kind = "aggregate" THEN (4 - ((14 + n) % 4)) % 4 ELSE 0

\* The 802.11 header, and the header of an action frame or the QoS control.
Headers(body) == 24 + IF IsAction(body) THEN 16 ELSE IF body.kind \in {"data", "other"} THEN 0 ELSE 2

----------------------------------------------------------------------------
(* The radiotap header: where the driver puts a field, and where it is read. *)

\* The fields that may come up to the signal, each at a multiple of its alignment.
RadioParts ==
  << [name |-> "tsft", size |-> 8, align |-> 8], [name |-> "radio flags", size |-> 1, align |-> 1],
     [name |-> "rate", size |-> 1, align |-> 1], [name |-> "channel", size |-> 4, align |-> 2],
     [name |-> "fhss", size |-> 2, align |-> 1], [name |-> "signal", size |-> 1, align |-> 1] >>

Present(radio) ==
  LET In(part) == part.name \in radio.present IN SelectSeq(RadioParts, In)

RadioNames == {RadioParts[i].name : i \in 1 .. Len(RadioParts)}

\* Where each of the fields ends.
RadioEnd(radio) ==
  LET parts == Present(radio)
      end[i \in 0 .. Len(parts)] ==
        IF i = 0 THEN 4 + 4 * radio.words
        ELSE ((end[i - 1] + parts[i].align - 1) \div parts[i].align) * parts[i].align
             + parts[i].size
  IN end

Part(radio, name) ==
  CHOOSE i \in 1 .. Len(Present(radio)) : Present(radio)[i].name = name

\* radiotap_parse: one present word, and nothing between rate and signal.
AsRead(radio) == [radio EXCEPT !.words = 1, !.present = @ \ {"channel", "fhss"}]
ReadAt(radio, name) == RadioEnd(AsRead(radio))[Part(AsRead(radio), name)]

\* A field that would end behind the declared length of the header is not read.
Found(radio, name) == name \in radio.present /\ ReadAt(radio, name) <= radio.length

\* The field is read where the driver wrote it.
ReadRight(radio, name) ==
  name \in radio.present =>
    Found(radio, name) /\ RadioEnd(radio)[Part(radio, name)] = ReadAt(radio, name)

\* The layout that the comment at rx.rs:81 takes for the only one.
Standard(radio) ==
  /\ radio.whole /\ radio.words = 1 /\ {"channel", "fhss"} \cap radio.present = {}
  /\ \A name \in radio.present : Found(radio, name)

----------------------------------------------------------------------------

SizeOfFrame(body) == Headers(body) + body.start[Len(body.size) + 1]

(***************************************************************************)
(* A frame: its body, how many bytes of the 802.11 frame its sender sent,   *)
(* radio, the radiotap header with the number of its present words, the     *)
(* fields in it, the length it declares (8 at least, behind which the frame *)
(* starts), and whether it is of version 0 and arrived with that length;    *)
(* whether a check sequence follows and whether it was good;                *)
(* whether the frame is of this node, whether its signal is strong, and     *)
(* whether its sender is a known peer.  A frame that stops early comes with *)
(* flags that are read right.                                               *)
(***************************************************************************)
ASSUME FramesAssumption ==
  \A f \in Frames :
    /\ f.body \in DOMAIN Bodies
    /\ f.sent \in 0 .. SizeOfFrame(Bodies[f.body])
    /\ ReadRight(f.radio, "radio flags") \/ f.sent = SizeOfFrame(Bodies[f.body])
    /\ (f.fcs \/ ~f.good) => "radio flags" \in f.radio.present
    /\ f.radio \in [words : Nat \ {0}, present : SUBSET RadioNames,
                    length : Nat, whole : BOOLEAN]
    /\ f.good \in BOOLEAN

\* The sender puts each unit where the one before it ends.
ASSUME BodiesAssumption ==
  \A b \in DOMAIN Bodies :
    /\ Bodies[b].size \in Seq(Nat)
    /\ Bodies[b].start \in [1 .. Len(Bodies[b].size) + 1 -> Nat]
    /\ Bodies[b].kind \in {"MIF", "PSF", "data", "qos data", "aggregate", "other"}
    /\ Bodies[b].start[1] = 0
    /\ \A i \in 1 .. Len(Bodies[b].size) :
         Bodies[b].start[i + 1] =
           Bodies[b].start[i] + Overhead(Bodies[b]) + Bodies[b].size[i]
           + Aligned(Bodies[b], Bodies[b].size[i])

\* An action frame is one that this program builds, for a host of any name.
ASSUME ActionAssumption ==
  \A b \in DOMAIN Bodies :
    IsAction(Bodies[b]) =>
      /\ Bodies[b].name \in Nat
      /\ Bodies[b] = ActionBody(Bodies[b].kind, Bodies[b].name)

VARIABLES
  frame,    \* the frame that is handled
  pc,       \* the function that goes on
  flags,    \* the radiotap flags as read
  len,      \* how many bytes there are, and later how many behind the headers
  at,       \* the offset of the walk behind the headers
  walked,   \* the units that were handled: [at |-> offset, size |-> size]
  misread,  \* the fields for which something else was read
  kept,     \* the sub-frame whose Ethernet frame is returned, 0 for none
  verdict   \* RxResult, "none" before the end

body == Bodies[frame.body]

vars == <<frame, pc, flags, len, at, walked, misread, kept, verdict>>

Init ==
  /\ frame \in Frames
  /\ pc = "radiotap" /\ verdict = "none"
  /\ flags = {} /\ len = 0 /\ at = 0 /\ walked = <<>>
  /\ misread = {} /\ kept = 0

Ends(result) == pc' = "done" /\ verdict' = result

\* The flags, or whatever stands at their place.
FlagsRead ==
  IF ReadRight(frame.radio, "radio flags")
    THEN {(IF frame.fcs THEN {"fcs"} ELSE {}) \cup (IF frame.good THEN {} ELSE {"badfcs"})}
    ELSE IF Found(frame.radio, "radio flags") THEN SUBSET {"fcs", "badfcs"} ELSE {{}}

\* radiotap_parse, and the header is cut off.
RadiotapParse ==
  /\ pc = "radiotap"
  /\ \/ ~frame.radio.whole /\ Ends("UnexpectedFormat") /\ UNCHANGED <<flags, len, misread>>
     \/ /\ frame.radio.whole
        /\ pc' = "fcs" /\ verdict' = verdict
        /\ flags' \in FlagsRead
        /\ misread' = {name \in {"radio flags", "signal"} : ~ReadRight(frame.radio, name)}
        /\ len' = frame.sent + IF frame.fcs THEN 4 ELSE 0
  /\ UNCHANGED <<frame, at, walked, kept>>

CheckFcs ==
  /\ pc = "fcs"
  /\ \/ "badfcs" \in flags /\ Ends("IgnoreFailedCrc") /\ len' = len
     \/ /\ "badfcs" \notin flags
        /\ pc' = "header" /\ verdict' = verdict
        /\ len' = IF "fcs" \in flags /\ len >= 4 THEN len - 4 ELSE len
  /\ UNCHANGED <<frame, flags, at, walked, misread, kept>>

\* awdl_rx behind the check sequence, the header of an action frame and the QoS
\* control; from then on len counts the bytes behind them.
Header ==
  /\ pc = "header"
  /\ \/ len < 24 /\ Ends("UnexpectedFormat") /\ len' = len
     \/ len >= 24 /\ frame.own /\ Ends("IgnoreFromSelf") /\ len' = len
     \/ /\ len \in 24 .. Headers(body) - 1 /\ ~frame.own
        /\ Ends(IF IsAction(body) THEN "Ignore" ELSE "UnexpectedFormat")
        /\ len' = len
     \/ len >= 24 /\ ~frame.own /\ body.kind = "other" /\ Ends("UnexpectedType") /\ len' = len
     \/ /\ len >= Headers(body) /\ ~frame.own /\ body.kind # "other"
        /\ pc' = (IF IsAction(body) THEN "action" ELSE body.kind)
        /\ verdict' = verdict
        /\ len' = len - Headers(body)
  /\ UNCHANGED <<frame, flags, at, walked, misread, kept>>

\* The filter of awdl_rx_action.  A misread signal says anything, one that is not
\* read is 0 dBm.
RssiFilter ==
  /\ pc = "action"
  /\ \/ /\ frame.strong \/ "signal" \in misread \/ ~Found(frame.radio, "signal")
        /\ pc' = "tlvs" /\ verdict' = verdict
     \/ /\ ~frame.strong \/ "signal" \in misread
        /\ Found(frame.radio, "signal")
        /\ Ends("IgnoreRssi")
  /\ UNCHANGED <<frame, flags, len, at, walked, misread, kept>>

----------------------------------------------------------------------------
(* The walks.  Where no unit starts, a size is whatever the bytes there say. *)

OnUnit == \E i \in 1 .. Len(body.size) : body.start[i] = at
Unit == CHOOSE i \in 1 .. Len(body.size) : body.start[i] = at
SizesHere == IF OnUnit THEN {body.size[Unit]} ELSE 0 .. len

Handled(n) == walked' = Append(walked, [at |-> at, size |-> n])

\* What the handler of the TLV reads, and the fields it misses.
ReadsHere == Reads(body.tlvs[Unit].type, body.name)
MissedHere ==
  LET value == body.tlvs[Unit].value
      Misses(read) ==
        read.size > 0 /\ Fields(value, read.off, read.size) # {[name |-> read.name, n |-> read.n]}
  IN {read.name : read \in {read \in ReadsHere : Misses(read)}}

\* Every byte the handler reads is there, and it takes every value.
ParsesHere ==
  \A read \in ReadsHere :
    /\ read.off + read.size <= body.size[Unit]
    /\ Accepted(read.name, Written(read.name))

\* How awdl_handle_tlv may end: it reads nothing of the synchronisation parameters
\* of others than the master, nor of an election it knows a newer version of.
Parses(heeds) == IF OnUnit THEN {heeds => ParsesHere} ELSE BOOLEAN

\* The loop of awdl_rx_action over one TLV.
Tlv ==
  /\ pc = "tlvs"
  /\ \E n \in SizesHere, heeds \in BOOLEAN :
       /\ at + 3 + n <= len
       /\ Handled(n)
       /\ misread' = misread \cup (IF OnUnit /\ heeds THEN MissedHere ELSE {})
       /\ \/ /\ TRUE \in Parses(heeds)
             /\ at' = at + 3 + n
             /\ UNCHANGED <<pc, verdict>>
          \/ /\ FALSE \in Parses(heeds)
             /\ at' = at
             /\ Ends("UnexpectedFormat")
  /\ UNCHANGED <<frame, flags, len, kept>>

TlvsEnd ==
  /\ pc = "tlvs"
  /\ \/ at >= len /\ Ends("Ok")
     \/ /\ at < len
        /\ at + 3 > len \/ \E n \in SizesHere : at + 3 + n > len
        /\ Ends("UnexpectedFormat")
  /\ UNCHANGED <<frame, flags, len, at, walked, misread, kept>>

\* awdl_rx_data makes an Ethernet frame of what has an LLC header and the header
\* of AWDL data, from a known peer.
Converts(i, n) == frame.known /\ body.llc[i] /\ n >= 16

Data ==
  /\ pc \in {"data", "qos data"}
  /\ kept' = IF Converts(1, len) THEN 1 ELSE 0
  /\ Ends("Ok")
  /\ UNCHANGED <<frame, flags, len, at, walked, misread>>

\* Erroneous: the header of the sub-frame forgotten in the padding.
PaddingBare(n) == (4 - (n % 4)) % 4

Padding(n) == (4 - ((14 + n) % 4)) % 4

\* The loop of awdl_rx_data_amsdu over one sub-frame.
Subframe ==
  /\ pc = "aggregate"
  /\ \E n \in SizesHere :
       /\ at + 14 + n <= len
       /\ Handled(n)
       /\ kept' = IF OnUnit /\ Converts(Unit, n) THEN Unit ELSE kept
       /\ LET rest == len - (at + 14 + n)
          IN at' = at + 14 + n + IF Padding(n) <= rest THEN Padding(n) ELSE rest
  /\ UNCHANGED <<frame, pc, flags, len, misread, verdict>>

SubframesEnd ==
  /\ pc = "aggregate"
  /\ at + 14 > len \/ \E n \in SizesHere : at + 14 + n > len
  /\ Ends("Ok")
  /\ UNCHANGED <<frame, flags, len, at, walked, misread, kept>>

Next ==
  \/ RadiotapParse \/ CheckFcs \/ Header
  \/ RssiFilter \/ Tlv \/ TlvsEnd
  \/ Data \/ Subframe \/ SubframesEnd

Spec == Init /\ [][Next]_vars

----------------------------------------------------------------------------
(* Properties *)

TypeOK ==
  /\ frame \in Frames
  /\ pc \in {"radiotap", "fcs", "header", "action", "tlvs", "data", "qos data",
             "aggregate", "done"}
  /\ flags \subseteq {"fcs", "badfcs"}
  /\ len \in Nat /\ at \in Nat
  /\ walked \in Seq([at : Nat, size : Nat])
  /\ kept \in Nat

\* The structs of the builders and the offsets of the readers agree: no read
\* gets the bytes of another field, at any length of the name and wherever the
\* frame stops, and a whole action frame of another node is taken to its end.
\* Of the radiotap header this is only so when the driver writes one present word
\* and nothing between rate and signal.
ReadAsWritten ==
  Standard(frame.radio) =>
    /\ misread = {}
    /\ (/\ pc = "done" /\ IsAction(body) /\ frame.sent = SizeOfFrame(body)
        /\ frame.good /\ frame.strong /\ ~frame.own)
       => verdict = "Ok" /\ Len(walked) = Len(body.size)

\* The unit arrived with its last byte.
Arrived(i) ==
  Headers(body) + body.start[i] + Overhead(body) + body.size[i]
    <= frame.sent

\* The loops over TLVs and over sub-frames keep step with the sender: as long as
\* the flags are read right, they handle its units and nothing between them, in
\* its order, and skip none that arrived whole; when any of the sub-frames they
\* handled can be converted, the network gets one that can, and none otherwise.
\* Which one it gets is left open: the comment at rx.rs:671 says the first, and
\* Subframe keeps the last.
WalkedAsWritten ==
  "radio flags" \notin misread =>
    /\ \A i \in 1 .. Len(walked) :
         /\ i \in 1 .. Len(body.size)
         /\ walked[i] = [at |-> body.start[i], size |-> body.size[i]]
    /\ (verdict = "Ok" /\ body.kind \notin {"data", "qos data"}) =>
         \A i \in 1 .. Len(body.size) : Arrived(i) => i <= Len(walked)
    /\ body.kind = "aggregate" =>
         /\ kept \in 0 .. Len(walked)
         /\ kept # 0 => Converts(kept, walked[kept].size)
         /\ kept = 0 => \A i \in 1 .. Len(walked) : ~Converts(i, walked[i].size)

=============================================================================
