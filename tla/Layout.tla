--------------------------------- MODULE Layout ---------------------------------
(***************************************************************************)
(* The wire format, twice: the structs of src/src/awdl/frame.rs as          *)
(* src/src/awdl/tx.rs fills and sends them, and the offsets at which        *)
(* src/src/awdl/rx.rs reads them.  Nothing in the code ties the two         *)
(* together.  Of a byte only the field it belongs to matters here, and of a *)
(* value only what a reader compares.                                       *)
(***************************************************************************)
EXTENDS Naturals, Sequences

CONSTANTS
  ChanseqLength,  \* AWDL_CHANSEQ_LENGTH (16 in the code)
  PresenceMode,   \* state.sync.presence_mode (4 in the code)
  NameMax         \* HOST_NAME_LENGTH_MAX (64 in the code)

ASSUME LengthAssumption == ChanseqLength \in 1 .. 256 /\ PresenceMode \in 1 .. 255
ASSUME NameAssumption == NameMax \in 0 .. 255

(***************************************************************************)
(* Writing.  A layout is the sequence of its fields; fields that are alike  *)
(* are told apart by a number.                                              *)
(***************************************************************************)

Numbered(name, n, size) == [name |-> name, n |-> n, size |-> size]
Field(name, size) == Numbered(name, 0, size)

\* End(s)[i]: how many bytes the first i fields take.
End(s) ==
  LET end[i \in 0 .. Len(s)] == IF i = 0 THEN 0 ELSE end[i - 1] + s[i].size
  IN end
SizeOf(s) == End(s)[Len(s)]

\* awdl_init_chanseq, in the opclass encoding that AwdlChannelState::new sets.
Chanseq ==
  << Field("count", 1), Field("encoding", 1), Field("duplicate_count", 1),
     Field("step_count", 1), Field("fill_channel", 2) >>
  \o [i \in 1 .. ChanseqLength |-> Numbered("channel", i, 2)]

\* A TLV without its type and its length: what follows them, and the length
\* that the builder writes.
Declared(type, value, length) == [type |-> type, value |-> value, length |-> length]
Plain(type, value) == Declared(type, value, SizeOf(value))

SyncFields ==
  << Field("next_aw_channel", 1), Field("tx_down_counter", 2), Field("master_channel", 1),
     Field("guard_time", 1), Field("aw_period", 2), Field("af_period", 2), Field("flags", 2),
     Field("aw_ext_length", 2), Field("aw_com_length", 2), Field("remaining_aw_length", 2),
     Field("min_ext", 1), Field("max_ext_multicast", 1), Field("max_ext_unicast", 1),
     Field("max_ext_af", 1), Field("master_addr", 6), Field("presence_mode", 1),
     Field("reserved", 1), Field("next_aw_seq", 2), Field("ap_alignment", 2) >>

\* Two bytes and three bytes of padding.
SyncParamsTlv == Plain("sync", SyncFields \o Chanseq \o <<Field("padding", 2)>>)
ChanseqTlv == Plain("chanseq", Chanseq \o <<Field("padding", 3)>>)

ElectionTlv ==
  Plain("election",
        << Field("flags", 1), Field("id", 2), Field("distancetop", 1), Field("unknown", 1),
           Field("top_master_addr", 6), Field("top_master_metric", 4), Field("self_metric", 4),
           Field("pad", 2) >>)

ElectionV2Tlv ==
  Plain("election v2",
        << Field("master_addr", 6), Field("sync_addr", 6), Field("master_counter", 4),
           Field("distance_to_master", 4), Field("master_metric", 4), Field("self_metric", 4),
           Field("unknown", 4), Field("reserved", 4), Field("self_counter", 4) >>)

ServiceTlv == Plain("service", <<Field("unknown", 3), Field("sui", 2), Field("bitmask", 4)>>)

HtTlv ==
  Plain("ht", << Field("unknown", 2), Field("ht_capabilities", 2), Field("ampdu_params", 1),
                 Field("rx_mcs", 1), Field("unknown2", 2) >>)

DataPathTlv ==
  Plain("data path", << Field("flags", 2), Field("country_code", 3), Field("social_channels", 2),
                        Field("awdl_addr", 6), Field("ext_flags", 2) >>)

\* The name of the host, and two bytes for ".local" behind it.
ArpaTlv(name) ==
  Declared("arpa", << Field("flags", 1), Field("name_length", 1), Field("name", name),
                      Field("suffix", 2) >>, 2 + name + 2)

VersionTlv == Plain("version", <<Field("version", 1), Field("devclass", 1)>>)

\* awdl_init_full_action_frame, for a host whose name has that many bytes.
ActionTlvs(subtype, name) ==
  <<SyncParamsTlv, ElectionTlv, ChanseqTlv, ElectionV2Tlv, ServiceTlv>>
  \o (IF subtype = "MIF" THEN <<HtTlv, ArpaTlv(name)>> ELSE <<>>)
  \o <<DataPathTlv, VersionTlv>>

\* Where each TLV starts, and behind the last one the end.
Start(tlvs) ==
  LET start[i \in 1 .. Len(tlvs) + 1] ==
        IF i = 1 THEN 0 ELSE start[i - 1] + 3 + SizeOf(tlvs[i - 1].value)
  IN start

\* The flags 0x8f24 of the data path TLV.
PathFlags == {2, 5, 8, 9, 10, 11, 15}

\* What the builder writes where a reader compares.
Written(field) ==
  CASE field = "count" -> ChanseqLength - 1
    [] field = "duplicate_count" -> 0
    [] field = "step_count" -> 3
    [] field = "fill_channel" -> 65535
    [] field = "encoding" -> 3

(***************************************************************************)
(* Reading.  A read names the field it is meant for.                        *)
(***************************************************************************)

NumberedRead(name, n, off, size) == [name |-> name, n |-> n, off |-> off, size |-> size]
Read(name, off, size) == NumberedRead(name, 0, off, size)

\* The fields whose first bytes a read gets; none when it gets anything else.
Fields(s, off, size) ==
  {[name |-> s[i].name, n |-> s[i].n] :
     i \in {i \in 1 .. Len(s) : End(s)[i - 1] = off /\ size <= s[i].size}}

\* Erroneous: the word before the sequence number taken for it.
SyncReadsEarly == {Read("tx_down_counter", 1, 2), Read("next_aw_seq", 28, 2)}

SyncReads == {Read("tx_down_counter", 1, 2), Read("next_aw_seq", 29, 2)}

ChanseqReads ==
  { Read("count", 0, 1), Read("duplicate_count", 2, 1), Read("step_count", 3, 1),
    Read("fill_channel", 4, 2), Read("encoding", 1, 1) }
  \cup {NumberedRead("channel", i, 6 + (i - 1) * 2, 2) : i \in 1 .. ChanseqLength}

ElectionReads ==
  { Read("distancetop", 3, 1), Read("top_master_addr", 5, 6),
    Read("top_master_metric", 11, 4), Read("self_metric", 15, 4) }

ElectionV2Reads ==
  { Read("master_addr", 0, 6), Read("sync_addr", 6, 6), Read("master_counter", 12, 4),
    Read("distance_to_master", 16, 4), Read("master_metric", 20, 4),
    Read("self_metric", 24, 4), Read("self_counter", 36, 4) }

\* read_int_string: a length, and so many bytes, but no more than the longest
\* name.
ArpaReads(name) ==
  {Read("name_length", 1, 1), Read("name", 2, IF name <= NameMax THEN name ELSE NameMax)}

\* What the flags announce follows them in this order.
PathParts ==
  << [flag |-> 8, name |-> "country_code", size |-> 3],
     [flag |-> 9, name |-> "social_channels", size |-> 2],
     [flag |-> 0, name |-> "infra_bssid", size |-> 6],
     [flag |-> 0, name |-> "infra_channel", size |-> 2],
     [flag |-> 1, name |-> "infra_addr", size |-> 6],
     [flag |-> 2, name |-> "awdl_addr", size |-> 6] >>

DataPathReads ==
  LET announced == {i \in 1 .. Len(PathParts) : PathParts[i].flag \in PathFlags}
      taken == [i \in 1 .. Len(PathParts) |->
                  [size |-> IF i \in announced THEN PathParts[i].size ELSE 0]]
  IN {Read("flags", 0, 2)}
     \cup {Read(PathParts[i].name, 2 + End(taken)[i - 1], PathParts[i].size) : i \in announced}

VersionReads == {Read("version", 0, 1), Read("devclass", 1, 1)}

\* awdl_handle_tlv: the reads of each handler, none for the types it ignores.
Reads(type, name) ==
  CASE type = "sync" -> SyncReads
    [] type = "chanseq" -> ChanseqReads
    [] type = "election" -> ElectionReads
    [] type = "election v2" -> ElectionV2Reads
    [] type = "arpa" -> ArpaReads(name)
    [] type = "data path" -> DataPathReads
    [] type = "version" -> VersionReads
    [] OTHER -> {}

\* What the handler of a channel sequence asks of the values.
Accepted(field, value) ==
  CASE field = "count" -> value + 1 = ChanseqLength
    [] field = "duplicate_count" -> value = 0
    [] field = "step_count" -> value + 1 = PresenceMode
    [] field = "fill_channel" -> value = 65535
    [] field = "encoding" -> value \in {0, 1, 3}
    [] OTHER -> TRUE

=============================================================================
