---------------------------- MODULE WireRecords ----------------------------
(***************************************************************************)
(* What becomes of a line of the wire.  schema.py says what a line should  *)
(* be; deserialization.py makes a record of it; mapping.py and             *)
(* time/mapping.py make of the record an object with an identity and an    *)
(* instant; ObservationPipeline appends a bar to its sequence.  What a     *)
(* step cannot do it raises, and the line is quarantined.  Three scripts   *)
(* read the same file in ways of their own, and a fourth asks the terminal *)
(* for the same bars.                                                      *)
(*                                                                         *)
(* A value of the wire is its kind; what a record's numbers say is whether *)
(* they are sound; a broker is the calendar of its clock.                  *)
(***************************************************************************)
EXTENDS BrokerClock, SequencesExt

-----------------------------------------------------------------------------
(* schema.py: the kind of every field, by version and by type of record.   *)

SchemaV1 == [
  tick |-> [timestamp_ms |-> "epoch_ms", bid |-> "float", ask |-> "float",
            last |-> "nullable_float", volume |-> "float", source |-> "string"],
  bar |-> [timestamp |-> "iso_utc", open |-> "float", high |-> "float", low |-> "float",
           close |-> "float", tick_volume |-> "int", real_volume |-> "int",
           timeframe |-> "string", source |-> "string"],
  symbol |-> [broker_symbol |-> "string", description |-> "string", digits |-> "int",
              point |-> "float", tick_size |-> "float", tick_value |-> "float",
              contract_size |-> "float", source |-> "string"]]

SchemaV2 == [
  tick |-> [schema_version |-> "int", timestamp_server_ms |-> "epoch_ms", bid |-> "float",
            ask |-> "float", last |-> "nullable_float", volume |-> "float",
            volume_real |-> "float", flags |-> "int", seq |-> "int", source_feed |-> "string",
            platform |-> "string", broker_server |-> "string", broker_symbol |-> "string"],
  bar |-> [schema_version |-> "int", timestamp |-> "iso_server", open |-> "float",
           high |-> "float", low |-> "float", close |-> "float", tick_volume |-> "int",
           real_volume |-> "int", spread |-> "int", timeframe |-> "string", seq |-> "int",
           source_feed |-> "string", platform |-> "string", broker_server |-> "string",
           broker_symbol |-> "string"],
  symbol |-> [schema_version |-> "int", broker_symbol |-> "string", description |-> "string",
              digits |-> "int", point |-> "float", tick_size |-> "float",
              tick_value |-> "float", contract_size |-> "float", platform |-> "string",
              broker_server |-> "string"],
  source_capabilities |-> [schema_version |-> "int", platform |-> "string",
              broker_server |-> "string", broker_symbol |-> "string",
              real_volume_available |-> "bool", tick_level_available |-> "bool"]]

\* Strings are told apart where a reader does: with a Z, without, or no time at all.
Values == {"text", "utc", "server", "int", "float", "null", "bool"}

\* _check_value.
Allowed == [
  string |-> {"text", "utc", "server"}, int |-> {"int"}, epoch_ms |-> {"int"},
  float |-> {"int", "float"}, nullable_float |-> {"int", "float", "null"},
  bool |-> {"bool"}, iso_utc |-> {"utc"}, iso_server |-> {"server"}]

\* A line's JSON object: its type, the number its schema_version says (1 if it says none),
\* and the kinds of its other values.
VersionSaid(dict) == IF "schema_version" \in DOMAIN dict.fields THEN dict.says ELSE 1

\* spec_for: every version that is not 2 is taken for 1.
SpecFor(type, version) ==
  LET schema == IF version = 2 THEN SchemaV2 ELSE SchemaV1
  IN IF type \in DOMAIN schema THEN {schema[type]} ELSE {}

\* validate_wire_dict finds no problem.
Conforms(dict) ==
  \E spec \in SpecFor(dict.type, VersionSaid(dict)) :
    /\ DOMAIN dict.fields = DOMAIN spec
    /\ \A name \in DOMAIN spec : dict.fields[name] \in Allowed[spec[name]]

\* sample_wire_dict.
Sample(type, version) ==
  LET spec == IF version = 2 THEN SchemaV2[type] ELSE SchemaV1[type]
      Placeholder == [string |-> "text", int |-> "int", epoch_ms |-> "int", float |-> "float",
                      nullable_float |-> "null", bool |-> "bool", iso_utc |-> "utc",
                      iso_server |-> "server"]
  IN [type |-> type, says |-> version, fields |-> [name \in DOMAIN spec |-> Placeholder[spec[name]]]]

-----------------------------------------------------------------------------
(* deserialization.py.                                                     *)

RequiredV1 == [
  tick |-> {"timestamp_ms", "bid", "ask", "last", "volume", "source"},
  bar |-> {"timestamp", "open", "high", "low", "close", "tick_volume", "real_volume",
           "timeframe", "source"},
  symbol |-> {"broker_symbol", "description", "digits", "point", "tick_size", "tick_value",
              "contract_size", "source"}]

RequiredV2 == [
  tick |-> {"timestamp_server_ms", "bid", "ask", "last", "volume", "volume_real", "flags",
            "seq", "source_feed", "platform", "broker_server", "broker_symbol"},
  bar |-> {"timestamp", "open", "high", "low", "close", "tick_volume", "real_volume", "spread",
           "timeframe", "seq", "source_feed", "platform", "broker_server", "broker_symbol"},
  symbol |-> {"broker_symbol", "description", "digits", "point", "tick_size", "tick_value",
              "contract_size", "platform", "broker_server"},
  source_capabilities |-> {"platform", "broker_server", "broker_symbol",
                           "real_volume_available", "tick_level_available"}]

\* Which the reader of a version takes for the time of a bar.
ReadsAsTime == <<{"utc"}, {"server"}>>

\* dict_to_record does not raise.
Deserializes(dict) ==
  LET version == VersionSaid(dict)
      required == IF version = 2 THEN RequiredV2 ELSE RequiredV1
  IN /\ version \in {1, 2}
     /\ dict.type \in DOMAIN required
     /\ required[dict.type] \subseteq DOMAIN dict.fields
     /\ dict.type = "bar" => dict.fields["timestamp"] \in ReadsAsTime[version]

-----------------------------------------------------------------------------
(* mapping.py and time/mapping.py.  A record is [type, version, at, ...]:  *)
(* at is its time, UTC in version 1 and the broker's in version 2; named,  *)
(* whether its identity can be told; frame, its timeframe; sound, whether  *)
(* its numbers are those of a bar, a tick or a symbol.                     *)

Raised == [object |-> "raised"]
Unresolved == [object |-> "unresolved"]
Frames == {"M1", "M5"}

\* resolve_instrument_id: no broker travels in version 1.
InstrumentOf(record) == IF record.version = 1 THEN "UNKNOWN_BROKER_SERVER" ELSE record.server

Domain(record, utc, status) ==
  IF ~record.sound \/ (record.type = "bar" /\ record.frame \notin Frames) THEN Raised
  ELSE [object |-> record.type, instrument |-> InstrumentOf(record), frame |-> record.frame,
        utc |-> utc, quality |-> IF record.type = "bar" /\ status # "VALID" THEN "SUSPECT" ELSE "VALID"]

\* record_to_domain: the broker's time of version 2 is not its to read.
RecordToDomain(record) ==
  IF ~record.named \/ record.type = "source_capabilities" THEN Raised
  ELSE IF record.version = 2 /\ record.type \in {"bar", "tick"} THEN Unresolved
  ELSE Domain(record, record.at, "VALID")

\* A mutant: a server nobody has measured is taken for one that never saves daylight.
ResolveUnmeasured(record, profiles) ==
  LET direct == RecordToDomain(record)
      time == Resolve(RightProfile(IF record.server \in profiles THEN record.server ELSE "NONE"), record.at)
  IN IF direct # Unresolved THEN direct ELSE Domain(record, time.utc, time.status)

\* resolve_record, with the brokers that have a profile.
ResolveRecord(record, profiles) ==
  LET direct == RecordToDomain(record)
      time == Resolve(RightProfile(record.server), record.at)
  IN IF direct # Unresolved THEN direct
     ELSE IF record.server \notin profiles THEN Raised
     ELSE Domain(record, time.utc, time.status)

-----------------------------------------------------------------------------
(* ObservationPipeline.                                                    *)

\* BarSequence._validate_next.
Follows(bar, bars) ==
  bars # <<>> => /\ bar.instrument = Last(bars).instrument /\ bar.frame = Last(bars).frame
                 /\ bar.utc > Last(bars).utc

Empty == [bars |-> <<>>, tick |-> None, symbol |-> None, quarantined |-> 0]

\* ingest: whatever cannot be resolved or appended is quarantined.
Ingested(pipeline, record, profiles) ==
  LET made == ResolveRecord(record, profiles)
      Appends == made.object = "bar" /\ Follows(made, pipeline.bars)
  IN IF record.type = "source_capabilities" THEN pipeline
     ELSE IF made.object = "symbol" THEN [pipeline EXCEPT !.symbol = made]
     ELSE IF made.object = "tick" THEN [pipeline EXCEPT !.tick = made]
     ELSE IF Appends THEN [pipeline EXCEPT !.bars = Append(@, made)]
     ELSE [pipeline EXCEPT !.quarantined = @ + 1]

\* A line is a record, or None where poll has quarantined it.
RecordsOf(lines) == SelectSeq(lines, LAMBDA line : line # None)

Live(lines, profiles) ==
  FoldLeft(LAMBDA p, record : Ingested(p, record, profiles), Empty, RecordsOf(lines))

-----------------------------------------------------------------------------
(* The scripts.  Each makes a bar of every record of version 2, M1 whatever *)
(* the line says; what it cannot make ends the script.                     *)

BarsOf(lines) ==
  SelectSeq(RecordsOf(lines), LAMBDA record : record.version = 2 /\ record.type = "bar")

\* list.sort by seq keeps the order of the file where two are equal.
SortedBySeq(records) ==
  LET Before(i, j) == \/ records[i].seq < records[j].seq
                      \/ (records[i].seq = records[j].seq /\ i < j)
      order == SortSeq([i \in DOMAIN records |-> i], Before)
  IN [k \in DOMAIN records |-> records[order[k]]]

AsM1(record, server) ==
  LET time == Resolve(RightProfile(server), record.at)
  IN IF ~record.sound \/ ~record.named THEN Raised
     ELSE [object |-> "bar", instrument |-> record.server, frame |-> "M1", utc |-> time.utc,
           quality |-> "VALID"]

AppendIfLater(bars, bar) == IF Follows(bar, bars) THEN Append(bars, bar) ELSE bars

\* publish_regime.py: an only profile serves for every server, and a bar that is not later
\* than the last is skipped.
Published(lines, profiles) ==
  LET records == SortedBySeq(BarsOf(lines))
      ServerOf(record) == IF record.server \in profiles THEN {record.server}
                          ELSE IF Cardinality(profiles) = 1 THEN profiles ELSE {}
      Make(record) == IF ServerOf(record) = {} THEN Raised
                      ELSE AsM1(record, CHOOSE s \in ServerOf(record) : TRUE)
  IN IF \E i \in DOMAIN records : Make(records[i]) = Raised THEN Raised
     ELSE [object |-> "bars",
           bars |-> FoldLeft(LAMBDA bars, record : AppendIfLater(bars, Make(record)), <<>>, records)]

\* generate_swing_reference.py: every line is a record, of the timeframe it knows to be
\* wrong, and later than the one before, or there is no reference.
Referenced(lines, server) ==
  LET records == SortedBySeq(BarsOf(lines))
      bars == [i \in DOMAIN records |-> AsM1(records[i], server)]
  IN IF \/ \E i \in DOMAIN lines : lines[i] = None
        \/ \E i \in DOMAIN bars : bars[i] = Raised \/ records[i].frame # "PERIOD_CURRENT"
        \/ \E i \in DOMAIN bars \ {1} : ~Follows(bars[i], <<bars[i - 1]>>)
     THEN Raised ELSE [object |-> "bars", bars |-> bars]

\* calibrate_cerr.py: the terminal's own bars, through build_bar_sequence.
Calibrated(rates, server) ==
  LET bars == [i \in DOMAIN rates |-> AsM1(rates[i], server)]
  IN IF \E i \in DOMAIN bars : bars[i] = Raised THEN Raised
     ELSE [object |-> "bars", bars |-> FoldLeft(AppendIfLater, <<>>, bars)]

\* diagnose_quarantine.py: what it counts of a file.
Diagnosed(lines, profiles) ==
  [seen |-> Len(lines), unparsed |-> Len(lines) - Len(RecordsOf(lines)),
   bars |-> Len(Live(lines, profiles).bars), quarantined |-> Live(lines, profiles).quarantined]

=============================================================================
