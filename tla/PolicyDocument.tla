---------------------------- MODULE PolicyDocument ----------------------------
(***************************************************************************)
(* The documents of temporal.c: presentation.conf in its three versions,   *)
(* read with migration and written.                                        *)
(*                                                                         *)
(* A document is a sequence of lines, a line what                          *)
(* infiltratr_config_parse_line makes of it.  A value is a word or, for a  *)
(* coordinate, a number spelled with a point; numbers count the steps of a *)
(* fine grid, on which every Fine-th point can be printed with six         *)
(* decimals.  The sign of a printed zero is left out.                      *)
(***************************************************************************)
EXTENDS Integers, SequencesExt

CONSTANTS
  Words, Spelling,           \* the words in documents; [Words -> Seq(Characters)]
  IdCapacity,                \* INFILTRATR_TEMPORAL_ID_CAPACITY
  ClockModes,                \* the identifiers of the compiled clock modes
  MaxLatitude, MaxLongitude, \* 90 and 180 degrees
  Fine

Characters == {"a", "-", "other"} \* lowercase or digit, hyphen, any other
Versions == {"1", "2", "3"}

ASSUME DocumentAssumption ==
  /\ Versions \cup ClockModes \cup {"gregorian", "number", "true", "false"} \subseteq Words
  /\ Spelling \in [Words -> Seq(Characters)]
  /\ IdCapacity \in Nat /\ Fine \in Nat \ {0}
  /\ {"standard", "standard-12", "standard-24", "decimal"} \subseteq ClockModes
  /\ MaxLatitude \in Nat /\ MaxLatitude % Fine = 0
  /\ MaxLongitude \in Nat /\ MaxLongitude % Fine = 0

Word(w) == [word |-> w, number |-> 0]
Number(n) == [word |-> "number", number |-> n]

\* A comment or an empty line is ignored; one that is too long, has no = or no
\* key is invalid.
Entry(key, value) == [status |-> "entry", key |-> key, value |-> value]
Ignored == [status |-> "ignored", key |-> "none", value |-> Word("number")]
Invalid == [status |-> "invalid", key |-> "none", value |-> Word("number")]

------------------------------------------------------------------------------
(* Values.                                                                   *)

\* infiltratr_temporal_id_valid
IdValid(w) ==
  LET id == Spelling[w]
  IN  /\ Len(id) \in 1..(IdCapacity - 1)
      /\ \A i \in DOMAIN id : id[i] \in {"a", "-"}
      /\ id[1] # "-" /\ id[Len(id)] # "-"

\* infiltratr_config_parse_bool
Bools == [w \in {"1", "true", "yes", "0", "false", "no"} |-> w \in {"1", "true", "yes"}]
BoolWord(b) == Word(IF b THEN "true" ELSE "false")

WithinRange(x, bound) == -bound <= x /\ x <= bound

\* infiltratr_clock_profile_from_id
Profiles == {"system", "conventional-12", "conventional-24", "decimal-10"}

Accepts(version, key, value) ==
  CASE key = "version" -> value.word = version
    [] key = "clock-profile" -> value.word \in Profiles
    [] key = "clock-mode" -> value.word \in ClockModes
    [] key \in {"calendar", "primary-calendar"} -> IdValid(value.word)
    [] key \in {"show-seconds", "location-configured"} -> value.word \in DOMAIN Bools
    [] key = "latitude" -> value.word = "number" /\ WithinRange(value.number, MaxLatitude)
    [] key = "longitude" -> value.word = "number" /\ WithinRange(value.number, MaxLongitude)

------------------------------------------------------------------------------
(* Policies.                                                                 *)

DefaultV1 == [clock_profile |-> "system", show_seconds |-> FALSE]
DefaultV3 ==
  [clock_mode |-> "standard", calendar |-> "gregorian", show_seconds |-> FALSE,
   location_configured |-> FALSE, latitude |-> 0, longitude |-> 0]

With(policy, key, value) ==
  CASE key = "clock-profile" -> [policy EXCEPT !.clock_profile = value.word]
    [] key = "clock-mode" -> [policy EXCEPT !.clock_mode = value.word]
    [] key \in {"calendar", "primary-calendar"} -> [policy EXCEPT !.calendar = value.word]
    [] key = "show-seconds" -> [policy EXCEPT !.show_seconds = Bools[value.word]]
    [] key = "location-configured" -> [policy EXCEPT !.location_configured = Bools[value.word]]
    [] key = "latitude" -> [policy EXCEPT !.latitude = value.number]
    [] key = "longitude" -> [policy EXCEPT !.longitude = value.number]
    [] OTHER -> policy

------------------------------------------------------------------------------
(* Reading.                                                                  *)

Place == {"show-seconds", "location-configured", "latitude", "longitude"}
KeysOf(form) ==
  CASE form = "1" -> {"version", "clock-profile", "show-seconds"}
    [] form = "2" -> {"version", "clock-mode", "primary-calendar"} \cup Place
    [] form = "3" -> {"version", "clock-mode", "calendar"} \cup Place

\* The lines of documents.  No reader knows a secondary calendar any more.
Keys == UNION {KeysOf(form) : form \in Versions} \cup {"none", "secondary-calendar", "unknown"}
Line == [status : {"entry", "ignored", "invalid"}, key : Keys, value : [word : Words, number : Int]]

LastCounts(form, key, seen) == TRUE \* mutant
\* A version 3 document has one line for each key.
MayCome(form, key, seen) == form = "3" => key \notin seen

ReadEntry(form, so_far, line) ==
  IF line.key \notin KeysOf(form)
    THEN so_far
  ELSE IF Accepts(form, line.key, line.value) /\ MayCome(form, line.key, so_far.seen)
    THEN [ok |-> TRUE, seen |-> so_far.seen \cup {line.key},
          policy |-> With(so_far.policy, line.key, line.value)]
    ELSE [so_far EXCEPT !.ok = FALSE]

ReadLine(form, so_far, line) ==
  IF ~so_far.ok \/ line.status = "ignored" THEN so_far
  ELSE IF line.status = "invalid" THEN [so_far EXCEPT !.ok = FALSE]
  ELSE ReadEntry(form, so_far, line)

\* The loop over the lines that all readers have.
Read(form, default, text) ==
  FoldLeft(LAMBDA so_far, line : ReadLine(form, so_far, line),
           [ok |-> TRUE, seen |-> {}, policy |-> default], text)

Refused == [ok |-> FALSE, policy |-> DefaultV3]
Accepted(policy) == [ok |-> TRUE, policy |-> policy]

\* temporal_document_version: the first line that has one.  It reads a number,
\* but each reader then wants the numeral itself.
DocumentVersion(text) ==
  LET stops == {i \in DOMAIN text :
                  text[i].status = "invalid" \/ (text[i].status = "entry" /\ text[i].key = "version")}
  IN  IF stops = {} \/ text[Min(stops)].status = "invalid" THEN "none"
      ELSE text[Min(stops)].value.word

DecimalLost(profile) == \* mutant
  CASE profile = "conventional-12" -> "standard-12"
    [] profile = "conventional-24" -> "standard-24"
    [] OTHER -> "standard"
ModeOf(profile) ==
  CASE profile = "conventional-12" -> "standard-12"
    [] profile = "conventional-24" -> "standard-24"
    [] profile = "decimal-10" -> "decimal"
    [] profile = "system" -> "standard"

\* infiltratr_temporal_policy_parse and migrate_v1_document
MigrateV1(text) ==
  LET read == Read("1", DefaultV1, text)
  IN  IF read.ok /\ "version" \in read.seen
        THEN Accepted([DefaultV3 EXCEPT !.clock_mode = ModeOf(read.policy.clock_profile),
                                        !.show_seconds = read.policy.show_seconds])
        ELSE Refused

\* migrate_v2_document: what is missing keeps its default.
MigrateV2(text) ==
  LET read == Read("2", DefaultV3, text) IN IF read.ok THEN Accepted(read.policy) ELSE Refused

ParseV3(text) ==
  LET read == Read("3", DefaultV3, text)
  IN  IF read.ok /\ read.seen = KeysOf("3") THEN Accepted(read.policy) ELSE Refused

\* infiltratr_temporal_policy_v3_parse
Parse(text) ==
  LET version == DocumentVersion(text)
  IN  CASE version = "1" -> MigrateV1(text)
        [] version = "2" -> MigrateV2(text)
        [] version = "3" -> ParseV3(text)
        [] OTHER -> Refused

------------------------------------------------------------------------------
(* Writing.                                                                  *)

\* infiltratr_format_fixed_ascii: the magnitude, rounded half up.
Printed(x) ==
  LET magnitude == IF x < 0 THEN -x ELSE x
      rounded == ((2 * magnitude + Fine) \div (2 * Fine)) * Fine
  IN  Number(IF x < 0 THEN -rounded ELSE rounded)

\* What infiltratr_temporal_policy_v3_serialize checks first.
Storable(policy) ==
  /\ policy.clock_mode \in ClockModes
  /\ IdValid(policy.calendar)
  /\ WithinRange(policy.latitude, MaxLatitude)
  /\ WithinRange(policy.longitude, MaxLongitude)

Serialize(policy) ==
  <<Entry("version", Word("3")),
    Entry("clock-mode", Word(policy.clock_mode)),
    Entry("calendar", Word(policy.calendar)),
    Entry("show-seconds", BoolWord(policy.show_seconds)),
    Entry("location-configured", BoolWord(policy.location_configured)),
    Entry("latitude", Printed(policy.latitude)),
    Entry("longitude", Printed(policy.longitude))>>

\* infiltratr_temporal_policy_serialize
SerializeV1(policy) ==
  <<Entry("version", Word("1")),
    Entry("clock-profile", Word(policy.clock_profile)),
    Entry("show-seconds", BoolWord(policy.show_seconds))>>
==============================================================================
