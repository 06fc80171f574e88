------------------------------ MODULE PolicyStore ------------------------------
(***************************************************************************)
(* presentation.conf between the programs that use it: some save a policy  *)
(* with infiltratr_temporal_posix_policy_save, one loads it, its owner     *)
(* edits it by hand, and the machine may lose power.                       *)
(*                                                                         *)
(* A save ends in infiltratr_atomic_file_write_bytes.  Its file is a       *)
(* DurableFile, which AtomicFile is shown to implement, in a directory that*)
(* the first save makes and nobody syncs.                                  *)
(***************************************************************************)
EXTENDS PolicyDocument

CONSTANTS
  Saves,     \* the calls of infiltratr_temporal_posix_policy_save
  Edits,     \* the times the file is edited by hand
  Original,  \* the file as it was before all of them
  Originals, \* what that may be: a file, and the policy its writer chose, if any
  Policies,  \* what programs ask to save, sound or not
  Lines      \* the lines an editor may put in

Calls == Saves \cup Edits
Home == "config"

ASSUME StoreAssumption == Saves \cap Edits = {} /\ Original \notin Calls

VARIABLES
  current, undoable, replaced, outcome, \* the file, see DurableFile
  content,  \* what the file is in each version
  chosen,   \* the policy each version was to hold, NoPolicy for an edit
  storing,  \* the saves that have written their document in memory
  reading,  \* the load in progress
  loaded,   \* what the last load returned, until the next begins
  directory, \* of presentation.conf: absent, made but not on the disk, or stored
  installs, \* history: the versions in the order they got to the disk
  lost      \* history: the versions that were lost with the directory

file == <<current, undoable, replaced, outcome>>
vars == <<current, undoable, replaced, outcome, content, chosen, storing, reading, loaded,
          directory, installs, lost>>

File == INSTANCE DurableFile WITH Dirs <- {Home}, Versions <- Calls \cup {Original}

Policy == [clock_mode : STRING, calendar : Words, show_seconds : BOOLEAN,
           location_configured : BOOLEAN, latitude : Int, longitude : Int]
NoPolicy == [DefaultV3 EXCEPT !.clock_mode = "none"]
Unread == [state |-> "missing", text |-> <<>>]
NoReading == [version |-> "none", known |-> {}]
NotLoaded == [result |-> "none", found |-> FALSE, policy |-> DefaultV3, version |-> "none", known |-> {}]

FileStates == {"missing", "empty", "oversized", "binary", "text"}
Results == {"none", "ok", "truncated", "empty", "invalid", "error"}

ASSUME DataAssumption ==
  /\ Policies \subseteq Policy /\ Lines \subseteq Line
  /\ \A o \in Originals : o.file \in [state : FileStates, text : Seq(Line)]

TypeOK ==
  /\ current \in [{Home} -> Calls \cup {Original}]
  /\ \A v \in DOMAIN content : content[v].state \in FileStates
  /\ storing \subseteq Saves
  /\ directory \in {"absent", "made", "stored"}
  /\ directory # "stored" => content[Original].state = "missing"
  /\ loaded.result \in Results

Init ==
  /\ File!Init
  /\ \E o \in Originals :
       /\ content = [v \in Calls \cup {Original} |-> IF v = Original THEN o.file ELSE Unread]
       /\ chosen = [v \in Calls \cup {Original} |-> IF v = Original THEN o.policy ELSE NoPolicy]
       /\ directory \in IF o.file.state = "missing" THEN {"absent", "stored"} ELSE {"stored"}
  /\ storing = {}
  /\ reading = NoReading
  /\ loaded = NotLoaded
  /\ installs = <<Original>>
  /\ lost = {}

------------------------------------------------------------------------------
(* infiltratr_temporal_posix_policy_save                                     *)

\* EINVAL, or a document to be stored.
Serialise(c) ==
  /\ outcome[c] = "pending" /\ c \notin storing
  /\ \E p \in Policies :
       \/ /\ ~Storable(p)
          /\ File!Fail(c) /\ outcome'[c] = "failed"
          /\ UNCHANGED <<content, chosen, storing>>
       \/ /\ Storable(p)
          /\ content' = [content EXCEPT ![c] = [state |-> "text", text |-> Serialize(p)]]
          /\ chosen' = [chosen EXCEPT ![c] = p]
          /\ storing' = storing \cup {c}
          /\ UNCHANGED file
  /\ UNCHANGED <<reading, loaded, directory, installs, lost>>

\* mkdirat of infiltratr_mkdir_parents, which syncs nothing.
MakeDirectory(c) ==
  /\ c \in storing /\ outcome[c] = "pending"
  /\ directory = "absent" /\ directory' = "made"
  /\ UNCHANGED <<file, content, chosen, storing, reading, loaded, installs, lost>>

\* The paths, the directories and the atomic write: each may fail, the last one
\* after its document got to the disk, too.  The process may die.
Store(c) ==
  /\ c \in storing
  /\ directory # "absent"
  /\ File!Install(c, Home)
  /\ installs' = Append(installs, c)
  /\ UNCHANGED <<content, chosen, storing, reading, loaded, directory, lost>>

FailureIgnored(c) == \* mutant
  /\ outcome[c] = "pending"
  /\ outcome' = [outcome EXCEPT ![c] = "ok"]
  /\ UNCHANGED <<current, undoable, replaced>>

\* A write that returns zero has installed its version (SuccessIsDurable of AtomicFile).
Succeeds(c) == replaced[c] # {} /\ File!Succeed(c)

EndSave(c) ==
  /\ c \in storing
  /\ Succeeds(c) \/ File!Fail(c)
  /\ UNCHANGED <<content, chosen, storing, reading, loaded, directory, installs, lost>>

Persist ==
  /\ undoable[Home] # {}
  /\ File!Persist(Home)
  /\ UNCHANGED <<content, chosen, storing, reading, loaded, directory, installs, lost>>

\* The kernel writes the directory's own entry, some time.
PersistDirectory ==
  /\ directory = "made" /\ directory' = "stored"
  /\ UNCHANGED <<file, content, chosen, storing, reading, loaded, installs, lost>>

------------------------------------------------------------------------------
(* infiltratr_temporal_posix_policy_load                                     *)

\* read_text_file_ex opens the file: from now on it is this version that is read.
Open ==
  /\ reading = NoReading
  /\ reading' = [version |-> current[Home], known |-> {c \in Saves \ lost : outcome[c] = "ok"}]
  /\ loaded' = NotLoaded
  /\ UNCHANGED <<file, content, chosen, storing, directory, installs, lost>>

\* What infiltratr_read_text_file_ex and the parser make of a file.
Load(f) ==
  LET none(result) == [result |-> result, found |-> FALSE, policy |-> DefaultV3]
      parsed == Parse(f.text)
  IN  CASE f.state = "missing" -> none("ok")
        [] f.state = "empty" -> none("empty")
        [] f.state = "oversized" -> none("truncated")
        [] f.state = "binary" -> none("invalid")
        [] f.state = "text" -> IF parsed.ok THEN [result |-> "ok", found |-> TRUE, policy |-> parsed.policy]
                               ELSE none("invalid")

\* The load returns, possibly because a read failed.
Return ==
  /\ reading # NoReading
  /\ \E l \in {Load(content[reading.version]), [result |-> "error", found |-> FALSE, policy |-> DefaultV3]} :
       loaded' = [result |-> l.result, found |-> l.found, policy |-> l.policy,
                  version |-> reading.version, known |-> reading.known]
  /\ reading' = NoReading
  /\ UNCHANGED <<file, content, chosen, storing, directory, installs, lost>>

------------------------------------------------------------------------------
(* The environment.                                                          *)

\* One line is put in at the end, put in another's place, or taken out.
Edited(text) ==
  {Append(text, l) : l \in Lines}
    \cup {ReplaceAt(text, i, l) : i \in DOMAIN text, l \in Lines}
    \cup {RemoveAt(text, i) : i \in DOMAIN text}

\* The owner changes the file, empties or removes it, with a tool that replaces it whole.
Edit(e) ==
  /\ replaced[e] = {} /\ directory # "absent"
  /\ File!Install(e, Home)
  /\ \/ /\ content[current[Home]].state = "text"
        /\ \E t \in Edited(content[current[Home]].text) :
             content' = [content EXCEPT ![e] = [state |-> "text", text |-> t]]
     \/ \E s \in FileStates \ {"text"} :
          content' = [content EXCEPT ![e] = [state |-> s, text |-> <<>>]]
  /\ installs' = Append(installs, e)
  /\ UNCHANGED <<chosen, storing, reading, loaded, directory, lost>>

\* The directory is found again, and the file as DurableFile says.
PowerLoss ==
  /\ File!PowerLoss
  /\ \A c \in storing : outcome'[c] # "pending"
  /\ directory' = IF directory = "made" THEN "stored" ELSE directory
  /\ reading' = NoReading
  /\ UNCHANGED <<content, chosen, storing, loaded, installs, lost>>

\* Or it goes, and all that is in it.
LoseDirectory ==
  /\ directory = "made" /\ directory' = "absent"
  /\ current' = [current EXCEPT ![Home] = Original]
  /\ undoable' = [undoable EXCEPT ![Home] = {}]
  /\ outcome' = [c \in Calls |-> IF c \in storing /\ outcome[c] = "pending" THEN "dead" ELSE outcome[c]]
  /\ lost' = Calls \cap Range(installs)
  /\ reading' = NoReading
  /\ UNCHANGED <<replaced, content, chosen, storing, loaded, installs>>

Next ==
  \/ \E c \in Saves : Serialise(c) \/ MakeDirectory(c) \/ Store(c) \/ EndSave(c)
  \/ Persist \/ PersistDirectory \/ Open \/ Return
  \/ \E e \in Edits : Edit(e)
  \/ PowerLoss \/ LoseDirectory

Spec == Init /\ [][Next]_vars

------------------------------------------------------------------------------
(* Properties.                                                               *)

Distance(a, b) == IF a < b THEN b - a ELSE a - b

\* The same choice, coordinates to the sixth decimal.
SameChoice(p, q) ==
  /\ [p EXCEPT !.latitude = 0, !.longitude = 0] = [q EXCEPT !.latitude = 0, !.longitude = 0]
  /\ 2 * Distance(p.latitude, q.latitude) <= Fine
  /\ 2 * Distance(p.longitude, q.longitude) <= Fine

\* What a user chose is what a program gets, whichever version of the schema it
\* was written in: saving accepts nothing that loading refuses, migration keeps
\* the choice, and a policy saved as it was loaded does not move.
ChoiceIsKept ==
  loaded.result \notin {"none", "error"} /\ chosen[loaded.version] # NoPolicy =>
    /\ loaded.found
    /\ SameChoice(loaded.policy, chosen[loaded.version])
    /\ loaded.version \in Saves => Serialize(loaded.policy) = content[loaded.version].text

LinesFor(text, key) == {i \in DOMAIN text : text[i].status = "entry" /\ text[i].key = key}
OneLineEach(text, keys) == \A key \in keys : \E i \in DOMAIN text : LinesFor(text, key) = {i}

\* However a document was edited, a policy is accepted only with every value
\* within range, and one of version 3 only when every field has one value; else
\* the default takes its place.
FoundIsSound ==
  IF loaded.found
  THEN /\ loaded.result = "ok"
       /\ loaded.policy.clock_mode \in ClockModes
       /\ loaded.policy.latitude \in -MaxLatitude..MaxLatitude
       /\ loaded.policy.longitude \in -MaxLongitude..MaxLongitude
       /\ DocumentVersion(content[loaded.version].text) = "3" =>
            OneLineEach(content[loaded.version].text, KeysOf("3"))
  ELSE loaded.policy = DefaultV3

\* A load never shows an older policy than one whose save had returned zero when
\* the load began, be it after a power loss: unless a save made the directory and
\* that was lost.
LoadIsNotOlder ==
  \A c \in loaded.known : \E i, j \in DOMAIN installs :
    i <= j /\ installs[i] = c /\ installs[j] = loaded.version

\* "IDs are lowercase ASCII words separated by single hyphens."
IdsHaveSingleHyphens ==
  loaded.found =>
    LET id == Spelling[loaded.policy.calendar]
    IN  \A i \in DOMAIN id : i > 1 /\ id[i] = "-" => id[i - 1] # "-"
==============================================================================
