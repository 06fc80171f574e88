-------------------------- MODULE ClockPresentation --------------------------
(***************************************************************************)
(* src/temporal_clock_resource.c over src/dynlib.c and the scan of         *)
(* src/temporal_runtime.c: consumers hold a clock presentation each, which *)
(* shows either a compiled mode or the text of a module that was found by  *)
(* its identifier and opened by its path.                                  *)
(*                                                                         *)
(* The dynamic loader is external: it counts the references to what it     *)
(* loaded, and opening a path that is loaded gives the loaded image again, *)
(* whatever the file on disk is by then.  Closing may fail.                *)
(***************************************************************************)
EXTENDS ClockFace

CONSTANTS
    Consumers,
    FileOrder,        \* the module files of the directory, in file order
    Images,           \* what a module file may contain
    Wanted,           \* the identifiers that are selected
    NoImage, NoFile, Nothing,
    MaxLost           \* bound: failures of dlclose

ASSUME PresentationAssumption ==
    /\ IsFiniteSet(Consumers)
    /\ \A i \in DOMAIN FileOrder : FileOrder[i] # NoFile
    /\ NoImage \notin Images

VARIABLES
    disk,             \* what each file contains
    loaded,           \* what the loader has of each path
    references,       \* its count of the handles of each path
    lost,             \* handles whose dlclose failed, per path
    step,             \* how far a consumer is
    wanted,           \* the mode of its presentation
    unread,           \* the places in FileOrder its scan has still to inspect
    path,             \* the file its scan captured
    handle,           \* the path of the handle it has open
    shown             \* what it shows, and by whom

presentation == <<disk, loaded, references, lost, step, wanted, unread, path, handle, shown>>
vars == <<clock, presentation>>

Files == {FileOrder[i] : i \in DOMAIN FileOrder}

PresentationInit ==
    /\ disk \in [Files -> Images \cup {NoImage}]
    /\ loaded = [f \in Files |-> NoImage]
    /\ references = [f \in Files |-> 0]
    /\ lost = [f \in Files |-> 0]
    /\ step = [c \in Consumers |-> "idle"]
    /\ wanted = [c \in Consumers |-> Nothing]
    /\ unread = [c \in Consumers |-> {}]
    /\ path = [c \in Consumers |-> NoFile]
    /\ handle = [c \in Consumers |-> NoFile]
    /\ shown = [c \in Consumers |-> Nothing]

---------------------------------------------------------------------------
(* The loader.                                                             *)

Seen(f) == IF references[f] > 0 THEN loaded[f] ELSE disk[f]
Loads(f) == Seen(f) # NoImage

Open(c, f) ==
    /\ handle' = [handle EXCEPT ![c] = f]
    /\ loaded' = [loaded EXCEPT ![f] = Seen(f)]
    /\ references' = [references EXCEPT ![f] = @ + 1]
    /\ UNCHANGED lost

\* A handle that could not be closed is forgotten with its object.
Close(c) ==
    LET f == handle[c]
        last == references[f] = 1
    IN /\ handle' = [handle EXCEPT ![c] = NoFile]
       /\ \/ /\ references' = [references EXCEPT ![f] = @ - 1]
             /\ loaded' = [loaded EXCEPT ![f] = IF last THEN NoImage ELSE @]
             /\ UNCHANGED lost
          \/ /\ lost[f] < MaxLost
             /\ lost' = [lost EXCEPT ![f] = @ + 1]
             /\ UNCHANGED <<references, loaded>>

KeepHandles == UNCHANGED <<handle, loaded, references, lost>>

---------------------------------------------------------------------------
(* infiltratr_temporal_clock_presentation_new.                             *)

clock_requires_native_resource(id) == id \in NativeModes
NeedsModule(id) == clock_requires_native_resource(id) \/ id \notin Modes

Select(c, id) ==
    /\ step[c] = "idle"
    /\ wanted' = [wanted EXCEPT ![c] = id]
    /\ step' = [step EXCEPT ![c] = IF NeedsModule(id) THEN "scan" ELSE "ready"]
    /\ unread' = [unread EXCEPT ![c] =
         IF NeedsModule(id) THEN {i \in DOMAIN FileOrder : disk[FileOrder[i]] # NoImage} ELSE {}]
    /\ KeepHandles /\ UNCHANGED <<disk, path, shown>>

\* The scan opens one file after the other; a file that does not open, or
\* lacks its metadata, is passed over.
Inspect(c) ==
    /\ step[c] = "scan" /\ handle[c] = NoFile
    /\ \E i \in unread[c] :
         /\ \A j \in unread[c] : i <= j
         /\ unread' = [unread EXCEPT ![c] = @ \ {i}]
         /\ IF Loads(FileOrder[i]) THEN Open(c, FileOrder[i]) ELSE KeepHandles
    /\ UNCHANGED <<disk, step, wanted, path, shown>>

\* capture_clock keeps the first path that bears the identifier, if there is
\* memory for it, and the scan closes what it opened.
IsCaptured(c) ==
    LET image == loaded[handle[c]]
    IN path[c] = NoFile /\ "metadata" \in image.symbols /\ image.id = wanted[c]
Leave(c) ==
    /\ step[c] = "scan" /\ handle[c] # NoFile
    /\ \/ IsCaptured(c) /\ path' = [path EXCEPT ![c] = handle[c]]
       \/ UNCHANGED path
    /\ Close(c)
    /\ UNCHANGED <<disk, step, wanted, unread, shown>>

EndOfScan(c) == step[c] = "scan" /\ handle[c] = NoFile /\ unread[c] = {}
OpenFound(c) ==
    /\ EndOfScan(c)
    /\ IF path[c] # NoFile /\ Loads(path[c])
       THEN Open(c, path[c]) /\ step' = [step EXCEPT ![c] = "bind"]
       ELSE KeepHandles /\ step' = [step EXCEPT ![c] = "idle"]
    /\ path' = [path EXCEPT ![c] = NoFile]
    /\ UNCHANGED <<disk, wanted, unread, shown>>

\* The directory cannot be listed, or there is no memory for a name.
FailScan(c) ==
    /\ step[c] = "scan" /\ handle[c] = NoFile
    /\ step' = [step EXCEPT ![c] = "idle"]
    /\ unread' = [unread EXCEPT ![c] = {}]
    /\ path' = [path EXCEPT ![c] = NoFile]
    /\ KeepHandles /\ UNCHANGED <<disk, wanted, shown>>

\* Both symbols are bound or none; the module must agree with itself and
\* still be the one that was asked for.
bind_symbols(image) == {"metadata", "provider"} \subseteq image.symbols
provider_valid(image) == bind_symbols(image) /\ image.provider = image.id
AnyProvider(c, image) == provider_valid(image) \* mutant: the identifier is not compared again
IsWanted(c, image) == provider_valid(image) /\ image.id = wanted[c]

HandleForgotten(c) == \* mutant
    /\ step[c] = "bind"
    /\ step' = [step EXCEPT ![c] = IF IsWanted(c, loaded[handle[c]]) THEN "ready" ELSE "idle"]
    /\ handle' = [handle EXCEPT ![c] = IF IsWanted(c, loaded[@]) THEN @ ELSE NoFile]
    /\ UNCHANGED <<disk, loaded, references, lost, wanted, unread, path, shown>>
Bind(c) ==
    /\ step[c] = "bind"
    /\ \/ /\ IsWanted(c, loaded[handle[c]])
          /\ step' = [step EXCEPT ![c] = "ready"]
          /\ KeepHandles
       \/ /\ step' = [step EXCEPT ![c] = "idle"]      \* refused, or no memory
          /\ Close(c)
    /\ UNCHANGED <<disk, wanted, unread, path, shown>>

---------------------------------------------------------------------------
(* infiltratr_temporal_clock_presentation_format and _free.                *)

HasModule(c) == handle[c] # NoFile
\* A module's text must be terminated, of the length it says, and UTF-8; a
\* compiled mode always has one, N/A where it has no Sun to go by.
Text(c) == IF loaded[handle[c]].text = "valid" THEN loaded[handle[c]].text ELSE Refused

Allowed(c, configured, finite) ==
    IF HasModule(c) THEN (loaded[handle[c]].place => configured) /\ finite
    ELSE NeedsPlace(wanted[c]) => configured /\ finite

Format(c, configured, finite, fine) ==
    LET image == IF HasModule(c) THEN loaded[handle[c]] ELSE NoImage
        value == IF HasModule(c) THEN Text(c) ELSE Reading(sky, wanted[c], now, 0, fine)
    IN /\ step[c] = "ready"
       /\ shown' = [shown EXCEPT ![c] =
            IF Allowed(c, configured, finite) /\ value # Refused
            THEN [mode |-> wanted[c], image |-> image, configured |-> configured, value |-> value]
            ELSE @]
       /\ KeepHandles /\ UNCHANGED <<disk, step, wanted, unread, path>>

Free(c) ==
    /\ step[c] = "ready"
    /\ step' = [step EXCEPT ![c] = "idle"]
    /\ shown' = [shown EXCEPT ![c] = Nothing]
    /\ IF HasModule(c) THEN Close(c) ELSE KeepHandles
    /\ UNCHANGED <<disk, wanted, unread, path>>

---------------------------------------------------------------------------
(* The rest of the machine.                                                *)

Replace(f, image) ==
    /\ disk[f] # image
    /\ disk' = [disk EXCEPT ![f] = image]
    /\ UNCHANGED <<loaded, references, lost, step, wanted, unread, path, handle, shown>>

ConsumerStep(c) ==
    \/ \E id \in Wanted : Select(c, id)
    \/ Inspect(c) \/ Leave(c) \/ FailScan(c) \/ OpenFound(c) \/ Bind(c)
    \/ \E configured, finite, fine \in BOOLEAN : Format(c, configured, finite, fine)
    \/ Free(c)

PresentationStep ==
    \/ \E c \in Consumers : ConsumerStep(c)
    \/ \E f \in Files, image \in Images \cup {NoImage} : Replace(f, image)

PresentationSpec == PresentationInit /\ [][PresentationStep]_presentation

---------------------------------------------------------------------------
(* Properties.                                                             *)

\* What a consumer shows is of the mode it asked for, and never without the
\* place it depends on: the text of a module of that identifier, or the
\* compiled reading of a mode that has not been migrated to modules.  The file
\* that the scan found may be another module when it is opened.
ShownIsOfItsMode ==
    \A c \in Consumers :
        LET s == shown[c]
        IN \/ s = Nothing
           \/ /\ s.mode = wanted[c]
              /\ s.image = NoImage =>
                   /\ s.mode \in Modes \ NativeModes
                   /\ NeedsPlace(s.mode) => s.configured
              /\ s.image # NoImage =>
                   /\ s.image.id = s.mode
                   /\ s.image.place => s.configured
                   /\ s.image = loaded[handle[c]]

\* Every reference of the loader belongs to a consumer that is not idle or to
\* a failed dlclose: no error path forgets a handle, none closes one twice, and
\* what a presentation points into stays loaded whatever the others close.
HandlesAreBalanced ==
    /\ \A f \in Files :
         /\ references[f] = Cardinality({c \in Consumers : handle[c] = f}) + lost[f]
         /\ loaded[f] # NoImage <=> references[f] > 0
    /\ \A c \in Consumers : handle[c] # NoFile => step[c] \in {"scan", "bind", "ready"}
==============================================================================
