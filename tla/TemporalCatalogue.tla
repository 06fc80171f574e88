--------------------------- MODULE TemporalCatalogue ---------------------------
(***************************************************************************)
(* The merged catalogues of temporal_runtime.c: compiled calendars and     *)
(* clocks, and the resource modules a process found in the two native      *)
(* directories when one of its threads first asked.  One thread scans,     *)
(* the others spin until it is done, and nobody locks anything afterwards. *)
(*                                                                         *)
(* A file is inspected in one step: its thread alone may touch the arrays, *)
(* which is what the properties below would show to be wrong.  The files   *)
(* listed in Mutable are installed, replaced and removed at any time.      *)
(***************************************************************************)
EXTENDS Naturals, Sequences

CONSTANTS
  Threads,
  Files,         \* the names in a directory, numbered in strcmp order
  Modules, None, \* what a file may hold, and no file
  Ids, IdOf,     \* [Modules -> Ids]
  KindOf,        \* [Modules -> Families, or "neither" where the file has no valid metadata]
  Builtins,      \* [Families -> Seq(Ids)]: the compiled entries
  Disks,         \* the contents of the directories a process may start with
  Mutable,       \* the <<family, file>> that change while it runs
  FirstCapacity, \* entries in an array when it is first allocated; 8 in the code
  Requests       \* the calls the threads make

Families == {"calendar", "clock"}
Operations == {"count", "at", "find"}
Steps == {"idle", "check", "begin", "wait", "list", "inspect", "publish", "read"}

ASSUME CatalogueAssumption ==
  /\ Files \subseteq Nat
  /\ None \notin Modules
  /\ IdOf \in [Modules -> Ids]
  /\ KindOf \in [Modules -> Families \cup {"neither"}]
  /\ Builtins \in [Families -> Seq(Ids)]
  /\ \A f \in Families : \A i, j \in 1..Len(Builtins[f]) : Builtins[f][i] = Builtins[f][j] => i = j
  /\ Disks \subseteq [Families -> [Files -> Modules \cup {None}]]
  /\ Mutable \subseteq Families \X Files
  /\ FirstCapacity \in Nat \ {0}
  /\ Requests \subseteq [op : Operations, family : Families, arg : Nat \cup Ids]
  /\ \A r \in Requests : (r.op = "at" => r.arg \in Nat) /\ (r.op = "find" => r.arg \in Ids)

VARIABLES
  disk,            \* [Families -> [Files -> Modules or None]]
  catalogue_state, \* the atomic that guards all of the following
  entries,         \* [Families -> Seq(Modules)]: the scanned entries
  capacity,        \* [Families -> Nat]: of the array they are in
  moved,           \* [Families -> Nat]: how often that array changed its address
  pc,
  request,         \* [Threads -> Requests or NoRequest]
  family,          \* the family a scanning thread works on
  unread,          \* the names its readdir loop has not come to
  found,           \* the candidates it has not inspected
  answers,         \* history: every answer given, with its request
  lost             \* history: the families whose scan failed

NoRequest == [op |-> "none", family |-> "calendar", arg |-> 0]
Nothing == <<"NULL">>

arrays == <<entries, capacity, moved>>
scan == <<family, unread, found>>
vars == <<disk, catalogue_state, entries, capacity, moved, pc, request, family, unread, found,
          answers, lost>>

TypeOK ==
  /\ disk \in [Families -> [Files -> Modules \cup {None}]]
  /\ catalogue_state \in {"uninitialised", "initialising", "ready"}
  /\ entries \in [Families -> Seq(Modules)]
  /\ \A f \in Families : \A i \in DOMAIN entries[f] : KindOf[entries[f][i]] = f
  /\ capacity \in [Families -> Nat]
  /\ moved \in [Families -> Nat]
  /\ pc \in [Threads -> Steps]
  /\ request \in [Threads -> Requests \cup {NoRequest}]
  /\ family \in [Threads -> Families]
  /\ unread \in [Threads -> SUBSET Files]
  /\ found \in [Threads -> SUBSET Files]
  /\ \A a \in answers : a.request \in Requests
  /\ lost \subseteq Families

Init ==
  /\ disk \in Disks
  /\ catalogue_state = "uninitialised"
  /\ entries = [f \in Families |-> <<>>]
  /\ capacity = [f \in Families |-> 0]
  /\ moved = [f \in Families |-> 0]
  /\ pc = [t \in Threads |-> "idle"]
  /\ request = [t \in Threads |-> NoRequest]
  /\ family = [t \in Threads |-> "calendar"]
  /\ unread = [t \in Threads |-> {}]
  /\ found = [t \in Threads |-> {}]
  /\ answers = {}
  /\ lost = {}

Goto(t, step) == pc' = [pc EXCEPT ![t] = step]

------------------------------------------------------------------------------
(* The six infiltratr_temporal_installed_* functions.                        *)

BuiltinIds(f) == {Builtins[f][i] : i \in DOMAIN Builtins[f]}
FoundIds(f) == {IdOf[entries[f][i]] : i \in DOMAIN entries[f]}
\* A pointer into the array of a family, and what it points to.
Entry(f, i) == <<"native", [moved |-> moved[f], index |-> i], IdOf[entries[f][i]]>>

\* The function's result, read from the arrays as they are now.
Answer(r) ==
  LET f == r.family
      fixed == Len(Builtins[f])
  IN  CASE r.op = "count" -> <<"count", fixed + Len(entries[f])>>
        [] r.op = "at" -> IF r.arg < fixed THEN <<"builtin", r.arg + 1>>
                          ELSE IF r.arg - fixed < Len(entries[f])
                            THEN Entry(f, r.arg - fixed + 1)
                            ELSE Nothing
        [] r.op = "find" -> IF r.arg \in BuiltinIds(f)
                              THEN <<"builtin", CHOOSE i \in DOMAIN Builtins[f] : Builtins[f][i] = r.arg>>
                            ELSE IF r.arg \in FoundIds(f)
                              THEN Entry(f, CHOOSE i \in DOMAIN entries[f] :
                                              /\ IdOf[entries[f][i]] = r.arg
                                              /\ \A j \in 1..(i - 1) : IdOf[entries[f][j]] # r.arg)
                              ELSE Nothing

Give(t, r) ==
  /\ answers' = answers \cup {[request |-> r, answer |-> Answer(r)]}
  /\ Goto(t, "idle")

\* A compiled entry is found without a look at the catalogue.
NeedsCatalogue(r) == r.op = "find" => r.arg \notin BuiltinIds(r.family)

Call(t) ==
  /\ pc[t] = "idle"
  /\ \E r \in Requests :
       IF NeedsCatalogue(r)
         THEN request' = [request EXCEPT ![t] = r] /\ Goto(t, "check") /\ UNCHANGED answers
         ELSE Give(t, r) /\ UNCHANGED request
  /\ UNCHANGED <<disk, catalogue_state, arrays, scan, lost>>

Read(t) ==
  /\ pc[t] = "read"
  /\ Give(t, request[t])
  /\ request' = [request EXCEPT ![t] = NoRequest]
  /\ UNCHANGED <<disk, catalogue_state, arrays, scan, lost>>

------------------------------------------------------------------------------
(* catalogue_initialise                                                      *)

CheckReady(t) ==
  /\ pc[t] = "check"
  /\ Goto(t, IF catalogue_state = "ready" THEN "read" ELSE "begin")
  /\ UNCHANGED <<disk, catalogue_state, arrays, request, scan, answers, lost>>

MayBegin == catalogue_state = "uninitialised"

NoWait == "read" \* mutant
IfTaken == "wait"

\* infiltratr_temporal_runtime_scan_native: opendir.
StartScan(t, f) ==
  /\ family' = [family EXCEPT ![t] = f]
  /\ unread' = [unread EXCEPT ![t] = Files]
  /\ found' = [found EXCEPT ![t] = {}]
  /\ Goto(t, "list")

TryBegin(t) ==
  /\ pc[t] = "begin"
  /\ \/ /\ MayBegin
        /\ catalogue_state' = "initialising"
        /\ StartScan(t, "calendar")
     \/ /\ ~MayBegin
        /\ Goto(t, IfTaken)
        /\ UNCHANGED <<catalogue_state, scan>>
  /\ UNCHANGED <<disk, arrays, request, answers, lost>>

\* catalogue_wait_until_ready: the loop goes round until this is possible.
StopWaiting(t) ==
  /\ pc[t] = "wait"
  /\ catalogue_state = "ready"
  /\ Goto(t, "read")
  /\ UNCHANGED <<disk, catalogue_state, arrays, request, scan, answers, lost>>

\* After a family, the next one; after both, the release store.
NextFamily(t) ==
  IF family[t] = "calendar"
    THEN StartScan(t, "clock")
    ELSE Goto(t, "publish") /\ UNCHANGED scan

\* collect_candidates: readdir gives the names in any order, each as it is when
\* its turn comes.
ListEntry(t) ==
  /\ pc[t] = "list"
  /\ \E x \in unread[t] :
       /\ unread' = [unread EXCEPT ![t] = @ \ {x}]
       /\ found' = [found EXCEPT ![t] =
                      IF disk[family[t]][x] = None THEN @ ELSE @ \cup {x}]
  /\ UNCHANGED <<disk, catalogue_state, arrays, pc, request, family, answers, lost>>

EndOfList(t) ==
  /\ pc[t] = "list"
  /\ unread[t] = {}
  /\ Goto(t, "inspect")
  /\ UNCHANGED <<disk, catalogue_state, arrays, request, scan, answers, lost>>

AnyListed(t, x) == x \in found[t] \* mutant: no qsort
IsNext(t, x) == x \in found[t] /\ \A y \in found[t] : x <= y

ListedIds(f) == FoundIds(f) \* mutant: compiled identifiers are not consulted
KnownIds(f) == BuiltinIds(f) \cup FoundIds(f)


\* inspect_candidate: the file is a loadable module with metadata of the kind.
IsResource(m, f) == m # None /\ KindOf[m] = f

\* append_calendar and append_clock: a known identifier is passed over, a full
\* array doubles, and realloc may move it.
Append1(f, m) ==
  /\ entries' = [entries EXCEPT ![f] = Append(@, m)]
  /\ IF Len(entries[f]) = capacity[f]
       THEN /\ capacity' = [capacity EXCEPT ![f] = IF @ = 0 THEN FirstCapacity ELSE 2 * @]
            /\ moved' = [moved EXCEPT ![f] = @ + 1]
       ELSE UNCHANGED <<capacity, moved>>

Inspect(t) ==
  /\ pc[t] = "inspect"
  /\ \E x \in found[t] :
       LET f == family[t]
           m == disk[f][x]
       IN  /\ IsNext(t, x)
           /\ found' = [found EXCEPT ![t] = @ \ {x}]
           /\ IF IsResource(m, f) /\ IdOf[m] \notin KnownIds(f)
                THEN Append1(f, m)
                ELSE UNCHANGED arrays
  /\ UNCHANGED <<disk, catalogue_state, pc, request, family, unread, answers, lost>>

EndOfScan(t) ==
  /\ pc[t] = "inspect"
  /\ found[t] = {}
  /\ NextFamily(t)
  /\ UNCHANGED <<disk, catalogue_state, arrays, request, answers, lost>>

KeepEntries(f) == UNCHANGED arrays \* mutant

\* clear_runtime_calendars and clear_runtime_clocks
Clear(f) ==
  /\ entries' = [entries EXCEPT ![f] = <<>>]
  /\ capacity' = [capacity EXCEPT ![f] = 0]
  /\ moved' = [moved EXCEPT ![f] = @ + 1]

ReturnAtOnce(t) == Goto(t, "read") /\ UNCHANGED scan \* mutant: no release store
AfterFailure(t) == NextFamily(t)

\* A directory that cannot be read, or no memory for a name, a path, an array
\* or a copy: the scan returns false and the family is emptied.
FailScan(t) ==
  /\ pc[t] = "list" \/ (pc[t] = "inspect" /\ found[t] # {})
  /\ Clear(family[t])
  /\ lost' = lost \cup {family[t]}
  /\ AfterFailure(t)
  /\ UNCHANGED <<disk, catalogue_state, request, answers>>

MarkReady(t) ==
  /\ pc[t] = "publish"
  /\ catalogue_state' = "ready"
  /\ Goto(t, "read")
  /\ UNCHANGED <<disk, arrays, request, scan, answers, lost>>

------------------------------------------------------------------------------
\* Packages are installed, upgraded and removed.
ChangeDisk ==
  /\ \E c \in Mutable, m \in Modules \cup {None} :
       /\ disk[c[1]][c[2]] # m
       /\ disk' = [disk EXCEPT ![c[1]][c[2]] = m]
  /\ UNCHANGED <<catalogue_state, arrays, pc, request, scan, answers, lost>>

\* A thread that is inside one of the functions goes on.
Proceed(t) ==
  \/ CheckReady(t) \/ TryBegin(t) \/ StopWaiting(t)
  \/ ListEntry(t) \/ EndOfList(t) \/ Inspect(t) \/ EndOfScan(t) \/ FailScan(t)
  \/ MarkReady(t) \/ Read(t)

Next == (\E t \in Threads : Call(t) \/ Proceed(t)) \/ ChangeDisk

Spec == Init /\ [][Next]_vars
\* Every thread inside a call keeps getting the processor.
FairSpec == Spec /\ \A t \in Threads : WF_vars(Proceed(t))

------------------------------------------------------------------------------
(* Properties.                                                               *)

\* What a caller was told stays true: every count, every NULL and every pointer
\* handed out before is what the same call gives now.  No caller sees half a
\* catalogue, and no array moves under a pointer.
AnswersStand == \A a \in answers : a.answer = Answer(a.request)

\* An identifier names one entry of the merged catalogue; the compiled one wins.
IdsAreUnique ==
  \A f \in Families :
    /\ BuiltinIds(f) \cap FoundIds(f) = {}
    /\ \A i, j \in DOMAIN entries[f] : IdOf[entries[f][i]] = IdOf[entries[f][j]] => i = j

\* The scan of a directory is all or nothing, and what stayed in place is
\* listed: a module that nobody touched has its identifier in the catalogue
\* unless the whole scan failed, and then the family has no native entry.  A
\* failure or a broken file in one family says nothing about the other.
InstalledIsListed ==
  catalogue_state = "ready" =>
    \A f \in Families :
      /\ f \in lost => entries[f] = <<>>
      /\ f \notin lost =>
           \A x \in Files : <<f, x>> \notin Mutable /\ IsResource(disk[f][x], f) =>
             IdOf[disk[f][x]] \in BuiltinIds(f) \cup FoundIds(f)

\* Native resources come in the order of their file names, the first file with
\* an identifier winning, however readdir ordered them.
InFileOrder ==
  catalogue_state = "ready" =>
    \A f \in Families : (\A x \in Files : <<f, x>> \notin Mutable) =>
      \E place \in [DOMAIN entries[f] -> Files] :
        /\ \A i, j \in DOMAIN entries[f] : i < j => place[i] < place[j]
        /\ \A i \in DOMAIN entries[f] :
             /\ disk[f][place[i]] = entries[f][i]
             /\ \A x \in Files : x < place[i] /\ IsResource(disk[f][x], f) =>
                  IdOf[disk[f][x]] # IdOf[entries[f][i]]

\* Every call returns: a spinning thread is released.
CallsReturn == \A t \in Threads : pc[t] # "idle" ~> pc[t] = "idle"
==============================================================================
