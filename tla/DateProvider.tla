----------------------------- MODULE DateProvider -----------------------------
(***************************************************************************)
(* The date provider of temporal_calendar_posix.c: one thread asks it for  *)
(* dates in one calendar or another, it keeps the module of the calendar   *)
(* asked for last, and it remembers one identifier it could not find and   *)
(* when to look again.  Meanwhile packages change on disk and time passes. *)
(*                                                                         *)
(* Calls with an invalid date, part or buffer return before the provider   *)
(* is touched and are left out.  One scan sees one state of the directory. *)
(***************************************************************************)
EXTENDS Naturals

CONSTANTS
  Files,         \* the names in the calendar directory, numbered from 1
  Modules, None, \* the modules there may be, and none
  Ids, NoId,     \* identifiers callers ask for, and the empty string
  Overlong,      \* those that do not fit INFILTRATR_TEMPORAL_ID_CAPACITY
  IdOf,          \* [Modules -> Ids]: by the metadata
  Runnable,      \* the modules that also export a valid calendar provider
  Disks,         \* what the directory may hold
  Minute,        \* the 60 seconds between two searches
  UInt64Max,     \* the largest time a uint64_t can hold
  LastTime       \* bound: time stops there

ASSUME ProviderAssumption ==
  /\ Files \subseteq Nat \ {0}
  /\ None \notin Modules
  /\ NoId \notin Ids
  /\ Overlong \subseteq Ids
  /\ IdOf \in [Modules -> Ids \ Overlong]
  /\ Runnable \subseteq Modules
  /\ Disks \subseteq [Files -> Modules \cup {None}]
  /\ Minute \in Nat \ {0} /\ UInt64Max \in Nat /\ LastTime \in Nat
  /\ Minute <= UInt64Max /\ LastTime < UInt64Max

VARIABLES
  disk, now,
  discover,    \* whether it was made by ..._new, and not by ..._new_from
  module, module_id, retry_id, retry_after,
  pc,          \* idle, or inside infiltratr_temporal_calendar_module_open_id
  calendar_id, \* the identifier asked for
  module_path, \* the file its scan found
  result,      \* history: how the last call ended, for which identifier, by which module
  searched,    \* history: [Ids -> the time of the last search, if that failed]
  streak       \* history: the last search, if no other identifier was asked for since

provider == <<discover, module, module_id, retry_id, retry_after>>
history == <<result, searched, streak>>
vars == <<disk, now, discover, module, module_id, retry_id, retry_after, pc, calendar_id,
          module_path, result, searched, streak>>

Never == UInt64Max
Times == 0..LastTime
NoStreak == [id |-> NoId, time |-> Never]

TypeOK ==
  /\ disk \in Disks
  /\ now \in Times
  /\ discover \in BOOLEAN
  /\ module \in Modules \cup {None}
  /\ module_id \in Ids \cup {NoId}
  /\ retry_id \in (Ids \ Overlong) \cup {NoId}
  /\ retry_after \in 0..UInt64Max
  /\ pc \in {"idle", "scan", "open"}
  /\ calendar_id \in Ids \cup {NoId}
  /\ module_path \in Files \cup {0}
  /\ result \in [end : {"none", "shown", "unshown", "limited", "failed"},
                 id : Ids \cup {NoId}, by : Modules \cup {None}]
  /\ searched \in [Ids -> Times \cup {Never}]
  /\ streak \in [id : Ids \cup {NoId}, time : Times \cup {Never}]

\* infiltratr_temporal_posix_date_provider_new and ..._new_from
Init ==
  /\ disk \in Disks
  /\ now = 0
  /\ \/ discover = TRUE /\ module = None /\ module_id = NoId
     \/ discover = FALSE /\ module \in Runnable /\ module_id = IdOf[module]
  /\ retry_id = NoId
  /\ retry_after = 0
  /\ pc = "idle"
  /\ calendar_id = NoId
  /\ module_path = 0
  /\ result = [end |-> "none", id |-> NoId, by |-> None]
  /\ searched = [i \in Ids |-> Never]
  /\ streak = NoStreak

------------------------------------------------------------------------------

Matches(id) == module # None /\ module_id = id

\* The call returns; `by` is the module that rendered the date.
Return(end, id, by) ==
  /\ pc' = "idle"
  /\ result' = [end |-> end, id |-> id, by |-> by]

ClearModule ==
  /\ module' = None
  /\ module_id' = NoId

\* infiltratr_temporal_calendar_format: the module or the buffer may refuse.
Render(id, by) == Return("shown", id, by) \/ Return("unshown", id, None)

AnyIdRetried(id) == retry_id # NoId /\ now < retry_after \* mutant
NoLimit(id) == FALSE \* mutant
TooSoon(id) == retry_id = id /\ now < retry_after

Wrapped == (now + Minute) % (UInt64Max + 1) \* mutant
Later == IF now <= UInt64Max - Minute THEN now + Minute ELSE UInt64Max

\* Asking for another identifier ends a streak.
StreakOf(id) == IF streak.id = id THEN streak ELSE NoStreak

\* ensure_module up to infiltratr_temporal_calendar_module_open_id.
Call(id) ==
  /\ pc = "idle"
  /\ calendar_id' = id
  /\ \/ /\ Matches(id)
        /\ Render(id, module)
        /\ UNCHANGED provider
     \/ /\ ~Matches(id) /\ ~discover
        /\ Return("failed", id, None)
        /\ UNCHANGED provider
     \/ /\ ~Matches(id) /\ discover
        /\ ClearModule
        /\ UNCHANGED discover
        /\ \/ /\ Return("failed", id, None)  \* clock_gettime failed
              /\ UNCHANGED <<retry_id, retry_after>>
           \/ /\ TooSoon(id)
              /\ Return("limited", id, None)
              /\ UNCHANGED <<retry_id, retry_after>>
           \/ /\ ~TooSoon(id) /\ id \in Overlong
              /\ retry_id' = NoId
              /\ Return("failed", id, None)
              /\ UNCHANGED retry_after
           \/ /\ ~TooSoon(id) /\ id \notin Overlong
              /\ retry_id' = id
              /\ retry_after' = Later
              /\ pc' = "scan"
              /\ UNCHANGED result
  /\ searched' = IF pc' = "scan" THEN [searched EXCEPT ![id] = now] ELSE searched
  /\ streak' = IF pc' = "scan" THEN [id |-> id, time |-> now] ELSE StreakOf(id)
  /\ UNCHANGED <<disk, now, module_path>>

\* capture_calendar_path: the first file whose metadata has the identifier and
\* for whose path there is memory.
Holders(id) == {x \in Files : disk[x] # None /\ IdOf[disk[x]] = id}

Scan ==
  /\ pc = "scan"
  /\ \/ /\ \E x \in Holders(calendar_id) : module_path' = x
        /\ pc' = "open"
        /\ UNCHANGED result
     \/ /\ Return("failed", calendar_id, None)  \* none, or the scan failed
        /\ UNCHANGED module_path
  /\ UNCHANGED <<disk, now, provider, calendar_id, searched, streak>>

AnyModule(m) == m \in Runnable \* mutant: the identifier is not compared again
IsWanted(m) == m \in Runnable /\ IdOf[m] = calendar_id

\* infiltratr_temporal_calendar_module_open on that path, by now perhaps
\* another file, then the rest of ensure_module.
Open ==
  /\ pc = "open"
  /\ LET m == disk[module_path]
     IN  \/ /\ IsWanted(m)
            /\ module' = m
            /\ module_id' = calendar_id
            /\ retry_id' = NoId
            /\ retry_after' = 0
            /\ Render(calendar_id, m)
            /\ searched' = [searched EXCEPT ![calendar_id] = Never]
            /\ streak' = NoStreak
         \/ /\ Return("failed", calendar_id, None)  \* not wanted, or no memory
            /\ UNCHANGED <<module, module_id, retry_id, retry_after, searched, streak>>
  /\ UNCHANGED <<disk, now, discover, calendar_id, module_path>>

\* infiltratr_monotonic_nanoseconds goes on between calls and within them.
Tick ==
  /\ now < LastTime
  /\ now' = now + 1
  /\ UNCHANGED <<disk, provider, pc, calendar_id, module_path, history>>

ChangeDisk ==
  /\ disk' \in Disks \ {disk}
  /\ UNCHANGED <<now, provider, pc, calendar_id, module_path, history>>

Next == (\E id \in Ids : Call(id)) \/ Scan \/ Open \/ Tick \/ ChangeDisk

Spec == Init /\ [][Next]_vars

------------------------------------------------------------------------------
(* Properties.                                                               *)

\* A calendar never silently becomes another one: a date that is shown was
\* rendered by a runnable module of the identifier asked for, even when the
\* file was replaced between the scan and the opening.
NeverSubstituted ==
  result.end = "shown" => result.by \in Runnable /\ IdOf[result.by] = result.id

\* A calendar is refused unseen only when it was looked for less than a minute
\* ago, and not found: an installed one is found a minute later at the latest.
RefusalIsRecent ==
  [][result' # result /\ result'.end = "limited" =>
       LET last == searched[result'.id] IN last # Never /\ now < last + Minute]_vars

\* A consumer of one calendar that is missing searches once a minute at most.
OneConsumerSearchesOnce ==
  [][\A id \in Ids : pc = "idle" /\ pc' = "scan" /\ calendar_id' = id /\ streak.id = id =>
       now >= streak.time + Minute]_vars

\* Why they hold: the module in use is runnable and has the identifier noted for
\* it; the identifier noted as missing is the one searched for last, and the time
\* noted with it is a minute after that search.
SlotsAgree ==
  /\ module # None => module \in Runnable /\ module_id = IdOf[module]
  /\ pc # "idle" => module = None /\ calendar_id = retry_id /\ retry_id # NoId
  /\ retry_id # NoId => searched[retry_id] # Never /\ retry_after <= searched[retry_id] + Minute
  /\ streak.id # NoId =>
       /\ streak.id = retry_id /\ streak.time # Never
       /\ retry_after = UInt64Max \/ retry_after = streak.time + Minute

\* "A missing resource is retried at most once per minute for the same ID":
\* whatever else was asked for in between.
RetriedOncePerMinute ==
  [][\A id \in Ids : pc = "idle" /\ pc' = "scan" /\ calendar_id' = id /\ searched[id] # Never =>
       now >= searched[id] + Minute]_vars
==============================================================================
