----------------------------- MODULE DurableFile -----------------------------
(***************************************************************************)
(* What infiltratr_atomic_file_write and infiltratr_unlink_durable promise *)
(* about one target name, stated without any system call.                  *)
(*                                                                         *)
(* The target always holds one version.  A version is named by the call    *)
(* that installed it: a complete file for a writer, an absence for an      *)
(* unlinker.  Versions not yet known to be durable can be undone by a      *)
(* power loss, and a call reports success only when no version older than  *)
(* its own can come back.                                                  *)
(***************************************************************************)
CONSTANTS
  Calls,     \* the calls that will be made, each a version of its own
  Versions,  \* Calls and the versions that were there before
  Dirs       \* directories the target name may be resolved in

VARIABLES
  current,   \* [Dirs -> Versions]: the version a reader finds now
  undoable,  \* [Dirs -> SUBSET Versions]: earlier versions a power loss may restore
  replaced,  \* [Calls -> SUBSET (Dirs \X Versions)]: what each call superseded
  outcome    \* [Calls -> {"pending", "ok", "failed", "dead"}]

vars == <<current, undoable, replaced, outcome>>

Init ==
  /\ current \in [Dirs -> Versions \ Calls]
  /\ undoable = [d \in Dirs |-> {}]
  /\ replaced = [c \in Calls |-> {}]
  /\ outcome = [c \in Calls |-> "pending"]

\* The version of a pending call takes effect in one step, once.
Install(c, d) ==
  /\ outcome[c] = "pending"
  /\ replaced[c] = {}
  /\ current' = [current EXCEPT ![d] = c]
  /\ undoable' = [undoable EXCEPT ![d] = @ \cup {current[d]}]
  /\ replaced' = [replaced EXCEPT ![c] = {d} \X (undoable[d] \cup {current[d]})]
  /\ UNCHANGED outcome

\* The current version becomes durable.
Persist(d) ==
  /\ undoable' = [undoable EXCEPT ![d] = {}]
  /\ UNCHANGED <<current, replaced, outcome>>

\* A call reports success only when what it replaced cannot return.
Succeed(c) ==
  /\ outcome[c] = "pending"
  /\ \A d \in Dirs : \A v \in undoable[d] \cup {current[d]} : <<d, v>> \notin replaced[c]
  /\ outcome' = [outcome EXCEPT ![c] = "ok"]
  /\ UNCHANGED <<current, undoable, replaced>>

\* A call may fail before or after its version took effect, or never return.
Fail(c) ==
  /\ outcome[c] = "pending"
  /\ \E o \in {"failed", "dead"} : outcome' = [outcome EXCEPT ![c] = o]
  /\ UNCHANGED <<current, undoable, replaced>>

\* Every call in progress is lost and each directory falls back to a version
\* it held since it was last made durable.
PowerLoss ==
  /\ current' \in [Dirs -> Versions]
  /\ \A d \in Dirs : current'[d] \in undoable[d] \cup {current[d]}
  /\ undoable' = [d \in Dirs |-> {}]
  /\ \E lost \in SUBSET {c \in Calls : outcome[c] = "pending"} :
       outcome' = [c \in Calls |-> IF c \in lost THEN "dead" ELSE outcome[c]]
  /\ UNCHANGED replaced

Next ==
  \/ \E c \in Calls, d \in Dirs : Install(c, d)
  \/ \E d \in Dirs : Persist(d)
  \/ \E c \in Calls : Succeed(c) \/ Fail(c)
  \/ PowerLoss

Spec == Init /\ [][Next]_vars
==============================================================================
