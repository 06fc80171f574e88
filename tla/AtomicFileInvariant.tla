-------------------------- MODULE AtomicFileInvariant --------------------------
(***************************************************************************)
(* The inductive invariant of AtomicFile: why the properties hold.  A      *)
(* writer's temporary entry is its own from the verification to the        *)
(* rename, the file under it is complete and stored before the rename, and *)
(* nothing a call superseded survives the directory sync of that call.     *)
(***************************************************************************)
EXTENDS AtomicFile

\* The steps at which a writer works on its verified temporary file.
Filling == {"chmod", "writer", "flush", "sync", "close", "rename"}
BeforeBinding == Filling \cup {"open", "sample", "create", "verify", "unlink"}

\* The call reached its return without a failure.
Settled(c) == pc[c] = "ok" \/ (pc[c] = "closedir" /\ ~failed[c])

\* The inode of w is, or may again be, under name t of directory d.
Occurs(w, d, t) == w \in tempsUndoable[d][t] \cup {temps[d][t]}

\* Where a call is determines what it knows and whether it failed.
ControlOf(c) ==
  /\ InProgress(c) \/ Bound(c) => dir[c] \in Dirs
  /\ c \in Writers => pc[c] # "unlink"
  /\ c \in Unlinkers => pc[c] \in {"open", "unlink", "syncdir", "closedir", "ok", "failed", "dead"}
  /\ pc[c] \in (Filling \ {"close"}) \cup {"syncdir"} => ~failed[c]
  /\ pc[c] \in {"open", "sample", "create", "verify", "unlink"} => ~failed[c] /\ ~anchored[c]
  /\ pc[c] = "cleanup" => failed[c]
  /\ c \in Writers /\ pc[c] \in Filling \cup {"syncdir"} => anchored[c]
  /\ c \in Writers /\ (pc[c] = "verify" \/ anchored[c]) => temp[c] \in TempNames
Control == \A c \in Calls : ControlOf(c)

\* A call changes the target once, by the step before its directory sync.
BindingOf(c) ==
  /\ pc[c] \in BeforeBinding => ~Bound(c)
  /\ pc[c] = "syncdir" => Bound(c)
  /\ c \in Writers /\ Settled(c) => Bound(c)
Binding == \A c \in Calls : BindingOf(c)

\* The verified name holds the writer's own file until the writer renames it,
\* and nothing from then on.
OwnEntryOf(w) ==
  anchored[w] /\ pc[w] \in Filling \cup {"syncdir", "cleanup"} =>
    TempEntry(w) = IF Bound(w) THEN Absent ELSE w
OwnEntry == \A w \in Writers : OwnEntryOf(w)

\* A writer's file has one name at most, the one it drew, and once that was
\* verified in the directory it opened.
TraceOf(w) ==
  /\ pc[w] \in {"open", "sample", "create"} => \A d \in Dirs, t \in TempNames : ~Occurs(w, d, t)
  /\ \A d \in Dirs, t \in TempNames : Occurs(w, d, t) =>
       /\ t = temp[w]
       /\ anchored[w] => d = dir[w]
       /\ \A e \in Dirs : Occurs(w, e, t) => e = d
  /\ Settled(w) => \A d \in Dirs, t \in TempNames : ~Occurs(w, d, t)
Traces == \A w \in Writers : TraceOf(w)

\* The file is complete before the sync and stored before the rename.
IsStored(i) == data[i] = "complete" /\ stored[i] = {"complete"}
StoredFirstOf(w) ==
  /\ pc[w] = "sync" => data[w] = "complete"
  /\ pc[w] = "rename" \/ (pc[w] = "close" /\ ~failed[w]) => IsStored(w)
StoredFirst == \A w \in Writers : StoredFirstOf(w)

\* What a call superseded is older than every change still to come, and gone
\* for good once the call settled.
SupersedesOf(c) ==
  /\ \A v \in older[c] : v \in Calls => Bound(v)
  /\ Bound(c) /\ InProgress(c) => target[dir[c]] \notin older[c]
  /\ Bound(c) /\ Settled(c) => older[c] \cap Reachable(dir[c]) = {}
Supersedes == \A c \in Calls : SupersedesOf(c)

\* A file others may read descends from a target others could read.
ModesInherited ==
  \A w \in Writers :
    perm[w] = "wide" \/ mode[w] = "wide" => w \in Preserving /\ perm[Original] = "wide"

\* All of it: an induction that holds of every state and implies the safety
\* properties of AtomicFile.
IInv ==
  /\ Control
  /\ Binding
  /\ OwnEntry
  /\ Traces
  /\ PublishedByOwner
  /\ StoredFirst
  /\ TargetComplete
  /\ Supersedes
  /\ ModesInherited
==============================================================================
