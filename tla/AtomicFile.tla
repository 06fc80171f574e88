------------------------------ MODULE AtomicFile ------------------------------
(***************************************************************************)
(* infiltratr_atomic_file_write and infiltratr_unlink_durable (posix.c):   *)
(* calls made by any number of threads and processes on one target name,   *)
(* one action per system call, each of which may fail.  A process may die  *)
(* and the machine may lose power between any two of them.                 *)
(*                                                                         *)
(* The file system is external.  It keeps a volatile and a stored copy of  *)
(* every file and directory entry: fsync of a file settles its contents,   *)
(* fsync of a directory its entries, and a power loss leaves each unsettled*)
(* item at any value it had since it was last settled.                     *)
(***************************************************************************)
CONSTANTS
  Writers,     \* calls of infiltratr_atomic_file_write; each also names its temporary file
  Preserving,  \* the writers that pass INFILTRATR_ATOMIC_FILE_PRESERVE_PERMISSIONS
  Unlinkers,   \* calls of infiltratr_unlink_durable; each also names the absence it creates
  MissingOk,   \* the unlinkers that pass missing_ok
  Original,    \* the file that may be at the target before any call
  Absent,      \* no file there, before any call
  Dirs, NoDir, \* the directories there are, and none
  Paths,       \* those the parent path may come to name while calls run
  TempNames, NoName, \* names mkostemp may draw, and none drawn
  Faults       \* the steps whose system call may fail for a reason of its own

Calls == Writers \cup Unlinkers
Inodes == Writers \cup {Original}
Versions == Calls \cup {Original, Absent}
Contents == {"partial", "complete"}
Modes == {"owner", "wide"}

Steps == {"open", "sample", "create", "verify", "chmod", "writer", "flush", "sync",
          "close", "rename", "unlink", "syncdir", "cleanup", "closedir"}
Returned == {"ok", "failed"}

ASSUME CallAssumption ==
  /\ Preserving \subseteq Writers
  /\ MissingOk \subseteq Unlinkers
  /\ Writers \cap Unlinkers = {}
  /\ Original \notin Calls
  /\ Absent \notin Calls \cup {Original}
  /\ NoDir \notin Dirs
  /\ Paths \subseteq Dirs \cup {NoDir}
  /\ NoName \notin TempNames
  /\ Faults \subseteq Steps

VARIABLES
  \* the file system
  path,          \* the directory the parent path resolves to
  target,        \* [Dirs -> Versions]: what the target name holds
  undoable,      \* [Dirs -> SUBSET Versions]: what it may fall back to
  temps,         \* [Dirs -> [TempNames -> Inodes or Absent]]: the temporary entries
  tempsUndoable, \* what each of them may fall back to
  data,          \* [Inodes -> Contents]: what a reader of the file gets
  stored,        \* [Inodes -> SUBSET Contents]: what a power loss may leave of it
  perm,          \* [Inodes -> Modes]: whether others than the owner may read it
  \* the calls
  pc, dir, temp, mode, anchored, failed,
  older          \* history: what each call's rename or unlink superseded

fs == <<path, target, undoable, temps, tempsUndoable, data, stored, perm>>
vars == <<path, target, undoable, temps, tempsUndoable, data, stored, perm,
          pc, dir, temp, mode, anchored, failed, older>>

IsFile(v) == v \in Inodes
InProgress(c) == pc[c] \in Steps \ {"open"}
Bound(c) == older[c] # {}
MayFail(step) == step \in Faults

TypeOK ==
  /\ path \in Paths
  /\ target \in [Dirs -> Versions]
  /\ undoable \in [Dirs -> SUBSET Versions]
  /\ temps \in [Dirs -> [TempNames -> Inodes \cup {Absent}]]
  /\ tempsUndoable \in [Dirs -> [TempNames -> SUBSET (Inodes \cup {Absent})]]
  /\ data \in [Inodes -> Contents]
  /\ stored \in [Inodes -> SUBSET Contents]
  /\ perm \in [Inodes -> Modes]
  /\ pc \in [Calls -> Steps \cup Returned \cup {"dead"}]
  /\ dir \in [Calls -> Dirs \cup {NoDir}]
  /\ temp \in [Calls -> TempNames \cup {NoName}]
  /\ mode \in [Calls -> Modes]
  /\ anchored \in [Calls -> BOOLEAN]
  /\ failed \in [Calls -> BOOLEAN]
  /\ older \in [Calls -> SUBSET Versions]

Init ==
  /\ path \in Paths
  /\ target \in [Dirs -> {Original, Absent}]
  /\ undoable = [d \in Dirs |-> {}]
  /\ temps = [d \in Dirs |-> [t \in TempNames |-> Absent]]
  /\ tempsUndoable = [d \in Dirs |-> [t \in TempNames |-> {}]]
  /\ data = [i \in Inodes |-> "complete"]
  /\ stored = [i \in Inodes |-> {"complete"}]
  /\ \E m \in Modes : perm = [i \in Inodes |-> IF i = Original THEN m ELSE "owner"]
  /\ pc = [c \in Calls |-> "open"]
  /\ dir = [c \in Calls |-> NoDir]
  /\ temp = [c \in Calls |-> NoName]
  /\ mode = [c \in Calls |-> "owner"]
  /\ anchored = [c \in Calls |-> FALSE]
  /\ failed = [c \in Calls |-> FALSE]
  /\ older = [c \in Calls |-> {}]

------------------------------------------------------------------------------
(* File-system operations: a change of an entry keeps the old value undoable. *)

SetTarget(c, v) ==
  /\ target' = [target EXCEPT ![dir[c]] = v]
  /\ undoable' = [undoable EXCEPT ![dir[c]] = @ \cup {target[dir[c]]}]
  /\ older' = [older EXCEPT ![c] = undoable[dir[c]] \cup {target[dir[c]]}]

SetTemp(d, t, i) ==
  /\ temps' = [temps EXCEPT ![d][t] = i]
  /\ tempsUndoable' = [tempsUndoable EXCEPT ![d][t] = @ \cup {temps[d][t]}]

\* What the opened directory holds under the name the call drew.
TempEntry(c) == IF temp[c] = NoName THEN Absent ELSE temps[dir[c]][temp[c]]

\* Names drawn by writers that renamed theirs away and have not returned.  A
\* name is drawn at random from 62^6; mkostemp is taken never to draw one of
\* these few, while it may draw any other that O_EXCL lets through.
JustReleased == {temp[c] : c \in {w \in Writers : Bound(w) /\ InProgress(w)}}

Goto(c, step) == pc' = [pc EXCEPT ![c] = step]

ForgetFailure(c, next) == Goto(c, next) /\ UNCHANGED failed \* mutant

\* A step fails: the first failure decides, and control goes to `next`.
FailTo(c, next) ==
  /\ failed' = [failed EXCEPT ![c] = TRUE]
  /\ Goto(c, next)

------------------------------------------------------------------------------
(* Both calls: open the parent directory.                                    *)

OpenParent(c) ==
  /\ pc[c] = "open"
  /\ \/ /\ path # NoDir
        /\ dir' = [dir EXCEPT ![c] = path]
        /\ Goto(c, IF c \in Writers THEN "sample" ELSE "unlink")
     \/ /\ path = NoDir  \* ENOENT
        /\ Goto(c, IF c \in MissingOk THEN "ok" ELSE "failed")
        /\ UNCHANGED dir
     \/ /\ MayFail("open")
        /\ Goto(c, "failed")
        /\ UNCHANGED dir
  /\ UNCHANGED <<fs, temp, mode, anchored, failed, older>>

------------------------------------------------------------------------------
(* infiltratr_atomic_file_write                                              *)

\* The permissions of the file at the target, for all others those of a new file.
TargetMode(c) ==
  LET t == target[dir[c]] IN IF IsFile(t) THEN perm[t] ELSE "owner"

\* atomic_completed_mode_at: a preserving writer copies the permissions of the
\* regular file at the target, found through the opened directory.
CompletedMode(c) == IF c \in Preserving THEN TargetMode(c) ELSE "owner"

SampleMode(c) ==
  /\ pc[c] = "sample"
  /\ \/ /\ mode' = [mode EXCEPT ![c] = CompletedMode(c)]
        /\ Goto(c, "create")
        /\ UNCHANGED failed
     \/ /\ c \in Preserving /\ MayFail("sample")
        /\ FailTo(c, "cleanup")
        /\ UNCHANGED mode
  /\ UNCHANGED <<fs, dir, temp, anchored, older>>

\* mkostemp resolves the parent path again: O_EXCL gives a new empty file, mode
\* 0600, under a name that is free in the directory the path names now.
CreateTemporary(c) ==
  /\ pc[c] = "create"
  /\ \/ /\ path # NoDir
        /\ \E t \in TempNames \ JustReleased :
             /\ temps[path][t] = Absent
             /\ SetTemp(path, t, c)
             /\ temp' = [temp EXCEPT ![c] = t]
        /\ data' = [data EXCEPT ![c] = "partial"]
        /\ stored' = [stored EXCEPT ![c] = {"partial"}]
        /\ perm' = [perm EXCEPT ![c] = "owner"]
        /\ Goto(c, "verify")
        /\ UNCHANGED failed
     \/ /\ MayFail("create") \/ path = NoDir
        /\ FailTo(c, "cleanup")
        /\ UNCHANGED <<temp, temps, tempsUndoable, data, stored, perm>>
  /\ UNCHANGED <<path, target, undoable, dir, mode, anchored, older>>

AnyEntry(c) == TempEntry(c) # Absent \* mutant: only its existence is checked

\* atomic_verify_temporary: the entry of that name in the opened directory is
\* the file that was just created.
IsOwnEntry(c) == TempEntry(c) = c

VerifyTemporary(c) ==
  /\ pc[c] = "verify"
  /\ \/ /\ IsOwnEntry(c)
        /\ anchored' = [anchored EXCEPT ![c] = TRUE]
        /\ Goto(c, "chmod")
        /\ UNCHANGED failed
     \/ /\ ~IsOwnEntry(c) \/ MayFail("verify")
        /\ FailTo(c, "cleanup")
        /\ UNCHANGED anchored
  /\ UNCHANGED <<fs, dir, temp, mode, older>>

\* fchmod, then fdopen.
SetMode(c) ==
  /\ pc[c] = "chmod"
  /\ \/ /\ perm' = [perm EXCEPT ![c] = mode[c]]
        /\ Goto(c, "writer")
        /\ UNCHANGED failed
     \/ /\ MayFail("chmod")
        /\ \E m \in {perm[c], mode[c]} : perm' = [perm EXCEPT ![c] = m]
        /\ FailTo(c, "cleanup")
  /\ UNCHANGED <<path, target, undoable, temps, tempsUndoable, data, stored,
                 dir, temp, mode, anchored, older>>

\* The writer callback fills the stdio buffer; any part may already be in the
\* file, and any part of that may already be stored.
RunWriter(c) ==
  /\ pc[c] = "writer"
  /\ \E d \in Contents : data' = [data EXCEPT ![c] = d]
  /\ stored' = [stored EXCEPT ![c] = Contents]
  /\ \/ Goto(c, "flush") /\ UNCHANGED failed
     \/ MayFail("writer") /\ FailTo(c, "close")
  /\ UNCHANGED <<path, target, undoable, temps, tempsUndoable, perm,
                 dir, temp, mode, anchored, older>>

\* atomic_finish_stream: ferror and fflush, then fsync, then fclose, which also
\* runs after a failure and then still writes what is buffered.
FlushStream(c) ==
  /\ pc[c] = "flush"
  /\ \/ /\ data' = [data EXCEPT ![c] = "complete"]
        /\ Goto(c, "sync")
        /\ UNCHANGED failed
     \/ /\ MayFail("flush")
        /\ \E d \in Contents : data' = [data EXCEPT ![c] = d]
        /\ FailTo(c, "close")
  /\ UNCHANGED <<path, target, undoable, temps, tempsUndoable, stored, perm,
                 dir, temp, mode, anchored, older>>

SkipSync(c) == UNCHANGED stored \* mutant
Settle(c) == stored' = [stored EXCEPT ![c] = {data[c]}]

SyncFile(c) ==
  /\ pc[c] = "sync"
  /\ \/ /\ Settle(c)
        /\ Goto(c, "close")
        /\ UNCHANGED failed
     \/ /\ MayFail("sync")
        /\ FailTo(c, "close")
        /\ UNCHANGED stored
  /\ UNCHANGED <<path, target, undoable, temps, tempsUndoable, data, perm,
                 dir, temp, mode, anchored, older>>

CloseDecides(c) == TRUE \* mutant: only the outcome of fclose decides
StreamComplete(c) == ~failed[c]

CloseStream(c) ==
  /\ pc[c] = "close"
  /\ IF failed[c]
       THEN \E d \in Contents : data' = [data EXCEPT ![c] = d]
       ELSE UNCHANGED data
  /\ \/ StreamComplete(c) /\ Goto(c, "rename") /\ UNCHANGED failed
     \/ (failed[c] \/ MayFail("close")) /\ FailTo(c, "cleanup")
  /\ UNCHANGED <<path, target, undoable, temps, tempsUndoable, stored, perm,
                 dir, temp, mode, anchored, older>>

\* renameat publishes whatever file the temporary name holds by now.
Rename(c) ==
  /\ pc[c] = "rename"
  /\ LET d == dir[c]
         i == TempEntry(c)
     IN  \/ /\ i # Absent
            /\ SetTarget(c, i)
            /\ SetTemp(d, temp[c], Absent)
            /\ Goto(c, "syncdir")
            /\ UNCHANGED failed
         \/ /\ i = Absent \/ MayFail("rename")
            /\ FailTo(c, "cleanup")
            /\ UNCHANGED <<target, undoable, temps, tempsUndoable, older>>
  /\ UNCHANGED <<path, data, stored, perm, dir, temp, mode, anchored>>

MayUnlinkAnything(c) == TRUE \* mutant: the anchored flag is not consulted

\* The failure path: the temporary name is unlinked only when it was verified.
\* Its own failure is ignored.
MayUnlink(c) == anchored[c]

Cleanup(c) ==
  /\ pc[c] = "cleanup"
  /\ \/ /\ MayUnlink(c) /\ TempEntry(c) # Absent
        /\ SetTemp(dir[c], temp[c], Absent)
     \/ /\ ~MayUnlink(c) \/ TempEntry(c) = Absent \/ MayFail("cleanup")
        /\ UNCHANGED <<temps, tempsUndoable>>
  /\ Goto(c, "closedir")
  /\ UNCHANGED <<path, target, undoable, data, stored, perm,
                 dir, temp, mode, anchored, failed, older>>

------------------------------------------------------------------------------
(* infiltratr_unlink_durable                                                 *)

WithoutSync(c) == "closedir" \* mutant
AfterUnlink(c) == "syncdir"

UnlinkEntry(c) ==
  /\ pc[c] = "unlink"
  /\ \/ /\ target[dir[c]] \in Inodes
        /\ SetTarget(c, c)
        /\ Goto(c, AfterUnlink(c))
     \/ /\ target[dir[c]] \notin Inodes  \* ENOENT: returned without a sync
        /\ Goto(c, IF c \in MissingOk THEN "ok" ELSE "failed")
        /\ UNCHANGED <<target, undoable, older>>
     \/ /\ MayFail("unlink")
        /\ Goto(c, "failed")
        /\ UNCHANGED <<target, undoable, older>>
  /\ UNCHANGED <<path, temps, tempsUndoable, data, stored, perm,
                 dir, temp, mode, anchored, failed>>

------------------------------------------------------------------------------
(* Both calls: settle the directory, close it, return.                       *)

SyncDirectory(c) ==
  /\ pc[c] = "syncdir"
  /\ \/ /\ undoable' = [undoable EXCEPT ![dir[c]] = {}]
        /\ tempsUndoable' = [tempsUndoable EXCEPT ![dir[c]] = [t \in TempNames |-> {}]]
        /\ Goto(c, "closedir")
        /\ UNCHANGED failed
     \/ /\ MayFail("syncdir")
        /\ FailTo(c, IF c \in Writers THEN "cleanup" ELSE "closedir")
        /\ UNCHANGED <<undoable, tempsUndoable>>
  /\ UNCHANGED <<path, target, temps, data, stored, perm,
                 dir, temp, mode, anchored, older>>

CloseParent(c) ==
  /\ pc[c] = "closedir"
  /\ \/ ~failed[c] /\ Goto(c, "ok")
     \/ (failed[c] \/ MayFail("closedir")) /\ Goto(c, "failed")
  /\ UNCHANGED <<fs, dir, temp, mode, anchored, failed, older>>

------------------------------------------------------------------------------
(* The environment.                                                          *)

\* The process that made the call dies; what it did so far stays.
Die(c) ==
  /\ InProgress(c)
  /\ Goto(c, "dead")
  /\ UNCHANGED <<fs, dir, temp, mode, anchored, failed, older>>

\* The machine stops and restarts: every call in progress is gone, and every
\* unsettled item of the file system holds some value it had since its sync.
PowerLoss ==
  /\ target' \in [Dirs -> Versions]
  /\ \A d \in Dirs : target'[d] \in undoable[d] \cup {target[d]}
  /\ undoable' = [d \in Dirs |-> {}]
  /\ temps' \in [Dirs -> [TempNames -> Inodes \cup {Absent}]]
  /\ \A d \in Dirs, t \in TempNames : temps'[d][t] \in tempsUndoable[d][t] \cup {temps[d][t]}
  /\ tempsUndoable' = [d \in Dirs |-> [t \in TempNames |-> {}]]
  /\ data' \in [Inodes -> Contents]
  /\ \A i \in Inodes : data'[i] \in stored[i]
  /\ stored' = [i \in Inodes |-> {data'[i]}]
  /\ pc' = [c \in Calls |-> IF InProgress(c) THEN "dead" ELSE pc[c]]
  /\ UNCHANGED <<path, perm, dir, temp, mode, anchored, failed, older>>

\* Somebody renames the directories, so that the parent path names another one.
MoveParent ==
  /\ path' \in Paths \ {path}
  /\ UNCHANGED <<target, undoable, temps, tempsUndoable, data, stored, perm,
                 pc, dir, temp, mode, anchored, failed, older>>

WriteStep(c) ==
  \/ SampleMode(c) \/ CreateTemporary(c) \/ VerifyTemporary(c) \/ SetMode(c)
  \/ RunWriter(c) \/ FlushStream(c) \/ SyncFile(c) \/ CloseStream(c)
  \/ Rename(c) \/ Cleanup(c)

CallStep(c) ==
  \/ OpenParent(c)
  \/ c \in Writers /\ WriteStep(c)
  \/ c \in Unlinkers /\ UnlinkEntry(c)
  \/ SyncDirectory(c) \/ CloseParent(c)

Next ==
  \/ \E c \in Calls : CallStep(c) \/ Die(c)
  \/ PowerLoss
  \/ MoveParent

Spec == Init /\ [][Next]_vars

------------------------------------------------------------------------------
(* Properties.                                                               *)

\* The versions of the target in d that exist now or after a power loss.
Reachable(d) == undoable[d] \cup {target[d]}

\* No reader ever finds a half-written target, at no moment of any call and not
\* after a power loss either: every file the name holds or may fall back to is
\* complete, in memory and on the medium.
TargetComplete ==
  \A d \in Dirs : \A v \in Reachable(d) :
    IsFile(v) => data[v] = "complete" /\ stored[v] = {"complete"}

\* Zero is a promise: once a write returned zero, or an unlink that removed
\* something, nothing that was at the target before can return.
SuccessIsDurable ==
  \A c \in Calls :
    pc[c] = "ok" =>
      /\ c \in Writers => Bound(c)
      /\ Bound(c) => older[c] \cap Reachable(dir[c]) = {}

\* A new file reaches the target by its own writer's rename only, never by
\* another writer that mistook the name for its own.
PublishedByOwner ==
  \A d \in Dirs : \A v \in Reachable(d) : v \in Calls => Bound(v) /\ dir[v] = d

\* A write that returned zero leaves no temporary behind, and no power loss
\* brings one back.
SuccessLeavesNoTemporary ==
  \A w \in Writers : pc[w] = "ok" =>
    \A d \in Dirs, t \in TempNames : w \notin tempsUndoable[d][t] \cup {temps[d][t]}

\* What a PRIVATE writer writes is never readable by others, while it is
\* written or later, whatever the preserving writers beside it do; and only a
\* target that was readable by others makes a file that is.
PrivateStaysPrivate ==
  \A w \in Writers :
    perm[w] = "wide" => w \in Preserving /\ perm[Original] = "wide"

\* As long as a write is in progress, no other call's rename or cleanup takes
\* its temporary entry away.
TemporaryIsKept ==
  [][\A w \in Writers : InProgress(w) /\ pc'[w] = pc[w] =>
       \A d \in Dirs, t \in TempNames : temps[d][t] = w => temps'[d][t] = w]_vars

------------------------------------------------------------------------------
(* The calls implement DurableFile: a version counts only when it is whole.  *)

Torn == "torn"
Whole(v) ==
  IF IsFile(v) /\ ~(data[v] = "complete" /\ stored[v] = {"complete"}) THEN Torn ELSE v

Abstract == INSTANCE DurableFile WITH
  current  <- [d \in Dirs |-> Whole(target[d])],
  undoable <- [d \in Dirs |-> {Whole(v) : v \in undoable[d]}],
  replaced <- [c \in Calls |-> {dir[c]} \X older[c]],
  outcome  <- [c \in Calls |-> IF pc[c] \in Returned \cup {"dead"} THEN pc[c] ELSE "pending"]

\* Seen from outside, the calls are the atomic replacements and removals of
\* DurableFile.
ImplementsDurableFile == Abstract!Spec
==============================================================================
