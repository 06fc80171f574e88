--------------------------- MODULE AtomicFileProofs ---------------------------
(***************************************************************************)
(* Proofs about AtomicFile, for any numbers of writers, unlinkers,         *)
(* directories and temporary names and any set of faults: its types, the   *)
(* inductive invariant of AtomicFileInvariant and the safety properties    *)
(* that follow from it, and that it implements DurableFile.                *)
(***************************************************************************)
EXTENDS AtomicFileInvariant, TLAPS

(* Types.                                                                  *)

\* A call in progress has opened its parent directory.
Opened == \A c \in Calls : InProgress(c) => dir[c] \in Dirs

LEMMA SetTempTyped ==
  ASSUME TypeOK, NEW d \in Dirs, NEW t \in TempNames, NEW i \in Inodes \cup {Absent}, SetTemp(d, t, i)
  PROVE  /\ temps' \in [Dirs -> [TempNames -> Inodes \cup {Absent}]]
         /\ tempsUndoable' \in [Dirs -> [TempNames -> SUBSET (Inodes \cup {Absent})]]
<1> USE DEF TypeOK
<1>1. [temps[d] EXCEPT ![t] = i] \in [TempNames -> Inodes \cup {Absent}]
  OBVIOUS
<1>2. [tempsUndoable[d] EXCEPT ![t] = @ \cup {temps[d][t]}]
        \in [TempNames -> SUBSET (Inodes \cup {Absent})]
  <2>1. temps[d][t] \in Inodes \cup {Absent}
    OBVIOUS
  <2>2. tempsUndoable[d][t] \cup {temps[d][t]} \in SUBSET (Inodes \cup {Absent})
    BY <2>1
  <2> QED
    BY <2>2
<1>3. temps' = [temps EXCEPT ![d] = [temps[d] EXCEPT ![t] = i]]
  BY DEF SetTemp
<1>4. tempsUndoable' =
        [tempsUndoable EXCEPT ![d] = [tempsUndoable[d] EXCEPT ![t] = @ \cup {temps[d][t]}]]
  BY DEF SetTemp
<1> QED
  BY <1>1, <1>2, <1>3, <1>4

LEMMA SetTargetTyped ==
  ASSUME TypeOK, NEW c \in Calls, dir[c] \in Dirs, NEW v \in Versions, SetTarget(c, v)
  PROVE  /\ target' \in [Dirs -> Versions]
         /\ undoable' \in [Dirs -> SUBSET Versions]
         /\ older' \in [Calls -> SUBSET Versions]
<1> USE DEF TypeOK
<1>1. undoable[dir[c]] \cup {target[dir[c]]} \in SUBSET Versions
  OBVIOUS
<1> QED
  BY <1>1 DEF SetTarget

\* The domains the variables keep: every state of every execution is of the
\* form the system calls and the locals of posix.c can take.
LEMMA StepTyped == TypeOK /\ Opened /\ [Next]_vars => TypeOK'
<1> SUFFICES ASSUME TypeOK, Opened, [Next]_vars PROVE TypeOK'
  OBVIOUS
<1> USE DEF TypeOK, Goto, FailTo
<1>1. ASSUME NEW c \in Calls, OpenParent(c) PROVE TypeOK'
  <2>1. pc' \in [Calls -> Steps \cup Returned \cup {"dead"}]
    BY <1>1 DEF OpenParent, Steps, Returned
  <2>2. dir' \in [Calls -> Dirs \cup {NoDir}]
    BY <1>1, CallAssumption DEF OpenParent
  <2> QED
    BY <1>1, <2>1, <2>2 DEF OpenParent, fs
<1>2. ASSUME NEW c \in Writers, SampleMode(c) PROVE TypeOK'
  <2>1. pc' \in [Calls -> Steps \cup Returned \cup {"dead"}]
    BY <1>2 DEF SampleMode, Steps, Calls
  <2>2. mode' \in [Calls -> Modes]
    BY <1>2 DEF SampleMode, Calls, CompletedMode, TargetMode, IsFile, Modes
  <2>3. failed' \in [Calls -> BOOLEAN]
    BY <1>2 DEF SampleMode, Calls
  <2> QED
    BY <1>2, <2>1, <2>2, <2>3 DEF SampleMode, fs
<1>3. ASSUME NEW c \in Writers, CreateTemporary(c) PROVE TypeOK'
  <2>1. pc' \in [Calls -> Steps \cup Returned \cup {"dead"}]
    BY <1>3 DEF CreateTemporary, Steps, Calls
  <2>2. /\ temps' \in [Dirs -> [TempNames -> Inodes \cup {Absent}]]
        /\ tempsUndoable' \in [Dirs -> [TempNames -> SUBSET (Inodes \cup {Absent})]]
    <3>1. CASE path # NoDir /\ \E t \in TempNames : SetTemp(path, t, c)
      BY <3>1, SetTempTyped, CallAssumption DEF Inodes
    <3>2. CASE UNCHANGED <<temps, tempsUndoable>>
      BY <3>2
    <3> QED
      BY <1>3, <3>1, <3>2 DEF CreateTemporary
  <2>4. temp' \in [Calls -> TempNames \cup {NoName}]
    BY <1>3 DEF CreateTemporary, Calls
  <2>5. data' \in [Inodes -> Contents]
    BY <1>3 DEF CreateTemporary, Inodes, Contents
  <2>6. stored' \in [Inodes -> SUBSET Contents]
    BY <1>3 DEF CreateTemporary, Inodes, Contents
  <2>7. perm' \in [Inodes -> Modes]
    BY <1>3 DEF CreateTemporary, Inodes, Modes
  <2>8. failed' \in [Calls -> BOOLEAN]
    BY <1>3 DEF CreateTemporary, Calls
  <2> QED
    BY <1>3, <2>1, <2>2, <2>4, <2>5, <2>6, <2>7, <2>8 DEF CreateTemporary
<1>4. ASSUME NEW c \in Writers, VerifyTemporary(c) PROVE TypeOK'
  <2>1. pc' \in [Calls -> Steps \cup Returned \cup {"dead"}]
    BY <1>4 DEF VerifyTemporary, Steps, Calls
  <2>2. anchored' \in [Calls -> BOOLEAN]
    BY <1>4 DEF VerifyTemporary, Calls
  <2>3. failed' \in [Calls -> BOOLEAN]
    BY <1>4 DEF VerifyTemporary, Calls
  <2> QED
    BY <1>4, <2>1, <2>2, <2>3 DEF VerifyTemporary, fs
<1>5. ASSUME NEW c \in Writers, SetMode(c) PROVE TypeOK'
  <2>1. pc' \in [Calls -> Steps \cup Returned \cup {"dead"}]
    BY <1>5 DEF SetMode, Steps, Calls
  <2>2. perm' \in [Inodes -> Modes]
    BY <1>5 DEF SetMode, Inodes, Calls
  <2>3. failed' \in [Calls -> BOOLEAN]
    BY <1>5 DEF SetMode, Calls
  <2> QED
    BY <1>5, <2>1, <2>2, <2>3 DEF SetMode
<1>6. ASSUME NEW c \in Writers, RunWriter(c) PROVE TypeOK'
  <2>1. pc' \in [Calls -> Steps \cup Returned \cup {"dead"}]
    BY <1>6 DEF RunWriter, Steps, Calls
  <2>2. data' \in [Inodes -> Contents]
    BY <1>6 DEF RunWriter, Inodes
  <2>3. stored' \in [Inodes -> SUBSET Contents]
    BY <1>6 DEF RunWriter, Inodes
  <2>4. failed' \in [Calls -> BOOLEAN]
    BY <1>6 DEF RunWriter, Calls
  <2> QED
    BY <1>6, <2>1, <2>2, <2>3, <2>4 DEF RunWriter
<1>7. ASSUME NEW c \in Writers, FlushStream(c) PROVE TypeOK'
  <2>1. pc' \in [Calls -> Steps \cup Returned \cup {"dead"}]
    BY <1>7 DEF FlushStream, Steps, Calls
  <2>2. data' \in [Inodes -> Contents]
    BY <1>7 DEF FlushStream, Inodes, Contents
  <2>3. failed' \in [Calls -> BOOLEAN]
    BY <1>7 DEF FlushStream, Calls
  <2> QED
    BY <1>7, <2>1, <2>2, <2>3 DEF FlushStream
<1>8. ASSUME NEW c \in Writers, SyncFile(c) PROVE TypeOK'
  <2>1. pc' \in [Calls -> Steps \cup Returned \cup {"dead"}]
    BY <1>8 DEF SyncFile, Steps, Calls
  <2>2. stored' \in [Inodes -> SUBSET Contents]
    BY <1>8 DEF SyncFile, Settle, Inodes
  <2>3. failed' \in [Calls -> BOOLEAN]
    BY <1>8 DEF SyncFile, Calls
  <2> QED
    BY <1>8, <2>1, <2>2, <2>3 DEF SyncFile
<1>9. ASSUME NEW c \in Writers, CloseStream(c) PROVE TypeOK'
  <2>1. pc' \in [Calls -> Steps \cup Returned \cup {"dead"}]
    BY <1>9 DEF CloseStream, Steps, Calls
  <2>2. data' \in [Inodes -> Contents]
    BY <1>9 DEF CloseStream, Inodes
  <2>3. failed' \in [Calls -> BOOLEAN]
    BY <1>9 DEF CloseStream, Calls
  <2> QED
    BY <1>9, <2>1, <2>2, <2>3 DEF CloseStream
<1>10. ASSUME NEW c \in Writers, Rename(c) PROVE TypeOK'
  <2>0. c \in Calls /\ dir[c] \in Dirs
    BY <1>10 DEF Calls, Opened, InProgress, Steps, Rename
  <2>1. pc' \in [Calls -> Steps \cup Returned \cup {"dead"}]
    BY <1>10 DEF Rename, Steps, Calls
  <2>4. failed' \in [Calls -> BOOLEAN]
    BY <1>10 DEF Rename, Calls
  <2>2. CASE SetTarget(c, TempEntry(c)) /\ TempEntry(c) # Absent /\ SetTemp(dir[c], temp[c], Absent)
    <3>1. TempEntry(c) \in Inodes
      BY <2>0, <2>2 DEF TempEntry, Calls
    <3>2. TempEntry(c) \in Versions
      BY <3>1 DEF Inodes, Versions, Calls
    <3>3. temp[c] \in TempNames
      BY <2>0, <2>2 DEF TempEntry
    <3>4. /\ temps' \in [Dirs -> [TempNames -> Inodes \cup {Absent}]]
          /\ tempsUndoable' \in [Dirs -> [TempNames -> SUBSET (Inodes \cup {Absent})]]
      BY <2>0, <2>2, <3>3, SetTempTyped
    <3>5. /\ target' \in [Dirs -> Versions]
          /\ undoable' \in [Dirs -> SUBSET Versions]
          /\ older' \in [Calls -> SUBSET Versions]
      BY <2>0, <2>2, <3>2, SetTargetTyped
    <3> QED
      BY <1>10, <2>1, <2>4, <3>4, <3>5 DEF Rename
  <2>3. CASE UNCHANGED <<target, undoable, temps, tempsUndoable, older>>
    BY <1>10, <2>1, <2>4, <2>3 DEF Rename
  <2> QED
    BY <1>10, <2>2, <2>3 DEF Rename
<1>11. ASSUME NEW c \in Writers, Cleanup(c) PROVE TypeOK'
  <2>0. c \in Calls /\ dir[c] \in Dirs
    BY <1>11 DEF Calls, Opened, InProgress, Steps, Cleanup
  <2>1. pc' \in [Calls -> Steps \cup Returned \cup {"dead"}]
    BY <1>11 DEF Cleanup, Steps, Calls
  <2>2. /\ temps' \in [Dirs -> [TempNames -> Inodes \cup {Absent}]]
        /\ tempsUndoable' \in [Dirs -> [TempNames -> SUBSET (Inodes \cup {Absent})]]
    <3>1. CASE TempEntry(c) # Absent /\ SetTemp(dir[c], temp[c], Absent)
      BY <2>0, <3>1, SetTempTyped DEF TempEntry
    <3>2. CASE UNCHANGED <<temps, tempsUndoable>>
      BY <3>2
    <3> QED
      BY <1>11, <3>1, <3>2 DEF Cleanup
  <2> QED
    BY <1>11, <2>1, <2>2 DEF Cleanup
<1>12. ASSUME NEW c \in Unlinkers, UnlinkEntry(c) PROVE TypeOK'
  <2>0. c \in Calls /\ dir[c] \in Dirs
    BY <1>12 DEF Calls, Opened, InProgress, Steps, UnlinkEntry
  <2>1. pc' \in [Calls -> Steps \cup Returned \cup {"dead"}]
    BY <1>12 DEF UnlinkEntry, Steps, Returned, AfterUnlink, Calls
  <2>2. CASE SetTarget(c, c)
    <3>1. c \in Versions
      BY DEF Versions, Calls
    <3> QED
      BY <1>12, <2>0, <2>1, <2>2, <3>1, SetTargetTyped DEF UnlinkEntry
  <2>3. CASE UNCHANGED <<target, undoable, older>>
    BY <1>12, <2>1, <2>3 DEF UnlinkEntry
  <2> QED
    BY <1>12, <2>2, <2>3 DEF UnlinkEntry
<1>13. ASSUME NEW c \in Calls, SyncDirectory(c) PROVE TypeOK'
  <2>1. pc' \in [Calls -> Steps \cup Returned \cup {"dead"}]
    BY <1>13 DEF SyncDirectory, Steps
  <2>2. undoable' \in [Dirs -> SUBSET Versions]
    BY <1>13 DEF SyncDirectory
  <2>3. tempsUndoable' \in [Dirs -> [TempNames -> SUBSET (Inodes \cup {Absent})]]
    <3>1. [t \in TempNames |-> {}] \in [TempNames -> SUBSET (Inodes \cup {Absent})]
      OBVIOUS
    <3> QED
      BY <1>13, <3>1 DEF SyncDirectory
  <2>4. failed' \in [Calls -> BOOLEAN]
    BY <1>13 DEF SyncDirectory
  <2> QED
    BY <1>13, <2>1, <2>2, <2>3, <2>4 DEF SyncDirectory
<1>14. ASSUME NEW c \in Calls, CloseParent(c) PROVE TypeOK'
  <2>1. pc' \in [Calls -> Steps \cup Returned \cup {"dead"}]
    BY <1>14 DEF CloseParent, Returned
  <2> QED
    BY <1>14, <2>1 DEF CloseParent, fs
<1>15. ASSUME NEW c \in Calls, Die(c) PROVE TypeOK'
  <2>1. pc' \in [Calls -> Steps \cup Returned \cup {"dead"}]
    BY <1>15 DEF Die
  <2> QED
    BY <1>15, <2>1 DEF Die, fs
<1>16. CASE PowerLoss
  BY <1>16 DEF PowerLoss
<1>17. CASE MoveParent
  BY <1>17 DEF MoveParent
<1>18. CASE UNCHANGED vars
  BY <1>18 DEF vars
<1> QED
  BY <1>1, <1>2, <1>3, <1>4, <1>5, <1>6, <1>7, <1>8, <1>9, <1>10, <1>11, <1>12,
     <1>13, <1>14, <1>15, <1>16, <1>17, <1>18 DEF Next, CallStep, WriteStep

\* Every step of a call but its first is made by a call in progress, and leaves
\* the directory it opened alone.
LEMMA StepOfCall ==
  ASSUME NEW c \in Calls, CallStep(c) \/ Die(c), ~OpenParent(c)
  PROVE  /\ pc[c] \in Steps \ {"open"}
         /\ UNCHANGED dir
         /\ \E s : Goto(c, s)
BY DEF CallStep, WriteStep, Die, InProgress, Steps, FailTo, SampleMode, CreateTemporary,
   VerifyTemporary, SetMode, RunWriter, FlushStream, SyncFile, CloseStream, Rename, Cleanup,
   UnlinkEntry, SyncDirectory, CloseParent

LEMMA StepOpened == TypeOK /\ Opened /\ [Next]_vars => Opened'
<1> SUFFICES ASSUME TypeOK, Opened, [Next]_vars, NEW c \in Calls, InProgress(c)'
             PROVE  dir'[c] \in Dirs
  BY DEF Opened
<1> USE DEF TypeOK, Opened, InProgress
<1>1. ASSUME NEW x \in Calls, OpenParent(x) PROVE dir'[c] \in Dirs
  <2>1. CASE x = c
    BY <1>1, <2>1, CallAssumption DEF OpenParent, Goto, Steps
  <2>2. CASE x # c
    BY <1>1, <2>2 DEF OpenParent, Goto
  <2> QED
    BY <2>1, <2>2
<1>2. ASSUME NEW x \in Calls, CallStep(x) \/ Die(x), ~OpenParent(x) PROVE dir'[c] \in Dirs
  BY <1>2, StepOfCall DEF Goto
<1>3. CASE PowerLoss
  BY <1>3 DEF PowerLoss, Steps
<1>4. CASE MoveParent \/ UNCHANGED vars
  BY <1>4 DEF MoveParent, vars
<1> QED
  BY <1>1, <1>2, <1>3, <1>4 DEF Next

\* Every variable stays in its domain, and a call in progress holds a directory.
THEOREM TypeCorrect == Spec => []TypeOK
<1>1. Init => TypeOK /\ Opened
  BY CallAssumption DEF Init, TypeOK, Opened, InProgress, Calls, Inodes, Versions, Contents, Modes, Steps
<1> QED
  BY <1>1, StepTyped, StepOpened, PTL DEF Spec

-------------------------------------------------------------------------------
(* Safety.                                                                 *)

\* A step of one call changes nothing another call knows.
LEMMA OtherCalls ==
  ASSUME TypeOK, NEW x \in Calls, CallStep(x) \/ Die(x), NEW c \in Calls, c # x
  PROVE  /\ pc'[c] = pc[c]
         /\ dir'[c] = dir[c]
         /\ temp'[c] = temp[c]
         /\ mode'[c] = mode[c]
         /\ anchored'[c] = anchored[c]
         /\ failed'[c] = failed[c]
         /\ older'[c] = older[c]
<1> USE DEF TypeOK, Goto, FailTo, SetTarget
<1>1. CASE OpenParent(x)
  BY <1>1 DEF OpenParent
<1>2. CASE WriteStep(x)
  BY <1>2 DEF WriteStep, SampleMode, CreateTemporary, VerifyTemporary, SetMode, RunWriter,
     FlushStream, SyncFile, CloseStream, Rename, Cleanup
<1>3. CASE UnlinkEntry(x) \/ SyncDirectory(x) \/ CloseParent(x) \/ Die(x)
  BY <1>3 DEF UnlinkEntry, SyncDirectory, CloseParent, Die
<1> QED
  BY <1>1, <1>2, <1>3 DEF CallStep

\* The steps that change a directory.
Naming(x) == CreateTemporary(x) \/ Rename(x) \/ Cleanup(x) \/ UnlinkEntry(x) \/ SyncDirectory(x)

LEMMA OtherSteps ==
  ASSUME NEW x \in Calls, CallStep(x) \/ Die(x), ~Naming(x)
  PROVE  UNCHANGED <<target, undoable, temps, tempsUndoable, older>>
BY DEF Naming, CallStep, WriteStep, Die, fs, OpenParent, SampleMode, VerifyTemporary, SetMode,
   RunWriter, FlushStream, SyncFile, CloseStream, CloseParent

LEMMA StepOwnEntry == TypeOK /\ Control /\ Binding /\ OwnEntry /\ [Next]_vars => OwnEntry'
<1> SUFFICES ASSUME TypeOK, Control, Binding, OwnEntry, [Next]_vars, NEW w \in Writers,
                    anchored'[w], pc'[w] \in Filling \cup {"syncdir", "cleanup"}
             PROVE  TempEntry(w)' = IF Bound(w)' THEN Absent ELSE w
  BY DEF OwnEntry, OwnEntryOf
<1>w. /\ w \in Calls
      /\ ControlOf(w)
      /\ BindingOf(w)
      /\ OwnEntryOf(w)
  BY DEF Control, Binding, OwnEntry, Calls
<1>1. ASSUME NEW x \in Calls, CallStep(x) \/ Die(x), x # w
      PROVE  TempEntry(w)' = IF Bound(w)' THEN Absent ELSE w
  <2>1. /\ pc'[w] = pc[w] /\ dir'[w] = dir[w] /\ temp'[w] = temp[w]
        /\ anchored'[w] = anchored[w] /\ older'[w] = older[w]
    BY <1>1, <1>w, OtherCalls
  <2>2. /\ TempEntry(w) = IF Bound(w) THEN Absent ELSE w
        /\ dir[w] \in Dirs /\ temp[w] \in TempNames
        /\ InProgress(w)
    BY <1>w, <2>1 DEF OwnEntryOf, ControlOf, InProgress, Filling, Steps
  <2>3. temps'[dir[w]][temp[w]] = temps[dir[w]][temp[w]]
    <3>1. CASE CreateTemporary(x) /\ temps' # temps
      <4>1. PICK t \in TempNames \ JustReleased : temps[path][t] = Absent /\ SetTemp(path, t, x) /\ path \in Dirs
        BY <3>1, CallAssumption DEF CreateTemporary, TypeOK
      <4>2. ~(path = dir[w] /\ t = temp[w])
        BY <4>1, <2>2, <1>w, CallAssumption DEF JustReleased, TempEntry, Calls
      <4> QED
        BY <4>1, <4>2, <2>2 DEF SetTemp, TypeOK
    <3>2. CASE (Rename(x) \/ Cleanup(x)) /\ temps' # temps
      <4>1. /\ x \in Writers
            /\ anchored[x]
            /\ SetTemp(dir[x], temp[x], Absent)
            /\ dir[x] \in Dirs /\ temp[x] \in TempNames
            /\ TempEntry(x) = x
        BY <3>2, <1>1, CallAssumption
           DEF Rename, Cleanup, MayUnlink, Control, ControlOf, Binding, BindingOf, BeforeBinding, OwnEntry, OwnEntryOf,
               Filling, CallStep, WriteStep, InProgress, Steps, Calls
      <4>2. ~(dir[x] = dir[w] /\ temp[x] = temp[w])
        BY <4>1, <2>2, <1>1, CallAssumption DEF TempEntry, Calls
      <4> QED
        BY <4>1, <4>2, <2>2 DEF SetTemp, TypeOK
    <3>3. CASE UNCHANGED temps
      BY <3>3
    <3>4. CASE UnlinkEntry(x) \/ SyncDirectory(x)
      BY <3>4 DEF UnlinkEntry, SyncDirectory
    <3> QED
      BY <1>1, <3>1, <3>2, <3>3, <3>4, OtherSteps DEF Naming
  <2> QED
    BY <2>1, <2>2, <2>3 DEF TempEntry, Bound
<1>2. ASSUME CallStep(w) \/ Die(w)
      PROVE  TempEntry(w)' = IF Bound(w)' THEN Absent ELSE w
  <2> USE DEF TypeOK
  <2>1. CASE VerifyTemporary(w)
    <3>1. ~Bound(w) /\ ~anchored[w]
      BY <2>1, <1>w DEF VerifyTemporary, BindingOf, BeforeBinding, ControlOf
    <3>2. UNCHANGED <<temps, dir, temp, older>>
      BY <2>1 DEF VerifyTemporary, fs
    <3>3. TempEntry(w) = w
      BY <2>1, <1>w, <3>1 DEF VerifyTemporary, IsOwnEntry
    <3> QED
      BY <3>1, <3>2, <3>3 DEF TempEntry, Bound
  <2>2. CASE SetMode(w) \/ RunWriter(w) \/ FlushStream(w) \/ SyncFile(w) \/ CloseStream(w)
    <3>1. /\ pc[w] \in Filling /\ anchored[w]
          /\ UNCHANGED <<temps, temp, dir, older>>
      BY <2>2, <1>w DEF SetMode, RunWriter, FlushStream, SyncFile, CloseStream, Filling, ControlOf
    <3> QED
      BY <3>1, <1>w DEF OwnEntryOf, TempEntry, Bound
  <2>3. CASE Rename(w)
    <3>1. TempEntry(w) = w /\ ~Bound(w) /\ dir[w] \in Dirs /\ temp[w] \in TempNames
      BY <2>3, <1>w DEF Rename, ControlOf, OwnEntryOf, BindingOf, BeforeBinding, Filling, InProgress, Steps
    <3>2. CASE SetTarget(w, TempEntry(w)) /\ SetTemp(dir[w], temp[w], Absent)
      <4>1. older'[w] # {}
        BY <3>2, <1>w DEF SetTarget
      <4>2. temps'[dir[w]][temp[w]] = Absent
        BY <3>1, <3>2 DEF SetTemp
      <4>3. temp' = temp /\ dir' = dir
        BY <2>3 DEF Rename
      <4> QED
        BY <4>1, <4>2, <4>3, <3>1 DEF TempEntry, Bound
    <3>3. CASE UNCHANGED <<temps, older>>
      BY <2>3, <3>1, <3>3 DEF Rename, TempEntry, Bound
    <3> QED
      BY <2>3, <3>2, <3>3 DEF Rename
  <2>4. CASE SyncDirectory(w)
    BY <2>4, <1>w DEF SyncDirectory, ControlOf, OwnEntryOf, BindingOf, TempEntry, Bound, Filling
  <2>5. CASE OpenParent(w) \/ SampleMode(w) \/ CreateTemporary(w) \/ Cleanup(w) \/ CloseParent(w) \/ Die(w)
    BY <2>5, <1>w DEF OpenParent, SampleMode, CreateTemporary, Cleanup, CloseParent, Die,
       ControlOf, Filling, Goto, FailTo
  <2>6. ~UnlinkEntry(w)
    BY <1>w DEF UnlinkEntry, ControlOf
  <2> QED
    BY <1>2, <2>1, <2>2, <2>3, <2>4, <2>5, <2>6 DEF CallStep, WriteStep
<1>3. CASE PowerLoss
  BY <1>3, <1>w DEF PowerLoss, InProgress, Steps, Filling
<1>4. CASE MoveParent \/ UNCHANGED vars
  BY <1>4, <1>w DEF MoveParent, vars, TempEntry, OwnEntryOf, Bound
<1> QED
  BY <1>1, <1>2, <1>3, <1>4 DEF Next

LEMMA StepControl == TypeOK /\ Control /\ [Next]_vars => Control'
<1> SUFFICES ASSUME TypeOK, Control, [Next]_vars, NEW c \in Calls PROVE ControlOf(c)'
  BY DEF Control
<1>c. ControlOf(c)
  BY DEF Control
<1>1. ASSUME NEW x \in Calls, CallStep(x) \/ Die(x), x # c PROVE ControlOf(c)'
  BY <1>1, <1>c, OtherCalls DEF ControlOf, InProgress, Bound
<1>2. ASSUME CallStep(c) \/ Die(c) PROVE ControlOf(c)'
  <2> USE CallAssumption, <1>c DEF TypeOK, ControlOf, InProgress, Steps, Filling, Calls
  <2>1. CASE OpenParent(c)
    BY <2>1 DEF OpenParent, fs, Goto, Bound
  <2>2. CASE c \in Writers /\ (SampleMode(c) \/ CreateTemporary(c))
    BY <2>2 DEF SampleMode, CreateTemporary, fs, Goto, FailTo, Bound
  <2>3. CASE c \in Writers /\ VerifyTemporary(c)
    BY <2>3 DEF VerifyTemporary, IsOwnEntry, TempEntry, fs, Goto, FailTo, Bound
  <2>4. CASE c \in Writers /\ (SetMode(c) \/ RunWriter(c) \/ FlushStream(c))
    <3>1. /\ pc[c] \in Filling \ {"close"}
          /\ \/ \E s \in Filling : Goto(c, s) /\ UNCHANGED failed
             \/ \E s \in {"close", "cleanup"} : FailTo(c, s)
          /\ UNCHANGED <<dir, temp, anchored, older>>
      BY <2>4 DEF SetMode, RunWriter, FlushStream
    <3> QED
      BY <2>4, <3>1 DEF Goto, FailTo, Bound
  <2>5. CASE c \in Writers /\ (SyncFile(c) \/ CloseStream(c))
    <3>1. /\ pc[c] \in Filling
          /\ \/ pc[c] = "sync" /\ Goto(c, "close") /\ UNCHANGED failed
             \/ ~failed[c] /\ Goto(c, "rename") /\ UNCHANGED failed
             \/ \E s \in {"close", "cleanup"} : FailTo(c, s)
          /\ UNCHANGED <<dir, temp, anchored, older>>
      BY <2>5 DEF SyncFile, CloseStream, StreamComplete
    <3> QED
      BY <2>5, <3>1 DEF Goto, FailTo, Bound
  <2>6. CASE c \in Writers /\ (Rename(c) \/ Cleanup(c))
    BY <2>6 DEF Rename, Cleanup, Goto, FailTo, SetTarget, Bound
  <2>7. CASE c \in Unlinkers /\ UnlinkEntry(c)
    BY <2>7 DEF UnlinkEntry, AfterUnlink, SetTarget, Goto, Bound
  <2>8. CASE SyncDirectory(c) \/ CloseParent(c) \/ Die(c)
    BY <2>8 DEF SyncDirectory, CloseParent, Die, fs, Goto, FailTo, Bound
  <2> QED
    BY <1>2, <2>1, <2>2, <2>3, <2>4, <2>5, <2>6, <2>7, <2>8 DEF CallStep, WriteStep
<1>3. CASE PowerLoss
  BY <1>3, <1>c DEF PowerLoss, TypeOK, ControlOf, InProgress, Bound, Steps, Filling
<1>4. CASE MoveParent \/ UNCHANGED vars
  BY <1>4, <1>c DEF MoveParent, vars, ControlOf, InProgress, Bound
<1> QED
  BY <1>1, <1>2, <1>3, <1>4 DEF Next

LEMMA StepBinding == TypeOK /\ Control /\ Binding /\ [Next]_vars => Binding'
<1> SUFFICES ASSUME TypeOK, Control, Binding, [Next]_vars, NEW c \in Calls PROVE BindingOf(c)'
  BY DEF Binding
<1>c. ControlOf(c) /\ BindingOf(c)
  BY DEF Control, Binding
<1>1. ASSUME NEW x \in Calls, CallStep(x) \/ Die(x), x # c PROVE BindingOf(c)'
  BY <1>1, <1>c, OtherCalls DEF BindingOf, Settled, Bound
<1>2. ASSUME CallStep(c) \/ Die(c) PROVE BindingOf(c)'
  <2> USE <1>c DEF TypeOK, BindingOf, BeforeBinding, Settled, Filling
  <2>0. ASSUME older' = [older EXCEPT ![c] = undoable[dir[c]] \cup {target[dir[c]]}],
               Goto(c, "syncdir")
        PROVE  BindingOf(c)'
    <3>1. older'[c] # {}
      BY <2>0
    <3> QED
      BY <2>0, <3>1 DEF Goto, Bound
  <2>1. CASE c \in Writers /\ Rename(c)
    <3>1. CASE FailTo(c, "cleanup") /\ UNCHANGED older
      BY <2>1, <3>1 DEF Rename, FailTo, Goto, Bound
    <3> QED
      BY <2>0, <2>1, <3>1 DEF Rename, SetTarget
  <2>2. CASE c \in Unlinkers /\ UnlinkEntry(c)
    <3>1. CASE Goto(c, IF c \in MissingOk THEN "ok" ELSE "failed") /\ UNCHANGED older
      BY <2>2, <3>1, CallAssumption DEF UnlinkEntry, Goto, Bound, Calls
    <3>2. CASE Goto(c, "failed") /\ UNCHANGED older
      BY <2>2, <3>2 DEF Goto, UnlinkEntry, Bound
    <3> QED
      BY <2>0, <2>2, <3>1, <3>2 DEF UnlinkEntry, AfterUnlink, SetTarget
  <2>4. CASE OpenParent(c)
    BY <2>4, CallAssumption DEF OpenParent, Goto, Bound, fs
  <2>5. CASE SyncDirectory(c) \/ CloseParent(c) \/ Die(c) \/ Cleanup(c)
    BY <2>5 DEF SyncDirectory, CloseParent, Die, Cleanup, Goto, FailTo, Bound, fs, ControlOf
  <2>6. CASE SampleMode(c) \/ CreateTemporary(c) \/ VerifyTemporary(c) \/ SetMode(c)
             \/ RunWriter(c) \/ FlushStream(c) \/ SyncFile(c) \/ CloseStream(c)
    <3>1. /\ pc[c] \in BeforeBinding
          /\ \E s \in BeforeBinding \cup {"cleanup"} : Goto(c, s)
          /\ UNCHANGED older
      BY <2>6 DEF SampleMode, CreateTemporary, VerifyTemporary, SetMode, RunWriter, FlushStream,
         SyncFile, CloseStream, FailTo, fs
    <3> QED
      BY <3>1 DEF Goto, Bound
  <2> QED
    BY <1>2, <2>1, <2>2, <2>4, <2>5, <2>6 DEF CallStep, WriteStep
<1>3. CASE PowerLoss
  BY <1>3, <1>c DEF PowerLoss, TypeOK, BindingOf, BeforeBinding, InProgress, Bound, Settled, Steps, Filling
<1>4. CASE MoveParent \/ UNCHANGED vars
  BY <1>4, <1>c DEF MoveParent, vars, BindingOf, Settled, Bound
<1> QED
  BY <1>1, <1>2, <1>3, <1>4 DEF Next

\* A call changes the target by making it its own version, and no other way.
Binds(x) ==
  /\ pc[x] \in {"rename", "unlink"} /\ pc' = [pc EXCEPT ![x] = "syncdir"]
  /\ dir[x] \in Dirs /\ ~Bound(x)
  /\ x \in Writers => pc[x] = "rename"
  /\ target' = [target EXCEPT ![dir[x]] = x]
  /\ undoable' = [undoable EXCEPT ![dir[x]] = @ \cup {target[dir[x]]}]
  /\ older' = [older EXCEPT ![x] = undoable[dir[x]] \cup {target[dir[x]]}]
  /\ UNCHANGED <<dir, data, stored, failed>>

LEMMA BindOrNot ==
  ASSUME Control, Binding, OwnEntry, NEW x \in Calls, CallStep(x) \/ Die(x)
  PROVE  \/ Binds(x)
         \/ /\ UNCHANGED <<target, older>>
            /\ \/ UNCHANGED undoable
               \/ SyncDirectory(x) /\ undoable' = [undoable EXCEPT ![dir[x]] = {}]
<1>x. ControlOf(x) /\ BindingOf(x) /\ (x \in Writers => OwnEntryOf(x))
  BY DEF Control, Binding, OwnEntry
<1>1. CASE x \in Writers /\ Rename(x)
  <2>1. TempEntry(x) = x /\ ~Bound(x) /\ dir[x] \in Dirs
    BY <1>1, <1>x DEF Rename, ControlOf, OwnEntryOf, BindingOf, BeforeBinding, Filling, InProgress, Steps
  <2>2. CASE UNCHANGED <<target, undoable, older>>
    BY <2>2
  <2>3. CASE SetTarget(x, TempEntry(x)) /\ Goto(x, "syncdir") /\ UNCHANGED failed
    BY <1>1, <2>1, <2>3 DEF Rename, SetTarget, Goto, Binds
  <2> QED
    BY <1>1, <2>2, <2>3 DEF Rename
<1>2. CASE x \in Unlinkers /\ UnlinkEntry(x)
  <2>1. ~Bound(x) /\ dir[x] \in Dirs
    BY <1>2, <1>x DEF UnlinkEntry, ControlOf, BindingOf, BeforeBinding, InProgress, Steps
  <2>2. CASE UNCHANGED <<target, undoable, older>>
    BY <2>2
  <2>3. CASE SetTarget(x, x) /\ Goto(x, "syncdir")
    BY <1>2, <2>1, <2>3, CallAssumption DEF UnlinkEntry, SetTarget, Goto, Binds
  <2> QED
    BY <1>2, <2>2, <2>3 DEF UnlinkEntry, AfterUnlink
<1>3. CASE SyncDirectory(x)
  BY <1>3 DEF SyncDirectory
<1>4. CASE CreateTemporary(x) \/ Cleanup(x)
  BY <1>4 DEF CreateTemporary, Cleanup
<1>5. /\ Rename(x) => x \in Writers
      /\ UnlinkEntry(x) => x \in Unlinkers
  BY <1>x DEF Rename, UnlinkEntry, ControlOf, Calls
<1>6. CASE ~Naming(x)
  BY <1>6, OtherSteps
<1> QED
  BY <1>1, <1>2, <1>3, <1>4, <1>5, <1>6 DEF Naming

LEMMA StepPublished ==
  TypeOK /\ Control /\ Binding /\ OwnEntry /\ PublishedByOwner /\ [Next]_vars => PublishedByOwner'
<1> SUFFICES ASSUME TypeOK, Control, Binding, OwnEntry, PublishedByOwner, [Next]_vars,
                    NEW d \in Dirs, NEW v \in Calls, v \in Reachable(d)'
             PROVE  Bound(v)' /\ dir'[v] = d
  BY DEF PublishedByOwner
<1>v. ASSUME v \in Reachable(d) PROVE Bound(v) /\ dir[v] = d
  BY <1>v DEF PublishedByOwner
<1>1. ASSUME NEW x \in Calls, CallStep(x) \/ Die(x) PROVE Bound(v)' /\ dir'[v] = d
  <2>1. CASE Binds(x)
    <3>0. dir[x] \in Dirs /\ ~Bound(x)
      BY <2>1 DEF Binds
    <3>a. ASSUME d = dir[x] PROVE v = x \/ v \in Reachable(d)
      <4>1. target'[d] = x /\ undoable'[d] = undoable[d] \cup {target[d]}
        BY <2>1, <3>a DEF Binds, TypeOK
      <4> QED
        BY <4>1, <3>a DEF Reachable
    <3>b. ASSUME d # dir[x] PROVE v \in Reachable(d)
      <4>1. target'[d] = target[d] /\ undoable'[d] = undoable[d]
        BY <2>1, <3>b DEF Binds, TypeOK
      <4> QED
        BY <4>1 DEF Reachable
    <3>1. (v = x /\ d = dir[x]) \/ (v \in Reachable(d) /\ v # x)
      BY <3>0, <1>v, <3>a, <3>b DEF Bound
    <3>2. older'[x] # {} /\ dir' = dir
      BY <2>1 DEF Binds, TypeOK
    <3> QED
      BY <3>1, <3>2, <1>v, <1>1, OtherCalls DEF Bound
  <2>2. CASE UNCHANGED <<target, older>> /\ (UNCHANGED undoable \/ undoable' = [undoable EXCEPT ![dir[x]] = {}])
    <3>1. v \in Reachable(d)
      BY <2>2 DEF Reachable, TypeOK
    <3>2. Bound(v) /\ dir[v] = d
      BY <3>1, <1>v
    <3>3. pc[v] # "open"
      BY <3>2 DEF Binding, BindingOf, BeforeBinding
    <3>4. dir'[v] = dir[v]
      BY <1>1, <3>3, OtherCalls, StepOfCall DEF OpenParent
    <3> QED
      BY <2>2, <3>2, <3>4 DEF Bound
  <2> QED
    BY <1>1, <2>1, <2>2, BindOrNot
<1>2. CASE PowerLoss
  BY <1>2, <1>v DEF PowerLoss, Reachable, Bound
<1>3. CASE MoveParent \/ UNCHANGED vars
  BY <1>3, <1>v DEF MoveParent, vars, Reachable, Bound
<1> QED
  BY <1>1, <1>2, <1>3 DEF Next

LEMMA StepStoredFirst == TypeOK /\ Control /\ StoredFirst /\ [Next]_vars => StoredFirst'
<1> SUFFICES ASSUME TypeOK, Control, StoredFirst, [Next]_vars, NEW w \in Writers PROVE StoredFirstOf(w)'
  BY DEF StoredFirst
<1>w. w \in Calls /\ w \in Inodes /\ ControlOf(w) /\ StoredFirstOf(w)
  BY DEF Control, StoredFirst, Calls, Inodes
<1> USE DEF StoredFirstOf, IsStored
<1>1. ASSUME NEW x \in Calls, CallStep(x) \/ Die(x), x # w PROVE StoredFirstOf(w)'
  <2>1. data'[w] = data[w] /\ stored'[w] = stored[w]
    BY <1>1, <1>w DEF CallStep, WriteStep, Die, fs, TypeOK, OpenParent, SampleMode, CreateTemporary,
       VerifyTemporary, SetMode, RunWriter, FlushStream, SyncFile, Settle, CloseStream, Rename, Cleanup,
       UnlinkEntry, SyncDirectory, CloseParent
  <2> QED
    BY <1>1, <1>w, <2>1, OtherCalls
<1>2. ASSUME CallStep(w) \/ Die(w) PROVE StoredFirstOf(w)'
  <2> USE <1>w DEF TypeOK, Goto, FailTo
  <2>1. CASE FlushStream(w)
    BY <2>1 DEF FlushStream
  <2>2. CASE SyncFile(w)
    BY <2>2 DEF SyncFile, Settle
  <2>3. CASE CloseStream(w)
    BY <2>3 DEF CloseStream, StreamComplete
  <2>4. CASE RunWriter(w)
    BY <2>4 DEF RunWriter
  <2>5. CASE OpenParent(w) \/ SampleMode(w) \/ CreateTemporary(w) \/ VerifyTemporary(w) \/ SetMode(w)
    BY <2>5 DEF OpenParent, SampleMode, CreateTemporary, VerifyTemporary, SetMode
  <2>6. CASE Rename(w) \/ Cleanup(w) \/ SyncDirectory(w) \/ CloseParent(w) \/ Die(w)
    BY <2>6 DEF Rename, Cleanup, SyncDirectory, CloseParent, Die
  <2> QED
    BY <1>2, <1>w, <2>1, <2>2, <2>3, <2>4, <2>5, <2>6 DEF CallStep, WriteStep, UnlinkEntry, ControlOf
<1>3. CASE PowerLoss
  BY <1>3, <1>w DEF PowerLoss, TypeOK, InProgress, Steps
<1>4. CASE MoveParent \/ UNCHANGED vars
  BY <1>4, <1>w DEF MoveParent, vars
<1> QED
  BY <1>1, <1>2, <1>3, <1>4 DEF Next

\* How a call changes a temporary entry: it draws a free name for itself, or
\* removes its own entry.
Draws(x) ==
  /\ pc[x] = "create" /\ x \in Writers /\ path \in Dirs
  /\ temps[path][temp'[x]] = Absent /\ temp'[x] \in TempNames
  /\ SetTemp(path, temp'[x], x)
Removes(x) ==
  /\ pc[x] \in {"rename", "cleanup"} /\ x \in Writers /\ dir[x] \in Dirs /\ temp[x] \in TempNames
  /\ temps[dir[x]][temp[x]] = x /\ anchored[x]
  /\ pc'[x] # pc[x]
  /\ SetTemp(dir[x], temp[x], Absent)

LEMMA DrawOrRemove ==
  ASSUME TypeOK, Control, Binding, OwnEntry, NEW x \in Calls, CallStep(x) \/ Die(x)
  PROVE  \/ Draws(x)
         \/ Removes(x)
         \/ UNCHANGED temps /\ UNCHANGED tempsUndoable
         \/ SyncDirectory(x) /\ UNCHANGED temps
<1>x. ControlOf(x) /\ BindingOf(x) /\ (x \in Writers => OwnEntryOf(x))
  BY DEF Control, Binding, OwnEntry
<1>1. CASE x \in Writers /\ CreateTemporary(x)
  <2>1. CASE UNCHANGED <<temps, tempsUndoable>>
    BY <2>1
  <2>2. ASSUME NEW t \in TempNames, path # NoDir, temps[path][t] = Absent, SetTemp(path, t, x),
               temp' = [temp EXCEPT ![x] = t]
        PROVE  Draws(x)
    <3>1. temp'[x] = t /\ path \in Dirs
      BY <2>2, CallAssumption DEF TypeOK
    <3> QED
      BY <2>2, <3>1, <1>1 DEF Draws, CreateTemporary
  <2> QED
    BY <1>1, <2>1, <2>2 DEF CreateTemporary
<1>2. CASE x \in Writers /\ (Rename(x) \/ Cleanup(x))
  <2>1. CASE UNCHANGED <<temps, tempsUndoable>>
    BY <2>1
  <2>2. CASE TempEntry(x) # Absent /\ SetTemp(dir[x], temp[x], Absent) /\ anchored[x] /\ pc'[x] # pc[x]
    <3>1. pc[x] \in {"rename", "cleanup"} /\ dir[x] \in Dirs /\ temp[x] \in TempNames
      BY <1>2, <2>2, <1>x DEF Rename, Cleanup, ControlOf, InProgress, Steps
    <3>2. TempEntry(x) = x
      BY <1>2, <2>2, <3>1, <1>x DEF OwnEntryOf, Filling
    <3>3. temp[x] # NoName
      BY <3>1, CallAssumption
    <3> QED
      BY <1>2, <2>2, <3>1, <3>2, <3>3 DEF Removes, TempEntry
  <2>3. pc[x] = "rename" => anchored[x]
    BY <1>2, <1>x DEF ControlOf, Filling
  <2>4. pc'[x] # pc[x]
    BY <1>2 DEF Rename, Cleanup, Goto, FailTo, TypeOK
  <2> QED
    BY <1>2, <2>1, <2>2, <2>3, <2>4 DEF Rename, Cleanup, MayUnlink
<1>3. CASE UnlinkEntry(x) \/ SyncDirectory(x)
  BY <1>3 DEF UnlinkEntry, SyncDirectory
<1>4. CASE ~Naming(x)
  BY <1>4, OtherSteps
<1>5. CreateTemporary(x) \/ Rename(x) \/ Cleanup(x) => x \in Writers
  BY <1>x DEF CreateTemporary, Rename, Cleanup, ControlOf, Calls
<1> QED
  BY <1>1, <1>2, <1>3, <1>4, <1>5 DEF Naming

\* A file keeps out of the directories until its writer drew a name for it, and
\* never goes anywhere else.
LEMMA OccursStep ==
  ASSUME TypeOK, Control, Binding, OwnEntry, NEW x \in Calls, CallStep(x) \/ Die(x),
         NEW w \in Writers, NEW d \in Dirs, NEW t \in TempNames, Occurs(w, d, t)'
  PROVE  Occurs(w, d, t) \/ (x = w /\ Draws(w) /\ d = path /\ t = temp'[w])
<1> USE DEF TypeOK, Occurs
<1>1. CASE Draws(x)
  <2>1. CASE d = path /\ t = temp'[x]
    <3>1. temps'[d][t] = x /\ tempsUndoable'[d][t] = tempsUndoable[d][t] \cup {temps[d][t]}
      BY <1>1, <2>1 DEF Draws, SetTemp
    <3> QED
      BY <3>1, <1>1, <2>1
  <2>2. CASE ~(d = path /\ t = temp'[x])
    <3>1. temps'[d][t] = temps[d][t] /\ tempsUndoable'[d][t] = tempsUndoable[d][t]
      BY <1>1, <2>2 DEF Draws, SetTemp
    <3> QED
      BY <3>1
  <2> QED
    BY <2>1, <2>2
<1>2. CASE Removes(x)
  <2>1. /\ temps'[d][t] \in {temps[d][t], Absent}
        /\ tempsUndoable'[d][t] \in {tempsUndoable[d][t], tempsUndoable[d][t] \cup {temps[d][t]}}
    BY <1>2 DEF Removes, SetTemp
  <2>2. w # Absent
    BY CallAssumption DEF Calls
  <2> QED
    BY <2>1, <2>2
<1>3. CASE UNCHANGED temps /\ UNCHANGED tempsUndoable
  BY <1>3
<1>4. CASE SyncDirectory(x) /\ UNCHANGED temps
  <2>1. tempsUndoable'[d][t] \in {tempsUndoable[d][t], {}}
    <3>1. CASE UNCHANGED tempsUndoable
      BY <3>1
    <3>2. CASE tempsUndoable' = [tempsUndoable EXCEPT ![dir[x]] = [n \in TempNames |-> {}]]
      <4>1. tempsUndoable'[d] = (IF d = dir[x] THEN [n \in TempNames |-> {}] ELSE tempsUndoable[d])
        BY <3>2
      <4> QED
        BY <4>1
    <3> QED
      BY <1>4, <3>1, <3>2 DEF SyncDirectory
  <2> QED
    BY <2>1, <1>4
<1> QED
  BY <1>1, <1>2, <1>3, <1>4, DrawOrRemove

LEMMA StepTraces == TypeOK /\ Control /\ Binding /\ OwnEntry /\ Traces /\ [Next]_vars => Traces'
<1> SUFFICES ASSUME TypeOK, Control, Binding, OwnEntry, Traces, [Next]_vars, NEW w \in Writers
             PROVE  TraceOf(w)'
  BY DEF Traces
<1>w. w \in Calls /\ ControlOf(w) /\ BindingOf(w) /\ OwnEntryOf(w) /\ TraceOf(w)
  BY DEF Control, Binding, OwnEntry, Traces, Calls
<1>1. ASSUME NEW x \in Calls, CallStep(x) \/ Die(x), x # w PROVE TraceOf(w)'
  <2>1. \A d \in Dirs, t \in TempNames : Occurs(w, d, t)' => Occurs(w, d, t)
    BY <1>1, OccursStep
  <2>2. /\ pc'[w] = pc[w] /\ dir'[w] = dir[w] /\ temp'[w] = temp[w]
        /\ anchored'[w] = anchored[w] /\ failed'[w] = failed[w]
    BY <1>1, <1>w, OtherCalls
  <2> QED
    BY <1>w, <2>1, <2>2 DEF TraceOf, Settled
<1>2. ASSUME CallStep(w) \/ Die(w) PROVE TraceOf(w)'
  <2>1. CASE pc[w] = "create"
    <3>0. \A d \in Dirs, t \in TempNames : ~Occurs(w, d, t)
      BY <2>1, <1>w DEF TraceOf
    <3>1. \A d \in Dirs, t \in TempNames : Occurs(w, d, t)' => d = path /\ t = temp'[w]
      BY <3>0, <1>2, <1>w, OccursStep
    <3>2. ~failed[w] /\ ~anchored[w]
      BY <2>1, <1>w DEF ControlOf
    <3>3. CASE Die(w)
      BY <3>1, <3>2, <3>3, <3>0, <1>w DEF Die, TypeOK, TraceOf, Settled, Goto, fs, Occurs
    <3>4. CASE CreateTemporary(w)
      <4>1. /\ pc'[w] \in {"verify", "cleanup"}
            /\ anchored' = anchored
        BY <3>4, <1>w DEF CreateTemporary, TypeOK, Goto, FailTo
      <4> QED
        BY <4>1, <3>1, <3>2 DEF TraceOf, Settled
    <3> QED
      BY <1>2, <2>1, <3>3, <3>4, <1>w DEF CallStep, WriteStep, OpenParent, SampleMode, VerifyTemporary, SetMode,
         RunWriter, FlushStream, SyncFile, CloseStream, Rename, Cleanup, UnlinkEntry, SyncDirectory, CloseParent
  <2>2. CASE pc[w] # "create"
    <3>0. \A d \in Dirs, t \in TempNames : Occurs(w, d, t)' => Occurs(w, d, t)
      BY <2>2, <1>2, <1>w, OccursStep DEF Draws
    <3>1. CASE OpenParent(w) \/ SampleMode(w)
      <4>1. pc[w] \in {"open", "sample", "create"} /\ ~failed[w]
        BY <3>1, <1>w DEF OpenParent, SampleMode, ControlOf
      <4>2. \A d \in Dirs, t \in TempNames : ~Occurs(w, d, t)'
        BY <4>1, <3>0, <1>w DEF TraceOf
      <4> QED
        BY <4>2 DEF TraceOf
    <3>2. CASE VerifyTemporary(w)
      <4>1. temp' = temp /\ dir' = dir /\ temps' = temps /\ tempsUndoable' = tempsUndoable
        BY <3>2 DEF VerifyTemporary, fs
      <4>2. pc'[w] \in {"chmod", "cleanup"}
        BY <3>2, <1>w DEF VerifyTemporary, TypeOK, Goto, FailTo
      <4>3. ASSUME anchored'[w], NEW d \in Dirs, NEW t \in TempNames, Occurs(w, d, t) PROVE d = dir[w]
        <5>1. ~anchored[w] /\ temp[w] \in TempNames /\ dir[w] \in Dirs
          BY <3>2, <1>w DEF VerifyTemporary, ControlOf, InProgress, Steps
        <5>2. TempEntry(w) = w
          BY <3>2, <4>3, <5>1, <1>w DEF VerifyTemporary, IsOwnEntry
        <5>3. t = temp[w] /\ Occurs(w, dir[w], t)
          BY <4>3, <5>1, <5>2, <1>w, CallAssumption DEF TraceOf, TempEntry, Occurs
        <5> QED
          BY <4>3, <5>1, <5>3, <1>w DEF TraceOf
      <4> QED
        BY <3>0, <4>1, <4>2, <4>3, <1>w DEF TraceOf, Settled
    <3>3. CASE SetMode(w) \/ RunWriter(w) \/ FlushStream(w) \/ SyncFile(w) \/ CloseStream(w) \/ Rename(w)
      <4>1. /\ temp' = temp /\ dir' = dir /\ anchored' = anchored
            /\ pc'[w] \in Filling \cup {"cleanup", "syncdir"}
        BY <3>3, <1>w DEF SetMode, RunWriter, FlushStream, SyncFile, CloseStream, Rename, Goto, FailTo, TypeOK, Filling
      <4> QED
        BY <3>0, <4>1, <1>w DEF TraceOf, Settled, Filling
    <3>4. CASE Cleanup(w) \/ Die(w)
      <4>1. /\ temp' = temp /\ dir' = dir /\ anchored' = anchored /\ failed' = failed
            /\ (pc'[w] = "closedir" /\ failed[w]) \/ pc'[w] = "dead"
        BY <3>4, <1>w DEF Cleanup, Die, Goto, FailTo, TypeOK, ControlOf
      <4> QED
        BY <3>0, <4>1, <1>w DEF TraceOf, Settled
    <3>5. CASE CloseParent(w)
      <4>1. /\ temp' = temp /\ dir' = dir /\ anchored' = anchored /\ failed' = failed
            /\ pc'[w] \in {"ok", "failed"} /\ (pc'[w] = "ok" => Settled(w))
        BY <3>5, <1>w DEF CloseParent, Goto, TypeOK, Settled
      <4> QED
        BY <3>0, <4>1, <1>w DEF TraceOf, Settled
    <3>6. CASE SyncDirectory(w)
      <4>1. /\ temp' = temp /\ dir' = dir /\ anchored' = anchored /\ temps' = temps
            /\ pc'[w] \in {"cleanup", "closedir"}
        BY <3>6, <1>w DEF SyncDirectory, Goto, FailTo, TypeOK
      <4>2. ASSUME Settled(w)', NEW d \in Dirs, NEW t \in TempNames PROVE ~Occurs(w, d, t)'
        <5>1. tempsUndoable'[dir[w]] = [n \in TempNames |-> {}] /\ dir[w] \in Dirs
          BY <3>6, <4>2, <1>w DEF SyncDirectory, Settled, FailTo, Goto, TypeOK, ControlOf, InProgress, Steps
        <5>2. TempEntry(w) = Absent /\ anchored[w] /\ temp[w] \in TempNames
          BY <3>6, <1>w DEF SyncDirectory, OwnEntryOf, BindingOf, ControlOf
        <5>3. SUFFICES ASSUME Occurs(w, d, t)' PROVE FALSE
          OBVIOUS
        <5>4. d = dir[w] /\ t = temp[w]
          BY <5>2, <5>3, <3>0, <1>w DEF TraceOf
        <5> QED
          BY <5>1, <5>2, <5>3, <5>4, <4>1, CallAssumption DEF Occurs, TempEntry, Calls
      <4> QED
        BY <3>0, <4>1, <4>2, <1>w DEF TraceOf, Settled
    <3> QED
      BY <1>2, <2>2, <1>w, <3>1, <3>2, <3>3, <3>4, <3>5, <3>6
         DEF CallStep, WriteStep, CreateTemporary, UnlinkEntry, ControlOf
  <2> QED
    BY <2>1, <2>2
<1>3. CASE PowerLoss
  <2>1. ASSUME NEW d \in Dirs, NEW t \in TempNames, Occurs(w, d, t)' PROVE Occurs(w, d, t)
    BY <1>3, <2>1 DEF PowerLoss, Occurs
  <2>2. /\ temp' = temp /\ dir' = dir /\ anchored' = anchored /\ failed' = failed
        /\ pc'[w] = (IF InProgress(w) THEN "dead" ELSE pc[w])
    BY <1>3, <1>w DEF PowerLoss
  <2> QED
    BY <1>w, <2>1, <2>2 DEF TraceOf, Settled, InProgress, Steps
<1>4. CASE MoveParent \/ UNCHANGED vars
  BY <1>4, <1>w DEF MoveParent, vars, TraceOf, Settled, Occurs
<1> QED
  BY <1>1, <1>2, <1>3, <1>4 DEF Next

\* The file of a writer changes only by the writer itself, before it binds.
LEMMA FileStep ==
  ASSUME TypeOK, NEW x \in Calls, CallStep(x) \/ Die(x), NEW i \in Inodes,
         i # x \/ pc[x] \notin {"create", "writer", "flush", "sync", "close"}
  PROVE  data'[i] = data[i] /\ stored'[i] = stored[i]
BY DEF CallStep, WriteStep, Die, fs, TypeOK, OpenParent, SampleMode, CreateTemporary,
   VerifyTemporary, SetMode, RunWriter, FlushStream, SyncFile, Settle, CloseStream, Rename, Cleanup,
   UnlinkEntry, SyncDirectory, CloseParent

LEMMA StepComplete ==
  /\ TypeOK /\ Control /\ Binding /\ OwnEntry /\ PublishedByOwner /\ StoredFirst
  /\ TargetComplete
  /\ [Next]_vars
  => TargetComplete'
<1> SUFFICES ASSUME TypeOK, Control, Binding, OwnEntry, PublishedByOwner, StoredFirst,
                    TargetComplete, [Next]_vars,
                    NEW d \in Dirs, NEW v \in Reachable(d)', IsFile(v)
             PROVE  IsStored(v)'
  BY DEF TargetComplete, IsFile, IsStored
<1>i. v \in Inodes
  BY DEF IsFile
<1>v. ASSUME v \in Reachable(d) PROVE IsStored(v)
  BY <1>v DEF TargetComplete, IsFile, IsStored
<1>1. ASSUME NEW x \in Calls, CallStep(x) \/ Die(x) PROVE IsStored(v)'
  <2>x. ControlOf(x) /\ BindingOf(x)
    BY DEF Control, Binding
  <2>1. CASE Binds(x)
    <3>1. data' = data /\ stored' = stored
      BY <2>1 DEF Binds
    <3>2. v = x \/ v \in Reachable(d)
      <4>1. CASE d = dir[x]
        BY <4>1, <2>1 DEF Binds, Reachable, TypeOK
      <4>2. CASE d # dir[x]
        BY <4>2, <2>1 DEF Binds, Reachable, TypeOK
      <4> QED
        BY <4>1, <4>2
    <3>3. CASE v = x
      <4>1. x \in Writers /\ pc[x] = "rename"
        BY <3>3, <2>1, <1>i, CallAssumption DEF Binds, Calls, Inodes
      <4> QED
        BY <4>1, <3>3, <3>1 DEF StoredFirst, StoredFirstOf, IsStored
    <3> QED
      BY <3>1, <3>2, <3>3, <1>v DEF IsStored
  <2>2. CASE UNCHANGED <<target, older>> /\ (UNCHANGED undoable \/ undoable' = [undoable EXCEPT ![dir[x]] = {}])
    <3>1. v \in Reachable(d)
      BY <2>2 DEF Reachable, TypeOK
    <3>2. v = x => Bound(x)
      BY <3>1 DEF PublishedByOwner
    <3>3. v = x => pc[x] \notin {"create", "writer", "flush", "sync", "close"}
      BY <3>2, <2>x DEF BindingOf, BeforeBinding, Filling
    <3>4. data'[v] = data[v] /\ stored'[v] = stored[v]
      BY <1>1, <1>i, <3>3, FileStep
    <3> QED
      BY <3>1, <3>4, <1>v DEF IsStored
  <2> QED
    BY <1>1, <2>1, <2>2, BindOrNot
<1>2. CASE PowerLoss
  <2>1. v \in Reachable(d)
    BY <1>2 DEF PowerLoss, Reachable
  <2>2. data'[v] = "complete"
    BY <1>2, <2>1, <1>v, <1>i DEF PowerLoss, IsStored
  <2>3. stored'[v] = {data'[v]}
    BY <1>2, <1>i DEF PowerLoss
  <2> QED
    BY <2>2, <2>3 DEF IsStored
<1>3. CASE MoveParent \/ UNCHANGED vars
  BY <1>3, <1>v DEF MoveParent, vars, Reachable, IsStored
<1> QED
  BY <1>1, <1>2, <1>3 DEF Next

LEMMA StepSupersedes ==
  /\ TypeOK /\ Control /\ Binding /\ OwnEntry /\ PublishedByOwner /\ Supersedes
  /\ [Next]_vars
  => Supersedes'
<1> SUFFICES ASSUME TypeOK, Control, Binding, OwnEntry, PublishedByOwner, Supersedes, [Next]_vars,
                    NEW c \in Calls
             PROVE  SupersedesOf(c)'
  BY DEF Supersedes
<1>c. ControlOf(c) /\ BindingOf(c) /\ SupersedesOf(c)
  BY DEF Control, Binding, Supersedes
<1>1. ASSUME NEW x \in Calls, CallStep(x) \/ Die(x) PROVE SupersedesOf(c)'
  <2>m. \A v \in Calls : Bound(v) => Bound(v)'
    <3>1. CASE Binds(x)
      <4>1. older'[x] # {}
        BY <3>1 DEF Binds, TypeOK
      <4>2. \A v \in Calls \ {x} : older'[v] = older[v]
        BY <3>1 DEF Binds, TypeOK
      <4> QED
        BY <4>1, <4>2 DEF Bound
    <3> QED
      BY <1>1, <3>1, BindOrNot DEF Bound
  <2>1. ASSUME x # c PROVE SupersedesOf(c)'
    <3>1. /\ pc'[c] = pc[c] /\ dir'[c] = dir[c] /\ older'[c] = older[c] /\ failed'[c] = failed[c]
      BY <1>1, <2>1, OtherCalls
    <3>2. CASE Binds(x)
      <4>1. x \notin older[c]
        BY <3>2, <1>c DEF Binds, SupersedesOf
      <4>2. CASE dir[c] = dir[x]
        <5>1. /\ target'[dir[c]] = x
              /\ undoable'[dir[c]] = undoable[dir[c]] \cup {target[dir[c]]}
          BY <3>2, <4>2 DEF Binds, TypeOK
        <5> QED
          BY <3>1, <4>1, <5>1, <1>c, <2>m DEF SupersedesOf, InProgress, Bound, Settled, Reachable
      <4>3. CASE dir[c] # dir[x]
        <5>1. target'[dir[c]] = target[dir[c]] /\ undoable'[dir[c]] = undoable[dir[c]]
          BY <3>2, <4>3 DEF Binds
        <5> QED
          BY <3>1, <5>1, <1>c, <2>m DEF SupersedesOf, InProgress, Bound, Settled, Reachable
      <4> QED
        BY <4>2, <4>3
    <3>3. CASE UNCHANGED target /\ (UNCHANGED undoable \/ undoable' = [undoable EXCEPT ![dir[x]] = {}])
      <4>1. dir[c] \in Dirs => undoable'[dir[c]] \subseteq undoable[dir[c]]
        BY <3>3 DEF TypeOK
      <4>2. Bound(c) => dir[c] \in Dirs
        BY <1>c DEF ControlOf
      <4> QED
        BY <3>1, <3>3, <4>1, <4>2, <1>c, <2>m DEF SupersedesOf, InProgress, Bound, Settled, Reachable
    <3> QED
      BY <1>1, <3>2, <3>3, BindOrNot
  <2>2. ASSUME x = c PROVE SupersedesOf(c)'
    <3>1. CASE Binds(c)
      <4>1. /\ older'[c] = Reachable(dir[c]) /\ dir' = dir /\ pc'[c] = "syncdir"
            /\ target'[dir[c]] = c /\ dir[c] \in Dirs /\ ~Bound(c)
        BY <3>1 DEF Binds, Reachable, TypeOK
      <4>2. \A v \in older'[c] : v \in Calls => Bound(v)
        BY <4>1 DEF PublishedByOwner
      <4>3. c \notin older'[c]
        BY <4>1, <4>2
      <4> QED
        BY <4>1, <4>2, <4>3, <2>m DEF SupersedesOf, Settled
    <3>2. CASE UNCHANGED <<target, older, undoable>>
      <4>0. Bound(c) => pc[c] \in {"syncdir", "cleanup", "closedir", "ok", "failed", "dead"}
        BY <1>c DEF BindingOf, BeforeBinding, Filling, TypeOK, Steps, Returned
      <4>1. ASSUME Bound(c) PROVE ~OpenParent(c) /\ UNCHANGED dir
        BY <1>1, <2>2, <4>0, <4>1, StepOfCall DEF OpenParent
      <4>2. ASSUME Bound(c), Settled(c)' PROVE Settled(c) \/ SyncDirectory(c)
        <5>1. CASE Cleanup(c) \/ CloseParent(c) \/ Die(c)
          BY <4>2, <5>1, <1>c DEF Cleanup, CloseParent, Die, Settled, Goto, FailTo, TypeOK, ControlOf
        <5> QED
          BY <1>1, <2>2, <4>0, <4>2, <5>1 DEF CallStep, WriteStep, OpenParent, SampleMode, CreateTemporary,
             VerifyTemporary, SetMode, RunWriter, FlushStream, SyncFile, CloseStream, Rename, UnlinkEntry
      <4>3. ASSUME Bound(c), SyncDirectory(c), Settled(c)' PROVE undoable[dir[c]] = {}
        <5>1. UNCHANGED undoable /\ undoable' = [undoable EXCEPT ![dir[c]] = {}]
          BY <3>2, <4>3, <1>c DEF SyncDirectory, Settled, Goto, FailTo, TypeOK
        <5> QED
          BY <5>1, <4>3, <1>c DEF TypeOK, SyncDirectory, ControlOf
      <4>4. InProgress(c)' => InProgress(c) \/ OpenParent(c)
        BY <1>1, <2>2, StepOfCall DEF InProgress
      <4>5. ASSUME Bound(c), SyncDirectory(c) PROVE InProgress(c)
        BY <4>5 DEF SyncDirectory, InProgress, Steps
      <4> QED
        BY <3>2, <4>1, <4>2, <4>3, <4>4, <4>5, <1>c, <2>m DEF SupersedesOf, Bound, Reachable
    <3>3. CASE UNCHANGED <<target, older>> /\ SyncDirectory(c) /\ undoable' = [undoable EXCEPT ![dir[c]] = {}]
      <4>1. /\ dir' = dir /\ dir[c] \in Dirs /\ InProgress(c)
            /\ undoable'[dir[c]] = {}
        BY <3>3, <1>c DEF SyncDirectory, ControlOf, InProgress, Steps, TypeOK
      <4> QED
        BY <3>3, <4>1, <1>c, <2>m DEF SupersedesOf, Bound, Reachable
    <3> QED
      BY <1>1, <2>2, <3>1, <3>2, <3>3, BindOrNot
  <2> QED
    BY <2>1, <2>2
<1>2. CASE PowerLoss
  <2>1. /\ dir' = dir /\ older' = older /\ failed' = failed
        /\ pc'[c] = (IF InProgress(c) THEN "dead" ELSE pc[c])
    BY <1>2 DEF PowerLoss
  <2>2. dir[c] \in Dirs => Reachable(dir[c])' \subseteq Reachable(dir[c])
    BY <1>2 DEF PowerLoss, Reachable
  <2>3. Bound(c) => dir[c] \in Dirs
    BY <1>c DEF ControlOf
  <2> QED
    BY <2>1, <2>2, <2>3, <1>c DEF SupersedesOf, Bound, Settled, InProgress, Steps
<1>3. CASE MoveParent \/ UNCHANGED vars
  BY <1>3, <1>c DEF MoveParent, vars, SupersedesOf, Bound, Settled, InProgress, Reachable
<1> QED
  BY <1>1, <1>2, <1>3 DEF Next

LEMMA StepModes ==
  /\ TypeOK /\ Control /\ PublishedByOwner /\ ModesInherited
  /\ [Next]_vars
  => ModesInherited'
<1> SUFFICES ASSUME TypeOK, Control, ModesInherited, [Next]_vars,
                    NEW w \in Writers
             PROVE  (perm[w] = "wide" \/ mode[w] = "wide" => w \in Preserving /\ perm[Original] = "wide")'
  BY DEF ModesInherited
<1>w. /\ w \in Calls /\ w \in Inodes /\ Original \in Inodes /\ w # Original
      /\ perm[w] = "wide" \/ mode[w] = "wide" => w \in Preserving /\ perm[Original] = "wide"
  BY CallAssumption DEF ModesInherited, Calls, Inodes
<1>1. ASSUME NEW x \in Calls, CallStep(x) \/ Die(x)
      PROVE  (perm[w] = "wide" \/ mode[w] = "wide" => w \in Preserving /\ perm[Original] = "wide")'
  <2>1. CASE x \in Writers /\ SampleMode(x)
    <3>1. perm' = perm
      BY <2>1 DEF SampleMode, fs
    <3>2. ASSUME mode'[w] = "wide", mode'[w] # mode[w] PROVE w \in Preserving /\ perm[Original] = "wide"
      <4>1. x = w /\ CompletedMode(w) = "wide"
        BY <2>1, <3>2, <1>w DEF SampleMode, TypeOK
      <4>2. w \in Preserving /\ target[dir[w]] \in Inodes /\ perm[target[dir[w]]] = "wide"
        BY <4>1 DEF CompletedMode, TargetMode, IsFile
      <4> QED
        BY <4>2 DEF ModesInherited, Inodes
    <3> QED
      BY <3>1, <3>2, <1>w
  <2>2. CASE x \in Writers /\ (CreateTemporary(x) \/ SetMode(x))
    <3>1. mode' = mode
      BY <2>2 DEF CreateTemporary, SetMode
    <3>2. perm' = perm \/ \E m \in {"owner", perm[x], mode[x]} : perm' = [perm EXCEPT ![x] = m]
      BY <2>2 DEF CreateTemporary, SetMode
    <3>3. perm'[w] \in {perm[w], "owner", mode[w]} /\ perm'[Original] = perm[Original]
      BY <2>2, <3>2, <1>w, CallAssumption DEF TypeOK, Calls
    <3> QED
      BY <3>1, <3>3, <1>w
  <2>3. ASSUME ~SampleMode(x), ~CreateTemporary(x), ~SetMode(x) PROVE UNCHANGED <<perm, mode>>
    BY <1>1, <2>3 DEF CallStep, WriteStep, Die, fs, OpenParent, VerifyTemporary,
       RunWriter, FlushStream, SyncFile, CloseStream, Rename, Cleanup, UnlinkEntry, SyncDirectory, CloseParent
  <2>4. SampleMode(x) \/ CreateTemporary(x) \/ SetMode(x) => x \in Writers
    BY DEF SampleMode, CreateTemporary, SetMode, Control, ControlOf, Calls
  <2> QED
    BY <2>1, <2>2, <2>3, <2>4, <1>w
<1>2. CASE PowerLoss
  BY <1>2, <1>w DEF PowerLoss
<1>3. CASE MoveParent \/ UNCHANGED vars
  BY <1>3, <1>w DEF MoveParent, vars
<1> QED
  BY <1>1, <1>2, <1>3 DEF Next

LEMMA InitIInv == Init => IInv
<1> SUFFICES ASSUME Init PROVE IInv
  OBVIOUS
<1> USE DEF Init
<1>1. /\ \A c \in Calls : pc[c] = "open" /\ ~failed[c] /\ ~anchored[c] /\ older[c] = {}
      /\ \A d \in Dirs : Reachable(d) \subseteq {Original, Absent}
      /\ \A i \in Inodes : IsStored(i)
      /\ \A w \in Writers : perm[w] = "owner" /\ mode[w] = "owner"
  BY CallAssumption DEF Calls, Inodes, Reachable, IsStored
<1>2. \A w \in Writers, d \in Dirs, t \in TempNames : ~Occurs(w, d, t)
  BY CallAssumption DEF Occurs, Calls
<1>3. Writers \subseteq Calls
  BY DEF Calls
<1>4. Control /\ Binding /\ OwnEntry
  BY <1>1, <1>3 DEF Control, ControlOf, Binding, BindingOf, OwnEntry, OwnEntryOf, InProgress, Bound, Settled, Filling
<1>5. Traces /\ StoredFirst
  BY <1>1, <1>2, <1>3 DEF Traces, TraceOf, StoredFirst, StoredFirstOf, Settled
<1>6. PublishedByOwner /\ TargetComplete
  BY <1>1, CallAssumption DEF PublishedByOwner, TargetComplete, IsStored, IsFile
<1>7. Supersedes /\ ModesInherited
  BY <1>1, <1>3 DEF Supersedes, SupersedesOf, ModesInherited, Bound
<1> QED
  BY <1>4, <1>5, <1>6, <1>7 DEF IInv

LEMMA StepIInv == TypeOK /\ IInv /\ [Next]_vars => IInv'
<1> SUFFICES ASSUME TypeOK, IInv, [Next]_vars PROVE IInv'
  OBVIOUS
<1>0. /\ Control /\ Binding /\ OwnEntry /\ Traces /\ PublishedByOwner /\ StoredFirst
      /\ TargetComplete /\ Supersedes /\ ModesInherited
  BY DEF IInv
<1> QED
  BY <1>0, StepControl, StepBinding, StepOwnEntry, StepTraces, StepPublished, StepStoredFirst,
     StepComplete, StepSupersedes, StepModes DEF IInv

\* The argument of the module AtomicFileInvariant is an induction.
THEOREM Inductive == Spec => []IInv
BY InitIInv, StepIInv, TypeCorrect, PTL DEF Spec

\* No state, before or after a power loss, shows a half-written target.
THEOREM TargetAlwaysComplete == Spec => []TargetComplete
<1>1. IInv => TargetComplete
  BY DEF IInv
<1> QED
  BY <1>1, Inductive, PTL

\* Only a writer's own rename publishes its file.
THEOREM AlwaysPublishedByOwner == Spec => []PublishedByOwner
<1>1. IInv => PublishedByOwner
  BY DEF IInv
<1> QED
  BY <1>1, Inductive, PTL

\* Once a call settled, what it superseded is out of reach.
LEMMA DurableAtReturn == IInv => SuccessIsDurable
<1> SUFFICES ASSUME IInv, NEW c \in Calls, pc[c] = "ok"
             PROVE  /\ c \in Writers => Bound(c)
                    /\ Bound(c) => older[c] \cap Reachable(dir[c]) = {}
  BY DEF SuccessIsDurable
<1>1. BindingOf(c) /\ SupersedesOf(c)
  BY DEF IInv, Binding, Supersedes
<1> QED
  BY <1>1 DEF BindingOf, SupersedesOf, Settled

\* What a call that returned zero replaced or removed never comes back.
THEOREM SuccessAlwaysDurable == Spec => []SuccessIsDurable
BY DurableAtReturn, Inductive, PTL

\* A write that returned zero has no temporary file left, nor gets one back.
THEOREM SuccessAlwaysClean == Spec => []SuccessLeavesNoTemporary
<1>1. IInv => SuccessLeavesNoTemporary
  BY DEF IInv, Traces, TraceOf, Settled, Occurs, SuccessLeavesNoTemporary
<1> QED
  BY <1>1, Inductive, PTL

\* The file of a PRIVATE writer is at no time readable by others.
THEOREM PrivateAlwaysPrivate == Spec => []PrivateStaysPrivate
<1>1. IInv => PrivateStaysPrivate
  BY DEF IInv, ModesInherited, PrivateStaysPrivate
<1> QED
  BY <1>1, Inductive, PTL

\* Nobody else removes or replaces the temporary entry of a write in progress.
THEOREM TemporaryAlwaysKept == Spec => TemporaryIsKept
<1> DEFINE Kept == \A w \in Writers : InProgress(w) /\ pc'[w] = pc[w] =>
                     \A d \in Dirs, t \in TempNames : temps[d][t] = w => temps'[d][t] = w
<1>1. TypeOK /\ IInv /\ [Next]_vars => [Kept]_vars
  <2> SUFFICES ASSUME TypeOK, IInv, Next, NEW w \in Writers, InProgress(w), pc'[w] = pc[w],
                      NEW d \in Dirs, NEW t \in TempNames, temps[d][t] = w
               PROVE  temps'[d][t] = w
    OBVIOUS
  <2>w. w \in Calls /\ w # Absent /\ Control /\ Binding /\ OwnEntry
    BY CallAssumption DEF Calls, IInv
  <2>1. ASSUME NEW x \in Calls, CallStep(x) \/ Die(x) PROVE temps'[d][t] = w
    <3>1. CASE Draws(x)
      <4>1. ~(d = path /\ t = temp'[x])
        BY <3>1, <2>w DEF Draws
      <4> QED
        BY <3>1, <4>1 DEF Draws, SetTemp, TypeOK
    <3>2. CASE Removes(x)
      <4>1. x # w
        BY <3>2 DEF Removes
      <4>2. ~(d = dir[x] /\ t = temp[x])
        BY <3>2, <4>1 DEF Removes
      <4> QED
        BY <3>2, <4>2 DEF Removes, SetTemp, TypeOK
    <3> QED
      BY <2>1, <2>w, <3>1, <3>2, DrawOrRemove
  <2>2. CASE PowerLoss
    BY <2>2, <2>w DEF PowerLoss, InProgress, Steps
  <2>3. CASE MoveParent
    BY <2>3 DEF MoveParent
  <2> QED
    BY <2>1, <2>2, <2>3 DEF Next
<1> QED
  BY <1>1, TypeCorrect, Inductive, PTL DEF Spec, TemporaryIsKept

-------------------------------------------------------------------------------
(* The implementation of DurableFile: what the system calls of posix.c do  *)
(* is, seen from outside, one atomic replacement or removal of the target. *)

\* Every target is whole: the mapping of ImplementsDurableFile hides nothing.
WholeTarget ==
  /\ [d \in Dirs |-> Whole(target[d])] = target
  /\ [d \in Dirs |-> {Whole(v) : v \in undoable[d]}] = undoable

LEMMA CompleteIsWhole == TypeOK /\ TargetComplete => WholeTarget
<1> SUFFICES ASSUME TypeOK, TargetComplete PROVE WholeTarget
  OBVIOUS
<1>1. \A d \in Dirs : \A v \in Reachable(d) : Whole(v) = v
  BY DEF TargetComplete, Whole
<1>2. \A d \in Dirs : Whole(target[d]) = target[d]
  BY <1>1 DEF Reachable
<1>3. \A d \in Dirs : {Whole(v) : v \in undoable[d]} = undoable[d]
  BY <1>1 DEF Reachable
<1> QED
  BY <1>2, <1>3 DEF TypeOK, WholeTarget

\* The rest of the mapping.
Replaced == [c \in Calls |-> {dir[c]} \X older[c]]
Ends == Returned \cup {"dead"}
Outcome == [c \in Calls |-> IF pc[c] \in Ends THEN pc[c] ELSE "pending"]


\* The step of a call is one step of DurableFile: the target changes hands, the
\* directory is made durable, or the call returns.
LEMMA CallStepAbstract ==
  ASSUME TypeOK, IInv, WholeTarget, TypeOK', SuccessIsDurable', WholeTarget',
         NEW x \in Calls, CallStep(x) \/ Die(x)
  PROVE  Abstract!Next \/ UNCHANGED Abstract!vars
<1>0. /\ Control /\ Binding /\ OwnEntry /\ ControlOf(x) /\ BindingOf(x)
      /\ dir'[x] \in Dirs \cup {NoDir} /\ dir[x] \in Dirs \cup {NoDir}
  BY DEF IInv, Control, Binding, TypeOK
<1>1. pc[x] \notin Ends
  BY DEF Ends, Returned, CallStep, WriteStep, Die, InProgress, Steps, OpenParent, SampleMode, CreateTemporary,
     VerifyTemporary, SetMode, RunWriter, FlushStream, SyncFile, CloseStream, Rename, Cleanup,
     UnlinkEntry, SyncDirectory, CloseParent
<1>2. \A c \in Calls \ {x} : pc'[c] = pc[c] /\ dir'[c] = dir[c] /\ older'[c] = older[c]
  BY OtherCalls
<1>3. ASSUME pc'[x] \notin Ends PROVE Outcome' = Outcome
  BY <1>1, <1>2, <1>3 DEF Outcome
<1>4. ASSUME pc'[x] \in Ends PROVE Outcome' = [Outcome EXCEPT ![x] = pc'[x]]
  BY <1>1, <1>2, <1>4 DEF Outcome
<1>5. Outcome[x] = "pending"
  BY <1>1 DEF Outcome
<1>6. ASSUME UNCHANGED older PROVE Replaced' = Replaced
  <2>1. CASE OpenParent(x)
    <3>1. older[x] = {}
      BY <2>1, <1>0 DEF OpenParent, BindingOf, BeforeBinding, Bound
    <3>2. {dir'[x]} \X older'[x] = {} /\ {dir[x]} \X older[x] = {}
      BY <3>1, <1>6
    <3> QED
      BY <3>2, <1>2 DEF Replaced
  <2>2. CASE ~OpenParent(x)
    <3>1. dir' = dir
      BY <2>2, StepOfCall
    <3> QED
      BY <3>1, <1>6 DEF Replaced
  <2> QED
    BY <2>1, <2>2
<1>7. CASE Binds(x)
  <2>1. Outcome' = Outcome
    BY <1>3, <1>7 DEF Binds, Ends, Returned, TypeOK
  <2>2. Replaced' = [Replaced EXCEPT ![x] = {dir[x]} \X (undoable[dir[x]] \cup {target[dir[x]]})]
    BY <1>7 DEF Binds, Replaced, TypeOK
  <2>3. Replaced[x] = {} /\ dir[x] \in Dirs
    BY <1>7 DEF Binds, Replaced, Bound
  <2>4. PICK d \in Dirs : d = dir[x]
    BY <2>3
  <2>5. Abstract!Install(x, d)
    BY <2>1, <2>2, <2>3, <2>4, <1>5, <1>7 DEF Abstract!Install, WholeTarget, Binds, Replaced, Outcome, Ends
  <2> QED
    BY <2>5 DEF Abstract!Next
<1>8. CASE /\ UNCHANGED <<target, older>>
           /\ SyncDirectory(x) /\ undoable' = [undoable EXCEPT ![dir[x]] = {}]
  <2>1. dir[x] \in Dirs
    BY <1>0, <1>8 DEF SyncDirectory, ControlOf, InProgress, Steps
  <2>2. Outcome' = Outcome
    BY <1>3, <1>8 DEF SyncDirectory, Goto, FailTo, Ends, Returned, TypeOK
  <2>3. PICK d \in Dirs : d = dir[x]
    BY <2>1
  <2>4. Abstract!Persist(d)
    BY <2>2, <2>3, <1>6, <1>8 DEF Abstract!Persist, WholeTarget, Replaced, Outcome, Ends
  <2> QED
    BY <2>4 DEF Abstract!Next
<1>9. CASE UNCHANGED <<target, older, undoable>>
  <2>1. CASE pc'[x] \notin Ends
    BY <2>1, <1>3, <1>6, <1>9 DEF Abstract!vars, WholeTarget, Replaced, Outcome, Ends
  <2>2. CASE pc'[x] \in {"failed", "dead"}
    <3>1. Abstract!Fail(x)
      BY <2>2, <1>4, <1>5, <1>6, <1>9 DEF Abstract!Fail, WholeTarget, Replaced, Outcome, Ends, Returned
    <3> QED
      BY <3>1 DEF Abstract!Next
  <2>3. CASE pc'[x] = "ok"
    <3>1. ASSUME NEW d \in Dirs, NEW v \in undoable[d] \cup {target[d]} PROVE <<d, v>> \notin Replaced[x]
      <4>1. Replaced[x] = {dir'[x]} \X older'[x]
        BY <1>6, <1>9 DEF Replaced
      <4>2. ~(d = dir'[x] /\ v \in older'[x])
        BY <2>3, <3>1, <1>9 DEF SuccessIsDurable, Bound, Reachable
      <4> QED
        BY <4>1, <4>2
    <3>2. Abstract!Succeed(x)
      BY <2>3, <3>1, <1>4, <1>5, <1>6, <1>9 DEF Abstract!Succeed, WholeTarget, Replaced, Outcome, Ends, Returned
    <3> QED
      BY <3>2 DEF Abstract!Next
  <2> QED
    BY <2>1, <2>2, <2>3 DEF Ends, Returned
<1> QED
  BY <1>0, <1>7, <1>8, <1>9, BindOrNot

LEMMA StepAbstract ==
  /\ TypeOK /\ IInv /\ WholeTarget /\ TypeOK' /\ SuccessIsDurable' /\ WholeTarget'
  /\ [Next]_vars
  => [Abstract!Next]_(Abstract!vars)
<1> SUFFICES ASSUME TypeOK, IInv, WholeTarget, TypeOK', SuccessIsDurable', WholeTarget', [Next]_vars
             PROVE  Abstract!Next \/ UNCHANGED Abstract!vars
  OBVIOUS
<1>1. CASE \E x \in Calls : CallStep(x) \/ Die(x)
  BY <1>1, CallStepAbstract
<1>2. CASE PowerLoss
  <2> DEFINE Lost == {c \in Calls : InProgress(c)}
  <2>1. /\ Lost \in SUBSET {c \in Calls : Outcome[c] = "pending"}
        /\ Outcome' = [c \in Calls |-> IF c \in Lost THEN "dead" ELSE Outcome[c]]
    BY <1>2 DEF PowerLoss, Outcome, Ends, Returned, InProgress, Steps
  <2>2. Replaced' = Replaced
    BY <1>2 DEF PowerLoss, Replaced
  <2> HIDE DEF Lost
  <2>3. Abstract!PowerLoss
    BY <1>2, <2>1, <2>2 DEF PowerLoss, Abstract!PowerLoss, WholeTarget, Replaced, Outcome, Ends
  <2> QED
    BY <2>3 DEF Abstract!Next
<1>3. CASE MoveParent \/ UNCHANGED vars
  BY <1>3 DEF MoveParent, vars, Abstract!vars, WholeTarget
<1> QED
  BY <1>1, <1>2, <1>3 DEF Next

\* Every execution of the two functions is one of the atomic replacements and
\* removals that DurableFile states.
THEOREM Implements == Spec => ImplementsDurableFile
<1>1. Init => Abstract!Init
  <2> SUFFICES ASSUME Init PROVE Abstract!Init
    OBVIOUS
  <2>1. \A v \in {Original, Absent} : Whole(v) = v
    BY CallAssumption DEF Init, Whole, IsFile, Inodes
  <2>2. \A d \in Dirs : Whole(target[d]) \in {Original, Absent}
    BY <2>1 DEF Init
  <2> QED
    BY <2>2, CallAssumption DEF Init, Abstract!Init, Versions, Calls, Returned
<1>2. TypeOK /\ IInv => WholeTarget
  BY CompleteIsWhole DEF IInv
<1> QED
  BY <1>1, <1>2, DurableAtReturn, StepAbstract, TypeCorrect, Inductive, PTL DEF Spec, ImplementsDurableFile, Abstract!Spec
===============================================================================
