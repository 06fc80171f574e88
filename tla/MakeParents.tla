------------------------------ MODULE MakeParents ------------------------------
(***************************************************************************)
(* infiltratr_mkdir_parents of src/posix.c: each directory of a path is    *)
(* made, opened and left for the next one, by descriptors, while other     *)
(* programs make and remove entries of the path.                           *)
(***************************************************************************)
EXTENDS DescriptorTable

CONSTANTS
  Depth,       \* the directories of the path
  MaxChanges   \* bounds what other programs do to the path

ASSUME MakeAssumption == {Depth, MaxChanges} \subseteq Nat

VARIABLES
  entry,   \* the name at each level: what it is and, of a directory, which one
  made,    \* the directories made so far, by anyone
  removed, \* history: whether anything was removed
  changes,
  walk_pc, \* start, mkdir, open, advance, drop, leave, finish, done
  level,   \* of the directory that is open
  directory_fd, next_fd,
  failure,
  twice    \* history: the close of directory_fd failed, so that it is closed again

walk == <<walk_pc, level, directory_fd, next_fd, failure, twice>>
tree == <<entry, made, removed, changes>>

Levels == 1..Depth
Root == <<"path", 0, 0>>
Absent == [kind |-> "absent", id |-> 0]
PlainFile == [kind |-> "file", id |-> 0]
Directory(id) == [kind |-> "directory", id |-> id]

WalkInit ==
  /\ entry = [i \in Levels |-> Absent] /\ made = 0 /\ removed = FALSE /\ changes = 0
  /\ walk_pc = "start" /\ level = 0 /\ directory_fd = 0 /\ next_fd = 0
  /\ failure = FALSE /\ twice = FALSE

Fail(pc) == failure' = TRUE /\ walk_pc' = pc
\* The directory that is open is still in the path, not removed.
IsLinked == level > 0 => entry[level] = Directory(fds[directory_fd].node[3])

OpenAnchor ==
  /\ walk_pc = "start"
  /\ \/ \E n \in Fds : Opens(n, "maker", Root) /\ directory_fd' = n
        /\ walk_pc' = "mkdir" /\ UNCHANGED failure
     \/ Fail("done") /\ UNCHANGED <<fds, directory_fd>>
  /\ UNCHANGED <<tree, level, next_fd, twice>>

OneLess == Depth - 1 \* mutant: the last component is not made
LastLevel == Depth

\* mkdirat, EEXIST being as good as success.
MakeDirectory ==
  /\ walk_pc = "mkdir" /\ level < LastLevel
  /\ \/ /\ IsLinked /\ entry[level + 1] = Absent
        /\ entry' = [entry EXCEPT ![level + 1] = Directory(made + 1)] /\ made' = made + 1
        /\ walk_pc' = "open" /\ UNCHANGED failure
     \/ /\ IsLinked /\ entry[level + 1] # Absent
        /\ walk_pc' = "open" /\ UNCHANGED <<entry, made, failure>>
     \/ Fail("leave") /\ UNCHANGED <<entry, made>>
  /\ UNCHANGED <<fds, removed, changes, level, directory_fd, next_fd, twice>>

EndOfPath ==
  /\ walk_pc = "mkdir" /\ level = LastLevel
  /\ walk_pc' = "finish"
  /\ UNCHANGED <<fds, tree, level, directory_fd, next_fd, failure, twice>>

OpenNext ==
  /\ walk_pc = "open"
  /\ \/ /\ IsLinked /\ entry[level + 1].kind = "directory"
        /\ \E n \in Fds : /\ Opens(n, "maker", <<"path", level + 1, entry[level + 1].id>>)
                          /\ next_fd' = n
        /\ walk_pc' = "advance" /\ UNCHANGED failure
     \/ Fail("leave") /\ UNCHANGED <<fds, next_fd>>
  /\ UNCHANGED <<tree, level, directory_fd, twice>>

NextKept == "leave" \* mutant: next_fd is not closed where directory_fd could not be
AfterFailedClose == "drop"

\* close of directory_fd.
Advance ==
  /\ walk_pc = "advance"
  /\ Closes(directory_fd)
  /\ \/ /\ directory_fd' = next_fd /\ level' = level + 1
        /\ walk_pc' = "mkdir" /\ UNCHANGED <<failure, twice>>
     \/ Fail(AfterFailedClose) /\ twice' = TRUE /\ UNCHANGED <<directory_fd, level>>
  /\ UNCHANGED <<tree, next_fd>>

DropNext ==
  /\ walk_pc = "drop"
  /\ Closes(next_fd)
  /\ walk_pc' = "leave"
  /\ UNCHANGED <<tree, level, directory_fd, next_fd, failure, twice>>

\* The last close: its result counts only where nothing failed before.
CloseLast ==
  /\ walk_pc \in {"leave", "finish"}
  /\ Closes(directory_fd)
  /\ failure' \in IF walk_pc = "finish" THEN BOOLEAN ELSE {TRUE}
  /\ walk_pc' = "done"
  /\ UNCHANGED <<tree, level, directory_fd, next_fd, twice>>

WalkStep ==
  OpenAnchor \/ MakeDirectory \/ EndOfPath \/ OpenNext \/ Advance \/ DropNext \/ CloseLast

\* Another program makes a directory or a file, or removes what is empty.
ChangePath ==
  /\ changes < MaxChanges /\ changes' = changes + 1
  /\ \E i \in Levels :
       \/ /\ i > 1 => entry[i - 1].kind = "directory"
          /\ entry[i] = Absent
          /\ \/ entry' = [entry EXCEPT ![i] = Directory(made + 1)] /\ made' = made + 1
             \/ entry' = [entry EXCEPT ![i] = PlainFile] /\ UNCHANGED made
          /\ UNCHANGED removed
       \/ /\ entry[i] # Absent
          /\ i < Depth => entry[i + 1] = Absent
          /\ entry' = [entry EXCEPT ![i] = Absent] /\ removed' = TRUE /\ UNCHANGED made
  /\ UNCHANGED <<fds, walk>>

\* The numbers the call has open.
Held ==
  CASE walk_pc \in {"mkdir", "open", "leave", "finish"} ->
         IF twice THEN {} ELSE {directory_fd}
    [] walk_pc = "advance" -> {directory_fd, next_fd}
    [] walk_pc = "drop" -> {next_fd}
    [] OTHER -> {}
================================================================================
