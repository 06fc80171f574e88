---------------------------- MODULE DescriptorTable ----------------------------
(***************************************************************************)
(* The descriptors of a process, which its threads share, as src/posix.c   *)
(* and src/posix_io.c use them: open and openat take the lowest number     *)
(* that is free, close gives it back, and a number may then be another     *)
(* thread's.                                                               *)
(***************************************************************************)
EXTENDS Naturals, Sequences

CONSTANT Fds

ASSUME DescriptorAssumption == Fds \subseteq Nat /\ 0 \in Fds

VARIABLE fds \* what each number stands for: its owner, a file and the position in it

Closed == [owner |-> "nobody", node |-> << >>, position |-> 0]
Description(owner, node) == [owner |-> owner, node |-> node, position |-> 0]

Opens(n, owner, node) ==
  /\ fds[n] = Closed /\ \A m \in Fds : fds[m] = Closed => n <= m
  /\ fds' = [fds EXCEPT ![n] = Description(owner, node)]

\* Linux frees the number also where close reports a failure.
Closes(n) == fds' = [fds EXCEPT ![n] = Closed]

IsOf(n, owner) == fds[n].owner = owner
================================================================================
