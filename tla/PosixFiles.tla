------------------------------- MODULE PosixFiles -------------------------------
(***************************************************************************)
(* Threads of one process that use files at the same time: one makes the   *)
(* directories of a path, one reads a text file, some transfer bytes       *)
(* through a descriptor they share.  What they share is the table of       *)
(* descriptors.                                                            *)
(***************************************************************************)
EXTENDS MakeParents, TextFile, ExactIO

CONSTANT Casts \* which of them take part: sets of "maker", "reader" and Threads

VARIABLE cast

vars == <<fds, walk, tree, text, edits, reading, data, transfers, cast>>

Init ==
  /\ cast \in Casts
  /\ fds = [n \in Fds |-> IF n = 0 THEN Description("threads", <<"data">>) ELSE Closed]
  /\ WalkInit /\ ReadInit /\ TransferInit

Make ==
  "maker" \in cast /\ WalkStep /\ UNCHANGED <<text, edits, reading, data, transfers, cast>>
Read ==
  "reader" \in cast /\ ReadStep /\ UNCHANGED <<walk, tree, data, transfers, cast>>
Others == <<walk, tree, text, edits, reading, cast>>
Move(t) == t \in cast /\ TransferStep(t) /\ UNCHANGED Others
Disturb ==
  \/ "maker" \in cast /\ ChangePath /\ UNCHANGED <<text, edits, reading, data, transfers, cast>>
  \/ "reader" \in cast /\ EditText /\ UNCHANGED <<walk, tree, data, transfers, cast>>

Next == Make \/ Read \/ (\E t \in Threads : Move(t)) \/ Disturb

\* Each thread is scheduled, and no system call is interrupted for ever; but no
\* transfer has to fail.
Fairness ==
  /\ WF_vars(Make) /\ WF_vars(Read)
  /\ \A t \in Threads : WF_vars(t \in cast /\ Transfer(t) /\ UNCHANGED Others)

Spec == Init /\ [][Next]_vars /\ Fairness

---------------------------------------------------------------------------------
(* Properties.                                                                   *)

\* A call that returned has nothing open, on any path; and it closes nothing but
\* its own, so that no other thread's descriptor goes: unless a close failed in
\* infiltratr_mkdir_parents, which then closes the same number again.
DescriptorsAreOwned ==
  /\ \A n \in Fds : IsOf(n, "maker") => n \in Held
  /\ \A n \in Fds : IsOf(n, "reader") => n \in TextHeld
  /\ ~twice => /\ \A n \in Held : IsOf(n, "maker")
               /\ \A n \in TextHeld : IsOf(n, "reader")
  /\ IsOf(data_fd, "threads")

\* docs/DESIGN.md:28 calls undefined ownership a defect: while a call reads from a
\* descriptor, no other call closes it.  The code does, where the first close of
\* directory_fd fails and the number is another thread's when it is closed again.
DescriptorIsKept == \A n \in TextHeld : IsOf(n, "reader")

\* Zero from infiltratr_mkdir_parents means that the whole path is there, unless
\* another program has removed some of it; whoever made it.
PathIsMade ==
  walk_pc = "done" /\ ~failure /\ ~removed =>
    \A i \in Levels : entry[i].kind = "directory"

\* What there is to be told of the file.
Seen == IF reader = "bounded" /\ Len(text) >= Size THEN SubSeq(text, 1, Size - 1) ELSE text
Truth ==
  LET ok == [status |-> "ok", text |-> IF reader = "bounded" THEN Stripped(Seen) ELSE Seen]
      invalid == [status |-> "invalid", text |-> << >>]
  IN  CASE text = << >> -> [status |-> "empty", text |-> << >>]
        [] text # << >> /\ reader # "whole" /\ HasNul(Seen) -> invalid
        [] reader = "numeric" /\ text # << >> /\ ~IsNumber(text) -> invalid
        [] Seen # text /\ ~HasNul(Seen) -> [ok EXCEPT !.status = "truncated"]
        [] OTHER -> ok

\* What is told of a file that was not changed is the whole truth, also where it
\* just fits or just does not; no byte of a changed one is out of place.
TextIsTold ==
  read_pc = "done" =>
    /\ \A i \in DOMAIN buffer : buffer[i].at = i
    /\ edits = 0 /\ answer.status # "error" => answer = Truth

\* A transfer goes to its place and to no other, in order and once, however the
\* kernel cut it up and whoever used the descriptor meanwhile: all of it where
\* zero is returned, the beginning of it where it failed; and a positioned one
\* does not move the descriptor.
TransfersAreExact ==
  \A t \in cast \cap Threads :
    LET c == call[t] IN
    /\ io_pc[t] = "ok" => done[t] = c.count
    /\ Reads(c.operation) => /\ Len(got[t]) = done[t]
                             /\ \A i \in DOMAIN got[t] : got[t][i].at = c.start + i - 1
    /\ ~Reads(c.operation) =>
         /\ \A i \in DOMAIN data : data[i].by = t => i - 1 \in c.start .. c.start + done[t] - 1
         /\ \A at \in c.start .. c.start + done[t] - 1 :
              at < Len(data) /\ data[at + 1].at = at /\ data[at + 1].by \in cast
    /\ c.operation \in {"read", "write"} => fds[data_fd].position = c.start + done[t]

\* Every call returns: a transfer that makes no progress is an error.
CallsReturn ==
  /\ walk_pc = "mkdir" ~> walk_pc = "done"
  /\ read_pc \in {"reserve", "read"} ~> read_pc = "done"
  /\ \A t \in Threads : io_pc[t] = "busy" ~> io_pc[t] \in {"ok", "failed"}
==================================================================================
