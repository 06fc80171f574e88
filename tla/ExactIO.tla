--------------------------------- MODULE ExactIO ---------------------------------
(***************************************************************************)
(* src/posix_io.c: infiltratr_read_full and infiltratr_write_full at the   *)
(* position of a descriptor, infiltratr_pread_full and                     *)
(* infiltratr_pwrite_full at an offset, by threads that share one          *)
(* descriptor.  The kernel transfers any part of what is asked for, or     *)
(* fails; an interrupted call changes nothing and is left out.             *)
(*                                                                         *)
(* A byte of the file is a record of who wrote it and for which place.     *)
(***************************************************************************)
EXTENDS DescriptorTable, Integers

CONSTANTS
  Threads,
  Operations,   \* what each may call: read, write, pread, pwrite
  OffsetMax,    \* the last position in a file
  MaxCount,     \* bounds the bytes of a call
  Length        \* of the file at first

ASSUME TransferAssumption == {OffsetMax, MaxCount, Length} \subseteq Nat /\ Length <= OffsetMax + 1

Positioned(operation) == operation \in {"pread", "pwrite"}

\* One thread at most uses the position of the descriptor.
ASSUME ThreadsAssumption ==
  /\ Threads \cap {"before", "hole"} = {}
  /\ Operations \in [Threads -> SUBSET {"read", "write", "pread", "pwrite"}]
  /\ \A t, u \in Threads :
       \/ t = u
       \/ \A operation \in Operations[t] : Positioned(operation)
       \/ \A operation \in Operations[u] : Positioned(operation)

VARIABLES
  data,     \* the bytes of the file
  data_fd,
  call,     \* of each thread: the operation, the bytes, where they are to start
  offset,   \* where the next part goes, for a positioned call
  done,     \* the bytes transferred so far
  got,      \* those of a read
  io_pc     \* idle, busy, ok: zero was returned, failed: -1

transfers == <<data_fd, call, offset, done, got, io_pc>>

NoCall == [operation |-> "none", count |-> 0, start |-> 0]
Stored(by, at) == [by |-> by, at |-> at]

TransferInit ==
  /\ data = [i \in 1..Length |-> Stored("before", i - 1)]
  /\ data_fd = 0
  /\ call = [t \in Threads |-> NoCall] /\ offset = [t \in Threads |-> 0]
  /\ done = [t \in Threads |-> 0] /\ got = [t \in Threads |-> << >>]
  /\ io_pc = [t \in Threads |-> "idle"]

Reads(operation) == operation \in {"read", "pread"}

valid_positioned_range(count, at) ==
  count > 0 => at <= OffsetMax /\ count - 1 <= OffsetMax - at

\* The descriptor has been positioned anywhere.
Begin(t) ==
  /\ io_pc[t] = "idle"
  /\ \E operation \in Operations[t], count \in 0..MaxCount, at \in 0..(OffsetMax + 1) :
       /\ call' = [call EXCEPT ![t] = [operation |-> operation, count |-> count, start |-> at]]
       /\ offset' = [offset EXCEPT ![t] = at]
       /\ fds' = IF Positioned(operation) THEN fds ELSE [fds EXCEPT ![data_fd].position = at]
       /\ io_pc' = [io_pc EXCEPT ![t] =
            IF Positioned(operation) /\ ~valid_positioned_range(count, at) THEN "failed"
            ELSE IF count = 0 THEN "ok" ELSE "busy"]
  /\ UNCHANGED <<data, data_fd, done, got>>

Left(t) == call[t].count - done[t]
FirstAgain(t) == IF Positioned(call[t].operation) THEN call[t].start \* mutant
                 ELSE fds[data_fd].position
Place(t) == IF Positioned(call[t].operation) THEN offset[t] ELSE fds[data_fd].position

\* What the kernel may transfer: nothing at the end of the file, or where the
\* file cannot be longer.
Amounts(t) ==
  LET end == IF Reads(call[t].operation) THEN Len(data) ELSE OffsetMax + 1
      most == IF Left(t) < end - Place(t) THEN Left(t) ELSE end - Place(t)
  IN  IF most <= 0 THEN {0} ELSE 1..most

\* The file after n bytes were written at a place, a hole filled with zeros.
Written(t, at, n) ==
  [i \in 1..(IF Len(data) < at + n THEN at + n ELSE Len(data)) |->
     IF i - 1 \in at .. at + n - 1 THEN Stored(t, call[t].start + done[t] + (i - 1 - at))
     ELSE IF i <= Len(data) THEN data[i] ELSE Stored("hole", i - 1)]

TriedAgain(t, amount) == IF amount = Left(t) THEN "ok" ELSE "busy" \* mutant: no byte is no error
After(t, amount) ==
  IF amount = 0 THEN "failed" ELSE IF amount = Left(t) THEN "ok" ELSE "busy"

Transfer(t) ==
  /\ io_pc[t] = "busy"
  /\ \E amount \in Amounts(t) :
       LET operation == call[t].operation IN
       /\ IF Reads(operation)
          THEN /\ got' = [got EXCEPT ![t] = @ \o SubSeq(data, Place(t) + 1, Place(t) + amount)]
               /\ UNCHANGED data
          ELSE data' = (IF amount = 0 THEN data ELSE Written(t, Place(t), amount)) /\ UNCHANGED got
       /\ fds' = IF Positioned(operation) THEN fds
                 ELSE [fds EXCEPT ![data_fd].position = @ + amount]
       /\ offset' = [offset EXCEPT ![t] = @ + amount]
       /\ done' = [done EXCEPT ![t] = @ + amount]
       /\ io_pc' = [io_pc EXCEPT ![t] = After(t, amount)]
  /\ UNCHANGED <<data_fd, call>>

\* The kernel reports an error.
TransferFails(t) ==
  /\ io_pc[t] = "busy"
  /\ io_pc' = [io_pc EXCEPT ![t] = "failed"]
  /\ UNCHANGED <<fds, data, data_fd, call, offset, done, got>>

TransferStep(t) == Begin(t) \/ Transfer(t) \/ TransferFails(t)
==================================================================================
