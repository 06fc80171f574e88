-------------------------------- MODULE TextFile --------------------------------
(***************************************************************************)
(* infiltratr_read_text_file_ex of src/posix.c, which reads a file into a  *)
(* buffer of Size bytes, infiltratr_posix_read_alloc, which reads all of   *)
(* it, and the numeric readers on top of that, while another program       *)
(* shortens or extends the file.  A read that is interrupted changes       *)
(* nothing and is left out.                                                *)
(*                                                                         *)
(* A byte is a record of its kind and the place it was written at.         *)
(***************************************************************************)
EXTENDS DescriptorTable, CheckedArithmetic
Seqs == INSTANCE SequencesExt

CONSTANTS
  Size,         \* of the caller's buffer
  FirstReserve, \* 256
  Contents,     \* of the file, at first
  MaxEdits      \* bounds what another program does to it

ASSUME TextAssumption == {Size, FirstReserve, MaxEdits} \subseteq Nat \ {0} /\ Size >= 2

VARIABLES
  text, edits,
  reader,  \* bounded, whole or numeric: which function
  read_pc, \* start, reserve, read, probe, close, done
  text_fd, buffer, capacity, status,
  answer   \* what it returned and left in the buffer

reading == <<reader, read_pc, text_fd, buffer, capacity, status, answer>>

Kinds == {"letter", "NUL", "newline"}
Byte(kind, at) == [kind |-> kind, at |-> at]
Bytes == [kind : Kinds, at : Nat]

ASSUME ContentsAssumption ==
  \A content \in Contents : content \in Seq(Bytes) /\ \A i \in DOMAIN content : content[i].at = i

NoAnswer == [status |-> "none", text |-> << >>]

ReadInit ==
  /\ text \in Contents /\ edits = 0
  /\ reader \in {"bounded", "whole", "numeric"}
  /\ read_pc = "start" /\ text_fd = 0 /\ buffer = << >> /\ capacity = 0
  /\ status = "ok" /\ answer = NoAnswer

HasNul(bytes) == \E i \in DOMAIN bytes : bytes[i].kind = "NUL"
Stripped(bytes) == SubSeq(bytes, 1, Seqs!SelectLastInSeq(bytes, LAMBDA b : b.kind # "newline"))

Unprobed(n) == IF n + 1 < Size THEN "read" ELSE "close" \* mutant: a full buffer is the end
WhileRoom(n) == IF n + 1 < Size THEN "read" ELSE "probe"
NextRead(n) == IF reader = "bounded" THEN WhileRoom(n) ELSE "reserve"

OpenText ==
  /\ read_pc = "start"
  /\ \/ \E n \in Fds : Opens(n, "reader", <<"text">>) /\ text_fd' = n
        /\ read_pc' = NextRead(0) /\ UNCHANGED answer
     \/ /\ answer' = [NoAnswer EXCEPT !.status = "error"] /\ read_pc' = "done"
        /\ UNCHANGED <<fds, text_fd>>
  /\ UNCHANGED <<text, edits, reader, buffer, capacity, status>>

\* The status of what fails, and on to the close.
ReadFails == status' = "error" /\ read_pc' = "close"

Reserve ==
  /\ read_pc = "reserve"
  /\ LET new == array_reserve(capacity, 1, Len(buffer) + 2, FirstReserve)
     IN  \/ new # Overflow /\ capacity' = new /\ read_pc' = "read" /\ UNCHANGED status
         \/ ReadFails /\ UNCHANGED capacity
  /\ UNCHANGED <<fds, text, edits, reader, text_fd, buffer, answer>>

Room == IF reader = "bounded" THEN Size - Len(buffer) - 1 ELSE capacity - Len(buffer) - 1

\* The bytes a read may bring, one at least unless it is at the end; none from a
\* number that is not the reader's.
Chunks(room) ==
  LET position == fds[text_fd].position
  IN  IF ~IsOf(text_fd, "reader") THEN {}
      ELSE IF position >= Len(text) THEN {<< >>}
      ELSE {SubSeq(text, position + 1, position + n) : n \in {n \in 1..(Len(text) - position) : n <= room}}
Moves(n, amount) == fds' = [fds EXCEPT ![n].position = @ + amount]

ReadSome ==
  /\ read_pc = "read"
  /\ \/ \E chunk \in Chunks(Room) :
          /\ Moves(text_fd, Len(chunk))
          /\ buffer' = buffer \o chunk
          /\ read_pc' = IF chunk = << >> THEN "close" ELSE NextRead(Len(buffer'))
          /\ UNCHANGED status
     \/ ReadFails /\ UNCHANGED <<fds, buffer>>
  /\ UNCHANGED <<text, edits, reader, text_fd, capacity, answer>>

Probe ==
  /\ read_pc = "probe"
  /\ \/ \E chunk \in Chunks(1) :
          /\ Moves(text_fd, Len(chunk))
          /\ status' = IF chunk = << >> THEN "ok" ELSE "truncated"
          /\ read_pc' = "close"
     \/ ReadFails /\ UNCHANGED fds
  /\ UNCHANGED <<text, edits, reader, text_fd, buffer, capacity, answer>>

\* What the parsers take: one number, white space around it.
IsNumber(bytes) ==
  LET letters == {i \in DOMAIN bytes : bytes[i].kind = "letter"}
  IN  /\ letters # {} /\ ~HasNul(bytes)
      /\ \A i, j \in letters : \A k \in i..j : k \in letters

\* What is returned.
Concluded(result) ==
  LET Says(s, bytes) == [status |-> s, text |-> bytes]
  IN  IF reader = "bounded"
      THEN IF result \in {"ok", "truncated"} /\ HasNul(buffer) THEN Says("invalid", << >>)
           ELSE Says(IF result = "ok" /\ buffer = << >> THEN "empty" ELSE result, Stripped(buffer))
      ELSE IF result # "ok" THEN Says(result, << >>)
      ELSE IF buffer = << >> THEN Says("empty", << >>)
      ELSE IF reader = "whole" THEN Says("ok", buffer)
      ELSE IF IsNumber(buffer) THEN Says("ok", buffer)
      ELSE Says("invalid", << >>)

\* A close that fails counts where nothing failed before.
CloseText ==
  /\ read_pc = "close"
  /\ Closes(text_fd)
  /\ \E result \in {status, IF status = "ok" THEN "error" ELSE status} : answer' = Concluded(result)
  /\ read_pc' = "done"
  /\ UNCHANGED <<text, edits, reader, text_fd, buffer, capacity, status>>

ReadStep == OpenText \/ Reserve \/ ReadSome \/ Probe \/ CloseText

\* Another program shortens the file or writes at its end.
EditText ==
  /\ edits < MaxEdits /\ edits' = edits + 1
  /\ \/ \E length \in 0..Len(text) : length < Len(text) /\ text' = SubSeq(text, 1, length)
     \/ \E kind \in Kinds : text' = Append(text, Byte(kind, Len(text) + 1))
  /\ UNCHANGED <<fds, reading>>

TextHeld == IF read_pc \in {"reserve", "read", "probe", "close"} THEN {text_fd} ELSE {}
================================================================================
