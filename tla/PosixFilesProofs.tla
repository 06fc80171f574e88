---------------------------- MODULE PosixFilesProofs ----------------------------
(***************************************************************************)
(* Proofs about PosixFiles: for any path, file, buffer and number of       *)
(* descriptors, any threads and transfers, and any cast of them.           *)
(***************************************************************************)
EXTENDS PosixFiles, TLAPS

(* Who owns the descriptors.                                                 *)

TableIsTyped ==
  /\ fds = [n \in Fds |-> fds[n]]
  /\ \A n \in Fds : fds[n] = [owner |-> fds[n].owner, node |-> fds[n].node, position |-> fds[n].position]

\* The walk through the path holds exactly the maker's descriptors.
WalkOwns ==
  /\ walk_pc \in {"start", "mkdir", "open", "advance", "drop", "leave", "finish", "done"}
  /\ walk_pc \notin {"start", "done"} => directory_fd \in Fds \ {0}
  /\ walk_pc \in {"advance", "drop"} => next_fd \in Fds \ {0, directory_fd}
  /\ walk_pc = "drop" => twice
  /\ twice => walk_pc \in {"drop", "leave", "done"}
  /\ twice \in BOOLEAN
  /\ \A n \in Fds : IsOf(n, "maker") <=> n \in Held

\* So does the reader, until the walk closes a number again that is its by then.
ReaderOwns ==
  /\ read_pc \in {"start", "reserve", "read", "probe", "close", "done"}
  /\ TextHeld \subseteq Fds \ {0}
  /\ \A n \in Fds : IsOf(n, "reader") => n \in TextHeld
  /\ \A n \in TextHeld : IsOf(n, "reader") \/ (twice /\ walk_pc = "done")

OwnersInv == TableIsTyped /\ WalkOwns /\ ReaderOwns /\ data_fd = 0 /\ IsOf(0, "threads")

(* The path.                                                                 *)

Are(levels, kind) == \A i \in levels : entry[i].kind = kind

PathInv ==
  /\ entry = [i \in Levels |-> entry[i]]
  /\ walk_pc \in {"start", "mkdir", "open", "advance", "drop", "leave", "finish", "done"}
  /\ level \in 0..Depth
  /\ walk_pc \in {"open", "advance"} => level < Depth
  /\ walk_pc = "finish" => level = Depth
  /\ walk_pc = "done" => failure \/ level = Depth
  /\ ~removed => Are(1..level, "directory")
  /\ ~removed /\ walk_pc = "advance" => entry[level + 1].kind = "directory"

(* The text.                                                                 *)

InPlace(bytes) == bytes \in Seq(Bytes) /\ \A i \in DOMAIN bytes : bytes[i].at = i

\* What the buffer holds, and where the descriptor is.
BufferInv ==
  /\ InPlace(text) /\ InPlace(buffer) /\ edits \in Nat
  /\ reader \in {"bounded", "whole", "numeric"}
  /\ read_pc \in {"start", "reserve", "read", "probe"} => status = "ok"
  /\ read_pc \in {"reserve", "read", "probe"} /\ IsOf(text_fd, "reader") => fds[text_fd].position = Len(buffer)
  /\ read_pc = "start" => buffer = << >>
  /\ reader = "bounded" => Len(buffer) + 1 <= Size /\ read_pc # "reserve"
  /\ reader = "bounded" /\ read_pc = "read" => Len(buffer) + 1 < Size
  /\ read_pc = "probe" => reader = "bounded" /\ Len(buffer) + 1 = Size

\* Of a file that is not changed, the beginning, and at the end all that matters.
TruthInv ==
  edits = 0 =>
    /\ Len(buffer) <= Len(text) /\ buffer = SubSeq(text, 1, Len(buffer))
    /\ read_pc = "close" =>
         \/ status = "ok" /\ buffer = text
         \/ status = "truncated" /\ reader = "bounded" /\ Len(buffer) + 1 = Size /\ Len(text) >= Size
         \/ status = "error"
    /\ read_pc = "done" => answer.status = "error" \/ answer = Truth

TextInv == BufferInv /\ TruthInv

(* The transfers.                                                            *)

Sequential(operation) == operation \in {"read", "write"}
Writes(operation) == operation \in {"write", "pwrite"}

Cells == [by : {"before", "hole"} \cup Threads, at : Nat]
DataIsInPlace == data \in Seq(Cells) /\ \A i \in DOMAIN data : data[i].at = i - 1

CallIsTyped(t) ==
  /\ call[t] \in [operation : {"none", "read", "write", "pread", "pwrite"}, count : Nat, start : Nat]
  /\ call[t].operation \in Operations[t] \cup {"none"}
  /\ done[t] \in Nat /\ done[t] <= call[t].count
  /\ io_pc[t] \in {"idle", "busy", "ok", "failed"}
  /\ io_pc[t] = "idle" => call[t] = NoCall /\ done[t] = 0 /\ got[t] = << >>
  /\ io_pc[t] # "idle" => call[t].operation # "none"
  /\ io_pc[t] = "busy" => done[t] < call[t].count
  /\ io_pc[t] = "ok" => done[t] = call[t].count

\* Where the next byte goes.
CallIsThere(t) ==
  /\ Positioned(call[t].operation) => offset[t] = call[t].start + done[t]
  /\ Sequential(call[t].operation) => fds[0].position = call[t].start + done[t]

CallIsExact(t) ==
  /\ Reads(call[t].operation) =>
       /\ got[t] \in Seq(Cells) /\ Len(got[t]) = done[t]
       /\ \A i \in DOMAIN got[t] : got[t][i].at = call[t].start + i - 1
  /\ \A i \in DOMAIN data :
       data[i].by = t => /\ Writes(call[t].operation)
                         /\ call[t].start <= i - 1 /\ i - 1 < call[t].start + done[t]
  /\ Writes(call[t].operation) =>
       \A i \in Nat : call[t].start <= i /\ i < call[t].start + done[t] =>
                        i + 1 \in DOMAIN data /\ data[i + 1].by \in cast \cap Threads

TransferInv ==
  /\ DataIsInPlace
  /\ call = [t \in Threads |-> call[t]] /\ offset = [t \in Threads |-> offset[t]]
  /\ done = [t \in Threads |-> done[t]] /\ got = [t \in Threads |-> got[t]]
  /\ io_pc = [t \in Threads |-> io_pc[t]]
  /\ \A t \in Threads : CallIsTyped(t) /\ CallIsThere(t) /\ CallIsExact(t)

(* Proofs: who owns the descriptors.                                         *)

Rows(n) == fds[n] = [owner |-> fds[n].owner, node |-> fds[n].node, position |-> fds[n].position]

LEMMA OpensOwns ==
  ASSUME TableIsTyped, NEW n \in Fds, NEW owner, NEW node, Opens(n, owner, node)
  PROVE  /\ TableIsTyped' /\ fds[n] = Closed /\ fds'[n] = Description(owner, node)
         /\ \A m \in Fds : m # n => fds'[m] = fds[m]
<1>1. /\ fds'[n] = Description(owner, node) /\ fds[n] = Closed
      /\ \A m \in Fds : m # n => fds'[m] = fds[m]
      /\ fds' = [m \in Fds |-> fds'[m]]
  BY Zenon DEF Opens, TableIsTyped
<1>2. TableIsTyped'
  BY <1>1 DEF TableIsTyped, Description
<1> QED
  BY <1>1, <1>2

LEMMA ClosesOwns ==
  ASSUME TableIsTyped, NEW n \in Fds, Closes(n)
  PROVE  /\ TableIsTyped' /\ fds'[n] = Closed
         /\ \A m \in Fds : m # n => fds'[m] = fds[m]
<1>1. /\ fds'[n] = Closed
      /\ \A m \in Fds : m # n => fds'[m] = fds[m]
      /\ fds' = [m \in Fds |-> fds'[m]]
  BY Zenon DEF Closes, TableIsTyped
<1>2. TableIsTyped'
  BY <1>1 DEF TableIsTyped, Closed
<1> QED
  BY <1>1, <1>2

LEMMA MovesOwns ==
  ASSUME TableIsTyped, NEW n \in Fds, NEW place, fds' = [fds EXCEPT ![n].position = place]
  PROVE  /\ TableIsTyped' /\ fds'[n].position = place /\ fds'[n].owner = fds[n].owner
         /\ \A m \in Fds : m # n => fds'[m] = fds[m]
<1>1. fds' = [fds EXCEPT ![n] = [fds[n] EXCEPT !.position = place]]
  OBVIOUS
<1>2. /\ fds'[n] = [fds[n] EXCEPT !.position = place]
      /\ \A m \in Fds : m # n => fds'[m] = fds[m]
      /\ fds' = [m \in Fds |-> fds'[m]]
  BY <1>1, Zenon DEF TableIsTyped
<1>3. fds[n] = [owner |-> fds[n].owner, node |-> fds[n].node, position |-> fds[n].position]
  BY DEF TableIsTyped
<1>4. fds'[n] = [owner |-> fds[n].owner, node |-> fds[n].node, position |-> place]
  BY <1>2, <1>3
<1>5. fds'[n].position = place /\ fds'[n].owner = fds[n].owner /\ fds'[n].node = fds[n].node
  BY <1>4
<1>6. TableIsTyped'
  BY <1>2, <1>4, <1>5 DEF TableIsTyped
<1> QED
  BY <1>2, <1>5, <1>6

LEMMA InitOfOwners == Init => OwnersInv
<1> SUFFICES ASSUME Init PROVE OwnersInv
  OBVIOUS
<1>1. /\ fds = [n \in Fds |-> IF n = 0 THEN Description("threads", <<"data">>) ELSE Closed]
      /\ walk_pc = "start" /\ read_pc = "start" /\ twice = FALSE /\ data_fd = 0
  BY DEF Init, WalkInit, ReadInit, TransferInit
<1>2. \A n \in Fds : fds[n] = IF n = 0 THEN Description("threads", <<"data">>) ELSE Closed
  BY <1>1
<1>3. TableIsTyped
  BY <1>1, <1>2 DEF TableIsTyped, Description, Closed
<1>4. 0 \in Fds
  BY DescriptorAssumption
<1>5. IsOf(0, "threads") /\ \A n \in Fds : ~IsOf(n, "maker") /\ ~IsOf(n, "reader")
  BY <1>2, <1>4 DEF IsOf, Description, Closed
<1> QED
  BY <1>1, <1>3, <1>5 DEF OwnersInv, WalkOwns, ReaderOwns, Held, TextHeld

\* A step of the walk changes none but the maker's descriptors, except that it
\* closes one where it closes it twice.
OthersAreKept == fds'[0] = fds[0] /\ \A n \in Fds : IsOf(n, "reader")' => fds'[n] = fds[n]

LEMMA WalkGoesOn ==
  ASSUME OwnersInv, UNCHANGED <<fds, read_pc, text_fd, data_fd, twice>>,
         walk_pc' \in {"start", "mkdir", "open", "advance", "drop", "leave", "finish", "done"},
         Held' = Held, walk_pc' \notin {"start", "done"} => directory_fd' \in Fds \ {0},
         walk_pc' \in {"advance", "drop"} => next_fd' \in Fds \ {0, directory_fd'},
         walk_pc' = "drop" => twice, twice => walk_pc' \in {"drop", "leave", "done"},
         walk_pc = "done" => walk_pc' = "done"
  PROVE  OwnersInv' /\ OthersAreKept
<1>1. TextHeld' = TextHeld
  BY DEF TextHeld
<1>2. \A n \in Fds : \A o : IsOf(n, o)' = IsOf(n, o)
  BY DEF IsOf
<1>3. TableIsTyped' /\ IsOf(0, "threads")' /\ data_fd' = 0
  BY DEF OwnersInv, TableIsTyped, IsOf
<1>4. WalkOwns'
  BY <1>2 DEF OwnersInv, WalkOwns
<1>5. ReaderOwns'
  BY <1>1, <1>2 DEF OwnersInv, ReaderOwns, IsOf
<1> QED
  BY <1>3, <1>4, <1>5 DEF OwnersInv, OthersAreKept

LEMMA WalkOpens ==
  ASSUME OwnersInv, UNCHANGED <<read_pc, text_fd, data_fd, twice>>, ~twice, walk_pc # "done",
         NEW n \in Fds, NEW node, Opens(n, "maker", node),
         \/ walk_pc = "start" /\ walk_pc' = "mkdir" /\ directory_fd' = n
         \/ walk_pc = "open" /\ walk_pc' = "advance" /\ next_fd' = n /\ directory_fd' = directory_fd
  PROVE  OwnersInv' /\ OthersAreKept
<1> USE DEF IsOf
<1>1. /\ TableIsTyped /\ WalkOwns /\ ReaderOwns /\ data_fd = 0 /\ IsOf(0, "threads") /\ 0 \in Fds
      /\ TextHeld' = TextHeld
  BY DescriptorAssumption DEF OwnersInv, TextHeld
<1>2. /\ TableIsTyped' /\ fds[n] = Closed /\ fds'[n] = Description("maker", node)
      /\ \A m \in Fds : m # n => fds'[m] = fds[m]
  BY <1>1, OpensOwns
<1>3. n # 0 /\ fds'[n].owner = "maker" /\ fds[n].owner = "nobody"
  BY <1>1, <1>2 DEF Closed, Description
<1>4. Held' = Held \cup {n}
  BY <1>1 DEF Held
<1>5. walk_pc = "open" => directory_fd \in Held
  BY DEF Held
<1>6. WalkOwns'
  BY <1>1, <1>2, <1>3, <1>4, <1>5 DEF WalkOwns
<1>7. ReaderOwns'
  BY <1>1, <1>2, <1>3 DEF ReaderOwns
<1> QED
  BY <1>1, <1>2, <1>3, <1>6, <1>7 DEF OwnersInv, OthersAreKept

LEMMA WalkCloses ==
  ASSUME OwnersInv, UNCHANGED <<read_pc, text_fd, data_fd>>,
         NEW n \in Fds, n # 0, Closes(n), walk_pc # "done",
         \/ /\ walk_pc = "advance" /\ n = directory_fd /\ twice' = twice
            /\ walk_pc' = "mkdir" /\ directory_fd' = next_fd
         \/ /\ walk_pc = "advance" /\ n = directory_fd /\ twice' = TRUE
            /\ walk_pc' = "drop" /\ directory_fd' = directory_fd /\ next_fd' = next_fd
         \/ /\ walk_pc = "drop" /\ n = next_fd /\ twice' = twice
            /\ walk_pc' = "leave" /\ directory_fd' = directory_fd
         \/ /\ walk_pc \in {"leave", "finish"} /\ n = directory_fd /\ twice' = twice
            /\ walk_pc' = "done"
  PROVE  OwnersInv' /\ OthersAreKept
<1> USE DEF IsOf
<1>1. /\ TableIsTyped /\ WalkOwns /\ ReaderOwns /\ data_fd = 0 /\ IsOf(0, "threads") /\ 0 \in Fds
      /\ TextHeld' = TextHeld
  BY DescriptorAssumption DEF OwnersInv, TextHeld
<1>2. /\ TableIsTyped' /\ fds'[n].owner = "nobody"
      /\ \A m \in Fds : m # n => fds'[m] = fds[m]
  BY <1>1, ClosesOwns DEF Closed
<1>3. Held' = Held \ {n}
  BY <1>1 DEF Held, WalkOwns
<1>4. WalkOwns'
  <2>1. \A m \in Fds : IsOf(m, "maker")' <=> m \in Held'
    BY <1>1, <1>2, <1>3 DEF WalkOwns
  <2>2. /\ walk_pc' \in {"mkdir", "drop", "leave", "done"} /\ twice' \in BOOLEAN
        /\ walk_pc' # "done" => directory_fd' \in Fds \ {0}
        /\ walk_pc' = "drop" => next_fd' \in Fds \ {0, directory_fd'} /\ twice'
        /\ twice' => walk_pc' \in {"drop", "leave", "done"}
    <3>1. CASE walk_pc = "advance" /\ walk_pc' = "mkdir"
      BY <1>1, <3>1 DEF WalkOwns
    <3>2. CASE walk_pc = "advance" /\ walk_pc' = "drop"
      BY <1>1, <3>2 DEF WalkOwns
    <3>3. CASE walk_pc = "drop"
      BY <1>1, <3>3 DEF WalkOwns
    <3>4. CASE walk_pc \in {"leave", "finish"}
      BY <1>1, <3>4 DEF WalkOwns
    <3> QED
      BY <3>1, <3>2, <3>3, <3>4
  <2> QED
    BY <2>1, <2>2 DEF WalkOwns
<1>5. \A m \in TextHeld : m # n => fds'[m] = fds[m]
  BY <1>1, <1>2 DEF ReaderOwns
<1>6. ~(twice' /\ walk_pc' = "done") => n \in Held
  BY <1>1 DEF Held, WalkOwns
<1>7. n \in Held => n \notin TextHeld \/ (twice /\ walk_pc = "done")
  BY <1>1 DEF ReaderOwns, WalkOwns
<1>8. ReaderOwns'
  BY <1>1, <1>2, <1>5, <1>6, <1>7 DEF ReaderOwns
<1> QED
  BY <1>1, <1>2, <1>4, <1>8 DEF OwnersInv, OthersAreKept

LEMMA WalkKeepsOwners ==
  ASSUME OwnersInv, WalkStep, UNCHANGED <<read_pc, text_fd, data_fd>>
  PROVE  OwnersInv' /\ OthersAreKept
<1>1. WalkOwns
  BY DEF OwnersInv
<1>2. CASE OpenAnchor
  <2>1. CASE UNCHANGED fds /\ walk_pc' = "done"
    BY <1>1, <1>2, <2>1, WalkGoesOn DEF OpenAnchor, WalkOwns, Held
  <2>2. ASSUME NEW n \in Fds, Opens(n, "maker", Root), directory_fd' = n, walk_pc' = "mkdir"
        PROVE  OwnersInv' /\ OthersAreKept
    BY <1>1, <1>2, <2>2, WalkOpens DEF OpenAnchor, WalkOwns
  <2> QED
    BY <1>2, <2>1, <2>2 DEF OpenAnchor, Fail
<1>3. CASE MakeDirectory
  BY <1>1, <1>3, WalkGoesOn DEF MakeDirectory, Fail, WalkOwns, Held
<1>4. CASE EndOfPath
  BY <1>1, <1>4, WalkGoesOn DEF EndOfPath, WalkOwns, Held
<1>5. CASE OpenNext
  <2>1. CASE UNCHANGED fds /\ UNCHANGED next_fd /\ Fail("leave")
    BY <1>1, <1>5, <2>1, WalkGoesOn DEF OpenNext, Fail, WalkOwns, Held
  <2>2. ASSUME NEW n \in Fds, Opens(n, "maker", <<"path", level + 1, entry[level + 1].id>>),
               next_fd' = n, walk_pc' = "advance"
        PROVE  OwnersInv' /\ OthersAreKept
    BY <1>1, <1>5, <2>2, WalkOpens DEF OpenNext, WalkOwns
  <2> QED
    BY <1>5, <2>1, <2>2 DEF OpenNext
<1>6. CASE Advance
  BY <1>1, <1>6, WalkCloses DEF Advance, Fail, WalkOwns, AfterFailedClose
<1>7. CASE DropNext
  BY <1>1, <1>7, WalkCloses DEF DropNext, WalkOwns
<1>8. CASE CloseLast
  BY <1>1, <1>8, WalkCloses DEF CloseLast, WalkOwns
<1> QED
  BY <1>2, <1>3, <1>4, <1>5, <1>6, <1>7, <1>8 DEF WalkStep

\* A step that changes no owner.
LEMMA OwnersStay ==
  ASSUME OwnersInv, UNCHANGED <<walk, data_fd>>, TableIsTyped',
         \A n \in Fds : fds'[n].owner = fds[n].owner,
         read_pc' \in {"start", "reserve", "read", "probe", "close", "done"}, TextHeld' = TextHeld
  PROVE  OwnersInv'
<1>1. WalkOwns'
  BY DEF OwnersInv, WalkOwns, Held, walk, IsOf
<1>2. ReaderOwns'
  BY DEF OwnersInv, ReaderOwns, walk, IsOf
<1>3. IsOf(0, "threads")'
  BY DescriptorAssumption DEF OwnersInv, IsOf
<1> QED
  BY <1>1, <1>2, <1>3 DEF OwnersInv

LEMMA ReaderOpens ==
  ASSUME OwnersInv, UNCHANGED <<walk, data_fd>>, read_pc = "start",
         NEW n \in Fds, Opens(n, "reader", <<"text">>), text_fd' = n,
         read_pc' \in {"reserve", "read", "probe", "close"}
  PROVE  OwnersInv' /\ fds'[0] = fds[0]
<1> USE DEF IsOf
<1>1. /\ TableIsTyped /\ WalkOwns /\ ReaderOwns /\ data_fd = 0 /\ IsOf(0, "threads") /\ 0 \in Fds
      /\ Held' = Held /\ TextHeld = {} /\ TextHeld' = {n}
  BY DescriptorAssumption DEF OwnersInv, TextHeld, Held, walk
<1>2. /\ TableIsTyped' /\ fds[n] = Closed /\ fds'[n] = Description("reader", <<"text">>)
      /\ \A m \in Fds : m # n => fds'[m] = fds[m]
  BY <1>1, OpensOwns
<1>3. n # 0 /\ fds'[n].owner = "reader" /\ fds[n].owner = "nobody"
  BY <1>1, <1>2 DEF Closed, Description
<1>4. WalkOwns'
  BY <1>1, <1>2, <1>3 DEF WalkOwns, walk
<1>5. ReaderOwns'
  BY <1>1, <1>2, <1>3 DEF ReaderOwns, walk
<1> QED
  BY <1>1, <1>2, <1>3, <1>4, <1>5 DEF OwnersInv

LEMMA ReaderCloses ==
  ASSUME OwnersInv, UNCHANGED <<walk, data_fd, text_fd>>, read_pc = "close", Closes(text_fd), read_pc' = "done"
  PROVE  OwnersInv' /\ fds'[0] = fds[0]
<1> USE DEF IsOf
<1>1. /\ TableIsTyped /\ WalkOwns /\ ReaderOwns /\ data_fd = 0 /\ IsOf(0, "threads") /\ 0 \in Fds
      /\ Held' = Held /\ TextHeld = {text_fd} /\ TextHeld' = {} /\ text_fd \in Fds /\ text_fd # 0
  BY DescriptorAssumption DEF OwnersInv, TextHeld, Held, walk, ReaderOwns
<1>2. /\ TableIsTyped' /\ fds'[text_fd].owner = "nobody"
      /\ \A m \in Fds : m # text_fd => fds'[m] = fds[m]
  BY <1>1, ClosesOwns DEF Closed
<1>3. fds[text_fd].owner # "maker"
  BY <1>1 DEF ReaderOwns, WalkOwns, Held
<1>4. WalkOwns'
  BY <1>1, <1>2, <1>3 DEF WalkOwns, walk
<1>5. ReaderOwns'
  BY <1>1, <1>2 DEF ReaderOwns, walk
<1> QED
  BY <1>1, <1>2, <1>4, <1>5 DEF OwnersInv

LEMMA ReaderMoves ==
  ASSUME OwnersInv, NEW room, NEW chunk \in Chunks(room), Moves(text_fd, Len(chunk)), TextHeld = {text_fd}
  PROVE  /\ TableIsTyped' /\ \A n \in Fds : fds'[n].owner = fds[n].owner
         /\ fds'[0] = fds[0] /\ text_fd \in Fds \ {0}
         /\ fds'[text_fd].position = fds[text_fd].position + Len(chunk)
<1>1. text_fd \in Fds \ {0}
  BY DEF OwnersInv, ReaderOwns
<1>2. /\ TableIsTyped' /\ fds'[text_fd].position = fds[text_fd].position + Len(chunk)
      /\ fds'[text_fd].owner = fds[text_fd].owner /\ \A n \in Fds : n # text_fd => fds'[n] = fds[n]
  BY <1>1, MovesOwns DEF Moves, OwnersInv
<1> QED
  BY <1>1, <1>2, DescriptorAssumption

LEMMA ReaderKeepsOwners ==
  ASSUME OwnersInv, ReadStep, UNCHANGED <<walk, data_fd>>
  PROVE  OwnersInv' /\ fds'[0] = fds[0]
<1>0. NextRead(0) \in {"reserve", "read", "probe", "close"} /\ \A n : NextRead(n) \in {"reserve", "read", "probe", "close"}
  BY DEF NextRead, WhileRoom
<1>1. CASE OpenText
  <2>1. ASSUME NEW n \in Fds, Opens(n, "reader", <<"text">>), text_fd' = n, read_pc' = NextRead(0)
        PROVE  OwnersInv' /\ fds'[0] = fds[0]
    BY <1>0, <1>1, <2>1, ReaderOpens DEF OpenText
  <2>2. CASE UNCHANGED <<fds, text_fd>> /\ read_pc' = "done"
    <3>1. TableIsTyped' /\ TextHeld' = TextHeld
      BY <1>1, <2>2 DEF OpenText, OwnersInv, TableIsTyped, TextHeld
    <3> QED
      BY <2>2, <3>1, OwnersStay
  <2> QED
    BY <1>1, <2>1, <2>2 DEF OpenText
<1>2. CASE Reserve
  <2>1. TableIsTyped' /\ TextHeld' = TextHeld /\ read_pc' \in {"read", "close"} /\ fds' = fds
    BY <1>2 DEF Reserve, ReadFails, OwnersInv, TableIsTyped, TextHeld
  <2> QED
    BY <2>1, OwnersStay
<1>3. CASE ReadSome
  <2>1. TextHeld = {text_fd} /\ TextHeld' = {text_fd} /\ read_pc' \in {"reserve", "read", "probe", "close"}
    BY <1>0, <1>3 DEF ReadSome, ReadFails, TextHeld
  <2>2. ASSUME NEW chunk \in Chunks(Room), Moves(text_fd, Len(chunk)) PROVE OwnersInv' /\ fds'[0] = fds[0]
    BY <2>1, <2>2, ReaderMoves, OwnersStay
  <2>3. CASE UNCHANGED fds
    BY <2>1, <2>3, OwnersStay DEF OwnersInv, TableIsTyped
  <2> QED
    BY <1>3, <2>2, <2>3 DEF ReadSome
<1>4. CASE Probe
  <2>1. TextHeld = {text_fd} /\ TextHeld' = {text_fd} /\ read_pc' = "close"
    BY <1>4 DEF Probe, ReadFails, TextHeld
  <2>2. ASSUME NEW chunk \in Chunks(1), Moves(text_fd, Len(chunk)) PROVE OwnersInv' /\ fds'[0] = fds[0]
    BY <2>1, <2>2, ReaderMoves, OwnersStay
  <2>3. CASE UNCHANGED fds
    BY <2>1, <2>3, OwnersStay DEF OwnersInv, TableIsTyped
  <2> QED
    BY <1>4, <2>2, <2>3 DEF Probe
<1>5. CASE CloseText
  BY <1>5, ReaderCloses DEF CloseText
<1> QED
  BY <1>1, <1>2, <1>3, <1>4, <1>5 DEF ReadStep

LEMMA ThreadsKeepOwners ==
  ASSUME OwnersInv, NEW t \in Threads, TransferStep(t), UNCHANGED <<walk, read_pc, text_fd>>
  PROVE  OwnersInv' /\ \A n \in Fds \ {0} : fds'[n] = fds[n]
<1>1. TableIsTyped /\ data_fd = 0 /\ 0 \in Fds
  BY DescriptorAssumption DEF OwnersInv
<1>2. TextHeld' = TextHeld /\ data_fd' = data_fd /\ read_pc' \in {"start", "reserve", "read", "probe", "close", "done"}
  BY DEF TextHeld, TransferStep, Begin, Transfer, TransferFails, OwnersInv, ReaderOwns
<1>3. \/ fds' = fds
      \/ \E place : fds' = [fds EXCEPT ![0].position = place]
  <2>1. CASE Begin(t)
    BY <1>1, <2>1, Zenon DEF Begin
  <2>2. CASE Transfer(t)
    BY <1>1, <2>2, Zenon DEF Transfer
  <2>3. CASE TransferFails(t)
    BY <2>3 DEF TransferFails
  <2> QED
    BY <2>1, <2>2, <2>3 DEF TransferStep
<1>4. CASE fds' = fds
  BY <1>1, <1>2, <1>4, OwnersStay DEF TableIsTyped
<1>5. ASSUME NEW place, fds' = [fds EXCEPT ![0].position = place]
      PROVE  OwnersInv' /\ \A n \in Fds \ {0} : fds'[n] = fds[n]
  <2>1. /\ TableIsTyped' /\ fds'[0].owner = fds[0].owner
        /\ \A m \in Fds : m # 0 => fds'[m] = fds[m]
    BY <1>1, <1>5, MovesOwns
  <2> QED
    BY <1>2, <2>1, OwnersStay
<1> QED
  BY <1>3, <1>4, <1>5

LEMMA OwnersKeep == OwnersInv /\ [Next]_vars => OwnersInv'
<1> SUFFICES ASSUME OwnersInv, [Next]_vars PROVE OwnersInv'
  OBVIOUS
<1>1. CASE Make
  BY <1>1, WalkKeepsOwners DEF Make, reading, transfers
<1>2. CASE Read
  BY <1>2, ReaderKeepsOwners DEF Read, transfers
<1>3. ASSUME NEW t \in Threads, Move(t) PROVE OwnersInv'
  BY <1>3, ThreadsKeepOwners DEF Move, Others, reading
<1>4. CASE UNCHANGED <<fds, walk, reading, data_fd>>
  BY <1>4, OwnersStay DEF reading, OwnersInv, TableIsTyped, ReaderOwns, TextHeld
<1>5. CASE Disturb
  BY <1>4, <1>5 DEF Disturb, ChangePath, EditText, transfers
<1>6. CASE UNCHANGED vars
  BY <1>4, <1>6 DEF vars, transfers
<1> QED
  BY <1>1, <1>2, <1>3, <1>5, <1>6 DEF Next

\* Each call holds the descriptors its locals say it holds, and two calls never
\* the same one, until a failed close is repeated.
THEOREM OwnersAreKept == Spec => []OwnersInv
<1>1. Init => OwnersInv
  BY InitOfOwners
<1>2. OwnersInv /\ [Next]_vars => OwnersInv'
  BY OwnersKeep
<1> QED
  BY <1>1, <1>2, PTL DEF Spec

\* For any number of descriptors and any path: no way out of the calls leaks one,
\* and none closes another thread's, unless a close failed in the walk.
THEOREM DescriptorsStayOwned == Spec => []DescriptorsAreOwned
<1>1. OwnersInv => DescriptorsAreOwned
  <2> SUFFICES ASSUME OwnersInv PROVE DescriptorsAreOwned
    OBVIOUS
  <2>1. Held \subseteq Fds
    BY DEF OwnersInv, WalkOwns, Held
  <2> QED
    BY <2>1 DEF OwnersInv, WalkOwns, ReaderOwns, DescriptorsAreOwned
<1> QED
  BY <1>1, OwnersAreKept, PTL

(* Proofs: the path.                                                         *)

LEMMA InitOfPath == Init => PathInv
BY MakeAssumption DEF Init, WalkInit, PathInv, Are, Levels

LEMMA WalkKeepsPath ==
  ASSUME PathInv, WalkStep
  PROVE  PathInv'
<1> USE MakeAssumption DEF PathInv, Are, Levels
<1>1. CASE OpenAnchor
  BY <1>1 DEF OpenAnchor, tree, Fail
<1>2. CASE MakeDirectory
  <2>1. CASE UNCHANGED entry
    BY <1>2, <2>1 DEF MakeDirectory, Fail, LastLevel
  <2>2. CASE /\ entry[level + 1] = Absent /\ walk_pc' = "open"
             /\ entry' = [entry EXCEPT ![level + 1] = Directory(made + 1)]
    <3>1. level + 1 \in 1..Depth /\ level' = level /\ removed' = removed
      BY <1>2 DEF MakeDirectory, LastLevel
    <3>2. level + 1 \notin 1..level /\ 1..level \subseteq 1..Depth
      BY <3>1
    <3>3. /\ entry' = [i \in 1..Depth |-> entry'[i]]
          /\ \A i \in 1..level : entry'[i] = entry[i]
      BY <2>2, <3>1, <3>2, Zenon
    <3>4. level < Depth /\ walk_pc' = "open"
      BY <1>2, <2>2 DEF MakeDirectory, LastLevel
    <3>5. ~removed => \A i \in 1..level' : entry'[i].kind = "directory"
      BY <3>1, <3>3
    <3> QED
      BY <3>1, <3>3, <3>4, <3>5
  <2> QED
    BY <1>2, <2>1, <2>2 DEF MakeDirectory
<1>3. CASE EndOfPath
  BY <1>3 DEF EndOfPath, tree, LastLevel
<1>4. CASE OpenNext
  BY <1>4 DEF OpenNext, tree, Fail
<1>5. CASE Advance
  BY <1>5 DEF Advance, tree, Fail, AfterFailedClose
<1>6. CASE DropNext
  BY <1>6 DEF DropNext, tree
<1>7. CASE CloseLast
  BY <1>7 DEF CloseLast, tree
<1> QED
  BY <1>1, <1>2, <1>3, <1>4, <1>5, <1>6, <1>7 DEF WalkStep

LEMMA ChangesKeepPath ==
  ASSUME PathInv, ChangePath
  PROVE  PathInv'
<1> USE MakeAssumption DEF PathInv, Are, Levels
<1>1. UNCHANGED <<walk_pc, level, failure>>
  BY DEF ChangePath, walk
<1>2. CASE removed' = TRUE /\ \E i \in Levels : entry' = [entry EXCEPT ![i] = Absent]
  BY <1>1, <1>2
<1>3. ASSUME NEW i \in Levels, entry[i] = Absent, removed' = removed, NEW e, entry' = [entry EXCEPT ![i] = e]
      PROVE  PathInv'
  <2>1. \A j \in Levels : entry[j].kind = "directory" => entry'[j] = entry[j]
    BY <1>3 DEF Absent
  <2>2. \A j \in 1..level : j \in Levels
    OBVIOUS
  <2>3. walk_pc = "advance" => level + 1 \in Levels
    OBVIOUS
  <2>4. entry' = [j \in Levels |-> entry'[j]]
    BY <1>3
  <2> QED
    BY <1>1, <1>3, <2>1, <2>2, <2>3, <2>4
<1> QED
  BY <1>2, <1>3 DEF ChangePath

LEMMA PathKeeps == PathInv /\ [Next]_vars => PathInv'
<1> SUFFICES ASSUME PathInv, [Next]_vars PROVE PathInv'
  OBVIOUS
<1>1. CASE Make
  BY <1>1, WalkKeepsPath DEF Make
<1>2. CASE ChangePath
  BY <1>2, ChangesKeepPath
<1>3. CASE UNCHANGED <<walk, tree>>
  BY <1>3 DEF walk, tree, PathInv, Are
<1> QED
  BY <1>1, <1>2, <1>3 DEF Next, Read, Move, Others, Disturb, vars

\* What a walk has passed is there, unless something was removed from the tree.
THEOREM PathsAreKept == Spec => []PathInv
<1>1. Init => PathInv
  BY InitOfPath
<1>2. PathInv /\ [Next]_vars => PathInv'
  BY PathKeeps
<1> QED
  BY <1>1, <1>2, PTL DEF Spec

\* A path of any depth, whatever other programs make in it: zero means that it is
\* all there, unless something was removed.
THEOREM PathsAreMade == Spec => []PathIsMade
<1>1. PathInv => PathIsMade
  BY DEF PathInv, PathIsMade, Are, Levels
<1> QED
  BY <1>1, PathsAreKept, PTL

(* Proofs: the text.                                                         *)

LEMMA PrefixGrows ==
  ASSUME NEW Elements, NEW t \in Seq(Elements), NEW m \in Nat, NEW n \in Nat, m + n <= Len(t)
  PROVE  /\ SubSeq(t, 1, m) \o SubSeq(t, m + 1, m + n) = SubSeq(t, 1, m + n)
         /\ Len(SubSeq(t, m + 1, m + n)) = n
OBVIOUS

LEMMA Concatenated ==
  ASSUME NEW Elements, NEW a \in Seq(Elements), NEW b \in Seq(Elements)
  PROVE  /\ a \o b \in Seq(Elements) /\ Len(a \o b) = Len(a) + Len(b)
         /\ \A i \in 1..(Len(a) + Len(b)) :
              (a \o b)[i] = IF i <= Len(a) THEN a[i] ELSE b[i - Len(a)]
OBVIOUS

LEMMA PartIs ==
  ASSUME NEW Elements, NEW s \in Seq(Elements), NEW m \in Nat, NEW n \in Nat, m + n <= Len(s)
  PROVE  /\ SubSeq(s, m + 1, m + n) \in Seq(Elements) /\ Len(SubSeq(s, m + 1, m + n)) = n
         /\ \A i \in 1..n : SubSeq(s, m + 1, m + n)[i] = s[m + i] /\ m + i \in 1..Len(s)
<1>1. SubSeq(s, m + 1, m + n) \in Seq(Elements) /\ Len(SubSeq(s, m + 1, m + n)) = n
  OBVIOUS
<1>2. ASSUME NEW i \in 1..n PROVE SubSeq(s, m + 1, m + n)[i] = s[m + i] /\ m + i \in 1..Len(s)
  OBVIOUS
<1> QED
  BY <1>1, <1>2

LEMMA InitOfText == Init => TextInv
<1> SUFFICES ASSUME Init PROVE TextInv
  OBVIOUS
<1>1. /\ text \in Contents /\ edits = 0 /\ reader \in {"bounded", "whole", "numeric"}
      /\ read_pc = "start" /\ buffer = << >> /\ status = "ok"
  BY DEF Init, ReadInit
<1>2. InPlace(text) /\ InPlace(buffer)
  BY <1>1, ContentsAssumption DEF InPlace
<1>3. BufferInv
  BY <1>1, <1>2, TextAssumption DEF BufferInv
<1>4. TruthInv
  BY <1>1, <1>2 DEF TruthInv, InPlace
<1> QED
  BY <1>3, <1>4 DEF TextInv

\* A step of another thread does not move the reader's descriptor.
LEMMA TextStays ==
  ASSUME OwnersInv, TextInv, UNCHANGED <<text, edits, reading>>,
         IsOf(text_fd, "reader")' /\ text_fd \in Fds \ {0} => fds'[text_fd] = fds[text_fd]
  PROVE  TextInv'
<1>1. /\ text' = text /\ edits' = edits /\ reader' = reader /\ read_pc' = read_pc /\ text_fd' = text_fd
      /\ buffer' = buffer /\ status' = status /\ answer' = answer
  BY DEF reading
<1>2. read_pc \in {"reserve", "read", "probe"} => text_fd \in Fds \ {0}
  BY DEF OwnersInv, ReaderOwns, TextHeld
<1>3. read_pc \in {"reserve", "read", "probe"} /\ IsOf(text_fd, "reader")' =>
        fds'[text_fd].position = Len(buffer)
  BY <1>1, <1>2 DEF TextInv, BufferInv, IsOf
<1>4. BufferInv'
  BY <1>1, <1>3 DEF TextInv, BufferInv, InPlace
<1>5. TruthInv'
  BY <1>1 DEF TextInv, TruthInv, Truth, Seen
<1> QED
  BY <1>4, <1>5 DEF TextInv

LEMMA EditKeepsText ==
  ASSUME TextInv, EditText
  PROVE  TextInv'
<1>1. /\ InPlace(text) /\ edits \in Nat /\ edits' = edits + 1 /\ fds' = fds
      /\ reader' = reader /\ read_pc' = read_pc /\ text_fd' = text_fd
      /\ buffer' = buffer /\ status' = status /\ answer' = answer
  BY DEF EditText, reading, TextInv, BufferInv
<1>2. InPlace(text')
  <2>1. ASSUME NEW length \in 0..Len(text), text' = SubSeq(text, 1, length) PROVE InPlace(text')
    BY <1>1, <2>1 DEF InPlace
  <2>2. ASSUME NEW kind \in Kinds, text' = Append(text, Byte(kind, Len(text) + 1)) PROVE InPlace(text')
    <3>1. Byte(kind, Len(text) + 1) \in Bytes /\ Byte(kind, Len(text) + 1).at = Len(text) + 1
      BY <1>1 DEF Bytes, Byte, InPlace
    <3> HIDE DEF Byte
    <3> QED
      BY <1>1, <2>2, <3>1 DEF InPlace
  <2> QED
    BY <2>1, <2>2 DEF EditText
<1>3. BufferInv'
  BY <1>1, <1>2 DEF TextInv, BufferInv, IsOf, InPlace
<1>4. TruthInv'
  BY <1>1 DEF TruthInv
<1> QED
  BY <1>3, <1>4 DEF TextInv

\* What a read brings is what follows in the file.
LEMMA ChunkFollows ==
  ASSUME OwnersInv, TextInv, read_pc \in {"read", "probe"}, NEW room, NEW chunk \in Chunks(room),
         Moves(text_fd, Len(chunk))
  PROVE  /\ text_fd \in Fds \ {0} /\ IsOf(text_fd, "reader")
         /\ fds'[text_fd].position = Len(buffer) + Len(chunk)
         /\ \/ chunk = << >> /\ Len(buffer) >= Len(text)
            \/ \E n \in 1..(Len(text) - Len(buffer)) :
                 n <= room /\ chunk = SubSeq(text, Len(buffer) + 1, Len(buffer) + n)
<1>1. TextHeld = {text_fd} /\ text_fd \in Fds
  BY DEF TextHeld, OwnersInv, ReaderOwns
<1>2. IsOf(text_fd, "reader")
  BY DEF Chunks
<1>3. fds[text_fd].position = Len(buffer)
  BY <1>2 DEF TextInv, BufferInv
<1>4. fds'[text_fd].position = Len(buffer) + Len(chunk) /\ text_fd \in Fds \ {0}
  BY <1>1, <1>3, ReaderMoves
<1>5. Len(text) \in Nat /\ Len(buffer) \in Nat
  BY DEF TextInv, BufferInv, InPlace
<1>6. CASE Len(buffer) >= Len(text)
  BY <1>2, <1>3, <1>4, <1>6 DEF Chunks
<1>7. CASE Len(buffer) < Len(text)
  BY <1>2, <1>3, <1>4, <1>5, <1>7 DEF Chunks
<1> QED
  BY <1>5, <1>6, <1>7

LEMMA OpenKeepsText ==
  ASSUME OwnersInv, TextInv, OpenText
  PROVE  TextInv'
<1>1. /\ text' = text /\ edits' = edits /\ reader' = reader /\ buffer' = buffer /\ status' = status
      /\ read_pc = "start" /\ buffer = << >> /\ status = "ok" /\ InPlace(text) /\ InPlace(buffer)
      /\ edits \in Nat /\ reader \in {"bounded", "whole", "numeric"}
  BY DEF OpenText, TextInv, BufferInv
<1>2. CASE read_pc' = "done" /\ answer'.status = "error"
  <2>1. BufferInv'
    BY <1>1, <1>2 DEF TextInv, BufferInv, InPlace
  <2>2. TruthInv'
    BY <1>1, <1>2 DEF TextInv, TruthInv
  <2> QED
    BY <2>1, <2>2 DEF TextInv
<1>3. ASSUME NEW n \in Fds, Opens(n, "reader", <<"text">>), text_fd' = n, read_pc' = NextRead(0)
      PROVE  TextInv'
  <2>1. fds'[n].position = 0
    <3>1. fds'[n] = Description("reader", <<"text">>)
      BY <1>3, OpensOwns DEF OwnersInv
    <3> QED
      BY <3>1 DEF Description
  <2>2. read_pc' = IF reader = "bounded" THEN IF 1 < Size THEN "read" ELSE "probe" ELSE "reserve"
    BY <1>3 DEF NextRead, WhileRoom
  <2>3. Len(buffer) = 0 /\ Size \in Nat /\ Size >= 2
    BY <1>1, TextAssumption
  <2>4. BufferInv'
    BY <1>1, <1>3, <2>1, <2>2, <2>3 DEF BufferInv, InPlace
  <2>5. TruthInv'
    BY <1>1, <2>2 DEF TextInv, TruthInv
  <2> QED
    BY <2>4, <2>5 DEF TextInv
<1> QED
  BY <1>2, <1>3 DEF OpenText, NoAnswer

LEMMA ReserveKeepsText ==
  ASSUME TextInv, Reserve
  PROVE  TextInv'
<1>1. /\ text' = text /\ edits' = edits /\ reader' = reader /\ buffer' = buffer /\ fds' = fds
      /\ text_fd' = text_fd /\ read_pc = "reserve" /\ reader # "bounded" /\ status = "ok"
  BY DEF Reserve, TextInv, BufferInv
<1>2. \/ read_pc' = "read" /\ status' = status
      \/ read_pc' = "close" /\ status' = "error"
  BY DEF Reserve, ReadFails
<1>3. BufferInv'
  BY <1>1, <1>2 DEF TextInv, BufferInv, InPlace, IsOf
<1>4. TruthInv'
  BY <1>1, <1>2 DEF TextInv, TruthInv
<1> QED
  BY <1>3, <1>4 DEF TextInv

LEMMA ReadKeepsText ==
  ASSUME OwnersInv, TextInv, ReadSome
  PROVE  TextInv'
<1>1. /\ text' = text /\ edits' = edits /\ reader' = reader /\ text_fd' = text_fd
      /\ read_pc = "read" /\ status = "ok" /\ InPlace(text) /\ InPlace(buffer) /\ edits \in Nat
      /\ reader \in {"bounded", "whole", "numeric"} /\ Size \in Nat
      /\ Len(text) \in Nat /\ Len(buffer) \in Nat /\ reader = "bounded" => Len(buffer) + 1 < Size
  BY TextAssumption DEF ReadSome, TextInv, BufferInv, InPlace
<1>2. CASE ReadFails /\ UNCHANGED <<fds, buffer>>
  <2>1. BufferInv'
    BY <1>1, <1>2 DEF TextInv, BufferInv, InPlace, ReadFails
  <2>2. TruthInv'
    BY <1>1, <1>2 DEF TextInv, TruthInv, ReadFails
  <2> QED
    BY <2>1, <2>2 DEF TextInv
<1>3. ASSUME NEW chunk \in Chunks(Room), Moves(text_fd, Len(chunk)), buffer' = buffer \o chunk,
             read_pc' = IF chunk = << >> THEN "close" ELSE NextRead(Len(buffer')), status' = status
      PROVE  TextInv'
  <2>1. /\ text_fd \in Fds \ {0} /\ fds'[text_fd].position = Len(buffer) + Len(chunk)
        /\ \/ chunk = << >> /\ Len(buffer) >= Len(text)
           \/ \E n \in 1..(Len(text) - Len(buffer)) :
                n <= Room /\ chunk = SubSeq(text, Len(buffer) + 1, Len(buffer) + n)
    BY <1>1, <1>3, ChunkFollows
  <2>2. CASE chunk = << >> /\ Len(buffer) >= Len(text)
    <3>1. buffer' = buffer /\ read_pc' = "close"
      BY <1>1, <1>3, <2>2 DEF InPlace
    <3>2. BufferInv'
      BY <1>1, <1>3, <3>1 DEF TextInv, BufferInv, InPlace
    <3>3. edits = 0 => buffer = text /\ Len(buffer) <= Len(text) /\ buffer = SubSeq(text, 1, Len(buffer))
      BY <1>1, <2>2 DEF TextInv, TruthInv, InPlace
    <3>4. TruthInv'
      BY <1>1, <1>3, <3>1, <3>3 DEF TruthInv
    <3> QED
      BY <3>2, <3>4 DEF TextInv
  <2>3. ASSUME NEW n \in 1..(Len(text) - Len(buffer)), n <= Room,
               chunk = SubSeq(text, Len(buffer) + 1, Len(buffer) + n)
        PROVE  TextInv'
    <3>1. /\ chunk \in Seq(Bytes) /\ Len(chunk) = n /\ chunk # << >>
          /\ \A i \in 1..n : chunk[i] = text[Len(buffer) + i]
      BY <1>1, <2>3 DEF InPlace
    <3>2. Len(buffer') = Len(buffer) + n /\ buffer' \in Seq(Bytes)
      <4>1. buffer \in Seq(Bytes)
        BY <1>1 DEF InPlace
      <4>2. buffer \o chunk \in Seq(Bytes) /\ Len(buffer \o chunk) = Len(buffer) + Len(chunk)
        BY <3>1, <4>1, Concatenated
      <4> QED
        BY <1>3, <3>1, <4>2
    <3>3. InPlace(buffer')
      <4>1. ASSUME NEW i \in 1..(Len(buffer) + n) PROVE buffer'[i].at = i
        <5>1. CASE i <= Len(buffer)
          BY <1>1, <1>3, <3>1, <5>1 DEF InPlace
        <5>2. CASE i > Len(buffer)
          <6>1. i - Len(buffer) \in 1..n /\ buffer'[i] = chunk[i - Len(buffer)]
            BY <1>1, <1>3, <3>1, <5>2 DEF InPlace
          <6>2. Len(buffer) + (i - Len(buffer)) = i
            BY <1>1
          <6>3. buffer'[i] = text[i]
            BY <3>1, <6>1, <6>2
          <6>4. i \in DOMAIN text
            BY <1>1, <2>3 DEF InPlace
          <6> QED
            BY <1>1, <6>3, <6>4 DEF InPlace
        <5> QED
          BY <1>1, <5>1, <5>2
      <4> QED
        BY <3>2, <4>1 DEF InPlace
    <3>4. read_pc' = IF reader = "bounded" THEN IF Len(buffer') + 1 < Size THEN "read" ELSE "probe"
                     ELSE "reserve"
      BY <1>3, <3>1 DEF NextRead, WhileRoom
    <3>5. reader = "bounded" => Len(buffer') + 1 <= Size
      BY <1>1, <2>3, <3>2 DEF Room
    <3>6. BufferInv'
      <4>1. read_pc' # "start" /\ edits' \in Nat /\ InPlace(text')
        BY <1>1, <3>4 DEF InPlace
      <4>2. fds'[text_fd'].position = Len(buffer')
        BY <1>1, <2>1, <3>1, <3>2
      <4>3. reader' = "bounded" => Len(buffer') + 1 <= Size /\ read_pc' # "reserve"
        BY <1>1, <3>4, <3>5
      <4>4. reader' = "bounded" /\ read_pc' = "read" => Len(buffer') + 1 < Size
        BY <1>1, <3>4
      <4>5. read_pc' = "probe" => reader' = "bounded" /\ Len(buffer') + 1 = Size
        BY <1>1, <3>2, <3>4, <3>5
      <4>6. status' = "ok" /\ reader' \in {"bounded", "whole", "numeric"}
        BY <1>1, <1>3
      <4> QED
        BY <3>3, <4>1, <4>2, <4>3, <4>4, <4>5, <4>6 DEF BufferInv
    <3>7. edits = 0 => Len(buffer') <= Len(text) /\ buffer' = SubSeq(text, 1, Len(buffer'))
      BY <1>1, <1>3, <2>3, <3>2, PrefixGrows DEF TextInv, TruthInv, InPlace
    <3>8. TruthInv'
      BY <1>1, <3>4, <3>7 DEF TruthInv
    <3> QED
      BY <3>6, <3>8 DEF TextInv
  <2> QED
    BY <2>1, <2>2, <2>3
<1> QED
  BY <1>2, <1>3 DEF ReadSome

LEMMA ProbeKeepsText ==
  ASSUME OwnersInv, TextInv, Probe
  PROVE  TextInv'
<1>1. /\ text' = text /\ edits' = edits /\ reader' = reader /\ text_fd' = text_fd /\ buffer' = buffer
      /\ read_pc = "probe" /\ read_pc' = "close" /\ InPlace(text) /\ Len(text) \in Nat /\ Len(buffer) \in Nat
      /\ reader = "bounded" /\ Len(buffer) + 1 = Size
  BY DEF Probe, ReadFails, TextInv, BufferInv, InPlace
<1>2. BufferInv'
  BY <1>1 DEF TextInv, BufferInv, InPlace
<1>3. CASE status' = "error"
  BY <1>1, <1>2, <1>3 DEF TextInv, TruthInv
<1>4. ASSUME NEW chunk \in Chunks(1), Moves(text_fd, Len(chunk)),
             status' = IF chunk = << >> THEN "ok" ELSE "truncated"
      PROVE  TruthInv'
  <2>1. \/ chunk = << >> /\ Len(buffer) >= Len(text)
        \/ \E n \in 1..(Len(text) - Len(buffer)) : chunk = SubSeq(text, Len(buffer) + 1, Len(buffer) + n)
    BY <1>1, <1>4, ChunkFollows
  <2>2. CASE chunk = << >> /\ Len(buffer) >= Len(text)
    <3>1. edits = 0 => buffer = text
      BY <1>1, <2>2 DEF TextInv, TruthInv, InPlace
    <3> QED
      BY <1>1, <1>4, <2>2, <3>1 DEF TextInv, TruthInv
  <2>3. CASE chunk # << >> /\ Len(text) >= Len(buffer) + 1
    BY <1>1, <1>4, <2>3 DEF TextInv, TruthInv
  <2>4. ASSUME NEW n \in 1..(Len(text) - Len(buffer)), chunk = SubSeq(text, Len(buffer) + 1, Len(buffer) + n)
        PROVE  chunk # << >> /\ Len(text) >= Len(buffer) + 1
    <3>1. Len(chunk) = n
      BY <1>1, <2>4, PrefixGrows DEF InPlace
    <3> QED
      BY <1>1, <3>1
  <2> QED
    BY <2>1, <2>2, <2>3, <2>4
<1> QED
  BY <1>2, <1>3, <1>4 DEF Probe, ReadFails, TextInv

LEMMA NothingIsStripped == Stripped(<< >>) = << >> /\ ~HasNul(<< >>)
<1>1. ~HasNul(<< >>)
  BY DEF HasNul
<1>2. Seqs!SelectLastInSeq(<< >>, LAMBDA b : b.kind # "newline") = 0
  BY DEF Seqs!SelectLastInSeq
<1> QED
  BY <1>1, <1>2 DEF Stripped

LEMMA CloseKeepsText ==
  ASSUME TextInv, CloseText
  PROVE  TextInv'
<1>1. /\ text' = text /\ edits' = edits /\ reader' = reader /\ buffer' = buffer
      /\ read_pc = "close" /\ read_pc' = "done" /\ InPlace(text) /\ InPlace(buffer)
      /\ reader \in {"bounded", "whole", "numeric"} /\ Len(text) \in Nat /\ Len(buffer) \in Nat /\ Size \in Nat
      /\ reader = "bounded" => Len(buffer) + 1 <= Size
  BY TextAssumption DEF CloseText, TextInv, BufferInv, InPlace
<1>2. BufferInv'
  BY <1>1 DEF TextInv, BufferInv, InPlace
<1>3. PICK result : /\ answer' = Concluded(result)
                    /\ result \in {status, IF status = "ok" THEN "error" ELSE status}
  BY DEF CloseText
<1>4. CASE result = "error"
  <2>1. answer'.status = "error"
    BY <1>3, <1>4 DEF Concluded
  <2> QED
    BY <1>1, <1>2, <2>1 DEF TextInv, TruthInv
<1>5. ASSUME edits = 0, result # "error" PROVE answer' = Truth
  <2>1. \/ result = "ok" /\ buffer = text
        \/ /\ result = "truncated" /\ reader = "bounded" /\ Len(buffer) + 1 = Size /\ Len(text) >= Size
           /\ buffer = SubSeq(text, 1, Len(buffer))
    BY <1>1, <1>3, <1>5 DEF TextInv, TruthInv
  <2>2. CASE result = "ok" /\ buffer = text
    <3>1. Seen = text
      BY <1>1, <2>2 DEF Seen
    <3>2. CASE text = << >>
      BY <1>1, <1>3, <2>2, <3>1, <3>2, NothingIsStripped DEF Concluded, Truth
    <3>3. CASE text # << >> /\ reader = "bounded"
      BY <1>1, <1>3, <2>2, <3>1, <3>3 DEF Concluded, Truth
    <3>4. CASE text # << >> /\ reader = "whole"
      BY <1>1, <1>3, <2>2, <3>1, <3>4 DEF Concluded, Truth
    <3>5. CASE text # << >> /\ reader = "numeric"
      <4>1. HasNul(text) => ~IsNumber(text)
        BY DEF IsNumber
      <4> QED
        BY <1>1, <1>3, <2>2, <3>1, <3>5, <4>1 DEF Concluded, Truth
    <3> QED
      BY <1>1, <3>2, <3>3, <3>4, <3>5
  <2>3. CASE /\ result = "truncated" /\ reader = "bounded" /\ Len(buffer) + 1 = Size /\ Len(text) >= Size
             /\ buffer = SubSeq(text, 1, Len(buffer))
    <3>1. Seen = buffer /\ Seen # text /\ text # << >>
      BY <1>1, <2>3, TextAssumption DEF Seen, InPlace
    <3> QED
      BY <1>3, <2>3, <3>1 DEF Concluded, Truth
  <2> QED
    BY <2>1, <2>2, <2>3
<1>6. Truth' = Truth
  BY <1>1 DEF Truth, Seen
<1>7. CASE result # "error"
  BY <1>1, <1>2, <1>5, <1>6, <1>7 DEF TextInv, TruthInv
<1> QED
  BY <1>4, <1>7

LEMMA TextKeeps == OwnersInv /\ TextInv /\ [Next]_vars => TextInv'
<1> SUFFICES ASSUME OwnersInv, TextInv, [Next]_vars PROVE TextInv'
  OBVIOUS
<1>1. CASE Make
  BY <1>1, WalkKeepsOwners, TextStays DEF Make, reading, transfers, OthersAreKept
<1>2. CASE "reader" \in cast /\ ReadStep
  BY <1>2, OpenKeepsText, ReserveKeepsText, ReadKeepsText, ProbeKeepsText, CloseKeepsText DEF ReadStep
<1>3. ASSUME NEW t \in Threads, Move(t) PROVE TextInv'
  BY <1>3, ThreadsKeepOwners, TextStays DEF Move, Others, reading
<1>4. CASE EditText
  BY <1>4, EditKeepsText
<1>5. CASE UNCHANGED <<fds, text, edits, reading>>
  BY <1>5, TextStays
<1> QED
  BY <1>1, <1>2, <1>3, <1>4, <1>5 DEF Next, Read, Disturb, ChangePath, vars

\* What a reader has in its buffer are the bytes of the text, in their places, up
\* to its offset.
THEOREM TextsAreKept == Spec => [](OwnersInv /\ TextInv)
<1>1. Init => OwnersInv /\ TextInv
  BY InitOfOwners, InitOfText
<1>2. OwnersInv /\ TextInv /\ [Next]_vars => (OwnersInv /\ TextInv)'
  BY OwnersKeep, TextKeeps
<1> QED
  BY <1>1, <1>2, PTL DEF Spec

\* For a text and a buffer of any length, read in parts of any size: what is told
\* of a file that nobody changed is true, and no byte of a changed one is misplaced.
THEOREM TextsAreTold == Spec => []TextIsTold
<1>1. TextInv => TextIsTold
  BY DEF TextInv, BufferInv, TruthInv, InPlace, TextIsTold
<1> QED
  BY <1>1, TextsAreKept, PTL

(* Proofs: the transfers.                                                    *)

LEMMA Changed ==
  ASSUME NEW D, NEW f, f = [x \in D |-> f[x]], NEW d \in D, NEW v, NEW g, g = [f EXCEPT ![d] = v]
  PROVE  g[d] = v /\ (\A x \in D : x # d => g[x] = f[x]) /\ g = [x \in D |-> g[x]]
BY Zenon

LEMMA InitOfTransfers == Init => TransferInv
<1> SUFFICES ASSUME Init PROVE TransferInv
  OBVIOUS
<1>1. /\ data = [i \in 1..Length |-> Stored("before", i - 1)]
      /\ call = [t \in Threads |-> NoCall] /\ offset = [t \in Threads |-> 0]
      /\ done = [t \in Threads |-> 0] /\ got = [t \in Threads |-> << >>]
      /\ io_pc = [t \in Threads |-> "idle"]
  BY DEF Init, TransferInit
<1>2. Length \in Nat
  BY TransferAssumption
<1>3. \A i \in 1..Length : Stored("before", i - 1) \in Cells /\ Stored("before", i - 1).at = i - 1
                           /\ Stored("before", i - 1).by = "before"
  BY <1>2 DEF Stored, Cells
<1>4. DataIsInPlace /\ DOMAIN data = 1..Length /\ \A i \in DOMAIN data : data[i].by = "before"
  <2> HIDE DEF Stored, Cells
  <2>1. data \in [1..Length -> Cells]
    BY <1>1, <1>3
  <2>2. data \in Seq(Cells) /\ DOMAIN data = 1..Length
    BY <1>2, <2>1
  <2> QED
    BY <1>1, <1>3, <2>2 DEF DataIsInPlace
<1>5. ASSUME NEW t \in Threads PROVE CallIsTyped(t) /\ CallIsThere(t) /\ CallIsExact(t)
  <2>1. call[t] = NoCall /\ done[t] = 0 /\ got[t] = << >> /\ io_pc[t] = "idle" /\ t # "before"
    BY <1>1, ThreadsAssumption
  <2>2. CallIsTyped(t)
    BY <2>1 DEF CallIsTyped, NoCall
  <2>3. CallIsThere(t)
    BY <2>1 DEF CallIsThere, NoCall, Positioned, Sequential
  <2>4. CallIsExact(t)
    BY <1>4, <2>1 DEF CallIsExact, NoCall, Reads, Writes
  <2> QED
    BY <2>2, <2>3, <2>4
<1> QED
  BY <1>1, <1>4, <1>5 DEF TransferInv

\* A step of another part of the process.
LEMMA TransfersStay ==
  ASSUME TransferInv, UNCHANGED <<data, transfers, cast>>, fds'[0] = fds[0]
  PROVE  TransferInv'
<1>1. /\ data' = data /\ call' = call /\ offset' = offset /\ done' = done /\ got' = got
      /\ io_pc' = io_pc /\ cast' = cast
  BY DEF transfers
<1> QED
  BY <1>1 DEF TransferInv, DataIsInPlace, CallIsTyped, CallIsThere, CallIsExact

\* While one thread uses the position of the descriptor, no other does.
LEMMA OneIsSequential ==
  ASSUME TransferInv, NEW t \in Threads, NEW u \in Threads, t # u,
         NEW operation \in Operations[t], ~Positioned(operation)
  PROVE  ~Sequential(call[u].operation)
<1>1. \A o \in Operations[u] : Positioned(o)
  BY ThreadsAssumption
<1>2. call[u].operation \in Operations[u] \cup {"none"}
  BY DEF TransferInv, CallIsTyped
<1> QED
  BY <1>1, <1>2 DEF Positioned, Sequential

\* A thread that has no part in a step, which neither shortens the data nor puts
\* anything of that thread there, nor of what it wrote anything but another's.
LEMMA OthersStayExact ==
  ASSUME TransferInv, NEW u \in Threads, cast' = cast,
         call'[u] = call[u], done'[u] = done[u], got'[u] = got[u], offset'[u] = offset[u], io_pc'[u] = io_pc[u],
         Sequential(call[u].operation) => fds'[0].position = fds[0].position,
         DOMAIN data \subseteq DOMAIN data',
         \A i \in DOMAIN data' : data'[i].by = u => i \in DOMAIN data /\ data[i].by = u,
         \A i \in DOMAIN data : data[i].by \in cast \cap Threads => data'[i].by \in cast \cap Threads
  PROVE  CallIsTyped(u)' /\ CallIsThere(u)' /\ CallIsExact(u)'
<1>1. CallIsTyped(u) /\ CallIsThere(u) /\ CallIsExact(u)
  BY DEF TransferInv
<1>2. CallIsTyped(u)'
  BY <1>1 DEF CallIsTyped
<1>3. CallIsThere(u)'
  BY <1>1 DEF CallIsThere
<1>4. CallIsExact(u)'
  BY <1>1 DEF CallIsExact
<1> QED
  BY <1>2, <1>3, <1>4

LEMMA BeginKeepsTransfers ==
  ASSUME OwnersInv, TransferInv, NEW t \in Threads, Begin(t), cast' = cast
  PROVE  TransferInv'
<1>1. /\ data_fd = 0 /\ data' = data /\ done' = done /\ got' = got /\ io_pc[t] = "idle"
      /\ 0 \in Fds /\ TableIsTyped
  BY DescriptorAssumption DEF Begin, OwnersInv
<1>2. PICK operation \in Operations[t], count \in 0..MaxCount, at \in 0..(OffsetMax + 1) :
        /\ call' = [call EXCEPT ![t] = [operation |-> operation, count |-> count, start |-> at]]
        /\ offset' = [offset EXCEPT ![t] = at]
        /\ fds' = IF Positioned(operation) THEN fds ELSE [fds EXCEPT ![data_fd].position = at]
        /\ io_pc' = [io_pc EXCEPT ![t] =
             IF Positioned(operation) /\ ~valid_positioned_range(count, at) THEN "failed"
             ELSE IF count = 0 THEN "ok" ELSE "busy"]
  BY DEF Begin
<1>3. /\ call'[t] = [operation |-> operation, count |-> count, start |-> at]
      /\ \A u \in Threads : u # t => call'[u] = call[u]
      /\ call' = [u \in Threads |-> call'[u]]
  BY <1>2, Changed DEF TransferInv
<1>4. /\ offset'[t] = at /\ \A u \in Threads : u # t => offset'[u] = offset[u]
      /\ offset' = [u \in Threads |-> offset'[u]]
  BY <1>2, Changed DEF TransferInv
<1>5. /\ io_pc'[t] \in {"busy", "ok", "failed"} /\ (io_pc'[t] = "ok" => count = 0) /\ (io_pc'[t] = "busy" => count # 0)
      /\ \A u \in Threads : u # t => io_pc'[u] = io_pc[u]
      /\ io_pc' = [u \in Threads |-> io_pc'[u]]
  <2> DEFINE v == IF Positioned(operation) /\ ~valid_positioned_range(count, at) THEN "failed"
                  ELSE IF count = 0 THEN "ok" ELSE "busy"
  <2>1. v \in {"busy", "ok", "failed"} /\ (v = "ok" => count = 0) /\ (v = "busy" => count # 0)
    OBVIOUS
  <2>2. io_pc' = [io_pc EXCEPT ![t] = v]
    BY <1>2
  <2> HIDE DEF v
  <2> QED
    BY <2>1, <2>2, Changed DEF TransferInv
<1>6. /\ operation \in {"read", "write", "pread", "pwrite"} /\ count \in Nat /\ at \in Nat
  <2>1. Operations[t] \subseteq {"read", "write", "pread", "pwrite"}
    BY ThreadsAssumption
  <2>2. MaxCount \in Nat /\ OffsetMax \in Nat
    BY TransferAssumption
  <2> QED
    BY <2>1, <2>2
<1>7. IF Positioned(operation) THEN fds' = fds ELSE fds'[0].position = at
  BY <1>1, <1>2, MovesOwns
<1>8. ASSUME NEW u \in Threads, u # t PROVE CallIsTyped(u)' /\ CallIsThere(u)' /\ CallIsExact(u)'
  <2>1. Sequential(call[u].operation) => fds'[0].position = fds[0].position
    BY <1>7, <1>8, OneIsSequential
  <2>2. /\ call'[u] = call[u] /\ done'[u] = done[u] /\ got'[u] = got[u] /\ offset'[u] = offset[u]
        /\ io_pc'[u] = io_pc[u]
    BY <1>1, <1>3, <1>4, <1>5, <1>8
  <2> QED
    BY <1>1, <2>1, <2>2, OthersStayExact
<1>9. CallIsTyped(t) /\ CallIsExact(t) /\ call[t] = NoCall /\ done[t] = 0 /\ got[t] = << >>
  BY <1>1 DEF TransferInv, CallIsTyped
<1>10. call'[t].operation = operation /\ call'[t].count = count /\ call'[t].start = at
  BY <1>3
<1>11. CallIsTyped(t)'
  BY <1>1, <1>3, <1>5, <1>6, <1>9, <1>10 DEF CallIsTyped
<1>12. CallIsThere(t)'
  BY <1>1, <1>4, <1>6, <1>7, <1>9, <1>10 DEF CallIsThere, Positioned, Sequential
<1>13. CallIsExact(t)'
  <2>1. \A i \in DOMAIN data : data[i].by # t
    BY <1>9 DEF CallIsExact, NoCall, Writes
  <2> QED
    BY <1>1, <1>6, <1>9, <1>10, <2>1 DEF CallIsExact, Reads
<1>14. DataIsInPlace'
  BY <1>1 DEF TransferInv, DataIsInPlace
<1> QED
  BY <1>1, <1>3, <1>4, <1>5, <1>8, <1>11, <1>12, <1>13, <1>14 DEF TransferInv

\* Where the next part of a call goes.
LEMMA PlaceIs ==
  ASSUME OwnersInv, TransferInv, NEW t \in Threads, io_pc[t] = "busy"
  PROVE  /\ call[t].operation \in {"read", "write", "pread", "pwrite"} /\ call[t].operation \in Operations[t]
         /\ call[t].start \in Nat /\ done[t] \in Nat /\ call[t].count \in Nat /\ done[t] < call[t].count
         /\ Place(t) = call[t].start + done[t] /\ Left(t) = call[t].count - done[t]
         /\ Positioned(call[t].operation) => offset[t] = call[t].start + done[t]
         /\ Sequential(call[t].operation) => fds[0].position = call[t].start + done[t]
<1>1. CallIsTyped(t) /\ CallIsThere(t) /\ data_fd = 0
  BY DEF TransferInv, OwnersInv
<1>2. /\ call[t].operation \in {"read", "write", "pread", "pwrite"} /\ call[t].operation \in Operations[t]
      /\ call[t].start \in Nat /\ done[t] \in Nat /\ call[t].count \in Nat /\ done[t] < call[t].count
  BY <1>1 DEF CallIsTyped
<1> QED
  BY <1>1, <1>2 DEF CallIsThere, Place, Left, Positioned, Sequential

LEMMA AmountIs ==
  ASSUME OwnersInv, TransferInv, NEW t \in Threads, io_pc[t] = "busy", NEW amount \in Amounts(t)
  PROVE  /\ amount \in Nat /\ done[t] + amount <= call[t].count
         /\ Reads(call[t].operation) /\ amount # 0 => Place(t) + amount <= Len(data)
<1>1. /\ call[t].start \in Nat /\ done[t] \in Nat /\ call[t].count \in Nat /\ done[t] < call[t].count
      /\ Place(t) = call[t].start + done[t] /\ Left(t) = call[t].count - done[t]
  BY PlaceIs
<1>2. Len(data) \in Nat /\ OffsetMax \in Nat
  BY TransferAssumption DEF TransferInv, DataIsInPlace
<1> QED
  BY <1>1, <1>2 DEF Amounts

\* The file after a write: no shorter, each byte in its place, that of the writer
\* where it wrote and what was there or a hole elsewhere.
WriteIs(t, at, n, new) ==
  /\ new \in Seq(Cells) /\ \A i \in DOMAIN new : new[i].at = i - 1
  /\ DOMAIN data \subseteq DOMAIN new
  /\ \A i \in Nat : at <= i /\ i < at + n => i + 1 \in DOMAIN new /\ new[i + 1].by = t
  /\ \A i \in DOMAIN new :
       \/ at <= i - 1 /\ i - 1 < at + n /\ new[i].by = t
       \/ i \in DOMAIN data /\ new[i] = data[i]
       \/ i \notin DOMAIN data /\ new[i].by = "hole"

LEMMA WrittenIs ==
  ASSUME OwnersInv, TransferInv, NEW t \in Threads, io_pc[t] = "busy", NEW n \in Nat, n # 0
  PROVE  WriteIs(t, Place(t), n, Written(t, Place(t), n))
<1> DEFINE at == Place(t)
           L == IF Len(data) < at + n THEN at + n ELSE Len(data)
           new == Written(t, at, n)
<1>1. at \in Nat /\ at = call[t].start + done[t] /\ call[t].start \in Nat /\ done[t] \in Nat
  BY PlaceIs
<1>2. data \in Seq(Cells) /\ Len(data) \in Nat /\ \A i \in DOMAIN data : data[i] \in Cells /\ data[i].at = i - 1
  BY DEF TransferInv, DataIsInPlace
<1> HIDE DEF at
<1>3. L \in Nat /\ Len(data) <= L /\ at + n <= L
  BY <1>1, <1>2
<1>4. new = [i \in 1..L |->
               IF i - 1 \in at .. at + n - 1 THEN Stored(t, call[t].start + done[t] + (i - 1 - at))
               ELSE IF i <= Len(data) THEN data[i] ELSE Stored("hole", i - 1)]
  BY DEF Written
<1> HIDE DEF L, new
<1>5. ASSUME NEW i \in 1..L
      PROVE  /\ new[i] \in Cells /\ new[i].at = i - 1
             /\ at <= i - 1 /\ i - 1 < at + n => new[i].by = t
             /\ \/ at <= i - 1 /\ i - 1 < at + n /\ new[i].by = t
                \/ i \in DOMAIN data /\ new[i] = data[i]
                \/ i \notin DOMAIN data /\ new[i].by = "hole"
  <2>1. CASE i - 1 \in at .. at + n - 1
    <3>1. call[t].start + done[t] + (i - 1 - at) = i - 1 /\ i - 1 \in Nat
      BY <1>1, <1>3
    <3>2. new[i] = Stored(t, i - 1)
      BY <1>4, <2>1, <3>1
    <3> QED
      BY <1>1, <1>3, <2>1, <3>1, <3>2 DEF Stored, Cells
  <2>2. CASE i - 1 \notin at .. at + n - 1 /\ i <= Len(data)
    <3>1. new[i] = data[i] /\ i \in DOMAIN data
      BY <1>2, <1>3, <1>4, <2>2
    <3> QED
      BY <1>1, <1>2, <1>3, <2>2, <3>1
  <2>3. CASE i - 1 \notin at .. at + n - 1 /\ ~(i <= Len(data))
    <3>1. new[i] = Stored("hole", i - 1) /\ i \notin DOMAIN data /\ i - 1 \in Nat
      BY <1>2, <1>3, <1>4, <2>3
    <3> QED
      BY <1>1, <1>3, <2>3, <3>1 DEF Stored, Cells
  <2> QED
    BY <2>1, <2>2, <2>3
<1>6. new \in Seq(Cells) /\ DOMAIN new = 1..L
  <2>1. new = [i \in 1..L |-> new[i]]
    BY <1>4
  <2> QED
    BY <1>3, <1>5, <2>1
<1>7. DOMAIN data \subseteq DOMAIN new
  BY <1>2, <1>3, <1>6
<1>8. ASSUME NEW i \in Nat, at <= i, i < at + n PROVE i + 1 \in DOMAIN new /\ new[i + 1].by = t
  <2>1. i + 1 \in 1..L /\ (i + 1) - 1 = i
    BY <1>1, <1>3, <1>8
  <2> QED
    BY <1>5, <1>6, <1>8, <2>1
<1> QED
  BY <1>5, <1>6, <1>7, <1>8 DEF WriteIs, new, at

\* The data after a step of t, which put its bytes where it wrote.
DataGoesOn(t, amount) ==
  LET at == Place(t)
      writes == Writes(call[t].operation)
  IN  /\ DataIsInPlace' /\ DOMAIN data \subseteq DOMAIN data'
      /\ \A i \in DOMAIN data' :
           \/ writes /\ at <= i - 1 /\ i - 1 < at + amount /\ data'[i].by = t
           \/ i \in DOMAIN data /\ data'[i] = data[i]
           \/ i \notin DOMAIN data /\ data'[i].by = "hole"
      /\ writes => \A i \in Nat : at <= i /\ i < at + amount => i + 1 \in DOMAIN data' /\ data'[i + 1].by = t

LEMMA TransferredData ==
  ASSUME OwnersInv, TransferInv, NEW t \in Threads, io_pc[t] = "busy", NEW amount \in Amounts(t),
         IF Reads(call[t].operation) THEN data' = data
         ELSE data' = IF amount = 0 THEN data ELSE Written(t, Place(t), amount)
  PROVE  DataGoesOn(t, amount)
<1>1. amount \in Nat /\ Place(t) \in Nat /\ call[t].operation \in {"read", "write", "pread", "pwrite"}
  BY PlaceIs, AmountIs
<1>2. CASE data' = data /\ (Writes(call[t].operation) => amount = 0)
  <2>1. DataIsInPlace'
    BY <1>2 DEF TransferInv, DataIsInPlace
  <2> QED
    BY <1>1, <1>2, <2>1 DEF DataGoesOn
<1>3. CASE amount # 0 /\ Writes(call[t].operation) /\ data' = Written(t, Place(t), amount)
  <2> DEFINE new == Written(t, Place(t), amount)
  <2>1. WriteIs(t, Place(t), amount, new)
    BY <1>1, <1>3, WrittenIs
  <2> HIDE DEF new
  <2>2. data' = new
    BY <1>3 DEF new
  <2> QED
    BY <1>3, <2>1, <2>2 DEF WriteIs, DataGoesOn, DataIsInPlace
<1> QED
  BY <1>1, <1>2, <1>3 DEF Reads, Writes

\* What t has read after a step.
HasGot(t, amount, new) ==
  /\ new \in Seq(Cells) /\ Len(new) = done[t] + amount
  /\ \A i \in DOMAIN new : new[i].at = call[t].start + i - 1

LEMMA GotIs ==
  ASSUME OwnersInv, TransferInv, NEW t \in Threads, io_pc[t] = "busy", NEW amount \in Amounts(t),
         Reads(call[t].operation)
  PROVE  HasGot(t, amount, got[t] \o SubSeq(data, Place(t) + 1, Place(t) + amount))
<1> DEFINE part == SubSeq(data, Place(t) + 1, Place(t) + amount)
           new == got[t] \o part
<1>1. /\ amount \in Nat /\ Place(t) \in Nat /\ Place(t) = call[t].start + done[t] /\ call[t].start \in Nat
      /\ done[t] \in Nat /\ (amount # 0 => Place(t) + amount <= Len(data))
  BY PlaceIs, AmountIs
<1>2. data \in Seq(Cells) /\ Len(data) \in Nat /\ \A i \in 1..Len(data) : data[i].at = i - 1
  BY DEF TransferInv, DataIsInPlace
<1>3. got[t] \in Seq(Cells) /\ Len(got[t]) = done[t] /\ \A i \in 1..done[t] : got[t][i].at = call[t].start + i - 1
  BY DEF TransferInv, CallIsExact
<1>4. part \in Seq(Cells) /\ Len(part) = amount /\ \A i \in 1..amount : part[i].at = Place(t) + i - 1
  <2>1. CASE amount = 0
    BY <1>1, <1>2, <2>1
  <2>2. CASE amount # 0
    <3>1. Place(t) + amount <= Len(data)
      BY <1>1, <2>2
    <3>2. /\ part \in Seq(Cells) /\ Len(part) = amount
          /\ \A i \in 1..amount : part[i] = data[Place(t) + i] /\ Place(t) + i \in 1..Len(data)
      BY <1>1, <1>2, <3>1, PartIs
    <3> HIDE DEF part
    <3>3. ASSUME NEW i \in 1..amount PROVE part[i].at = Place(t) + i - 1
      <4>1. part[i] = data[Place(t) + i] /\ data[Place(t) + i].at = (Place(t) + i) - 1
        BY <1>2, <3>2
      <4> QED
        BY <1>1, <4>1
    <3> QED
      BY <3>2, <3>3
  <2> QED
    BY <2>1, <2>2
<1> HIDE DEF part
<1>5. /\ new \in Seq(Cells) /\ Len(new) = done[t] + amount
      /\ \A i \in 1..(done[t] + amount) : new[i] = IF i <= done[t] THEN got[t][i] ELSE part[i - done[t]]
  <2>1. got[t] \in Seq(Cells) /\ part \in Seq(Cells) /\ Len(got[t]) = done[t] /\ Len(part) = amount
    BY <1>3, <1>4
  <2>2. /\ new \in Seq(Cells) /\ Len(new) = Len(got[t]) + Len(part)
        /\ \A i \in 1..(Len(got[t]) + Len(part)) :
             new[i] = IF i <= Len(got[t]) THEN got[t][i] ELSE part[i - Len(got[t])]
    BY <2>1, Concatenated, Zenon
  <2> QED
    BY <2>1, <2>2
<1> HIDE DEF new
<1>6. ASSUME NEW i \in 1..(done[t] + amount) PROVE new[i].at = call[t].start + i - 1
  <2>1. CASE i <= done[t]
    <3>1. new[i] = got[t][i] /\ i \in 1..done[t]
      BY <1>1, <1>5, <2>1
    <3> QED
      BY <1>3, <3>1
  <2>2. CASE i > done[t]
    <3>1. new[i] = part[i - done[t]] /\ i - done[t] \in 1..amount
      BY <1>1, <1>5, <2>2
    <3>2. new[i].at = Place(t) + (i - done[t]) - 1
      BY <1>4, <3>1
    <3> QED
      BY <1>1, <3>2
  <2> QED
    BY <1>1, <2>1, <2>2
<1> QED
  <2>1. DOMAIN new = 1..(done[t] + amount)
    BY <1>1, <1>5
  <2> QED
    BY <1>5, <1>6, <2>1 DEF HasGot, new, part

LEMMA TransferKeepsTransfers ==
  ASSUME OwnersInv, TransferInv, NEW t \in Threads, t \in cast, Transfer(t), cast' = cast
  PROVE  TransferInv'
<1> DEFINE operation == call[t].operation
<1>1. io_pc[t] = "busy" /\ data_fd = 0 /\ call' = call /\ 0 \in Fds /\ TableIsTyped
  BY DescriptorAssumption DEF Transfer, OwnersInv
<1>2. PICK amount \in Amounts(t) :
        /\ IF Reads(operation)
           THEN /\ got' = [got EXCEPT ![t] = @ \o SubSeq(data, Place(t) + 1, Place(t) + amount)]
                /\ UNCHANGED data
           ELSE data' = (IF amount = 0 THEN data ELSE Written(t, Place(t), amount)) /\ UNCHANGED got
        /\ fds' = IF Positioned(operation) THEN fds
                  ELSE [fds EXCEPT ![data_fd].position = @ + amount]
        /\ offset' = [offset EXCEPT ![t] = @ + amount]
        /\ done' = [done EXCEPT ![t] = @ + amount]
        /\ io_pc' = [io_pc EXCEPT ![t] = After(t, amount)]
  BY DEF Transfer
<1>3. /\ operation \in {"read", "write", "pread", "pwrite"} /\ operation \in Operations[t]
      /\ call[t].start \in Nat /\ done[t] \in Nat /\ call[t].count \in Nat /\ done[t] < call[t].count
      /\ Place(t) = call[t].start + done[t] /\ Left(t) = call[t].count - done[t]
      /\ Positioned(operation) => offset[t] = call[t].start + done[t]
      /\ Sequential(operation) => fds[0].position = call[t].start + done[t]
  BY <1>1, PlaceIs
<1>4. amount \in Nat /\ done[t] + amount <= call[t].count
  BY <1>1, AmountIs
<1>5. DataGoesOn(t, amount)
  BY <1>1, <1>2, TransferredData
<1>6. /\ offset'[t] = offset[t] + amount /\ \A u \in Threads : u # t => offset'[u] = offset[u]
      /\ offset' = [u \in Threads |-> offset'[u]]
  BY <1>2, Changed DEF TransferInv
<1>7. /\ done'[t] = done[t] + amount /\ \A u \in Threads : u # t => done'[u] = done[u]
      /\ done' = [u \in Threads |-> done'[u]]
  BY <1>2, Changed DEF TransferInv
<1>8. /\ io_pc'[t] = After(t, amount) /\ \A u \in Threads : u # t => io_pc'[u] = io_pc[u]
      /\ io_pc' = [u \in Threads |-> io_pc'[u]]
  BY <1>2, Changed DEF TransferInv
<1>9. /\ Reads(operation) => got'[t] = got[t] \o SubSeq(data, Place(t) + 1, Place(t) + amount)
      /\ \A u \in Threads : u # t => got'[u] = got[u]
      /\ got' = [u \in Threads |-> got'[u]]
  BY <1>2, Changed DEF TransferInv
<1>10. IF Positioned(operation) THEN fds' = fds ELSE fds'[0].position = fds[0].position + amount
  <2>1. CASE ~Positioned(operation)
    <3>1. fds' = [fds EXCEPT ![0].position = fds[0].position + amount]
      BY <1>1, <1>2, <2>1
    <3> QED
      BY <1>1, <2>1, <3>1, MovesOwns
  <2> QED
    BY <1>2, <2>1
<1>11. ASSUME NEW u \in Threads, u # t PROVE CallIsTyped(u)' /\ CallIsThere(u)' /\ CallIsExact(u)'
  <2>1. Sequential(call[u].operation) => fds'[0].position = fds[0].position
    BY <1>3, <1>10, <1>11, OneIsSequential
  <2>2. /\ call'[u] = call[u] /\ done'[u] = done[u] /\ got'[u] = got[u] /\ offset'[u] = offset[u]
        /\ io_pc'[u] = io_pc[u]
    BY <1>1, <1>6, <1>7, <1>8, <1>9, <1>11
  <2>3. u # "hole"
    BY ThreadsAssumption
  <2>4. /\ DOMAIN data \subseteq DOMAIN data'
        /\ \A i \in DOMAIN data' : data'[i].by = u => i \in DOMAIN data /\ data[i].by = u
        /\ \A i \in DOMAIN data : data[i].by \in cast \cap Threads => data'[i].by \in cast \cap Threads
    BY <1>5, <1>11, <2>3 DEF DataGoesOn
  <2> QED
    BY <2>1, <2>2, <2>4, OthersStayExact
<1>12. CallIsTyped(t) /\ CallIsExact(t)
  BY DEF TransferInv
<1>13. CallIsTyped(t)'
  <2>1. io_pc'[t] = IF amount = 0 THEN "failed" ELSE IF amount = Left(t) THEN "ok" ELSE "busy"
    BY <1>8 DEF After
  <2>2. done'[t] \in Nat /\ done'[t] <= call'[t].count
    BY <1>1, <1>3, <1>4, <1>7
  <2>3. (io_pc'[t] = "busy" => done'[t] < call'[t].count) /\ (io_pc'[t] = "ok" => done'[t] = call'[t].count)
    BY <1>1, <1>3, <1>4, <1>7, <2>1
  <2> QED
    BY <1>1, <1>3, <1>12, <2>1, <2>2, <2>3 DEF CallIsTyped
<1>14. CallIsThere(t)'
  BY <1>1, <1>3, <1>4, <1>6, <1>7, <1>10 DEF CallIsThere, Positioned, Sequential
<1>15. CallIsExact(t)'
  <2>1. Reads(operation) => /\ got'[t] \in Seq(Cells) /\ Len(got'[t]) = done'[t]
                            /\ \A i \in DOMAIN got'[t] : got'[t][i].at = call'[t].start + i - 1
    <3>1. ASSUME Reads(operation) PROVE HasGot(t, amount, got'[t])
      BY <1>1, <1>9, <3>1, GotIs
    <3> QED
      BY <1>1, <1>7, <3>1 DEF HasGot
  <2>2. \A i \in DOMAIN data' :
          data'[i].by = t => Writes(operation) /\ call[t].start <= i - 1 /\ i - 1 < call[t].start + done'[t]
    <3>1. SUFFICES ASSUME NEW i \in DOMAIN data', data'[i].by = t
                   PROVE  Writes(operation) /\ call[t].start <= i - 1 /\ i - 1 < call[t].start + done'[t]
      OBVIOUS
    <3>2. t # "hole" /\ i \in Nat
      BY <1>5, ThreadsAssumption DEF DataGoesOn, DataIsInPlace
    <3>3. CASE Writes(operation) /\ Place(t) <= i - 1 /\ i - 1 < Place(t) + amount
      BY <1>3, <1>4, <1>7, <3>2, <3>3
    <3>4. CASE i \in DOMAIN data /\ data'[i] = data[i]
      BY <1>3, <1>4, <1>7, <1>12, <3>1, <3>2, <3>4 DEF CallIsExact
    <3> QED
      BY <1>5, <3>1, <3>2, <3>3, <3>4 DEF DataGoesOn
  <2>3. ASSUME Writes(operation), NEW i \in Nat, call[t].start <= i, i < call[t].start + done'[t]
        PROVE  i + 1 \in DOMAIN data' /\ data'[i + 1].by \in cast \cap Threads
    <3>1. CASE i < call[t].start + done[t]
      <4>1. i + 1 \in DOMAIN data /\ data[i + 1].by \in cast \cap Threads
        BY <1>12, <2>3, <3>1 DEF CallIsExact
      <4> QED
        BY <1>5, <4>1 DEF DataGoesOn
    <3>2. CASE i >= call[t].start + done[t]
      <4>1. Place(t) <= i /\ i < Place(t) + amount
        BY <1>3, <1>4, <1>7, <2>3, <3>2
      <4> QED
        BY <1>5, <2>3, <4>1 DEF DataGoesOn
    <3> QED
      BY <1>3, <3>1, <3>2
  <2> QED
    BY <1>1, <2>1, <2>2, <2>3 DEF CallIsExact
<1>16. DataIsInPlace'
  BY <1>5 DEF DataGoesOn
<1>17. call' = [u \in Threads |-> call'[u]]
  BY <1>1 DEF TransferInv
<1> QED
  BY <1>6, <1>7, <1>8, <1>9, <1>11, <1>13, <1>14, <1>15, <1>16, <1>17 DEF TransferInv

LEMMA FailKeepsTransfers ==
  ASSUME TransferInv, NEW t \in Threads, TransferFails(t), cast' = cast
  PROVE  TransferInv'
<1>1. /\ io_pc[t] = "busy" /\ fds' = fds /\ data' = data /\ call' = call /\ offset' = offset
      /\ done' = done /\ got' = got
  BY DEF TransferFails
<1>2. /\ io_pc'[t] = "failed" /\ \A u \in Threads : u # t => io_pc'[u] = io_pc[u]
      /\ io_pc' = [u \in Threads |-> io_pc'[u]]
  BY Changed DEF TransferFails, TransferInv
<1>3. ASSUME NEW u \in Threads PROVE CallIsTyped(u)' /\ CallIsThere(u)' /\ CallIsExact(u)'
  <2>1. CallIsTyped(u) /\ CallIsThere(u) /\ CallIsExact(u)
    BY DEF TransferInv
  <2>2. CallIsThere(u)' /\ CallIsExact(u)'
    BY <1>1, <2>1 DEF CallIsThere, CallIsExact
  <2>3. io_pc'[u] = io_pc[u] \/ (io_pc'[u] = "failed" /\ io_pc[u] = "busy")
    BY <1>1, <1>2
  <2>4. CallIsTyped(u)'
    BY <1>1, <2>1, <2>3 DEF CallIsTyped
  <2> QED
    BY <2>2, <2>4
<1>4. DataIsInPlace'
  BY <1>1 DEF TransferInv, DataIsInPlace
<1> QED
  BY <1>1, <1>2, <1>3, <1>4 DEF TransferInv

LEMMA TransfersKeep == OwnersInv /\ TransferInv /\ [Next]_vars => TransferInv'
<1> SUFFICES ASSUME OwnersInv, TransferInv, [Next]_vars PROVE TransferInv'
  OBVIOUS
<1>1. CASE Make
  BY <1>1, WalkKeepsOwners, TransfersStay DEF Make, reading, transfers, OthersAreKept
<1>2. CASE Read
  BY <1>2, ReaderKeepsOwners, TransfersStay DEF Read, transfers
<1>3. ASSUME NEW t \in Threads, Move(t) PROVE TransferInv'
  BY <1>3, BeginKeepsTransfers, TransferKeepsTransfers, FailKeepsTransfers DEF Move, TransferStep, Others
<1>4. CASE UNCHANGED <<fds, data, transfers, cast>>
  BY <1>4, TransfersStay
<1> QED
  BY <1>1, <1>2, <1>3, <1>4 DEF Next, Disturb, ChangePath, EditText, vars

\* What a transfer has moved so far lies at its offset and nowhere else.
THEOREM TransfersAreKept == Spec => [](OwnersInv /\ TransferInv)
<1>1. Init => OwnersInv /\ TransferInv
  BY InitOfOwners, InitOfTransfers
<1>2. OwnersInv /\ TransferInv /\ [Next]_vars => (OwnersInv /\ TransferInv)'
  BY OwnersKeep, TransfersKeep
<1> QED
  BY <1>1, <1>2, PTL DEF Spec

\* For any number of threads, of bytes and of parts the kernel makes of a transfer:
\* every byte goes to its place, once, and the position moves with those of the one
\* thread that uses it.
THEOREM TransfersStayExact == Spec => []TransfersAreExact
<1>1. OwnersInv /\ TransferInv => TransfersAreExact
  <2> SUFFICES ASSUME OwnersInv, TransferInv, NEW t \in cast \cap Threads
               PROVE  LET c == call[t] IN
                      /\ io_pc[t] = "ok" => done[t] = c.count
                      /\ Reads(c.operation) => /\ Len(got[t]) = done[t]
                                               /\ \A i \in DOMAIN got[t] : got[t][i].at = c.start + i - 1
                      /\ ~Reads(c.operation) =>
                           /\ \A i \in DOMAIN data : data[i].by = t => i - 1 \in c.start .. c.start + done[t] - 1
                           /\ \A at \in c.start .. c.start + done[t] - 1 :
                                at < Len(data) /\ data[at + 1].at = at /\ data[at + 1].by \in cast
                      /\ c.operation \in {"read", "write"} => fds[data_fd].position = c.start + done[t]
    BY DEF TransfersAreExact
  <2>1. CallIsTyped(t) /\ CallIsThere(t) /\ CallIsExact(t) /\ data_fd = 0
    BY DEF TransferInv, OwnersInv
  <2>2. /\ call[t].operation \in {"none", "read", "write", "pread", "pwrite"}
        /\ call[t].start \in Nat /\ done[t] \in Nat
        /\ call[t].operation = "none" => done[t] = 0
    BY <2>1 DEF CallIsTyped
  <2>3. data \in Seq(Cells) /\ \A i \in DOMAIN data : data[i].at = i - 1
    BY DEF TransferInv, DataIsInPlace
  <2>4. ASSUME NEW i \in DOMAIN data, data[i].by = t
        PROVE  i - 1 \in call[t].start .. call[t].start + done[t] - 1
    BY <2>1, <2>2, <2>3, <2>4 DEF CallIsExact
  <2>5. ASSUME ~Reads(call[t].operation), NEW at \in call[t].start .. call[t].start + done[t] - 1
        PROVE  at < Len(data) /\ data[at + 1].at = at /\ data[at + 1].by \in cast
    <3>1. at \in Nat /\ call[t].start <= at /\ at < call[t].start + done[t]
      BY <2>2, <2>5
    <3>2. Writes(call[t].operation)
      BY <2>2, <2>5, <3>1 DEF Reads, Writes
    <3>3. at + 1 \in DOMAIN data /\ data[at + 1].by \in cast \cap Threads
      BY <2>1, <3>1, <3>2 DEF CallIsExact
    <3> QED
      BY <2>3, <3>1, <3>3
  <2> QED
    BY <2>1, <2>4, <2>5 DEF CallIsTyped, CallIsThere, CallIsExact, Sequential
<1> QED
  BY <1>1, TransfersAreKept, PTL

================================================================================
