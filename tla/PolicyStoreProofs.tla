--------------------------- MODULE PolicyStoreProofs ---------------------------
(***************************************************************************)
(* Proofs about PolicyStore, for any saves, edits, policies and files.     *)
(***************************************************************************)
EXTENDS PolicyStore, WellFoundedInduction, TLAPS

(* The file and its history.                                                 *)

Held == Calls \cup {Original}

\* a was installed, and b then or later.
NotAfter(a, b) == \E i, j \in DOMAIN installs : i <= j /\ installs[i] = a /\ installs[j] = b

\* What the file holds, or may hold after a power loss.
Possible == undoable[Home] \cup {current[Home]}

StoreTypes ==
  /\ current \in [{Home} -> Held]
  /\ undoable \in [{Home} -> SUBSET Held]
  /\ replaced \in [Calls -> SUBSET ({Home} \X Held)]
  /\ outcome \in [Calls -> {"pending", "ok", "failed", "dead"}]
  /\ installs \in Seq(Held)

Installed == {installs[i] : i \in DOMAIN installs}

\* What the file may hold is not older than a call that was installed, unless the
\* call knows that it replaced it; nor at all where the call returned zero.
HistoryIsKept ==
  /\ Possible \cup {Original} \subseteq Installed
  /\ \A c \in Calls : replaced[c] # {} => c \in Installed
  /\ \A c \in (Calls \cap Installed) \ lost, v \in Possible : NotAfter(c, v) \/ <<Home, v>> \in replaced[c]
  /\ \A c \in Saves : outcome[c] = "ok" =>
       c \in Installed /\ \A v \in Possible : c \notin lost => NotAfter(c, v)

LoadsAreNotOlder ==
  /\ \A c \in reading.known : NotAfter(c, reading.version)
  /\ \A c \in loaded.known : NotAfter(c, loaded.version)

StoreInv == StoreTypes /\ HistoryIsKept /\ LoadsAreNotOlder

LEMMA CallsAreOthers == Saves \cap Edits = {} /\ Original \notin Calls /\ Saves \subseteq Calls
                        /\ Edits \subseteq Calls /\ Calls \subseteq Held /\ Original \in Held
BY StoreAssumption DEF Calls, Held

LEMMA InitOfStore == Init => StoreInv
<1> SUFFICES ASSUME Init PROVE StoreInv
  OBVIOUS
<1>1. /\ current \in [{Home} -> (Calls \cup {Original}) \ Calls]
      /\ undoable = [d \in {Home} |-> {}] /\ replaced = [c \in Calls |-> {}]
      /\ outcome = [c \in Calls |-> "pending"] /\ installs = <<Original>>
      /\ reading = NoReading /\ loaded = NotLoaded /\ lost = {}
  BY DEF Init, File!Init
<1>2. current[Home] = Original /\ undoable[Home] = {}
  BY <1>1
<1>3. Installed = {Original}
  BY <1>1 DEF Installed
<1>4. StoreTypes
  BY <1>1, CallsAreOthers DEF StoreTypes, Held
<1>5. HistoryIsKept
  BY <1>1, <1>2, <1>3, CallsAreOthers DEF HistoryIsKept, Possible
<1>6. LoadsAreNotOlder
  BY <1>1 DEF LoadsAreNotOlder, NoReading, NotLoaded
<1> QED
  BY <1>4, <1>5, <1>6 DEF StoreInv

\* What was installed stays in its place.
LEMMA HistoryGrows ==
  ASSUME StoreTypes, NEW c \in Calls, installs' = Append(installs, c)
  PROVE  /\ installs' \in Seq(Held)
         /\ Installed' = Installed \cup {c}
         /\ \A a, b : NotAfter(a, b) => NotAfter(a, b)'
         /\ \A a \in Installed : NotAfter(a, c)'
         /\ NotAfter(c, c)'
<1>1. installs' \in Seq(Held) /\ Len(installs') = Len(installs) + 1 /\ Len(installs) \in Nat
      /\ DOMAIN installs = 1..Len(installs) /\ DOMAIN installs' = 1..(Len(installs) + 1)
      /\ installs'[Len(installs) + 1] = c /\ \A i \in DOMAIN installs : installs'[i] = installs[i]
  BY CallsAreOthers DEF StoreTypes
<1>2. Installed' = Installed \cup {c}
  BY <1>1 DEF Installed
<1>3. ASSUME NEW a, NEW b, NotAfter(a, b) PROVE NotAfter(a, b)'
  BY <1>1, <1>3 DEF NotAfter
<1>4. ASSUME NEW a \in Installed PROVE NotAfter(a, c)'
  BY <1>1 DEF NotAfter, Installed
<1>5. NotAfter(c, c)'
  BY <1>1 DEF NotAfter
<1> QED
  BY <1>1, <1>2, <1>3, <1>4, <1>5

LEMMA HistoryStays ==
  ASSUME installs' = installs
  PROVE  Installed' = Installed /\ \A a, b : NotAfter(a, b)' <=> NotAfter(a, b)
BY DEF Installed, NotAfter

LEMMA InstallKeeps ==
  ASSUME StoreInv, NEW c \in Calls, File!Install(c, Home), installs' = Append(installs, c),
         reading' = reading, loaded' = loaded, lost' = lost
  PROVE  StoreInv'
<1>1. /\ outcome[c] = "pending" /\ outcome' = outcome /\ replaced[c] = {}
      /\ current' = [current EXCEPT ![Home] = c]
      /\ undoable' = [undoable EXCEPT ![Home] = @ \cup {current[Home]}]
      /\ replaced' = [replaced EXCEPT ![c] = {Home} \X (undoable[Home] \cup {current[Home]})]
  BY DEF File!Install
<1>2. StoreTypes
  BY DEF StoreInv
<1>3. Possible' = Possible \cup {c} /\ replaced'[c] = {Home} \X Possible
      /\ \A d \in Calls : d # c => replaced'[d] = replaced[d]
  BY <1>1, <1>2 DEF Possible, StoreTypes
<1>4. StoreTypes'
  <2>1. Possible \subseteq Held
    BY <1>2 DEF Possible, StoreTypes
  <2>2. current' \in [{Home} -> Held]
    BY <1>1, <1>2, CallsAreOthers DEF StoreTypes
  <2>3. undoable' \in [{Home} -> SUBSET Held]
    BY <1>1, <1>2 DEF StoreTypes
  <2>4. replaced' \in [Calls -> SUBSET ({Home} \X Held)]
    BY <1>1, <1>2, <2>1 DEF StoreTypes, Possible
  <2> QED
    BY <1>1, <1>2, <2>2, <2>3, <2>4, HistoryGrows DEF StoreTypes
<1>5. /\ Installed' = Installed \cup {c}
      /\ \A a, b : NotAfter(a, b) => NotAfter(a, b)'
      /\ \A a \in Installed : NotAfter(a, c)'
      /\ NotAfter(c, c)'
  BY <1>2, HistoryGrows
<1>6. HistoryIsKept
  BY DEF StoreInv
<1>7. Possible' \cup {Original} \subseteq Installed'
  BY <1>3, <1>5, <1>6 DEF HistoryIsKept
<1>8. \A d \in Calls : replaced'[d] # {} => d \in Installed'
  BY <1>3, <1>5, <1>6 DEF HistoryIsKept
<1>9. ASSUME NEW d \in (Calls \cap Installed') \ lost', NEW v \in Possible'
      PROVE  NotAfter(d, v)' \/ <<Home, v>> \in replaced'[d]
  <2>1. CASE d = c
    BY <1>3, <1>5, <2>1
  <2>2. CASE d # c /\ v = c
    BY <1>5, <2>2
  <2>3. CASE d # c /\ v # c
    BY <1>3, <1>5, <1>6, <2>3 DEF HistoryIsKept
  <2> QED
    BY <2>1, <2>2, <2>3
<1>10. ASSUME NEW d \in Saves, outcome'[d] = "ok"
       PROVE  d \in Installed' /\ \A v \in Possible' : d \notin lost' => NotAfter(d, v)'
  <2>1. d \in Installed /\ \A v \in Possible : d \notin lost => NotAfter(d, v)
    BY <1>1, <1>6, <1>10 DEF HistoryIsKept
  <2> QED
    BY <1>3, <1>5, <2>1
<1>11. LoadsAreNotOlder'
  BY <1>5 DEF StoreInv, LoadsAreNotOlder
<1> QED
  BY <1>4, <1>7, <1>8, <1>9, <1>10, <1>11 DEF StoreInv, HistoryIsKept

\* Every other step: nothing is installed, and what reports success knows that
\* nothing it replaced can come back.
LEMMA OtherStepsKeep ==
  ASSUME StoreInv, StoreTypes', installs' = installs, replaced' = replaced, lost' = lost,
         Possible' \subseteq Possible,
         \A c \in Saves : outcome'[c] = "ok" /\ outcome[c] # "ok" =>
           replaced[c] # {} /\ \A v \in Possible : <<Home, v>> \notin replaced[c],
         LoadsAreNotOlder'
  PROVE  StoreInv'
<1>1. HistoryIsKept
  BY DEF StoreInv
<1>2. Installed' = Installed /\ \A a, b : NotAfter(a, b)' <=> NotAfter(a, b)
  BY HistoryStays
<1>3. Possible' \cup {Original} \subseteq Installed'
  BY <1>1, <1>2 DEF HistoryIsKept
<1>4. \A c \in Calls : replaced'[c] # {} => c \in Installed'
  BY <1>1, <1>2 DEF HistoryIsKept
<1>5. \A c \in (Calls \cap Installed') \ lost', v \in Possible' :
        NotAfter(c, v)' \/ <<Home, v>> \in replaced'[c]
  BY <1>1, <1>2 DEF HistoryIsKept
<1>6. ASSUME NEW c \in Saves, outcome'[c] = "ok"
      PROVE  c \in Installed' /\ \A v \in Possible' : c \notin lost' => NotAfter(c, v)'
  <2>1. CASE outcome[c] = "ok"
    BY <1>1, <1>2, <1>6, <2>1 DEF HistoryIsKept
  <2>2. CASE outcome[c] # "ok"
    <3>1. replaced[c] # {} /\ \A v \in Possible' : <<Home, v>> \notin replaced[c]
      BY <1>6, <2>2
    <3>2. c \in Calls \cap Installed
      BY <1>1, <1>6, <3>1, CallsAreOthers DEF HistoryIsKept
    <3> QED
      BY <1>1, <1>2, <1>6, <3>1, <3>2 DEF HistoryIsKept
  <2> QED
    BY <2>1, <2>2
<1> QED
  BY <1>3, <1>4, <1>5, <1>6 DEF StoreInv, HistoryIsKept

LEMMA LoadsStay ==
  ASSUME LoadsAreNotOlder, reading' = reading \/ reading' = NoReading, loaded' = loaded,
         installs' = installs
  PROVE  LoadsAreNotOlder'
BY HistoryStays DEF LoadsAreNotOlder, NoReading

LEMMA OutcomesAreTyped ==
  ASSUME StoreTypes, NEW c, NEW o \in {"ok", "failed", "dead"}, outcome' = [outcome EXCEPT ![c] = o]
  PROVE  outcome' \in [Calls -> {"pending", "ok", "failed", "dead"}]
BY DEF StoreTypes

LEMMA FailKeeps ==
  ASSUME StoreInv, NEW c \in Saves, File!Fail(c), installs' = installs,
         reading' = reading, loaded' = loaded, lost' = lost
  PROVE  StoreInv'
<1>1. PICK o \in {"failed", "dead"} : outcome' = [outcome EXCEPT ![c] = o]
  BY DEF File!Fail
<1>2. current' = current /\ undoable' = undoable /\ replaced' = replaced
  BY DEF File!Fail
<1>3. StoreTypes /\ LoadsAreNotOlder
  BY DEF StoreInv
<1>4. StoreTypes'
  BY <1>1, <1>2, <1>3, OutcomesAreTyped DEF StoreTypes
<1>5. \A d \in Saves : outcome'[d] = "ok" => outcome[d] = "ok"
  BY <1>1, <1>3, CallsAreOthers DEF StoreTypes
<1>6. LoadsAreNotOlder'
  BY <1>3, LoadsStay
<1>7. Possible' = Possible
  BY <1>2 DEF Possible
<1> QED
  BY <1>2, <1>4, <1>5, <1>6, <1>7, OtherStepsKeep

LEMMA SucceedKeeps ==
  ASSUME StoreInv, NEW c \in Saves, Succeeds(c), installs' = installs,
         reading' = reading, loaded' = loaded, lost' = lost
  PROVE  StoreInv'
<1>1. /\ replaced[c] # {} /\ outcome' = [outcome EXCEPT ![c] = "ok"]
      /\ \A v \in Possible : <<Home, v>> \notin replaced[c]
      /\ current' = current /\ undoable' = undoable /\ replaced' = replaced
  BY DEF Succeeds, File!Succeed, Possible
<1>2. StoreTypes /\ LoadsAreNotOlder
  BY DEF StoreInv
<1>3. StoreTypes'
  BY <1>1, <1>2, OutcomesAreTyped DEF StoreTypes
<1>4. \A d \in Saves : outcome'[d] = "ok" /\ outcome[d] # "ok" => d = c
  BY <1>1, <1>2, CallsAreOthers DEF StoreTypes
<1>5. LoadsAreNotOlder'
  BY <1>2, LoadsStay
<1>6. Possible' = Possible
  BY <1>1 DEF Possible
<1> QED
  BY <1>1, <1>3, <1>4, <1>5, <1>6, OtherStepsKeep

\* A step that leaves the file alone.
LEMMA FileStays ==
  ASSUME StoreInv, UNCHANGED file, installs' = installs, lost' = lost, LoadsAreNotOlder'
  PROVE  StoreInv'
<1>1. StoreTypes'
  BY DEF StoreInv, StoreTypes, file
<1>2. Possible' = Possible /\ outcome' = outcome /\ replaced' = replaced
  BY DEF Possible, file
<1> QED
  BY <1>1, <1>2, OtherStepsKeep

LEMMA PersistKeeps == StoreInv /\ Persist => StoreInv'
<1> SUFFICES ASSUME StoreInv, Persist PROVE StoreInv'
  OBVIOUS
<1>1. /\ undoable' = [undoable EXCEPT ![Home] = {}] /\ current' = current /\ replaced' = replaced
      /\ outcome' = outcome /\ installs' = installs /\ lost' = lost
      /\ reading' = reading /\ loaded' = loaded
  BY DEF Persist, File!Persist
<1>2. StoreTypes /\ LoadsAreNotOlder
  BY DEF StoreInv
<1>3. StoreTypes' /\ Possible' \subseteq Possible
  BY <1>1, <1>2 DEF StoreTypes, Possible
<1>4. LoadsAreNotOlder'
  BY <1>1, <1>2, LoadsStay
<1> QED
  BY <1>1, <1>3, <1>4, OtherStepsKeep

LEMMA OpenKeeps == StoreInv /\ Open => StoreInv'
<1> SUFFICES ASSUME StoreInv, Open PROVE StoreInv'
  OBVIOUS
<1>1. /\ reading'.version = current[Home] /\ reading'.known = {c \in Saves \ lost : outcome[c] = "ok"}
      /\ loaded' = NotLoaded /\ UNCHANGED file /\ installs' = installs /\ lost' = lost
  BY DEF Open
<1>2. \A c \in reading'.known : NotAfter(c, reading'.version)
  BY <1>1 DEF StoreInv, HistoryIsKept, Possible
<1>3. LoadsAreNotOlder'
  BY <1>1, <1>2, HistoryStays DEF LoadsAreNotOlder, NotLoaded
<1> QED
  BY <1>1, <1>3, FileStays

LEMMA ReturnKeeps == StoreInv /\ Return => StoreInv'
<1> SUFFICES ASSUME StoreInv, Return PROVE StoreInv'
  OBVIOUS
<1>1. /\ loaded'.version = reading.version /\ loaded'.known = reading.known
      /\ reading' = NoReading /\ UNCHANGED file /\ installs' = installs /\ lost' = lost
  BY DEF Return
<1>2. LoadsAreNotOlder'
  BY <1>1, HistoryStays DEF StoreInv, LoadsAreNotOlder, NoReading
<1> QED
  BY <1>1, <1>2, FileStays

LEMMA PowerLossKeeps == StoreInv /\ PowerLoss => StoreInv'
<1> SUFFICES ASSUME StoreInv, PowerLoss PROVE StoreInv'
  OBVIOUS
<1>1. /\ current' \in [{Home} -> Held] /\ current'[Home] \in Possible
      /\ undoable' = [d \in {Home} |-> {}] /\ replaced' = replaced
      /\ installs' = installs /\ lost' = lost /\ reading' = NoReading /\ loaded' = loaded
  BY DEF PowerLoss, File!PowerLoss, Possible, Held
<1>2. PICK gone \in SUBSET {c \in Calls : outcome[c] = "pending"} :
        outcome' = [c \in Calls |-> IF c \in gone THEN "dead" ELSE outcome[c]]
  BY DEF PowerLoss, File!PowerLoss
<1>3. StoreTypes /\ LoadsAreNotOlder
  BY DEF StoreInv
<1>4. outcome' \in [Calls -> {"pending", "ok", "failed", "dead"}]
      /\ \A c \in Saves : outcome'[c] = "ok" => outcome[c] = "ok"
  BY <1>2, <1>3, CallsAreOthers DEF StoreTypes
<1>5. StoreTypes'
  BY <1>1, <1>3, <1>4 DEF StoreTypes
<1>6. Possible' \subseteq Possible
  BY <1>1 DEF Possible
<1>7. LoadsAreNotOlder'
  BY <1>1, <1>3, LoadsStay
<1> QED
  BY <1>1, <1>4, <1>5, <1>6, <1>7, OtherStepsKeep

\* With the directory goes every version that was ever installed.
LEMMA LoseDirectoryKeeps == StoreInv /\ LoseDirectory => StoreInv'
<1> SUFFICES ASSUME StoreInv, LoseDirectory PROVE StoreInv'
  OBVIOUS
<1>1. /\ current' = [current EXCEPT ![Home] = Original] /\ undoable' = [undoable EXCEPT ![Home] = {}]
      /\ outcome' = [c \in Calls |-> IF c \in storing /\ outcome[c] = "pending" THEN "dead" ELSE outcome[c]]
      /\ lost' = Calls \cap Range(installs) /\ replaced' = replaced /\ installs' = installs
      /\ reading' = NoReading /\ loaded' = loaded
  BY DEF LoseDirectory
<1>2. StoreTypes /\ HistoryIsKept /\ LoadsAreNotOlder
  BY DEF StoreInv
<1>3. lost' = Calls \cap Installed /\ Installed' = Installed
  BY <1>1, HistoryStays DEF Range, Installed
<1>4. StoreTypes'
  BY <1>1, <1>2, CallsAreOthers DEF StoreTypes
<1>5. Possible' = {Original}
  BY <1>1, <1>2 DEF Possible, StoreTypes
<1>6. \A c \in Saves : outcome'[c] = "ok" => outcome[c] = "ok"
  BY <1>1, CallsAreOthers
<1>7. HistoryIsKept'
  BY <1>1, <1>2, <1>3, <1>5, <1>6, CallsAreOthers DEF HistoryIsKept
<1>8. LoadsAreNotOlder'
  BY <1>1, <1>2, LoadsStay
<1> QED
  BY <1>4, <1>7, <1>8 DEF StoreInv

LEMMA StoreKeeps == StoreInv /\ [Next]_vars => StoreInv'
<1> SUFFICES ASSUME StoreInv, [Next]_vars PROVE StoreInv'
  OBVIOUS
<1>1. LoadsAreNotOlder
  BY DEF StoreInv
<1>2. ASSUME NEW c \in Saves, Serialise(c) PROVE StoreInv'
  <2>1. installs' = installs /\ reading' = reading /\ loaded' = loaded /\ lost' = lost
    BY <1>2 DEF Serialise
  <2>2. CASE File!Fail(c)
    BY <2>1, <2>2, FailKeeps
  <2>3. CASE UNCHANGED file
    BY <1>1, <2>1, <2>3, LoadsStay, FileStays
  <2> QED
    BY <1>2, <2>2, <2>3 DEF Serialise
<1>3. ASSUME NEW c \in Saves, MakeDirectory(c) PROVE StoreInv'
  BY <1>1, <1>3, LoadsStay, FileStays DEF MakeDirectory
<1>4. ASSUME NEW c \in Saves, Store(c) PROVE StoreInv'
  BY <1>4, InstallKeeps, CallsAreOthers DEF Store
<1>5. ASSUME NEW c \in Saves, EndSave(c) PROVE StoreInv'
  BY <1>5, FailKeeps, SucceedKeeps DEF EndSave
<1>6. CASE PersistDirectory
  BY <1>1, <1>6, LoadsStay, FileStays DEF PersistDirectory
<1>7. ASSUME NEW e \in Edits, Edit(e) PROVE StoreInv'
  BY <1>7, InstallKeeps, CallsAreOthers DEF Edit
<1>8. CASE UNCHANGED vars
  BY <1>1, <1>8, LoadsStay, FileStays DEF vars, file
<1> QED
  BY <1>2, <1>3, <1>4, <1>5, <1>6, <1>7, <1>8, PersistKeeps, OpenKeeps, ReturnKeeps,
     PowerLossKeeps, LoseDirectoryKeeps DEF Next

\* The saves that have returned, the versions of the file and the loads that are
\* open stand in one order, of which a power loss takes the unfinished end only.
THEOREM HistoryIsInvariant == Spec => []StoreInv
<1>1. Init => StoreInv
  BY InitOfStore
<1>2. StoreInv /\ [Next]_vars => StoreInv'
  BY StoreKeeps
<1> QED
  BY <1>1, <1>2, PTL DEF Spec

\* Whatever was saved, edited and lost with the power in between, a load does not
\* go behind a save that had returned zero before it began.
THEOREM LoadsAreCurrent == Spec => []LoadIsNotOlder
<1>1. StoreInv => LoadIsNotOlder
  BY DEF StoreInv, LoadsAreNotOlder, NotAfter, LoadIsNotOlder
<1> QED
  BY <1>1, HistoryIsInvariant, PTL

(* Induction over the natural numbers, as a fact about sets.                      *)

LEMMA LessIsWellFounded ==
  \E R : IsWellFoundedOn(R, Nat) /\ \A x, y \in Nat : y < x => <<y, x>> \in R
<1>1. \A x, y \in Nat : y < x => <<y, x>> \in OpToRel(<, Nat)
  BY DEF OpToRel
<1> QED
  BY <1>1, NatLessThanWellFounded, Zenon

LEMMA Least ==
  ASSUME NEW T, T \subseteq Nat, T # {}
  PROVE  \E x \in T : \A y \in T : x <= y
<1>1. PICK R : IsWellFoundedOn(R, Nat) /\ \A x, y \in Nat : y < x => <<y, x>> \in R
  BY LessIsWellFounded
<1>2. PICK x \in T : \A y \in T : ~ (<<y, x>> \in R)
  BY <1>1, WFMin
<1>3. ASSUME NEW y \in T PROVE x <= y
  <2>1. x \in Nat /\ y \in Nat
    OBVIOUS
  <2>2. ~ (y < x)
    BY <1>1, <1>2, <2>1, Zenon
  <2> QED
    BY <2>1, <2>2
<1> QED
  BY <1>3

LEMMA SetInduction ==
  ASSUME NEW T, 0 \in T, \A n \in Nat : n \in T => n + 1 \in T
  PROVE  Nat \subseteq T
<1> DEFINE R == Nat \ T
<1>1. SUFFICES ASSUME R # {} PROVE FALSE
  OBVIOUS
<1>2. PICK x \in R : \A y \in R : x <= y
  BY <1>1, Least
<1>3. x # 0 /\ x - 1 \in Nat /\ x - 1 \notin R
  BY <1>2
<1> QED
  BY <1>2, <1>3

(* FoldLeft is defined over the subsets of DOMAIN text, the greatest place last.  *)

Start(default) == [ok |-> TRUE, seen |-> {}, policy |-> default]
Iterated(form, default, text, n, h) ==
  h = [s \in SUBSET (1..n) |->
         IF s = {} THEN Start(default) ELSE ReadLine(form, h[s \ {Max(s)}], text[Max(s)])]

LEMMA MaxIs ==
  ASSUME NEW n \in Nat, NEW s \in SUBSET (1..(n + 1))
  PROVE  IF n + 1 \in s THEN Max(s) = n + 1 /\ s \ {n + 1} \in SUBSET (1..n)
         ELSE s \in SUBSET (1..n)
<1>1. CASE n + 1 \in s
  <2>1. n + 1 \in s /\ \A y \in s : n + 1 >= y
    BY <1>1
  <2>2. Max(s) \in s /\ \A y \in s : Max(s) >= y
    BY <2>1, Zenon DEF Max
  <2>3. Max(s) \in 1..(n + 1) /\ Max(s) >= n + 1
    BY <2>1, <2>2
  <2> QED
    BY <1>1, <2>3
<1> QED
  BY <1>1

LEMMA MaxOf == ASSUME NEW n \in Nat PROVE Max(1..(n + 1)) = n + 1 /\ (1..(n + 1)) \ {n + 1} = 1..n
BY MaxIs

LEMMA IteratedExists ==
  ASSUME NEW form, NEW default, NEW text
  PROVE  \A n \in Nat : \E h : Iterated(form, default, text, n, h)
<1> DEFINE T == {n \in Nat : \E h : Iterated(form, default, text, n, h)}
<1>1. 0 \in T
  <2> DEFINE h == [s \in SUBSET (1..0) |-> Start(default)]
  <2>1. \A s \in SUBSET (1..0) : s = {}
    OBVIOUS
  <2>2. Iterated(form, default, text, 0, h)
    BY <2>1 DEF Iterated
  <2> QED
    BY <2>2
<1>2. ASSUME NEW n \in Nat, n \in T PROVE n + 1 \in T
  <2>1. PICK h : Iterated(form, default, text, n, h)
    BY <1>2
  <2> DEFINE g == [s \in SUBSET (1..(n + 1)) |->
                     IF n + 1 \in s THEN ReadLine(form, h[s \ {n + 1}], text[n + 1]) ELSE h[s]]
  <2>2. ASSUME NEW s \in SUBSET (1..(n + 1))
        PROVE  g[s] = IF s = {} THEN Start(default) ELSE ReadLine(form, g[s \ {Max(s)}], text[Max(s)])
    <3>1. CASE n + 1 \in s
      <4>1. Max(s) = n + 1 /\ s \ {n + 1} \in SUBSET (1..n) /\ n + 1 \notin s \ {n + 1}
        BY <3>1, MaxIs
      <4>2. s \ {n + 1} \in SUBSET (1..(n + 1))
        OBVIOUS
      <4>3. g[s \ {n + 1}] = h[s \ {n + 1}]
        BY <4>1, <4>2
      <4> QED
        BY <3>1, <4>1, <4>3
    <3>2. CASE n + 1 \notin s
      <4>1. s \in SUBSET (1..n)
        BY <3>2, MaxIs
      <4>2. g[s] = h[s]
        BY <3>2
      <4>3. h[s] = IF s = {} THEN Start(default) ELSE ReadLine(form, h[s \ {Max(s)}], text[Max(s)])
        BY <2>1, <4>1 DEF Iterated
      <4>4. s \ {Max(s)} \in SUBSET (1..(n + 1)) /\ n + 1 \notin s \ {Max(s)}
        BY <3>2
      <4>5. g[s \ {Max(s)}] = h[s \ {Max(s)}]
        BY <4>4
      <4> QED
        BY <4>2, <4>3, <4>5
    <3> QED
      BY <3>1, <3>2
  <2>3. g = [s \in SUBSET (1..(n + 1)) |-> g[s]]
    OBVIOUS
  <2> HIDE DEF g
  <2>4. Iterated(form, default, text, n + 1, g)
    BY <2>2, <2>3, Zenon DEF Iterated
  <2> QED
    BY <2>4
<1>3. Nat \subseteq T
  <2> HIDE DEF T
  <2> QED
    BY <1>1, <1>2, SetInduction
<1> QED
  BY <1>3

\* The reader goes through the lines one after the other.
LEMMA ReadIsIterated ==
  ASSUME NEW form, NEW default, NEW text \in Seq(Line)
  PROVE  \E g : /\ g[0] = Start(default)
                /\ \A n \in 1..Len(text) : g[n] = ReadLine(form, g[n - 1], text[n])
                /\ Read(form, default, text) = g[Len(text)]
<1> DEFINE L == Len(text)
<1>0. L \in Nat /\ DOMAIN text = 1..L
  OBVIOUS
<1> HIDE DEF L
<1> DEFINE h == CHOOSE h : Iterated(form, default, text, L, h)
           g == [n \in 0..L |-> h[1..n]]
<1>1. Iterated(form, default, text, L, h)
  BY <1>0, IteratedExists, Zenon
<1>2. Read(form, default, text) = h[1..L]
  BY <1>0 DEF Read, FoldLeft, MapThenFoldSet, Iterated, Start
<1> HIDE DEF h
<1>3. g[0] = Start(default)
  <2>1. 1..0 \in SUBSET (1..L) /\ 1..0 = {} /\ 0 \in 0..L
    BY <1>0
  <2>2. h[1..0] = Start(default)
    BY <1>1, <2>1 DEF Iterated
  <2> QED
    BY <2>1, <2>2
<1>4. ASSUME NEW n \in 1..L PROVE g[n] = ReadLine(form, g[n - 1], text[n])
  <2>1. n - 1 \in 0..L /\ n \in 0..L /\ n - 1 \in Nat /\ (n - 1) + 1 = n
    BY <1>0
  <2>0. 1..n \in SUBSET (1..L) /\ n \in 1..n
    BY <1>0
  <2>2. Max(1..n) = n /\ (1..n) \ {n} = 1..(n - 1)
    BY <2>1, MaxOf
  <2>3. h[1..n] = ReadLine(form, h[(1..n) \ {Max(1..n)}], text[Max(1..n)])
    BY <1>1, <2>0 DEF Iterated
  <2> QED
    BY <2>1, <2>2, <2>3
<1>5. Read(form, default, text) = g[L]
  BY <1>0, <1>2
<1> QED
  BY <1>3, <1>4, <1>5 DEF L

(* What the readers accept.                                                  *)

Values == [word : Words, number : Int]
SoundPolicies ==
  [clock_mode : ClockModes, calendar : Words, show_seconds : BOOLEAN, location_configured : BOOLEAN,
   latitude : -MaxLatitude..MaxLatitude, longitude : -MaxLongitude..MaxLongitude]
PoliciesOf(form) ==
  IF form = "1" THEN [clock_profile : Profiles, show_seconds : BOOLEAN] ELSE SoundPolicies

\* The first n lines of a document that have a key.
LinesUpTo(text, n, key) == {i \in 1..n : text[i].status = "entry" /\ text[i].key = key}

\* What a reader knows after n lines.
Known(form, text, n, so_far) ==
  /\ so_far \in [ok : BOOLEAN, seen : SUBSET KeysOf(form), policy : PoliciesOf(form)]
  /\ so_far.ok /\ form = "3" =>
       \A key \in KeysOf("3") :
         IF key \in so_far.seen THEN \E i \in 1..n : LinesUpTo(text, n, key) = {i}
         ELSE LinesUpTo(text, n, key) = {}

LEMMA BoolsAreBoolean == \A w \in DOMAIN Bools : Bools[w] \in BOOLEAN
<1> DEFINE D == {"1", "true", "yes", "0", "false", "no"}
           Yes == {"1", "true", "yes"}
<1>1. DOMAIN Bools = D
  BY DEF Bools
<1>2. ASSUME NEW w \in D PROVE Bools[w] \in BOOLEAN
  <2>1. Bools[w] = (w \in Yes)
    BY Zenon DEF Bools
  <2>2. (w \in Yes) \in BOOLEAN
    OBVIOUS
  <2> QED
    BY <2>1, <2>2, Zenon
<1> QED
  BY <1>1, <1>2

LEMMA WithIsSound ==
  ASSUME NEW form \in {"2", "3"}, NEW policy \in SoundPolicies, NEW key \in KeysOf(form),
         NEW value \in Values, Accepts(form, key, value)
  PROVE  With(policy, key, value) \in SoundPolicies
<1>1. key \in {"version", "clock-mode", "primary-calendar", "calendar", "show-seconds",
               "location-configured", "latitude", "longitude"}
  BY DEF KeysOf, Place
<1>2. value.word \in Words /\ value.number \in Int
  BY DEF Values
<1>3. CASE key = "version"
  BY <1>3 DEF With
<1>4. CASE key = "clock-mode"
  BY <1>4 DEF With, Accepts, SoundPolicies
<1>5. CASE key \in {"calendar", "primary-calendar"}
  BY <1>2, <1>5 DEF With, SoundPolicies
<1>6. CASE key \in {"show-seconds", "location-configured"}
  <2>1. value.word \in DOMAIN Bools
    BY <1>6 DEF Accepts
  <2>2. Bools[value.word] \in BOOLEAN
    BY <2>1, BoolsAreBoolean
  <2> QED
    BY <1>6, <2>2 DEF With, SoundPolicies
<1>7. CASE key = "latitude"
  <2>1. value.number \in -MaxLatitude..MaxLatitude
    BY <1>2, <1>7, DocumentAssumption DEF Accepts, WithinRange
  <2> QED
    BY <1>7, <2>1 DEF With, SoundPolicies
<1>8. CASE key = "longitude"
  <2>1. value.number \in -MaxLongitude..MaxLongitude
    BY <1>2, <1>8, DocumentAssumption DEF Accepts, WithinRange
  <2> QED
    BY <1>8, <2>1 DEF With, SoundPolicies
<1> QED
  BY <1>1, <1>3, <1>4, <1>5, <1>6, <1>7, <1>8

LEMMA ProfileIsSound ==
  ASSUME NEW policy \in PoliciesOf("1"), NEW key \in KeysOf("1"), NEW value \in Values,
         Accepts("1", key, value)
  PROVE  With(policy, key, value) \in PoliciesOf("1")
<1>1. CASE key = "version"
  BY <1>1 DEF With
<1>2. CASE key = "clock-profile"
  BY <1>2 DEF With, Accepts, PoliciesOf
<1>3. CASE key = "show-seconds"
  <2>1. value.word \in DOMAIN Bools
    BY <1>3 DEF Accepts
  <2>2. Bools[value.word] \in BOOLEAN
    BY <2>1, BoolsAreBoolean
  <2> QED
    BY <1>3, <2>2 DEF With, PoliciesOf
<1> QED
  BY <1>1, <1>2, <1>3 DEF KeysOf

LEMMA LineIsKnown ==
  ASSUME NEW form \in Versions, NEW n \in Nat, NEW text, text[n + 1] \in Line,
         NEW so_far, Known(form, text, n, so_far)
  PROVE  Known(form, text, n + 1, ReadLine(form, so_far, text[n + 1]))
<1> DEFINE line == text[n + 1]
           States == [ok : BOOLEAN, seen : SUBSET KeysOf(form), policy : PoliciesOf(form)]
<1>1. so_far \in States /\ line.value \in Values
  BY DEF Known, Line, Values
<1>2. \A key : LinesUpTo(text, n + 1, key) =
        LinesUpTo(text, n, key) \cup (IF line.status = "entry" /\ line.key = key THEN {n + 1} ELSE {})
  BY DEF LinesUpTo
<1>3. CASE ~so_far.ok
  BY <1>3 DEF Known, ReadLine
<1>4. CASE line.status = "ignored"
  <2>1. ReadLine(form, so_far, line) = so_far
    BY <1>4 DEF ReadLine
  <2>2. \A key : LinesUpTo(text, n + 1, key) = LinesUpTo(text, n, key)
    BY <1>2, <1>4
  <2> QED
    BY <2>1, <2>2 DEF Known
<1>5. CASE line.status = "invalid" /\ so_far.ok
  <2>1. ReadLine(form, so_far, line) = [so_far EXCEPT !.ok = FALSE]
    BY <1>5 DEF ReadLine
  <2>2. [so_far EXCEPT !.ok = FALSE] \in States /\ ~[so_far EXCEPT !.ok = FALSE].ok
    BY <1>1
  <2> QED
    BY <2>1, <2>2 DEF Known
<1>6. CASE line.status = "entry" /\ so_far.ok
  <2>1. ReadLine(form, so_far, line) = ReadEntry(form, so_far, line)
    BY <1>6 DEF ReadLine
  <2>2. CASE line.key \notin KeysOf(form)
    <3>1. ReadEntry(form, so_far, line) = so_far
      BY <2>2 DEF ReadEntry
    <3>2. form = "3" => \A key \in KeysOf("3") : LinesUpTo(text, n + 1, key) = LinesUpTo(text, n, key)
      BY <1>2, <2>2
    <3> QED
      BY <2>1, <3>1, <3>2 DEF Known
  <2>3. CASE line.key \in KeysOf(form) /\ ~(Accepts(form, line.key, line.value) /\ MayCome(form, line.key, so_far.seen))
    <3>1. ReadEntry(form, so_far, line) = [so_far EXCEPT !.ok = FALSE]
      BY <2>3 DEF ReadEntry
    <3>2. [so_far EXCEPT !.ok = FALSE] \in States /\ ~[so_far EXCEPT !.ok = FALSE].ok
      BY <1>1
    <3> QED
      BY <2>1, <3>1, <3>2 DEF Known
  <2>4. CASE line.key \in KeysOf(form) /\ Accepts(form, line.key, line.value) /\ MayCome(form, line.key, so_far.seen)
    <3> DEFINE next == [ok |-> TRUE, seen |-> so_far.seen \cup {line.key},
                        policy |-> With(so_far.policy, line.key, line.value)]
    <3>1. ReadEntry(form, so_far, line) = next
      BY <2>4 DEF ReadEntry
    <3>2. With(so_far.policy, line.key, line.value) \in PoliciesOf(form)
      <4>1. so_far.policy \in PoliciesOf(form)
        BY <1>1
      <4>2. CASE form = "1"
        BY <1>1, <2>4, <4>1, <4>2, ProfileIsSound
      <4>3. CASE form \in {"2", "3"}
        <5>1. PoliciesOf(form) = SoundPolicies
          BY <4>3 DEF PoliciesOf
        <5> QED
          BY <1>1, <2>4, <4>1, <4>3, <5>1, WithIsSound
      <4> QED
        BY <4>2, <4>3 DEF Versions
    <3>3. next \in States
      BY <1>1, <2>4, <3>2
    <3>4. ASSUME form = "3", NEW key \in KeysOf("3")
          PROVE  IF key \in next.seen THEN \E i \in 1..(n + 1) : LinesUpTo(text, n + 1, key) = {i}
                 ELSE LinesUpTo(text, n + 1, key) = {}
      <4>1. IF key \in so_far.seen THEN \E i \in 1..n : LinesUpTo(text, n, key) = {i}
            ELSE LinesUpTo(text, n, key) = {}
        BY <1>6, <3>4 DEF Known
      <4>2. line.key \notin so_far.seen
        BY <2>4, <3>4 DEF MayCome
      <4>3. CASE key = line.key
        <5>1. LinesUpTo(text, n + 1, key) = {n + 1} /\ n + 1 \in 1..(n + 1)
          BY <1>2, <1>6, <4>1, <4>2, <4>3
        <5> QED
          BY <4>3, <5>1
      <4>4. CASE key # line.key
        <5>1. LinesUpTo(text, n + 1, key) = LinesUpTo(text, n, key)
          BY <1>2, <4>4
        <5>2. 1..n \subseteq 1..(n + 1)
          OBVIOUS
        <5> QED
          BY <4>1, <4>4, <5>1, <5>2
      <4> QED
        BY <4>3, <4>4
    <3> HIDE DEF next
    <3> QED
      BY <2>1, <3>1, <3>3, <3>4 DEF Known
  <2> QED
    BY <2>2, <2>3, <2>4
<1> QED
  BY <1>3, <1>4, <1>5, <1>6 DEF Line

LEMMA ReadIsKnown ==
  ASSUME NEW form \in Versions, NEW default \in PoliciesOf(form), NEW text \in Seq(Line)
  PROVE  Known(form, text, Len(text), Read(form, default, text))
<1> DEFINE L == Len(text)
<1>1. L \in Nat /\ DOMAIN text = 1..L /\ \A n \in 1..L : text[n] \in Line
  OBVIOUS
<1>2. PICK g : /\ g[0] = Start(default)
               /\ \A n \in 1..L : g[n] = ReadLine(form, g[n - 1], text[n])
               /\ Read(form, default, text) = g[L]
  BY ReadIsIterated, Zenon
<1> HIDE DEF L
<1> DEFINE T == {n \in Nat : n <= L => Known(form, text, n, g[n])}
<1>3. 0 \in T
  <2>1. \A key : LinesUpTo(text, 0, key) = {}
    BY DEF LinesUpTo
  <2>2. Start(default) \in [ok : BOOLEAN, seen : SUBSET KeysOf(form), policy : PoliciesOf(form)]
        /\ Start(default).seen = {}
    BY DEF Start
  <2> QED
    BY <1>2, <2>1, <2>2 DEF Known
<1>4. ASSUME NEW n \in Nat, n \in T PROVE n + 1 \in T
  <2>1. SUFFICES ASSUME n + 1 <= L PROVE Known(form, text, n + 1, g[n + 1])
    OBVIOUS
  <2>2. n + 1 \in 1..L /\ (n + 1) - 1 = n /\ n <= L
    BY <1>1, <2>1
  <2>3. g[n + 1] = ReadLine(form, g[n], text[n + 1])
    BY <1>2, <2>2
  <2>4. Known(form, text, n, g[n])
    BY <1>4, <2>2
  <2> QED
    BY <1>1, <2>2, <2>3, <2>4, LineIsKnown
<1>5. Nat \subseteq T
  <2> HIDE DEF T
  <2> QED
    BY <1>3, <1>4, SetInduction
<1> QED
  BY <1>1, <1>2, <1>5 DEF L

\* What is accepted is within range; of version 3, every field once.
LEMMA ParseIsSound ==
  ASSUME NEW text \in Seq(Line), Parse(text).ok
  PROVE  /\ Parse(text).policy \in SoundPolicies
         /\ DocumentVersion(text) = "3" => OneLineEach(text, KeysOf("3"))
<1>1. DefaultV3 \in SoundPolicies /\ DefaultV1 \in PoliciesOf("1")
  BY DocumentAssumption DEF DefaultV3, DefaultV1, SoundPolicies, PoliciesOf, Profiles
<1>2. CASE DocumentVersion(text) = "1"
  <2> DEFINE read == Read("1", DefaultV1, text)
  <2>1. Known("1", text, Len(text), read)
    BY <1>1, ReadIsKnown DEF Versions
  <2>2. Parse(text) = MigrateV1(text)
    BY <1>2 DEF Parse
  <2> HIDE DEF read
  <2>3. read.policy.clock_profile \in Profiles /\ read.policy.show_seconds \in BOOLEAN
    BY <2>1 DEF Known, PoliciesOf
  <2>4. ModeOf(read.policy.clock_profile) \in ClockModes
    BY <2>3, DocumentAssumption DEF ModeOf, Profiles
  <2>5. Parse(text).policy = [DefaultV3 EXCEPT !.clock_mode = ModeOf(read.policy.clock_profile),
                                               !.show_seconds = read.policy.show_seconds]
    BY <2>2 DEF MigrateV1, Accepted, Refused, read
  <2> QED
    BY <1>1, <1>2, <2>3, <2>4, <2>5 DEF SoundPolicies
<1>3. CASE DocumentVersion(text) = "2"
  <2> DEFINE read == Read("2", DefaultV3, text)
  <2>1. Known("2", text, Len(text), read)
    BY <1>1, ReadIsKnown DEF Versions, PoliciesOf
  <2>2. Parse(text).policy = read.policy
    BY <1>3 DEF Parse, MigrateV2, Accepted, Refused
  <2> HIDE DEF read
  <2> QED
    BY <1>3, <2>1, <2>2 DEF Known, PoliciesOf
<1>4. CASE DocumentVersion(text) = "3"
  <2> DEFINE read == Read("3", DefaultV3, text)
  <2>1. Known("3", text, Len(text), read)
    BY <1>1, ReadIsKnown DEF Versions, PoliciesOf
  <2>2. Parse(text).policy = read.policy /\ read.ok /\ read.seen = KeysOf("3")
    BY <1>4 DEF Parse, ParseV3, Accepted, Refused
  <2> HIDE DEF read
  <2>3. \A key \in KeysOf("3") : LinesFor(text, key) = LinesUpTo(text, Len(text), key)
    BY DEF LinesFor, LinesUpTo
  <2>4. OneLineEach(text, KeysOf("3"))
    <3>1. \A key \in KeysOf("3") : \E i \in 1..Len(text) : LinesUpTo(text, Len(text), key) = {i}
      BY <2>1, <2>2 DEF Known
    <3>2. DOMAIN text = 1..Len(text)
      OBVIOUS
    <3> QED
      BY <2>3, <3>1, <3>2, Zenon DEF OneLineEach
  <2> QED
    BY <2>1, <2>2, <2>4 DEF Known, PoliciesOf
<1> QED
  BY <1>2, <1>3, <1>4 DEF Parse, Refused

(* What is written.                                                          *)

LEMMA PrintedIsNumber == ASSUME NEW x \in Int PROVE Printed(x) \in Values
<1>1. (IF x < 0 THEN -x ELSE x) \in Nat /\ Fine \in Nat /\ 2 * Fine \in Nat \ {0}
  BY DocumentAssumption
<1>2. \A p \in Nat, d \in Nat \ {0} : p \div d \in Nat
  OBVIOUS
<1>3. ((2 * (IF x < 0 THEN -x ELSE x) + Fine) \div (2 * Fine)) * Fine \in Int
  BY <1>1, <1>2
<1> HIDE DEF Values
<1> QED
  BY <1>3, DocumentAssumption DEF Printed, Number, Values

LEMMA SerializeIsText ==
  ASSUME NEW p \in Policy, Storable(p)
  PROVE  Serialize(p) \in Seq(Line)
<1>1. p.calendar \in Words /\ p.clock_mode \in Words /\ p.latitude \in Int /\ p.longitude \in Int
  BY DocumentAssumption DEF Policy, Storable
<1>2. \A key \in KeysOf("3"), value \in Values : Entry(key, value) \in Line
  <2>1. ASSUME NEW key \in Keys, NEW value \in Values PROVE Entry(key, value) \in Line
    BY DEF Entry, Line, Values
  <2>2. KeysOf("3") \subseteq Keys
    BY DEF Keys, Versions
  <2> QED
    BY <2>1, <2>2
<1>8. {"version", "clock-mode", "calendar", "show-seconds", "location-configured", "latitude", "longitude"}
        \subseteq KeysOf("3")
  BY DEF KeysOf, Place
<1>3. \A w \in Words : Word(w) \in Values
  BY DEF Word, Values
<1>4. \A b : BoolWord(b) \in Values
  BY <1>3, DocumentAssumption DEF BoolWord
<1>5. Printed(p.latitude) \in Values /\ Printed(p.longitude) \in Values
  BY <1>1, PrintedIsNumber
<1>6. Word("3") \in Values
  BY <1>3, DocumentAssumption DEF Versions
<1>7. /\ Entry("version", Word("3")) \in Line
      /\ Entry("clock-mode", Word(p.clock_mode)) \in Line
      /\ Entry("calendar", Word(p.calendar)) \in Line
      /\ Entry("show-seconds", BoolWord(p.show_seconds)) \in Line
      /\ Entry("location-configured", BoolWord(p.location_configured)) \in Line
      /\ Entry("latitude", Printed(p.latitude)) \in Line
      /\ Entry("longitude", Printed(p.longitude)) \in Line
  BY <1>1, <1>2, <1>3, <1>4, <1>5, <1>6, <1>8, Zenon
<1> QED
  BY <1>7 DEF Serialize

LEMMA EditedIsText ==
  ASSUME NEW text \in Seq(Line), NEW t \in Edited(text)
  PROVE  t \in Seq(Line)
<1>1. ASSUME NEW l \in Lines, t = Append(text, l) PROVE t \in Seq(Line)
  BY <1>1, DataAssumption
<1>2. ASSUME NEW i \in DOMAIN text, NEW l \in Lines, t = ReplaceAt(text, i, l) PROVE t \in Seq(Line)
  BY <1>2, DataAssumption DEF ReplaceAt
<1>3. ASSUME NEW i \in DOMAIN text, t = RemoveAt(text, i) PROVE t \in Seq(Line)
  BY <1>3 DEF RemoveAt
<1> QED
  BY <1>1, <1>2, <1>3 DEF Edited

(* What is loaded.                                                           *)

\* What is installed is not written again, and what was returned is what the
\* version that was read holds.
ContentIsKept ==
  /\ content \in [Held -> [state : FileStates, text : Seq(Line)]]
  /\ \A c \in Saves \cap Installed : c \in storing
  /\ \A e \in Edits \cap Installed : replaced[e] # {}
  /\ reading # NoReading => reading.version \in Installed

LoadedIs ==
  IF loaded.result \in {"none", "error"} THEN loaded.found = FALSE /\ loaded.policy = DefaultV3
  ELSE LET l == Load(content[loaded.version])
       IN  /\ loaded.version \in Installed
           /\ loaded.result = l.result /\ loaded.found = l.found /\ loaded.policy = l.policy

LoadInv == StoreInv /\ ContentIsKept /\ LoadedIs

LEMMA InstalledIsHeld == StoreTypes => Installed \subseteq Held
BY DEF StoreTypes, Installed

LEMMA LoadedStays ==
  ASSUME LoadedIs, loaded' = loaded, Installed \subseteq Installed',
         \A v \in Installed : content'[v] = content[v]
  PROVE  LoadedIs'
<1>1. CASE loaded.result \in {"none", "error"}
  BY <1>1 DEF LoadedIs
<1>2. CASE loaded.result \notin {"none", "error"}
  <2>1. loaded.version \in Installed /\ loaded.version \in Installed'
    BY <1>2 DEF LoadedIs
  <2>2. content'[loaded'.version] = content[loaded.version]
    BY <2>1
  <2>3. Load(content[loaded.version])' = Load(content[loaded.version])
    BY <2>2
  <2> QED
    BY <1>2, <2>1, <2>3 DEF LoadedIs
<1> QED
  BY <1>1, <1>2

LEMMA LoadResults ==
  ASSUME NEW f \in [state : FileStates, text : Seq(Line)]
  PROVE  /\ Load(f).result \in {"ok", "empty", "truncated", "invalid"}
         /\ IF Load(f).found THEN /\ f.state = "text" /\ Parse(f.text).ok /\ Load(f).result = "ok"
                                  /\ Load(f).policy = Parse(f.text).policy
            ELSE Load(f).policy = DefaultV3
<1>1. f.state \in FileStates
  OBVIOUS
<1>2. CASE f.state = "text" /\ Parse(f.text).ok
  <2>1. Load(f) = [result |-> "ok", found |-> TRUE, policy |-> Parse(f.text).policy]
    BY <1>2 DEF Load
  <2> QED
    BY <1>2, <2>1
<1>3. CASE f.state # "text" \/ ~Parse(f.text).ok
  <2>1. \E r \in {"ok", "empty", "truncated", "invalid"} :
          Load(f) = [result |-> r, found |-> FALSE, policy |-> DefaultV3]
    BY <1>1, <1>3 DEF Load, FileStates
  <2> QED
    BY <2>1
<1> QED
  BY <1>2, <1>3

LEMMA InitOfLoad == Init => LoadInv
<1> SUFFICES ASSUME Init PROVE LoadInv
  OBVIOUS
<1>1. StoreInv
  BY InitOfStore
<1>2. PICK o \in Originals :
        content = [v \in Calls \cup {Original} |-> IF v = Original THEN o.file ELSE Unread]
  BY DEF Init
<1>3. Unread \in [state : FileStates, text : Seq(Line)]
  BY DEF Unread, FileStates
<1>4. Installed = {Original} /\ reading = NoReading /\ loaded = NotLoaded
  BY DEF Init, Installed
<1>5. o.file \in [state : FileStates, text : Seq(Line)]
  BY DataAssumption
<1>6. content \in [Held -> [state : FileStates, text : Seq(Line)]]
  BY <1>2, <1>3, <1>5 DEF Held
<1>7. ContentIsKept
  BY <1>4, <1>6, CallsAreOthers DEF ContentIsKept
<1>8. LoadedIs
  BY <1>4 DEF LoadedIs, NotLoaded
<1> QED
  BY <1>1, <1>7, <1>8 DEF LoadInv

\* A step that installs, reads and writes nothing.
LEMMA NothingIsRead ==
  ASSUME LoadInv, StoreInv', installs' = installs, content' = content, storing' = storing,
         replaced' = replaced, reading' = reading \/ reading' = NoReading, loaded' = loaded
  PROVE  LoadInv'
<1>1. Installed' = Installed
  BY HistoryStays
<1>2. ContentIsKept'
  BY <1>1 DEF LoadInv, ContentIsKept, NoReading
<1>3. LoadedIs'
  BY <1>1, LoadedStays DEF LoadInv
<1> QED
  BY <1>2, <1>3 DEF LoadInv

LEMMA SerialiseKeepsLoad ==
  ASSUME LoadInv, StoreInv', NEW c \in Saves, Serialise(c)
  PROVE  LoadInv'
<1>1. /\ installs' = installs /\ reading' = reading /\ loaded' = loaded /\ replaced' = replaced
  BY DEF Serialise, File!Fail, file
<1>2. CASE UNCHANGED <<content, chosen, storing>>
  BY <1>1, <1>2, NothingIsRead
<1>3. ASSUME NEW p \in Policies, Storable(p), storing' = storing \cup {c},
             content' = [content EXCEPT ![c] = [state |-> "text", text |-> Serialize(p)]]
      PROVE  LoadInv'
  <2>1. Installed' = Installed /\ Installed \subseteq Held
    BY <1>1, HistoryStays, InstalledIsHeld DEF LoadInv, StoreInv
  <2>2. c \notin Installed
    BY DEF LoadInv, ContentIsKept, Serialise
  <2>3. \A v \in Installed : content'[v] = content[v]
    BY <1>3, <2>1, <2>2 DEF LoadInv, ContentIsKept
  <2>4. LoadedIs'
    BY <1>1, <2>1, <2>3, LoadedStays DEF LoadInv
  <2>5. [state |-> "text", text |-> Serialize(p)] \in [state : FileStates, text : Seq(Line)]
    BY <1>3, SerializeIsText, DataAssumption DEF FileStates
  <2>6. ContentIsKept'
    BY <1>1, <1>3, <2>1, <2>5 DEF LoadInv, ContentIsKept
  <2> QED
    BY <2>4, <2>6 DEF LoadInv
<1> QED
  BY <1>2, <1>3 DEF Serialise

LEMMA InstallKeepsLoad ==
  ASSUME LoadInv, StoreInv', NEW c \in Calls, File!Install(c, Home), installs' = Append(installs, c),
         c \in Saves => c \in storing, storing' = storing, reading' = reading, loaded' = loaded,
         content' \in [Held -> [state : FileStates, text : Seq(Line)]],
         \A v \in Installed : content'[v] = content[v]
  PROVE  LoadInv'
<1>1. Installed' = Installed \cup {c}
  BY HistoryGrows DEF LoadInv, StoreInv
<1>2. LoadedIs'
  BY <1>1, LoadedStays DEF LoadInv
<1>3. StoreTypes /\ ContentIsKept
  BY DEF LoadInv, StoreInv
<1>4. replaced' = [replaced EXCEPT ![c] = {Home} \X (undoable[Home] \cup {current[Home]})]
  BY DEF File!Install
<1>5. replaced'[c] # {} /\ \A d \in Calls : d # c => replaced'[d] = replaced[d]
  <2>1. <<Home, current[Home]>> \in {Home} \X (undoable[Home] \cup {current[Home]})
    OBVIOUS
  <2>2. replaced'[c] = {Home} \X (undoable[Home] \cup {current[Home]})
    BY <1>3, <1>4 DEF StoreTypes
  <2>3. replaced'[c] # {}
    BY <2>1, <2>2
  <2>4. \A d \in Calls : d # c => replaced'[d] = replaced[d]
    BY <1>3, <1>4 DEF StoreTypes
  <2> QED
    BY <2>3, <2>4
<1>6. ContentIsKept'
  BY <1>1, <1>3, <1>5, CallsAreOthers DEF ContentIsKept
<1> QED
  BY <1>2, <1>6 DEF LoadInv

LEMMA EditKeepsLoad ==
  ASSUME LoadInv, StoreInv', NEW e \in Edits, Edit(e)
  PROVE  LoadInv'
<1> DEFINE File0 == [state : FileStates, text : Seq(Line)]
<1>1. /\ File!Install(e, Home) /\ installs' = Append(installs, e) /\ replaced[e] = {}
      /\ storing' = storing /\ reading' = reading /\ loaded' = loaded
  BY DEF Edit
<1>2. ContentIsKept /\ StoreTypes
  BY DEF LoadInv, StoreInv
<1>3. e \notin Installed /\ Installed \subseteq Held /\ e \notin Saves /\ e \in Calls
  BY <1>1, <1>2, CallsAreOthers, InstalledIsHeld DEF ContentIsKept
<1>4. \E f \in File0 : content' = [content EXCEPT ![e] = f]
  <2>1. ASSUME NEW t \in Edited(content[current[Home]].text),
               content' = [content EXCEPT ![e] = [state |-> "text", text |-> t]]
        PROVE  \E f \in File0 : content' = [content EXCEPT ![e] = f]
    <3>1. content[current[Home]].text \in Seq(Line)
      BY <1>2 DEF ContentIsKept, StoreTypes
    <3>2. t \in Seq(Line)
      BY <2>1, <3>1, EditedIsText
    <3> QED
      BY <2>1, <3>2 DEF FileStates
  <2>2. ASSUME NEW s \in FileStates, content' = [content EXCEPT ![e] = [state |-> s, text |-> <<>>]]
        PROVE  \E f \in File0 : content' = [content EXCEPT ![e] = f]
    <3>1. [state |-> s, text |-> <<>>] \in File0
      OBVIOUS
    <3> QED
      BY <2>2, <3>1
  <2> QED
    BY <2>1, <2>2 DEF Edit
<1>5. /\ content' \in [Held -> File0]
      /\ \A v \in Installed : content'[v] = content[v]
  BY <1>2, <1>3, <1>4 DEF ContentIsKept
<1> QED
  BY <1>1, <1>3, <1>5, InstallKeepsLoad

LEMMA OpenKeepsLoad ==
  ASSUME LoadInv, StoreInv', Open
  PROVE  LoadInv'
<1>1. /\ reading'.version = current[Home] /\ loaded' = NotLoaded /\ UNCHANGED file
      /\ content' = content /\ storing' = storing /\ installs' = installs
  BY DEF Open
<1>2. current[Home] \in Installed /\ Installed' = Installed
  BY <1>1, HistoryStays DEF LoadInv, StoreInv, HistoryIsKept, Possible
<1>3. ContentIsKept'
  BY <1>1, <1>2 DEF LoadInv, ContentIsKept, file
<1>4. LoadedIs'
  BY <1>1 DEF LoadedIs, NotLoaded
<1> QED
  BY <1>3, <1>4 DEF LoadInv

LEMMA ReturnKeepsLoad ==
  ASSUME LoadInv, StoreInv', Return
  PROVE  LoadInv'
<1>1. /\ reading # NoReading /\ reading' = NoReading /\ UNCHANGED file
      /\ content' = content /\ storing' = storing /\ installs' = installs
  BY DEF Return
<1>2. PICK l \in {Load(content[reading.version]), [result |-> "error", found |-> FALSE, policy |-> DefaultV3]} :
        loaded' = [result |-> l.result, found |-> l.found, policy |-> l.policy,
                   version |-> reading.version, known |-> reading.known]
  BY DEF Return
<1>3. ContentIsKept /\ reading.version \in Installed /\ Installed' = Installed /\ Installed \subseteq Held
  BY <1>1, HistoryStays, InstalledIsHeld DEF LoadInv, StoreInv, ContentIsKept
<1>4. ContentIsKept'
  BY <1>1, <1>3 DEF ContentIsKept, file
<1>5. LoadedIs'
  <2>1. CASE l = Load(content[reading.version])
    <3>1. content[reading.version] \in [state : FileStates, text : Seq(Line)]
      BY <1>3 DEF ContentIsKept
    <3>2. l.result \in {"ok", "empty", "truncated", "invalid"}
      BY <2>1, <3>1, LoadResults
    <3>3. loaded'.result = l.result /\ loaded'.found = l.found /\ loaded'.policy = l.policy
          /\ loaded'.version = reading.version
      BY <1>2
    <3>4. Load(content[loaded.version])' = l
      BY <1>1, <2>1, <3>3 DEF Load
    <3> QED
      BY <1>3, <3>2, <3>3, <3>4 DEF LoadedIs
  <2>2. CASE l = [result |-> "error", found |-> FALSE, policy |-> DefaultV3]
    BY <1>2, <2>2 DEF LoadedIs
  <2> QED
    BY <1>2, <2>1, <2>2
<1> QED
  BY <1>4, <1>5 DEF LoadInv

LEMMA LoadKeeps == LoadInv /\ [Next]_vars => LoadInv'
<1> SUFFICES ASSUME LoadInv, [Next]_vars PROVE LoadInv'
  OBVIOUS
<1>1. StoreInv'
  BY StoreKeeps DEF LoadInv
<1>2. ASSUME NEW c \in Saves, Serialise(c) PROVE LoadInv'
  BY <1>1, <1>2, SerialiseKeepsLoad
<1>3. ASSUME NEW c \in Saves, MakeDirectory(c) PROVE LoadInv'
  BY <1>1, <1>3, NothingIsRead DEF MakeDirectory, file
<1>4. ASSUME NEW c \in Saves, Store(c) PROVE LoadInv'
  <2>1. content' \in [Held -> [state : FileStates, text : Seq(Line)]]
    BY <1>4 DEF Store, LoadInv, ContentIsKept
  <2> QED
    BY <1>1, <1>4, <2>1, InstallKeepsLoad, CallsAreOthers DEF Store
<1>5. ASSUME NEW c \in Saves, EndSave(c) PROVE LoadInv'
  BY <1>1, <1>5, NothingIsRead DEF EndSave, Succeeds, File!Succeed, File!Fail
<1>6. CASE Persist
  BY <1>1, <1>6, NothingIsRead DEF Persist, File!Persist
<1>7. CASE PersistDirectory
  BY <1>1, <1>7, NothingIsRead DEF PersistDirectory, file
<1>8. CASE Open
  BY <1>1, <1>8, OpenKeepsLoad
<1>9. CASE Return
  BY <1>1, <1>9, ReturnKeepsLoad
<1>10. ASSUME NEW e \in Edits, Edit(e) PROVE LoadInv'
  BY <1>1, <1>10, EditKeepsLoad
<1>11. CASE PowerLoss
  BY <1>1, <1>11, NothingIsRead DEF PowerLoss, File!PowerLoss
<1>12. CASE LoseDirectory
  BY <1>1, <1>12, NothingIsRead DEF LoseDirectory
<1>13. CASE UNCHANGED vars
  BY <1>1, <1>13, NothingIsRead DEF vars
<1> QED
  BY <1>2, <1>3, <1>4, <1>5, <1>6, <1>7, <1>8, <1>9, <1>10, <1>11, <1>12, <1>13 DEF Next

\* A load that has returned still holds what the reader made of the version that
\* it had opened.
THEOREM LoadsAreKept == Spec => []LoadInv
<1>1. Init => LoadInv
  BY InitOfLoad
<1>2. LoadInv /\ [Next]_vars => LoadInv'
  BY LoadKeeps
<1> QED
  BY <1>1, <1>2, PTL DEF Spec

\* Whatever documents were saved or edited, and whichever version of them a load
\* read: what it found is within range, and of version 3 complete and unambiguous.
THEOREM WhatIsFoundIsSound == Spec => []FoundIsSound
<1>1. LoadInv => FoundIsSound
  <2> SUFFICES ASSUME LoadInv PROVE FoundIsSound
    OBVIOUS
  <2>1. CASE loaded.result \in {"none", "error"}
    BY <2>1 DEF LoadInv, LoadedIs, FoundIsSound
  <2>2. CASE loaded.result \notin {"none", "error"}
    <3> DEFINE f == content[loaded.version]
    <3>1. f \in [state : FileStates, text : Seq(Line)]
      BY <2>2, InstalledIsHeld DEF LoadInv, StoreInv, LoadedIs, ContentIsKept
    <3>2. loaded.result = Load(f).result /\ loaded.found = Load(f).found /\ loaded.policy = Load(f).policy
      BY <2>2 DEF LoadInv, LoadedIs
    <3>3. f.text \in Seq(Line)
      BY <3>1
    <3> HIDE DEF f
    <3>4. CASE Load(f).found
      <4>1. Parse(f.text).ok /\ loaded.policy = Parse(f.text).policy /\ loaded.result = "ok"
        BY <3>1, <3>2, <3>4, LoadResults
      <4>2. /\ loaded.policy \in SoundPolicies
            /\ DocumentVersion(f.text) = "3" => OneLineEach(f.text, KeysOf("3"))
        BY <3>3, <4>1, ParseIsSound
      <4> QED
        BY <3>2, <3>4, <4>1, <4>2 DEF FoundIsSound, SoundPolicies, f
    <3>5. CASE ~Load(f).found
      BY <3>1, <3>2, <3>5, LoadResults DEF FoundIsSound
    <3> QED
      BY <3>4, <3>5
  <2> QED
    BY <2>1, <2>2
<1> QED
  BY <1>1, LoadsAreKept, PTL

(* What is written is read again.                                            *)

LEMMA DivModIs ==
  ASSUME NEW p \in Nat, NEW d \in Nat, d # 0
  PROVE  p \div d \in Nat /\ p % d \in Nat /\ p = (p \div d) * d + (p % d) /\ p % d < d
<1>1. p \div d \in Nat /\ p % d \in Nat /\ p % d < d
  OBVIOUS
<1>2. p = (p \div d) * d + (p % d)
  OBVIOUS
<1> QED
  BY <1>1, <1>2

LEMMA DivModUnique ==
  ASSUME NEW q \in Nat, NEW r \in Nat, NEW d \in Nat, r < d
  PROVE  (q * d + r) \div d = q
OBVIOUS

Half(m) == (2 * m + Fine) \div (2 * Fine)

\* Rounded half up to a multiple of Fine: not far, and not beyond one.
LEMMA HalfIs ==
  ASSUME NEW m \in Nat
  PROVE  /\ Half(m) \in Nat /\ Half(m) * Fine \in Nat
         /\ 2 * (Half(m) * Fine) <= 2 * m + Fine /\ 2 * m <= 2 * (Half(m) * Fine) + Fine
         /\ Half(Half(m) * Fine) = Half(m)
         /\ \A bound \in Nat : bound % Fine = 0 /\ m <= bound => Half(m) * Fine <= bound
<1> DEFINE k == Half(m)
<1>1. Fine \in Nat /\ Fine # 0 /\ 2 * Fine \in Nat /\ 2 * Fine # 0 /\ 2 * m + Fine \in Nat
  BY DocumentAssumption
<1>2. PICK r \in Nat : k \in Nat /\ 2 * m + Fine = k * (2 * Fine) + r /\ r < 2 * Fine
  BY <1>1, DivModIs DEF Half
<1> HIDE DEF k
<1>3. k * (2 * Fine) = 2 * (k * Fine) /\ k * Fine \in Nat
  BY <1>1, <1>2
<1>4. 2 * (k * Fine) <= 2 * m + Fine /\ 2 * m <= 2 * (k * Fine) + Fine
  BY <1>1, <1>2, <1>3
<1>5. Half(k * Fine) = k
  <2>1. (k * (2 * Fine) + Fine) \div (2 * Fine) = k
    BY <1>1, <1>2, DivModUnique
  <2> QED
    BY <1>3, <2>1 DEF Half
<1>6. ASSUME NEW bound \in Nat, bound % Fine = 0, m <= bound PROVE k * Fine <= bound
  <2>1. PICK b \in Nat : bound = b * Fine
    <3>1. bound \div Fine \in Nat /\ bound = (bound \div Fine) * Fine + (bound % Fine)
      BY <1>1, DivModIs
    <3> QED
      BY <1>1, <1>6, <3>1
  <2>2. SUFFICES ASSUME k >= b + 1 PROVE FALSE
    <3>1. CASE k <= b
      BY <1>1, <1>2, <2>1, <3>1
    <3> QED
      BY <1>2, <2>2, <3>1
  <2>3. k * Fine >= (b + 1) * Fine
    BY <1>1, <1>2, <2>2
  <2>4. (b + 1) * Fine = bound + Fine
    BY <1>1, <2>1
  <2> QED
    BY <1>1, <1>3, <1>4, <1>6, <2>3, <2>4
<1> QED
  BY <1>2, <1>3, <1>4, <1>5, <1>6 DEF k

\* A printed coordinate is the nearest one that can be printed, within range, and
\* printing does not move it again.
LEMMA PrintedIsNear ==
  ASSUME NEW x \in Int, NEW bound \in Nat, bound % Fine = 0, WithinRange(x, bound)
  PROVE  /\ Printed(x) \in Values /\ Printed(x).word = "number" /\ Printed(x).number \in Int
         /\ WithinRange(Printed(x).number, bound)
         /\ 2 * Distance(Printed(x).number, x) <= Fine
         /\ Printed(Printed(x).number) = Printed(x)
<1> DEFINE m == IF x < 0 THEN -x ELSE x
           r == Half(m) * Fine
           y == IF x < 0 THEN -r ELSE r
<1>1. m \in Nat /\ m <= bound
  BY DEF WithinRange
<1> HIDE DEF m
<1>2. /\ r \in Nat /\ 2 * r <= 2 * m + Fine /\ 2 * m <= 2 * r + Fine /\ r <= bound
      /\ Half(r) * Fine = r
  BY <1>1, HalfIs
<1>3. Printed(x) = Number(y)
  BY DEF Printed, Half, m
<1> HIDE DEF r
<1>4. Printed(x) \in Values /\ Printed(x).word = "number" /\ Printed(x).number = y /\ y \in Int
  <2>1. y \in Int
    BY <1>2
  <2> QED
    BY <1>3, <2>1, PrintedIsNumber DEF Number
<1>5. WithinRange(y, bound)
  BY <1>2 DEF WithinRange
<1>6. 2 * Distance(y, x) <= Fine
  <2>1. Fine \in Nat
    BY DocumentAssumption
  <2> QED
    BY <1>1, <1>2, <2>1 DEF Distance, m
<1>7. Printed(y) = Number(y)
  <2>1. (IF y < 0 THEN -y ELSE y) = r
    BY <1>2
  <2>2. (IF y < 0 THEN -r ELSE r) = y
    BY <1>2
  <2> HIDE DEF y
  <2> QED
    BY <1>2, <2>1, <2>2 DEF Printed, Half
<1> QED
  BY <1>3, <1>4, <1>5, <1>6, <1>7

\* What a policy is after it was stored.
Stored(p) == [p EXCEPT !.latitude = Printed(p.latitude).number, !.longitude = Printed(p.longitude).number]

LEMMA EntryIsRead ==
  ASSUME NEW form \in Versions, NEW seen, NEW policy, NEW key \in KeysOf(form) \ seen, NEW value,
         Accepts(form, key, value)
  PROVE  ReadLine(form, [ok |-> TRUE, seen |-> seen, policy |-> policy], Entry(key, value))
           = [ok |-> TRUE, seen |-> seen \cup {key}, policy |-> With(policy, key, value)]
BY DEF ReadLine, ReadEntry, MayCome, Entry

LEMMA BoolIsRead ==
  ASSUME NEW b \in BOOLEAN
  PROVE  BoolWord(b).word \in DOMAIN Bools /\ Bools[BoolWord(b).word] = b
<1>1. CASE b = TRUE
  BY <1>1 DEF BoolWord, Word, Bools
<1>2. CASE b = FALSE
  BY <1>2 DEF BoolWord, Word, Bools
<1> QED
  BY <1>1, <1>2

LEMMA FirstVersion ==
  ASSUME NEW text \in Seq(Line), text # <<>>, NEW w, text[1] = Entry("version", Word(w))
  PROVE  DocumentVersion(text) = w
<1> DEFINE stops == {i \in DOMAIN text :
                       text[i].status = "invalid" \/ (text[i].status = "entry" /\ text[i].key = "version")}
<1>1. 1 \in stops /\ stops \subseteq Nat /\ \A i \in stops : 1 <= i
  BY DEF Entry
<1> HIDE DEF stops
<1>2. Min(stops) \in stops /\ \A i \in stops : Min(stops) <= i
  BY <1>1, Zenon DEF Min
<1>3. Min(stops) = 1
  <2>1. Min(stops) \in Nat /\ 1 <= Min(stops) /\ Min(stops) <= 1
    BY <1>1, <1>2, Zenon
  <2> QED
    BY <2>1
<1>4. text[Min(stops)].status = "entry" /\ text[Min(stops)].value.word = w
  BY <1>3 DEF Entry, Word
<1> QED
  BY <1>1, <1>4 DEF DocumentVersion, stops

\* A policy that may be saved is read as it was stored.
LEMMA SavedIsRead ==
  ASSUME NEW p \in Policy, Storable(p)
  PROVE  Parse(Serialize(p)) = Accepted(Stored(p))
<1> DEFINE text == Serialize(p)
           x == Printed(p.latitude)
           y == Printed(p.longitude)
           Soaked(seen, policy) == [ok |-> TRUE, seen |-> seen, policy |-> policy]
           p1 == With(DefaultV3, "version", Word("3"))
           p2 == With(p1, "clock-mode", Word(p.clock_mode))
           p3 == With(p2, "calendar", Word(p.calendar))
           p4 == With(p3, "show-seconds", BoolWord(p.show_seconds))
           p5 == With(p4, "location-configured", BoolWord(p.location_configured))
           p6 == With(p5, "latitude", x)
           p7 == With(p6, "longitude", y)
           s1 == {} \cup {"version"}
           s2 == s1 \cup {"clock-mode"}
           s3 == s2 \cup {"calendar"}
           s4 == s3 \cup {"show-seconds"}
           s5 == s4 \cup {"location-configured"}
           s6 == s5 \cup {"latitude"}
           s7 == s6 \cup {"longitude"}
<1>1. /\ p.clock_mode \in ClockModes /\ IdValid(p.calendar)
      /\ p.show_seconds \in BOOLEAN /\ p.location_configured \in BOOLEAN
  BY DEF Policy, Storable
<1>2. /\ x.word = "number" /\ WithinRange(x.number, MaxLatitude)
      /\ y.word = "number" /\ WithinRange(y.number, MaxLongitude)
  BY PrintedIsNear, DocumentAssumption DEF Policy, Storable
<1>3. text \in Seq(Line) /\ Len(text) = 7
  BY SerializeIsText DEF Serialize
<1>4. PICK g : /\ g[0] = Start(DefaultV3)
               /\ \A n \in 1..Len(text) : g[n] = ReadLine("3", g[n - 1], text[n])
               /\ Read("3", DefaultV3, text) = g[Len(text)]
  <2> HIDE DEF text
  <2> QED
    BY <1>3, ReadIsIterated, Zenon
<1>5. /\ text[1] = Entry("version", Word("3")) /\ text[2] = Entry("clock-mode", Word(p.clock_mode))
      /\ text[3] = Entry("calendar", Word(p.calendar))
      /\ text[4] = Entry("show-seconds", BoolWord(p.show_seconds))
      /\ text[5] = Entry("location-configured", BoolWord(p.location_configured))
      /\ text[6] = Entry("latitude", x) /\ text[7] = Entry("longitude", y)
  BY DEF Serialize
<1> HIDE DEF text, x, y
<1>6. /\ g[1] = ReadLine("3", g[0], text[1]) /\ g[2] = ReadLine("3", g[1], text[2])
      /\ g[3] = ReadLine("3", g[2], text[3]) /\ g[4] = ReadLine("3", g[3], text[4])
      /\ g[5] = ReadLine("3", g[4], text[5]) /\ g[6] = ReadLine("3", g[5], text[6])
      /\ g[7] = ReadLine("3", g[6], text[7])
  BY <1>3, <1>4
<1>7. /\ Accepts("3", "version", Word("3")) /\ Accepts("3", "clock-mode", Word(p.clock_mode))
      /\ Accepts("3", "calendar", Word(p.calendar))
      /\ Accepts("3", "show-seconds", BoolWord(p.show_seconds))
      /\ Accepts("3", "location-configured", BoolWord(p.location_configured))
      /\ Accepts("3", "latitude", x) /\ Accepts("3", "longitude", y)
  BY <1>1, <1>2, BoolIsRead DEF Accepts, Word
<1>8. KeysOf("3") = {"version", "clock-mode", "calendar", "show-seconds", "location-configured",
                     "latitude", "longitude"}
  BY DEF KeysOf, Place
<1>9. "3" \in Versions
  BY DEF Versions
<1>10. g[1] = Soaked(s1, p1)
  <2>1. g[0] = Soaked({}, DefaultV3)
    BY <1>4 DEF Start
  <2> HIDE DEF p1
  <2>2. g[1] = ReadLine("3", Soaked({}, DefaultV3), Entry("version", Word("3")))
    BY <1>5, <1>6, <2>1
  <2>3. "version" \in KeysOf("3") /\ "version" \notin {}
    BY <1>8
  <2> QED
    BY <1>7, <2>2, <2>3, <1>9, EntryIsRead DEF p1
<1> HIDE DEF p1, p2, p3, p4, p5, p6
<1>11. g[2] = Soaked(s2, p2)
  BY <1>5, <1>6, <1>7, <1>8, <1>9, <1>10, EntryIsRead DEF p2
<1>12. g[3] = Soaked(s3, p3)
  BY <1>5, <1>6, <1>7, <1>8, <1>9, <1>11, EntryIsRead DEF p3
<1>13. g[4] = Soaked(s4, p4)
  BY <1>5, <1>6, <1>7, <1>8, <1>9, <1>12, EntryIsRead DEF p4
<1>14. g[5] = Soaked(s5, p5)
  BY <1>5, <1>6, <1>7, <1>8, <1>9, <1>13, EntryIsRead DEF p5
<1>15. g[6] = Soaked(s6, p6)
  BY <1>5, <1>6, <1>7, <1>8, <1>9, <1>14, EntryIsRead DEF p6
<1>16. g[7] = Soaked(s7, p7)
  BY <1>5, <1>6, <1>7, <1>8, <1>9, <1>15, EntryIsRead
<1>17. s7 = KeysOf("3")
  BY <1>8
<1>18. p7 = Stored(p)
  <2> DEFINE Fields(mode, calendar, seconds, location, latitude, longitude) ==
               [clock_mode |-> mode, calendar |-> calendar, show_seconds |-> seconds,
                location_configured |-> location, latitude |-> latitude, longitude |-> longitude]
  <2>1. p1 = DefaultV3
    BY DEF With, p1
  <2>2. p2 = Fields(p.clock_mode, "gregorian", FALSE, FALSE, 0, 0)
    BY <2>1 DEF With, p2, DefaultV3, Word
  <2>3. p3 = Fields(p.clock_mode, p.calendar, FALSE, FALSE, 0, 0)
    BY <2>2 DEF With, p3, Word
  <2>4. p4 = Fields(p.clock_mode, p.calendar, p.show_seconds, FALSE, 0, 0)
    BY <1>1, <2>3, BoolIsRead DEF With, p4
  <2>5. p5 = Fields(p.clock_mode, p.calendar, p.show_seconds, p.location_configured, 0, 0)
    BY <1>1, <2>4, BoolIsRead DEF With, p5
  <2>6. p6 = Fields(p.clock_mode, p.calendar, p.show_seconds, p.location_configured, x.number, 0)
    BY <2>5 DEF With, p6
  <2>7. p7 = Fields(p.clock_mode, p.calendar, p.show_seconds, p.location_configured, x.number, y.number)
    BY <2>6 DEF With
  <2>8. p = Fields(p.clock_mode, p.calendar, p.show_seconds, p.location_configured, p.latitude, p.longitude)
    BY DEF Policy
  <2>9. Stored(p) = Fields(p.clock_mode, p.calendar, p.show_seconds, p.location_configured, x.number, y.number)
    <3>1. [p EXCEPT !.latitude = x.number]
             = Fields(p.clock_mode, p.calendar, p.show_seconds, p.location_configured, x.number, p.longitude)
      BY <2>8
    <3>2. Stored(p) = [[p EXCEPT !.latitude = x.number] EXCEPT !.longitude = y.number]
      BY <2>8 DEF Stored, x, y
    <3> QED
      BY <3>1, <3>2
  <2> QED
    BY <2>7, <2>9
<1>19. DocumentVersion(text) = "3"
  <2>1. text # <<>>
    BY <1>3
  <2> QED
    BY <1>3, <1>5, <2>1, FirstVersion
<1> HIDE DEF s7, p7
<1>20. ParseV3(text) = Accepted(Stored(p))
  BY <1>3, <1>4, <1>16, <1>17, <1>18 DEF ParseV3
<1> QED
  BY <1>19, <1>20 DEF Parse, text

\* What is stored is the same choice, and it is written as before.
LEMMA StoredIsTheChoice ==
  ASSUME NEW p \in Policy, Storable(p)
  PROVE  SameChoice(Stored(p), p) /\ Serialize(Stored(p)) = Serialize(p)
<1> DEFINE x == Printed(p.latitude).number
           y == Printed(p.longitude).number
<1>1. /\ 2 * Distance(x, p.latitude) <= Fine /\ Printed(x) = Printed(p.latitude)
      /\ 2 * Distance(y, p.longitude) <= Fine /\ Printed(y) = Printed(p.longitude)
  BY PrintedIsNear, DocumentAssumption DEF Policy, Storable
<1>2. p = [clock_mode |-> p.clock_mode, calendar |-> p.calendar, show_seconds |-> p.show_seconds,
           location_configured |-> p.location_configured, latitude |-> p.latitude, longitude |-> p.longitude]
  BY DEF Policy
<1>3. Stored(p) = [[p EXCEPT !.latitude = x] EXCEPT !.longitude = y]
  BY <1>2 DEF Stored
<1> HIDE DEF x, y
<1>4. Stored(p) = [clock_mode |-> p.clock_mode, calendar |-> p.calendar, show_seconds |-> p.show_seconds,
                   location_configured |-> p.location_configured, latitude |-> x, longitude |-> y]
  BY <1>2, <1>3
<1>5. [Stored(p) EXCEPT !.latitude = 0, !.longitude = 0] = [p EXCEPT !.latitude = 0, !.longitude = 0]
  <2> DEFINE At(a, b) ==
               [clock_mode |-> p.clock_mode, calendar |-> p.calendar, show_seconds |-> p.show_seconds,
                location_configured |-> p.location_configured, latitude |-> a, longitude |-> b]
  <2>1. ASSUME NEW a, NEW b PROVE [At(a, b) EXCEPT !.latitude = 0, !.longitude = 0] = At(0, 0)
    <3>1. [At(a, b) EXCEPT !.latitude = 0] = At(0, b) /\ [At(0, b) EXCEPT !.longitude = 0] = At(0, 0)
      OBVIOUS
    <3>2. [At(a, b) EXCEPT !.latitude = 0, !.longitude = 0]
            = [[At(a, b) EXCEPT !.latitude = 0] EXCEPT !.longitude = 0]
      OBVIOUS
    <3> QED
      BY <3>1, <3>2, Zenon
  <2>2. Stored(p) = At(x, y) /\ p = At(p.latitude, p.longitude)
    BY <1>2, <1>4
  <2> HIDE DEF At
  <2>3. [At(x, y) EXCEPT !.latitude = 0, !.longitude = 0]
          = [At(p.latitude, p.longitude) EXCEPT !.latitude = 0, !.longitude = 0]
    BY <2>1, Zenon
  <2> QED
    BY <2>2, <2>3, Zenon
<1>6. Stored(p).latitude = x /\ Stored(p).longitude = y
  BY <1>4
<1>7. SameChoice(Stored(p), p)
  BY <1>1, <1>5, <1>6 DEF SameChoice
<1>8. Serialize(Stored(p)) = Serialize(p)
  BY <1>1, <1>4 DEF Serialize
<1> QED
  BY <1>7, <1>8

\* Each version that a program or an editor wrote is the document of what it chose.
ChosenIsWritten ==
  /\ chosen = [v \in Held |-> chosen[v]]
  /\ \E o \in Originals : chosen[Original] = o.policy /\ content[Original] = o.file
  /\ \A c \in Saves \cap storing :
       /\ chosen[c] \in Policy /\ Storable(chosen[c])
       /\ content[c] = [state |-> "text", text |-> Serialize(chosen[c])]
  /\ \A e \in Edits : chosen[e] = NoPolicy

ChoiceInv == LoadInv /\ ChosenIsWritten

LEMMA InitOfChoice == Init => ChoiceInv
<1> SUFFICES ASSUME Init PROVE ChoiceInv
  OBVIOUS
<1>1. LoadInv
  BY InitOfLoad
<1>2. PICK o \in Originals :
        /\ content = [v \in Calls \cup {Original} |-> IF v = Original THEN o.file ELSE Unread]
        /\ chosen = [v \in Calls \cup {Original} |-> IF v = Original THEN o.policy ELSE NoPolicy]
  BY DEF Init
<1>3. chosen[Original] = o.policy /\ content[Original] = o.file /\ \A e \in Edits : chosen[e] = NoPolicy
  BY <1>2, CallsAreOthers DEF Held
<1>4. storing = {}
  BY DEF Init
<1>5. chosen = [v \in Held |-> chosen[v]]
  BY <1>2 DEF Held
<1> QED
  BY <1>1, <1>3, <1>4, <1>5 DEF ChoiceInv, ChosenIsWritten

LEMMA ChoiceKeeps == ChoiceInv /\ [Next]_vars => ChoiceInv'
<1> SUFFICES ASSUME ChoiceInv, [Next]_vars PROVE ChosenIsWritten'
  BY LoadKeeps DEF ChoiceInv
<1>1. /\ content \in [Held -> [state : FileStates, text : Seq(Line)]]
      /\ chosen = [v \in Held |-> chosen[v]]
      /\ \A c \in Calls : replaced[c] # {} => c \in Installed
  BY DEF ChoiceInv, ChosenIsWritten, LoadInv, ContentIsKept, StoreInv, HistoryIsKept
<1>2. ASSUME UNCHANGED <<content, chosen, storing>> PROVE ChosenIsWritten'
  BY <1>2 DEF ChoiceInv, ChosenIsWritten
<1>3. ASSUME NEW c \in Saves, Serialise(c) PROVE ChosenIsWritten'
  <2>1. CASE UNCHANGED <<content, chosen, storing>>
    BY <1>2, <2>1
  <2>2. ASSUME NEW p \in Policies, Storable(p), storing' = storing \cup {c},
               content' = [content EXCEPT ![c] = [state |-> "text", text |-> Serialize(p)]],
               chosen' = [chosen EXCEPT ![c] = p]
        PROVE  ChosenIsWritten'
    <3>1. c \in Held /\ c # Original /\ c \notin Edits
      BY CallsAreOthers
    <3>2. /\ chosen'[c] = p /\ content'[c] = [state |-> "text", text |-> Serialize(p)]
          /\ \A v \in Held : v # c => chosen'[v] = chosen[v] /\ content'[v] = content[v]
          /\ chosen' = [v \in Held |-> chosen'[v]]
      BY <1>1, <2>2, <3>1, Zenon
    <3>3. p \in Policy
      BY DataAssumption
    <3> QED
      BY <2>2, <3>1, <3>2, <3>3, CallsAreOthers DEF ChoiceInv, ChosenIsWritten
  <2> QED
    BY <1>3, <2>1, <2>2 DEF Serialise
<1>4. ASSUME NEW e \in Edits, Edit(e) PROVE ChosenIsWritten'
  <2>1. PICK f : content' = [content EXCEPT ![e] = f] /\ chosen' = chosen /\ storing' = storing
    BY <1>4 DEF Edit
  <2>2. e \in Held /\ e # Original /\ e \notin Saves
    BY CallsAreOthers
  <2>3. \A v \in Held : v # e => content'[v] = content[v]
    BY <1>1, <2>1, <2>2, Zenon
  <2> QED
    BY <2>1, <2>2, <2>3, CallsAreOthers DEF ChoiceInv, ChosenIsWritten
<1>5. ASSUME NEW c \in Saves, MakeDirectory(c) \/ Store(c) \/ EndSave(c) PROVE ChosenIsWritten'
  BY <1>2, <1>5 DEF MakeDirectory, Store, EndSave
<1>6. CASE Persist \/ PersistDirectory \/ Open \/ Return
  BY <1>2, <1>6 DEF Persist, PersistDirectory, Open, Return
<1>7. CASE PowerLoss \/ LoseDirectory \/ UNCHANGED vars
  BY <1>2, <1>7 DEF PowerLoss, LoseDirectory, vars
<1> QED
  BY <1>3, <1>4, <1>5, <1>6, <1>7 DEF Next

\* Every version a program wrote, wherever it is by now, is the document of its
\* policy.
THEOREM ChoicesAreWritten == Spec => []ChoiceInv
<1>1. Init => ChoiceInv
  BY InitOfChoice
<1>2. ChoiceInv /\ [Next]_vars => ChoiceInv'
  BY ChoiceKeeps
<1> QED
  BY <1>1, <1>2, PTL DEF Spec

\* A file that was there before, if a program wrote it: it is read as what its
\* writer meant.
IsReadAsMeant(o) ==
  o.policy # NoPolicy => Load(o.file).found /\ SameChoice(Load(o.file).policy, o.policy)

\* Whatever policies are saved, edited, lost and loaded: a load finds the choice of
\* the program that wrote the version it read, and writes it again as it was, as
\* long as the file was sound before (see the two theorems below).
THEOREM ChoicesAreKept ==
  ASSUME \A o \in Originals : IsReadAsMeant(o)
  PROVE  Spec => []ChoiceIsKept
<1>1. ChoiceInv => ChoiceIsKept
  <2> SUFFICES ASSUME ChoiceInv, loaded.result \notin {"none", "error"}, chosen[loaded.version] # NoPolicy
               PROVE  /\ loaded.found
                      /\ SameChoice(loaded.policy, chosen[loaded.version])
                      /\ loaded.version \in Saves => Serialize(loaded.policy) = content[loaded.version].text
    BY DEF ChoiceIsKept
  <2> DEFINE v == loaded.version
  <2>1. /\ v \in Installed /\ v \in Held
        /\ loaded.found = Load(content[v]).found /\ loaded.policy = Load(content[v]).policy
    BY InstalledIsHeld DEF ChoiceInv, LoadInv, StoreInv, LoadedIs
  <2> HIDE DEF v
  <2>2. CASE v \in Saves
    <3> DEFINE p == chosen[v]
    <3>1. p \in Policy /\ Storable(p) /\ content[v] = [state |-> "text", text |-> Serialize(p)]
      BY <2>1, <2>2 DEF ChoiceInv, LoadInv, ContentIsKept, ChosenIsWritten
    <3> HIDE DEF p
    <3>2. Parse(content[v].text) = Accepted(Stored(p))
      BY <3>1, SavedIsRead
    <3>3. Load(content[v]) = [result |-> "ok", found |-> TRUE, policy |-> Stored(p)]
      <4>1. content[v].state = "text" /\ Parse(content[v].text).ok
            /\ Parse(content[v].text).policy = Stored(p)
        BY <3>1, <3>2 DEF Accepted
      <4> QED
        BY <4>1 DEF Load
    <3>4. SameChoice(Stored(p), p) /\ Serialize(Stored(p)) = Serialize(p)
      BY <3>1, StoredIsTheChoice
    <3> QED
      BY <2>1, <3>1, <3>3, <3>4 DEF v, p
  <2>3. CASE v \in Edits
    BY <2>3 DEF ChoiceInv, ChosenIsWritten, v
  <2>4. CASE v = Original
    <3>1. v \notin Saves
      BY <2>4, CallsAreOthers
    <3> QED
      BY <2>1, <2>4, <3>1 DEF ChoiceInv, ChosenIsWritten, IsReadAsMeant, v
  <2> QED
    BY <2>1, <2>2, <2>3, <2>4 DEF Held, Calls
<1> QED
  BY <1>1, ChoicesAreWritten, PTL

(* Files that were there before.                                             *)

Document(t) == [state |-> "text", text |-> t]

\* What the four clock profiles of version 1 stood for.
Meant == {<<"system", "standard">>, <<"conventional-12", "standard-12">>,
          <<"conventional-24", "standard-24">>, <<"decimal-10", "decimal">>}

LEMMA FirstVersionIsMigrated ==
  ASSUME NEW q \in [clock_profile : Profiles \cap Words, show_seconds : BOOLEAN]
  PROVE  Parse(SerializeV1(q)) = Accepted([DefaultV3 EXCEPT !.clock_mode = ModeOf(q.clock_profile),
                                                            !.show_seconds = q.show_seconds])
<1> DEFINE text == SerializeV1(q)
           Soaked(seen, policy) == [ok |-> TRUE, seen |-> seen, policy |-> policy]
           p1 == With(DefaultV1, "version", Word("1"))
           p2 == With(p1, "clock-profile", Word(q.clock_profile))
           p3 == With(p2, "show-seconds", BoolWord(q.show_seconds))
           s1 == {} \cup {"version"}
           s2 == s1 \cup {"clock-profile"}
           s3 == s2 \cup {"show-seconds"}
<1>1. q.clock_profile \in Profiles /\ q.clock_profile \in Words /\ q.show_seconds \in BOOLEAN
  OBVIOUS
<1>2. text \in Seq(Line) /\ Len(text) = 3
  <2>1. ASSUME NEW key \in KeysOf("1"), NEW value \in Values PROVE Entry(key, value) \in Line
    <3>1. key \in Keys
      BY DEF Keys, Versions
    <3> QED
      BY <3>1 DEF Entry, Line, Values
  <2>2. Word("1") \in Values /\ Word(q.clock_profile) \in Values /\ BoolWord(q.show_seconds) \in Values
    BY <1>1, DocumentAssumption DEF Word, BoolWord, Values, Versions
  <2>3. {"version", "clock-profile", "show-seconds"} \subseteq KeysOf("1")
    BY DEF KeysOf
  <2>4. /\ Entry("version", Word("1")) \in Line
        /\ Entry("clock-profile", Word(q.clock_profile)) \in Line
        /\ Entry("show-seconds", BoolWord(q.show_seconds)) \in Line
    BY <2>1, <2>2, <2>3, Zenon
  <2> QED
    BY <2>4 DEF SerializeV1
<1>3. PICK g : /\ g[0] = Start(DefaultV1)
               /\ \A n \in 1..Len(text) : g[n] = ReadLine("1", g[n - 1], text[n])
               /\ Read("1", DefaultV1, text) = g[Len(text)]
  <2>1. text \in Seq(Line)
    BY <1>2
  <2> HIDE DEF text
  <2> QED
    BY <2>1, ReadIsIterated, Zenon
<1>4. /\ text[1] = Entry("version", Word("1")) /\ text[2] = Entry("clock-profile", Word(q.clock_profile))
      /\ text[3] = Entry("show-seconds", BoolWord(q.show_seconds))
  BY DEF SerializeV1
<1> HIDE DEF text
<1>5. /\ g[1] = ReadLine("1", g[0], text[1]) /\ g[2] = ReadLine("1", g[1], text[2])
      /\ g[3] = ReadLine("1", g[2], text[3])
  BY <1>2, <1>3
<1>6. /\ Accepts("1", "version", Word("1")) /\ Accepts("1", "clock-profile", Word(q.clock_profile))
      /\ Accepts("1", "show-seconds", BoolWord(q.show_seconds))
  BY <1>1, BoolIsRead DEF Accepts, Word
<1>7. KeysOf("1") = {"version", "clock-profile", "show-seconds"} /\ "1" \in Versions
  BY DEF KeysOf, Versions
<1>8. g[0] = Soaked({}, DefaultV1)
  BY <1>3 DEF Start
<1> HIDE DEF p1, p2
<1>9. g[1] = Soaked(s1, p1)
  BY <1>4, <1>5, <1>6, <1>7, <1>8, EntryIsRead DEF p1
<1>10. g[2] = Soaked(s2, p2)
  BY <1>4, <1>5, <1>6, <1>7, <1>9, EntryIsRead DEF p2
<1>11. g[3] = Soaked(s3, p3)
  BY <1>4, <1>5, <1>6, <1>7, <1>10, EntryIsRead
<1>12. p3 = [clock_profile |-> q.clock_profile, show_seconds |-> q.show_seconds]
  <2>1. p1 = DefaultV1
    BY DEF With, p1
  <2>2. p2 = [clock_profile |-> q.clock_profile, show_seconds |-> FALSE]
    BY <2>1 DEF With, p2, DefaultV1, Word
  <2> QED
    BY <1>1, <2>2, BoolIsRead DEF With
<1>13. DocumentVersion(text) = "1"
  <2>1. text # <<>>
    BY <1>2
  <2> QED
    BY <1>2, <1>4, <2>1, FirstVersion
<1> HIDE DEF p3
<1>14. MigrateV1(text) = Accepted([DefaultV3 EXCEPT !.clock_mode = ModeOf(q.clock_profile),
                                                    !.show_seconds = q.show_seconds])
  <2>1. Read("1", DefaultV1, text) = Soaked(s3, p3)
    BY <1>2, <1>3, <1>11
  <2>2. p3.clock_profile = q.clock_profile /\ p3.show_seconds = q.show_seconds
    BY <1>12
  <2>3. "version" \in s3
    OBVIOUS
  <2> HIDE DEF s3
  <2>4. Read("1", DefaultV1, text).ok /\ "version" \in Read("1", DefaultV1, text).seen
        /\ Read("1", DefaultV1, text).policy = p3
    BY <2>1, <2>3
  <2> QED
    BY <2>2, <2>4 DEF MigrateV1
<1> QED
  BY <1>13, <1>14 DEF Parse, text

\* The file of any policy that was saved, of version 3 or of version 1, is read as
\* its writer meant: the assumption of ChoicesAreKept is met by any such file, and
\* by one that nobody wrote a policy to.
THEOREM SavedFilesAreReadAsMeant ==
  /\ \A p \in Policy : Storable(p) => IsReadAsMeant([file |-> Document(Serialize(p)), policy |-> p])
  /\ \A q \in [clock_profile : Profiles \cap Words, show_seconds : BOOLEAN], mode \in ClockModes :
       <<q.clock_profile, mode>> \in Meant =>
         IsReadAsMeant([file |-> Document(SerializeV1(q)),
                        policy |-> [DefaultV3 EXCEPT !.clock_mode = mode, !.show_seconds = q.show_seconds]])
  /\ \A f : IsReadAsMeant([file |-> f, policy |-> NoPolicy])
<1>1. ASSUME NEW t, NEW p, Parse(t) = Accepted(p)
      PROVE  Load(Document(t)).found /\ Load(Document(t)).policy = p
  <2>1. Parse(t).ok /\ Parse(t).policy = p /\ Document(t).state = "text" /\ Document(t).text = t
    BY <1>1 DEF Accepted, Document
  <2>2. Load(Document(t)) = [result |-> "ok", found |-> TRUE, policy |-> p]
    BY <2>1 DEF Load
  <2> QED
    BY <2>2
<1>2. ASSUME NEW p \in Policy, Storable(p)
      PROVE  IsReadAsMeant([file |-> Document(Serialize(p)), policy |-> p])
  BY <1>1, <1>2, SavedIsRead, StoredIsTheChoice DEF IsReadAsMeant
<1>3. ASSUME NEW q \in [clock_profile : Profiles \cap Words, show_seconds : BOOLEAN], NEW mode \in ClockModes,
             <<q.clock_profile, mode>> \in Meant
      PROVE  IsReadAsMeant([file |-> Document(SerializeV1(q)),
                            policy |-> [DefaultV3 EXCEPT !.clock_mode = mode, !.show_seconds = q.show_seconds]])
  <2> DEFINE p == [DefaultV3 EXCEPT !.clock_mode = mode, !.show_seconds = q.show_seconds]
  <2>1. ModeOf(q.clock_profile) = mode
    BY <1>3 DEF Meant, ModeOf
  <2>2. Load(Document(SerializeV1(q))).found /\ Load(Document(SerializeV1(q))).policy = p
    BY <1>1, <2>1, FirstVersionIsMigrated
  <2>3. SameChoice(p, p)
    <3>1. p.latitude = 0 /\ p.longitude = 0
      BY DEF DefaultV3
    <3>2. 2 * Distance(0, 0) <= Fine
      BY DocumentAssumption DEF Distance
    <3> QED
      BY <3>1, <3>2 DEF SameChoice
  <2> QED
    BY <2>2, <2>3 DEF IsReadAsMeant
<1>4. \A f : IsReadAsMeant([file |-> f, policy |-> NoPolicy])
  BY DEF IsReadAsMeant
<1> QED
  BY <1>2, <1>3, <1>4

================================================================================
