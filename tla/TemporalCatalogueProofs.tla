------------------------ MODULE TemporalCatalogueProofs ------------------------
(***************************************************************************)
(* Proofs about TemporalCatalogue, for any threads, files, modules and     *)
(* requests, and whatever the packages on disk do meanwhile.               *)
(***************************************************************************)
EXTENDS TemporalCatalogueInvariant, TLAPS

\* One native entry is appended, whether the array moves or not.
LEMMA AppendTyped ==
  ASSUME TypeOK, NEW f \in Families, NEW m \in Modules, KindOf[m] = f, Append1(f, m)
  PROVE  /\ entries' \in [Families -> Seq(Modules)]
         /\ \A g \in Families : \A i \in DOMAIN entries'[g] : KindOf[entries'[g][i]] = g
         /\ capacity' \in [Families -> Nat]
         /\ moved' \in [Families -> Nat]
<1> USE CatalogueAssumption DEF TypeOK, Append1
<1>1. Append(entries[f], m) \in Seq(Modules)
  OBVIOUS
<1>2. entries' \in [Families -> Seq(Modules)]
  BY <1>1
<1>3. capacity' \in [Families -> Nat]
  <2> DEFINE next == IF capacity[f] = 0 THEN FirstCapacity ELSE 2 * capacity[f]
  <2>1. next \in Nat
    OBVIOUS
  <2>2. capacity' = [capacity EXCEPT ![f] = next] \/ capacity' = capacity
    OBVIOUS
  <2>3. capacity \in [Families -> Nat]
    OBVIOUS
  <2> HIDE DEF next, TypeOK, Append1
  <2> QED
    BY <2>1, <2>2, <2>3
<1>4. moved' \in [Families -> Nat]
  <2>1. moved[f] + 1 \in Nat
    OBVIOUS
  <2> QED
    BY <2>1
<1>5. \A g \in Families : \A i \in DOMAIN entries'[g] : KindOf[entries'[g][i]] = g
  <2> SUFFICES ASSUME NEW g \in Families, NEW i \in DOMAIN entries'[g] PROVE KindOf[entries'[g][i]] = g
    OBVIOUS
  <2>1. CASE g # f
    BY <2>1
  <2>2. CASE g = f
    <3>1. entries'[g] = Append(entries[f], m) /\ entries[f] \in Seq(Modules)
      BY <2>2
    <3>2. \/ i \in DOMAIN entries[f] /\ entries'[g][i] = entries[f][i]
          \/ entries'[g][i] = m
      BY <3>1
    <3> QED
      BY <2>2, <3>2
  <2> QED
    BY <2>1, <2>2
<1> QED
  BY <1>2, <1>3, <1>4, <1>5

LEMMA ScanTyped ==
  ASSUME TypeOK, NEW t \in Threads, NEW f \in Families, StartScan(t, f)
  PROVE  /\ family' \in [Threads -> Families]
         /\ unread' \in [Threads -> SUBSET Files]
         /\ found' \in [Threads -> SUBSET Files]
         /\ pc' \in [Threads -> Steps]
BY DEF TypeOK, StartScan, Goto, Steps

LEMMA NextTyped ==
  ASSUME TypeOK, NEW t \in Threads, NextFamily(t)
  PROVE  /\ family' \in [Threads -> Families]
         /\ unread' \in [Threads -> SUBSET Files]
         /\ found' \in [Threads -> SUBSET Files]
         /\ pc' \in [Threads -> Steps]
<1>1. CASE StartScan(t, "clock")
  BY <1>1, ScanTyped DEF Families
<1>2. CASE Goto(t, "publish") /\ UNCHANGED scan
  BY <1>2 DEF TypeOK, Goto, Steps, scan
<1> QED
  BY <1>1, <1>2 DEF NextFamily

\* Each step keeps every variable in its domain.
LEMMA StepTyped == TypeOK /\ Exclusive /\ [Next]_vars => TypeOK'
<1> SUFFICES ASSUME TypeOK, Exclusive, [Next]_vars PROVE TypeOK'
  OBVIOUS
<1> USE DEF TypeOK, Goto, Steps
<1>1. ASSUME NEW t \in Threads, Call(t) PROVE TypeOK'
  <2>1. PICK r \in Requests :
          \/ request' = [request EXCEPT ![t] = r] /\ Goto(t, "check") /\ UNCHANGED answers
          \/ Give(t, r) /\ UNCHANGED request
    BY <1>1 DEF Call
  <2>2. request' \in [Threads -> Requests \cup {NoRequest}]
    BY <2>1
  <2>3. pc' \in [Threads -> Steps]
    BY <2>1 DEF Give
  <2>4. \A a \in answers' : a.request \in Requests
    BY <2>1 DEF Give
  <2> QED
    BY <1>1, <2>2, <2>3, <2>4 DEF Call, arrays, scan
<1>2. ASSUME NEW t \in Threads, Read(t) PROVE TypeOK'
  <2>1. request[t] \in Requests
    BY <1>2 DEF Read, Exclusive
  <2> QED
    BY <1>2, <2>1 DEF Read, Give, arrays, scan
<1>3. ASSUME NEW t \in Threads, CheckReady(t) \/ StopWaiting(t) \/ EndOfList(t) \/ MarkReady(t) PROVE TypeOK'
  BY <1>3 DEF CheckReady, StopWaiting, EndOfList, MarkReady, arrays, scan
<1>4. ASSUME NEW t \in Threads, TryBegin(t) PROVE TypeOK'
  <2>1. CASE StartScan(t, "calendar")
    BY <1>4, <2>1, ScanTyped DEF TryBegin, arrays, Families
  <2>2. CASE Goto(t, IfTaken) /\ UNCHANGED <<catalogue_state, scan>>
    BY <1>4, <2>2 DEF TryBegin, IfTaken, arrays, scan
  <2> QED
    BY <1>4, <2>1, <2>2 DEF TryBegin
<1>5. ASSUME NEW t \in Threads, ListEntry(t) PROVE TypeOK'
  BY <1>5 DEF ListEntry, arrays
<1>6. ASSUME NEW t \in Threads, Inspect(t) PROVE TypeOK'
  <2>1. PICK x \in found[t] :
          /\ found' = [found EXCEPT ![t] = @ \ {x}]
          /\ \/ /\ IsResource(disk[family[t]][x], family[t])
                /\ Append1(family[t], disk[family[t]][x])
             \/ UNCHANGED arrays
    BY <1>6 DEF Inspect
  <2>2. found' \in [Threads -> SUBSET Files]
    BY <2>1
  <2>3. CASE UNCHANGED arrays
    BY <1>6, <2>2, <2>3 DEF Inspect, arrays
  <2>4. CASE IsResource(disk[family[t]][x], family[t]) /\ Append1(family[t], disk[family[t]][x])
    <3>1. disk[family[t]][x] \in Modules
      BY <2>4 DEF IsResource
    <3>2. PICK m \in Modules : m = disk[family[t]][x]
      BY <3>1
    <3>3. PICK f \in Families : f = family[t]
      OBVIOUS
    <3>4. Append1(f, m) /\ KindOf[m] = f
      BY <2>4, <3>2, <3>3 DEF Append1, IsResource
    <3>5. /\ entries' \in [Families -> Seq(Modules)] /\ capacity' \in [Families -> Nat]
          /\ moved' \in [Families -> Nat]
          /\ \A g \in Families : \A i \in DOMAIN entries'[g] : KindOf[entries'[g][i]] = g
      BY <3>4, AppendTyped
    <3> QED
      BY <1>6, <2>2, <3>5 DEF Inspect
  <2> QED
    BY <2>1, <2>3, <2>4
<1>7. ASSUME NEW t \in Threads, EndOfScan(t) PROVE TypeOK'
  BY <1>7, NextTyped DEF EndOfScan, arrays
<1>8. ASSUME NEW t \in Threads, FailScan(t) PROVE TypeOK'
  <2>1. /\ entries' \in [Families -> Seq(Modules)]
        /\ capacity' \in [Families -> Nat]
        /\ moved' \in [Families -> Nat]
    BY <1>8 DEF FailScan, Clear
  <2>2. \A g \in Families : \A i \in DOMAIN entries'[g] : KindOf[entries'[g][i]] = g
    BY <1>8, <2>1 DEF FailScan, Clear
  <2>3. /\ family' \in [Threads -> Families] /\ unread' \in [Threads -> SUBSET Files]
        /\ found' \in [Threads -> SUBSET Files] /\ pc' \in [Threads -> Steps]
    BY <1>8, NextTyped DEF FailScan, AfterFailure
  <2> QED
    BY <1>8, <2>1, <2>2, <2>3 DEF FailScan
<1>9. CASE ChangeDisk
  <2>1. PICK c \in Mutable, m \in Modules \cup {None} : disk' = [disk EXCEPT ![c[1]][c[2]] = m]
    BY <1>9 DEF ChangeDisk
  <2>2. disk' \in [Families -> [Files -> Modules \cup {None}]]
    BY <2>1
  <2> QED
    BY <1>9, <2>2 DEF ChangeDisk, arrays, scan
<1>10. CASE UNCHANGED vars
  BY <1>10 DEF vars
<1> QED
  BY <1>1, <1>2, <1>3, <1>4, <1>5, <1>6, <1>7, <1>8, <1>9, <1>10 DEF Next, Proceed

\* What a step does to the atomic and to the work on the catalogue.
LEMMA StepExclusive == TypeOK /\ Exclusive /\ [Next]_vars => Exclusive'
<1> SUFFICES ASSUME TypeOK, Exclusive, [Next]_vars PROVE Exclusive'
  OBVIOUS
<1> USE DEF TypeOK, Goto, Working, Exclusive
<1>1. ASSUME NEW t \in Threads, Call(t) PROVE Exclusive'
  <2>1. PICK r \in Requests :
          \/ request' = [request EXCEPT ![t] = r] /\ Goto(t, "check") /\ UNCHANGED answers
          \/ ~NeedsCatalogue(r) /\ Give(t, r) /\ UNCHANGED request
    BY <1>1 DEF Call
  <2>2. UNCHANGED catalogue_state /\ pc[t] = "idle"
    BY <1>1 DEF Call
  <2>3. CASE request' = [request EXCEPT ![t] = r] /\ Goto(t, "check") /\ UNCHANGED answers
    BY <2>2, <2>3
  <2>4. CASE ~NeedsCatalogue(r) /\ Give(t, r) /\ UNCHANGED request
    <3>1. \A a \in answers' : NeedsCatalogue(a.request) => a \in answers
      BY <2>4 DEF Give
    <3> QED
      BY <2>2, <2>4, <3>1 DEF Give
  <2> QED
    BY <2>1, <2>3, <2>4
<1>2. ASSUME NEW t \in Threads, Read(t) PROVE Exclusive'
  BY <1>2 DEF Read, Give
<1>3. ASSUME NEW t \in Threads, CheckReady(t) \/ StopWaiting(t) \/ EndOfList(t) \/ MarkReady(t) PROVE Exclusive'
  BY <1>3 DEF CheckReady, StopWaiting, EndOfList, MarkReady
<1>4. ASSUME NEW t \in Threads, TryBegin(t) PROVE Exclusive'
  BY <1>4 DEF TryBegin, StartScan, MayBegin, IfTaken
<1>5. ASSUME NEW t \in Threads, ListEntry(t) \/ Inspect(t) PROVE Exclusive'
  BY <1>5 DEF ListEntry, Inspect
<1>7. ASSUME NEW t \in Threads, EndOfScan(t) \/ FailScan(t) PROVE Exclusive'
  <2>1. /\ pc[t] \in {"list", "inspect"}
        /\ Goto(t, "list") \/ Goto(t, "publish")
        /\ UNCHANGED <<catalogue_state, request, answers>>
    BY <1>7 DEF EndOfScan, FailScan, AfterFailure, NextFamily, StartScan
  <2> QED
    BY <2>1
<1>9. CASE ChangeDisk \/ UNCHANGED vars
  BY <1>9 DEF ChangeDisk, vars
<1> QED
  BY <1>1, <1>2, <1>3, <1>4, <1>5, <1>7, <1>9 DEF Next, Proceed

\* The functions of this module return what they declare.
THEOREM TypeCorrect == Spec => []TypeOK
<1>1. Init => TypeOK /\ Exclusive
  BY CatalogueAssumption DEF Init, TypeOK, Exclusive, Working, Families, Steps
<1> QED
  BY <1>1, StepTyped, StepExclusive, PTL DEF Spec

\* Only the thread that works on the catalogue touches the arrays.
LEMMA ArraysStep ==
  ASSUME TypeOK, Exclusive, [Next]_vars
  PROVE  UNCHANGED arrays \/ catalogue_state = "initialising"
BY DEF Next, Proceed, vars, arrays, Exclusive, Working, Call, CheckReady, TryBegin, StopWaiting, ListEntry,
   EndOfList, Inspect, EndOfScan, FailScan, MarkReady, Read, ChangeDisk

\* The answer to a request depends on the arrays, to some not even on them.
LEMMA AnswerKept ==
  ASSUME NEW r \in Requests, UNCHANGED arrays \/ ~NeedsCatalogue(r)
  PROVE  Answer(r)' = Answer(r)
<1>1. CASE UNCHANGED arrays
  BY <1>1 DEF arrays, Answer, Entry, FoundIds
<1>2. CASE ~NeedsCatalogue(r)
  BY <1>2 DEF NeedsCatalogue, Answer, BuiltinIds
<1> QED
  BY <1>1, <1>2

LEMMA StepAnswers == TypeOK /\ Exclusive /\ AnswersStand /\ [Next]_vars => AnswersStand'
<1> SUFFICES ASSUME TypeOK, Exclusive, AnswersStand, [Next]_vars PROVE AnswersStand'
  OBVIOUS
<1>1. ASSUME NEW a \in answers PROVE a.answer = Answer(a.request)'
  <2>1. a.answer = Answer(a.request) /\ a.request \in Requests
    BY DEF AnswersStand, TypeOK
  <2>2. NeedsCatalogue(a.request) => UNCHANGED arrays
    BY ArraysStep DEF Exclusive
  <2> QED
    BY <2>1, <2>2, AnswerKept
<1>2. ASSUME NEW t \in Threads, NEW r \in Requests, Give(t, r), UNCHANGED arrays PROVE AnswersStand'
  <2>1. Answer(r)' = Answer(r)
    BY <1>2, AnswerKept
  <2>2. ASSUME NEW a \in answers' PROVE a.answer = Answer(a.request)'
    <3>1. CASE a \in answers
      BY <3>1, <1>1
    <3>2. CASE a = [request |-> r, answer |-> Answer(r)]
      <4>1. a.request = r /\ a.answer = Answer(r)
        BY <3>2
      <4> QED
        BY <4>1, <2>1
    <3> QED
      BY <1>2, <3>1, <3>2 DEF Give
  <2> QED
    BY <2>2 DEF AnswersStand
<1>3. CASE UNCHANGED answers
  BY <1>3, <1>1 DEF AnswersStand
<1>4. ASSUME NEW t \in Threads, Call(t) PROVE AnswersStand'
  BY <1>4, <1>2, <1>3 DEF Call
<1>5. ASSUME NEW t \in Threads, Read(t) PROVE AnswersStand'
  <2>1. PICK r \in Requests : r = request[t]
    BY <1>5 DEF Read, Exclusive
  <2>2. Give(t, r)
    BY <1>5, <2>1 DEF Read, Give
  <2> QED
    BY <1>5, <1>2, <2>2 DEF Read
<1> QED
  BY <1>3, <1>4, <1>5 DEF Next, Proceed, vars, CheckReady, TryBegin, StopWaiting, ListEntry,
     EndOfList, Inspect, EndOfScan, FailScan, MarkReady, ChangeDisk

\* A new entry adds its identifier to those of its family.
LEMMA AppendIds ==
  ASSUME TypeOK, NEW f \in Families, NEW m \in Modules, Append1(f, m)
  PROVE  /\ FoundIds(f)' = FoundIds(f) \cup {IdOf[m]}
         /\ \A g \in Families \ {f} : entries'[g] = entries[g]
<1> USE DEF TypeOK, Append1
<1>1. entries'[f] = Append(entries[f], m)
  OBVIOUS
<1>2. DOMAIN entries'[f] = DOMAIN entries[f] \cup {Len(entries[f]) + 1}
  BY <1>1
<1>3. /\ \A i \in DOMAIN entries[f] : entries'[f][i] = entries[f][i]
      /\ entries'[f][Len(entries[f]) + 1] = m
  BY <1>1
<1> QED
  BY <1>2, <1>3 DEF FoundIds

LEMMA AppendUnique ==
  ASSUME TypeOK, IdsAreUnique, NEW f \in Families, NEW m \in Modules, Append1(f, m), IdOf[m] \notin KnownIds(f)
  PROVE  IdsAreUnique'
<1>1. /\ BuiltinIds(f) \cap FoundIds(f)' = {}
      /\ \A g \in Families \ {f} : entries'[g] = entries[g]
  BY AppendIds DEF IdsAreUnique, KnownIds
<1>2. ASSUME NEW i \in DOMAIN entries'[f], NEW j \in DOMAIN entries'[f],
             IdOf[entries'[f][i]] = IdOf[entries'[f][j]]
      PROVE  i = j
  <2>1. entries'[f] = Append(entries[f], m)
    BY DEF TypeOK, Append1
  <2>2. \A k \in DOMAIN entries'[f] :
          \/ k \in DOMAIN entries[f] /\ entries'[f][k] = entries[f][k]
          \/ k = Len(entries[f]) + 1 /\ entries'[f][k] = m
    BY <2>1 DEF TypeOK
  <2>3. \A k \in DOMAIN entries[f] : IdOf[entries[f][k]] # IdOf[m]
    BY DEF KnownIds, FoundIds
  <2> QED
    BY <1>2, <2>2, <2>3 DEF IdsAreUnique
<1> QED
  BY <1>1, <1>2 DEF IdsAreUnique, FoundIds

\* How a step changes the arrays.
LEMMA ArraysCases ==
  ASSUME TypeOK, [Next]_vars
  PROVE  \/ UNCHANGED arrays
         \/ \E t \in Threads : FailScan(t)
         \/ \E t \in Threads, f \in Families, m \in Modules, x \in Files :
              /\ Inspect(t) /\ f = family[t] /\ m = disk[f][x] /\ IsResource(m, f)
              /\ found' = [found EXCEPT ![t] = @ \ {x}]
              /\ IdOf[m] \notin KnownIds(f)
              /\ Append1(f, m)
<1>1. ASSUME NEW t \in Threads, Inspect(t), ~UNCHANGED arrays
      PROVE  \E f \in Families, m \in Modules, x \in Files :
               /\ f = family[t] /\ m = disk[f][x] /\ IsResource(m, f)
               /\ found' = [found EXCEPT ![t] = @ \ {x}]
               /\ IdOf[m] \notin KnownIds(f)
               /\ Append1(f, m)
  <2>1. PICK x \in found[t] :
          /\ found' = [found EXCEPT ![t] = @ \ {x}]
          /\ IsResource(disk[family[t]][x], family[t])
          /\ IdOf[disk[family[t]][x]] \notin KnownIds(family[t])
          /\ Append1(family[t], disk[family[t]][x])
    BY <1>1 DEF Inspect
  <2>2. PICK f \in Families : f = family[t]
    BY DEF TypeOK
  <2>3. x \in Files
    BY DEF TypeOK
  <2>4. PICK m \in Modules : m = disk[f][x]
    BY <2>1, <2>2, <2>3 DEF IsResource, TypeOK
  <2>5. Append1(f, m)
    BY <2>1, <2>2, <2>4 DEF Append1
  <2> QED
    BY <2>1, <2>2, <2>3, <2>4, <2>5
<1> QED
  BY <1>1 DEF Next, Proceed, vars, arrays, Call, CheckReady, TryBegin, StopWaiting, ListEntry,
     EndOfList, EndOfScan, MarkReady, Read, ChangeDisk

LEMMA StepUnique == TypeOK /\ IdsAreUnique /\ [Next]_vars => IdsAreUnique'
<1> SUFFICES ASSUME TypeOK, IdsAreUnique, [Next]_vars PROVE IdsAreUnique'
  OBVIOUS
<1>1. CASE UNCHANGED arrays
  BY <1>1 DEF IdsAreUnique, FoundIds, arrays
<1>2. ASSUME NEW t \in Threads, FailScan(t) PROVE IdsAreUnique'
  <2>1. \A f \in Families : entries'[f] \in {entries[f], <<>>}
    BY <1>2 DEF FailScan, Clear, TypeOK
  <2> QED
    BY <2>1 DEF IdsAreUnique, FoundIds
<1>3. ASSUME NEW f \in Families, NEW m \in Modules, IdOf[m] \notin KnownIds(f), Append1(f, m)
      PROVE  IdsAreUnique'
  BY <1>3, AppendUnique
<1> QED
  BY <1>1, <1>2, <1>3, ArraysCases

\* The disk changes at the mutable files only.
LEMMA DiskStep ==
  ASSUME TypeOK, [Next]_vars, NEW f \in Families, NEW x \in Files, <<f, x>> \notin Mutable
  PROVE  disk'[f][x] = disk[f][x]
<1>1. CASE ChangeDisk
  <2>1. PICK c \in Mutable, m \in Modules \cup {None} : disk' = [disk EXCEPT ![c[1]][c[2]] = m]
    BY <1>1 DEF ChangeDisk
  <2>2. c = <<c[1], c[2]>> /\ c[1] \in Families /\ c[2] \in Files
    BY CatalogueAssumption
  <2>3. f # c[1] \/ x # c[2]
    BY <2>2
  <2> QED
    BY <2>1, <2>2, <2>3 DEF TypeOK
<1>2. CASE UNCHANGED disk
  BY <1>2
<1> QED
  BY <1>1, <1>2 DEF Next, Proceed, vars, Call, CheckReady, TryBegin, StopWaiting, ListEntry,
     EndOfList, Inspect, EndOfScan, FailScan, MarkReady, Read

\* A listed identifier stays listed as long as its family is not emptied.
LEMMA ListedKept ==
  ASSUME TypeOK, [Next]_vars, NEW f \in Families, NEW x \in Files, IsListed(f, x),
         FoundIds(f) \subseteq FoundIds(f)'
  PROVE  IsListed(f, x)'
BY DiskStep DEF IsListed, IsResource

\* Without a change of the arrays no identifier is lost.
LEMMA IdsKept ==
  ASSUME NEW f \in Families, entries'[f] = entries[f]
  PROVE  FoundIds(f) = FoundIds(f)'
BY DEF FoundIds

\* What is scanned is told by the one thread that works.
LEMMA ScannedByWorker ==
  ASSUME Exclusive, NEW t \in Threads, Working(t), NEW f \in Families
  PROVE  Scanned(f) <=> pc[t] = "publish" \/ (f = "calendar" /\ family[t] = "clock")
BY DEF Exclusive, Scanned

LEMMA ScannedByNextWorker ==
  ASSUME Exclusive', NEW t \in Threads, Working(t)', NEW f \in Families
  PROVE  Scanned(f)' <=> pc'[t] = "publish" \/ (f = "calendar" /\ family'[t] = "clock")
BY DEF Exclusive, Scanned, Working

\* A step outside the scan leaves the coverage as it is.
LEMMA CoverageOutside ==
  ASSUME TypeOK, Exclusive, Coverage, [Next]_vars, UNCHANGED <<catalogue_state, arrays, scan, lost>>,
         \A t \in Threads : pc[t] \in {"list", "inspect", "publish"} \/ pc'[t] \in {"list", "inspect", "publish"}
                              => pc'[t] = pc[t]
  PROVE  Coverage'
<1>1. \A f \in Families : Scanned(f)' <=> Scanned(f)
  BY DEF Scanned, Working, scan
<1>2. \A f \in Families, x \in Files : IsListed(f, x) => IsListed(f, x)'
  BY ListedKept, IdsKept DEF arrays
<1> QED
  BY <1>1, <1>2 DEF Coverage, arrays, scan, TypeOK

LEMMA StepCoverage == TypeOK /\ Exclusive /\ Coverage /\ [Next]_vars /\ TypeOK' /\ Exclusive' => Coverage'
<1> SUFFICES ASSUME TypeOK, Exclusive, Coverage, [Next]_vars, TypeOK', Exclusive' PROVE Coverage'
  OBVIOUS
<1>1. ASSUME NEW t \in Threads, Call(t) \/ Read(t) \/ CheckReady(t) \/ StopWaiting(t) PROVE Coverage'
  <2>1. /\ pc[t] \in {"idle", "read", "check", "wait"}
        /\ \E s \in {"idle", "check", "read", "begin"} : pc' = [pc EXCEPT ![t] = s]
        /\ UNCHANGED <<catalogue_state, arrays, scan, lost>>
    BY <1>1 DEF Call, Read, CheckReady, StopWaiting, Give, Goto
  <2> QED
    BY <2>1, CoverageOutside DEF TypeOK
<1>2. CASE ChangeDisk \/ UNCHANGED vars
  BY <1>2, CoverageOutside DEF ChangeDisk, vars, arrays, scan
<1>3. ASSUME NEW t \in Threads, TryBegin(t) PROVE Coverage'
  <2>1. CASE StartScan(t, "calendar") /\ catalogue_state = "uninitialised"
    <3>1. /\ lost = {}
          /\ \A u \in Threads : ~Working(u)
      BY <2>1 DEF Exclusive, Coverage, Scanned, TypeOK
    <3>2. /\ Working(t)' /\ pc'[t] = "list" /\ family'[t] = "calendar" /\ unread'[t] = Files
          /\ lost' = lost
      BY <1>3, <2>1 DEF TryBegin, StartScan, Goto, TypeOK, Working
    <3>3. \A u \in Threads : Working(u)' => u = t
      BY <3>2 DEF Exclusive
    <3>4. \A f \in Families : ~Scanned(f)'
      BY <3>2, ScannedByNextWorker
    <3> QED
      BY <3>1, <3>2, <3>3, <3>4 DEF Coverage, Working
  <2>2. CASE Goto(t, "wait") /\ UNCHANGED <<catalogue_state, scan>>
    BY <1>3, <2>2, CoverageOutside DEF TryBegin, Goto, TypeOK
  <2> QED
    BY <1>3, <2>1, <2>2 DEF TryBegin, MayBegin, IfTaken
<1>4. ASSUME NEW t \in Threads, NEW f \in Families, f = family[t], pc[t] \in {"list", "inspect"}
      PROVE  /\ Working(t)
             /\ f \notin lost
             /\ \A g \in Families : Scanned(g) <=> g = "calendar" /\ f = "clock"
             /\ \A x \in Files : IsListed(f, x) \/ x \in found[t] \/ (pc[t] = "list" /\ x \in unread[t])
             /\ \A u \in Threads : Working(u) => u = t
  <2>1. Working(t)
    BY <1>4 DEF Working
  <2>2. \A g \in Families : Scanned(g) <=> g = "calendar" /\ f = "clock"
    BY <1>4, <2>1, ScannedByWorker
  <2> QED
    BY <1>4, <2>1, <2>2 DEF Coverage, Exclusive
<1>5. ASSUME NEW t \in Threads, Working(t), Working(t)', family' = family,
             pc[t] \in {"list", "inspect"}, pc'[t] \in {"list", "inspect"}, UNCHANGED lost,
             \A f \in Families : FoundIds(f) \subseteq FoundIds(f)' /\ (f # family[t] => entries'[f] = entries[f]),
             \A x \in Files : x \in found[t] \/ (pc[t] = "list" /\ x \in unread[t]) =>
               IsListed(family[t], x)' \/ x \in found'[t] \/ (pc'[t] = "list" /\ x \in unread'[t])
      PROVE  Coverage'
  <2>1. PICK f \in Families : f = family[t]
    BY DEF TypeOK
  <2>2. \A g \in Families : Scanned(g)' <=> Scanned(g)
    BY <1>5, ScannedByWorker, ScannedByNextWorker
  <2>3. \A g \in Families, x \in Files : IsListed(g, x) => IsListed(g, x)'
    BY <1>5, ListedKept
  <2>4. \A u \in Threads : Working(u)' => u = t
    BY <1>5 DEF Exclusive
  <2>5. \A g \in Families : g \in lost => g # family[t]
    BY <1>5, <2>1, <1>4
  <2>6. \A x \in Files : IsListed(f, x)' \/ x \in found'[t] \/ (pc'[t] = "list" /\ x \in unread'[t])
    BY <1>4, <1>5, <2>1, <2>3
  <2> QED
    BY <1>5, <2>1, <2>2, <2>3, <2>4, <2>5, <2>6 DEF Coverage, Working
<1>6. ASSUME NEW t \in Threads, ListEntry(t) PROVE Coverage'
  <2>1. PICK y \in unread[t] :
          /\ unread' = [unread EXCEPT ![t] = @ \ {y}]
          /\ found' = [found EXCEPT ![t] = IF disk[family[t]][y] = None THEN @ ELSE @ \cup {y}]
    BY <1>6 DEF ListEntry
  <2>2. PICK f \in Families : f = family[t]
    BY DEF TypeOK
  <2>3. /\ pc[t] = "list" /\ pc' = pc /\ family' = family /\ UNCHANGED <<lost, entries, disk>>
    BY <1>6 DEF ListEntry, arrays
  <2>4. disk[f][y] = None => IsListed(f, y)'
    BY <2>3 DEF IsListed, IsResource
  <2>5. Working(t) /\ Working(t)' /\ pc[t] \in {"list", "inspect"} /\ pc'[t] \in {"list", "inspect"}
    BY <2>3 DEF Working
  <2>6. \A g \in Families : FoundIds(g) \subseteq FoundIds(g)' /\ (g # family[t] => entries'[g] = entries[g])
    BY <2>3, IdsKept
  <2>7. \A x \in Files : x \in found[t] \/ (pc[t] = "list" /\ x \in unread[t]) =>
          IsListed(family[t], x)' \/ x \in found'[t] \/ (pc'[t] = "list" /\ x \in unread'[t])
    <3>1. /\ unread'[t] = unread[t] \ {y}
          /\ found'[t] = IF disk[f][y] = None THEN found[t] ELSE found[t] \cup {y}
      BY <2>1, <2>2 DEF TypeOK
    <3>2. IsListed(family[t], y)' \/ y \in found'[t]
      BY <3>1, <2>2, <2>3, <2>4
    <3> QED
      BY <3>1, <3>2, <2>3
  <2> QED
    BY <1>5, <2>3, <2>5, <2>6, <2>7
<1>7. ASSUME NEW t \in Threads, EndOfList(t) PROVE Coverage'
  <2>1. /\ pc[t] = "list" /\ pc'[t] = "inspect" /\ unread[t] = {}
        /\ family' = family /\ found' = found /\ UNCHANGED <<lost, entries>>
    BY <1>7 DEF EndOfList, Goto, arrays, scan, TypeOK
  <2>2. Working(t) /\ Working(t)' /\ pc[t] \in {"list", "inspect"} /\ pc'[t] \in {"list", "inspect"}
    BY <2>1 DEF Working
  <2>3. \A g \in Families : FoundIds(g) \subseteq FoundIds(g)' /\ (g # family[t] => entries'[g] = entries[g])
    BY <2>1, IdsKept
  <2>4. \A x \in Files : x \in found[t] \/ (pc[t] = "list" /\ x \in unread[t]) =>
          IsListed(family[t], x)' \/ x \in found'[t] \/ (pc'[t] = "list" /\ x \in unread'[t])
    BY <2>1
  <2> QED
    BY <1>5, <2>1, <2>2, <2>3, <2>4
<1>8. ASSUME NEW t \in Threads, Inspect(t) PROVE Coverage'
  <2>1. PICK y \in found[t] :
          /\ found' = [found EXCEPT ![t] = @ \ {y}]
          /\ \/ /\ IsResource(disk[family[t]][y], family[t])
                /\ Append1(family[t], disk[family[t]][y])
             \/ /\ IsResource(disk[family[t]][y], family[t]) => IdOf[disk[family[t]][y]] \in KnownIds(family[t])
                /\ UNCHANGED arrays
    BY <1>8 DEF Inspect
  <2>2. PICK f \in Families : f = family[t]
    BY DEF TypeOK
  <2>3. /\ pc[t] = "inspect" /\ pc' = pc /\ family' = family /\ UNCHANGED <<lost, disk>>
        /\ y \in Files
    BY <1>8 DEF Inspect, TypeOK
  <2>4. /\ \A g \in Families : FoundIds(g) \subseteq FoundIds(g)' /\ (g # f => entries'[g] = entries[g])
        /\ IsListed(f, y)'
    <3>1. CASE UNCHANGED arrays /\ (IsResource(disk[f][y], f) => IdOf[disk[f][y]] \in KnownIds(f))
      BY <3>1, <2>3, IdsKept DEF arrays, IsListed, KnownIds
    <3>2. CASE IsResource(disk[f][y], f) /\ Append1(family[t], disk[family[t]][y])
      <4>1. PICK m \in Modules : m = disk[f][y]
        BY <2>3, <3>2 DEF IsResource, TypeOK
      <4>2. Append1(f, m)
        BY <2>2, <3>2, <4>1 DEF Append1
      <4>3. /\ FoundIds(f)' = FoundIds(f) \cup {IdOf[m]}
            /\ \A g \in Families \ {f} : entries'[g] = entries[g]
        BY <4>2, AppendIds
      <4> QED
        BY <4>1, <4>3, <2>3, IdsKept DEF IsListed
    <3> QED
      BY <2>1, <2>2, <3>1, <3>2
  <2>5. Working(t) /\ Working(t)' /\ pc[t] \in {"list", "inspect"} /\ pc'[t] \in {"list", "inspect"}
    BY <2>3 DEF Working
  <2>6. \A g \in Families : FoundIds(g) \subseteq FoundIds(g)' /\ (g # family[t] => entries'[g] = entries[g])
    BY <2>2, <2>4
  <2>7. \A x \in Files : x \in found[t] \/ (pc[t] = "list" /\ x \in unread[t]) =>
          IsListed(family[t], x)' \/ x \in found'[t] \/ (pc'[t] = "list" /\ x \in unread'[t])
    <3>1. found'[t] = found[t] \ {y}
      BY <2>1 DEF TypeOK
    <3>2. IsListed(family[t], y)'
      BY <2>2, <2>3, <2>4
    <3> QED
      BY <3>1, <3>2, <2>3
  <2> QED
    BY <1>5, <2>3, <2>5, <2>6, <2>7
<1>9. ASSUME NEW t \in Threads, NEW f \in Families, f = family[t], pc[t] \in {"list", "inspect"}, NextFamily(t),
             \A g \in Families \ {f} : g \in lost' <=> g \in lost,
             \A g \in Families \ {f} : entries'[g] = entries[g],
             f \in lost' => entries'[f] = <<>>,
             f \notin lost' => \A x \in Files : IsListed(f, x)'
      PROVE  Coverage'
  <2>1. \A u \in Threads : Working(u)' => u = t
    <3>1. Working(t)'
      BY <1>9 DEF NextFamily, StartScan, Goto, Working, TypeOK
    <3> QED
      BY <3>1 DEF Exclusive
  <2>2. CASE f = "calendar"
    <3>1. /\ Working(t)' /\ pc'[t] = "list" /\ family'[t] = "clock" /\ unread'[t] = Files
      BY <1>9, <2>2 DEF NextFamily, StartScan, Goto, Working, TypeOK
    <3>2. \A g \in Families : Scanned(g)' <=> g = "calendar"
      BY <3>1, ScannedByNextWorker
    <3>3. "clock" \notin lost'
      BY <1>9, <1>4, <2>2 DEF Coverage, Families
    <3> QED
      BY <1>9, <2>1, <2>2, <3>1, <3>2, <3>3 DEF Coverage, Working, Families
  <2>3. CASE f = "clock"
    <3>1. Working(t)' /\ pc'[t] = "publish"
      BY <1>9, <2>3 DEF NextFamily, Goto, Working, TypeOK
    <3>2. \A g \in Families : Scanned(g)'
      BY <3>1, ScannedByNextWorker
    <3>3. Scanned("calendar")
      BY <1>9, <1>4, <2>3 DEF Families
    <3>4. "calendar" \notin lost' => \A x \in Files : IsListed("calendar", x)'
      BY <1>9, <2>3, <3>3, ListedKept, IdsKept DEF Coverage, Families
    <3>5. "calendar" \in lost' => entries'["calendar"] = <<>>
      BY <1>9, <2>3 DEF Coverage, Families
    <3> QED
      BY <1>9, <2>1, <2>3, <3>1, <3>2, <3>4, <3>5 DEF Coverage, Working, Families
  <2> QED
    BY <2>2, <2>3 DEF Families
<1>10. ASSUME NEW t \in Threads, EndOfScan(t) PROVE Coverage'
  <2>1. PICK f \in Families : f = family[t]
    BY DEF TypeOK
  <2>2. /\ pc[t] = "inspect" /\ NextFamily(t) /\ found[t] = {} /\ UNCHANGED <<entries, lost>>
    BY <1>10 DEF EndOfScan, arrays
  <2>3. f \notin lost /\ \A x \in Files : IsListed(f, x)'
    BY <1>4, <2>1, <2>2, ListedKept, IdsKept
  <2> QED
    BY <1>9, <2>1, <2>2, <2>3
<1>11. ASSUME NEW t \in Threads, FailScan(t) PROVE Coverage'
  <2>1. PICK f \in Families : f = family[t]
    BY DEF TypeOK
  <2>2. /\ pc[t] \in {"list", "inspect"} /\ NextFamily(t) /\ lost' = lost \cup {f}
        /\ entries' = [entries EXCEPT ![f] = <<>>]
    BY <1>11, <2>1 DEF FailScan, AfterFailure, Clear
  <2> QED
    BY <1>9, <2>1, <2>2 DEF TypeOK
<1>12. ASSUME NEW t \in Threads, MarkReady(t) PROVE Coverage'
  <2>1. /\ Working(t) /\ catalogue_state' = "ready" /\ UNCHANGED <<entries, lost>>
        /\ \A u \in Threads : ~Working(u)'
    BY <1>12 DEF MarkReady, Working, Exclusive, arrays, Goto, TypeOK
  <2>2. \A f \in Families : Scanned(f) /\ Scanned(f)'
    BY <1>12, <2>1, ScannedByWorker DEF MarkReady, Scanned
  <2> QED
    BY <2>1, <2>2, ListedKept, IdsKept DEF Coverage, Working
<1> QED
  BY <1>1, <1>2, <1>3, <1>6, <1>7, <1>8, <1>10, <1>11, <1>12 DEF Next, Proceed

\* What a step does to the entries of a family and to what waits to be inspected.
LEMMA EntriesCases ==
  ASSUME TypeOK, Exclusive, [Next]_vars, NEW f \in Families, Filled(f)
  PROVE  \/ entries'[f] = <<>>
         \/ /\ entries'[f] = entries[f]
            /\ \A u \in Threads : Inspecting(u, f)' => Inspecting(u, f) /\ found'[u] \subseteq found[u]
         \/ \E t \in Threads, m \in Modules : \E x \in found[t] :
              /\ Inspecting(t, f) /\ IsNext(t, x) /\ m = disk[f][x] /\ IdOf[m] \notin KnownIds(f)
              /\ found' = [found EXCEPT ![t] = @ \ {x}]
              /\ pc' = pc /\ family' = family
              /\ entries'[f] = Append(entries[f], m)
<1> DEFINE Kept == /\ entries'[f] = entries[f]
                   /\ \A u \in Threads : Inspecting(u, f)' => Inspecting(u, f) /\ found'[u] \subseteq found[u]
           Grown == \E t \in Threads, m \in Modules : \E x \in found[t] :
                      /\ Inspecting(t, f) /\ IsNext(t, x) /\ m = disk[f][x] /\ IdOf[m] \notin KnownIds(f)
                      /\ found' = [found EXCEPT ![t] = @ \ {x}]
                      /\ pc' = pc /\ family' = family
                      /\ entries'[f] = Append(entries[f], m)
<1> USE DEF TypeOK, Goto, Inspecting
<1>1. ASSUME NEW t \in Threads, Call(t) \/ Read(t) \/ CheckReady(t) \/ StopWaiting(t) \/ MarkReady(t)
      PROVE  Kept
  <2>1. UNCHANGED arrays /\ UNCHANGED scan /\ \E s \in Steps \ {"inspect"} : pc' = [pc EXCEPT ![t] = s]
    BY <1>1 DEF Call, Read, CheckReady, StopWaiting, MarkReady, Give, Steps
  <2> QED
    BY <2>1 DEF arrays, scan
<1>2. CASE ChangeDisk \/ UNCHANGED vars
  <2>1. Kept
    BY <1>2 DEF ChangeDisk, vars, arrays, scan
  <2> QED
    BY <2>1
<1>3. ASSUME NEW t \in Threads, StartScan(t, "calendar") \/ StartScan(t, "clock") PROVE
        \A u \in Threads : Inspecting(u, f)' => Inspecting(u, f) /\ found'[u] \subseteq found[u]
  BY <1>3 DEF StartScan
<1>4. ASSUME NEW t \in Threads, TryBegin(t) PROVE Kept
  <2>1. CASE StartScan(t, "calendar")
    BY <1>3, <1>4, <2>1 DEF TryBegin, arrays
  <2>2. CASE Goto(t, "wait") /\ UNCHANGED scan
    BY <1>4, <2>2 DEF TryBegin, arrays, scan
  <2> QED
    BY <1>4, <2>1, <2>2 DEF TryBegin, IfTaken
<1>5. ASSUME NEW t \in Threads, ListEntry(t) PROVE Kept
  BY <1>5 DEF ListEntry, arrays
<1>6. ASSUME NEW t \in Threads, EndOfList(t) PROVE entries'[f] = <<>> \/ Kept
  <2>1. /\ pc[t] = "list" /\ pc' = [pc EXCEPT ![t] = "inspect"] /\ UNCHANGED arrays /\ UNCHANGED scan
    BY <1>6 DEF EndOfList
  <2>2. CASE family[t] = f
    <3>1. Working(t)
      BY <2>1 DEF Working
    <3>2. ~Scanned(f)
      BY <2>1, <2>2, <3>1, ScannedByWorker
    <3>3. \A u \in Threads : ~Inspecting(u, f)
      BY <2>1, <3>1 DEF Exclusive, Working
    <3> QED
      BY <2>1, <3>2, <3>3 DEF Filled, arrays
  <2>3. CASE family[t] # f
    BY <2>1, <2>3 DEF arrays, scan
  <2> QED
    BY <2>2, <2>3
<1>7. ASSUME NEW t \in Threads, NextFamily(t) PROVE
        \A u \in Threads : Inspecting(u, f)' => Inspecting(u, f) /\ found'[u] \subseteq found[u]
  <2>1. CASE StartScan(t, "clock")
    BY <1>3, <2>1
  <2>2. CASE Goto(t, "publish") /\ UNCHANGED scan
    BY <2>2 DEF scan
  <2> QED
    BY <1>7, <2>1, <2>2 DEF NextFamily
<1>8. ASSUME NEW t \in Threads, EndOfScan(t) PROVE Kept
  BY <1>7, <1>8 DEF EndOfScan, arrays
<1>9. ASSUME NEW t \in Threads, FailScan(t) PROVE entries'[f] = <<>> \/ Kept
  <2>1. NextFamily(t) /\ entries' = [entries EXCEPT ![family[t]] = <<>>]
    BY <1>9 DEF FailScan, AfterFailure, Clear
  <2> QED
    BY <1>7, <2>1
<1>10. ASSUME NEW t \in Threads, Inspect(t) PROVE Kept \/ Grown
  <2>1. PICK x \in found[t] :
          /\ IsNext(t, x)
          /\ found' = [found EXCEPT ![t] = @ \ {x}]
          /\ \/ /\ IsResource(disk[family[t]][x], family[t])
                /\ IdOf[disk[family[t]][x]] \notin KnownIds(family[t])
                /\ Append1(family[t], disk[family[t]][x])
             \/ UNCHANGED arrays
    BY <1>10 DEF Inspect
  <2>2. pc[t] = "inspect" /\ pc' = pc /\ family' = family /\ disk' = disk
    BY <1>10 DEF Inspect
  <2>3. \A u \in Threads : Inspecting(u, f)' => Inspecting(u, f) /\ found'[u] \subseteq found[u]
    BY <2>1, <2>2
  <2>4. CASE UNCHANGED arrays
    BY <2>3, <2>4 DEF arrays
  <2>5. CASE ~UNCHANGED arrays
    <3>1. entries' = [entries EXCEPT ![family[t]] = Append(@, disk[family[t]][x])]
      BY <2>1, <2>5 DEF Append1
    <3>2. CASE family[t] # f
      BY <2>3, <3>1, <3>2
    <3>3. CASE family[t] = f
      <4>1. disk[f][x] \in Modules
        BY <2>1, <2>5, <3>3 DEF IsResource
      <4>2. entries'[f] = Append(entries[f], disk[f][x])
        BY <3>1, <3>3
      <4> QED
        BY <2>1, <2>2, <2>5, <3>3, <4>1, <4>2
    <3> QED
      BY <3>2, <3>3
  <2> QED
    BY <2>4, <2>5
<1> QED
  BY <1>1, <1>2, <1>4, <1>5, <1>6, <1>8, <1>9, <1>10 DEF Next, Proceed

\* A family has its first entry when its candidates are inspected, and keeps
\* what it has when its scan is over.
LEMMA StepFilled ==
  ASSUME TypeOK, Exclusive, Exclusive', [Next]_vars, NEW f \in Families, Filled(f)
  PROVE  Filled(f)'
<1> USE DEF TypeOK, Goto, Inspecting
<1>1. CASE entries'[f] = <<>>
  BY <1>1 DEF Filled
<1>2. ASSUME NEW t \in Threads, Inspecting(t, f), pc' = pc, family' = family PROVE Filled(f)'
  BY <1>2 DEF Filled
<1>3. CASE Scanned(f)
  <2>1. CASE catalogue_state = "ready"
    <3>1. catalogue_state' = "ready"
      BY <2>1 DEF Next, Proceed, vars, Call, CheckReady, TryBegin, MayBegin, StopWaiting, ListEntry,
         EndOfList, Inspect, EndOfScan, FailScan, MarkReady, Read, ChangeDisk
    <3> QED
      BY <3>1 DEF Filled, Scanned
  <2>2. ASSUME NEW t \in Threads, Working(t), pc[t] = "publish" \/ (f = "calendar" /\ family[t] = "clock")
        PROVE  Scanned(f)'
    <3>1. CASE \E u \in Threads : u # t /\ (Call(u) \/ Proceed(u))
      <4>1. PICK u \in Threads : u # t /\ (Call(u) \/ Proceed(u))
        BY <3>1
      <4>2. ~Working(u) /\ catalogue_state = "initialising"
        BY <2>2, <4>1 DEF Exclusive
      <4>3. pc'[t] = pc[t] /\ family'[t] = family[t]
        BY <4>1, <4>2 DEF Working, Proceed, Call, Give, CheckReady, TryBegin, MayBegin, StopWaiting, ListEntry,
           EndOfList, Inspect, EndOfScan, FailScan, MarkReady, Read, scan
      <4> QED
        BY <2>2, <4>3 DEF Scanned, Working
    <3>2. CASE Call(t) \/ Proceed(t)
      <4>1. CASE pc[t] = "publish"
        <5>1. catalogue_state' = "ready"
          BY <3>2, <4>1 DEF Proceed, Call, CheckReady, TryBegin, StopWaiting, ListEntry, EndOfList, Inspect,
             EndOfScan, FailScan, MarkReady, Read
        <5> QED
          BY <5>1 DEF Scanned
      <4>2. CASE f = "calendar" /\ family[t] = "clock" /\ pc[t] \in {"list", "inspect"}
        <5>1. family'[t] = "clock" /\ pc'[t] \in {"list", "inspect", "publish"}
          BY <3>2, <4>2 DEF Proceed, Call, CheckReady, TryBegin, StopWaiting, ListEntry, EndOfList, Inspect,
             EndOfScan, FailScan, AfterFailure, NextFamily, MarkReady, Read, scan
        <5> QED
          BY <4>2, <5>1 DEF Scanned, Working
      <4> QED
        BY <2>2, <4>1, <4>2 DEF Working
    <3>3. CASE ChangeDisk \/ UNCHANGED vars
      BY <2>2, <3>3 DEF ChangeDisk, vars, scan, Scanned, Working
    <3> QED
      BY <3>1, <3>2, <3>3 DEF Next
  <2> QED
    BY <1>3, <2>1, <2>2 DEF Scanned, Filled
<1>4. ASSUME entries'[f] = entries[f], NEW t \in Threads, Inspecting(t, f) PROVE Scanned(f)' \/ Inspecting(t, f)'
  <2>1. Working(t) /\ catalogue_state = "initialising"
    BY <1>4 DEF Working, Exclusive
  <2>2. ASSUME NEW u \in Threads, u # t, Call(u) \/ Proceed(u) PROVE pc'[t] = pc[t] /\ family'[t] = family[t]
    <3>1. ~Working(u)
      BY <2>1, <2>2 DEF Exclusive
    <3> QED
      BY <2>1, <2>2, <3>1 DEF Working, Proceed, Call, Give, CheckReady, TryBegin, MayBegin, StopWaiting, ListEntry,
         EndOfList, Inspect, EndOfScan, FailScan, MarkReady, Read, scan
  <2>3. CASE Call(t) \/ Proceed(t)
    <3>1. Inspect(t) \/ ((EndOfScan(t) \/ FailScan(t)) /\ NextFamily(t))
      BY <1>4, <2>3 DEF Proceed, Call, CheckReady, TryBegin, StopWaiting, ListEntry, EndOfList, MarkReady, Read,
         EndOfScan, FailScan, AfterFailure
    <3>2. CASE Inspect(t)
      BY <1>4, <3>2 DEF Inspect
    <3>3. CASE NextFamily(t) /\ f = "calendar"
      BY <1>4, <3>3 DEF NextFamily, StartScan, Scanned, Working
    <3>4. CASE NextFamily(t) /\ f = "clock"
      BY <1>4, <3>4 DEF NextFamily, Scanned, Working
    <3> QED
      BY <3>1, <3>2, <3>3, <3>4 DEF Families
  <2>4. CASE ChangeDisk \/ UNCHANGED vars
    BY <1>4, <2>4 DEF ChangeDisk, vars, scan
  <2>5. CASE \E u \in Threads : u # t /\ (Call(u) \/ Proceed(u))
    BY <1>4, <2>2, <2>5
  <2> QED
    BY <2>3, <2>4, <2>5 DEF Next
<1> QED
  <2>1. CASE entries'[f] = entries[f]
    BY <1>1, <1>3, <1>4, <2>1 DEF Filled
  <2>2. CASE \E t \in Threads : Inspecting(t, f) /\ pc' = pc /\ family' = family
    BY <1>2, <2>2
  <2> QED
    BY <1>1, <2>1, <2>2, EntriesCases

\* A new entry comes from the smallest of the candidates; the modules of the
\* files before it have been passed, with identifiers that are not its own.
LEMMA StepPlaced ==
  ASSUME TypeOK, Exclusive, Coverage, [Next]_vars, NEW f \in Families, Untouched(f), Filled(f), Placed(f)
  PROVE  Placed(f)'
<1>1. /\ \A x \in Files : disk'[f][x] = disk[f][x]
      /\ entries[f] \in Seq(Modules) /\ Files \subseteq Nat
  BY DiskStep, CatalogueAssumption DEF Untouched, TypeOK
<1>2. PICK place \in [DOMAIN entries[f] -> Files] :
        /\ LoadedFrom(f, place)
        /\ \A t \in Threads : Inspecting(t, f) => \A i \in DOMAIN entries[f], x \in found[t] : place[i] < x
  BY DEF Placed
<1>3. CASE entries'[f] = <<>>
  <2>1. DOMAIN entries'[f] = {}
    BY <1>3
  <2>2. PICK none \in [DOMAIN entries'[f] -> Files] : TRUE
    <3>1. [i \in DOMAIN entries'[f] |-> 0] \in [DOMAIN entries'[f] -> Files]
      BY <2>1
    <3> QED
      BY <3>1
  <2> QED
    BY <2>1, <2>2 DEF Placed, LoadedFrom
<1>4. CASE /\ entries'[f] = entries[f]
           /\ \A u \in Threads : Inspecting(u, f)' => Inspecting(u, f) /\ found'[u] \subseteq found[u]
  <2>1. LoadedFrom(f, place)'
    <3>1. \A i, j \in DOMAIN entries'[f] : i < j => place[i] < place[j]
      BY <1>2, <1>4 DEF LoadedFrom
    <3>2. \A i \in DOMAIN entries'[f] :
            /\ place[i] \in Files /\ disk[f][place[i]] = entries'[f][i]
            /\ \A x \in Files : x < place[i] /\ IsResource(disk[f][x], f) => IdOf[disk[f][x]] # IdOf[entries'[f][i]]
      BY <1>2, <1>4 DEF LoadedFrom
    <3>3. \A i \in DOMAIN entries'[f] :
            /\ disk'[f][place[i]] = entries'[f][i]
            /\ \A x \in Files : x < place[i] /\ IsResource(disk'[f][x], f) => IdOf[disk'[f][x]] # IdOf[entries'[f][i]]
      BY <1>1, <3>2
    <3> QED
      BY <3>1, <3>3 DEF LoadedFrom, IsResource
  <2>2. \A t \in Threads : Inspecting(t, f)' => \A i \in DOMAIN entries'[f], x \in found'[t] : place[i] < x
    BY <1>2, <1>4
  <2> QED
    BY <1>2, <1>4, <2>1, <2>2 DEF Placed
<1>5. ASSUME NEW t \in Threads, NEW m \in Modules, NEW y \in found[t],
             Inspecting(t, f), IsNext(t, y), m = disk[f][y], IdOf[m] \notin KnownIds(f),
             found' = [found EXCEPT ![t] = @ \ {y}], pc' = pc, family' = family,
             entries'[f] = Append(entries[f], m)
      PROVE  Placed(f)'
  <2> DEFINE last == Len(entries[f]) + 1
             next == [i \in 1..last |-> IF i = last THEN y ELSE place[i]]
  <2>1. /\ DOMAIN entries[f] = 1..Len(entries[f]) /\ DOMAIN entries'[f] = 1..last
        /\ \A i \in DOMAIN entries[f] : i \in 1..last /\ i # last /\ i < last /\ entries'[f][i] = entries[f][i]
        /\ entries'[f][last] = m /\ last \in 1..last
        /\ \A i \in 1..last : i = last \/ i \in DOMAIN entries[f]
        /\ Len(entries[f]) \in Nat
    BY <1>1, <1>5
  <2>2. y \in Files /\ Files \subseteq Nat
    BY <1>1 DEF TypeOK
  <2>3. next \in [1..last -> Files]
    BY <1>2, <2>1, <2>2
  <2>4. /\ next[last] = y
        /\ \A i \in DOMAIN entries[f] : next[i] = place[i] /\ place[i] < y /\ place[i] \in Nat
    BY <1>2, <1>5, <2>1, <2>2
  <2>5. ASSUME NEW x \in Files, x < y, IsResource(disk[f][x], f) PROVE IdOf[disk[f][x]] # IdOf[m]
    <3>1. x \notin found[t]
      <4>1. x \in found[t] => y <= x
        BY <1>5 DEF IsNext
      <4> QED
        BY <2>2, <2>5, <4>1
    <3>2. IsListed(f, x)
      BY <1>5, <3>1 DEF Coverage, Inspecting
    <3> QED
      BY <1>5, <2>5, <3>2 DEF IsListed, Untouched, KnownIds
  <2>6. \A i, j \in 1..last : i < j => next[i] < next[j]
    <3> SUFFICES ASSUME NEW i \in 1..last, NEW j \in 1..last, i < j PROVE next[i] < next[j]
      OBVIOUS
    <3>1. i \in DOMAIN entries[f]
      BY <2>1
    <3>2. CASE j = last
      BY <2>4, <3>1, <3>2
    <3>3. CASE j \in DOMAIN entries[f]
      <4>1. place[i] < place[j]
        BY <1>2, <3>1, <3>3 DEF LoadedFrom
      <4> QED
        BY <2>4, <3>1, <3>3, <4>1
    <3> QED
      BY <2>1, <3>2, <3>3
  <2>7. ASSUME NEW i \in 1..last
        PROVE  /\ disk'[f][next[i]] = entries'[f][i]
               /\ \A x \in Files : x < next[i] /\ IsResource(disk'[f][x], f) => IdOf[disk'[f][x]] # IdOf[entries'[f][i]]
    <3>1. CASE i = last
      BY <1>1, <1>5, <2>1, <2>2, <2>4, <2>5, <3>1
    <3>2. CASE i \in DOMAIN entries[f]
      <4>1. /\ disk[f][place[i]] = entries[f][i] /\ place[i] \in Files
            /\ \A x \in Files : x < place[i] /\ IsResource(disk[f][x], f) => IdOf[disk[f][x]] # IdOf[entries[f][i]]
        BY <1>2, <3>2 DEF LoadedFrom
      <4>2. next[i] = place[i] /\ entries'[f][i] = entries[f][i]
        BY <2>1, <2>4, <3>2
      <4> QED
        BY <1>1, <4>1, <4>2
    <3> QED
      BY <2>1, <3>1, <3>2
  <2>8. ASSUME NEW u \in Threads, Inspecting(u, f)', NEW i \in 1..last, NEW x \in found'[u] PROVE next[i] < x
    <3>1. u = t
      BY <1>5, <2>8 DEF Exclusive, Working, Inspecting
    <3>2. x \in found[t] /\ x # y
      BY <1>5, <2>8, <3>1 DEF TypeOK
    <3>3. x \in Nat /\ y <= x
      BY <1>5, <2>2, <3>2 DEF IsNext, TypeOK
    <3>4. y < x /\ y \in Nat
      BY <2>2, <3>2, <3>3
    <3>5. CASE i = last
      BY <2>4, <3>4, <3>5
    <3>6. CASE i \in DOMAIN entries[f]
      <4>1. next[i] = place[i] /\ place[i] < y /\ place[i] \in Nat
        BY <2>4, <3>6
      <4> HIDE DEF next
      <4> QED
        BY <4>1, <3>3, <3>4
    <3> QED
      BY <2>1, <3>5, <3>6
  <2> HIDE DEF next, last
  <2>9. PICK grown \in [DOMAIN entries'[f] -> Files] : grown = next
    BY <2>1, <2>3
  <2>10. LoadedFrom(f, grown)'
    <3>1. \A i, j \in DOMAIN entries'[f] : i < j => grown[i] < grown[j]
      BY <2>1, <2>6, <2>9
    <3>2. \A i \in DOMAIN entries'[f] :
            /\ disk'[f][grown[i]] = entries'[f][i]
            /\ \A x \in Files : x < grown[i] /\ IsResource(disk'[f][x], f) => IdOf[disk'[f][x]] # IdOf[entries'[f][i]]
      BY <2>1, <2>7, <2>9
    <3> QED
      BY <3>1, <3>2 DEF LoadedFrom, IsResource
  <2>11. \A u \in Threads : Inspecting(u, f)' => \A i \in DOMAIN entries'[f], x \in found'[u] : grown[i] < x
    BY <2>1, <2>8, <2>9
  <2> QED
    BY <2>9, <2>10, <2>11 DEF Placed
<1> QED
  BY <1>3, <1>4, <1>5, EntriesCases

LEMMA StepOrdered == TypeOK /\ Exclusive /\ Coverage /\ Ordered /\ [Next]_vars /\ Exclusive' => Ordered'
BY StepFilled, StepPlaced DEF Ordered, Untouched

\* The argument of the module TemporalCatalogueInvariant is an induction.
THEOREM Inductive == Spec => []IInv
<1>1. Init => IInv
  <2> SUFFICES ASSUME Init PROVE IInv
    OBVIOUS
  <2>1. Exclusive /\ AnswersStand
    BY DEF Init, Exclusive, Working, AnswersStand
  <2>2. IdsAreUnique
    BY DEF Init, IdsAreUnique, FoundIds
  <2>3. Coverage
    BY DEF Init, Coverage, Scanned, Working
  <2>4. Ordered
    <3>1. ASSUME NEW f \in Families PROVE Filled(f) /\ Placed(f)
      <4>1. entries[f] = <<>> /\ DOMAIN entries[f] = {}
        BY DEF Init
      <4>2. [i \in DOMAIN entries[f] |-> 0] \in [DOMAIN entries[f] -> Files]
        BY <4>1
      <4> QED
        BY <4>1, <4>2 DEF Filled, Placed, LoadedFrom
    <3> QED
      BY <3>1 DEF Ordered
  <2> QED
    BY <2>1, <2>2, <2>3, <2>4 DEF IInv
<1>2. TypeOK /\ IInv /\ [Next]_vars /\ TypeOK' => IInv'
  BY StepExclusive, StepAnswers, StepUnique, StepCoverage, StepOrdered DEF IInv
<1> QED
  BY <1>1, <1>2, TypeCorrect, PTL DEF Spec

\* No thread ever sees an unfinished catalogue, and no answer is ever taken back.
THEOREM AnswersAlwaysStand == Spec => []AnswersStand
<1>1. IInv => AnswersStand
  BY DEF IInv
<1> QED
  BY <1>1, Inductive, PTL

\* The merged catalogue never names an identifier twice.
THEOREM IdsAlwaysUnique == Spec => []IdsAreUnique
<1>1. IInv => IdsAreUnique
  BY DEF IInv
<1> QED
  BY <1>1, Inductive, PTL

\* The published catalogue has every module that stayed, or none of its family.
THEOREM InstalledAlwaysListed == Spec => []InstalledIsListed
<1>1. IInv => InstalledIsListed
  BY DEF IInv, Coverage, Scanned, IsListed, InstalledIsListed
<1> QED
  BY <1>1, Inductive, PTL

\* Which of two files with one identifier is listed, and where, depends on their
\* names only, although readdir gives them in any order.
THEOREM AlwaysInFileOrder == Spec => []InFileOrder
<1>1. IInv => InFileOrder
  BY DEF IInv, Ordered, Untouched, Placed, LoadedFrom, InFileOrder
<1> QED
  BY <1>1, Inductive, PTL
==============================================================================
