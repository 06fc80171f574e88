-------------------------- MODULE DateProviderProofs --------------------------
(***************************************************************************)
(* Proofs about DateProvider, for any calendars, modules and directories,  *)
(* and any lengths of the interval and of time.                            *)
(***************************************************************************)
EXTENDS DateProvider, TLAPS

LEMMA StepTyped == TypeOK /\ SlotsAgree /\ [Next]_vars => TypeOK'
<1> SUFFICES ASSUME TypeOK, SlotsAgree, [Next]_vars PROVE TypeOK'
  OBVIOUS
<1> USE ProviderAssumption DEF TypeOK
<1>1. ASSUME NEW id \in Ids, Call(id) PROVE TypeOK'
  <2>1. /\ retry_id' \in (Ids \ Overlong) \cup {NoId}
        /\ retry_after' \in 0..UInt64Max
    BY <1>1 DEF Call, provider, Later, Times
  <2>2. module' \in Modules \cup {None} /\ module_id' \in Ids \cup {NoId} /\ discover' \in BOOLEAN
    BY <1>1 DEF Call, provider, ClearModule
  <2>3. pc' \in {"idle", "scan", "open"}
    BY <1>1 DEF Call, Render, Return
  <2>4. result' \in [end : {"none", "shown", "unshown", "limited", "failed"},
                     id : Ids \cup {NoId}, by : Modules \cup {None}]
    BY <1>1 DEF Call, Render, Return
  <2>5. searched' \in [Ids -> Times \cup {Never}]
    BY <1>1 DEF Call
  <2>6. streak' \in [id : Ids \cup {NoId}, time : Times \cup {Never}]
    BY <1>1 DEF Call, StreakOf, NoStreak
  <2> QED
    BY <1>1, <2>1, <2>2, <2>3, <2>4, <2>5, <2>6 DEF Call
<1>2. CASE Scan
  BY <1>2 DEF Scan, Holders, Return, provider
<1>3. CASE Open
  <2>1. result' \in [end : {"none", "shown", "unshown", "limited", "failed"},
                     id : Ids \cup {NoId}, by : Modules \cup {None}]
    BY <1>3 DEF Open, Render, Return, IsWanted
  <2>2. pc' \in {"idle", "scan", "open"} /\ module' \in Modules \cup {None} /\ module_id' \in Ids \cup {NoId}
    BY <1>3 DEF Open, Render, Return, IsWanted
  <2>3. retry_id' \in (Ids \ Overlong) \cup {NoId} /\ retry_after' \in 0..UInt64Max
    BY <1>3 DEF Open
  <2>4. searched' \in [Ids -> Times \cup {Never}] /\ streak' \in [id : Ids \cup {NoId}, time : Times \cup {Never}]
    BY <1>3 DEF Open, NoStreak
  <2> QED
    BY <1>3, <2>1, <2>2, <2>3, <2>4 DEF Open
<1>4. CASE Tick
  BY <1>4 DEF Tick, provider, history, Times
<1>5. CASE ChangeDisk
  BY <1>5 DEF ChangeDisk, provider, history
<1>6. CASE UNCHANGED vars
  BY <1>6 DEF vars
<1> QED
  BY <1>1, <1>2, <1>3, <1>4, <1>5, <1>6 DEF Next

LEMMA StepAgree == TypeOK /\ SlotsAgree /\ [Next]_vars => SlotsAgree'
<1> SUFFICES ASSUME TypeOK, SlotsAgree, [Next]_vars PROVE SlotsAgree'
  OBVIOUS
<1> USE ProviderAssumption DEF TypeOK, SlotsAgree
<1>1. ASSUME NEW id \in Ids, Call(id), pc' # "scan" PROVE SlotsAgree'
  <2>1. /\ pc = "idle" /\ pc' = "idle" /\ UNCHANGED searched /\ streak' = StreakOf(id)
        /\ UNCHANGED <<module, module_id>> \/ module' = None
        /\ UNCHANGED <<retry_id, retry_after>> \/ (retry_id' = NoId /\ id \in Overlong)
    BY <1>1 DEF Call, Render, Return, ClearModule, provider
  <2>2. retry_id' = NoId => streak'.id = NoId
    BY <2>1 DEF StreakOf, NoStreak
  <2>3. streak'.id # NoId => streak' = streak
    BY <2>1 DEF StreakOf, NoStreak
  <2> QED
    BY <2>1, <2>2, <2>3
<1>2. ASSUME NEW id \in Ids, Call(id), pc' = "scan" PROVE SlotsAgree'
  <2>1. /\ module' = None /\ calendar_id' = id /\ retry_id' = id /\ id # NoId
        /\ retry_after' = Later /\ searched' = [searched EXCEPT ![id] = now]
        /\ streak' = [id |-> id, time |-> now]
    BY <1>2 DEF Call, Render, Return, ClearModule
  <2>2. now \in Nat /\ now < UInt64Max
    BY DEF Times
  <2>3. Later <= now + Minute /\ (Later = UInt64Max \/ Later = now + Minute)
    BY <2>2 DEF Later
  <2> QED
    BY <2>1, <2>2, <2>3 DEF Never
<1>3. CASE Scan
  BY <1>3 DEF Scan, Return, provider
<1>4. CASE Open
  BY <1>4 DEF Open, Render, Return, IsWanted, NoStreak
<1>5. CASE Tick \/ ChangeDisk \/ UNCHANGED vars
  BY <1>5 DEF Tick, ChangeDisk, provider, history, vars
<1> QED
  BY <1>1, <1>2, <1>3, <1>4, <1>5 DEF Next

\* The provider's fields stay in their domains; the retry time never wraps.
THEOREM TypeCorrect == Spec => [](TypeOK /\ SlotsAgree)
<1>1. Init => TypeOK /\ SlotsAgree
  <2> SUFFICES ASSUME Init PROVE TypeOK /\ SlotsAgree
    OBVIOUS
  <2> USE ProviderAssumption DEF Init
  <2>1. /\ disk \in Disks /\ now \in Times /\ retry_id = NoId /\ retry_after \in 0..UInt64Max
        /\ pc = "idle" /\ calendar_id = NoId /\ module_path = 0
    BY DEF Times
  <2>2. /\ discover \in BOOLEAN /\ module \in Modules \cup {None} /\ module_id \in Ids \cup {NoId}
        /\ module # None => module \in Runnable /\ module_id = IdOf[module]
    OBVIOUS
  <2>3. result \in [end : {"none", "shown", "unshown", "limited", "failed"},
                    id : Ids \cup {NoId}, by : Modules \cup {None}]
    OBVIOUS
  <2>4. searched \in [Ids -> Times \cup {Never}]
    OBVIOUS
  <2>5. streak \in [id : Ids \cup {NoId}, time : Times \cup {Never}] /\ streak.id = NoId
    BY DEF NoStreak
  <2> QED
    BY <2>1, <2>2, <2>3, <2>4, <2>5 DEF TypeOK, SlotsAgree
<1> QED
  BY <1>1, StepTyped, StepAgree, PTL DEF Spec

\* The argument of SlotsAgree is an induction.
THEOREM SlotsAlwaysAgree == Spec => []SlotsAgree
BY TypeCorrect, PTL

\* A date is never rendered by the module of another calendar.
THEOREM NothingSubstituted == Spec => []NeverSubstituted
<1>1. Init => NeverSubstituted
  BY DEF Init, NeverSubstituted
<1>2. SlotsAgree /\ NeverSubstituted /\ [Next]_vars => NeverSubstituted'
  <2> SUFFICES ASSUME SlotsAgree, NeverSubstituted, [Next]_vars PROVE NeverSubstituted'
    OBVIOUS
  <2>1. ASSUME NEW id \in Ids, Call(id) PROVE NeverSubstituted'
    <3>1. CASE Matches(id) /\ Render(id, module)
      BY <3>1 DEF Matches, Render, Return, SlotsAgree, NeverSubstituted
    <3>2. CASE Return("failed", id, None) \/ Return("limited", id, None) \/ UNCHANGED result
      BY <3>2 DEF Return, NeverSubstituted
    <3> QED
      BY <2>1, <3>1, <3>2 DEF Call
  <2>2. CASE Scan
    BY <2>2 DEF Scan, Return, NeverSubstituted
  <2>3. CASE Open
    BY <2>3 DEF Open, Render, Return, IsWanted, NeverSubstituted
  <2>4. CASE Tick \/ ChangeDisk \/ UNCHANGED vars
    BY <2>4 DEF Tick, ChangeDisk, history, vars, NeverSubstituted
  <2> QED
    BY <2>1, <2>2, <2>3, <2>4 DEF Next
<1> QED
  BY <1>1, <1>2, SlotsAlwaysAgree, PTL DEF Spec

\* A calendar is refused for a minute after a search that failed, no longer.
THEOREM RefusalAlwaysRecent == Spec => RefusalIsRecent
<1>1. TypeOK /\ SlotsAgree /\ [Next]_vars =>
        [result' # result /\ result'.end = "limited" =>
           LET last == searched[result'.id] IN last # Never /\ now < last + Minute]_vars
  <2> SUFFICES ASSUME TypeOK, SlotsAgree, Next, result' # result, result'.end = "limited"
               PROVE  searched[result'.id] # Never /\ now < searched[result'.id] + Minute
    OBVIOUS
  <2>1. PICK id \in Ids : Call(id)
    BY DEF Next, Scan, Open, Render, Return, Tick, ChangeDisk, history
  <2>2. TooSoon(id) /\ result'.id = id
    BY <2>1 DEF Call, Render, Return
  <2>3. /\ retry_id = id /\ id # NoId /\ now < retry_after
        /\ searched[id] # Never /\ retry_after <= searched[id] + Minute
    BY <2>2, ProviderAssumption DEF TooSoon, SlotsAgree
  <2>4. now \in Nat /\ retry_after \in Nat /\ searched[id] \in Nat /\ Minute \in Nat
    BY ProviderAssumption DEF TypeOK, Times, Never
  <2> QED
    BY <2>2, <2>3, <2>4
<1> QED
  BY <1>1, TypeCorrect, PTL DEF Spec, RefusalIsRecent

\* A consumer of one missing calendar causes one scan a minute.
THEOREM OneConsumerAlwaysSearchesOnce == Spec => OneConsumerSearchesOnce
<1>1. TypeOK /\ SlotsAgree /\ [Next]_vars =>
        [\A id \in Ids : pc = "idle" /\ pc' = "scan" /\ calendar_id' = id /\ streak.id = id =>
           now >= streak.time + Minute]_vars
  <2> SUFFICES ASSUME TypeOK, SlotsAgree, Next, NEW id \in Ids, pc = "idle", pc' = "scan",
                      calendar_id' = id, streak.id = id
               PROVE  now >= streak.time + Minute
    OBVIOUS
  <2>1. PICK i \in Ids : Call(i)
    BY DEF Next, Scan, Open, Render, Return, Tick, ChangeDisk
  <2>2. ~TooSoon(id) /\ id # NoId
    BY <2>1, ProviderAssumption DEF Call, Render, Return
  <2>3. now >= retry_after /\ (retry_after = UInt64Max \/ retry_after = streak.time + Minute)
    BY <2>2, ProviderAssumption DEF TooSoon, SlotsAgree, TypeOK, Times
  <2>4. /\ now < UInt64Max /\ now \in Nat /\ UInt64Max \in Nat
        /\ streak.time \in Nat /\ Minute \in Nat /\ retry_after \in Nat
    BY ProviderAssumption DEF TypeOK, Times, Never
  <2> QED
    BY <2>3, <2>4
<1> QED
  BY <1>1, TypeCorrect, PTL DEF Spec, OneConsumerSearchesOnce
==============================================================================
