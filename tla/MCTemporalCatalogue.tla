------------------------- MODULE MCTemporalCatalogue -------------------------
(* Instances of TemporalCatalogue for TLC. *)
EXTENDS TemporalCatalogueInvariant, TLC

CONSTANTS t1, t2, compiled, coptic, hebrew, sundial,
          mcoptic, mhebrew, mcoptic2, mcompiled, msundial, mbroken, moon, mmoon

MCThreads == {t1, t2}
MCModules == {mcoptic, mhebrew, mcoptic2, mcompiled, msundial, mmoon, mbroken}
MCIds == {compiled, coptic, hebrew, sundial, moon}
MCIdOf == (mcoptic :> coptic) @@ (mhebrew :> hebrew) @@ (mcoptic2 :> coptic)
            @@ (mcompiled :> compiled) @@ (msundial :> sundial) @@ (mmoon :> moon) @@ (mbroken :> coptic)
MCKindOf == (mcoptic :> "calendar") @@ (mhebrew :> "calendar") @@ (mcoptic2 :> "calendar")
            @@ (mcompiled :> "calendar") @@ (msundial :> "clock") @@ (mmoon :> "clock") @@ (mbroken :> "neither")
MCBuiltins == [f \in Families |-> IF f = "calendar" THEN <<compiled>> ELSE <<>>]

Disk(c, m) == [f \in Families |-> IF f = "calendar" THEN c ELSE m]
\* One thread on its own, with three calendar files of any contents.
LoneDisks ==
  {Disk(c, <<m, None, None>>) : c \in [1..3 -> {mcoptic, mhebrew, mcoptic2, mcompiled, mbroken, None}],
                                m \in {msundial, mcoptic}}
\* Two threads, with one clock file and one that comes and goes, and a clock in
\* the directory of the calendars.
PairDisk == Disk(<<mhebrew, None, msundial>>, <<msundial, None, None>>)
MCDisks == LoneDisks \cup {PairDisk}
MCMutable == {<<"clock", 2>>}
ArePair == disk["calendar"] = PairDisk["calendar"]

Ask(op, f, a) == [op |-> op, family |-> f, arg |-> a]
AskedByOne == {Ask("find", "calendar", coptic), Ask("find", "calendar", compiled)}
AskedByTwo == {Ask("count", "clock", 0), Ask("at", "clock", 0)}
MCRequests == AskedByOne \cup AskedByTwo

MCNext ==
  /\ Next
  /\ \A t \in Threads : request'[t] \in {NoRequest} \cup (IF ArePair THEN AskedByTwo ELSE AskedByOne)
  /\ ~ArePair => disk' = disk /\ pc'[t2] = "idle" /\ \A a \in answers' : a.request \in AskedByOne
MCSpec == Init /\ [][MCNext]_vars /\ \A t \in Threads : WF_vars(Proceed(t))
==============================================================================
