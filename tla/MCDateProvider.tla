---------------------------- MODULE MCDateProvider ----------------------------
(* An instance of DateProvider for TLC: two files, two calendars, a second     *)
(* module of the first one that is not runnable, and an overlong identifier.   *)
EXTENDS DateProvider, TLC

CONSTANTS coptic, hebrew, long, mcoptic, mhebrew, mbroken

MCModules == {mcoptic, mhebrew, mbroken}
MCIdOf == (mcoptic :> coptic) @@ (mhebrew :> hebrew) @@ (mbroken :> coptic)
MCRunnable == {mcoptic, mhebrew}
\* The directory never has coptic.
WithoutCoptic == [Files -> {mhebrew, None}]
MCDisks == [Files -> MCModules \cup {None}]
==============================================================================
