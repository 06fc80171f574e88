---------------------------- MODULE MCPolicyStore ----------------------------
(***************************************************************************)
(* Instances of PolicyStore for TLC: original files in all three versions, *)
(* policies that may and that may not be saved, and the lines a careless   *)
(* editor adds.                                                            *)
(***************************************************************************)
EXTENDS PolicyStore

MCSpelling ==
  [w \in {"1", "2", "3", "true", "false", "standard", "standard-12", "standard-24", "decimal", "gregorian",
          "number", "system", "decimal-10", "coptic",
          "double--hyphen", "Upper", "trailing-"} |->
     CASE w \in {"1", "2", "3"} -> <<"a">>
       [] w = "number" -> <<"a", "other", "a">>
       [] w = "double--hyphen" -> <<"a", "-", "-", "a">>
       [] w = "Upper" -> <<"other", "a">>
       [] w = "trailing-" -> <<"a", "-">>
       [] OTHER -> <<"a", "a">>]
MCWords == DOMAIN MCSpelling
MCClockModes == {"standard", "standard-12", "standard-24", "decimal"}

\* The file is edited by hand only where at most one save has begun.
Begun == {c \in Saves : c \in storing \/ outcome[c] # "pending"}
EditedByOne == (\E e \in Edits : replaced[e] # {}) => \A c, d \in Begun : c = d
MCSpec == Init /\ [][Next /\ EditedByOne']_vars

MCSymmetry == Permutations(Saves)

\* Fine is 3, so that a third and two thirds of a printed step are rounded.
Coptic == [DefaultV3 EXCEPT !.calendar = "coptic", !.location_configured = TRUE,
                            !.latitude = -5, !.longitude = 4]
MCPolicies ==
  {Coptic,
   [Coptic EXCEPT !.clock_mode = "sundial"],
   [Coptic EXCEPT !.calendar = "Upper"],
   [Coptic EXCEPT !.clock_mode = "decimal", !.show_seconds = TRUE, !.latitude = 6],
   [Coptic EXCEPT !.latitude = 7]}
HyphenPolicies == {[Coptic EXCEPT !.calendar = "double--hyphen"], Coptic}

Text(t) == [state |-> "text", text |-> t]
V1(profile, seconds) == SerializeV1([clock_profile |-> profile, show_seconds |-> seconds])
V2 ==
  <<Ignored, Entry("version", Word("2")), Entry("clock-mode", Word("decimal")),
    Entry("primary-calendar", Word("coptic")), Entry("secondary-calendar", Word("gregorian")),
    Entry("latitude", Number(-6))>>

\* Each file with the policy its writer meant by it.
MCOriginals ==
  {[file |-> Unread, policy |-> NoPolicy],
   [file |-> Text(V1("system", TRUE)), policy |-> [DefaultV3 EXCEPT !.show_seconds = TRUE]],
   [file |-> Text(V1("decimal-10", FALSE)), policy |-> [DefaultV3 EXCEPT !.clock_mode = "decimal"]],
   [file |-> Text(V2), policy |-> [DefaultV3 EXCEPT !.clock_mode = "decimal", !.calendar = "coptic",
                                                    !.latitude = -6]],
   [file |-> Text(Serialize(Coptic)), policy |-> Coptic]}

MCLines ==
  {Ignored, Invalid,
   Entry("version", Word("2")), Entry("version", Word("3")),
   Entry("clock-mode", Word("standard-24")), Entry("calendar", Word("trailing-")),
   Entry("show-seconds", Word("number")), Entry("latitude", Number(7)),
   Entry("unknown", Word("true"))}
==============================================================================
