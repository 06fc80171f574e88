---------------------- MODULE TemporalCatalogueInvariant ----------------------
(***************************************************************************)
(* The inductive invariant of TemporalCatalogue: at most one thread works  *)
(* on the catalogue, none reads it before it is ready, and the scan of a   *)
(* directory misses no file that stays in place.                           *)
(***************************************************************************)
EXTENDS TemporalCatalogue

Working(t) == pc[t] \in {"list", "inspect", "publish"}

\* The atomic is a lock that is taken once and released to readers only.
Exclusive ==
  /\ \A t, u \in Threads : Working(t) /\ Working(u) => t = u
  /\ \A t \in Threads : Working(t) => catalogue_state = "initialising"
  /\ \A t \in Threads : pc[t] = "read" => catalogue_state = "ready"
  /\ \A t \in Threads : pc[t] \notin {"idle"} => request[t] \in Requests
  /\ \A a \in answers : NeedsCatalogue(a.request) => catalogue_state = "ready"

\* The scan of f is over.
Scanned(f) ==
  \/ catalogue_state = "ready"
  \/ \E t \in Threads : Working(t) /\ (pc[t] = "publish" \/ (f = "calendar" /\ family[t] = "clock"))

\* The identifier of file x, if it is a module that stays, is known.
IsListed(f, x) ==
  <<f, x>> \notin Mutable /\ IsResource(disk[f][x], f) =>
    IdOf[disk[f][x]] \in BuiltinIds(f) \cup FoundIds(f)

Coverage ==
  /\ \A f \in Families : f \in lost => Scanned(f) /\ entries[f] = <<>>
  /\ \A f \in Families : Scanned(f) /\ f \notin lost => \A x \in Files : IsListed(f, x)
  /\ \A t \in Threads : pc[t] \in {"list", "inspect"} =>
       \A x \in Files : IsListed(family[t], x) \/ x \in found[t] \/ (pc[t] = "list" /\ x \in unread[t])

\* Entry i of f was loaded from file place[i], which nobody touches, and no
\* module of an earlier file has its identifier.
LoadedFrom(f, place) ==
  /\ \A i, j \in DOMAIN entries[f] : i < j => place[i] < place[j]
  /\ \A i \in DOMAIN entries[f] :
       /\ disk[f][place[i]] = entries[f][i]
       /\ \A x \in Files : x < place[i] /\ IsResource(disk[f][x], f) => IdOf[disk[f][x]] # IdOf[entries[f][i]]

Inspecting(t, f) == pc[t] = "inspect" /\ family[t] = f

\* What waits to be inspected comes after every entry.
Placed(f) ==
  \E place \in [DOMAIN entries[f] -> Files] :
    /\ LoadedFrom(f, place)
    /\ \A t \in Threads : Inspecting(t, f) => \A i \in DOMAIN entries[f], x \in found[t] : place[i] < x

\* A family has no entries before its candidates are inspected.
Filled(f) == entries[f] # <<>> => Scanned(f) \/ \E t \in Threads : Inspecting(t, f)

Untouched(f) == \A x \in Files : <<f, x>> \notin Mutable

Ordered == \A f \in Families : Filled(f) /\ (Untouched(f) => Placed(f))

\* All of it: an induction that implies the safety properties.
IInv ==
  /\ Exclusive
  /\ AnswersStand
  /\ IdsAreUnique
  /\ Coverage
  /\ Ordered
==============================================================================
