------------------------------ MODULE MCPosixFiles ------------------------------
(* A path of three directories, a buffer of three bytes, transfers of up to      *)
(* three bytes in a file of at most five.                                      *)
EXTENDS PosixFiles

MCMax == 15
MCFds == 0..3
MCContents ==
  LET Of(kinds) == [i \in DOMAIN kinds |-> Byte(kinds[i], i)]
  IN  {Of(kinds) : kinds \in UNION {[1..n -> Kinds] : n \in 0..4}}
MCOperations == [t \in {"A", "B"} |-> IF t = "A" THEN {"read", "write"} ELSE {"pread", "pwrite"}]
MCThreads == {"A", "B"}
MCTwo == {{"maker", "reader"}}
MCCasts == MCTwo \cup {{"reader"}, {"A", "B"}}

\* Every content is read by a reader on its own.
MCInit ==
  /\ Init
  /\ cast # {"reader"} => Len(text) = 1 /\ text[1].kind = "letter" /\ reader = "bounded"
MCSpec == MCInit /\ [][Next]_vars /\ Fairness
==============================================================================
