--------------------------- MODULE MCSessionWriter ---------------------------
(* Two handles of one session, in one process or in two.                   *)
EXTENDS SessionWriter, TLC

CONSTANTS h1, h2, p1, p2

TwoHandles == {h1, h2}
TwoProcs == {p1, p2}

\* Handles are interchangeable, and so are processes.
Interchangeable == Permutations(TwoHandles) \cup Permutations(TwoProcs)

\* Every property is conditional on ~stray, so that states after it add nothing.
OwnedWrites == ~stray
=============================================================================
