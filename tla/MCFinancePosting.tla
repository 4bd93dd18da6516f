--------------------------- MODULE MCFinancePosting ---------------------------
(* Instances of FinancePosting for TLC.                                          *)
EXTENDS FinancePosting, TLC

CONSTANTS e1, e2, e3, maker, checker, c1, c2, c3, c4, c5, p1

MCOriginal == {e1}
MCThreeEntries == {e1, e2, e3}
MCActors == {maker, checker}
MCFiveCommands == {c1, c2, c3, c4, c5}
MCAmounts == {-1, 1}
MCOnePeriod == {p1}
MCOneDate == {1}
MCSources == {"Manual", "Generated"}
MCWindows == {<<1, 1>>, <<2, 2>>}
MCFirstWindow == [p \in Periods |-> <<1, 1>>]
MCSymmetry ==
    Permutations(Entries \ Originals) \cup Permutations(Actors)
    \cup Permutations(Commands)
=============================================================================
