--------------------------- MODULE MC_PaperLedger ---------------------------
(***************************************************************************)
(* Instances of PaperLedger for TLC.  Each run names the signals it needs: *)
(* two filings of one company that both call for the same short, an order  *)
(* win, a results filing and the surprise rows of the same results.        *)
(***************************************************************************)
EXTENDS PaperLedger

Signal(impact, symbol, strategy, side, instrument) ==
  [impact |-> impact, symbol |-> symbol, strategy |-> strategy, side |-> side,
   instrument |-> instrument]

ShortA1  == Signal("r1", "A", "headwind_short", "SHORT", "CASH")
ShortA2  == Signal("r2", "A", "headwind_short", "SHORT", "CASH")
WinA     == Signal("r1", "A", "orderwin_long", "LONG", "CASH")
PeadA    == Signal("r4", "A", "pead_long", "LONG", "CASH")
SurpriseA1 == Signal("SUE_1", "A", "pead_long", "LONG", "CASH")
SurpriseA2 == Signal("SUE_2", "A", "pead_long", "LONG", "CASH")
SurpriseB == Signal("SUE_3", "B", "pead_long", "LONG", "CASH")

\* Two filings of A, one after the other.
ShortIntents == {ShortA1, ShortA2}
ShortReports == <<{ShortA1}, {ShortA2}>>

\* The surprise rows of A and B, and the results filing of A.
SurpriseIntents == {SurpriseA1, SurpriseA2, SurpriseB}
PeadIntents == {PeadA} \cup SurpriseIntents
PeadReports == <<{PeadA}>>

\* One event that calls for a short and for an order win.
DayIntents == {ShortA1, WinA}
DayReports == <<{ShortA1, WinA}>>

NoReports == <<>>

Unit == [i \in Intents |-> 2]

\* Holding periods, scaled: cash shorts are squared off first anyway.
Hold == [s \in Strategies |-> IF s = "pead_long" THEN 2 ELSE 1]

=============================================================================
