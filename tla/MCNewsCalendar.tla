--------------------------- MODULE MCNewsCalendar ---------------------------
(* An event of high importance that every filter wants, and one of another  *)
(* currency that the bridge writes and the gate ignores.                   *)
EXTENDS NewsCalendar, TLC

CONSTANTS
  nfp, ecb, usd, eur,
  ClockChange,  \* when the terminal's clock is put back
  ChangedBy     \* by how much

MCImportance == nfp :> 3 @@ ecb :> 3
MCCurrency == nfp :> usd @@ ecb :> eur

\* A server on European time, in summer and in winter.
MCServerAhead(t) == IF t < ClockChange THEN 3 ELSE 3 - ChangedBy
MCUtcOffset == -3
=============================================================================
