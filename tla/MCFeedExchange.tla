--------------------------- MODULE MCFeedExchange ---------------------------
EXTENDS FeedExchange

Bar(o, h, l, c) == [open |-> o, high |-> h, low |-> l, close |-> c]

Record(regime, at, lean, supersedes) ==
  [regime |-> regime, at |-> at, direction |-> "UP", lean |-> lean, pivot |-> None,
   supersedes |-> supersedes]

MCPrices == <<Bar(2, 4, 0, 1), Bar(7, 7, 2, 4), Bar(3, 8, 1, 6), Bar(8, 10, 5, 8)>>

\* A delivery, its pullback with a lean that is revised, and what it resolved to; the
\* warm-up cuts the first band.
MCStates ==
  <<Record("EXPANSION", 1, None, None),
    Record("PULLBACK_UNRESOLVED", 2, "UNCLEAR", None),
    Record("PULLBACK_UNRESOLVED", 3, "REVERSAL", <<"PULLBACK_UNRESOLVED", 2>>),
    Record("RETRACEMENT", 4, None, <<"PULLBACK_UNRESOLVED", 3>>),
    Record("EXPANSION", 4, None, None)>>

MCSessionOf == <<"asia", "asia", "london", "london">>

MCOne == <<1, 2>>
=============================================================================
