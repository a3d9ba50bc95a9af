-------------------------- MODULE StructureContext --------------------------
(***************************************************************************)
(* MultiTimeframeStructure of structure_context.py: the bars of one stream  *)
(* merged into the longer bars of each higher timeframe, a swing engine and *)
(* a regime engine over those, and a snapshot of what the engines of all    *)
(* timeframes last said.                                                   *)
(*                                                                         *)
(* A timeframe is the bucket each bar of the stream falls into; a closure   *)
(* makes a bucket of fewer bars.                                           *)
(***************************************************************************)
EXTENDS Regime

NewFrame == [open |-> <<>>, bars |-> <<>>, swings |-> NewEngine, regime |-> NewRegime]

MergedBar(group) ==
  [open |-> group[1].open, close |-> Last(group).close,
   high |-> Max({group[i].high : i \in DOMAIN group}),
   low |-> Min({group[i].low : i \in DOMAIN group})]

\* A mutant: the bar that opens a bucket is part of the one it closes.
ClosesWithNext(frame, bucketOf, bars) ==
  IF frame.open # <<>> /\ bucketOf[Len(bars)] # bucketOf[Len(bars) - 1]
  THEN <<MergedBar(Append(frame.open, Last(bars)))>> ELSE <<>>

\* The bar of a bucket, once a bar of another bucket has come.
Finished(frame, bucketOf, bars) ==
  IF frame.open # <<>> /\ bucketOf[Len(bars)] # bucketOf[Len(bars) - 1]
  THEN <<MergedBar(frame.open)>> ELSE <<>>

\* A completed bar goes to the frame's own engines, built of the same configs.
Grown(frame, bar, tier, atrPeriod, erPeriod) ==
  LET grown == Append(frame.bars, bar)
      swings == OnBar(tier, atrPeriod, frame.swings, grown)
      found == SubSeq(swings.log, Len(frame.swings.log) + 1, Len(swings.log))
  IN [frame EXCEPT !.bars = grown, !.swings = swings,
                   !.regime = Classified(@, grown, EfficiencyRatio(grown, Len(grown), erPeriod),
                                         found)]

\* push, for the last of the bars.
Pushed(frame, bucketOf, bars, tier, atrPeriod, erPeriod) ==
  LET done == Finished(frame, bucketOf, bars)
  IN IF done = <<>> THEN [frame EXCEPT !.open = Append(@, Last(bars))]
     ELSE [Grown(frame, done[1], tier, atrPeriod, erPeriod) EXCEPT !.open = <<Last(bars)>>]

Unsaid == [regime |-> None, direction |-> None, at |-> None]

\* A mutant: the first record is kept.
FirstSaid(engine) == IF engine.states = <<>> THEN Unsaid ELSE engine.states[1]

Said(engine) == IF engine.states = <<>> THEN Unsaid ELSE Last(engine.states)

\* What one timeframe says: nothing before its engine's first record.
StructureOf(engine, completed) ==
  [regime |-> Said(engine).regime, direction |-> Said(engine).direction, at |-> Said(engine).at,
   completed |-> completed]

Alignment(execution, higher) ==
  IF execution.direction = None \/ higher.direction = None THEN "UNDEFINED"
  ELSE IF execution.direction = higher.direction THEN "ALIGNED" ELSE "COUNTER"

Snapshot(engine, bars, frames) ==
  LET execution == StructureOf(engine, Len(bars))
      higher == [f \in DOMAIN frames |-> StructureOf(frames[f].regime, Len(frames[f].bars))]
  IN [execution |-> execution, higher |-> higher,
      alignment |-> [f \in DOMAIN frames |-> Alignment(execution, higher[f])]]

=============================================================================
