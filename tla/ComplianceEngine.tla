-------------------------- MODULE ComplianceEngine --------------------------
(***************************************************************************)
(* The arithmetic of vo.compliance.engine.ComplianceEngine: how one        *)
(* account snapshot moves the engine's memory and which verdict it earns.  *)
(* The module has no variables; ComplianceStore gives the engine a         *)
(* process, a disk and an account, LiveDispatch gives it orders to judge.  *)
(*                                                                         *)
(* Money is a positive integer and every fraction of the configuration is  *)
(* a number of Unit-ths, so the code's float quotients become exact        *)
(* comparisons of products.  An absent value (None in the code) is 0: no   *)
(* equity, peak or trading day is 0.                                       *)
(***************************************************************************)
EXTENDS Integers

CONSTANTS
  Unit,                  \* the denominator of every configured fraction
  DailyLossLimit,        \* daily_loss_limit_fraction
  TotalDrawdownLimit,    \* total_drawdown_limit_fraction
  SafetyBuffer,          \* safety_buffer_fraction
  WarningThreshold,      \* warning_threshold_fraction
  CriticalThreshold,     \* critical_threshold_fraction
  DailyLossMode,         \* FIXED or DRAWDOWN_HEADROOM
  DailyHaltAtTotalUsage, \* daily_halt_at_total_usage
  HighWaterMark,         \* high_water_mark_currency, 0 when unset
  HighWaterMarkDrawdown  \* high_water_mark_drawdown_currency, 0 when unset

None == 0

(***************************************************************************)
(* What ComplianceConfig.__post_init__ enforces.                           *)
(***************************************************************************)
ASSUME ConfigAssumption ==
  /\ Unit \in Nat \ {0}
  /\ DailyLossLimit \in 1..Unit
  /\ TotalDrawdownLimit \in 1..Unit
  /\ SafetyBuffer \in 0..(DailyLossLimit - 1)
  /\ SafetyBuffer \in 0..(TotalDrawdownLimit - 1)
  /\ WarningThreshold \in 1..(CriticalThreshold - 1)
  /\ CriticalThreshold \in 1..(Unit - 1)
  /\ DailyLossMode \in {"FIXED", "DRAWDOWN_HEADROOM"}
  /\ DailyHaltAtTotalUsage \in 1..Unit
  /\ HighWaterMark \in Nat
  /\ HighWaterMarkDrawdown \in Nat
  /\ HighWaterMark = None \/ HighWaterMarkDrawdown = None

EffectiveDailyLimit == DailyLossLimit - SafetyBuffer
EffectiveTotalLimit == TotalDrawdownLimit - SafetyBuffer

-----------------------------------------------------------------------------
(* The engine's memory: the four fields a restart must not lose.           *)

Memory == [day: Nat, dayStart: Nat, peak: Nat, totalBreached: BOOLEAN]

FreshMemory ==
  [day |-> None, dayStart |-> None, peak |-> None, totalBreached |-> FALSE]

Statuses == {"SAFE", "WARNING", "CRITICAL", "NEWS_BLACKOUT",
             "BREACHED_DAILY", "BREACHED_TOTAL"}

BlockingStatuses == {"NEWS_BLACKOUT", "BREACHED_DAILY", "BREACHED_TOTAL"}

Loss(reference, equity) == IF equity < reference THEN reference - equity ELSE 0

(* Drawdown has used at least share/Unit of the allowance limit/Unit.      *)
Uses(reference, equity, limit, share) ==
  Loss(reference, equity) * Unit * Unit >= share * limit * reference

Higher(a, b) == IF a < b THEN b ELSE a

(* The peak of the first snapshot: a configured high-water mark wins over  *)
(* the equity first seen, whenever it is higher.                           *)
FirstPeak(equity) ==
  IF HighWaterMarkDrawdown # None
    THEN Higher(equity + HighWaterMarkDrawdown, equity)
    ELSE Higher(HighWaterMark, equity)

(* Mutant: the day is anchored once and never rolled over.                 *)
AnchoredOnce(m, day) == m.day = None

RolledOver(m, day) == m.day = None \/ day # m.day

TotalReached(peak, equity) ==
  Loss(peak, equity) * Unit >= EffectiveTotalLimit * peak

(* Mutant: the total breach is the latest snapshot's alone.                *)
ObserveUnlatched(m, day, equity) ==
  LET peak == IF m.peak = None THEN FirstPeak(equity) ELSE Higher(m.peak, equity)
  IN  [day           |-> day,
       dayStart      |-> IF RolledOver(m, day) THEN equity ELSE m.dayStart,
       peak          |-> peak,
       totalBreached |-> TotalReached(peak, equity)]

(* The first half of on_snapshot: roll the day, raise the peak, latch the  *)
(* total breach.                                                           *)
Observe(m, day, equity) ==
  LET peak == IF m.peak = None THEN FirstPeak(equity) ELSE Higher(m.peak, equity)
  IN  [day           |-> day,
       dayStart      |-> IF RolledOver(m, day) THEN equity ELSE m.dayStart,
       peak          |-> peak,
       totalBreached |-> m.totalBreached \/ TotalReached(peak, equity)]

DailyBreached(m, equity) ==
  IF DailyLossMode = "DRAWDOWN_HEADROOM"
    THEN Uses(m.peak, equity, EffectiveTotalLimit, DailyHaltAtTotalUsage)
    ELSE Loss(m.dayStart, equity) * Unit >= EffectiveDailyLimit * m.dayStart

(* usage = max(daily_used, total_used) has reached share/Unit.             *)
UsageAtLeast(m, equity, share) ==
  \/ Uses(m.dayStart, equity, EffectiveDailyLimit, share)
  \/ Uses(m.peak, equity, EffectiveTotalLimit, share)

(* The second half of on_snapshot: the first rule that fires names the     *)
(* status; m is the memory Observe has just updated.                       *)
StatusOf(m, equity, blackout) ==
  CASE m.totalBreached -> "BREACHED_TOTAL"
    [] ~m.totalBreached /\ DailyBreached(m, equity) -> "BREACHED_DAILY"
    [] ~m.totalBreached /\ ~DailyBreached(m, equity) /\ blackout -> "NEWS_BLACKOUT"
    [] OTHER -> IF UsageAtLeast(m, equity, CriticalThreshold) THEN "CRITICAL"
                ELSE IF UsageAtLeast(m, equity, WarningThreshold) THEN "WARNING"
                ELSE "SAFE"

Allowed(status) == status \notin BlockingStatuses

-----------------------------------------------------------------------------
(* headroom_rejection: in headroom mode a trade is refused when losing it  *)
(* in full would carry equity below the halt point                         *)
(* peak * (1 - limit * halt).  Both sides are scaled by Unit * Unit.       *)

HaltPoint(peak) == peak * (Unit * Unit - EffectiveTotalLimit * DailyHaltAtTotalUsage)

Headroom(peak, equity) ==
  Higher(0, equity * Unit * Unit - HaltPoint(peak))

(* Mutant: the gate asks whether any headroom is left at all.              *)
HeadroomIsSpent(m, equity, projectedLoss) ==
  \/ m.peak = None
  \/ /\ DailyLossMode = "DRAWDOWN_HEADROOM"
     /\ 0 >= Headroom(m.peak, equity)

HeadroomRejects(m, equity, projectedLoss) ==
  \/ m.peak = None
  \/ /\ DailyLossMode = "DRAWDOWN_HEADROOM"
     /\ projectedLoss * Unit * Unit > Headroom(m.peak, equity)
=============================================================================
