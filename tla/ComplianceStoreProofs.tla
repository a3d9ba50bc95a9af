------------------------ MODULE ComplianceStoreProofs ------------------------
(***************************************************************************)
(* Theorems about the compliance engine and its state file, for every      *)
(* configuration ComplianceConfig accepts, every set of accounts and every *)
(* set of positive equities.  The argument: one snapshot only extends the  *)
(* engine's memory (ObserveExtends), a restart starts from the file, and a *)
(* save puts in place exactly what the engine knows, so memory always      *)
(* extends the file and no verdict can allow what the file forbids.        *)
(***************************************************************************)
EXTENDS ComplianceStore, TLAPS

-----------------------------------------------------------------------------
(* Lemmas about the engine's operators.                                    *)

LEMMA EffectiveLimits ==
  /\ EffectiveTotalLimit \in 1..Unit
  /\ EffectiveDailyLimit \in 1..Unit
  BY ConfigAssumption DEF EffectiveTotalLimit, EffectiveDailyLimit

LEMMA FirstPeakType ==
  ASSUME NEW equity \in Nat \ {0}
  PROVE  FirstPeak(equity) \in Nat /\ FirstPeak(equity) >= equity
  BY ConfigAssumption DEF FirstPeak, Higher

(* A snapshot keeps the engine's fields in their types, raises the peak to *)
(* at least the equity seen, and sets the day it was taken on.             *)
LEMMA ObserveType ==
  ASSUME NEW m \in Memory, NEW day \in Nat \ {0}, NEW equity \in Nat \ {0}
  PROVE  /\ Observe(m, day, equity) \in Memory
         /\ Observe(m, day, equity).day = day
         /\ Observe(m, day, equity).peak >= equity
         /\ Observe(m, day, equity).totalBreached \in BOOLEAN
<1>1. FirstPeak(equity) \in Nat /\ FirstPeak(equity) >= equity
  BY FirstPeakType
<1>2. TotalReached(IF m.peak = None THEN FirstPeak(equity)
                                    ELSE Higher(m.peak, equity), equity) \in BOOLEAN
  BY DEF TotalReached
<1>3. QED
  BY <1>1, <1>2 DEF Observe, Memory, Higher, None

(* A snapshot taken no earlier than the memory's own day forgets nothing.  *)
LEMMA ObserveExtends ==
  ASSUME NEW m \in Memory, NEW day \in Nat \ {0}, NEW equity \in Nat \ {0},
         m.day <= day
  PROVE  Ledger!ExtendsMemory(m, Observe(m, day, equity))
<1>1. FirstPeak(equity) \in Nat
  BY FirstPeakType
<1>2. QED
  BY <1>1 DEF Observe, Memory, Higher, None, RolledOver, Ledger!ExtendsMemory

LEMMA ExtendsTransitive ==
  ASSUME NEW m1 \in Memory, NEW m2 \in Memory, NEW m3 \in Memory,
         Ledger!ExtendsMemory(m1, m2), Ledger!ExtendsMemory(m2, m3)
  PROVE  Ledger!ExtendsMemory(m1, m3)
  BY DEF Ledger!ExtendsMemory, Memory

(* A drawdown measured from a higher peak is never smaller: the limit that *)
(* was reached from p is reached from q.                                   *)
LEMMA HigherPeakIsStricter ==
  ASSUME NEW p \in Nat \ {0}, NEW q \in Nat, p <= q, NEW equity \in Nat \ {0},
         TotalReached(p, equity)
  PROVE  TotalReached(q, equity)
<1> DEFINE E == EffectiveTotalLimit
<1>1. E \in 1..Unit /\ Unit \in Nat \ {0}
  BY EffectiveLimits, ConfigAssumption
<1>2. E * p >= 1
  BY <1>1, E * p >= 1 * p
<1>3. equity < p
  BY <1>1, <1>2 DEF TotalReached, Loss
<1>4. (p - equity) * Unit >= E * p
  BY <1>3 DEF TotalReached, Loss
<1>5. (q - p) * Unit >= E * (q - p)
  BY <1>1
<1>6. (q - equity) * Unit = (p - equity) * Unit + (q - p) * Unit
  BY <1>1
<1>7. E * q = E * p + E * (q - p)
  BY <1>1
<1>8. (q - equity) * Unit >= E * q
  <2> HIDE DEF E
  <2> QED BY <1>1, <1>4, <1>5, <1>6, <1>7
<1>9. QED
  BY <1>3, <1>8 DEF TotalReached, Loss
-----------------------------------------------------------------------------
(* The inductive invariant.                                                *)

LEMMA FreshType == FreshMemory \in Memory
  BY DEF FreshMemory, Memory, None

LEMMA StatusType ==
  ASSUME NEW m, NEW equity, NEW blackout
  PROVE  /\ StatusOf(m, equity, blackout) \in Statuses
         /\ m.totalBreached => StatusOf(m, equity, blackout) = "BREACHED_TOTAL"
  BY DEF StatusOf, Statuses

LEMMA InitStoreInv == Init => StoreInv
<1> SUFFICES ASSUME Init PROVE StoreInv
  OBVIOUS
<1>1. TypeOK
  BY FreshType DEF Init, TypeOK
<1>2. QED
  BY <1>1, SentinelAssumption
     DEF Init, StoreInv, ProcessShape, DaysOrdered, NotFromTheFuture, VerdictMatches,
         MemoryExtendsDisk, OwnFileAlwaysLoads, FreshMemory, None

LEMMA NextStoreInv == StoreInv /\ [Next]_vars => StoreInv'
<1> SUFFICES ASSUME StoreInv, [Next]_vars PROVE StoreInv'
  OBVIOUS
<1> USE DEF StoreInv
<1>s. /\ Absent # Torn /\ Absent \notin Saved /\ Absent \notin Verdicts
      /\ Torn \notin Saved
  BY SentinelAssumption
<1>1. CASE StartFresh
  <2>1. TypeOK'
    BY <1>1, FreshType DEF StartFresh, TypeOK
  <2>2. QED
    BY <1>1, <1>s, <2>1
       DEF StartFresh, TypeOK, ProcessShape, Loadable, DaysOrdered, NotFromTheFuture,
           VerdictMatches, MemoryExtendsDisk, OwnFileAlwaysLoads, FreshMemory, None
<1>2. CASE StartRestored
  <2>1. file \in Saved /\ memory' = file.memory /\ file' = file
    BY <1>2 DEF StartRestored, Loadable, TypeOK, Restored
  <2>2. TypeOK'
    BY <1>2, <2>1 DEF StartRestored, TypeOK, Saved
  <2>3. Ledger!ExtendsMemory(file.memory, file.memory)
    BY <2>1 DEF Ledger!ExtendsMemory, Saved, Memory
  <2>4. QED
    BY <1>2, <1>s, <2>1, <2>2, <2>3
       DEF StartRestored, TypeOK, ProcessShape, Loadable, DaysOrdered, NotFromTheFuture,
           VerdictMatches, MemoryExtendsDisk, OwnFileAlwaysLoads
<1>3. CASE StartRefused
  <2>1. file \in Saved
    BY <1>3 DEF StartRefused, TypeOK, ProcessShape
  <2>2. QED
    BY <1>3, <1>s, <2>1
       DEF StartRefused, TypeOK, ProcessShape, Loadable, DaysOrdered, NotFromTheFuture,
           VerdictMatches, MemoryExtendsDisk, OwnFileAlwaysLoads
<1>4. ASSUME NEW day \in today..MaxDay, NEW equity \in Equities, NEW blackout \in BOOLEAN,
             Snapshot(day, equity, blackout)
      PROVE  StoreInv'
  <2> DEFINE m == Observe(memory, day, equity)
  <2>1. day \in Nat \ {0} /\ equity \in Nat \ {0} /\ memory \in Memory /\ memory.day <= day
    BY EquityAssumption, DayAssumption DEF TypeOK, DaysOrdered, NotFromTheFuture, Memory
  <2>2. m \in Memory /\ m.day = day /\ Ledger!ExtendsMemory(memory, m)
    BY <2>1, ObserveType, ObserveExtends
  <2> HIDE DEF m
  <2>3. /\ memory' = m /\ today' = day
        /\ verdict' = [account |-> account, day |-> day, equity |-> equity,
                       status |-> StatusOf(m, equity, blackout)]
        /\ UNCHANGED <<account, proc, file, temp>>
        /\ proc = "running" /\ temp = Absent
    BY <1>4 DEF Snapshot, m
  <2>4. verdict' \in Verdicts
    BY <2>1, <2>3, StatusType DEF Verdicts, TypeOK
  <2>5. TypeOK'
    BY <2>1, <2>2, <2>3, <2>4 DEF TypeOK
  <2>6. ProcessShape'
    BY <2>3 DEF ProcessShape, Loadable
  <2>7. DaysOrdered'
    <3>1. day \in Nat /\ day # None /\ today <= day /\ today \in Nat
      BY <2>1 DEF TypeOK, None
    <3>2. file \notin {Absent, Torn} => file.memory.day \in Nat
      BY DEF TypeOK, Saved, Memory
    <3>3. QED
      BY <2>2, <2>3, <3>1, <3>2 DEF DaysOrdered, NotFromTheFuture
  <2>8. VerdictMatches'
    BY <2>3, StatusType DEF VerdictMatches
  <2>9. MemoryExtendsDisk'
    <3>1. Loadable => Ledger!ExtendsMemory(file.memory, m)
      <4> SUFFICES ASSUME Loadable PROVE Ledger!ExtendsMemory(file.memory, m)
        OBVIOUS
      <4>1. file.memory \in Memory
        BY DEF Loadable, TypeOK, Saved
      <4>2. QED
        BY <2>1, <2>2, <2>3, <4>1, ExtendsTransitive DEF MemoryExtendsDisk
    <3>2. QED
      BY <2>3, <3>1 DEF MemoryExtendsDisk, Loadable
  <2>10. OwnFileAlwaysLoads'
    BY <2>3 DEF OwnFileAlwaysLoads
  <2>11. QED
    BY <2>5, <2>6, <2>7, <2>8, <2>9, <2>10
<1>5. CASE SaveOpen
  BY <1>5, <1>s
     DEF SaveOpen, TypeOK, ProcessShape, Loadable, DaysOrdered, NotFromTheFuture,
         VerdictMatches, MemoryExtendsDisk, OwnFileAlwaysLoads
<1>6. CASE SaveWrite
  <2>1. PersistentState \in Saved /\ PersistentState' = PersistentState
    BY <1>6 DEF PersistentState, Saved, TypeOK, SaveWrite
  <2>2. QED
    BY <1>6, <1>s, <2>1
       DEF SaveWrite, TypeOK, ProcessShape, Loadable, DaysOrdered, NotFromTheFuture,
           VerdictMatches, MemoryExtendsDisk, OwnFileAlwaysLoads
<1>7. CASE SaveReplace
  <2>1. /\ file' = [account |-> account, memory |-> memory]
        /\ file' \in Saved /\ file'.account = account /\ file'.memory = memory
    BY <1>7 DEF SaveReplace, MemoryExtendsDisk, PersistentState, TypeOK, Saved
  <2>2. Ledger!ExtendsMemory(memory, memory)
    BY DEF Ledger!ExtendsMemory, TypeOK, Memory
  <2>3. QED
    BY <1>7, <1>s, <2>1, <2>2
       DEF SaveReplace, TypeOK, ProcessShape, Loadable, DaysOrdered, NotFromTheFuture,
           VerdictMatches, MemoryExtendsDisk, OwnFileAlwaysLoads
<1>8. CASE SaveFails
  BY <1>8, <1>s
     DEF SaveFails, TypeOK, ProcessShape, Loadable, DaysOrdered, NotFromTheFuture,
         VerdictMatches, MemoryExtendsDisk, OwnFileAlwaysLoads
<1>9. CASE Crash
  <2>1. TypeOK'
    BY <1>9, FreshType DEF Crash, TypeOK
  <2>2. QED
    BY <1>9, <1>s, <2>1
       DEF Crash, TypeOK, ProcessShape, Loadable, DaysOrdered, NotFromTheFuture,
           VerdictMatches, MemoryExtendsDisk, OwnFileAlwaysLoads, FreshMemory, None
<1>10. ASSUME NEW a \in Accounts, LogIn(a) PROVE StoreInv'
  BY <1>10, <1>s
     DEF LogIn, TypeOK, ProcessShape, Loadable, DaysOrdered,
         NotFromTheFuture, VerdictMatches, MemoryExtendsDisk, OwnFileAlwaysLoads
<1>11. CASE UNCHANGED vars
  BY <1>11
     DEF vars, TypeOK, ProcessShape, Loadable, DaysOrdered, NotFromTheFuture,
         VerdictMatches, MemoryExtendsDisk, OwnFileAlwaysLoads, PersistentState
<1>12. QED
  BY <1>1, <1>2, <1>3, <1>4, <1>5, <1>6, <1>7, <1>8, <1>9, <1>10, <1>11 DEF Next

LEMMA StoreInvariant == Spec => []StoreInv
  BY InitStoreInv, NextStoreInv, PTL DEF Spec

-----------------------------------------------------------------------------
(* The invariants the model checker finds, for every configuration.        *)

(* Every variable keeps its type, the engine's four fields among them.     *)
THEOREM TypeCorrect == Spec => []TypeOK
<1>1. StoreInv => TypeOK
  BY DEF StoreInv
<1>2. QED
  BY <1>1, StoreInvariant, PTL

(* A running engine never knows less than its own state file: what         *)
(* load_compliance_state restores and on_snapshot updates only extends     *)
(* what save_compliance_state left on disk.                                *)
THEOREM MemoryNeverBehindDisk == Spec => []MemoryExtendsDisk
<1>1. StoreInv => MemoryExtendsDisk
  BY DEF StoreInv
<1>2. QED
  BY <1>1, StoreInvariant, PTL

(* The latch of engine.py's _total_breached outlives the process: once a   *)
(* save carried it to disk, every verdict of every later process on that   *)
(* account is BREACHED_TOTAL.                                              *)
THEOREM TotalBreachIsPermanent == Spec => []BreachIsPermanent
<1>1. StoreInv => BreachIsPermanent
  <2> SUFFICES ASSUME StoreInv, verdict # Absent, Loadable, file.memory.totalBreached
               PROVE  verdict.status = "BREACHED_TOTAL"
    BY DEF BreachIsPermanent
  <2>1. proc = "running"
    BY DEF StoreInv, ProcessShape, TypeOK
  <2>2. memory.totalBreached
    BY <2>1 DEF StoreInv, MemoryExtendsDisk, Ledger!ExtendsMemory
  <2>3. QED
    BY <2>2 DEF StoreInv, VerdictMatches
<1>2. QED
  BY <1>1, StoreInvariant, PTL

(* save_compliance_state's temporary file and os.replace: however a save   *)
(* is cut short, load_compliance_state never meets a torn file.            *)
THEOREM OwnFileLoads == Spec => []OwnFileAlwaysLoads
<1>1. StoreInv => OwnFileAlwaysLoads
  BY DEF StoreInv
<1>2. QED
  BY <1>1, StoreInvariant, PTL

-----------------------------------------------------------------------------
(* ComplianceStore implements DrawdownLedger.                              *)

LEMMA AllowedMeansNoBreach ==
  ASSUME NEW m, NEW equity, NEW blackout, Allowed(StatusOf(m, equity, blackout))
  PROVE  ~m.totalBreached /\ ~DailyBreached(m, equity)
  BY DEF Allowed, StatusOf, BlockingStatuses

(* The ledger's Forbids, in the words of the engine it shares.             *)
LEMMA ForbidsMeans ==
  ASSUME NEW old, NEW day, NEW equity, Ledger!Forbids(old, day, equity)
  PROVE  \/ old.totalBreached
         \/ old.peak # None /\ TotalReached(old.peak, equity)
         \/ /\ DailyLossMode = "FIXED"
            /\ old.day = day
            /\ Loss(old.dayStart, equity) * Unit >= EffectiveDailyLimit * old.dayStart
  BY DEF Ledger!Forbids, Ledger!None, Ledger!TotalReached, Ledger!Loss,
         Ledger!EffectiveTotalLimit, Ledger!EffectiveDailyLimit,
         None, TotalReached, Loss, EffectiveTotalLimit, EffectiveDailyLimit

(* What the memory allows, a ledger entry it extends does not forbid.      *)
LEMMA ExtendedMemoryIsStricter ==
  ASSUME NEW old \in Memory, NEW m \in Memory, NEW day \in Nat \ {0},
         NEW equity \in Nat \ {0},
         Ledger!ExtendsMemory(old, m), m.day = day,
         ~m.totalBreached, ~TotalReached(m.peak, equity), ~DailyBreached(m, equity)
  PROVE  ~Ledger!Forbids(old, day, equity)
<1>1. ~old.totalBreached
  BY DEF Ledger!ExtendsMemory
<1>2. ~(old.peak # None /\ TotalReached(old.peak, equity))
  BY HigherPeakIsStricter DEF Ledger!ExtendsMemory, Memory, None
<1>3. ~(/\ DailyLossMode = "FIXED"
        /\ old.day = day
        /\ Loss(old.dayStart, equity) * Unit >= EffectiveDailyLimit * old.dayStart)
  <2> SUFFICES ASSUME DailyLossMode = "FIXED", old.day = day
               PROVE  ~(Loss(old.dayStart, equity) * Unit
                          >= EffectiveDailyLimit * old.dayStart)
    OBVIOUS
  <2>1. old.dayStart = m.dayStart
    BY DEF Ledger!ExtendsMemory
  <2>2. QED
    BY <2>1 DEF DailyBreached
<1>4. QED
  BY <1>1, <1>2, <1>3, ForbidsMeans

(* The ledger entry of the account in use: its file, if it has one.        *)
LEMMA LedgerEntry ==
  ASSUME StoreInv, proc = "running"
  PROVE  /\ Loadable => file.memory \in Memory /\ Ledger!ExtendsMemory(file.memory, memory)
         /\ ~Loadable => file = Absent
  BY DEF StoreInv, MemoryExtendsDisk, ProcessShape, Loadable, TypeOK, Saved

LEMMA InitImplements == Init => Ledger!LedgerInit
  BY DEF Init, Ledger!LedgerInit, FreshMemory, None, Ledger!FreshMemory, Ledger!None

LEMMA NextImplements ==
  StoreInv /\ [Next]_vars => [Ledger!LedgerNext]_(Ledger!ledgerVars)
<1> SUFFICES ASSUME StoreInv, [Next]_vars
             PROVE  [Ledger!LedgerNext]_(Ledger!ledgerVars)
  OBVIOUS
<1> DEFINE entry == [a \in Accounts |->
                       IF file \notin {Absent, Torn} /\ file.account = a
                         THEN file.memory ELSE FreshMemory]
           reply == IF verdict = Absent THEN Absent
                    ELSE [account |-> verdict.account, day |-> verdict.day,
                          equity |-> verdict.equity, allowed |-> Allowed(verdict.status)]
<1>s. /\ Absent # Torn /\ Torn \notin Saved
      /\ Absent \notin Saved /\ Absent \notin Verdicts /\ Absent \notin Answers
  BY SentinelAssumption
<1>u. UNCHANGED <<file, verdict>> => [Ledger!LedgerNext]_(Ledger!ledgerVars)
  BY DEF Ledger!ledgerVars, Allowed, BlockingStatuses
<1>1. CASE StartFresh
  BY <1>1, <1>u DEF StartFresh
<1>2. CASE StartRestored
  BY <1>2, <1>u DEF StartRestored
<1>3. CASE StartRefused
  BY <1>3, <1>u DEF StartRefused
<1>4. ASSUME NEW day \in today..MaxDay, NEW equity \in Equities, NEW blackout \in BOOLEAN,
             Snapshot(day, equity, blackout)
      PROVE  Ledger!LedgerNext
  <2> DEFINE m == Observe(memory, day, equity)
             allowed == Allowed(StatusOf(m, equity, blackout))
  <2>1. /\ day \in Nat \ {0} /\ equity \in Nat \ {0} /\ memory \in Memory
        /\ memory.day <= day /\ account \in Accounts /\ proc = "running"
    BY <1>4, EquityAssumption, DayAssumption
       DEF StoreInv, TypeOK, DaysOrdered, NotFromTheFuture, Memory, Snapshot
  <2>2. m \in Memory /\ m.day = day /\ Ledger!ExtendsMemory(memory, m)
    BY <2>1, ObserveType, ObserveExtends
  <2>3. ~m.totalBreached => ~TotalReached(m.peak, equity)
    BY DEF Observe
  <2>4. /\ file' = file
        /\ verdict' = [account |-> account, day |-> day, equity |-> equity,
                       status |-> StatusOf(m, equity, blackout)]
    BY <1>4 DEF Snapshot
  <2>5. verdict' # Absent
    <3>1. verdict' \in Verdicts
      BY <2>1, <2>4, StatusType DEF Verdicts
    <3>2. QED
      BY <3>1, <1>s
  <2>6. allowed => ~Ledger!Forbids(entry[account], day, equity)
    <3> SUFFICES ASSUME allowed PROVE ~Ledger!Forbids(entry[account], day, equity)
      OBVIOUS
    <3>1. ~m.totalBreached /\ ~TotalReached(m.peak, equity) /\ ~DailyBreached(m, equity)
      BY <2>3, AllowedMeansNoBreach
    <3>2. CASE Loadable
      <4>1. file.memory \in Memory /\ Ledger!ExtendsMemory(file.memory, memory)
        BY <2>1, <3>2, LedgerEntry
      <4>2. Ledger!ExtendsMemory(file.memory, m)
        BY <2>1, <2>2, <4>1, ExtendsTransitive
      <4>3. entry[account] = file.memory
        BY <2>1, <3>2 DEF Loadable
      <4> HIDE DEF m, entry
      <4>4. QED
        BY <2>1, <2>2, <3>1, <4>1, <4>2, <4>3, ExtendedMemoryIsStricter
    <3>3. CASE ~Loadable
      <4>1. entry[account] = FreshMemory
        BY <2>1, <3>3, LedgerEntry
      <4> HIDE DEF m, entry
      <4>2. ~Ledger!Forbids(FreshMemory, day, equity)
        BY <2>1, ForbidsMeans DEF FreshMemory, None
      <4>3. QED
        BY <4>1, <4>2
    <3>4. QED
      BY <3>2, <3>3
  <2>7. reply' = [account |-> account, day |-> day, equity |-> equity, allowed |-> allowed]
    <3> HIDE DEF m
    <3>1. QED
      BY <2>4, <2>5 DEF Allowed, BlockingStatuses
  <2>8. entry' = entry
    BY <2>4
  <2>9. QED
    <3> HIDE DEF m
    <3>1. /\ reply' # Absent
          /\ reply'.account = account /\ reply'.day = day /\ reply'.equity = equity
          /\ reply'.allowed = allowed
      <4>1. allowed \in BOOLEAN
        BY DEF Allowed
      <4> HIDE DEF reply, allowed
      <4>2. reply' \in Answers
        BY <2>1, <2>7, <4>1 DEF Answers
      <4>3. QED
        BY <2>7, <4>2, <1>s
    <3>2. Ledger!Reply(account, day, equity, allowed)
      BY <2>1, <2>6, <2>7, <2>8 DEF Ledger!Reply, Ledger!None
    <3>3. QED
      BY <3>1, <3>2 DEF Ledger!LedgerNext
<1>5. CASE SaveOpen
  BY <1>5, <1>u DEF SaveOpen
<1>6. CASE SaveWrite
  BY <1>6, <1>u DEF SaveWrite
<1>7. CASE SaveReplace
  <2>1. /\ file' = [account |-> account, memory |-> memory] /\ file' \in Saved
        /\ account \in Accounts /\ memory \in Memory /\ proc = "running"
        /\ verdict' = verdict
    BY <1>7 DEF SaveReplace, StoreInv, MemoryExtendsDisk, PersistentState, TypeOK, Saved
  <2>2. entry' = [entry EXCEPT ![account] = memory]
    BY <2>1, <1>s, LedgerEntry DEF Loadable
  <2>3. Ledger!ExtendsMemory(entry[account], memory)
    <3>1. CASE Loadable
      BY <2>1, <3>1, LedgerEntry DEF Loadable
    <3>2. CASE ~Loadable
      <4>1. entry[account] = FreshMemory
        BY <2>1, <3>2, LedgerEntry
      <4>2. QED
        BY <2>1, <4>1
           DEF StoreInv, DaysOrdered, NotFromTheFuture, FreshMemory, None, Memory,
               Ledger!ExtendsMemory
    <3>3. QED
      BY <3>1, <3>2
  <2>4. reply' = reply
    BY <2>1 DEF Allowed, BlockingStatuses
  <2>5. entry'[account] = memory
    BY <2>1, <2>2
  <2>6. QED
    <3> DEFINE old == entry new == entry' said == reply saidNext == reply'
    <3>1. /\ account \in Accounts
          /\ Ledger!ExtendsMemory(old[account], new[account])
          /\ new = [old EXCEPT ![account] = new[account]]
          /\ saidNext = said
      BY <2>1, <2>2, <2>3, <2>4, <2>5
    <3> HIDE DEF old, new, said, saidNext
    <3>2. \E a \in Accounts : /\ Ledger!ExtendsMemory(old[a], new[a])
                             /\ new = [old EXCEPT ![a] = new[a]]
                             /\ saidNext = said
      BY <3>1
    <3>3. QED
      BY <3>2 DEF Ledger!LedgerNext, Ledger!Commit, old, new, said, saidNext
<1>8. CASE SaveFails
  BY <1>8, <1>u DEF SaveFails
<1>9. CASE Crash
  BY <1>9 DEF Crash, Ledger!Forget, Ledger!LedgerNext
<1>10. ASSUME NEW a \in Accounts, LogIn(a)
       PROVE  [Ledger!LedgerNext]_(Ledger!ledgerVars)
  BY <1>10, <1>u DEF LogIn
<1>11. CASE UNCHANGED vars
  BY <1>11, <1>u DEF vars
<1>12. QED
  BY <1>1, <1>2, <1>3, <1>4, <1>5, <1>6, <1>7, <1>8, <1>9, <1>10, <1>11 DEF Next

(* The engine, its state file, its crashes and its half-finished saves     *)
(* implement the ledger: entries only grow, and no verdict allows a trade  *)
(* that the entry on disk forbids.                                         *)
THEOREM ComplianceStoreRefinesLedger == Spec => ImplementsLedger
<1>1. Init => Ledger!LedgerInit
  BY InitImplements
<1>2. StoreInv /\ [Next]_vars => [Ledger!LedgerNext]_(Ledger!ledgerVars)
  BY NextImplements
<1>3. QED
  BY <1>1, <1>2, StoreInvariant, PTL DEF Spec, ImplementsLedger, Ledger!LedgerSpec

-----------------------------------------------------------------------------
(* The first snapshot of a trading day anchors it, so nothing is lost yet. *)

DayMatches == verdict # Absent => verdict.day = memory.day

LEMMA NewDayLosesNothing ==
  ASSUME DailyLossMode = "FIXED", NEW m \in Memory, NEW day, day # m.day,
         NEW equity \in Nat \ {0}
  PROVE  ~DailyBreached(Observe(m, day, equity), equity)
<1>1. Observe(m, day, equity).dayStart = equity
  BY DEF Observe, RolledOver
<1>2. PICK limit \in 1..Unit : limit = EffectiveDailyLimit
  BY EffectiveLimits
<1>3. limit * equity > 0
  BY <1>2, ConfigAssumption
<1>4. Loss(equity, equity) * Unit = 0
  BY ConfigAssumption DEF Loss
<1> QED BY <1>1, <1>2, <1>3, <1>4 DEF DailyBreached

LEMMA NextDayMatches == StoreInv /\ DayMatches /\ [Next]_vars => DayMatches'
<1> SUFFICES ASSUME StoreInv, DayMatches, [Next]_vars PROVE DayMatches'
  OBVIOUS
<1>1. proc # "running" => verdict = Absent
  BY DEF StoreInv, ProcessShape
<1>2. ASSUME NEW day \in today..MaxDay, NEW equity \in Equities, NEW blackout \in BOOLEAN,
             Snapshot(day, equity, blackout)
      PROVE  DayMatches'
  BY <1>2 DEF Snapshot, Observe, DayMatches
<1> QED
  BY <1>1, <1>2 DEF Next, DayMatches, StartFresh, StartRestored, StartRefused, SaveOpen,
     SaveWrite, SaveReplace, SaveFails, Crash, LogIn, vars

(* With a fixed daily limit, a daily breach is over with the first verdict *)
(* of another day, for every limit and every equity (engine.py:131): that  *)
(* snapshot anchors the day at its own equity.                             *)
THEOREM DailyBreachClears ==
  ASSUME DailyLossMode = "FIXED"
  PROVE  Spec => NewDayClearsDailyBreach
<1> DEFINE Clears ==
      (/\ verdict # Absent
       /\ verdict' # Absent
       /\ verdict.status = "BREACHED_DAILY"
       /\ verdict'.day # verdict.day) => verdict'.status # "BREACHED_DAILY"
<1>1. Init => DayMatches
  BY DEF Init, DayMatches
<1>2. StoreInv /\ DayMatches /\ [Next]_vars => [Clears]_vars
  <2> SUFFICES ASSUME StoreInv, DayMatches, Next PROVE Clears
    OBVIOUS
  <2>1. ASSUME NEW day \in today..MaxDay, NEW equity \in Equities, NEW blackout \in BOOLEAN,
               Snapshot(day, equity, blackout)
        PROVE  Clears
    <3>1. memory \in Memory /\ equity \in Nat \ {0}
      BY EquityAssumption DEF StoreInv, TypeOK
    <3>2. verdict'.day = day
          /\ verdict'.status = StatusOf(Observe(memory, day, equity), equity, blackout)
      BY <2>1 DEF Snapshot
    <3>3. day # memory.day => ~DailyBreached(Observe(memory, day, equity), equity)
      BY <3>1, NewDayLosesNothing
    <3>4. day # memory.day => verdict'.status # "BREACHED_DAILY"
      BY <3>2, <3>3 DEF StatusOf
    <3> QED BY <3>2, <3>4 DEF DayMatches
  <2>2. CASE verdict' = verdict \/ verdict' = Absent
    BY <2>2
  <2>3. (\E day \in today..MaxDay, equity \in Equities, blackout \in BOOLEAN :
           Snapshot(day, equity, blackout)) \/ verdict' = verdict \/ verdict' = Absent
    BY DEF Next, StartFresh, StartRestored, StartRefused, SaveOpen, SaveWrite, SaveReplace,
       SaveFails, Crash, LogIn
  <2> QED BY <2>1, <2>2, <2>3
<1> QED BY <1>1, <1>2, StoreInvariant, NextDayMatches, PTL DEF Spec, NewDayClearsDailyBreach
=============================================================================
