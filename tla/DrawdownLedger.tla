--------------------------- MODULE DrawdownLedger ---------------------------
(***************************************************************************)
(* What the compliance engine and its state file promise together, with    *)
(* no process, no crash and no temporary file: a ledger per account that   *)
(* is only ever extended, and answers that the ledger does not forbid.     *)
(* This is vo.compliance.state_store's docstring ("any state the engine    *)
(* forgets on restart is a limit it stops enforcing") as a specification;  *)
(* ComplianceStore is shown to implement it.                               *)
(***************************************************************************)
EXTENDS ComplianceEngine

CONSTANTS Accounts, Absent

VARIABLES ledger, answer

ledgerVars == <<ledger, answer>>

(* new remembers everything old did: no peak is lowered, no breach is      *)
(* forgiven, and a trading day keeps the equity it started from.           *)
ExtendsMemory(old, new) ==
  /\ old.peak <= new.peak
  /\ old.totalBreached => new.totalBreached
  /\ old.day <= new.day
  /\ (old.day = new.day) => (old.dayStart = new.dayStart)

(* What a ledger entry forbids at this equity on this trading day.         *)
Forbids(m, day, equity) ==
  \/ m.totalBreached
  \/ m.peak # None /\ TotalReached(m.peak, equity)
  \/ /\ DailyLossMode = "FIXED"
     /\ m.day = day
     /\ Loss(m.dayStart, equity) * Unit >= EffectiveDailyLimit * m.dayStart

LedgerInit ==
  /\ ledger = [a \in Accounts |-> FreshMemory]
  /\ answer = Absent

Commit(a, m) ==
  /\ ExtendsMemory(ledger[a], m)
  /\ ledger' = [ledger EXCEPT ![a] = m]
  /\ UNCHANGED answer

Reply(a, day, equity, allowed) ==
  /\ day # None
  /\ allowed => ~Forbids(ledger[a], day, equity)
  /\ answer' = [account |-> a, day |-> day, equity |-> equity, allowed |-> allowed]
  /\ UNCHANGED ledger

Forget ==
  /\ answer' = Absent
  /\ UNCHANGED ledger

LedgerNext ==
  \/ \E a \in Accounts : Commit(a, ledger'[a])
  \/ /\ answer' # Absent
     /\ Reply(answer'.account, answer'.day, answer'.equity, answer'.allowed)
  \/ Forget

LedgerSpec == LedgerInit /\ [][LedgerNext]_ledgerVars
=============================================================================
