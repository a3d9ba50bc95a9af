--------------------------- MODULE ComplianceStore ---------------------------
(***************************************************************************)
(* The compliance engine as a process that can die: ComplianceEngine's     *)
(* memory in a running EA, the state file of vo.compliance.state_store on  *)
(* disk, and the account the terminal is logged in to.                     *)
(*                                                                         *)
(* The caller follows the protocol the two modules document: load before   *)
(* constructing the engine, snapshot, save when it likes.  The process is  *)
(* single-threaded, so a save never overlaps a snapshot, but it may crash  *)
(* between any two steps of a save.                                        *)
(***************************************************************************)
EXTENDS ComplianceEngine

CONSTANTS
  Accounts,  \* login@server identities
  Equities,  \* the equities an account snapshot may report
  MaxDay,    \* bound: trading days are 1..MaxDay
  Absent,    \* no file, no temporary file, no verdict
  Torn       \* a file whose JSON is not complete

ASSUME EquityAssumption == Equities \subseteq Nat \ {0}
ASSUME DayAssumption == MaxDay \in Nat \ {0}
ASSUME AccountAssumption == Accounts # {}

VARIABLES
  today,    \* the latest trading day any snapshot was taken on
  account,  \* the account the terminal is logged in to
  proc,     \* the EA process: down, running or refused
  memory,   \* the engine's fields
  verdict,  \* the last verdict of this process
  file,     \* the state file
  temp      \* the temporary file of a save in progress

vars == <<today, account, proc, memory, verdict, file, temp>>

Saved == [account: Accounts, memory: Memory]

Verdicts == [account: Accounts, day: Nat \ {0}, equity: Nat \ {0}, status: Statuses]

(* A verdict as the ledger sees it: allowed or not.                        *)
Answers == [account: Accounts, day: Nat \ {0}, equity: Nat \ {0}, allowed: BOOLEAN]

ASSUME SentinelAssumption ==
  /\ Absent # Torn
  /\ Absent \notin Saved \cup Verdicts \cup Answers
  /\ Torn \notin Saved

TypeOK ==
  /\ today \in Nat
  /\ account \in Accounts
  /\ proc \in {"down", "running", "refused"}
  /\ memory \in Memory
  /\ verdict \in {Absent} \cup Verdicts
  /\ file \in {Absent, Torn} \cup Saved
  /\ temp \in {Absent, Torn} \cup Saved

Init ==
  /\ today = 1
  /\ account \in Accounts
  /\ proc = "down"
  /\ memory = FreshMemory
  /\ verdict = Absent
  /\ file = Absent
  /\ temp = Absent

-----------------------------------------------------------------------------
(* load_compliance_state and the engine's constructor.                     *)

(* Mutants of Restored: a day anchor that is taken afresh at every start,  *)
(* as the reference implementation did; a peak, and a breach, that a       *)
(* restart forgets.                                                        *)
RestoredWithoutDay(m) == [m EXCEPT !.day = None, !.dayStart = None]
RestoredWithoutPeak(m) == [m EXCEPT !.peak = None]
RestoredWithoutBreach(m) == [m EXCEPT !.totalBreached = FALSE]

(* What a restored engine starts from: every field as it was saved.        *)
Restored(m) == m

StartFresh ==
  /\ proc = "down"
  /\ file = Absent
  /\ proc' = "running"
  /\ memory' = FreshMemory
  /\ UNCHANGED <<today, account, verdict, file, temp>>

(* The file is a complete state and belongs to the account logged in.      *)
Loadable == file \notin {Absent, Torn} /\ file.account = account

StartRestored ==
  /\ proc = "down"
  /\ Loadable
  /\ proc' = "running"
  /\ memory' = Restored(file.memory)
  /\ UNCHANGED <<today, account, verdict, file, temp>>

(* ComplianceStateError: unreadable, or another account's memory.          *)
StartRefused ==
  /\ proc = "down"
  /\ file # Absent
  /\ ~Loadable
  /\ proc' = "refused"
  /\ UNCHANGED <<today, account, memory, verdict, file, temp>>

(* Mutant: the verdict carries the trading day of the snapshot before it.  *)
SnapshotOfStaleDay(day, equity, blackout) ==
  /\ proc = "running"
  /\ temp = Absent
  /\ today' = day
  /\ memory' = Observe(memory, day, equity)
  /\ verdict' = [account |-> account, day |-> memory.day, equity |-> equity,
                 status |-> StatusOf(Observe(memory, day, equity), equity, blackout)]
  /\ UNCHANGED <<account, proc, file, temp>>

Snapshot(day, equity, blackout) ==
  /\ proc = "running"
  /\ temp = Absent
  /\ today' = day
  /\ memory' = Observe(memory, day, equity)
  /\ verdict' = [account |-> account, day |-> day, equity |-> equity,
                 status |-> StatusOf(Observe(memory, day, equity), equity, blackout)]
  /\ UNCHANGED <<account, proc, file, temp>>

-----------------------------------------------------------------------------
(* save_compliance_state, step by step.                                    *)

PersistentState == [account |-> account, memory |-> memory]

(* Mutant: the state file itself is opened for writing.                    *)
SaveOpenInPlace ==
  /\ proc = "running"
  /\ temp = Absent
  /\ temp' = Torn
  /\ file' = Torn
  /\ UNCHANGED <<today, account, proc, memory, verdict>>

SaveOpen ==
  /\ proc = "running"
  /\ temp = Absent
  /\ temp' = Torn
  /\ UNCHANGED <<today, account, proc, memory, verdict, file>>

SaveWrite ==
  /\ proc = "running"
  /\ temp = Torn
  /\ temp' = PersistentState
  /\ UNCHANGED <<today, account, proc, memory, verdict, file>>

SaveReplace ==
  /\ proc = "running"
  /\ temp \notin {Absent, Torn}
  /\ file' = temp
  /\ temp' = Absent
  /\ UNCHANGED <<today, account, proc, memory, verdict>>

(* An exception in any of these steps unlinks the temporary file.          *)
SaveFails ==
  /\ proc = "running"
  /\ temp # Absent
  /\ temp' = Absent
  /\ UNCHANGED <<today, account, proc, memory, verdict, file>>

-----------------------------------------------------------------------------
(* The process dies and takes its memory; a temporary file it leaves       *)
(* behind has a name nothing ever reads.                                   *)
Crash ==
  /\ proc # "down"
  /\ proc' = "down"
  /\ memory' = FreshMemory
  /\ verdict' = Absent
  /\ temp' = Absent
  /\ UNCHANGED <<today, account, file>>

(* The user logs the terminal in to another account, here only between two *)
(* sessions: a running engine does not look at the login again.            *)
LogIn(a) ==
  /\ proc = "down"
  /\ a # account
  /\ account' = a
  /\ UNCHANGED <<today, proc, memory, verdict, file, temp>>

Next ==
  \/ StartFresh
  \/ StartRestored
  \/ StartRefused
  \/ \E day \in today..MaxDay, equity \in Equities, blackout \in BOOLEAN :
       Snapshot(day, equity, blackout)
  \/ SaveOpen
  \/ SaveWrite
  \/ SaveReplace
  \/ SaveFails
  \/ Crash
  \/ \E a \in Accounts : LogIn(a)

Spec == Init /\ [][Next]_vars

-----------------------------------------------------------------------------
(* Properties.                                                             *)

Ledger == INSTANCE DrawdownLedger WITH
  ledger <- [a \in Accounts |->
               IF file \notin {Absent, Torn} /\ file.account = a
                 THEN file.memory ELSE FreshMemory],
  answer <- IF verdict = Absent THEN Absent
            ELSE [account |-> verdict.account, day |-> verdict.day,
                  equity |-> verdict.equity, allowed |-> Allowed(verdict.status)]

(* Crashes, restarts and half-finished saves are invisible to a reader of  *)
(* the ledger: the state file is only ever extended, and no verdict allows *)
(* a trade that the state on disk forbids.                                 *)
ImplementsLedger == Ledger!LedgerSpec

(* A running engine never knows less than its own state file: not a lower  *)
(* peak, not a forgiven breach, not a second start to the same trading     *)
(* day.  A save that is complete but not yet in place sits between them.   *)
MemoryExtendsDisk ==
  proc = "running" =>
    /\ Loadable => Ledger!ExtendsMemory(file.memory, memory)
    /\ temp \notin {Absent, Torn} => temp = PersistentState

(* engine.py: "Once True, stays True regardless of later equity recovery". *)
(* A total breach that reached the disk blocks every verdict of every      *)
(* later process on that account.                                          *)
BreachIsPermanent ==
  (verdict # Absent /\ Loadable /\ file.memory.totalBreached)
    => verdict.status = "BREACHED_TOTAL"

(* "WRITES ARE ATOMIC": whenever a save is cut short, the next start finds *)
(* a file it can load.  A start is refused only to another account.        *)
OwnFileAlwaysLoads ==
  proc = "refused" => (file # Torn /\ file.account # account)

(* engine.py: "A daily breach, by contrast, clears naturally the next      *)
(* trading day (a fresh _day_start_equity)".                               *)
NewDayClearsDailyBreach ==
  [][(/\ verdict # Absent
      /\ verdict' # Absent
      /\ verdict.status = "BREACHED_DAILY"
      /\ verdict'.day # verdict.day) => verdict'.status # "BREACHED_DAILY"]_vars

(* What the theorems of ComplianceStoreProofs carry from step to step      *)
(* besides the invariants above: which process states go with which files, *)
(* verdicts and days.                                                      *)
ProcessShape ==
  /\ file # Torn
  /\ proc = "running" => file = Absent \/ Loadable
  /\ proc # "running" => temp = Absent /\ verdict = Absent

NotFromTheFuture(m) ==
  /\ m.day <= today
  /\ m.day = None => m.dayStart = None

DaysOrdered ==
  /\ today >= 1
  /\ NotFromTheFuture(memory)
  /\ file \notin {Absent, Torn} => NotFromTheFuture(file.memory)

VerdictMatches ==
  verdict # Absent => /\ verdict.account = account
                      /\ memory.totalBreached => verdict.status = "BREACHED_TOTAL"

StoreInv ==
  /\ TypeOK
  /\ ProcessShape
  /\ DaysOrdered
  /\ VerdictMatches
  /\ MemoryExtendsDisk
  /\ OwnFileAlwaysLoads
=============================================================================
