--------------------------- MODULE ReceiptLedger ---------------------------
(* The receipt ledger of one scope, the runs that write to it, and the audit  *)
(* that reads it (verify_no_silent_mutation).  A run keeps a chain cursor in  *)
(* memory; its receipts become durable with the commits of the store; at the  *)
(* end a checkpoint seals the chain.                                          *)
(*                                                                            *)
(* A state of the scope is named by the number of the write that produced it, *)
(* 0 for the empty scope: a graph_state_hash is equal for equal states only.  *)
(* A receipt's hash covers its run, its index and the hash before it; an      *)
(* index is used once per run, so run and index name the hash.                *)
EXTENDS Naturals, FiniteSets

CONSTANTS Runs,          \* runs, numbered as their uuids sort
          Kind,          \* what each run is
          OneProcess,    \* the runs share one event loop
          EarlyCommits,  \* the store commits inside an episode's transaction
          MaxReceipts, MaxClock, MaxSilent, MaxFaults   \* bounds

ASSUME RunAssumption ==
    /\ Runs \subseteq Nat \ {0}
    /\ Kind \in [Runs -> {"formation", "sweep", "operator"}]
ASSUME SettingAssumption ==
    /\ {OneProcess, EarlyCommits} \subseteq BOOLEAN
    /\ {MaxReceipts, MaxClock, MaxSilent, MaxFaults} \subseteq Nat

VARIABLES clock,    \* the time runs stamp on their receipts
          disk,     \* what is committed: the scope's state and its receipts
          work,     \* what the writer of the open transaction sees
          writer,   \* the run that holds the writer lock, 0 for nobody
          writes,   \* how many states were produced
          run,      \* the runs' handles and program counters
          seal,     \* run_checkpoints
          silent, faults,   \* how much of each bound is used
          unreceipted,      \* history: a committed change has no receipt
          orderly           \* history: runs began one by one, each at its time

vars == <<clock, disk, work, writer, writes, run, seal, silent, faults, unreceipted, orderly>>

Receipt == [run : Runs, idx : Nat \ {0}, at : Nat, before : Nat, after : Nat]
Store == [state : Nat, receipts : SUBSET Receipt]
Handle == [stage : {"new", "running", "bracket", "refused", "read", "marked", "done", "failed", "dead"},
           at : Nat,              \* created_at of its receipts
           next : Nat,            \* next_event_index
           before : Nat,          \* the hash read before a mutation
           outage : BOOLEAN]
Seal == [count : Nat, after : Nat]
Unsealed == [count |-> 0, after |-> 0]

TypeOK ==
    /\ clock \in Nat /\ writes \in Nat
    /\ disk \in Store /\ work \in Store
    /\ writer \in Runs \cup {0}
    /\ run \in [Runs -> Handle]
    /\ seal \in [Runs -> Seal]
    /\ silent \in 0..MaxSilent /\ faults \in 0..MaxFaults
    /\ unreceipted \in BOOLEAN /\ orderly \in BOOLEAN

Init ==
    /\ clock = 0 /\ writes = 0
    /\ disk = [state |-> 0, receipts |-> {}]
    /\ work = disk
    /\ writer = 0
    /\ run = [r \in Runs |-> [stage |-> "new", at |-> 0, next |-> 0, before |-> 0, outage |-> FALSE]]
    /\ seal = [r \in Runs |-> Unsealed]
    /\ silent = 0 /\ faults = 0
    /\ unreceipted = FALSE /\ orderly = TRUE

InFlight(r) == run[r].stage \notin {"new", "done", "failed", "dead"}
Chain(r) == {x \in disk.receipts : x.run = r}
Mutating(R) == {x \in R : x.before # x.after}

(* One event loop: between two awaits of a run nobody else runs.  A bracket   *)
(* and the three steps of a pruning mutation contain no await.                *)
Quiet(r) == OneProcess => \A q \in Runs \ {r} : run[q].stage \in
                              {"new", "running", "done", "failed", "dead"}
Free(r) == Quiet(r) /\ writer = 0
Fault == faults < MaxFaults /\ faults' = faults + 1
History == <<silent, faults, unreceipted, orderly>>
----------------------------------------------------------------------------
(* A run begins: nothing is persisted.  The jobs of one cycle share its time. *)
begin_run(r) ==
    /\ run[r].stage = "new" /\ Quiet(r)
    /\ run' = [run EXCEPT ![r].stage = "running", ![r].at = clock]
    /\ orderly' = (orderly /\ \A q \in Runs : run[q].stage # "new" => ~InFlight(q) /\ run[q].at < clock)
    /\ UNCHANGED <<clock, disk, work, writer, writes, seal, silent, faults, unreceipted>>

\* (mutant) Indices count from zero.
ReceiptedFromZero(r, before, after) ==
    [run |-> r, idx |-> run[r].next, at |-> run[r].at, before |-> before, after |-> after]

(* A receipt takes the run's next index; the cursor moves once it is stored.  *)
Receipted(r, before, after) ==
    [run |-> r, idx |-> run[r].next + 1, at |-> run[r].at, before |-> before, after |-> after]
Roomy(r) == run[r].next < MaxReceipts

(* A decision that moves nothing: emitted and committed on its own.           *)
EmitNote(r) ==
    /\ run[r].stage = "running" /\ Free(r) /\ Roomy(r)
    /\ disk' = [disk EXCEPT !.receipts = @ \cup {Receipted(r, disk.state, disk.state)}]
    /\ work' = disk'
    /\ run' = [run EXCEPT ![r].next = @ + 1]
    /\ UNCHANGED <<clock, writer, writes, seal, History>>

(* An episode is materialized inside transaction(): mutations and receipts    *)
(* are seen by the run alone until the commit.                                *)
OpenBracket(r) ==
    /\ Kind[r] = "formation" /\ run[r].stage = "running" /\ Free(r)
    /\ run' = [run EXCEPT ![r].stage = "bracket"]
    /\ writer' = r
    /\ UNCHANGED <<clock, disk, work, writes, seal, History>>

Mutate(r) ==
    /\ run[r].stage = "bracket" /\ writer \in {0, r} /\ Quiet(r) /\ Roomy(r)
    /\ writer' = r
    /\ writes' = writes + 1
    /\ work' = [state |-> writes + 1,
                receipts |-> work.receipts \cup {Receipted(r, work.state, writes + 1)}]
    /\ run' = [run EXCEPT ![r].next = @ + 1]
    /\ UNCHANGED <<clock, disk, seal, History>>

(* A helper commits on the connection while the bracket is open: what was     *)
(* written so far is durable, and the writer lock is gone until the next      *)
(* write.                                                                     *)
CommitEarly(r) ==
    /\ EarlyCommits /\ run[r].stage = "bracket" /\ writer = r
    /\ disk' = work
    /\ writer' = 0
    /\ UNCHANGED <<clock, work, writes, run, seal, History>>

CommitBracket(r) ==
    /\ run[r].stage = "bracket" /\ Quiet(r) /\ writer \in {0, r}
    /\ disk' = work
    /\ writer' = 0
    /\ run' = [run EXCEPT ![r].stage = "running"]
    /\ UNCHANGED <<clock, work, writes, seal, History>>

(* A rollback loses what the bracket has not committed.  It does not touch    *)
(* the run's handle.                                                          *)
Rollback(r) == disk

(* The embedding transport gives up inside the bracket.                       *)
Outage(r) ==
    /\ Kind[r] = "formation" /\ run[r].stage = "bracket" /\ writer \in {0, r}
    /\ Fault
    /\ disk' = Rollback(r)
    /\ work' = disk' /\ writer' = 0
    /\ run' = [run EXCEPT ![r].stage = "refused", ![r].outage = TRUE]
    /\ UNCHANGED <<clock, writes, seal, silent, unreceipted, orderly>>

(* The deferral is receipted in the same run, which then ends.                *)
ReceiptOutage(r) ==
    /\ run[r].stage = "refused" /\ writer = 0
    /\ disk' = [disk EXCEPT !.receipts = @ \cup {Receipted(r, disk.state, disk.state)}]
    /\ work' = disk'
    /\ run' = [run EXCEPT ![r].next = @ + 1, ![r].stage = "running"]
    /\ UNCHANGED <<clock, writer, writes, seal, History>>

(* Pruning, consolidation and operators read the hash, commit the mutation,   *)
(* read the hash again and commit the receipt.                                *)
ReadHash(r) ==
    /\ Kind[r] # "formation" /\ run[r].stage = "running" /\ Quiet(r) /\ Roomy(r)
    /\ run' = [run EXCEPT ![r].stage = "read", ![r].before = disk.state]
    /\ UNCHANGED <<clock, disk, work, writer, writes, seal, History>>

Mark(r) ==
    /\ run[r].stage = "read" /\ writer = 0
    /\ writes' = writes + 1
    /\ disk' = [disk EXCEPT !.state = writes + 1]
    /\ work' = disk'
    /\ run' = [run EXCEPT ![r].stage = "marked"]
    /\ UNCHANGED <<clock, writer, seal, History>>

ReceiptMark(r) ==
    /\ run[r].stage = "marked" /\ writer = 0
    /\ disk' = [disk EXCEPT !.receipts = @ \cup {Receipted(r, run[r].before, disk.state)}]
    /\ work' = disk'
    /\ run' = [run EXCEPT ![r].stage = "running", ![r].next = @ + 1]
    /\ UNCHANGED <<clock, writer, writes, seal, History>>
----------------------------------------------------------------------------
(* The end of a run.  An empty run leaves nothing; a run whose stored         *)
(* receipts are not as many as its handle counts cannot be sealed.            *)
Stored(r) == Cardinality(Chain(r))

\* (mutant) The checkpoint trusts the handle.
TrustsHandle(r) == run[r].next > 0

\* (mutant) The handle is expected to count the checkpoint as well.
SealableLater(r) == run[r].next > 0 /\ Stored(r) = run[r].next + 1

Sealable(r) == run[r].next > 0 /\ Stored(r) = run[r].next

(* A dream run's checkpoint records the scope's hash, an operator's does not. *)
Sealed(r) == [count |-> Stored(r), after |-> IF Kind[r] = "operator" THEN 0 ELSE disk.state]

Checkpoint(r) ==
    /\ run[r].stage = "running" /\ Free(r)
    /\ \/ run[r].next = 0
          /\ run' = [run EXCEPT ![r].stage = "done"] /\ UNCHANGED seal
       \/ Sealable(r)
          /\ seal' = [seal EXCEPT ![r] = Sealed(r)]
          /\ run' = [run EXCEPT ![r].stage = "done"]
       \/ run[r].next > 0 /\ ~Sealable(r)
          /\ run' = [run EXCEPT ![r].stage = "failed"] /\ UNCHANGED seal
    /\ UNCHANGED <<clock, disk, work, writer, writes, History>>

(* A kill takes the runs of a process; an exception ends one run before its  *)
(* checkpoint.                                                                *)
Crash(killed) ==
    /\ killed # {} /\ (\A r \in killed : InFlight(r)) /\ Fault
    /\ run' = [r \in Runs |-> IF r \in killed THEN [run[r] EXCEPT !.stage = "dead"] ELSE run[r]]
    /\ IF writer \in killed THEN work' = disk /\ writer' = 0 ELSE UNCHANGED <<work, writer>>
    /\ unreceipted' = (unreceipted \/ \E r \in killed : run[r].stage = "marked")
    /\ UNCHANGED <<clock, disk, writes, seal, silent, orderly>>

(* Adopting an epoch, rolling it back and building a session digest change    *)
(* the scope and emit nothing.                                                *)
Silent ==
    /\ silent < MaxSilent /\ silent' = silent + 1
    /\ writer = 0
    /\ OneProcess => \A r \in Runs : run[r].stage \in {"new", "running", "done", "failed", "dead"}
    /\ writes' = writes + 1
    /\ disk' = [disk EXCEPT !.state = writes + 1]
    /\ work' = disk'
    /\ unreceipted' = TRUE
    /\ UNCHANGED <<clock, writer, run, seal, faults, orderly>>

Tick == clock < MaxClock /\ clock' = clock + 1
        /\ UNCHANGED <<disk, work, writer, writes, run, seal, History>>

Finished == (\A r \in Runs : ~InFlight(r)) /\ UNCHANGED vars

Step(r) == \/ begin_run(r) \/ EmitNote(r)
           \/ OpenBracket(r) \/ Mutate(r) \/ CommitEarly(r) \/ CommitBracket(r)
           \/ ReceiptOutage(r) \/ ReadHash(r) \/ Mark(r) \/ ReceiptMark(r) \/ Checkpoint(r)
Next == (\E r \in Runs : Step(r) \/ Outage(r)) \/ (\E S \in SUBSET Runs : Crash(S)) \/ Silent \/ Tick \/ Finished

Spec == Init /\ [][Next]_vars

(* A run that began goes on, and has finitely many decisions to take.         *)
Started(r) == Step(r) /\ run[r].stage # "new"
FairSpec == Spec /\ \A r \in Runs : WF_vars(Started(r)) /\ SF_vars(Checkpoint(r))
----------------------------------------------------------------------------
(* verify_chain: the indices of a run's receipts are dense from the first on, *)
(* and as many as the checkpoint counts.                                      *)
verify_chain(r) ==
    /\ {x.idx : x \in Chain(r)} = 1..Stored(r) /\ Chain(r) # {}
    /\ seal[r] # Unsealed => seal[r].count = Stored(r)

\* (mutant) Receipts are listed run by run.
EarlierByRun(x, y) == x.run < y.run \/ (x.run = y.run /\ x.idx < y.idx)

(* The order of receipts_for_scope: created_at, run_uuid, event_index.        *)
Earlier(x, y) ==
    \/ x.at < y.at
    \/ x.at = y.at /\ (x.run < y.run \/ (x.run = y.run /\ x.idx < y.idx))
Latest(R) == CHOOSE x \in R : \A y \in R \ {x} : Earlier(y, x)

\* (mutant) Only neighbours of one run are compared.
ContiguousPerRun(R) ==
    \A y \in R : LET past == {x \in R : x.run = y.run /\ Earlier(x, y)}
                 IN  past # {} => y.before = Latest(past).after

(* Each mutation starts where the one before it, in the order of the ledger,  *)
(* ended.                                                                     *)
Contiguous(R) ==
    \A y \in R : LET past == {x \in R : Earlier(x, y)}
                 IN  past # {} => y.before = Latest(past).after

byte_replay(r) ==
    LET moves == Mutating(Chain(r))
    IN  /\ verify_chain(r) /\ seal[r] # Unsealed
        /\ Contiguous(moves)
        /\ moves # {} /\ seal[r].after # 0 => Latest(moves).after = seal[r].after

(* verify_no_silent_mutation, run at any moment on what is committed.         *)
AuditPasses ==
    LET moves == Mutating(disk.receipts)
    IN  /\ \A x \in disk.receipts : verify_chain(x.run)
        /\ \A x \in moves : byte_replay(x.run)
        /\ Contiguous(moves)
        /\ disk.state = (IF moves = {} THEN 0 ELSE Latest(moves).after)
----------------------------------------------------------------------------
(* What a checkpoint seals stays sealed: a sealed run's chain verifies for    *)
(* ever, whatever other runs, crashes, outages and early commits do.          *)
SealsHold == \A r \in Runs : seal[r] # Unsealed => verify_chain(r)

(* What is committed to the ledger is never taken back: no step removes a     *)
(* stored receipt, and no step alters a checkpoint.                           *)
LedgerOnlyGrows ==
    [][/\ disk.receipts \subseteq disk'.receipts
       /\ \A r \in Runs : seal[r] # Unsealed => seal'[r] = seal[r]]_vars

(* The audit misses nothing it can see: when it passes, and the first receipt *)
(* it read begins at the empty scope, every committed change has its receipt, *)
(* whatever crashed between a mutation and its receipt or changed the scope   *)
(* without one.  (One process; a first receipt that begins elsewhere is not   *)
(* compared with anything.)                                                   *)
Grounded ==
    LET moves == Mutating(disk.receipts)
    IN  \A x \in moves : (\A y \in moves \ {x} : Earlier(x, y)) => x.before = 0
AuditIsSound == AuditPasses /\ Grounded => ~unreceipted

(* The audit accuses nobody of what did not happen: once every run has ended, *)
(* none failed, nothing changed the scope silently and the runs came one      *)
(* after the other, each at a time of its own, it passes.                     *)
Honest == (\A r \in Runs : ~InFlight(r)) /\ faults = 0 /\ ~unreceipted
AuditAccepts == Honest /\ orderly => AuditPasses

(* The promise of verify_no_silent_mutation, for runs in any order: a scope   *)
(* whose changes are all receipted passes.                                    *)
ReceiptedScopesPass == Honest => AuditPasses

(* "an operator reading the checkpoint sees exactly why the queue did not     *)
(* drain": a run that receipted an outage ends with a checkpoint.             *)
OutagesAreAttested ==
    \A r \in Runs : run[r].outage /\ run[r].stage \in {"done", "failed"} => seal[r] # Unsealed

(* A run that began and that nothing stops ends, and if it receipted anything *)
(* its chain is sealed.                                                       *)
RunsAreSealed ==
    \A r \in Runs : InFlight(r) ~> (faults > 0 \/ (run[r].stage = "done" /\ (Chain(r) # {} => seal[r] # Unsealed)))
=============================================================================
