-------------------------- MODULE DreamQueueProofs --------------------------
(* Theorems about DreamQueue, for any number of workers, episodes, jobs and   *)
(* consumers.  Type correctness holds unconditionally.  The claim plane's     *)
(* promises rest on one timing condition, ShortCycles: a cycle ends before a  *)
(* claim stamped at its start goes stale.  Run DreamQueueCycleStamp shows      *)
(* that the condition is needed.                                              *)
EXTENDS DreamQueue, TLAPS

-----------------------------------------------------------------------------
(* The inductive invariant. *)

ShortCycles == MaxCycle < StaleAfter

\* A run has a batch only between its claim and its terminal bracket.
BatchesAreWorkedOn == \A w \in Workers : pc[w] \notin Working => batch[w] = {}

\* Whatever a run works on it has claimed, and the claim is as old as its cycle.
BatchesAreOwned ==
    \A w \in Workers : \A e \in batch[w] :
        claims[Item(w, e)].owner = w /\ claims[Item(w, e)].age = age[w]

\* ... and nobody has marked it.
BatchesAreOpen == \A w \in Workers : \A e \in batch[w] : Item(w, e) \notin processed

\* The item's memories are committed, and the marker is there or a run is about
\* to write it.
Committed(k) ==
    \/ k \in processed
    \/ \E w \in Workers : \E e \in batch[w] :
          pc[w] = "scan" /\ Earliest(e, batch[w]) /\ k = Item(w, e)

\* One commit per failure, and one more once committed.
FormedOnce ==
    \A k \in Items : formed[k] <= faults \/ (formed[k] <= 1 + faults /\ Committed(k))

\* The claims alone, and the claims with the markers.
OInv == TypeOK /\ BatchesAreWorkedOn /\ BatchesAreOwned /\ ClaimsHaveAnOwner
IInv == OInv /\ BatchesAreOpen

\* What moves one caller: its own steps, its failures, and an exception that is
\* no fault of its own.
Moves(w) ==
    \/ Step(w) \/ Failure(w)
    \/ \E j \in Jobs : RunDreamJob(w, j)
    \/ Raise(w) /\ UNCHANGED faults

-----------------------------------------------------------------------------
(* Type correctness. *)

LEMMA LeastBound ==
    ASSUME NEW m \in Nat, NEW n \in Nat
    PROVE  Least(m, n) \in 0..n
BY DEF Least

\* What a worker may have in its batch is an item once a consumer is attached.
LEMMA ItemType ==
    ASSUME TypeOK, NEW w \in Workers, NEW e \in Episodes \cup {Breadth}
    PROVE  Item(w, e) \in Items
BY QueueAssumption DEF TypeOK, Item, Items

LEMMA ClaimableType ==
    ASSUME TypeOK, NEW w \in Workers
    PROVE  Claimable(w) \subseteq Episodes \cup {Breadth}
BY DEF TypeOK, Claimable

LEMMA AnyJobType == AnyJob \in Jobs
BY QueueAssumption DEF AnyJob

LEMMA InitTyped == Init => TypeOK
<1> SUFFICES ASSUME Init PROVE TypeOK
    OBVIOUS
<1>1. claims \in [Items -> [owner : Workers \cup {Free, Gone}, age : 0..MaxClaimAge]]
    BY TimeAssumption DEF Init, MaxClaimAge
<1>2. lastRun \in [Jobs -> 0..Cadence] /\ faults \in 0..MaxFaults
    BY TimeAssumption DEF Init
<1>3. job \in [Workers -> Jobs]
    BY AnyJobType DEF Init
<1>4. age \in [Workers -> 0..MaxCycle] /\ runAge \in [Workers -> 0..MaxRun]
    BY TimeAssumption DEF Init
<1> QED
    BY <1>1, <1>2, <1>3, <1>4 DEF Init, TypeOK, PCs, Claimed, Working

\* The two ways the claims table is written keep its type.
LEMMA ClaimsTyped ==
    ASSUME TypeOK, NEW w \in Workers, NEW K, NEW heir \in {Free, Gone}
    PROVE  /\ WriteClaims(K, w) =>
                 claims' \in [Items -> [owner : Workers \cup {Free, Gone}, age : 0..MaxClaimAge]]
           /\ PassClaims(w, heir) =>
                 claims' \in [Items -> [owner : Workers \cup {Free, Gone}, age : 0..MaxClaimAge]]
<1>1. 0..MaxCycle \subseteq 0..MaxClaimAge /\ 0 \in 0..MaxClaimAge
    BY TimeAssumption DEF MaxClaimAge
<1>2. age[w] \in 0..MaxClaimAge
    BY <1>1 DEF TypeOK
<1>3. ASSUME NEW k \in Items
      PROVE  claims[k] \in [owner : Workers \cup {Free, Gone}, age : 0..MaxClaimAge]
    BY DEF TypeOK
<1> QED
    BY <1>1, <1>2, <1>3 DEF WriteClaims, PassClaims

LEMMA TickTyped == TypeOK /\ Tick => TypeOK'
<1> SUFFICES ASSUME TypeOK, Tick PROVE TypeOK'
    OBVIOUS
<1>1. claims' \in [Items -> [owner : Workers \cup {Free, Gone}, age : 0..MaxClaimAge]]
  <2> SUFFICES ASSUME NEW k \in Items
               PROVE  (IF claims[k].owner = Free THEN claims[k]
                       ELSE [claims[k] EXCEPT !.age = Least(@ + 1, MaxClaimAge)])
                          \in [owner : Workers \cup {Free, Gone}, age : 0..MaxClaimAge]
      BY DEF Tick
  <2>1. claims[k] \in [owner : Workers \cup {Free, Gone}, age : 0..MaxClaimAge]
      BY DEF TypeOK
  <2>2. MaxClaimAge \in Nat
      BY TimeAssumption DEF MaxClaimAge
  <2>3. claims[k].age + 1 \in Nat
      BY <2>1, <2>2
  <2>4. Least(claims[k].age + 1, MaxClaimAge) \in 0..MaxClaimAge
      BY <2>2, <2>3, LeastBound
  <2> QED
      BY <2>1, <2>4
<1>2. age' \in [Workers -> 0..MaxCycle] /\ runAge' \in [Workers -> 0..MaxRun]
    BY TimeAssumption DEF Tick, TypeOK
<1>3. lastRun' \in [Jobs -> 0..Cadence]
  <2>1. \A j \in Jobs : lastRun[j] + 1 \in Nat /\ Cadence \in Nat
      BY TimeAssumption DEF TypeOK
  <2> QED
      BY <2>1, LeastBound DEF Tick
<1> QED
    BY <1>1, <1>2, <1>3 DEF Tick, TypeOK

LEMMA SetLastRunTyped ==
    ASSUME TypeOK, NEW w \in Workers, NEW j \in Jobs, SetLastRun(w, j)
    PROVE  lastRun' \in [Jobs -> 0..Cadence]
<1>1. age[w] \in Nat /\ Cadence \in Nat
    BY TimeAssumption DEF TypeOK
<1> QED
    BY <1>1, LeastBound DEF SetLastRun, TypeOK

LEMMA FaultTyped == TypeOK /\ Fault => faults' \in 0..MaxFaults
BY TimeAssumption DEF Fault, TypeOK

\* A caller's own steps and its failures.
LEMMA WorkerStepTyped ==
    ASSUME TypeOK, NEW w \in Workers, Moves(w)
    PROVE  TypeOK'
<1>1. ASSUME NEW js \in SUBSET Jobs, BeginCycle(w, js) PROVE TypeOK'
    BY <1>1 DEF BeginCycle, TypeOK, store, PCs, Claimed, Working
<1>2. ASSUME NEW j \in Jobs, RunCoherence(w, j) PROVE TypeOK'
  <2>1. lastRun' \in [Jobs -> 0..Cadence]
      BY <1>2, SetLastRunTyped DEF RunCoherence
  <2>2. runAge' \in [Workers -> 0..MaxRun]
      BY <1>2, TimeAssumption DEF RunCoherence, TypeOK
  <2>5. pc' \in [Workers -> PCs] /\ age' \in [Workers -> 0..MaxCycle]
        /\ due' \in [Workers -> SUBSET Jobs]
    <3>1. CASE due[w] = {j}
      <4>1. EndCycle(w)
          BY <1>2, <3>1 DEF RunCoherence
      <4> QED
          BY <4>1, TimeAssumption DEF EndCycle, TypeOK, PCs
    <3>2. CASE due[w] # {j}
      <4>1. due' = [due EXCEPT ![w] = @ \ {j}] /\ UNCHANGED <<pc, age>>
          BY <1>2, <3>2 DEF RunCoherence
      <4> QED
          BY <4>1 DEF TypeOK
    <3> QED
        BY <3>1, <3>2
  <2>3. job' \in [Workers -> Jobs]
      BY <1>2, AnyJobType DEF RunCoherence, EndCycle, TypeOK
  <2>4. UNCHANGED <<queued, processed, claims, formed, matched, batch, failing, faults>>
      BY <1>2 DEF RunCoherence
  <2> QED
      BY <2>1, <2>2, <2>3, <2>4, <2>5 DEF TypeOK
<1>3. ASSUME NEW j \in Jobs, Refused(w, j) PROVE TypeOK'
    BY <1>3, FaultTyped, AnyJobType, TimeAssumption DEF Refused, EndCycle, TypeOK, store, PCs
<1>4. ASSUME NEW j \in Jobs, BeginRun(w, j) PROVE TypeOK'
    BY <1>4 DEF BeginRun, TypeOK, store, PCs, Claimed
<1>5. CASE ClaimEpisodes(w) \/ ClaimScopeWork(w)
  <2>1. claims' \in [Items -> [owner : Workers \cup {Free, Gone}, age : 0..MaxClaimAge]]
      BY <1>5, ClaimsTyped DEF ClaimEpisodes, ClaimScopeWork
  <2>2. batch' \in [Workers -> SUBSET (Episodes \cup {Breadth})]
      BY <1>5, ClaimableType DEF ClaimEpisodes, ClaimScopeWork, TypeOK
  <2>3. pc' \in [Workers -> PCs]
      BY <1>5 DEF ClaimEpisodes, ClaimScopeWork, TypeOK, PCs, Claimed, Working
  <2> QED
      BY <1>5, <2>1, <2>2, <2>3 DEF ClaimEpisodes, ClaimScopeWork, TypeOK
<1>6. CASE (\E e \in Episodes : Approve(w, e) \/ Deny(w, e)) \/ Extract(w) \/ BatchDone(w)
           \/ WorkScope(w)
  <2>1. \E to \in PCs, rest \in SUBSET batch[w] : \E from \in PCs : Proceed(w, from, to, rest)
      BY <1>6 DEF Approve, Deny, Extract, BatchDone, WorkScope, PCs, Claimed, Working
  <2>2. UNCHANGED <<failing, faults>>
      BY <1>6 DEF Approve, Deny, Extract, BatchDone, WorkScope
  <2> QED
      BY <2>1, <2>2 DEF Proceed, store, TypeOK
<1>7. ASSUME NEW e \in Episodes, Materialize(w, e) PROVE TypeOK'
  <2>1. formed' \in [Items -> Nat]
      BY <1>7, ItemType DEF Materialize, TypeOK
  <2> QED
      BY <1>7, <2>1 DEF Materialize, TypeOK, PCs, Claimed, Working
<1>8. ASSUME NEW e \in Episodes, MarkEpisodeProcessed(w, e) PROVE TypeOK'
  <2>1. Item(w, e) \in Episodes \X Consumers
      BY QueueAssumption DEF TypeOK, Item
  <2>2. processed' \subseteq Episodes \X Consumers
      BY <1>8, <2>1 DEF MarkEpisodeProcessed, TypeOK
  <2> QED
      BY <1>8, <2>2 DEF MarkEpisodeProcessed, TypeOK, PCs, Claimed, Working
<1>9. CASE Outage(w) \/ Abort(w) \/ (Raise(w) /\ UNCHANGED faults)
    BY <1>9, FaultTyped
    DEF Outage, Abort, Raise, Proceed, store, TypeOK, PCs, Claimed, Working
<1>10. CASE Checkpoint(w)
  <2>1. lastRun' \in [Jobs -> 0..Cadence]
      BY <1>10, SetLastRunTyped DEF Checkpoint, TypeOK
  <2>2. faults' \in 0..MaxFaults /\ failing' \in [Workers -> BOOLEAN]
      BY <1>10, FaultTyped DEF Checkpoint, TypeOK
  <2> QED
      BY <1>10, <2>1, <2>2 DEF Checkpoint, TypeOK, PCs, Claimed
<1>11. CASE ReleaseDreamClaims(w) \/ Crash(w)
  <2>1. claims' \in [Items -> [owner : Workers \cup {Free, Gone}, age : 0..MaxClaimAge]]
      BY <1>11, ClaimsTyped DEF ReleaseDreamClaims, Crash
  <2>2. pc' \in [Workers -> PCs] /\ age' \in [Workers -> 0..MaxCycle]
        /\ due' \in [Workers -> SUBSET Jobs] /\ runAge' \in [Workers -> 0..MaxRun]
        /\ job' \in [Workers -> Jobs]
    <3>1. runAge' \in [Workers -> 0..MaxRun]
        BY <1>11, TimeAssumption DEF ReleaseDreamClaims, Crash, TypeOK
    <3>2. EndCycle(w) \/ (pc' = [pc EXCEPT ![w] = "next"] /\ UNCHANGED <<age, due, job>>)
        BY <1>11 DEF ReleaseDreamClaims, Crash
    <3> QED
        BY <3>1, <3>2, AnyJobType, TimeAssumption DEF EndCycle, TypeOK, PCs
  <2>3. faults' \in 0..MaxFaults
      BY <1>11, FaultTyped DEF ReleaseDreamClaims, Crash, TypeOK
  <2> QED
      BY <1>11, <2>1, <2>2, <2>3 DEF ReleaseDreamClaims, Crash, TypeOK
<1> QED
    BY <1>1, <1>2, <1>3, <1>4, <1>5, <1>6, <1>7, <1>8, <1>9, <1>10, <1>11
    DEF Moves, Step, Failure, RunDueDreams, RunDreamJob

LEMMA NextTyped == TypeOK /\ [Next]_vars => TypeOK'
<1> SUFFICES ASSUME TypeOK, [Next]_vars PROVE TypeOK'
    OBVIOUS
<1>1. ASSUME NEW e \in Episodes, AddEpisode(e) PROVE TypeOK'
    BY <1>1 DEF AddEpisode, runs, TypeOK
<1>2. CASE UNCHANGED vars
    BY <1>2 DEF vars, store, runs, TypeOK
<1> QED
    BY <1>1, <1>2, TickTyped, WorkerStepTyped DEF Next, Moves

\* The tables, markers and run states always have their declared shapes.
THEOREM TypeCorrect == Spec => []TypeOK
BY InitTyped, NextTyped, PTL DEF Spec

-----------------------------------------------------------------------------
(* The claim plane. *)

\* A step of one caller leaves the others where they are.
Untouched(v) ==
    pc'[v] = pc[v] /\ batch'[v] = batch[v] /\ job'[v] = job[v] /\ age'[v] = age[v]

LEMMA OthersUntouched ==
    ASSUME TypeOK, NEW w \in Workers, NEW v \in Workers \ {w}, Moves(w)
    PROVE  Untouched(v)
<1>1. CASE \/ \E j \in Jobs : RunDreamJob(w, j) \/ RunCoherence(w, j) \/ BeginRun(w, j)
                              \/ Refused(w, j)
           \/ RunDueDreams(w)
    BY <1>1 DEF RunDreamJob, RunDueDreams, BeginCycle, RunCoherence, BeginRun, Refused,
                EndCycle, Untouched, TypeOK
<1>2. CASE ClaimEpisodes(w) \/ ClaimScopeWork(w)
    BY <1>2 DEF ClaimEpisodes, ClaimScopeWork, Untouched, TypeOK
<1>3. CASE \/ \E e \in Episodes : \/ Approve(w, e) \/ Deny(w, e)
                                  \/ Materialize(w, e) \/ MarkEpisodeProcessed(w, e)
           \/ Extract(w) \/ BatchDone(w) \/ WorkScope(w) \/ Outage(w) \/ Abort(w) \/ Raise(w)
    BY <1>3 DEF Approve, Deny, Materialize, MarkEpisodeProcessed, Extract, BatchDone,
                WorkScope, Outage, Abort, Raise, Proceed, Untouched, TypeOK
<1>4. CASE Checkpoint(w) \/ ReleaseDreamClaims(w) \/ Crash(w)
    BY <1>4 DEF Checkpoint, ReleaseDreamClaims, Crash, EndCycle, Untouched, TypeOK
<1> QED
    BY <1>1, <1>2, <1>3, <1>4 DEF Moves, Step, Failure

\* An item is in one batch only, and there once.
LEMMA BatchesAreDisjoint ==
    ASSUME OInv, NEW v \in Workers, NEW w \in Workers, NEW e \in batch[v], NEW f \in batch[w],
           Item(v, e) = Item(w, f)
    PROVE  v = w /\ e = f
<1>1. v = w
    BY DEF OInv, BatchesAreOwned
<1> QED
    BY <1>1 DEF Item

\* Under ShortCycles a run never claims what another run is working on.
LEMMA ClaimedIsNotClaimable ==
    ASSUME OInv, ShortCycles, NEW v \in Workers, NEW w \in Workers \ {v},
           NEW e \in batch[v], NEW f \in Claimable(w)
    PROVE  Item(v, e) # Item(w, f)
<1>1. claims[Item(v, e)].owner = v /\ claims[Item(v, e)].age = age[v]
    BY DEF OInv, BatchesAreOwned
<1>2. age[v] < age[w] + StaleAfter
    BY TimeAssumption DEF OInv, TypeOK, ShortCycles
<1>3. ClaimIsLive(Item(v, e), w)
    BY <1>1, <1>2, WorkerAssumption DEF ClaimIsLive
<1> QED
    BY <1>3 DEF Claimable

LEMMA InitClaimed == Init => IInv
<1> SUFFICES ASSUME Init PROVE IInv
    OBVIOUS
<1>1. \A w \in Workers : batch[w] = {}
    BY DEF Init
<1>2. \A k \in Items : claims[k].owner \notin Workers
    BY WorkerAssumption DEF Init
<1> QED
    BY <1>1, <1>2, InitTyped
    DEF IInv, OInv, BatchesAreWorkedOn, BatchesAreOwned, BatchesAreOpen, ClaimsHaveAnOwner

\* What a step must respect for the claim plane's invariant to survive it.
LEMMA StepOwned ==
    ASSUME OInv, TypeOK', NEW w \in Workers,
           \A v \in Workers \ {w} : Untouched(v),
           pc'[w] \notin Working => batch'[w] = {},
           \A v \in Workers : \A e \in batch'[v] :
              claims'[Item(v, e)'].owner = v /\ claims'[Item(v, e)'].age = age'[v],
           \A k \in Items : \A v \in Workers \ {w} :
              claims'[k].owner = v => claims[k].owner = v,
           \A k \in Items : claims'[k].owner = w => pc'[w] \in Claimed
    PROVE  OInv'
BY DEF OInv, BatchesAreWorkedOn, BatchesAreOwned, ClaimsHaveAnOwner, Untouched, Item

\* A caller's own steps and its failures.
LEMMA WorkerStepClaimed ==
    ASSUME OInv, ShortCycles, NEW w \in Workers, Moves(w)
    PROVE  OInv'
<1> USE DEF OInv
<1>1. TypeOK' /\ \A v \in Workers \ {w} : Untouched(v)
    BY WorkerStepTyped, OthersUntouched
\* Between two runs: nothing is held.
<1>2. CASE \/ \E j \in Jobs : RunDreamJob(w, j) \/ RunCoherence(w, j) \/ BeginRun(w, j)
                              \/ Refused(w, j)
           \/ RunDueDreams(w)
  <2>1. /\ pc[w] \in {"idle", "next"} /\ pc'[w] \in {"idle", "next", "claim"}
        /\ UNCHANGED <<claims, batch>>
      BY <1>2 DEF RunDreamJob, RunDueDreams, BeginCycle, RunCoherence, BeginRun, Refused,
                  EndCycle, TypeOK, store
  <2>2. batch[w] = {} /\ \A k \in Items : claims[k].owner # w
      BY <2>1 DEF BatchesAreWorkedOn, ClaimsHaveAnOwner, Working, Claimed
  <2> QED
      BY <1>1, <2>1, <2>2, StepOwned DEF Untouched, BatchesAreOwned, Item
\* The claim itself.
<1>3. CASE ClaimEpisodes(w) \/ ClaimScopeWork(w)
  <2>1. /\ batch' = [batch EXCEPT ![w] = Claimable(w)]
        /\ WriteClaims({Item(w, e) : e \in Claimable(w)}, w)
        /\ pc'[w] \in Claimed /\ (pc'[w] \notin Working => Claimable(w) = {})
        /\ UNCHANGED <<age, job>>
      BY <1>3 DEF ClaimEpisodes, ClaimScopeWork, TypeOK, Claimed, Working
  <2>2. batch'[w] = Claimable(w)
      BY <2>1 DEF TypeOK
  <2>3. \A v \in Workers : \A e \in batch'[v] : Item(v, e)' = Item(v, e) /\ Item(v, e) \in Items
      BY <1>1, <2>1, ItemType DEF Item, TypeOK
  <2>4. ASSUME NEW v \in Workers, NEW e \in batch'[v]
        PROVE  claims'[Item(v, e)'].owner = v /\ claims'[Item(v, e)'].age = age'[v]
    <3>1. CASE v = w
        BY <2>1, <2>2, <2>3, <2>4, <3>1 DEF WriteClaims
    <3>2. CASE v # w
      <4>1. e \in batch[v] /\ age'[v] = age[v]
          BY <1>1, <2>4, <3>2 DEF Untouched
      <4>2. Item(v, e) \notin {Item(w, f) : f \in Claimable(w)}
          BY <3>2, <4>1, ClaimedIsNotClaimable
      <4> QED
          BY <2>1, <2>3, <2>4, <4>1, <4>2 DEF WriteClaims, BatchesAreOwned
    <3> QED
        BY <3>1, <3>2
  <2>5. \A k \in Items : \A v \in Workers \ {w} :
           claims'[k].owner = v => claims[k].owner = v
      BY <2>1 DEF WriteClaims
  <2> QED
      BY <1>1, <2>1, <2>2, <2>4, <2>5, StepOwned
\* Within the run: the batch only shrinks.
<1>4. CASE \/ \E e \in Episodes : \/ Approve(w, e) \/ Deny(w, e)
                                  \/ Materialize(w, e) \/ MarkEpisodeProcessed(w, e)
           \/ Extract(w) \/ BatchDone(w) \/ WorkScope(w) \/ Outage(w) \/ Abort(w) \/ Raise(w)
           \/ Checkpoint(w)
  <2>1. /\ UNCHANGED <<claims, job, age>>
        /\ pc'[w] \in Claimed
        /\ pc'[w] \notin Working => batch'[w] = {}
      BY <1>4 DEF Approve, Deny, Materialize, MarkEpisodeProcessed, Extract, BatchDone,
                  WorkScope, Outage, Abort, Raise, Proceed, Checkpoint, store, TypeOK,
                  Working, Claimed, BatchesAreWorkedOn
  <2>2. batch'[w] \subseteq batch[w]
      BY <1>4 DEF Approve, Deny, Materialize, MarkEpisodeProcessed, Extract, BatchDone,
                  WorkScope, Outage, Abort, Raise, Proceed, Checkpoint, store, TypeOK
  <2>3. \A v \in Workers : batch'[v] \subseteq batch[v]
      BY <1>1, <2>2 DEF Untouched
  <2>4. ASSUME NEW v \in Workers, NEW e \in batch'[v]
        PROVE  claims'[Item(v, e)'].owner = v /\ claims'[Item(v, e)'].age = age'[v]
    <3>1. e \in batch[v] /\ Item(v, e)' = Item(v, e)
        BY <2>1, <2>3, <2>4 DEF Item
    <3> QED
        BY <2>1, <3>1 DEF BatchesAreOwned
  <2>5. \A k \in Items : claims'[k].owner = w => pc'[w] \in Claimed
      BY <2>1
  <2>6. \A k \in Items : \A v \in Workers \ {w} :
           claims'[k].owner = v => claims[k].owner = v
      BY <2>1
  <2> QED
      BY <1>1, <2>1, <2>4, <2>5, <2>6, StepOwned
\* The end of the run: its claims pass to nobody or to the dead.
<1>5. CASE ReleaseDreamClaims(w) \/ Crash(w)
  <2>1. \E heir \in {Free, Gone} : PassClaims(w, heir)
      BY <1>5 DEF ReleaseDreamClaims, Crash
  <2>2. batch'[w] = {}
      BY <1>5 DEF ReleaseDreamClaims, Crash, TypeOK, BatchesAreWorkedOn, Working
  <2>3. \A k \in Items : \A v \in Workers :
           claims'[k].owner = v => claims[k].owner = v /\ v # w
      BY <2>1, WorkerAssumption DEF PassClaims
  <2>4. ASSUME NEW v \in Workers, NEW e \in batch'[v]
        PROVE  claims'[Item(v, e)'].owner = v /\ claims'[Item(v, e)'].age = age'[v]
    <3>1. v # w /\ e \in batch[v] /\ Item(v, e)' = Item(v, e) /\ age'[v] = age[v]
        BY <1>1, <2>2, <2>4 DEF Untouched, Item
    <3>2. Item(v, e) \in Items /\ claims[Item(v, e)].owner # w
        BY <3>1, ItemType DEF TypeOK, BatchesAreOwned
    <3>3. claims'[Item(v, e)] = claims[Item(v, e)]
        BY <2>1, <3>2 DEF PassClaims
    <3> QED
        BY <2>2, <3>1, <3>3 DEF BatchesAreOwned
  <2>5. \A k \in Items : claims'[k].owner # w
      BY <2>3
  <2> QED
      BY <1>1, <2>2, <2>3, <2>4, <2>5, StepOwned
<1> QED
    BY <1>2, <1>3, <1>4, <1>5 DEF Moves, Step, Failure

LEMMA TickClaimed == OInv /\ ShortCycles /\ Tick => OInv'
<1> SUFFICES ASSUME OInv, ShortCycles, Tick PROVE OInv'
    OBVIOUS
<1>1. TypeOK'
    BY TickTyped DEF OInv
<1>2. ASSUME NEW w \in Workers, NEW e \in batch'[w]
      PROVE  claims'[Item(w, e)'].owner = w /\ claims'[Item(w, e)'].age = age'[w]
  <2>1. e \in batch[w] /\ Item(w, e)' = Item(w, e) /\ Item(w, e) \in Items
      BY <1>2, ItemType DEF Tick, Item, OInv, TypeOK
  <2>2. claims[Item(w, e)].owner = w /\ claims[Item(w, e)].age = age[w]
      BY <2>1 DEF OInv, BatchesAreOwned
  <2>3. age'[w] = age[w] + 1 /\ age'[w] \in 0..MaxCycle
      BY <1>1, <2>1 DEF Tick, OInv, BatchesAreWorkedOn, TypeOK, Working
  <2>4. Least(age[w] + 1, MaxClaimAge) = age[w] + 1
      BY <2>3, TimeAssumption DEF Least, MaxClaimAge, OInv, TypeOK
  <2>5. claims'[Item(w, e)] = [claims[Item(w, e)] EXCEPT !.age = Least(@ + 1, MaxClaimAge)]
      BY <2>1, <2>2, WorkerAssumption DEF Tick
  <2>6. claims[Item(w, e)] \in [owner : Workers \cup {Free, Gone}, age : 0..MaxClaimAge]
      BY <2>1 DEF OInv, TypeOK
  <2>7. claims'[Item(w, e)].owner = w /\ claims'[Item(w, e)].age = age[w] + 1
      BY <2>2, <2>4, <2>5, <2>6
  <2> QED
      BY <2>1, <2>2, <2>3, <2>7 DEF Tick
<1>3. \A k \in Items : claims'[k].owner = claims[k].owner
  <2> SUFFICES ASSUME NEW k \in Items PROVE claims'[k].owner = claims[k].owner
      OBVIOUS
  <2>1. claims[k] \in [owner : Workers \cup {Free, Gone}, age : 0..MaxClaimAge]
      BY DEF OInv, TypeOK
  <2> QED
      BY <2>1 DEF Tick
<1>4. BatchesAreOwned'
    BY <1>2 DEF BatchesAreOwned
<1>5. BatchesAreWorkedOn' /\ ClaimsHaveAnOwner'
    BY <1>3 DEF Tick, OInv, BatchesAreWorkedOn, ClaimsHaveAnOwner
<1> QED
    BY <1>1, <1>4, <1>5 DEF OInv

\* Only markers are written to an item that leaves the batch.
LEMMA StaysOpen ==
    ASSUME IInv, ShortCycles, NEW w \in Workers, OInv',
           Step(w) \/ Failure(w) \/ \E j \in Jobs : RunDreamJob(w, j)
    PROVE  BatchesAreOpen'
<1> USE DEF IInv, OInv
<1>1. \A v \in Workers \ {w} : Untouched(v)
    BY OthersUntouched DEF Moves
<1>2. \A v \in Workers \ {w} : \A e \in batch'[v] :
         e \in batch[v] /\ Item(v, e)' = Item(v, e)
    BY <1>1 DEF Untouched, Item
<1>3. CASE \/ \E j \in Jobs : RunDreamJob(w, j) \/ RunCoherence(w, j) \/ BeginRun(w, j)
                              \/ Refused(w, j)
           \/ RunDueDreams(w) \/ ReleaseDreamClaims(w) \/ Crash(w)
  <2>1. UNCHANGED processed /\ pc'[w] \notin Working
      BY <1>3 DEF RunDreamJob, RunDueDreams, BeginCycle, RunCoherence, BeginRun, Refused,
                  ReleaseDreamClaims, Crash, EndCycle, TypeOK, store, Working
  <2>2. batch'[w] = {}
      BY <2>1 DEF BatchesAreWorkedOn
  <2> QED
      BY <1>2, <2>1, <2>2 DEF BatchesAreOpen
<1>4. CASE ClaimEpisodes(w) \/ ClaimScopeWork(w)
  <2>1. batch'[w] = Claimable(w) /\ UNCHANGED <<processed, job>>
      BY <1>4 DEF ClaimEpisodes, ClaimScopeWork, TypeOK
  <2>2. \A e \in batch'[w] : Item(w, e)' \notin processed'
      BY <2>1 DEF Claimable, Item
  <2> QED
      BY <1>2, <2>1, <2>2 DEF BatchesAreOpen
<1>5. CASE \/ \E e \in Episodes : \/ Approve(w, e) \/ Deny(w, e)
                                  \/ Materialize(w, e) \/ MarkEpisodeProcessed(w, e)
           \/ Extract(w) \/ BatchDone(w) \/ WorkScope(w) \/ Outage(w) \/ Abort(w)
           \/ Checkpoint(w)
  <2>1. /\ batch'[w] \subseteq batch[w] /\ UNCHANGED job
        /\ \A k \in processed' : k \in processed \/ \E e \in batch[w] : k = Item(w, e)
                                                         /\ e \notin batch'[w]
      BY <1>5 DEF Approve, Deny, Materialize, MarkEpisodeProcessed, Extract, BatchDone,
                  WorkScope, Outage, Abort, Raise, Proceed, Checkpoint, store, TypeOK,
                  Earliest
  <2>2. \A v \in Workers : batch'[v] \subseteq batch[v]
      BY <1>1, <2>1 DEF Untouched
  <2> SUFFICES ASSUME NEW v \in Workers, NEW e \in batch'[v]
               PROVE  Item(v, e)' \notin processed'
      BY DEF BatchesAreOpen
  <2>3. e \in batch[v] /\ Item(v, e)' = Item(v, e)
      BY <2>1, <2>2 DEF Item
  <2>4. Item(v, e) \notin processed'
      BY <2>1, <2>3, BatchesAreDisjoint DEF BatchesAreOpen
  <2> QED
      BY <2>3, <2>4
<1> QED
    BY <1>3, <1>4, <1>5 DEF Step, Failure

LEMMA NextClaimed == IInv /\ ShortCycles /\ [Next]_vars => IInv'
<1> SUFFICES ASSUME IInv, ShortCycles, [Next]_vars PROVE IInv'
    OBVIOUS
<1>1. TypeOK'
    BY NextTyped DEF IInv, OInv
<1>2. CASE UNCHANGED vars \/ \E e \in Episodes : AddEpisode(e)
  <2>1. UNCHANGED <<processed, claims, pc, age, job, batch>>
      BY <1>2 DEF AddEpisode, vars, store, runs
  <2> QED
      BY <1>1, <2>1 DEF IInv, OInv, BatchesAreWorkedOn, BatchesAreOwned, BatchesAreOpen,
                        ClaimsHaveAnOwner, Item
<1>3. CASE Tick
  <2>1. UNCHANGED <<processed, job, batch>>
      BY <1>3 DEF Tick
  <2> QED
      BY <1>3, <2>1, TickClaimed DEF IInv, BatchesAreOpen, Item
<1>4. ASSUME NEW w \in Workers, Step(w) \/ Failure(w) \/ \E j \in Jobs : RunDreamJob(w, j)
      PROVE  IInv'
    BY <1>4, WorkerStepClaimed, StaysOpen DEF IInv, Moves
<1> QED
    BY <1>2, <1>3, <1>4 DEF Next

LEMMA InvariantHolds == ASSUME ShortCycles PROVE Spec => []IInv
BY InitClaimed, NextClaimed, PTL DEF Spec

\* The claim invariant excludes double work.
LEMMA ClaimsExclude == OInv => NoDoubleWork
BY BatchesAreDisjoint DEF NoDoubleWork, Holds

\* As long as a cycle ends before claims stamped at its start go stale, no two
\* runs ever work on the same item: the claim plane's promise to run_job.
THEOREM NeverDoubleWork == ASSUME ShortCycles PROVE Spec => []NoDoubleWork
<1>1. IInv => NoDoubleWork
    BY ClaimsExclude DEF IInv, OInv
<1> QED
    BY <1>1, InvariantHolds, PTL

LEMMA NextOwned == TypeOK /\ ClaimsHaveAnOwner /\ [Next]_vars => ClaimsHaveAnOwner'
<1> SUFFICES ASSUME TypeOK, ClaimsHaveAnOwner, [Next]_vars,
                    NEW k \in Items, NEW v \in Workers, claims'[k].owner = v
             PROVE  pc'[v] \in Claimed
    BY DEF ClaimsHaveAnOwner
<1> USE DEF ClaimsHaveAnOwner
<1>1. CASE UNCHANGED vars \/ (\E e \in Episodes : AddEpisode(e)) \/ Tick
  <2>1. claims'[k].owner = claims[k].owner /\ pc' = pc
    <3>1. claims[k] \in [owner : Workers \cup {Free, Gone}, age : 0..MaxClaimAge]
        BY DEF TypeOK
    <3> QED
        BY <1>1, <3>1 DEF AddEpisode, Tick, vars, store, runs
  <2> QED
      BY <2>1
<1>2. ASSUME NEW w \in Workers,
             \/ Step(w) \/ Failure(w) \/ \E j \in Jobs : RunDreamJob(w, j)
      PROVE  pc'[v] \in Claimed
  <2>1. v # w => pc'[v] = pc[v]
      BY <1>2, OthersUntouched DEF Untouched, Moves
  <2>2. CASE \/ \E j \in Jobs : RunDreamJob(w, j) \/ RunCoherence(w, j) \/ BeginRun(w, j)
                                \/ Refused(w, j)
             \/ RunDueDreams(w)
    <3>1. claims' = claims /\ pc[w] \notin Claimed
        BY <2>2 DEF RunDreamJob, RunDueDreams, BeginCycle, RunCoherence, BeginRun, Refused,
                    store, Claimed, Working
    <3> QED
        BY <2>1, <3>1
  <2>3. CASE ClaimEpisodes(w) \/ ClaimScopeWork(w)
    <3>1. pc'[w] \in Claimed /\ (claims'[k].owner = w \/ claims'[k] = claims[k])
        BY <2>3 DEF ClaimEpisodes, ClaimScopeWork, WriteClaims, TypeOK, Claimed, Working
    <3> QED
        BY <2>1, <3>1
  <2>4. CASE \/ \E e \in Episodes : \/ Approve(w, e) \/ Deny(w, e)
                                    \/ Materialize(w, e) \/ MarkEpisodeProcessed(w, e)
             \/ Extract(w) \/ BatchDone(w) \/ WorkScope(w) \/ Outage(w) \/ Abort(w)
             \/ Checkpoint(w)
    <3>1. claims' = claims /\ pc'[w] \in Claimed
        BY <2>4 DEF Approve, Deny, Materialize, MarkEpisodeProcessed, Extract, BatchDone,
                    WorkScope, Outage, Abort, Raise, Proceed, Checkpoint, store, TypeOK,
                    Working, Claimed
    <3> QED
        BY <2>1, <3>1
  <2>5. CASE ReleaseDreamClaims(w) \/ Crash(w)
    <3>1. \E heir \in {Free, Gone} : PassClaims(w, heir)
        BY <2>5 DEF ReleaseDreamClaims, Crash
    <3>2. claims[k].owner = v /\ v # w
        BY <3>1, WorkerAssumption DEF PassClaims
    <3> QED
        BY <2>1, <3>2
  <2> QED
      BY <1>2, <2>2, <2>3, <2>4, <2>5 DEF Step, Failure
<1> QED
    BY <1>1, <1>2 DEF Next

\* Every exit path of run_job releases: whatever the clocks do, a claim row names
\* a run in flight or a crashed one.
THEOREM NoLeakedClaim == Spec => []ClaimsHaveAnOwner
<1>1. Init => ClaimsHaveAnOwner
    BY WorkerAssumption DEF Init, ClaimsHaveAnOwner
<1> QED
    BY <1>1, NextOwned, TypeCorrect, PTL DEF Spec

-----------------------------------------------------------------------------
(* What is formed. *)

\* Only a commit changes formed, and it commits an item of its batch.
LEMMA OnlyMaterializeForms ==
    ASSUME TypeOK, [Next]_vars, formed' # formed
    PROVE  \E w \in Workers, e \in Episodes : Materialize(w, e)
<1>1. ~UNCHANGED vars /\ ~Tick /\ ~\E e \in Episodes : AddEpisode(e)
    BY DEF vars, store, Tick, AddEpisode
<1>2. PICK w \in Workers : Step(w) \/ Failure(w) \/ \E j \in Jobs : RunDreamJob(w, j)
    BY <1>1 DEF Next
<1>3. /\ ~RunDueDreams(w)
      /\ \A j \in Jobs : ~RunDreamJob(w, j) /\ ~RunCoherence(w, j) /\ ~BeginRun(w, j)
                         /\ ~Refused(w, j)
    BY DEF RunDueDreams, RunDreamJob, BeginCycle, RunCoherence, BeginRun, Refused, store
<1>4. /\ ~ClaimEpisodes(w) /\ ~ClaimScopeWork(w) /\ ~Extract(w) /\ ~BatchDone(w)
      /\ ~WorkScope(w) /\ ~Checkpoint(w) /\ ~ReleaseDreamClaims(w)
      /\ \A e \in Episodes : ~Approve(w, e) /\ ~Deny(w, e) /\ ~MarkEpisodeProcessed(w, e)
    BY DEF ClaimEpisodes, ClaimScopeWork, Extract, BatchDone, WorkScope, Checkpoint,
           ReleaseDreamClaims, Approve, Deny, MarkEpisodeProcessed, Proceed, store
<1>5. ~Outage(w) /\ ~Abort(w) /\ ~Crash(w)
    BY DEF Outage, Abort, Crash, Raise, Proceed, store
<1> QED
    BY <1>2, <1>3, <1>4, <1>5 DEF Step, Failure

\* A marked episode is never formed again for that consumer.
THEOREM MarkerIsFinal == ASSUME ShortCycles PROVE Spec => ProcessedNeverReformed
<1>1. IInv /\ [Next]_vars => [\A k \in processed : formed'[k] = formed[k]]_vars
  <2> SUFFICES ASSUME IInv, [Next]_vars, NEW k \in processed
               PROVE  formed'[k] = formed[k]
      OBVIOUS
  <2>1. CASE formed' = formed
      BY <2>1
  <2>2. CASE formed' # formed
    <3>1. PICK w \in Workers, e \in Episodes : Materialize(w, e)
        BY <2>2, OnlyMaterializeForms DEF IInv, OInv
    <3>2. Item(w, e) \notin processed
        BY <3>1 DEF IInv, OInv, BatchesAreOwned, BatchesAreOpen, Materialize, Earliest
    <3> QED
        BY <3>1, <3>2 DEF Materialize
  <2> QED
      BY <2>1, <2>2
<1> QED
    BY <1>1, InvariantHolds, PTL DEF Spec, ProcessedNeverReformed

LEMMA InitFormed == Init => FormedOnce
<1> SUFFICES ASSUME Init, NEW k \in Items PROVE formed[k] <= faults
    BY DEF FormedOnce
<1> QED
    BY DEF Init

\* A step of w that neither leaves "scan" nor unmarks anything uncommits nothing.
LEMMA CommittedKept ==
    ASSUME NEW w \in Workers, NEW k,
           \A v \in Workers \ {w} : Untouched(v),
           pc[w] # "scan", processed \subseteq processed', Committed(k)
    PROVE  Committed(k)'
<1>1. CASE k \in processed
    BY <1>1 DEF Committed
<1>2. CASE \E v \in Workers : \E e \in batch[v] :
              pc[v] = "scan" /\ Earliest(e, batch[v]) /\ k = Item(v, e)
  <2>1. PICK v \in Workers : \E e \in batch[v] :
            pc[v] = "scan" /\ Earliest(e, batch[v]) /\ k = Item(v, e)
      BY <1>2
  <2>2. Untouched(v)
      BY <2>1
  <2>3. PICK e \in batch[v] : Earliest(e, batch[v]) /\ k = Item(v, e)
      BY <2>1
  <2>4. /\ pc'[v] = "scan" /\ e \in batch'[v] /\ Earliest(e, batch'[v])
        /\ k = Item(v, e)'
      BY <2>1, <2>2, <2>3 DEF Untouched, Item, Earliest
  <2> QED
      BY <2>4 DEF Committed, Earliest
<1> QED
    BY <1>1, <1>2 DEF Committed

LEMMA WorkerStepFormed ==
    ASSUME IInv, FormedOnce, NEW w \in Workers,
           \/ Step(w) \/ Failure(w) \/ \E j \in Jobs : RunDreamJob(w, j)
    PROVE  FormedOnce'
<1> SUFFICES ASSUME NEW k \in Items
             PROVE  \/ formed'[k] <= faults'
                    \/ formed'[k] <= 1 + faults' /\ Committed(k)'
    BY DEF FormedOnce
<1> USE DEF IInv, OInv
<1>1. /\ formed[k] \in Nat /\ faults \in Nat
      /\ formed[k] <= faults \/ (formed[k] <= 1 + faults /\ Committed(k))
    BY TimeAssumption DEF TypeOK, FormedOnce
<1>2. \A v \in Workers \ {w} : Untouched(v)
    BY OthersUntouched DEF Moves
\* A failure pays for one more commit.
<1>3. CASE faults' = faults + 1 /\ formed' = formed
    BY <1>1, <1>3
\* The commit: the item was not committed, for only its claimant works on it.
<1>4. ASSUME NEW e \in Episodes, Materialize(w, e)
      PROVE  formed'[k] <= faults' \/ (formed'[k] <= 1 + faults' /\ Committed(k)')
  <2>1. /\ pc[w] = "write" /\ e \in batch[w] /\ Earliest(e, batch[w])
        /\ pc'[w] = "scan" /\ UNCHANGED <<batch, job, processed, faults>>
      BY <1>4 DEF Materialize, Earliest, TypeOK
  <2>2. CASE k = Item(w, e)
    <3>1. ~Committed(k)
        BY <2>1, <2>2, BatchesAreDisjoint DEF Committed, BatchesAreOwned, BatchesAreOpen
    <3>2. formed'[k] = formed[k] + 1
        BY <1>4, <2>2 DEF Materialize, TypeOK
    <3>3. Committed(k)'
        BY <2>1, <2>2 DEF Committed, Item, Earliest
    <3> QED
        BY <1>1, <2>1, <3>1, <3>2, <3>3
  <2>3. CASE k # Item(w, e)
    <3>1. formed'[k] = formed[k]
        BY <1>4, <2>3 DEF Materialize, TypeOK
    <3>2. Committed(k) => Committed(k)'
        BY <1>2, <2>1, CommittedKept
    <3> QED
        BY <1>1, <2>1, <3>1, <3>2
  <2> QED
      BY <2>2, <2>3
\* The marker takes over from the run that was about to write it.
<1>5. ASSUME NEW e \in Episodes, MarkEpisodeProcessed(w, e)
      PROVE  formed'[k] <= faults' \/ (formed'[k] <= 1 + faults' /\ Committed(k)')
  <2>1. /\ pc[w] = "scan" /\ Earliest(e, batch[w])
        /\ processed' = processed \cup {Item(w, e)} /\ UNCHANGED <<formed, faults>>
      BY <1>5 DEF MarkEpisodeProcessed
  <2>2. Committed(k) => Committed(k)'
    <3> SUFFICES ASSUME Committed(k) PROVE Committed(k)'
        OBVIOUS
    <3>1. CASE k \in processed
        BY <2>1, <3>1 DEF Committed
    <3>2. ASSUME NEW v \in Workers, NEW f \in batch[v],
                 pc[v] = "scan" /\ Earliest(f, batch[v]) /\ k = Item(v, f)
          PROVE  Committed(k)'
      <4>1. CASE v = w
        <5>1. e \in Nat /\ f \in Nat
            BY <3>2, QueueAssumption DEF TypeOK, Breadth
        <5>2. e <= f /\ f <= e
            BY <2>1, <3>2, <4>1 DEF Earliest
        <5>3. e = f
            BY <5>1, <5>2
        <5> QED
            BY <2>1, <3>2, <4>1, <5>3 DEF Committed
      <4>2. CASE v # w
        <5>1. Untouched(v)
            BY <1>2, <4>2
        <5>2. /\ pc'[v] = "scan" /\ f \in batch'[v] /\ Earliest(f, batch'[v])
              /\ k = Item(v, f)'
            BY <3>2, <5>1 DEF Untouched, Item, Earliest
        <5> QED
            BY <5>2 DEF Committed, Earliest
      <4> QED
          BY <4>1, <4>2
    <3> QED
        BY <3>1, <3>2 DEF Committed
  <2> QED
      BY <1>1, <2>1, <2>2
\* Every other step happens outside "scan" and commits nothing.
<1>6. CASE /\ pc[w] # "scan" /\ processed \subseteq processed'
           /\ UNCHANGED <<formed, faults>>
    BY <1>1, <1>2, <1>6, CommittedKept
<1>7. CASE \/ \E j \in Jobs : RunDreamJob(w, j) \/ RunCoherence(w, j) \/ BeginRun(w, j)
           \/ RunDueDreams(w) \/ ClaimEpisodes(w) \/ ClaimScopeWork(w)
           \/ \E e \in Episodes : Approve(w, e) \/ Deny(w, e)
           \/ Extract(w) \/ BatchDone(w) \/ WorkScope(w) \/ ReleaseDreamClaims(w)
    BY <1>6, <1>7
    DEF RunDreamJob, RunDueDreams, BeginCycle, RunCoherence, BeginRun, ClaimEpisodes,
        ClaimScopeWork, Approve, Deny, Extract, BatchDone, WorkScope, Proceed,
        ReleaseDreamClaims, store
<1>8. CASE Checkpoint(w)
    BY <1>3, <1>6, <1>8 DEF Checkpoint, Fault
<1>9. CASE Failure(w)
    BY <1>3, <1>9 DEF Failure, Refused, Outage, Abort, Raise, Proceed, Crash, Fault, store
<1> QED
    BY <1>4, <1>5, <1>7, <1>8, <1>9 DEF Step

LEMMA NextFormed == IInv /\ FormedOnce /\ [Next]_vars => FormedOnce'
<1> SUFFICES ASSUME IInv, FormedOnce, [Next]_vars PROVE FormedOnce'
    OBVIOUS
<1>1. CASE UNCHANGED vars \/ (\E e \in Episodes : AddEpisode(e)) \/ Tick
  <2>1. UNCHANGED <<processed, formed, faults, pc, job, batch>>
      BY <1>1 DEF AddEpisode, Tick, vars, store, runs
  <2> QED
      BY <2>1 DEF FormedOnce, Committed, Item
<1> QED
    BY <1>1, WorkerStepFormed DEF Next

\* An episode's memories are committed once, and once more for every failure that
\* struck between a commit and its marker.
THEOREM CommitsAreCounted == ASSUME ShortCycles PROVE Spec => []FormedOncePerFailure
<1>1. IInv /\ FormedOnce => FormedOncePerFailure
  <2> SUFFICES ASSUME IInv, FormedOnce, NEW k \in Items PROVE formed[k] <= 1 + faults
      BY DEF FormedOncePerFailure
  <2> QED
      BY TimeAssumption DEF IInv, OInv, TypeOK, FormedOnce
<1> QED
    BY <1>1, InitFormed, NextFormed, InvariantHolds, PTL DEF Spec

-----------------------------------------------------------------------------
(* The refinement of DreamWork. *)

\* The abstract holder of an item is the run that has it in its batch.
HoldersAgree ==
    \A k \in Items :
        /\ Holder[k] \in Workers \cup {Free}
        /\ \A w \in Workers : Holder[k] = w <=> \E e \in batch[w] : k = Item(w, e)

LEMMA HolderIsTheBatch == IInv => HoldersAgree
<1> SUFFICES ASSUME IInv, NEW k \in Items
             PROVE  /\ Holder[k] \in Workers \cup {Free}
                    /\ \A w \in Workers : Holder[k] = w <=> \E e \in batch[w] : k = Item(w, e)
    BY DEF HoldersAgree
<1>1. \A w \in Workers : Holds(w, k) <=> \E e \in batch[w] : k = Item(w, e)
    BY DEF IInv, OInv, BatchesAreWorkedOn, Holds
<1>2. \A v, w \in Workers : Holds(v, k) /\ Holds(w, k) => v = w
    BY ClaimsExclude DEF IInv, NoDoubleWork
<1>3. CASE \E w \in Workers : Holds(w, k)
  <2>1. PICK w \in Workers : Holds(w, k)
      BY <1>3
  <2>2. Holder[k] \in Workers /\ Holds(Holder[k], k)
      BY <1>3 DEF Holder
  <2> QED
      BY <1>1, <1>2, <2>2
<1>4. CASE ~ \E w \in Workers : Holds(w, k)
    BY <1>1, <1>4, WorkerAssumption DEF Holder
<1> QED
    BY <1>3, <1>4

\* What a step of w does to the holders: only w takes, only w lets go.
LEMMA HolderStep ==
    ASSUME HoldersAgree, HoldersAgree', NEW w \in Workers, NEW k \in Items,
           \A v \in Workers \ {w} : Untouched(v)
    PROVE  /\ (\E e \in batch'[w] : k = Item(w, e)') => Holder'[k] = w
           /\ (\A e \in batch'[w] : k # Item(w, e)') =>
                 Holder'[k] = IF Holder[k] = w THEN Free ELSE Holder[k]
<1>1. \A v \in Workers \ {w} : Holder'[k] = v <=> Holder[k] = v
    BY DEF HoldersAgree, Untouched, Item
<1>2. Holder'[k] = w <=> \E e \in batch'[w] : k = Item(w, e)'
    BY DEF HoldersAgree
<1>3. Holder[k] \in Workers \cup {Free} /\ Holder'[k] \in Workers \cup {Free}
    BY DEF HoldersAgree
<1> QED
    BY <1>1, <1>2, <1>3, WorkerAssumption

\* A step that takes nothing and marks nothing lets go of what leaves the batch.
LEMMA LettingGo ==
    ASSUME HoldersAgree, HoldersAgree', NEW w \in Workers,
           \A v \in Workers \ {w} : Untouched(v),
           batch'[w] \subseteq batch[w], batch'[w] = {} \/ job' = job, processed' = processed
    PROVE  Work!WorkNext
<1> DEFINE K == {k \in Items : Holder[k] = w /\ \A e \in batch'[w] : k # Item(w, e)'}
<1>1. \A k \in Items : Holder'[k] = IF k \in K THEN Free ELSE Holder[k]
  <2> SUFFICES ASSUME NEW k \in Items PROVE Holder'[k] = IF k \in K THEN Free ELSE Holder[k]
      OBVIOUS
  <2>1. (\E e \in batch'[w] : k = Item(w, e)') => Holder[k] = w
      BY DEF HoldersAgree, Item
  <2> QED
      BY <2>1, HolderStep
<1>2. Holder' = [k \in Items |-> IF k \in K THEN Free ELSE Holder[k]]
    BY <1>1 DEF Holder
<1>3. Work!Drop(w, K)
    BY <1>2 DEF Work!Drop
<1> QED
    BY <1>3 DEF Work!WorkNext

LEMMA WorkerStepRefines ==
    ASSUME IInv, HoldersAgree, HoldersAgree', NEW w \in Workers,
           \/ Step(w) \/ Failure(w) \/ \E j \in Jobs : RunDreamJob(w, j)
    PROVE  Work!WorkNext
<1> USE DEF IInv, OInv
<1>1. \A v \in Workers \ {w} : Untouched(v)
    BY OthersUntouched DEF Moves
<1>2. CASE ClaimEpisodes(w) \/ ClaimScopeWork(w)
  <2> DEFINE K == {Item(w, e) : e \in Claimable(w)}
  <2>1. /\ batch[w] = {} /\ batch'[w] = Claimable(w)
        /\ UNCHANGED <<processed, job>>
      BY <1>2 DEF ClaimEpisodes, ClaimScopeWork, TypeOK, BatchesAreWorkedOn, Working
  <2>2. K \subseteq Items
      BY ClaimableType, ItemType
  <2>3. \A k \in Items : Holder'[k] = IF k \in K THEN w ELSE Holder[k]
    <3> SUFFICES ASSUME NEW k \in Items PROVE Holder'[k] = IF k \in K THEN w ELSE Holder[k]
        OBVIOUS
    <3>1. k \in K <=> \E e \in batch'[w] : k = Item(w, e)'
        BY <2>1 DEF Item
    <3>2. Holder[k] # w
        BY <2>1 DEF HoldersAgree
    <3> QED
        BY <1>1, <3>1, <3>2, HolderStep
  <2>4. \A k \in K : Holder[k] = Free /\ k \notin processed
    <3> SUFFICES ASSUME NEW f \in Claimable(w)
                 PROVE  Holder[Item(w, f)] = Free /\ Item(w, f) \notin processed
        OBVIOUS
    <3>1. Item(w, f) \notin processed
        BY DEF Claimable
    <3>2. ASSUME NEW v \in Workers, Holder[Item(w, f)] = v PROVE FALSE
      <4>1. PICK e \in batch[v] : Item(w, f) = Item(v, e)
          BY <2>2, <3>2 DEF HoldersAgree
      <4>2. v = w \/ ~ClaimIsLive(Item(v, e), w)
          BY <4>1 DEF Claimable
      <4>3. v # w
          BY <2>1, <4>1
      <4>4. Holder'[Item(w, f)] = w /\ Item(v, e)' = Item(v, e) /\ e \in batch'[v]
          BY <1>1, <2>1, <2>2, <2>3, <4>1, <4>3 DEF Untouched, Item
      <4>5. Holder'[Item(w, f)] = v
          BY <2>2, <4>1, <4>4 DEF HoldersAgree
      <4> QED
          BY <4>3, <4>4, <4>5
    <3>3. Holder[Item(w, f)] \in Workers \cup {Free}
        BY <2>2 DEF HoldersAgree
    <3> QED
        BY <3>1, <3>2, <3>3
  <2>5. Holder' = [k \in Items |-> IF k \in K THEN w ELSE Holder[k]]
      BY <2>3 DEF Holder
  <2>6. Work!Take(w, K)
      BY <2>1, <2>4, <2>5 DEF Work!Take
  <2> QED
      BY <2>2, <2>6 DEF Work!WorkNext
<1>3. ASSUME NEW e \in Episodes, MarkEpisodeProcessed(w, e)
      PROVE  Work!WorkNext
  <2>1. /\ e \in batch[w] /\ batch'[w] = batch[w] \ {e} /\ job' = job
        /\ processed' = processed \cup {Item(w, e)}
      BY <1>3 DEF MarkEpisodeProcessed, Earliest, TypeOK
  <2>2. Item(w, e) \in Items /\ Holder[Item(w, e)] = w
      BY <2>1, ItemType DEF HoldersAgree
  <2>3. \A k \in Items : Holder'[k] = IF k = Item(w, e) THEN Free ELSE Holder[k]
    <3> SUFFICES ASSUME NEW k \in Items
                 PROVE  Holder'[k] = IF k = Item(w, e) THEN Free ELSE Holder[k]
        OBVIOUS
    <3>1. (\E f \in batch'[w] : k = Item(w, f)') <=> Holder[k] = w /\ k # Item(w, e)
        BY <2>1 DEF HoldersAgree, Item
    <3> QED
        BY <1>1, <2>2, <3>1, HolderStep
  <2>4. Holder' = [Holder EXCEPT ![Item(w, e)] = Free]
      BY <2>2, <2>3 DEF Holder
  <2>5. Work!Complete(w, Item(w, e))
      BY <2>1, <2>2, <2>4 DEF Work!Complete
  <2> QED
      BY <2>2, <2>5 DEF Work!WorkNext
<1>4. CASE \/ \E j \in Jobs : RunDreamJob(w, j) \/ RunCoherence(w, j) \/ BeginRun(w, j)
           \/ RunDueDreams(w)
           \/ \E e \in Episodes : Approve(w, e) \/ Deny(w, e) \/ Materialize(w, e)
           \/ Extract(w) \/ BatchDone(w) \/ WorkScope(w) \/ Checkpoint(w)
           \/ ReleaseDreamClaims(w) \/ Failure(w)
  <2>1. /\ batch'[w] \subseteq batch[w] /\ processed' = processed
        /\ job' = job \/ pc[w] \in {"next", "release"} \/ batch'[w] = {}
      BY <1>4
      DEF RunDreamJob, RunDueDreams, BeginCycle, RunCoherence, BeginRun, Approve, Deny,
          Extract, BatchDone, WorkScope, Proceed, Materialize, Checkpoint,
          ReleaseDreamClaims, Failure, Refused, Outage, Abort, Raise, Crash, store, TypeOK
  <2>2. batch'[w] = {} \/ job' = job
      BY <2>1 DEF BatchesAreWorkedOn, Working
  <2> QED
      BY <1>1, <2>1, <2>2, LettingGo
<1> QED
    BY <1>2, <1>3, <1>4 DEF Step

\* The queue implements the abstract claim plane.
THEOREM Refinement == ASSUME ShortCycles PROVE Spec => ImplementsDreamWork
<1>1. Init => Work!WorkInit
    BY DEF Init, Work!WorkInit, Holder, Holds, Working
<1>2. IInv /\ HoldersAgree /\ HoldersAgree' /\ [Next]_vars => [Work!WorkNext]_(Work!workVars)
  <2> SUFFICES ASSUME IInv, HoldersAgree, HoldersAgree', [Next]_vars
               PROVE  [Work!WorkNext]_(Work!workVars)
      OBVIOUS
  <2>1. CASE UNCHANGED vars \/ (\E e \in Episodes : AddEpisode(e)) \/ Tick
    <3>1. UNCHANGED <<processed, pc, job, batch>>
        BY <2>1 DEF AddEpisode, Tick, vars, store, runs
    <3>2. Holder' = Holder
        BY <3>1 DEF Holder, Holds, Item
    <3> QED
        BY <3>1, <3>2 DEF Work!workVars
  <2> QED
      BY <2>1, WorkerStepRefines DEF Next
<1> QED
    BY <1>1, <1>2, HolderIsTheBatch, InvariantHolds, PTL
    DEF Spec, ImplementsDreamWork, Work!WorkSpec
=============================================================================
