-------------------------- MODULE DreamClientsProofs --------------------------
(* Theorems about DreamClients: what the claim plane promises also holds      *)
(* while clients write beside the runs and a scope is shredded.  Markers that *)
(* nobody claimed for appear under a run's hands, so the invariant about them *)
(* (BatchesAreOpen) is lost; the one about claims alone (OInv) is not.        *)
EXTENDS DreamClients, DreamQueueProofs

ClientsTyped ==
    /\ writing \in [episode : Episodes \cup {NoEpisode}, stage : {"stored", "written"}]
    /\ erasure \in {"alive", "retired", "shredded"}

Typed == TypeOK /\ ClientsTyped /\ BatchesAreWorkedOn

\* What clients do to the queue: episodes come and markers come, nothing else.
Feeds ==
    /\ UNCHANGED <<claims, lastRun, formed, runs>>
    /\ queued \subseteq queued' /\ queued' \subseteq Episodes
    /\ processed \subseteq processed' /\ processed' \subseteq Episodes \X Consumers
    /\ faults' \in 0..MaxFaults

LEMMA ClientsFeed ==
    ASSUME TypeOK, ClientsTyped,
           \/ \E e \in Episodes : Ingest(e) \/ StoreDirect(e)
           \/ MaterializeDirect \/ MarkDirect \/ DirectFails \/ RetirePending \/ ShredKey
           \/ UNCHANGED <<vars, clientVars>>
    PROVE  Feeds /\ ClientsTyped'
<1> USE DEF TypeOK, ClientsTyped, Feeds
<1>1. CASE \E e \in Episodes : Ingest(e) \/ StoreDirect(e)
  <2>1. PICK e \in Episodes : Ingest(e) \/ StoreDirect(e)
      BY <1>1
  <2>2. AddEpisode(e)
      BY <2>1 DEF Ingest, StoreDirect
  <2>3. Feeds
      BY <2>2 DEF AddEpisode, runs
  <2>4. UNCHANGED clientVars \/ (writing' = [episode |-> e, stage |-> "stored"] /\ erasure' = erasure)
      BY <2>1 DEF Ingest, StoreDirect
  <2>5. ClientsTyped'
      BY <2>4 DEF clientVars
  <2> QED
      BY <2>3, <2>5
<1>2. CASE MaterializeDirect \/ ShredKey \/ UNCHANGED <<vars, clientVars>>
  <2>1. UNCHANGED vars
      BY <1>2 DEF MaterializeDirect, ShredKey
  <2>2. Feeds
      BY <2>1 DEF vars, store, runs
  <2>3. ClientsTyped'
    <3>1. CASE MaterializeDirect
        BY <3>1 DEF MaterializeDirect
    <3>2. CASE ShredKey
        BY <3>2 DEF ShredKey
    <3>3. CASE UNCHANGED <<vars, clientVars>>
        BY <3>3 DEF clientVars
    <3> QED
        BY <1>2, <3>1, <3>2, <3>3
  <2> QED
      BY <2>2, <2>3
<1>3. CASE MarkDirect
  <2>1. writing.episode \in Episodes
      BY <1>3 DEF MarkDirect
  <2> QED
      BY <1>3, <2>1 DEF MarkDirect, Ready, runs
<1>4. CASE DirectFails
    BY <1>4, FaultTyped DEF DirectFails, Ready, store, runs
<1>5. CASE RetirePending
    BY <1>5 DEF RetirePending, runs
<1> QED
    BY <1>1, <1>2, <1>3, <1>4, <1>5

\* Every other step is one that DreamQueueProofs knows.
LEMMA ClientStep ==
    ASSUME TypeOK, ClientsTyped, [ClientNext]_<<vars, clientVars>>
    PROVE  /\ ClientsTyped'
           /\ Feeds \/ Tick \/ \E w \in Workers : Moves(w)
<1>1. CASE \/ \E e \in Episodes : Ingest(e) \/ StoreDirect(e)
           \/ MaterializeDirect \/ MarkDirect \/ DirectFails \/ RetirePending \/ ShredKey
           \/ UNCHANGED <<vars, clientVars>>
    BY <1>1, ClientsFeed
<1>2. CASE Tick /\ UNCHANGED clientVars
    BY <1>2 DEF clientVars, ClientsTyped
<1>3. ASSUME NEW w \in Workers,
             DreamStep(w) \/ ContentKeyUnavailable(w) \/ (Failure(w) /\ UNCHANGED clientVars)
      PROVE  Moves(w) /\ ClientsTyped'
    BY <1>3 DEF DreamStep, ContentKeyUnavailable, Moves, clientVars, ClientsTyped
<1> QED
    BY <1>1, <1>2, <1>3 DEF ClientNext

LEMMA FeedingTyped == TypeOK /\ Feeds => TypeOK'
BY DEF TypeOK, Feeds, runs

\* A caller outside its work has no batch, also when an erasure stops it.
LEMMA IdleBatches ==
    ASSUME TypeOK, TypeOK', BatchesAreWorkedOn, Feeds \/ Tick \/ \E w \in Workers : Moves(w)
    PROVE  BatchesAreWorkedOn'
<1>1. CASE Feeds \/ Tick
    BY <1>1 DEF Feeds, runs, Tick, BatchesAreWorkedOn
<1>2. ASSUME NEW w \in Workers, Moves(w)
      PROVE  BatchesAreWorkedOn'
  <2>1. \A v \in Workers \ {w} : Untouched(v)
      BY <1>2, OthersUntouched
  <2>2. pc'[w] \notin Working => batch'[w] = {}
    <3>1. CASE \/ \E j \in Jobs : RunDreamJob(w, j) \/ RunCoherence(w, j) \/ BeginRun(w, j)
                                  \/ Refused(w, j)
               \/ RunDueDreams(w)
      <4>1. pc[w] \in {"idle", "next"} /\ UNCHANGED batch
          BY <3>1 DEF RunDreamJob, RunDueDreams, BeginCycle, RunCoherence, BeginRun, Refused, store
      <4> QED
          BY <4>1 DEF BatchesAreWorkedOn, Working
    <3>2. CASE ClaimEpisodes(w) \/ ClaimScopeWork(w)
        BY <3>2 DEF ClaimEpisodes, ClaimScopeWork, TypeOK, Working
    <3>3. CASE \/ \E e \in Episodes : \/ Approve(w, e) \/ Deny(w, e)
                                      \/ Materialize(w, e) \/ MarkEpisodeProcessed(w, e)
               \/ Extract(w)
        BY <3>3 DEF Approve, Deny, Materialize, MarkEpisodeProcessed, Extract, Proceed,
                    TypeOK, Working
    <3>4. CASE BatchDone(w) \/ WorkScope(w) \/ Outage(w) \/ Abort(w) \/ Raise(w)
        BY <3>4 DEF BatchDone, WorkScope, Outage, Abort, Raise, Proceed, TypeOK
    <3>5. CASE Checkpoint(w) \/ ReleaseDreamClaims(w) \/ Crash(w)
        BY <3>5 DEF Checkpoint, ReleaseDreamClaims, Crash, TypeOK, BatchesAreWorkedOn, Working
    <3> QED
        BY <1>2, <3>1, <3>2, <3>3, <3>4, <3>5 DEF Moves, Step, Failure
  <2> QED
      BY <2>1, <2>2 DEF BatchesAreWorkedOn, Untouched
<1> QED
    BY <1>1, <1>2

LEMMA StepTyped == Typed /\ [ClientNext]_<<vars, clientVars>> => Typed'
<1> SUFFICES ASSUME Typed, [ClientNext]_<<vars, clientVars>> PROVE Typed'
    OBVIOUS
<1> USE DEF Typed
<1>1. ClientsTyped' /\ (Feeds \/ Tick \/ \E w \in Workers : Moves(w))
    BY ClientStep
<1>2. TypeOK'
    BY <1>1, FeedingTyped, TickTyped, WorkerStepTyped
<1> QED
    BY <1>1, <1>2, IdleBatches

LEMMA AlwaysTyped == ClientSpec => []Typed
<1>1. ClientInit => Typed
  <2> SUFFICES ASSUME ClientInit PROVE Typed
      OBVIOUS
  <2>1. TypeOK
      BY InitTyped DEF ClientInit
  <2>2. BatchesAreWorkedOn
      BY DEF ClientInit, Init, BatchesAreWorkedOn
  <2> QED
      BY <2>1, <2>2 DEF Typed, ClientInit, ClientsTyped, Ready
<1> QED
    BY <1>1, StepTyped, PTL DEF ClientSpec

-----------------------------------------------------------------------------
\* What a run holds after a step of its caller it held before, or has just
\* claimed after looking at the markers.
LEMMA TakesWhatIsOpen ==
    ASSUME TypeOK, NEW w \in Workers, Moves(w),
           NEW k \in Items, Holds(w, k)', ~Holds(w, k)
    PROVE  k \notin processed
<1>1. PICK e \in batch'[w] : k = Item(w, e)'
    BY DEF Holds
<1>2. pc'[w] \in Working
    BY DEF Holds
<1>3. CASE ClaimEpisodes(w) \/ ClaimScopeWork(w)
  <2>1. batch'[w] = Claimable(w) /\ UNCHANGED job
      BY <1>3 DEF ClaimEpisodes, ClaimScopeWork, TypeOK
  <2> QED
      BY <1>1, <2>1 DEF Claimable, Item
<1>4. CASE \/ \E e1 \in Episodes : \/ Approve(w, e1) \/ Deny(w, e1)
                                   \/ Materialize(w, e1) \/ MarkEpisodeProcessed(w, e1)
           \/ Extract(w)
  <2>1. pc[w] \in Working /\ batch'[w] \subseteq batch[w] /\ UNCHANGED job
      BY <1>4 DEF Approve, Deny, Materialize, MarkEpisodeProcessed, Extract, Proceed,
                  TypeOK, Working
  <2> QED
      BY <1>1, <2>1 DEF Holds, Item
<1>5. CASE \/ \E j \in Jobs : RunDreamJob(w, j) \/ RunCoherence(w, j) \/ BeginRun(w, j)
                              \/ Refused(w, j)
           \/ RunDueDreams(w)
  <2>1. pc'[w] \in {"idle", "next", "claim"}
      BY <1>5 DEF RunDreamJob, RunDueDreams, BeginCycle, RunCoherence, BeginRun, Refused,
                  EndCycle, TypeOK
  <2> QED
      BY <2>1, <1>2 DEF Working
<1>6. CASE BatchDone(w) \/ WorkScope(w) \/ Outage(w) \/ Abort(w) \/ Raise(w) \/ Checkpoint(w)
  <2>1. pc'[w] \in {"finish", "release"}
      BY <1>6 DEF BatchDone, WorkScope, Outage, Abort, Raise, Proceed, Checkpoint, TypeOK
  <2> QED
      BY <2>1, <1>2 DEF Working
<1>7. CASE ReleaseDreamClaims(w) \/ Crash(w)
  <2>1. pc'[w] \in {"idle", "next"}
      BY <1>7 DEF ReleaseDreamClaims, Crash, EndCycle, TypeOK
  <2> QED
      BY <2>1, <1>2 DEF Working
<1> QED
    BY <1>3, <1>4, <1>5, <1>6, <1>7 DEF Moves, Step, Failure

(* However a marker came - from another run, a direct write or an erasure     *)
(* that overtook the run between its read of the queue and its claim - no run *)
(* starts on a marked item.  No timing is assumed.                            *)
THEOREM OnlyOpenIsTaken == ClientSpec => TakenItemsAreOpen
<1> DEFINE Taken ==
        \A w \in Workers, k \in Items : Holds(w, k)' /\ ~Holds(w, k) => k \notin processed
<1>1. Typed /\ [ClientNext]_<<vars, clientVars>> => [Taken]_<<vars, clientVars>>
  <2> SUFFICES ASSUME Typed, [ClientNext]_<<vars, clientVars>>,
                      NEW w \in Workers, NEW k \in Items, Holds(w, k)', ~Holds(w, k)
               PROVE  k \notin processed
      OBVIOUS
  <2>1. Feeds \/ Tick \/ \E v \in Workers : Moves(v)
      BY ClientStep DEF Typed
  <2>2. CASE Feeds \/ Tick
    <3>1. UNCHANGED <<pc, batch, job>>
        BY <2>2 DEF Feeds, runs, Tick
    <3> QED
        BY <3>1 DEF Holds, Item
  <2>3. ASSUME NEW v \in Workers \ {w}, Moves(v) PROVE FALSE
    <3>1. Untouched(w)
        BY <2>3, OthersUntouched DEF Typed
    <3> QED
        BY <3>1 DEF Untouched, Holds, Item
  <2>4. CASE Moves(w)
      BY <2>4, TakesWhatIsOpen DEF Typed
  <2> QED
      BY <2>1, <2>2, <2>3, <2>4
<1> QED
    BY <1>1, AlwaysTyped, PTL DEF ClientSpec, TakenItemsAreOpen

-----------------------------------------------------------------------------
LEMMA OwnedStep ==
    ASSUME ShortCycles, OInv, ClientsTyped, [ClientNext]_<<vars, clientVars>>
    PROVE  OInv' /\ ClientsTyped'
<1>1. ClientsTyped' /\ (Feeds \/ Tick \/ \E w \in Workers : Moves(w))
    BY ClientStep DEF OInv
<1>2. CASE Feeds
  <2>1. TypeOK'
      BY <1>2, FeedingTyped DEF OInv
  <2>2. UNCHANGED <<claims, pc, age, batch, job>>
      BY <1>2 DEF Feeds, runs
  <2> QED
      BY <1>1, <2>1, <2>2 DEF OInv, BatchesAreWorkedOn, BatchesAreOwned, ClaimsHaveAnOwner, Item
<1> QED
    BY <1>1, <1>2, TickClaimed, WorkerStepClaimed

(* With cycles shorter than the stale window no two runs work on the same     *)
(* item, whatever clients write and mark, and whatever an erasure aborts.     *)
THEOREM ClientsKeepExclusion == ASSUME ShortCycles PROVE ClientSpec => []NoDoubleWork
<1>1. ClientInit => OInv /\ ClientsTyped
    BY InitClaimed DEF ClientInit, IInv, ClientsTyped, Ready
<1>2. (OInv /\ ClientsTyped) /\ [ClientNext]_<<vars, clientVars>> => (OInv /\ ClientsTyped)'
    BY OwnedStep
<1>3. OInv => NoDoubleWork
    BY ClaimsExclude
<1> QED
    BY <1>1, <1>2, <1>3, PTL DEF ClientSpec
===============================================================================
