----------------------------- MODULE DreamQueue -----------------------------
(* The durable episode queue and the dream runs that race for it: the claim   *)
(* plane (storage/_shared/_claims.py over storage/sqlite/_operational.py),    *)
(* DreamEngine.run_job and _run_formation, and the run_due_dreams loop that   *)
(* drives them.                                                               *)
(*                                                                            *)
(* Time.  The code compares timestamps; only differences matter, so the model *)
(* keeps ages (now minus the timestamp), saturated where no comparison can    *)
(* tell two larger ones apart.  `age[w]` is the age of the `now` a caller     *)
(* takes ONCE and hands to every job of its cycle; claims and last_run are    *)
(* stamped with that `now`, so they are born with the age of the cycle.       *)
EXTENDS Naturals, FiniteSets

CONSTANTS Workers,     \* concurrent callers of run_due_dreams / run_dream_job
          Resident,    \* the callers that loop (worker.py); the others call ad hoc
          Episodes,    \* positive numbers, in created_at order
          Jobs,        \* numbers, in configuration order
          Kind,        \* [Jobs -> {"formation", "scope", "coherence"}]
          Consumers,   \* normalised consumer keys
          Consumer,    \* [Jobs -> Consumers]
          Denied,      \* episodes the dream agent always refuses
          Cadence,     \* cadence_seconds of every job
          MaxItems,    \* max_items_per_run
          StaleAfter,  \* DREAM_CLAIM_STALE_SECONDS
          MaxRun,      \* timing assumption: how long one run_job may last
          MaxCycle,    \* timing assumption: how long one run_due_dreams may last
          MaxFaults,   \* bound on failures of every kind
          Free, Gone   \* owner of no claim / of a crashed run's claim

ASSUME WorkerAssumption ==
    /\ Resident \subseteq Workers
    /\ Free \notin Workers /\ Gone \notin Workers /\ Free # Gone
ASSUME QueueAssumption ==
    /\ Episodes \subseteq Nat \ {0} /\ IsFiniteSet(Episodes)
    /\ Denied \subseteq Episodes
    /\ Jobs \subseteq Nat /\ Jobs # {}
    /\ Kind \in [Jobs -> {"formation", "scope", "coherence"}]
    /\ Consumer \in [Jobs -> Consumers]
ASSUME TimeAssumption ==
    /\ Cadence \in Nat \ {0} /\ StaleAfter \in Nat \ {0} /\ MaxItems \in Nat \ {0}
    /\ MaxRun \in Nat /\ MaxCycle \in Nat /\ MaxFaults \in Nat

Breadth == 0                       \* the scope (or "*") a scope job claims
Items == (Episodes \cup {Breadth}) \X Consumers
MaxClaimAge == MaxCycle + StaleAfter

VARIABLES
    queued,     \* episodes table
    processed,  \* episode_processing table (a legacy marker: every consumer)
    claims,     \* dream_claims table
    lastRun,    \* job_state.last_run, as an age
    formed,     \* how often each item's memories were committed to the graph
    pc, age, runAge, due, job, matched, batch, failing,   \* per worker
    faults

store == <<queued, processed, claims, lastRun, formed>>
runs == <<pc, age, runAge, due, job, matched, batch, failing>>
vars == <<store, runs, faults>>

Working == {"select", "extract", "write", "scan", "scope"}
Claimed == Working \cup {"finish", "release"}
PCs == Claimed \cup {"idle", "next", "claim"}

Least(m, n) == IF m <= n THEN m ELSE n
Earliest(n, S) == n \in S /\ \A m \in S : n <= m
Fault == faults < MaxFaults /\ faults' = faults + 1
Item(w, e) == <<e, Consumer[job[w]]>>
AnyJob == CHOOSE j \in Jobs : TRUE    \* between two runs a caller is at no job

TypeOK ==
    /\ queued \subseteq Episodes
    /\ processed \subseteq Episodes \X Consumers
    /\ claims \in [Items -> [owner : Workers \cup {Free, Gone}, age : 0..MaxClaimAge]]
    /\ lastRun \in [Jobs -> 0..Cadence]
    /\ formed \in [Items -> Nat]
    /\ pc \in [Workers -> PCs]
    /\ age \in [Workers -> 0..MaxCycle]
    /\ runAge \in [Workers -> 0..MaxRun]
    /\ due \in [Workers -> SUBSET Jobs]
    /\ job \in [Workers -> Jobs]
    /\ matched \in [Workers -> SUBSET (Episodes \cup {Breadth})]
    /\ batch \in [Workers -> SUBSET (Episodes \cup {Breadth})]
    /\ failing \in [Workers -> BOOLEAN]
    /\ faults \in 0..MaxFaults

Init ==
    /\ queued = {}
    /\ processed = {}
    /\ claims = [k \in Items |-> [owner |-> Free, age |-> 0]]
    /\ lastRun = [j \in Jobs |-> Cadence]      \* never ran: due
    /\ formed = [k \in Items |-> 0]
    /\ pc = [w \in Workers |-> "idle"]
    /\ age = [w \in Workers |-> 0]
    /\ runAge = [w \in Workers |-> 0]
    /\ due = [w \in Workers |-> {}]
    /\ job = [w \in Workers |-> AnyJob]
    /\ matched = [w \in Workers |-> {}]
    /\ batch = [w \in Workers |-> {}]
    /\ failing = [w \in Workers |-> FALSE]
    /\ faults = 0

-----------------------------------------------------------------------------
(* The claim plane. *)

\* (mutant) A claim left behind is never taken over.
NeverStale(k, w) == claims[k].owner \notin {Free, w}

\* Held by ANOTHER run and claimed after `now - stale_after_seconds`.
ClaimIsLive(k, w) ==
    /\ claims[k].owner \notin {Free, w}
    /\ claims[k].age < age[w] + StaleAfter

WriteClaims(K, w) ==
    claims' = [k \in Items |-> IF k \in K THEN [owner |-> w, age |-> age[w]]
                                          ELSE claims[k]]

\* (mutant) The release is forgotten.
KeepClaims(w, heir) == UNCHANGED claims

\* The claims of w's run, handed to `heir`: Free on release, Gone on a crash.
PassClaims(w, heir) ==
    claims' = [k \in Items |->
                 IF claims[k].owner = w
                 THEN [owner |-> heir, age |-> IF heir = Free THEN 0 ELSE claims[k].age]
                 ELSE claims[k]]

\* (mutants) No re-check of the claims, or of the markers, under the writer lock.
ClaimableUnguarded(w) == {e \in matched[w] : Item(w, e) \notin processed}
ClaimableUnmarked(w) == {e \in matched[w] : ~ClaimIsLive(Item(w, e), w)}

\* What claim_episodes takes: in queue order, up to max_items_per_run of the
\* matched episodes that the re-check under the writer lock finds open.
Claimable(w) ==
    LET open == {e \in matched[w] : /\ Item(w, e) \notin processed
                                    /\ ~ClaimIsLive(Item(w, e), w)}
    IN  {e \in open : Cardinality({f \in open : f <= e}) <= MaxItems}

-----------------------------------------------------------------------------
(* A cycle: run_due_dreams, or run_dream_job for the ad hoc callers. *)

AddEpisode(e) ==
    /\ e \in Episodes /\ \A f \in queued : f < e
    /\ queued' = queued \cup {e}
    /\ UNCHANGED <<processed, claims, lastRun, formed, runs, faults>>

BeginCycle(w, js) ==
    /\ pc[w] = "idle" /\ js # {}
    /\ pc' = [pc EXCEPT ![w] = "next"]
    /\ due' = [due EXCEPT ![w] = js]
    /\ UNCHANGED <<store, age, runAge, job, matched, batch, failing, faults>>

RunDueDreams(w) ==
    w \in Resident /\ BeginCycle(w, {j \in Jobs : lastRun[j] >= Cadence})

RunDreamJob(w, j) ==
    w \notin Resident /\ BeginCycle(w, {j})

EndCycle(w) ==
    /\ pc' = [pc EXCEPT ![w] = "idle"]
    /\ age' = [age EXCEPT ![w] = 0]
    /\ due' = [due EXCEPT ![w] = {}]
    /\ job' = [job EXCEPT ![w] = AnyJob]

\* The last-run marker, stamped with the cycle's `now`.
SetLastRun(w, j) == lastRun' = [lastRun EXCEPT ![j] = Least(age[w], Cadence)]

\* A coherence job claims nothing: it scans and stamps last_run.
RunCoherence(w, j) ==
    /\ pc[w] = "next" /\ Earliest(j, due[w]) /\ Kind[j] = "coherence"
    /\ SetLastRun(w, j)
    /\ IF due[w] = {j}
       THEN EndCycle(w)
       ELSE due' = [due EXCEPT ![w] = @ \ {j}] /\ UNCHANGED <<pc, age, job>>
    /\ runAge' = [runAge EXCEPT ![w] = 0]
    /\ UNCHANGED <<queued, processed, claims, formed, matched, batch, failing,
                   faults>>

\* Anything that raises before the run begins: a coherence scan, or the
\* attestation preflight of a formation job. The rest of the cycle is lost.
Refused(w, j) ==
    /\ pc[w] = "next" /\ Earliest(j, due[w]) /\ Kind[j] # "scope"
    /\ Fault /\ EndCycle(w)
    /\ runAge' = [runAge EXCEPT ![w] = 0]
    /\ UNCHANGED <<store, matched, batch, failing>>

\* The run begins and the queue is read: claims come in a later transaction.
BeginRun(w, j) ==
    /\ pc[w] = "next" /\ Earliest(j, due[w]) /\ Kind[j] # "coherence"
    /\ pc' = [pc EXCEPT ![w] = "claim"]
    /\ job' = [job EXCEPT ![w] = j]
    /\ due' = [due EXCEPT ![w] = @ \ {j}]
    /\ matched' = [matched EXCEPT ![w] =
                     IF Kind[j] = "scope" THEN {Breadth}
                     ELSE {e \in queued : <<e, Consumer[j]>> \notin processed}]
    /\ UNCHANGED <<store, age, runAge, batch, failing, faults>>

-----------------------------------------------------------------------------
(* One run: claim, then work through the claimed batch in queue order. *)

ClaimEpisodes(w) ==
    /\ pc[w] = "claim" /\ Kind[job[w]] = "formation"
    /\ batch' = [batch EXCEPT ![w] = Claimable(w)]
    /\ WriteClaims({Item(w, e) : e \in Claimable(w)}, w)
    /\ pc' = [pc EXCEPT ![w] = "select"]
    /\ matched' = [matched EXCEPT ![w] = {}]
    /\ UNCHANGED <<queued, processed, lastRun, formed, age, runAge, due, job,
                   failing, faults>>

\* A pass whose breadth another run holds completes as a zero-work run.
ClaimScopeWork(w) ==
    /\ pc[w] = "claim" /\ Kind[job[w]] = "scope"
    /\ batch' = [batch EXCEPT ![w] = Claimable(w)]
    /\ WriteClaims({Item(w, e) : e \in Claimable(w)}, w)
    /\ pc' = [pc EXCEPT ![w] = IF Claimable(w) = {} THEN "finish" ELSE "scope"]
    /\ matched' = [matched EXCEPT ![w] = {}]
    /\ UNCHANGED <<queued, processed, lastRun, formed, age, runAge, due, job,
                   failing, faults>>

\* Move on within the run; the queue and the claims stay as they are.
Proceed(w, from, to, rest) ==
    /\ pc[w] = from
    /\ pc' = [pc EXCEPT ![w] = to]
    /\ batch' = [batch EXCEPT ![w] = rest]
    /\ UNCHANGED <<store, age, runAge, due, job, matched>>

\* The dream agent lets the episode through, or refuses it: a refused episode
\* is neither marked nor released, it waits for a later run.
Approve(w, e) ==
    /\ Earliest(e, batch[w]) /\ e \notin Denied
    /\ Proceed(w, "select", "extract", batch[w])
    /\ UNCHANGED <<failing, faults>>

Deny(w, e) ==
    /\ Earliest(e, batch[w]) /\ e \in Denied
    /\ Proceed(w, "select", "select", batch[w] \ {e})
    /\ UNCHANGED <<failing, faults>>

Extract(w) ==
    Proceed(w, "extract", "write", batch[w]) /\ UNCHANGED <<failing, faults>>

\* One transaction: the episode's rows, all of them or none.
Materialize(w, e) ==
    /\ pc[w] = "write" /\ Earliest(e, batch[w])
    /\ formed' = [formed EXCEPT ![Item(w, e)] = @ + 1]
    /\ pc' = [pc EXCEPT ![w] = "scan"]
    /\ UNCHANGED <<queued, processed, claims, lastRun, age, runAge, due, job, matched,
                   batch, failing, faults>>

\* (mutant) The marker is keyed by the job instead of its consumer.
MarkForJob(w, e) ==
    /\ pc[w] = "scan" /\ Earliest(e, batch[w])
    /\ processed' = processed \cup {<<e, job[w]>>}
    /\ batch' = [batch EXCEPT ![w] = @ \ {e}]
    /\ pc' = [pc EXCEPT ![w] = "select"]
    /\ UNCHANGED <<queued, claims, lastRun, formed, age, runAge, due, job, matched,
                   failing, faults>>

\* After the coherence scan, in a commit of its own.
MarkEpisodeProcessed(w, e) ==
    /\ pc[w] = "scan" /\ Earliest(e, batch[w])
    /\ processed' = processed \cup {Item(w, e)}
    /\ batch' = [batch EXCEPT ![w] = @ \ {e}]
    /\ pc' = [pc EXCEPT ![w] = "select"]
    /\ UNCHANGED <<queued, claims, lastRun, formed, age, runAge, due, job, matched,
                   failing, faults>>

BatchDone(w) ==
    /\ batch[w] = {}
    /\ Proceed(w, "select", "finish", {}) /\ UNCHANGED <<failing, faults>>

\* Consolidation or pruning over the claimed breadth.
WorkScope(w) ==
    Proceed(w, "scope", "finish", {}) /\ UNCHANGED <<failing, faults>>

\* A retryable gateway error stops the batch; the run still checkpoints. It
\* reaches extraction, the writes (rolled back) and the coherence scan that
\* follows the writes (committed).
Outage(w) ==
    /\ pc[w] \in {"extract", "write", "scan"}
    /\ Fault /\ Proceed(w, pc[w], "finish", {}) /\ UNCHANGED failing

\* Any other exception leaves run_job uncheckpointed, through `finally`.
Raise(w) ==
    /\ pc[w] \in Working \cup {"claim", "finish"}
    /\ Proceed(w, pc[w], "release", {})
    /\ failing' = [failing EXCEPT ![w] = TRUE]

Abort(w) == Fault /\ Raise(w)

\* The terminal bracket: checkpoint and last-run marker commit together; a
\* blocking health gate raises only after it.
Checkpoint(w) ==
    /\ pc[w] = "finish"
    /\ SetLastRun(w, job[w])
    /\ pc' = [pc EXCEPT ![w] = "release"]
    /\ UNCHANGED <<queued, processed, claims, formed, age, runAge, due, job, matched,
                   batch>>
    /\ \/ UNCHANGED <<failing, faults>>
       \/ /\ Kind[job[w]] = "formation" /\ Fault
          /\ failing' = [failing EXCEPT ![w] = TRUE]

\* `finally`: on every exit path. An exception then ends the whole cycle.
ReleaseDreamClaims(w) ==
    /\ pc[w] = "release"
    /\ PassClaims(w, Free)
    /\ IF failing[w] \/ due[w] = {}
       THEN EndCycle(w)
       ELSE pc' = [pc EXCEPT ![w] = "next"] /\ UNCHANGED <<age, due, job>>
    /\ runAge' = [runAge EXCEPT ![w] = 0]
    /\ matched' = [matched EXCEPT ![w] = {}]
    /\ failing' = [failing EXCEPT ![w] = FALSE]
    /\ UNCHANGED <<queued, processed, lastRun, formed, batch, faults>>

\* A hard kill: the claims stay behind.
Crash(w) ==
    /\ pc[w] # "idle" /\ Fault
    /\ PassClaims(w, Gone)
    /\ EndCycle(w)
    /\ runAge' = [runAge EXCEPT ![w] = 0]
    /\ matched' = [matched EXCEPT ![w] = {}]
    /\ batch' = [batch EXCEPT ![w] = {}]
    /\ failing' = [failing EXCEPT ![w] = FALSE]
    /\ UNCHANGED <<queued, processed, lastRun, formed>>

\* A unit of time passes, while every caller keeps the timing assumptions.
Tick ==
    /\ \A w \in Workers : pc[w] # "idle" => age[w] < MaxCycle /\ runAge[w] < MaxRun
    /\ age' = [w \in Workers |-> IF pc[w] = "idle" THEN 0 ELSE age[w] + 1]
    /\ runAge' = [w \in Workers |-> IF pc[w] = "idle" THEN 0 ELSE runAge[w] + 1]
    /\ claims' = [k \in Items |->
                    IF claims[k].owner = Free THEN claims[k]
                    ELSE [claims[k] EXCEPT !.age = Least(@ + 1, MaxClaimAge)]]
    /\ lastRun' = [j \in Jobs |-> Least(lastRun[j] + 1, Cadence)]
    /\ UNCHANGED <<queued, processed, formed, pc, due, job, matched, batch, failing, faults>>

-----------------------------------------------------------------------------

\* What a caller's own control flow takes it to next.
Step(w) ==
    \/ RunDueDreams(w)
    \/ \E j \in Jobs : RunCoherence(w, j) \/ BeginRun(w, j)
    \/ ClaimEpisodes(w) \/ ClaimScopeWork(w)
    \/ \E e \in Episodes : \/ Approve(w, e) \/ Deny(w, e)
                           \/ Materialize(w, e) \/ MarkEpisodeProcessed(w, e)
    \/ Extract(w) \/ BatchDone(w) \/ WorkScope(w)
    \/ Checkpoint(w) \/ ReleaseDreamClaims(w)

Failure(w) ==
    \/ \E j \in Jobs : Refused(w, j)
    \/ Outage(w) \/ Abort(w) \/ Crash(w)

Next ==
    \/ \E e \in Episodes : AddEpisode(e)
    \/ \E w \in Workers : \/ Step(w) \/ Failure(w)
                          \/ \E j \in Jobs : RunDreamJob(w, j)
    \/ Tick

Spec == Init /\ [][Next]_vars

\* Every caller keeps going (the worker loop, the awaits return) and time passes.
Fairness == WF_vars(Tick) /\ \A w \in Workers : WF_vars(Step(w))
FairSpec == Spec /\ Fairness

-----------------------------------------------------------------------------
(* Properties. *)

\* The items a run is working on now.
Holds(w, k) == pc[w] \in Working /\ \E e \in batch[w] : k = Item(w, e)

\* At no time do two runs work on the same episode for the same consumer, or on
\* the same breadth ("Concurrent runs never double-extract or
\* double-synthesize", DreamEngine.run_job).
NoDoubleWork ==
    \A v, w \in Workers : v # w => \A k \in Items : ~(Holds(v, k) /\ Holds(w, k))

\* Once an episode is marked processed for a consumer, no run commits its
\* memories again ("marked processed once and never re-formed").
ProcessedNeverReformed == [][\A k \in processed : formed'[k] = formed[k]]_vars

\* A claim belongs to a run that is still in flight, or to a crashed one: every
\* exit path of run_job releases.
ClaimsHaveAnOwner ==
    \A k \in Items : \A w \in Workers : claims[k].owner = w => pc[w] \in Claimed

\* An episode's memories are committed again only because a failure came
\* between the commit and the marker: at most once more per failure.
FormedOncePerFailure == \A k \in Items : formed[k] <= 1 + faults

\* Every queued episode the dream agent does not refuse is eventually processed
\* for the consumer of every resident formation job, whatever finitely many
\* runs fail or die on the way: no crashed run wedges the queue.
EventuallyProcessed ==
    \A j \in Jobs, e \in Episodes \ Denied :
        Kind[j] = "formation" =>
            (e \in queued ~> <<e, Consumer[j]>> \in processed)

\* The queue implements the abstract claim plane: runs take open items that
\* nobody holds, and only a holder marks an item processed.
Holder == [k \in Items |-> IF \E w \in Workers : Holds(w, k)
                           THEN CHOOSE w \in Workers : Holds(w, k)
                           ELSE Free]
Work == INSTANCE DreamWork WITH Nobody <- Free, holder <- Holder, done <- processed
ImplementsDreamWork == Work!WorkSpec
=============================================================================
