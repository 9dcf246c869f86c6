----------------------------- MODULE Migration -----------------------------
(* migrate_tenant_memory moves one tenant's memory while other processes go   *)
(* on hearing, forming and retracting facts and registering agents.  It is    *)
(* copy, verify, lock, re-verify, purge; it may die or raise between any two  *)
(* steps, and the operator runs it again.                                     *)
(*                                                                            *)
(* A fact and the episode it is formed from share a name.  The destination    *)
(* counts the copies of a fact up to 2, which stands for "more than one".     *)
EXTENDS Naturals, FiniteSets

CONSTANTS Facts, Agents,
          Tenant,       \* the source's tenant scope
          Home,         \* the scope a fact lives in
          Members,      \* the agents that may be registered with the source at first
          Jobs,         \* the kinds of migration: within a file or not, purging or not
          MaxJoins, MaxFaults   \* bounds

ASSUME HomeAssumption == /\ Tenant \notin Agents
                         /\ Home \in [Facts -> Agents \cup {Tenant}]
                         /\ Members \subseteq Agents
ASSUME JobAssumption == Jobs \subseteq [same : BOOLEAN, purge : BOOLEAN]
ASSUME BoundAssumption == {MaxJoins, MaxFaults} \subseteq Nat
ASSUME FiniteAssumption == IsFiniteSet(Facts) /\ IsFiniteSet(Agents)

VARIABLES heard, formed, live,   \* the source: its episodes, its rows, its active rows
          copies, evidence,      \* the destination: its rows and its episodes
          source, dest,          \* the agents registered with each tenant
          job, stage,
          plan, moved,           \* what the preview counted, what was moved
          scopes, mark,          \* the agent scopes and the watermark that were read
          queue, todo, at,       \* scopes and facts still to copy, the scope being copied
          joins, faults,         \* how much of each bound is used
          owed,                  \* history: facts formed and not retracted
          late,                  \* history: agents that registered after scopes was read
          again                  \* history: this is not the first attempt

sourceVars == <<heard, formed, live, owed>>
destVars == <<copies, evidence>>
agentVars == <<source, dest, late, joins>>
readVars == <<plan, scopes, mark>>
progress == <<moved, queue, todo, at>>
history == <<job, faults, again>>
vars == <<sourceVars, destVars, agentVars, readVars, progress, history, stage>>

Scopes == Agents \cup {Tenant}
Of(S) == {f \in Facts : Home[f] \in S}
Tally == [facts : Nat, agentFacts : Nat, episodes : Nat, agentEpisodes : Nat]
Nothing == [facts |-> 0, agentFacts |-> 0, episodes |-> 0, agentEpisodes |-> 0]
NoMark == [live |-> {}, rows |-> {}, heard |-> {}]
Mark == [live : SUBSET Facts, rows : SUBSET Facts, heard : SUBSET Facts]
Stages == {"idle", "scopes", "mark", "episodes", "facts", "rows", "recount", "agents",
           "verify", "handover", "purge", "post", "done", "failed"}

TypeOK ==
    /\ heard \subseteq Facts /\ formed \subseteq heard /\ live \subseteq formed
    /\ copies \in [Facts -> 0..2] /\ evidence \subseteq Facts
    /\ source \subseteq Agents /\ dest \subseteq Agents
    /\ job \in Jobs /\ stage \in Stages
    /\ plan \in Tally /\ moved \in Tally
    /\ scopes \subseteq Agents /\ mark \in Mark
    /\ queue \subseteq Scopes /\ todo \subseteq Facts /\ at \in Scopes
    /\ joins \in 0..MaxJoins /\ faults \in 0..MaxFaults
    /\ owed \subseteq Facts /\ late \subseteq Agents /\ again \in BOOLEAN

Init ==
    /\ heard \in SUBSET Facts /\ formed \in SUBSET heard /\ live = formed /\ owed = formed
    /\ copies = [f \in Facts |-> 0] /\ evidence = {}
    /\ source \in SUBSET Members /\ dest = {}
    /\ job \in Jobs /\ stage = "idle"
    /\ plan = Nothing /\ moved = Nothing
    /\ scopes = {} /\ mark = NoMark
    /\ queue = {} /\ todo = {} /\ at = Tenant
    /\ joins = 0 /\ faults = 0
    /\ late = {} /\ again = FALSE

-----------------------------------------------------------------------------
(* The rest of the deployment: other processes on the source's file.          *)

Environment == UNCHANGED <<destVars, readVars, progress, history, stage>>

Hear(f) ==
    /\ f \notin heard
    /\ heard' = heard \cup {f}
    /\ UNCHANGED <<formed, live, owed, agentVars>> /\ Environment

(* A dream run forms the fact of an episode that is not marked processed.     *)
Form(f) ==
    /\ f \in heard \ formed
    /\ formed' = formed \cup {f} /\ live' = live \cup {f} /\ owed' = owed \cup {f}
    /\ UNCHANGED <<heard, agentVars>> /\ Environment

(* A fact is superseded, forgotten or pruned: its row stays, inactive.        *)
Retract(f) ==
    /\ f \in live
    /\ live' = live \ {f} /\ owed' = owed \ {f}
    /\ UNCHANGED <<heard, formed, agentVars>> /\ Environment

(* A session registers its agent with the source tenant.                      *)
Join(a) ==
    /\ a \in Agents \ source /\ joins < MaxJoins
    /\ source' = source \cup {a}
    /\ late' = IF stage \in {"idle", "scopes"} THEN late ELSE late \cup {a}
    /\ joins' = joins + 1
    /\ UNCHANGED <<sourceVars, dest>> /\ Environment

-----------------------------------------------------------------------------
(* The migrator.                                                              *)

Count(S) == [facts |-> Cardinality(live \cap Of({Tenant})),
             agentFacts |-> Cardinality(live \cap Of(S)),
             episodes |-> Cardinality(heard \cap Of({Tenant})),
             agentEpisodes |-> Cardinality(heard \cap Of(S))]

\* (mutant) The watermark leaves the episodes out.
WatermarkOfRows(S) == [live |-> live \cap Of(S), rows |-> formed \cap Of(S), heard |-> {}]
Watermark(S) == [live |-> live \cap Of(S), rows |-> formed \cap Of(S), heard |-> heard \cap Of(S)]
SourceScopes == scopes \cup {Tenant}
Copied == IF job.same THEN {Tenant} ELSE SourceScopes
Counted == plan.facts + plan.agentFacts > 0

(* The call returns or raises: what it had read and counted is gone.          *)
Leave(end) ==
    /\ stage' = end
    /\ plan' = Nothing /\ moved' = Nothing /\ scopes' = {} /\ mark' = NoMark
    /\ queue' = {} /\ todo' = {} /\ at' = Tenant
    /\ UNCHANGED job

Preview ==
    /\ stage = "idle" /\ stage' = "scopes"
    /\ plan' = Count(source)
    /\ UNCHANGED <<sourceVars, destVars, agentVars, scopes, mark, progress, history>>

ReadScopes ==
    /\ stage = "scopes" /\ stage' = "mark"
    /\ scopes' = source
    /\ UNCHANGED <<sourceVars, destVars, agentVars, plan, mark, progress, history>>

TakeWatermark ==
    /\ stage = "mark" /\ stage' = "episodes"
    /\ mark' = Watermark(SourceScopes)
    /\ queue' = Copied
    /\ UNCHANGED <<sourceVars, destVars, agentVars, plan, scopes, moved, todo, at, history>>

(* The tenant scope is first.  Facts are copied, and the agent scopes with    *)
(* them, only when the preview counted a fact.                                *)
CopyEpisodes(s) ==
    /\ stage = "episodes" /\ s \in queue /\ (Tenant \in queue => s = Tenant)
    /\ evidence' = evidence \cup (heard \cap Of({s}))
    /\ moved' = IF s = Tenant
                THEN [moved EXCEPT !.episodes = Cardinality(heard \cap Of({s}))]
                ELSE [moved EXCEPT !.agentEpisodes = @ + Cardinality(heard \cap Of({s}))]
    /\ at' = s /\ queue' = queue \ {s}
    /\ stage' = IF Counted THEN "facts" ELSE "agents"
    /\ UNCHANGED <<sourceVars, copies, agentVars, readVars, todo, history>>

ReadFacts ==
    /\ stage = "facts" /\ stage' = "rows"
    /\ todo' = live \cap Of({at})
    /\ UNCHANGED <<sourceVars, destVars, agentVars, readVars, moved, queue, at, history>>

(* One row and its receipt.                                                   *)
CopyRow(f) ==
    /\ stage = "rows" /\ f \in todo
    /\ copies' = [copies EXCEPT ![f] = IF @ = 0 THEN 1 ELSE 2]
    /\ todo' = todo \ {f}
    /\ moved' = IF at = Tenant THEN [moved EXCEPT !.facts = @ + 1]
                               ELSE [moved EXCEPT !.agentFacts = @ + 1]
    /\ UNCHANGED <<sourceVars, evidence, agentVars, readVars, queue, at, history, stage>>

AfterRows == IF queue # {} THEN "episodes" ELSE IF job.same THEN "recount" ELSE "agents"
EndOfScope ==
    /\ stage = "rows" /\ todo = {} /\ stage' = AfterRows
    /\ UNCHANGED <<sourceVars, destVars, agentVars, readVars, progress, history>>

(* Within one file the agents' rows stay where they are and are counted.      *)
Recount ==
    /\ stage = "recount" /\ stage' = "agents"
    /\ moved' = [moved EXCEPT !.agentFacts = Count(scopes).agentFacts,
                              !.agentEpisodes = Count(scopes).agentEpisodes]
    /\ UNCHANGED <<sourceVars, destVars, agentVars, readVars, queue, todo, at, history>>

\* (mutant) Agents move only with a receipt run.
RegisterAgentsWithRun ==
    /\ stage = "agents" /\ stage' = "verify"
    /\ dest' = IF Counted THEN dest \cup source ELSE dest
    /\ UNCHANGED <<sourceVars, destVars, source, late, joins, readVars, progress, history>>
RegisterAgents ==
    /\ stage = "agents" /\ stage' = "verify"
    /\ dest' = dest \cup source
    /\ UNCHANGED <<sourceVars, destVars, source, late, joins, readVars, progress, history>>

\* (mutant) The destination is counted, what earlier attempts left included.
ShortOfDestination == moved # plan \/ \E f \in Facts : copies[f] = 2
Short == moved # plan
Leaving == IF job.same THEN scopes ELSE {}
VerifyCounts ==
    /\ stage = "verify"
    /\ \/ Short /\ Leave("failed")
       \/ ~Short /\ ~job.purge /\ Leave("done")
       \/ /\ ~Short /\ job.purge /\ stage' = "handover"
          /\ queue' = Leaving
          /\ UNCHANGED <<readVars, moved, todo, at, job>>
    /\ UNCHANGED <<sourceVars, destVars, agentVars, faults, again>>

(* Each deregistration commits.                                               *)
Deregister(a) ==
    /\ stage = "handover" /\ a \in queue
    /\ source' = source \ {a}
    /\ queue' = queue \ {a}
    /\ UNCHANGED <<sourceVars, destVars, dest, late, joins, readVars, moved, todo, at, history, stage>>

BeginPurge ==
    /\ stage = "handover" /\ queue = {} /\ stage' = "purge"
    /\ UNCHANGED <<sourceVars, destVars, agentVars, readVars, progress, history>>

(* The re-verification and the purge are one exclusive transaction.  The      *)
(* purge sweeps the scopes of whichever agents are registered by then; the    *)
(* episodes stay, no longer marked processed.                                 *)
\* (mutant) The agents' scopes are not verified again.
MovedInTenant == live \cap Of({Tenant}) # mark.live \cap Of({Tenant})
\* (mutant) The tenant's scope is not verified again.
MovedInAgents == live \cap Of(scopes) # mark.live \cap Of(scopes)
Moved == Watermark(SourceScopes) # mark
Swept == Of(source \cup {Tenant})
Refuse ==
    /\ stage = "purge" /\ Moved /\ Leave("failed")
    /\ UNCHANGED <<sourceVars, destVars, agentVars, faults, again>>
\* (mutant) Processed marks are reset for every scope.
PurgeResetsAll ==
    /\ stage = "purge" /\ ~Moved
    /\ live' = live \ Swept /\ formed' = {}
    /\ source' = {}
    /\ IF job.same THEN stage' = "post" /\ UNCHANGED <<readVars, progress, job>>
                   ELSE Leave("done")
    /\ UNCHANGED <<heard, owed, destVars, dest, late, joins, faults, again>>
Purge ==
    /\ stage = "purge" /\ ~Moved
    /\ live' = live \ Swept /\ formed' = formed \ Swept
    /\ source' = {}
    /\ IF job.same THEN stage' = "post" /\ UNCHANGED <<readVars, progress, job>>
                   ELSE Leave("done")
    /\ UNCHANGED <<heard, owed, destVars, dest, late, joins, faults, again>>

(* Within one file, the agents' facts must have survived.                     *)
Survived == Count(scopes).agentFacts = plan.agentFacts
PostCheck ==
    /\ stage = "post"
    /\ Leave(IF Survived THEN "done" ELSE "failed")
    /\ UNCHANGED <<sourceVars, destVars, agentVars, faults, again>>

Crash ==
    /\ stage \notin {"idle", "done", "failed"} /\ faults < MaxFaults
    /\ Leave("failed") /\ faults' = faults + 1
    /\ UNCHANGED <<sourceVars, destVars, agentVars, again>>

(* The operator runs the migration again.                                     *)
Rerun ==
    /\ stage = "failed" /\ stage' = "idle" /\ again' = TRUE
    /\ UNCHANGED <<sourceVars, destVars, agentVars, readVars, progress, job, faults>>

-----------------------------------------------------------------------------
Others == \/ \E f \in Facts : Hear(f) \/ Form(f) \/ Retract(f)
          \/ \E a \in Agents : Join(a)
Migrate ==
    \/ Preview \/ ReadScopes \/ TakeWatermark \/ ReadFacts \/ EndOfScope \/ Recount
    \/ RegisterAgents \/ VerifyCounts \/ BeginPurge \/ Refuse \/ Purge \/ PostCheck
    \/ Rerun
    \/ \E s \in Scopes : CopyEpisodes(s)
    \/ \E f \in Facts : CopyRow(f)
    \/ \E a \in Agents : Deregister(a)

Next == Others \/ Migrate \/ Crash

(* The migrator is one synchronous call, so its next step comes; nobody owes  *)
(* it a quiet deployment.  That a failed migration is run again is what its   *)
(* error message tells the operator to do.                                    *)
Spec == Init /\ [][Next]_vars
FairSpec == Spec /\ WF_vars(Migrate)

-----------------------------------------------------------------------------
(* Properties.                                                                *)

(* What a step takes from the source and nobody retracted is held by the      *)
(* destination, unless its agent registered after the migration had read      *)
(* which agents there are, or the preview counted no fact: the copy, the two  *)
(* verifications and the handover of the agents leave no other way to lose    *)
(* memory, whatever the other processes do in between (the guarantee of       *)
(* migrate_tenant_memory).                                                    *)
NoOtherLoss == [][ \A f \in live \ live' : \/ f \notin owed'
                                           \/ copies[f] > 0
                                           \/ Home[f] \in late
                                           \/ ~Counted ]_vars

(* The first attempt, when it purges, has copied each fact of the scopes it   *)
(* moves exactly once, and none that was retracted meanwhile.                 *)
FirstMoveIsExact ==
    [][ (Purge /\ ~again /\ Counted) =>
            \A f \in Facts : copies[f] = IF f \in live \cap Of(Copied) THEN 1 ELSE 0 ]_vars

(* Nor does a purge run before the destination holds every episode of the     *)
(* scopes that are moved, those heard during the copy included.               *)
EvidenceMoves == [][ (Purge /\ Counted) => heard \cap Of(Copied) \subseteq evidence ]_vars

(* An agent that was registered with the source is never registered with      *)
(* neither tenant, wherever the migration stops: its memory keeps an owner.   *)
(* Late agents are excepted: the purge forgets them.                          *)
Owned == source \cup dest \cup late
NoOrphans == [][ source \cup dest \subseteq Owned' ]_vars

(* A tenant that keeps a fact is migrated in the end: no interference and no  *)
(* crash, once over, makes every later attempt fail.                          *)
Active == live \cap Of(source \cup {Tenant})
MovesInTheEnd == <>[](Active # {}) => <>(stage = "done")

(* "Never silent loss" (migration.py): what a purge takes after a copy, the   *)
(* destination holds.                                                         *)
NoSilentLoss == [][ (Purge /\ Counted) => \A f \in live \cap Swept : copies[f] > 0 ]_vars

=============================================================================
