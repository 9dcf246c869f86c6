----------------------------- MODULE TruthSlot -----------------------------
(* One single-active truth slot of the property graph: every row ever written *)
(* under one truth_key, and the four parties that rewrite them: formation     *)
(* (_materialize_episode and the supersession gate), the operator (review,    *)
(* forget, archive restore), the pruning job, and retrieval, which revives    *)
(* archived rows it matches.                                                  *)
(*                                                                            *)
(* A row is named by its position: positions are creation order, the order in *)
(* which the store returns rows.  Times are small numbers; Forever stands for *)
(* a missing valid_to.  Objects are equal when the code calls them the same   *)
(* object (equal key, or similar enough to be deduplicated).                  *)
EXTENDS Naturals, Sequences, FiniteSets

CONSTANTS Episodes,    \* episodes, each carrying one statement about the slot
          Statements,  \* what extraction may find in one
          Unsaid,      \* an episode not formed yet
          GateLower,   \* gate_lower_authority
          Severe,      \* the slot's severity reaches temporary_review_severity
          Recency,     \* the slot's type is in recency_authoritative_types
          Margin,      \* corroboration_margin
          Required,    \* corroboration_required
          Retention,   \* superseded_retention
          Ages,        \* active rows may fall below a confidence or age limit
          Restorers,   \* who restores archived rows: "retrieval", "curation"
          OneProcess,  \* one process, whose approvals never await
          EarlyCommits,  \* the store commits inside an episode's transaction
          MaxTime, MaxRows, MaxRepeats, MaxFaults, MaxForgets   \* bounds

Forever == MaxTime + 1

ASSUME StatementAssumption ==
    /\ \A m \in Statements : /\ DOMAIN m = {"obj", "rank", "from", "ref", "until"}
                             /\ m.rank \in Nat
                             /\ m.from \in 0..MaxTime /\ m.ref \in 0..MaxTime
                             /\ m.until \in (m.from + 1)..Forever
    /\ Unsaid \notin Statements
ASSUME PolicyAssumption ==
    /\ {GateLower, Severe, Recency, Ages, OneProcess, EarlyCommits} \subseteq BOOLEAN
    /\ Restorers \subseteq {"retrieval", "curation"}
    /\ Margin \in Nat \ {0} /\ Required \in Nat \ {0} /\ Retention \in Nat
    /\ {MaxTime, MaxRows, MaxRepeats, MaxFaults, MaxForgets} \subseteq Nat

VARIABLES now,       \* the clock
          said,      \* what each formed episode said
          rows,      \* the slot's relationships
          approval,  \* an operator approval in progress
          pruner,    \* the pruning run
          repeats, faults, forgets   \* how much of each bound is used

vars == <<now, said, rows, approval, pruner, repeats, faults, forgets>>

Objects == {m.obj : m \in Statements}
Row == [obj : Objects, rank : Nat,
        from : 0..MaxTime, to : 0..Forever,
        first : 0..MaxTime,                    \* first_seen_at
        until : 0..Forever,                    \* valid_to as first written
        status : {"ACTIVE", "SUPERSEDED", "PRUNED"},
        by : Nat,                              \* superseded_by, 0 for nobody
        count : Nat, seen : SUBSET Episodes,   \* observed_count, episode_uuids
        gate : {"none", "authority", "temporary", "corroboration"},
        review : {"none", "corroborated", "approved", "rejected"},
        preds : SUBSET [row : Nat, to : 0..Forever],   \* temporary_predecessor_*
        replaced : BOOLEAN,                    \* temporary_restored is set
        ghost : {"none", "kept", "revived"},   \* its prune ghost
        forgotten : BOOLEAN]                   \* history: an operator wants it gone

NoReview == [row |-> 0, todo |-> {}]
Nothing == [row |-> 0, why |-> "none", to |-> 0]
Task == [row : Nat, why : {"none", "expired", "aged", "retired"}, to : 0..Forever]
Resting == [stage |-> "idle", at |-> 0, losers |-> {}, winner |-> 0, to |-> 0,
            plan |-> {}, held |-> Nothing, back |-> {}]

TypeOK ==
    /\ now \in 0..MaxTime
    /\ said \in [Episodes -> Statements \cup {Unsaid}]
    /\ rows \in Seq(Row)
    /\ approval \in [row : Nat, todo : SUBSET Nat]
    /\ pruner \in [stage : {"idle", "repair", "sweep"}, at : 0..MaxTime,
                   losers : SUBSET Nat, winner : Nat, to : 0..Forever,
                   plan : SUBSET Task, held : Task,
                   back : SUBSET [row : Nat, to : 0..Forever]]
    /\ repeats \in 0..MaxRepeats /\ faults \in 0..MaxFaults /\ forgets \in 0..MaxForgets

Init ==
    /\ now = 0
    /\ said = [e \in Episodes |-> Unsaid]
    /\ rows = <<>>
    /\ approval = NoReview
    /\ pruner = Resting
    /\ repeats = 0 /\ faults = 0 /\ forgets = 0

Least(m, n) == IF m <= n THEN m ELSE n
Oldest(S) == CHOOSE i \in S : \A j \in S : i <= j
Active == {i \in DOMAIN rows : rows[i].status = "ACTIVE"}
Current(t) == {i \in Active : rows[i].to > t}

\* (mutant) A resolved review is adjudicated again.
Reopened(i) == rows[i].gate # "none"

Pending(i) == rows[i].gate # "none" /\ rows[i].review = "none"

(* One process neither awaits within an approval nor between the read and the *)
(* writes of a restoration: nothing of that process gets in between.          *)
Quiet == OneProcess => approval = NoReview /\ pruner.back = {}
Fault == faults < MaxFaults /\ faults' = faults + 1
----------------------------------------------------------------------------
(* Formation.                                                                 *)

Restated(m) == {i \in Active : rows[i].obj = m.obj}

\* (mutant) A row with an end date is no incumbent.
Lasting(m) == {i \in Active : rows[i].obj # m.obj /\ rows[i].to = Forever}

Contradictions(m) == {i \in Active : rows[i].obj # m.obj}

\* (mutant) Every contradiction is news.
NoSuccessors(m) == {}

Successors(m) == {i \in Contradictions(m) : rows[i].from > m.from}
Effective(m) == Least(m.from, m.ref)

\* (mutant) Every parked statement counts, whatever it states.
CorroboratingAny(m) ==
    {i \in DOMAIN rows : rows[i].status = "SUPERSEDED" /\ Pending(i)
                         /\ rows[i].gate = "corroboration"}

(* Parked statements of the same challenger that count as its observations.   *)
Corroborating(m) ==
    {i \in DOMAIN rows : /\ rows[i].status = "SUPERSEDED" /\ Pending(i)
                         /\ rows[i].gate = "corroboration" /\ rows[i].obj = m.obj}
Votes(m) == Cardinality(Corroborating(m)) + 1
Weighty(i, m) == rows[i].rank = m.rank /\ rows[i].count >= Margin

\* (mutant) The authority gate is forgotten.
GateReasonUnranked(i, m) ==
    IF Severe /\ m.until # Forever /\ m.rank <= rows[i].rank THEN "temporary"
    ELSE IF Weighty(i, m) /\ Votes(m) < Required THEN "corroboration"
    ELSE "none"

GateReason(i, m) ==
    IF GateLower /\ m.rank < rows[i].rank THEN "authority"
    ELSE IF Severe /\ m.until # Forever /\ m.rank <= rows[i].rank THEN "temporary"
    ELSE IF Weighty(i, m) /\ Votes(m) < Required THEN "corroboration"
    ELSE "none"

Bypassed(i, m) ==
    /\ Recency /\ GateReason(i, m) # "none"
    /\ Effective(m) >= rows[i].from
    /\ m.rank >= rows[i].rank

Gating(m) == {i \in Contradictions(m) : GateReason(i, m) # "none" /\ ~Bypassed(i, m)}

(* The incumbent a parked challenger is parked against.                       *)
Foremost(S) == CHOOSE i \in S : \A j \in S :
    \/ rows[i].rank > rows[j].rank
    \/ rows[i].rank = rows[j].rank /\ rows[i].from >= rows[j].from

New(e, m) ==
    [obj |-> m.obj, rank |-> m.rank, from |-> m.from, to |-> m.until, first |-> m.from,
     until |-> m.until, status |-> "ACTIVE", by |-> 0, count |-> 1, seen |-> {e},
     gate |-> "none", review |-> "none", preds |-> {}, replaced |-> FALSE,
     ghost |-> "none", forgotten |-> FALSE]

Superseded(row, by, to) == [row EXCEPT !.status = "SUPERSEDED", !.by = by, !.to = to]

\* (mutant) The predecessor's end is read after the predecessor is closed.
ClosedPredecessors(m) == {[row |-> i, to |-> m.from] : i \in Contradictions(m)}

(* What a temporary statement remembers of the rows it supersedes.            *)
Predecessors(m) ==
    IF m.until = Forever THEN {}
    ELSE {[row |-> i, to |-> rows[i].to] : i \in Contradictions(m)}

Reinforced(row, e, m) ==
    LET first == Least(row.first, m.from)
    IN [row EXCEPT !.count = @ + 1, !.seen = @ \cup {e}, !.first = first, !.from = first]

Reinforce(e, m) ==
    /\ Restated(m) # {}
    /\ rows' = [rows EXCEPT ![Oldest(Restated(m))] = Reinforced(@, e, m)]

FileAsHistory(e, m) ==
    /\ Restated(m) = {} /\ Successors(m) # {}
    /\ LET s == CHOOSE i \in Successors(m) :
                    \A j \in Successors(m) : rows[i].from <= rows[j].from
       IN rows' = Append(rows, Superseded(New(e, m), s, Least(m.until, rows[s].from)))

Park(e, m) ==
    /\ Restated(m) = {} /\ Successors(m) = {} /\ Gating(m) # {}
    /\ LET i == Foremost(Gating(m))
       IN rows' = Append(rows, [Superseded(New(e, m), i, m.from)
                                    EXCEPT !.gate = GateReason(i, m)])

Take(e, m) ==
    /\ Restated(m) = {} /\ Successors(m) = {} /\ Gating(m) = {}
    /\ LET new == Len(rows) + 1
           losers == Contradictions(m)
           settled == IF (\E i \in losers : Weighty(i, m)) /\ Votes(m) >= Required
                      THEN Corroborating(m) ELSE {}
       IN rows' = Append(
            [i \in DOMAIN rows |->
                IF i \in losers
                THEN Superseded(rows[i], new, IF Bypassed(i, m) THEN Effective(m) ELSE m.from)
                ELSE IF i \in settled
                THEN [rows[i] EXCEPT !.by = new, !.review = "corroborated"]
                ELSE rows[i]],
            [New(e, m) EXCEPT !.preds = Predecessors(m)])

(* One formed statement, committed as a whole.  An episode is formed again    *)
(* when its run stopped between that commit and its marker.                   *)
Materialize(e, m) ==
    /\ Quiet
    /\ \/ said[e] = Unsaid /\ m.ref <= now /\ Len(rows) < MaxRows
          /\ said' = [said EXCEPT ![e] = m] /\ UNCHANGED repeats
       \/ said[e] = m /\ repeats < MaxRepeats
          /\ repeats' = repeats + 1 /\ UNCHANGED said
    /\ Reinforce(e, m) \/ FileAsHistory(e, m) \/ Park(e, m) \/ Take(e, m)
    /\ UNCHANGED <<now, approval, pruner, faults, forgets>>

(* Under EarlyCommits (SQLite) marking the raw candidate promoted commits the *)
(* new row before the rows it contradicts are superseded; an outage on a      *)
(* later statement of the episode, or a kill, then undoes only the rest.      *)
Torn(e, m) ==
    /\ EarlyCommits /\ Quiet /\ Fault
    /\ said[e] = Unsaid /\ m.ref <= now /\ Len(rows) < MaxRows
    /\ Restated(m) = {} /\ Successors(m) = {} /\ Gating(m) = {} /\ Contradictions(m) # {}
    /\ said' = [said EXCEPT ![e] = m]
    /\ rows' = Append(rows, [New(e, m) EXCEPT !.preds = Predecessors(m)])
    /\ UNCHANGED <<now, approval, pruner, repeats, forgets>>
----------------------------------------------------------------------------
(* The operator.  An approval supersedes each incumbent it read in a commit   *)
(* of its own, then activates the candidate.                                  *)

RejectReview(i) ==
    /\ Quiet /\ Pending(i)
    /\ rows' = [rows EXCEPT ![i] = [@ EXCEPT !.review = "rejected"]]
    /\ UNCHANGED <<now, said, approval, pruner, repeats, faults, forgets>>

ApproveStart(i) ==
    /\ Quiet /\ approval = NoReview /\ Pending(i)
    /\ approval' = [row |-> i, todo |-> Active \ {i}]
    /\ UNCHANGED <<now, said, rows, pruner, repeats, faults, forgets>>

ApproveSupersede ==
    /\ approval.todo # {}
    /\ LET i == Oldest(approval.todo)
       IN /\ rows' = [rows EXCEPT ![i] = Superseded(@, approval.row, now)]
          /\ approval' = [approval EXCEPT !.todo = @ \ {i}]
    /\ UNCHANGED <<now, said, pruner, repeats, faults, forgets>>

\* (mutant) The pointer of the park is not cleared.
ActivatedInPlace(row) ==
    [row EXCEPT !.status = "ACTIVE", !.to = Forever, !.review = "approved", !.forgotten = FALSE]

Activated(row) ==
    [row EXCEPT !.status = "ACTIVE", !.by = 0, !.to = Forever, !.review = "approved",
                !.forgotten = FALSE]

ApproveFinish ==
    /\ approval # NoReview /\ approval.todo = {}
    /\ rows' = [rows EXCEPT ![approval.row] = Activated(@)]
    /\ approval' = NoReview
    /\ UNCHANGED <<now, said, pruner, repeats, faults, forgets>>

(* forget_memory retires any row, whatever its status.                        *)
Retired(row) ==
    [row EXCEPT !.status = "PRUNED", !.forgotten = TRUE,
                !.to = IF row.status = "ACTIVE" THEN Least(@, now) ELSE @]

Forget(i) ==
    /\ Quiet /\ forgets < MaxForgets
    /\ rows' = [rows EXCEPT ![i] = Retired(@)]
    /\ forgets' = forgets + 1
    /\ UNCHANGED <<now, said, approval, pruner, repeats, faults>>

(* A prune ghost brought back: by a retrieval that matches it (once), or by   *)
(* an explicit curation request (again and again).                            *)
Revived(row) == [row EXCEPT !.status = "ACTIVE", !.to = Forever, !.ghost = "revived"]

Retrieve(i) ==
    /\ Quiet /\ "retrieval" \in Restorers /\ rows[i].ghost = "kept"
    /\ rows' = [rows EXCEPT ![i] = Revived(@)]
    /\ UNCHANGED <<now, said, approval, pruner, repeats, faults, forgets>>

Curate(i) ==
    /\ Quiet /\ "curation" \in Restorers /\ rows[i].ghost # "none"
    /\ rows' = [rows EXCEPT ![i] = [Revived(@) EXCEPT !.forgotten = FALSE]]
    /\ UNCHANGED <<now, said, approval, pruner, repeats, faults, forgets>>
----------------------------------------------------------------------------
(* The pruning run.  It awaits a decision before every row it marks, and      *)
(* marks it as planned, without reading it again.                             *)

PruneStart ==
    /\ Quiet /\ pruner = Resting
    /\ LET conflict == Current(now)
       IN IF Cardinality(conflict) <= 1
          THEN pruner' = [Resting EXCEPT !.stage = "repair", !.at = now]
          ELSE \E w \in conflict :
                 /\ \A i \in conflict : rows[i].from <= rows[w].from
                 /\ pruner' = [Resting EXCEPT !.stage = "repair", !.at = now, !.winner = w,
                                              !.to = rows[w].from, !.losers = conflict \ {w}]
    /\ UNCHANGED <<now, said, rows, approval, repeats, faults, forgets>>

\* (mutant) The repair is decided and not carried out.
RepairForgotten(i) ==
    /\ Quiet /\ i \in pruner.losers
    /\ pruner' = [pruner EXCEPT !.losers = @ \ {i}]
    /\ UNCHANGED <<now, said, rows, approval, repeats, faults, forgets>>

(* Losers go in truth-time order in the code; each is a commit of its own, so *)
(* the model lets them go in any order.                                       *)
RepairOne(i) ==
    /\ Quiet /\ i \in pruner.losers
    /\ rows' = [rows EXCEPT ![i] = Superseded(@, pruner.winner, pruner.to)]
    /\ pruner' = [pruner EXCEPT !.losers = @ \ {i}]
    /\ UNCHANGED <<now, said, approval, repeats, faults, forgets>>

\* (mutant) A row that ends now is not due yet.
DueLater(why, i, t) ==
    CASE why = "expired" -> i \in Active /\ rows[i].to < t
      [] why = "aged"    -> Ages /\ i \in Current(t)
      [] why = "retired" -> /\ rows[i].status = "SUPERSEDED"
                            /\ rows[i].to # Forever /\ rows[i].to + Retention <= t

Due(why, i, t) ==
    CASE why = "expired" -> i \in Active /\ rows[i].to <= t
      [] why = "aged"    -> Ages /\ i \in Current(t)
      [] why = "retired" -> /\ rows[i].status = "SUPERSEDED"
                            /\ rows[i].to # Forever /\ rows[i].to + Retention <= t

Tasks(why, t) ==
    {[row |-> i, why |-> why, to |-> rows[i].to] : i \in {j \in DOMAIN rows : Due(why, j, t)}}

SweepStart ==
    /\ Quiet /\ pruner.stage = "repair" /\ pruner.losers = {}
    /\ \E aged \in SUBSET Tasks("aged", pruner.at) :
         pruner' = [Resting EXCEPT !.stage = "sweep", !.at = pruner.at,
                        !.plan = aged \cup Tasks("expired", pruner.at)
                                      \cup Tasks("retired", pruner.at)]
    /\ UNCHANGED <<now, said, rows, approval, repeats, faults, forgets>>

\* (mutant) A predecessor returns whether or not a newer truth holds the slot.
RestorableAnyway(p) ==
    IF p.why # "expired" \/ rows[p.row].replaced THEN {}
    ELSE {q \in rows[p.row].preds : q.to > p.to}

(* The interval a temporary row stood in for, if it is to come back.          *)
Restorable(p) ==
    IF \/ p.why # "expired" \/ rows[p.row].replaced
       \/ \E j \in Active \ {p.row} : rows[j].to > pruner.at
    THEN {}
    ELSE {q \in rows[p.row].preds :
             /\ \A r \in rows[p.row].preds : rows[q.row].from >= rows[r.row].from
             /\ q.to > p.to}

\* (mutant) The restored interval begins where it should end.
RestoredBackwards(p, q) ==
    [rows[q.row] EXCEPT !.status = "ACTIVE", !.from = q.to, !.to = p.to, !.until = q.to,
                        !.by = 0, !.ghost = "none"]

Restored(p, q) ==
    [rows[q.row] EXCEPT !.status = "ACTIVE", !.from = p.to, !.to = q.to, !.until = q.to,
                        !.by = 0, !.ghost = "none"]

SweepTake ==
    /\ Quiet /\ pruner.held = Nothing
    /\ \E p \in pruner.plan :
         /\ \A q \in pruner.plan : p.row <= q.row
         /\ pruner' = [pruner EXCEPT !.held = p, !.plan = @ \ {p}, !.back = Restorable(p)]
    /\ UNCHANGED <<now, said, rows, approval, repeats, faults, forgets>>

SweepRestore ==
    /\ \E q \in pruner.back :
         rows' = Append([rows EXCEPT ![pruner.held.row] = [@ EXCEPT !.replaced = TRUE]],
                        Restored(pruner.held, q))
    /\ pruner' = [pruner EXCEPT !.back = {}]
    /\ UNCHANGED <<now, said, approval, repeats, faults, forgets>>

Pruned(row, why) ==
    [row EXCEPT !.status = "PRUNED",
                !.to = IF why = "aged" THEN pruner.at ELSE @,
                !.ghost = IF why = "expired" THEN @ ELSE "kept"]

SweepMark ==
    /\ Quiet /\ pruner.held # Nothing /\ pruner.back = {}
    /\ rows' = [rows EXCEPT ![pruner.held.row] = Pruned(@, pruner.held.why)]
    /\ pruner' = [pruner EXCEPT !.held = Nothing]
    /\ UNCHANGED <<now, said, approval, repeats, faults, forgets>>

(* The dream agent refuses a repair or a prune.                               *)
Refuse ==
    /\ Quiet /\ Fault
    /\ \/ /\ pruner.held # Nothing /\ pruner.back = {}
          /\ pruner' = [pruner EXCEPT !.held = Nothing]
       \/ \E i \in pruner.losers : pruner' = [pruner EXCEPT !.losers = @ \ {i}]
    /\ UNCHANGED <<now, said, rows, approval, repeats, forgets>>

PruneEnd ==
    /\ Quiet /\ pruner.stage = "sweep" /\ pruner.plan = {} /\ pruner.held = Nothing
    /\ pruner' = Resting
    /\ UNCHANGED <<now, said, rows, approval, repeats, faults, forgets>>

(* A process dies in the middle of a pruning run, of an approval, or of both. *)
Crash ==
    /\ Fault
    /\ \/ pruner # Resting /\ pruner' = Resting
          /\ approval' = IF OneProcess THEN NoReview ELSE approval
       \/ approval # NoReview /\ approval' = NoReview
          /\ pruner' = IF OneProcess THEN Resting ELSE pruner
    /\ UNCHANGED <<now, said, rows, repeats, forgets>>

Tick ==
    /\ now < MaxTime
    /\ now' = now + 1
    /\ UNCHANGED <<said, rows, approval, pruner, repeats, faults, forgets>>
----------------------------------------------------------------------------
Form == \E e \in Episodes, m \in Statements : Materialize(e, m)
Tear == \E e \in Episodes, m \in Statements : Torn(e, m)
Approve == ApproveSupersede \/ ApproveFinish
PruneStep == \/ PruneStart \/ (\E i \in DOMAIN rows : RepairOne(i)) \/ SweepStart
             \/ SweepTake \/ SweepRestore \/ SweepMark \/ PruneEnd
Operate == \E i \in DOMAIN rows : RejectReview(i) \/ ApproveStart(i) \/ Forget(i) \/ Curate(i)

Next == Form \/ Tear \/ Approve \/ Operate \/ (\E i \in DOMAIN rows : Retrieve(i))
        \/ PruneStep \/ Refuse \/ Crash \/ Tick

Spec == Init /\ [][Next]_vars
FairSpec == Spec /\ WF_vars(Approve) /\ WF_vars(PruneStep)
----------------------------------------------------------------------------
(* Properties.                                                                *)

(* The slot shows one truth at a time ("only one truth slot can be active at  *)
(* a time"): never two ACTIVE rows whose valid_to lies ahead.                 *)
AtMostOneTruth == Cardinality(Current(now)) <= 1

(* An observation formed as a whole never adds a second truth to a slot,      *)
(* whatever approvals, pruning runs and restorations commit around it.        *)
FormationNeverForks ==
    [][Form => Cardinality(Current(now)') <= 1
               \/ Cardinality(Current(now)') <= Cardinality(Current(now))]_vars

(* An episode's write burst is in the store as a whole or not at all: with a  *)
(* new truth, every row it contradicts is superseded in the same commit       *)
(* ("the episode's whole write burst ... commits once").                      *)
EpisodesCommitWhole ==
    [][LET new == rows'[Len(rows')]
       IN said' # said /\ Len(rows') > Len(rows) /\ new.status = "ACTIVE" =>
            \A i \in DOMAIN rows : rows'[i].status = "ACTIVE" => rows'[i].obj = new.obj]_vars

(* What an observation supersedes gives way to a row of no lower authority    *)
(* and no older valid time, and its interval stays an interval: the gate and  *)
(* the historical-successor path hold together, for every incumbent at once.  *)
GivesWay(i) ==
    LET new == rows'[rows'[i].by]
    IN /\ new.status = "ACTIVE"
       /\ GateLower => new.rank >= rows[i].rank
       /\ new.from >= rows[i].from
       /\ rows'[i].from <= rows'[i].to
TruthGivesWayToBetter ==
    [][Form => \A i \in Active : rows'[i].status = "SUPERSEDED" => GivesWay(i)]_vars

(* Whatever path took it there - gate, flip, repair, revival -, a row is not  *)
(* current truth in place of one of higher authority unless an operator said  *)
(* so: "lower-authority candidates ... are stored as inactive review          *)
(* candidates instead of overriding current truth".                           *)
AuthorityHolds ==
    [][\A i \in Active : rows'[i].status = "SUPERSEDED" =>
          \/ rows'[rows'[i].by].rank >= rows[i].rank
          \/ rows'[i].by = approval.row]_vars

(* A corroborated incumbent is flipped by Required distinct observations of   *)
(* the challenger, one episode each, counting the one that flips it.          *)
Settled(j) == {i \in DOMAIN rows : rows[i].review = "corroborated" /\ rows[i].by = j}
FlipsAreCorroborated ==
    \A j \in DOMAIN rows : Settled(j) # {} =>
        /\ \A i \in Settled(j) : rows[i].obj = rows[j].obj
        /\ Cardinality(rows[j].seen \cup UNION {rows[i].seen : i \in Settled(j)}) >= Required

(* A review is resolved once: later observations, runs and reviewers do not   *)
(* change the outcome ("review was already resolved").                        *)
ResolutionIsFinal ==
    [][\A i \in DOMAIN rows : rows[i].review # "none" => rows'[i].review = rows[i].review]_vars

(* Following superseded_by from any row ends: no rows stand for one another   *)
(* in a circle, once no approval is half done.                                *)
LineageAcyclic ==
    approval = NoReview =>
        \A S \in SUBSET DOMAIN rows : S # {} => \E i \in S : rows[i].by \notin S

(* A temporary state is not a permanent change: when an observation displaced *)
(* a permanent truth, every later row is temporary, and no operator approved  *)
(* or forgot a row of the slot, the slot is not left empty once they have run *)
(* out.                                                                       *)
OnlyInterrupted(i) ==
    /\ rows[i].until = Forever /\ rows[i].gate = "none"
    /\ rows[i].by > i /\ rows[rows[i].by].gate = "none"
    /\ \A j \in DOMAIN rows : /\ j > i => rows[j].until # Forever
                              /\ rows[j].review # "approved" /\ ~rows[j].forgotten
PermanentTruthReturns ==
    pruner = Resting /\ approval = NoReview /\ Active = {} =>
        ~\E i \in DOMAIN rows : OnlyInterrupted(i)

(* What an operator forgot is not current truth again, unless it is observed  *)
(* again or an operator approves or restores it.                              *)
ForgottenStaysForgotten == \A i \in Active : ~rows[i].forgotten

(* Pruning archives a current row only for its age or confidence, never as    *)
(* superseded history.                                                        *)
ArchiveSparesCurrentTruth ==
    [][SweepMark /\ pruner.held.row \in Current(pruner.at) => pruner.held.why = "aged"]_vars

(* A forked slot is repaired, and an elapsed truth leaves it, as long as      *)
(* pruning runs.                                                              *)
SlotSettles == ~AtMostOneTruth ~> AtMostOneTruth
ElapsedTruthRetires == \A i \in 1..(2 * MaxRows) :
    (i \in Active /\ rows[i].to <= now) ~> ~(i \in Active /\ rows[i].to <= now)
=============================================================================
