------------------------------ MODULE Rollups ------------------------------
(* What a caller sees of one scope by default: its facts, the rollups that    *)
(* stand in for several of them, and the duplicates demoted behind another    *)
(* row.  Consolidation hides rows behind others; whatever retires a row has   *)
(* to give back what was hidden behind it.                                    *)
(*                                                                            *)
(* A row is named by its position, which is creation order.  Of valid time    *)
(* only this is kept: some rows are brief, and one day, `late`, all of them   *)
(* have run out at once.  Which rows are alike, and whether a text comes out  *)
(* the same again, is the model's answer: any set may form a cluster.         *)
EXTENDS Naturals, Sequences, FiniteSets

CONSTANTS Start,         \* facts the scope may start with
          MinCluster,    \* min_cluster_size
          MaxDepth,      \* max_depth
          RestoreViews,  \* may archived rollups be restored too?
          MaxRows, MaxChanges   \* bounds: rows, and steps of writers and sweeps

ASSUME RollupsAssumption ==
    /\ {MaxDepth, MaxRows, MaxChanges} \subseteq Nat
    /\ MinCluster \in Nat \ {0} /\ RestoreViews \in BOOLEAN

VARIABLES rows,     \* the relationships of the scope
          late,     \* the brief rows have run out
          pass,     \* the consolidation run: its clustering pass, if any
          changes,  \* how often a writer or a sweep has changed a row
          unseen    \* history: rows that changed without the views above hearing of it

vars == <<rows, late, pass, changes, unseen>>

None == 0
Row == [depth : 0..MaxDepth,                            \* 0: a fact
        status : {"active", "superseded", "pruned"},
        brief : BOOLEAN,                                \* valid_to is set
        shown : BOOLEAN,                                \* active_in_context
        stale : BOOLEAN,                                \* rollup_stale
        pinned : BOOLEAN,
        ghost : BOOLEAN,                                \* restorable from the archive
        by : 0..MaxRows,                                \* superseded_by_relationship_uuid
        parent : 0..MaxRows,                            \* rolled_up_by
        dup : 0..MaxRows,                               \* duplicate_of
        members : SUBSET (1..MaxRows),                  \* derived_from
        version : Nat]                                  \* rollup_version

Fact(brief) ==
    [depth |-> 0, status |-> "active", brief |-> brief, shown |-> TRUE, stale |-> FALSE,
     pinned |-> FALSE, ghost |-> FALSE, by |-> None, parent |-> None, dup |-> None,
     members |-> {}, version |-> 1]

ASSUME StartAssumption ==
    \A known \in Start : Len(known) <= MaxRows /\ known \in Seq({Fact(TRUE), Fact(FALSE)})

NoPass == [depth |-> 0, left |-> {}, held |-> {}, brief |-> {}, members |-> {}, rebuilt |-> {}]

Init ==
    /\ rows \in Start
    /\ late = FALSE
    /\ pass = NoPass
    /\ changes = 0
    /\ unseen = {}

-----------------------------------------------------------------------------
(* Reading the rows r. *)

Views(r) == {i \in DOMAIN r : r[i].depth > 0}
Current(r) == {i \in DOMAIN r : r[i].status = "active" /\ ~(r[i].brief /\ late)}

(* The views that rest on row i, directly or through other views.             *)
\* (mutant) Only the views directly above are told.
AboveDirectly(r, i) == {v \in Views(r) : i \in r[v].members}
Above(r, i) ==
    {v \in Views(r) :
        \A S \in SUBSET Views(r) :
            (\A w \in Views(r) : r[w].members \cap (S \cup {i}) # {} => w \in S) => v \in S}

(* The first current row on the supersession chain of row i, if there is one. *)
Heir(r, i) ==
    LET next[j \in DOMAIN r] ==
            IF r[j].by = None \/ r[j].by \in Current(r) THEN r[j].by ELSE next[r[j].by]
    IN  IF i \in Current(r) THEN i ELSE next[i]

-----------------------------------------------------------------------------
(* What a change of a row does to the rows above it, and behind it. *)

(* What takes the place of the views that go stale: the members, or their     *)
(* heirs, that are not stale views themselves.                                *)
Fallback(r, gone) ==
    {j \in {Heir(r, m) : m \in UNION {r[v].members : v \in gone}} :
        j # None /\ ~r[j].stale /\ j \notin gone}

(* The walk from row i: every view above it leaves the context at once.       *)
Invalidated(r, i) ==
    LET gone == {v \in Above(r, i) : ~r[v].stale}
        woken == Fallback(r, gone)
    IN  [j \in DOMAIN r |->
            IF j \in gone THEN [r[j] EXCEPT !.shown = FALSE, !.stale = TRUE]
            ELSE IF j \in woken THEN [r[j] EXCEPT !.shown = TRUE, !.parent = None]
            ELSE r[j]]

(* The duplicates that were demoted behind row i come back.                   *)
\* (mutant) The pointer is cleared, the row stays hidden.
RepromotedHidden(r, i) ==
    [j \in DOMAIN r |->
        IF r[j].dup = i /\ r[j].status = "active" THEN [r[j] EXCEPT !.dup = None] ELSE r[j]]
Repromoted(r, i) ==
    [j \in DOMAIN r |->
        IF r[j].dup = i /\ r[j].status = "active" /\ ~r[j].shown
        THEN [r[j] EXCEPT !.shown = TRUE, !.dup = None] ELSE r[j]]

(* Row i has been retired in r: its views are told, then its duplicates.      *)
Retire(retired, i) ==
    \E r \in {retired} : \E told \in {Invalidated(r, i)} : rows' = Repromoted(told, i)

Archived(i, ghost) ==
    [rows EXCEPT ![i].status = "pruned", ![i].shown = FALSE, ![i].ghost = @ \/ ghost]

-----------------------------------------------------------------------------
(* Everybody but consolidation. *)

Changes ==
    /\ changes < MaxChanges
    /\ changes' = changes + 1
    /\ UNCHANGED <<late, pass>>

Room == Len(rows) < MaxRows

(* History: what a pass counts on and what changes under it.                  *)
Missed == {i \in pass.left \cup pass.members :
              rows'[i].status # "active" \/ (rows'[i].stale /\ ~rows[i].stale)}
Overlooks(some) == unseen' = unseen \cup some

(* Formation, or a direct write, adds a fact.                                 *)
Learn ==
    /\ Changes /\ Room
    /\ \E brief \in BOOLEAN : rows' = Append(rows, Fact(brief))
    /\ Overlooks({})

(* ... or one that takes the place of an active one (a correction does too).  *)
\* (mutant) The successor's place is off by one.
SupersededByOne(i, brief) ==
    Append([rows EXCEPT ![i].status = "superseded", ![i].by = Len(rows)], Fact(brief))
Superseded(i, brief) ==
    Append([rows EXCEPT ![i].status = "superseded", ![i].by = Len(rows) + 1], Fact(brief))

Supersede(i) ==
    /\ Changes /\ Room
    /\ rows[i].depth = 0 /\ rows[i].status = "active"
    /\ \E brief \in BOOLEAN : Retire(Superseded(i, brief), i)
    /\ Overlooks(Missed)

(* A reinforcement that is material to a view that is not stale yet.          *)
Reinforce(i) ==
    /\ Changes
    /\ rows[i].depth = 0 /\ rows[i].status = "active"
    /\ \E v \in Views(rows) : ~rows[v].stale /\ i \in rows[v].members
    /\ rows' = Invalidated(rows, i)
    /\ Overlooks(Missed)

(* Pruning archives a row for its age or its confidence, or a superseded one. *)
(* Pins hold, and rollups are a protected type while they are active.         *)
Held(i) == rows[i].pinned \/ (rows[i].status = "active" /\ rows[i].depth > 0)
Prune(i) ==
    /\ Changes
    /\ ~Held(i)
    /\ rows[i].status = "superseded" \/ i \in Current(rows)
    /\ Retire(Archived(i, TRUE), i)
    /\ Overlooks(Missed)

(* An operator forgets a row: its duplicates come back, the views above it    *)
(* are not told.                                                              *)
Forget(i) ==
    /\ Changes
    /\ rows[i].status # "pruned"
    /\ rows' = Repromoted([rows EXCEPT ![i].status = "pruned"], i)
    /\ Overlooks({i})

(* Retrieval or an operator restores an archived row; an operator may do so   *)
(* again, whatever has become of the row since.                               *)
Restore(i) ==
    /\ Changes
    /\ rows[i].ghost /\ (rows[i].depth = 0 \/ RestoreViews)
    /\ rows' = [rows EXCEPT ![i].status = "active", ![i].shown = TRUE,
                            ![i].brief = FALSE]
    /\ Overlooks({})

(* An operator pins a visible row, or takes the pin off.                      *)
Pin(i) ==
    /\ Changes
    /\ rows[i].pinned \/ i \in Current(rows)
    /\ rows' = [rows EXCEPT ![i].pinned = ~@]
    /\ Overlooks({})

(* Time passes, and pruning archives what has run out: nothing holds that.    *)
Elapse ==
    /\ ~late /\ late' = TRUE
    /\ UNCHANGED <<rows, pass, changes, unseen>>

\* (mutant) What has run out is archived without telling anybody.
PruneElapsedAlone(i) ==
    /\ rows[i].status = "active" /\ i \notin Current(rows)
    /\ rows' = Archived(i, FALSE)
    /\ Overlooks(Missed)
    /\ UNCHANGED <<late, pass, changes>>
PruneElapsed(i) ==
    /\ rows[i].status = "active" /\ i \notin Current(rows)
    /\ Retire(Archived(i, FALSE), i)
    /\ Overlooks(Missed)
    /\ UNCHANGED <<late, pass, changes>>

-----------------------------------------------------------------------------
(* A consolidation run: the duplicate sweep, then a pass for each depth. *)

Consolidates == UNCHANGED <<late, changes>>

(* What the sweep, and a pass at depth d, read: neither looks at valid time.  *)
Candidates(d) ==
    {i \in DOMAIN rows : /\ rows[i].depth = d - 1
                         /\ rows[i].status = "active" /\ rows[i].shown}

(* The sweep demotes the weaker of two facts that say the same.               *)
DemoteDuplicate(weaker, stronger) ==
    /\ Changes
    /\ pass = NoPass
    /\ {weaker, stronger} \subseteq Candidates(1) /\ weaker # stronger
    /\ ~rows[weaker].pinned
    /\ rows' = [rows EXCEPT ![weaker].shown = FALSE, ![weaker].dup = stronger]
    /\ Overlooks({})

(* A run awaits the text of one cluster: what is left of the candidates is of *)
(* use only if it may hold another.                                           *)
Await(p, members) ==
    LET rest == p.left \ members
        left == IF Cardinality(rest) < MinCluster THEN {} ELSE rest
    IN  /\ Cardinality(members) >= MinCluster
        /\ pass' = [p EXCEPT !.members = members, !.left = left,
                             !.held = @ \cap (members \cup left),
                             !.brief = @ \cap (members \cup left)]

(* A pass reads its candidates once, and takes the first cluster of them, ... *)
BeginPass(d) ==
    /\ Consolidates
    /\ pass.depth < d /\ pass.members = {}
    /\ LET found == Candidates(d) IN
       \E members \in SUBSET found :
           Await([pass EXCEPT !.depth = d, !.left = found,
                              !.held = {i \in found : rows[i].pinned},
                              !.brief = {i \in found : rows[i].brief}], members)
    /\ UNCHANGED rows /\ Overlooks({})

(* ... and the next ones when it comes back from that.                        *)
NextCluster ==
    /\ Consolidates
    /\ pass.members = {}
    /\ \E members \in SUBSET pass.left : Await(pass, members)
    /\ UNCHANGED rows /\ Overlooks({})

(* The stale view that the members would rebuild: the latest version among    *)
(* those whose own members, or their heirs, they are.  Its status is not      *)
(* looked at.                                                                 *)
Stands(i) == IF Heir(rows, i) # None THEN Heir(rows, i) ELSE i
Rebuildable ==
    {v \in Views(rows) : /\ rows[v].stale /\ rows[v].depth = pass.depth
                         /\ v \notin pass.rebuilt
                         /\ {Stands(m) : m \in rows[v].members} = pass.members
                         /\ Cardinality(rows[v].members) = Cardinality(pass.members)}
Later(v, w) == \/ rows[v].version > rows[w].version
               \/ (rows[v].version = rows[w].version /\ v >= w)
Latest == {v \in Rebuildable : \A w \in Rebuildable : Later(v, w)}

Brief == pass.members \cap pass.brief # {}
Done(rebuilt) ==
    pass' = [pass EXCEPT !.members = {}, !.held = @ \cap pass.left,
                         !.brief = @ \cap pass.left, !.rebuilt = @ \cup rebuilt]

(* The text is the old one: the stale view is revived in its place, and all   *)
(* members are hidden behind it.                                              *)
Revived(v) ==
    [j \in DOMAIN rows |->
        IF j = v
        THEN [rows[v] EXCEPT !.shown = TRUE, !.stale = FALSE, !.brief = Brief,
                             !.members = pass.members, !.version = @ + 1]
        ELSE IF j \in pass.members THEN [rows[j] EXCEPT !.shown = FALSE, !.parent = v]
        ELSE rows[j]]

ReviveView ==
    /\ Consolidates
    /\ pass.members # {}
    /\ \E v \in Latest : rows' = Revived(v)
    /\ Done(Latest)
    /\ Overlooks({v \in Latest : rows[v].status # "active"})

(* The text is new: a new view supersedes the stale one, if there was one,    *)
(* and hides the members that were not pinned when the pass read them.        *)
View ==
    [depth |-> pass.depth, status |-> "active", brief |-> Brief, shown |-> TRUE,
     stale |-> FALSE, pinned |-> FALSE, ghost |-> FALSE, by |-> None,
     parent |-> None, dup |-> None, members |-> pass.members, version |-> 1]

Created(replaced) ==
    LET new == Len(rows) + 1 IN
    Append([j \in DOMAIN rows |->
               IF j \in replaced THEN [rows[j] EXCEPT !.status = "superseded", !.by = new]
               ELSE IF j \in pass.members \ pass.held
               THEN [rows[j] EXCEPT !.shown = FALSE, !.parent = new]
               ELSE rows[j]], View)

CreateView ==
    /\ Consolidates
    /\ pass.members # {} /\ Room
    /\ rows' = Created(Latest)
    /\ Done(Latest)
    /\ Overlooks({})

(* The run ends: done, or on an outage or any other exception.                *)
EndRun ==
    /\ Consolidates
    /\ pass # NoPass /\ pass' = NoPass
    /\ UNCHANGED rows /\ Overlooks({})

-----------------------------------------------------------------------------
Others(i) ==
    Supersede(i) \/ Reinforce(i) \/ Prune(i) \/ Forget(i) \/ Restore(i) \/ Pin(i) \/ PruneElapsed(i)
Consolidate ==
    \/ \E i, j \in DOMAIN rows : DemoteDuplicate(i, j)
    \/ \E d \in 1..MaxDepth : BeginPass(d)
    \/ NextCluster \/ ReviveView \/ CreateView \/ EndRun

Next ==
    \/ Learn \/ Elapse \/ Consolidate
    \/ \E i \in DOMAIN rows : Others(i)

Spec == Init /\ [][Next]_vars
-----------------------------------------------------------------------------
(* Properties. *)

Live == Current(rows)

Linked(r, i) ==
    /\ r[i].by \in {None} \cup i + 1..Len(r)
    /\ r[i].parent # None => /\ r[i].parent \in DOMAIN r
                             /\ r[r[i].parent].depth = r[i].depth + 1
    /\ r[i].dup \in {None} \cup DOMAIN r
    /\ \A m \in r[i].members : m \in DOMAIN r /\ r[m].depth + 1 = r[i].depth

TypeOK ==
    /\ rows \in Seq(Row) /\ Len(rows) <= MaxRows
    /\ late \in BOOLEAN /\ changes \in 0..MaxChanges
    /\ LET ids == SUBSET DOMAIN rows IN
        /\ pass \in [depth : 0..MaxDepth, left : ids, held : ids, brief : ids,
                     members : ids, rebuilt : ids]
        /\ unseen \in ids
    /\ \A i \in DOMAIN rows : Linked(rows, i)

(* A stale view is never in the context, and a view that is not stale rests   *)
(* on rows that still hold and on views that are not stale themselves, all    *)
(* the way down - but for rows it was never told about.                       *)
ViewsHold ==
    \A v \in Live \cap Views(rows) :
        /\ rows[v].stale => ~rows[v].shown
        /\ ~rows[v].stale =>
              \A m \in rows[v].members \ unseen : m \in Live /\ ~rows[m].stale

(* What the caller has of a row: the row itself, or a row it is hidden behind *)
(* that is in the context in the same sense.                                  *)
Behind(i) ==
    {p \in {rows[i].parent, rows[i].dup} \cap Live :
        p = rows[i].dup \/ (~rows[p].stale /\ i \in rows[p].members)}
Hidden == {i \in Live : ~rows[i].shown}
Carried ==
    LET hidden == Hidden
        behind == [i \in hidden |-> Behind(i)]
        held == {i \in hidden : behind[i] # {}}
        Closed(S) == \A i \in held : behind[i] \ (hidden \ S) # {} => i \in S
    IN  {i \in Live : i \in hidden => i \in held /\ \A S \in SUBSET held : Closed(S) => i \in S}

(* Whatever else changes, a row in that context stays in it as long as it     *)
(* holds.                                                                     *)
Passes == late' # late
ViewDies == \E v \in Live \cap Views(rows) : ~rows[v].stale /\ v \notin Live'
Buries == \E i \in Live \cap Live' : /\ rows[i].shown /\ ~rows'[i].shown
                                     /\ ~{rows'[i].parent, rows'[i].dup} \subseteq Live' \cup {None}
ContextIsKept ==
    [][ ~Passes /\ ~ViewDies /\ ~Buries =>
          {i \in Carried \cap Live' : ~rows'[i].stale} \subseteq Carried' ]_vars

(* No row is lost: one that holds and is no stale view is in that context,    *)
(* unless some row that has run out still waits for pruning.                  *)
Lost == {i \in Live : ~rows[i].stale} \ Carried
NobodyIsLost ==
    unseen = {} /\ Lost # {} => \E i \in DOMAIN rows : rows[i].status = "active" /\ i \notin Live
=============================================================================
