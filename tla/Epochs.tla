------------------------------- MODULE Epochs -------------------------------
(* The epochs of one scope: branch, recompute, adopt and roll back, beside    *)
(* the live formation that keeps writing to HEAD.                             *)
(*                                                                            *)
(* A row is named by its position, which is creation order.  Only what an     *)
(* adoption compares is kept of it: the truth key, the fact, the episodes     *)
(* behind it (evidence, and so the confidence), its status and the epoch it   *)
(* was written under.  Of a shadow store only the current rows are kept, one  *)
(* per truth key, because nothing else of it is ever read by an adoption.     *)
EXTENDS Naturals, Sequences, FiniteSets, FiniteSetsExt

CONSTANTS Episodes,    \* the scope's stored episodes
          Groups,      \* the episodes of each instruction set
          Tiers,       \* "A" governs again, "B" also resolves, "C" also extracts
          Claims,      \* what may be claimed: a truth key and a fact about it
          Operators,   \* processes that branch, adopt and roll back
          Misuse,      \* what operators may do against the documented cycle
          OneProcess,  \* one process: nothing happens during a call that never awaits
          MaxEpochs, MaxRows, MaxRetires   \* bounds

ASSUME EpochsAssumption ==
    /\ UNION Groups = Episodes /\ Tiers \subseteq {"A", "B", "C"}
    /\ Misuse \subseteq {"drift", "overlap", "unfinished"} /\ OneProcess \in BOOLEAN
    /\ MaxEpochs \in Nat \ {0} /\ {MaxRows, MaxRetires} \subseteq Nat

VARIABLES rows,      \* every relationship version the live store holds
          epochs,    \* graph_epochs, by creation order; the first is the root
          head,      \* active_epochs
          formed,    \* episodes live formation has processed
          ops,       \* what each operator's process is doing
          heads      \* history: the epochs that have been HEAD

vars == <<rows, epochs, head, formed, ops, heads>>

Keys == {c.key : c \in Claims}
Facts == {c.fact : c \in Claims}
Version == [key : Keys, fact : Facts, eps : SUBSET Episodes, epoch : 1..MaxEpochs]
Row == [key : Keys, fact : Facts, eps : SUBSET Episodes, epoch : 1..MaxEpochs,
        status : {"active", "superseded", "archived"}]

Never == 0            \* no epoch: the parent of the root
NotAdopted == <<"none">>  \* pre_adopt_snapshot of an epoch never adopted

Idle == [pc |-> "idle", epoch |-> Never, todo |-> {}, dirty |-> FALSE,
         new |-> {}, old |-> {}]

Init ==
    /\ rows = <<>>
    /\ epochs = <<[parent |-> Never, line |-> {1}, status |-> "adopted",
                   tier |-> "A", chosen |-> {}, shadow |-> {}, base |-> {},
                   finals |-> {}, snapshot |-> NotAdopted, before |-> {}]>>
    /\ head = 1
    /\ formed = {}
    /\ ops = [o \in Operators |-> Idle]
    /\ heads = {1}

-----------------------------------------------------------------------------
(* Reading the live store. *)

Visible(i) == rows[i].epoch \in epochs[head].line    \* _epoch_visible
Active(k) == {i \in DOMAIN rows : rows[i].key = k /\ rows[i].status = "active"}
Current == {i \in DOMAIN rows : Visible(i) /\ rows[i].status = "active"}

(* A read by truth key keeps the last row of each key. *)
HeadRows == {i \in Current : \A j \in Current : rows[j].key = rows[i].key => j <= i}

AsVersion(row) == [key |-> row.key, fact |-> row.fact, eps |-> row.eps, epoch |-> row.epoch]
AsRow(v) == [key |-> v.key, fact |-> v.fact, eps |-> v.eps, epoch |-> v.epoch,
             status |-> "active"]
Says(row) == [key |-> row.key, fact |-> row.fact]

(* Opening a branch, adopting and rolling back never await: within one        *)
(* process nothing else runs between their steps.                             *)
Interleaves == OneProcess => \A o \in Operators : ops[o].pc \in {"idle", "recompute"}

-----------------------------------------------------------------------------
(* Live writers. *)

(* Formation looks the slot up among all active rows, visible or not: it      *)
(* reinforces the first that says the same, or supersedes them all.           *)
LiveForm(ep, said) ==
    /\ Interleaves /\ ep \notin formed
    /\ formed' = formed \cup {ep}
    /\ LET k == said.key
           same == {i \in Active(k) : Says(rows[i]) = said}
       IN  \/ /\ same # {}
              /\ rows' = [rows EXCEPT ![Min(same)].eps = @ \cup {ep}]
           \/ /\ same = {} /\ Len(rows) < MaxRows
              /\ rows' = Append([i \in DOMAIN rows |->
                                   IF i \in Active(k)
                                   THEN [rows[i] EXCEPT !.status = "superseded"]
                                   ELSE rows[i]],
                                [key |-> k, fact |-> said.fact, eps |-> {ep},
                                 epoch |-> head, status |-> "active"])
    /\ UNCHANGED <<epochs, head, ops, heads>>

(* An operator forgets a current fact, or pruning archives it. *)
LiveRetire(i) ==
    /\ Interleaves /\ i \in Current
    /\ Cardinality({j \in DOMAIN rows : rows[j].status = "archived"}) < MaxRetires
    /\ rows' = [rows EXCEPT ![i].status = "archived"]
    /\ UNCHANGED <<epochs, head, formed, ops, heads>>

-----------------------------------------------------------------------------
(* Branch and recompute, in a shadow store of its own. *)

Becomes(o, new) == ops' = [ops EXCEPT ![o] = new]

(* Mutants: the line forgets the epoch itself; it grows from the newest epoch *)
(* and not from HEAD.                                                         *)
OpenedOutOfLine(chosen, tier) ==
    [parent |-> head, line |-> epochs[head].line,
     status |-> "open", tier |-> tier, chosen |-> chosen,
     shadow |-> {}, base |-> {}, finals |-> {}, snapshot |-> NotAdopted, before |-> {}]
OpenedOnNewest(chosen, tier) ==
    [OpenedOutOfLine(chosen, tier) EXCEPT
        !.line = {Len(epochs) + 1} \cup epochs[Len(epochs)].line]

Opened(chosen, tier) ==
    [parent |-> head, line |-> {Len(epochs) + 1} \cup epochs[head].line,
     status |-> "open", tier |-> tier, chosen |-> chosen,
     shadow |-> {}, base |-> {}, finals |-> {}, snapshot |-> NotAdopted, before |-> {}]

BranchOpen(o, chosen, tier) ==
    /\ Interleaves /\ ops[o].pc = "idle" /\ chosen # {} /\ Len(epochs) < MaxEpochs
    /\ epochs' = Append(epochs, Opened(chosen, tier))
    /\ Becomes(o, [Idle EXCEPT !.pc = "seed", !.epoch = Len(epochs) + 1, !.todo = chosen])
    /\ UNCHANGED <<rows, head, formed, heads>>

(* Mutant: the baseline takes only what was written under HEAD's own epoch.   *)
BaselineOfOneEpoch(e) ==
    {i \in HeadRows : rows[i].epoch = head
        /\ (epochs[e].tier = "A" \/ rows[i].eps \cap epochs[e].chosen = {})}

(* The baseline: HEAD, without the rows a full recompute will produce again. *)
Baseline(e) ==
    LET excluded == IF epochs[e].tier = "A" THEN {} ELSE epochs[e].chosen
    IN  {i \in HeadRows : rows[i].eps \cap excluded = {}}

BranchSeed(o) ==
    /\ ops[o].pc = "seed"
    /\ LET e == ops[o].epoch
       IN  epochs' = [epochs EXCEPT ![e].shadow = {AsVersion(rows[i]) : i \in Baseline(e)},
                                    ![e].base = {AsVersion(rows[i]) : i \in HeadRows}]
    /\ Becomes(o, [ops[o] EXCEPT !.pc = "recompute"])
    /\ UNCHANGED <<rows, head, formed, heads>>

(* The run an episode belongs to: one per instruction set when bodies are     *)
(* extracted again, one for the whole selection when candidates are governed. *)
RunOf(e, ep) ==
    IF epochs[e].tier = "C"
    THEN UNION {g \in Groups : ep \in g} \cap epochs[e].chosen
    ELSE epochs[e].chosen

Started(o) == epochs[ops[o].epoch].chosen \ ops[o].todo

(* Formation in the shadow: reinforce the version that says the same, or      *)
(* supersede what the key held.                                               *)
FormIn(shadow, said, ep, e) ==
    LET same == {c \in shadow : Says(c) = said}
    IN  IF same # {}
        THEN (shadow \ same) \cup {[c EXCEPT !.eps = @ \cup {ep}] : c \in same}
        ELSE {c \in shadow : c.key # said.key}
                \cup {[key |-> said.key, fact |-> said.fact, eps |-> {ep}, epoch |-> e]}

(* One episode, or its stored candidates, governed again: "found" says what   *)
(* passes, if anything does.  The end of a run that changed the shadow leaves *)
(* the state its receipts replay to.                                          *)
Recompute(o, ep, found) ==
    /\ Interleaves /\ ops[o].pc = "recompute" /\ ep \in ops[o].todo
    /\ LET e == ops[o].epoch
           run == RunOf(e, ep)
           open == {x \in ops[o].todo : RunOf(e, x) \cap Started(o) # {}}
           shadow == IF found = {} THEN epochs[e].shadow
                     ELSE UNION {FormIn(epochs[e].shadow, said, ep, e) : said \in found}
           dirty == ops[o].dirty \/ found # {}
           ends == run \cap ops[o].todo = {ep}
       IN  /\ open = {} \/ ep \in open
           /\ epochs' = [epochs EXCEPT
                  ![e].shadow = shadow,
                  ![e].finals = IF ends /\ dirty THEN @ \cup {shadow} ELSE @]
           /\ Becomes(o, [ops[o] EXCEPT !.todo = @ \ {ep}, !.dirty = dirty /\ ~ends])
    /\ UNCHANGED <<rows, head, formed, heads>>

BranchReady(o) ==
    /\ Interleaves /\ ops[o].pc = "recompute" /\ ops[o].todo = {}
    /\ epochs' = [epochs EXCEPT ![ops[o].epoch].status = "ready"]
    /\ Becomes(o, Idle)
    /\ UNCHANGED <<rows, head, formed, heads>>

(* The shadow of a branch that can no longer be adopted is never read again.  *)
Closed(epoch, status) ==
    [epoch EXCEPT !.status = status, !.chosen = {}, !.shadow = {}, !.base = {}, !.finals = {}]

BranchFail(o) ==
    /\ ops[o].pc \in {"seed", "recompute"}
    /\ epochs' = [epochs EXCEPT ![ops[o].epoch] = Closed(@, "discarded")]
    /\ Becomes(o, Idle)
    /\ UNCHANGED <<rows, head, formed, heads>>

-----------------------------------------------------------------------------
(* Adopt. *)

(* The cycle the documentation describes: a branch is adopted once it is      *)
(* recomputed, onto the HEAD it was branched from, while HEAD still says what *)
(* it said then.                                                              *)
Documented(e) ==
    /\ "unfinished" \in Misuse \/ epochs[e].status = "ready"
    /\ "overlap" \in Misuse \/ epochs[e].parent = head
    /\ "drift" \in Misuse \/ epochs[e].base = {AsVersion(rows[i]) : i \in HeadRows}

AdoptCheck(o, e) ==
    /\ Interleaves /\ ops[o].pc = "idle" /\ e \in DOMAIN epochs
    /\ epochs[e].status \in {"open", "ready"}
    /\ Documented(e)
    /\ Becomes(o, [Idle EXCEPT !.pc = "verify", !.epoch = e])
    /\ UNCHANGED <<rows, epochs, head, formed, heads>>

(* Byte replay: every recorded run must replay to the state the shadow has.   *)
Replays(e) == epochs[e].finals \subseteq {epochs[e].shadow}

AdoptRefuse(o) ==
    /\ ops[o].pc = "verify" /\ ~Replays(ops[o].epoch)
    /\ Becomes(o, Idle)
    /\ UNCHANGED <<rows, epochs, head, formed, heads>>

(* Mutant: a key both sides hold counts as unchanged.                         *)
UnchangedKey(c, row) == c.key = row.key

(* diff_epochs: per truth key, the fact and the confidence. *)
Unchanged(c, row) == Says(c) = Says(row) /\ Cardinality(c.eps) = Cardinality(row.eps)

AdoptDiff(o) ==
    /\ ops[o].pc = "verify" /\ Replays(ops[o].epoch)
    /\ LET shadow == epochs[ops[o].epoch].shadow
       IN  Becomes(o, [ops[o] EXCEPT
               !.pc = "merge",
               !.new = {c \in shadow : ~\E i \in HeadRows : Unchanged(c, rows[i])},
               !.old = {i \in HeadRows : ~\E c \in shadow : Unchanged(c, rows[i])}])
    /\ UNCHANGED <<rows, epochs, head, formed, heads>>

(* One transaction: copy, snapshot and retire, flip the pointer. *)
Retired(old) ==
    [i \in DOMAIN rows |->
       IF i \in old THEN [rows[i] EXCEPT !.status = "superseded"] ELSE rows[i]]

(* Mutant: the snapshot is taken after the rows are retired.                  *)
SnapshotTooLate(old) == [i \in old |-> "superseded"]
Snapshot(old) == [i \in old |-> rows[i].status]

Adopted(epoch) ==
    IF epoch.status = "ready" THEN Closed(epoch, "adopted")
    ELSE [epoch EXCEPT !.status = "adopted"]

(* Mutant: the parent keeps the status "adopted".                             *)
FlippedBesideParent(e, snapshot) ==
    [epochs EXCEPT ![e] = [Adopted(epochs[e]) EXCEPT !.snapshot = snapshot,
                                                     !.before = Current]]

Flipped(e, snapshot) ==
    [epochs EXCEPT ![epochs[e].parent].status = "superseded",
                   ![e] = [Adopted(epochs[e]) EXCEPT !.snapshot = snapshot,
                                                     !.before = Current]]

AdoptMerge(o) ==
    /\ ops[o].pc = "merge"
    /\ \E n \in 0..MaxRows :
          /\ n = Cardinality(ops[o].new) /\ Len(rows) + n <= MaxRows
          /\ \E order \in [1..n -> {AsRow(v) : v \in ops[o].new}] :
                /\ \A v \in ops[o].new : \E p \in 1..n : order[p] = AsRow(v)
                /\ rows' = Retired(ops[o].old) \o order
    /\ epochs' = Flipped(ops[o].epoch, Snapshot(ops[o].old))
    /\ head' = ops[o].epoch
    /\ heads' = heads \cup {ops[o].epoch}
    /\ Becomes(o, Idle)
    /\ UNCHANGED formed

-----------------------------------------------------------------------------
(* Roll back to the parent of HEAD. *)

RollbackRead(o) ==
    /\ Interleaves /\ ops[o].pc = "idle"
    /\ epochs[head].parent # Never /\ epochs[head].snapshot # NotAdopted
    /\ Becomes(o, [Idle EXCEPT !.pc = "restore", !.epoch = head,
                               !.old = epochs[head].snapshot])
    /\ UNCHANGED <<rows, epochs, head, formed, heads>>

RollbackWrite(o) ==
    /\ ops[o].pc = "restore"
    /\ LET e == ops[o].epoch
           snapshot == ops[o].old
       IN  /\ rows' = [i \in DOMAIN rows |->
                         IF i \in DOMAIN snapshot
                         THEN [rows[i] EXCEPT !.status = snapshot[i]] ELSE rows[i]]
           /\ epochs' = [epochs EXCEPT ![e].status = "discarded",
                                       ![epochs[e].parent].status = "adopted"]
           /\ head' = epochs[e].parent
    /\ Becomes(o, Idle)
    /\ UNCHANGED <<formed, heads>>

(* An operator's process dies: a branch stays open, nothing else is left.     *)
Crash(o) ==
    /\ ops[o].pc # "idle"
    /\ Becomes(o, Idle)
    /\ UNCHANGED <<rows, epochs, head, formed, heads>>

-----------------------------------------------------------------------------
Next ==
    \/ \E ep \in Episodes, said \in Claims : LiveForm(ep, said)
    \/ \E i \in DOMAIN rows : LiveRetire(i)
    \/ \E o \in Operators, chosen \in SUBSET Episodes, tier \in Tiers :
          BranchOpen(o, chosen, tier)
    \/ \E o \in Operators : BranchSeed(o)
    \/ \E o \in Operators, ep \in Episodes, found \in SUBSET Claims :
          Cardinality(found) <= 1 /\ Recompute(o, ep, found)
    \/ \E o \in Operators : BranchReady(o)
    \/ \E o \in Operators : BranchFail(o)
    \/ \E o \in Operators, e \in DOMAIN epochs : AdoptCheck(o, e)
    \/ \E o \in Operators : AdoptRefuse(o)
    \/ \E o \in Operators : AdoptDiff(o)
    \/ \E o \in Operators : AdoptMerge(o)
    \/ \E o \in Operators : RollbackRead(o)
    \/ \E o \in Operators : RollbackWrite(o)
    \/ \E o \in Operators : Crash(o)

Spec == Init /\ [][Next]_vars

-----------------------------------------------------------------------------
TypeOK ==
    /\ rows \in Seq(Row)
    /\ head \in DOMAIN epochs /\ heads \subseteq DOMAIN epochs
    /\ formed \subseteq Episodes
    /\ \A e \in DOMAIN epochs :
          /\ epochs[e].parent < e /\ e \in epochs[e].line
          /\ epochs[e].line \subseteq 1..e
          /\ epochs[e].status \in {"open", "ready", "adopted", "superseded", "discarded"}
          /\ epochs[e].shadow \subseteq Version
    /\ \A o \in Operators :
          /\ ops[o].pc \in {"idle", "seed", "recompute", "verify", "merge", "restore"}
          /\ ops[o].pc # "idle" => ops[o].epoch \in DOMAIN epochs

(* Current truth was written under epochs that were HEAD once: a branch never *)
(* adopted does not surface.                                                  *)
OnlyAdoptedIsRead ==
    /\ epochs[head].line \subseteq heads
    /\ \A i \in DOMAIN rows : rows[i].epoch \in heads

(* HEAD is the one adopted epoch, and every epoch it grew from is superseded. *)
OneHead ==
    /\ \A e \in DOMAIN epochs : epochs[e].status = "adopted" <=> e = head
    /\ \A e \in epochs[head].line \ {head} : epochs[e].status = "superseded"

OneRowPerKey == \A i, j \in Current : rows[i].key = rows[j].key => i = j
Adopts == head' # head /\ epochs[head'].parent = head
RollsBack == head' # head /\ epochs[head].parent = head'

(* After an adoption HEAD says what the branch says, key for key.             *)
AdoptInstallsTheBranch ==
    [][Adopts /\ OneRowPerKey =>
         {Says(rows'[i]) : i \in Current'} = {Says(c) : c \in epochs[head'].shadow}]_vars

(* An adoption takes a current fact away only if a selected episode supports  *)
(* it, or a selected episode supports what replaces it.                       *)
AdoptSparesTheRest ==
    [][Adopts => LET chosen == epochs[head'].chosen IN
         \A i \in Current : i \in Current'
             \/ rows[i].eps \cap chosen # {}
             \/ \E j \in Current' : rows'[j].key = rows[i].key
                                    /\ rows'[j].eps \cap chosen # {}]_vars

(* What HEAD said before the adoption and no live write has retired since.    *)
Kept(e) == {i \in epochs[e].before :
              i \in DOMAIN epochs[e].snapshot \/ rows[i].status = "active"}

(* Rolling back brings every such row back, and hides what was written under  *)
(* the epoch rolled back from.                                                *)
RollbackUndoes ==
    [][RollsBack => /\ Kept(head) \subseteq Current'
                    /\ \A i \in Current' : rows'[i].epoch # head]_vars

(* Rolling back restores HEAD exactly: those rows and no others.              *)
RollbackRestores == [][RollsBack => Current' = Kept(head)]_vars

(* A statement formed live is current truth afterwards.                       *)
FormedIsRead ==
    [][\A ep \in formed' \ formed : \E i \in Current' : ep \in rows'[i].eps]_vars
=============================================================================
