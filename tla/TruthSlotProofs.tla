-------------------------- MODULE TruthSlotProofs --------------------------
(* Theorems about TruthSlot, for any episodes, statements, policies and       *)
(* bounds.                                                                    *)
EXTENDS TruthSlot, FiniteSetTheorems, SequenceTheorems, TLAPS

-----------------------------------------------------------------------------
(* Choices among rows. *)

\* In a finite set, a strict order has an element that nothing is better than.
LEMMA BestExists ==
    ASSUME NEW S, IsFiniteSet(S), S # {}, NEW R,
           \A i \in S : ~R[i][i],
           \A i, j, k \in S : R[i][j] /\ R[j][k] => R[i][k]
    PROVE  \E i \in S : \A j \in S : ~R[j][i]
<1> DEFINE Above(i) == {j \in S : R[j][i]}
           T == {Above(i) : i \in S}
<1>1. T \subseteq SUBSET S /\ T # {}
  <2>1. \A i \in S : Above(i) \in SUBSET S /\ Above(i) \in T
      OBVIOUS
  <2> QED
      BY <2>1
<1>2. FiniteSubsetsOf(S) = SUBSET S
    BY FS_FiniteSubsetsOfFinite
<1>3. \E U \in T : \A V \in T : ~(<<V, U>> \in StrictSubsetOrdering(S))
  <2> HIDE DEF T
  <2> QED
      BY <1>1, <1>2, FS_StrictSubsetOrderingWellFounded, WFMin
<1>4. PICK i \in S : \A V \in T : ~(<<V, Above(i)>> \in StrictSubsetOrdering(S))
    BY <1>3
<1>5. ASSUME NEW j \in S, R[j][i] PROVE FALSE
  <2>1. Above(j) \subseteq Above(i)
      BY <1>5
  <2>2. j \in Above(i) /\ j \notin Above(j)
      BY <1>5
  <2>3. <<Above(j), Above(i)>> \in StrictSubsetOrdering(S)
      BY <2>1, <2>2 DEF StrictSubsetOrdering
  <2> QED
      BY <1>4, <2>3
<1> QED
    BY <1>5

LEMMA RowsAreNumbered ==
    ASSUME rows \in Seq(Row)
    PROVE  /\ DOMAIN rows = 1..Len(rows) /\ Len(rows) \in Nat /\ DOMAIN rows \subseteq Nat
           /\ \A i \in DOMAIN rows : rows[i] \in Row
           /\ \A S \in SUBSET DOMAIN rows : IsFiniteSet(S)
<1>1. DOMAIN rows = 1..Len(rows) /\ Len(rows) \in Nat
    BY LenProperties
<1>2. IsFiniteSet(1..Len(rows))
    BY <1>1, FS_Interval
<1>3. \A S \in SUBSET DOMAIN rows : IsFiniteSet(S)
    BY <1>1, <1>2, FS_Subset
<1> QED
    BY <1>1, <1>3, ElementOfSeq

LEMMA RowFields ==
    ASSUME rows \in Seq(Row), NEW i \in DOMAIN rows
    PROVE  /\ rows[i].from \in 0..MaxTime /\ rows[i].first \in 0..MaxTime
           /\ rows[i].rank \in Nat /\ rows[i].to \in 0..Forever
<1>1. rows[i] \in Row
    BY RowsAreNumbered
<1> QED
    BY <1>1 DEF Row

\* The nearest successor of a late statement exists.
LEMMA NearestExists ==
    ASSUME rows \in Seq(Row), NEW S \in SUBSET DOMAIN rows, S # {}
    PROVE  \E i \in S : \A j \in S : rows[i].from <= rows[j].from
<1> DEFINE R == [i \in S |-> [j \in S |-> rows[i].from < rows[j].from]]
<1>1. \A i \in S : rows[i].from \in Nat
    BY RowFields
<1>2. \A i, j \in S : R[i][j] <=> rows[i].from < rows[j].from
    OBVIOUS
<1>3. IsFiniteSet(S)
    BY RowsAreNumbered
<1> HIDE DEF R
<1>4. \A i \in S : ~R[i][i]
    BY <1>1, <1>2
<1>5. \A i, j, k \in S : R[i][j] /\ R[j][k] => R[i][k]
    BY <1>1, <1>2
<1>6. PICK i \in S : \A j \in S : ~R[j][i]
    BY <1>3, <1>4, <1>5, BestExists
<1>7. ASSUME NEW j \in S PROVE rows[i].from <= rows[j].from
    BY <1>1, <1>2, <1>6
<1> QED
    BY <1>7

\* Comparing by rank, then by start, is transitive.
LEMMA LexicographicOrder ==
    ASSUME NEW r1 \in Nat, NEW r2 \in Nat, NEW r3 \in Nat,
           NEW f1 \in Nat, NEW f2 \in Nat, NEW f3 \in Nat,
           r1 > r2 \/ (r1 = r2 /\ f1 > f2),
           r2 > r3 \/ (r2 = r3 /\ f2 > f3)
    PROVE  r1 > r3 \/ (r1 = r3 /\ f1 > f3)
OBVIOUS

\* The foremost of several incumbents exists.
LEMMA ForemostExists ==
    ASSUME rows \in Seq(Row), NEW S \in SUBSET DOMAIN rows, S # {}
    PROVE  Foremost(S) \in S
<1> DEFINE Better(i, j) == \/ rows[i].rank > rows[j].rank
                           \/ rows[i].rank = rows[j].rank /\ rows[i].from > rows[j].from
           R == [i \in S |-> [j \in S |-> Better(i, j)]]
<1>1. \A i \in S : rows[i].from \in Nat /\ rows[i].rank \in Nat
    BY RowFields
<1>2. \A i, j \in S : R[i][j] <=> Better(i, j)
    OBVIOUS
<1>3. IsFiniteSet(S)
    BY RowsAreNumbered
<1> HIDE DEF R
<1>4. \A i \in S : ~R[i][i]
    BY <1>1, <1>2
<1>5. ASSUME NEW i \in S, NEW j \in S, NEW k \in S, R[i][j], R[j][k]
      PROVE  R[i][k]
  <2>1. Better(i, j) /\ Better(j, k)
      BY <1>2, <1>5
  <2>2. /\ rows[i].rank \in Nat /\ rows[j].rank \in Nat /\ rows[k].rank \in Nat
        /\ rows[i].from \in Nat /\ rows[j].from \in Nat /\ rows[k].from \in Nat
      BY <1>1
  <2>3. Better(i, k)
      BY <2>1, <2>2, LexicographicOrder
  <2> QED
      BY <1>2, <2>3
<1>6. PICK i \in S : \A j \in S : ~R[j][i]
    BY <1>3, <1>4, <1>5, BestExists
<1>7. ASSUME NEW j \in S
      PROVE  \/ rows[i].rank > rows[j].rank
             \/ rows[i].rank = rows[j].rank /\ rows[i].from >= rows[j].from
  <2>1. ~Better(j, i)
      BY <1>2, <1>6
  <2> QED
      BY <1>1, <2>1
<1> QED
    BY <1>7 DEF Foremost

-----------------------------------------------------------------------------
(* Type correctness.  A restoration copies a row and sets its start to the    *)
(* end of another: both stay well formed only because what the pruning run    *)
(* and the rows remember refers to rows that exist and to ends within time.   *)

PredecessorsExist ==
    \A i \in DOMAIN rows : \A q \in rows[i].preds : q.row \in DOMAIN rows

PlanRefers ==
    /\ \A p \in pruner.plan \cup {pruner.held} : p.why = "expired" =>
          p.row \in DOMAIN rows /\ p.to <= MaxTime
    /\ pruner.back # {} => pruner.held.why = "expired"
    /\ \A q \in pruner.back : q.row \in DOMAIN rows

IInv == TypeOK /\ PredecessorsExist /\ PlanRefers

LEMMA Times ==
    /\ MaxTime \in Nat /\ Forever \in Nat /\ Forever > MaxTime
    /\ 0..MaxTime \subseteq 0..Forever
    /\ \A m \in Statements : /\ m.obj \in Objects /\ m.rank \in Nat /\ m.from \in 0..MaxTime
                             /\ m.ref \in 0..MaxTime /\ m.until \in 0..Forever
<1>1. MaxTime \in Nat /\ Forever \in Nat /\ Forever > MaxTime
    BY PolicyAssumption DEF Forever
<1>2. 0..MaxTime \subseteq 0..Forever
    BY <1>1
<1>3. ASSUME NEW m \in Statements
      PROVE  /\ m.obj \in Objects /\ m.rank \in Nat /\ m.from \in 0..MaxTime
             /\ m.ref \in 0..MaxTime /\ m.until \in 0..Forever
    BY <1>1, StatementAssumption DEF Objects
<1> QED
    BY <1>1, <1>2, <1>3

LEMMA Counting ==
    /\ MaxRepeats \in Nat /\ MaxFaults \in Nat /\ MaxForgets \in Nat
    /\ \A bound \in Nat : \A n \in 0..bound : n < bound => n + 1 \in 0..bound
BY PolicyAssumption

LEMMA LeastTyped ==
    ASSUME NEW n \in Nat, NEW x \in 0..n, NEW y \in Nat
    PROVE  Least(x, y) \in 0..n /\ Least(y, x) \in 0..n
BY DEF Least

LEMMA NewTyped ==
    ASSUME NEW e \in Episodes, NEW m \in Statements
    PROVE  New(e, m) \in Row /\ New(e, m).preds = {}
BY Times DEF New, Row

LEMMA SupersededTyped ==
    ASSUME NEW row \in Row, NEW by \in Nat, NEW to \in 0..Forever
    PROVE  Superseded(row, by, to) \in Row /\ Superseded(row, by, to).preds = row.preds
BY DEF Superseded, Row

\* What a step may do to the slot: rows stay in place and refer to rows.
Grown == rows' \in Seq(Row) /\ DOMAIN rows \subseteq DOMAIN rows' /\ PredecessorsExist'

LEMMA UpdateGrows ==
    ASSUME IInv, NEW i, NEW r, rows' = [rows EXCEPT ![i] = r],
           i \in DOMAIN rows => r \in Row /\ r.preds = rows[i].preds
    PROVE  /\ Grown /\ DOMAIN rows' = DOMAIN rows
           /\ \A j \in DOMAIN rows : rows'[j] = IF j = i THEN r ELSE rows[j]
<1>1. rows \in Seq(Row)
    BY DEF IInv, TypeOK
<1>2. CASE i \in DOMAIN rows
  <2>1. /\ rows' \in Seq(Row) /\ DOMAIN rows' = DOMAIN rows
        /\ \A j \in DOMAIN rows : rows'[j] = IF j = i THEN r ELSE rows[j]
      BY <1>1, <1>2, LenProperties, ExceptSeq
  <2> QED
      BY <1>2, <2>1 DEF Grown, IInv, PredecessorsExist
<1>3. CASE i \notin DOMAIN rows
  <2>1. rows' = rows
      BY <1>1, <1>3, LenProperties
  <2> QED
      BY <1>1, <1>3, <2>1 DEF Grown, IInv, PredecessorsExist
<1> QED
    BY <1>2, <1>3

LEMMA AppendGrows ==
    ASSUME IInv, NEW s \in Seq(Row), NEW r \in Row, rows' = Append(s, r),
           DOMAIN s = DOMAIN rows,
           \A i \in DOMAIN rows : s[i].preds = rows[i].preds,
           \A q \in r.preds : q.row \in DOMAIN rows
    PROVE  /\ Grown /\ DOMAIN rows' = DOMAIN rows \cup {Len(rows) + 1}
           /\ \A i \in DOMAIN rows : rows'[i] = s[i]
           /\ rows'[Len(rows) + 1] = r
<1>1. rows \in Seq(Row)
    BY DEF IInv, TypeOK
<1>2. /\ DOMAIN rows = 1..Len(rows) /\ Len(rows) \in Nat
      /\ DOMAIN s = 1..Len(s) /\ Len(s) \in Nat
    BY <1>1, LenProperties
<1>3. Len(s) = Len(rows)
    BY <1>2
<1>4. /\ rows' \in Seq(Row) /\ Len(rows') = Len(rows) + 1
      /\ \A i \in DOMAIN rows : rows'[i] = s[i]
      /\ rows'[Len(rows) + 1] = r
    BY <1>2, <1>3, AppendProperties
<1>5. DOMAIN rows' = DOMAIN rows \cup {Len(rows) + 1}
  <2>1. DOMAIN rows' = 1..(Len(rows) + 1)
      BY <1>4, LenProperties
  <2> QED
      BY <1>2, <2>1
<1>6. PredecessorsExist'
    BY <1>4, <1>5 DEF PredecessorsExist, IInv
<1> QED
    BY <1>4, <1>5, <1>6 DEF Grown

\* Which rows a statement meets, and what becomes of them.
LEMMA MetRows ==
    ASSUME TypeOK, NEW m \in Statements
    PROVE  /\ Restated(m) \subseteq Active /\ Contradictions(m) \subseteq Active
           /\ Active \subseteq DOMAIN rows /\ DOMAIN rows \subseteq Nat
           /\ Gating(m) \subseteq Contradictions(m) /\ Successors(m) \subseteq Contradictions(m)
           /\ Corroborating(m) \subseteq DOMAIN rows
BY RowsAreNumbered
DEF TypeOK, Restated, Contradictions, Active, Gating, Successors, Corroborating

LEMMA ReinforceGrows ==
    ASSUME IInv, NEW e \in Episodes, NEW m \in Statements, Reinforce(e, m)
    PROVE  /\ Grown /\ DOMAIN rows' = DOMAIN rows
           /\ \A i \in DOMAIN rows :
                 rows'[i] = IF i = Oldest(Restated(m)) THEN Reinforced(rows[i], e, m) ELSE rows[i]
<1> DEFINE i == Oldest(Restated(m))
           r == Reinforced(rows[i], e, m)
<1>1. rows' = [rows EXCEPT ![i] = r]
    BY DEF Reinforce
<1>2. ASSUME i \in DOMAIN rows PROVE r \in Row /\ r.preds = rows[i].preds
  <2> HIDE DEF i
  <2>1. rows[i] \in Row /\ rows[i].first \in 0..MaxTime
      BY <1>2, RowsAreNumbered, RowFields DEF IInv, TypeOK
  <2>2. m.from \in Nat /\ MaxTime \in Nat
      BY Times
  <2>3. Least(rows[i].first, m.from) \in 0..MaxTime
      BY <2>1, <2>2, LeastTyped
  <2>4. rows[i].count + 1 \in Nat /\ rows[i].seen \cup {e} \in SUBSET Episodes
      BY <2>1 DEF Row
  <2>5. r = [rows[i] EXCEPT !.count = rows[i].count + 1, !.seen = rows[i].seen \cup {e},
                            !.first = Least(rows[i].first, m.from),
                            !.from = Least(rows[i].first, m.from)]
      BY DEF Reinforced
  <2> QED
      BY <2>1, <2>3, <2>4, <2>5, ZenonT(40) DEF Row
<1> HIDE DEF r, i
<1>3. /\ Grown /\ DOMAIN rows' = DOMAIN rows
      /\ \A j \in DOMAIN rows : rows'[j] = IF j = i THEN r ELSE rows[j]
    BY <1>1, <1>2, UpdateGrows
<1> QED
    BY <1>3 DEF r, i

LEMMA FileGrows ==
    ASSUME IInv, NEW e \in Episodes, NEW m \in Statements, FileAsHistory(e, m)
    PROVE  /\ Grown /\ DOMAIN rows' = DOMAIN rows \cup {Len(rows) + 1}
           /\ \A i \in DOMAIN rows : rows'[i] = rows[i]
           /\ rows'[Len(rows) + 1].status = "SUPERSEDED" /\ rows'[Len(rows) + 1].preds = {}
           /\ rows'[Len(rows) + 1].gate = "none" /\ rows'[Len(rows) + 1].review = "none"
           /\ rows'[Len(rows) + 1].seen = {e} /\ rows'[Len(rows) + 1].by \in DOMAIN rows
<1> DEFINE s == CHOOSE i \in Successors(m) :
                    \A j \in Successors(m) : rows[i].from <= rows[j].from
           r == Superseded(New(e, m), s, Least(m.until, rows[s].from))
<1>1. rows' = Append(rows, r) /\ Successors(m) # {}
    BY DEF FileAsHistory
<1>2. rows \in Seq(Row) /\ Successors(m) \in SUBSET DOMAIN rows
    BY MetRows DEF IInv, TypeOK
<1>3. s \in Successors(m)
    BY <1>1, <1>2, NearestExists
<1>4. s \in Nat /\ rows[s].from \in 0..MaxTime
    BY <1>2, <1>3, RowFields, RowsAreNumbered
<1>5. Least(m.until, rows[s].from) \in 0..Forever
    BY <1>4, Times, LeastTyped
<1>6. /\ r \in Row /\ r.preds = {} /\ r.status = "SUPERSEDED"
      /\ r.gate = "none" /\ r.review = "none" /\ r.seen = {e} /\ r.by = s
    BY <1>4, <1>5, NewTyped, SupersededTyped DEF Superseded, New
<1>7. s \in DOMAIN rows
    BY <1>2, <1>3
<1> HIDE DEF r, s
<1> QED
    BY <1>1, <1>2, <1>6, <1>7, AppendGrows

LEMMA ParkGrows ==
    ASSUME IInv, NEW e \in Episodes, NEW m \in Statements, Park(e, m)
    PROVE  /\ Grown /\ DOMAIN rows' = DOMAIN rows \cup {Len(rows) + 1}
           /\ \A i \in DOMAIN rows : rows'[i] = rows[i]
           /\ rows'[Len(rows) + 1].status = "SUPERSEDED" /\ rows'[Len(rows) + 1].preds = {}
           /\ rows'[Len(rows) + 1].review = "none" /\ rows'[Len(rows) + 1].seen = {e}
           /\ rows'[Len(rows) + 1].by \in DOMAIN rows
<1> DEFINE i == Foremost(Gating(m))
           r == [Superseded(New(e, m), i, m.from) EXCEPT !.gate = GateReason(i, m)]
<1>1. rows' = Append(rows, r) /\ Gating(m) # {}
    BY DEF Park
<1>2. rows \in Seq(Row) /\ Gating(m) \in SUBSET DOMAIN rows
    BY MetRows DEF IInv, TypeOK
<1>3. i \in Nat /\ i \in DOMAIN rows
    BY <1>1, <1>2, ForemostExists, RowsAreNumbered
<1>4. /\ Superseded(New(e, m), i, m.from) \in Row
      /\ Superseded(New(e, m), i, m.from).preds = {}
      /\ Superseded(New(e, m), i, m.from).status = "SUPERSEDED"
      /\ Superseded(New(e, m), i, m.from).review = "none"
      /\ Superseded(New(e, m), i, m.from).seen = {e}
      /\ Superseded(New(e, m), i, m.from).by = i
    BY <1>3, Times, NewTyped, SupersededTyped DEF Superseded, New
<1>5. GateReason(i, m) \in {"none", "authority", "temporary", "corroboration"}
    BY DEF GateReason
<1>6. /\ r \in Row /\ r.preds = {} /\ r.status = "SUPERSEDED" /\ r.review = "none"
      /\ r.seen = {e} /\ r.by = i
  <2> HIDE DEF i
  <2> QED
      BY <1>4, <1>5 DEF Row
<1> HIDE DEF r, i
<1> QED
    BY <1>1, <1>2, <1>3, <1>6, AppendGrows

\* A taken slot: what the newcomer supersedes, and what it settles.
Yields(i, m) ==
    Superseded(rows[i], Len(rows) + 1, IF Bypassed(i, m) THEN Effective(m) ELSE m.from)

LEMMA NewcomerTyped ==
    ASSUME IInv, NEW e \in Episodes, NEW m \in Statements
    PROVE  LET r == [New(e, m) EXCEPT !.preds = Predecessors(m)]
           IN r \in Row /\ \A q \in r.preds : q.row \in DOMAIN rows
<1>1. ASSUME NEW i \in Contradictions(m)
      PROVE  i \in Nat /\ i \in DOMAIN rows /\ rows[i].to \in 0..Forever
    BY MetRows, RowsAreNumbered, RowFields DEF IInv, TypeOK
<1>2. Predecessors(m) \in SUBSET [row : Nat, to : 0..Forever]
    BY <1>1 DEF Predecessors
<1>3. \A q \in Predecessors(m) : q.row \in DOMAIN rows
    BY <1>1 DEF Predecessors
<1> QED
    BY <1>2, <1>3, NewTyped DEF Row

LEMMA TakeGrows ==
    ASSUME IInv, NEW e \in Episodes, NEW m \in Statements, Take(e, m)
    PROVE  /\ Grown /\ DOMAIN rows' = DOMAIN rows \cup {Len(rows) + 1}
           /\ Restated(m) = {} /\ Successors(m) = {} /\ Gating(m) = {}
           /\ \A i \in Contradictions(m) : rows'[i] = Yields(i, m)
           /\ \A i \in DOMAIN rows \ Contradictions(m) :
                 \/ rows'[i] = rows[i]
                 \/ /\ rows'[i] = [rows[i] EXCEPT !.by = Len(rows) + 1, !.review = "corroborated"]
                    /\ i \in Corroborating(m)
           /\ \/ \A i \in DOMAIN rows \ Contradictions(m) : rows'[i] = rows[i]
              \/ /\ Votes(m) >= Required
                 /\ \A i \in Corroborating(m) \ Contradictions(m) :
                       rows'[i] = [rows[i] EXCEPT !.by = Len(rows) + 1, !.review = "corroborated"]
           /\ rows'[Len(rows) + 1] = [New(e, m) EXCEPT !.preds = Predecessors(m)]
<1> DEFINE new == Len(rows) + 1
           losers == Contradictions(m)
           settled == IF (\E i \in losers : Weighty(i, m)) /\ Votes(m) >= Required
                      THEN Corroborating(m) ELSE {}
           settle(i) == [rows[i] EXCEPT !.by = new, !.review = "corroborated"]
           after(i) == IF i \in losers THEN Yields(i, m)
                       ELSE IF i \in settled THEN settle(i) ELSE rows[i]
           s == [i \in DOMAIN rows |-> after(i)]
           r == [New(e, m) EXCEPT !.preds = Predecessors(m)]
<1>1. rows' = Append(s, r)
    BY DEF Take, Yields
<1>2. rows \in Seq(Row) /\ DOMAIN rows = 1..Len(rows) /\ Len(rows) \in Nat
    BY RowsAreNumbered DEF IInv, TypeOK
<1>3. losers \subseteq DOMAIN rows
    BY MetRows DEF IInv
<1>4. ASSUME NEW i \in DOMAIN rows PROVE after(i) \in Row /\ after(i).preds = rows[i].preds
  <2>1. rows[i] \in Row /\ new \in Nat
      BY <1>2, RowsAreNumbered
  <2>2. m.from \in 0..Forever /\ Effective(m) \in 0..Forever
    <3>1. m.from \in 0..MaxTime /\ m.ref \in Nat /\ MaxTime \in Nat
        BY Times
    <3>2. Effective(m) \in 0..MaxTime
        BY <3>1, LeastTyped DEF Effective
    <3> QED
        BY <3>1, <3>2, Times
  <2>3. Yields(i, m) \in Row /\ Yields(i, m).preds = rows[i].preds
      BY <2>1, <2>2, SupersededTyped DEF Yields
  <2>4. settle(i) \in Row /\ settle(i).preds = rows[i].preds
      BY <2>1 DEF Row
  <2> HIDE DEF settle, losers, settled
  <2> QED
      BY <2>1, <2>3, <2>4
<1> HIDE DEF after
<1>5. s \in Seq(Row) /\ DOMAIN s = DOMAIN rows /\ \A i \in DOMAIN rows : s[i] = after(i)
  <2>1. s \in [1..Len(rows) -> Row]
      BY <1>2, <1>4
  <2> QED
      BY <1>2, <2>1, SeqDef
<1>6. r \in Row /\ \A q \in r.preds : q.row \in DOMAIN rows
    BY NewcomerTyped
<1>7. /\ Grown /\ DOMAIN rows' = DOMAIN rows \cup {new}
      /\ \A i \in DOMAIN rows : rows'[i] = after(i)
      /\ rows'[new] = r
  <2>1. \A i \in DOMAIN rows : s[i].preds = rows[i].preds
      BY <1>4, <1>5
  <2> HIDE DEF s, r
  <2> QED
      BY <1>1, <1>4, <1>5, <1>6, <2>1, AppendGrows
<1>8. Restated(m) = {} /\ Successors(m) = {} /\ Gating(m) = {}
    BY DEF Take
<1>9. settled = {} \/ (Votes(m) >= Required /\ settled = Corroborating(m))
    OBVIOUS
<1>10. Corroborating(m) \subseteq DOMAIN rows
    BY MetRows DEF IInv
<1> HIDE DEF settled, r
<1> QED
    BY <1>3, <1>7, <1>8, <1>9, <1>10 DEF after, r

-----------------------------------------------------------------------------
(* Every step. *)

\* One formed statement, by the path it takes.
LEMMA FormGrows ==
    ASSUME IInv, Form
    PROVE  /\ Grown /\ UNCHANGED <<now, approval, pruner, faults, forgets>>
           /\ said' \in [Episodes -> Statements \cup {Unsaid}] /\ repeats' \in 0..MaxRepeats
<1>1. PICK e \in Episodes, m \in Statements : Materialize(e, m)
    BY DEF Form
<1>2. Grown
    BY <1>1, ReinforceGrows, FileGrows, ParkGrows, TakeGrows DEF Materialize
<1>3. said' \in [Episodes -> Statements \cup {Unsaid}]
    BY <1>1 DEF Materialize, IInv, TypeOK
<1>4. repeats' \in 0..MaxRepeats
  <2>1. \/ repeats' = repeats
        \/ repeats < MaxRepeats /\ repeats' = repeats + 1
      BY <1>1 DEF Materialize
  <2>2. repeats \in 0..MaxRepeats
      BY DEF IInv, TypeOK
  <2> QED
      BY <2>1, <2>2, Counting
<1> QED
    BY <1>1, <1>2, <1>3, <1>4 DEF Materialize

\* A step of formation, of the operator or of a revival leaves the pruning run
\* alone: it goes on to refer to rows.
LEMMA PruningUndisturbed ==
    ASSUME IInv, Grown, UNCHANGED pruner,
           now' \in 0..MaxTime, said' \in [Episodes -> Statements \cup {Unsaid}],
           approval' \in [row : Nat, todo : SUBSET Nat],
           repeats' \in 0..MaxRepeats, faults' \in 0..MaxFaults, forgets' \in 0..MaxForgets
    PROVE  IInv'
<1>1. TypeOK'
    BY DEF IInv, TypeOK, Grown
<1>2. PlanRefers'
    BY DEF IInv, PlanRefers, Grown
<1> QED
    BY <1>1, <1>2 DEF IInv, Grown

LEMMA OperatorRows ==
    ASSUME IInv, NEW i \in DOMAIN rows
    PROVE  /\ \A by \in Nat : Superseded(rows[i], by, now) \in Row
                              /\ Superseded(rows[i], by, now).preds = rows[i].preds
           /\ Activated(rows[i]) \in Row /\ Activated(rows[i]).preds = rows[i].preds
           /\ Retired(rows[i]) \in Row /\ Retired(rows[i]).preds = rows[i].preds
           /\ Revived(rows[i]) \in Row /\ Revived(rows[i]).preds = rows[i].preds
<1> DEFINE row == rows[i]
<1>1. row \in Row /\ row.to \in 0..Forever /\ now \in 0..MaxTime
    BY RowsAreNumbered, RowFields DEF IInv, TypeOK
<1>2. now \in 0..Forever /\ now \in Nat /\ Forever \in 0..Forever /\ Forever \in Nat
    BY <1>1, Times
<1>3. Least(row.to, now) \in 0..Forever
    BY <1>1, <1>2, LeastTyped
<1> HIDE DEF row
<1>4. \A by \in Nat : Superseded(row, by, now) \in Row /\ Superseded(row, by, now).preds = row.preds
    BY <1>1, <1>2, SupersededTyped
<1>5. Activated(row) \in Row /\ Activated(row).preds = row.preds
    BY <1>1, <1>2 DEF Activated, Row
<1>6. Retired(row) \in Row /\ Retired(row).preds = row.preds
  <2>1. PICK t \in 0..Forever :
            Retired(row) = [row EXCEPT !.status = "PRUNED", !.forgotten = TRUE, !.to = t]
      BY <1>1, <1>3 DEF Retired
  <2> QED
      BY <1>1, <2>1 DEF Row
<1>7. Revived(row) \in Row /\ Revived(row).preds = row.preds
    BY <1>1, <1>2 DEF Revived, Row
<1> QED
    BY <1>4, <1>5, <1>6, <1>7 DEF row

LEMMA OperatorKeeps ==
    ASSUME IInv, Approve \/ Operate \/ (\E i \in DOMAIN rows : Retrieve(i))
    PROVE  IInv'
<1>0. TypeOK
    BY DEF IInv
<1>1. CASE ApproveSupersede
  <2> DEFINE i == Oldest(approval.todo)
             r == Superseded(rows[i], approval.row, now)
  <2>1. rows' = [rows EXCEPT ![i] = r] /\ approval' = [approval EXCEPT !.todo = @ \ {i}]
      BY <1>1 DEF ApproveSupersede
  <2>2. i \in DOMAIN rows => r \in Row /\ r.preds = rows[i].preds
      BY <1>0, OperatorRows DEF TypeOK
  <2>3. approval' \in [row : Nat, todo : SUBSET Nat]
      BY <1>0, <2>1 DEF TypeOK
  <2> HIDE DEF i, r
  <2>4. Grown
      BY <2>1, <2>2, UpdateGrows
  <2> QED
      BY <1>0, <1>1, <2>3, <2>4, PruningUndisturbed DEF ApproveSupersede, TypeOK
<1>2. CASE ApproveFinish
  <2> DEFINE i == approval.row
             r == Activated(rows[i])
  <2>1. rows' = [rows EXCEPT ![i] = r] /\ approval' = NoReview
      BY <1>2 DEF ApproveFinish
  <2>2. i \in DOMAIN rows => r \in Row /\ r.preds = rows[i].preds
      BY OperatorRows
  <2>3. approval' \in [row : Nat, todo : SUBSET Nat]
      BY <2>1 DEF NoReview
  <2> HIDE DEF i, r
  <2>4. Grown
      BY <2>1, <2>2, UpdateGrows
  <2> QED
      BY <1>0, <1>2, <2>3, <2>4, PruningUndisturbed DEF ApproveFinish, TypeOK
<1>3. ASSUME NEW i \in DOMAIN rows, RejectReview(i) PROVE IInv'
  <2> DEFINE r == [rows[i] EXCEPT !.review = "rejected"]
  <2>1. rows' = [rows EXCEPT ![i] = r]
      BY <1>3 DEF RejectReview
  <2>2. r \in Row /\ r.preds = rows[i].preds
    <3>1. rows[i] \in Row
        BY <1>0, RowsAreNumbered DEF TypeOK
    <3> QED
        BY <3>1 DEF Row
  <2> HIDE DEF r
  <2>3. Grown
      BY <2>1, <2>2, UpdateGrows
  <2> QED
      BY <1>0, <1>3, <2>3, PruningUndisturbed DEF RejectReview, TypeOK
<1>4. ASSUME NEW i \in DOMAIN rows, ApproveStart(i) PROVE IInv'
  <2>1. approval' \in [row : Nat, todo : SUBSET Nat]
      BY <1>0, <1>4, RowsAreNumbered DEF ApproveStart, Active, TypeOK
  <2>2. Grown
      BY <1>4 DEF ApproveStart, IInv, TypeOK, Grown, PredecessorsExist
  <2> QED
      BY <1>0, <1>4, <2>1, <2>2, PruningUndisturbed DEF ApproveStart, TypeOK
<1>5. ASSUME NEW i \in DOMAIN rows, Forget(i) PROVE IInv'
  <2>1. rows' = [rows EXCEPT ![i] = Retired(rows[i])]
      BY <1>5 DEF Forget
  <2>2. Grown
      BY <2>1, OperatorRows, UpdateGrows
  <2>3. forgets' \in 0..MaxForgets
    <3>1. forgets < MaxForgets /\ forgets' = forgets + 1
        BY <1>5 DEF Forget
    <3>2. forgets \in 0..MaxForgets
        BY <1>0 DEF TypeOK
    <3> QED
        BY <3>1, <3>2, Counting
  <2> QED
      BY <1>0, <1>5, <2>2, <2>3, PruningUndisturbed DEF Forget, TypeOK
<1>6. ASSUME NEW i \in DOMAIN rows, Curate(i) PROVE IInv'
  <2> DEFINE r == [Revived(rows[i]) EXCEPT !.forgotten = FALSE]
  <2>1. rows' = [rows EXCEPT ![i] = r]
      BY <1>6 DEF Curate
  <2>2. r \in Row /\ r.preds = rows[i].preds
    <3>1. Revived(rows[i]) \in Row /\ Revived(rows[i]).preds = rows[i].preds
        BY OperatorRows
    <3> QED
        BY <3>1 DEF Row
  <2> HIDE DEF r
  <2>3. Grown
      BY <2>1, <2>2, UpdateGrows
  <2> QED
      BY <1>0, <1>6, <2>3, PruningUndisturbed DEF Curate, TypeOK
<1>7. ASSUME NEW i \in DOMAIN rows, Retrieve(i) PROVE IInv'
  <2>1. rows' = [rows EXCEPT ![i] = Revived(rows[i])]
      BY <1>7 DEF Retrieve
  <2>2. Grown
      BY <2>1, OperatorRows, UpdateGrows
  <2> QED
      BY <1>0, <1>7, <2>2, PruningUndisturbed DEF Retrieve, TypeOK
<1> QED
    BY <1>1, <1>2, <1>3, <1>4, <1>5, <1>6, <1>7 DEF Approve, Operate

LEMMA Idle == Nothing \in Task /\ 0 \in 0..MaxTime /\ 0 \in 0..Forever /\ 0 \in Nat
<1>1. 0 \in 0..MaxTime /\ 0 \in 0..Forever /\ 0 \in Nat
    BY Times
<1> QED
    BY <1>1 DEF Nothing, Task

LEMMA RowsOf ==
    ASSUME IInv
    PROVE  /\ rows \in Seq(Row) /\ DOMAIN rows \subseteq Nat /\ Active \subseteq DOMAIN rows
           /\ \A i \in DOMAIN rows : rows[i] \in Row /\ rows[i].to \in 0..Forever
                                     /\ rows[i].from \in 0..MaxTime /\ rows[i].from \in 0..Forever
           /\ pruner.at \in 0..MaxTime /\ now \in 0..MaxTime
           /\ 0..MaxTime \subseteq 0..Forever
BY RowsAreNumbered, RowFields, Times DEF IInv, TypeOK, Active

PrunerType ==
    [stage : {"idle", "repair", "sweep"}, at : 0..MaxTime,
     losers : SUBSET Nat, winner : Nat, to : 0..Forever,
     plan : SUBSET Task, held : Task, back : SUBSET [row : Nat, to : 0..Forever]]

\* A step of the pruning run that rewrites no row.
LEMMA PlanningKeeps ==
    ASSUME IInv, UNCHANGED <<now, said, rows, repeats, forgets>>,
           approval' \in [row : Nat, todo : SUBSET Nat],
           faults' \in 0..MaxFaults, pruner' \in PrunerType, PlanRefers'
    PROVE  IInv'
BY DEF IInv, TypeOK, PredecessorsExist, PrunerType

LEMMA TasksTyped ==
    ASSUME IInv, NEW why \in {"expired", "aged", "retired"}
    PROVE  /\ Tasks(why, pruner.at) \subseteq Task
           /\ \A p \in Tasks(why, pruner.at) : p.why = why /\ p.row \in DOMAIN rows
           /\ \A p \in Tasks("expired", pruner.at) : p.to <= MaxTime
<1>1. ASSUME NEW p \in Tasks(why, pruner.at)
      PROVE  p \in Task /\ p.why = why /\ p.row \in DOMAIN rows
    BY RowsOf DEF Tasks, Task
<1>2. ASSUME NEW p \in Tasks("expired", pruner.at) PROVE p.to <= MaxTime
  <2>1. PICK i \in DOMAIN rows : Due("expired", i, pruner.at) /\ p.to = rows[i].to
      BY DEF Tasks
  <2>2. rows[i].to <= pruner.at
      BY <2>1 DEF Due
  <2> QED
      BY <2>1, <2>2, RowsOf, Times
<1> QED
    BY <1>1, <1>2

LEMMA RestorableTyped ==
    ASSUME IInv, NEW p \in pruner.plan
    PROVE  /\ Restorable(p) \in SUBSET [row : Nat, to : 0..Forever]
           /\ Restorable(p) # {} => p.why = "expired"
           /\ \A q \in Restorable(p) : q.row \in DOMAIN rows
<1>1. CASE p.why = "expired"
  <2>1. p.row \in DOMAIN rows
      BY <1>1 DEF IInv, PlanRefers
  <2>2. rows[p.row].preds \in SUBSET [row : Nat, to : 0..Forever]
      BY <2>1, RowsOf DEF Row
  <2>3. \A q \in rows[p.row].preds : q.row \in DOMAIN rows
      BY <2>1 DEF IInv, PredecessorsExist
  <2>4. Restorable(p) \subseteq rows[p.row].preds
      BY DEF Restorable
  <2> QED
      BY <1>1, <2>2, <2>3, <2>4
<1>2. CASE p.why # "expired"
    BY <1>2 DEF Restorable
<1> QED
    BY <1>1, <1>2

LEMMA FaultCounted ==
    ASSUME TypeOK, Fault
    PROVE  faults' \in 0..MaxFaults
<1>1. faults \in 0..MaxFaults /\ faults < MaxFaults /\ faults' = faults + 1
    BY DEF TypeOK, Fault
<1> QED
    BY <1>1, Counting

LEMMA PlanningSteps ==
    ASSUME IInv, PruneStart \/ SweepStart \/ SweepTake \/ PruneEnd \/ Refuse \/ Crash
    PROVE  IInv'
<1>0. TypeOK /\ PlanRefers /\ pruner \in PrunerType
    BY DEF IInv, TypeOK, PrunerType
<1>1. Resting \in PrunerType /\ NoReview \in [row : Nat, todo : SUBSET Nat]
    BY Idle DEF Resting, PrunerType, NoReview
<1>2. CASE PruneStart
  <2> DEFINE Planned(p) ==
        /\ p \in PrunerType /\ p.plan = {} /\ p.held = Nothing /\ p.back = {}
  <2>1. now \in 0..MaxTime /\ Current(now) \subseteq DOMAIN rows
      BY RowsOf DEF Current
  <2>2. CASE pruner' = [Resting EXCEPT !.stage = "repair", !.at = now]
    <3>1. Planned(pruner')
        BY <1>1, <2>1, <2>2, Idle DEF Resting, PrunerType
    <3> QED
        BY <1>0, <1>2, <3>1, PlanningKeeps DEF PruneStart, PlanRefers, Nothing, TypeOK
  <2>3. ASSUME NEW w \in Current(now),
               pruner' = [Resting EXCEPT !.stage = "repair", !.at = now, !.winner = w,
                                         !.to = rows[w].from, !.losers = Current(now) \ {w}]
        PROVE  IInv'
    <3>1. w \in Nat /\ rows[w].from \in 0..Forever /\ Current(now) \ {w} \in SUBSET Nat
        BY <2>1, RowsOf
    <3>2. Planned(pruner')
        BY <1>1, <2>1, <2>3, <3>1, Idle DEF Resting, PrunerType
    <3> QED
        BY <1>0, <1>2, <3>2, PlanningKeeps DEF PruneStart, PlanRefers, Nothing, TypeOK
  <2> QED
      BY <1>2, <2>2, <2>3 DEF PruneStart
<1>3. CASE SweepStart
  <2>1. PICK plan : /\ plan \in SUBSET (Tasks("aged", pruner.at) \cup Tasks("expired", pruner.at)
                                        \cup Tasks("retired", pruner.at))
                    /\ pruner' = [Resting EXCEPT !.stage = "sweep", !.at = pruner.at, !.plan = plan]
      BY <1>3 DEF SweepStart
  <2>2. /\ plan \in SUBSET Task
        /\ \A p \in plan : p.why = "expired" => p.row \in DOMAIN rows /\ p.to <= MaxTime
      BY <2>1, TasksTyped
  <2>3. /\ pruner' \in PrunerType
        /\ pruner'.plan = plan /\ pruner'.held = Nothing /\ pruner'.back = {}
      BY <1>1, <2>1, <2>2, RowsOf DEF Resting, PrunerType
  <2>4. PlanRefers'
    <3>1. rows' = rows /\ Nothing.why # "expired"
        BY <1>3 DEF SweepStart, Nothing
    <3> QED
        BY <2>2, <2>3, <3>1 DEF PlanRefers
  <2> QED
      BY <1>0, <1>3, <2>3, <2>4, PlanningKeeps DEF SweepStart, TypeOK
<1>4. CASE SweepTake
  <2>1. PICK p \in pruner.plan :
            pruner' = [pruner EXCEPT !.held = p, !.plan = pruner.plan \ {p}, !.back = Restorable(p)]
      BY <1>4 DEF SweepTake
  <2>2. p \in Task /\ pruner.plan \ {p} \in SUBSET Task
      BY <1>0, <2>1 DEF PrunerType
  <2>3. /\ pruner' \in PrunerType
        /\ pruner'.plan = pruner.plan \ {p} /\ pruner'.held = p /\ pruner'.back = Restorable(p)
      BY <1>0, <2>1, <2>2, RestorableTyped DEF PrunerType
  <2>4. PlanRefers'
      BY <1>0, <1>4, <2>3, RestorableTyped DEF PlanRefers, SweepTake
  <2> QED
      BY <1>0, <1>4, <2>3, <2>4, PlanningKeeps DEF SweepTake, TypeOK
<1>5. CASE PruneEnd
  <2>1. PlanRefers'
      BY <1>5 DEF PruneEnd, PlanRefers, Resting, Nothing
  <2> QED
      BY <1>0, <1>1, <1>5, <2>1, PlanningKeeps DEF PruneEnd, TypeOK
<1>6. CASE Refuse
  <2>1. faults' \in 0..MaxFaults
      BY <1>0, <1>6, FaultCounted DEF Refuse
  <2>2. CASE pruner.back = {} /\ pruner' = [pruner EXCEPT !.held = Nothing]
    <3>1. pruner' \in PrunerType /\ PlanRefers'
        BY <1>0, <1>6, <2>2, Idle DEF PrunerType, PlanRefers, Nothing, Refuse
    <3> QED
        BY <1>0, <1>6, <2>1, <3>1, PlanningKeeps DEF Refuse, TypeOK
  <2>3. ASSUME NEW i, pruner' = [pruner EXCEPT !.losers = pruner.losers \ {i}] PROVE IInv'
    <3>1. pruner' \in PrunerType /\ PlanRefers'
        BY <1>0, <1>6, <2>3 DEF PrunerType, PlanRefers, Refuse
    <3> QED
        BY <1>0, <1>6, <2>1, <3>1, PlanningKeeps DEF Refuse, TypeOK
  <2> QED
      BY <1>6, <2>2, <2>3 DEF Refuse
<1>7. CASE Crash
  <2>1. faults' \in 0..MaxFaults
      BY <1>0, <1>7, FaultCounted DEF Crash
  <2>2. pruner' \in {pruner, Resting} /\ approval' \in {approval, NoReview}
      BY <1>7 DEF Crash
  <2>3. pruner' \in PrunerType /\ approval' \in [row : Nat, todo : SUBSET Nat]
      BY <1>0, <1>1, <2>2 DEF TypeOK
  <2>4. PlanRefers'
      BY <1>0, <1>7, <2>2 DEF Crash, PlanRefers, Resting, Nothing
  <2> QED
      BY <1>7, <2>1, <2>3, <2>4, PlanningKeeps DEF Crash
<1> QED
    BY <1>2, <1>3, <1>4, <1>5, <1>6, <1>7

LEMMA Repaired ==
    ASSUME IInv, NEW i \in DOMAIN rows, RepairOne(i)
    PROVE  IInv'
<1>0. TypeOK /\ PlanRefers
    BY DEF IInv
<1> DEFINE r == Superseded(rows[i], pruner.winner, pruner.to)
<1>1. rows' = [rows EXCEPT ![i] = r]
    BY DEF RepairOne
<1>2. r \in Row /\ r.preds = rows[i].preds
    BY <1>0, RowsOf, SupersededTyped DEF TypeOK
<1> HIDE DEF r
<1>3. rows' \in Seq(Row) /\ DOMAIN rows' = DOMAIN rows /\ PredecessorsExist'
    BY <1>1, <1>2, UpdateGrows DEF Grown
<1>4. pruner' = [pruner EXCEPT !.losers = pruner.losers \ {i}]
    BY DEF RepairOne
<1>5. TypeOK'
    BY <1>0, <1>3, <1>4 DEF RepairOne, TypeOK
<1>6. PlanRefers'
    BY <1>0, <1>3, <1>4 DEF PlanRefers, TypeOK
<1> QED
    BY <1>3, <1>5, <1>6 DEF IInv

LEMMA PrunedTyped ==
    ASSUME IInv, NEW i \in DOMAIN rows, NEW why
    PROVE  Pruned(rows[i], why) \in Row /\ Pruned(rows[i], why).preds = rows[i].preds
<1> DEFINE r == Pruned(rows[i], why)
<1>1. rows[i] \in Row /\ rows[i].to \in 0..Forever /\ pruner.at \in 0..Forever
      /\ rows[i].ghost \in {"none", "kept", "revived"}
    BY RowsOf DEF Row
<1>2. PICK t \in 0..Forever, g \in {"none", "kept", "revived"} :
          r = [rows[i] EXCEPT !.status = "PRUNED", !.to = t, !.ghost = g]
    BY <1>1 DEF Pruned
<1> HIDE DEF r
<1>3. r \in Row /\ r.preds = rows[i].preds
    BY <1>1, <1>2 DEF Row
<1> QED
    BY <1>3 DEF r

LEMMA Swept ==
    ASSUME IInv, SweepMark
    PROVE  IInv'
<1>0. TypeOK /\ PlanRefers
    BY DEF IInv
<1> DEFINE i == pruner.held.row
           r == Pruned(rows[i], pruner.held.why)
<1>1. rows' = [rows EXCEPT ![i] = r]
    BY DEF SweepMark
<1>2. i \in DOMAIN rows => r \in Row /\ r.preds = rows[i].preds
    BY PrunedTyped
<1>3. pruner' = [pruner EXCEPT !.held = Nothing] /\ pruner.back = {}
    BY DEF SweepMark
<1> HIDE DEF r, i
<1>4. rows' \in Seq(Row) /\ DOMAIN rows' = DOMAIN rows /\ PredecessorsExist'
    BY <1>1, <1>2, UpdateGrows DEF Grown
<1>5. TypeOK'
    BY <1>0, <1>3, <1>4, Idle DEF SweepMark, TypeOK
<1>6. PlanRefers'
  <2>1. /\ pruner'.plan = pruner.plan /\ pruner'.held = Nothing /\ pruner'.back = {}
      BY <1>0, <1>3 DEF TypeOK
  <2>2. Nothing.why # "expired"
      BY DEF Nothing
  <2> QED
      BY <1>0, <1>4, <2>1, <2>2 DEF PlanRefers
<1> QED
    BY <1>4, <1>5, <1>6 DEF IInv

\* A restored interval begins where the row before it ended: within time.
LEMMA RestoreGrows ==
    ASSUME IInv, NEW q \in pruner.back,
           rows' = Append([rows EXCEPT ![pruner.held.row] = [@ EXCEPT !.replaced = TRUE]],
                          Restored(pruner.held, q))
    PROVE  /\ Grown /\ DOMAIN rows' = DOMAIN rows \cup {Len(rows) + 1}
           /\ q.row \in DOMAIN rows
           /\ \A i \in DOMAIN rows :
                 rows'[i] \in {rows[i], [rows[i] EXCEPT !.replaced = TRUE]}
           /\ rows'[Len(rows) + 1] = Restored(pruner.held, q)
<1>0. TypeOK /\ PlanRefers
    BY DEF IInv
<1> DEFINE h == pruner.held.row
           marked == [rows[h] EXCEPT !.replaced = TRUE]
           s == [rows EXCEPT ![h] = marked]
<1>1. rows' = Append(s, Restored(pruner.held, q))
    OBVIOUS
<1>2. /\ h \in DOMAIN rows /\ q.row \in DOMAIN rows /\ pruner.held.to <= MaxTime
      /\ pruner.held \in Task /\ q \in [row : Nat, to : 0..Forever]
    BY <1>0, <1>1 DEF PlanRefers, TypeOK
<1>3. pruner.held.to \in 0..MaxTime /\ pruner.held.to \in 0..Forever /\ q.to \in 0..Forever
    BY <1>2, Times DEF Task
<1>4. marked \in Row /\ marked.preds = rows[h].preds
  <2>1. rows[h] \in Row
      BY <1>2, RowsOf
  <2> QED
      BY <2>1 DEF Row
<1> DEFINE r == Restored(pruner.held, q)
<1>5. r \in Row /\ r.preds = rows[q.row].preds
  <2>1. rows[q.row] \in Row
      BY <1>2, RowsOf
  <2> QED
      BY <1>3, <2>1 DEF Restored, Row
<1>6. \A d \in r.preds : d.row \in DOMAIN rows
    BY <1>2, <1>5 DEF IInv, PredecessorsExist
<1>7. /\ s \in Seq(Row) /\ DOMAIN s = DOMAIN rows
      /\ \A i \in DOMAIN rows : s[i] = IF i = h THEN marked ELSE rows[i]
  <2> HIDE DEF marked, h
  <2> QED
      BY <1>2, <1>4, RowsOf, LenProperties, ExceptSeq
<1>8. \A i \in DOMAIN rows : s[i].preds = rows[i].preds
  <2> HIDE DEF marked, h, s
  <2> QED
      BY <1>4, <1>7
<1>9. /\ Grown /\ DOMAIN rows' = DOMAIN rows \cup {Len(rows) + 1}
      /\ \A i \in DOMAIN rows : rows'[i] = s[i]
      /\ rows'[Len(rows) + 1] = r
  <2> HIDE DEF s, r
  <2> QED
      BY <1>1, <1>5, <1>6, <1>7, <1>8, AppendGrows DEF r
<1> HIDE DEF s
<1> QED
    BY <1>2, <1>7, <1>9

LEMMA RestoreKeeps ==
    ASSUME IInv, SweepRestore
    PROVE  IInv'
<1>0. TypeOK /\ PlanRefers
    BY DEF IInv
<1>1. Grown
    BY RestoreGrows DEF SweepRestore
<1>2. pruner' = [pruner EXCEPT !.back = {}]
    BY DEF SweepRestore
<1>3. TypeOK'
    BY <1>0, <1>1, <1>2 DEF SweepRestore, TypeOK, Grown
<1>4. PlanRefers'
    BY <1>0, <1>1, <1>2 DEF PlanRefers, TypeOK, Grown
<1> QED
    BY <1>1, <1>3, <1>4 DEF IInv, Grown

\* A torn commit adds its row and rewrites none.
LEMMA TearGrows ==
    ASSUME IInv, Tear
    PROVE  /\ Grown /\ \A i \in DOMAIN rows : rows'[i] = rows[i]
           /\ UNCHANGED <<now, approval, pruner, repeats, forgets>>
           /\ said' \in [Episodes -> Statements \cup {Unsaid}] /\ faults' \in 0..MaxFaults
<1>1. PICK e \in Episodes, m \in Statements : Torn(e, m)
    BY DEF Tear
<1> DEFINE r == [New(e, m) EXCEPT !.preds = Predecessors(m)]
<1>2. rows' = Append(rows, r)
    BY <1>1 DEF Torn
<1>3. r \in Row /\ \A q \in r.preds : q.row \in DOMAIN rows
    BY NewcomerTyped
<1>4. Grown /\ \A i \in DOMAIN rows : rows'[i] = rows[i]
  <2> HIDE DEF r
  <2>1. rows \in Seq(Row)
      BY DEF IInv, TypeOK
  <2> QED
      BY <1>2, <1>3, <2>1, AppendGrows
<1>5. said' \in [Episodes -> Statements \cup {Unsaid}]
    BY <1>1 DEF Torn, IInv, TypeOK
<1>6. faults' \in 0..MaxFaults
    BY <1>1, FaultCounted DEF Torn, IInv
<1> QED
    BY <1>1, <1>4, <1>5, <1>6 DEF Torn

\* When nothing fails, or commits within transactions do not happen.
LEMMA NothingTears ==
    ASSUME IInv, EarlyCommits => MaxFaults = 0
    PROVE  ~Tear
<1> SUFFICES ASSUME Tear PROVE FALSE
    OBVIOUS
<1>1. EarlyCommits /\ faults < MaxFaults
    BY DEF Tear, Torn, Fault
<1>2. MaxFaults = 0
    BY <1>1
<1>3. faults \in 0..MaxFaults
    BY DEF IInv, TypeOK
<1> QED
    BY <1>1, <1>2, <1>3

LEMMA StepKeepsIInv ==
    ASSUME IInv, [Next]_vars
    PROVE  IInv'
<1>0. TypeOK
    BY DEF IInv
<1>5. CASE Tear
  <2>1. /\ Grown /\ UNCHANGED <<now, approval, pruner, repeats, forgets>>
        /\ said' \in [Episodes -> Statements \cup {Unsaid}] /\ faults' \in 0..MaxFaults
      BY <1>5, TearGrows
  <2>2. /\ now \in 0..MaxTime /\ approval \in [row : Nat, todo : SUBSET Nat]
        /\ repeats \in 0..MaxRepeats /\ forgets \in 0..MaxForgets
      BY <1>0 DEF TypeOK
  <2> QED
      BY <2>1, <2>2, PruningUndisturbed
<1>1. CASE Form
    BY <1>0, <1>1, FormGrows, PruningUndisturbed DEF TypeOK
<1>2. CASE Tick
  <2>1. now' \in 0..MaxTime /\ Grown
      BY <1>0, <1>2, Times DEF Tick, TypeOK, Grown, IInv, PredecessorsExist
  <2> QED
      BY <1>0, <1>2, <2>1, PruningUndisturbed DEF Tick, TypeOK
<1>3. CASE UNCHANGED vars
    BY <1>3 DEF IInv, TypeOK, PredecessorsExist, PlanRefers, vars
<1>4. CASE PruneStep
    BY <1>4, PlanningSteps, Repaired, Swept, RestoreKeeps DEF PruneStep
<1> QED
    BY <1>1, <1>2, <1>3, <1>4, <1>5, OperatorKeeps, PlanningSteps DEF Next

LEMMA InitIsIInv == Init => IInv
<1> SUFFICES ASSUME Init PROVE IInv
    OBVIOUS
<1>1. rows \in Seq(Row) /\ DOMAIN rows = {}
    BY EmptySeq, LenProperties DEF Init
<1>2. Resting \in PrunerType /\ NoReview \in [row : Nat, todo : SUBSET Nat]
    BY Idle DEF Resting, PrunerType, NoReview
<1>3. TypeOK
    BY <1>1, <1>2, PolicyAssumption, Idle DEF Init, TypeOK, PrunerType
<1>4. PredecessorsExist
    BY <1>1 DEF PredecessorsExist
<1>5. PlanRefers
    BY DEF Init, PlanRefers, Resting, Nothing
<1> QED
    BY <1>3, <1>4, <1>5 DEF IInv

(* Every reference between rows, and of a pruning run to rows, is to a row    *)
(* that exists, and no planned expiry lies beyond time: what                  *)
(* _restore_temporary_predecessor copies is always there.                     *)
THEOREM ReferencesHold == Spec => []IInv
BY InitIsIInv, StepKeepsIInv, PTL DEF Spec

(* Type correctness, for every process, policy and restorer.                  *)
THEOREM TypeCorrect == Spec => []TypeOK
<1>1. IInv => TypeOK
    BY DEF IInv
<1> QED
    BY <1>1, ReferencesHold, PTL

-----------------------------------------------------------------------------
(* What formation may do to the slot.  A statement is added to the truth in   *)
(* force, filed or parked beside it, or takes the slot from all of it.        *)

\* What no step changes of a row: a pending review is settled at most.
Resolves(i) ==
    /\ rows'[i].gate = rows[i].gate /\ rows'[i].preds = rows[i].preds
    /\ \/ rows'[i].review = rows[i].review
       \/ Pending(i) /\ rows'[i].review # "none"

\* No row becomes current truth, or current truth for longer.
Fades(i) == rows'[i].status = "ACTIVE" => rows[i].status = "ACTIVE" /\ rows'[i].to = rows[i].to

Unforked ==
    \/ Active' = Active
    \/ \E n \in DOMAIN rows' \ DOMAIN rows : Active' \subseteq {n} /\ rows'[n].gate = "none"

FormOutcome ==
    /\ Grown /\ Unforked
    /\ \A i \in DOMAIN rows : Resolves(i) /\ Fades(i)
    /\ \A i \in DOMAIN rows' \ DOMAIN rows : \A q \in rows'[i].preds : q.row \in Active

LEMMA Reinforcing ==
    ASSUME IInv, NEW e \in Episodes, NEW m \in Statements, Reinforce(e, m)
    PROVE  FormOutcome
<1>1. ASSUME NEW i \in DOMAIN rows
      PROVE  /\ rows'[i].gate = rows[i].gate /\ rows'[i].review = rows[i].review
             /\ rows'[i].status = rows[i].status /\ rows'[i].to = rows[i].to
             /\ rows'[i].preds = rows[i].preds
  <2>1. rows[i] \in Row /\ rows'[i] \in {rows[i], Reinforced(rows[i], e, m)}
      BY ReinforceGrows, RowsOf
  <2> QED
      BY <2>1 DEF Row, Reinforced
<1>2. Active' = Active
    BY <1>1, ReinforceGrows DEF Active
<1> QED
    BY <1>1, <1>2, ReinforceGrows DEF FormOutcome, Unforked, Resolves, Fades

\* A statement that is filed or parked leaves the truth in force alone.
LEMMA SetAside ==
    ASSUME IInv, Grown, NEW n, DOMAIN rows' = DOMAIN rows \cup {n},
           \A i \in DOMAIN rows : rows'[i] = rows[i],
           n \in DOMAIN rows \/ (rows'[n].status = "SUPERSEDED" /\ rows'[n].preds = {})
    PROVE  FormOutcome
<1>1. Active' = Active
    BY DEF Active
<1> QED
    BY <1>1 DEF FormOutcome, Unforked, Resolves, Fades

LEMMA TakenRows ==
    ASSUME IInv, NEW e \in Episodes, NEW m \in Statements, Take(e, m)
    PROVE  /\ Contradictions(m) = Active
           /\ \A i \in Active :
                 /\ rows'[i].status = "SUPERSEDED" /\ rows'[i].by = Len(rows) + 1
                 /\ rows'[i].from = rows[i].from
                 /\ rows'[i].to = IF Bypassed(i, m) THEN Effective(m) ELSE m.from
                 /\ rows'[i].gate = rows[i].gate /\ rows'[i].review = rows[i].review
                 /\ rows'[i].preds = rows[i].preds
           /\ \A i \in DOMAIN rows \ Active :
                 rows'[i].status = rows[i].status /\ rows'[i].status # "ACTIVE" /\ Resolves(i)
           /\ LET new == rows'[Len(rows) + 1]
              IN /\ new.status = "ACTIVE" /\ new.rank = m.rank /\ new.from = m.from
                 /\ new.gate = "none" /\ new.preds = Predecessors(m)
<1>1. Contradictions(m) = Active
    BY TakeGrows DEF Contradictions, Restated
<1>2. ASSUME NEW i \in Active
      PROVE  /\ rows'[i].status = "SUPERSEDED" /\ rows'[i].by = Len(rows) + 1
             /\ rows'[i].from = rows[i].from
             /\ rows'[i].to = IF Bypassed(i, m) THEN Effective(m) ELSE m.from
             /\ rows'[i].gate = rows[i].gate /\ rows'[i].review = rows[i].review
             /\ rows'[i].preds = rows[i].preds
  <2>1. rows'[i] = Yields(i, m) /\ rows[i] \in Row
      BY <1>1, TakeGrows, RowsOf
  <2> DEFINE t == IF Bypassed(i, m) THEN Effective(m) ELSE m.from
  <2>2. rows'[i] = Superseded(rows[i], Len(rows) + 1, t)
      BY <2>1 DEF Yields
  <2> HIDE DEF t
  <2>3. /\ rows'[i].status = "SUPERSEDED" /\ rows'[i].by = Len(rows) + 1
        /\ rows'[i].from = rows[i].from /\ rows'[i].to = t
        /\ rows'[i].gate = rows[i].gate /\ rows'[i].review = rows[i].review
        /\ rows'[i].preds = rows[i].preds
      BY <2>1, <2>2 DEF Superseded, Row
  <2> QED
      BY <2>3 DEF t
<1>3. ASSUME NEW i \in DOMAIN rows \ Active
      PROVE  rows'[i].status = rows[i].status /\ rows'[i].status # "ACTIVE" /\ Resolves(i)
  <2>1. rows[i].status # "ACTIVE" /\ rows[i] \in Row
      BY RowsOf DEF Active
  <2>2. CASE rows'[i] = rows[i]
      BY <2>1, <2>2 DEF Resolves
  <2>3. CASE /\ rows'[i] = [rows[i] EXCEPT !.by = Len(rows) + 1, !.review = "corroborated"]
             /\ i \in Corroborating(m)
    <3>1. Pending(i)
        BY <2>3 DEF Corroborating
    <3>2. /\ rows'[i].status = rows[i].status /\ rows'[i].gate = rows[i].gate
          /\ rows'[i].review = "corroborated" /\ rows'[i].preds = rows[i].preds
        BY <2>1, <2>3 DEF Row
    <3> QED
        BY <2>1, <3>1, <3>2 DEF Resolves
  <2> QED
      BY <1>1, <2>2, <2>3, TakeGrows
<1>4. LET new == rows'[Len(rows) + 1]
      IN /\ new.status = "ACTIVE" /\ new.rank = m.rank /\ new.from = m.from
         /\ new.gate = "none" /\ new.preds = Predecessors(m)
  <2>1. rows'[Len(rows) + 1] = [New(e, m) EXCEPT !.preds = Predecessors(m)]
      BY TakeGrows
  <2> DEFINE P == Predecessors(m)
  <2> HIDE DEF P
  <2>2. rows'[Len(rows) + 1] = [New(e, m) EXCEPT !.preds = P]
      BY <2>1 DEF P
  <2> QED
      BY <2>2 DEF New, P
<1> QED
    BY <1>1, <1>2, <1>3, <1>4

LEMMA Taking ==
    ASSUME IInv, NEW e \in Episodes, NEW m \in Statements, Take(e, m)
    PROVE  FormOutcome
<1> DEFINE n == Len(rows) + 1
<1>1. DOMAIN rows' = DOMAIN rows \cup {n} /\ n \notin DOMAIN rows /\ Active \subseteq DOMAIN rows
  <2>1. DOMAIN rows' = DOMAIN rows \cup {n} /\ rows \in Seq(Row)
      BY TakeGrows DEF IInv, TypeOK
  <2>2. DOMAIN rows = 1..Len(rows) /\ Len(rows) \in Nat
      BY <2>1, RowsAreNumbered
  <2> QED
      BY <2>1, <2>2 DEF Active
<1>2. Active' \subseteq {n} /\ rows'[n].gate = "none"
    BY <1>1, TakenRows DEF Active
<1>3. \A i \in DOMAIN rows : Resolves(i) /\ Fades(i)
    BY <1>1, TakenRows DEF Resolves, Fades
<1>4. \A q \in rows'[n].preds : q.row \in Active
  <2>1. rows'[n].preds = Predecessors(m) /\ Contradictions(m) = Active
      BY TakenRows
  <2> QED
      BY <2>1 DEF Predecessors
<1> HIDE DEF n
<1> QED
    BY <1>1, <1>2, <1>3, <1>4, TakeGrows DEF FormOutcome, Unforked

LEMMA Formed ==
    ASSUME IInv, Form
    PROVE  FormOutcome
<1>1. PICK e \in Episodes, m \in Statements : Materialize(e, m)
    BY DEF Form
<1>2. Len(rows) + 1 \notin DOMAIN rows
    BY RowsAreNumbered DEF IInv, TypeOK
<1>3. FileAsHistory(e, m) \/ Park(e, m) => FormOutcome
    BY FileGrows, ParkGrows, SetAside
<1> QED
    BY <1>1, <1>3, Reinforcing, Taking DEF Materialize

LEMMA FormationKeepsTheCount ==
    ASSUME IInv, Form
    PROVE  Cardinality(Current(now)') <= 1 \/ Cardinality(Current(now)') <= Cardinality(Current(now))
<1>1. FormOutcome /\ now' = now
    BY Formed, FormGrows
<1>2. CASE Active' = Active
  <2>1. IsFiniteSet(Current(now)) /\ Active \subseteq DOMAIN rows
      BY RowsOf, RowsAreNumbered DEF Current
  <2>2. \A i \in Active : rows'[i].to = rows[i].to
      BY <1>1, <1>2, <2>1 DEF FormOutcome, Fades, Active
  <2>3. Current(now)' = Current(now)
      BY <1>1, <1>2, <2>2 DEF Current
  <2>4. Cardinality(Current(now)) \in Nat
      BY <2>1, FS_CardinalityType
  <2> QED
      BY <2>3, <2>4
<1>3. ASSUME NEW n, Active' \subseteq {n}
      PROVE  Cardinality(Current(now)') <= 1
  <2>1. Current(now)' \subseteq {n}
      BY <1>1, <1>3 DEF Current
  <2>2. IsFiniteSet({n}) /\ Cardinality({n}) = 1
      BY FS_Singleton
  <2> QED
      BY <2>1, <2>2, FS_Subset
<1> QED
    BY <1>1, <1>2, <1>3 DEF FormOutcome, Unforked

(* An observation formed as a whole never adds a second truth to a slot,      *)
(* whatever approvals, restorations, pruning runs and torn commits of other   *)
(* episodes lie around it.                                                    *)
THEOREM FormationForksNothing == Spec => FormationNeverForks
<1>1. IInv /\ [Next]_vars =>
         [Form => \/ Cardinality(Current(now)') <= 1
                  \/ Cardinality(Current(now)') <= Cardinality(Current(now))]_vars
    BY FormationKeepsTheCount
<1> QED
    BY <1>1, ReferencesHold, PTL DEF Spec, FormationNeverForks

LEMMA FormationIsWhole ==
    ASSUME IInv, Form, Len(rows') > Len(rows), rows'[Len(rows')].status = "ACTIVE",
           NEW i \in DOMAIN rows
    PROVE  rows'[i].status # "ACTIVE"
<1>1. FormOutcome /\ rows \in Seq(Row) /\ rows' \in Seq(Row)
    BY Formed, FormGrows DEF IInv, TypeOK, Grown
<1>2. Len(rows') \in DOMAIN rows' /\ Len(rows') \notin DOMAIN rows /\ i \in DOMAIN rows'
  <2>1. DOMAIN rows = 1..Len(rows) /\ Len(rows) \in Nat /\ DOMAIN rows' = 1..Len(rows') /\ Len(rows') \in Nat
      BY <1>1, LenProperties
  <2> QED
      BY <2>1
<1>3. Len(rows') \in Active' /\ Len(rows') \notin Active /\ i # Len(rows')
    BY <1>2 DEF Active
<1>4. i \notin Active'
    BY <1>1, <1>2, <1>3 DEF FormOutcome, Unforked
<1> QED
    BY <1>2, <1>4 DEF Active

LEMMA OnlyFormationHears ==
    ASSUME Next, said' # said, ~EarlyCommits
    PROVE  Form
BY DEF Next, Tear, Torn, Approve, ApproveSupersede, ApproveFinish, Operate, RejectReview,
       ApproveStart, Forget, Curate, Retrieve, PruneStep, PruneStart, RepairOne, SweepStart,
       SweepTake, SweepRestore, SweepMark, PruneEnd, Refuse, Crash, Tick

(* Where the store does not commit inside an episode's transaction, the write *)
(* burst of an episode is whole: with a new truth, every row it contradicts   *)
(* is superseded in the same step.                                            *)
THEOREM EpisodesAreWhole ==
    ASSUME ~EarlyCommits
    PROVE  Spec => EpisodesCommitWhole
<1>1. IInv /\ [Next]_vars =>
         [LET new == rows'[Len(rows')]
          IN said' # said /\ Len(rows') > Len(rows) /\ new.status = "ACTIVE" =>
               \A i \in DOMAIN rows : rows'[i].status = "ACTIVE" => rows'[i].obj = new.obj]_vars
    BY FormationIsWhole, OnlyFormationHears DEF vars
<1> QED
    BY <1>1, ReferencesHold, PTL DEF Spec, EpisodesCommitWhole

LEMMA FormationGivesWay ==
    ASSUME IInv, Form, NEW i \in Active, rows'[i].status = "SUPERSEDED"
    PROVE  GivesWay(i)
<1>1. PICK e \in Episodes, m \in Statements : Materialize(e, m)
    BY DEF Form
<1>2. i \in DOMAIN rows /\ rows[i].status = "ACTIVE" /\ rows[i] \in Row
    BY RowsOf DEF Active
<1>3. Take(e, m)
  <2>1. CASE Reinforce(e, m)
    <3>1. rows'[i] \in {rows[i], Reinforced(rows[i], e, m)}
        BY <1>2, <2>1, ReinforceGrows
    <3>2. rows'[i].status = "ACTIVE"
        BY <1>2, <3>1 DEF Row, Reinforced
    <3> QED
        BY <3>2
  <2>2. CASE FileAsHistory(e, m) \/ Park(e, m)
      BY <1>2, <2>2, FileGrows, ParkGrows
  <2> QED
      BY <1>1, <2>1, <2>2 DEF Materialize
<1>4. Contradictions(m) = Active /\ Successors(m) = {} /\ Gating(m) = {}
    BY <1>3, TakenRows, TakeGrows
<1> DEFINE new == rows'[Len(rows) + 1]
<1>5. /\ rows'[i].by = Len(rows) + 1 /\ rows'[i].from = rows[i].from
      /\ rows'[i].to = IF Bypassed(i, m) THEN Effective(m) ELSE m.from
      /\ new.status = "ACTIVE" /\ new.rank = m.rank /\ new.from = m.from
    BY <1>3, TakenRows
<1>6. /\ m.rank \in Nat /\ m.from \in Nat /\ Effective(m) \in Nat
      /\ rows[i].rank \in Nat /\ rows[i].from \in Nat
  <2>1. m.rank \in Nat /\ m.from \in Nat /\ m.ref \in Nat
      BY Times
  <2> QED
      BY <1>2, <2>1, RowsOf, RowFields DEF Effective, Least
<1>7. m.from >= rows[i].from
    BY <1>4, <1>6 DEF Successors
<1>8. GateLower => m.rank >= rows[i].rank
  <2>1. GateReason(i, m) = "none" \/ Bypassed(i, m)
      BY <1>4 DEF Gating
  <2> QED
      BY <1>6, <2>1 DEF GateReason, Bypassed
<1>9. rows'[i].from <= rows'[i].to
    BY <1>5, <1>6, <1>7 DEF Bypassed
<1> QED
    BY <1>5, <1>6, <1>7, <1>8, <1>9 DEF GivesWay

(* What an observation supersedes gives way to a row of no lower authority    *)
(* (where the policy gates authority) and no older valid time, and its        *)
(* interval stays an interval: the gate of graph_policy and the               *)
(* historical-successor path hold together, for any statements and policy.    *)
THEOREM TruthGivesWay == Spec => TruthGivesWayToBetter
<1>1. IInv /\ [Next]_vars =>
         [Form => \A i \in Active : rows'[i].status = "SUPERSEDED" => GivesWay(i)]_vars
    BY FormationGivesWay
<1> QED
    BY <1>1, ReferencesHold, PTL DEF Spec, TruthGivesWayToBetter

-----------------------------------------------------------------------------
(* Reviews.  In one process an approval does not await, so nothing gets       *)
(* between its reading of the candidate and its activation of it.             *)

ApprovalAlone ==
    approval # NoReview => /\ approval.row \in DOMAIN rows /\ Pending(approval.row)
                           /\ pruner.back = {}

\* Every row afterwards is as it was, or retired from current truth.
Retires(i) ==
    /\ DOMAIN rows' = DOMAIN rows
    /\ Active' = Active \ {i}
    /\ \A j \in DOMAIN rows : Resolves(j) /\ Fades(j) /\ rows'[j].review = rows[j].review

LEMMA Retiring ==
    ASSUME IInv, NEW i, NEW r, rows' = [rows EXCEPT ![i] = r],
           i \in DOMAIN rows => /\ r \in Row /\ r.preds = rows[i].preds
                                /\ r.gate = rows[i].gate /\ r.review = rows[i].review
                                /\ r.status # "ACTIVE"
    PROVE  Retires(i)
<1>1. /\ DOMAIN rows' = DOMAIN rows
      /\ \A j \in DOMAIN rows : rows'[j] = IF j = i THEN r ELSE rows[j]
    BY UpdateGrows
<1>2. Active' = Active \ {i}
    BY <1>1 DEF Active
<1>3. ASSUME NEW j \in DOMAIN rows
      PROVE  Resolves(j) /\ Fades(j) /\ rows'[j].review = rows[j].review
    BY <1>1 DEF Resolves, Fades
<1> QED
    BY <1>1, <1>2, <1>3 DEF Retires

LEMMA RetiringSteps ==
    ASSUME IInv
    PROVE  /\ ApproveSupersede => Retires(Oldest(approval.todo))
           /\ \A i \in DOMAIN rows : Forget(i) \/ RepairOne(i) => Retires(i)
           /\ SweepMark => Retires(pruner.held.row)
<1>0. TypeOK
    BY DEF IInv
<1>1. ASSUME NEW i \in DOMAIN rows, NEW by \in Nat, NEW to \in 0..Forever,
             rows' = [rows EXCEPT ![i] = Superseded(rows[i], by, to)]
      PROVE  Retires(i)
  <2> DEFINE r == Superseded(rows[i], by, to)
  <2>1. rows[i] \in Row /\ r \in Row /\ r.preds = rows[i].preds
      BY RowsOf, SupersededTyped
  <2>2. r.gate = rows[i].gate /\ r.review = rows[i].review /\ r.status # "ACTIVE"
      BY <2>1 DEF Superseded, Row
  <2> HIDE DEF r
  <2> QED
      BY <1>1, <2>1, <2>2, Retiring DEF r
<1>2. ASSUME ApproveSupersede PROVE Retires(Oldest(approval.todo))
  <2> DEFINE i == Oldest(approval.todo)
  <2>1. rows' = [rows EXCEPT ![i] = Superseded(rows[i], approval.row, now)]
      BY <1>2 DEF ApproveSupersede
  <2>2. approval.row \in Nat /\ now \in 0..Forever
      BY <1>0, RowsOf DEF TypeOK
  <2> HIDE DEF i
  <2>3. ASSUME i \in DOMAIN rows PROVE Retires(i)
      BY <1>1, <2>1, <2>2, <2>3
  <2>4. ASSUME i \notin DOMAIN rows PROVE Retires(i)
      BY <2>1, <2>4, Retiring
  <2> QED
      BY <2>3, <2>4 DEF i
<1>3. ASSUME NEW i \in DOMAIN rows, RepairOne(i) PROVE Retires(i)
    BY <1>0, <1>1, <1>3 DEF RepairOne, TypeOK
<1>4. ASSUME NEW i \in DOMAIN rows, Forget(i) PROVE Retires(i)
  <2> DEFINE r == Retired(rows[i])
  <2>1. rows' = [rows EXCEPT ![i] = r]
      BY <1>4 DEF Forget
  <2>2. rows[i] \in Row /\ r \in Row /\ r.preds = rows[i].preds
      BY RowsOf, OperatorRows
  <2>3. r.gate = rows[i].gate /\ r.review = rows[i].review /\ r.status # "ACTIVE"
      BY <2>2 DEF Retired, Row
  <2> HIDE DEF r
  <2> QED
      BY <2>1, <2>2, <2>3, Retiring
<1>5. ASSUME SweepMark PROVE Retires(pruner.held.row)
  <2> DEFINE i == pruner.held.row
             r == Pruned(rows[i], pruner.held.why)
  <2>1. rows' = [rows EXCEPT ![i] = r]
      BY <1>5 DEF SweepMark
  <2>2. i \in DOMAIN rows => r \in Row /\ r.preds = rows[i].preds
      BY PrunedTyped
  <2>3. i \in DOMAIN rows =>
            r.gate = rows[i].gate /\ r.review = rows[i].review /\ r.status # "ACTIVE"
    <3>1. i \in DOMAIN rows => rows[i] \in Row
        BY RowsOf
    <3> HIDE DEF i
    <3> QED
        BY <3>1 DEF Pruned, Row
  <2> HIDE DEF i, r
  <2> QED
      BY <2>1, <2>2, <2>3, Retiring DEF i
<1> QED
    BY <1>2, <1>3, <1>4, <1>5

\* One row rewritten by the operator or a revival, which may make it current.
LEMMA Rewriting ==
    ASSUME IInv, NEW i \in DOMAIN rows, NEW r \in Row, rows' = [rows EXCEPT ![i] = r],
           r.preds = rows[i].preds, r.gate = rows[i].gate,
           r.review = rows[i].review \/ (Pending(i) /\ r.review # "none")
    PROVE  /\ DOMAIN rows' = DOMAIN rows
           /\ \A j \in DOMAIN rows : rows'[j] = IF j = i THEN r ELSE rows[j]
           /\ \A j \in DOMAIN rows : Resolves(j)
<1>1. /\ DOMAIN rows' = DOMAIN rows
      /\ \A j \in DOMAIN rows : rows'[j] = IF j = i THEN r ELSE rows[j]
    BY UpdateGrows
<1>2. ASSUME NEW j \in DOMAIN rows PROVE Resolves(j)
    BY <1>1 DEF Resolves
<1> QED
    BY <1>1, <1>2

LEMMA Reviving ==
    ASSUME IInv, NEW i \in DOMAIN rows, Retrieve(i) \/ Curate(i)
    PROVE  DOMAIN rows' = DOMAIN rows /\ \A j \in DOMAIN rows : Resolves(j)
<1> DEFINE v == Revived(rows[i])
           c == [v EXCEPT !.forgotten = FALSE]
<1>1. rows[i] \in Row /\ v \in Row /\ v.preds = rows[i].preds
    BY RowsOf, OperatorRows
<1>2. v.gate = rows[i].gate /\ v.review = rows[i].review
    BY <1>1 DEF Revived, Row
<1>3. rows' = [rows EXCEPT ![i] = v] \/ rows' = [rows EXCEPT ![i] = c]
    BY DEF Retrieve, Curate
<1> HIDE DEF v
<1>4. c \in Row /\ c.preds = v.preds /\ c.gate = v.gate /\ c.review = v.review
    BY <1>1 DEF Row
<1> HIDE DEF c
<1>5. CASE rows' = [rows EXCEPT ![i] = v]
    BY <1>1, <1>2, <1>5, Rewriting
<1>6. CASE rows' = [rows EXCEPT ![i] = c]
    BY <1>1, <1>2, <1>4, <1>6, Rewriting
<1> QED
    BY <1>3, <1>5, <1>6

LEMMA Reviewing ==
    ASSUME IInv, ApprovalAlone
    PROVE  /\ \A i \in DOMAIN rows : RejectReview(i) =>
                /\ DOMAIN rows' = DOMAIN rows
                /\ \A j \in DOMAIN rows : Resolves(j) /\ Fades(j)
           /\ ApproveFinish =>
                /\ DOMAIN rows' = DOMAIN rows
                /\ Active' = Active \cup {approval.row} /\ rows'[approval.row].to = Forever
                /\ \A j \in DOMAIN rows : /\ Resolves(j)
                                          /\ Fades(j) \/ (Pending(j) /\ ~Pending(j)')
<1>1. ASSUME NEW i \in DOMAIN rows, RejectReview(i)
      PROVE  DOMAIN rows' = DOMAIN rows /\ \A j \in DOMAIN rows : Resolves(j) /\ Fades(j)
  <2> DEFINE r == [rows[i] EXCEPT !.review = "rejected"]
  <2>1. rows' = [rows EXCEPT ![i] = r] /\ Pending(i)
      BY <1>1 DEF RejectReview
  <2>2. rows[i] \in Row
      BY RowsOf
  <2>3. /\ r \in Row /\ r.preds = rows[i].preds /\ r.gate = rows[i].gate
        /\ r.review = "rejected" /\ r.status = rows[i].status /\ r.to = rows[i].to
      BY <2>2 DEF Row
  <2> HIDE DEF r
  <2>4. /\ DOMAIN rows' = DOMAIN rows /\ \A j \in DOMAIN rows : Resolves(j)
        /\ \A j \in DOMAIN rows : rows'[j] = IF j = i THEN r ELSE rows[j]
      BY <2>1, <2>3, Rewriting
  <2> QED
      BY <2>3, <2>4 DEF Fades
<1>2. ASSUME ApproveFinish
      PROVE  /\ DOMAIN rows' = DOMAIN rows
             /\ Active' = Active \cup {approval.row} /\ rows'[approval.row].to = Forever
             /\ \A j \in DOMAIN rows : /\ Resolves(j)
                                       /\ Fades(j) \/ (Pending(j) /\ ~Pending(j)')
  <2> DEFINE i == approval.row
             r == Activated(rows[i])
  <2>1. i \in DOMAIN rows /\ Pending(i) /\ rows' = [rows EXCEPT ![i] = r]
      BY <1>2 DEF ApproveFinish, ApprovalAlone
  <2>2. rows[i] \in Row /\ r \in Row /\ r.preds = rows[i].preds
      BY <2>1, RowsOf, OperatorRows
  <2>3. r.gate = rows[i].gate /\ r.review = "approved" /\ r.status = "ACTIVE" /\ r.to = Forever
    <3> HIDE DEF i
    <3> QED
        BY <2>2 DEF Activated, Row
  <2> HIDE DEF r, i
  <2>4. /\ DOMAIN rows' = DOMAIN rows /\ \A j \in DOMAIN rows : Resolves(j)
        /\ \A j \in DOMAIN rows : rows'[j] = IF j = i THEN r ELSE rows[j]
      BY <2>1, <2>2, <2>3, Rewriting
  <2>5. Active' = Active \cup {i}
      BY <2>1, <2>3, <2>4 DEF Active
  <2>6. ASSUME NEW j \in DOMAIN rows
        PROVE  Fades(j) \/ (Pending(j) /\ ~Pending(j)')
    <3>1. CASE j = i
      <4>1. rows'[j].review = "approved"
          BY <2>3, <2>4, <3>1
      <4> QED
          BY <2>1, <3>1, <4>1 DEF Pending
    <3>2. CASE j # i
        BY <2>4, <3>2 DEF Fades
    <3> QED
        BY <3>1, <3>2
  <2> QED
      BY <2>1, <2>3, <2>4, <2>5, <2>6 DEF i
<1> QED
    BY <1>1, <1>2

LEMMA Restoring ==
    ASSUME IInv, SweepRestore
    PROVE  \E q \in pruner.back :
              /\ q.row \in DOMAIN rows
              /\ DOMAIN rows' = DOMAIN rows \cup {Len(rows) + 1}
              /\ \A j \in DOMAIN rows : Resolves(j) /\ Fades(j)
              /\ rows'[Len(rows) + 1] = Restored(pruner.held, q)
<1>1. PICK q \in pruner.back :
          rows' = Append([rows EXCEPT ![pruner.held.row] = [@ EXCEPT !.replaced = TRUE]],
                         Restored(pruner.held, q))
    BY DEF SweepRestore
<1>2. /\ DOMAIN rows' = DOMAIN rows \cup {Len(rows) + 1} /\ q.row \in DOMAIN rows
      /\ \A i \in DOMAIN rows : rows'[i] \in {rows[i], [rows[i] EXCEPT !.replaced = TRUE]}
      /\ rows'[Len(rows) + 1] = Restored(pruner.held, q)
    BY <1>1, RestoreGrows
<1>3. ASSUME NEW j \in DOMAIN rows PROVE Resolves(j) /\ Fades(j)
  <2>1. rows[j] \in Row
      BY RowsOf
  <2>2. /\ rows'[j].gate = rows[j].gate /\ rows'[j].review = rows[j].review
        /\ rows'[j].preds = rows[j].preds
        /\ rows'[j].status = rows[j].status /\ rows'[j].to = rows[j].to
      BY <1>2, <2>1 DEF Row
  <2> QED
      BY <2>2 DEF Resolves, Fades
<1> QED
    BY <1>2, <1>3

Resolved == \A i \in DOMAIN rows : i \in DOMAIN rows' /\ Resolves(i)

LEMMA EveryStepResolves ==
    ASSUME IInv, ApprovalAlone, Next
    PROVE  Resolved
<1>1. rows' = rows => Resolved
    BY DEF Resolved, Resolves
<1>2. CASE Form
    BY <1>2, Formed DEF FormOutcome, Grown, Resolved
<1>3. CASE Approve
    BY <1>3, RetiringSteps, Reviewing DEF Approve, Retires, Resolved
<1>4. CASE Operate
  <2>1. PICK i \in DOMAIN rows : RejectReview(i) \/ ApproveStart(i) \/ Forget(i) \/ Curate(i)
      BY <1>4 DEF Operate
  <2>2. CASE RejectReview(i) \/ Forget(i) \/ Curate(i)
      BY <2>2, RetiringSteps, Reviewing, Reviving DEF Retires, Resolved
  <2>3. CASE ApproveStart(i)
      BY <1>1, <2>3 DEF ApproveStart
  <2> QED
      BY <2>1, <2>2, <2>3
<1>5. CASE \E i \in DOMAIN rows : Retrieve(i)
    BY <1>5, Reviving DEF Resolved
<1>6. CASE PruneStep
  <2>1. CASE \E i \in DOMAIN rows : RepairOne(i)
      BY <2>1, RetiringSteps DEF Retires, Resolved
  <2>2. CASE SweepMark
      BY <2>2, RetiringSteps DEF Retires, Resolved
  <2>3. CASE SweepRestore
      BY <2>3, Restoring DEF Resolved
  <2>4. CASE PruneStart \/ SweepStart \/ SweepTake \/ PruneEnd
      BY <1>1, <2>4 DEF PruneStart, SweepStart, SweepTake, PruneEnd
  <2> QED
      BY <1>6, <2>1, <2>2, <2>3, <2>4 DEF PruneStep
<1>7. CASE Refuse \/ Crash \/ Tick
    BY <1>1, <1>7 DEF Refuse, Crash, Tick
<1>8. CASE Tear
    BY <1>8, TearGrows DEF Grown, Resolved, Resolves
<1> QED
    BY <1>2, <1>3, <1>4, <1>5, <1>6, <1>7, <1>8 DEF Next

\* Nothing else runs while an approval does, unless the process dies.
LEMMA ApprovalStaysAlone ==
    ASSUME OneProcess, IInv, ApprovalAlone, [Next]_vars
    PROVE  ApprovalAlone'
<1>0. TypeOK
    BY DEF IInv
<1>1. CASE UNCHANGED <<rows, approval, pruner>>
    BY <1>1 DEF ApprovalAlone, Pending
<1>2. CASE approval' = NoReview
    BY <1>2 DEF ApprovalAlone
<1>3. CASE Quiet /\ approval' = approval
    BY <1>2, <1>3 DEF Quiet
<1>4. CASE ApproveSupersede
  <2>1. approval # NoReview /\ approval'.row = approval.row /\ pruner' = pruner
      BY <1>0, <1>4 DEF ApproveSupersede, NoReview, TypeOK
  <2>2. approval.row \in DOMAIN rows /\ Pending(approval.row) /\ pruner.back = {}
      BY <2>1 DEF ApprovalAlone
  <2>3. /\ approval.row \in DOMAIN rows'
        /\ rows'[approval.row].gate = rows[approval.row].gate
        /\ rows'[approval.row].review = rows[approval.row].review
      BY <1>4, <2>2, RetiringSteps DEF Retires, Resolves
  <2> QED
      BY <2>1, <2>2, <2>3 DEF ApprovalAlone, Pending
<1>5. ASSUME NEW i \in DOMAIN rows, ApproveStart(i) PROVE ApprovalAlone'
    BY <1>5 DEF ApproveStart, Quiet, ApprovalAlone, Pending
<1>6. CASE SweepRestore
  <2>1. approval' = NoReview
      BY <1>6 DEF SweepRestore, ApprovalAlone
  <2> QED
      BY <1>2, <2>1
<1>7. CASE Form \/ Tear
    BY <1>3, <1>7 DEF Form, Materialize, Tear, Torn
<1>8. CASE Crash
    BY <1>2, <1>8 DEF Crash
<1>9. CASE PruneStep \/ Refuse
    BY <1>3, <1>6, <1>9
    DEF PruneStep, Refuse, PruneStart, RepairOne, SweepStart, SweepTake, SweepMark, PruneEnd
<1>10. CASE Operate \/ \E i \in DOMAIN rows : Retrieve(i)
    BY <1>3, <1>5, <1>10 DEF Operate, RejectReview, Forget, Curate, Retrieve
<1> QED
    BY <1>1, <1>2, <1>4, <1>7, <1>8, <1>9, <1>10 DEF Next, Approve, ApproveFinish, Tick, vars

LEMMA ApprovalsAlone ==
    ASSUME OneProcess
    PROVE  Spec => [](IInv /\ ApprovalAlone)
<1>1. Init => ApprovalAlone
    BY DEF Init, ApprovalAlone
<1>2. IInv /\ ApprovalAlone /\ [Next]_vars => ApprovalAlone'
    BY ApprovalStaysAlone
<1> QED
    BY <1>1, <1>2, InitIsIInv, StepKeepsIInv, PTL DEF Spec

(* A review is resolved once.  In one process, whose approvals never await,   *)
(* no later observation, pruning run, revival or reviewer changes the outcome *)
(* ("review was already resolved").                                           *)
THEOREM ResolvedOnce ==
    ASSUME OneProcess
    PROVE  Spec => ResolutionIsFinal
<1>1. IInv /\ ApprovalAlone /\ [Next]_vars =>
         [\A i \in DOMAIN rows : rows[i].review # "none" => rows'[i].review = rows[i].review]_vars
  <2> SUFFICES ASSUME IInv, ApprovalAlone, Next, NEW i \in DOMAIN rows, rows[i].review # "none"
               PROVE  rows'[i].review = rows[i].review
      OBVIOUS
  <2> QED
      BY EveryStepResolves DEF Resolved, Resolves, Pending
<1> QED
    BY <1>1, ApprovalsAlone, PTL DEF Spec, ResolutionIsFinal

-----------------------------------------------------------------------------
(* One truth at a time, in one process and when nothing brings archived rows  *)
(* back.  Pending rows are never current truth, nor what a pruning run or a   *)
(* temporary row means to end or to bring back; so an approval, which         *)
(* supersedes all it read, activates the only row left, and a predecessor     *)
(* returns to a slot from which everything has run out.                       *)

OneAtATime == \A i, j \in Current(now) : i = j

NobodyPends ==
    /\ \A i \in Active : ~Pending(i)
    /\ \A i \in DOMAIN rows : \A q \in rows[i].preds : ~Pending(q.row)
    /\ \A q \in pruner.back : ~Pending(q.row)

ApprovalTakesAll == approval # NoReview => Active \subseteq approval.todo

\* What was found expired stays so until it is marked.
ExpiryHolds ==
    /\ pruner.at <= now
    /\ \A p \in pruner.plan \cup {pruner.held} : p.why = "expired" =>
          /\ ~Pending(p.row) /\ p.to <= pruner.at
          /\ p.row \in Active => rows[p.row].to = p.to
    /\ pruner.back # {} => \A i \in Active : rows[i].to <= pruner.at

SlotInv ==
    /\ IInv /\ ApprovalAlone
    /\ OneAtATime /\ NobodyPends /\ ApprovalTakesAll /\ ExpiryHolds

\* What every step does to the rows there were and to those it adds.
Orderly ==
    /\ \A i \in DOMAIN rows : /\ i \in DOMAIN rows' /\ Resolves(i)
                              /\ Fades(i) \/ (Pending(i) /\ ~Pending(i)')
    /\ \A n \in DOMAIN rows' \ DOMAIN rows :
          /\ rows'[n].status = "ACTIVE" => ~Pending(n)'
          /\ \A q \in rows'[n].preds : q.row \in DOMAIN rows /\ ~Pending(q.row)

LEMMA StaysSettled ==
    ASSUME Orderly, NEW i \in DOMAIN rows, ~Pending(i)
    PROVE  ~Pending(i)' /\ i \in DOMAIN rows' /\ Fades(i)
BY DEF Orderly, Resolves, Pending

LEMMA OrderlyKeepsNobody ==
    ASSUME SlotInv, Orderly, pruner'.back \subseteq pruner.back
    PROVE  NobodyPends'
<1>1. ASSUME NEW i \in Active' PROVE ~Pending(i)'
  <2>1. i \in DOMAIN rows' /\ rows'[i].status = "ACTIVE"
      BY DEF Active
  <2>2. CASE i \in DOMAIN rows
    <3>1. CASE Fades(i)
      <4>1. i \in Active
          BY <2>1, <2>2, <3>1 DEF Fades, Active
      <4> QED
          BY <2>2, <4>1, StaysSettled DEF SlotInv, NobodyPends
    <3> QED
        BY <2>2, <3>1 DEF Orderly
  <2> QED
      BY <2>1, <2>2 DEF Orderly
<1>2. ASSUME NEW i \in DOMAIN rows', NEW q \in rows'[i].preds PROVE ~Pending(q.row)'
  <2>1. q.row \in DOMAIN rows /\ ~Pending(q.row)
    <3>1. CASE i \in DOMAIN rows
      <4>1. q \in rows[i].preds
          BY <1>2, <3>1 DEF Orderly, Resolves
      <4> QED
          BY <3>1, <4>1 DEF SlotInv, IInv, PredecessorsExist, NobodyPends
    <3> QED
        BY <1>2, <3>1 DEF Orderly
  <2> QED
      BY <2>1, StaysSettled
<1>3. ASSUME NEW q \in pruner'.back PROVE ~Pending(q.row)'
  <2>1. q.row \in DOMAIN rows /\ ~Pending(q.row)
      BY <1>3 DEF SlotInv, IInv, PlanRefers, NobodyPends
  <2> QED
      BY <2>1, StaysSettled
<1> QED
    BY <1>1, <1>2, <1>3 DEF NobodyPends

LEMMA OrderlyKeepsExpiry ==
    ASSUME SlotInv, Orderly, pruner'.plan \subseteq pruner.plan,
           pruner'.held \in {pruner.held, Nothing}, pruner'.at = pruner.at, now' \in {now, now + 1},
           pruner'.back # {} => \A i \in Active' : rows'[i].to <= pruner.at
    PROVE  ExpiryHolds'
<1>1. pruner'.at <= now'
    BY RowsOf, Times DEF SlotInv, ExpiryHolds
<1>2. ASSUME NEW p \in pruner'.plan \cup {pruner'.held}, p.why = "expired"
      PROVE  /\ ~Pending(p.row)' /\ p.to <= pruner'.at
             /\ p.row \in Active' => rows'[p.row].to = p.to
  <2>1. p \in pruner.plan \cup {pruner.held}
      BY <1>2 DEF Nothing
  <2>2. /\ p.row \in DOMAIN rows /\ ~Pending(p.row) /\ p.to <= pruner.at
        /\ p.row \in Active => rows[p.row].to = p.to
      BY <1>2, <2>1 DEF SlotInv, ExpiryHolds, IInv, PlanRefers
  <2>3. ~Pending(p.row)' /\ Fades(p.row)
      BY <2>2, StaysSettled
  <2>4. p.row \in Active' => p.row \in Active /\ rows'[p.row].to = rows[p.row].to
      BY <2>2, <2>3 DEF Active, Fades
  <2> QED
      BY <2>2, <2>3, <2>4
<1> QED
    BY <1>1, <1>2 DEF ExpiryHolds

LEMMA FadingKeepsOne ==
    ASSUME SlotInv, Active' \subseteq Active, \A i \in Active' : rows'[i].to = rows[i].to,
           now' \in {now, now + 1}
    PROVE  OneAtATime'
<1> SUFFICES ASSUME NEW i \in Current(now)', NEW j \in Current(now)' PROVE i = j
    BY DEF OneAtATime
<1>1. ASSUME NEW k \in Current(now)' PROVE k \in Current(now)
  <2>1. k \in Active /\ rows'[k].to = rows[k].to /\ rows'[k].to > now'
      BY DEF Current
  <2>2. rows[k].to \in Nat /\ now \in Nat
      BY <2>1, RowsOf, Times DEF SlotInv
  <2> QED
      BY <2>1, <2>2 DEF Current
<1> QED
    BY <1>1 DEF SlotInv, OneAtATime

LEMMA FadesOnly ==
    ASSUME DOMAIN rows' = DOMAIN rows, \A i \in DOMAIN rows : Fades(i)
    PROVE  Active' \subseteq Active /\ \A i \in Active' : rows'[i].to = rows[i].to
BY DEF Active, Fades

LEMMA FormKeepsSlot ==
    ASSUME SlotInv, OneProcess, Form
    PROVE  OneAtATime' /\ NobodyPends' /\ ApprovalTakesAll' /\ ExpiryHolds'
<1>1. FormOutcome /\ UNCHANGED <<now, approval, pruner>>
    BY Formed, FormGrows DEF SlotInv
<1>2. approval = NoReview /\ pruner.back = {}
    BY DEF Form, Materialize, Quiet
<1>3. Active \subseteq DOMAIN rows
    BY DEF Active
<1>4. Orderly
  <2>1. ASSUME NEW n \in DOMAIN rows' \ DOMAIN rows, rows'[n].status = "ACTIVE"
        PROVE  ~Pending(n)'
    <3>1. n \in Active' /\ n \notin Active
        BY <1>3, <2>1 DEF Active
    <3>2. rows'[n].gate = "none"
        BY <1>1, <3>1 DEF FormOutcome, Unforked
    <3> QED
        BY <3>2 DEF Pending
  <2>2. \A n \in DOMAIN rows' \ DOMAIN rows : \A q \in rows'[n].preds :
            q.row \in DOMAIN rows /\ ~Pending(q.row)
      BY <1>1, <1>3 DEF FormOutcome, SlotInv, NobodyPends
  <2> QED
      BY <1>1, <2>1, <2>2 DEF FormOutcome, Grown, Orderly
<1>5. OneAtATime'
  <2>1. CASE Active' = Active
    <3>1. \A i \in Active' : rows'[i].to = rows[i].to
        BY <1>1, <1>3, <2>1 DEF FormOutcome, Fades, Active
    <3> QED
        BY <1>1, <2>1, <3>1, FadingKeepsOne
  <2>2. ASSUME NEW n, Active' \subseteq {n} PROVE OneAtATime'
      BY <2>2 DEF OneAtATime, Current
  <2> QED
      BY <1>1, <2>1, <2>2 DEF FormOutcome, Unforked
<1> QED
    BY <1>1, <1>2, <1>4, <1>5, OrderlyKeepsNobody, OrderlyKeepsExpiry DEF ApprovalTakesAll

LEMMA RetiringKeepsSlot ==
    ASSUME SlotInv, OneProcess, NEW i, Retires(i) \/ (/\ DOMAIN rows' = DOMAIN rows
                                                     /\ \A j \in DOMAIN rows : Resolves(j) /\ Fades(j)),
           now' = now, pruner'.plan = pruner.plan, pruner'.held \in {pruner.held, Nothing},
           pruner'.at = pruner.at, pruner'.back = pruner.back
    PROVE  OneAtATime' /\ NobodyPends' /\ ExpiryHolds' /\ Active' \subseteq Active
<1>1. DOMAIN rows' = DOMAIN rows /\ \A j \in DOMAIN rows : Resolves(j) /\ Fades(j)
    BY DEF Retires
<1>2. Orderly
    BY <1>1 DEF Orderly
<1>3. Active' \subseteq Active /\ \A j \in Active' : rows'[j].to = rows[j].to
    BY <1>1, FadesOnly
<1>4. OneAtATime'
    BY <1>3, FadingKeepsOne
<1>5. NobodyPends'
    BY <1>2, OrderlyKeepsNobody
<1>6. ExpiryHolds'
    BY <1>2, <1>3, OrderlyKeepsExpiry DEF SlotInv, ExpiryHolds
<1> QED
    BY <1>3, <1>4, <1>5, <1>6

LEMMA ApproveKeepsSlot ==
    ASSUME SlotInv, OneProcess, Approve
    PROVE  OneAtATime' /\ NobodyPends' /\ ApprovalTakesAll' /\ ExpiryHolds'
<1>0. TypeOK
    BY DEF SlotInv, IInv
<1>1. CASE ApproveSupersede
  <2> DEFINE i == Oldest(approval.todo)
  <2>1. Retires(i) /\ UNCHANGED <<now, pruner>>
      BY <1>1, RetiringSteps DEF SlotInv, ApproveSupersede
  <2>2. approval # NoReview /\ approval'.todo = approval.todo \ {i}
      BY <1>0, <1>1 DEF ApproveSupersede, NoReview, TypeOK
  <2> HIDE DEF i
  <2>3. ApprovalTakesAll'
      BY <2>1, <2>2 DEF SlotInv, ApprovalTakesAll, Retires
  <2> QED
      BY <2>1, <2>3, RetiringKeepsSlot
<1>2. CASE ApproveFinish
  <2>1. Active = {} /\ pruner.back = {} /\ approval' = NoReview /\ UNCHANGED <<now, pruner>>
      BY <1>2 DEF ApproveFinish, SlotInv, ApprovalTakesAll, ApprovalAlone
  <2>2. /\ DOMAIN rows' = DOMAIN rows /\ Active' = {approval.row}
        /\ \A j \in DOMAIN rows : /\ Resolves(j)
                                  /\ Fades(j) \/ (Pending(j) /\ ~Pending(j)')
      BY <1>2, <2>1, Reviewing DEF SlotInv
  <2>3. Orderly
      BY <2>2 DEF Orderly
  <2>4. OneAtATime' /\ ApprovalTakesAll'
      BY <2>1, <2>2 DEF OneAtATime, Current, ApprovalTakesAll
  <2> QED
      BY <2>1, <2>3, <2>4, OrderlyKeepsNobody, OrderlyKeepsExpiry
<1> QED
    BY <1>1, <1>2 DEF Approve

LEMMA StillKeepsSlot ==
    ASSUME SlotInv, UNCHANGED rows, now' \in {now, now + 1}
    PROVE  /\ OneAtATime' /\ Active' = Active /\ Orderly
<1>1. Active' = Active /\ Orderly
    BY DEF Active, Orderly, Resolves, Fades
<1>2. OneAtATime'
    BY <1>1, FadingKeepsOne
<1> QED
    BY <1>1, <1>2

LEMMA OperateKeepsSlot ==
    ASSUME SlotInv, OneProcess, "curation" \notin Restorers, Operate
    PROVE  OneAtATime' /\ NobodyPends' /\ ApprovalTakesAll' /\ ExpiryHolds'
<1>1. PICK i \in DOMAIN rows : RejectReview(i) \/ ApproveStart(i) \/ Forget(i)
    BY DEF Operate, Curate
<1>2. CASE RejectReview(i) \/ Forget(i)
  <2>1. UNCHANGED <<now, approval, pruner>> /\ approval = NoReview
      BY <1>2 DEF RejectReview, Forget, Quiet
  <2>2. Retires(i) \/ (DOMAIN rows' = DOMAIN rows /\ \A j \in DOMAIN rows : Resolves(j) /\ Fades(j))
      BY <1>2, RetiringSteps, Reviewing DEF SlotInv
  <2> QED
      BY <2>1, <2>2, RetiringKeepsSlot DEF ApprovalTakesAll
<1>3. CASE ApproveStart(i)
  <2>1. OneAtATime' /\ Active' = Active /\ Orderly
      BY <1>3, StillKeepsSlot DEF ApproveStart
  <2>2. i \notin Active
      BY <1>3 DEF ApproveStart, SlotInv, NobodyPends
  <2>3. ApprovalTakesAll'
      BY <1>3, <2>1, <2>2 DEF ApproveStart, ApprovalTakesAll
  <2>4. UNCHANGED <<now, pruner>> /\ pruner.back = {}
      BY <1>3 DEF ApproveStart, Quiet
  <2> QED
      BY <2>1, <2>3, <2>4, OrderlyKeepsNobody, OrderlyKeepsExpiry
<1> QED
    BY <1>1, <1>2, <1>3

\* A run that begins or ends has found nothing yet.
LEMMA FreshRun ==
    ASSUME SlotInv, UNCHANGED <<now, rows>>, pruner'.plan = {}, pruner'.held = Nothing,
           pruner'.back = {}, pruner'.at \in {0, now, pruner.at}
    PROVE  OneAtATime' /\ NobodyPends' /\ ExpiryHolds'
<1>1. OneAtATime' /\ Orderly
    BY StillKeepsSlot
<1>2. NobodyPends'
    BY <1>1, OrderlyKeepsNobody
<1>3. pruner'.at <= now'
    BY RowsOf, Times DEF SlotInv, ExpiryHolds
<1>4. ExpiryHolds'
    BY <1>3 DEF ExpiryHolds, Nothing
<1> QED
    BY <1>1, <1>2, <1>4

LEMMA SweepStartKeepsSlot ==
    ASSUME SlotInv, SweepStart
    PROVE  OneAtATime' /\ NobodyPends' /\ ExpiryHolds'
<1>1. PICK plan : /\ plan \in SUBSET (Tasks("aged", pruner.at) \cup Tasks("expired", pruner.at)
                                      \cup Tasks("retired", pruner.at))
                  /\ pruner' = [Resting EXCEPT !.stage = "sweep", !.at = pruner.at, !.plan = plan]
    BY DEF SweepStart
<1>2. /\ pruner'.plan = plan /\ pruner'.held = Nothing /\ pruner'.back = {}
      /\ pruner'.at = pruner.at
    BY <1>1 DEF Resting
<1>3. UNCHANGED <<now, rows>> /\ OneAtATime' /\ Active' = Active /\ Orderly
    BY StillKeepsSlot DEF SweepStart
<1>4. NobodyPends'
    BY <1>2, <1>3, OrderlyKeepsNobody
<1>5. ASSUME NEW p \in plan, p.why = "expired"
      PROVE  /\ ~Pending(p.row) /\ p.to <= pruner.at
             /\ p.row \in Active => rows[p.row].to = p.to
  <2>1. p \in Tasks("expired", pruner.at)
      BY <1>1, <1>5, TasksTyped DEF SlotInv
  <2>2. p.row \in Active /\ rows[p.row].to = p.to /\ rows[p.row].to <= pruner.at
      BY <2>1 DEF Tasks, Due
  <2> QED
      BY <2>2 DEF SlotInv, NobodyPends
<1>6. ExpiryHolds'
  <2>1. ASSUME NEW p \in pruner'.plan \cup {pruner'.held}, p.why = "expired"
        PROVE  /\ ~Pending(p.row)' /\ p.to <= pruner'.at
               /\ p.row \in Active' => rows'[p.row].to = p.to
    <3>1. p \in plan
        BY <1>2, <2>1 DEF Nothing
    <3> QED
        BY <1>2, <1>3, <1>5, <2>1, <3>1 DEF Pending
  <2> QED
      BY <1>2, <1>3, <2>1 DEF ExpiryHolds, SlotInv
<1> QED
    BY <1>3, <1>4, <1>6

\* A predecessor is to come back only when every current row has run out.
LEMMA SweepTakeKeepsSlot ==
    ASSUME SlotInv, SweepTake
    PROVE  OneAtATime' /\ NobodyPends' /\ ExpiryHolds'
<1>0. pruner \in PrunerType
    BY DEF SlotInv, IInv, TypeOK, PrunerType
<1>1. PICK p \in pruner.plan :
          pruner' = [pruner EXCEPT !.held = p, !.plan = pruner.plan \ {p}, !.back = Restorable(p)]
    BY DEF SweepTake
<1>2. /\ pruner'.plan = pruner.plan \ {p} /\ pruner'.held = p /\ pruner'.back = Restorable(p)
      /\ pruner'.at = pruner.at
    BY <1>0, <1>1 DEF PrunerType
<1>3. UNCHANGED <<now, rows>> /\ OneAtATime' /\ Active' = Active
    BY StillKeepsSlot DEF SweepTake
<1>4. Restorable(p) # {} => p.why = "expired" /\ p.row \in DOMAIN rows
    BY <1>1, RestorableTyped DEF SlotInv, IInv, PlanRefers
<1>5. \A q \in Restorable(p) : ~Pending(q.row)
    BY <1>4 DEF Restorable, SlotInv, NobodyPends
<1>6. NobodyPends'
    BY <1>2, <1>3, <1>5 DEF SlotInv, NobodyPends, Pending
<1>7. ASSUME Restorable(p) # {}, NEW i \in Active PROVE rows[i].to <= pruner.at
  <2>1. p.to <= pruner.at /\ (p.row \in Active => rows[p.row].to = p.to)
      BY <1>1, <1>4, <1>7 DEF SlotInv, ExpiryHolds
  <2>2. rows[i].to \in Nat /\ pruner.at \in Nat
      BY RowsOf, Times DEF SlotInv
  <2>3. ~(\E j \in Active \ {p.row} : rows[j].to > pruner.at)
      BY <1>7 DEF Restorable
  <2>4. CASE i = p.row
      BY <2>1, <2>4
  <2>5. CASE i # p.row
      BY <2>2, <2>3, <2>5
  <2> QED
      BY <2>4, <2>5
<1>8. ExpiryHolds'
  <2>1. \A r \in pruner'.plan \cup {pruner'.held} : r \in pruner.plan
      BY <1>1, <1>2
  <2> QED
      BY <1>2, <1>3, <1>7, <2>1 DEF SlotInv, ExpiryHolds, Pending
<1> QED
    BY <1>3, <1>6, <1>8

LEMMA RestoreKeepsSlot ==
    ASSUME SlotInv, SweepRestore
    PROVE  OneAtATime' /\ NobodyPends' /\ ExpiryHolds'
<1> PICK n : n = Len(rows) + 1
    OBVIOUS
<1>0. pruner \in PrunerType
    BY DEF SlotInv, IInv, TypeOK, PrunerType
<1>1. PICK q \in pruner.back :
          /\ q.row \in DOMAIN rows /\ DOMAIN rows' = DOMAIN rows \cup {n}
          /\ \A j \in DOMAIN rows : Resolves(j) /\ Fades(j)
          /\ rows'[n] = Restored(pruner.held, q)
    BY Restoring DEF SlotInv
<1>2. /\ pruner' = [pruner EXCEPT !.back = {}] /\ now' = now
      /\ pruner'.plan = pruner.plan /\ pruner'.held = pruner.held
      /\ pruner'.at = pruner.at /\ pruner'.back = {}
    BY <1>0 DEF SweepRestore, PrunerType
<1>3. /\ rows'[n].gate = rows[q.row].gate /\ rows'[n].review = rows[q.row].review
      /\ rows'[n].preds = rows[q.row].preds
  <2>1. rows[q.row] \in Row
      BY <1>1, RowsOf DEF SlotInv
  <2> QED
      BY <1>1, <2>1 DEF Restored, Row
<1>4. ~Pending(n)' /\ \A d \in rows'[n].preds : d.row \in DOMAIN rows /\ ~Pending(d.row)
  <2>1. ~Pending(q.row)
      BY <1>1 DEF SlotInv, NobodyPends
  <2>2. ~Pending(n)'
      BY <1>3, <2>1 DEF Pending
  <2>3. \A d \in rows'[n].preds : d.row \in DOMAIN rows /\ ~Pending(d.row)
      BY <1>1, <1>3 DEF SlotInv, IInv, PredecessorsExist, NobodyPends
  <2> QED
      BY <2>2, <2>3
<1>5. Orderly
  <2>1. ASSUME NEW i \in DOMAIN rows PROVE i \in DOMAIN rows' /\ Resolves(i) /\ Fades(i)
      BY <1>1
  <2>2. \A i \in DOMAIN rows' \ DOMAIN rows : i = n
      BY <1>1
  <2> QED
      BY <1>4, <2>1, <2>2 DEF Orderly
<1>6. ASSUME NEW i \in Current(now)' PROVE i = n
  <2>1. i \in DOMAIN rows' /\ rows'[i].status = "ACTIVE" /\ rows'[i].to > now
      BY <1>2 DEF Current, Active
  <2>2. CASE i \in DOMAIN rows
    <3>1. i \in Active /\ rows'[i].to = rows[i].to
        BY <1>1, <2>1, <2>2 DEF Fades, Active
    <3>2. rows[i].to <= pruner.at /\ pruner.at <= now
        BY <3>1 DEF SlotInv, ExpiryHolds
    <3>3. rows[i].to \in Nat /\ pruner.at \in Nat /\ now \in Nat
        BY <2>2, RowsOf, Times DEF SlotInv
    <3> QED
        BY <2>1, <3>1, <3>2, <3>3
  <2> QED
      BY <1>1, <2>1, <2>2
<1>7. OneAtATime'
    BY <1>6 DEF OneAtATime
<1> QED
    BY <1>2, <1>5, <1>7, OrderlyKeepsNobody, OrderlyKeepsExpiry

LEMMA PruneKeepsSlot ==
    ASSUME SlotInv, OneProcess, PruneStep \/ Refuse \/ Crash
    PROVE  OneAtATime' /\ NobodyPends' /\ ApprovalTakesAll' /\ ExpiryHolds'
<1>0. pruner \in PrunerType
    BY DEF SlotInv, IInv, TypeOK, PrunerType
<1>1. approval' = NoReview
    BY DEF PruneStep, PruneStart, RepairOne, SweepStart, SweepTake, SweepRestore, SweepMark,
           PruneEnd, Refuse, Crash, Quiet, SlotInv, ApprovalAlone
<1>2. ASSUME PruneStart \/ PruneEnd \/ Crash
      PROVE  OneAtATime' /\ NobodyPends' /\ ExpiryHolds'
  <2>1. UNCHANGED <<now, rows>>
      BY <1>2 DEF PruneStart, PruneEnd, Crash
  <2>2. /\ pruner'.plan = {} /\ pruner'.held = Nothing /\ pruner'.back = {}
        /\ pruner'.at \in {0, now, pruner.at}
    <3>1. CASE pruner' = Resting
        BY <3>1 DEF Resting
    <3>2. CASE pruner' = [Resting EXCEPT !.stage = "repair", !.at = now]
        BY <3>2 DEF Resting
    <3>3. ASSUME NEW w, NEW to, NEW losers,
                 pruner' = [Resting EXCEPT !.stage = "repair", !.at = now, !.winner = w,
                                           !.to = to, !.losers = losers]
          PROVE  /\ pruner'.plan = {} /\ pruner'.held = Nothing /\ pruner'.back = {}
                 /\ pruner'.at = now
        BY <3>3 DEF Resting
    <3>4. CASE PruneStart
        BY <3>2, <3>3, <3>4 DEF PruneStart
    <3> QED
        BY <1>2, <3>1, <3>4 DEF PruneEnd, Crash
  <2> QED
      BY <2>1, <2>2, FreshRun
<1>3. ASSUME Refuse
      PROVE  OneAtATime' /\ NobodyPends' /\ ExpiryHolds'
  <2>1. /\ pruner'.plan = pruner.plan /\ pruner'.held \in {pruner.held, Nothing}
        /\ pruner'.at = pruner.at /\ pruner'.back = pruner.back
      BY <1>0, <1>3 DEF Refuse, PrunerType
  <2>2. UNCHANGED <<now, rows>>
      BY <1>3 DEF Refuse
  <2> QED
      BY <2>1, <2>2, RetiringKeepsSlot DEF Resolves, Fades
<1>4. ASSUME NEW i, RepairOne(i) \/ SweepMark, Retires(i)
      PROVE  OneAtATime' /\ NobodyPends' /\ ExpiryHolds'
  <2>1. /\ pruner'.plan = pruner.plan /\ pruner'.held \in {pruner.held, Nothing}
        /\ pruner'.at = pruner.at /\ pruner'.back = pruner.back /\ now' = now
      BY <1>0, <1>4 DEF RepairOne, SweepMark, PrunerType
  <2> QED
      BY <1>4, <2>1, RetiringKeepsSlot
<1>5. OneAtATime' /\ NobodyPends' /\ ExpiryHolds'
  <2>1. (\E i \in DOMAIN rows : RepairOne(i)) \/ SweepMark =>
            OneAtATime' /\ NobodyPends' /\ ExpiryHolds'
      BY <1>4, RetiringSteps DEF SlotInv
  <2> QED
      BY <1>2, <1>3, <2>1, SweepStartKeepsSlot, SweepTakeKeepsSlot, RestoreKeepsSlot DEF PruneStep
<1> QED
    BY <1>1, <1>5 DEF ApprovalTakesAll

LEMMA StepKeepsSlotInv ==
    ASSUME OneProcess, Restorers = {}, EarlyCommits => MaxFaults = 0, SlotInv, [Next]_vars
    PROVE  SlotInv'
<1>1. IInv' /\ ApprovalAlone'
    BY StepKeepsIInv, ApprovalStaysAlone DEF SlotInv
<1>2. CASE Tick \/ UNCHANGED vars
  <2>1. UNCHANGED <<rows, approval, pruner>> /\ now' \in {now, now + 1}
      BY <1>2 DEF Tick, vars
  <2>2. OneAtATime' /\ Active' = Active /\ Orderly
      BY <2>1, StillKeepsSlot
  <2>3. NobodyPends' /\ ApprovalTakesAll'
      BY <2>1, <2>2, OrderlyKeepsNobody DEF SlotInv, ApprovalTakesAll
  <2>4. ExpiryHolds'
      BY <2>1, <2>2, OrderlyKeepsExpiry DEF SlotInv, ExpiryHolds
  <2> QED
      BY <1>1, <2>2, <2>3, <2>4 DEF SlotInv
<1>3. ~(\E i \in DOMAIN rows : Retrieve(i)) /\ ~Tear
    BY NothingTears DEF Retrieve, SlotInv
<1>4. OneAtATime' /\ NobodyPends' /\ ApprovalTakesAll' /\ ExpiryHolds' => SlotInv'
    BY <1>1 DEF SlotInv
<1> QED
    BY <1>2, <1>3, <1>4, FormKeepsSlot, ApproveKeepsSlot, OperateKeepsSlot, PruneKeepsSlot DEF Next

LEMMA InitIsSlotInv == Init => SlotInv
<1> SUFFICES ASSUME Init PROVE SlotInv
    OBVIOUS
<1>1. IInv /\ DOMAIN rows = {} /\ Active = {}
    BY InitIsIInv, EmptySeq, LenProperties DEF Init, Active
<1>2. /\ pruner.plan = {} /\ pruner.held = Nothing /\ pruner.back = {} /\ pruner.at = 0
      /\ now = 0 /\ approval = NoReview
    BY DEF Init, Resting
<1> QED
    BY <1>1, <1>2
    DEF SlotInv, ApprovalAlone, OneAtATime, Current, NobodyPends, ApprovalTakesAll, ExpiryHolds,
        Nothing

LEMMA SlotInvHolds ==
    ASSUME OneProcess, Restorers = {}, EarlyCommits => MaxFaults = 0
    PROVE  Spec => []SlotInv
<1>1. SlotInv /\ [Next]_vars => SlotInv'
    BY StepKeepsSlotInv
<1> QED
    BY <1>1, InitIsSlotInv, PTL DEF Spec

LEMMA OneIsAtMostOne ==
    ASSUME SlotInv
    PROVE  AtMostOneTruth
<1>1. CASE Current(now) = {}
    BY <1>1, FS_EmptySet DEF AtMostOneTruth
<1>2. CASE Current(now) # {}
  <2>1. PICK i : Current(now) = {i}
      BY <1>2 DEF SlotInv, OneAtATime
  <2> QED
      BY <2>1, FS_Singleton DEF AtMostOneTruth
<1> QED
    BY <1>1, <1>2

(* Only one truth slot is active at a time.  In one process, where archived   *)
(* rows stay archived and an episode is committed as a whole (or nothing      *)
(* fails), no interleaving of formation, reviews, forgetting, refusals,       *)
(* crashes and pruning runs, with predecessors that return, leaves two ACTIVE *)
(* rows of the slot whose valid_to lies ahead.                                *)
THEOREM OneTruthAtATime ==
    ASSUME OneProcess, Restorers = {}, EarlyCommits => MaxFaults = 0
    PROVE  Spec => []AtMostOneTruth
BY OneIsAtMostOne, SlotInvHolds, PTL

-----------------------------------------------------------------------------
(* Authority.  A slot that never forks is never repaired, so only formation   *)
(* and an operator supersede anything.                                        *)

NoRepair == pruner.losers = {}

LEMMA NothingToRepair ==
    ASSUME SlotInv, NoRepair, [Next]_vars
    PROVE  NoRepair'
<1>0. pruner \in PrunerType
    BY DEF SlotInv, IInv, TypeOK, PrunerType
<1>1. CASE pruner' = pruner
    BY <1>1 DEF NoRepair
<1>2. CASE PruneStart
  <2>1. pruner' = [Resting EXCEPT !.stage = "repair", !.at = now]
      BY <1>2, OneIsAtMostOne DEF PruneStart, AtMostOneTruth
  <2> QED
      BY <2>1 DEF NoRepair, Resting
<1>3. CASE SweepStart \/ PruneEnd
  <2>1. ASSUME NEW at, NEW plan, pruner' = [Resting EXCEPT !.stage = "sweep", !.at = at, !.plan = plan]
        PROVE  NoRepair'
      BY <2>1 DEF Resting, NoRepair
  <2>2. SweepStart => NoRepair'
      BY <2>1 DEF SweepStart
  <2>3. PruneEnd => NoRepair'
      BY DEF PruneEnd, Resting, NoRepair
  <2> QED
      BY <1>3, <2>2, <2>3
<1>4. CASE SweepTake \/ SweepRestore \/ SweepMark \/ Refuse
    BY <1>0, <1>4 DEF SweepTake, SweepRestore, SweepMark, Refuse, NoRepair, PrunerType
<1>5. CASE Crash
    BY <1>5 DEF Crash, NoRepair, Resting
<1>6. ~(\E i \in DOMAIN rows : RepairOne(i))
    BY DEF RepairOne, NoRepair
<1>7. CASE Form \/ Tear \/ Approve \/ Operate \/ (\E i \in DOMAIN rows : Retrieve(i)) \/ Tick
    BY <1>1, <1>7
    DEF Form, Materialize, Tear, Torn, Approve, ApproveSupersede, ApproveFinish, Operate, RejectReview,
        ApproveStart, Forget, Curate, Retrieve, Tick
<1> QED
    BY <1>1, <1>2, <1>3, <1>4, <1>5, <1>6, <1>7 DEF Next, PruneStep, vars

LEMMA NeverRepaired ==
    ASSUME OneProcess, Restorers = {}, EarlyCommits => MaxFaults = 0
    PROVE  Spec => [](SlotInv /\ NoRepair)
<1>1. Init => NoRepair
    BY DEF Init, Resting, NoRepair
<1>2. SlotInv /\ NoRepair /\ [Next]_vars => NoRepair'
    BY NothingToRepair
<1> QED
    BY <1>1, <1>2, SlotInvHolds, PTL DEF Spec

LEMMA StepHasAuthority ==
    ASSUME GateLower, OneProcess, Restorers = {}, SlotInv, NoRepair, Next,
           NEW i \in Active, rows'[i].status = "SUPERSEDED"
    PROVE  \/ rows'[rows'[i].by].rank >= rows[i].rank
           \/ rows'[i].by = approval.row
<1>0. /\ i \in DOMAIN rows /\ rows[i].status = "ACTIVE" /\ rows[i] \in Row
      /\ IInv /\ TypeOK /\ ApprovalAlone
    BY RowsOf DEF SlotInv, IInv, Active
<1>1. CASE Form
  <2>1. GivesWay(i)
      BY <1>0, <1>1, FormationGivesWay
  <2> QED
      BY <2>1 DEF GivesWay
<1>2. CASE ApproveSupersede
  <2> DEFINE j == Oldest(approval.todo)
             r == Superseded(rows[j], approval.row, now)
  <2>1. rows' = [rows EXCEPT ![j] = r]
      BY <1>2 DEF ApproveSupersede
  <2>2. j \in DOMAIN rows => r \in Row /\ r.preds = rows[j].preds
      BY <1>0, OperatorRows DEF TypeOK
  <2>3. j \in DOMAIN rows => r.by = approval.row
    <3>1. j \in DOMAIN rows => rows[j] \in Row
        BY <1>0, RowsOf
    <3> HIDE DEF j
    <3> QED
        BY <3>1 DEF Superseded, Row
  <2> HIDE DEF j, r
  <2>4. rows'[i] = IF i = j THEN r ELSE rows[i]
      BY <1>0, <2>1, <2>2, UpdateGrows
  <2> QED
      BY <1>0, <2>3, <2>4
<1>3. CASE ApproveFinish
  <2>1. approval.todo = {} /\ Active = {}
      BY <1>3 DEF ApproveFinish, SlotInv, ApprovalTakesAll
  <2> QED
      BY <2>1
<1>4. rows' # rows
    BY <1>0
<1>10. CASE Tear
    BY <1>0, <1>10, TearGrows
<1>5. CASE Operate
  <2>1. PICK k \in DOMAIN rows : RejectReview(k) \/ Forget(k)
      BY <1>4, <1>5 DEF Operate, Curate, ApproveStart
  <2> DEFINE reject == [rows[k] EXCEPT !.review = "rejected"]
             retire == Retired(rows[k])
  <2>2. rows[k] \in Row
      BY <1>0, RowsOf
  <2>3. reject \in Row /\ reject.preds = rows[k].preds /\ reject.status = rows[k].status
      BY <2>2 DEF Row
  <2>4. retire \in Row /\ retire.preds = rows[k].preds /\ retire.status = "PRUNED"
    <3>1. retire.status = "PRUNED"
        BY <2>2 DEF Retired, Row
    <3> QED
        BY <1>0, <3>1, OperatorRows
  <2>5. rows' = [rows EXCEPT ![k] = reject] \/ rows' = [rows EXCEPT ![k] = retire]
      BY <2>1 DEF RejectReview, Forget
  <2> HIDE DEF reject, retire
  <2>6. rows'[i] \in {rows[i], retire} \/ rows'[i].status = rows[i].status
      BY <1>0, <2>3, <2>4, <2>5, UpdateGrows
  <2> QED
      BY <1>0, <2>4, <2>6
<1>6. CASE SweepMark
  <2> DEFINE k == pruner.held.row
             r == Pruned(rows[k], pruner.held.why)
  <2>1. rows' = [rows EXCEPT ![k] = r]
      BY <1>6 DEF SweepMark
  <2>2. k \in DOMAIN rows => r \in Row /\ r.preds = rows[k].preds
      BY <1>0, PrunedTyped
  <2>3. k \in DOMAIN rows => r.status = "PRUNED"
    <3>1. k \in DOMAIN rows => rows[k] \in Row
        BY <1>0, RowsOf
    <3> HIDE DEF k
    <3> QED
        BY <3>1 DEF Pruned, Row
  <2> HIDE DEF k, r
  <2>4. rows'[i] = IF i = k THEN r ELSE rows[i]
      BY <1>0, <2>1, <2>2, UpdateGrows
  <2> QED
      BY <1>0, <2>3, <2>4
<1>7. CASE SweepRestore
  <2>1. rows'[i] \in {rows[i], [rows[i] EXCEPT !.replaced = TRUE]}
      BY <1>0, <1>7, RestoreGrows DEF SweepRestore
  <2>2. rows'[i].status = rows[i].status
      BY <1>0, <2>1 DEF Row
  <2> QED
      BY <1>0, <2>2
<1>8. ~(\E k \in DOMAIN rows : RepairOne(k)) /\ ~(\E k \in DOMAIN rows : Retrieve(k))
    BY DEF RepairOne, NoRepair, Retrieve
<1>9. CASE PruneStart \/ SweepStart \/ SweepTake \/ PruneEnd \/ Refuse \/ Crash \/ Tick
    BY <1>4, <1>9 DEF PruneStart, SweepStart, SweepTake, PruneEnd, Refuse, Crash, Tick
<1> QED
    BY <1>1, <1>2, <1>3, <1>5, <1>6, <1>7, <1>8, <1>9, <1>10 DEF Next, Approve, PruneStep

(* A lower-authority candidate never overrides current truth.  Where the      *)
(* policy gates authority, in one process, when archived rows stay archived   *)
(* and episodes are committed as a whole (or nothing fails), whatever step    *)
(* supersedes an active row names a row of no lower authority in its place,   *)
(* or the candidate an operator approves.                                     *)
THEOREM AuthorityIsKept ==
    ASSUME GateLower, OneProcess, Restorers = {}, EarlyCommits => MaxFaults = 0
    PROVE  Spec => AuthorityHolds
<1>1. SlotInv /\ NoRepair /\ [Next]_vars =>
         [\A i \in Active : rows'[i].status = "SUPERSEDED" =>
             \/ rows'[rows'[i].by].rank >= rows[i].rank
             \/ rows'[i].by = approval.row]_vars
    BY StepHasAuthority
<1> QED
    BY <1>1, NeverRepaired, PTL DEF Spec, AuthorityHolds

-----------------------------------------------------------------------------
(* Corroboration.  A parked statement counts as one observation, because it   *)
(* was heard in one episode, never became current truth (and was never        *)
(* copied by a restoration) and is settled once.                              *)

\* A statement parked for review, or settled by the flip it corroborated.
Waits(i) == rows[i].gate # "none" /\ rows[i].review \in {"none", "corroborated"}

NobodyWaits ==
    /\ \A i \in Active : ~Waits(i)
    /\ \A i \in DOMAIN rows : \A q \in rows[i].preds : ~Waits(q.row)
    /\ \A q \in pruner.back : ~Waits(q.row)
    /\ \A i \in approval.todo : i \in DOMAIN rows /\ ~Waits(i)

\* Each was heard in an episode of its own.
Heard ==
    /\ \A i \in DOMAIN rows : IsFiniteSet(rows[i].seen)
    /\ \A i \in DOMAIN rows : Waits(i) => \E e \in Episodes : rows[i].seen = {e} /\ said[e] # Unsaid
    /\ \A i, j \in DOMAIN rows : Waits(i) /\ Waits(j) /\ rows[i].seen = rows[j].seen => i = j

\* A settled statement was parked, and names the row that it corroborated.
Answered ==
    \A i \in DOMAIN rows : rows[i].review = "corroborated" =>
        rows[i].gate # "none" /\ rows[i].by \in DOMAIN rows

\* What no step changes of what a row states, and of who observed it.
Remembers(i) ==
    /\ rows'[i].obj = rows[i].obj
    /\ \/ rows'[i].seen = rows[i].seen
       \/ i \in Active /\ \E e \in Episodes : rows'[i].seen = rows[i].seen \cup {e}

\* No statement is settled by corroboration in the step, or settled anew.
SettledAsBefore(i) ==
    /\ rows'[i].review = "corroborated" <=> rows[i].review = "corroborated"
    /\ rows[i].review = "corroborated" => rows'[i].by = rows[i].by

\* As many observations as rows, when each row has one of its own.
LEMMA OneEach ==
    ASSUME NEW S, IsFiniteSet(S), NEW f, \A i \in S : \E e : f[i] = {e},
           \A i, j \in S : f[i] = f[j] => i = j
    PROVE  /\ IsFiniteSet(UNION {f[i] : i \in S})
           /\ Cardinality(UNION {f[i] : i \in S}) = Cardinality(S)
<1> DEFINE U == UNION {f[i] : i \in S}
           g == [i \in S |-> CHOOSE e : f[i] = {e}]
<1>1. \A i \in S : f[i] = {g[i]}
    OBVIOUS
<1>2. g \in [S -> U]
    BY <1>1
<1>3. \A i, j \in S : g[i] = g[j] => i = j
    BY <1>1
<1>4. \A e \in U : \E i \in S : g[i] = e
    BY <1>1
<1>5. g \in Bijection(S, U)
  <2> HIDE DEF g, U
  <2> QED
      BY <1>2, <1>3, <1>4 DEF Bijection, Injection, Surjection, IsInjective
<1> HIDE DEF g, U
<1> QED
    BY <1>5, FS_Bijection DEF ExistsBijection, U

\* More observers do not make a flip less corroborated.
LEMMA MoreObservers ==
    ASSUME NEW A, NEW B, A \subseteq B, IsFiniteSet(B), Cardinality(A) >= Required
    PROVE  Cardinality(B) >= Required
<1>1. IsFiniteSet(A) /\ Cardinality(A) <= Cardinality(B)
    BY FS_Subset
<1>2. Cardinality(A) \in Nat /\ Cardinality(B) \in Nat /\ Required \in Nat
    BY <1>1, FS_CardinalityType, PolicyAssumption
<1> QED
    BY <1>1, <1>2

\* Who waits afterwards waited before.
LEMMA WaitedBefore ==
    ASSUME NEW i \in DOMAIN rows, Resolves(i), Waits(i)'
    PROVE  Waits(i)
BY DEF Resolves, Pending, Waits

LEMMA StillHeard ==
    ASSUME IInv, NobodyWaits, Heard, NEW n, DOMAIN rows' \subseteq DOMAIN rows \cup {n},
           \A i \in DOMAIN rows : Resolves(i) /\ Remembers(i),
           \A e \in Episodes : said[e] # Unsaid => said'[e] # Unsaid,
           n \in DOMAIN rows' \ DOMAIN rows =>
               /\ IsFiniteSet(rows'[n].seen)
               /\ Waits(n)' => \E e \in Episodes : rows'[n].seen = {e} /\ said[e] = Unsaid
                                                   /\ said'[e] # Unsaid
    PROVE  Heard'
<1>1. ASSUME NEW i \in DOMAIN rows PROVE IsFiniteSet(rows'[i].seen)
  <2>1. IsFiniteSet(rows[i].seen)
      BY DEF Heard
  <2>2. \A e : IsFiniteSet(rows[i].seen \cup {e})
      BY <2>1, FS_AddElement
  <2>3. Remembers(i)
      OBVIOUS
  <2>4. \/ rows'[i].seen = rows[i].seen
        \/ \E e \in Episodes : rows'[i].seen = rows[i].seen \cup {e}
      BY <2>3 DEF Remembers
  <2> QED
      BY <2>1, <2>2, <2>4
<1>2. ASSUME NEW i \in DOMAIN rows, Waits(i)'
      PROVE  Waits(i) /\ rows'[i].seen = rows[i].seen
  <2>1. Waits(i)
      BY <1>2, WaitedBefore
  <2> QED
      BY <2>1 DEF NobodyWaits, Remembers
<1>3. \A i \in DOMAIN rows' : i \in DOMAIN rows \/ i = n
    OBVIOUS
<1>4. ASSUME NEW i \in DOMAIN rows', Waits(i)'
      PROVE  \E e \in Episodes : rows'[i].seen = {e} /\ said'[e] # Unsaid
    BY <1>2, <1>3, <1>4 DEF Heard
<1>5. ASSUME NEW i \in DOMAIN rows', NEW j \in DOMAIN rows', Waits(i)', Waits(j)',
             rows'[i].seen = rows'[j].seen
      PROVE  i = j
  <2>1. CASE i \in DOMAIN rows /\ j \in DOMAIN rows
      BY <1>2, <1>5, <2>1 DEF Heard
  <2>2. ASSUME NEW k \in DOMAIN rows, Waits(k)', n \in DOMAIN rows' \ DOMAIN rows, Waits(n)'
        PROVE  rows'[k].seen # rows'[n].seen
    <3>1. PICK e \in Episodes : rows[k].seen = {e} /\ said[e] # Unsaid
        BY <1>2, <2>2 DEF Heard
    <3>2. PICK d \in Episodes : rows'[n].seen = {d} /\ said[d] = Unsaid
        BY <2>2
    <3> QED
        BY <1>2, <2>2, <3>1, <3>2
  <2> QED
      BY <1>3, <1>5, <2>1, <2>2
<1> QED
    BY <1>1, <1>3, <1>4, <1>5 DEF Heard

LEMMA StillNobodyWaits ==
    ASSUME IInv, NobodyWaits,
           \A i \in DOMAIN rows : /\ i \in DOMAIN rows' /\ Resolves(i)
                                  /\ Fades(i) \/ ~Waits(i)',
           \A n \in DOMAIN rows' \ DOMAIN rows :
               /\ rows'[n].status = "ACTIVE" => ~Waits(n)'
               /\ \A q \in rows'[n].preds : q.row \in DOMAIN rows /\ ~Waits(q.row),
           \A q \in pruner'.back : q.row \in DOMAIN rows /\ ~Waits(q.row),
           \A i \in approval'.todo : i \in DOMAIN rows /\ ~Waits(i)
    PROVE  NobodyWaits'
<1>1. \A i \in DOMAIN rows : ~Waits(i) => ~Waits(i)' /\ i \in DOMAIN rows'
    BY WaitedBefore
<1>2. ASSUME NEW i \in Active' PROVE ~Waits(i)'
  <2>1. i \in DOMAIN rows' /\ rows'[i].status = "ACTIVE"
      BY DEF Active
  <2>2. CASE i \in DOMAIN rows /\ Fades(i)
    <3>1. i \in Active
        BY <2>1, <2>2 DEF Fades, Active
    <3> QED
        BY <1>1, <2>2, <3>1 DEF NobodyWaits
  <2> QED
      BY <2>1, <2>2
<1>3. ASSUME NEW i \in DOMAIN rows', NEW q \in rows'[i].preds PROVE ~Waits(q.row)'
  <2>1. CASE i \in DOMAIN rows
    <3>1. q \in rows[i].preds
        BY <1>3, <2>1 DEF Resolves
    <3> QED
        BY <1>1, <2>1, <3>1 DEF NobodyWaits, IInv, PredecessorsExist
  <2>2. CASE i \notin DOMAIN rows
      BY <1>1, <1>3, <2>2
  <2> QED
      BY <2>1, <2>2
<1> QED
    BY <1>1, <1>2, <1>3 DEF NobodyWaits

LEMMA FiniteUnion ==
    ASSUME NEW S, IsFiniteSet(S), NEW f, \A i \in S : IsFiniteSet(f[i])
    PROVE  IsFiniteSet(UNION {f[i] : i \in S})
<1> DEFINE T == {f[i] : i \in S}
           g == [i \in S |-> f[i]]
<1>1. IsFiniteSet(T)
  <2>1. g \in Surjection(S, T)
      BY DEF Surjection
  <2> QED
      BY <2>1, FS_Surjection DEF ExistsSurjection
<1> QED
    BY <1>1, FS_UNION

\* A flip whose reviews nobody touches stays as corroborated as it was.
LEMMA StillCorroborated ==
    ASSUME IInv, FlipsAreCorroborated, Heard', DOMAIN rows \subseteq DOMAIN rows',
           \A i \in DOMAIN rows : Remembers(i),
           NEW j \in DOMAIN rows, Settled(j)' = Settled(j), Settled(j) # {}
    PROVE  /\ \A i \in Settled(j) : rows'[i].obj = rows'[j].obj
           /\ Cardinality(rows'[j].seen \cup UNION {rows'[i].seen : i \in Settled(j)}) >= Required
<1> DEFINE S == Settled(j)
           f == [i \in S |-> rows'[i].seen]
           A == rows[j].seen \cup UNION {rows[i].seen : i \in S}
           B == rows'[j].seen \cup UNION {f[i] : i \in S}
<1>1. S \subseteq DOMAIN rows
    BY DEF Settled
<1>2. /\ \A i \in S : rows[i].obj = rows[j].obj
      /\ Cardinality(A) >= Required
    BY DEF FlipsAreCorroborated
<1>3. \A i \in DOMAIN rows : rows'[i].obj = rows[i].obj /\ rows[i].seen \subseteq rows'[i].seen
    BY DEF Remembers
<1>4. A \subseteq B
    BY <1>1, <1>3
<1>5. IsFiniteSet(B)
  <2>1. IsFiniteSet(S)
      BY <1>1, RowsAreNumbered DEF IInv, TypeOK
  <2>2. \A i \in S : IsFiniteSet(f[i])
      BY <1>1 DEF Heard
  <2>3. IsFiniteSet(rows'[j].seen)
      BY DEF Heard
  <2> HIDE DEF f, S
  <2>4. IsFiniteSet(UNION {f[i] : i \in S})
      BY <2>1, <2>2, FiniteUnion
  <2> QED
      BY <2>3, <2>4, FS_Union
<1>6. Cardinality(B) >= Required
  <2> HIDE DEF A, B
  <2> QED
      BY <1>2, <1>4, <1>5, MoreObservers
<1>7. B = rows'[j].seen \cup UNION {rows'[i].seen : i \in S}
    OBVIOUS
<1> HIDE DEF B
<1> QED
    BY <1>1, <1>2, <1>3, <1>6, <1>7

\* What a step other than a flip does to a row.
Spared(i) ==
    /\ i \in DOMAIN rows' /\ Resolves(i) /\ Remembers(i) /\ SettledAsBefore(i)
    /\ Fades(i) \/ ~Waits(i)'

\* What it may add to the slot: a row that repeats no parked statement.
Fresh(n) ==
    /\ IsFiniteSet(rows'[n].seen)
    /\ Waits(n)' => \E e \in Episodes : /\ rows'[n].seen = {e} /\ said[e] = Unsaid
                                        /\ said'[e] # Unsaid
    /\ rows'[n].status = "ACTIVE" => ~Waits(n)'
    /\ \A q \in rows'[n].preds : q.row \in DOMAIN rows /\ ~Waits(q.row)

Undisturbed ==
    /\ \A e \in Episodes : said[e] # Unsaid => said'[e] # Unsaid
    /\ \A q \in pruner'.back : q.row \in DOMAIN rows /\ ~Waits(q.row)
    /\ \A i \in approval'.todo : i \in DOMAIN rows /\ ~Waits(i)

Corroborated == NobodyWaits /\ Heard /\ Answered /\ FlipsAreCorroborated

LEMMA StillAnswered ==
    ASSUME Answered, NEW n, DOMAIN rows' \subseteq DOMAIN rows \cup {n},
           \A i \in DOMAIN rows : Spared(i),
           n \in DOMAIN rows' \ DOMAIN rows => rows'[n].review # "corroborated"
    PROVE  /\ Answered' /\ \A j \in DOMAIN rows : Settled(j)' = Settled(j)
           /\ \A j \in DOMAIN rows' \ DOMAIN rows : Settled(j)' = {}
<1>1. ASSUME NEW i \in DOMAIN rows', rows'[i].review = "corroborated"
      PROVE  /\ i \in DOMAIN rows /\ rows[i].review = "corroborated"
             /\ rows'[i].by = rows[i].by /\ rows[i].by \in DOMAIN rows
             /\ rows'[i].gate = rows[i].gate
  <2>1. i \in DOMAIN rows
      BY <1>1
  <2>2. SettledAsBefore(i) /\ Resolves(i)
      BY <2>1 DEF Spared
  <2> QED
      BY <1>1, <2>1, <2>2 DEF SettledAsBefore, Resolves, Answered
<1>2. \A i \in DOMAIN rows : i \in DOMAIN rows'
    BY DEF Spared
<1>3. \A i \in DOMAIN rows : rows[i].review = "corroborated" =>
          rows'[i].review = "corroborated" /\ rows'[i].by = rows[i].by
  <2>1. \A i \in DOMAIN rows : SettledAsBefore(i)
      BY DEF Spared
  <2> QED
      BY <2>1 DEF SettledAsBefore
<1>4. Answered'
    BY <1>1, <1>2 DEF Answered
<1>5. \A j \in DOMAIN rows : Settled(j)' = Settled(j)
    BY <1>1, <1>2, <1>3 DEF Settled
<1>6. \A j \in DOMAIN rows' \ DOMAIN rows : Settled(j)' = {}
    BY <1>1 DEF Settled
<1> QED
    BY <1>4, <1>5, <1>6

LEMMA SparedKeeps ==
    ASSUME IInv, Corroborated, Undisturbed, NEW n, DOMAIN rows' \subseteq DOMAIN rows \cup {n},
           \A i \in DOMAIN rows : Spared(i),
           n \in DOMAIN rows' \ DOMAIN rows => Fresh(n) /\ rows'[n].review # "corroborated"
    PROVE  Corroborated'
<1>0. NobodyWaits /\ Heard /\ Answered /\ FlipsAreCorroborated
    BY DEF Corroborated
<1>1. /\ \A i \in DOMAIN rows : i \in DOMAIN rows' /\ Resolves(i) /\ Remembers(i)
      /\ \A i \in DOMAIN rows : Fades(i) \/ ~Waits(i)'
    BY DEF Spared
<1>2. NobodyWaits'
  <2>1. \A k \in DOMAIN rows' \ DOMAIN rows :
           /\ rows'[k].status = "ACTIVE" => ~Waits(k)'
           /\ \A q \in rows'[k].preds : q.row \in DOMAIN rows /\ ~Waits(q.row)
      BY DEF Fresh
  <2> QED
      BY <1>0, <1>1, <2>1, StillNobodyWaits DEF Undisturbed
<1>3. Heard'
    BY <1>0, <1>1, StillHeard DEF Undisturbed, Fresh
<1>4. /\ Answered' /\ \A j \in DOMAIN rows : Settled(j)' = Settled(j)
      /\ \A j \in DOMAIN rows' \ DOMAIN rows : Settled(j)' = {}
    BY <1>0, StillAnswered
<1>5. FlipsAreCorroborated'
  <2> SUFFICES ASSUME NEW j \in DOMAIN rows', Settled(j)' # {}
               PROVE  /\ \A i \in Settled(j)' : rows'[i].obj = rows'[j].obj
                      /\ Cardinality(rows'[j].seen \cup UNION {rows'[i].seen : i \in Settled(j)'})
                            >= Required
      BY DEF FlipsAreCorroborated
  <2>1. j \in DOMAIN rows /\ Settled(j)' = Settled(j)
      BY <1>4
  <2>2. /\ \A i \in Settled(j) : rows'[i].obj = rows'[j].obj
        /\ Cardinality(rows'[j].seen \cup UNION {rows'[i].seen : i \in Settled(j)}) >= Required
    <3>1. DOMAIN rows \subseteq DOMAIN rows' /\ \A i \in DOMAIN rows : Remembers(i)
        BY <1>1
    <3> QED
        BY <1>0, <1>3, <2>1, <3>1, StillCorroborated
  <2> QED
      BY <2>1, <2>2
<1> QED
    BY <1>2, <1>3, <1>4, <1>5 DEF Corroborated

\* A step that rewrites one row, or none.
LEMMA Amending ==
    ASSUME IInv, Corroborated, Undisturbed, NEW i, NEW r, rows' = [rows EXCEPT ![i] = r],
           i \in DOMAIN rows =>
               /\ r \in Row /\ r.preds = rows[i].preds /\ r.gate = rows[i].gate
               /\ r.obj = rows[i].obj /\ r.seen = rows[i].seen
               /\ \/ r.review = rows[i].review
                  \/ Pending(i) /\ r.review \in {"approved", "rejected"}
               /\ r.by = rows[i].by \/ ~Waits(i) \/ r.review # rows[i].review
               /\ \/ r.status # "ACTIVE" \/ r.review = "approved"
                  \/ r.status = rows[i].status /\ r.to = rows[i].to
    PROVE  Corroborated'
<1>1. /\ DOMAIN rows' = DOMAIN rows
      /\ \A j \in DOMAIN rows : rows'[j] = IF j = i THEN r ELSE rows[j]
    BY UpdateGrows
<1>2. ASSUME NEW j \in DOMAIN rows PROVE Spared(j)
  <2>1. CASE j # i
      BY <1>1, <2>1 DEF Spared, Resolves, Remembers, SettledAsBefore, Fades
  <2>2. CASE j = i
    <3>1. rows'[i] = r /\ i \in DOMAIN rows /\ i \in DOMAIN rows'
        BY <1>1, <2>2
    <3>2. Resolves(i) /\ Remembers(i)
        BY <3>1 DEF Resolves, Remembers
    <3>3. SettledAsBefore(i)
        BY <3>1 DEF SettledAsBefore, Pending, Waits, Corroborated, Answered
    <3>4. Fades(i) \/ ~Waits(i)'
        BY <3>1 DEF Fades, Waits
    <3> QED
        BY <2>2, <3>1, <3>2, <3>3, <3>4 DEF Spared
  <2> QED
      BY <2>1, <2>2
<1> QED
    BY <1>1, <1>2, SparedKeeps

LEMMA RowsUntouched ==
    ASSUME IInv, Corroborated, Undisturbed, rows' = rows
    PROVE  Corroborated'
<1>1. \A j \in DOMAIN rows : Spared(j)
    BY DEF Spared, Resolves, Remembers, SettledAsBefore, Fades
<1> QED
    BY <1>1, SparedKeeps

LEMMA OldestOf == ASSUME NEW S \in SUBSET Nat, S # {} PROVE Oldest(S) \in S
<1> DEFINE less == OpToRel(<, Nat)
<1>1. PICK i \in S : \A j \in S : <<j, i>> \notin less
  <2>1. IsWellFoundedOn(less, Nat)
      BY NatLessThanWellFounded
  <2> HIDE DEF less
  <2> QED
      BY <2>1, WFMin
<1>2. \A j \in S : ~(j < i)
    BY <1>1 DEF OpToRel
<1>3. \A j \in S : i <= j
    BY <1>2
<1> QED
    BY <1>3 DEF Oldest

LEMMA ReinforceKeepsFlips ==
    ASSUME IInv, Corroborated, Undisturbed, NEW e \in Episodes,
           NEW m \in Statements, Reinforce(e, m)
    PROVE  Corroborated'
<1> DEFINE i == Oldest(Restated(m))
<1>1. i \in Active
  <2>1. Restated(m) \in SUBSET Nat /\ Restated(m) \subseteq Active
      BY MetRows DEF IInv
  <2> QED
      BY <2>1, OldestOf DEF Reinforce
<1> HIDE DEF i
<1>2. /\ DOMAIN rows' = DOMAIN rows
      /\ \A j \in DOMAIN rows : rows'[j] = IF j = i THEN Reinforced(rows[j], e, m) ELSE rows[j]
    BY ReinforceGrows DEF i
<1>3. ASSUME NEW j \in DOMAIN rows PROVE Spared(j)
  <2>1. CASE j # i
      BY <1>2, <2>1 DEF Spared, Resolves, Remembers, SettledAsBefore, Fades
  <2>2. CASE j = i
    <3>1. rows[j] \in Row /\ rows'[j] = Reinforced(rows[j], e, m)
        BY <1>2, <2>2, RowsOf
    <3>2. /\ rows'[j].gate = rows[j].gate /\ rows'[j].preds = rows[j].preds
          /\ rows'[j].review = rows[j].review /\ rows'[j].by = rows[j].by
          /\ rows'[j].obj = rows[j].obj /\ rows'[j].seen = rows[j].seen \cup {e}
          /\ rows'[j].status = rows[j].status /\ rows'[j].to = rows[j].to
        BY <3>1 DEF Reinforced, Row
    <3> QED
        BY <1>1, <1>2, <2>2, <3>2 DEF Spared, Resolves, Remembers, SettledAsBefore, Fades
  <2> QED
      BY <2>1, <2>2
<1> QED
    BY <1>2, <1>3, SparedKeeps

\* A statement filed or parked repeats none, because its episode is new.
LEMMA SetAsideKeepsFlips ==
    ASSUME IInv, Corroborated, Undisturbed, NEW e \in Episodes, NEW m \in Statements,
           FileAsHistory(e, m) \/ Park(e, m), said[e] = Unsaid, said'[e] # Unsaid
    PROVE  Corroborated'
<1> PICK n : n = Len(rows) + 1
    OBVIOUS
<1>1. /\ DOMAIN rows' = DOMAIN rows \cup {n} /\ \A i \in DOMAIN rows : rows'[i] = rows[i]
      /\ rows'[n].status = "SUPERSEDED" /\ rows'[n].preds = {}
      /\ rows'[n].review = "none" /\ rows'[n].seen = {e}
    BY FileGrows, ParkGrows
<1>2. \A j \in DOMAIN rows : Spared(j)
    BY <1>1 DEF Spared, Resolves, Remembers, SettledAsBefore, Fades
<1>3. Fresh(n)
  <2>1. IsFiniteSet(rows'[n].seen)
    <3>1. rows'[n].seen = {e} /\ IsFiniteSet({e})
        BY <1>1, FS_Singleton
    <3> QED
        BY <3>1
  <2>2. \E x \in Episodes : rows'[n].seen = {x} /\ said[x] = Unsaid /\ said'[x] # Unsaid
      BY <1>1
  <2>3. rows'[n].status # "ACTIVE"
      BY <1>1
  <2>4. \A q \in rows'[n].preds : q.row \in DOMAIN rows /\ ~Waits(q.row)
      BY <1>1
  <2> QED
      BY <2>1, <2>2, <2>3, <2>4 DEF Fresh
<1> QED
    BY <1>1, <1>2, <1>3, SparedKeeps

\* Nothing that waits is current truth, or settled, or about to be superseded.
LEMMA ActiveDoesNotWait ==
    ASSUME Corroborated, NEW i \in Active
    PROVE  ~Waits(i) /\ rows[i].review # "corroborated"
<1>1. ~Waits(i) /\ i \in DOMAIN rows
    BY DEF Corroborated, NobodyWaits, Active
<1> QED
    BY <1>1 DEF Corroborated, Answered, Waits

\* What the newcomer settles, and what it leaves as it was.
LEMMA TakenReviews ==
    ASSUME IInv, Corroborated, NEW e \in Episodes, NEW m \in Statements, Take(e, m)
    PROVE  LET new == Len(rows) + 1
           IN  /\ DOMAIN rows' = DOMAIN rows \cup {new} /\ new \notin DOMAIN rows
               /\ \A i \in DOMAIN rows :
                     /\ i \in DOMAIN rows' /\ Resolves(i) /\ Remembers(i) /\ Fades(i)
                     /\ rows'[i].seen = rows[i].seen /\ rows'[i].obj = rows[i].obj
               /\ \/ \A i \in DOMAIN rows : SettledAsBefore(i)
                  \/ /\ Votes(m) >= Required
                     /\ \A i \in DOMAIN rows :
                           IF i \in Corroborating(m)
                           THEN rows'[i].review = "corroborated" /\ rows'[i].by = new
                           ELSE SettledAsBefore(i)
               /\ rows'[new].status = "ACTIVE" /\ rows'[new].gate = "none"
               /\ rows'[new].obj = m.obj /\ rows'[new].seen = {e} /\ rows'[new].review = "none"
               /\ \A q \in rows'[new].preds : q.row \in Active
<1> DEFINE new == Len(rows) + 1
<1>1. DOMAIN rows' = DOMAIN rows \cup {new} /\ new \notin DOMAIN rows
  <2>1. DOMAIN rows = 1..Len(rows) /\ Len(rows) \in Nat
      BY RowsAreNumbered DEF IInv, TypeOK
  <2>2. DOMAIN rows' = DOMAIN rows \cup {new}
      BY TakeGrows
  <2> QED
      BY <2>1, <2>2
<1>2. Contradictions(m) = Active /\ \A i \in DOMAIN rows : Resolves(i) /\ Fades(i)
    BY Taking, TakenRows DEF FormOutcome
<1>3. \A i \in Active : /\ rows'[i] = Yields(i, m) /\ rows[i] \in Row
                        /\ rows[i].review # "corroborated"
    BY <1>2, TakeGrows, RowsOf, ActiveDoesNotWait
<1>4. \A i \in Active : /\ rows'[i].obj = rows[i].obj /\ rows'[i].seen = rows[i].seen
                        /\ rows'[i].review = rows[i].review
    BY <1>3 DEF Yields, Superseded, Row
<1>5. ASSUME NEW i \in DOMAIN rows \ Active,
             rows'[i] = [rows[i] EXCEPT !.by = new, !.review = "corroborated"]
      PROVE  /\ rows'[i].obj = rows[i].obj /\ rows'[i].seen = rows[i].seen
             /\ rows'[i].by = new /\ rows'[i].review = "corroborated"
  <2>1. rows[i] \in Row
      BY RowsOf
  <2> HIDE DEF new
  <2> QED
      BY <1>5, <2>1 DEF Row
<1>6. ASSUME NEW i \in DOMAIN rows
      PROVE  rows'[i].seen = rows[i].seen /\ rows'[i].obj = rows[i].obj /\ Remembers(i)
  <2>1. rows'[i].seen = rows[i].seen /\ rows'[i].obj = rows[i].obj
      BY <1>2, <1>4, <1>5, TakeGrows
  <2> QED
      BY <2>1 DEF Remembers
<1>7. \A i \in Active : SettledAsBefore(i) /\ i \notin Corroborating(m)
    BY <1>3, <1>4 DEF SettledAsBefore, Corroborating, Active
<1>8. \A i \in DOMAIN rows : rows'[i] = rows[i] => SettledAsBefore(i)
    BY DEF SettledAsBefore
<1>9. \/ \A i \in DOMAIN rows : SettledAsBefore(i)
      \/ /\ Votes(m) >= Required
         /\ \A i \in DOMAIN rows :
               IF i \in Corroborating(m)
               THEN rows'[i].review = "corroborated" /\ rows'[i].by = new
               ELSE SettledAsBefore(i)
  <2>1. CASE \A i \in DOMAIN rows \ Contradictions(m) : rows'[i] = rows[i]
      BY <1>2, <1>7, <1>8, <2>1
  <2>2. CASE /\ Votes(m) >= Required
             /\ \A i \in Corroborating(m) \ Contradictions(m) :
                   rows'[i] = [rows[i] EXCEPT !.by = new, !.review = "corroborated"]
    <3>1. ASSUME NEW i \in DOMAIN rows \ Active, i \notin Corroborating(m)
          PROVE  SettledAsBefore(i)
        BY <1>2, <1>8, <3>1, TakeGrows
    <3>2. ASSUME NEW i \in DOMAIN rows \ Active, i \in Corroborating(m)
          PROVE  rows'[i].review = "corroborated" /\ rows'[i].by = new
        BY <1>2, <1>5, <2>2, <3>2
    <3> HIDE DEF new
    <3> QED
        BY <1>7, <2>2, <3>1, <3>2
  <2> QED
      BY <2>1, <2>2, TakeGrows
<1>10. /\ rows'[new].status = "ACTIVE" /\ rows'[new].gate = "none"
       /\ rows'[new].obj = m.obj /\ rows'[new].seen = {e} /\ rows'[new].review = "none"
       /\ rows'[new].preds = Predecessors(m)
  <2> DEFINE P == Predecessors(m)
  <2>1. rows'[new] = [New(e, m) EXCEPT !.preds = P]
      BY TakeGrows
  <2> HIDE DEF P, new
  <2>2. /\ rows'[new].status = "ACTIVE" /\ rows'[new].gate = "none"
        /\ rows'[new].obj = m.obj /\ rows'[new].seen = {e} /\ rows'[new].review = "none"
        /\ rows'[new].preds = P
      BY <2>1 DEF New
  <2> QED
      BY <2>2 DEF P
<1>11. \A q \in rows'[new].preds : q.row \in Active
    BY <1>2, <1>10 DEF Predecessors
<1> HIDE DEF new
<1>12. /\ DOMAIN rows' = DOMAIN rows \cup {new} /\ new \notin DOMAIN rows
       /\ \A i \in DOMAIN rows :
             /\ i \in DOMAIN rows' /\ Resolves(i) /\ Remembers(i) /\ Fades(i)
             /\ rows'[i].seen = rows[i].seen /\ rows'[i].obj = rows[i].obj
    BY <1>1, <1>2, <1>6
<1> QED
    BY <1>9, <1>10, <1>11, <1>12 DEF new

\* The newcomer is corroborated by what it settles: each statement was heard in
\* an episode of its own, and none in the newcomer's.
LEMMA VotesAreEpisodes ==
    ASSUME IInv, Corroborated, NEW m \in Statements, NEW e \in Episodes, said[e] = Unsaid
    PROVE  /\ Corroborating(m) \subseteq DOMAIN rows
           /\ \A i \in Corroborating(m) : /\ rows[i].obj = m.obj /\ Pending(i)
                                          /\ IsFiniteSet(rows[i].seen)
           /\ Cardinality({e} \cup UNION {rows[i].seen : i \in Corroborating(m)}) = Votes(m)
<1> DEFINE S == Corroborating(m)
           f == [i \in S |-> rows[i].seen]
           U == UNION {f[i] : i \in S}
<1>1. S \subseteq DOMAIN rows /\ \A i \in S : rows[i].obj = m.obj /\ Pending(i) /\ Waits(i)
    BY DEF Corroborating, Pending, Waits
<1>2. IsFiniteSet(S)
    BY <1>1, RowsAreNumbered DEF IInv, TypeOK
<1>3. /\ \A i \in S : \E d \in Episodes : rows[i].seen = {d} /\ said[d] # Unsaid
      /\ \A i \in S : IsFiniteSet(rows[i].seen)
      /\ \A i, j \in S : rows[i].seen = rows[j].seen => i = j
    BY <1>1 DEF Corroborated, Heard
<1> HIDE DEF S
<1>4. /\ \A i \in S : \E d : f[i] = {d}
      /\ \A i, j \in S : f[i] = f[j] => i = j
    BY <1>3
<1>5. e \notin U
    BY <1>3
<1>6. IsFiniteSet(U) /\ Cardinality(U) = Cardinality(S)
  <2> HIDE DEF f
  <2> QED
      BY <1>2, <1>4, OneEach
<1>7. Cardinality(U \cup {e}) = Cardinality(S) + 1
  <2> HIDE DEF U
  <2> QED
      BY <1>5, <1>6, FS_AddElement
<1>8. U \cup {e} = {e} \cup UNION {rows[i].seen : i \in S}
    OBVIOUS
<1> HIDE DEF U
<1>9. Cardinality({e} \cup UNION {rows[i].seen : i \in S}) = Votes(m)
    BY <1>7, <1>8 DEF Votes, S
<1> QED
    BY <1>1, <1>3, <1>9 DEF S

LEMMA FlippingIsCorroborated ==
    ASSUME IInv, Corroborated, NEW e \in Episodes, NEW m \in Statements, Take(e, m),
           NEW new, new = Len(rows) + 1,
           said[e] = Unsaid, Votes(m) >= Required, Heard',
           \A i \in DOMAIN rows :
              IF i \in Corroborating(m)
              THEN rows'[i].review = "corroborated" /\ rows'[i].by = new
              ELSE SettledAsBefore(i)
    PROVE  Answered' /\ FlipsAreCorroborated'
<1> DEFINE C == Corroborating(m)
<1>1. /\ DOMAIN rows' = DOMAIN rows \cup {new} /\ new \notin DOMAIN rows
      /\ \A i \in DOMAIN rows : /\ Resolves(i) /\ Remembers(i)
                                /\ rows'[i].seen = rows[i].seen /\ rows'[i].obj = rows[i].obj
      /\ rows'[new].obj = m.obj /\ rows'[new].seen = {e} /\ rows'[new].review = "none"
    BY TakenReviews
<1>2. /\ C \subseteq DOMAIN rows /\ \A i \in C : rows[i].obj = m.obj /\ Pending(i)
      /\ Cardinality({e} \cup UNION {rows[i].seen : i \in C}) = Votes(m)
    BY VotesAreEpisodes
<1>3. Answered /\ FlipsAreCorroborated
    BY DEF Corroborated
<1>4. /\ \A i \in C : rows'[i].review = "corroborated" /\ rows'[i].by = new
      /\ \A i \in DOMAIN rows \ C : SettledAsBefore(i)
    BY <1>2
<1> HIDE DEF C
<1>5. Answered'
  <2> SUFFICES ASSUME NEW i \in DOMAIN rows', rows'[i].review = "corroborated"
               PROVE  rows'[i].gate # "none" /\ rows'[i].by \in DOMAIN rows'
      BY DEF Answered
  <2>1. i \in DOMAIN rows
      BY <1>1
  <2>2. CASE i \in C
      BY <1>1, <1>2, <1>4, <2>1, <2>2 DEF Resolves, Pending
  <2>3. CASE i \notin C
    <3>1. SettledAsBefore(i) /\ Resolves(i)
        BY <1>1, <1>4, <2>1, <2>3
    <3> QED
        BY <1>1, <1>3, <2>1, <3>1 DEF SettledAsBefore, Resolves, Answered
  <2> QED
      BY <2>2, <2>3
<1>6. ASSUME NEW j \in DOMAIN rows PROVE Settled(j)' = Settled(j)
  <2>1. ASSUME NEW i \in C PROVE i \notin Settled(j)' /\ i \notin Settled(j)
      BY <1>1, <1>2, <1>4, <2>1 DEF Settled, Pending
  <2>2. ASSUME NEW i \in DOMAIN rows \ C PROVE i \in Settled(j)' <=> i \in Settled(j)
    <3>1. SettledAsBefore(i)
        BY <1>4
    <3> QED
        BY <1>1, <3>1 DEF SettledAsBefore, Settled
  <2>3. \A i \in Settled(j)' \cup Settled(j) : i \in DOMAIN rows
      BY <1>1 DEF Settled
  <2> QED
      BY <2>1, <2>2, <2>3
<1>7. Settled(new)' = C
  <2>1. C \subseteq Settled(new)'
      BY <1>1, <1>2, <1>4 DEF Settled
  <2>2. ASSUME NEW i \in Settled(new)', i \notin C PROVE FALSE
    <3>1. i \in DOMAIN rows /\ rows'[i].review = "corroborated" /\ rows'[i].by = new
        BY <1>1 DEF Settled
    <3>2. SettledAsBefore(i)
        BY <1>4, <2>2, <3>1
    <3> QED
        BY <1>1, <1>3, <3>1, <3>2 DEF SettledAsBefore, Answered
  <2> QED
      BY <2>1, <2>2
<1>8. FlipsAreCorroborated'
  <2> SUFFICES ASSUME NEW j \in DOMAIN rows', Settled(j)' # {}
               PROVE  /\ \A i \in Settled(j)' : rows'[i].obj = rows'[j].obj
                      /\ Cardinality(rows'[j].seen \cup UNION {rows'[i].seen : i \in Settled(j)'})
                            >= Required
      BY DEF FlipsAreCorroborated
  <2>1. CASE j \in DOMAIN rows
    <3>1. /\ \A i \in Settled(j) : rows'[i].obj = rows'[j].obj
          /\ Cardinality(rows'[j].seen \cup UNION {rows'[i].seen : i \in Settled(j)}) >= Required
        BY <1>1, <1>3, <1>6, <2>1, StillCorroborated
    <3> QED
        BY <1>6, <2>1, <3>1
  <2>2. CASE j = new
    <3>1. \A i \in C : rows'[i].seen = rows[i].seen /\ rows'[i].obj = m.obj
        BY <1>1, <1>2
    <3>2. {rows'[i].seen : i \in C} = {rows[i].seen : i \in C}
        BY <3>1
    <3>3. Cardinality(rows'[new].seen \cup UNION {rows'[i].seen : i \in C}) >= Required
        BY <1>1, <1>2, <3>2
    <3> QED
        BY <1>1, <1>7, <2>2, <3>1, <3>3
  <2> QED
      BY <1>1, <2>1, <2>2
<1> QED
    BY <1>5, <1>8

LEMMA TakeKeepsFlips ==
    ASSUME IInv, Corroborated, Undisturbed, NEW e \in Episodes, NEW m \in Statements, Take(e, m),
           said[e] = Unsaid
    PROVE  Corroborated'
<1>1. PICK new : new = Len(rows) + 1
    OBVIOUS
<1>2. /\ DOMAIN rows' = DOMAIN rows \cup {new} /\ new \notin DOMAIN rows
      /\ \A i \in DOMAIN rows : i \in DOMAIN rows' /\ Resolves(i) /\ Remembers(i) /\ Fades(i)
      /\ rows'[new].status = "ACTIVE" /\ rows'[new].gate = "none"
      /\ rows'[new].seen = {e} /\ rows'[new].review = "none"
      /\ \A q \in rows'[new].preds : q.row \in Active
    BY <1>1, TakenReviews
<1>3. Fresh(new)
  <2>1. ~Waits(new)'
      BY <1>2 DEF Waits
  <2>2. \A q \in rows'[new].preds : q.row \in DOMAIN rows /\ ~Waits(q.row)
      BY <1>2, ActiveDoesNotWait DEF Active
  <2>3. IsFiniteSet(rows'[new].seen)
      BY <1>2, FS_Singleton, ZenonT(40)
  <2> QED
      BY <2>1, <2>2, <2>3 DEF Fresh
<1>4. CASE \A i \in DOMAIN rows : SettledAsBefore(i)
    BY <1>2, <1>3, <1>4, SparedKeeps DEF Spared
<1>5. CASE /\ Votes(m) >= Required
           /\ \A i \in DOMAIN rows :
                 IF i \in Corroborating(m)
                 THEN rows'[i].review = "corroborated" /\ rows'[i].by = new
                 ELSE SettledAsBefore(i)
  <2>1. NobodyWaits /\ Heard
      BY DEF Corroborated
  <2>2. NobodyWaits'
    <3>1. \A k \in DOMAIN rows' \ DOMAIN rows :
             /\ rows'[k].status = "ACTIVE" => ~Waits(k)'
             /\ \A q \in rows'[k].preds : q.row \in DOMAIN rows /\ ~Waits(q.row)
        BY <1>2, <1>3 DEF Fresh
    <3> QED
        BY <1>2, <2>1, <3>1, StillNobodyWaits DEF Undisturbed
  <2>3. Heard'
      BY <1>2, <1>3, <2>1, StillHeard DEF Undisturbed, Fresh
  <2>4. Answered' /\ FlipsAreCorroborated'
      BY <1>1, <1>5, <2>3, FlippingIsCorroborated
  <2> QED
      BY <2>2, <2>3, <2>4 DEF Corroborated
<1> QED
    BY <1>1, <1>4, <1>5, TakenReviews

LEMMA FormKeepsFlips ==
    ASSUME MaxRepeats = 0, IInv, Corroborated, Form
    PROVE  Corroborated'
<1>1. PICK e \in Episodes, m \in Statements : Materialize(e, m)
    BY DEF Form
<1>2. said[e] = Unsaid /\ said' = [said EXCEPT ![e] = m] /\ m # Unsaid
  <2>1. ~(repeats < MaxRepeats)
      BY DEF IInv, TypeOK
  <2> QED
      BY <1>1, <2>1, StatementAssumption DEF Materialize
<1>3. said'[e] # Unsaid /\ \A d \in Episodes : said[d] # Unsaid => said'[d] # Unsaid
    BY <1>2 DEF IInv, TypeOK
<1>4. Undisturbed
  <2>1. UNCHANGED <<pruner, approval>>
      BY <1>1 DEF Materialize
  <2>2. \A q \in pruner.back : q.row \in DOMAIN rows
      BY DEF IInv, PlanRefers
  <2> QED
      BY <1>3, <2>1, <2>2 DEF Undisturbed, Corroborated, NobodyWaits
<1> QED
    BY <1>1, <1>2, <1>3, <1>4, ReinforceKeepsFlips, SetAsideKeepsFlips, TakeKeepsFlips
    DEF Materialize

\* What the other steps leave to be done with the slot.
LEMMA OthersUndisturbed ==
    ASSUME IInv, Corroborated, said' = said,
           \/ pruner'.back \subseteq pruner.back
           \/ \E p \in pruner.plan : pruner'.back = Restorable(p),
           approval'.todo \subseteq approval.todo \cup Active
    PROVE  Undisturbed
<1>1. \A q \in pruner.back : q.row \in DOMAIN rows /\ ~Waits(q.row)
    BY DEF IInv, PlanRefers, Corroborated, NobodyWaits
<1>2. ASSUME NEW p \in pruner.plan, NEW q \in Restorable(p)
      PROVE  q.row \in DOMAIN rows /\ ~Waits(q.row)
  <2>1. p.row \in DOMAIN rows /\ q.row \in DOMAIN rows
      BY RestorableTyped DEF IInv, PlanRefers
  <2>2. q \in rows[p.row].preds
      BY DEF Restorable
  <2> QED
      BY <2>1, <2>2 DEF Corroborated, NobodyWaits
<1>3. \A i \in approval.todo \cup Active : i \in DOMAIN rows /\ ~Waits(i)
    BY ActiveDoesNotWait DEF Corroborated, NobodyWaits, Active
<1> QED
    BY <1>1, <1>2, <1>3 DEF Undisturbed

LEMMA ApproveKeepsFlips ==
    ASSUME IInv, ApprovalAlone, Corroborated, Approve
    PROVE  Corroborated'
<1>0. TypeOK
    BY DEF IInv
<1>1. CASE ApproveSupersede
  <2> DEFINE i == Oldest(approval.todo)
             r == Superseded(rows[i], approval.row, now)
  <2>1. /\ rows' = [rows EXCEPT ![i] = r] /\ said' = said /\ pruner' = pruner
        /\ approval' = [approval EXCEPT !.todo = approval.todo \ {i}]
      BY <1>1 DEF ApproveSupersede
  <2>2. i \in DOMAIN rows /\ ~Waits(i)
    <3>1. approval.todo \in SUBSET Nat /\ approval.todo # {}
        BY <1>0, <1>1 DEF TypeOK, ApproveSupersede
    <3>2. i \in approval.todo
        BY <3>1, OldestOf
    <3> QED
        BY <3>2 DEF Corroborated, NobodyWaits
  <2>3. rows[i] \in Row /\ r \in Row /\ r.preds = rows[i].preds
      BY <1>0, <2>2, RowsOf, OperatorRows DEF TypeOK
  <2>4. /\ r.gate = rows[i].gate /\ r.obj = rows[i].obj /\ r.seen = rows[i].seen
        /\ r.review = rows[i].review /\ r.status # "ACTIVE"
    <3> HIDE DEF i
    <3> QED
        BY <2>3 DEF Superseded, Row
  <2> HIDE DEF i, r
  <2>5. approval'.todo \subseteq approval.todo
      BY <1>0, <2>1 DEF TypeOK
  <2>6. Undisturbed
      BY <2>1, <2>5, OthersUndisturbed
  <2> QED
      BY <2>1, <2>2, <2>3, <2>4, <2>6, Amending
<1>2. CASE ApproveFinish
  <2> DEFINE i == approval.row
             r == Activated(rows[i])
  <2>1. /\ rows' = [rows EXCEPT ![i] = r] /\ said' = said /\ pruner' = pruner
        /\ approval' = NoReview /\ i \in DOMAIN rows /\ Pending(i)
      BY <1>2 DEF ApproveFinish, ApprovalAlone
  <2>2. rows[i] \in Row /\ r \in Row /\ r.preds = rows[i].preds
      BY <2>1, RowsOf, OperatorRows
  <2>3. /\ r.gate = rows[i].gate /\ r.obj = rows[i].obj /\ r.seen = rows[i].seen
        /\ r.review = "approved"
    <3> HIDE DEF i
    <3> QED
        BY <2>2 DEF Activated, Row
  <2> HIDE DEF i, r
  <2>4. Undisturbed
      BY <2>1, OthersUndisturbed DEF NoReview
  <2> QED
      BY <2>1, <2>2, <2>3, <2>4, Amending DEF Pending
<1> QED
    BY <1>1, <1>2 DEF Approve

LEMMA OperateKeepsFlips ==
    ASSUME Restorers = {}, IInv, Corroborated, Operate
    PROVE  Corroborated'
<1>1. PICK i \in DOMAIN rows : RejectReview(i) \/ ApproveStart(i) \/ Forget(i)
    BY DEF Operate, Curate
<1>2. CASE ApproveStart(i)
  <2>1. approval'.todo \subseteq Active /\ UNCHANGED <<said, rows, pruner>>
      BY <1>2 DEF ApproveStart
  <2> QED
      BY <2>1, OthersUndisturbed, RowsUntouched
<1>3. CASE RejectReview(i)
  <2> DEFINE r == [rows[i] EXCEPT !.review = "rejected"]
  <2>1. rows' = [rows EXCEPT ![i] = r] /\ Pending(i) /\ UNCHANGED <<said, approval, pruner>>
      BY <1>3 DEF RejectReview
  <2>2. rows[i] \in Row
      BY RowsOf
  <2>3. /\ r \in Row /\ r.preds = rows[i].preds /\ r.gate = rows[i].gate
        /\ r.obj = rows[i].obj /\ r.seen = rows[i].seen /\ r.review = "rejected"
        /\ r.by = rows[i].by /\ r.status = rows[i].status /\ r.to = rows[i].to
      BY <2>2 DEF Row
  <2> HIDE DEF r
  <2>4. Undisturbed
      BY <2>1, OthersUndisturbed
  <2> QED
      BY <2>1, <2>3, <2>4, Amending
<1>4. CASE Forget(i)
  <2> DEFINE r == Retired(rows[i])
  <2>1. rows' = [rows EXCEPT ![i] = r] /\ UNCHANGED <<said, approval, pruner>>
      BY <1>4 DEF Forget
  <2>2. rows[i] \in Row /\ r \in Row /\ r.preds = rows[i].preds
      BY RowsOf, OperatorRows
  <2>3. /\ r.gate = rows[i].gate /\ r.obj = rows[i].obj /\ r.seen = rows[i].seen
        /\ r.review = rows[i].review /\ r.by = rows[i].by /\ r.status # "ACTIVE"
      BY <2>2 DEF Retired, Row
  <2> HIDE DEF r
  <2>4. Undisturbed
      BY <2>1, OthersUndisturbed
  <2> QED
      BY <2>1, <2>2, <2>3, <2>4, Amending
<1> QED
    BY <1>1, <1>2, <1>3, <1>4

\* What is restored never waited: it is a truth again and no observation.
LEMMA RestoreKeepsFlips ==
    ASSUME IInv, Corroborated, SweepRestore
    PROVE  Corroborated'
<1>0. TypeOK
    BY DEF IInv
<1>1. PICK q \in pruner.back :
          rows' = Append([rows EXCEPT ![pruner.held.row] = [@ EXCEPT !.replaced = TRUE]],
                         Restored(pruner.held, q))
    BY DEF SweepRestore
<1>2. PICK new : new = Len(rows) + 1
    OBVIOUS
<1>3. /\ DOMAIN rows' = DOMAIN rows \cup {new} /\ q.row \in DOMAIN rows
      /\ \A i \in DOMAIN rows : rows'[i] \in {rows[i], [rows[i] EXCEPT !.replaced = TRUE]}
      /\ rows'[new] = Restored(pruner.held, q)
    BY <1>1, <1>2, RestoreGrows
<1>4. ASSUME NEW i \in DOMAIN rows PROVE Spared(i)
  <2>1. rows[i] \in Row
      BY RowsOf
  <2>2. /\ rows'[i].gate = rows[i].gate /\ rows'[i].preds = rows[i].preds
        /\ rows'[i].review = rows[i].review /\ rows'[i].by = rows[i].by
        /\ rows'[i].obj = rows[i].obj /\ rows'[i].seen = rows[i].seen
        /\ rows'[i].status = rows[i].status /\ rows'[i].to = rows[i].to
      BY <1>3, <2>1 DEF Row
  <2> QED
      BY <1>3, <2>2 DEF Spared, Resolves, Remembers, SettledAsBefore, Fades
<1>5. ~Waits(q.row) /\ rows[q.row].review # "corroborated" /\ IsFiniteSet(rows[q.row].seen)
    BY <1>3 DEF Corroborated, NobodyWaits, Heard, Answered, Waits
<1>6. /\ rows'[new].gate = rows[q.row].gate /\ rows'[new].review = rows[q.row].review
      /\ rows'[new].preds = rows[q.row].preds /\ rows'[new].seen = rows[q.row].seen
  <2>1. rows[q.row] \in Row
      BY <1>3, RowsOf
  <2> QED
      BY <1>3, <2>1 DEF Restored, Row
<1>7. Fresh(new) /\ rows'[new].review # "corroborated"
  <2>1. ~Waits(new)'
      BY <1>5, <1>6 DEF Waits
  <2>2. \A p \in rows'[new].preds : p.row \in DOMAIN rows /\ ~Waits(p.row)
      BY <1>3, <1>6 DEF IInv, PredecessorsExist, Corroborated, NobodyWaits
  <2>3. IsFiniteSet(rows'[new].seen)
      BY <1>5, <1>6
  <2> QED
      BY <1>5, <1>6, <2>1, <2>2, <2>3 DEF Fresh
<1>8. Undisturbed
  <2>1. pruner'.back = {} /\ UNCHANGED <<said, approval>>
      BY <1>0 DEF SweepRestore, TypeOK
  <2> QED
      BY <2>1, OthersUndisturbed
<1> QED
    BY <1>3, <1>4, <1>7, <1>8, SparedKeeps

LEMMA PruneKeepsFlips ==
    ASSUME IInv, NoRepair, Corroborated, PruneStep
    PROVE  Corroborated'
<1>0. TypeOK
    BY DEF IInv
<1>1. CASE PruneStart \/ SweepStart \/ PruneEnd
  <2>1. pruner'.back = {} /\ UNCHANGED <<said, rows, approval>>
    <3>1. UNCHANGED <<said, rows, approval>>
        BY <1>1 DEF PruneStart, SweepStart, PruneEnd
    <3>2. ASSUME NEW w, NEW t, NEW S,
                 pruner' = [Resting EXCEPT !.stage = "repair", !.at = now, !.winner = w,
                                           !.to = t, !.losers = S]
          PROVE  pruner'.back = {}
        BY <3>2 DEF Resting
    <3>3. pruner' = [Resting EXCEPT !.stage = "repair", !.at = now] => pruner'.back = {}
        BY DEF Resting
    <3>4. ASSUME PruneStart PROVE pruner'.back = {}
      <4>1. \/ pruner' = [Resting EXCEPT !.stage = "repair", !.at = now]
            \/ \E w : pruner' = [Resting EXCEPT !.stage = "repair", !.at = now, !.winner = w,
                                                !.to = rows[w].from,
                                                !.losers = Current(now) \ {w}]
          BY <3>4 DEF PruneStart
      <4> QED
          BY <3>2, <3>3, <4>1
    <3>5. SweepStart => pruner'.back = {}
      <4>1. ASSUME NEW plan,
                   pruner' = [Resting EXCEPT !.stage = "sweep", !.at = pruner.at, !.plan = plan]
            PROVE  pruner'.back = {}
          BY <4>1 DEF Resting
      <4> QED
          BY <4>1 DEF SweepStart
    <3>6. PruneEnd => pruner'.back = {}
        BY DEF PruneEnd, Resting
    <3> QED
        BY <1>1, <3>1, <3>4, <3>5, <3>6
  <2> QED
      BY <2>1, OthersUndisturbed, RowsUntouched
<1>2. CASE SweepTake
  <2>1. /\ UNCHANGED <<said, rows, approval>>
        /\ \E p \in pruner.plan : pruner'.back = Restorable(p)
      BY <1>0, <1>2 DEF SweepTake, TypeOK
  <2> QED
      BY <2>1, OthersUndisturbed, RowsUntouched
<1>3. CASE SweepMark
  <2> DEFINE i == pruner.held.row
             r == Pruned(rows[i], pruner.held.why)
  <2>1. rows' = [rows EXCEPT ![i] = r] /\ UNCHANGED <<said, approval>> /\ pruner'.back = pruner.back
      BY <1>0, <1>3 DEF SweepMark, TypeOK
  <2>2. i \in DOMAIN rows => rows[i] \in Row /\ r \in Row /\ r.preds = rows[i].preds
      BY PrunedTyped, RowsOf
  <2>3. i \in DOMAIN rows =>
            /\ r.gate = rows[i].gate /\ r.obj = rows[i].obj /\ r.seen = rows[i].seen
            /\ r.review = rows[i].review /\ r.by = rows[i].by /\ r.status # "ACTIVE"
    <3> HIDE DEF i
    <3> QED
        BY <2>2 DEF Pruned, Row
  <2> HIDE DEF i, r
  <2>4. Undisturbed
      BY <2>1, OthersUndisturbed
  <2> QED
      BY <2>1, <2>2, <2>3, <2>4, Amending
<1> QED
    BY <1>1, <1>2, <1>3, RestoreKeepsFlips DEF PruneStep, RepairOne, NoRepair

LEMMA StepKeepsFlips ==
    ASSUME Restorers = {}, EarlyCommits => MaxFaults = 0, MaxRepeats = 0,
           SlotInv, NoRepair, Corroborated, [Next]_vars
    PROVE  Corroborated'
<1>0. IInv /\ ApprovalAlone /\ TypeOK
    BY DEF SlotInv, IInv
<1>1. CASE UNCHANGED <<said, rows, approval, pruner>>
    BY <1>0, <1>1, OthersUndisturbed, RowsUntouched
<1>2. CASE Refuse \/ Crash
  <2>1. /\ UNCHANGED <<said, rows>> /\ pruner'.back \subseteq pruner.back
        /\ approval'.todo \subseteq approval.todo
      BY <1>0, <1>2 DEF Refuse, Crash, Resting, NoReview, TypeOK
  <2> QED
      BY <1>0, <2>1, OthersUndisturbed, RowsUntouched
<1>3. ~Tear /\ ~(\E i \in DOMAIN rows : Retrieve(i))
    BY <1>0, NothingTears DEF Retrieve
<1> QED
    BY <1>0, <1>1, <1>2, <1>3, FormKeepsFlips, ApproveKeepsFlips, OperateKeepsFlips, PruneKeepsFlips
    DEF Next, Tick, vars

(* A corroborated incumbent is flipped by Required distinct observations of   *)
(* the challenger, one episode each, counting the one that flips it: in one   *)
(* process, where archived rows stay archived, an episode is committed as a   *)
(* whole (or nothing fails) and is formed once.                               *)
THEOREM FlipsCorroborated ==
    ASSUME OneProcess, Restorers = {}, EarlyCommits => MaxFaults = 0, MaxRepeats = 0
    PROVE  Spec => []FlipsAreCorroborated
<1>1. Init => Corroborated
  <2> SUFFICES ASSUME Init PROVE Corroborated
      OBVIOUS
  <2>1. DOMAIN rows = {} /\ Active = {}
      BY EmptySeq, LenProperties DEF Init, Active
  <2>2. pruner.back = {} /\ approval.todo = {}
      BY DEF Init, Resting, NoReview
  <2> QED
      BY <2>1, <2>2 DEF Corroborated, NobodyWaits, Heard, Answered, FlipsAreCorroborated
<1>2. SlotInv /\ NoRepair /\ Corroborated /\ [Next]_vars => Corroborated'
    BY StepKeepsFlips
<1>3. Corroborated => FlipsAreCorroborated
    BY DEF Corroborated
<1> QED
    BY <1>1, <1>2, <1>3, NeverRepaired, PTL DEF Spec

-----------------------------------------------------------------------------
(* The lineage ends, in whatever order operators, formation and pruning runs  *)
(* of several processes come, while no step fails and no archived row comes   *)
(* back.  Every step lets rows point at a row that points nowhere: the row it *)
(* adds, the candidate of the approval, or the winner of the repair.  The     *)
(* last two may have been superseded since they were chosen.  The candidate   *)
(* is activated in the end, so only the circles it is not part of matter;     *)
(* and what the winner now leads to holds none of the losers still to come.   *)

PointsAtRows ==
    /\ \A i \in DOMAIN rows : rows[i].by \in DOMAIN rows \cup {0}
    /\ \A i \in Active : rows[i].by = 0

\* A review candidate is neither current truth nor being repaired away.
Aside ==
    /\ approval # NoReview => /\ approval.row \in DOMAIN rows
                              /\ approval.row \notin Active \cup pruner.losers
    /\ \A i \in pruner.losers : i \in DOMAIN rows /\ ~Pending(i)

\* Rows other than the candidate of an approval do not go round in circles.
Ends ==
    \A S \in SUBSET (DOMAIN rows \ {approval.row}) : S # {} => \E i \in S : rows[i].by \notin S

\* What the winner of a repair leads to, and no loser is in it.
LedTo(T) ==
    /\ T \subseteq DOMAIN rows /\ pruner.winner \in T /\ T \cap pruner.losers = {}
    /\ \A i \in T \ {approval.row} : rows[i].by \in T \cup {0}
Apart == pruner.losers # {} => \E T : LedTo(T)

LineageInv == PointsAtRows /\ Aside /\ Ends /\ Apart

\* What every step does to pending rows and to what rows remember.
Tracked ==
    /\ \A i \in DOMAIN rows : /\ i \in DOMAIN rows' /\ rows'[i].preds = rows[i].preds
                              /\ Pending(i)' => Pending(i)
                              /\ i \in Active' => i \in Active \/ ~Pending(i)'
    /\ \A n \in DOMAIN rows' \ DOMAIN rows :
          /\ n \in Active' => ~Pending(n)'
          /\ \A q \in rows'[n].preds : q.row \in DOMAIN rows /\ ~Pending(q.row)

LEMMA TrackedKeepsNobody ==
    ASSUME IInv, NobodyPends, Tracked,
           \A q \in pruner'.back : q.row \in DOMAIN rows /\ ~Pending(q.row)
    PROVE  NobodyPends'
<1>1. ASSUME NEW i \in Active' PROVE ~Pending(i)'
  <2>1. i \in DOMAIN rows'
      BY DEF Active
  <2>2. CASE i \in DOMAIN rows
      BY <1>1, <2>2 DEF Tracked, NobodyPends
  <2>3. CASE i \notin DOMAIN rows
      BY <1>1, <2>1, <2>3 DEF Tracked
  <2> QED
      BY <2>2, <2>3
<1>2. ASSUME NEW i \in DOMAIN rows', NEW q \in rows'[i].preds PROVE ~Pending(q.row)'
  <2>1. q.row \in DOMAIN rows /\ ~Pending(q.row)
    <3>1. CASE i \in DOMAIN rows
        BY <3>1 DEF Tracked, NobodyPends, IInv, PredecessorsExist
    <3>2. CASE i \notin DOMAIN rows
        BY <3>2 DEF Tracked
    <3> QED
        BY <3>1, <3>2
  <2> QED
      BY <2>1 DEF Tracked
<1>3. ASSUME NEW q \in pruner'.back PROVE ~Pending(q.row)'
    BY <1>3 DEF Tracked
<1> QED
    BY <1>1, <1>2, <1>3 DEF NobodyPends

\* One row rewritten: not made current truth unless its review is resolved.
LEMMA OneRowTracked ==
    ASSUME IInv, NEW i, NEW r, rows' = [rows EXCEPT ![i] = r],
           i \in DOMAIN rows =>
              /\ r \in Row /\ r.preds = rows[i].preds /\ r.gate = rows[i].gate
              /\ r.review = rows[i].review \/ r.review # "none"
              /\ r.status = "ACTIVE" => rows[i].status = "ACTIVE" \/ r.review # "none"
    PROVE  /\ Tracked /\ DOMAIN rows' = DOMAIN rows
           /\ \A j \in DOMAIN rows : rows'[j] = IF j = i THEN r ELSE rows[j]
<1>1. /\ DOMAIN rows' = DOMAIN rows
      /\ \A j \in DOMAIN rows : rows'[j] = IF j = i THEN r ELSE rows[j]
    BY UpdateGrows
<1>2. ASSUME NEW j \in DOMAIN rows
      PROVE  /\ rows'[j].preds = rows[j].preds /\ Pending(j)' => Pending(j)
             /\ j \in Active' => j \in Active \/ ~Pending(j)'
  <2>1. CASE j = i
      BY <1>1, <2>1 DEF Pending, Active
  <2>2. CASE j # i
      BY <1>1, <2>2 DEF Pending, Active
  <2> QED
      BY <2>1, <2>2
<1> QED
    BY <1>1, <1>2 DEF Tracked

LEMMA FormTracked ==
    ASSUME IInv, NobodyPends, Form
    PROVE  Tracked
<1>1. FormOutcome
    BY Formed
<1>2. ASSUME NEW i \in DOMAIN rows
      PROVE  /\ i \in DOMAIN rows' /\ rows'[i].preds = rows[i].preds
             /\ Pending(i)' => Pending(i)
             /\ i \in Active' => i \in Active
    BY <1>1 DEF FormOutcome, Grown, Resolves, Fades, Pending, Active
<1>3. ASSUME NEW n \in DOMAIN rows' \ DOMAIN rows
      PROVE  /\ n \in Active' => ~Pending(n)'
             /\ \A q \in rows'[n].preds : q.row \in DOMAIN rows /\ ~Pending(q.row)
  <2>1. n \in Active' => rows'[n].gate = "none"
      BY <1>1, <1>3, RowsOf DEF FormOutcome, Unforked
  <2>2. \A q \in rows'[n].preds : q.row \in Active
      BY <1>1, <1>3 DEF FormOutcome
  <2> QED
      BY <2>1, <2>2, RowsOf DEF Pending, NobodyPends
<1> QED
    BY <1>2, <1>3 DEF Tracked

\* At most one row is added.  A row that points elsewhere than before points
\* at that row, which then points nowhere.
Extended ==
    /\ DOMAIN rows \subseteq DOMAIN rows' /\ DOMAIN rows' \subseteq DOMAIN rows \cup {Len(rows) + 1}
    /\ \A n \in DOMAIN rows' \ DOMAIN rows : rows'[n].by \in DOMAIN rows \cup {0}
    /\ \A i \in DOMAIN rows :
          \/ rows'[i].by = rows[i].by
          \/ \E n \in DOMAIN rows' \ DOMAIN rows : rows'[i].by = n /\ rows'[n].by = 0
    /\ Active' \subseteq Active \cup (DOMAIN rows' \ DOMAIN rows)
    /\ \A i \in Active' : rows'[i].by = 0

LEMMA NewestRow ==
    ASSUME IInv
    PROVE  Len(rows) + 1 \notin DOMAIN rows /\ 0 \notin DOMAIN rows
BY RowsAreNumbered DEF IInv, TypeOK

LEMMA ExtendedPoints ==
    ASSUME IInv, PointsAtRows, Extended
    PROVE  PointsAtRows'
<1>1. ASSUME NEW i \in DOMAIN rows' PROVE rows'[i].by \in DOMAIN rows' \cup {0}
  <2>1. CASE i \in DOMAIN rows
      BY <2>1 DEF Extended, PointsAtRows
  <2>2. CASE i \notin DOMAIN rows
      BY <1>1, <2>2 DEF Extended
  <2> QED
      BY <2>1, <2>2
<1> QED
    BY <1>1 DEF PointsAtRows, Extended

LEMMA ExtendedEnds ==
    ASSUME IInv, PointsAtRows, Ends, Extended, approval' = approval
    PROVE  Ends'
<1> SUFFICES ASSUME NEW S \in SUBSET (DOMAIN rows' \ {approval.row}), S # {}
             PROVE  \E i \in S : rows'[i].by \notin S
    BY DEF Ends
<1> DEFINE old == S \cap DOMAIN rows
<1>0. 0 \notin DOMAIN rows
    BY NewestRow
<1>1. CASE old = {}
  <2>1. PICK n \in S : n \in DOMAIN rows' \ DOMAIN rows
      BY <1>1
  <2>2. rows'[n].by \in DOMAIN rows \cup {0}
      BY <2>1 DEF Extended
  <2>3. 0 \notin DOMAIN rows'
    <3>1. Len(rows) \in Nat
        BY RowsAreNumbered DEF IInv, TypeOK
    <3> QED
        BY <1>0, <3>1 DEF Extended
  <2> QED
      BY <1>1, <2>1, <2>2, <2>3
<1>2. CASE old # {}
  <2>0. 0 \notin DOMAIN rows'
    <3>1. Len(rows) \in Nat
        BY RowsAreNumbered DEF IInv, TypeOK
    <3> QED
        BY <1>0, <3>1 DEF Extended
  <2>1. old \in SUBSET (DOMAIN rows \ {approval.row})
      OBVIOUS
  <2>2. PICK i \in old : rows[i].by \notin old
      BY <1>2, <2>1 DEF Ends
  <2>3. rows[i].by \notin S
      BY <1>0, <2>0, <2>2 DEF PointsAtRows
  <2>4. CASE rows'[i].by = rows[i].by
      BY <2>2, <2>3, <2>4
  <2>5. CASE \E n \in DOMAIN rows' \ DOMAIN rows : rows'[i].by = n /\ rows'[n].by = 0
    <3>1. PICK n \in DOMAIN rows' \ DOMAIN rows : rows'[i].by = n /\ rows'[n].by = 0
        BY <2>5
    <3>2. CASE n \in S
        BY <2>0, <3>1, <3>2
    <3>3. CASE n \notin S
        BY <2>2, <3>1, <3>3
    <3> QED
        BY <3>2, <3>3
  <2> QED
      BY <2>2, <2>4, <2>5 DEF Extended
<1> QED
    BY <1>1, <1>2

LEMMA ExtendedApart ==
    ASSUME IInv, PointsAtRows, Aside, Apart, Extended, approval' = approval,
           pruner'.losers = pruner.losers, pruner'.winner = pruner.winner
    PROVE  Apart'
<1> SUFFICES ASSUME pruner.losers # {} PROVE \E T : LedTo(T)'
    BY DEF Apart
<1>1. PICK T : LedTo(T)
    BY DEF Apart
<1> DEFINE added == DOMAIN rows' \ DOMAIN rows
           more == {n \in added : rows'[n].by = 0}
<1>2. pruner.losers \subseteq DOMAIN rows
    BY DEF Aside
<1>3. T \cup more \subseteq DOMAIN rows' /\ pruner'.winner \in T \cup more
    BY <1>1 DEF LedTo, Extended
<1>4. (T \cup more) \cap pruner'.losers = {}
    BY <1>1, <1>2 DEF LedTo
<1>5. ASSUME NEW i \in (T \cup more) \ {approval'.row}
      PROVE  rows'[i].by \in (T \cup more) \cup {0}
  <2>1. CASE i \in more
      BY <2>1
  <2>2. CASE i \notin more
    <3>1. i \in DOMAIN rows /\ rows[i].by \in T \cup {0}
        BY <1>1, <1>5, <2>2 DEF LedTo
    <3>2. CASE rows'[i].by = rows[i].by
        BY <3>1, <3>2
    <3>3. CASE \E n \in DOMAIN rows' \ DOMAIN rows : rows'[i].by = n /\ rows'[n].by = 0
        BY <3>3
    <3> QED
        BY <3>1, <3>2, <3>3 DEF Extended
  <2> QED
      BY <2>1, <2>2
<1>6. PICK U : U = T \cup more
    OBVIOUS
<1> HIDE DEF more
<1>7. LedTo(U)'
    BY <1>3, <1>4, <1>5, <1>6 DEF LedTo
<1> QED
    BY <1>7

LEMMA ExtendedAside ==
    ASSUME IInv, Aside, Tracked, Extended, approval' = approval,
           pruner'.losers = pruner.losers
    PROVE  Aside'
<1>1. ASSUME approval # NoReview
      PROVE  /\ approval.row \in DOMAIN rows'
             /\ approval.row \notin Active' \cup pruner.losers
    BY <1>1 DEF Aside, Extended
<1>2. \A i \in pruner.losers : i \in DOMAIN rows' /\ ~Pending(i)'
    BY DEF Aside, Tracked
<1> QED
    BY <1>1, <1>2 DEF Aside

LEMMA ExtendedKeeps ==
    ASSUME IInv, LineageInv, Tracked, Extended, approval' = approval,
           pruner'.losers = pruner.losers, pruner'.winner = pruner.winner
    PROVE  LineageInv'
BY ExtendedPoints, ExtendedEnds, ExtendedApart, ExtendedAside DEF LineageInv
-----------------------------------------------------------------------------
\* The steps that add a row, or leave every pointer as it was.

LEMMA FormExtends ==
    ASSUME IInv, PointsAtRows, Form
    PROVE  Extended
<1>0. Len(rows) + 1 \notin DOMAIN rows
    BY NewestRow
<1>1. PICK e \in Episodes, m \in Statements : Materialize(e, m)
    BY DEF Form
<1>2. CASE Reinforce(e, m)
  <2>1. DOMAIN rows' = DOMAIN rows
      BY <1>2, ReinforceGrows
  <2>2. ASSUME NEW i \in DOMAIN rows
        PROVE  rows'[i].by = rows[i].by /\ rows'[i].status = rows[i].status
    <3>1. rows[i] \in Row /\ rows'[i] \in {rows[i], Reinforced(rows[i], e, m)}
        BY <1>2, ReinforceGrows, RowsOf
    <3> QED
        BY <3>1 DEF Row, Reinforced
  <2> QED
      BY <2>1, <2>2 DEF Extended, Active, PointsAtRows
<1>3. CASE FileAsHistory(e, m) \/ Park(e, m)
  <2>1. /\ DOMAIN rows' = DOMAIN rows \cup {Len(rows) + 1}
        /\ \A i \in DOMAIN rows : rows'[i] = rows[i]
        /\ rows'[Len(rows) + 1].by \in DOMAIN rows
        /\ rows'[Len(rows) + 1].status = "SUPERSEDED"
      BY <1>3, FileGrows, ParkGrows
  <2> QED
      BY <1>0, <2>1 DEF Extended, Active, PointsAtRows
<1>4. CASE Take(e, m)
  <2> DEFINE n == Len(rows) + 1
  <2>1. DOMAIN rows' = DOMAIN rows \cup {n}
      BY <1>4, TakeGrows
  <2>2. rows'[n].by = 0
    <3> DEFINE P == Predecessors(m)
    <3> HIDE DEF P
    <3>1. rows'[n] = [New(e, m) EXCEPT !.preds = P]
        BY <1>4, TakeGrows DEF P
    <3> QED
        BY <3>1 DEF New
  <2>3. ASSUME NEW i \in Active
        PROVE  rows'[i].by = n /\ rows'[i].status = "SUPERSEDED"
      BY <1>4, TakenRows
  <2>4. ASSUME NEW i \in DOMAIN rows \ Active
        PROVE  (rows'[i].by = rows[i].by \/ rows'[i].by = n) /\ rows'[i].status # "ACTIVE"
    <3>1. \/ rows'[i] = rows[i]
          \/ rows'[i] = [rows[i] EXCEPT !.by = n, !.review = "corroborated"]
        BY <1>4, TakeGrows, TakenRows
    <3>2. rows[i] \in Row
        BY RowsOf
    <3>3. rows'[i].by = rows[i].by \/ rows'[i].by = n
        BY <3>1, <3>2 DEF Row
    <3> QED
        BY <1>4, <3>3, TakenRows
  <2>5. n \in DOMAIN rows' \ DOMAIN rows /\ DOMAIN rows' \ DOMAIN rows = {n}
      BY <1>0, <2>1
  <2> HIDE DEF n
  <2>6. ASSUME NEW i \in DOMAIN rows
        PROVE  \/ rows'[i].by = rows[i].by
               \/ \E k \in DOMAIN rows' \ DOMAIN rows : rows'[i].by = k /\ rows'[k].by = 0
      BY <2>2, <2>3, <2>4, <2>5
  <2>7. Active' \subseteq {n}
      BY <2>1, <2>3, <2>4 DEF Active
  <2>8. DOMAIN rows \subseteq DOMAIN rows' /\ DOMAIN rows' \subseteq DOMAIN rows \cup {Len(rows) + 1}
      BY <2>1 DEF n
  <2> QED
      BY <2>2, <2>5, <2>6, <2>7, <2>8 DEF Extended
<1> QED
    BY <1>1, <1>2, <1>3, <1>4 DEF Materialize

\* One row rewritten that points where it did.
LEMMA OneRowExtends ==
    ASSUME IInv, PointsAtRows, NEW i, NEW r, DOMAIN rows' = DOMAIN rows,
           \A j \in DOMAIN rows : rows'[j] = IF j = i THEN r ELSE rows[j],
           i \in DOMAIN rows => /\ r.by = rows[i].by
                                /\ r.status = "ACTIVE" => rows[i].status = "ACTIVE"
    PROVE  Extended
<1>1. ASSUME NEW j \in DOMAIN rows
      PROVE  rows'[j].by = rows[j].by /\ (rows'[j].status = "ACTIVE" => rows[j].status = "ACTIVE")
    BY DEF Active
<1> QED
    BY <1>1 DEF Extended, PointsAtRows, Active

LEMMA StillPoints ==
    ASSUME IInv, PointsAtRows
    PROVE  /\ \A i \in DOMAIN rows : RejectReview(i) \/ Forget(i) => Tracked /\ Extended
           /\ SweepMark => Tracked /\ Extended
<1>1. ASSUME NEW i \in DOMAIN rows, RejectReview(i) PROVE Tracked /\ Extended
  <2> DEFINE r == [rows[i] EXCEPT !.review = "rejected"]
  <2>1. rows' = [rows EXCEPT ![i] = r] /\ rows[i] \in Row
      BY <1>1, RowsOf DEF RejectReview
  <2>2. /\ r \in Row /\ r.preds = rows[i].preds /\ r.gate = rows[i].gate
        /\ r.review # "none" /\ r.status = rows[i].status /\ r.by = rows[i].by
      BY <2>1 DEF Row
  <2> HIDE DEF r
  <2> QED
      BY <2>1, <2>2, OneRowTracked, OneRowExtends
<1>2. ASSUME NEW i \in DOMAIN rows, Forget(i) PROVE Tracked /\ Extended
  <2> DEFINE r == Retired(rows[i])
  <2>1. rows' = [rows EXCEPT ![i] = r]
      BY <1>2 DEF Forget
  <2>2. rows[i] \in Row /\ r \in Row /\ r.preds = rows[i].preds
      BY RowsOf, OperatorRows
  <2>3. /\ r.gate = rows[i].gate /\ r.review = rows[i].review
        /\ r.status # "ACTIVE" /\ r.by = rows[i].by
      BY <2>2 DEF Retired, Row
  <2> HIDE DEF r
  <2> QED
      BY <2>1, <2>2, <2>3, OneRowTracked, OneRowExtends
<1>3. ASSUME SweepMark PROVE Tracked /\ Extended
  <2> DEFINE i == pruner.held.row
             r == Pruned(rows[i], pruner.held.why)
  <2>1. rows' = [rows EXCEPT ![i] = r]
      BY <1>3 DEF SweepMark
  <2>2. i \in DOMAIN rows => r \in Row /\ r.preds = rows[i].preds
      BY PrunedTyped
  <2>3. i \in DOMAIN rows =>
            /\ r.gate = rows[i].gate /\ r.review = rows[i].review
            /\ r.status # "ACTIVE" /\ r.by = rows[i].by
    <3>1. i \in DOMAIN rows => rows[i] \in Row
        BY RowsOf
    <3> HIDE DEF i
    <3> QED
        BY <3>1 DEF Pruned, Row
  <2> HIDE DEF r, i
  <2> QED
      BY <2>1, <2>2, <2>3, OneRowTracked, OneRowExtends
<1> QED
    BY <1>1, <1>2, <1>3

LEMMA RestoredPoints ==
    ASSUME IInv, PointsAtRows, NobodyPends, SweepRestore
    PROVE  Tracked /\ Extended
<1>0. Len(rows) + 1 \notin DOMAIN rows
    BY NewestRow
<1>1. PICK q \in pruner.back :
          rows' = Append([rows EXCEPT ![pruner.held.row] = [@ EXCEPT !.replaced = TRUE]],
                         Restored(pruner.held, q))
    BY DEF SweepRestore
<1>10. PICK n : n = Len(rows) + 1
    OBVIOUS
<1>2. /\ DOMAIN rows' = DOMAIN rows \cup {n} /\ q.row \in DOMAIN rows
      /\ \A i \in DOMAIN rows : rows'[i] \in {rows[i], [rows[i] EXCEPT !.replaced = TRUE]}
      /\ rows'[n] = Restored(pruner.held, q)
    BY <1>1, <1>10, RestoreGrows
<1>3. ASSUME NEW i \in DOMAIN rows
      PROVE  /\ rows'[i].by = rows[i].by /\ rows'[i].preds = rows[i].preds
             /\ rows'[i].gate = rows[i].gate /\ rows'[i].review = rows[i].review
             /\ rows'[i].status = rows[i].status
  <2>1. rows[i] \in Row
      BY RowsOf
  <2> QED
      BY <1>2, <2>1 DEF Row
<1>4. /\ rows'[n].by = 0 /\ rows'[n].preds = rows[q.row].preds
      /\ rows'[n].gate = rows[q.row].gate /\ rows'[n].review = rows[q.row].review
  <2>1. rows[q.row] \in Row
      BY <1>2, RowsOf
  <2> QED
      BY <1>2, <2>1 DEF Restored, Row
<1>5. DOMAIN rows' \ DOMAIN rows = {n}
    BY <1>0, <1>2, <1>10
<1>6. ~Pending(n)'
    BY <1>4 DEF Pending, NobodyPends
<1>7. \A d \in rows'[n].preds : d.row \in DOMAIN rows /\ ~Pending(d.row)
    BY <1>2, <1>4 DEF NobodyPends, IInv, PredecessorsExist
<1>8. Tracked
    BY <1>2, <1>3, <1>5, <1>6, <1>7 DEF Tracked, Pending, Active
<1>9. Extended
  <2>1. DOMAIN rows' \subseteq DOMAIN rows \cup {Len(rows) + 1}
      BY <1>2, <1>10
  <2> QED
      BY <1>2, <1>3, <1>4, <1>5, <2>1 DEF Extended, PointsAtRows, Active
<1> QED
    BY <1>8, <1>9
-----------------------------------------------------------------------------
\* The steps of the approval and of the repair.

LEMMA UnmovedTracked ==
    ASSUME IInv, rows' = rows
    PROVE  Tracked /\ (PointsAtRows => PointsAtRows')
BY DEF Tracked, Pending, Active, PointsAtRows

\* The rows stay, and the pruning run has no other losers than before.
LEMMA UnmovedKeeps ==
    ASSUME IInv, LineageInv, rows' = rows, approval' = approval,
           pruner'.losers \subseteq pruner.losers,
           pruner'.losers # {} => pruner'.winner = pruner.winner
    PROVE  LineageInv'
<1>1. PointsAtRows' /\ Ends'
    BY DEF LineageInv, PointsAtRows, Ends, Active
<1>2. Aside'
    BY DEF LineageInv, Aside, Active, Pending
<1>3. Apart'
  <2> SUFFICES ASSUME pruner'.losers # {} PROVE \E T : LedTo(T)'
      BY DEF Apart
  <2>1. PICK T : LedTo(T)
      BY DEF Apart, LineageInv
  <2>2. LedTo(T)'
      BY <2>1 DEF LedTo
  <2> QED
      BY <2>2
<1> QED
    BY <1>1, <1>2, <1>3 DEF LineageInv

LEMMA ChosenKeeps ==
    ASSUME IInv, NobodyPends, LineageInv, PruneStart
    PROVE  LineageInv'
<1>0. rows' = rows /\ approval' = approval
    BY DEF PruneStart
<1>1. CASE pruner' = [Resting EXCEPT !.stage = "repair", !.at = now]
  <2>1. pruner'.losers = {}
      BY <1>1 DEF Resting
  <2> QED
      BY <1>0, <2>1, UnmovedKeeps
<1>2. ASSUME NEW w \in Current(now),
             pruner' = [Resting EXCEPT !.stage = "repair", !.at = now, !.winner = w,
                                       !.to = rows[w].from, !.losers = Current(now) \ {w}]
      PROVE  LineageInv'
  <2>1. pruner'.winner = w /\ pruner'.losers = Current(now) \ {w}
      BY <1>2 DEF Resting
  <2>2. Current(now) \subseteq Active /\ Active \subseteq DOMAIN rows
      BY RowsOf DEF Current
  <2>3. PointsAtRows' /\ Ends'
      BY <1>0 DEF LineageInv, PointsAtRows, Ends, Active
  <2>4. Aside'
      BY <1>0, <2>1, <2>2 DEF LineageInv, Aside, Active, Pending, NobodyPends
  <2>5. rows[w].by = 0
      BY <1>2, <2>2 DEF LineageInv, PointsAtRows
  <2>6. PICK T : T = {w}
      OBVIOUS
  <2>7. LedTo(T)'
      BY <1>0, <1>2, <2>1, <2>2, <2>5, <2>6 DEF LedTo
  <2> QED
      BY <2>3, <2>4, <2>7 DEF LineageInv, Apart
<1> QED
    BY <1>1, <1>2 DEF PruneStart

LEMMA ApprovalStartKeeps ==
    ASSUME IInv, NobodyPends, LineageInv, NEW i \in DOMAIN rows, ApproveStart(i)
    PROVE  LineageInv'
<1>0. /\ rows' = rows /\ pruner' = pruner /\ approval = NoReview /\ Pending(i)
      /\ approval' = [row |-> i, todo |-> Active \ {i}]
    BY DEF ApproveStart
<1>1. approval'.row = i /\ approval.row = 0 /\ 0 \notin DOMAIN rows
    BY <1>0, NewestRow DEF NoReview
<1>2. PointsAtRows'
    BY <1>0 DEF LineageInv, PointsAtRows, Active
<1>3. Aside'
    BY <1>0, <1>1 DEF LineageInv, Aside, NobodyPends, Active, Pending
<1>4. Ends'
  <2>1. DOMAIN rows \ {i} \subseteq DOMAIN rows \ {0}
      BY <1>1
  <2> QED
      BY <1>0, <1>1, <2>1 DEF LineageInv, Ends
<1>5. Apart'
  <2> SUFFICES ASSUME pruner.losers # {} PROVE \E T : LedTo(T)'
      BY <1>0 DEF Apart
  <2>1. PICK T : LedTo(T)
      BY DEF Apart, LineageInv
  <2>2. LedTo(T)'
      BY <1>0, <1>1, <2>1 DEF LedTo
  <2> QED
      BY <2>2
<1> QED
    BY <1>2, <1>3, <1>4, <1>5 DEF LineageInv

\* A row rewritten to point at the candidate of the approval.
LEMMA ApprovalSupersedes ==
    ASSUME IInv, LineageInv, ApproveSupersede
    PROVE  Tracked /\ LineageInv'
<1>0. TypeOK
    BY DEF IInv
<1> DEFINE r == Superseded(rows[Oldest(approval.todo)], approval.row, now)
<1>1. PICK i : i = Oldest(approval.todo)
    OBVIOUS
<1>2. rows' = [rows EXCEPT ![i] = r] /\ pruner' = pruner
    BY <1>1 DEF ApproveSupersede
<1>3. approval # NoReview /\ approval'.row = approval.row
    BY <1>0 DEF ApproveSupersede, NoReview, TypeOK
<1>4. /\ approval.row \in DOMAIN rows /\ approval.row \notin Active \cup pruner.losers
      /\ approval.row # 0
    BY <1>3, NewestRow DEF LineageInv, Aside
<1>5. i \in DOMAIN rows => /\ r \in Row /\ r.preds = rows[i].preds
                           /\ r.gate = rows[i].gate /\ r.review = rows[i].review
                           /\ r.status = "SUPERSEDED" /\ r.by = approval.row
  <2>1. approval.row \in Nat /\ now \in 0..Forever
      BY <1>0, RowsOf DEF TypeOK
  <2>2. i \in DOMAIN rows => rows[i] \in Row
      BY RowsOf
  <2>3. i \in DOMAIN rows => r \in Row /\ r.preds = rows[i].preds
      BY <1>1, <2>1, <2>2, SupersededTyped
  <2> QED
      BY <1>1, <2>2, <2>3 DEF Superseded, Row
<1> HIDE DEF r
<1>6. /\ Tracked /\ DOMAIN rows' = DOMAIN rows
      /\ \A j \in DOMAIN rows : rows'[j] = IF j = i THEN r ELSE rows[j]
    BY <1>2, <1>5, OneRowTracked
<1>7. Active' \subseteq Active
    BY <1>5, <1>6 DEF Active
<1>8. \A j \in DOMAIN rows : rows'[j].by \in {rows[j].by, approval.row}
    BY <1>5, <1>6
<1>9. \A j \in Active' : j \in Active /\ rows'[j].by = rows[j].by
    BY <1>5, <1>6 DEF Active
<1>10. PointsAtRows'
    BY <1>4, <1>6, <1>8, <1>9 DEF LineageInv, PointsAtRows
<1>11. Aside'
  <2>1. approval.row \in DOMAIN rows' /\ approval.row \notin Active' \cup pruner.losers
      BY <1>4, <1>6, <1>7
  <2>2. \A j \in pruner.losers : j \in DOMAIN rows' /\ ~Pending(j)'
      BY <1>6 DEF LineageInv, Aside, Tracked
  <2> QED
      BY <1>2, <1>3, <2>1, <2>2 DEF Aside
<1>12. Ends'
  <2> SUFFICES ASSUME NEW S \in SUBSET (DOMAIN rows \ {approval.row}), S # {}
               PROVE  \E j \in S : rows'[j].by \notin S
      BY <1>3, <1>6 DEF Ends
  <2>1. PICK j \in S : rows[j].by \notin S
      BY DEF LineageInv, Ends
  <2> QED
      BY <1>8, <2>1
<1>13. Apart'
  <2> SUFFICES ASSUME pruner.losers # {} PROVE \E T : LedTo(T)'
      BY <1>2 DEF Apart
  <2>1. PICK T : LedTo(T)
      BY DEF Apart, LineageInv
  <2>2. PICK U : U = T \cup {approval.row}
      OBVIOUS
  <2>3. U \subseteq DOMAIN rows /\ pruner.winner \in U /\ U \cap pruner.losers = {}
      BY <1>4, <2>1, <2>2 DEF LedTo
  <2>4. \A j \in U \ {approval.row} : rows'[j].by \in U \cup {0}
      BY <1>8, <2>1, <2>2 DEF LedTo
  <2>5. LedTo(U)'
      BY <1>2, <1>3, <1>6, <2>3, <2>4 DEF LedTo
  <2> QED
      BY <2>5
<1> QED
    BY <1>6, <1>10, <1>11, <1>12, <1>13 DEF LineageInv

\* The candidate activated: it points nowhere.
LEMMA ApprovalFinishes ==
    ASSUME IInv, LineageInv, ApproveFinish
    PROVE  Tracked /\ LineageInv'
<1> DEFINE r == Activated(rows[approval.row])
<1>1. PICK i : i = approval.row
    OBVIOUS
<1>2. /\ rows' = [rows EXCEPT ![i] = r] /\ pruner' = pruner
      /\ approval # NoReview /\ approval' = NoReview
    BY <1>1 DEF ApproveFinish
<1>3. i \in DOMAIN rows /\ i \notin pruner.losers /\ 0 \notin DOMAIN rows
    BY <1>1, <1>2, NewestRow DEF LineageInv, Aside
<1>4. /\ r \in Row /\ r.preds = rows[i].preds
      /\ r.gate = rows[i].gate /\ r.review = "approved" /\ r.by = 0
  <2>1. rows[i] \in Row /\ r \in Row /\ r.preds = rows[i].preds
      BY <1>1, <1>3, RowsOf, OperatorRows
  <2> QED
      BY <1>1, <2>1 DEF Activated, Row
<1> HIDE DEF r
<1>5. /\ Tracked /\ DOMAIN rows' = DOMAIN rows
      /\ \A j \in DOMAIN rows : rows'[j] = IF j = i THEN r ELSE rows[j]
    BY <1>2, <1>4, OneRowTracked
<1>6. Active' \subseteq Active \cup {i}
    BY <1>5 DEF Active
<1>7. PointsAtRows'
  <2>1. ASSUME NEW j \in DOMAIN rows PROVE rows'[j].by \in {rows[j].by, 0}
      BY <1>4, <1>5, <2>1
  <2>2. ASSUME NEW j \in Active' PROVE rows'[j].by = 0
    <3>1. j \in DOMAIN rows
        BY <1>5, <2>2 DEF Active
    <3>2. j = i \/ j \in Active
        BY <1>6, <2>2
    <3>3. rows[j].by = 0 \/ j = i
        BY <3>2 DEF LineageInv, PointsAtRows
    <3> QED
        BY <1>4, <1>5, <3>1, <3>3
  <2> QED
      BY <1>5, <2>1, <2>2 DEF LineageInv, PointsAtRows
<1>8. Aside'
  <2>1. \A j \in pruner.losers : j \in DOMAIN rows' /\ ~Pending(j)'
      BY <1>5 DEF LineageInv, Aside, Tracked
  <2> QED
      BY <1>2, <2>1 DEF Aside
<1>9. Ends'
  <2> SUFFICES ASSUME NEW S \in SUBSET DOMAIN rows, S # {}
               PROVE  \E j \in S : rows'[j].by \notin S
      BY <1>5 DEF Ends
  <2>1. CASE i \in S
      BY <1>3, <1>4, <1>5, <2>1
  <2>2. CASE i \notin S
    <3>1. S \in SUBSET (DOMAIN rows \ {approval.row})
        BY <1>1, <2>2
    <3>2. PICK j \in S : rows[j].by \notin S
        BY <3>1 DEF LineageInv, Ends
    <3> QED
        BY <1>5, <2>2, <3>2
  <2> QED
      BY <2>1, <2>2
<1>10. Apart'
  <2> SUFFICES ASSUME pruner.losers # {} PROVE \E T : LedTo(T)'
      BY <1>2 DEF Apart
  <2>1. PICK T : LedTo(T)
      BY DEF Apart, LineageInv
  <2>2. \A j \in T : rows'[j].by \in T \cup {0}
      BY <1>1, <1>4, <1>5, <2>1 DEF LedTo
  <2>3. LedTo(T)'
      BY <1>2, <1>5, <2>1, <2>2 DEF LedTo
  <2> QED
      BY <2>3
<1> QED
    BY <1>5, <1>7, <1>8, <1>9, <1>10 DEF LineageInv

\* A loser made to point at the winner: nothing the winner leads to comes back.
LEMMA RepairKeeps ==
    ASSUME IInv, LineageInv, NEW i \in DOMAIN rows, RepairOne(i)
    PROVE  Tracked /\ LineageInv'
<1>0. TypeOK
    BY DEF IInv
<1> DEFINE r == Superseded(rows[i], pruner.winner, pruner.to)
<1>1. /\ rows' = [rows EXCEPT ![i] = r] /\ approval' = approval /\ i \in pruner.losers
      /\ pruner'.losers = pruner.losers \ {i} /\ pruner'.winner = pruner.winner
    BY <1>0 DEF RepairOne, TypeOK
<1>2. /\ r \in Row /\ r.preds = rows[i].preds
      /\ r.gate = rows[i].gate /\ r.review = rows[i].review
      /\ r.status = "SUPERSEDED" /\ r.by = pruner.winner
  <2>1. rows[i] \in Row /\ r \in Row /\ r.preds = rows[i].preds
      BY <1>0, RowsOf, SupersededTyped DEF TypeOK
  <2> QED
      BY <2>1 DEF Superseded, Row
<1> HIDE DEF r
<1>3. /\ Tracked /\ DOMAIN rows' = DOMAIN rows
      /\ \A j \in DOMAIN rows : rows'[j] = IF j = i THEN r ELSE rows[j]
    BY <1>1, <1>2, OneRowTracked
<1>4. PICK T : LedTo(T)
    BY <1>1 DEF LineageInv, Apart
<1>5. i \notin T /\ pruner.winner \in T /\ T \subseteq DOMAIN rows /\ 0 \notin DOMAIN rows
    BY <1>1, <1>4, NewestRow DEF LedTo
<1>6. \A j \in Active' : j \in Active /\ j # i
    BY <1>2, <1>3 DEF Active
<1>7. PointsAtRows'
  <2>1. \A j \in DOMAIN rows' : rows'[j].by \in DOMAIN rows' \cup {0}
      BY <1>2, <1>3, <1>5 DEF LineageInv, PointsAtRows
  <2>2. \A j \in Active' : rows'[j].by = 0
      BY <1>3, <1>6, RowsOf DEF LineageInv, PointsAtRows
  <2> QED
      BY <2>1, <2>2 DEF PointsAtRows
<1>8. Aside'
    BY <1>1, <1>3, <1>6 DEF LineageInv, Aside, Tracked
<1>9. Ends'
  <2> SUFFICES ASSUME NEW S \in SUBSET (DOMAIN rows \ {approval.row}), S # {}
               PROVE  \E j \in S : rows'[j].by \notin S
      BY <1>1, <1>3 DEF Ends
  <2>1. CASE pruner.winner \in S
    <3>1. S \cap T \in SUBSET (DOMAIN rows \ {approval.row}) /\ S \cap T # {}
        BY <1>5, <2>1
    <3>2. PICK j \in S \cap T : rows[j].by \notin S \cap T
        BY <3>1 DEF LineageInv, Ends
    <3>3. rows[j].by \in T \cup {0}
        BY <1>4, <3>2 DEF LedTo
    <3>4. rows[j].by \notin S
        BY <1>5, <3>2, <3>3
    <3>5. rows'[j] = rows[j]
        BY <1>3, <1>5, <3>2
    <3> QED
        BY <3>2, <3>4, <3>5
  <2>2. CASE pruner.winner \notin S
    <3>1. PICK j \in S : rows[j].by \notin S
        BY DEF LineageInv, Ends
    <3> QED
        BY <1>2, <1>3, <2>2, <3>1
  <2> QED
      BY <2>1, <2>2
<1>10. Apart'
  <2>1. LedTo(T)'
      BY <1>1, <1>3, <1>4, <1>5 DEF LedTo
  <2> QED
      BY <2>1 DEF Apart
<1> QED
    BY <1>3, <1>7, <1>8, <1>9, <1>10 DEF LineageInv
-----------------------------------------------------------------------------
(* Every step, while nothing fails and nothing is restored.                   *)

NothingComesBack == Restorers = {} /\ MaxFaults = 0

LEMMA NothingFails ==
    ASSUME IInv, NothingComesBack
    PROVE  /\ ~Tear /\ ~Refuse /\ ~Crash
           /\ \A i \in DOMAIN rows : ~Retrieve(i) /\ ~Curate(i)
<1>1. ~Fault
  <2>1. faults \in 0..0
      BY DEF IInv, TypeOK, NothingComesBack
  <2> QED
      BY <2>1 DEF Fault, NothingComesBack
<1> QED
    BY <1>1 DEF Tear, Torn, Refuse, Crash, Retrieve, Curate, NothingComesBack

LEMMA LineageStep ==
    ASSUME IInv, NobodyPends, LineageInv, NothingComesBack, [Next]_vars
    PROVE  NobodyPends' /\ LineageInv'
<1>0. TypeOK
    BY DEF IInv
<1>1. ASSUME Tracked, pruner'.back \subseteq pruner.back
      PROVE  NobodyPends'
  <2>1. \A q \in pruner'.back : q.row \in DOMAIN rows /\ ~Pending(q.row)
      BY <1>1 DEF IInv, PlanRefers, NobodyPends
  <2> QED
      BY <1>1, <2>1, TrackedKeepsNobody
<1>2. ASSUME Tracked, Extended, approval' = approval, pruner'.back \subseteq pruner.back,
             pruner'.losers = pruner.losers, pruner'.winner = pruner.winner
      PROVE  NobodyPends' /\ LineageInv'
    BY <1>1, <1>2, ExtendedKeeps
<1>3. CASE Form
  <2>1. approval' = approval /\ pruner' = pruner
      BY <1>3, FormGrows
  <2> QED
      BY <1>2, <1>3, <2>1, FormTracked, FormExtends DEF LineageInv
<1>4. CASE Approve
  <2>1. pruner' = pruner
      BY <1>4 DEF Approve, ApproveSupersede, ApproveFinish
  <2> QED
      BY <1>1, <1>4, <2>1, ApprovalSupersedes, ApprovalFinishes DEF Approve
<1>5. CASE Operate
  <2>1. PICK i \in DOMAIN rows : RejectReview(i) \/ ApproveStart(i) \/ Forget(i)
      BY <1>5, NothingFails DEF Operate
  <2>2. CASE RejectReview(i) \/ Forget(i)
    <3>1. approval' = approval /\ pruner' = pruner
        BY <2>2 DEF RejectReview, Forget
    <3> QED
        BY <1>2, <2>2, <3>1, StillPoints DEF LineageInv
  <2>3. CASE ApproveStart(i)
    <3>1. rows' = rows /\ pruner' = pruner
        BY <2>3 DEF ApproveStart
    <3> QED
        BY <1>1, <2>3, <3>1, UnmovedTracked, ApprovalStartKeeps
  <2> QED
      BY <2>1, <2>2, <2>3
<1>6. CASE PruneStep
  <2>1. CASE PruneStart
    <3>1. rows' = rows /\ pruner'.back = {}
        BY <2>1 DEF PruneStart, Resting
    <3> QED
        BY <1>1, <2>1, <3>1, UnmovedTracked, ChosenKeeps
  <2>2. ASSUME NEW i \in DOMAIN rows, RepairOne(i) PROVE NobodyPends' /\ LineageInv'
    <3>1. pruner'.back = pruner.back
        BY <1>0, <2>2 DEF RepairOne, TypeOK
    <3> QED
        BY <1>1, <2>2, <3>1, RepairKeeps
  <2>3. CASE SweepStart \/ PruneEnd
    <3>1. rows' = rows /\ approval' = approval
        BY <2>3 DEF SweepStart, PruneEnd
    <3>2. CASE PruneEnd
        BY <1>1, <3>1, <3>2, UnmovedTracked, UnmovedKeeps DEF PruneEnd, Resting
    <3>3. CASE SweepStart
      <4>1. PICK plan :
                pruner' = [Resting EXCEPT !.stage = "sweep", !.at = pruner.at, !.plan = plan]
          BY <3>3 DEF SweepStart
      <4>2. pruner'.back = {} /\ pruner'.losers = {}
          BY <4>1 DEF Resting
      <4> QED
          BY <1>1, <3>1, <4>2, UnmovedTracked, UnmovedKeeps
    <3> QED
        BY <2>3, <3>2, <3>3
  <2>4. CASE SweepTake
    <3>1. PICK p \in pruner.plan :
              /\ pruner' = [pruner EXCEPT !.held = p, !.plan = @ \ {p}, !.back = Restorable(p)]
              /\ rows' = rows /\ approval' = approval
        BY <2>4 DEF SweepTake
    <3>2. /\ pruner'.losers = pruner.losers /\ pruner'.winner = pruner.winner
          /\ pruner'.back = Restorable(p)
        BY <1>0, <3>1 DEF TypeOK
    <3>3. ASSUME NEW q \in Restorable(p) PROVE q.row \in DOMAIN rows /\ ~Pending(q.row)
      <4>1. p.why = "expired" /\ q \in rows[p.row].preds
          BY <3>3 DEF Restorable
      <4>2. p.row \in DOMAIN rows
          BY <4>1 DEF IInv, PlanRefers
      <4> QED
          BY <4>1, <4>2 DEF IInv, PredecessorsExist, NobodyPends
    <3>4. NobodyPends'
        BY <3>1, <3>2, <3>3, UnmovedTracked, TrackedKeepsNobody
    <3> QED
        BY <3>1, <3>2, <3>4, UnmovedKeeps
  <2>5. CASE SweepRestore
    <3>1. /\ pruner'.losers = pruner.losers /\ pruner'.winner = pruner.winner
          /\ pruner'.back = {} /\ approval' = approval
        BY <1>0, <2>5 DEF SweepRestore, TypeOK
    <3> QED
        BY <1>2, <2>5, <3>1, RestoredPoints DEF LineageInv
  <2>6. CASE SweepMark
    <3>1. /\ pruner'.losers = pruner.losers /\ pruner'.winner = pruner.winner
          /\ pruner'.back = pruner.back /\ approval' = approval
        BY <1>0, <2>6 DEF SweepMark, TypeOK
    <3> QED
        BY <1>2, <2>6, <3>1, StillPoints DEF LineageInv
  <2> QED
      BY <1>6, <2>1, <2>2, <2>3, <2>4, <2>5, <2>6 DEF PruneStep
<1>7. CASE Tick \/ UNCHANGED vars
  <2>1. rows' = rows /\ approval' = approval /\ pruner' = pruner
      BY <1>7 DEF Tick, vars
  <2> QED
      BY <1>1, <2>1, UnmovedTracked, UnmovedKeeps
<1> QED
    BY <1>3, <1>4, <1>5, <1>6, <1>7, NothingFails DEF Next

LEMMA InitEnds == Init => NobodyPends /\ LineageInv
<1> SUFFICES ASSUME Init PROVE NobodyPends /\ LineageInv
    OBVIOUS
<1>1. /\ DOMAIN rows = {} /\ approval = NoReview /\ pruner.losers = {} /\ pruner.back = {}
    BY EmptySeq, LenProperties DEF Init, Resting
<1> QED
    BY <1>1 DEF NobodyPends, LineageInv, PointsAtRows, Aside, Ends, Apart, Active

(* The lineage of a slot ends (LineageAcyclic): no rows stand for one another *)
(* in a circle, whatever gates, reviews, repairs and expiries wrote           *)
(* superseded_by, in one process or in several, and however their steps       *)
(* interleave.  Without the hypothesis it is false: an approval that dies     *)
(* half way leaves its rows pointing at the candidate, and an archived row    *)
(* comes back with its pointer.                                               *)
THEOREM LineageEnds ==
    ASSUME Restorers = {}, MaxFaults = 0
    PROVE  Spec => []LineageAcyclic
<1>1. NothingComesBack
    BY DEF NothingComesBack
<1>2. Init => IInv /\ NobodyPends /\ LineageInv
    BY InitIsIInv, InitEnds
<1>3. IInv /\ NobodyPends /\ LineageInv /\ [Next]_vars => IInv' /\ NobodyPends' /\ LineageInv'
    BY <1>1, StepKeepsIInv, LineageStep
<1>4. IInv /\ LineageInv => LineageAcyclic
  <2> SUFFICES ASSUME IInv, LineageInv, approval = NoReview,
                      NEW S \in SUBSET DOMAIN rows, S # {}
               PROVE  \E i \in S : rows[i].by \notin S
      BY DEF LineageAcyclic
  <2>1. S \in SUBSET (DOMAIN rows \ {approval.row})
      BY NewestRow DEF NoReview
  <2> QED
      BY <2>1 DEF LineageInv, Ends
<1> QED
    BY <1>2, <1>3, <1>4, PTL DEF Spec

-----------------------------------------------------------------------------
(* A permanent truth returns.  In one process, where nothing fails, comes     *)
(* back from the archive or ages, and where all temporary statements name one *)
(* object: an active row without end, or an active override that remembers    *)
(* one, always stands for a truth that was only interrupted, and it is not    *)
(* the row that the sweep is about to mark.                                   *)

OneOverride == \A m, n \in Statements : m.until # Forever /\ n.until # Forever => m.obj = n.obj

Overrides == {i \in Active : rows[i].to # Forever}
OverridesAlone ==
    /\ \A i, j \in Overrides : i = j
    /\ \A i \in Overrides : \E m \in Statements : m.until # Forever /\ m.obj = rows[i].obj

\* What an override stood in for had no end.
EndlessBefore ==
    /\ \A i \in DOMAIN rows : \A q \in rows[i].preds : q.to = Forever
    /\ \A q \in pruner.back : q.to = Forever

\* What the run has planned and not marked yet is an override that has elapsed,
\* or is not active, unless an operator approved it.
Planned(p) ==
    /\ p.why # "aged" /\ p.row \in DOMAIN rows \cup {0}
    /\ p.row \in Active => \/ rows[p.row].review = "approved"
                           \/ p.why = "expired" /\ rows[p.row].to = p.to /\ p.to # Forever
AllPlanned == \A p \in pruner.plan \cup {pruner.held} : Planned(p)

Stands(r) ==
    /\ r \in Active
    /\ rows[r].to = Forever \/ (rows[r].preds # {} /\ ~rows[r].replaced)
Marking(r) == pruner.held.row = r /\ pruner.back = {}
Interrupted == \E i \in DOMAIN rows : OnlyInterrupted(i)
Promised == approval = NoReview /\ Interrupted => \E r \in Active : Stands(r) /\ ~Marking(r)

ReturnInv == OverridesAlone /\ EndlessBefore /\ AllPlanned /\ Promised

\* What no step undoes of a row, but for an approval.
Carries(i) ==
    /\ rows'[i].until = rows[i].until /\ rows'[i].gate = rows[i].gate
    /\ rows[i].forgotten => rows'[i].forgotten
    /\ rows[i].review = "approved" => rows'[i].review = "approved"

\* A truth is interrupted by a step only if the step moves its pointer.
LEMMA InterruptedBefore ==
    ASSUME IInv, PointsAtRows, Extended, NEW S,
           \A i \in DOMAIN rows : /\ Carries(i)
                                  /\ \/ rows'[i].by = rows[i].by \/ rows'[i].gate # "none"
                                     \/ i \in S,
           NEW i \in DOMAIN rows', OnlyInterrupted(i)'
    PROVE  i \in DOMAIN rows /\ (OnlyInterrupted(i) \/ i \in S)
<1>1. DOMAIN rows \subseteq Nat /\ Len(rows) \in Nat /\ DOMAIN rows = 1..Len(rows)
    BY RowsAreNumbered DEF IInv, TypeOK
<1>2. /\ rows'[i].until = Forever /\ rows'[i].gate = "none"
      /\ rows'[i].by > i /\ rows'[rows'[i].by].gate = "none"
      /\ \A j \in DOMAIN rows' : /\ j > i => rows'[j].until # Forever
                                 /\ rows'[j].review # "approved" /\ ~rows'[j].forgotten
    BY DEF OnlyInterrupted
<1>3. i \in DOMAIN rows
  <2> SUFFICES ASSUME i \notin DOMAIN rows PROVE FALSE
      OBVIOUS
  <2>1. i = Len(rows) + 1 /\ rows'[i].by \in DOMAIN rows \cup {0}
      BY DEF Extended
  <2> QED
      BY <1>1, <1>2, <2>1
<1>4. ASSUME i \notin S PROVE OnlyInterrupted(i)
  <2>1. rows[i].until = Forever /\ rows[i].gate = "none" /\ rows'[i].by = rows[i].by
      BY <1>2, <1>3, <1>4 DEF Carries
  <2>2. rows[i].by \in DOMAIN rows
    <3>1. rows[i].by \in DOMAIN rows \cup {0}
        BY <1>3 DEF PointsAtRows
    <3> QED
        BY <1>1, <1>2, <1>3, <2>1, <3>1
  <2>3. rows[rows[i].by].gate = "none" /\ rows[i].by > i
      BY <1>2, <2>1, <2>2 DEF Carries
  <2>4. ASSUME NEW j \in DOMAIN rows
        PROVE  /\ j > i => rows[j].until # Forever
               /\ rows[j].review # "approved" /\ ~rows[j].forgotten
    <3>1. j \in DOMAIN rows' /\ Carries(j)
        BY DEF Extended
    <3> QED
        BY <1>2, <3>1 DEF Carries
  <2> QED
      BY <2>1, <2>3, <2>4 DEF OnlyInterrupted
<1> QED
    BY <1>3, <1>4

LEMMA OverridesStay ==
    ASSUME OverridesAlone,
           \A i \in Active' : \/ rows'[i].to = Forever
                              \/ i \in Active /\ rows'[i].to = rows[i].to
                                 /\ rows'[i].obj = rows[i].obj
    PROVE  OverridesAlone'
<1>1. ASSUME NEW i \in Overrides'
      PROVE  i \in Overrides /\ rows'[i].obj = rows[i].obj
    BY DEF Overrides, Active, Forever
<1> QED
    BY <1>1 DEF OverridesAlone

LEMMA EndlessStays ==
    ASSUME EndlessBefore, \A i \in DOMAIN rows : Resolves(i),
           \A n \in DOMAIN rows' \ DOMAIN rows : \A q \in rows'[n].preds : q.to = Forever,
           \A q \in pruner'.back : q.to = Forever
    PROVE  EndlessBefore'
<1>1. ASSUME NEW i \in DOMAIN rows', NEW q \in rows'[i].preds PROVE q.to = Forever
  <2>1. CASE i \in DOMAIN rows
      BY <1>1, <2>1 DEF Resolves, EndlessBefore
  <2> QED
      BY <1>1, <2>1
<1> QED
    BY <1>1 DEF EndlessBefore, Forever

LEMMA PlanStays ==
    ASSUME IInv, AllPlanned, 0 \notin DOMAIN rows',
           \A i \in DOMAIN rows : /\ i \in DOMAIN rows' /\ Resolves(i)
                                  /\ Fades(i) \/ rows'[i].review = "approved",
           \A p \in pruner'.plan \cup {pruner'.held} :
                p \in pruner.plan \cup {pruner.held, Nothing}
    PROVE  AllPlanned'
<1> SUFFICES ASSUME NEW p \in pruner'.plan \cup {pruner'.held} PROVE Planned(p)'
    BY DEF AllPlanned
<1>1. Planned(p)
  <2>1. 0 \notin Active
      BY RowsOf, NewestRow
  <2>2. Planned(Nothing)
      BY <2>1 DEF Planned, Nothing
  <2> QED
      BY <2>2 DEF AllPlanned
<1>2. ASSUME p.row \in Active'
      PROVE  \/ rows'[p.row].review = "approved"
             \/ p.why = "expired" /\ rows'[p.row].to = p.to /\ p.to # Forever
  <2>1. p.row \in DOMAIN rows
      BY <1>1, <1>2 DEF Planned, Active
  <2>2. rows'[p.row].status = "ACTIVE"
      BY <1>2 DEF Active
  <2>3. CASE rows'[p.row].review = "approved"
      BY <2>3
  <2>4. CASE Fades(p.row)
    <3>1. p.row \in Active /\ rows'[p.row].to = rows[p.row].to
        BY <2>1, <2>2, <2>4 DEF Fades, Active
    <3>2. rows[p.row].review = "approved" => rows'[p.row].review = "approved"
        BY <2>1 DEF Resolves, Pending
    <3> QED
        BY <1>1, <3>1, <3>2 DEF Planned
  <2> QED
      BY <2>1, <2>3, <2>4
<1> QED
    BY <1>1, <1>2 DEF Planned, Forever

LEMMA PromiseStays ==
    ASSUME Promised, approval' = approval, Interrupted' => Interrupted,
           \A r \in Active : Stands(r) /\ ~Marking(r) => Stands(r)' /\ ~Marking(r)'
    PROVE  Promised'
BY DEF Promised, Stands

-----------------------------------------------------------------------------
\* The steps of formation.

LEMMA NoZeroth ==
    ASSUME rows' \in Seq(Row)
    PROVE  0 \notin DOMAIN rows'
BY LenProperties

\* A statement that is added to the truth in force, filed or parked.
LEMMA SetAsideRows ==
    ASSUME IInv, NEW e \in Episodes, NEW m \in Statements,
           Reinforce(e, m) \/ FileAsHistory(e, m) \/ Park(e, m)
    PROVE  /\ \A i \in DOMAIN rows :
                 /\ rows'[i].obj = rows[i].obj /\ rows'[i].until = rows[i].until
                 /\ rows'[i].gate = rows[i].gate /\ rows'[i].by = rows[i].by
                 /\ rows'[i].review = rows[i].review /\ rows'[i].forgotten = rows[i].forgotten
                 /\ rows'[i].status = rows[i].status /\ rows'[i].to = rows[i].to
                 /\ rows'[i].preds = rows[i].preds /\ rows'[i].replaced = rows[i].replaced
           /\ \A n \in DOMAIN rows' \ DOMAIN rows :
                 rows'[n].status # "ACTIVE" /\ rows'[n].preds = {}
           /\ DOMAIN rows \subseteq DOMAIN rows' /\ Active' = Active
<1>1. CASE Reinforce(e, m)
  <2>1. ASSUME NEW i \in DOMAIN rows
        PROVE  /\ rows'[i].obj = rows[i].obj /\ rows'[i].until = rows[i].until
               /\ rows'[i].gate = rows[i].gate /\ rows'[i].by = rows[i].by
               /\ rows'[i].review = rows[i].review /\ rows'[i].forgotten = rows[i].forgotten
               /\ rows'[i].status = rows[i].status /\ rows'[i].to = rows[i].to
               /\ rows'[i].preds = rows[i].preds /\ rows'[i].replaced = rows[i].replaced
    <3>1. rows[i] \in Row /\ rows'[i] \in {rows[i], Reinforced(rows[i], e, m)}
        BY <1>1, ReinforceGrows, RowsOf
    <3> QED
        BY <3>1 DEF Row, Reinforced
  <2> QED
      BY <1>1, <2>1, ReinforceGrows DEF Active
<1>2. CASE FileAsHistory(e, m) \/ Park(e, m)
  <2>1. /\ DOMAIN rows' = DOMAIN rows \cup {Len(rows) + 1}
        /\ \A i \in DOMAIN rows : rows'[i] = rows[i]
        /\ rows'[Len(rows) + 1].preds = {}
        /\ rows'[Len(rows) + 1].status = "SUPERSEDED"
      BY <1>2, FileGrows, ParkGrows
  <2> QED
      BY <2>1 DEF Active
<1> QED
    BY <1>1, <1>2

\* A statement that takes the slot: every active row gives way to it, and an
\* override remembers them all.
LEMMA TakerRows ==
    ASSUME IInv, NEW e \in Episodes, NEW m \in Statements, Take(e, m), NEW n, n = Len(rows) + 1
    PROVE  /\ DOMAIN rows' = DOMAIN rows \cup {n} /\ n \notin DOMAIN rows /\ Active' = {n}
           /\ \A i \in DOMAIN rows :
                 /\ Carries(i)
                 /\ rows'[i].by = rows[i].by \/ rows'[i].gate # "none" \/ i \in Active
           /\ rows'[n].obj = m.obj /\ rows'[n].until = m.until /\ rows'[n].to = m.until
           /\ rows'[n].preds = Predecessors(m) /\ ~rows'[n].replaced
           /\ \A i \in Active : rows[i].obj # m.obj
           /\ Contradictions(m) = Active
<1>1. DOMAIN rows' = DOMAIN rows \cup {n} /\ n \notin DOMAIN rows
    BY TakeGrows, NewestRow
<1>2. /\ rows'[n].obj = m.obj /\ rows'[n].until = m.until /\ rows'[n].to = m.until
      /\ rows'[n].preds = Predecessors(m) /\ ~rows'[n].replaced /\ rows'[n].status = "ACTIVE"
  <2> DEFINE P == Predecessors(m)
  <2> HIDE DEF P
  <2>1. rows'[n] = [New(e, m) EXCEPT !.preds = P]
      BY TakeGrows DEF P
  <2> QED
      BY <2>1 DEF New, P
<1>3. Contradictions(m) = Active /\ \A i \in Active : rows[i].obj # m.obj
    BY TakenRows DEF Contradictions
<1>4. ASSUME NEW i \in Active
      PROVE  Carries(i)
  <2> DEFINE t == IF Bypassed(i, m) THEN Effective(m) ELSE m.from
  <2>1. rows'[i] = Superseded(rows[i], Len(rows) + 1, t) /\ rows[i] \in Row
      BY <1>3, TakeGrows, RowsOf DEF Yields
  <2> HIDE DEF t
  <2> QED
      BY <2>1 DEF Superseded, Row, Carries
<1>5. ASSUME NEW i \in DOMAIN rows \ Active
      PROVE  Carries(i) /\ (rows'[i].by = rows[i].by \/ rows'[i].gate # "none")
  <2>1. \/ rows'[i] = rows[i]
        \/ /\ rows'[i] = [rows[i] EXCEPT !.by = Len(rows) + 1, !.review = "corroborated"]
           /\ i \in Corroborating(m)
      BY <1>3, TakeGrows
  <2>2. rows[i] \in Row
      BY RowsOf
  <2>3. CASE rows'[i] = rows[i]
      BY <2>3 DEF Carries
  <2>4. CASE /\ rows'[i] = [rows[i] EXCEPT !.by = Len(rows) + 1, !.review = "corroborated"]
             /\ i \in Corroborating(m)
    <3>1. rows[i].gate # "none" /\ rows[i].review = "none"
        BY <2>4 DEF Corroborating, Pending
    <3> QED
        BY <2>2, <2>4, <3>1 DEF Row, Carries
  <2> QED
      BY <2>1, <2>3, <2>4
<1>6. Active' = {n}
    BY <1>1, <1>2, TakenRows DEF Active
<1> QED
    BY <1>1, <1>2, <1>3, <1>4, <1>5, <1>6

LEMMA FormReturns ==
    ASSUME OneProcess, IInv, PointsAtRows, ReturnInv, OneOverride, Form
    PROVE  ReturnInv'
<1>1. PICK e \in Episodes, m \in Statements : Materialize(e, m)
    BY DEF Form
<1>2. /\ pruner' = pruner /\ approval' = approval /\ Extended /\ FormOutcome
      /\ 0 \notin DOMAIN rows'
    BY FormGrows, FormExtends, Formed, NoZeroth DEF Grown
<1>3. AllPlanned'
    BY <1>2, PlanStays DEF ReturnInv, FormOutcome, Grown
<1>4. \A i \in DOMAIN rows : Resolves(i)
    BY <1>2 DEF FormOutcome
<1>5. CASE Reinforce(e, m) \/ FileAsHistory(e, m) \/ Park(e, m)
  <2>1. /\ \A i \in DOMAIN rows : Carries(i) /\ rows'[i].by = rows[i].by
        /\ \A n \in DOMAIN rows' \ DOMAIN rows : rows'[n].preds = {}
        /\ Active' = Active /\ Active \subseteq DOMAIN rows
        /\ \A i \in Active : /\ rows'[i].obj = rows[i].obj /\ rows'[i].to = rows[i].to
                             /\ rows'[i].preds = rows[i].preds
                             /\ rows'[i].replaced = rows[i].replaced
      BY <1>5, SetAsideRows, RowsOf DEF Carries
  <2>2. OverridesAlone'
      BY <2>1, OverridesStay DEF ReturnInv
  <2>3. EndlessBefore'
      BY <1>2, <1>4, <2>1, EndlessStays DEF ReturnInv, EndlessBefore
  <2>4. Interrupted' => Interrupted
      BY <1>2, <2>1, InterruptedBefore DEF Interrupted
  <2>5. \A r \in Active : Stands(r) /\ ~Marking(r) => Stands(r)' /\ ~Marking(r)'
      BY <1>2, <2>1 DEF Stands, Marking, Forever
  <2>6. Promised'
      BY <1>2, <2>4, <2>5, PromiseStays DEF ReturnInv
  <2> QED
      BY <1>3, <2>2, <2>3, <2>6 DEF ReturnInv
<1>6. CASE Take(e, m)
  <2>0. PICK n : n = Len(rows) + 1
      OBVIOUS
  <2>1. /\ DOMAIN rows' = DOMAIN rows \cup {n} /\ n \notin DOMAIN rows /\ Active' = {n}
        /\ \A i \in DOMAIN rows :
              /\ Carries(i)
              /\ rows'[i].by = rows[i].by \/ rows'[i].gate # "none" \/ i \in Active
        /\ rows'[n].obj = m.obj /\ rows'[n].until = m.until /\ rows'[n].to = m.until
        /\ rows'[n].preds = Predecessors(m) /\ ~rows'[n].replaced
        /\ \A i \in Active : rows[i].obj # m.obj
        /\ Contradictions(m) = Active
      BY <1>6, <2>0, TakerRows
  <2>2. OverridesAlone'
    <3>1. Overrides' \subseteq {n}
        BY <2>1 DEF Overrides
    <3>2. ASSUME NEW i \in Overrides'
          PROVE  \E k \in Statements : k.until # Forever /\ k.obj = rows'[i].obj
      <4>1. i = n /\ rows'[n].to # Forever
          BY <3>1, <3>2 DEF Overrides, Forever
      <4> QED
          BY <2>1, <4>1
    <3> QED
        BY <3>1, <3>2 DEF OverridesAlone, Forever
  <2>3. \A q \in rows'[n].preds : q.to = Forever
    <3>1. CASE m.until = Forever
        BY <2>1, <3>1 DEF Predecessors
    <3>2. CASE m.until # Forever
      <4>1. ASSUME NEW i \in Active PROVE rows[i].to = Forever
        <5> SUFFICES ASSUME rows[i].to # Forever PROVE FALSE
            OBVIOUS
        <5>1. PICK k \in Statements : k.until # Forever /\ k.obj = rows[i].obj
            BY DEF ReturnInv, OverridesAlone, Overrides
        <5> QED
            BY <2>1, <3>2, <5>1 DEF OneOverride
      <4> QED
          BY <2>1, <4>1 DEF Predecessors
    <3> QED
        BY <3>1, <3>2
  <2>4. EndlessBefore'
      BY <1>2, <1>4, <2>1, <2>3, EndlessStays DEF ReturnInv, EndlessBefore
  <2>5. ASSUME Interrupted' PROVE Stands(n)' /\ ~Marking(n)'
    <3>1. Active # {}
      <4>1. PICK i \in DOMAIN rows' : OnlyInterrupted(i)'
          BY <2>5 DEF Interrupted
      <4>2. OnlyInterrupted(i) \/ i \in Active
          BY <1>2, <2>1, <4>1, InterruptedBefore
      <4>3. i \in DOMAIN rows
          BY <1>2, <2>1, <4>1, InterruptedBefore
      <4>4. OnlyInterrupted(i) => \E r \in Active : Stands(r)
        <5>1. approval = NoReview
            BY <1>1, <1>2 DEF Materialize, Quiet, ReturnInv
        <5> QED
            BY <4>3, <5>1 DEF Interrupted, ReturnInv, Promised
      <4> QED
          BY <4>2, <4>4
    <3>2. m.until # Forever => rows'[n].preds # {}
        BY <2>1, <3>1 DEF Predecessors
    <3>3. Stands(n)'
        BY <2>1, <3>2 DEF Stands, Forever
    <3>4. ~Marking(n)'
      <4>1. pruner.held.row \in DOMAIN rows \cup {0}
          BY DEF ReturnInv, AllPlanned, Planned
      <4>2. n # 0
          BY <1>2, <2>1
      <4> QED
          BY <1>2, <2>1, <4>1, <4>2 DEF Marking
    <3> QED
        BY <3>3, <3>4
  <2>6. Promised'
      BY <2>1, <2>5 DEF Promised
  <2> QED
      BY <1>3, <2>2, <2>4, <2>6 DEF ReturnInv
<1> QED
    BY <1>1, <1>5, <1>6 DEF Materialize

-----------------------------------------------------------------------------
\* The steps of the operator.

\* One row is retired from current truth.
LEMMA RetiredReturns ==
    ASSUME IInv, ReturnInv, NEW i, NEW r, rows' = [rows EXCEPT ![i] = r],
           i \in DOMAIN rows => /\ r \in Row /\ r.preds = rows[i].preds
                                /\ r.gate = rows[i].gate /\ r.review = rows[i].review
                                /\ r.status # "ACTIVE",
           pruner'.plan = pruner.plan, pruner'.held \in {pruner.held, Nothing},
           pruner'.back = pruner.back
    PROVE  /\ OverridesAlone' /\ EndlessBefore' /\ AllPlanned'
           /\ DOMAIN rows' = DOMAIN rows /\ Active' = Active \ {i}
           /\ \A j \in DOMAIN rows : rows'[j] = IF j = i THEN r ELSE rows[j]
<1>1. /\ Grown /\ DOMAIN rows' = DOMAIN rows
      /\ \A j \in DOMAIN rows : rows'[j] = IF j = i THEN r ELSE rows[j]
    BY UpdateGrows
<1>2. Retires(i)
    BY Retiring
<1>3. 0 \notin DOMAIN rows' /\ Active \subseteq DOMAIN rows
    BY <1>1, NoZeroth, RowsOf DEF Grown
<1>4. OverridesAlone'
    BY <1>1, <1>2, <1>3, OverridesStay DEF Retires, ReturnInv
<1>5. EndlessBefore'
    BY <1>1, <1>2, EndlessStays DEF Retires, ReturnInv, EndlessBefore
<1>6. AllPlanned'
    BY <1>1, <1>2, <1>3, PlanStays DEF Retires, ReturnInv
<1> QED
    BY <1>1, <1>2, <1>4, <1>5, <1>6 DEF Retires

LEMMA RejectReturns ==
    ASSUME IInv, PointsAtRows, ReturnInv, NEW i \in DOMAIN rows, RejectReview(i)
    PROVE  ReturnInv'
<1> DEFINE r == [rows[i] EXCEPT !.review = "rejected"]
<1>1. rows' = [rows EXCEPT ![i] = r] /\ rows[i] \in Row /\ rows[i].review = "none"
      /\ pruner' = pruner /\ approval' = approval
    BY RowsOf DEF RejectReview, Pending
<1>2. /\ r \in Row /\ r.preds = rows[i].preds /\ r.gate = rows[i].gate /\ r.obj = rows[i].obj
      /\ r.until = rows[i].until /\ r.to = rows[i].to /\ r.by = rows[i].by
      /\ r.status = rows[i].status /\ r.forgotten = rows[i].forgotten
      /\ r.replaced = rows[i].replaced /\ r.review = "rejected"
    BY <1>1 DEF Row
<1> HIDE DEF r
<1>3. /\ Grown /\ DOMAIN rows' = DOMAIN rows /\ Extended
      /\ \A j \in DOMAIN rows : rows'[j] = IF j = i THEN r ELSE rows[j]
    BY <1>1, <1>2, UpdateGrows, StillPoints
<1>4. ASSUME NEW j \in DOMAIN rows
      PROVE  /\ Carries(j) /\ Resolves(j) /\ rows'[j].by = rows[j].by /\ rows'[j].obj = rows[j].obj
             /\ rows'[j].to = rows[j].to /\ rows'[j].preds = rows[j].preds
             /\ rows'[j].replaced = rows[j].replaced /\ rows'[j].status = rows[j].status
  <2>1. CASE j = i
    <3>1. Pending(i)
        BY DEF RejectReview
    <3> QED
        BY <1>1, <1>2, <1>3, <2>1, <3>1 DEF Carries, Resolves
  <2>2. CASE j # i
      BY <1>3, <2>2 DEF Carries, Resolves
  <2> QED
      BY <2>1, <2>2
<1>5. Active' = Active /\ Active \subseteq DOMAIN rows /\ 0 \notin DOMAIN rows'
    BY <1>3, <1>4, RowsOf, NoZeroth DEF Active, Grown
<1>6. OverridesAlone'
    BY <1>4, <1>5, OverridesStay DEF ReturnInv
<1>7. EndlessBefore'
    BY <1>1, <1>3, <1>4, EndlessStays DEF ReturnInv, EndlessBefore
<1>8. AllPlanned'
    BY <1>1, <1>3, <1>4, <1>5, PlanStays DEF ReturnInv, Fades
<1>9. Promised'
  <2>1. Interrupted' => Interrupted
    <3> SUFFICES ASSUME NEW j \in DOMAIN rows', OnlyInterrupted(j)' PROVE Interrupted
        BY DEF Interrupted
    <3>0. PICK S : S = {}
        OBVIOUS
    <3>1. \A k \in DOMAIN rows : /\ Carries(k)
                                 /\ \/ rows'[k].by = rows[k].by \/ rows'[k].gate # "none"
                                    \/ k \in S
        BY <1>4
    <3>2. j \in DOMAIN rows /\ (OnlyInterrupted(j) \/ j \in S)
        BY <1>3, <3>1, InterruptedBefore
    <3> QED
        BY <3>0, <3>2 DEF Interrupted
  <2>2. \A k \in Active : Stands(k) /\ ~Marking(k) => Stands(k)' /\ ~Marking(k)'
      BY <1>1, <1>4, <1>5 DEF Stands, Marking, Forever
  <2> QED
      BY <1>1, <2>1, <2>2, PromiseStays DEF ReturnInv
<1> QED
    BY <1>6, <1>7, <1>8, <1>9 DEF ReturnInv

LEMMA ForgetReturns ==
    ASSUME IInv, ReturnInv, NEW i \in DOMAIN rows, Forget(i)
    PROVE  ReturnInv'
<1> DEFINE r == Retired(rows[i])
<1>1. rows' = [rows EXCEPT ![i] = r] /\ pruner' = pruner
    BY DEF Forget
<1>2. r \in Row /\ r.preds = rows[i].preds /\ rows[i] \in Row
    BY OperatorRows, RowsOf
<1>3. r.gate = rows[i].gate /\ r.review = rows[i].review /\ r.status # "ACTIVE" /\ r.forgotten
    BY <1>2 DEF Retired, Row
<1> HIDE DEF r
<1>4. /\ OverridesAlone' /\ EndlessBefore' /\ AllPlanned' /\ DOMAIN rows' = DOMAIN rows
      /\ \A j \in DOMAIN rows : rows'[j] = IF j = i THEN r ELSE rows[j]
    BY <1>1, <1>2, <1>3, RetiredReturns
<1>5. ~Interrupted'
    BY <1>3, <1>4 DEF Interrupted, OnlyInterrupted
<1> QED
    BY <1>4, <1>5 DEF ReturnInv, Promised

LEMMA SupersedeReturns ==
    ASSUME IInv, ApprovalAlone, ReturnInv, ApproveSupersede
    PROVE  ReturnInv'
<1>0. TypeOK
    BY DEF IInv
<1> DEFINE i == Oldest(approval.todo)
           r == Superseded(rows[i], approval.row, now)
<1>1. rows' = [rows EXCEPT ![i] = r] /\ pruner' = pruner
    BY DEF ApproveSupersede
<1>2. i \in DOMAIN rows => r \in Row /\ r.preds = rows[i].preds /\ rows[i] \in Row
  <2> HIDE DEF i
  <2>1. approval.row \in Nat
      BY <1>0 DEF TypeOK
  <2> QED
      BY <2>1, OperatorRows, RowsOf
<1>3. i \in DOMAIN rows => r.gate = rows[i].gate /\ r.review = rows[i].review /\ r.status # "ACTIVE"
  <2> HIDE DEF i
  <2> QED
      BY <1>2 DEF Superseded, Row
<1> HIDE DEF r, i
<1>4. OverridesAlone' /\ EndlessBefore' /\ AllPlanned'
    BY <1>1, <1>2, <1>3, RetiredReturns
<1>5. approval' # NoReview
  <2>1. approval # NoReview /\ approval'.row = approval.row
      BY <1>0 DEF ApproveSupersede, TypeOK, NoReview
  <2>2. approval.row # 0
      BY <2>1, NewestRow DEF ApprovalAlone
  <2> QED
      BY <2>1, <2>2 DEF NoReview
<1> QED
    BY <1>4, <1>5 DEF ReturnInv, Promised, NoReview

LEMMA FinishReturns ==
    ASSUME IInv, ApprovalAlone, ReturnInv, ApproveFinish
    PROVE  ReturnInv'
<1>1. PICK i : i = approval.row
    OBVIOUS
<1> DEFINE r == Activated(rows[i])
<1>2. /\ i \in DOMAIN rows /\ Pending(i) /\ rows' = [rows EXCEPT ![i] = r] /\ pruner' = pruner
    BY <1>1 DEF ApproveFinish, ApprovalAlone
<1>3. rows[i] \in Row /\ r \in Row /\ r.preds = rows[i].preds
    BY <1>2, RowsOf, OperatorRows
<1>4. r.gate = rows[i].gate /\ r.review = "approved" /\ r.status = "ACTIVE" /\ r.to = Forever
    BY <1>3 DEF Activated, Row
<1> HIDE DEF r
<1>5. /\ Grown /\ DOMAIN rows' = DOMAIN rows
      /\ \A j \in DOMAIN rows : rows'[j] = IF j = i THEN r ELSE rows[j]
    BY <1>2, <1>3, UpdateGrows
<1>6. ASSUME NEW j \in DOMAIN rows
      PROVE  Resolves(j) /\ (Fades(j) \/ rows'[j].review = "approved")
  <2>1. CASE j = i
      BY <1>2, <1>3, <1>4, <1>5, <2>1 DEF Resolves
  <2>2. CASE j # i
      BY <1>5, <2>2 DEF Resolves, Fades
  <2> QED
      BY <2>1, <2>2
<1>7. 0 \notin DOMAIN rows' /\ Active' \subseteq DOMAIN rows
    BY <1>5, NoZeroth DEF Grown, Active
<1>8. OverridesAlone'
  <2>1. ASSUME NEW j \in Active'
        PROVE  \/ rows'[j].to = Forever
               \/ j \in Active /\ rows'[j].to = rows[j].to /\ rows'[j].obj = rows[j].obj
    <3>1. CASE j = i
        BY <1>2, <1>4, <1>5, <3>1
    <3>2. CASE j # i
        BY <1>5, <1>7, <2>1, <3>2 DEF Active
    <3> QED
        BY <3>1, <3>2
  <2> QED
      BY <2>1, OverridesStay DEF ReturnInv
<1>9. EndlessBefore'
    BY <1>2, <1>5, <1>6, EndlessStays DEF ReturnInv, EndlessBefore
<1>10. AllPlanned'
    BY <1>2, <1>5, <1>6, <1>7, PlanStays DEF ReturnInv
<1>11. ~Interrupted'
    BY <1>2, <1>4, <1>5 DEF Interrupted, OnlyInterrupted
<1> QED
    BY <1>8, <1>9, <1>10, <1>11 DEF ReturnInv, Promised

-----------------------------------------------------------------------------
\* The steps of the pruning run.

\* The run forgets what it had planned, or plans again; no row changes.
LEMMA PlanningReturns ==
    ASSUME IInv, ReturnInv, ~Ages, PruneStart \/ SweepStart \/ PruneEnd
    PROVE  ReturnInv'
<1>0. TypeOK
    BY DEF IInv
<1>1. rows' = rows /\ approval' = approval
    BY DEF PruneStart, SweepStart, PruneEnd
<1>2. PICK plan : /\ pruner'.plan = plan /\ pruner'.held = Nothing /\ pruner'.back = {}
                  /\ \A p \in plan : p \in Tasks("expired", pruner.at) \cup Tasks("retired", pruner.at)
  <2>1. CASE PruneStart
      BY <2>1 DEF PruneStart, Resting
  <2>2. CASE PruneEnd
      BY <2>2 DEF PruneEnd, Resting
  <2>3. CASE SweepStart
    <3>1. PICK aged \in SUBSET Tasks("aged", pruner.at) :
             pruner' = [Resting EXCEPT !.stage = "sweep", !.at = pruner.at,
                            !.plan = aged \cup Tasks("expired", pruner.at)
                                          \cup Tasks("retired", pruner.at)]
        BY <2>3 DEF SweepStart
    <3>2. aged = {}
        BY <3>1 DEF Tasks, Due
    <3> QED
        BY <3>1, <3>2 DEF Resting
  <2> QED
      BY <2>1, <2>2, <2>3
<1>3. ASSUME NEW p \in plan PROVE Planned(p)
  <2>1. CASE p \in Tasks("expired", pruner.at)
    <3>1. PICK i \in DOMAIN rows : /\ p = [row |-> i, why |-> "expired", to |-> rows[i].to]
                                  /\ rows[i].to <= pruner.at
        BY <2>1 DEF Tasks, Due
    <3>2. rows[i].to # Forever
        BY <3>1, RowsOf, Times
    <3> QED
        BY <3>1, <3>2 DEF Planned
  <2>2. CASE p \in Tasks("retired", pruner.at)
    <3>1. PICK i \in DOMAIN rows : /\ p = [row |-> i, why |-> "retired", to |-> rows[i].to]
                                  /\ rows[i].status = "SUPERSEDED"
        BY <2>2 DEF Tasks, Due
    <3> QED
        BY <3>1 DEF Planned, Active
  <2> QED
      BY <1>2, <2>1, <2>2
<1>4. 0 \notin Active
    BY RowsOf, NewestRow
<1>5. Planned(Nothing)
    BY <1>4 DEF Planned, Nothing
<1>6. AllPlanned'
    BY <1>1, <1>2, <1>3, <1>5 DEF AllPlanned, Planned, Active, Forever
<1>7. OverridesAlone' /\ EndlessBefore'
    BY <1>1, <1>2 DEF ReturnInv, OverridesAlone, Overrides, EndlessBefore, Active, Forever
<1>8. Promised'
  <2>1. Interrupted' => Interrupted
      BY <1>1 DEF Interrupted, OnlyInterrupted, Forever
  <2>2. ASSUME NEW r \in Active, Stands(r) PROVE Stands(r)' /\ ~Marking(r)'
      BY <1>1, <1>2, <1>4, <2>2 DEF Stands, Marking, Nothing, Active, Forever
  <2> QED
      BY <1>1, <2>1, <2>2, PromiseStays DEF ReturnInv
<1> QED
    BY <1>6, <1>7, <1>8 DEF ReturnInv

\* Among rows, one starts last; so does a predecessor of an override.
LEMMA LatestRow ==
    ASSUME rows \in Seq(Row), NEW S \in SUBSET DOMAIN rows, S # {}
    PROVE  \E i \in S : \A j \in S : rows[i].from >= rows[j].from
<1> DEFINE R == [i \in S |-> [j \in S |-> rows[i].from > rows[j].from]]
<1>1. \A i \in S : rows[i].from \in Nat
    BY RowFields
<1>2. \A i, j \in S : R[i][j] <=> rows[i].from > rows[j].from
    OBVIOUS
<1>3. IsFiniteSet(S)
    BY RowsAreNumbered
<1> HIDE DEF R
<1>4. \A i \in S : ~R[i][i]
    BY <1>1, <1>2
<1>5. \A i, j, k \in S : R[i][j] /\ R[j][k] => R[i][k]
    BY <1>1, <1>2
<1>6. PICK i \in S : \A j \in S : ~R[j][i]
    BY <1>3, <1>4, <1>5, BestExists
<1>7. ASSUME NEW j \in S PROVE rows[i].from >= rows[j].from
    BY <1>1, <1>2, <1>6
<1> QED
    BY <1>7

LEMMA LatestExists ==
    ASSUME IInv, NEW i \in DOMAIN rows, rows[i].preds # {}
    PROVE  \E q \in rows[i].preds :
              \A r \in rows[i].preds : rows[q.row].from >= rows[r.row].from
<1> DEFINE S == {q.row : q \in rows[i].preds}
<1>1. S \in SUBSET DOMAIN rows /\ S # {}
    BY DEF IInv, PredecessorsExist
<1>2. PICK j \in S : \A k \in S : rows[j].from >= rows[k].from
  <2> HIDE DEF S
  <2> QED
      BY <1>1, LatestRow DEF IInv, TypeOK
<1> QED
    BY <1>2

LEMMA TakenReturns ==
    ASSUME IInv, ReturnInv, SweepTake
    PROVE  ReturnInv'
<1>0. TypeOK
    BY DEF IInv
<1>1. PICK p \in pruner.plan :
          /\ pruner' = [pruner EXCEPT !.held = p, !.plan = @ \ {p}, !.back = Restorable(p)]
          /\ rows' = rows /\ approval' = approval
    BY DEF SweepTake
<1>2. /\ pruner'.held = p /\ pruner'.plan = pruner.plan \ {p} /\ pruner'.back = Restorable(p)
    BY <1>0, <1>1 DEF TypeOK
<1>3. Planned(p)
    BY DEF ReturnInv, AllPlanned
<1>4. AllPlanned'
    BY <1>1, <1>2 DEF ReturnInv, AllPlanned, Planned, Active, Forever
<1>5. OverridesAlone'
    BY <1>1 DEF ReturnInv, OverridesAlone, Overrides, Active, Forever
<1>6. EndlessBefore'
  <2>1. \A q \in Restorable(p) : q.to = Forever
    <3>1. ASSUME NEW q \in Restorable(p)
          PROVE  q \in rows[p.row].preds /\ p.row \in DOMAIN rows
      <4>1. p.why = "expired" /\ q \in rows[p.row].preds
          BY <3>1 DEF Restorable
      <4> QED
          BY <4>1 DEF IInv, PlanRefers
    <3> QED
        BY <3>1 DEF ReturnInv, EndlessBefore
  <2> QED
      BY <1>1, <1>2, <2>1 DEF ReturnInv, EndlessBefore, Forever
<1>7. Promised'
  <2> SUFFICES ASSUME approval = NoReview, Interrupted
               PROVE  \E r \in Active : Stands(r) /\ ~(p.row = r /\ Restorable(p) = {})
    <3>1. Interrupted' <=> Interrupted
        BY <1>1 DEF Interrupted, OnlyInterrupted, Forever
    <3>2. Active' = Active /\ \A r \in Active : Stands(r)' <=> Stands(r)
        BY <1>1 DEF Active, Stands, Forever
    <3> QED
        BY <1>1, <1>2, <3>1, <3>2 DEF Promised, Marking, NoReview
  <2>1. PICK r \in Active : Stands(r)
      BY DEF ReturnInv, Promised
  <2>2. CASE p.row # r
      BY <2>1, <2>2
  <2>3. CASE p.row = r
    <3>1. r \in DOMAIN rows /\ rows[r].review # "approved"
        BY RowsOf DEF Interrupted, OnlyInterrupted
    <3>2. p.why = "expired" /\ rows[r].to = p.to /\ p.to # Forever
        BY <1>3, <2>3, <3>1 DEF Planned
    <3>3. rows[r].preds # {} /\ ~rows[r].replaced
        BY <2>1, <3>2 DEF Stands
    <3>4. CASE \E j \in Active \ {r} : rows[j].to > pruner.at
      <4>1. PICK j \in Active \ {r} : TRUE
          BY <3>4
      <4>2. rows[j].to = Forever
          BY <3>2, <4>1 DEF ReturnInv, OverridesAlone, Overrides
      <4> QED
          BY <2>3, <4>1, <4>2 DEF Stands
    <3>5. CASE ~\E j \in Active \ {r} : rows[j].to > pruner.at
      <4>1. PICK q \in rows[r].preds :
                \A d \in rows[r].preds : rows[q.row].from >= rows[d.row].from
          BY <3>1, <3>3, LatestExists
      <4>2. q.to > p.to
        <5>1. q.to = Forever
            BY <3>1 DEF ReturnInv, EndlessBefore
        <5>2. p.to \in 0..Forever
            BY <3>1, <3>2, RowsOf
        <5> QED
            BY <3>2, <5>1, <5>2, Times
      <4>3. q \in Restorable(p)
          BY <2>3, <3>2, <3>3, <3>5, <4>1, <4>2 DEF Restorable
      <4> QED
          BY <2>1, <4>3
    <3> QED
        BY <3>4, <3>5
  <2> QED
      BY <2>2, <2>3
<1> QED
    BY <1>4, <1>5, <1>6, <1>7 DEF ReturnInv

LEMMA RestoredReturns ==
    ASSUME IInv, ReturnInv, SweepRestore
    PROVE  ReturnInv'
<1>0. TypeOK
    BY DEF IInv
<1>1. PICK q \in pruner.back :
          rows' = Append([rows EXCEPT ![pruner.held.row] = [@ EXCEPT !.replaced = TRUE]],
                         Restored(pruner.held, q))
    BY DEF SweepRestore
<1>2. PICK n : n = Len(rows) + 1
    OBVIOUS
<1>3. /\ Grown /\ DOMAIN rows' = DOMAIN rows \cup {n} /\ q.row \in DOMAIN rows
      /\ \A i \in DOMAIN rows : rows'[i] \in {rows[i], [rows[i] EXCEPT !.replaced = TRUE]}
      /\ rows'[n] = Restored(pruner.held, q)
    BY <1>1, <1>2, RestoreGrows
<1>4. ASSUME NEW i \in DOMAIN rows
      PROVE  /\ Resolves(i) /\ Fades(i) /\ rows'[i].obj = rows[i].obj
             /\ rows'[i].status = rows[i].status /\ rows'[i].to = rows[i].to
  <2>1. rows[i] \in Row
      BY RowsOf
  <2> QED
      BY <1>3, <2>1 DEF Row, Resolves, Fades
<1>5. /\ rows'[n].to = Forever /\ rows'[n].until = Forever /\ rows'[n].by = 0
      /\ rows'[n].preds = rows[q.row].preds
  <2>1. rows[q.row] \in Row /\ q.to = Forever
      BY <1>3, RowsOf DEF ReturnInv, EndlessBefore
  <2> QED
      BY <1>3, <2>1 DEF Restored, Row
<1>6. n \notin DOMAIN rows /\ 0 \notin DOMAIN rows' /\ DOMAIN rows' = 1..n /\ n \in Nat
  <2>1. Len(rows) \in Nat /\ DOMAIN rows = 1..Len(rows)
      BY RowsAreNumbered DEF IInv, TypeOK
  <2> QED
      BY <1>2, <1>3, <2>1, NoZeroth DEF Grown
<1>7. /\ pruner'.plan = pruner.plan /\ pruner'.held = pruner.held /\ pruner'.back = {}
    BY <1>0 DEF SweepRestore, TypeOK
<1>8. OverridesAlone'
  <2>1. ASSUME NEW i \in Active'
        PROVE  \/ rows'[i].to = Forever
               \/ i \in Active /\ rows'[i].to = rows[i].to /\ rows'[i].obj = rows[i].obj
    <3>1. i = n \/ i \in DOMAIN rows
        BY <1>3, <2>1 DEF Active
    <3> QED
        BY <1>4, <1>5, <2>1, <3>1 DEF Active
  <2> QED
      BY <2>1, OverridesStay DEF ReturnInv
<1>9. EndlessBefore'
  <2>1. \A k \in DOMAIN rows' \ DOMAIN rows : \A d \in rows'[k].preds : d.to = Forever
      BY <1>3, <1>5 DEF ReturnInv, EndlessBefore
  <2> QED
      BY <1>4, <1>7, <2>1, EndlessStays DEF ReturnInv
<1>10. AllPlanned'
    BY <1>3, <1>4, <1>6, <1>7, PlanStays DEF ReturnInv
<1>11. ~Interrupted'
  <2> SUFFICES ASSUME NEW i \in DOMAIN rows', OnlyInterrupted(i)' PROVE FALSE
      BY DEF Interrupted
  <2>1. n \in DOMAIN rows' /\ (n > i \/ n = i)
      BY <1>6
  <2>2. CASE n > i
      BY <1>5, <2>1, <2>2 DEF OnlyInterrupted, Forever
  <2>3. CASE n = i
      BY <1>5, <1>6, <2>3 DEF OnlyInterrupted
  <2> QED
      BY <2>1, <2>2, <2>3
<1> QED
    BY <1>8, <1>9, <1>10, <1>11 DEF ReturnInv, Promised

LEMMA MarkedReturns ==
    ASSUME IInv, PointsAtRows, ReturnInv, SweepMark
    PROVE  ReturnInv'
<1>0. TypeOK
    BY DEF IInv
<1> DEFINE i == pruner.held.row
           r == Pruned(rows[i], pruner.held.why)
<1>1. /\ rows' = [rows EXCEPT ![i] = r] /\ approval' = approval
      /\ pruner'.plan = pruner.plan /\ pruner'.held = Nothing /\ pruner'.back = pruner.back
      /\ pruner.back = {}
    BY <1>0 DEF SweepMark, TypeOK
<1>2. i \in DOMAIN rows => r \in Row /\ r.preds = rows[i].preds /\ rows[i] \in Row
    BY PrunedTyped, RowsOf
<1>3. i \in DOMAIN rows =>
          /\ r.gate = rows[i].gate /\ r.review = rows[i].review /\ r.status # "ACTIVE"
          /\ r.until = rows[i].until /\ r.by = rows[i].by /\ r.forgotten = rows[i].forgotten
  <2> HIDE DEF i
  <2> QED
      BY <1>2 DEF Pruned, Row
<1>4. PICK h : h = i
    OBVIOUS
<1> HIDE DEF r, i
<1>5. /\ OverridesAlone' /\ EndlessBefore' /\ AllPlanned'
      /\ DOMAIN rows' = DOMAIN rows /\ Active' = Active \ {i}
      /\ \A j \in DOMAIN rows : rows'[j] = IF j = i THEN r ELSE rows[j]
    BY <1>1, <1>2, <1>3, RetiredReturns
<1>6. Interrupted' => Interrupted
  <2> SUFFICES ASSUME NEW j \in DOMAIN rows', OnlyInterrupted(j)' PROVE Interrupted
      BY DEF Interrupted
  <2>0. PICK S : S = {}
      OBVIOUS
  <2>1. \A k \in DOMAIN rows : /\ Carries(k)
                               /\ \/ rows'[k].by = rows[k].by \/ rows'[k].gate # "none"
                                  \/ k \in S
      BY <1>3, <1>5 DEF Carries
  <2>2. Extended
      BY StillPoints
  <2>3. j \in DOMAIN rows /\ (OnlyInterrupted(j) \/ j \in S)
      BY <2>1, <2>2, InterruptedBefore
  <2> QED
      BY <2>0, <2>3 DEF Interrupted
<1>7. Promised'
  <2> SUFFICES ASSUME approval = NoReview, Interrupted
               PROVE  \E k \in Active' : Stands(k)' /\ ~Marking(k)'
      BY <1>1, <1>6 DEF Promised, NoReview
  <2>1. PICK k \in Active : Stands(k) /\ k # i
      BY <1>1 DEF ReturnInv, Promised, Marking, i
  <2>2. k \in Active' /\ rows'[k] = rows[k] /\ k # 0
      BY <1>5, <2>1, RowsOf, NewestRow
  <2> QED
      BY <1>1, <2>1, <2>2 DEF Stands, Marking, Nothing, Forever
<1> QED
    BY <1>5, <1>7 DEF ReturnInv

-----------------------------------------------------------------------------
\* Every step.

LEMMA ReturnStep ==
    ASSUME OneProcess, NothingComesBack, ~Ages, OneOverride,
           IInv, ApprovalAlone, PointsAtRows, NoRepair, ReturnInv, [Next]_vars
    PROVE  ReturnInv'
<1>1. CASE Form
    BY <1>1, FormReturns
<1>2. CASE Approve
    BY <1>2, SupersedeReturns, FinishReturns DEF Approve
<1>3. CASE Operate
  <2>1. PICK i \in DOMAIN rows : RejectReview(i) \/ ApproveStart(i) \/ Forget(i)
      BY <1>3, NothingFails DEF Operate
  <2>2. CASE ApproveStart(i)
    <3>1. rows' = rows /\ pruner' = pruner /\ approval' # NoReview
        BY <2>2, NewestRow DEF ApproveStart, NoReview
    <3> QED
        BY <3>1 DEF ReturnInv, OverridesAlone, Overrides, EndlessBefore, AllPlanned, Planned,
                    Promised, Active, Forever, NoReview
  <2> QED
      BY <2>1, <2>2, RejectReturns, ForgetReturns
<1>4. CASE PruneStep
    BY <1>4, PlanningReturns, TakenReturns, RestoredReturns, MarkedReturns
    DEF PruneStep, RepairOne, NoRepair
<1>5. CASE Tick \/ UNCHANGED vars
  <2>1. rows' = rows /\ pruner' = pruner /\ approval' = approval
      BY <1>5 DEF Tick, vars
  <2>2. OverridesAlone' /\ EndlessBefore' /\ AllPlanned'
      BY <2>1 DEF ReturnInv, OverridesAlone, Overrides, EndlessBefore, AllPlanned, Planned,
                  Active, Forever
  <2>3. Promised'
    <3>1. Interrupted' => Interrupted
        BY <2>1 DEF Interrupted, OnlyInterrupted, Forever
    <3>2. \A r \in Active : Stands(r) /\ ~Marking(r) => Stands(r)' /\ ~Marking(r)'
        BY <2>1 DEF Stands, Marking, Active, Forever
    <3> QED
        BY <2>1, <3>1, <3>2, PromiseStays DEF ReturnInv
  <2> QED
      BY <2>2, <2>3 DEF ReturnInv
<1> QED
    BY <1>1, <1>2, <1>3, <1>4, <1>5, NothingFails DEF Next

LEMMA InitReturns == Init => ReturnInv
<1> SUFFICES ASSUME Init PROVE ReturnInv
    OBVIOUS
<1>1. /\ DOMAIN rows = {} /\ pruner.plan = {} /\ pruner.held = Nothing /\ pruner.back = {}
    BY EmptySeq, LenProperties DEF Init, Resting
<1> QED
    BY <1>1 DEF ReturnInv, OverridesAlone, Overrides, EndlessBefore, AllPlanned, Planned, Nothing,
                Promised, Interrupted, Active

(* A truth that only temporary statements displaced is not lost               *)
(* (PermanentTruthReturns): when the last of them has run out and been        *)
(* pruned, the slot is not empty.  In one process, where nothing fails,       *)
(* nothing comes back from the archive, no current row ages away, and all     *)
(* temporary statements name one object: of two overrides with different      *)
(* objects the second would remember only the first.                          *)
THEOREM PermanentTruthIsKept ==
    ASSUME OneProcess, Restorers = {}, MaxFaults = 0, ~Ages, OneOverride
    PROVE  Spec => []PermanentTruthReturns
<1>1. NothingComesBack
    BY DEF NothingComesBack
<1>2. Spec => [](SlotInv /\ NoRepair)
    BY NeverRepaired
<1>3. SlotInv => IInv /\ ApprovalAlone
    BY DEF SlotInv
<1>4. Init => NobodyPends /\ LineageInv /\ ReturnInv
    BY InitEnds, InitReturns
<1>5. SlotInv /\ NoRepair /\ NobodyPends /\ LineageInv /\ ReturnInv /\ [Next]_vars
        => NobodyPends' /\ LineageInv' /\ ReturnInv'
    BY <1>1, <1>3, LineageStep, ReturnStep DEF LineageInv
<1>6. ReturnInv => PermanentTruthReturns
    BY DEF ReturnInv, Promised, Interrupted, PermanentTruthReturns
<1> QED
    BY <1>2, <1>4, <1>5, <1>6, PTL DEF Spec
=============================================================================
