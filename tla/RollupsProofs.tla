---------------------------- MODULE RollupsProofs ----------------------------
(* Theorems about Rollups, for any facts to start with, any cluster size,     *)
(* depth and bounds.                                                          *)
EXTENDS Rollups, SequenceTheorems, WellFoundedInduction, TLAPS

-----------------------------------------------------------------------------
(* Rows, one at a time. *)

Shaped(r) ==
    /\ r \in Seq(Row) /\ Len(r) <= MaxRows
    /\ \A i \in DOMAIN r : Linked(r, i)

LEMMA RowsAreNumbered ==
    ASSUME NEW r, r \in Seq(Row)
    PROVE  /\ Len(r) \in Nat /\ DOMAIN r = 1..Len(r)
           /\ \A i \in DOMAIN r : r[i] \in Row /\ i \in Nat /\ i # None
<1>1. DOMAIN r = 1..Len(r) /\ Len(r) \in Nat
    BY LenProperties
<1>2. \A i \in DOMAIN r : r[i] \in Row
    BY <1>1, ElementOfSeq
<1> QED
    BY <1>1, <1>2 DEF None

LEMMA RowFields ==
    ASSUME NEW x \in Row
    PROVE  /\ x.depth \in 0..MaxDepth /\ x.depth \in Nat /\ x.version \in Nat
           /\ x.stale \in BOOLEAN /\ x.shown \in BOOLEAN /\ x.brief \in BOOLEAN
           /\ x.pinned \in BOOLEAN /\ x.ghost \in BOOLEAN
           /\ x.status \in {"active", "superseded", "pruned"}
           /\ x.by \in 0..MaxRows /\ x.parent \in 0..MaxRows /\ x.dup \in 0..MaxRows
           /\ x.members \in SUBSET (1..MaxRows)
BY RollupsAssumption DEF Row

LEMMA Bounds ==
    /\ MaxRows \in Nat /\ MaxDepth \in Nat /\ MaxChanges \in Nat
    /\ None \in 0..MaxRows
BY RollupsAssumption DEF None

LEMMA ClearedParent ==
    ASSUME NEW x \in Row, NEW y, y = [x EXCEPT !.shown = TRUE, !.parent = None]
    PROVE  /\ y \in Row /\ y.parent = None /\ y.shown
           /\ y.depth = x.depth /\ y.status = x.status /\ y.brief = x.brief
           /\ y.by = x.by /\ y.members = x.members /\ y.dup = x.dup /\ y.stale = x.stale
BY Bounds DEF Row

LEMMA ClearedDuplicate ==
    ASSUME NEW x \in Row, NEW y, y = [x EXCEPT !.shown = TRUE, !.dup = None]
    PROVE  /\ y \in Row /\ y.dup = None /\ y.shown
           /\ y.depth = x.depth /\ y.status = x.status /\ y.brief = x.brief
           /\ y.by = x.by /\ y.members = x.members /\ y.parent = x.parent /\ y.stale = x.stale
BY Bounds DEF Row

LEMMA FactIsARow ==
    ASSUME NEW brief \in BOOLEAN PROVE Fact(brief) \in Row
BY RollupsAssumption DEF Fact, Row, None

LEMMA SameLength ==
    ASSUME NEW r, r \in Seq(Row), NEW s, s = [j \in DOMAIN r |-> s[j]],
           \A j \in DOMAIN r : s[j] \in Row
    PROVE  s \in Seq(Row) /\ Len(s) = Len(r) /\ DOMAIN s = DOMAIN r
<1>1. Len(r) \in Nat /\ DOMAIN r = 1..Len(r)
    BY RowsAreNumbered
<1>2. s \in [1..Len(r) -> Row]
    BY <1>1
<1> QED
    BY <1>1, <1>2, SeqDef, LenProperties

LEMMA OneLonger ==
    ASSUME NEW r, r \in Seq(Row), NEW x \in Row, NEW s, s = Append(r, x)
    PROVE  /\ s \in Seq(Row) /\ Len(s) = Len(r) + 1 /\ s[Len(r) + 1] = x
           /\ DOMAIN s = DOMAIN r \cup {Len(r) + 1} /\ Len(r) + 1 \notin DOMAIN r
           /\ \A j \in DOMAIN r : s[j] = r[j]
<1>1. Len(r) \in Nat /\ DOMAIN r = 1..Len(r)
    BY RowsAreNumbered
<1>2. /\ s \in Seq(Row) /\ Len(s) = Len(r) + 1
      /\ (\A j \in 1..Len(r) : s[j] = r[j]) /\ s[Len(r) + 1] = x
    BY AppendProperties
<1>3. DOMAIN s = 1..Len(r) + 1
    BY <1>2, RowsAreNumbered
<1> QED
    BY <1>1, <1>2, <1>3

\* What a step may do to the rows there are, and how it may add others,
\* without breaking a link.
LEMMA StaysShaped ==
    ASSUME NEW r, Shaped(r), NEW s, s \in Seq(Row),
           Len(r) <= Len(s), Len(s) <= MaxRows,
           \A j \in DOMAIN r :
             /\ s[j].depth = r[j].depth
             /\ s[j].by = r[j].by \/ s[j].by \in j + 1..Len(s)
             /\ \/ s[j].parent \in {None, r[j].parent}
                \/ s[j].parent \in DOMAIN s /\ s[s[j].parent].depth = r[j].depth + 1
             /\ s[j].dup \in {None, r[j].dup} \cup DOMAIN s
             /\ \/ s[j].members = r[j].members
                \/ \A m \in s[j].members : m \in DOMAIN r /\ r[m].depth + 1 = r[j].depth,
           \A j \in DOMAIN s \ DOMAIN r : Linked(s, j)
    PROVE  Shaped(s)
<1>1. /\ Len(r) \in Nat /\ DOMAIN r = 1..Len(r)
      /\ Len(s) \in Nat /\ DOMAIN s = 1..Len(s)
    BY RowsAreNumbered DEF Shaped
<1>2. DOMAIN r \subseteq DOMAIN s
    BY <1>1
<1>3. ASSUME NEW i \in DOMAIN r PROVE Linked(s, i)
  <2>1. Linked(r, i)
      BY DEF Shaped
  <2>2. \A j \in i + 1..Len(r) : j \in i + 1..Len(s)
      BY <1>1
  <2>3. s[i].by \in {None} \cup i + 1..Len(s)
      BY <2>1, <2>2 DEF Linked
  <2>4. s[i].dup \in {None} \cup DOMAIN s
      BY <1>2, <2>1 DEF Linked
  <2>5. s[i].parent # None => /\ s[i].parent \in DOMAIN s
                              /\ s[s[i].parent].depth = s[i].depth + 1
      BY <1>2, <2>1 DEF Linked
  <2>6. \A m \in s[i].members : m \in DOMAIN s /\ s[m].depth + 1 = s[i].depth
      BY <1>2, <2>1 DEF Linked
  <2> QED
      BY <2>3, <2>4, <2>5, <2>6 DEF Linked
<1> QED
    BY <1>3 DEF Shaped

-----------------------------------------------------------------------------
(* What invalidation, re-promotion and archiving do to each row. *)

\* The views above a row: whatever rests on it, or on one of them, is one.
LEMMA AboveIsClosed ==
    ASSUME NEW r, NEW i, NEW v \in Views(r), NEW m \in r[v].members,
           m = i \/ m \in Above(r, i)
    PROVE  v \in Above(r, i)
<1> SUFFICES ASSUME NEW S \in SUBSET Views(r),
                    \A w \in Views(r) : r[w].members \cap (S \cup {i}) # {} => w \in S
             PROVE  v \in S
    BY DEF Above
<1>1. m \in S \cup {i}
    BY DEF Above
<1> QED
    BY <1>1

LEMMA InvalidatedRows ==
    ASSUME NEW r, NEW i, r \in Seq(Row)
    PROVE  /\ Invalidated(r, i) = [j \in DOMAIN r |-> Invalidated(r, i)[j]]
           /\ \A j \in DOMAIN r :
                /\ Invalidated(r, i)[j] \in Row
                /\ Invalidated(r, i)[j].depth = r[j].depth
                /\ Invalidated(r, i)[j].status = r[j].status
                /\ Invalidated(r, i)[j].brief = r[j].brief
                /\ Invalidated(r, i)[j].by = r[j].by
                /\ Invalidated(r, i)[j].members = r[j].members
                /\ Invalidated(r, i)[j].parent \in {None, r[j].parent}
                /\ Invalidated(r, i)[j].dup = r[j].dup
                /\ j \in Above(r, i) => Invalidated(r, i)[j].stale
                /\ j \notin Above(r, i) => Invalidated(r, i)[j].stale = r[j].stale
                /\ r[j].stale => Invalidated(r, i)[j].stale
                /\ Invalidated(r, i)[j].shown /\ Invalidated(r, i)[j].stale => r[j].shown /\ r[j].stale
<1> DEFINE gone == {v \in Above(r, i) : ~r[v].stale}
           woken == Fallback(r, gone)
           t == Invalidated(r, i)
<1>1. t = [j \in DOMAIN r |->
            IF j \in gone THEN [r[j] EXCEPT !.shown = FALSE, !.stale = TRUE]
            ELSE IF j \in woken THEN [r[j] EXCEPT !.shown = TRUE, !.parent = None]
            ELSE r[j]]
    BY DEF Invalidated
<1>2. \A j \in woken : ~r[j].stale
    BY DEF Fallback
<1>3. \A j \in gone : j \in Above(r, i) /\ ~r[j].stale
    OBVIOUS
<1> HIDE DEF gone, woken, t
<1>4. ASSUME NEW j \in DOMAIN r
      PROVE  /\ t[j] \in Row
             /\ t[j].depth = r[j].depth /\ t[j].status = r[j].status
             /\ t[j].brief = r[j].brief /\ t[j].by = r[j].by
             /\ t[j].members = r[j].members
             /\ t[j].parent \in {None, r[j].parent} /\ t[j].dup = r[j].dup
             /\ j \in gone => t[j].stale /\ ~t[j].shown
             /\ j \notin gone => t[j].stale = r[j].stale
             /\ j \in woken => ~r[j].stale
             /\ j \notin gone \cup woken => t[j].shown = r[j].shown
  <2>1. r[j] \in Row
      BY RowsAreNumbered
  <2>2. CASE j \in gone
    <3>1. t[j] = [r[j] EXCEPT !.shown = FALSE, !.stale = TRUE]
        BY <1>1, <2>2
    <3> QED
        BY <1>2, <2>1, <2>2, <3>1 DEF Row
  <2>3. CASE j \notin gone /\ j \in woken
    <3>1. t[j] = [r[j] EXCEPT !.shown = TRUE, !.parent = None]
        BY <1>1, <2>3
    <3> QED
        BY <1>2, <2>1, <2>3, <3>1, ClearedParent, ZenonT(40)
  <2>4. CASE j \notin gone /\ j \notin woken
    <3>1. t[j] = r[j]
        BY <1>1, <2>4
    <3> QED
        BY <2>1, <2>4, <3>1
  <2> QED
      BY <2>2, <2>3, <2>4
<1>5. \A j \in DOMAIN r : j \in gone <=> j \in Above(r, i) /\ ~r[j].stale
    BY DEF gone
<1>6. ASSUME NEW j \in DOMAIN r
      PROVE  /\ j \in Above(r, i) => t[j].stale
             /\ j \notin Above(r, i) => t[j].stale = r[j].stale
             /\ r[j].stale => t[j].stale
             /\ t[j].shown /\ t[j].stale => r[j].shown /\ r[j].stale
  <2>1. r[j].stale \in BOOLEAN /\ t[j].stale \in BOOLEAN
      BY <1>4, RowsAreNumbered, RowFields
  <2> QED
      BY <1>4, <1>5, <2>1
<1>7. t = [j \in DOMAIN r |-> t[j]]
    BY <1>1
<1> QED
    BY <1>4, <1>6, <1>7 DEF t

LEMMA RepromotedRows ==
    ASSUME NEW r, NEW i, r \in Seq(Row)
    PROVE  /\ Repromoted(r, i) = [j \in DOMAIN r |-> Repromoted(r, i)[j]]
           /\ \A j \in DOMAIN r :
                /\ Repromoted(r, i)[j] \in Row
                /\ Repromoted(r, i)[j].depth = r[j].depth
                /\ Repromoted(r, i)[j].status = r[j].status
                /\ Repromoted(r, i)[j].brief = r[j].brief
                /\ Repromoted(r, i)[j].stale = r[j].stale
                /\ Repromoted(r, i)[j].by = r[j].by
                /\ Repromoted(r, i)[j].members = r[j].members
                /\ Repromoted(r, i)[j].parent = r[j].parent
                /\ Repromoted(r, i)[j].dup \in {None, r[j].dup}
                /\ Repromoted(r, i)[j].shown => r[j].shown \/ r[j].dup = i
<1> DEFINE t == Repromoted(r, i)
<1>1. t = [j \in DOMAIN r |->
            IF r[j].dup = i /\ r[j].status = "active" /\ ~r[j].shown
            THEN [r[j] EXCEPT !.shown = TRUE, !.dup = None] ELSE r[j]]
    BY DEF Repromoted
<1> HIDE DEF t
<1>2. ASSUME NEW j \in DOMAIN r
      PROVE  /\ t[j] \in Row /\ t[j].depth = r[j].depth /\ t[j].status = r[j].status
             /\ t[j].brief = r[j].brief /\ t[j].stale = r[j].stale
             /\ t[j].by = r[j].by /\ t[j].members = r[j].members
             /\ t[j].parent = r[j].parent /\ t[j].dup \in {None, r[j].dup}
             /\ t[j].shown => r[j].shown \/ r[j].dup = i
  <2>1. r[j] \in Row
      BY RowsAreNumbered
  <2>2. CASE t[j] = r[j]
      BY <2>1, <2>2
  <2>3. CASE t[j] = [r[j] EXCEPT !.shown = TRUE, !.dup = None] /\ r[j].dup = i
      BY <2>1, <2>3, ClearedDuplicate, ZenonT(40)
  <2> QED
      BY <1>1, <2>2, <2>3
<1>3. t = [j \in DOMAIN r |-> t[j]]
    BY <1>1
<1> QED
    BY <1>2, <1>3 DEF t

-----------------------------------------------------------------------------
(* Type correctness.  What a pass has in hand lies one level below the views  *)
(* it makes: links would not be typed otherwise.                              *)

PassOK == \A i \in pass.left \cup pass.members : rows[i].depth + 1 = pass.depth

Typed == TypeOK /\ PassOK

\* Rows stay, at their depth.
Kept(r, s) ==
    /\ DOMAIN r \subseteq DOMAIN s
    /\ \A j \in DOMAIN r : s[j].depth = r[j].depth

LEMMA TypedShape ==
    ASSUME Typed PROVE Shaped(rows) /\ rows \in Seq(Row)
BY DEF Typed, TypeOK, Shaped

LEMMA InvalidatedShape ==
    ASSUME NEW r, Shaped(r), NEW i
    PROVE  Shaped(Invalidated(r, i)) /\ DOMAIN Invalidated(r, i) = DOMAIN r
           /\ Kept(r, Invalidated(r, i))
<1> DEFINE s == Invalidated(r, i)
<1> HIDE DEF s
<1>1. r \in Seq(Row) /\ Len(r) \in Nat /\ Len(r) <= MaxRows
    BY RowsAreNumbered DEF Shaped
<1>2. s \in Seq(Row) /\ Len(s) = Len(r) /\ DOMAIN s = DOMAIN r
    BY <1>1, InvalidatedRows, SameLength DEF s
<1>3. \A j \in DOMAIN r : /\ s[j].depth = r[j].depth /\ s[j].by = r[j].by
                          /\ s[j].parent \in {None, r[j].parent} /\ s[j].dup = r[j].dup
                          /\ s[j].members = r[j].members
    BY <1>1, InvalidatedRows DEF s
<1>4. Shaped(s)
    BY <1>1, <1>2, <1>3, StaysShaped
<1> QED
    BY <1>2, <1>3, <1>4 DEF s, Kept

LEMMA RepromotedShape ==
    ASSUME NEW r, Shaped(r), NEW i
    PROVE  Shaped(Repromoted(r, i)) /\ DOMAIN Repromoted(r, i) = DOMAIN r
           /\ Kept(r, Repromoted(r, i))
<1> DEFINE s == Repromoted(r, i)
<1> HIDE DEF s
<1>1. r \in Seq(Row) /\ Len(r) \in Nat /\ Len(r) <= MaxRows
    BY RowsAreNumbered DEF Shaped
<1>2. s \in Seq(Row) /\ Len(s) = Len(r) /\ DOMAIN s = DOMAIN r
    BY <1>1, RepromotedRows, SameLength DEF s
<1>3. \A j \in DOMAIN r : /\ s[j].depth = r[j].depth /\ s[j].by = r[j].by
                          /\ s[j].parent = r[j].parent /\ s[j].dup \in {None, r[j].dup}
                          /\ s[j].members = r[j].members
    BY <1>1, RepromotedRows DEF s
<1>4. Shaped(s)
    BY <1>1, <1>2, <1>3, StaysShaped
<1> QED
    BY <1>2, <1>3, <1>4 DEF s, Kept

LEMMA RetiredShape ==
    ASSUME NEW r, Shaped(r), NEW i, Retire(r, i)
    PROVE  Shaped(rows') /\ DOMAIN rows' = DOMAIN r /\ Kept(r, rows')
<1>1. rows' = Repromoted(Invalidated(r, i), i)
    BY DEF Retire
<1>2. Shaped(Invalidated(r, i)) /\ DOMAIN Invalidated(r, i) = DOMAIN r
      /\ Kept(r, Invalidated(r, i))
    BY InvalidatedShape
<1>3. Shaped(rows') /\ DOMAIN rows' = DOMAIN r /\ Kept(Invalidated(r, i), rows')
    BY <1>1, <1>2, RepromotedShape
<1> QED
    BY <1>2, <1>3 DEF Kept

LEMMA LearnedRows ==
    ASSUME Typed, Room, NEW brief \in BOOLEAN
    PROVE  LET r == Append(rows, Fact(brief)) IN
           /\ Shaped(r) /\ Kept(rows, r)
           /\ \A j \in DOMAIN rows : r[j] = rows[j]
           /\ \A j \in DOMAIN r \ DOMAIN rows : r[j] = Fact(brief)
<1> DEFINE r == Append(rows, Fact(brief))
<1>1. Shaped(rows) /\ rows \in Seq(Row) /\ Fact(brief) \in Row
    BY TypedShape, FactIsARow
<1>2. /\ r \in Seq(Row) /\ Len(r) = Len(rows) + 1 /\ r[Len(rows) + 1] = Fact(brief)
      /\ DOMAIN r = DOMAIN rows \cup {Len(rows) + 1}
      /\ \A j \in DOMAIN rows : r[j] = rows[j]
    BY <1>1, OneLonger
<1>3. Len(rows) <= Len(r) /\ Len(r) <= MaxRows
    BY <1>1, <1>2, RowsAreNumbered, Bounds DEF Room
<1> HIDE DEF r
<1>4. \A j \in DOMAIN r \ DOMAIN rows : r[j] = Fact(brief)
    BY <1>2
<1>5. \A j \in DOMAIN r \ DOMAIN rows : Linked(r, j)
    BY <1>4 DEF Linked, Fact
<1>6. Shaped(r)
    BY <1>1, <1>2, <1>3, <1>5, StaysShaped
<1> QED
    BY <1>2, <1>4, <1>6 DEF r, Kept

LEMMA SupersededRows ==
    ASSUME Typed, Room, NEW i \in DOMAIN rows, NEW brief \in BOOLEAN
    PROVE  LET r == Superseded(i, brief) IN
           /\ Shaped(r) /\ Kept(rows, r)
           /\ \A j \in DOMAIN rows :
                /\ r[j].stale = rows[j].stale /\ r[j].shown = rows[j].shown
                /\ r[j].brief = rows[j].brief /\ r[j].members = rows[j].members
                /\ r[j].dup = rows[j].dup
                /\ r[j].status = IF j = i THEN "superseded" ELSE rows[j].status
           /\ \A j \in DOMAIN r \ DOMAIN rows : r[j] = Fact(brief)
<1> DEFINE r == Superseded(i, brief)
           q == [rows EXCEPT ![i].status = "superseded", ![i].by = Len(rows) + 1]
<1>1. Shaped(rows) /\ rows \in Seq(Row) /\ Fact(brief) \in Row
    BY TypedShape, FactIsARow
<1>2. Len(rows) + 1 \in 0..MaxRows /\ Len(rows) \in Nat /\ DOMAIN rows = 1..Len(rows)
    BY <1>1, RowsAreNumbered, Bounds DEF Room
<1>3. ASSUME NEW j \in DOMAIN rows
      PROVE  /\ q[j] \in Row /\ q[j].depth = rows[j].depth
             /\ q[j].stale = rows[j].stale /\ q[j].shown = rows[j].shown
             /\ q[j].brief = rows[j].brief /\ q[j].members = rows[j].members
             /\ q[j].dup = rows[j].dup /\ q[j].parent = rows[j].parent
             /\ q[j].by = rows[j].by \/ q[j].by = Len(rows) + 1
             /\ q[j].status = IF j = i THEN "superseded" ELSE rows[j].status
  <2>1. rows[j] \in Row
      BY <1>1, RowsAreNumbered
  <2>2. CASE j = i
    <3>1. q[j] = [rows[j] EXCEPT !.status = "superseded", !.by = Len(rows) + 1]
        BY <2>2
    <3> HIDE DEF q
    <3> QED
        BY <1>2, <2>1, <2>2, <3>1 DEF Row
  <2>3. CASE j # i
      BY <2>1, <2>3
  <2> QED
      BY <2>2, <2>3
<1>4. q = [j \in DOMAIN rows |-> q[j]]
    OBVIOUS
<1>5. q \in Seq(Row) /\ Len(q) = Len(rows) /\ DOMAIN q = DOMAIN rows
  <2> HIDE DEF q
  <2> QED
      BY <1>1, <1>3, <1>4, SameLength
<1>6. r = Append(q, Fact(brief))
    BY DEF Superseded
<1> HIDE DEF r, q
<1>7. /\ r \in Seq(Row) /\ Len(r) = Len(rows) + 1 /\ r[Len(rows) + 1] = Fact(brief)
      /\ DOMAIN r = DOMAIN rows \cup {Len(rows) + 1}
      /\ \A j \in DOMAIN rows : r[j] = q[j]
    BY <1>1, <1>5, <1>6, OneLonger
<1>8. Len(rows) <= Len(r) /\ Len(r) <= MaxRows
    BY <1>2, <1>7
<1>9. \A j \in DOMAIN r \ DOMAIN rows : r[j] = Fact(brief)
    BY <1>7
<1>10. \A j \in DOMAIN r \ DOMAIN rows : Linked(r, j)
    BY <1>9 DEF Linked, Fact
<1>11. \A j \in DOMAIN rows : r[j].by = rows[j].by \/ r[j].by \in j + 1..Len(r)
    BY <1>2, <1>3, <1>7
<1>12. \A j \in DOMAIN rows : /\ r[j].depth = rows[j].depth /\ r[j].parent = rows[j].parent
                              /\ r[j].dup = rows[j].dup /\ r[j].members = rows[j].members
    BY <1>3, <1>7
<1>13. Shaped(r)
    BY <1>1, <1>7, <1>8, <1>10, <1>11, <1>12, StaysShaped
<1> QED
    BY <1>3, <1>7, <1>9, <1>13 DEF r, Kept

\* The steps that change one row and no link.
LEMMA ChangedRow ==
    ASSUME Typed, NEW i \in DOMAIN rows, NEW x \in Row,
           x.depth = rows[i].depth, x.by = rows[i].by, x.parent = rows[i].parent,
           x.dup \in {None} \cup DOMAIN rows, x.members = rows[i].members
    PROVE  LET r == [rows EXCEPT ![i] = x] IN Shaped(r) /\ Kept(rows, r) /\ DOMAIN r = DOMAIN rows
<1> DEFINE r == [rows EXCEPT ![i] = x]
<1>1. Shaped(rows) /\ rows \in Seq(Row)
    BY TypedShape
<1>2. Len(rows) \in Nat /\ Len(rows) <= MaxRows /\ \A j \in DOMAIN rows : rows[j] \in Row
    BY <1>1, RowsAreNumbered DEF Shaped
<1>3. r = [j \in DOMAIN rows |-> r[j]] /\ \A j \in DOMAIN rows : r[j] \in Row
    BY <1>2
<1>4. \A j \in DOMAIN rows : /\ r[j].depth = rows[j].depth /\ r[j].by = rows[j].by
                             /\ r[j].parent = rows[j].parent
                             /\ r[j].dup \in {None, rows[j].dup} \cup DOMAIN rows
                             /\ r[j].members = rows[j].members
    OBVIOUS
<1> HIDE DEF r
<1>5. r \in Seq(Row) /\ Len(r) = Len(rows) /\ DOMAIN r = DOMAIN rows
    BY <1>1, <1>3, SameLength
<1>6. Shaped(r)
  <2>1. Len(rows) <= Len(r) /\ Len(r) <= MaxRows /\ DOMAIN r \ DOMAIN rows = {}
      BY <1>2, <1>5
  <2>2. \A j \in DOMAIN rows : /\ r[j].by = rows[j].by /\ r[j].depth = rows[j].depth
                               /\ r[j].parent \in {None, rows[j].parent}
                               /\ r[j].dup \in {None, rows[j].dup} \cup DOMAIN r
                               /\ r[j].members = rows[j].members
      BY <1>4, <1>5
  <2> QED
      BY <1>1, <1>5, <2>1, <2>2, StaysShaped, ZenonT(40)
<1> QED
    BY <1>4, <1>5, <1>6 DEF r, Kept

LEMMA ArchivedRows ==
    ASSUME Typed, NEW i \in DOMAIN rows, NEW ghost \in BOOLEAN
    PROVE  LET r == Archived(i, ghost) IN
           /\ Shaped(r) /\ Kept(rows, r) /\ DOMAIN r = DOMAIN rows
           /\ \A j \in DOMAIN rows : j # i => r[j] = rows[j]
           /\ r[i].status = "pruned" /\ r[i].stale = rows[i].stale /\ ~r[i].shown
           /\ r[i].brief = rows[i].brief /\ r[i].members = rows[i].members
           /\ r[i].dup = rows[i].dup
<1> DEFINE x == [rows[i] EXCEPT !.status = "pruned", !.shown = FALSE, !.ghost = @ \/ ghost]
<1>1. rows[i] \in Row /\ Linked(rows, i)
    BY TypedShape, RowsAreNumbered DEF Shaped
<1>2. /\ x \in Row /\ x.depth = rows[i].depth /\ x.by = rows[i].by
      /\ x.parent = rows[i].parent /\ x.members = rows[i].members
      /\ x.dup = rows[i].dup /\ x.status = "pruned" /\ x.stale = rows[i].stale
      /\ ~x.shown /\ x.brief = rows[i].brief
    BY <1>1 DEF Row
<1>3. Archived(i, ghost) = [rows EXCEPT ![i] = x]
    BY DEF Archived
<1> HIDE DEF x
<1>4. x.dup \in {None} \cup DOMAIN rows
    BY <1>1, <1>2 DEF Linked
<1> QED
    BY <1>2, <1>3, <1>4, ChangedRow

LEMMA ForgottenRows ==
    ASSUME Typed, NEW i \in DOMAIN rows
    PROVE  LET r == [rows EXCEPT ![i].status = "pruned"] IN
           /\ Shaped(r) /\ Kept(rows, r) /\ DOMAIN r = DOMAIN rows
           /\ \A j \in DOMAIN rows : j # i => r[j] = rows[j]
           /\ r[i].status = "pruned" /\ r[i].stale = rows[i].stale
           /\ r[i].shown = rows[i].shown /\ r[i].brief = rows[i].brief
           /\ r[i].members = rows[i].members /\ r[i].dup = rows[i].dup
<1> DEFINE x == [rows[i] EXCEPT !.status = "pruned"]
<1>1. rows[i] \in Row /\ Linked(rows, i)
    BY TypedShape, RowsAreNumbered DEF Shaped
<1>2. /\ x \in Row /\ x.depth = rows[i].depth /\ x.by = rows[i].by
      /\ x.parent = rows[i].parent /\ x.members = rows[i].members
      /\ x.dup = rows[i].dup /\ x.status = "pruned" /\ x.stale = rows[i].stale
      /\ x.shown = rows[i].shown /\ x.brief = rows[i].brief
    BY <1>1 DEF Row
<1>3. [rows EXCEPT ![i].status = "pruned"] = [rows EXCEPT ![i] = x]
    OBVIOUS
<1> HIDE DEF x
<1>4. x.dup \in {None} \cup DOMAIN rows
    BY <1>1, <1>2 DEF Linked
<1> QED
    BY <1>2, <1>3, <1>4, ChangedRow

LEMMA RestoredRows ==
    ASSUME Typed, NEW i \in DOMAIN rows,
           rows' = [rows EXCEPT ![i].status = "active", ![i].shown = TRUE,
                                ![i].brief = FALSE]
    PROVE  /\ Shaped(rows') /\ Kept(rows, rows') /\ DOMAIN rows' = DOMAIN rows
           /\ \A j \in DOMAIN rows : j # i => rows'[j] = rows[j]
           /\ rows'[i].status = "active" /\ rows'[i].stale = rows[i].stale
           /\ ~rows'[i].brief
           /\ rows'[i].members = rows[i].members /\ rows'[i].dup = rows[i].dup
<1> DEFINE x == [rows[i] EXCEPT !.status = "active", !.shown = TRUE, !.brief = FALSE]
<1>1. rows[i] \in Row /\ Linked(rows, i)
    BY TypedShape, RowsAreNumbered DEF Shaped
<1>2. /\ x \in Row /\ x.depth = rows[i].depth /\ x.by = rows[i].by
      /\ x.parent = rows[i].parent /\ x.members = rows[i].members
      /\ x.dup = rows[i].dup /\ x.status = "active" /\ x.stale = rows[i].stale
      /\ ~x.brief
    BY <1>1 DEF Row
<1>3. rows' = [rows EXCEPT ![i] = x]
    OBVIOUS
<1> HIDE DEF x
<1>4. x.dup \in {None} \cup DOMAIN rows
    BY <1>1, <1>2 DEF Linked
<1>5. Shaped(rows') /\ Kept(rows, rows') /\ DOMAIN rows' = DOMAIN rows
  <2> DEFINE r == [rows EXCEPT ![i] = x]
  <2>1. Shaped(r) /\ Kept(rows, r) /\ DOMAIN r = DOMAIN rows
      BY <1>2, <1>4, ChangedRow
  <2>2. rows' = r
      BY <1>3
  <2> HIDE DEF r
  <2> QED
      BY <2>1, <2>2
<1>6. rows'[i] = x /\ \A j \in DOMAIN rows : j # i => rows'[j] = rows[j]
    BY <1>3
<1> QED
    BY <1>2, <1>5, <1>6

LEMMA PinnedRows ==
    ASSUME Typed, NEW i \in DOMAIN rows, rows' = [rows EXCEPT ![i].pinned = ~@]
    PROVE  /\ Shaped(rows') /\ Kept(rows, rows') /\ DOMAIN rows' = DOMAIN rows
           /\ \A j \in DOMAIN rows :
                /\ rows'[j].status = rows[j].status /\ rows'[j].stale = rows[j].stale
                /\ rows'[j].shown = rows[j].shown /\ rows'[j].brief = rows[j].brief
                /\ rows'[j].members = rows[j].members /\ rows'[j].dup = rows[j].dup
<1> DEFINE x == [rows[i] EXCEPT !.pinned = ~@]
<1>1. rows[i] \in Row /\ Linked(rows, i)
    BY TypedShape, RowsAreNumbered DEF Shaped
<1>2. /\ x \in Row /\ x.depth = rows[i].depth /\ x.by = rows[i].by
      /\ x.parent = rows[i].parent /\ x.members = rows[i].members
      /\ x.dup = rows[i].dup /\ x.status = rows[i].status /\ x.stale = rows[i].stale
      /\ x.brief = rows[i].brief /\ x.shown = rows[i].shown
    BY <1>1 DEF Row
<1>3. rows' = [rows EXCEPT ![i] = x]
    OBVIOUS
<1> HIDE DEF x
<1>4. x.dup \in {None} \cup DOMAIN rows
    BY <1>1, <1>2 DEF Linked
<1>5. Shaped(rows') /\ Kept(rows, rows') /\ DOMAIN rows' = DOMAIN rows
  <2> DEFINE r == [rows EXCEPT ![i] = x]
  <2>1. Shaped(r) /\ Kept(rows, r) /\ DOMAIN r = DOMAIN rows
      BY <1>2, <1>4, ChangedRow
  <2>2. rows' = r
      BY <1>3
  <2> HIDE DEF r
  <2> QED
      BY <2>1, <2>2
<1>6. rows'[i] = x /\ \A j \in DOMAIN rows : j # i => rows'[j] = rows[j]
    BY <1>3
<1> QED
    BY <1>2, <1>5, <1>6

LEMMA DemotedRows ==
    ASSUME Typed, NEW i \in DOMAIN rows, NEW k \in DOMAIN rows,
           rows' = [rows EXCEPT ![i].shown = FALSE, ![i].dup = k]
    PROVE  /\ Shaped(rows') /\ Kept(rows, rows') /\ DOMAIN rows' = DOMAIN rows
           /\ \A j \in DOMAIN rows :
                /\ rows'[j].status = rows[j].status /\ rows'[j].stale = rows[j].stale
                /\ rows'[j].brief = rows[j].brief /\ rows'[j].members = rows[j].members
                /\ j # i => rows'[j] = rows[j]
                /\ rows'[j].shown => rows[j].shown
<1> DEFINE x == [rows[i] EXCEPT !.shown = FALSE, !.dup = k]
<1>1. rows[i] \in Row /\ k \in 0..MaxRows
  <2>1. rows \in Seq(Row) /\ Len(rows) <= MaxRows
      BY TypedShape DEF Shaped
  <2> QED
      BY <2>1, RowsAreNumbered, Bounds
<1>2. /\ x \in Row /\ x.depth = rows[i].depth /\ x.by = rows[i].by
      /\ x.parent = rows[i].parent /\ x.members = rows[i].members
      /\ x.dup = k /\ x.status = rows[i].status /\ x.stale = rows[i].stale
      /\ x.brief = rows[i].brief /\ ~x.shown
    BY <1>1 DEF Row
<1>3. rows' = [rows EXCEPT ![i] = x]
    OBVIOUS
<1> HIDE DEF x
<1>4. Shaped(rows') /\ Kept(rows, rows') /\ DOMAIN rows' = DOMAIN rows
  <2> DEFINE r == [rows EXCEPT ![i] = x]
  <2>1. Shaped(r) /\ Kept(rows, r) /\ DOMAIN r = DOMAIN rows
      BY <1>2, ChangedRow
  <2>2. rows' = r
      BY <1>3
  <2> HIDE DEF r
  <2> QED
      BY <2>1, <2>2
<1>5. rows'[i] = x /\ \A j \in DOMAIN rows : j # i => rows'[j] = rows[j]
    BY <1>3
<1> QED
    BY <1>2, <1>4, <1>5

\* What a pass has in hand lies below the views it may rebuild.
LEMMA PassLevel ==
    ASSUME Typed
    PROVE  /\ pass.depth \in 0..MaxDepth /\ pass.depth \in Nat
           /\ pass.left \in SUBSET DOMAIN rows /\ pass.members \in SUBSET DOMAIN rows
           /\ pass.held \in SUBSET DOMAIN rows /\ pass.brief \in SUBSET DOMAIN rows
           /\ pass.rebuilt \in SUBSET DOMAIN rows
           /\ \A m \in pass.left \cup pass.members : rows[m].depth + 1 = pass.depth
           /\ \A v \in Rebuildable : /\ v \in DOMAIN rows /\ rows[v].depth = pass.depth
                                     /\ rows[v].stale
                                     /\ v \notin pass.left \cup pass.members
<1>1. /\ pass.depth \in 0..MaxDepth /\ pass.depth \in Nat
      /\ pass.left \in SUBSET DOMAIN rows /\ pass.members \in SUBSET DOMAIN rows
      /\ pass.held \in SUBSET DOMAIN rows /\ pass.brief \in SUBSET DOMAIN rows
      /\ pass.rebuilt \in SUBSET DOMAIN rows
    BY Bounds DEF Typed, TypeOK
<1>2. \A m \in pass.left \cup pass.members : rows[m].depth + 1 = pass.depth
    BY DEF Typed, PassOK
<1>3. ASSUME NEW v \in Rebuildable
      PROVE  /\ v \in DOMAIN rows /\ rows[v].depth = pass.depth /\ rows[v].stale
             /\ v \notin pass.left \cup pass.members
  <2>1. v \in DOMAIN rows /\ rows[v].depth = pass.depth /\ rows[v].stale
      BY DEF Rebuildable, Views
  <2> QED
      BY <1>1, <1>2, <2>1
<1> QED
    BY <1>1, <1>2, <1>3

\* The row changes of a run, named so that they can be cited.
RevivedRow(x, ids, brief) ==
    [x EXCEPT !.shown = TRUE, !.stale = FALSE, !.brief = brief,
              !.members = ids, !.version = @ + 1]
HiddenRow(x, v) == [x EXCEPT !.shown = FALSE, !.parent = v]
ReplacedRow(x, v) == [x EXCEPT !.status = "superseded", !.by = v]

LEMMA RevivedRowFields ==
    ASSUME NEW x \in Row, NEW ids \in SUBSET (1..MaxRows), NEW brief \in BOOLEAN
    PROVE  LET y == RevivedRow(x, ids, brief) IN
           /\ y \in Row /\ y.depth = x.depth /\ y.status = x.status /\ ~y.stale
           /\ y.brief = brief /\ y.by = x.by /\ y.parent = x.parent /\ y.dup = x.dup
           /\ y.members = ids
<1>1. x.version \in Nat /\ x.version + 1 \in Nat
    BY RowFields
<1> QED
    BY <1>1 DEF Row, RevivedRow

LEMMA HiddenRowFields ==
    ASSUME NEW x \in Row, NEW v \in 0..MaxRows
    PROVE  LET y == HiddenRow(x, v) IN
           /\ y \in Row /\ y.depth = x.depth /\ y.status = x.status /\ y.stale = x.stale
           /\ y.brief = x.brief /\ y.by = x.by /\ y.parent = v /\ y.dup = x.dup
           /\ y.members = x.members /\ ~y.shown
BY DEF Row, HiddenRow

LEMMA ReplacedRowFields ==
    ASSUME NEW x \in Row, NEW v \in 0..MaxRows
    PROVE  LET y == ReplacedRow(x, v) IN
           /\ y \in Row /\ y.depth = x.depth /\ y.stale = x.stale /\ y.shown = x.shown
           /\ y.status = "superseded"
           /\ y.brief = x.brief /\ y.by = v /\ y.parent = x.parent /\ y.dup = x.dup
           /\ y.members = x.members
BY DEF Row, ReplacedRow

LEMMA RevivedRows ==
    ASSUME Typed, NEW v \in Rebuildable
    PROVE  LET r == Revived(v) IN
           /\ Shaped(r) /\ Kept(rows, r) /\ DOMAIN r = DOMAIN rows
           /\ \A j \in DOMAIN rows :
                /\ r[j].status = rows[j].status /\ r[j].dup = rows[j].dup
                /\ j # v => /\ r[j].stale = rows[j].stale /\ r[j].brief = rows[j].brief
                            /\ r[j].members = rows[j].members
                            /\ r[j].shown => rows[j].shown
           /\ ~r[v].stale /\ r[v].brief = Brief /\ r[v].members = pass.members
<1> DEFINE r == Revived(v)
<1>1. /\ Shaped(rows) /\ rows \in Seq(Row)
      /\ Len(rows) \in Nat /\ DOMAIN rows = 1..Len(rows) /\ Len(rows) <= MaxRows
      /\ \A j \in DOMAIN rows : rows[j] \in Row
    BY TypedShape, RowsAreNumbered DEF Shaped
<1>2. /\ v \in DOMAIN rows /\ rows[v].depth = pass.depth /\ v \notin pass.members
      /\ pass.members \in SUBSET DOMAIN rows
      /\ \A m \in pass.members : rows[m].depth + 1 = pass.depth
    BY PassLevel
<1>3. v \in 0..MaxRows /\ pass.members \in SUBSET (1..MaxRows) /\ Brief \in BOOLEAN
    BY <1>1, <1>2, Bounds DEF Brief
<1>4. r = [j \in DOMAIN rows |->
            IF j = v
            THEN RevivedRow(rows[v], pass.members, Brief)
            ELSE IF j \in pass.members THEN HiddenRow(rows[j], v) ELSE rows[j]]
    BY DEF Revived, RevivedRow, HiddenRow
<1> HIDE DEF r
<1>5. /\ r[v] \in Row /\ r[v].depth = rows[v].depth /\ r[v].status = rows[v].status
      /\ ~r[v].stale /\ r[v].brief = Brief /\ r[v].by = rows[v].by
      /\ r[v].parent = rows[v].parent /\ r[v].dup = rows[v].dup
      /\ r[v].members = pass.members
  <2>1. r[v] = RevivedRow(rows[v], pass.members, Brief)
      BY <1>2, <1>4
  <2>2. rows[v] \in Row
      BY <1>1, <1>2
  <2> QED
      BY <1>3, <2>1, <2>2, RevivedRowFields
<1>6. ASSUME NEW j \in DOMAIN rows, j # v
      PROVE  /\ r[j] \in Row /\ r[j].depth = rows[j].depth /\ r[j].status = rows[j].status
             /\ r[j].stale = rows[j].stale /\ r[j].brief = rows[j].brief
             /\ r[j].by = rows[j].by /\ r[j].dup = rows[j].dup
             /\ r[j].members = rows[j].members /\ (r[j].shown => rows[j].shown)
             /\ \/ r[j].parent = rows[j].parent
                \/ r[j].parent = v /\ j \in pass.members
  <2>1. CASE j \in pass.members
    <3>1. r[j] = HiddenRow(rows[j], v)
        BY <1>4, <1>6, <2>1
    <3>2. rows[j] \in Row
        BY <1>1
    <3> QED
        BY <1>3, <2>1, <3>1, <3>2, HiddenRowFields
  <2>2. CASE j \notin pass.members
    <3>1. r[j] = rows[j]
        BY <1>4, <1>6, <2>2
    <3> QED
        BY <1>1, <3>1
  <2> QED
      BY <2>1, <2>2
<1>7. r \in Seq(Row) /\ Len(r) = Len(rows) /\ DOMAIN r = DOMAIN rows
  <2>1. r = [j \in DOMAIN rows |-> r[j]]
      BY <1>4
  <2>2. \A j \in DOMAIN rows : r[j] \in Row
      BY <1>5, <1>6
  <2> QED
      BY <1>1, <2>1, <2>2, SameLength
<1>8. Shaped(r)
  <2>1. Len(rows) <= Len(r) /\ Len(r) <= MaxRows /\ DOMAIN r \ DOMAIN rows = {}
      BY <1>1, <1>7
  <2>2. \A j \in DOMAIN rows :
          /\ r[j].depth = rows[j].depth /\ r[j].by = rows[j].by
          /\ r[j].dup \in {None, rows[j].dup} \cup DOMAIN r
      BY <1>5, <1>6
  <2>3. ASSUME NEW j \in DOMAIN rows
        PROVE  \/ r[j].parent \in {None, rows[j].parent}
               \/ r[j].parent \in DOMAIN r /\ r[r[j].parent].depth = rows[j].depth + 1
      BY <1>2, <1>5, <1>6, <1>7
  <2>4. \A j \in DOMAIN rows :
          \/ r[j].members = rows[j].members
          \/ \A m \in r[j].members : m \in DOMAIN rows /\ rows[m].depth + 1 = rows[j].depth
      BY <1>2, <1>5, <1>6
  <2> QED
      BY <1>1, <1>7, <2>1, <2>2, <2>3, <2>4, StaysShaped
<1>9. Kept(rows, r)
    BY <1>5, <1>6, <1>7 DEF Kept
<1> QED
    BY <1>5, <1>6, <1>7, <1>8, <1>9 DEF r

LEMMA CreatedRows ==
    ASSUME Typed, Room, NEW replaced \in SUBSET Rebuildable
    PROVE  LET r == Created(replaced) IN
           /\ Shaped(r) /\ Kept(rows, r)
           /\ \A j \in DOMAIN rows :
                /\ r[j].stale = rows[j].stale /\ r[j].brief = rows[j].brief
                /\ r[j].members = rows[j].members /\ r[j].dup = rows[j].dup
                /\ r[j].shown => rows[j].shown
                /\ j \notin replaced => r[j].status = rows[j].status
                /\ j \in replaced => r[j].status = "superseded"
           /\ \A j \in DOMAIN r \ DOMAIN rows : r[j] = View
<1> DEFINE r == Created(replaced)
           new == Len(rows) + 1
           q == [j \in DOMAIN rows |->
                   IF j \in replaced THEN ReplacedRow(rows[j], new)
                   ELSE IF j \in pass.members \ pass.held THEN HiddenRow(rows[j], new)
                   ELSE rows[j]]
<1>1. /\ Shaped(rows) /\ rows \in Seq(Row)
      /\ Len(rows) \in Nat /\ DOMAIN rows = 1..Len(rows) /\ Len(rows) <= MaxRows
      /\ \A j \in DOMAIN rows : rows[j] \in Row
    BY TypedShape, RowsAreNumbered DEF Shaped
<1>2. new \in 0..MaxRows /\ new = Len(rows) + 1
    BY <1>1, Bounds DEF Room
<1>3. /\ pass.members \in SUBSET DOMAIN rows /\ pass.depth \in 0..MaxDepth
      /\ \A m \in pass.members : rows[m].depth + 1 = pass.depth
      /\ \A v \in replaced : v \in DOMAIN rows /\ v \notin pass.members
    BY PassLevel
<1>4. r = Append(q, View)
    BY DEF Created, ReplacedRow, HiddenRow
<1>5. View \in Row /\ View.depth = pass.depth /\ View.by = None /\ View.parent = None
      /\ View.dup = None /\ View.members = pass.members
  <2>1. pass.members \in SUBSET (1..MaxRows) /\ Brief \in BOOLEAN
      BY <1>1, <1>3, Bounds DEF Brief
  <2> QED
      BY <1>3, <2>1, Bounds DEF View, Row
<1> HIDE DEF r, new
<1>6. ASSUME NEW j \in DOMAIN rows
      PROVE  /\ q[j] \in Row /\ q[j].depth = rows[j].depth
             /\ q[j].stale = rows[j].stale /\ q[j].brief = rows[j].brief
             /\ q[j].dup = rows[j].dup /\ q[j].members = rows[j].members
             /\ q[j].shown => rows[j].shown
             /\ q[j].by = rows[j].by \/ q[j].by = new
             /\ \/ q[j].parent = rows[j].parent
                \/ q[j].parent = new /\ j \in pass.members
             /\ j \notin replaced => q[j].status = rows[j].status
             /\ j \in replaced => q[j].status = "superseded"
  <2>1. rows[j] \in Row
      BY <1>1
  <2>2. CASE j \in replaced
    <3>1. q[j] = ReplacedRow(rows[j], new)
        BY <2>2
    <3> HIDE DEF q
    <3> QED
        BY <1>2, <2>1, <2>2, <3>1, ReplacedRowFields
  <2>3. CASE j \notin replaced /\ j \in pass.members \ pass.held
    <3>1. q[j] = HiddenRow(rows[j], new)
        BY <2>3
    <3> HIDE DEF q
    <3> QED
        BY <1>2, <2>1, <2>3, <3>1, HiddenRowFields
  <2>4. CASE j \notin replaced /\ j \notin pass.members \ pass.held
    <3>1. q[j] = rows[j]
        BY <2>4
    <3> HIDE DEF q
    <3> QED
        BY <2>1, <2>4, <3>1
  <2> QED
      BY <2>2, <2>3, <2>4
<1>7. q \in Seq(Row) /\ Len(q) = Len(rows) /\ DOMAIN q = DOMAIN rows
  <2>1. q = [j \in DOMAIN rows |-> q[j]]
      OBVIOUS
  <2> HIDE DEF q
  <2> QED
      BY <1>1, <1>6, <2>1, SameLength
<1> HIDE DEF q
<1>8. /\ r \in Seq(Row) /\ Len(r) = Len(rows) + 1 /\ r[Len(rows) + 1] = View
      /\ DOMAIN r = DOMAIN rows \cup {Len(rows) + 1}
      /\ \A j \in DOMAIN rows : r[j] = q[j]
    BY <1>4, <1>5, <1>7, OneLonger
<1>9. /\ Len(rows) <= Len(r) /\ Len(r) <= MaxRows
      /\ \A j \in DOMAIN r \ DOMAIN rows : r[j] = View
      /\ new \in DOMAIN r /\ r[new] = View
    BY <1>1, <1>2, <1>8
<1>10. \A j \in DOMAIN rows : r[j].depth = rows[j].depth
    BY <1>6, <1>8
<1>11. ASSUME NEW j \in DOMAIN r \ DOMAIN rows PROVE Linked(r, j)
  <2>1. r[j] = View
      BY <1>9
  <2>2. \A m \in pass.members : m \in DOMAIN r /\ r[m].depth + 1 = pass.depth
      BY <1>3, <1>8, <1>10
  <2> QED
      BY <1>5, <2>1, <2>2 DEF Linked
<1>12. ASSUME NEW j \in DOMAIN rows
       PROVE  \/ r[j].parent \in {None, rows[j].parent}
              \/ r[j].parent \in DOMAIN r /\ r[r[j].parent].depth = rows[j].depth + 1
    BY <1>3, <1>5, <1>6, <1>8, <1>9
<1>13. \A j \in DOMAIN rows : r[j].by = rows[j].by \/ r[j].by \in j + 1..Len(r)
    BY <1>1, <1>2, <1>6, <1>8
<1>14. \A j \in DOMAIN rows : r[j].dup = rows[j].dup /\ r[j].members = rows[j].members
    BY <1>6, <1>8
<1>15. Shaped(r)
    BY <1>1, <1>8, <1>9, <1>10, <1>11, <1>12, <1>13, <1>14, StaysShaped
<1> QED
    BY <1>6, <1>8, <1>9, <1>10, <1>15 DEF r, Kept

-----------------------------------------------------------------------------
\* A step that keeps the rows and the pass keeps what was typed about them.
LEMMA RowsChange ==
    ASSUME Typed, Shaped(rows'), Kept(rows, rows'), pass' = pass,
           late' \in BOOLEAN, changes' \in 0..MaxChanges,
           unseen' \in SUBSET DOMAIN rows'
    PROVE  Typed'
<1>1. /\ pass \in [depth : 0..MaxDepth, left : SUBSET DOMAIN rows, held : SUBSET DOMAIN rows,
                   brief : SUBSET DOMAIN rows, members : SUBSET DOMAIN rows,
                   rebuilt : SUBSET DOMAIN rows]
      /\ DOMAIN rows \subseteq DOMAIN rows'
    BY DEF Typed, TypeOK, Kept
<1>2. pass' \in [depth : 0..MaxDepth, left : SUBSET DOMAIN rows', held : SUBSET DOMAIN rows',
                 brief : SUBSET DOMAIN rows', members : SUBSET DOMAIN rows',
                 rebuilt : SUBSET DOMAIN rows']
    BY <1>1
<1>3. TypeOK'
    BY <1>2 DEF TypeOK, Shaped
<1>4. PassOK'
    BY <1>1 DEF Typed, PassOK, Kept
<1> QED
    BY <1>3, <1>4 DEF Typed

PassOver(ids) ==
    [depth : 0..MaxDepth, left : SUBSET ids, held : SUBSET ids, brief : SUBSET ids,
     members : SUBSET ids, rebuilt : SUBSET ids]

\* What a run has in hand while it awaits a text comes from what it read.
LEMMA Awaited ==
    ASSUME NEW ids, NEW p \in PassOver(ids), NEW members \in SUBSET p.left, Await(p, members)
    PROVE  /\ pass' \in PassOver(ids) /\ pass'.depth = p.depth
           /\ pass'.members = members /\ pass'.left \subseteq p.left
           /\ pass'.left \cap members = {}
           /\ pass'.brief = p.brief \cap (members \cup pass'.left)
<1> DEFINE rest == p.left \ members
           left == IF Cardinality(rest) < MinCluster THEN {} ELSE rest
<1>1. pass' = [p EXCEPT !.members = members, !.left = left,
                        !.held = @ \cap (members \cup left),
                        !.brief = @ \cap (members \cup left)]
    BY DEF Await
<1>2. left \subseteq p.left /\ left \cap members = {}
    OBVIOUS
<1> HIDE DEF left
<1>3. members \in SUBSET ids /\ left \in SUBSET ids
    BY <1>2 DEF PassOver
<1> QED
    BY <1>1, <1>2, <1>3 DEF PassOver

LEMMA Begun ==
    ASSUME Typed, NEW d \in 1..MaxDepth, NEW members \in SUBSET Candidates(d),
           Await([pass EXCEPT !.depth = d, !.left = Candidates(d),
                              !.held = {i \in Candidates(d) : rows[i].pinned},
                              !.brief = {i \in Candidates(d) : rows[i].brief}], members)
    PROVE  /\ pass' \in PassOver(DOMAIN rows) /\ pass'.depth = d
           /\ pass'.left \cup pass'.members \subseteq Candidates(d)
           /\ \A i \in pass'.left \cup pass'.members : rows[i].brief => i \in pass'.brief
<1> DEFINE found == Candidates(d)
           p == [pass EXCEPT !.depth = d, !.left = found,
                             !.held = {i \in found : rows[i].pinned},
                             !.brief = {i \in found : rows[i].brief}]
<1>1. pass \in PassOver(DOMAIN rows)
    BY DEF Typed, TypeOK, PassOver
<1>2. found \in SUBSET DOMAIN rows
    BY DEF Candidates
<1>3. d \in 0..MaxDepth
    BY Bounds
<1>4. Await(p, members)
    OBVIOUS
<1> HIDE DEF found
<1>5. /\ p \in PassOver(DOMAIN rows) /\ p.depth = d /\ p.left = found
      /\ p.brief = {i \in found : rows[i].brief}
    BY <1>1, <1>2, <1>3 DEF PassOver
<1> HIDE DEF p
<1>6. members \in SUBSET p.left
    BY <1>5 DEF found
<1>7. /\ pass' \in PassOver(DOMAIN rows) /\ pass'.depth = p.depth
      /\ pass'.members = members /\ pass'.left \subseteq p.left
      /\ pass'.brief = p.brief \cap (members \cup pass'.left)
    BY <1>4, <1>5, <1>6, Awaited
<1> QED
    BY <1>5, <1>6, <1>7 DEF found

LEMMA Finished ==
    ASSUME Typed, NEW rebuilt \in SUBSET Rebuildable, Done(rebuilt)
    PROVE  /\ pass' \in PassOver(DOMAIN rows) /\ pass'.depth = pass.depth
           /\ pass'.members = {} /\ pass'.left = pass.left
           /\ pass'.brief = pass.brief \cap pass.left
<1>1. pass \in PassOver(DOMAIN rows)
    BY DEF Typed, TypeOK, PassOver
<1>2. rebuilt \in SUBSET DOMAIN rows
    BY PassLevel
<1> QED
    BY <1>1, <1>2 DEF Done, PassOver

LEMMA PassChange ==
    ASSUME Typed, Shaped(rows'), Kept(rows, rows'),
           pass' \in PassOver(DOMAIN rows), PassOK',
           late' \in BOOLEAN, changes' \in 0..MaxChanges,
           unseen' \in SUBSET DOMAIN rows'
    PROVE  Typed'
<1>1. pass' \in PassOver(DOMAIN rows')
    BY DEF Kept, PassOver
<1>2. TypeOK'
    BY <1>1 DEF TypeOK, Shaped, PassOver
<1> QED
    BY <1>2 DEF Typed

LEMMA NoPassIsOver ==
    ASSUME NEW ids PROVE NoPass \in PassOver(ids)
BY Bounds DEF NoPass, PassOver

LEMMA TypedInit == Init => Typed
<1> SUFFICES ASSUME Init PROVE Typed
    OBVIOUS
<1>1. rows \in Seq({Fact(TRUE), Fact(FALSE)}) /\ Len(rows) <= MaxRows
    BY StartAssumption DEF Init
<1>2. {Fact(TRUE), Fact(FALSE)} \subseteq Row
    BY FactIsARow
<1>3. \A i \in DOMAIN rows : rows[i] \in {Fact(TRUE), Fact(FALSE)}
    BY <1>1, ElementOfSeq, LenProperties
<1>4. rows \in Seq(Row)
  <2>1. rows \in [1..Len(rows) -> {Fact(TRUE), Fact(FALSE)}] /\ Len(rows) \in Nat
      BY <1>1, LenProperties
  <2>2. rows \in [1..Len(rows) -> Row]
      BY <1>2, <2>1
  <2> QED
      BY <2>1, <2>2, SeqDef
<1>5. \A i \in DOMAIN rows : Linked(rows, i)
    BY <1>3 DEF Linked, Fact
<1>6. pass = NoPass /\ unseen = {} /\ late = FALSE /\ changes = 0
    BY DEF Init
<1>7. TypeOK
  <2>1. pass \in PassOver(DOMAIN rows)
      BY <1>6, NoPassIsOver
  <2>2. late \in BOOLEAN /\ unseen \in SUBSET DOMAIN rows
      BY <1>6
  <2>3. changes \in 0..MaxChanges
      BY <1>6, Bounds
  <2> QED
      BY <1>1, <1>4, <1>5, <2>1, <2>2, <2>3 DEF TypeOK, PassOver
<1> QED
    BY <1>6, <1>7 DEF Typed, PassOK, NoPass

LEMMA MissedRows ==
    ASSUME Typed, Kept(rows, rows')
    PROVE  /\ Missed \in SUBSET DOMAIN rows'
           /\ \A i \in DOMAIN rows : unseen \cup Missed \cup {i} \in SUBSET DOMAIN rows'
<1>1. Missed \subseteq DOMAIN rows
    BY PassLevel DEF Missed
<1>2. unseen \subseteq DOMAIN rows
    BY DEF Typed, TypeOK
<1> QED
    BY <1>1, <1>2 DEF Kept

\* The rows that a writer or a sweep leaves behind.
LEMMA OthersShape ==
    ASSUME Typed, NEW i \in DOMAIN rows, Others(i)
    PROVE  Shaped(rows') /\ Kept(rows, rows')
<1>1. CASE Supersede(i)
  <2>1. PICK brief \in BOOLEAN : Retire(Superseded(i, brief), i)
      BY <1>1 DEF Supersede
  <2>2. Shaped(Superseded(i, brief)) /\ Kept(rows, Superseded(i, brief))
      BY <1>1, SupersededRows DEF Supersede
  <2>3. Shaped(rows') /\ Kept(Superseded(i, brief), rows')
      BY <2>1, <2>2, RetiredShape
  <2> QED
      BY <2>2, <2>3 DEF Kept
<1>2. CASE Reinforce(i)
    BY <1>2, TypedShape, InvalidatedShape DEF Reinforce
<1>3. ASSUME NEW ghost \in BOOLEAN, Retire(Archived(i, ghost), i)
      PROVE  Shaped(rows') /\ Kept(rows, rows')
  <2>1. Shaped(Archived(i, ghost)) /\ Kept(rows, Archived(i, ghost))
      BY ArchivedRows
  <2>2. Shaped(rows') /\ Kept(Archived(i, ghost), rows')
      BY <1>3, <2>1, RetiredShape
  <2> QED
      BY <2>1, <2>2 DEF Kept
<1>4. CASE Prune(i)
    BY <1>3, <1>4 DEF Prune
<1>5. CASE PruneElapsed(i)
    BY <1>3, <1>5 DEF PruneElapsed
<1>6. CASE Forget(i)
  <2> DEFINE r == [rows EXCEPT ![i].status = "pruned"]
  <2>1. rows' = Repromoted(r, i)
      BY <1>6 DEF Forget
  <2>2. Shaped(r) /\ Kept(rows, r)
      BY ForgottenRows
  <2> HIDE DEF r
  <2>3. Shaped(rows') /\ Kept(r, rows')
      BY <2>1, <2>2, RepromotedShape
  <2> QED
      BY <2>2, <2>3 DEF Kept
<1>7. CASE Restore(i)
    BY <1>7, RestoredRows DEF Restore
<1>8. CASE Pin(i)
    BY <1>8, PinnedRows DEF Pin
<1> QED
    BY <1>1, <1>2, <1>4, <1>5, <1>6, <1>7, <1>8 DEF Others

LEMMA OthersTyped ==
    ASSUME Typed, NEW i \in DOMAIN rows, Others(i)
    PROVE  Typed'
<1>1. Shaped(rows') /\ Kept(rows, rows')
    BY OthersShape
<1>2. late \in BOOLEAN /\ changes \in 0..MaxChanges
    BY DEF Typed, TypeOK
<1>3. pass' = pass /\ late' = late
    BY DEF Others, Changes, Supersede, Reinforce, Prune, Forget, Restore, Pin, PruneElapsed
<1>4. changes' \in 0..MaxChanges
  <2>1. changes' = changes \/ (changes' = changes + 1 /\ changes < MaxChanges)
      BY DEF Others, Changes, Supersede, Reinforce, Prune, Forget, Restore, Pin, PruneElapsed
  <2> QED
      BY <1>2, <2>1, Bounds
<1>5. unseen' \in {unseen, unseen \cup Missed, unseen \cup {i}}
    BY DEF Others, Overlooks, Supersede, Reinforce, Prune, Forget, Restore, Pin, PruneElapsed
<1>6. unseen' \in SUBSET DOMAIN rows'
  <2>1. unseen \cup Missed \cup {i} \in SUBSET DOMAIN rows'
      BY <1>1, MissedRows
  <2>2. unseen' \subseteq unseen \cup Missed \cup {i}
      BY <1>5
  <2> QED
      BY <2>1, <2>2
<1> QED
    BY <1>1, <1>2, <1>3, <1>4, <1>6, RowsChange

LEMMA LearnTyped == ASSUME Typed, Learn PROVE Typed'
<1>1. PICK brief \in BOOLEAN : rows' = Append(rows, Fact(brief))
    BY DEF Learn
<1>2. Shaped(rows') /\ Kept(rows, rows')
    BY <1>1, LearnedRows DEF Learn
<1>3. late \in BOOLEAN /\ changes \in 0..MaxChanges /\ unseen \in SUBSET DOMAIN rows
    BY DEF Typed, TypeOK
<1>4. /\ pass' = pass /\ late' = late /\ unseen' = unseen
      /\ changes' = changes + 1 /\ changes < MaxChanges
    BY DEF Learn, Changes, Overlooks
<1>5. changes' \in 0..MaxChanges /\ unseen' \in SUBSET DOMAIN rows'
    BY <1>2, <1>3, <1>4, Bounds DEF Kept
<1> QED
    BY <1>2, <1>3, <1>4, <1>5, RowsChange

LEMMA SameRows == ASSUME Typed, rows' = rows PROVE Shaped(rows') /\ Kept(rows, rows')
BY TypedShape DEF Kept

LEMMA ConsolidateTyped == ASSUME Typed, Consolidate PROVE Typed'
<1>1. late \in BOOLEAN /\ changes \in 0..MaxChanges /\ unseen \in SUBSET DOMAIN rows
    BY DEF Typed, TypeOK
<1>2. ASSUME NEW i \in DOMAIN rows, NEW k \in DOMAIN rows, DemoteDuplicate(i, k)
      PROVE  Typed'
  <2>1. Shaped(rows') /\ Kept(rows, rows')
      BY <1>2, DemotedRows DEF DemoteDuplicate
  <2>2. /\ pass' = pass /\ late' = late /\ unseen' = unseen
        /\ changes' = changes + 1 /\ changes < MaxChanges
      BY <1>2 DEF DemoteDuplicate, Changes, Overlooks
  <2>3. changes' \in 0..MaxChanges /\ unseen' \in SUBSET DOMAIN rows'
      BY <1>1, <2>1, <2>2, Bounds DEF Kept
  <2> QED
      BY <1>1, <2>1, <2>2, <2>3, RowsChange
<1>3. ASSUME Consolidates, Shaped(rows'), Kept(rows, rows'),
             pass' \in PassOver(DOMAIN rows), PassOK',
             unseen' \in SUBSET DOMAIN rows
      PROVE  Typed'
  <2>1. late' \in BOOLEAN /\ changes' \in 0..MaxChanges
      BY <1>1, <1>3 DEF Consolidates
  <2>2. unseen' \in SUBSET DOMAIN rows'
      BY <1>3 DEF Kept
  <2> QED
      BY <1>3, <2>1, <2>2, PassChange
<1>4. ASSUME NEW d \in 1..MaxDepth, BeginPass(d) PROVE Typed'
  <2>1. Consolidates /\ rows' = rows /\ unseen' = unseen
      BY <1>4 DEF BeginPass, Overlooks
  <2>2. PICK members \in SUBSET Candidates(d) :
            Await([pass EXCEPT !.depth = d, !.left = Candidates(d),
                               !.held = {i \in Candidates(d) : rows[i].pinned},
                               !.brief = {i \in Candidates(d) : rows[i].brief}], members)
      BY <1>4 DEF BeginPass
  <2>3. /\ pass' \in PassOver(DOMAIN rows) /\ pass'.depth = d
        /\ pass'.left \cup pass'.members \subseteq Candidates(d)
      BY <2>2, Begun
  <2>4. \A i \in Candidates(d) : rows[i].depth = d - 1
      BY DEF Candidates
  <2>5. PassOK'
      BY <2>1, <2>3, <2>4 DEF PassOK
  <2> QED
      BY <1>1, <1>3, <2>1, <2>3, <2>5, SameRows
<1>5. CASE NextCluster
  <2>1. Consolidates /\ rows' = rows /\ unseen' = unseen
      BY <1>5 DEF NextCluster, Overlooks
  <2>2. PICK members \in SUBSET pass.left : Await(pass, members)
      BY <1>5 DEF NextCluster
  <2>3. pass \in PassOver(DOMAIN rows)
      BY DEF Typed, TypeOK, PassOver
  <2>4. /\ pass' \in PassOver(DOMAIN rows) /\ pass'.depth = pass.depth
        /\ pass'.members = members /\ pass'.left \subseteq pass.left
      BY <2>2, <2>3, Awaited
  <2>5. PassOK'
      BY <2>1, <2>4 DEF Typed, PassOK
  <2> QED
      BY <1>1, <1>3, <1>5, <2>1, <2>4, <2>5, SameRows
<1>6. ASSUME NEW rebuilt \in SUBSET Rebuildable, Done(rebuilt), Kept(rows, rows')
      PROVE  pass' \in PassOver(DOMAIN rows) /\ PassOK'
  <2>1. /\ pass' \in PassOver(DOMAIN rows) /\ pass'.depth = pass.depth
        /\ pass'.members = {} /\ pass'.left = pass.left
      BY <1>6, Finished
  <2>2. pass.left \subseteq DOMAIN rows
      BY PassLevel
  <2> QED
      BY <1>6, <2>1, <2>2 DEF Typed, PassOK, Kept
<1>7. Latest \in SUBSET Rebuildable /\ Rebuildable \in SUBSET DOMAIN rows
    BY PassLevel DEF Latest
<1>8. CASE ReviveView
  <2>1. PICK v \in Latest : rows' = Revived(v)
      BY <1>8 DEF ReviveView
  <2>2. Shaped(rows') /\ Kept(rows, rows')
      BY <1>7, <2>1, RevivedRows
  <2>3. unseen' \in SUBSET DOMAIN rows
      BY <1>1, <1>7, <1>8 DEF ReviveView, Overlooks
  <2> QED
      BY <1>3, <1>6, <1>7, <1>8, <2>2, <2>3 DEF ReviveView
<1>9. CASE CreateView
  <2>1. Shaped(rows') /\ Kept(rows, rows')
      BY <1>7, <1>9, CreatedRows DEF CreateView
  <2>2. unseen' \in SUBSET DOMAIN rows
      BY <1>1, <1>9 DEF CreateView, Overlooks
  <2> QED
      BY <1>3, <1>6, <1>7, <1>9, <2>1, <2>2 DEF CreateView
<1>10. CASE EndRun
  <2>1. Consolidates /\ rows' = rows /\ unseen' = unseen /\ pass' = NoPass
      BY <1>10 DEF EndRun, Overlooks
  <2>2. PassOK'
      BY <2>1 DEF PassOK, NoPass
  <2> QED
      BY <1>1, <1>3, <2>1, <2>2, NoPassIsOver, SameRows
<1> QED
    BY <1>2, <1>4, <1>5, <1>8, <1>9, <1>10 DEF Consolidate

LEMMA TypedStep == Typed /\ [Next]_vars => Typed'
<1> SUFFICES ASSUME Typed, [Next]_vars PROVE Typed'
    OBVIOUS
<1>1. CASE Learn
    BY <1>1, LearnTyped
<1>2. CASE Elapse
    BY <1>2 DEF Elapse, Typed, TypeOK, PassOK
<1>3. CASE Consolidate
    BY <1>3, ConsolidateTyped
<1>4. ASSUME NEW i \in DOMAIN rows, Others(i) PROVE Typed'
    BY <1>4, OthersTyped
<1>5. CASE UNCHANGED vars
    BY <1>5 DEF vars, Typed, TypeOK, PassOK
<1> QED
    BY <1>1, <1>2, <1>3, <1>4, <1>5 DEF Next

(* Type correctness: rows, pass and history stay well typed, and every link   *)
(* - heir, parent, duplicate, members - leads to a row of the right depth.    *)
THEOREM TypeCorrect == Spec => []TypeOK
<1>1. Spec => []Typed
    BY TypedInit, TypedStep, PTL DEF Spec
<1>2. Typed => TypeOK
    BY DEF Typed
<1> QED
    BY <1>1, <1>2, PTL

-----------------------------------------------------------------------------
(* ViewsHold.  It is not inductive: a view in the context is safe only        *)
(* because stale views are hidden wherever they are, because only facts have  *)
(* duplicates behind them, because what a pass has in hand held when it was   *)
(* read and still does - or is overlooked -, and because no view outlasts a   *)
(* member that runs out.                                                      *)

Plain ==
    \A j \in DOMAIN rows :
        /\ rows[j].stale => ~rows[j].shown
        /\ rows[j].depth = 0 => ~rows[j].stale
        /\ rows[j].dup # None => rows[j].depth = 0

Rests ==
    \A v \in Views(rows) : rows[v].status = "active" /\ ~rows[v].stale =>
        \A m \in rows[v].members \ unseen :
            /\ rows[m].status = "active" /\ ~rows[m].stale
            /\ rows[m].brief => rows[v].brief

InHand ==
    \A m \in (pass.left \cup pass.members) \ unseen :
        /\ rows[m].status = "active" /\ ~rows[m].stale
        /\ rows[m].brief => m \in pass.brief

Firm == Typed /\ Plain /\ Rests /\ InHand

\* The members of a view are rows.
LEMMA MembersAreRows ==
    ASSUME Typed, NEW v \in DOMAIN rows, NEW m \in rows[v].members
    PROVE  m \in DOMAIN rows
BY DEF Typed, TypeOK, Linked

LEMMA FirmInit == Init => Firm
<1> SUFFICES ASSUME Init PROVE Firm
    OBVIOUS
<1>1. Typed
    BY TypedInit
<1>2. \A i \in DOMAIN rows : rows[i] \in {Fact(TRUE), Fact(FALSE)}
  <2>1. rows \in Seq({Fact(TRUE), Fact(FALSE)})
      BY StartAssumption DEF Init
  <2> QED
      BY <2>1, ElementOfSeq, LenProperties
<1>3. Plain
    BY <1>2 DEF Plain, Fact
<1>4. Rests
    BY <1>2 DEF Rests, Views, Fact
<1>5. InHand
    BY DEF InHand, Init, NoPass
<1> QED
    BY <1>1, <1>3, <1>4, <1>5 DEF Firm

\* Row i is retired in r, or only changed there (i may then stay as it is);
\* the views above it are told, and its duplicates may come back.
LEMMA RetiredHolds ==
    ASSUME Firm, NEW i \in DOMAIN rows, NEW r, Shaped(r), Kept(rows, r),
           \A j \in DOMAIN rows :
             /\ r[j].stale = rows[j].stale /\ r[j].brief = rows[j].brief
             /\ r[j].members = rows[j].members /\ r[j].dup = rows[j].dup
             /\ r[j].shown => rows[j].shown
             /\ j # i => r[j].status = rows[j].status
             /\ r[j].status = "active" => rows[j].status = "active",
           \A j \in DOMAIN r \ DOMAIN rows : r[j] \in {Fact(TRUE), Fact(FALSE)},
           DOMAIN rows' = DOMAIN r,
           \A j \in DOMAIN r :
             /\ rows'[j].depth = r[j].depth
             /\ rows'[j].status = Invalidated(r, i)[j].status
             /\ rows'[j].brief = Invalidated(r, i)[j].brief
             /\ rows'[j].stale = Invalidated(r, i)[j].stale
             /\ rows'[j].members = Invalidated(r, i)[j].members
             /\ rows'[j].dup \in {None, Invalidated(r, i)[j].dup}
             /\ rows'[j].shown => \/ Invalidated(r, i)[j].shown
                                  \/ Invalidated(r, i)[j].dup = i,
           pass' = pass, unseen' = unseen \cup Missed
    PROVE  Plain' /\ Rests' /\ InHand'
<1> DEFINE t == Invalidated(r, i)
<1>1. Typed /\ Plain /\ Rests /\ InHand /\ rows \in Seq(Row) /\ r \in Seq(Row)
    BY TypedShape DEF Firm, Shaped
<1>2. \A j \in DOMAIN r :
        /\ t[j].depth = r[j].depth /\ t[j].status = r[j].status /\ t[j].brief = r[j].brief
        /\ t[j].members = r[j].members /\ t[j].dup = r[j].dup
        /\ j \in Above(r, i) => t[j].stale
        /\ j \notin Above(r, i) => t[j].stale = r[j].stale
        /\ r[j].stale => t[j].stale
        /\ t[j].shown /\ t[j].stale => r[j].shown /\ r[j].stale
    BY <1>1, InvalidatedRows
<1>3. DOMAIN rows \subseteq DOMAIN r /\ \A j \in DOMAIN rows : r[j].depth = rows[j].depth
    BY DEF Kept
<1>4. \A j \in DOMAIN r \ DOMAIN rows :
        r[j].depth = 0 /\ ~r[j].stale /\ r[j].dup = None
    BY DEF Fact
<1>5. i # None
    BY <1>1, RowsAreNumbered
<1> HIDE DEF t
<1>6. \A j \in DOMAIN r :
        /\ r[j].stale => ~r[j].shown
        /\ r[j].depth = 0 => ~r[j].stale
        /\ r[j].dup # None => r[j].depth = 0
    BY <1>1, <1>3, <1>4 DEF Plain
<1>7. \A j \in DOMAIN r : j \in Above(r, i) => r[j].depth > 0
    BY DEF Above, Views
<1>8. \A j \in DOMAIN r : r[j].depth = 0 => ~t[j].stale
    BY <1>2, <1>6, <1>7
<1>9. \A j \in DOMAIN r :
        /\ rows'[j].depth = r[j].depth
        /\ rows'[j].status = r[j].status /\ rows'[j].brief = r[j].brief
        /\ rows'[j].stale = t[j].stale /\ rows'[j].members = r[j].members
        /\ rows'[j].dup \in {None, r[j].dup}
        /\ rows'[j].shown => t[j].shown \/ r[j].dup = i
    BY <1>2 DEF t
<1>10. ASSUME NEW j \in DOMAIN r
       PROVE  /\ rows'[j].stale => ~rows'[j].shown
              /\ rows'[j].depth = 0 => ~rows'[j].stale
              /\ rows'[j].dup # None => rows'[j].depth = 0
  <2>1. t[j].stale => ~t[j].shown
      BY <1>2, <1>6
  <2>2. r[j].dup = i => ~t[j].stale
      BY <1>5, <1>6, <1>8
  <2>3. /\ rows'[j].depth = r[j].depth /\ rows'[j].stale = t[j].stale
        /\ rows'[j].dup \in {None, r[j].dup}
        /\ rows'[j].shown => t[j].shown \/ r[j].dup = i
      BY <1>9
  <2>4. rows'[j].stale => ~rows'[j].shown
      BY <2>1, <2>2, <2>3
  <2>5. rows'[j].depth = 0 => ~rows'[j].stale
      BY <1>8, <2>3
  <2>6. rows'[j].dup # None => rows'[j].depth = 0
      BY <1>6, <2>3
  <2> QED
      BY <2>4, <2>5, <2>6
<1>11. Plain'
    BY <1>10 DEF Plain
<1>12. ASSUME NEW v \in Views(rows)', rows'[v].status = "active", ~rows'[v].stale,
              NEW m \in rows'[v].members \ unseen'
       PROVE  /\ rows'[m].status = "active" /\ ~rows'[m].stale
              /\ rows'[m].brief => rows'[v].brief
  <2>1. v \in DOMAIN r /\ r[v].depth > 0
      BY <1>9 DEF Views
  <2>2. v \in DOMAIN rows
      BY <1>4, <2>1
  <2>3. v \in Views(rows) /\ v \in Views(r)
      BY <1>3, <2>1, <2>2 DEF Views
  <2>4. v \notin Above(r, i) /\ ~r[v].stale /\ ~rows[v].stale
      BY <1>2, <1>9, <1>12, <2>1, <2>2
  <2>5. rows[v].status = "active"
      BY <1>9, <1>12, <2>1, <2>2
  <2>6. m \in rows[v].members \ unseen /\ m \in r[v].members
      BY <1>9, <1>12, <2>1, <2>2
  <2>7. m \in DOMAIN rows
      BY <1>1, <2>2, <2>6, MembersAreRows
  <2>8. m # i /\ m \notin Above(r, i)
      BY <2>3, <2>4, <2>6, AboveIsClosed
  <2>9. rows[m].status = "active" /\ ~rows[m].stale /\ (rows[m].brief => rows[v].brief)
      BY <1>1, <2>3, <2>4, <2>5, <2>6 DEF Rests
  <2>10. /\ rows'[m].status = rows[m].status /\ rows'[m].stale = rows[m].stale
         /\ rows'[m].brief = rows[m].brief /\ rows'[v].brief = rows[v].brief
      BY <1>2, <1>3, <1>9, <2>2, <2>7, <2>8
  <2> QED
      BY <2>9, <2>10
<1>13. Rests'
    BY <1>12 DEF Rests
<1>14. ASSUME NEW m \in (pass.left \cup pass.members) \ unseen'
       PROVE  /\ rows'[m].status = "active" /\ ~rows'[m].stale
              /\ rows'[m].brief => m \in pass.brief
  <2>1. m \in DOMAIN rows /\ m \notin unseen /\ m \notin Missed
      BY <1>1, <1>14, PassLevel
  <2>2. rows[m].status = "active" /\ ~rows[m].stale /\ (rows[m].brief => m \in pass.brief)
      BY <1>1, <1>14, <2>1 DEF InHand
  <2>3. rows'[m].status = "active" /\ ~(rows'[m].stale /\ ~rows[m].stale)
      BY <1>14, <2>1 DEF Missed
  <2>4. rows'[m].brief = rows[m].brief
      BY <1>3, <1>9, <2>1
  <2> QED
      BY <2>2, <2>3, <2>4
<1>15. InHand'
    BY <1>14 DEF InHand
<1> QED
    BY <1>11, <1>13, <1>15

LEMMA RetiredRows ==
    ASSUME NEW r, Shaped(r), NEW i, Retire(r, i)
    PROVE  /\ DOMAIN rows' = DOMAIN r
           /\ \A j \in DOMAIN r :
                /\ rows'[j].depth = r[j].depth
                /\ rows'[j].status = Invalidated(r, i)[j].status
                /\ rows'[j].brief = Invalidated(r, i)[j].brief
                /\ rows'[j].stale = Invalidated(r, i)[j].stale
                /\ rows'[j].members = Invalidated(r, i)[j].members
                /\ rows'[j].dup \in {None, Invalidated(r, i)[j].dup}
                /\ rows'[j].shown => \/ Invalidated(r, i)[j].shown
                                     \/ Invalidated(r, i)[j].dup = i
<1> DEFINE t == Invalidated(r, i)
<1>1. rows' = Repromoted(t, i)
    BY DEF Retire
<1>2. t \in Seq(Row) /\ DOMAIN t = DOMAIN r
    BY InvalidatedShape DEF Shaped
<1>3. \A j \in DOMAIN r : t[j].depth = r[j].depth
    BY InvalidatedRows DEF Shaped
<1> HIDE DEF t
<1>4. DOMAIN rows' = DOMAIN r
    BY <1>1, <1>2, RepromotedRows
<1>5. \A j \in DOMAIN r :
        /\ rows'[j].depth = t[j].depth /\ rows'[j].status = t[j].status
        /\ rows'[j].brief = t[j].brief /\ rows'[j].stale = t[j].stale
        /\ rows'[j].members = t[j].members /\ rows'[j].dup \in {None, t[j].dup}
        /\ rows'[j].shown => t[j].shown \/ t[j].dup = i
    BY <1>1, <1>2, RepromotedRows
<1> QED
    BY <1>3, <1>4, <1>5 DEF t

\* The steps after which every row holds what it held, or what the step says
\* holds no less.
LEMMA QuietHolds ==
    ASSUME Firm, DOMAIN rows \subseteq DOMAIN rows',
           \A j \in DOMAIN rows :
             /\ rows'[j].depth = rows[j].depth /\ rows'[j].members = rows[j].members
             /\ rows'[j].stale = rows[j].stale
             /\ rows'[j].brief => rows[j].brief
             /\ j \notin unseen' => \/ rows'[j].status = "active"
                                    \/ rows'[j].status = rows[j].status
             /\ rows[j].depth > 0 => /\ rows'[j].brief = rows[j].brief
                                     /\ rows'[j].status = "active" => rows[j].status = "active"
             /\ rows'[j].dup # None => rows[j].depth = 0
             /\ rows[j].stale /\ rows'[j].shown => rows[j].shown \/ rows[j].depth = 0,
           \A j \in DOMAIN rows' \ DOMAIN rows : rows'[j] \in {Fact(TRUE), Fact(FALSE)},
           pass' = pass, unseen \subseteq unseen'
    PROVE  Plain' /\ Rests' /\ InHand'
<1>1. Typed /\ Plain /\ Rests /\ InHand
    BY DEF Firm
<1>2. \A j \in DOMAIN rows' \ DOMAIN rows :
        rows'[j].depth = 0 /\ ~rows'[j].stale /\ rows'[j].dup = None
    BY DEF Fact
<1>3. \A j \in DOMAIN rows :
        /\ rows'[j].stale => ~rows'[j].shown
        /\ rows'[j].depth = 0 => ~rows'[j].stale
        /\ rows'[j].dup # None => rows'[j].depth = 0
    BY <1>1 DEF Plain
<1>4. Plain'
    BY <1>2, <1>3 DEF Plain
<1>5. ASSUME NEW v \in Views(rows)', rows'[v].status = "active", ~rows'[v].stale,
             NEW m \in rows'[v].members \ unseen'
      PROVE  /\ rows'[m].status = "active" /\ ~rows'[m].stale
             /\ rows'[m].brief => rows'[v].brief
  <2>1. v \in DOMAIN rows /\ rows[v].depth > 0
      BY <1>2, <1>5 DEF Views
  <2>2. v \in Views(rows) /\ rows[v].status = "active" /\ ~rows[v].stale
      BY <1>5, <2>1 DEF Views
  <2>3. m \in rows[v].members \ unseen
      BY <1>5, <2>1
  <2>4. m \in DOMAIN rows
      BY <1>1, <2>1, <2>3, MembersAreRows
  <2>5. rows[m].status = "active" /\ ~rows[m].stale /\ (rows[m].brief => rows[v].brief)
      BY <1>1, <2>2, <2>3 DEF Rests
  <2> QED
      BY <1>5, <2>1, <2>4, <2>5
<1>6. Rests'
    BY <1>5 DEF Rests
<1>7. ASSUME NEW m \in (pass.left \cup pass.members) \ unseen'
      PROVE  /\ rows'[m].status = "active" /\ ~rows'[m].stale
             /\ rows'[m].brief => m \in pass.brief
  <2>1. m \in DOMAIN rows
      BY <1>1, PassLevel
  <2>2. rows[m].status = "active" /\ ~rows[m].stale /\ (rows[m].brief => m \in pass.brief)
      BY <1>1, <1>7 DEF InHand
  <2> QED
      BY <1>7, <2>1, <2>2
<1>8. InHand'
    BY <1>7 DEF InHand
<1> QED
    BY <1>4, <1>6, <1>8

LEMMA OthersFirm ==
    ASSUME ~RestoreViews, Firm, NEW i \in DOMAIN rows, Others(i)
    PROVE  Firm'
<1>1. Typed /\ Typed' /\ rows \in Seq(Row)
    BY OthersTyped, TypedShape DEF Firm
<1>2. CASE Supersede(i)
  <2>1. PICK brief \in BOOLEAN : Retire(Superseded(i, brief), i)
      BY <1>2 DEF Supersede
  <2> DEFINE r == Superseded(i, brief)
  <2>2. /\ Shaped(r) /\ Kept(rows, r)
        /\ \A j \in DOMAIN rows :
             /\ r[j].stale = rows[j].stale /\ r[j].brief = rows[j].brief
             /\ r[j].members = rows[j].members /\ r[j].dup = rows[j].dup
             /\ r[j].shown => rows[j].shown
             /\ j # i => r[j].status = rows[j].status
             /\ r[j].status = "active" => rows[j].status = "active"
        /\ \A j \in DOMAIN r \ DOMAIN rows : r[j] \in {Fact(TRUE), Fact(FALSE)}
    <3>1. /\ Shaped(r) /\ Kept(rows, r)
          /\ \A j \in DOMAIN rows :
               /\ r[j].stale = rows[j].stale /\ r[j].shown = rows[j].shown
               /\ r[j].brief = rows[j].brief /\ r[j].members = rows[j].members
               /\ r[j].dup = rows[j].dup
               /\ r[j].status = IF j = i THEN "superseded" ELSE rows[j].status
          /\ \A j \in DOMAIN r \ DOMAIN rows : r[j] = Fact(brief)
        BY <1>1, <1>2, SupersededRows DEF Supersede
    <3>2. Fact(brief) \in {Fact(TRUE), Fact(FALSE)}
        OBVIOUS
    <3> HIDE DEF r
    <3> QED
        BY <3>1, <3>2
  <2>3. Retire(r, i) /\ pass' = pass /\ unseen' = unseen \cup Missed
      BY <1>2, <2>1 DEF Supersede, Changes, Overlooks
  <2> HIDE DEF r
  <2>4. Plain' /\ Rests' /\ InHand'
      BY <2>2, <2>3, RetiredRows, RetiredHolds
  <2> QED
      BY <1>1, <2>4 DEF Firm
<1>3. CASE Reinforce(i)
  <2>1. rows' = Invalidated(rows, i) /\ pass' = pass /\ unseen' = unseen \cup Missed
      BY <1>3 DEF Reinforce, Changes, Overlooks
  <2>2. Shaped(rows) /\ Kept(rows, rows)
      BY <1>1, TypedShape DEF Kept
  <2>3. DOMAIN rows' = DOMAIN rows /\ \A j \in DOMAIN rows : rows'[j].depth = rows[j].depth
      BY <2>1, <2>2, InvalidatedShape DEF Kept
  <2>4. Plain' /\ Rests' /\ InHand'
      BY <2>1, <2>2, <2>3, RetiredHolds
  <2> QED
      BY <1>1, <2>4 DEF Firm
<1>4. ASSUME NEW ghost \in BOOLEAN, Retire(Archived(i, ghost), i),
             pass' = pass, unseen' = unseen \cup Missed
      PROVE  Firm'
  <2> DEFINE r == Archived(i, ghost)
  <2>1. /\ Shaped(r) /\ Kept(rows, r) /\ DOMAIN r = DOMAIN rows
        /\ \A j \in DOMAIN rows : j # i => r[j] = rows[j]
        /\ r[i].status = "pruned" /\ r[i].stale = rows[i].stale /\ ~r[i].shown
        /\ r[i].brief = rows[i].brief /\ r[i].members = rows[i].members
        /\ r[i].dup = rows[i].dup
      BY <1>1, ArchivedRows
  <2>2. Retire(r, i)
      BY <1>4
  <2> HIDE DEF r
  <2>3. \A j \in DOMAIN rows :
          /\ r[j].stale = rows[j].stale /\ r[j].brief = rows[j].brief
          /\ r[j].members = rows[j].members /\ r[j].dup = rows[j].dup
          /\ r[j].shown => rows[j].shown
          /\ j # i => r[j].status = rows[j].status
          /\ r[j].status = "active" => rows[j].status = "active"
      BY <2>1
  <2>4. \A j \in DOMAIN r \ DOMAIN rows : r[j] \in {Fact(TRUE), Fact(FALSE)}
      BY <2>1
  <2>5. Plain' /\ Rests' /\ InHand'
      BY <1>4, <2>1, <2>2, <2>3, <2>4, RetiredRows, RetiredHolds
  <2> QED
      BY <1>1, <2>5 DEF Firm
<1>5. CASE Prune(i)
    BY <1>4, <1>5 DEF Prune, Changes, Overlooks
<1>6. CASE PruneElapsed(i)
    BY <1>4, <1>6 DEF PruneElapsed, Overlooks
<1>7. CASE Forget(i)
  <2> DEFINE r == [rows EXCEPT ![i].status = "pruned"]
  <2>1. rows' = Repromoted(r, i) /\ pass' = pass /\ unseen' = unseen \cup {i}
      BY <1>7 DEF Forget, Changes, Overlooks
  <2>2. /\ Shaped(r) /\ Kept(rows, r) /\ DOMAIN r = DOMAIN rows
        /\ \A j \in DOMAIN rows : j # i => r[j] = rows[j]
        /\ r[i].status = "pruned" /\ r[i].stale = rows[i].stale
        /\ r[i].shown = rows[i].shown /\ r[i].brief = rows[i].brief
        /\ r[i].members = rows[i].members /\ r[i].dup = rows[i].dup
      BY <1>1, ForgottenRows
  <2> HIDE DEF r
  <2>3. /\ DOMAIN rows' = DOMAIN rows
        /\ \A j \in DOMAIN rows :
             /\ rows'[j].depth = r[j].depth /\ rows'[j].status = r[j].status
             /\ rows'[j].brief = r[j].brief /\ rows'[j].stale = r[j].stale
             /\ rows'[j].members = r[j].members /\ rows'[j].dup \in {None, r[j].dup}
             /\ rows'[j].shown => r[j].shown \/ r[j].dup = i
    <3>1. r \in Seq(Row)
        BY <2>2 DEF Shaped
    <3> QED
        BY <2>1, <2>2, <3>1, RepromotedRows
  <2>4. \A j \in DOMAIN rows : r[j].depth = rows[j].depth
      BY <2>2 DEF Kept
  <2>5. i # None
      BY <1>1, RowsAreNumbered
  <2>6. Plain
      BY DEF Firm
  <2>7. \A j \in DOMAIN rows :
          /\ rows'[j].depth = rows[j].depth /\ rows'[j].members = rows[j].members
          /\ rows'[j].stale = rows[j].stale /\ rows'[j].brief = rows[j].brief
          /\ rows'[j].dup # None => rows[j].depth = 0
      BY <2>2, <2>3, <2>4, <2>6 DEF Plain
  <2>8. \A j \in DOMAIN rows :
          /\ j \notin unseen' => rows'[j].status = rows[j].status
          /\ rows'[j].status = "active" => rows[j].status = "active"
      BY <2>1, <2>2, <2>3
  <2>9. \A j \in DOMAIN rows :
          rows[j].stale /\ rows'[j].shown => rows[j].shown \/ rows[j].depth = 0
      BY <2>2, <2>3, <2>5, <2>6 DEF Plain
  <2>10. Plain' /\ Rests' /\ InHand'
      BY <2>1, <2>3, <2>7, <2>8, <2>9, QuietHolds
  <2> QED
      BY <1>1, <2>10 DEF Firm
<1>8. CASE Restore(i)
  <2>1. /\ rows[i].depth = 0 /\ pass' = pass /\ unseen' = unseen
        /\ rows' = [rows EXCEPT ![i].status = "active", ![i].shown = TRUE,
                                ![i].brief = FALSE]
      BY <1>8 DEF Restore, Changes, Overlooks
  <2>2. /\ Kept(rows, rows') /\ DOMAIN rows' = DOMAIN rows
        /\ \A j \in DOMAIN rows : j # i => rows'[j] = rows[j]
        /\ rows'[i].status = "active" /\ rows'[i].stale = rows[i].stale
        /\ ~rows'[i].brief
        /\ rows'[i].members = rows[i].members /\ rows'[i].dup = rows[i].dup
      BY <1>1, <2>1, RestoredRows
  <2>3. Plain /\ \A j \in DOMAIN rows : rows'[j].depth = rows[j].depth
      BY <2>2 DEF Firm, Kept
  <2>4. ASSUME NEW j \in DOMAIN rows
        PROVE  /\ rows'[j].members = rows[j].members /\ rows'[j].stale = rows[j].stale
               /\ rows'[j].brief => rows[j].brief
               /\ rows'[j].status = "active" \/ rows'[j].status = rows[j].status
               /\ rows'[j].dup # None => rows[j].depth = 0
               /\ rows[j].stale /\ rows'[j].shown => rows[j].shown \/ rows[j].depth = 0
               /\ rows[j].depth > 0 => /\ rows'[j].brief = rows[j].brief
                                       /\ rows'[j].status = "active" => rows[j].status = "active"
    <3>1. CASE j = i
        BY <2>1, <2>2, <2>3, <3>1 DEF Plain
    <3>2. CASE j # i
      <4>1. rows'[j] = rows[j]
          BY <2>2, <3>2
      <4> QED
          BY <2>3, <4>1 DEF Plain
    <3> QED
        BY <3>1, <3>2
  <2>5. Plain' /\ Rests' /\ InHand'
      BY <2>1, <2>2, <2>3, <2>4, QuietHolds
  <2> QED
      BY <1>1, <2>5 DEF Firm
<1>9. CASE Pin(i)
  <2>1. rows' = [rows EXCEPT ![i].pinned = ~@] /\ pass' = pass /\ unseen' = unseen
      BY <1>9 DEF Pin, Changes, Overlooks
  <2>2. /\ Kept(rows, rows') /\ DOMAIN rows' = DOMAIN rows
        /\ \A j \in DOMAIN rows :
             /\ rows'[j].status = rows[j].status /\ rows'[j].stale = rows[j].stale
             /\ rows'[j].shown = rows[j].shown /\ rows'[j].brief = rows[j].brief
             /\ rows'[j].members = rows[j].members /\ rows'[j].dup = rows[j].dup
      BY <1>1, <2>1, PinnedRows
  <2>3. Plain /\ \A j \in DOMAIN rows : rows'[j].depth = rows[j].depth
      BY <2>2 DEF Firm, Kept
  <2>4. \A j \in DOMAIN rows : rows'[j].dup # None => rows[j].depth = 0
      BY <2>2, <2>3 DEF Plain
  <2>5. Plain' /\ Rests' /\ InHand'
      BY <2>1, <2>2, <2>3, <2>4, QuietHolds
  <2> QED
      BY <1>1, <2>5 DEF Firm
<1> QED
    BY <1>2, <1>3, <1>5, <1>6, <1>7, <1>8, <1>9 DEF Others

LEMMA LearnFirm == ASSUME Firm, Learn PROVE Firm'
<1>1. Typed /\ Typed' /\ Plain
    BY LearnTyped DEF Firm
<1>2. PICK brief \in BOOLEAN : rows' = Append(rows, Fact(brief))
    BY DEF Learn
<1>3. /\ Kept(rows, rows') /\ \A j \in DOMAIN rows : rows'[j] = rows[j]
      /\ \A j \in DOMAIN rows' \ DOMAIN rows : rows'[j] = Fact(brief)
    BY <1>1, <1>2, LearnedRows DEF Learn
<1>4. pass' = pass /\ unseen' = unseen
    BY DEF Learn, Changes, Overlooks
<1>5. \A j \in DOMAIN rows : rows'[j].dup # None => rows[j].depth = 0
    BY <1>1, <1>3 DEF Plain
<1>6. \A j \in DOMAIN rows' \ DOMAIN rows : rows'[j] \in {Fact(TRUE), Fact(FALSE)}
    BY <1>3
<1>7. DOMAIN rows \subseteq DOMAIN rows'
    BY <1>3 DEF Kept
<1>8. Plain' /\ Rests' /\ InHand'
    BY <1>3, <1>4, <1>5, <1>6, <1>7, QuietHolds
<1> QED
    BY <1>1, <1>8 DEF Firm

\* The view that a run makes or revives rests on what it has in hand.
LEMMA InHandHolds ==
    ASSUME Firm, NEW m \in pass.members \ unseen
    PROVE  /\ rows[m].status = "active" /\ ~rows[m].stale
           /\ rows[m].brief => Brief
BY DEF Firm, InHand, Brief

LEMMA ReviveFirm == ASSUME Firm, ReviveView PROVE Firm'
<1>1. Typed /\ Typed' /\ Plain /\ Rests /\ InHand
    BY ConsolidateTyped DEF Firm, Consolidate
<1>2. PICK v \in Latest : rows' = Revived(v)
    BY DEF ReviveView
<1>3. Latest \in SUBSET Rebuildable
    BY DEF Latest
<1>4. /\ v \in DOMAIN rows /\ rows[v].depth = pass.depth /\ rows[v].stale
      /\ v \notin pass.left \cup pass.members
      /\ pass.left \subseteq DOMAIN rows /\ pass.members \subseteq DOMAIN rows
    BY <1>1, <1>3, PassLevel
<1>5. /\ Kept(rows, rows') /\ DOMAIN rows' = DOMAIN rows
      /\ \A j \in DOMAIN rows :
           /\ rows'[j].status = rows[j].status /\ rows'[j].dup = rows[j].dup
           /\ j # v => /\ rows'[j].stale = rows[j].stale /\ rows'[j].brief = rows[j].brief
                       /\ rows'[j].members = rows[j].members
                       /\ rows'[j].shown => rows[j].shown
      /\ ~rows'[v].stale /\ rows'[v].brief = Brief /\ rows'[v].members = pass.members
    BY <1>1, <1>2, <1>3, RevivedRows
<1>6. unseen' = unseen \cup {w \in Latest : rows[w].status # "active"}
    BY DEF ReviveView, Overlooks
<1>7. /\ pass'.members = {} /\ pass'.left = pass.left
      /\ pass'.brief = pass.brief \cap pass.left
    BY <1>1, <1>3, Finished DEF ReviveView
<1>8. \A j \in DOMAIN rows : rows'[j].depth = rows[j].depth
    BY <1>5 DEF Kept
<1>9. Plain'
    BY <1>1, <1>5, <1>8 DEF Plain
<1>10. ASSUME NEW w \in Views(rows)', rows'[w].status = "active", ~rows'[w].stale,
              NEW m \in rows'[w].members \ unseen'
       PROVE  /\ rows'[m].status = "active" /\ ~rows'[m].stale
              /\ rows'[m].brief => rows'[w].brief
  <2>1. w \in DOMAIN rows /\ w \in Views(rows)
      BY <1>5, <1>8 DEF Views
  <2>2. CASE w = v
    <3>1. m \in pass.members \ unseen /\ m # v /\ m \in DOMAIN rows
        BY <1>4, <1>5, <1>6, <1>10, <2>2
    <3>2. rows[m].status = "active" /\ ~rows[m].stale /\ (rows[m].brief => Brief)
        BY <3>1, InHandHolds
    <3> QED
        BY <1>5, <2>2, <3>1, <3>2
  <2>3. CASE w # v
    <3>1. rows[w].status = "active" /\ ~rows[w].stale /\ m \in rows[w].members \ unseen
        BY <1>5, <1>6, <1>10, <2>1, <2>3
    <3>2. rows[m].status = "active" /\ ~rows[m].stale /\ (rows[m].brief => rows[w].brief)
        BY <1>1, <2>1, <3>1 DEF Rests
    <3>3. m \in DOMAIN rows /\ m # v
        BY <1>1, <1>4, <2>1, <3>1, <3>2, MembersAreRows
    <3> QED
        BY <1>5, <2>1, <2>3, <3>2, <3>3
  <2> QED
      BY <2>2, <2>3
<1>11. Rests'
    BY <1>10 DEF Rests
<1>12. ASSUME NEW m \in pass.left \ unseen'
       PROVE  /\ rows'[m].status = "active" /\ ~rows'[m].stale
              /\ rows'[m].brief => m \in pass.brief
  <2>1. m \in DOMAIN rows /\ m # v /\ m \notin unseen
      BY <1>4, <1>6
  <2>2. rows[m].status = "active" /\ ~rows[m].stale /\ (rows[m].brief => m \in pass.brief)
      BY <1>1, <2>1 DEF InHand
  <2> QED
      BY <1>5, <2>1, <2>2
<1>13. InHand'
    BY <1>7, <1>12 DEF InHand
<1> QED
    BY <1>1, <1>9, <1>11, <1>13 DEF Firm

LEMMA CreateFirm == ASSUME Firm, CreateView PROVE Firm'
<1>1. Typed /\ Typed' /\ Plain /\ Rests /\ InHand
    BY ConsolidateTyped DEF Firm, Consolidate
<1>2. Latest \in SUBSET Rebuildable
    BY DEF Latest
<1>3. /\ \A v \in Latest : /\ v \in DOMAIN rows /\ rows[v].stale
                           /\ v \notin pass.left \cup pass.members
      /\ pass.left \subseteq DOMAIN rows /\ pass.members \subseteq DOMAIN rows
    BY <1>1, <1>2, PassLevel
<1>4. /\ Kept(rows, rows')
      /\ \A j \in DOMAIN rows :
           /\ rows'[j].stale = rows[j].stale /\ rows'[j].brief = rows[j].brief
           /\ rows'[j].members = rows[j].members /\ rows'[j].dup = rows[j].dup
           /\ rows'[j].shown => rows[j].shown
           /\ j \notin Latest => rows'[j].status = rows[j].status
           /\ j \in Latest => rows'[j].status = "superseded"
      /\ \A j \in DOMAIN rows' \ DOMAIN rows : rows'[j] = View
    BY <1>1, <1>2, CreatedRows DEF CreateView
<1>5. unseen' = unseen
    BY DEF CreateView, Overlooks
<1>6. /\ pass'.members = {} /\ pass'.left = pass.left
      /\ pass'.brief = pass.brief \cap pass.left
    BY <1>1, <1>2, Finished DEF CreateView
<1>7. \A j \in DOMAIN rows : j \in DOMAIN rows' /\ rows'[j].depth = rows[j].depth
    BY <1>4 DEF Kept
<1>8. /\ ~View.stale /\ View.dup = None /\ View.depth = pass.depth
      /\ View.brief = Brief /\ View.members = pass.members
    BY DEF View
<1>9. ASSUME NEW j \in DOMAIN rows'
      PROVE  /\ rows'[j].stale => ~rows'[j].shown
             /\ rows'[j].depth = 0 => ~rows'[j].stale
             /\ rows'[j].dup # None => rows'[j].depth = 0
  <2>1. CASE j \in DOMAIN rows
      BY <1>1, <1>4, <1>7, <2>1 DEF Plain
  <2>2. CASE j \notin DOMAIN rows
    <3>1. rows'[j] = View
        BY <1>4, <2>2
    <3> QED
        BY <1>8, <3>1
  <2> QED
      BY <2>1, <2>2
<1>10. Plain'
    BY <1>9 DEF Plain
<1>11. ASSUME NEW w \in Views(rows)', rows'[w].status = "active", ~rows'[w].stale,
              NEW m \in rows'[w].members \ unseen'
       PROVE  /\ rows'[m].status = "active" /\ ~rows'[m].stale
              /\ rows'[m].brief => rows'[w].brief
  <2>1. CASE w \notin DOMAIN rows
    <3>1. rows'[w] = View
        BY <1>4, <2>1 DEF Views
    <3>2. m \in pass.members \ unseen /\ m \in DOMAIN rows /\ m \notin Latest
        BY <1>3, <1>5, <1>8, <1>11, <3>1
    <3>3. rows[m].status = "active" /\ ~rows[m].stale /\ (rows[m].brief => Brief)
        BY <3>2, InHandHolds
    <3> QED
        BY <1>4, <1>8, <3>1, <3>2, <3>3
  <2>2. CASE w \in DOMAIN rows
    <3>1. w \in Views(rows) /\ rows[w].status = "active" /\ ~rows[w].stale
          /\ m \in rows[w].members \ unseen
        BY <1>4, <1>5, <1>7, <1>11, <2>2 DEF Views
    <3>2. rows[m].status = "active" /\ ~rows[m].stale /\ (rows[m].brief => rows[w].brief)
        BY <1>1, <3>1 DEF Rests
    <3>3. m \in DOMAIN rows /\ m \notin Latest
        BY <1>1, <1>3, <2>2, <3>1, <3>2, MembersAreRows
    <3> QED
        BY <1>4, <2>2, <3>2, <3>3
  <2> QED
      BY <2>1, <2>2
<1>12. Rests'
    BY <1>11 DEF Rests
<1>13. ASSUME NEW m \in pass.left \ unseen'
       PROVE  /\ rows'[m].status = "active" /\ ~rows'[m].stale
              /\ rows'[m].brief => m \in pass.brief
  <2>1. m \in DOMAIN rows /\ m \notin Latest /\ m \notin unseen
      BY <1>3, <1>5
  <2>2. rows[m].status = "active" /\ ~rows[m].stale /\ (rows[m].brief => m \in pass.brief)
      BY <1>1, <2>1 DEF InHand
  <2> QED
      BY <1>4, <2>1, <2>2
<1>14. InHand'
    BY <1>6, <1>13 DEF InHand
<1> QED
    BY <1>1, <1>10, <1>12, <1>14 DEF Firm

LEMMA ConsolidateFirm == ASSUME Firm, Consolidate PROVE Firm'
<1>1. Typed /\ Typed' /\ Plain /\ Rests /\ InHand
    BY ConsolidateTyped DEF Firm
<1>2. ASSUME rows' = rows, unseen' = unseen, InHand' PROVE Firm'
  <2>1. Plain' /\ Rests'
      BY <1>1, <1>2 DEF Plain, Rests, Views
  <2> QED
      BY <1>1, <1>2, <2>1 DEF Firm
<1>3. ASSUME NEW i \in DOMAIN rows, NEW k \in DOMAIN rows, DemoteDuplicate(i, k)
      PROVE  Firm'
  <2>1. /\ rows' = [rows EXCEPT ![i].shown = FALSE, ![i].dup = k]
        /\ pass' = pass /\ unseen' = unseen /\ i \in Candidates(1)
      BY <1>3 DEF DemoteDuplicate, Changes, Overlooks
  <2>2. rows[i].depth = 0
    <3>1. rows[i].depth = 1 - 1
        BY <2>1 DEF Candidates
    <3> QED
        BY <3>1
  <2>3. /\ Kept(rows, rows') /\ DOMAIN rows' = DOMAIN rows
        /\ \A j \in DOMAIN rows :
             /\ rows'[j].status = rows[j].status /\ rows'[j].stale = rows[j].stale
             /\ rows'[j].brief = rows[j].brief /\ rows'[j].members = rows[j].members
             /\ j # i => rows'[j] = rows[j]
             /\ rows'[j].shown => rows[j].shown
      BY <1>1, <2>1, DemotedRows
  <2>4. \A j \in DOMAIN rows : rows'[j].depth = rows[j].depth
      BY <2>3 DEF Kept
  <2>5. \A j \in DOMAIN rows : rows'[j].dup # None => rows[j].depth = 0
      BY <1>1, <2>2, <2>3 DEF Plain
  <2>6. Plain' /\ Rests' /\ InHand'
      BY <2>1, <2>3, <2>4, <2>5, QuietHolds
  <2> QED
      BY <1>1, <2>6 DEF Firm
<1>4. ASSUME NEW d \in 1..MaxDepth, BeginPass(d) PROVE Firm'
  <2>1. rows' = rows /\ unseen' = unseen
      BY <1>4 DEF BeginPass, Overlooks
  <2>2. PICK members \in SUBSET Candidates(d) :
            Await([pass EXCEPT !.depth = d, !.left = Candidates(d),
                               !.held = {i \in Candidates(d) : rows[i].pinned},
                               !.brief = {i \in Candidates(d) : rows[i].brief}], members)
      BY <1>4 DEF BeginPass
  <2>3. /\ pass'.left \cup pass'.members \subseteq Candidates(d)
        /\ \A i \in pass'.left \cup pass'.members : rows[i].brief => i \in pass'.brief
      BY <1>1, <2>2, Begun
  <2>4. \A i \in Candidates(d) : rows[i].status = "active" /\ ~rows[i].stale
      BY <1>1 DEF Candidates, Plain
  <2>5. InHand'
      BY <2>1, <2>3, <2>4 DEF InHand
  <2> QED
      BY <1>2, <2>1, <2>5
<1>5. CASE NextCluster
  <2>1. rows' = rows /\ unseen' = unseen
      BY <1>5 DEF NextCluster, Overlooks
  <2>2. PICK members \in SUBSET pass.left : Await(pass, members)
      BY <1>5 DEF NextCluster
  <2>3. pass \in PassOver(DOMAIN rows)
      BY <1>1 DEF Typed, TypeOK, PassOver
  <2>4. /\ pass'.members = members /\ pass'.left \subseteq pass.left
        /\ pass'.brief = pass.brief \cap (members \cup pass'.left)
      BY <2>2, <2>3, Awaited
  <2>5. InHand'
      BY <1>1, <2>1, <2>4 DEF InHand
  <2> QED
      BY <1>2, <2>1, <2>5
<1>6. CASE EndRun
  <2>1. rows' = rows /\ unseen' = unseen /\ pass' = NoPass
      BY <1>6 DEF EndRun, Overlooks
  <2>2. InHand'
      BY <2>1 DEF InHand, NoPass
  <2> QED
      BY <1>2, <2>1, <2>2
<1> QED
    BY <1>3, <1>4, <1>5, <1>6, ReviveFirm, CreateFirm DEF Consolidate

LEMMA FirmStep == ASSUME ~RestoreViews PROVE Firm /\ [Next]_vars => Firm'
<1> SUFFICES ASSUME Firm, [Next]_vars PROVE Firm'
    OBVIOUS
<1>1. Typed' /\ Plain /\ Rests /\ InHand
    BY TypedStep DEF Firm
<1>2. CASE rows' = rows /\ pass' = pass /\ unseen' = unseen
    BY <1>1, <1>2 DEF Firm, Plain, Rests, InHand, Views
<1>3. CASE Learn
    BY <1>3, LearnFirm
<1>4. CASE Consolidate
    BY <1>4, ConsolidateFirm
<1>5. ASSUME NEW i \in DOMAIN rows, Others(i) PROVE Firm'
    BY <1>5, OthersFirm
<1> QED
    BY <1>2, <1>3, <1>4, <1>5 DEF Next, Elapse, vars

LEMMA FirmHolds == Firm => ViewsHold
<1> SUFFICES ASSUME Firm, NEW v \in Live \cap Views(rows)
             PROVE  /\ rows[v].stale => ~rows[v].shown
                    /\ ~rows[v].stale =>
                          \A m \in rows[v].members \ unseen : m \in Live /\ ~rows[m].stale
    BY DEF ViewsHold
<1>1. Typed /\ Plain /\ Rests
    BY DEF Firm
<1>2. v \in DOMAIN rows /\ rows[v].status = "active" /\ ~(rows[v].brief /\ late)
    BY DEF Live, Current
<1>3. ASSUME ~rows[v].stale, NEW m \in rows[v].members \ unseen
      PROVE  m \in Live /\ ~rows[m].stale
  <2>1. rows[m].status = "active" /\ ~rows[m].stale /\ (rows[m].brief => rows[v].brief)
      BY <1>1, <1>2, <1>3 DEF Rests
  <2>2. m \in DOMAIN rows
      BY <1>1, <1>2, <1>3, MembersAreRows
  <2> QED
      BY <1>2, <2>1, <2>2 DEF Live, Current
<1> QED
    BY <1>1, <1>2, <1>3 DEF Plain

(* Unless archived rollups are brought back, no stale view is ever in the     *)
(* context, and every fresh one rests on rows that hold and are fresh, at any *)
(* depth - but for the changes nobody told it about (`unseen`): a forgotten   *)
(* row, and what changes while a text is awaited.                             *)
THEOREM ViewsAlwaysHold == ASSUME ~RestoreViews PROVE Spec => []ViewsHold
<1>1. Firm /\ [Next]_vars => Firm'
    BY FirmStep
<1>2. Spec => []Firm
    BY <1>1, FirmInit, PTL DEF Spec
<1> QED
    BY <1>2, FirmHolds, PTL

-----------------------------------------------------------------------------
(* ContextIsKept and NobodyIsLost.  What the caller has, spelled out.         *)

Supported == {i \in Hidden : Behind(i) # {}}
Reaches(S) == \A i \in Supported : Behind(i) \ (Hidden \ S) # {} => i \in S

CarriedIs ==
    Carried = {i \in Live : i \in Hidden => i \in Supported /\ \A S \in SUBSET Supported : Reaches(S) => i \in S}

LEMMA CarriedMeans == CarriedIs
<1> DEFINE hidden == Hidden
           behind == [i \in hidden |-> Behind(i)]
           held == {i \in hidden : behind[i] # {}}
           Closed(S) == \A i \in held : behind[i] \ (hidden \ S) # {} => i \in S
<1>1. Carried = {i \in Live : i \in hidden => i \in held /\ \A S \in SUBSET held : Closed(S) => i \in S}
    BY DEF Carried
<1>2. \A i \in hidden : behind[i] = Behind(i)
    OBVIOUS
<1> HIDE DEF behind
<1>3. held = Supported
    BY <1>2 DEF Supported
<1>4. \A S : Closed(S) <=> Reaches(S)
    BY <1>2, <1>3 DEF Reaches, Supported
<1> HIDE DEF Closed, held
<1> QED
    BY <1>1, <1>3, <1>4 DEF CarriedIs

\* A row that is hidden now is behind one that is in the context now, and a row
\* that stays hidden is behind what it was behind, and all of that is fresh.
LEMMA ContextStep ==
    ASSUME \A j \in Live \cap Live' :
               rows[j].shown /\ ~rows'[j].shown /\ ~rows'[j].stale
                   => \E q \in Behind(j)' : rows'[q].shown,
           \A j \in Live \cap Live' :
               ~rows[j].shown /\ ~rows'[j].shown /\ ~rows'[j].stale
                   => \/ \E q \in Behind(j)' : rows'[q].shown
                      \/ \A p \in Behind(j) : p \in Behind(j)' /\ ~rows'[p].stale
    PROVE  {i \in Carried \cap Live' : ~rows'[i].stale} \subseteq Carried'
<1> SUFFICES ASSUME NEW i \in Carried, i \in Live', ~rows'[i].stale PROVE i \in Carried'
    OBVIOUS
<1> DEFINE Stays(j) == j \in Live' /\ ~rows'[j].shown /\ ~rows'[j].stale
<1>1. i \in Live /\ (i \in Hidden => i \in Supported /\ \A S \in SUBSET Supported : Reaches(S) => i \in S)
    BY CarriedMeans DEF CarriedIs
<1>2. \A j : Behind(j) \subseteq Live
    BY DEF Behind
<1>3. ASSUME NEW j \in Live, Stays(j), rows[j].shown \/ j \in Supported PROVE j \in Supported'
  <2>1. j \in Hidden'
      BY <1>3 DEF Hidden
  <2>2. Behind(j)' # {}
      BY <1>3 DEF Supported, Hidden
  <2> QED
      BY <2>1, <2>2 DEF Supported
<1>4. ASSUME i \in Hidden', NEW S \in SUBSET Supported', Reaches(S)' PROVE i \in S
  <2> DEFINE T == {j \in Supported : Stays(j) => j \in S}
  <2>1. ASSUME NEW j, j \in Supported', NEW q \in Behind(j)', rows'[q].shown PROVE j \in S
    <3>1. q \notin Hidden'
        BY <2>1 DEF Hidden
    <3> QED
        BY <1>4, <2>1, <3>1 DEF Reaches
  <2>2. ASSUME NEW j \in Live, Stays(j), rows[j].shown PROVE j \in S
    <3>1. j \in Supported'
        BY <1>3, <2>2
    <3>2. PICK q \in Behind(j)' : rows'[q].shown
        BY <2>2
    <3> QED
        BY <2>1, <3>1, <3>2
  <2>3. ASSUME NEW j \in Supported, Behind(j) \ (Hidden \ T) # {}, Stays(j) PROVE j \in S
    <3>1. j \in Live /\ ~rows[j].shown
        BY DEF Supported, Hidden
    <3>2. j \in Supported'
        BY <1>3, <2>3, <3>1
    <3>3. CASE \E q \in Behind(j)' : rows'[q].shown
        BY <2>1, <3>2, <3>3
    <3>4. CASE \A p \in Behind(j) : p \in Behind(j)' /\ ~rows'[p].stale
      <4>1. PICK p \in Behind(j) : p \notin Hidden \/ p \in T
          BY <2>3
      <4>2. p \in Live /\ p \in Behind(j)' /\ p \in Live' /\ ~rows'[p].stale
          BY <1>2, <3>4 DEF Behind
      <4>3. CASE rows'[p].shown
          BY <2>1, <3>2, <4>2, <4>3
      <4>4. CASE ~rows'[p].shown
        <5>1. Stays(p)
            BY <4>2, <4>4
        <5>2. p \in S
            BY <2>2, <4>1, <4>2, <5>1 DEF Hidden
        <5> QED
            BY <1>4, <3>2, <4>2, <5>2 DEF Reaches
      <4> QED
          BY <4>3, <4>4
    <3> QED
        BY <2>3, <3>1, <3>3, <3>4
  <2>4. Reaches(T)
      BY <2>3 DEF Reaches
  <2>5. Stays(i)
      BY <1>4 DEF Hidden
  <2> HIDE DEF T
  <2>6. CASE i \in Hidden
    <3>1. T \in SUBSET Supported
        BY DEF T
    <3>2. i \in T
        BY <1>1, <2>4, <2>6, <3>1
    <3> QED
        BY <2>5, <3>2 DEF T
  <2>7. CASE i \notin Hidden
      BY <1>1, <2>2, <2>5, <2>7 DEF Hidden
  <2> QED
      BY <2>6, <2>7
<1>5. i \in Hidden' => i \in Supported'
  <2>1. i \in Hidden' => Stays(i)
      BY DEF Hidden
  <2>2. rows[i].shown \/ i \in Supported
      BY <1>1 DEF Hidden
  <2> QED
      BY <1>1, <1>3, <2>1, <2>2
<1>6. CarriedIs'
    BY CarriedMeans, PTL
<1> QED
    BY <1>4, <1>5, <1>6 DEF CarriedIs

\* What nobody tells anything: rows stay where they are, those shown stay shown.
LEMMA ContextQuiet ==
    ASSUME Firm, Firm', DOMAIN rows \subseteq DOMAIN rows', Live \subseteq Live',
           \A j \in DOMAIN rows :
             /\ rows'[j].parent = rows[j].parent /\ rows'[j].dup = rows[j].dup
             /\ rows'[j].members = rows[j].members /\ rows'[j].stale = rows[j].stale
             /\ rows[j].shown => rows'[j].shown,
           \A j \in DOMAIN rows : rows[j].dup # None => ~rows'[rows[j].dup].stale
    PROVE  {i \in Carried \cap Live' : ~rows'[i].stale} \subseteq Carried'
<1>1. Live \subseteq DOMAIN rows /\ \A j : Behind(j) \subseteq Live
    BY DEF Live, Current, Behind
<1>2. \A i \in DOMAIN rows : i # None
    BY RowsAreNumbered, TypedShape DEF Firm
<1>3. ASSUME NEW j \in Live, NEW p \in Behind(j) PROVE p \in Behind(j)' /\ ~rows'[p].stale
    BY <1>1, <1>2, <1>3 DEF Behind
<1> QED
    BY <1>1, <1>3, ContextStep

\* What the walk leaves hidden, and fresh, it leaves as it was: it woke what
\* rested behind the views that it hid.
LEMMA ToldRows ==
    ASSUME NEW r, Shaped(r), NEW i, NEW s,
           s = Invalidated(r, i) \/ s = Repromoted(Invalidated(r, i), i),
           NEW j \in Current(r), ~r[j].stale, ~s[j].shown, ~s[j].stale
    PROVE  /\ s[j] = r[j] /\ ~r[j].shown
           /\ s = Repromoted(Invalidated(r, i), i) => r[j].dup # i
           /\ \A p \in Views(r) : j \in r[p].members /\ ~r[p].stale => ~s[p].stale
<1> DEFINE gone == {v \in Above(r, i) : ~r[v].stale}
           woken == Fallback(r, gone)
           t == Invalidated(r, i)
<1>1. r \in Seq(Row) /\ j \in DOMAIN r /\ r[j].status = "active" /\ j # None
    BY RowsAreNumbered DEF Shaped, Current
<1>2. t = [k \in DOMAIN r |->
            IF k \in gone THEN [r[k] EXCEPT !.shown = FALSE, !.stale = TRUE]
            ELSE IF k \in woken THEN [r[k] EXCEPT !.shown = TRUE, !.parent = None]
            ELSE r[k]]
    BY DEF Invalidated
<1>3. /\ t = [k \in DOMAIN r |-> t[k]]
      /\ \A k \in DOMAIN r :
           /\ t[k] \in Row /\ t[k].status = r[k].status
           /\ k \notin Above(r, i) => t[k].stale = r[k].stale
           /\ k \in Above(r, i) => t[k].stale
    BY <1>1, InvalidatedRows
<1>4. \A v \in gone : v \in Above(r, i) /\ ~r[v].stale
    OBVIOUS
<1>5. Heir(r, j) = j
    BY DEF Heir
<1>6. \A p \in gone : j \in r[p].members => j \in gone \/ j \in woken
    BY <1>1, <1>5 DEF Fallback
<1>7. \A p \in Above(r, i) : ~r[p].stale => p \in gone
    OBVIOUS
<1> HIDE DEF gone, woken, t
<1>8. t \in Seq(Row) /\ DOMAIN t = DOMAIN r
    BY <1>1, <1>3, SameLength
<1>9. ASSUME s = Repromoted(t, i)
      PROVE  s = [k \in DOMAIN r |->
                    IF t[k].dup = i /\ t[k].status = "active" /\ ~t[k].shown
                    THEN [t[k] EXCEPT !.shown = TRUE, !.dup = None] ELSE t[k]]
    BY <1>8, <1>9 DEF Repromoted
<1>10. /\ s[j] = t[j] /\ (s = Repromoted(t, i) => t[j].dup # i)
       /\ \A k \in DOMAIN r : s[k].stale = t[k].stale
  <2>1. CASE s = Repromoted(t, i)
    <3>1. s = [k \in DOMAIN r |->
                IF t[k].dup = i /\ t[k].status = "active" /\ ~t[k].shown
                THEN [t[k] EXCEPT !.shown = TRUE, !.dup = None] ELSE t[k]]
        BY <1>9, <2>1
    <3>2. ASSUME NEW k \in DOMAIN r PROVE s[k].stale = t[k].stale
      <4>0. t[k] \in Row
          BY <1>3
      <4>1. [t[k] EXCEPT !.shown = TRUE, !.dup = None].stale = t[k].stale
          BY <4>0 DEF Row
      <4>2. s[k] = [t[k] EXCEPT !.shown = TRUE, !.dup = None] \/ s[k] = t[k]
          BY <3>1
      <4> QED
          BY <4>1, <4>2
    <3>3. [t[j] EXCEPT !.shown = TRUE, !.dup = None].shown
        BY <1>1, <1>3, ClearedDuplicate
    <3>4. ~(t[j].dup = i /\ t[j].status = "active" /\ ~t[j].shown)
        BY <1>1, <3>1, <3>3
    <3>5. s[j] = t[j]
        BY <1>1, <3>1, <3>4
    <3> QED
        BY <1>1, <1>3, <3>2, <3>4, <3>5
  <2>2. CASE s # Repromoted(t, i)
      BY <2>2 DEF t
  <2> QED
      BY <2>1, <2>2
<1>11. j \notin gone
    BY <1>1, <1>3, <1>4, <1>10
<1>12. j \notin woken
  <2>1. [r[j] EXCEPT !.shown = TRUE, !.parent = None].shown
      BY <1>1, RowsAreNumbered, ClearedParent
  <2> QED
      BY <1>1, <1>2, <1>10, <1>11, <2>1
<1>13. t[j] = r[j]
    BY <1>1, <1>2, <1>11, <1>12
<1>14. ASSUME NEW p \in Views(r), j \in r[p].members, ~r[p].stale PROVE ~s[p].stale
  <2>1. p \notin gone
      BY <1>6, <1>11, <1>12, <1>14
  <2>2. p \notin Above(r, i) /\ p \in DOMAIN r
      BY <1>7, <1>14, <2>1 DEF Views
  <2> QED
      BY <1>3, <1>10, <1>14, <2>2
<1> QED
    BY <1>10, <1>13, <1>14 DEF t

\* A view is revived where it stands, the members go behind it, and so for all.
LEMMA RevivedPlaces ==
    ASSUME Typed, NEW v \in Rebuildable, NEW r, r = Revived(v)
    PROVE  /\ r[v].shown
           /\ \A j \in DOMAIN rows \ {v} :
                /\ r[j].ghost = rows[j].ghost
                /\ j \in pass.members => ~r[j].shown /\ r[j].parent = v
                /\ j \notin pass.members => r[j] = rows[j]
<1>1. v \in DOMAIN rows /\ v \notin pass.members /\ rows \in Seq(Row)
    BY PassLevel, TypedShape
<1>2. \A j \in DOMAIN rows : rows[j] \in Row
    BY <1>1, RowsAreNumbered
<1>3. \A j \in DOMAIN rows :
        r[j] = IF j = v
               THEN [rows[v] EXCEPT !.shown = TRUE, !.stale = FALSE, !.brief = Brief,
                                    !.members = pass.members, !.version = @ + 1]
               ELSE IF j \in pass.members THEN [rows[j] EXCEPT !.shown = FALSE, !.parent = v]
               ELSE rows[j]
    BY DEF Revived
<1>4. r[v].shown
    BY <1>1, <1>2, <1>3 DEF Row
<1>5. \A j \in DOMAIN rows \ {v} : j \in pass.members => ~r[j].shown /\ r[j].parent = v
    BY <1>2, <1>3 DEF Row
<1>6. \A j \in DOMAIN rows \ {v} : j \notin pass.members => r[j] = rows[j]
    BY <1>3
<1>7. ASSUME NEW j \in DOMAIN rows \ {v} PROVE r[j].ghost = rows[j].ghost
  <2>1. r[j] = [rows[j] EXCEPT !.shown = FALSE, !.parent = v] \/ r[j] = rows[j]
      BY <1>3
  <2> QED
      BY <1>2, <2>1 DEF Row
<1> QED
    BY <1>4, <1>5, <1>6, <1>7

\* A new view comes last; the members that are not held go behind it.
CreatedAt(r, new, replaced) ==
    /\ new \notin DOMAIN rows /\ DOMAIN r = DOMAIN rows \cup {new} /\ r[new] = View
    /\ \A j \in DOMAIN rows \ replaced :
         /\ r[j].ghost = rows[j].ghost
         /\ j \in pass.members \ pass.held => ~r[j].shown /\ r[j].parent = new
         /\ j \notin pass.members \ pass.held => r[j] = rows[j]
    /\ \A j \in replaced : r[j].shown = rows[j].shown /\ r[j].parent = rows[j].parent

LEMMA CreatedPlaces ==
    ASSUME Typed, Room, NEW replaced \in SUBSET Rebuildable
    PROVE  \E new : CreatedAt(Created(replaced), new, replaced)
<1>0. PICK r : r = Created(replaced)
    OBVIOUS
<1>1. rows \in Seq(Row) /\ Len(rows) \in Nat /\ DOMAIN rows = 1..Len(rows)
    BY TypedShape, RowsAreNumbered
<1>2. \A j \in DOMAIN rows : rows[j] \in Row
    BY <1>1, RowsAreNumbered
<1>3. PICK new : new = Len(rows) + 1
    OBVIOUS
<1> DEFINE base == [j \in DOMAIN rows |->
               IF j \in replaced THEN [rows[j] EXCEPT !.status = "superseded", !.by = new]
               ELSE IF j \in pass.members \ pass.held
               THEN [rows[j] EXCEPT !.shown = FALSE, !.parent = new]
               ELSE rows[j]]
<1>4. r = Append(base, View)
    BY <1>0, <1>3 DEF Created
<1>5. base \in Seq({base[j] : j \in DOMAIN rows}) /\ Len(base) = Len(rows)
  <2>1. base \in [1..Len(rows) -> {base[j] : j \in DOMAIN rows}]
      BY <1>1
  <2> HIDE DEF base
  <2> QED
      BY <1>1, <2>1, SeqDef, LenProperties
<1>6. /\ DOMAIN r = DOMAIN rows \cup {new} /\ new \notin DOMAIN rows /\ r[new] = View
      /\ \A j \in DOMAIN rows : r[j] = base[j]
  <2> DEFINE T == {base[j] : j \in DOMAIN rows} \cup {View}
  <2>1. base \in Seq(T) /\ View \in T
    <3>1. base \in [1..Len(rows) -> T]
        BY <1>1
    <3> HIDE DEF base, T
    <3>2. base \in Seq(T)
        BY <1>1, <3>1, SeqDef
    <3> QED
        BY <3>2 DEF T
  <2> HIDE DEF base, T
  <2>2. /\ r \in Seq(T) /\ Len(r) = Len(rows) + 1
        /\ (\A j \in 1..Len(rows) : r[j] = base[j]) /\ r[Len(rows) + 1] = View
      BY <1>4, <1>5, <2>1, AppendProperties
  <2>3. DOMAIN r = 1..Len(rows) + 1
      BY <2>2, LenProperties
  <2> QED
      BY <1>1, <1>3, <2>2, <2>3
<1>7. \A j \in DOMAIN rows : r[j] =
               IF j \in replaced THEN [rows[j] EXCEPT !.status = "superseded", !.by = new]
               ELSE IF j \in pass.members \ pass.held
               THEN [rows[j] EXCEPT !.shown = FALSE, !.parent = new]
               ELSE rows[j]
    BY <1>6
<1> HIDE DEF base
<1>8. \A j \in DOMAIN rows \ replaced : j \in pass.members \ pass.held => ~r[j].shown /\ r[j].parent = new
    BY <1>2, <1>7 DEF Row
<1>9. \A j \in DOMAIN rows \ replaced : j \notin pass.members \ pass.held => r[j] = rows[j]
    BY <1>7
<1>10. ASSUME NEW j \in replaced PROVE r[j].shown = rows[j].shown /\ r[j].parent = rows[j].parent
  <2>1. j \in DOMAIN rows
      BY PassLevel
  <2>2. r[j] = [rows[j] EXCEPT !.status = "superseded", !.by = new]
      BY <1>7, <2>1
  <2> QED
      BY <1>2, <2>1, <2>2 DEF Row
<1>11. ASSUME NEW j \in DOMAIN rows \ replaced PROVE r[j].ghost = rows[j].ghost
  <2>1. r[j] = [rows[j] EXCEPT !.shown = FALSE, !.parent = new] \/ r[j] = rows[j]
      BY <1>7
  <2> QED
      BY <1>2, <2>1 DEF Row
<1>12. CreatedAt(r, new, replaced)
    BY <1>6, <1>8, <1>9, <1>10, <1>11 DEF CreatedAt
<1> QED
    BY <1>0, <1>12

\* Everything else that the walk, and the return of duplicates, do to a row.
LEMMA ToldFields ==
    ASSUME NEW r, Shaped(r), NEW i, NEW s,
           s = Invalidated(r, i) \/ s = Repromoted(Invalidated(r, i), i)
    PROVE  /\ DOMAIN s = DOMAIN r
           /\ \A j \in DOMAIN r :
                /\ s[j].depth = r[j].depth /\ s[j].status = r[j].status /\ s[j].brief = r[j].brief
                /\ s[j].members = r[j].members /\ s[j].ghost = r[j].ghost
                /\ s[j].dup \in {None, r[j].dup}
                /\ r[j].stale => s[j].stale
                /\ j \in Above(r, i) => s[j].stale
                /\ j \notin Above(r, i) => s[j].stale = r[j].stale
                /\ r[j].shown /\ ~s[j].stale => s[j].shown
<1> DEFINE gone == {v \in Above(r, i) : ~r[v].stale}
           woken == Fallback(r, gone)
           t == Invalidated(r, i)
<1>1. r \in Seq(Row) /\ \A j \in DOMAIN r : r[j] \in Row
    BY RowsAreNumbered DEF Shaped
<1>2. t = [j \in DOMAIN r |->
            IF j \in gone THEN [r[j] EXCEPT !.shown = FALSE, !.stale = TRUE]
            ELSE IF j \in woken THEN [r[j] EXCEPT !.shown = TRUE, !.parent = None]
            ELSE r[j]]
    BY DEF Invalidated
<1>3. /\ t = [j \in DOMAIN r |-> t[j]]
      /\ \A j \in DOMAIN r :
           /\ t[j] \in Row
           /\ t[j].depth = r[j].depth /\ t[j].status = r[j].status /\ t[j].brief = r[j].brief
           /\ t[j].members = r[j].members /\ t[j].dup = r[j].dup
           /\ r[j].stale => t[j].stale
           /\ j \in Above(r, i) => t[j].stale
           /\ j \notin Above(r, i) => t[j].stale = r[j].stale
    BY <1>1, InvalidatedRows
<1> HIDE DEF gone, woken
<1>4. ASSUME NEW j \in DOMAIN r
      PROVE  t[j].ghost = r[j].ghost /\ (r[j].shown /\ ~t[j].stale => t[j].shown)
  <2>1. r[j] \in Row
      BY <1>1
  <2>2. \/ t[j] = [r[j] EXCEPT !.shown = FALSE, !.stale = TRUE]
        \/ t[j] = [r[j] EXCEPT !.shown = TRUE, !.parent = None]
        \/ t[j] = r[j]
      BY <1>2
  <2> HIDE DEF t
  <2> QED
      BY <2>1, <2>2 DEF Row
<1> HIDE DEF t
<1>5. t \in Seq(Row) /\ DOMAIN t = DOMAIN r
    BY <1>1, <1>3, SameLength
<1>6. CASE s = t
    BY <1>3, <1>4, <1>5, <1>6
<1>7. CASE s = Repromoted(t, i)
  <2>1. s = [k \in DOMAIN r |->
                IF t[k].dup = i /\ t[k].status = "active" /\ ~t[k].shown
                THEN [t[k] EXCEPT !.shown = TRUE, !.dup = None] ELSE t[k]]
      BY <1>5, <1>7 DEF Repromoted
  <2>2. ASSUME NEW j \in DOMAIN r
        PROVE  /\ s[j].depth = t[j].depth /\ s[j].status = t[j].status /\ s[j].brief = t[j].brief
               /\ s[j].members = t[j].members /\ s[j].ghost = t[j].ghost
               /\ s[j].dup \in {None, t[j].dup} /\ s[j].stale = t[j].stale
               /\ t[j].shown => s[j].shown
    <3>1. t[j] \in Row
        BY <1>3
    <3>2. s[j] = [t[j] EXCEPT !.shown = TRUE, !.dup = None] \/ s[j] = t[j]
        BY <2>1
    <3> QED
        BY <3>1, <3>2 DEF Row
  <2>3. DOMAIN s = DOMAIN r
      BY <2>1
  <2> QED
      BY <1>3, <1>4, <2>2, <2>3
<1> QED
    BY <1>6, <1>7 DEF t

\* A step that tells the views above row i of what became of it in r, and, if
\* it was retired there, brings its duplicates back.
Telling(r, i) ==
    /\ Shaped(r) /\ Kept(rows, r) /\ i \in DOMAIN rows
    /\ \A j \in DOMAIN rows \ {i} : r[j] = rows[j]
    /\ r[i].stale = rows[i].stale /\ r[i].brief = rows[i].brief
    /\ r[i].members = rows[i].members /\ r[i].dup = rows[i].dup
    /\ \A j \in DOMAIN r \ DOMAIN rows : r[j] \in {Fact(TRUE), Fact(FALSE)}
    /\ \/ r = rows /\ rows' = Invalidated(r, i)
       \/ /\ r[i].status # "active" /\ rows' = Repromoted(Invalidated(r, i), i)
          /\ rows[i].status = "active" /\ rows[i].depth > 0 => late /\ rows[i].brief
    /\ pass' = pass /\ late' = late /\ unseen' = unseen \cup Missed

LEMMA SupersededOthers ==
    ASSUME Typed, Room, NEW i \in DOMAIN rows, NEW brief \in BOOLEAN
    PROVE  \A j \in DOMAIN rows \ {i} : Superseded(i, brief)[j] = rows[j]
<1> DEFINE q == [rows EXCEPT ![i].status = "superseded", ![i].by = Len(rows) + 1]
           T == {q[j] : j \in DOMAIN rows} \cup {Fact(brief)}
<1>1. rows \in Seq(Row) /\ Len(rows) \in Nat /\ DOMAIN rows = 1..Len(rows)
    BY TypedShape, RowsAreNumbered
<1>2. q \in [1..Len(rows) -> T] /\ Fact(brief) \in T
    BY <1>1
<1>3. \A j \in DOMAIN rows \ {i} : q[j] = rows[j]
    OBVIOUS
<1>4. Superseded(i, brief) = Append(q, Fact(brief))
    BY DEF Superseded
<1> HIDE DEF q, T
<1>5. q \in Seq(T) /\ Len(q) = Len(rows)
    BY <1>1, <1>2, SeqDef, LenProperties
<1>6. \A j \in 1..Len(rows) : Append(q, Fact(brief))[j] = q[j]
    BY <1>2, <1>5, AppendProperties
<1> QED
    BY <1>1, <1>3, <1>4, <1>6

LEMMA TellingSteps ==
    ASSUME Typed, NEW i \in DOMAIN rows,
           Supersede(i) \/ Reinforce(i) \/ Prune(i) \/ PruneElapsed(i)
    PROVE  \E r : Telling(r, i)
<1>1. CASE Supersede(i)
  <2>1. PICK brief \in BOOLEAN : Retire(Superseded(i, brief), i)
      BY <1>1 DEF Supersede
  <2> DEFINE r == Superseded(i, brief)
  <2>2. /\ Room /\ rows[i].depth = 0 /\ pass' = pass /\ late' = late /\ unseen' = unseen \cup Missed
      BY <1>1 DEF Supersede, Changes, Overlooks
  <2>3. /\ Shaped(r) /\ Kept(rows, r)
        /\ \A j \in DOMAIN rows :
             /\ r[j].stale = rows[j].stale /\ r[j].brief = rows[j].brief
             /\ r[j].members = rows[j].members /\ r[j].dup = rows[j].dup
             /\ r[j].status = IF j = i THEN "superseded" ELSE rows[j].status
        /\ \A j \in DOMAIN r \ DOMAIN rows : r[j] = Fact(brief)
      BY <2>2, SupersededRows
  <2>4. \A j \in DOMAIN rows \ {i} : r[j] = rows[j]
      BY <2>2, SupersededOthers
  <2>5. rows' = Repromoted(Invalidated(r, i), i)
      BY <2>1 DEF Retire
  <2>6. Fact(brief) \in {Fact(TRUE), Fact(FALSE)}
      OBVIOUS
  <2>7. r[i].status # "active" /\ ~(rows[i].depth > 0)
      BY <2>2, <2>3
  <2>8. \A j \in DOMAIN r \ DOMAIN rows : r[j] \in {Fact(TRUE), Fact(FALSE)}
      BY <2>3, <2>6
  <2> HIDE DEF r
  <2>9. Telling(r, i)
      BY <2>2, <2>3, <2>4, <2>5, <2>7, <2>8 DEF Telling
  <2> QED
      BY <2>9
<1>2. CASE Reinforce(i)
  <2>1. rows' = Invalidated(rows, i) /\ pass' = pass /\ late' = late /\ unseen' = unseen \cup Missed
      BY <1>2 DEF Reinforce, Changes, Overlooks
  <2>2. Shaped(rows) /\ Kept(rows, rows)
      BY TypedShape DEF Kept
  <2>3. Telling(rows, i)
      BY <2>1, <2>2 DEF Telling
  <2> QED
      BY <2>3
<1>3. ASSUME NEW ghost \in BOOLEAN, Retire(Archived(i, ghost), i),
             rows[i].status = "active" /\ rows[i].depth > 0 => late /\ rows[i].brief,
             pass' = pass, late' = late, unseen' = unseen \cup Missed
      PROVE  \E r : Telling(r, i)
  <2> DEFINE r == Archived(i, ghost)
  <2>1. /\ Shaped(r) /\ Kept(rows, r) /\ DOMAIN r = DOMAIN rows
        /\ \A j \in DOMAIN rows : j # i => r[j] = rows[j]
        /\ r[i].status = "pruned" /\ r[i].stale = rows[i].stale
        /\ r[i].brief = rows[i].brief /\ r[i].members = rows[i].members
        /\ r[i].dup = rows[i].dup
      BY ArchivedRows
  <2>2. rows' = Repromoted(Invalidated(r, i), i)
      BY <1>3 DEF Retire
  <2> HIDE DEF r
  <2>3. Telling(r, i)
      BY <1>3, <2>1, <2>2 DEF Telling
  <2> QED
      BY <2>3
<1>4. CASE Prune(i)
    BY <1>3, <1>4 DEF Prune, Held, Changes, Overlooks
<1>5. CASE PruneElapsed(i)
    BY <1>3, <1>5 DEF PruneElapsed, Overlooks, Current
<1> QED
    BY <1>1, <1>2, <1>4, <1>5

\* A row is forgotten: nothing else of it changes, and the duplicates that were
\* hidden behind it are back.
LEMMA ForgetFields ==
    ASSUME Typed, NEW i \in DOMAIN rows, Forget(i)
    PROVE  /\ DOMAIN rows' = DOMAIN rows /\ pass' = pass /\ late' = late
           /\ unseen' = unseen \cup {i}
           /\ \A j \in DOMAIN rows :
                /\ rows'[j].depth = rows[j].depth /\ rows'[j].brief = rows[j].brief
                /\ rows'[j].members = rows[j].members /\ rows'[j].stale = rows[j].stale
                /\ rows'[j].parent = rows[j].parent /\ rows'[j].ghost = rows[j].ghost
                /\ rows'[j].status = IF j = i THEN "pruned" ELSE rows[j].status
                /\ rows'[j].dup \in {None, rows[j].dup}
                /\ rows[j].shown => rows'[j].shown
                /\ ~rows'[j].shown /\ rows'[j].status = "active"
                       => rows[j].dup # i /\ rows'[j].dup = rows[j].dup
<1> DEFINE t == [rows EXCEPT ![i].status = "pruned"]
<1>1. rows \in Seq(Row) /\ \A j \in DOMAIN rows : rows[j] \in Row
    BY TypedShape, RowsAreNumbered
<1>2. DOMAIN t = DOMAIN rows
    OBVIOUS
<1>3. ASSUME NEW j \in DOMAIN rows
      PROVE  /\ t[j] \in Row
             /\ t[j].depth = rows[j].depth /\ t[j].brief = rows[j].brief
             /\ t[j].members = rows[j].members /\ t[j].stale = rows[j].stale
             /\ t[j].parent = rows[j].parent /\ t[j].dup = rows[j].dup
             /\ t[j].shown = rows[j].shown /\ t[j].ghost = rows[j].ghost
             /\ t[j].status = IF j = i THEN "pruned" ELSE rows[j].status
  <2>1. rows[j] \in Row
      BY <1>1
  <2> QED
      BY <2>1 DEF Row
<1>4. rows' = Repromoted(t, i) /\ pass' = pass /\ late' = late /\ unseen' = unseen \cup {i}
    BY DEF Forget, Changes, Overlooks
<1> HIDE DEF t
<1>5. rows' = [j \in DOMAIN rows |->
                IF t[j].dup = i /\ t[j].status = "active" /\ ~t[j].shown
                THEN [t[j] EXCEPT !.shown = TRUE, !.dup = None] ELSE t[j]]
    BY <1>2, <1>4 DEF Repromoted
<1>6. ASSUME NEW j \in DOMAIN rows
      PROVE  /\ rows'[j].depth = t[j].depth /\ rows'[j].brief = t[j].brief
             /\ rows'[j].members = t[j].members /\ rows'[j].stale = t[j].stale
             /\ rows'[j].parent = t[j].parent /\ rows'[j].status = t[j].status
             /\ rows'[j].ghost = t[j].ghost
             /\ rows'[j].dup \in {None, t[j].dup}
             /\ t[j].shown => rows'[j].shown
             /\ ~rows'[j].shown /\ rows'[j].status = "active"
                    => t[j].dup # i /\ rows'[j].dup = t[j].dup
  <2>1. t[j] \in Row
      BY <1>3
  <2>2. CASE t[j].dup = i /\ t[j].status = "active" /\ ~t[j].shown
    <3>1. rows'[j] = [t[j] EXCEPT !.shown = TRUE, !.dup = None]
        BY <1>5, <2>2
    <3> QED
        BY <2>1, <3>1 DEF Row
  <2>3. CASE ~(t[j].dup = i /\ t[j].status = "active" /\ ~t[j].shown)
    <3>1. rows'[j] = t[j]
        BY <1>5, <2>3
    <3> QED
        BY <2>3, <3>1
  <2> QED
      BY <2>2, <2>3
<1>7. DOMAIN rows' = DOMAIN rows
    BY <1>5
<1> QED
    BY <1>3, <1>4, <1>6, <1>7

\* What a run has in hand is in the context as long as it holds, and duplicates
\* are behind facts.
Level == \A j \in DOMAIN rows : rows[j].dup # None => rows[rows[j].dup].depth = 0
HandShown ==
    /\ pass.left \cap pass.members = {}
    /\ \A m \in pass.left \cup pass.members :
           rows[m].status = "active" /\ ~rows[m].stale => rows[m].shown
Placed == Level /\ HandShown

LEMMA PlacedInit == Init => Placed
<1> SUFFICES ASSUME Init PROVE Placed
    OBVIOUS
<1>1. rows \in Seq({Fact(TRUE), Fact(FALSE)})
    BY StartAssumption DEF Init
<1>2. \A j \in DOMAIN rows : rows[j] \in {Fact(TRUE), Fact(FALSE)}
    BY <1>1, LenProperties, ElementOfSeq
<1>3. \A j \in DOMAIN rows : rows[j].dup = None
    BY <1>2 DEF Fact
<1>4. pass.left = {} /\ pass.members = {}
    BY DEF Init, NoPass
<1> QED
    BY <1>3, <1>4 DEF Placed, Level, HandShown

LEMMA LevelHolds ==
    ASSUME Typed, Level, Kept(rows, rows'),
           \A j \in DOMAIN rows : rows'[j].dup \in {None, rows[j].dup},
           \A j \in DOMAIN rows' \ DOMAIN rows : rows'[j].dup = None
    PROVE  Level'
<1>1. \A j \in DOMAIN rows : rows[j].dup \in {None} \cup DOMAIN rows
    BY TypedShape DEF Shaped, Linked
<1>2. ASSUME NEW j \in DOMAIN rows', rows'[j].dup # None PROVE rows'[rows'[j].dup].depth = 0
  <2>1. j \in DOMAIN rows /\ rows'[j].dup = rows[j].dup
      BY <1>2
  <2>2. rows[j].dup \in DOMAIN rows /\ rows[rows[j].dup].depth = 0
      BY <1>1, <1>2, <2>1 DEF Level
  <2> QED
      BY <2>1, <2>2 DEF Kept
<1> QED
    BY <1>2 DEF Level

LEMMA HandHolds ==
    ASSUME Typed, HandShown,
           pass'.left \subseteq pass.left, pass'.members \subseteq pass.members,
           \A m \in pass'.left \cup pass'.members :
             rows'[m].status = "active" /\ ~rows'[m].stale /\ ~rows'[m].shown
                 => rows[m].status = "active" /\ ~rows[m].stale /\ ~rows[m].shown
    PROVE  HandShown'
BY DEF HandShown

LEMMA TellingPlaced ==
    ASSUME Typed, Placed, NEW i, NEW r, Telling(r, i) PROVE Placed'
<1>1. /\ Shaped(r) /\ Kept(rows, r) /\ i \in DOMAIN rows /\ pass' = pass
      /\ \A j \in DOMAIN rows \ {i} : r[j] = rows[j]
      /\ r[i].dup = rows[i].dup /\ r[i].stale = rows[i].stale
      /\ \A j \in DOMAIN r \ DOMAIN rows : r[j] \in {Fact(TRUE), Fact(FALSE)}
      /\ r = rows \/ r[i].status # "active"
      /\ rows' = Invalidated(r, i) \/ rows' = Repromoted(Invalidated(r, i), i)
    BY DEF Telling
<1>2. /\ DOMAIN rows' = DOMAIN r
      /\ \A j \in DOMAIN r :
           /\ rows'[j].depth = r[j].depth /\ rows'[j].status = r[j].status
           /\ rows'[j].dup \in {None, r[j].dup}
           /\ r[j].stale => rows'[j].stale
           /\ r[j].shown /\ ~rows'[j].stale => rows'[j].shown
    BY <1>1, ToldFields
<1>3. \A j \in DOMAIN rows :
        /\ j \in DOMAIN r /\ r[j].depth = rows[j].depth
        /\ r[j].dup = rows[j].dup /\ r[j].stale = rows[j].stale
        /\ r[j].status = "active" => r[j] = rows[j]
    BY <1>1 DEF Kept
<1>4. Kept(rows, rows')
    BY <1>2, <1>3 DEF Kept
<1>5. ASSUME NEW j \in DOMAIN rows' \ DOMAIN rows PROVE rows'[j].dup = None
  <2>1. r[j].dup = None
      BY <1>1, <1>2 DEF Fact
  <2> QED
      BY <1>2, <2>1
<1>6. \A j \in DOMAIN rows : rows'[j].dup \in {None, rows[j].dup}
    BY <1>2, <1>3
<1>7. Level'
    BY <1>4, <1>5, <1>6, LevelHolds DEF Placed
<1>8. \A m \in pass.left \cup pass.members : m \in DOMAIN rows
    BY PassLevel
<1>9. ASSUME NEW m \in DOMAIN rows, rows'[m].status = "active", ~rows'[m].stale, ~rows'[m].shown
      PROVE  rows[m].status = "active" /\ ~rows[m].stale /\ ~rows[m].shown
  <2>1. r[m] = rows[m]
      BY <1>2, <1>3, <1>9
  <2> QED
      BY <1>2, <1>3, <1>9, <2>1
<1>10. HandShown'
    BY <1>1, <1>8, <1>9, HandHolds DEF Placed
<1> QED
    BY <1>7, <1>10 DEF Placed

\* A step that tells nobody anything: a fact comes in, comes back from the
\* archive or is pinned.
Quieted ==
    /\ Kept(rows, rows') /\ pass' = pass /\ late' = late /\ unseen' = unseen
    /\ \A j \in DOMAIN rows :
         /\ rows'[j].parent = rows[j].parent /\ rows'[j].dup = rows[j].dup
         /\ rows'[j].members = rows[j].members /\ rows'[j].stale = rows[j].stale
         /\ rows[j].shown => rows'[j].shown
         /\ rows[j].status = "active" => rows'[j].status = "active"
         /\ rows'[j].status = "active" /\ ~rows'[j].shown
                => rows[j].status = "active" /\ ~rows[j].shown /\ rows'[j].brief = rows[j].brief
         /\ rows'[j].brief => rows[j].brief
         /\ rows[j].status = "active" /\ rows[j].brief => rows'[j].brief \/ rows[j].ghost
         /\ rows'[j].status = "active" /\ rows'[j].brief /\ rows'[j].ghost
                => rows[j].status = "active" /\ rows[j].ghost
         /\ ~RestoreViews /\ rows[j].depth > 0
                => rows'[j].status = rows[j].status /\ rows'[j].brief = rows[j].brief
    /\ \A j \in DOMAIN rows' \ DOMAIN rows : rows'[j] \in {Fact(TRUE), Fact(FALSE)}

LEMMA QuietSteps ==
    ASSUME Typed, Learn \/ \E i \in DOMAIN rows : Restore(i) \/ Pin(i)
    PROVE  Quieted
<1>1. \A j \in DOMAIN rows : rows[j] \in Row
    BY TypedShape, RowsAreNumbered
<1>2. CASE Learn
  <2>1. PICK brief \in BOOLEAN : rows' = Append(rows, Fact(brief))
      BY <1>2 DEF Learn
  <2>2. /\ Kept(rows, rows') /\ \A j \in DOMAIN rows : rows'[j] = rows[j]
        /\ \A j \in DOMAIN rows' \ DOMAIN rows : rows'[j] = Fact(brief)
      BY <1>2, <2>1, LearnedRows DEF Learn
  <2>3. pass' = pass /\ late' = late /\ unseen' = unseen
      BY <1>2 DEF Learn, Changes, Overlooks
  <2>4. Fact(brief) \in {Fact(TRUE), Fact(FALSE)}
      OBVIOUS
  <2> QED
      BY <2>2, <2>3, <2>4 DEF Quieted
<1>3. ASSUME NEW i \in DOMAIN rows, Restore(i) PROVE Quieted
  <2>1. /\ ~RestoreViews => rows[i].depth = 0
        /\ pass' = pass /\ late' = late /\ unseen' = unseen /\ rows[i].ghost
        /\ rows' = [rows EXCEPT ![i].status = "active", ![i].shown = TRUE, ![i].brief = FALSE]
      BY <1>3 DEF Restore, Changes, Overlooks
  <2>2. Kept(rows, rows') /\ DOMAIN rows' = DOMAIN rows
      BY <2>1, RestoredRows
  <2>3. ASSUME NEW j \in DOMAIN rows
        PROVE  /\ rows'[j].parent = rows[j].parent /\ rows'[j].dup = rows[j].dup
               /\ rows'[j].members = rows[j].members /\ rows'[j].stale = rows[j].stale
               /\ rows'[j].ghost = rows[j].ghost
               /\ IF j = i THEN rows'[j].status = "active" /\ rows'[j].shown /\ ~rows'[j].brief
                           ELSE rows'[j] = rows[j]
    <3>1. CASE j = i
      <4>1. rows'[j] = [rows[i] EXCEPT !.status = "active", !.shown = TRUE, !.brief = FALSE]
          BY <2>1, <3>1
      <4> QED
          BY <1>1, <3>1, <4>1 DEF Row
    <3>2. CASE j # i
        BY <2>1, <3>2
    <3> QED
        BY <3>1, <3>2
  <2>4. ASSUME NEW j \in DOMAIN rows, ~RestoreViews, rows[j].depth > 0
        PROVE  rows'[j].status = rows[j].status /\ rows'[j].brief = rows[j].brief
    <3>1. j # i
        BY <2>1, <2>4
    <3> QED
        BY <2>3, <3>1
  <2>5. ASSUME NEW j \in DOMAIN rows
        PROVE  /\ rows[j].shown => rows'[j].shown
               /\ rows[j].status = "active" => rows'[j].status = "active"
               /\ rows'[j].status = "active" /\ ~rows'[j].shown
                      => rows[j].status = "active" /\ ~rows[j].shown /\ rows'[j].brief = rows[j].brief
               /\ rows'[j].brief => rows[j].brief
               /\ rows[j].status = "active" /\ rows[j].brief => rows'[j].brief \/ rows[j].ghost
               /\ rows'[j].status = "active" /\ rows'[j].brief /\ rows'[j].ghost
                      => rows[j].status = "active" /\ rows[j].ghost
    <3>1. CASE j = i
        BY <2>1, <2>3, <3>1
    <3>2. CASE j # i
        BY <2>3, <3>2
    <3> QED
        BY <3>1, <3>2
  <2>6. DOMAIN rows' \ DOMAIN rows = {}
      BY <2>2
  <2> HIDE DEF Kept
  <2> QED
      BY <2>1, <2>2, <2>3, <2>4, <2>5, <2>6 DEF Quieted
<1>4. ASSUME NEW i \in DOMAIN rows, Pin(i) PROVE Quieted
  <2>1. rows' = [rows EXCEPT ![i].pinned = ~@] /\ pass' = pass /\ late' = late /\ unseen' = unseen
      BY <1>4 DEF Pin, Changes, Overlooks
  <2>2. Kept(rows, rows') /\ DOMAIN rows' = DOMAIN rows
      BY <2>1, PinnedRows
  <2>3. ASSUME NEW j \in DOMAIN rows
        PROVE  /\ rows'[j].parent = rows[j].parent /\ rows'[j].dup = rows[j].dup
               /\ rows'[j].members = rows[j].members /\ rows'[j].stale = rows[j].stale
               /\ rows'[j].ghost = rows[j].ghost /\ rows'[j].status = rows[j].status
               /\ rows'[j].shown = rows[j].shown /\ rows'[j].brief = rows[j].brief
    <3>1. rows'[j] = [rows[j] EXCEPT !.pinned = ~@] \/ rows'[j] = rows[j]
        BY <2>1
    <3> QED
        BY <1>1, <3>1 DEF Row
  <2>4. DOMAIN rows' \ DOMAIN rows = {}
      BY <2>2
  <2>5. ASSUME NEW j \in DOMAIN rows
        PROVE  /\ rows[j].shown => rows'[j].shown
               /\ rows[j].status = "active" => rows'[j].status = "active"
               /\ rows'[j].status = "active" /\ ~rows'[j].shown
                      => rows[j].status = "active" /\ ~rows[j].shown /\ rows'[j].brief = rows[j].brief
               /\ rows'[j].brief => rows[j].brief
               /\ rows[j].status = "active" /\ rows[j].brief => rows'[j].brief \/ rows[j].ghost
               /\ rows'[j].status = "active" /\ rows'[j].brief /\ rows'[j].ghost
                      => rows[j].status = "active" /\ rows[j].ghost
               /\ ~RestoreViews /\ rows[j].depth > 0
                      => rows'[j].status = rows[j].status /\ rows'[j].brief = rows[j].brief
      BY <2>3
  <2> QED
      BY <2>1, <2>2, <2>3, <2>4, <2>5 DEF Quieted
<1> QED
    BY <1>2, <1>3, <1>4

LEMMA QuietPlaced == ASSUME Typed, Placed, Quieted PROVE Placed'
<1>1. \A j \in DOMAIN rows' \ DOMAIN rows : rows'[j].dup = None
    BY DEF Quieted, Fact
<1>2. Level'
    BY <1>1, LevelHolds DEF Quieted, Placed
<1>3. \A m \in pass.left \cup pass.members : m \in DOMAIN rows
    BY PassLevel
<1>4. HandShown'
    BY <1>3, HandHolds DEF Quieted, Placed
<1> QED
    BY <1>2, <1>4 DEF Placed

LEMMA OthersPlaced ==
    ASSUME Typed, Placed, NEW i \in DOMAIN rows, Others(i) PROVE Placed'
<1>1. CASE Supersede(i) \/ Reinforce(i) \/ Prune(i) \/ PruneElapsed(i)
    BY <1>1, TellingSteps, TellingPlaced
<1>2. CASE Forget(i)
  <2>1. /\ DOMAIN rows' = DOMAIN rows /\ pass' = pass
        /\ \A j \in DOMAIN rows :
             /\ rows'[j].depth = rows[j].depth
             /\ rows'[j].status = IF j = i THEN "pruned" ELSE rows[j].status
             /\ rows'[j].stale = rows[j].stale /\ rows'[j].dup \in {None, rows[j].dup}
             /\ rows[j].shown => rows'[j].shown
      BY <1>2, ForgetFields
  <2>2. Level'
      BY <2>1, LevelHolds DEF Placed, Kept
  <2>3. \A m \in pass.left \cup pass.members : m \in DOMAIN rows
      BY PassLevel
  <2>4. HandShown'
      BY <2>1, <2>3, HandHolds DEF Placed
  <2> QED
      BY <2>2, <2>4 DEF Placed
<1>3. CASE Restore(i) \/ Pin(i)
    BY <1>3, QuietSteps, QuietPlaced
<1> QED
    BY <1>1, <1>2, <1>3 DEF Others

LEMMA ConsolidatePlaced == ASSUME Typed, Placed, Consolidate PROVE Placed'
<1>1. ASSUME NEW i \in DOMAIN rows, NEW k \in DOMAIN rows, DemoteDuplicate(i, k) PROVE Placed'
  <2>1. /\ rows' = [rows EXCEPT ![i].shown = FALSE, ![i].dup = k]
        /\ pass' = NoPass /\ k \in Candidates(1)
      BY <1>1 DEF DemoteDuplicate, Changes
  <2>2. rows[k].depth = 0
    <3>1. rows[k].depth = 1 - 1
        BY <2>1 DEF Candidates
    <3> QED
        BY <3>1
  <2>3. Kept(rows, rows') /\ DOMAIN rows' = DOMAIN rows /\ \A j \in DOMAIN rows : j # i => rows'[j] = rows[j]
      BY <2>1, DemotedRows
  <2>4. rows'[i].dup = k
    <3>1. rows'[i] = [rows[i] EXCEPT !.shown = FALSE, !.dup = k] /\ rows[i] \in Row
        BY <2>1, TypedShape, RowsAreNumbered
    <3> QED
        BY <3>1 DEF Row
  <2>5. \A j \in DOMAIN rows : rows[j].dup \in {None} \cup DOMAIN rows
      BY TypedShape DEF Shaped, Linked
  <2>6. ASSUME NEW j \in DOMAIN rows', rows'[j].dup # None PROVE rows'[rows'[j].dup].depth = 0
    <3>1. CASE j = i
        BY <2>2, <2>3, <2>4, <3>1 DEF Kept
    <3>2. CASE j # i
        BY <2>3, <2>5, <2>6, <3>2 DEF Placed, Level, Kept
    <3> QED
        BY <3>1, <3>2
  <2>7. HandShown'
      BY <2>1 DEF HandShown, NoPass
  <2> QED
      BY <2>6, <2>7 DEF Placed, Level
<1>2. ASSUME rows' = rows, HandShown' PROVE Placed'
    BY <1>2 DEF Placed, Level
<1>3. ASSUME NEW d \in 1..MaxDepth, BeginPass(d) PROVE Placed'
  <2> DEFINE p == [pass EXCEPT !.depth = d, !.left = Candidates(d),
                               !.held = {i \in Candidates(d) : rows[i].pinned},
                               !.brief = {i \in Candidates(d) : rows[i].brief}]
  <2>1. rows' = rows
      BY <1>3 DEF BeginPass
  <2>2. PICK members \in SUBSET Candidates(d) : Await(p, members)
      BY <1>3 DEF BeginPass
  <2>3. p \in PassOver(DOMAIN rows) /\ p.left = Candidates(d)
    <3>1. pass \in PassOver(DOMAIN rows) /\ d \in 0..MaxDepth /\ Candidates(d) \in SUBSET DOMAIN rows
        BY Bounds DEF Typed, TypeOK, PassOver, Candidates
    <3> QED
        BY <3>1 DEF PassOver
  <2> HIDE DEF p
  <2>4. pass'.members = members /\ pass'.left \subseteq p.left /\ pass'.left \cap members = {}
      BY <2>2, <2>3, Awaited
  <2>5. \A m \in Candidates(d) : rows[m].shown
      BY DEF Candidates
  <2>6. HandShown'
      BY <2>1, <2>3, <2>4, <2>5 DEF HandShown
  <2> QED
      BY <1>2, <2>1, <2>6
<1>4. CASE NextCluster
  <2>1. PICK members \in SUBSET pass.left : Await(pass, members)
      BY <1>4 DEF NextCluster
  <2>2. pass \in PassOver(DOMAIN rows) /\ rows' = rows
      BY <1>4 DEF Typed, TypeOK, PassOver, NextCluster
  <2>3. pass'.members = members /\ pass'.left \subseteq pass.left /\ pass'.left \cap members = {}
      BY <2>1, <2>2, Awaited
  <2>4. HandShown'
      BY <2>2, <2>3 DEF HandShown, Placed
  <2> QED
      BY <1>2, <2>2, <2>4
<1>5. CASE EndRun
    BY <1>2, <1>5 DEF EndRun, HandShown, NoPass
<1>6. Latest \in SUBSET Rebuildable
    BY DEF Latest
<1>7. CASE ReviveView
  <2>1. PICK v \in Latest : rows' = Revived(v)
      BY <1>7 DEF ReviveView
  <2>2. /\ v \in DOMAIN rows /\ v \notin pass.left \cup pass.members
        /\ pass.left \in SUBSET DOMAIN rows
      BY <1>6, PassLevel
  <2>3. /\ Kept(rows, rows') /\ DOMAIN rows' = DOMAIN rows
        /\ \A j \in DOMAIN rows : rows'[j].dup = rows[j].dup
        /\ \A j \in DOMAIN rows \ {v} : j \notin pass.members => rows'[j] = rows[j]
      BY <1>6, <2>1, RevivedRows, RevivedPlaces
  <2>4. pass'.members = {} /\ pass'.left = pass.left
      BY <1>6, <1>7, Finished DEF ReviveView
  <2>5. Level'
      BY <2>3, LevelHolds DEF Placed
  <2>6. HandShown'
      BY <2>2, <2>3, <2>4 DEF Placed, HandShown
  <2> QED
      BY <2>5, <2>6 DEF Placed
<1>8. CASE CreateView
  <2>1. rows' = Created(Latest) /\ Room
      BY <1>8 DEF CreateView
  <2>2. /\ \A v \in Latest : v \in DOMAIN rows /\ v \notin pass.left \cup pass.members
        /\ pass.left \in SUBSET DOMAIN rows
      BY <1>6, PassLevel
  <2>3. PICK new : CreatedAt(rows', new, Latest)
      BY <1>6, <2>1, CreatedPlaces
  <2>4. Kept(rows, rows') /\ \A j \in DOMAIN rows : rows'[j].dup = rows[j].dup
      BY <1>6, <2>1, CreatedRows
  <2>5. pass'.members = {} /\ pass'.left = pass.left
      BY <1>6, <1>8, Finished DEF CreateView
  <2>6. Level'
      BY <2>3, <2>4, LevelHolds DEF Placed, View, CreatedAt
  <2>7. HandShown'
      BY <2>2, <2>3, <2>5 DEF Placed, HandShown, CreatedAt
  <2> QED
      BY <2>6, <2>7 DEF Placed
<1> QED
    BY <1>1, <1>3, <1>4, <1>5, <1>7, <1>8 DEF Consolidate

LEMMA PlacedStep == Typed /\ Placed /\ [Next]_vars => Placed'
<1> SUFFICES ASSUME Typed, Placed, [Next]_vars PROVE Placed'
    OBVIOUS
<1>1. CASE rows' = rows /\ pass' = pass
    BY <1>1 DEF Placed, Level, HandShown
<1>2. CASE Learn
    BY <1>2, QuietSteps, QuietPlaced
<1>3. CASE Consolidate
    BY <1>3, ConsolidatePlaced
<1>4. ASSUME NEW i \in DOMAIN rows, Others(i) PROVE Placed'
    BY <1>4, OthersPlaced
<1> QED
    BY <1>1, <1>2, <1>3, <1>4 DEF Next, Elapse, vars

\* The context survives a walk, if no view that is in it was the one to go.
LEMMA TellingContext ==
    ASSUME Firm, Firm', Placed, ~ViewDies, NEW i, NEW r, Telling(r, i)
    PROVE  {j \in Carried \cap Live' : ~rows'[j].stale} \subseteq Carried'
<1>1. /\ Shaped(r) /\ Kept(rows, r) /\ i \in DOMAIN rows /\ late' = late
      /\ \A j \in DOMAIN rows \ {i} : r[j] = rows[j]
      /\ r[i].stale = rows[i].stale /\ r[i].brief = rows[i].brief /\ r[i].members = rows[i].members
      /\ \/ r = rows /\ rows' = Invalidated(r, i)
         \/ r[i].status # "active" /\ rows' = Repromoted(Invalidated(r, i), i)
    BY DEF Telling
<1>2. /\ DOMAIN rows' = DOMAIN r
      /\ \A j \in DOMAIN r :
           /\ rows'[j].depth = r[j].depth /\ rows'[j].status = r[j].status
           /\ rows'[j].brief = r[j].brief /\ rows'[j].members = r[j].members
           /\ r[j].stale => rows'[j].stale
           /\ r[j].shown /\ ~rows'[j].stale => rows'[j].shown
    BY <1>1, ToldFields
<1>3. \A j \in DOMAIN rows :
        /\ j \in DOMAIN r /\ r[j].depth = rows[j].depth /\ r[j].stale = rows[j].stale
        /\ r[j].brief = rows[j].brief /\ r[j].members = rows[j].members
        /\ r[j].status = "active" => r[j] = rows[j]
        /\ r[j] = rows[j] \/ j = i
    BY <1>1 DEF Kept
<1>4. ASSUME NEW j \in Live \cap Live' PROVE j \in DOMAIN rows /\ r[j] = rows[j] /\ j \in Current(r)
  <2>1. j \in DOMAIN rows /\ rows[j].status = "active" /\ rows'[j].status = "active"
        /\ ~(rows[j].brief /\ late)
      BY DEF Live, Current
  <2>2. r[j] = rows[j]
      BY <1>2, <1>3, <2>1
  <2> QED
      BY <1>3, <2>1, <2>2 DEF Current
<1>5. ASSUME NEW j \in Live \cap Live', rows[j].shown, ~rows'[j].shown, ~rows'[j].stale
      PROVE  \E q \in Behind(j)' : rows'[q].shown
    BY <1>2, <1>3, <1>4, <1>5
<1>6. ASSUME NEW j \in Live \cap Live', ~rows'[j].shown, ~rows'[j].stale, NEW p \in Behind(j)
      PROVE  p \in Behind(j)' /\ ~rows'[p].stale
  <2>1. j \in DOMAIN rows /\ r[j] = rows[j] /\ j \in Current(r) /\ ~r[j].stale
      BY <1>2, <1>3, <1>4, <1>6
  <2>2. /\ rows'[j] = r[j]
        /\ rows' = Repromoted(Invalidated(r, i), i) => r[j].dup # i
        /\ \A w \in Views(r) : j \in r[w].members /\ ~r[w].stale => ~rows'[w].stale
      BY <1>1, <1>6, <2>1, ToldRows
  <2>3. /\ p \in {rows[j].parent, rows[j].dup} /\ p \in Live /\ p \in DOMAIN rows
        /\ p = rows[j].dup \/ (~rows[p].stale /\ j \in rows[p].members)
      BY DEF Behind, Live, Current
  <2>4. CASE p = rows[j].dup
    <3>1. rows[p].depth = 0
      <4>1. p # None
          BY <2>3, TypedShape, RowsAreNumbered DEF Firm
      <4> QED
          BY <2>1, <2>4, <4>1 DEF Placed, Level
    <3>2. p \in DOMAIN rows' /\ rows'[p].depth = 0 /\ ~rows'[p].stale
        BY <1>2, <1>3, <2>3, <3>1 DEF Firm, Plain
    <3>3. r[p] = rows[p]
        BY <1>1, <1>3, <2>1, <2>2, <2>3, <2>4
    <3>4. p \in Live'
        BY <1>1, <1>2, <1>3, <2>3, <3>2, <3>3 DEF Live, Current
    <3> QED
        BY <2>1, <2>2, <2>4, <3>2, <3>4 DEF Behind
  <2>5. CASE ~rows[p].stale /\ j \in rows[p].members
    <3>1. rows[p].depth > 0
      <4>1. rows[j].depth + 1 = rows[p].depth /\ rows[j].depth \in Nat
          BY <2>1, <2>3, <2>5, TypedShape, RowsAreNumbered, RowFields DEF Firm, Shaped, Linked
      <4> QED
          BY <4>1
    <3>2. p \in Live'
        BY <2>3, <2>5, <3>1 DEF ViewDies, Views
    <3>3. p \in Views(r)
        BY <1>3, <2>3, <3>1 DEF Views
    <3>4. ~rows'[p].stale /\ j \in rows'[p].members
        BY <1>2, <1>3, <2>2, <2>3, <2>5, <3>3
    <3> QED
        BY <2>1, <2>2, <2>3, <3>2, <3>4 DEF Behind
  <2> QED
      BY <2>3, <2>4, <2>5
<1> QED
    BY <1>5, <1>6, ContextStep

\* ... and it survives that a row is forgotten.
LEMMA ForgetContext ==
    ASSUME Firm, Firm', Placed, ~ViewDies, NEW i \in DOMAIN rows, Forget(i)
    PROVE  {j \in Carried \cap Live' : ~rows'[j].stale} \subseteq Carried'
<1>1. /\ DOMAIN rows' = DOMAIN rows /\ late' = late
      /\ \A j \in DOMAIN rows :
           /\ rows'[j].depth = rows[j].depth /\ rows'[j].brief = rows[j].brief
           /\ rows'[j].members = rows[j].members /\ rows'[j].stale = rows[j].stale
           /\ rows'[j].parent = rows[j].parent
           /\ rows'[j].status = IF j = i THEN "pruned" ELSE rows[j].status
           /\ rows[j].shown => rows'[j].shown
           /\ ~rows'[j].shown /\ rows'[j].status = "active"
                  => rows[j].dup # i /\ rows'[j].dup = rows[j].dup
    BY ForgetFields DEF Firm
<1>2. ASSUME NEW j \in Live \cap Live', ~rows'[j].shown, NEW p \in Behind(j)
      PROVE  p \in Behind(j)' /\ ~rows'[p].stale
  <2>1. j \in DOMAIN rows /\ rows[j].dup # i /\ rows'[j].dup = rows[j].dup
        /\ rows'[j].parent = rows[j].parent
      BY <1>1, <1>2 DEF Live, Current
  <2>2. /\ p \in {rows[j].parent, rows[j].dup} /\ p \in Live /\ p \in DOMAIN rows
        /\ p = rows[j].dup \/ (~rows[p].stale /\ j \in rows[p].members)
      BY DEF Behind, Live, Current
  <2>3. CASE p = rows[j].dup
    <3>1. rows[p].depth = 0
      <4>1. p # None
          BY <2>2, TypedShape, RowsAreNumbered DEF Firm
      <4> QED
          BY <2>1, <2>3, <4>1 DEF Placed, Level
    <3>2. ~rows'[p].stale
        BY <1>1, <2>2, <3>1 DEF Firm, Plain
    <3>3. p \in Live'
        BY <1>1, <2>1, <2>2, <2>3 DEF Live, Current
    <3> QED
        BY <2>1, <2>3, <3>2, <3>3 DEF Behind
  <2>4. CASE ~rows[p].stale /\ j \in rows[p].members
    <3>1. rows[p].depth > 0
      <4>1. rows[j].depth + 1 = rows[p].depth /\ rows[j].depth \in Nat
          BY <2>1, <2>2, <2>4, TypedShape, RowsAreNumbered, RowFields DEF Firm, Shaped, Linked
      <4> QED
          BY <4>1
    <3>2. p \in Live'
        BY <2>2, <2>4, <3>1 DEF ViewDies, Views
    <3> QED
        BY <1>1, <2>1, <2>2, <2>4, <3>2 DEF Behind
  <2> QED
      BY <2>2, <2>3, <2>4
<1>3. \A j \in Live \cap Live' : rows[j].shown => rows'[j].shown
    BY <1>1 DEF Live, Current
<1> QED
    BY <1>2, <1>3, ContextStep

\* A step that tells nobody anything, or changes no row, keeps the context.
LEMMA QuietContext ==
    ASSUME Firm, Firm', Placed, Quieted
    PROVE  {j \in Carried \cap Live' : ~rows'[j].stale} \subseteq Carried'
<1>1. Live \subseteq Live' /\ DOMAIN rows \subseteq DOMAIN rows'
    BY DEF Live, Current, Quieted, Kept
<1>2. ASSUME NEW j \in DOMAIN rows, rows[j].dup # None PROVE ~rows'[rows[j].dup].stale
  <2>1. rows[j].dup \in DOMAIN rows
      BY <1>2, TypedShape DEF Firm, Shaped, Linked
  <2>2. rows[rows[j].dup].depth = 0
      BY <1>2 DEF Placed, Level
  <2> QED
      BY <2>1, <2>2 DEF Quieted, Firm, Plain
<1> QED
    BY <1>1, <1>2, ContextQuiet DEF Quieted

LEMMA IdleContext ==
    ASSUME Firm, Firm', Placed, rows' = rows, late' = late
    PROVE  {j \in Carried \cap Live' : ~rows'[j].stale} \subseteq Carried'
<1>1. Live \subseteq Live'
    BY DEF Live, Current
<1>2. ASSUME NEW j \in DOMAIN rows, rows[j].dup # None PROVE ~rows'[rows[j].dup].stale
  <2>1. rows[j].dup \in DOMAIN rows
      BY <1>2, TypedShape DEF Firm, Shaped, Linked
  <2>2. rows[rows[j].dup].depth = 0
      BY <1>2 DEF Placed, Level
  <2> QED
      BY <2>1, <2>2 DEF Firm, Plain
<1> QED
    BY <1>1, <1>2, ContextQuiet

\* Behind a fact there is no view: what stays put under a step of consolidation.
LEMMA BehindStays ==
    ASSUME Firm, Placed, late' = late, NEW j \in Live, NEW p \in Behind(j),
           rows'[j].parent = rows[j].parent, rows'[j].dup = rows[j].dup,
           ~rows[p].stale => /\ p \in DOMAIN rows' /\ rows'[p].status = rows[p].status
                             /\ rows'[p].brief = rows[p].brief /\ rows'[p].members = rows[p].members
                             /\ ~rows'[p].stale
    PROVE  p \in Behind(j)' /\ ~rows'[p].stale
<1>1. /\ j \in DOMAIN rows /\ p \in {rows[j].parent, rows[j].dup} /\ p \in Live /\ p \in DOMAIN rows
      /\ p = rows[j].dup \/ (~rows[p].stale /\ j \in rows[p].members)
    BY DEF Behind, Live, Current
<1>2. ~rows[p].stale
  <2>1. CASE p = rows[j].dup
    <3>1. p # None
        BY <1>1, TypedShape, RowsAreNumbered DEF Firm
    <3>2. rows[p].depth = 0
        BY <1>1, <2>1, <3>1 DEF Placed, Level
    <3> QED
        BY <1>1, <3>2 DEF Firm, Plain
  <2> QED
      BY <1>1, <2>1
<1>3. p \in Live'
    BY <1>1, <1>2 DEF Live, Current
<1> QED
    BY <1>1, <1>2, <1>3 DEF Behind

LEMMA DemoteContext ==
    ASSUME Firm, Firm', Placed, ~Buries, NEW i \in DOMAIN rows, NEW k \in DOMAIN rows,
           DemoteDuplicate(i, k)
    PROVE  {j \in Carried \cap Live' : ~rows'[j].stale} \subseteq Carried'
<1>1. /\ rows' = [rows EXCEPT ![i].shown = FALSE, ![i].dup = k] /\ late' = late
      /\ i \in Candidates(1) /\ k \in Candidates(1) /\ i # k
    BY DEF DemoteDuplicate, Changes
<1>2. rows[i].shown /\ rows[k].shown
    BY <1>1 DEF Candidates
<1>3. /\ DOMAIN rows' = DOMAIN rows
      /\ \A j \in DOMAIN rows :
           /\ rows'[j].status = rows[j].status /\ rows'[j].stale = rows[j].stale
           /\ rows'[j].brief = rows[j].brief /\ rows'[j].members = rows[j].members
           /\ j # i => rows'[j] = rows[j]
    BY <1>1, DemotedRows DEF Firm
<1>4. rows'[i].dup = k /\ ~rows'[i].shown
  <2>1. rows'[i] = [rows[i] EXCEPT !.shown = FALSE, !.dup = k] /\ rows[i] \in Row
      BY <1>1, TypedShape, RowsAreNumbered DEF Firm
  <2> QED
      BY <2>1 DEF Row
<1>5. ASSUME NEW j \in Live \cap Live', rows[j].shown, ~rows'[j].shown
      PROVE  \E q \in Behind(j)' : rows'[q].shown
  <2>1. j = i
      BY <1>3, <1>5 DEF Live, Current
  <2>2. k # None
      BY TypedShape, RowsAreNumbered DEF Firm
  <2>3. k \in Live'
      BY <1>4, <1>5, <2>1, <2>2 DEF Buries
  <2>4. k \in Behind(j)'
      BY <1>4, <2>1, <2>3 DEF Behind
  <2> QED
      BY <1>1, <1>2, <1>3, <2>4
<1>6. ASSUME NEW j \in Live \cap Live', ~rows[j].shown, NEW p \in Behind(j)
      PROVE  p \in Behind(j)' /\ ~rows'[p].stale
  <2>1. j \in DOMAIN rows /\ p \in DOMAIN rows /\ rows'[j] = rows[j]
      BY <1>2, <1>3, <1>6 DEF Live, Current, Behind
  <2> QED
      BY <1>1, <1>3, <2>1, BehindStays
<1> QED
    BY <1>5, <1>6, ContextStep

LEMMA ReviveContext ==
    ASSUME Firm, Firm', Placed, ~Buries, ReviveView
    PROVE  {j \in Carried \cap Live' : ~rows'[j].stale} \subseteq Carried'
<1>1. PICK v \in Latest : rows' = Revived(v)
    BY DEF ReviveView
<1>2. v \in Rebuildable /\ late' = late
    BY DEF Latest, ReviveView, Consolidates
<1>3. /\ v \in DOMAIN rows /\ rows[v].stale /\ pass.members \in SUBSET DOMAIN rows
    BY <1>2, PassLevel DEF Firm
<1>4. /\ DOMAIN rows' = DOMAIN rows
      /\ \A j \in DOMAIN rows :
           /\ rows'[j].status = rows[j].status
           /\ j # v => /\ rows'[j].stale = rows[j].stale /\ rows'[j].brief = rows[j].brief
                       /\ rows'[j].members = rows[j].members
      /\ ~rows'[v].stale /\ rows'[v].members = pass.members
    BY <1>1, <1>2, RevivedRows DEF Firm
<1>5. /\ rows'[v].shown
      /\ \A j \in DOMAIN rows \ {v} :
           /\ j \in pass.members => ~rows'[j].shown /\ rows'[j].parent = v
           /\ j \notin pass.members => rows'[j] = rows[j]
    BY <1>1, <1>2, RevivedPlaces DEF Firm
<1>6. ASSUME NEW j \in Live \cap Live', rows[j].shown, ~rows'[j].shown
      PROVE  \E q \in Behind(j)' : rows'[q].shown
  <2>1. j \in DOMAIN rows /\ j # v /\ j \in pass.members /\ rows'[j].parent = v
      BY <1>5, <1>6 DEF Live, Current
  <2>2. v # None
      BY <1>3, TypedShape, RowsAreNumbered DEF Firm
  <2>3. v \in Live'
      BY <1>6, <2>1, <2>2 DEF Buries
  <2>4. v \in Behind(j)'
      BY <1>4, <2>1, <2>3 DEF Behind
  <2> QED
      BY <1>5, <2>4
<1>7. ASSUME NEW j \in Live \cap Live', ~rows[j].shown, ~rows'[j].shown, ~rows'[j].stale,
             NEW p \in Behind(j)
      PROVE  p \in Behind(j)' /\ ~rows'[p].stale
  <2>1. j \in DOMAIN rows /\ p \in DOMAIN rows /\ j # v /\ rows[j].status = "active"
      BY <1>5, <1>7 DEF Live, Current, Behind
  <2>2. j \notin pass.members
      BY <1>4, <1>7, <2>1 DEF Placed, HandShown
  <2>3. rows'[j] = rows[j]
      BY <1>5, <2>1, <2>2
  <2>4. ~rows[p].stale => p # v
      BY <1>3
  <2> QED
      BY <1>2, <1>4, <2>1, <2>3, <2>4, BehindStays
<1> QED
    BY <1>6, <1>7, ContextStep

LEMMA CreateContext ==
    ASSUME Firm, Firm', Placed, ~Buries, CreateView
    PROVE  {j \in Carried \cap Live' : ~rows'[j].stale} \subseteq Carried'
<1>1. rows' = Created(Latest) /\ Room /\ late' = late /\ Latest \in SUBSET Rebuildable
    BY DEF CreateView, Consolidates, Latest
<1>2. PICK new : CreatedAt(rows', new, Latest)
    BY <1>1, CreatedPlaces DEF Firm
<1>3. \A v \in Latest : v \in DOMAIN rows /\ rows[v].stale
    BY <1>1, PassLevel DEF Firm
<1>4. \A j \in DOMAIN rows :
        /\ j \in DOMAIN rows'
        /\ rows'[j].stale = rows[j].stale /\ rows'[j].brief = rows[j].brief
        /\ rows'[j].members = rows[j].members /\ rows'[j].dup = rows[j].dup
        /\ j \notin Latest => rows'[j].status = rows[j].status
    BY <1>1, CreatedRows DEF Firm, Kept
<1>5. ASSUME NEW j \in Live \cap Live', rows[j].shown, ~rows'[j].shown
      PROVE  \E q \in Behind(j)' : rows'[q].shown
  <2>1. j \in DOMAIN rows /\ j \in pass.members \ pass.held /\ rows'[j].parent = new
      BY <1>2, <1>5 DEF Live, Current, CreatedAt
  <2>2. new # None
    <3>1. new \in DOMAIN rows' /\ Typed'
        BY <1>2 DEF Firm, CreatedAt
    <3>2. rows' \in Seq(Row)
        BY <3>1 DEF Typed, TypeOK
    <3> QED
        BY <3>1, <3>2, RowsAreNumbered
  <2>3. new \in Live'
      BY <1>5, <2>1, <2>2 DEF Buries
  <2>4. rows'[new].shown /\ ~rows'[new].stale /\ rows'[new].members = pass.members
      BY <1>2 DEF CreatedAt, View
  <2>5. new \in Behind(j)'
      BY <2>1, <2>3, <2>4 DEF Behind
  <2> QED
      BY <2>4, <2>5
<1>6. ASSUME NEW j \in Live \cap Live', ~rows[j].shown, ~rows'[j].shown, ~rows'[j].stale,
             NEW p \in Behind(j)
      PROVE  p \in Behind(j)' /\ ~rows'[p].stale
  <2>1. j \in DOMAIN rows /\ p \in DOMAIN rows /\ rows[j].status = "active" /\ ~rows[j].stale
      BY <1>4, <1>6 DEF Live, Current, Behind
  <2>2. j \notin Latest /\ j \notin pass.members
      BY <1>3, <1>6, <2>1 DEF Placed, HandShown
  <2>3. rows'[j] = rows[j]
      BY <1>2, <2>1, <2>2 DEF CreatedAt
  <2>4. ~rows[p].stale => p \notin Latest
      BY <1>3
  <2> QED
      BY <1>1, <1>4, <2>1, <2>3, <2>4, BehindStays
<1> QED
    BY <1>5, <1>6, ContextStep

KeepsContext ==
    ~Passes /\ ~ViewDies /\ ~Buries =>
        {i \in Carried \cap Live' : ~rows'[i].stale} \subseteq Carried'

LEMMA ContextStays == Firm /\ Firm' /\ Placed /\ [Next]_vars => KeepsContext
<1> SUFFICES ASSUME Firm, Firm', Placed, [Next]_vars, ~Passes, ~ViewDies, ~Buries
             PROVE  {i \in Carried \cap Live' : ~rows'[i].stale} \subseteq Carried'
    BY DEF KeepsContext
<1>1. late' = late /\ Typed
    BY DEF Passes, Firm
<1>2. CASE rows' = rows
    BY <1>1, <1>2, IdleContext
<1>3. CASE Learn
    BY <1>1, <1>3, QuietSteps, QuietContext
<1>4. CASE Consolidate
    BY <1>2, <1>4, DemoteContext, ReviveContext, CreateContext
       DEF Consolidate, BeginPass, NextCluster, EndRun
<1>5. ASSUME NEW i \in DOMAIN rows, Others(i)
      PROVE  {j \in Carried \cap Live' : ~rows'[j].stale} \subseteq Carried'
  <2>1. CASE Supersede(i) \/ Reinforce(i) \/ Prune(i) \/ PruneElapsed(i)
      BY <1>1, <2>1, TellingSteps, TellingContext
  <2>2. CASE Forget(i)
      BY <2>2, ForgetContext
  <2>3. CASE Restore(i) \/ Pin(i)
      BY <1>1, <2>3, QuietSteps, QuietContext
  <2> QED
      BY <1>5, <2>1, <2>2, <2>3 DEF Others
<1> QED
    BY <1>2, <1>3, <1>4, <1>5 DEF Next, Elapse, vars

\* ContextIsKept: whatever writers, sweeps and runs do in any order, a row that
\* the caller has, itself or behind what stands in for it, is not lost from the
\* context while it holds - time, the end of a live view and a run that hides
\* rows behind what has run out aside.  Archived rollups stay in the archive.
THEOREM ContextAlwaysKept == ASSUME ~RestoreViews PROVE Spec => ContextIsKept
<1>1. Init => Firm /\ Placed
    BY FirmInit, PlacedInit
<1>2. Firm /\ Placed /\ [Next]_vars => Firm' /\ Placed'
    BY FirmStep, PlacedStep DEF Firm
<1>3. Firm /\ Firm' /\ Placed /\ [Next]_vars => KeepsContext
    BY ContextStays
<1>4. ContextIsKept <=> [][KeepsContext]_vars
    BY DEF ContextIsKept, KeepsContext
<1> QED
    BY <1>1, <1>2, <1>3, <1>4, PTL DEF Spec

-----------------------------------------------------------------------------
(* NobodyIsLost.  What is hidden is behind a view that counts it, or behind a *)
(* duplicate, and duplicates are not hidden behind each other in a circle; a  *)
(* view that does not hold is waiting for pruning, and so is a member.        *)

\* What comes back from the archive does not run out.
Ghosts ==
    \A j \in DOMAIN rows :
        rows[j].depth = 0 /\ rows[j].status = "active" /\ rows[j].ghost => ~rows[j].brief

Waits ==
    /\ \A v \in Views(rows) : ~rows[v].stale =>
           /\ rows[v].status = "active" \/ (late /\ rows[v].brief)
           /\ rows[v].brief => \E m \in rows[v].members :
                                   rows[m].status = "active" /\ ~rows[m].stale /\ rows[m].brief
    /\ \A m \in (pass.left \cup pass.members) \cap pass.brief : rows[m].brief

Counted(j) ==
    /\ rows[j].parent # None
    /\ ~rows[rows[j].parent].stale /\ j \in rows[rows[j].parent].members
Ranks == [Nat -> Nat]
Outranked(rank, j) ==
    /\ rows[j].dup # None /\ rows[rows[j].dup].status = "active"
    /\ rank[rows[j].dup] < rank[j]
BackedBy(rank) == \A j \in Hidden : ~rows[j].stale => Counted(j) \/ Outranked(rank, j)
Backed == \E rank \in Ranks : BackedBy(rank)

Sheltered == Ghosts /\ (unseen = {} => Waits /\ Backed)

LEMMA ShelteredInit == Init => Sheltered
<1> SUFFICES ASSUME Init PROVE Sheltered
    OBVIOUS
<1>1. rows \in Seq({Fact(TRUE), Fact(FALSE)})
    BY StartAssumption DEF Init
<1>2. \A j \in DOMAIN rows : rows[j] \in {Fact(TRUE), Fact(FALSE)}
    BY <1>1, LenProperties, ElementOfSeq
<1>3. \A j \in DOMAIN rows : rows[j].depth = 0 /\ rows[j].shown /\ ~rows[j].ghost
    BY <1>2 DEF Fact
<1>4. pass.left = {} /\ pass.members = {}
    BY DEF Init, NoPass
<1>5. Views(rows) = {} /\ Hidden = {}
    BY <1>3 DEF Views, Hidden, Live, Current
<1>6. [n \in Nat |-> 0] \in Ranks
    BY DEF Ranks
<1> QED
    BY <1>3, <1>4, <1>5, <1>6 DEF Sheltered, Ghosts, Waits, Backed, BackedBy

LEMMA QuietSheltered ==
    ASSUME ~RestoreViews, Firm, Sheltered, Quieted PROVE Sheltered'
<1>1. /\ DOMAIN rows \subseteq DOMAIN rows' /\ pass' = pass /\ late' = late /\ unseen' = unseen
      /\ \A j \in DOMAIN rows :
           /\ rows'[j].depth = rows[j].depth
           /\ rows'[j].parent = rows[j].parent /\ rows'[j].dup = rows[j].dup
           /\ rows'[j].members = rows[j].members /\ rows'[j].stale = rows[j].stale
           /\ rows[j].status = "active" => rows'[j].status = "active"
           /\ rows'[j].status = "active" /\ ~rows'[j].shown
                  => rows[j].status = "active" /\ ~rows[j].shown /\ rows'[j].brief = rows[j].brief
           /\ rows'[j].brief => rows[j].brief
           /\ rows[j].status = "active" /\ rows[j].brief => rows'[j].brief \/ rows[j].ghost
           /\ rows'[j].status = "active" /\ rows'[j].brief /\ rows'[j].ghost
                  => rows[j].status = "active" /\ rows[j].ghost
           /\ rows[j].depth > 0 => rows'[j].status = rows[j].status /\ rows'[j].brief = rows[j].brief
    BY DEF Quieted, Kept
<1>2. \A j \in DOMAIN rows' \ DOMAIN rows :
        rows'[j].depth = 0 /\ rows'[j].shown /\ ~rows'[j].ghost
    BY DEF Quieted, Fact
<1>3. Typed /\ Ghosts /\ InHand
    BY DEF Firm, Sheltered
<1>4. Ghosts'
    BY <1>1, <1>2, <1>3 DEF Ghosts
<1> SUFFICES ASSUME unseen = {} PROVE Waits' /\ Backed'
    BY <1>1, <1>4 DEF Sheltered
<1>5. Waits /\ Backed
    BY DEF Sheltered
<1>6. ASSUME NEW m \in DOMAIN rows, rows[m].status = "active", rows[m].brief PROVE rows'[m].brief
  <2>1. rows[m].depth \in Nat
      BY <1>3, TypedShape, RowsAreNumbered, RowFields
  <2>2. CASE rows[m].depth > 0
      BY <1>1, <1>6, <2>2
  <2>3. CASE rows[m].depth = 0
      BY <1>1, <1>3, <1>6, <2>3 DEF Ghosts
  <2> QED
      BY <2>1, <2>2, <2>3
<1>7. ASSUME NEW v \in Views(rows)', ~rows'[v].stale
      PROVE  /\ rows'[v].status = "active" \/ (late' /\ rows'[v].brief)
             /\ rows'[v].brief => \E m \in rows'[v].members :
                                   rows'[m].status = "active" /\ ~rows'[m].stale /\ rows'[m].brief
  <2>1. v \in DOMAIN rows /\ v \in Views(rows) /\ ~rows[v].stale /\ rows[v].depth > 0
      BY <1>1, <1>2, <1>7 DEF Views
  <2>2. rows[v].status = "active" \/ (late /\ rows[v].brief)
      BY <1>5, <2>1 DEF Waits
  <2>3. ASSUME rows'[v].brief
        PROVE  \E m \in rows'[v].members :
                   rows'[m].status = "active" /\ ~rows'[m].stale /\ rows'[m].brief
    <3>1. PICK m \in rows[v].members : rows[m].status = "active" /\ ~rows[m].stale /\ rows[m].brief
        BY <1>1, <1>5, <2>1, <2>3 DEF Waits
    <3>2. m \in DOMAIN rows
        BY <1>3, <2>1, MembersAreRows
    <3> QED
        BY <1>1, <1>6, <2>1, <3>1, <3>2
  <2> QED
      BY <1>1, <2>1, <2>2, <2>3
<1>8. ASSUME NEW m \in (pass.left \cup pass.members) \cap pass.brief PROVE rows'[m].brief
  <2>1. m \in DOMAIN rows
      BY <1>3, PassLevel
  <2>2. rows[m].status = "active" /\ rows[m].brief
      BY <1>3, <1>5 DEF InHand, Waits
  <2> QED
      BY <1>6, <2>1, <2>2
<1>9. Waits'
    BY <1>1, <1>7, <1>8 DEF Waits
<1>10. PICK rank \in Ranks : BackedBy(rank)
    BY <1>5 DEF Backed
<1>11. ASSUME NEW j \in Hidden', ~rows'[j].stale PROVE Counted(j)' \/ Outranked(rank, j)'
  <2>1. j \in DOMAIN rows /\ j \in Hidden /\ ~rows[j].stale
      BY <1>1, <1>2, <1>11 DEF Hidden, Live, Current
  <2>2. rows[j].parent \in {None} \cup DOMAIN rows /\ rows[j].dup \in {None} \cup DOMAIN rows
      BY <1>3, <2>1, TypedShape DEF Shaped, Linked
  <2>3. CASE Counted(j)
      BY <1>1, <2>1, <2>2, <2>3 DEF Counted
  <2>4. CASE Outranked(rank, j)
      BY <1>1, <2>1, <2>2, <2>4 DEF Outranked
  <2> QED
      BY <1>10, <2>1, <2>3, <2>4 DEF BackedBy
<1>12. Backed'
    BY <1>11 DEF Backed, BackedBy
<1> QED
    BY <1>9, <1>12

LEMMA TellingSheltered ==
    ASSUME Firm, Placed, Sheltered, NEW i, NEW r, Telling(r, i) PROVE Sheltered'
<1>1. /\ Shaped(r) /\ Kept(rows, r) /\ i \in DOMAIN rows
      /\ pass' = pass /\ late' = late /\ unseen' = unseen \cup Missed
      /\ \A j \in DOMAIN rows \ {i} : r[j] = rows[j]
      /\ r[i].stale = rows[i].stale /\ r[i].brief = rows[i].brief
      /\ r[i].members = rows[i].members /\ r[i].dup = rows[i].dup
      /\ \A j \in DOMAIN r \ DOMAIN rows : r[j] \in {Fact(TRUE), Fact(FALSE)}
      /\ \/ r = rows /\ rows' = Invalidated(r, i)
         \/ /\ r[i].status # "active" /\ rows' = Repromoted(Invalidated(r, i), i)
            /\ rows[i].status = "active" /\ rows[i].depth > 0 => late /\ rows[i].brief
    BY DEF Telling
<1>2. /\ DOMAIN rows' = DOMAIN r
      /\ \A j \in DOMAIN r :
           /\ rows'[j].depth = r[j].depth /\ rows'[j].status = r[j].status
           /\ rows'[j].brief = r[j].brief /\ rows'[j].members = r[j].members
           /\ rows'[j].ghost = r[j].ghost
           /\ r[j].stale => rows'[j].stale
           /\ j \in Above(r, i) => rows'[j].stale
           /\ j \notin Above(r, i) => rows'[j].stale = r[j].stale
           /\ r[j].shown /\ ~rows'[j].stale => rows'[j].shown
    BY <1>1, ToldFields
<1>3. \A j \in DOMAIN rows :
        /\ j \in DOMAIN r /\ r[j].depth = rows[j].depth /\ r[j].stale = rows[j].stale
        /\ r[j].brief = rows[j].brief /\ r[j].members = rows[j].members
        /\ r[j].status = "active" => r[j] = rows[j]
        /\ r[j] = rows[j] \/ j = i
    BY <1>1 DEF Kept
<1>4. \A j \in DOMAIN r \ DOMAIN rows :
        r[j].depth = 0 /\ r[j].shown /\ ~r[j].ghost /\ ~r[j].stale
    BY <1>1 DEF Fact
<1>5. Typed /\ Ghosts
    BY DEF Firm, Sheltered
<1>6. ASSUME NEW j \in DOMAIN rows', rows'[j].depth = 0, rows'[j].status = "active", rows'[j].ghost
      PROVE  ~rows'[j].brief
  <2>1. j \in DOMAIN rows
      BY <1>2, <1>4, <1>6
  <2>2. r[j] = rows[j]
      BY <1>2, <1>3, <1>6, <2>1
  <2> QED
      BY <1>2, <1>3, <1>5, <1>6, <2>1, <2>2 DEF Ghosts
<1>7. Ghosts'
    BY <1>6 DEF Ghosts
<1> SUFFICES ASSUME unseen = {} PROVE Waits' /\ Backed'
    BY <1>1, <1>7 DEF Sheltered
<1>8. Waits /\ Backed
    BY DEF Sheltered
<1>9. ASSUME NEW v \in Views(rows)', ~rows'[v].stale
      PROVE  /\ rows'[v].status = "active" \/ (late' /\ rows'[v].brief)
             /\ rows'[v].brief => \E m \in rows'[v].members :
                                   rows'[m].status = "active" /\ ~rows'[m].stale /\ rows'[m].brief
  <2>1. v \in DOMAIN rows /\ v \in Views(rows) /\ ~rows[v].stale /\ rows[v].depth > 0 /\ v \in Views(r)
      BY <1>2, <1>3, <1>4, <1>9 DEF Views
  <2>2. v \notin Above(r, i)
      BY <1>2, <1>3, <1>9, <2>1
  <2>3. rows[v].status = "active" \/ (late /\ rows[v].brief)
      BY <1>8, <2>1 DEF Waits
  <2>4. rows'[v].status = "active" \/ (late /\ rows[v].brief)
    <3>1. CASE v = i /\ r # rows
        BY <1>1, <2>1, <2>3, <3>1
    <3>2. CASE v # i \/ r = rows
        BY <1>2, <1>3, <2>1, <2>3, <3>2
    <3> QED
        BY <3>1, <3>2
  <2>5. ASSUME rows'[v].brief
        PROVE  \E m \in rows'[v].members :
                   rows'[m].status = "active" /\ ~rows'[m].stale /\ rows'[m].brief
    <3>1. PICK m \in rows[v].members : rows[m].status = "active" /\ ~rows[m].stale /\ rows[m].brief
        BY <1>2, <1>3, <1>8, <2>1, <2>5 DEF Waits
    <3>2. m \in DOMAIN rows
        BY <1>5, <2>1, MembersAreRows
    <3>3. m # i /\ m \notin Above(r, i)
        BY <1>3, <2>1, <2>2, AboveIsClosed
    <3>4. r[m] = rows[m]
        BY <1>3, <3>2, <3>3
    <3> QED
        BY <1>2, <1>3, <2>1, <3>1, <3>2, <3>3, <3>4
  <2> QED
      BY <1>1, <1>2, <1>3, <2>1, <2>4, <2>5
<1>10. ASSUME NEW m \in (pass.left \cup pass.members) \cap pass.brief PROVE rows'[m].brief
  <2>1. m \in DOMAIN rows
      BY <1>5, PassLevel
  <2> QED
      BY <1>2, <1>3, <1>8, <2>1 DEF Waits
<1>11. Waits'
    BY <1>1, <1>9, <1>10 DEF Waits
<1>12. PICK rank \in Ranks : BackedBy(rank)
    BY <1>8 DEF Backed
<1>13. ASSUME NEW j \in Hidden', ~rows'[j].stale PROVE Counted(j)' \/ Outranked(rank, j)'
  <2>1. j \in DOMAIN rows
      BY <1>2, <1>4, <1>13 DEF Hidden, Live, Current
  <2>2. r[j] = rows[j]
      BY <1>2, <1>3, <1>13, <2>1 DEF Hidden, Live, Current
  <2>3. /\ rows[j].status = "active" /\ ~(rows[j].brief /\ late) /\ ~rows[j].stale
        /\ ~rows'[j].shown /\ ~rows[j].shown
      BY <1>1, <1>2, <1>3, <1>13, <2>1, <2>2 DEF Hidden, Live, Current
  <2>4. j \in Hidden /\ j \in Current(r)
      BY <1>3, <2>1, <2>2, <2>3 DEF Hidden, Live, Current
  <2>5. /\ rows'[j] = r[j]
        /\ rows' = Repromoted(Invalidated(r, i), i) => r[j].dup # i
        /\ \A w \in Views(r) : j \in r[w].members /\ ~r[w].stale => ~rows'[w].stale
      BY <1>1, <1>13, <2>2, <2>3, <2>4, ToldRows
  <2>6. rows[j].parent \in {None} \cup DOMAIN rows /\ rows[j].dup \in {None} \cup DOMAIN rows
      BY <1>5, <2>1, TypedShape DEF Shaped, Linked
  <2>7. CASE Counted(j)
    <3>1. PICK p \in DOMAIN rows : p = rows[j].parent
        BY <2>6, <2>7 DEF Counted
    <3>2. p # None /\ ~rows[p].stale /\ j \in rows[p].members
        BY <2>7, <3>1 DEF Counted
    <3>3. rows[p].depth > 0
      <4>1. rows[j].depth + 1 = rows[p].depth /\ rows[j].depth \in Nat
          BY <1>5, <2>1, <3>1, <3>2, TypedShape, RowsAreNumbered, RowFields DEF Shaped, Linked
      <4> QED
          BY <4>1
    <3>4. p \in Views(r)
        BY <1>3, <3>1, <3>3 DEF Views
    <3>5. ~rows'[p].stale /\ j \in rows'[p].members
        BY <1>2, <1>3, <2>5, <3>1, <3>2, <3>4
    <3> QED
        BY <2>2, <2>5, <3>1, <3>2, <3>5 DEF Counted
  <2>8. CASE Outranked(rank, j)
    <3>1. PICK p \in DOMAIN rows : p = rows[j].dup
        BY <2>6, <2>8 DEF Outranked
    <3>2. p # None /\ rows[p].status = "active" /\ rank[p] < rank[j]
        BY <2>8, <3>1 DEF Outranked
    <3>3. r[p] = rows[p]
        BY <1>1, <1>3, <2>2, <2>5, <3>1
    <3>4. rows'[p].status = "active"
        BY <1>2, <1>3, <3>1, <3>2, <3>3
    <3> QED
        BY <2>2, <2>5, <3>1, <3>2, <3>4 DEF Outranked
  <2> QED
      BY <1>12, <2>3, <2>4, <2>7, <2>8 DEF BackedBy
<1>14. Backed'
    BY <1>13 DEF Backed, BackedBy
<1> QED
    BY <1>11, <1>14

LEMMA ForgetSheltered ==
    ASSUME Firm, Sheltered, NEW i \in DOMAIN rows, Forget(i) PROVE Sheltered'
<1>1. /\ DOMAIN rows' = DOMAIN rows /\ unseen' # {}
      /\ \A j \in DOMAIN rows :
           /\ rows'[j].depth = rows[j].depth /\ rows'[j].brief = rows[j].brief
           /\ rows'[j].ghost = rows[j].ghost
           /\ rows'[j].status = IF j = i THEN "pruned" ELSE rows[j].status
    BY ForgetFields DEF Firm
<1>2. Ghosts'
    BY <1>1 DEF Sheltered, Ghosts
<1> QED
    BY <1>1, <1>2 DEF Sheltered

\* A step that changes no row: a day passes, or a run takes up something else.
LEMMA IdleSheltered ==
    ASSUME Sheltered, rows' = rows, late => late', unseen' = unseen,
           \A m \in (pass'.left \cup pass'.members) \cap pass'.brief :
              rows[m].brief \/ m \in (pass.left \cup pass.members) \cap pass.brief
    PROVE  Sheltered'
<1>1. Ghosts'
    BY DEF Sheltered, Ghosts
<1> SUFFICES ASSUME unseen = {} PROVE Waits' /\ Backed'
    BY <1>1 DEF Sheltered
<1>2. Waits'
    BY DEF Sheltered, Waits, Views
<1>3. \A j \in Hidden' : j \in Hidden
    BY DEF Hidden, Live, Current
<1>4. PICK rank \in Ranks : BackedBy(rank)
    BY DEF Sheltered, Backed
<1>5. BackedBy(rank)'
    BY <1>3, <1>4 DEF BackedBy, Counted, Outranked
<1> QED
    BY <1>2, <1>5 DEF Backed

LEMMA DemoteSheltered ==
    ASSUME Firm, Sheltered, NEW i \in DOMAIN rows, NEW k \in DOMAIN rows, DemoteDuplicate(i, k)
    PROVE  Sheltered'
<1>1. /\ rows' = [rows EXCEPT ![i].shown = FALSE, ![i].dup = k] /\ late' = late
      /\ pass' = NoPass /\ unseen' = unseen
      /\ i \in Candidates(1) /\ k \in Candidates(1) /\ i # k
    BY DEF DemoteDuplicate, Changes, Overlooks
<1>2. rows[k].shown /\ rows[k].status = "active"
    BY <1>1 DEF Candidates
<1>3. /\ DOMAIN rows' = DOMAIN rows /\ Kept(rows, rows')
      /\ \A j \in DOMAIN rows :
           /\ rows'[j].status = rows[j].status /\ rows'[j].stale = rows[j].stale
           /\ rows'[j].brief = rows[j].brief /\ rows'[j].members = rows[j].members
           /\ j # i => rows'[j] = rows[j]
    BY <1>1, DemotedRows DEF Firm
<1>4. rows'[i].dup = k /\ ~rows'[i].shown /\ rows'[i].ghost = rows[i].ghost
  <2>1. rows'[i] = [rows[i] EXCEPT !.shown = FALSE, !.dup = k] /\ rows[i] \in Row
      BY <1>1, TypedShape, RowsAreNumbered DEF Firm
  <2> QED
      BY <2>1 DEF Row
<1>5. \A j \in DOMAIN rows : rows'[j].depth = rows[j].depth /\ rows'[j].ghost = rows[j].ghost
    BY <1>3, <1>4 DEF Kept
<1>6. Typed /\ Ghosts
    BY DEF Firm, Sheltered
<1>7. Ghosts'
    BY <1>3, <1>5, <1>6 DEF Ghosts
<1> SUFFICES ASSUME unseen = {} PROVE Waits' /\ Backed'
    BY <1>1, <1>7 DEF Sheltered
<1>8. Waits /\ Backed
    BY DEF Sheltered
<1>9. \A v \in DOMAIN rows : \A m \in rows[v].members : m \in DOMAIN rows
    BY <1>6, MembersAreRows
<1>10. pass'.left = {} /\ pass'.members = {}
    BY <1>1 DEF NoPass
<1>11. ASSUME NEW v \in Views(rows)', ~rows'[v].stale
       PROVE  /\ rows'[v].status = "active" \/ (late' /\ rows'[v].brief)
              /\ rows'[v].brief => \E m \in rows'[v].members :
                                    rows'[m].status = "active" /\ ~rows'[m].stale /\ rows'[m].brief
  <2>1. v \in DOMAIN rows /\ v \in Views(rows) /\ ~rows[v].stale
      BY <1>3, <1>5, <1>11 DEF Views
  <2> QED
      BY <1>1, <1>3, <1>8, <1>9, <2>1 DEF Waits
<1>12. Waits'
    BY <1>10, <1>11 DEF Waits
<1>13. PICK rank \in Ranks : BackedBy(rank)
    BY <1>8 DEF Backed
<1>14. PICK new : new = [n \in Nat |-> IF n = k THEN 0 ELSE rank[n] + 1]
    OBVIOUS
<1>15. new \in Ranks /\ \A n \in Nat : new[n] = IF n = k THEN 0 ELSE rank[n] + 1
    BY <1>13, <1>14 DEF Ranks
<1>16. rows \in Seq(Row) /\ \A j \in DOMAIN rows : j \in Nat /\ j # None /\ rank[j] \in Nat
    BY <1>6, <1>13, TypedShape, RowsAreNumbered DEF Ranks
<1>17. ASSUME NEW j \in Hidden', ~rows'[j].stale PROVE Counted(j)' \/ Outranked(new, j)'
  <2>1. j \in DOMAIN rows
      BY <1>3, <1>17 DEF Hidden, Live, Current
  <2>2. CASE j = i
    <3>1. new[k] < new[i]
        BY <1>1, <1>15, <1>16
    <3> QED
        BY <1>1, <1>2, <1>3, <1>4, <1>16, <2>2, <3>1 DEF Outranked
  <2>3. CASE j # i
    <3>1. rows'[j] = rows[j] /\ j \in Hidden /\ ~rows[j].stale /\ j # k
        BY <1>1, <1>2, <1>3, <1>17, <2>1, <2>3 DEF Hidden, Live, Current
    <3>2. rows[j].parent \in {None} \cup DOMAIN rows /\ rows[j].dup \in {None} \cup DOMAIN rows
        BY <1>6, <2>1, TypedShape DEF Shaped, Linked
    <3>3. CASE Counted(j)
        BY <1>3, <3>1, <3>2, <3>3 DEF Counted
    <3>4. CASE Outranked(rank, j)
      <4>1. PICK p \in DOMAIN rows : p = rows[j].dup
          BY <3>2, <3>4 DEF Outranked
      <4>2. p # None /\ rows[p].status = "active" /\ rank[p] < rank[j]
          BY <3>4, <4>1 DEF Outranked
      <4>3. new[p] < new[j]
          BY <1>15, <1>16, <2>1, <3>1, <4>1, <4>2, SMTT(30)
      <4> QED
          BY <1>3, <3>1, <4>1, <4>2, <4>3 DEF Outranked
    <3> QED
        BY <1>13, <3>1, <3>3, <3>4 DEF BackedBy
  <2> QED
      BY <2>2, <2>3
<1>18. Backed'
    BY <1>15, <1>17 DEF Backed, BackedBy
<1> QED
    BY <1>12, <1>18

LEMMA RunSheltered ==
    ASSUME Firm, Sheltered,
           NextCluster \/ EndRun \/ \E d \in 1..MaxDepth : BeginPass(d)
    PROVE  Sheltered'
<1>1. pass \in PassOver(DOMAIN rows)
    BY DEF Firm, Typed, TypeOK, PassOver
<1>2. rows' = rows /\ late' = late /\ unseen' = unseen
    BY DEF NextCluster, EndRun, BeginPass, Overlooks, Consolidates
<1>3. CASE NextCluster
  <2>1. PICK members \in SUBSET pass.left : Await(pass, members)
      BY <1>3 DEF NextCluster
  <2>2. /\ pass'.members = members /\ pass'.left \subseteq pass.left
        /\ pass'.brief = pass.brief \cap (members \cup pass'.left)
      BY <1>1, <2>1, Awaited
  <2> QED
      BY <1>2, <2>2, IdleSheltered
<1>4. CASE EndRun
  <2>1. pass'.left = {} /\ pass'.members = {}
      BY <1>4 DEF EndRun, NoPass
  <2> QED
      BY <1>2, <2>1, IdleSheltered
<1>5. ASSUME NEW d \in 1..MaxDepth, BeginPass(d) PROVE Sheltered'
  <2> DEFINE p == [pass EXCEPT !.depth = d, !.left = Candidates(d),
                               !.held = {i \in Candidates(d) : rows[i].pinned},
                               !.brief = {i \in Candidates(d) : rows[i].brief}]
  <2>1. PICK members \in SUBSET Candidates(d) : Await(p, members)
      BY <1>5 DEF BeginPass
  <2>2. /\ p \in PassOver(DOMAIN rows) /\ p.left = Candidates(d)
        /\ p.brief = {i \in Candidates(d) : rows[i].brief}
    <3>1. d \in 0..MaxDepth /\ Candidates(d) \in SUBSET DOMAIN rows
        BY Bounds DEF Candidates
    <3> QED
        BY <1>1, <3>1 DEF PassOver
  <2> HIDE DEF p
  <2>3. pass'.brief = p.brief \cap (members \cup pass'.left)
      BY <2>1, <2>2, Awaited
  <2>4. \A m \in pass'.brief : rows[m].brief
      BY <2>2, <2>3
  <2> QED
      BY <1>2, <2>4, IdleSheltered
<1> QED
    BY <1>3, <1>4, <1>5

\* What is in hand waits like the members of the view that is made of it.
LEMMA BriefMember ==
    ASSUME Firm, Waits, unseen = {}, Brief
    PROVE  \E m \in pass.members : rows[m].status = "active" /\ ~rows[m].stale /\ rows[m].brief
BY DEF Firm, InHand, Waits, Brief

LEMMA ReviveSheltered ==
    ASSUME Firm, Sheltered, ReviveView PROVE Sheltered'
<1>1. PICK v \in Latest : rows' = Revived(v)
    BY DEF ReviveView
<1>2. /\ v \in Rebuildable /\ late' = late /\ Latest \in SUBSET Rebuildable
      /\ unseen' = unseen \cup {w \in Latest : rows[w].status # "active"}
    BY DEF Latest, ReviveView, Consolidates, Overlooks
<1>3. /\ v \in DOMAIN rows /\ rows[v].stale /\ rows[v].depth > 0 /\ v # None
      /\ pass.members \in SUBSET DOMAIN rows /\ pass.left \in SUBSET DOMAIN rows
      /\ v \notin pass.left \cup pass.members
    BY <1>2, PassLevel, TypedShape, RowsAreNumbered DEF Firm, Rebuildable, Views
<1>4. /\ DOMAIN rows' = DOMAIN rows /\ Kept(rows, rows')
      /\ \A j \in DOMAIN rows :
           /\ rows'[j].status = rows[j].status
           /\ j # v => /\ rows'[j].stale = rows[j].stale /\ rows'[j].brief = rows[j].brief
                       /\ rows'[j].members = rows[j].members
      /\ ~rows'[v].stale /\ rows'[v].brief = Brief /\ rows'[v].members = pass.members
    BY <1>1, <1>2, RevivedRows DEF Firm
<1>5. /\ rows'[v].shown
      /\ \A j \in DOMAIN rows \ {v} :
           /\ rows'[j].ghost = rows[j].ghost
           /\ j \in pass.members => ~rows'[j].shown /\ rows'[j].parent = v
           /\ j \notin pass.members => rows'[j] = rows[j]
    BY <1>1, <1>2, RevivedPlaces DEF Firm
<1>6. pass'.members = {} /\ pass'.left = pass.left /\ pass'.brief \subseteq pass.brief
    BY <1>2, Finished DEF ReviveView, Firm
<1>7. \A j \in DOMAIN rows : rows'[j].depth = rows[j].depth
    BY <1>4 DEF Kept
<1>8. Typed /\ Ghosts
    BY DEF Firm, Sheltered
<1>9. Ghosts'
    BY <1>3, <1>4, <1>5, <1>7, <1>8 DEF Ghosts
<1> SUFFICES ASSUME unseen' = {} PROVE Waits' /\ Backed'
    BY <1>9 DEF Sheltered
<1>10. unseen = {} /\ rows[v].status = "active"
    BY <1>2
<1>11. Waits /\ Backed
    BY <1>10 DEF Sheltered
<1>12. \A m \in DOMAIN rows : ~rows[m].stale =>
         m # v /\ rows'[m].status = rows[m].status /\ ~rows'[m].stale /\ rows'[m].brief = rows[m].brief
    BY <1>3, <1>4
<1>13. ASSUME NEW w \in Views(rows)', ~rows'[w].stale
       PROVE  /\ rows'[w].status = "active" \/ (late' /\ rows'[w].brief)
              /\ rows'[w].brief => \E m \in rows'[w].members :
                                    rows'[m].status = "active" /\ ~rows'[m].stale /\ rows'[m].brief
  <2>1. w \in DOMAIN rows /\ w \in Views(rows)
      BY <1>4, <1>7, <1>13 DEF Views
  <2>2. CASE w = v
    <3>1. Brief => \E m \in pass.members : rows[m].status = "active" /\ ~rows[m].stale /\ rows[m].brief
        BY <1>10, <1>11, BriefMember
    <3> QED
        BY <1>3, <1>4, <1>10, <1>12, <2>2, <3>1
  <2>3. CASE w # v
    <3>1. ~rows[w].stale /\ \A m \in rows[w].members : m \in DOMAIN rows
        BY <1>4, <1>8, <1>13, <2>1, <2>3, MembersAreRows
    <3>2. rows[w].status = "active" \/ (late /\ rows[w].brief)
        BY <1>11, <2>1, <3>1 DEF Waits
    <3>3. rows[w].brief =>
            \E m \in rows[w].members : rows[m].status = "active" /\ ~rows[m].stale /\ rows[m].brief
        BY <1>11, <2>1, <3>1 DEF Waits
    <3> QED
        BY <1>2, <1>4, <1>12, <2>1, <2>3, <3>1, <3>2, <3>3
  <2> QED
      BY <2>2, <2>3
<1>14. ASSUME NEW m \in (pass'.left \cup pass'.members) \cap pass'.brief PROVE rows'[m].brief
    BY <1>3, <1>4, <1>6, <1>11 DEF Waits
<1>15. Waits'
    BY <1>13, <1>14 DEF Waits
<1>16. PICK rank \in Ranks : BackedBy(rank)
    BY <1>11 DEF Backed
<1>17. ASSUME NEW j \in Hidden', ~rows'[j].stale PROVE Counted(j)' \/ Outranked(rank, j)'
  <2>1. j \in DOMAIN rows /\ j # v
      BY <1>4, <1>5, <1>17 DEF Hidden, Live, Current
  <2>2. CASE j \in pass.members
      BY <1>3, <1>4, <1>5, <2>1, <2>2 DEF Counted
  <2>3. CASE j \notin pass.members
    <3>1. rows'[j] = rows[j]
        BY <1>5, <2>1, <2>3
    <3>2. j \in Hidden /\ ~rows[j].stale
        BY <1>2, <1>17, <2>1, <3>1 DEF Hidden, Live, Current
    <3>3. rows[j].parent \in {None} \cup DOMAIN rows /\ rows[j].dup \in {None} \cup DOMAIN rows
        BY <1>8, <2>1, TypedShape DEF Shaped, Linked
    <3>4. CASE Counted(j)
      <4>1. PICK p \in DOMAIN rows : p = rows[j].parent
          BY <3>3, <3>4 DEF Counted
      <4>2. p # None /\ ~rows[p].stale /\ j \in rows[p].members /\ p # v
          BY <1>3, <3>4, <4>1 DEF Counted
      <4>3. ~rows'[p].stale /\ j \in rows'[p].members
          BY <1>4, <4>1, <4>2
      <4> QED
          BY <3>1, <4>1, <4>2, <4>3 DEF Counted
    <3>5. CASE Outranked(rank, j)
        BY <1>4, <3>1, <3>3, <3>5 DEF Outranked
    <3> QED
        BY <1>16, <3>2, <3>4, <3>5 DEF BackedBy
  <2> QED
      BY <2>2, <2>3
<1>18. Backed'
    BY <1>17 DEF Backed, BackedBy
<1> QED
    BY <1>15, <1>18

LEMMA CreateSheltered ==
    ASSUME Firm, Firm', Placed, Sheltered, CreateView PROVE Sheltered'
<1>1. /\ rows' = Created(Latest) /\ Room /\ late' = late /\ unseen' = unseen
      /\ Latest \in SUBSET Rebuildable
    BY DEF CreateView, Consolidates, Latest, Overlooks
<1>2. PICK new : CreatedAt(rows', new, Latest)
    BY <1>1, CreatedPlaces DEF Firm
<1>3. /\ \A v \in Latest : v \in DOMAIN rows /\ rows[v].stale /\ rows[v].depth > 0
                           /\ v \notin pass.left \cup pass.members
      /\ pass.members \in SUBSET DOMAIN rows /\ pass.left \in SUBSET DOMAIN rows
    BY <1>1, PassLevel DEF Firm, Rebuildable, Views
<1>4. \A j \in DOMAIN rows :
        /\ j \in DOMAIN rows' /\ rows'[j].depth = rows[j].depth
        /\ rows'[j].stale = rows[j].stale /\ rows'[j].brief = rows[j].brief
        /\ rows'[j].members = rows[j].members /\ rows'[j].dup = rows[j].dup
        /\ j \notin Latest => rows'[j].status = rows[j].status
    BY <1>1, CreatedRows DEF Firm, Kept
<1>5. /\ new \notin DOMAIN rows /\ DOMAIN rows' = DOMAIN rows \cup {new} /\ rows'[new] = View
      /\ \A j \in DOMAIN rows \ Latest :
           /\ rows'[j].ghost = rows[j].ghost
           /\ j \in pass.members \ pass.held => ~rows'[j].shown /\ rows'[j].parent = new
           /\ j \notin pass.members \ pass.held => rows'[j] = rows[j]
    BY <1>2 DEF CreatedAt
<1>6. /\ rows'[new].shown /\ ~rows'[new].stale /\ rows'[new].status = "active" /\ ~rows'[new].ghost
      /\ rows'[new].members = pass.members /\ rows'[new].brief = Brief
    BY <1>5 DEF View
<1>7. new # None
  <2>1. new \in DOMAIN rows' /\ Typed'
      BY <1>5 DEF Firm
  <2>2. rows' \in Seq(Row)
      BY <2>1 DEF Typed, TypeOK
  <2> QED
      BY <2>1, <2>2, RowsAreNumbered
<1>8. pass'.members = {} /\ pass'.left = pass.left /\ pass'.brief \subseteq pass.brief
    BY <1>1, Finished DEF CreateView, Firm
<1>9. Typed /\ Ghosts
    BY DEF Firm, Sheltered
<1>10. ASSUME NEW j \in DOMAIN rows', rows'[j].depth = 0, rows'[j].status = "active", rows'[j].ghost
       PROVE  ~rows'[j].brief
  <2>1. j \in DOMAIN rows
      BY <1>5, <1>6, <1>10
  <2>2. j \notin Latest
      BY <1>3, <1>4, <1>10, <2>1
  <2> QED
      BY <1>4, <1>5, <1>9, <1>10, <2>1, <2>2 DEF Ghosts
<1>11. Ghosts'
    BY <1>10 DEF Ghosts
<1> SUFFICES ASSUME unseen = {} PROVE Waits' /\ Backed'
    BY <1>1, <1>11 DEF Sheltered
<1>12. Waits /\ Backed
    BY DEF Sheltered
<1>13. \A m \in DOMAIN rows : ~rows[m].stale =>
         m \notin Latest /\ rows'[m].status = rows[m].status /\ ~rows'[m].stale
                         /\ rows'[m].brief = rows[m].brief
    BY <1>3, <1>4
<1>14. ASSUME NEW w \in Views(rows)', ~rows'[w].stale
       PROVE  /\ rows'[w].status = "active" \/ (late' /\ rows'[w].brief)
              /\ rows'[w].brief => \E m \in rows'[w].members :
                                    rows'[m].status = "active" /\ ~rows'[m].stale /\ rows'[m].brief
  <2>1. CASE w = new
    <3>1. Brief => \E m \in pass.members : rows[m].status = "active" /\ ~rows[m].stale /\ rows[m].brief
        BY <1>12, BriefMember
    <3> QED
        BY <1>3, <1>6, <1>13, <2>1, <3>1
  <2>2. CASE w # new
    <3>1. w \in DOMAIN rows /\ w \in Views(rows) /\ ~rows[w].stale
        BY <1>4, <1>5, <1>14, <2>2 DEF Views
    <3>2. \A m \in rows[w].members : m \in DOMAIN rows
        BY <1>9, <3>1, MembersAreRows
    <3>3. rows[w].status = "active" \/ (late /\ rows[w].brief)
        BY <1>12, <3>1 DEF Waits
    <3>4. rows[w].brief =>
            \E m \in rows[w].members : rows[m].status = "active" /\ ~rows[m].stale /\ rows[m].brief
        BY <1>12, <3>1 DEF Waits
    <3> QED
        BY <1>1, <1>4, <1>13, <3>1, <3>2, <3>3, <3>4
  <2> QED
      BY <2>1, <2>2
<1>15. ASSUME NEW m \in (pass'.left \cup pass'.members) \cap pass'.brief PROVE rows'[m].brief
    BY <1>3, <1>4, <1>8, <1>12 DEF Waits
<1>16. Waits'
    BY <1>14, <1>15 DEF Waits
<1>17. PICK rank \in Ranks : BackedBy(rank)
    BY <1>12 DEF Backed
<1>18. ASSUME NEW j \in Hidden', ~rows'[j].stale PROVE Counted(j)' \/ Outranked(rank, j)'
  <2>1. j \in DOMAIN rows /\ j \notin Latest
      BY <1>3, <1>4, <1>5, <1>6, <1>18 DEF Hidden, Live, Current
  <2>2. CASE j \in pass.members \ pass.held
      BY <1>5, <1>6, <1>7, <2>1, <2>2 DEF Counted
  <2>3. CASE j \notin pass.members \ pass.held
    <3>1. rows'[j] = rows[j]
        BY <1>5, <2>1, <2>3
    <3>2. j \in Hidden /\ ~rows[j].stale
        BY <1>1, <1>18, <2>1, <3>1 DEF Hidden, Live, Current
    <3>3. rows[j].parent \in {None} \cup DOMAIN rows /\ rows[j].dup \in {None} \cup DOMAIN rows
        BY <1>9, <2>1, TypedShape DEF Shaped, Linked
    <3>4. CASE Counted(j)
      <4>1. PICK p \in DOMAIN rows : p = rows[j].parent
          BY <3>3, <3>4 DEF Counted
      <4>2. p # None /\ ~rows[p].stale /\ j \in rows[p].members
          BY <3>4, <4>1 DEF Counted
      <4>3. ~rows'[p].stale /\ j \in rows'[p].members
          BY <1>4, <4>1, <4>2
      <4> QED
          BY <3>1, <4>1, <4>2, <4>3 DEF Counted
    <3>5. CASE Outranked(rank, j)
      <4>1. PICK p \in DOMAIN rows : p = rows[j].dup
          BY <3>3, <3>5 DEF Outranked
      <4>2. p # None /\ rows[p].status = "active" /\ rank[p] < rank[j]
          BY <3>5, <4>1 DEF Outranked
      <4>3. rows[p].depth = 0
          BY <2>1, <4>1, <4>2 DEF Placed, Level
      <4>4. rows'[p].status = "active"
          BY <1>3, <1>4, <4>1, <4>2, <4>3
      <4> QED
          BY <3>1, <4>1, <4>2, <4>4 DEF Outranked
    <3> QED
        BY <1>17, <3>2, <3>4, <3>5 DEF BackedBy
  <2> QED
      BY <2>2, <2>3
<1>19. Backed'
    BY <1>18 DEF Backed, BackedBy
<1> QED
    BY <1>16, <1>19

LEMMA ShelteredStep ==
    ASSUME ~RestoreViews PROVE Firm /\ Firm' /\ Placed /\ Sheltered /\ [Next]_vars => Sheltered'
<1> SUFFICES ASSUME Firm, Firm', Placed, Sheltered, [Next]_vars PROVE Sheltered'
    OBVIOUS
<1>1. Typed
    BY DEF Firm
<1>2. CASE rows' = rows /\ pass' = pass /\ unseen' = unseen /\ (late => late')
    BY <1>2, IdleSheltered
<1>3. CASE Learn
    BY <1>1, <1>3, QuietSteps, QuietSheltered
<1>4. CASE Consolidate
    BY <1>4, DemoteSheltered, RunSheltered, ReviveSheltered, CreateSheltered DEF Consolidate
<1>5. ASSUME NEW i \in DOMAIN rows, Others(i) PROVE Sheltered'
  <2>1. CASE Supersede(i) \/ Reinforce(i) \/ Prune(i) \/ PruneElapsed(i)
      BY <1>1, <2>1, TellingSteps, TellingSheltered
  <2>2. CASE Forget(i)
      BY <2>2, ForgetSheltered
  <2>3. CASE Restore(i) \/ Pin(i)
      BY <1>1, <2>3, QuietSteps, QuietSheltered
  <2> QED
      BY <1>5, <2>1, <2>2, <2>3 DEF Others
<1> QED
    BY <1>2, <1>3, <1>4, <1>5 DEF Next, Elapse, vars

\* A set of naturals has a least member.
LEMMA LeastOf == ASSUME NEW N \in SUBSET Nat, N # {} PROVE \E m \in N : \A n \in N : m <= n
<1> DEFINE less == OpToRel(<, Nat)
<1>1. PICK m \in N : \A n \in N : <<n, m>> \notin less
  <2>1. IsWellFoundedOn(less, Nat)
      BY NatLessThanWellFounded
  <2> HIDE DEF less
  <2> QED
      BY <2>1, WFMin
<1>2. \A n \in N : ~(n < m)
    BY <1>1 DEF OpToRel
<1> QED
    BY <1>2

\* From row to row of what is hidden, this goes down.
Descent(rank, j) == IF rows[j].depth > 0 THEN MaxDepth - rows[j].depth ELSE MaxDepth + 1 + rank[j]

LEMMA DescentGoesDown ==
    ASSUME Firm, Placed, NEW rank \in Ranks, NEW j \in DOMAIN rows, NEW p \in DOMAIN rows,
           \/ p = rows[j].parent /\ Counted(j)
           \/ p = rows[j].dup /\ Outranked(rank, j)
    PROVE  /\ Descent(rank, j) \in Nat /\ Descent(rank, p) \in Nat
           /\ Descent(rank, p) < Descent(rank, j)
<1>1. /\ rows[j].depth \in 0..MaxDepth /\ rows[p].depth \in 0..MaxDepth /\ MaxDepth \in Nat
      /\ j \in Nat /\ p \in Nat /\ rank[j] \in Nat /\ rank[p] \in Nat
    BY TypedShape, RowsAreNumbered, RowFields, Bounds DEF Firm, Ranks
<1>2. CASE p = rows[j].parent /\ Counted(j)
  <2>1. rows[p].depth = rows[j].depth + 1
      BY <1>2, TypedShape DEF Counted, Firm, Shaped, Linked
  <2> QED
      BY <1>1, <2>1 DEF Descent
<1>3. CASE p = rows[j].dup /\ Outranked(rank, j)
  <2>1. rows[j].depth = 0 /\ rows[p].depth = 0
      BY <1>3 DEF Outranked, Firm, Plain, Placed, Level
  <2>2. rank[p] < rank[j]
      BY <1>3 DEF Outranked
  <2> QED
      BY <1>1, <2>1, <2>2 DEF Descent
<1> QED
    BY <1>2, <1>3

LEMMA NothingIsLost ==
    ASSUME Firm, Placed, Sheltered PROVE NobodyIsLost
<1> SUFFICES ASSUME unseen = {}, \A j \in DOMAIN rows : rows[j].status = "active" => j \in Live,
                    NEW i \in Live, ~rows[i].stale
             PROVE  i \in Carried
    BY DEF NobodyIsLost, Lost
<1>1. Typed /\ Plain /\ Waits
    BY DEF Firm, Sheltered
<1>2. PICK rank \in Ranks : BackedBy(rank)
    BY DEF Sheltered, Backed
<1>3. ASSUME NEW v \in Views(rows), ~rows[v].stale PROVE v \in Live
  <2>1. v \in DOMAIN rows
      BY DEF Views
  <2>2. CASE rows[v].status = "active"
      BY <2>1, <2>2
  <2>3. CASE late /\ rows[v].brief
    <3>1. PICK m \in rows[v].members : rows[m].status = "active" /\ rows[m].brief
        BY <1>1, <1>3, <2>3 DEF Waits
    <3>2. m \in DOMAIN rows
        BY <1>1, <2>1, MembersAreRows
    <3> QED
        BY <2>3, <3>1, <3>2 DEF Live, Current
  <2> QED
      BY <1>1, <1>3, <2>2, <2>3 DEF Waits
<1>4. ASSUME NEW j \in Hidden, ~rows[j].stale
      PROVE  \E p \in Behind(j) : ~rows[p].stale /\ p \in DOMAIN rows /\ Descent(rank, j) \in Nat
                                  /\ Descent(rank, p) \in Nat /\ Descent(rank, p) < Descent(rank, j)
  <2>1. j \in DOMAIN rows
      BY DEF Hidden, Live, Current
  <2>2. rows[j].parent \in {None} \cup DOMAIN rows /\ rows[j].dup \in {None} \cup DOMAIN rows
      BY <1>1, <2>1, TypedShape DEF Shaped, Linked
  <2>3. CASE Counted(j)
    <3>1. PICK p \in DOMAIN rows : p = rows[j].parent
        BY <2>2, <2>3 DEF Counted
    <3>2. ~rows[p].stale /\ j \in rows[p].members
        BY <2>3, <3>1 DEF Counted
    <3>3. rows[p].depth > 0
      <4>1. rows[j].depth + 1 = rows[p].depth /\ rows[j].depth \in Nat
          BY <1>1, <2>1, <3>1, <3>2, TypedShape, RowsAreNumbered, RowFields DEF Shaped, Linked
      <4> QED
          BY <4>1
    <3>4. p \in Behind(j)
        BY <1>3, <3>1, <3>2, <3>3 DEF Behind, Views
    <3> QED
        BY <2>1, <2>3, <3>1, <3>2, <3>4, DescentGoesDown
  <2>4. CASE Outranked(rank, j)
    <3>1. PICK p \in DOMAIN rows : p = rows[j].dup
        BY <2>2, <2>4 DEF Outranked
    <3>2. p # None /\ rows[p].status = "active" /\ rows[p].depth = 0
        BY <2>1, <2>4, <3>1 DEF Outranked, Placed, Level
    <3>3. p \in Behind(j) /\ ~rows[p].stale
        BY <1>1, <3>1, <3>2 DEF Behind, Plain
    <3> QED
        BY <2>1, <2>4, <3>1, <3>3, DescentGoesDown
  <2> QED
      BY <1>2, <1>4, <2>3, <2>4 DEF BackedBy
<1>5. \A j \in Hidden : ~rows[j].stale => j \in Supported
    BY <1>4 DEF Supported
<1>6. ASSUME NEW S \in SUBSET Supported, Reaches(S), i \in Hidden PROVE i \in S
  <2> SUFFICES ASSUME i \notin S PROVE FALSE
      OBVIOUS
  <2> DEFINE bad == {j \in Hidden \ S : ~rows[j].stale}
             heights == {Descent(rank, j) : j \in bad}
  <2>1. \A j \in bad : Descent(rank, j) \in Nat
      BY <1>4
  <2>2. heights \in SUBSET Nat /\ heights # {}
      BY <1>6, <2>1
  <2> HIDE DEF heights
  <2>3. PICK least \in heights : \A h \in heights : least <= h
      BY <2>2, LeastOf
  <2>4. PICK j \in bad : least = Descent(rank, j)
      BY DEF heights
  <2>5. PICK p \in Behind(j) : ~rows[p].stale /\ Descent(rank, p) \in Nat /\ Descent(rank, p) < Descent(rank, j)
      BY <1>4
  <2>6. p \in Hidden \ S
      BY <1>5, <1>6 DEF Reaches
  <2>7. Descent(rank, p) \in heights
      BY <2>5, <2>6 DEF heights
  <2> QED
      BY <2>1, <2>3, <2>4, <2>5, <2>7
<1> QED
    BY <1>5, <1>6, CarriedMeans DEF CarriedIs

\* NobodyIsLost: whatever writers, sweeps, pruning and runs do in any order, no
\* row that holds is hidden behind nothing, or behind rows that are, unless it
\* is a stale view - once what has run out is pruned, and as long as no row was
\* forgotten, or changed under a run, behind the back of the views above it.
\* Archived rollups stay in the archive.
THEOREM NobodyIsEverLost == ASSUME ~RestoreViews PROVE Spec => []NobodyIsLost
<1>1. Init => Firm /\ Placed /\ Sheltered
    BY FirmInit, PlacedInit, ShelteredInit
<1>2. Firm /\ Placed /\ Sheltered /\ [Next]_vars => Firm' /\ Placed' /\ Sheltered'
    BY FirmStep, PlacedStep, ShelteredStep DEF Firm
<1>3. Firm /\ Placed /\ Sheltered => NobodyIsLost
    BY NothingIsLost
<1> QED
    BY <1>1, <1>2, <1>3, PTL DEF Spec
=============================================================================
