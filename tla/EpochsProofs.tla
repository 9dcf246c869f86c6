---------------------------- MODULE EpochsProofs ----------------------------
(* Theorems about Epochs, for any episodes, claims, operators, instruction    *)
(* sets and bounds.  TypeCorrect and BranchesStayHidden hold whatever the     *)
(* operators' misuse and whatever interleaves; the head and what an adoption  *)
(* or a rollback does to it need Orderly: one process, finished branches.     *)
EXTENDS Epochs, SequenceTheorems, TLAPS

Statuses == {"active", "superseded", "archived"}
Taken == UNION {[S -> Statuses] : S \in SUBSET Nat}    \* snapshots

EpochRecord ==
    [parent : Nat, line : SUBSET Nat,
     status : {"open", "ready", "adopted", "superseded", "discarded"},
     tier : Tiers \cup {"A"}, chosen : SUBSET Episodes, shadow : SUBSET Version,
     base : SUBSET Version, finals : SUBSET SUBSET Version,
     snapshot : Taken \cup {NotAdopted}, before : SUBSET Nat]

Operation ==
    [pc : {"idle", "seed", "recompute", "verify", "merge", "restore"},
     epoch : Nat, todo : SUBSET Episodes, dirty : BOOLEAN, new : SUBSET Version,
     old : (SUBSET Nat) \cup Taken]

(* An epoch reads itself and epochs that have been HEAD, descends from one of *)
(* those, and its shadow holds rows written under it or under one of them.    *)
EpochOK(e, epoch, known) ==
    /\ epoch \in EpochRecord
    /\ epoch.parent < e /\ epoch.parent \in {Never} \cup known
    /\ e \in epoch.line /\ epoch.line \subseteq 1..e
    /\ epoch.line \subseteq {e} \cup known
    /\ \A v \in epoch.shadow : v.epoch \in {e} \cup known

OperationOK(op, known, count) ==
    /\ op \in Operation
    /\ op.pc # "idle" => op.epoch \in 1..count
    /\ op.pc = "restore" => op.old \in Taken
    /\ \A v \in op.new : v.epoch \in {op.epoch} \cup known

RowsOK == rows \in Seq(Row) /\ \A i \in DOMAIN rows : rows[i].epoch \in heads
EpochsOK ==
    /\ epochs \in Seq(EpochRecord) /\ Len(epochs) <= MaxEpochs
    /\ \A e \in DOMAIN epochs : EpochOK(e, epochs[e], heads)
HeadOK == head \in heads /\ heads \subseteq DOMAIN epochs /\ formed \subseteq Episodes
OpsOK ==
    /\ ops \in [Operators -> Operation]
    /\ \A o \in Operators : OperationOK(ops[o], heads, Len(epochs))
(* Only an epoch with a parent is rolled back; only stored rows are retired.  *)
PlansOK ==
    \A o \in Operators :
        /\ ops[o].pc = "restore" => epochs[ops[o].epoch].parent # Never
        /\ ops[o].pc = "merge" => ops[o].old \subseteq DOMAIN rows

IInv == RowsOK /\ EpochsOK /\ HeadOK /\ OpsOK /\ PlansOK

-----------------------------------------------------------------------------
LEMMA EpochsAreNumbered ==
    ASSUME IInv
    PROVE  /\ Len(epochs) \in Nat /\ DOMAIN epochs = 1..Len(epochs)
           /\ Len(epochs) <= MaxEpochs /\ MaxEpochs \in Nat
           /\ \A e \in DOMAIN epochs : e \in Nat /\ e \in 1..MaxEpochs
           /\ heads \subseteq 1..MaxEpochs /\ head \in DOMAIN epochs
<1>1. Len(epochs) \in Nat /\ DOMAIN epochs = 1..Len(epochs)
    BY LenProperties DEF IInv, EpochsOK
<1>2. MaxEpochs \in Nat /\ Len(epochs) <= MaxEpochs
    BY EpochsAssumption DEF IInv, EpochsOK
<1>3. \A e \in DOMAIN epochs : e \in Nat /\ e \in 1..MaxEpochs
    BY <1>1, <1>2
<1>4. heads \subseteq DOMAIN epochs /\ head \in heads
    BY DEF IInv, HeadOK
<1> QED
    BY <1>1, <1>2, <1>3, <1>4

LEMMA RowsAreNumbered ==
    ASSUME IInv
    PROVE  /\ Len(rows) \in Nat /\ DOMAIN rows = 1..Len(rows)
           /\ \A i \in DOMAIN rows : rows[i] \in Row /\ i \in Nat
<1>1. Len(rows) \in Nat /\ DOMAIN rows = 1..Len(rows)
    BY LenProperties DEF IInv, RowsOK
<1>2. \A i \in DOMAIN rows : rows[i] \in Row
    BY ElementOfSeq, <1>1 DEF IInv, RowsOK
<1> QED
    BY <1>1, <1>2

\* Rows rewritten in place under epochs that have been HEAD keep RowsOK.
LEMMA RowsRewritten ==
    ASSUME IInv, NEW f, heads \subseteq heads',
           rows' = [i \in DOMAIN rows |-> f[i]],
           \A i \in DOMAIN rows : f[i] \in Row /\ f[i].epoch = rows[i].epoch
    PROVE  RowsOK' /\ DOMAIN rows' = DOMAIN rows
<1>1. rows' = [i \in 1..Len(rows) |-> f[i]] /\ Len(rows) \in Nat
    BY RowsAreNumbered
<1>2. \A i \in 1..Len(rows) : f[i] \in Row
    BY RowsAreNumbered
<1>3. rows' \in Seq(Row)
    BY <1>1, <1>2, SeqDef
<1>4. \A i \in DOMAIN rows' : rows'[i].epoch \in heads'
    BY <1>1, RowsAreNumbered DEF IInv, RowsOK
<1> QED
    BY <1>3, <1>4 DEF RowsOK

\* What holds of an epoch or an operation still holds when more has been HEAD.
LEMMA EpochLater ==
    ASSUME NEW e, NEW epoch, NEW known, NEW later, known \subseteq later,
           EpochOK(e, epoch, known)
    PROVE  EpochOK(e, epoch, later)
    BY DEF EpochOK

LEMMA OperationLater ==
    ASSUME NEW op, NEW known, NEW later, known \subseteq later,
           NEW n \in Nat, NEW m \in Nat, n <= m, OperationOK(op, known, n)
    PROVE  OperationOK(op, later, m)
    BY DEF OperationOK

\* One operator's step leaves the others' operations as they were.
LEMMA OpsStep ==
    ASSUME IInv, NEW o \in Operators, NEW new, Becomes(o, new),
           heads \subseteq heads', Len(epochs') \in Nat, Len(epochs) <= Len(epochs'),
           OperationOK(new, heads', Len(epochs'))
    PROVE  OpsOK'
<1>1. ops' = [ops EXCEPT ![o] = new]
    BY DEF Becomes
<1>2. ops \in [Operators -> Operation]
    BY DEF IInv, OpsOK
<1>3. new \in Operation
    BY DEF OperationOK
<1>4. ops' \in [Operators -> Operation]
    BY <1>1, <1>2, <1>3
<1>5. ASSUME NEW p \in Operators PROVE OperationOK(ops'[p], heads', Len(epochs'))
  <2>1. CASE p = o
      BY <2>1, <1>1, <1>2
  <2>2. CASE p # o
    <3>1. ops'[p] = ops[p]
        BY <2>2, <1>1, <1>2
    <3>2. OperationOK(ops[p], heads, Len(epochs))
        BY DEF IInv, OpsOK
    <3> QED
        BY <3>1, <3>2, OperationLater, EpochsAreNumbered
  <2> QED
      BY <2>1, <2>2
<1> QED
    BY <1>4, <1>5 DEF OpsOK

LEMMA OpsKept ==
    ASSUME IInv, UNCHANGED <<ops, epochs, heads>>, DOMAIN rows \subseteq DOMAIN rows'
    PROVE  OpsOK' /\ PlansOK'
    BY DEF IInv, OpsOK, PlansOK

\* Epochs rewritten in place, each still as EpochOK asks, keep EpochsOK.
LEMMA EpochsRewritten ==
    ASSUME IInv, heads \subseteq heads', NEW f,
           epochs' = [e \in DOMAIN epochs |-> f[e]],
           \A e \in DOMAIN epochs : EpochOK(e, f[e], heads')
    PROVE  EpochsOK' /\ DOMAIN epochs' = DOMAIN epochs /\ Len(epochs') = Len(epochs)
<1>1. epochs' = [e \in 1..Len(epochs) |-> f[e]] /\ Len(epochs) \in Nat
    BY EpochsAreNumbered
<1>2. \A e \in 1..Len(epochs) : f[e] \in EpochRecord
    BY EpochsAreNumbered DEF EpochOK
<1>3. epochs' \in Seq(EpochRecord)
    BY <1>1, <1>2, SeqDef
<1>4. Len(epochs') = Len(epochs) /\ DOMAIN epochs' = DOMAIN epochs
    BY <1>1, <1>3, LenProperties, EpochsAreNumbered
<1>5. \A e \in DOMAIN epochs' : EpochOK(e, epochs'[e], heads')
    BY <1>1, <1>4, EpochsAreNumbered
<1> QED
    BY <1>3, <1>4, <1>5, EpochsAreNumbered DEF EpochsOK

LEMMA EpochHere ==
    ASSUME IInv, NEW e \in DOMAIN epochs
    PROVE  EpochOK(e, epochs[e], heads) /\ epochs[e] \in EpochRecord
    BY DEF IInv, EpochsOK, EpochOK

LEMMA OperationHere ==
    ASSUME IInv, NEW o \in Operators
    PROVE  /\ OperationOK(ops[o], heads, Len(epochs)) /\ ops[o] \in Operation
           /\ ops[o].pc # "idle" => ops[o].epoch \in DOMAIN epochs
    BY EpochsAreNumbered DEF IInv, OpsOK, OperationOK

LEMMA IdleOK ==
    ASSUME NEW known, NEW n \in Nat
    PROVE  OperationOK(Idle, known, n) /\ Idle.pc = "idle"
    BY DEF OperationOK, Operation, Idle, Never

\* A version of a row is a version, under an epoch that has been HEAD.
LEMMA VersionOfRow ==
    ASSUME IInv, NEW i \in DOMAIN rows
    PROVE  AsVersion(rows[i]) \in Version /\ AsVersion(rows[i]).epoch \in heads
<1>1. rows[i] \in Row /\ rows[i].epoch \in heads
    BY RowsAreNumbered DEF IInv, RowsOK
<1> QED
    BY <1>1 DEF AsVersion, Version, Row

\* What an action that leaves rows, epochs and the history of HEAD alone keeps.
LEMMA OnlyOps ==
    ASSUME IInv, UNCHANGED <<rows, epochs, head, formed, heads>>,
           NEW o \in Operators, NEW new, Becomes(o, new),
           OperationOK(new, heads, Len(epochs)),
           new.pc = "restore" => epochs[new.epoch].parent # Never,
           new.pc = "merge" => new.old \subseteq DOMAIN rows
    PROVE  IInv'
<1>1. RowsOK' /\ EpochsOK' /\ HeadOK'
    BY DEF IInv, RowsOK, EpochsOK, HeadOK
<1>2. OpsOK'
    BY OpsStep, EpochsAreNumbered
<1>3. PlansOK'
  <2>1. ops' = [ops EXCEPT ![o] = new] /\ ops \in [Operators -> Operation]
      BY DEF Becomes, IInv, OpsOK
  <2> QED
      BY <2>1 DEF IInv, PlansOK
<1> QED
    BY <1>1, <1>2, <1>3 DEF IInv

\* What an action that rewrites epochs in place, and one operation, keeps.
LEMMA EpochsAndOps ==
    ASSUME IInv, UNCHANGED <<rows, head, formed, heads>>, NEW f,
           epochs' = [e \in DOMAIN epochs |-> f[e]],
           \A e \in DOMAIN epochs : EpochOK(e, f[e], heads) /\ f[e].parent = epochs[e].parent,
           NEW o \in Operators, NEW new, Becomes(o, new),
           OperationOK(new, heads, Len(epochs)), new.pc \notin {"restore", "merge"}
    PROVE  IInv'
<1>1. EpochsOK' /\ DOMAIN epochs' = DOMAIN epochs /\ Len(epochs') = Len(epochs)
    BY EpochsRewritten
<1>2. RowsOK' /\ HeadOK'
    BY <1>1 DEF IInv, RowsOK, HeadOK
<1>3. OpsOK'
    BY <1>1, OpsStep, EpochsAreNumbered
<1>4. PlansOK'
  <2>1. ops' = [ops EXCEPT ![o] = new] /\ ops \in [Operators -> Operation]
      BY DEF Becomes, IInv, OpsOK
  <2>2. ASSUME NEW p \in Operators, ops'[p].pc = "restore"
        PROVE  epochs'[ops'[p].epoch].parent # Never
    <3>1. p # o /\ ops'[p] = ops[p]
        BY <2>1, <2>2
    <3>2. ops[p].epoch \in DOMAIN epochs /\ epochs[ops[p].epoch].parent # Never
        BY <2>2, <3>1, OperationHere DEF IInv, PlansOK
    <3> QED
        BY <3>1, <3>2
  <2>3. ASSUME NEW p \in Operators, ops'[p].pc = "merge"
        PROVE  ops'[p].old \subseteq DOMAIN rows'
    <3>1. p # o /\ ops'[p] = ops[p]
        BY <2>1, <2>3
    <3> QED
        BY <3>1, <2>3, <1>2 DEF IInv, PlansOK
  <2> QED
      BY <2>2, <2>3 DEF PlansOK
<1> QED
    BY <1>1, <1>2, <1>3, <1>4 DEF IInv

-----------------------------------------------------------------------------
LEMMA InitOK == Init => IInv
<1> SUFFICES ASSUME Init PROVE IInv
    OBVIOUS
<1> DEFINE root == [parent |-> Never, line |-> {1}, status |-> "adopted",
                    tier |-> "A", chosen |-> {}, shadow |-> {}, base |-> {},
                    finals |-> {}, snapshot |-> NotAdopted, before |-> {}]
<1>1. epochs = <<root>>
    BY DEF Init
<1>2. root \in EpochRecord
    BY DEF EpochRecord, Never
<1>3. EpochOK(1, root, {1})
    BY <1>2 DEF EpochOK, Never
<1> HIDE DEF root
<1>4. epochs \in Seq(EpochRecord) /\ Len(epochs) = 1 /\ DOMAIN epochs = {1} /\ epochs[1] = root
    BY <1>1, <1>2
<1>5. EpochsOK
  <2>1. heads = {1}
      BY DEF Init
  <2>2. Len(epochs) <= MaxEpochs
      BY <1>4, EpochsAssumption
  <2> QED
      BY <1>4, <1>3, <2>1, <2>2 DEF EpochsOK
<1>6. HeadOK /\ RowsOK
    BY <1>4 DEF HeadOK, RowsOK, Init
<1>7. ops \in [Operators -> Operation] /\ \A o \in Operators : ops[o] = Idle
    BY IdleOK DEF Init, OperationOK
<1>8. OpsOK /\ PlansOK
    BY <1>4, <1>7, IdleOK DEF OpsOK, PlansOK
<1> QED
    BY <1>5, <1>6, <1>8 DEF IInv

LEMMA LiveFormOK ==
    ASSUME IInv, NEW ep \in Episodes, NEW said \in Claims, LiveForm(ep, said)
    PROVE  IInv'
<1>1. UNCHANGED <<epochs, head, ops, heads>> /\ formed' = formed \cup {ep}
    BY DEF LiveForm
<1>2. EpochsOK' /\ HeadOK'
    BY <1>1 DEF IInv, EpochsOK, HeadOK
<1>4. said.key \in Keys /\ said.fact \in Facts
    BY DEF Keys, Facts
<1>5. RowsOK' /\ DOMAIN rows \subseteq DOMAIN rows'
  <2> DEFINE k == said.key
             same == {i \in Active(k) : Says(rows[i]) = said}
  <2>1. CASE rows' = [rows EXCEPT ![Min(same)].eps = @ \cup {ep}]
    <3> DEFINE f == [i \in DOMAIN rows |->
                       IF i = Min(same) THEN [rows[i] EXCEPT !.eps = @ \cup {ep}] ELSE rows[i]]
    <3>1. rows' = [i \in DOMAIN rows |-> f[i]]
        BY <2>1
    <3>2. \A i \in DOMAIN rows : f[i] \in Row /\ f[i].epoch = rows[i].epoch
      <4> TAKE i \in DOMAIN rows
      <4>1. rows[i] \in Row
          BY RowsAreNumbered
      <4>2. [rows[i] EXCEPT !.eps = @ \cup {ep}] \in Row
          BY <4>1 DEF Row
      <4>3. [rows[i] EXCEPT !.eps = @ \cup {ep}].epoch = rows[i].epoch
          BY <4>1 DEF Row
      <4> HIDE DEF same
      <4> QED
          BY <4>1, <4>2, <4>3
    <3> HIDE DEF f
    <3> QED
        BY <3>1, <3>2, <1>1, RowsRewritten
  <2>2. CASE rows' = Append([i \in DOMAIN rows |->
                               IF i \in Active(k)
                               THEN [rows[i] EXCEPT !.status = "superseded"]
                               ELSE rows[i]],
                            [key |-> k, fact |-> said.fact, eps |-> {ep},
                             epoch |-> head, status |-> "active"])
    <3> DEFINE g == [i \in DOMAIN rows |->
                       IF i \in Active(k)
                       THEN [rows[i] EXCEPT !.status = "superseded"]
                       ELSE rows[i]]
               new == [key |-> k, fact |-> said.fact, eps |-> {ep},
                       epoch |-> head, status |-> "active"]
    <3>1. new \in Row /\ new.epoch \in heads
        BY <1>4, EpochsAreNumbered DEF Row, IInv, HeadOK
    <3>2. \A i \in DOMAIN rows : g[i] \in Row /\ g[i].epoch \in heads
      <4> TAKE i \in DOMAIN rows
      <4>1. rows[i] \in Row /\ rows[i].epoch \in heads
          BY RowsAreNumbered DEF IInv, RowsOK
      <4>2. [rows[i] EXCEPT !.status = "superseded"] \in Row
          BY <4>1 DEF Row
      <4>3. [rows[i] EXCEPT !.status = "superseded"].epoch = rows[i].epoch
          BY <4>1 DEF Row
      <4> QED
          BY <4>1, <4>2, <4>3
    <3>3. g \in Seq(Row) /\ Len(g) = Len(rows)
      <4>1. Len(rows) \in Nat /\ g = [i \in 1..Len(rows) |-> g[i]]
          BY RowsAreNumbered
      <4>2. \A i \in 1..Len(rows) : g[i] \in Row
          BY <3>2, RowsAreNumbered
      <4> HIDE DEF g
      <4>3. g \in Seq(Row)
          BY <4>1, <4>2, SeqDef
      <4> QED
          BY <4>1, <4>3, LenProperties
    <3>4. DOMAIN g = DOMAIN rows
        OBVIOUS
    <3>5. rows' = Append(g, new)
        BY <2>2
    <3> HIDE DEF g, new
    <3>6. rows' \in Seq(Row) /\ Len(rows') = Len(g) + 1
          /\ (\A i \in 1..Len(g) : rows'[i] = g[i]) /\ rows'[Len(g) + 1] = new
        BY <3>1, <3>3, <3>5, AppendProperties
    <3>7. Len(g) \in Nat /\ DOMAIN g = 1..Len(g) /\ DOMAIN rows' = 1..(Len(g) + 1)
        BY <3>3, <3>6, LenProperties
    <3>8. \A i \in DOMAIN rows' : rows'[i].epoch \in heads
      <4> TAKE i \in DOMAIN rows'
      <4>1. i \in 1..Len(g) \/ i = Len(g) + 1
          BY <3>7
      <4> QED
          BY <4>1, <3>1, <3>2, <3>4, <3>6, <3>7
    <3>9. DOMAIN rows \subseteq DOMAIN rows'
        BY <3>4, <3>7
    <3> QED
        BY <3>6, <3>8, <3>9, <1>1 DEF RowsOK
  <2> QED
      BY <2>1, <2>2 DEF LiveForm
<1>6. OpsOK' /\ PlansOK'
    BY <1>1, <1>5, OpsKept
<1> QED
    BY <1>2, <1>5, <1>6 DEF IInv

LEMMA LiveRetireOK ==
    ASSUME IInv, NEW r \in DOMAIN rows, LiveRetire(r)
    PROVE  IInv'
<1>1. UNCHANGED <<epochs, head, formed, ops, heads>>
      /\ rows' = [rows EXCEPT ![r].status = "archived"]
    BY DEF LiveRetire
<1>2. EpochsOK' /\ HeadOK'
    BY <1>1 DEF IInv, EpochsOK, HeadOK
<1> DEFINE f == [i \in DOMAIN rows |->
                   IF i = r THEN [rows[i] EXCEPT !.status = "archived"] ELSE rows[i]]
<1>4. rows' = [i \in DOMAIN rows |-> f[i]]
    BY <1>1
<1>5. \A i \in DOMAIN rows : f[i] \in Row /\ f[i].epoch = rows[i].epoch
  <2> TAKE i \in DOMAIN rows
  <2>1. rows[i] \in Row
      BY RowsAreNumbered
  <2>2. [rows[i] EXCEPT !.status = "archived"] \in Row
      BY <2>1 DEF Row
  <2>3. [rows[i] EXCEPT !.status = "archived"].epoch = rows[i].epoch
      BY <2>1 DEF Row
  <2> QED
      BY <2>1, <2>2, <2>3
<1> HIDE DEF f
<1>6. RowsOK' /\ DOMAIN rows' = DOMAIN rows
    BY <1>1, <1>4, <1>5, RowsRewritten
<1>7. OpsOK' /\ PlansOK'
    BY <1>1, <1>6, OpsKept
<1> QED
    BY <1>2, <1>6, <1>7 DEF IInv

-----------------------------------------------------------------------------
LEMMA OpenedOK ==
    ASSUME IInv, NEW chosen \in SUBSET Episodes, NEW tier \in Tiers
    PROVE  EpochOK(Len(epochs) + 1, Opened(chosen, tier), heads)
<1> DEFINE e == Len(epochs) + 1
           line == {e} \cup epochs[head].line
<1>1. EpochOK(head, epochs[head], heads) /\ epochs[head] \in EpochRecord
    BY EpochsAreNumbered, EpochHere
<1>2. head \in Nat /\ head \in heads /\ head < e /\ e \in Nat
    BY EpochsAreNumbered DEF IInv, HeadOK
<1>3. epochs[head].line \subseteq heads /\ epochs[head].line \subseteq 1..head
    BY <1>1, <1>2 DEF EpochOK
<1>4. line \subseteq {e} \cup heads /\ line \subseteq 1..e /\ line \in SUBSET Nat /\ e \in line
    BY <1>2, <1>3
<1> HIDE DEF line, e
<1>5. Opened(chosen, tier) =
        [parent |-> head, line |-> line, status |-> "open", tier |-> tier,
         chosen |-> chosen, shadow |-> {}, base |-> {}, finals |-> {},
         snapshot |-> NotAdopted, before |-> {}]
    BY DEF Opened, line, e
<1>6. Opened(chosen, tier) \in EpochRecord
    BY <1>2, <1>4, <1>5 DEF EpochRecord
<1> QED
    BY <1>2, <1>4, <1>5, <1>6 DEF EpochOK, e

LEMMA BranchOpenOK ==
    ASSUME IInv, NEW o \in Operators, NEW chosen \in SUBSET Episodes,
           NEW tier \in Tiers, BranchOpen(o, chosen, tier)
    PROVE  IInv'
<1> DEFINE new == Opened(chosen, tier)
           n == Len(epochs) + 1
<1>1. /\ UNCHANGED <<rows, head, formed, heads>>
      /\ Len(epochs) < MaxEpochs /\ epochs' = Append(epochs, new)
      /\ Becomes(o, [Idle EXCEPT !.pc = "seed", !.epoch = n, !.todo = chosen])
    BY DEF BranchOpen
<1>2. EpochOK(n, new, heads) /\ new \in EpochRecord
    BY OpenedOK DEF EpochOK
<1> HIDE DEF new
<1>3. epochs \in Seq(EpochRecord) /\ Len(epochs) \in Nat /\ MaxEpochs \in Nat
    BY EpochsAreNumbered DEF IInv, EpochsOK
<1>4. /\ epochs' \in Seq(EpochRecord) /\ Len(epochs') = n /\ epochs'[n] = new
      /\ \A e \in 1..Len(epochs) : epochs'[e] = epochs[e]
    BY <1>1, <1>2, <1>3, AppendProperties
<1>5. DOMAIN epochs' = 1..n /\ DOMAIN epochs = 1..Len(epochs)
    BY <1>3, <1>4, LenProperties
<1>6. EpochsOK'
  <2>1. ASSUME NEW e \in DOMAIN epochs' PROVE EpochOK(e, epochs'[e], heads')
    <3>1. CASE e = n
        BY <3>1, <1>1, <1>2, <1>4
    <3>2. CASE e # n
      <4>1. e \in DOMAIN epochs /\ epochs'[e] = epochs[e]
          BY <3>2, <1>3, <1>4, <1>5
      <4> QED
          BY <4>1, <1>1, EpochHere
    <3> QED
        BY <3>1, <3>2
  <2>2. Len(epochs') <= MaxEpochs
      BY <1>1, <1>3, <1>4
  <2> QED
      BY <2>1, <2>2, <1>4 DEF EpochsOK
<1>7. RowsOK' /\ HeadOK'
    BY <1>1, <1>3, <1>5 DEF IInv, RowsOK, HeadOK
<1> DEFINE op == [Idle EXCEPT !.pc = "seed", !.epoch = n, !.todo = chosen]
<1>8. OperationOK(op, heads, n)
  <2>1. Idle \in Operation /\ n \in Nat /\ n \in 1..n
      BY <1>3, IdleOK DEF OperationOK
  <2>2. op.pc = "seed" /\ op.epoch = n /\ op.new = {}
      BY DEF Idle
  <2> HIDE DEF n
  <2>3. op \in Operation
      BY <2>1 DEF Operation
  <2> HIDE DEF op
  <2> QED
      BY <2>1, <2>2, <2>3 DEF OperationOK
<1>9. OpsOK'
    BY <1>1, <1>3, <1>4, <1>8, OpsStep
<1>10. PlansOK'
  <2>1. ops' = [ops EXCEPT ![o] = op] /\ ops \in [Operators -> Operation] /\ op.pc = "seed"
      BY <1>1 DEF Becomes, IInv, OpsOK, Idle
  <2>2. ASSUME NEW p \in Operators, ops'[p].pc = "restore"
        PROVE  epochs'[ops'[p].epoch].parent # Never
    <3> HIDE DEF op
    <3>1. p # o /\ ops'[p] = ops[p]
        BY <2>1, <2>2
    <3>2. ops[p].epoch \in DOMAIN epochs /\ epochs[ops[p].epoch].parent # Never
        BY <2>2, <3>1, OperationHere DEF IInv, PlansOK
    <3> QED
        BY <3>1, <3>2, <1>4, <1>5
  <2>3. ASSUME NEW p \in Operators, ops'[p].pc = "merge"
        PROVE  ops'[p].old \subseteq DOMAIN rows'
    <3> HIDE DEF op
    <3>1. p # o /\ ops'[p] = ops[p]
        BY <2>1, <2>3
    <3> QED
        BY <3>1, <2>3, <1>1 DEF IInv, PlansOK
  <2> QED
      BY <2>2, <2>3 DEF PlansOK
<1> QED
    BY <1>6, <1>7, <1>9, <1>10 DEF IInv

LEMMA BranchSeedOK ==
    ASSUME IInv, NEW o \in Operators, BranchSeed(o)
    PROVE  IInv'
<1> PICK e : e = ops[o].epoch
    OBVIOUS
<1> DEFINE shadow == {AsVersion(rows[i]) : i \in Baseline(e)}
           base == {AsVersion(rows[i]) : i \in HeadRows}
           f == [x \in DOMAIN epochs |->
                   IF x = e THEN [epochs[x] EXCEPT !.shadow = shadow, !.base = base]
                   ELSE epochs[x]]
<1>1. /\ UNCHANGED <<rows, head, formed, heads>> /\ ops[o].pc = "seed"
      /\ epochs' = [epochs EXCEPT ![e].shadow = shadow, ![e].base = base]
      /\ Becomes(o, [ops[o] EXCEPT !.pc = "recompute"])
    BY DEF BranchSeed
<1>2. e \in DOMAIN epochs /\ OperationOK(ops[o], heads, Len(epochs)) /\ ops[o] \in Operation
    BY <1>1, OperationHere
<1>3. /\ shadow \subseteq Version /\ base \subseteq Version
      /\ \A v \in shadow : v.epoch \in heads
    BY VersionOfRow DEF Baseline, HeadRows, Current
<1> HIDE DEF shadow, base
<1>4. epochs' = [x \in DOMAIN epochs |-> f[x]]
    BY <1>1
<1>5. \A x \in DOMAIN epochs : EpochOK(x, f[x], heads) /\ f[x].parent = epochs[x].parent
  <2> TAKE x \in DOMAIN epochs
  <2>1. CASE x = e
    <3>1. EpochOK(x, epochs[x], heads) /\ epochs[x] \in EpochRecord
        BY EpochHere
    <3> DEFINE y == [epochs[x] EXCEPT !.shadow = shadow, !.base = base]
    <3>2. /\ y \in EpochRecord /\ y.parent = epochs[x].parent /\ y.line = epochs[x].line
          /\ y.shadow = shadow
        BY <3>1, <1>3 DEF EpochRecord
    <3>3. f[x] = y
        BY <2>1
    <3> HIDE DEF y, f
    <3> QED
        BY <3>1, <3>2, <3>3, <1>3 DEF EpochOK
  <2>2. CASE x # e
      BY <2>2, EpochHere
  <2> QED
      BY <2>1, <2>2
<1> HIDE DEF f
<1> DEFINE new == [ops[o] EXCEPT !.pc = "recompute"]
<1>6. OperationOK(new, heads, Len(epochs)) /\ new.pc \notin {"restore", "merge"}
    BY <1>2, <1>1 DEF OperationOK, Operation
<1> HIDE DEF new
<1> QED
    BY <1>1, <1>4, <1>5, <1>6, EpochsAndOps DEF new

\* A statement formed in a shadow is written under its epoch.
LEMMA FormInOK ==
    ASSUME NEW shadow \in SUBSET Version, NEW said \in Claims, NEW ep \in Episodes,
           NEW e \in 1..MaxEpochs, NEW known, \A v \in shadow : v.epoch \in {e} \cup known
    PROVE  /\ FormIn(shadow, said, ep, e) \subseteq Version
           /\ \A v \in FormIn(shadow, said, ep, e) : v.epoch \in {e} \cup known
<1> DEFINE same == {c \in shadow : Says(c) = said}
           stronger(c) == [c EXCEPT !.eps = @ \cup {ep}]
           fresh == [key |-> said.key, fact |-> said.fact, eps |-> {ep}, epoch |-> e]
<1>1. \A c \in same : stronger(c) \in Version /\ stronger(c).epoch = c.epoch
  <2> TAKE c \in same
  <2>1. c \in Version
      OBVIOUS
  <2> HIDE DEF same
  <2> QED
      BY <2>1 DEF Version
<1>2. fresh \in Version /\ fresh.epoch = e
    BY DEF Version, Keys, Facts
<1>3. FormIn(shadow, said, ep, e) =
        IF same # {} THEN (shadow \ same) \cup {stronger(c) : c \in same}
        ELSE {c \in shadow : c.key # said.key} \cup {fresh}
    BY DEF FormIn
<1>4. same \subseteq shadow
    OBVIOUS
<1> HIDE DEF same, fresh
<1>5. CASE same # {}
  <2>1. FormIn(shadow, said, ep, e) = (shadow \ same) \cup {stronger(c) : c \in same}
      BY <1>3, <1>5
  <2> HIDE DEF stronger
  <2>2. \A v \in FormIn(shadow, said, ep, e) :
            v \in shadow \/ \E c \in same : v = stronger(c)
      BY <2>1
  <2> QED
      BY <2>2, <1>1, <1>4
<1>6. CASE same = {}
    BY <1>2, <1>3, <1>6
<1> QED
    BY <1>5, <1>6

LEMMA RecomputeOK ==
    ASSUME IInv, NEW o \in Operators, NEW ep \in Episodes, NEW found \in SUBSET Claims,
           Recompute(o, ep, found)
    PROVE  IInv'
<1> PICK e : e = ops[o].epoch
    OBVIOUS
<1> PICK shadow : shadow = IF found = {} THEN epochs[e].shadow
                           ELSE UNION {FormIn(epochs[e].shadow, said, ep, e) : said \in found}
    OBVIOUS
<1>1. PICK finals \in {epochs[e].finals, epochs[e].finals \cup {shadow}},
           dirty \in BOOLEAN :
        /\ UNCHANGED <<rows, head, formed, heads>> /\ ops[o].pc = "recompute"
        /\ epochs' = [epochs EXCEPT ![e].shadow = shadow, ![e].finals = finals]
        /\ Becomes(o, [ops[o] EXCEPT !.todo = @ \ {ep}, !.dirty = dirty])
  <2> DEFINE run == RunOf(e, ep)
             ends == run \cap ops[o].todo = {ep}
             d == ops[o].dirty \/ found # {}
             fin == IF ends /\ d THEN epochs[e].finals \cup {shadow} ELSE epochs[e].finals
  <2>1. /\ UNCHANGED <<rows, head, formed, heads>> /\ ops[o].pc = "recompute"
        /\ epochs' = [epochs EXCEPT ![e].shadow = shadow, ![e].finals = fin]
        /\ Becomes(o, [ops[o] EXCEPT !.todo = @ \ {ep}, !.dirty = d /\ ~ends])
      BY DEF Recompute
  <2>2. fin \in {epochs[e].finals, epochs[e].finals \cup {shadow}}
      OBVIOUS
  <2>3. (d /\ ~ends) \in BOOLEAN
      OBVIOUS
  <2> HIDE DEF fin, d, ends
  <2> QED
      BY <2>1, <2>2, <2>3
<1>2. e \in DOMAIN epochs /\ OperationOK(ops[o], heads, Len(epochs)) /\ ops[o] \in Operation
    BY <1>1, OperationHere
<1>3. EpochOK(e, epochs[e], heads) /\ epochs[e] \in EpochRecord /\ e \in 1..MaxEpochs
    BY <1>2, EpochHere, EpochsAreNumbered
<1>4. /\ epochs[e].shadow \in SUBSET Version
      /\ \A v \in epochs[e].shadow : v.epoch \in {e} \cup heads
    BY <1>3 DEF EpochOK, EpochRecord
<1>5. /\ shadow \subseteq Version
      /\ \A v \in shadow : v.epoch \in {e} \cup heads
  <2>1. CASE found = {}
      BY <2>1, <1>4
  <2>2. CASE found # {}
    <3>1. ASSUME NEW said \in found
          PROVE  /\ FormIn(epochs[e].shadow, said, ep, e) \subseteq Version
                 /\ \A v \in FormIn(epochs[e].shadow, said, ep, e) : v.epoch \in {e} \cup heads
        BY <1>3, <1>4, FormInOK
    <3>2. shadow = UNION {FormIn(epochs[e].shadow, said, ep, e) : said \in found}
        BY <2>2
    <3>3. \A v \in shadow : \E said \in found : v \in FormIn(epochs[e].shadow, said, ep, e)
        BY <3>2
    <3> QED
        BY <3>1, <3>3
  <2> QED
      BY <2>1, <2>2
<1> DEFINE f == [x \in DOMAIN epochs |->
                   IF x = e THEN [epochs[x] EXCEPT !.shadow = shadow, !.finals = finals]
                   ELSE epochs[x]]
<1>6. epochs' = [x \in DOMAIN epochs |-> f[x]]
    BY <1>1
<1>7. \A x \in DOMAIN epochs : EpochOK(x, f[x], heads) /\ f[x].parent = epochs[x].parent
  <2> TAKE x \in DOMAIN epochs
  <2>1. CASE x = e
    <3> DEFINE y == [epochs[x] EXCEPT !.shadow = shadow, !.finals = finals]
    <3>1. finals \subseteq SUBSET Version
        BY <1>1, <1>3, <1>5, SMTT(30) DEF EpochRecord
    <3>2. /\ y \in EpochRecord /\ y.parent = epochs[x].parent /\ y.line = epochs[x].line
          /\ y.shadow = shadow
        BY <3>1, <1>3, <1>5, <2>1, ZenonT(40) DEF EpochRecord
    <3>3. f[x] = y
        BY <2>1
    <3> HIDE DEF y, f
    <3> QED
        BY <2>1, <3>2, <3>3, <1>3, <1>5 DEF EpochOK
  <2>2. CASE x # e
      BY <2>2, EpochHere
  <2> QED
      BY <2>1, <2>2
<1> HIDE DEF f
<1> DEFINE new == [ops[o] EXCEPT !.todo = @ \ {ep}, !.dirty = dirty]
<1>8. OperationOK(new, heads, Len(epochs)) /\ new.pc \notin {"restore", "merge"}
    BY <1>2, <1>1 DEF OperationOK, Operation
<1> HIDE DEF new
<1> QED
    BY <1>1, <1>6, <1>7, <1>8, EpochsAndOps DEF new

LEMMA BranchReadyOK ==
    ASSUME IInv, NEW o \in Operators, BranchReady(o)
    PROVE  IInv'
<1> PICK e : e = ops[o].epoch
    OBVIOUS
<1>1. /\ UNCHANGED <<rows, head, formed, heads>>
      /\ epochs' = [epochs EXCEPT ![e].status = "ready"] /\ Becomes(o, Idle)
    BY DEF BranchReady
<1> DEFINE f == [x \in DOMAIN epochs |->
                   IF x = e THEN [epochs[x] EXCEPT !.status = "ready"] ELSE epochs[x]]
<1>2. epochs' = [x \in DOMAIN epochs |-> f[x]]
    BY <1>1
<1>3. \A x \in DOMAIN epochs : EpochOK(x, f[x], heads) /\ f[x].parent = epochs[x].parent
  <2> TAKE x \in DOMAIN epochs
  <2>1. EpochOK(x, epochs[x], heads) /\ epochs[x] \in EpochRecord
      BY EpochHere
  <2> DEFINE y == [epochs[x] EXCEPT !.status = "ready"]
  <2>2. /\ y \in EpochRecord /\ y.parent = epochs[x].parent /\ y.line = epochs[x].line
        /\ y.shadow = epochs[x].shadow
      BY <2>1 DEF EpochRecord
  <2>3. f[x] = y \/ f[x] = epochs[x]
      OBVIOUS
  <2> HIDE DEF y, f
  <2> QED
      BY <2>1, <2>2, <2>3 DEF EpochOK
<1> HIDE DEF f
<1>4. OperationOK(Idle, heads, Len(epochs)) /\ Idle.pc \notin {"restore", "merge"}
    BY IdleOK, EpochsAreNumbered
<1> QED
    BY <1>1, <1>2, <1>3, <1>4, EpochsAndOps

LEMMA ClosedOK ==
    ASSUME NEW e, NEW epoch, NEW known, EpochOK(e, epoch, known),
           NEW status \in {"adopted", "discarded"}
    PROVE  /\ EpochOK(e, Closed(epoch, status), known)
           /\ Closed(epoch, status).parent = epoch.parent
           /\ Closed(epoch, status).line = epoch.line
<1>1. epoch \in EpochRecord
    BY DEF EpochOK
<1>2. /\ Closed(epoch, status) \in EpochRecord
      /\ Closed(epoch, status).parent = epoch.parent
      /\ Closed(epoch, status).line = epoch.line
      /\ Closed(epoch, status).shadow = {}
    BY <1>1 DEF Closed, EpochRecord
<1> QED
    BY <1>2 DEF EpochOK

LEMMA BranchFailOK ==
    ASSUME IInv, NEW o \in Operators, BranchFail(o)
    PROVE  IInv'
<1> PICK e : e = ops[o].epoch
    OBVIOUS
<1>1. /\ UNCHANGED <<rows, head, formed, heads>>
      /\ epochs' = [epochs EXCEPT ![e] = Closed(@, "discarded")] /\ Becomes(o, Idle)
    BY DEF BranchFail
<1> DEFINE f == [x \in DOMAIN epochs |->
                   IF x = e THEN Closed(epochs[x], "discarded") ELSE epochs[x]]
<1>2. epochs' = [x \in DOMAIN epochs |-> f[x]]
    BY <1>1
<1>3. \A x \in DOMAIN epochs : EpochOK(x, f[x], heads) /\ f[x].parent = epochs[x].parent
    BY EpochHere, ClosedOK
<1> HIDE DEF f
<1>4. OperationOK(Idle, heads, Len(epochs)) /\ Idle.pc \notin {"restore", "merge"}
    BY IdleOK, EpochsAreNumbered
<1> QED
    BY <1>1, <1>2, <1>3, <1>4, EpochsAndOps

-----------------------------------------------------------------------------
LEMMA AdoptCheckOK ==
    ASSUME IInv, NEW o \in Operators, NEW e \in DOMAIN epochs, AdoptCheck(o, e)
    PROVE  IInv'
<1> DEFINE new == [Idle EXCEPT !.pc = "verify", !.epoch = e]
<1>1. UNCHANGED <<rows, epochs, head, formed, heads>> /\ Becomes(o, new)
    BY DEF AdoptCheck
<1>2. Idle \in Operation /\ e \in Nat /\ e \in 1..Len(epochs)
    BY EpochsAreNumbered, IdleOK DEF OperationOK
<1>3. new.pc = "verify" /\ new.epoch = e /\ new.new = {}
    BY DEF Idle
<1>4. new \in Operation
    BY <1>2 DEF Operation
<1> HIDE DEF new
<1>5. OperationOK(new, heads, Len(epochs))
    BY <1>2, <1>3, <1>4 DEF OperationOK
<1> QED
    BY <1>1, <1>3, <1>5, OnlyOps

LEMMA AdoptDiffOK ==
    ASSUME IInv, NEW o \in Operators, AdoptDiff(o)
    PROVE  IInv'
<1> PICK e : e = ops[o].epoch
    OBVIOUS
<1> PICK taken : taken = {c \in epochs[e].shadow : ~\E i \in HeadRows : Unchanged(c, rows[i])}
    OBVIOUS
<1> PICK gone : gone = {i \in HeadRows : ~\E c \in epochs[e].shadow : Unchanged(c, rows[i])}
    OBVIOUS
<1> DEFINE new == [ops[o] EXCEPT !.pc = "merge", !.new = taken, !.old = gone]
<1>1. UNCHANGED <<rows, epochs, head, formed, heads>> /\ ops[o].pc = "verify" /\ Becomes(o, new)
    BY DEF AdoptDiff
<1>2. /\ OperationOK(ops[o], heads, Len(epochs)) /\ ops[o] \in Operation
      /\ e \in DOMAIN epochs /\ e \in 1..Len(epochs)
    BY <1>1, OperationHere, EpochsAreNumbered
<1>3. EpochOK(e, epochs[e], heads) /\ epochs[e] \in EpochRecord
    BY <1>2, EpochHere
<1>4. taken \subseteq Version /\ \A v \in taken : v.epoch \in {e} \cup heads
    BY <1>3 DEF EpochOK, EpochRecord
<1>5. gone \subseteq Nat /\ gone \subseteq DOMAIN rows
    BY RowsAreNumbered DEF HeadRows, Current
<1>6. new \in Operation
    BY <1>2, <1>4, <1>5 DEF Operation
<1>7. new.pc = "merge" /\ new.epoch = e /\ new.new = taken /\ new.old = gone
    BY <1>2 DEF Operation
<1> HIDE DEF new
<1>8. OperationOK(new, heads, Len(epochs))
    BY <1>2, <1>4, <1>6, <1>7 DEF OperationOK
<1> QED
    BY <1>1, <1>5, <1>7, <1>8, OnlyOps

\* A version copied into the live store is an active row under its own epoch.
LEMMA RowOfVersion ==
    ASSUME NEW v \in Version
    PROVE  AsRow(v) \in Row /\ AsRow(v).epoch = v.epoch
    BY DEF AsRow, Version, Row

LEMMA AdoptedOK ==
    ASSUME NEW e, NEW epoch, NEW known, EpochOK(e, epoch, known)
    PROVE  EpochOK(e, Adopted(epoch), known) /\ Adopted(epoch).parent = epoch.parent
<1>1. CASE epoch.status = "ready"
    BY <1>1, ClosedOK DEF Adopted
<1>2. CASE epoch.status # "ready"
  <2> DEFINE y == [epoch EXCEPT !.status = "adopted"]
  <2>1. epoch \in EpochRecord
      BY DEF EpochOK
  <2>2. /\ y \in EpochRecord /\ y.parent = epoch.parent /\ y.line = epoch.line
        /\ y.shadow = epoch.shadow
      BY <2>1 DEF EpochRecord
  <2>3. Adopted(epoch) = y
      BY <1>2 DEF Adopted
  <2> HIDE DEF y
  <2> QED
      BY <2>2, <2>3 DEF EpochOK
<1> QED
    BY <1>1, <1>2

\* Flipping the pointer changes statuses and what only a rollback reads.
LEMMA FlippedOK ==
    ASSUME IInv, NEW e \in DOMAIN epochs, NEW snapshot \in Taken, NEW known,
           heads \subseteq known, NEW x \in DOMAIN epochs
    PROVE  /\ EpochOK(x, Flipped(e, snapshot)[x], known)
           /\ Flipped(e, snapshot)[x].parent = epochs[x].parent
<1>1. EpochOK(x, epochs[x], known)
    BY EpochHere, EpochLater
<1> PICK before : before = Current
    OBVIOUS
<1>2. before \in SUBSET Nat
    BY RowsAreNumbered DEF Current
<1> DEFINE a == Adopted(epochs[e])
           y == [a EXCEPT !.snapshot = snapshot, !.before = before]
           z == [epochs[x] EXCEPT !.status = "superseded"]
<1>3. Flipped(e, snapshot)[x] = IF x = e THEN y
                                ELSE IF x = epochs[e].parent THEN z ELSE epochs[x]
  <2> DEFINE g == [epochs EXCEPT ![epochs[e].parent].status = "superseded"]
  <2>1. Flipped(e, snapshot) = [g EXCEPT ![e] = y]
      BY DEF Flipped
  <2>2. DOMAIN g = DOMAIN epochs /\ g[x] = IF x = epochs[e].parent THEN z ELSE epochs[x]
      OBVIOUS
  <2> HIDE DEF g, y, z
  <2> QED
      BY <2>1, <2>2
<1>4. CASE x = e
  <2>1. EpochOK(x, a, known) /\ a.parent = epochs[x].parent /\ a \in EpochRecord
      BY <1>1, <1>4, AdoptedOK DEF EpochOK
  <2> HIDE DEF a
  <2>2. /\ y \in EpochRecord /\ y.parent = a.parent /\ y.line = a.line
        /\ y.shadow = a.shadow
      BY <2>1, <1>2 DEF EpochRecord
  <2> HIDE DEF y
  <2>3. EpochOK(x, y, known)
      BY <2>1, <2>2 DEF EpochOK
  <2> QED
      BY <1>3, <1>4, <2>1, <2>2, <2>3
<1>5. CASE x # e
  <2>1. /\ z \in EpochRecord /\ z.parent = epochs[x].parent /\ z.line = epochs[x].line
        /\ z.shadow = epochs[x].shadow
      BY <1>1 DEF EpochRecord, EpochOK
  <2> HIDE DEF z, y
  <2>2. EpochOK(x, z, known)
      BY <1>1, <2>1 DEF EpochOK
  <2> QED
      BY <1>1, <1>3, <1>5, <2>1, <2>2
<1> QED
    BY <1>4, <1>5

\* Retired rows stay rows, under their epochs.
LEMMA RetiredOK ==
    ASSUME IInv, NEW old
    PROVE  /\ Retired(old) \in Seq(Row) /\ Len(Retired(old)) = Len(rows)
           /\ \A i \in 1..Len(rows) : Retired(old)[i].epoch \in heads
<1> DEFINE g == [i \in 1..Len(rows) |->
                   IF i \in old THEN [rows[i] EXCEPT !.status = "superseded"] ELSE rows[i]]
<1>1. Retired(old) = g
    BY RowsAreNumbered DEF Retired
<1>2. \A i \in 1..Len(rows) : g[i] \in Row /\ g[i].epoch \in heads
  <2> TAKE i \in 1..Len(rows)
  <2>1. rows[i] \in Row /\ rows[i].epoch \in heads
      BY RowsAreNumbered DEF IInv, RowsOK
  <2>2. [rows[i] EXCEPT !.status = "superseded"] \in Row
      BY <2>1 DEF Row
  <2>3. [rows[i] EXCEPT !.status = "superseded"].epoch = rows[i].epoch
      BY <2>1 DEF Row
  <2> QED
      BY <2>1, <2>2, <2>3
<1>3. Len(rows) \in Nat /\ g = [i \in 1..Len(rows) |-> g[i]]
    BY RowsAreNumbered
<1> HIDE DEF g
<1>4. g \in Seq(Row)
    BY <1>2, <1>3, SeqDef
<1>5. Len(g) = Len(rows)
    BY <1>3, <1>4, LenProperties
<1> QED
    BY <1>1, <1>2, <1>4, <1>5

LEMMA AdoptMergeOK ==
    ASSUME IInv, NEW o \in Operators, AdoptMerge(o)
    PROVE  IInv'
<1> PICK e : e = ops[o].epoch
    OBVIOUS
<1> PICK old, new : old = ops[o].old /\ new = ops[o].new
    OBVIOUS
<1>1. PICK n \in 0..MaxRows : \E order \in [1..n -> {AsRow(v) : v \in new}] :
        rows' = Retired(old) \o order
    BY DEF AdoptMerge
<1> PICK order \in [1..n -> {AsRow(v) : v \in new}] : rows' = Retired(old) \o order
    BY <1>1
<1>2. /\ ops[o].pc = "merge" /\ epochs' = Flipped(e, Snapshot(old)) /\ head' = e
      /\ heads' = heads \cup {e} /\ Becomes(o, Idle) /\ formed' = formed
    BY DEF AdoptMerge
<1>3. /\ OperationOK(ops[o], heads, Len(epochs)) /\ ops[o] \in Operation
      /\ e \in DOMAIN epochs
    BY <1>2, OperationHere
<1>4. new \subseteq Version /\ \A v \in new : v.epoch \in heads'
    BY <1>2, <1>3 DEF OperationOK, Operation
<1>5. n \in Nat /\ order \in Seq(Row) /\ Len(order) = n /\ \A p \in 1..n : order[p].epoch \in heads'
  <2>1. n \in Nat
      BY EpochsAssumption
  <2>2. \A r \in {AsRow(v) : v \in new} : r \in Row /\ r.epoch \in heads'
      BY <1>4, RowOfVersion
  <2>3. \A p \in 1..n : order[p] \in Row /\ order[p].epoch \in heads'
      BY <2>2
  <2>4. order = [p \in 1..n |-> order[p]]
      OBVIOUS
  <2>5. order \in Seq(Row)
      BY <2>1, <2>3, <2>4, SeqDef
  <2> QED
      BY <2>1, <2>3, <2>4, <2>5, LenProperties
<1>6. RowsOK' /\ DOMAIN rows \subseteq DOMAIN rows'
  <2>1. Len(rows) \in Nat /\ Retired(old) \in Seq(Row) /\ Len(Retired(old)) = Len(rows)
        /\ \A i \in 1..Len(rows) : Retired(old)[i].epoch \in heads
      BY RetiredOK, RowsAreNumbered
  <2> DEFINE r == Retired(old)
  <2> HIDE DEF r
  <2>2. r \in Seq(Row) /\ Len(r) = Len(rows) /\ rows' = r \o order
      BY <2>1 DEF r
  <2>3. /\ rows' \in Seq(Row) /\ Len(rows') = Len(r) + Len(order)
        /\ \A i \in 1..(Len(r) + Len(order)) :
              rows'[i] = IF i <= Len(r) THEN r[i] ELSE order[i - Len(r)]
    <3>1. r \in Seq(Row) /\ order \in Seq(Row)
        BY <2>2, <1>5
    <3>2. /\ r \o order \in Seq(Row) /\ Len(r \o order) = Len(r) + Len(order)
          /\ \A i \in 1..(Len(r) + Len(order)) :
                (r \o order)[i] = IF i <= Len(r) THEN r[i] ELSE order[i - Len(r)]
        BY <3>1, ConcatProperties
    <3> QED
        BY <2>2, <3>2
  <2>4. DOMAIN rows' = 1..(Len(rows) + n)
      BY <2>2, <2>3, <1>5, LenProperties
  <2>5. ASSUME NEW i \in DOMAIN rows' PROVE rows'[i].epoch \in heads'
    <3>1. i \in 1..Len(rows') /\ i \in Nat
        BY <2>2, <2>3, <2>4, <1>5
    <3>2. CASE i <= Len(rows)
      <4>1. i \in 1..Len(rows) /\ rows'[i] = r[i]
          BY <2>1, <2>2, <2>3, <3>1, <3>2
      <4> QED
          BY <4>1, <2>1, <1>2 DEF r
    <3>3. CASE ~(i <= Len(rows))
      <4>1. rows'[i] = order[i - Len(r)]
          BY <2>2, <2>3, <3>1, <3>3
      <4>2. i - Len(r) \in 1..n
          BY <2>1, <2>2, <2>4, <3>1, <3>3, <1>5
      <4> QED
          BY <4>1, <4>2, <1>5
    <3> QED
        BY <3>2, <3>3
  <2>6. DOMAIN rows \subseteq DOMAIN rows'
      BY <2>1, <2>4, <1>5, RowsAreNumbered
  <2> QED
      BY <2>3, <2>5, <2>6 DEF RowsOK
<1>7. Snapshot(old) \in Taken
  <2>1. old \subseteq DOMAIN rows
      BY <1>2 DEF IInv, PlansOK
  <2>2. old \in SUBSET Nat /\ \A i \in old : rows[i].status \in Statuses
      BY <2>1, RowsAreNumbered DEF Row, Statuses
  <2>3. Snapshot(old) \in [old -> Statuses]
      BY <2>2 DEF Snapshot
  <2> QED
      BY <2>2, <2>3 DEF Taken
<1>8. EpochsOK' /\ DOMAIN epochs' = DOMAIN epochs /\ Len(epochs') = Len(epochs)
  <2> DEFINE f == Flipped(e, Snapshot(old))
  <2>1. \A x \in DOMAIN epochs : EpochOK(x, f[x], heads')
      BY <1>2, <1>3, <1>7, FlippedOK
  <2>2. epochs' = [x \in DOMAIN epochs |-> f[x]]
      BY <1>2 DEF Flipped
  <2> HIDE DEF f
  <2> QED
      BY <1>2, <2>1, <2>2, EpochsRewritten
<1>9. HeadOK'
    BY <1>2, <1>3, <1>8 DEF IInv, HeadOK
<1>10. OpsOK'
    BY <1>2, <1>8, OpsStep, IdleOK, EpochsAreNumbered
<1>11. PlansOK'
  <2>1. ops' = [ops EXCEPT ![o] = Idle] /\ ops \in [Operators -> Operation]
      BY <1>2 DEF Becomes, IInv, OpsOK
  <2>2. ASSUME NEW p \in Operators, ops'[p].pc = "restore"
        PROVE  epochs'[ops'[p].epoch].parent # Never
    <3>1. p # o /\ ops'[p] = ops[p]
        BY <2>1, <2>2, IdleOK, EpochsAreNumbered
    <3>2. ops[p].epoch \in DOMAIN epochs /\ epochs[ops[p].epoch].parent # Never
        BY <2>2, <3>1, OperationHere DEF IInv, PlansOK
    <3>3. Flipped(e, Snapshot(old))[ops[p].epoch].parent = epochs[ops[p].epoch].parent
        BY <3>2, <1>3, <1>7, FlippedOK
    <3> QED
        BY <3>1, <3>2, <3>3, <1>2
  <2>3. DOMAIN rows \subseteq DOMAIN rows'
      BY <1>6
  <2>4. ASSUME NEW p \in Operators, ops'[p].pc = "merge"
        PROVE  ops'[p].old \subseteq DOMAIN rows'
    <3>1. p # o /\ ops'[p] = ops[p]
        BY <2>1, <2>4, IdleOK, EpochsAreNumbered
    <3> QED
        BY <3>1, <2>3, <2>4 DEF IInv, PlansOK
  <2> QED
      BY <2>2, <2>4 DEF PlansOK
<1> QED
    BY <1>6, <1>8, <1>9, <1>10, <1>11 DEF IInv

-----------------------------------------------------------------------------
LEMMA RollbackReadOK ==
    ASSUME IInv, NEW o \in Operators, RollbackRead(o)
    PROVE  IInv'
<1> PICK snapshot : snapshot = epochs[head].snapshot
    OBVIOUS
<1> DEFINE new == [Idle EXCEPT !.pc = "restore", !.epoch = head, !.old = snapshot]
<1>1. /\ UNCHANGED <<rows, epochs, head, formed, heads>> /\ Becomes(o, new)
      /\ epochs[head].parent # Never /\ snapshot # NotAdopted
    BY DEF RollbackRead
<1>2. Idle \in Operation /\ head \in Nat /\ head \in 1..Len(epochs) /\ head \in DOMAIN epochs
    BY EpochsAreNumbered, IdleOK DEF OperationOK
<1>3. snapshot \in Taken
  <2>1. epochs[head] \in EpochRecord
      BY <1>2, EpochHere
  <2>2. epochs[head].snapshot \in Taken \cup {NotAdopted}
      BY <2>1 DEF EpochRecord
  <2> QED
      BY <2>2, <1>1
<1>4. new.pc = "restore" /\ new.epoch = head /\ new.new = {} /\ new.old = snapshot
    BY DEF Idle
<1>5. new \in Operation
    BY <1>2, <1>3 DEF Operation
<1> HIDE DEF new
<1>6. OperationOK(new, heads, Len(epochs))
    BY <1>2, <1>3, <1>4, <1>5 DEF OperationOK
<1> QED
    BY <1>1, <1>4, <1>6, OnlyOps

LEMMA RollbackWriteOK ==
    ASSUME IInv, NEW o \in Operators, RollbackWrite(o)
    PROVE  IInv'
<1> PICK e : e = ops[o].epoch
    OBVIOUS
<1> PICK snapshot : snapshot = ops[o].old
    OBVIOUS
<1> PICK parent : parent = epochs[e].parent
    OBVIOUS
<1>1. /\ ops[o].pc = "restore"
      /\ rows' = [i \in DOMAIN rows |->
                    IF i \in DOMAIN snapshot
                    THEN [rows[i] EXCEPT !.status = snapshot[i]] ELSE rows[i]]
      /\ epochs' = [epochs EXCEPT ![e].status = "discarded", ![parent].status = "adopted"]
      /\ head' = parent /\ Becomes(o, Idle) /\ UNCHANGED <<formed, heads>>
    BY DEF RollbackWrite
<1>2. /\ OperationOK(ops[o], heads, Len(epochs)) /\ e \in DOMAIN epochs
      /\ snapshot \in Taken /\ parent # Never
    BY <1>1, OperationHere DEF IInv, PlansOK, OperationOK
<1>3. parent \in heads
    BY <1>2, EpochHere DEF EpochOK
<1> DEFINE g == [i \in DOMAIN rows |->
                   IF i \in DOMAIN snapshot
                   THEN [rows[i] EXCEPT !.status = snapshot[i]] ELSE rows[i]]
<1>4. rows' = [i \in DOMAIN rows |-> g[i]]
    BY <1>1
<1>5. \A i \in DOMAIN rows : g[i] \in Row /\ g[i].epoch = rows[i].epoch
  <2> TAKE i \in DOMAIN rows
  <2>1. rows[i] \in Row
      BY RowsAreNumbered
  <2>2. CASE i \in DOMAIN snapshot
    <3>1. snapshot[i] \in Statuses
        BY <1>2, <2>2 DEF Taken
    <3> DEFINE y == [rows[i] EXCEPT !.status = snapshot[i]]
    <3>2. y \in Row /\ y.epoch = rows[i].epoch
        BY <2>1, <3>1 DEF Row, Statuses
    <3>3. g[i] = y
        BY <2>2
    <3> HIDE DEF y, g
    <3> QED
        BY <3>2, <3>3
  <2>3. CASE i \notin DOMAIN snapshot
      BY <2>1, <2>3
  <2> QED
      BY <2>2, <2>3
<1> HIDE DEF g
<1>6. RowsOK' /\ DOMAIN rows' = DOMAIN rows
    BY <1>1, <1>4, <1>5, RowsRewritten
<1> DEFINE f == [x \in DOMAIN epochs |->
                   IF x = parent THEN [epochs[x] EXCEPT !.status = "adopted"]
                   ELSE IF x = e THEN [epochs[x] EXCEPT !.status = "discarded"]
                   ELSE epochs[x]]
<1>7. \A x \in DOMAIN epochs : EpochOK(x, f[x], heads) /\ f[x].parent = epochs[x].parent
  <2> TAKE x \in DOMAIN epochs
  <2>1. EpochOK(x, epochs[x], heads) /\ epochs[x] \in EpochRecord
      BY EpochHere
  <2> DEFINE y(status) == [epochs[x] EXCEPT !.status = status]
  <2>2. ASSUME NEW status \in {"adopted", "discarded"}
        PROVE  EpochOK(x, y(status), heads) /\ y(status).parent = epochs[x].parent
    <3>1. /\ y(status) \in EpochRecord /\ y(status).parent = epochs[x].parent
          /\ y(status).line = epochs[x].line /\ y(status).shadow = epochs[x].shadow
        BY <2>1 DEF EpochRecord
    <3> HIDE DEF y
    <3> QED
        BY <2>1, <3>1 DEF EpochOK
  <2>3. f[x] = y("adopted") \/ f[x] = y("discarded") \/ f[x] = epochs[x]
      OBVIOUS
  <2> HIDE DEF y, f
  <2> QED
      BY <2>1, <2>2, <2>3
<1>8. epochs' = [x \in DOMAIN epochs |-> f[x]]
  <2>1. parent < e /\ e \in Nat
      BY <1>2, EpochHere, EpochsAreNumbered DEF EpochOK
  <2>2. parent # e
      BY <2>1, <1>3, EpochsAreNumbered
  <2> QED
      BY <1>1, <2>2
<1> HIDE DEF f
<1>9. EpochsOK' /\ DOMAIN epochs' = DOMAIN epochs /\ Len(epochs') = Len(epochs)
    BY <1>1, <1>7, <1>8, EpochsRewritten
<1>10. HeadOK'
    BY <1>1, <1>3, <1>9 DEF IInv, HeadOK
<1>11. OpsOK'
    BY <1>1, <1>9, OpsStep, IdleOK, EpochsAreNumbered, SMTT(30)
<1>12. PlansOK'
  <2>1. ops' = [ops EXCEPT ![o] = Idle] /\ ops \in [Operators -> Operation]
      BY <1>1 DEF Becomes, IInv, OpsOK
  <2>2. ASSUME NEW p \in Operators, ops'[p].pc \in {"restore", "merge"}
        PROVE  p # o /\ ops'[p] = ops[p] /\ ops[p].epoch \in DOMAIN epochs
    <3>1. p # o /\ ops'[p] = ops[p]
        BY <2>1, <2>2, IdleOK, EpochsAreNumbered
    <3> QED
        BY <3>1, <2>2, OperationHere
  <2>3. ASSUME NEW p \in Operators, ops'[p].pc = "restore"
        PROVE  epochs'[ops'[p].epoch].parent # Never
      BY <2>2, <2>3, <1>7, <1>8 DEF IInv, PlansOK
  <2>4. ASSUME NEW p \in Operators, ops'[p].pc = "merge"
        PROVE  ops'[p].old \subseteq DOMAIN rows'
      BY <2>2, <2>4, <1>6 DEF IInv, PlansOK
  <2> QED
      BY <2>3, <2>4 DEF PlansOK
<1> QED
    BY <1>6, <1>9, <1>10, <1>11, <1>12 DEF IInv

\* An operator that stops, or refuses a branch, leaves only its own state.
LEMMA StopsOK ==
    ASSUME IInv, NEW o \in Operators, AdoptRefuse(o) \/ Crash(o)
    PROVE  IInv'
<1>1. UNCHANGED <<rows, epochs, head, formed, heads>> /\ Becomes(o, Idle)
    BY DEF AdoptRefuse, Crash
<1>2. OperationOK(Idle, heads, Len(epochs)) /\ Idle.pc = "idle"
    BY IdleOK, EpochsAreNumbered
<1> QED
    BY <1>1, <1>2, OnlyOps

LEMMA StepOK == IInv /\ [Next]_vars => IInv'
<1> SUFFICES ASSUME IInv, [Next]_vars PROVE IInv'
    OBVIOUS
<1>1. CASE \E ep \in Episodes, said \in Claims : LiveForm(ep, said)
    BY <1>1, LiveFormOK
<1>2. CASE \E i \in DOMAIN rows : LiveRetire(i)
    BY <1>2, LiveRetireOK
<1>3. CASE \E o \in Operators, chosen \in SUBSET Episodes, tier \in Tiers :
               BranchOpen(o, chosen, tier)
    BY <1>3, BranchOpenOK
<1>4. CASE \E o \in Operators : BranchSeed(o)
    BY <1>4, BranchSeedOK
<1>5. CASE \E o \in Operators, ep \in Episodes, found \in SUBSET Claims : Recompute(o, ep, found)
    BY <1>5, RecomputeOK
<1>6. CASE \E o \in Operators : BranchReady(o) \/ BranchFail(o)
    BY <1>6, BranchReadyOK, BranchFailOK
<1>7. CASE \E o \in Operators, e \in DOMAIN epochs : AdoptCheck(o, e)
    BY <1>7, AdoptCheckOK
<1>8. CASE \E o \in Operators : AdoptRefuse(o) \/ Crash(o)
    BY <1>8, StopsOK
<1>9. CASE \E o \in Operators : AdoptDiff(o) \/ AdoptMerge(o)
    BY <1>9, AdoptDiffOK, AdoptMergeOK
<1>10. CASE \E o \in Operators : RollbackRead(o) \/ RollbackWrite(o)
    BY <1>10, RollbackReadOK, RollbackWriteOK
<1>11. CASE UNCHANGED vars
    BY <1>11 DEF vars, IInv, RowsOK, EpochsOK, HeadOK, OpsOK, PlansOK
<1> QED
    BY <1>1, <1>2, <1>3, <1>4, <1>5, <1>6, <1>7, <1>8, <1>9, <1>10, <1>11 DEF Next

LEMMA Inductive == Spec => []IInv
<1> QED
    BY InitOK, StepOK, PTL DEF Spec

-----------------------------------------------------------------------------
(* Rows, epochs and operations are what TypeOK says.                          *)
THEOREM TypeCorrect == Spec => []TypeOK
<1>1. IInv => TypeOK
  <2> SUFFICES ASSUME IInv PROVE TypeOK
      OBVIOUS
  <2>1. rows \in Seq(Row) /\ head \in DOMAIN epochs /\ heads \subseteq DOMAIN epochs
        /\ formed \subseteq Episodes
      BY EpochsAreNumbered DEF IInv, RowsOK, HeadOK
  <2>2. ASSUME NEW e \in DOMAIN epochs
        PROVE  /\ epochs[e].parent < e /\ e \in epochs[e].line
               /\ epochs[e].line \subseteq 1..e
               /\ epochs[e].status \in {"open", "ready", "adopted", "superseded", "discarded"}
               /\ epochs[e].shadow \subseteq Version
      BY EpochHere DEF EpochOK, EpochRecord
  <2>3. ASSUME NEW o \in Operators
        PROVE  /\ ops[o].pc \in {"idle", "seed", "recompute", "verify", "merge", "restore"}
               /\ ops[o].pc # "idle" => ops[o].epoch \in DOMAIN epochs
      BY OperationHere DEF Operation
  <2> QED
      BY <2>1, <2>2, <2>3 DEF TypeOK
<1> QED
    BY <1>1, Inductive, PTL

(* No branch surfaces in the live store before it is adopted: every row, and  *)
(* every epoch HEAD reads, is of an epoch that has been HEAD.                 *)
THEOREM BranchesStayHidden == Spec => []OnlyAdoptedIsRead
<1>1. IInv => OnlyAdoptedIsRead
  <2> SUFFICES ASSUME IInv PROVE OnlyAdoptedIsRead
      OBVIOUS
  <2>1. EpochOK(head, epochs[head], heads) /\ head \in heads
      BY EpochsAreNumbered, EpochHere DEF IInv, HeadOK
  <2>2. epochs[head].line \subseteq heads
      BY <2>1 DEF EpochOK
  <2> QED
      BY <2>2 DEF OnlyAdoptedIsRead, IInv, RowsOK
<1> QED
    BY <1>1, Inductive, PTL

-----------------------------------------------------------------------------
(* HEAD, in one process whose operators adopt finished branches of HEAD.      *)
Orderly == OneProcess /\ "overlap" \notin Misuse /\ "unfinished" \notin Misuse

(* An epoch reads itself and what its parent reads.                           *)
LinesOK == \A e \in DOMAIN epochs :
    epochs[e].line = {e} \cup (IF epochs[e].parent = Never THEN {}
                               ELSE epochs[epochs[e].parent].line)

(* A branch in the making is open, and in one operator's hands.               *)
Working(o) == ops[o].pc \in {"seed", "recompute"}
WorkOK ==
    /\ \A o \in Operators : Working(o) => epochs[ops[o].epoch].status = "open"
    /\ \A o, p \in Operators :
          Working(o) /\ Working(p) /\ ops[o].epoch = ops[p].epoch => o = p

(* One operator at a time is inside a call, and what it found there holds.    *)
InCall(o) == ops[o].pc \notin {"idle", "recompute"}
CallOK ==
    /\ \A o, p \in Operators : InCall(o) /\ InCall(p) => o = p
    /\ \A o \in Operators : ops[o].pc \in {"verify", "merge"} =>
          epochs[ops[o].epoch].status = "ready" /\ epochs[ops[o].epoch].parent = head
    /\ \A o \in Operators : ops[o].pc = "restore" => ops[o].epoch = head

HInv == IInv /\ OneHead /\ LinesOK /\ WorkOK /\ CallOK

LEMMA NobodyInCall ==
    ASSUME Orderly, Interleaves
    PROVE  \A o \in Operators : ~InCall(o)
BY DEF Orderly, Interleaves, InCall

LEMMA OpsAre ==
    ASSUME IInv, NEW o \in Operators, NEW new, Becomes(o, new)
    PROVE  ops'[o] = new /\ \A p \in Operators \ {o} : ops'[p] = ops[p]
BY DEF Becomes, IInv, OpsOK

LEMMA HeadInit == Init => OneHead /\ LinesOK /\ WorkOK /\ CallOK
<1> SUFFICES ASSUME Init PROVE OneHead /\ LinesOK /\ WorkOK /\ CallOK
    OBVIOUS
<1>1. /\ DOMAIN epochs = {1} /\ head = 1 /\ epochs[1].line = {1}
      /\ epochs[1].status = "adopted" /\ epochs[1].parent = Never
    BY DEF Init
<1>2. \A o \in Operators : ops[o].pc = "idle"
    BY DEF Init, Idle
<1>3. OneHead /\ LinesOK
    BY <1>1 DEF OneHead, LinesOK
<1>4. WorkOK /\ CallOK
    BY <1>2 DEF WorkOK, CallOK, Working, InCall
<1> QED
    BY <1>3, <1>4

\* A call that begins, goes on or ends without touching an epoch.
LEMMA CallStep ==
    ASSUME HInv, UNCHANGED <<epochs, head>>, NEW o \in Operators, NEW new,
           Becomes(o, new), new.pc \notin {"seed", "recompute"},
           new.pc # "idle" => \A p \in Operators \ {o} : ~InCall(p),
           new.pc \in {"verify", "merge"} =>
               epochs[new.epoch].status = "ready" /\ epochs[new.epoch].parent = head,
           new.pc = "restore" => new.epoch = head
    PROVE  OneHead' /\ LinesOK' /\ WorkOK' /\ CallOK'
<1>1. ops'[o] = new /\ \A p \in Operators \ {o} : ops'[p] = ops[p]
    BY OpsAre DEF HInv
<1>2. OneHead' /\ LinesOK'
    BY DEF HInv, OneHead, LinesOK
<1>3. WorkOK'
  <2>1. \A p \in Operators : Working(p)' => p # o /\ Working(p) /\ ops'[p] = ops[p]
      BY <1>1 DEF Working
  <2> QED
      BY <2>1 DEF HInv, WorkOK
<1>4. CallOK'
  <2>1. \A p \in Operators \ {o} : InCall(p)' => InCall(p)
      BY <1>1 DEF InCall
  <2>2. InCall(o)' => \A p \in Operators \ {o} : ~InCall(p)
      BY <1>1 DEF InCall
  <2>3. \A p, q \in Operators : InCall(p)' /\ InCall(q)' => p = q
      BY <2>1, <2>2 DEF HInv, CallOK
  <2>4. \A p \in Operators : ops'[p].pc \in {"verify", "merge"} =>
            epochs[ops'[p].epoch].status = "ready" /\ epochs[ops'[p].epoch].parent = head
      BY <1>1 DEF HInv, CallOK
  <2>5. \A p \in Operators : ops'[p].pc = "restore" => ops'[p].epoch = head
      BY <1>1 DEF HInv, CallOK
  <2> QED
      BY <2>3, <2>4, <2>5 DEF CallOK
<1> QED
    BY <1>2, <1>3, <1>4

\* Work on a branch touches neither HEAD nor what HEAD reads.
LEMMA BranchStep ==
    ASSUME HInv, UNCHANGED head, NEW o \in Operators, Working(o),
           NEW e, e = ops[o].epoch, NEW f,
           epochs' = [x \in DOMAIN epochs |-> f[x]],
           \A x \in DOMAIN epochs : f[x].parent = epochs[x].parent /\ f[x].line = epochs[x].line,
           \A x \in DOMAIN epochs \ {e} : f[x].status = epochs[x].status,
           f[e].status \in {"open", "ready", "discarded"}, NEW new, Becomes(o, new),
           \/ new.pc = "idle"
           \/ new.pc = "recompute" /\ new.epoch = e /\ f[e].status = "open"
    PROVE  OneHead' /\ LinesOK' /\ WorkOK' /\ CallOK'
<1>1. ops'[o] = new /\ \A p \in Operators \ {o} : ops'[p] = ops[p]
    BY OpsAre DEF HInv
<1>2. e \in DOMAIN epochs /\ epochs[e].status = "open"
    BY OperationHere DEF HInv, WorkOK, Working
<1>3. head \in DOMAIN epochs /\ epochs[head].status = "adopted"
    BY EpochsAreNumbered DEF HInv, OneHead
<1>4. epochs[head].line \subseteq DOMAIN epochs
  <2>1. epochs[head].line \subseteq 1..head /\ head \in 1..Len(epochs)
      BY <1>3, EpochHere, EpochsAreNumbered DEF HInv, EpochOK
  <2> QED
      BY <2>1, EpochsAreNumbered DEF HInv
<1>5. e # head /\ e \notin epochs[head].line
    BY <1>2, <1>3, <1>4 DEF HInv, OneHead
<1>6. DOMAIN epochs' = DOMAIN epochs
    OBVIOUS
<1>7. OneHead'
    BY <1>2, <1>3, <1>4, <1>5, <1>6 DEF HInv, OneHead
<1>8. LinesOK'
  <2> SUFFICES ASSUME NEW x \in DOMAIN epochs
               PROVE  epochs'[x].line = {x} \cup
                          (IF epochs'[x].parent = Never THEN {}
                           ELSE epochs'[epochs'[x].parent].line)
      BY <1>6 DEF LinesOK
  <2>1. epochs[x].parent \in {Never} \cup DOMAIN epochs
      BY EpochHere, EpochsAreNumbered DEF HInv, EpochOK, IInv, HeadOK
  <2> QED
      BY <2>1 DEF HInv, LinesOK
<1>9. WorkOK'
  <2>1. \A p \in Operators \ {o} : Working(p)' => Working(p) /\ ops[p].epoch # e
                                                /\ ops[p].epoch \in DOMAIN epochs
      BY <1>1, OperationHere DEF HInv, WorkOK, Working
  <2>2. Working(o)' => ops'[o].epoch = e /\ epochs'[e].status = "open"
      BY <1>1, <1>2 DEF Working
  <2>3. \A p \in Operators : Working(p)' => epochs'[ops'[p].epoch].status = "open"
      BY <1>1, <2>1, <2>2 DEF HInv, WorkOK
  <2>4. \A p, q \in Operators :
            Working(p)' /\ Working(q)' /\ ops'[p].epoch = ops'[q].epoch => p = q
      BY <1>1, <2>1, <2>2 DEF HInv, WorkOK
  <2> QED
      BY <2>3, <2>4 DEF WorkOK
<1>10. CallOK'
  <2>1. ~InCall(o)'
      BY <1>1 DEF InCall
  <2>2. \A p \in Operators \ {o} : InCall(p)' => InCall(p)
      BY <1>1 DEF InCall
  <2>3. \A p, q \in Operators : InCall(p)' /\ InCall(q)' => p = q
      BY <2>1, <2>2 DEF HInv, CallOK
  <2>4. ASSUME NEW p \in Operators, ops'[p].pc \in {"verify", "merge"}
        PROVE  epochs'[ops'[p].epoch].status = "ready" /\ epochs'[ops'[p].epoch].parent = head
    <3>1. p # o /\ ops'[p] = ops[p]
        BY <2>4, <1>1
    <3>2. epochs[ops[p].epoch].status = "ready" /\ epochs[ops[p].epoch].parent = head
        BY <2>4, <3>1 DEF HInv, CallOK
    <3>3. ops[p].epoch \in DOMAIN epochs \ {e}
        BY <2>4, <3>1, <3>2, <1>2, OperationHere DEF HInv
    <3> QED
        BY <3>1, <3>2, <3>3
  <2>5. \A p \in Operators : ops'[p].pc = "restore" => ops'[p].epoch = head
      BY <1>1 DEF HInv, CallOK
  <2> QED
      BY <2>3, <2>4, <2>5 DEF CallOK
<1> QED
    BY <1>7, <1>8, <1>9, <1>10

LEMMA OpenKeepsHead ==
    ASSUME HInv, Orderly, NEW o \in Operators, NEW chosen \in SUBSET Episodes,
           NEW tier \in Tiers, BranchOpen(o, chosen, tier)
    PROVE  OneHead' /\ LinesOK' /\ WorkOK' /\ CallOK'
<1> DEFINE n == Len(epochs) + 1
           new == [Idle EXCEPT !.pc = "seed", !.epoch = n, !.todo = chosen]
<1>1. /\ epochs' = Append(epochs, Opened(chosen, tier)) /\ Becomes(o, new)
      /\ head' = head /\ Interleaves
    BY DEF BranchOpen
<1>2. new.pc = "seed" /\ new.epoch = n
    BY DEF Idle
<1> HIDE DEF new
<1>3. ops'[o] = new /\ \A p \in Operators \ {o} : ops'[p] = ops[p]
    BY <1>1, OpsAre DEF HInv
<1>4. \A p \in Operators : ~InCall(p)
    BY <1>1, NobodyInCall
<1>5. /\ DOMAIN epochs' = DOMAIN epochs \cup {n} /\ n \notin DOMAIN epochs
      /\ epochs'[n] = Opened(chosen, tier)
      /\ \A x \in DOMAIN epochs : epochs'[x] = epochs[x]
    BY <1>1, EpochsAreNumbered DEF HInv
<1>6. /\ epochs'[n].parent = head /\ epochs'[n].status = "open"
      /\ epochs'[n].line = {n} \cup epochs[head].line
    BY <1>5 DEF Opened
<1>7. head \in DOMAIN epochs /\ head # Never
    BY EpochsAreNumbered DEF HInv, Never
<1>8. epochs[head].line \subseteq DOMAIN epochs
  <2>1. epochs[head].line \subseteq 1..head /\ head \in 1..Len(epochs)
      BY <1>7, EpochHere, EpochsAreNumbered DEF HInv, EpochOK
  <2> QED
      BY <2>1, EpochsAreNumbered DEF HInv
<1>9. OneHead'
    BY <1>1, <1>5, <1>6, <1>7, <1>8 DEF HInv, OneHead
<1>10. LinesOK'
  <2> SUFFICES ASSUME NEW x \in DOMAIN epochs'
               PROVE  epochs'[x].line = {x} \cup
                          (IF epochs'[x].parent = Never THEN {}
                           ELSE epochs'[epochs'[x].parent].line)
      BY DEF LinesOK
  <2>1. CASE x = n
      BY <2>1, <1>5, <1>6, <1>7
  <2>2. CASE x \in DOMAIN epochs
    <3>1. epochs[x].parent \in {Never} \cup DOMAIN epochs
        BY <2>2, EpochHere, EpochsAreNumbered DEF HInv, EpochOK, IInv, HeadOK
    <3> QED
        BY <2>2, <3>1, <1>5 DEF HInv, LinesOK
  <2> QED
      BY <2>1, <2>2, <1>5
<1>11. WorkOK'
  <2>1. \A p \in Operators \ {o} : Working(p)' => Working(p) /\ ops[p].epoch \in DOMAIN epochs
      BY <1>3, OperationHere DEF HInv, Working
  <2>2. \A p \in Operators : Working(p)' => epochs'[ops'[p].epoch].status = "open"
      BY <2>1, <1>2, <1>3, <1>5, <1>6 DEF HInv, WorkOK
  <2>3. \A p, q \in Operators :
            Working(p)' /\ Working(q)' /\ ops'[p].epoch = ops'[q].epoch => p = q
      BY <2>1, <1>2, <1>3, <1>5 DEF HInv, WorkOK
  <2> QED
      BY <2>2, <2>3 DEF WorkOK
<1>12. CallOK'
  <2>1. \A p \in Operators \ {o} : ops'[p].pc \in {"idle", "recompute"}
      BY <1>3, <1>4 DEF InCall
  <2> QED
      BY <2>1, <1>2, <1>3 DEF CallOK, InCall
<1> QED
    BY <1>9, <1>10, <1>11, <1>12

\* Work on a branch.
LEMMA WorkKeepsHead ==
    ASSUME HInv, NEW o \in Operators,
           \/ BranchSeed(o) \/ BranchReady(o) \/ BranchFail(o)
           \/ \E ep \in Episodes, found \in SUBSET Claims : Recompute(o, ep, found)
    PROVE  OneHead' /\ LinesOK' /\ WorkOK' /\ CallOK'
<1> DEFINE e == ops[o].epoch
<1>1. Working(o) /\ UNCHANGED head
    BY DEF BranchSeed, BranchReady, BranchFail, Recompute, Working
<1>2. e \in DOMAIN epochs /\ epochs[e].status = "open" /\ epochs[e] \in EpochRecord
    BY <1>1, OperationHere, EpochHere DEF HInv, WorkOK, Working
<1>3. ops[o] \in Operation
    BY OperationHere DEF HInv
<1>4. CASE BranchSeed(o)
  <2> DEFINE s == {AsVersion(rows[i]) : i \in Baseline(e)}
             b == {AsVersion(rows[i]) : i \in HeadRows}
             f == [x \in DOMAIN epochs |->
                      IF x = e THEN [epochs[x] EXCEPT !.shadow = s, !.base = b] ELSE epochs[x]]
             new == [ops[o] EXCEPT !.pc = "recompute"]
  <2>1. epochs' = [x \in DOMAIN epochs |-> f[x]] /\ Becomes(o, new)
      BY <1>4, <1>2 DEF BranchSeed
  <2> HIDE DEF s, b
  <2>2. /\ f[e].parent = epochs[e].parent /\ f[e].line = epochs[e].line
        /\ f[e].status = "open"
      BY <1>2 DEF EpochRecord
  <2>3. new.pc = "recompute" /\ new.epoch = e
      BY <1>3 DEF Operation
  <2> HIDE DEF new, e
  <2> QED
      BY <1>1, <2>1, <2>2, <2>3, BranchStep DEF e
<1>5. CASE \E ep \in Episodes, found \in SUBSET Claims : Recompute(o, ep, found)
  <2>1. PICK s, fs, d, t :
            /\ epochs' = [epochs EXCEPT ![e].shadow = s, ![e].finals = fs]
            /\ Becomes(o, [ops[o] EXCEPT !.todo = t, !.dirty = d])
            /\ ops[o].pc = "recompute"
      BY <1>5, <1>2 DEF Recompute
  <2> DEFINE f == [x \in DOMAIN epochs |->
                      IF x = e THEN [epochs[x] EXCEPT !.shadow = s, !.finals = fs] ELSE epochs[x]]
             new == [ops[o] EXCEPT !.todo = t, !.dirty = d]
  <2>2. epochs' = [x \in DOMAIN epochs |-> f[x]] /\ Becomes(o, new)
      BY <2>1, <1>2
  <2>3. /\ f[e].parent = epochs[e].parent /\ f[e].line = epochs[e].line
        /\ f[e].status = "open"
      BY <1>2 DEF EpochRecord
  <2>4. new.pc = "recompute" /\ new.epoch = e
      BY <1>3, <2>1 DEF Operation
  <2> HIDE DEF new, e
  <2> QED
      BY <1>1, <2>2, <2>3, <2>4, BranchStep DEF e
<1>6. CASE BranchReady(o)
  <2> DEFINE f == [x \in DOMAIN epochs |->
                      IF x = e THEN [epochs[x] EXCEPT !.status = "ready"] ELSE epochs[x]]
  <2>1. epochs' = [x \in DOMAIN epochs |-> f[x]] /\ Becomes(o, Idle)
      BY <1>6, <1>2 DEF BranchReady
  <2>2. /\ f[e].parent = epochs[e].parent /\ f[e].line = epochs[e].line
        /\ f[e].status = "ready"
      BY <1>2 DEF EpochRecord
  <2>3. Idle.pc = "idle"
      BY DEF Idle
  <2>4. \A x \in DOMAIN epochs \ {e} : f[x] = epochs[x]
      OBVIOUS
  <2> HIDE DEF f
  <2> QED
      BY <1>1, <2>1, <2>2, <2>3, <2>4, BranchStep
<1>7. CASE BranchFail(o)
  <2> DEFINE f == [x \in DOMAIN epochs |->
                      IF x = e THEN Closed(epochs[x], "discarded") ELSE epochs[x]]
  <2>1. epochs' = [x \in DOMAIN epochs |-> f[x]] /\ Becomes(o, Idle)
      BY <1>7, <1>2 DEF BranchFail
  <2>2. /\ f[e].parent = epochs[e].parent /\ f[e].line = epochs[e].line
        /\ f[e].status = "discarded"
      BY <1>2 DEF EpochRecord, Closed
  <2>3. Idle.pc = "idle"
      BY DEF Idle
  <2>4. \A x \in DOMAIN epochs \ {e} : f[x] = epochs[x]
      OBVIOUS
  <2> HIDE DEF f
  <2> QED
      BY <1>1, <2>1, <2>2, <2>3, <2>4, BranchStep
<1> QED
    BY <1>4, <1>5, <1>6, <1>7

\* Calls, up to the step that moves HEAD.
LEMMA CallKeepsHead ==
    ASSUME HInv, Orderly, NEW o \in Operators,
           \/ AdoptRefuse(o) \/ AdoptDiff(o) \/ RollbackRead(o) \/ Crash(o)
           \/ \E e \in DOMAIN epochs : AdoptCheck(o, e)
    PROVE  OneHead' /\ LinesOK' /\ WorkOK' /\ CallOK'
<1>1. CASE AdoptRefuse(o) \/ Crash(o)
  <2>1. UNCHANGED <<epochs, head>> /\ Becomes(o, Idle) /\ Idle.pc = "idle"
      BY <1>1 DEF AdoptRefuse, Crash, Idle
  <2> QED
      BY <2>1, CallStep
<1>2. CASE AdoptDiff(o)
  <2>1. PICK n, d : /\ Becomes(o, [ops[o] EXCEPT !.pc = "merge", !.new = n, !.old = d])
                    /\ UNCHANGED <<epochs, head>> /\ ops[o].pc = "verify"
      BY <1>2 DEF AdoptDiff
  <2> DEFINE new == [ops[o] EXCEPT !.pc = "merge", !.new = n, !.old = d]
  <2>2. new.pc = "merge" /\ new.epoch = ops[o].epoch
      BY OperationHere DEF HInv, Operation
  <2>3. \A p \in Operators \ {o} : ~InCall(p)
      BY <2>1 DEF HInv, CallOK, InCall
  <2>4. epochs[ops[o].epoch].status = "ready" /\ epochs[ops[o].epoch].parent = head
      BY <2>1 DEF HInv, CallOK
  <2>5. Becomes(o, new)
      BY <2>1
  <2> HIDE DEF new
  <2> QED
      BY <2>1, <2>2, <2>3, <2>4, <2>5, CallStep
<1>3. CASE RollbackRead(o)
  <2> DEFINE new == [Idle EXCEPT !.pc = "restore", !.epoch = head, !.old = epochs[head].snapshot]
  <2>1. UNCHANGED <<epochs, head>> /\ Becomes(o, new) /\ Interleaves
      BY <1>3 DEF RollbackRead
  <2>2. new.pc = "restore" /\ new.epoch = head
      BY DEF Idle
  <2>3. \A p \in Operators \ {o} : ~InCall(p)
      BY <2>1, NobodyInCall
  <2> HIDE DEF new
  <2> QED
      BY <2>1, <2>2, <2>3, CallStep
<1>4. CASE \E e \in DOMAIN epochs : AdoptCheck(o, e)
  <2>1. PICK e \in DOMAIN epochs : AdoptCheck(o, e)
      BY <1>4
  <2> DEFINE new == [Idle EXCEPT !.pc = "verify", !.epoch = e]
  <2>2. UNCHANGED <<epochs, head>> /\ Becomes(o, new) /\ Interleaves
      BY <2>1 DEF AdoptCheck
  <2>3. new.pc = "verify" /\ new.epoch = e
      BY DEF Idle
  <2>4. epochs[e].status = "ready" /\ epochs[e].parent = head
      BY <2>1 DEF AdoptCheck, Documented, Orderly
  <2>5. \A p \in Operators \ {o} : ~InCall(p)
      BY <2>2, NobodyInCall
  <2> HIDE DEF new
  <2> QED
      BY <2>2, <2>3, <2>4, <2>5, CallStep
<1> QED
    BY <1>1, <1>2, <1>3, <1>4

\* HEAD moves: everybody else is idle or recomputing a branch, which stays open.
LEMMA HeadMoves ==
    ASSUME HInv, NEW o \in Operators, InCall(o), Becomes(o, Idle),
           DOMAIN epochs' = DOMAIN epochs, OneHead',
           \A x \in DOMAIN epochs :
               /\ epochs'[x].parent = epochs[x].parent /\ epochs'[x].line = epochs[x].line
               /\ epochs[x].status = "open" => epochs'[x].status = "open"
    PROVE  LinesOK' /\ WorkOK' /\ CallOK'
<1>1. ops'[o] = Idle /\ \A p \in Operators \ {o} : ops'[p] = ops[p]
    BY OpsAre DEF HInv
<1>2. Idle.pc = "idle"
    BY DEF Idle
<1>3. \A p \in Operators : Working(p)' => p # o /\ Working(p) /\ ops'[p] = ops[p]
                                        /\ ops[p].epoch \in DOMAIN epochs
    BY <1>1, <1>2, OperationHere DEF HInv, Working
<1>4. \A p \in Operators : ops'[p].pc \in {"idle", "recompute"}
  <2>1. \A p \in Operators \ {o} : ~InCall(p)
      BY DEF HInv, CallOK
  <2> QED
      BY <2>1, <1>1, <1>2 DEF InCall
<1>5. LinesOK'
  <2> SUFFICES ASSUME NEW x \in DOMAIN epochs
               PROVE  epochs'[x].line = {x} \cup
                          (IF epochs'[x].parent = Never THEN {}
                           ELSE epochs'[epochs'[x].parent].line)
      BY DEF LinesOK
  <2>1. epochs[x].parent \in {Never} \cup DOMAIN epochs
      BY EpochHere, EpochsAreNumbered DEF HInv, EpochOK, IInv, HeadOK
  <2> QED
      BY <2>1 DEF HInv, LinesOK
<1>6. WorkOK'
    BY <1>3 DEF HInv, WorkOK
<1>7. CallOK'
    BY <1>4 DEF CallOK, InCall
<1> QED
    BY <1>5, <1>6, <1>7

LEMMA MergeKeepsHead ==
    ASSUME HInv, NEW o \in Operators, AdoptMerge(o)
    PROVE  OneHead' /\ LinesOK' /\ WorkOK' /\ CallOK'
<1> DEFINE e == ops[o].epoch
           snapshot == Snapshot(ops[o].old)
           flipped == [Adopted(epochs[e]) EXCEPT !.snapshot = snapshot, !.before = Current]
           parent == [epochs[head] EXCEPT !.status = "superseded"]
<1>1. /\ epochs' = Flipped(e, snapshot) /\ head' = e /\ Becomes(o, Idle)
      /\ ops[o].pc = "merge"
    BY DEF AdoptMerge
<1>2. e \in DOMAIN epochs /\ epochs[e].status = "ready" /\ epochs[e].parent = head
    BY <1>1, OperationHere DEF HInv, CallOK
<1>3. head \in DOMAIN epochs /\ epochs[head].status = "adopted" /\ head # e /\ head # Never
    BY <1>2, EpochsAreNumbered DEF HInv, OneHead, Never
<1>4. /\ DOMAIN epochs' = DOMAIN epochs
      /\ epochs'[e] = flipped /\ epochs'[head] = parent
      /\ \A x \in DOMAIN epochs \ {e, head} : epochs'[x] = epochs[x]
    BY <1>1, <1>2, <1>3 DEF Flipped
<1>5. epochs[e] \in EpochRecord /\ epochs[head] \in EpochRecord
    BY <1>2, <1>3, EpochHere DEF HInv
<1>6. /\ flipped.status = "adopted" /\ flipped.parent = epochs[e].parent
      /\ flipped.line = epochs[e].line
    BY <1>2, <1>5 DEF Adopted, Closed, EpochRecord
<1>7. /\ parent.status = "superseded" /\ parent.parent = epochs[head].parent
      /\ parent.line = epochs[head].line
    BY <1>5 DEF EpochRecord
<1>8. epochs[e].line = {e} \cup epochs[head].line
    BY <1>2, <1>3 DEF HInv, LinesOK
<1> HIDE DEF flipped, parent, snapshot, e
<1>9. OneHead'
  <2>1. \A x \in DOMAIN epochs : epochs'[x].status = "adopted" <=> x = e
      BY <1>2, <1>3, <1>4, <1>6, <1>7 DEF HInv, OneHead
  <2>2. \A x \in epochs'[e].line \ {e} : epochs'[x].status = "superseded"
    <3> SUFFICES ASSUME NEW x \in epochs[head].line, x # e
                 PROVE  epochs'[x].status = "superseded"
        BY <1>4, <1>6, <1>8
    <3>1. CASE x = head
        BY <3>1, <1>4, <1>7
    <3>2. CASE x # head
      <4>1. epochs[x].status = "superseded"
          BY <3>2 DEF HInv, OneHead
      <4>2. x \in DOMAIN epochs
        <5>1. epochs[head].line \subseteq 1..head /\ head \in 1..Len(epochs)
            BY <1>3, EpochHere, EpochsAreNumbered DEF HInv, EpochOK
        <5> QED
            BY <5>1, EpochsAreNumbered DEF HInv
      <4> QED
          BY <4>1, <4>2, <3>2, <1>4
    <3> QED
        BY <3>1, <3>2
  <2> QED
      BY <2>1, <2>2, <1>1, <1>4 DEF OneHead
<1>10. \A x \in DOMAIN epochs :
           /\ epochs'[x].parent = epochs[x].parent /\ epochs'[x].line = epochs[x].line
           /\ epochs[x].status = "open" => epochs'[x].status = "open"
    BY <1>2, <1>3, <1>4, <1>6, <1>7
<1>11. InCall(o)
    BY <1>1 DEF InCall
<1> QED
    BY <1>1, <1>4, <1>9, <1>10, <1>11, HeadMoves

LEMMA RollbackKeepsHead ==
    ASSUME HInv, NEW o \in Operators, RollbackWrite(o)
    PROVE  OneHead' /\ LinesOK' /\ WorkOK' /\ CallOK'
<1> DEFINE up == epochs[head].parent
           dropped == [epochs[head] EXCEPT !.status = "discarded"]
           back == [epochs[up] EXCEPT !.status = "adopted"]
<1>1. ops[o].pc = "restore" /\ ops[o].epoch = head /\ Becomes(o, Idle)
    BY DEF RollbackWrite, HInv, CallOK
<1>2. /\ epochs' = [epochs EXCEPT ![head].status = "discarded", ![up].status = "adopted"]
      /\ head' = up
    BY <1>1 DEF RollbackWrite
<1>3. head \in DOMAIN epochs /\ epochs[head].status = "adopted" /\ head \in Nat
    BY EpochsAreNumbered DEF HInv, OneHead
<1>4. up # Never /\ up < head /\ up \in DOMAIN epochs /\ up \in Nat
  <2>1. up # Never
      BY <1>1 DEF HInv, IInv, PlansOK
  <2>2. EpochOK(head, epochs[head], heads)
      BY <1>3, EpochHere DEF HInv
  <2> QED
      BY <2>1, <2>2, EpochsAreNumbered DEF EpochOK, HInv, IInv, HeadOK
<1>5. up # head
    BY <1>3, <1>4
<1>6. /\ DOMAIN epochs' = DOMAIN epochs
      /\ epochs'[head] = dropped /\ epochs'[up] = back
      /\ \A x \in DOMAIN epochs \ {up, head} : epochs'[x] = epochs[x]
    BY <1>2, <1>3, <1>4, <1>5
<1>7. epochs[up] \in EpochRecord /\ epochs[head] \in EpochRecord
    BY <1>3, <1>4, EpochHere DEF HInv
<1>8. /\ dropped.status = "discarded" /\ dropped.parent = epochs[head].parent
      /\ dropped.line = epochs[head].line
    BY <1>7 DEF EpochRecord
<1>9. /\ back.status = "adopted" /\ back.parent = epochs[up].parent
      /\ back.line = epochs[up].line
    BY <1>7 DEF EpochRecord
<1>10. epochs[head].line = {head} \cup epochs[up].line
    BY <1>3, <1>4 DEF HInv, LinesOK
<1>11. epochs[up].line \subseteq DOMAIN epochs /\ head \notin epochs[up].line
  <2>1. epochs[up].line \subseteq 1..up /\ up \in 1..Len(epochs)
      BY <1>4, EpochHere, EpochsAreNumbered DEF HInv, EpochOK
  <2> QED
      BY <2>1, <1>3, <1>4, EpochsAreNumbered DEF HInv
<1>12. up \in epochs[head].line \ {head}
    BY <1>4, <1>5, <1>10, EpochHere DEF HInv, EpochOK
<1> HIDE DEF up, dropped, back
<1>13. OneHead'
  <2>1. \A x \in DOMAIN epochs : epochs'[x].status = "adopted" <=> x = up
      BY <1>3, <1>4, <1>5, <1>6, <1>8, <1>9 DEF HInv, OneHead
  <2>2. \A x \in epochs'[up].line \ {up} : epochs'[x].status = "superseded"
    <3> SUFFICES ASSUME NEW x \in epochs[up].line, x # up
                 PROVE  epochs'[x].status = "superseded"
        BY <1>6, <1>9
    <3>1. x \in epochs[head].line \ {head} /\ x \in DOMAIN epochs
        BY <1>10, <1>11
    <3>2. epochs[x].status = "superseded"
        BY <3>1 DEF HInv, OneHead
    <3> QED
        BY <3>1, <3>2, <1>6
  <2> QED
      BY <2>1, <2>2, <1>2, <1>6 DEF OneHead
<1>14. \A x \in DOMAIN epochs :
           /\ epochs'[x].parent = epochs[x].parent /\ epochs'[x].line = epochs[x].line
           /\ epochs[x].status = "open" => epochs'[x].status = "open"
  <2>1. epochs[up].status = "superseded"
      BY <1>12 DEF HInv, OneHead
  <2> QED
      BY <2>1, <1>3, <1>6, <1>8, <1>9
<1>15. InCall(o)
    BY <1>1 DEF InCall
<1> QED
    BY <1>1, <1>6, <1>13, <1>14, <1>15, HeadMoves

LEMMA HeadStep == Orderly /\ HInv /\ [Next]_vars => HInv'
<1> SUFFICES ASSUME Orderly, HInv, [Next]_vars PROVE HInv'
    OBVIOUS
<1>1. IInv'
    BY StepOK DEF HInv
<1>2. CASE \/ \E ep \in Episodes, said \in Claims : LiveForm(ep, said)
           \/ \E i \in DOMAIN rows : LiveRetire(i)
           \/ UNCHANGED vars
  <2>1. UNCHANGED <<epochs, head, ops>>
      BY <1>2 DEF LiveForm, LiveRetire, vars
  <2> QED
      BY <1>1, <2>1 DEF HInv, OneHead, LinesOK, WorkOK, CallOK, Working, InCall
<1>3. CASE \E o \in Operators, chosen \in SUBSET Episodes, tier \in Tiers :
               BranchOpen(o, chosen, tier)
    BY <1>1, <1>3, OpenKeepsHead DEF HInv
<1>4. CASE \/ \E o \in Operators : BranchSeed(o) \/ BranchReady(o) \/ BranchFail(o)
           \/ \E o \in Operators, ep \in Episodes, found \in SUBSET Claims : Recompute(o, ep, found)
    BY <1>1, <1>4, WorkKeepsHead DEF HInv
<1>5. CASE \/ \E o \in Operators : AdoptRefuse(o) \/ AdoptDiff(o) \/ RollbackRead(o) \/ Crash(o)
           \/ \E o \in Operators, e \in DOMAIN epochs : AdoptCheck(o, e)
    BY <1>1, <1>5, CallKeepsHead DEF HInv
<1>6. CASE \E o \in Operators : AdoptMerge(o)
    BY <1>1, <1>6, MergeKeepsHead DEF HInv
<1>7. CASE \E o \in Operators : RollbackWrite(o)
    BY <1>1, <1>7, RollbackKeepsHead DEF HInv
<1> QED
    BY <1>2, <1>3, <1>4, <1>5, <1>6, <1>7 DEF Next

(* In one process whose operators adopt finished branches of HEAD, one epoch  *)
(* is adopted, HEAD, and all it grew from are superseded, however branches,   *)
(* adoptions, rollbacks and crashes follow each other.                        *)
THEOREM HeadIsOne == ASSUME Orderly PROVE Spec => []OneHead
<1>1. Init => HInv
    BY InitOK, HeadInit DEF HInv
<1>2. HInv /\ [Next]_vars => HInv'
    BY HeadStep
<1>3. HInv => OneHead
    BY DEF HInv
<1> QED
    BY <1>1, <1>2, <1>3, PTL DEF Spec

-----------------------------------------------------------------------------
(* Adoption and rollback, in the same process: what a branch's shadow and     *)
(* baseline say of HEAD, what an operator has in hand during a call, and what *)
(* an adopted epoch remembers of the HEAD before it.                          *)

\* A row of the baseline is in the shadow still, or a chosen episode is behind it
\* or behind what the shadow holds in its place.
Supported(b, epoch) ==
    \/ b \in epoch.shadow \/ b.eps \cap epoch.chosen # {}
    \/ \E c \in epoch.shadow : c.key = b.key /\ c.eps \cap epoch.chosen # {}

BranchOK(epoch) ==
    /\ \A v \in epoch.shadow : v.epoch \in epoch.line
    /\ \A b \in epoch.base : Supported(b, epoch)
BranchesOK ==
    /\ \A e \in DOMAIN epochs : /\ BranchOK(epochs[e])
                                /\ epochs[e].status \in {"open", "ready"} => e \notin heads
    /\ \A o \in Operators : Working(o) => ops[o].todo \subseteq epochs[ops[o].epoch].chosen

\* What diff_epochs finds, in the state it is asked in.
Appeared(e) == {c \in epochs[e].shadow : ~\E i \in HeadRows : Unchanged(c, rows[i])}
Gone(e) == {i \in HeadRows : ~\E c \in epochs[e].shadow : Unchanged(c, rows[i])}
NoDrift(e) == epochs[e].base = {AsVersion(rows[i]) : i \in HeadRows}

Agreed(o) ==
    /\ ops[o].pc = "seed" => epochs[ops[o].epoch].parent = head
    /\ ops[o].pc = "merge" => /\ ops[o].new = Appeared(ops[o].epoch)
                              /\ ops[o].old = Gone(ops[o].epoch)
    /\ ops[o].pc \in {"verify", "merge"} => "drift" \in Misuse \/ NoDrift(ops[o].epoch)
    /\ ops[o].pc = "restore" => /\ ops[o].old = epochs[head].snapshot
                                /\ ops[o].old # NotAdopted
CallsAgree == \A o \in Operators : Agreed(o)

Remembers(e) ==
    /\ \A i \in epochs[e].before : /\ i \in DOMAIN rows /\ epochs[e].parent # Never
                                   /\ rows[i].epoch \in epochs[epochs[e].parent].line
    /\ epochs[e].snapshot # NotAdopted =>
          \A i \in DOMAIN epochs[e].snapshot : epochs[e].snapshot[i] = "active"
Remembered == \A e \in DOMAIN epochs : Remembers(e)

AInv == HInv /\ BranchesOK /\ CallsAgree /\ Remembered

LEMMA AdoptInit == Init => BranchesOK /\ CallsAgree /\ Remembered
<1> SUFFICES ASSUME Init PROVE BranchesOK /\ CallsAgree /\ Remembered
    OBVIOUS
<1>1. /\ DOMAIN epochs = {1} /\ epochs[1].shadow = {} /\ epochs[1].base = {}
      /\ epochs[1].status = "adopted" /\ epochs[1].snapshot = NotAdopted
      /\ epochs[1].before = {}
    BY DEF Init
<1>2. \A o \in Operators : ops[o].pc = "idle"
    BY DEF Init, Idle
<1>3. BranchesOK
    BY <1>1, <1>2 DEF BranchesOK, BranchOK, Working
<1>4. CallsAgree
    BY <1>2 DEF CallsAgree, Agreed
<1>5. Remembered
    BY <1>1 DEF Remembered, Remembers
<1> QED
    BY <1>3, <1>4, <1>5

\* HEAD and the parent of an epoch are epochs.
LEMMA ParentsAreEpochs ==
    ASSUME IInv, NEW e \in DOMAIN epochs
    PROVE  epochs[e].parent \in {Never} \cup DOMAIN epochs
BY EpochHere, EpochsAreNumbered DEF EpochOK, IInv, HeadOK

\* What is remembered of HEAD stays true while rows keep their epochs and epochs
\* their line.
RowsStay == \A i \in DOMAIN rows : i \in DOMAIN rows' /\ rows'[i].epoch = rows[i].epoch

LEMMA StillRemembered ==
    ASSUME IInv, RowsStay, NEW e \in DOMAIN epochs, Remembers(e),
           DOMAIN epochs \subseteq DOMAIN epochs',
           \A x \in DOMAIN epochs : epochs'[x].line = epochs[x].line,
           epochs'[e].parent = epochs[e].parent,
           epochs'[e].before = epochs[e].before,
           epochs'[e].snapshot = epochs[e].snapshot
    PROVE  Remembers(e)'
<1>1. epochs[e].parent # Never => epochs[e].parent \in DOMAIN epochs
    BY ParentsAreEpochs
<1> QED
    BY <1>1 DEF Remembers, RowsStay

\* What an operator agreed on in its call holds while nobody touches HEAD, its
\* branch or a row.
LEMMA StillAgreed ==
    ASSUME NEW o \in Operators, Agreed(o), UNCHANGED <<rows, head>>, ops'[o] = ops[o],
           epochs'[head] = epochs[head],
           ops[o].pc # "restore" => epochs'[ops[o].epoch] = epochs[ops[o].epoch]
    PROVE  Agreed(o)'
<1>1. HeadRows' = HeadRows
    BY DEF HeadRows, Current, Visible
<1>2. \A c, i : Unchanged(c, rows[i])' <=> Unchanged(c, rows[i])
    OBVIOUS
<1>3. ops[o].pc = "merge" => /\ Appeared(ops[o].epoch)' = Appeared(ops[o].epoch)
                             /\ Gone(ops[o].epoch)' = Gone(ops[o].epoch)
    BY <1>1 DEF Appeared, Gone
<1>4. ops[o].pc \in {"verify", "merge"} => (NoDrift(ops[o].epoch)' <=> NoDrift(ops[o].epoch))
    BY <1>1 DEF NoDrift
<1> QED
    BY <1>3, <1>4 DEF Agreed

\* Nobody but the one who acts is in a call afterwards.
LEMMA OthersOutside ==
    ASSUME NEW o \in Operators, \A p \in Operators \ {o} : ~InCall(p)' , Agreed(o)'
    PROVE  CallsAgree'
<1>1. \A p \in Operators \ {o} : Agreed(p)'
    BY DEF InCall, Agreed
<1> QED
    BY <1>1 DEF CallsAgree

-----------------------------------------------------------------------------
\* Live writers keep the epoch of every row.
LEMMA LiveRowsStay ==
    ASSUME IInv,
           \/ \E ep \in Episodes, said \in Claims : LiveForm(ep, said)
           \/ \E i \in DOMAIN rows : LiveRetire(i)
    PROVE  RowsStay /\ UNCHANGED <<epochs, head, ops, heads>> /\ Interleaves
<1>1. UNCHANGED <<epochs, head, ops, heads>> /\ Interleaves
    BY DEF LiveForm, LiveRetire
<1>2. \A i \in DOMAIN rows : rows[i] \in Row
    BY RowsAreNumbered
<1>3. CASE \E i \in DOMAIN rows : LiveRetire(i)
  <2> PICK r \in DOMAIN rows : LiveRetire(r)
      BY <1>3
  <2>1. rows' = [rows EXCEPT ![r].status = "archived"]
      BY DEF LiveRetire
  <2> QED
      BY <2>1, <1>1, <1>2 DEF RowsStay, Row
<1>4. CASE \E ep \in Episodes, said \in Claims : LiveForm(ep, said)
  <2> PICK ep \in Episodes, said \in Claims : LiveForm(ep, said)
      BY <1>4
  <2>1. CASE \E n : rows' = [rows EXCEPT ![n].eps = @ \cup {ep}]
    <3> PICK n : rows' = [rows EXCEPT ![n].eps = @ \cup {ep}]
        BY <2>1
    <3> QED
        BY <1>1, <1>2 DEF RowsStay, Row
  <2>2. CASE \E S, new : rows' = Append([i \in DOMAIN rows |->
                                           IF i \in S THEN [rows[i] EXCEPT !.status = "superseded"]
                                           ELSE rows[i]], new)
    <3> PICK S, new : rows' = Append([i \in DOMAIN rows |->
                                        IF i \in S THEN [rows[i] EXCEPT !.status = "superseded"]
                                        ELSE rows[i]], new)
        BY <2>2
    <3>1. PICK g : g = [i \in DOMAIN rows |->
                          IF i \in S THEN [rows[i] EXCEPT !.status = "superseded"] ELSE rows[i]]
        OBVIOUS
    <3>2. \A i \in DOMAIN rows : g[i].epoch = rows[i].epoch
        BY <3>1, <1>2 DEF Row
    <3>3. DOMAIN g = 1..Len(rows) /\ Len(rows) \in Nat /\ Len(g) = Len(rows)
      <4>1. DOMAIN g = 1..Len(rows) /\ Len(rows) \in Nat
          BY <3>1, RowsAreNumbered
      <4> QED
          BY <4>1
    <3>4. rows' = Append(g, new)
        BY <3>1
    <3>5. \A i \in 1..Len(rows) : i \in DOMAIN rows' /\ rows'[i] = g[i]
      <4> DEFINE T == {g[i] : i \in 1..Len(rows)} \cup {new}
      <4>1. g = [i \in 1..Len(rows) |-> g[i]]
        <5>1. g = [i \in DOMAIN rows |-> g[i]]
            BY <3>1
        <5> QED
            BY <5>1, RowsAreNumbered
      <4>2. \A i \in 1..Len(rows) : g[i] \in T
          OBVIOUS
      <4>3. new \in T
          OBVIOUS
      <4> HIDE DEF T
      <4>4. g \in Seq(T)
          BY <3>3, <4>1, <4>2, SeqDef
      <4>5. /\ Append(g, new) \in Seq(T) /\ Len(Append(g, new)) = Len(g) + 1
            /\ \A i \in 1..Len(g) : Append(g, new)[i] = g[i]
          BY <4>3, <4>4, AppendProperties
      <4>6. DOMAIN Append(g, new) = 1..(Len(rows) + 1)
          BY <4>5, <3>3, LenProperties
      <4>7. \A i \in 1..Len(rows) : i \in 1..(Len(rows) + 1)
          BY <3>3
      <4> QED
          BY <4>5, <4>6, <4>7, <3>3, <3>4
    <3> QED
        BY <1>1, <3>2, <3>5, RowsAreNumbered DEF RowsStay
  <2> QED
      BY <2>1, <2>2 DEF LiveForm
<1> QED
    BY <1>3, <1>4

LEMMA LiveAdopt ==
    ASSUME AInv, Orderly,
           \/ \E ep \in Episodes, said \in Claims : LiveForm(ep, said)
           \/ \E i \in DOMAIN rows : LiveRetire(i)
    PROVE  BranchesOK' /\ CallsAgree' /\ Remembered'
<1>1. RowsStay /\ UNCHANGED <<epochs, head, ops, heads>> /\ Interleaves
    BY LiveRowsStay DEF AInv, HInv
<1>2. BranchesOK'
    BY <1>1 DEF AInv, BranchesOK, Working
<1>3. CallsAgree'
  <2>1. \A p \in Operators : ~InCall(p)
      BY <1>1, NobodyInCall
  <2> QED
      BY <2>1, <1>1 DEF CallsAgree, Agreed, InCall
<1>4. Remembered'
    BY <1>1, StillRemembered DEF AInv, HInv, Remembered
<1> QED
    BY <1>2, <1>3, <1>4

\* A new branch.
LEMMA OpenAdopts ==
    ASSUME AInv, Orderly, NEW o \in Operators, NEW chosen \in SUBSET Episodes,
           NEW tier \in Tiers, BranchOpen(o, chosen, tier)
    PROVE  BranchesOK' /\ CallsAgree' /\ Remembered'
<1> PICK n : n = Len(epochs) + 1
    OBVIOUS
<1> DEFINE new == [Idle EXCEPT !.pc = "seed", !.epoch = n, !.todo = chosen]
<1>1. /\ epochs' = Append(epochs, Opened(chosen, tier)) /\ Becomes(o, new)
      /\ UNCHANGED <<rows, head, heads>> /\ Interleaves
    BY DEF BranchOpen
<1>2. new.pc = "seed" /\ new.epoch = n /\ new.todo = chosen
    BY DEF Idle
<1> HIDE DEF new
<1>3. ops'[o] = new /\ \A p \in Operators \ {o} : ops'[p] = ops[p]
    BY <1>1, OpsAre DEF AInv, HInv
<1>4. \A p \in Operators : ~InCall(p)
    BY <1>1, NobodyInCall
<1>5. /\ DOMAIN epochs' = DOMAIN epochs \cup {n} /\ n \notin DOMAIN epochs
      /\ epochs'[n] = Opened(chosen, tier)
      /\ \A x \in DOMAIN epochs : epochs'[x] = epochs[x]
    BY <1>1, EpochsAreNumbered DEF AInv, HInv
<1>6. /\ epochs'[n].parent = head /\ epochs'[n].shadow = {} /\ epochs'[n].base = {}
      /\ epochs'[n].chosen = chosen /\ epochs'[n].before = {}
      /\ epochs'[n].snapshot = NotAdopted
    BY <1>5 DEF Opened
<1>7. BranchesOK'
  <2>1. n \notin heads
      BY <1>5 DEF AInv, HInv, IInv, HeadOK
  <2>2. \A x \in DOMAIN epochs' : /\ BranchOK(epochs'[x])
                                  /\ epochs'[x].status \in {"open", "ready"} => x \notin heads'
      BY <2>1, <1>1, <1>5, <1>6 DEF AInv, BranchesOK, BranchOK
  <2>3. \A p \in Operators : Working(p)' => ops'[p].todo \subseteq epochs'[ops'[p].epoch].chosen
    <3>1. ops'[o].todo \subseteq epochs'[ops'[o].epoch].chosen
        BY <1>2, <1>3, <1>6
    <3>2. \A p \in Operators \ {o} : Working(p)' => Working(p) /\ ops[p].epoch \in DOMAIN epochs
        BY <1>3, OperationHere DEF AInv, HInv, Working
    <3> QED
        BY <3>1, <3>2, <1>3, <1>5 DEF AInv, BranchesOK
  <2> QED
      BY <2>2, <2>3 DEF BranchesOK
<1>8. CallsAgree'
  <2>1. \A p \in Operators \ {o} : ~InCall(p)'
      BY <1>3, <1>4 DEF InCall
  <2>2. Agreed(o)'
      BY <1>1, <1>2, <1>3, <1>6 DEF Agreed
  <2> QED
      BY <2>1, <2>2, OthersOutside
<1>9. Remembered'
  <2>1. RowsStay
      BY <1>1 DEF RowsStay
  <2>2. \A x \in DOMAIN epochs : Remembers(x)'
      BY <2>1, <1>5, StillRemembered DEF AInv, HInv, Remembered
  <2>3. Remembers(n)'
      BY <1>6 DEF Remembers
  <2> QED
      BY <2>2, <2>3, <1>5 DEF Remembered
<1> QED
    BY <1>7, <1>8, <1>9

-----------------------------------------------------------------------------
\* What work on a branch leaves alone: everything but the branch, which stays
\* open or leaves its operator's hands.
TouchesOnly(e, o) ==
    /\ UNCHANGED <<rows, head, heads>> /\ DOMAIN epochs' = DOMAIN epochs
    /\ \A x \in DOMAIN epochs \ {e} : epochs'[x] = epochs[x]
    /\ epochs'[e].parent = epochs[e].parent /\ epochs'[e].line = epochs[e].line
    /\ epochs'[e].before = epochs[e].before /\ epochs'[e].snapshot = epochs[e].snapshot
    /\ ops'[o].pc \in {"idle", "recompute"}
    /\ \A p \in Operators \ {o} : ops'[p] = ops[p]

\* What an episode, governed again, writes.
Reformed(e, ep, found) ==
    IF found = {} THEN epochs[e].shadow
    ELSE UNION {FormIn(epochs[e].shadow, said, ep, e) : said \in found}
Reshadowed(e, shadow) ==
    \E finals : epochs' = [epochs EXCEPT ![e].shadow = shadow, ![e].finals = finals]
Advanced(o, ep) == \E d : Becomes(o, [ops[o] EXCEPT !.todo = @ \ {ep}, !.dirty = d])

LEMMA RecomputeWrites ==
    ASSUME IInv, NEW o \in Operators, NEW ep \in Episodes, NEW found \in SUBSET Claims,
           Recompute(o, ep, found), NEW e, e = ops[o].epoch, NEW shadow,
           shadow = Reformed(e, ep, found)
    PROVE  /\ ops[o].pc = "recompute" /\ ep \in ops[o].todo
           /\ Reshadowed(e, shadow)
           /\ Advanced(o, ep)
<1> DEFINE run == RunOf(e, ep)
           ends == run \cap ops[o].todo = {ep}
           d == ops[o].dirty \/ found # {}
           fin == IF ends /\ d THEN epochs[e].finals \cup {shadow} ELSE epochs[e].finals
<1>1. /\ ops[o].pc = "recompute" /\ ep \in ops[o].todo
      /\ epochs' = [epochs EXCEPT ![e].shadow = shadow, ![e].finals = fin]
      /\ Becomes(o, [ops[o] EXCEPT !.todo = @ \ {ep}, !.dirty = d /\ ~ends])
    BY DEF Recompute, Reformed
<1> HIDE DEF fin, d, ends
<1>2. Reshadowed(e, shadow) /\ Advanced(o, ep)
    BY <1>1 DEF Reshadowed, Advanced
<1> QED
    BY <1>1, <1>2

LEMMA WorkTouches ==
    ASSUME HInv, NEW o \in Operators, NEW e, e = ops[o].epoch,
           \/ BranchSeed(o) \/ BranchReady(o) \/ BranchFail(o)
           \/ \E ep \in Episodes, found \in SUBSET Claims : Recompute(o, ep, found)
    PROVE  Working(o) /\ e \in DOMAIN epochs /\ epochs[e].status = "open" /\ TouchesOnly(e, o)
<1>1. Working(o) /\ UNCHANGED <<rows, head, heads>>
    BY DEF BranchSeed, BranchReady, BranchFail, Recompute, Working
<1>2. e \in DOMAIN epochs /\ epochs[e].status = "open" /\ epochs[e] \in EpochRecord
    BY <1>1, OperationHere, EpochHere DEF HInv, WorkOK, Working
<1>3. ops[o] \in Operation
    BY OperationHere DEF HInv
<1>4. \E new : Becomes(o, new) /\ new.pc \in {"idle", "recompute"}
  <2>1. CASE BranchSeed(o)
    <3>1. [ops[o] EXCEPT !.pc = "recompute"].pc = "recompute"
        BY <1>3 DEF Operation
    <3> QED
        BY <2>1, <3>1 DEF BranchSeed
  <2>2. CASE BranchReady(o) \/ BranchFail(o)
    <3>1. Idle.pc = "idle"
        BY DEF Idle
    <3> QED
        BY <2>2, <3>1 DEF BranchReady, BranchFail
  <2>3. CASE \E ep \in Episodes, found \in SUBSET Claims : Recompute(o, ep, found)
    <3>1. PICK ep \in Episodes, found \in SUBSET Claims : Recompute(o, ep, found)
        BY <2>3
    <3>2. PICK sh : sh = Reformed(e, ep, found)
        OBVIOUS
    <3>3. Advanced(o, ep) /\ ops[o].pc = "recompute"
        BY <3>1, <3>2, RecomputeWrites DEF HInv
    <3> PICK d : Becomes(o, [ops[o] EXCEPT !.todo = @ \ {ep}, !.dirty = d])
        BY <3>3 DEF Advanced
    <3>4. [ops[o] EXCEPT !.todo = @ \ {ep}, !.dirty = d].pc = "recompute"
        BY <1>3, <3>3 DEF Operation
    <3> QED
        BY <3>4
  <2> QED
      BY <2>1, <2>2, <2>3
<1>5. /\ ops'[o].pc \in {"idle", "recompute"}
      /\ \A p \in Operators \ {o} : ops'[p] = ops[p]
    BY <1>4, OpsAre DEF HInv
<1>6. \E y : /\ epochs' = [epochs EXCEPT ![e] = y]
             /\ y.parent = epochs[e].parent /\ y.line = epochs[e].line
             /\ y.before = epochs[e].before /\ y.snapshot = epochs[e].snapshot
  <2>1. CASE BranchSeed(o)
    <3>1. PICK s, b : epochs' = [epochs EXCEPT ![e].shadow = s, ![e].base = b]
        BY <2>1 DEF BranchSeed
    <3> DEFINE y == [epochs[e] EXCEPT !.shadow = s, !.base = b]
    <3>2. epochs' = [epochs EXCEPT ![e] = y]
        BY <3>1, <1>2
    <3>3. /\ y.parent = epochs[e].parent /\ y.line = epochs[e].line
          /\ y.before = epochs[e].before /\ y.snapshot = epochs[e].snapshot
        BY <1>2 DEF EpochRecord
    <3> QED
        BY <3>2, <3>3
  <2>2. CASE \E ep \in Episodes, found \in SUBSET Claims : Recompute(o, ep, found)
    <3>1. PICK s : Reshadowed(e, s)
      <4>1. PICK ep \in Episodes, found \in SUBSET Claims : Recompute(o, ep, found)
          BY <2>2
      <4>2. PICK sh : sh = Reformed(e, ep, found)
          OBVIOUS
      <4>3. IInv
          BY DEF HInv
      <4>4. Reshadowed(e, sh)
          BY <4>1, <4>2, <4>3, RecomputeWrites
      <4> QED
          BY <4>4
    <3> PICK fs : epochs' = [epochs EXCEPT ![e].shadow = s, ![e].finals = fs]
        BY <3>1 DEF Reshadowed
    <3> DEFINE y == [epochs[e] EXCEPT !.shadow = s, !.finals = fs]
    <3>2. epochs' = [epochs EXCEPT ![e] = y]
        BY <1>2
    <3>3. /\ y.parent = epochs[e].parent /\ y.line = epochs[e].line
          /\ y.before = epochs[e].before /\ y.snapshot = epochs[e].snapshot
        BY <1>2 DEF EpochRecord
    <3> QED
        BY <3>2, <3>3
  <2>3. CASE BranchReady(o)
    <3> DEFINE y == [epochs[e] EXCEPT !.status = "ready"]
    <3>2. epochs' = [epochs EXCEPT ![e] = y]
        BY <2>3, <1>2 DEF BranchReady
    <3>3. /\ y.parent = epochs[e].parent /\ y.line = epochs[e].line
          /\ y.before = epochs[e].before /\ y.snapshot = epochs[e].snapshot
        BY <1>2 DEF EpochRecord
    <3> QED
        BY <3>2, <3>3
  <2>4. CASE BranchFail(o)
    <3> DEFINE y == Closed(epochs[e], "discarded")
    <3>2. epochs' = [epochs EXCEPT ![e] = y]
        BY <2>4, <1>2 DEF BranchFail
    <3>3. /\ y.parent = epochs[e].parent /\ y.line = epochs[e].line
          /\ y.before = epochs[e].before /\ y.snapshot = epochs[e].snapshot
        BY <1>2 DEF EpochRecord, Closed
    <3> QED
        BY <3>2, <3>3
  <2> QED
      BY <2>1, <2>2, <2>3, <2>4
<1>7. TouchesOnly(e, o)
    BY <1>1, <1>2, <1>5, <1>6 DEF TouchesOnly
<1> QED
    BY <1>1, <1>2, <1>7

\* Work on a branch leaves the calls of others and what is remembered alone.
LEMMA WorkAgrees ==
    ASSUME AInv, NEW o \in Operators, NEW e \in DOMAIN epochs, e = ops[o].epoch,
           Working(o), TouchesOnly(e, o)
    PROVE  CallsAgree' /\ Remembered'
<1>1. Remembered'
  <2>1. RowsStay
      BY DEF TouchesOnly, RowsStay
  <2> QED
      BY <2>1, StillRemembered DEF AInv, HInv, Remembered, TouchesOnly
<1>2. epochs[e].status = "open" /\ epochs[head].status = "adopted" /\ head \in DOMAIN epochs
    BY EpochsAreNumbered DEF AInv, HInv, WorkOK, OneHead
<1>3. ASSUME NEW p \in Operators \ {o} PROVE Agreed(p)'
  <2>1. ops'[p] = ops[p] /\ epochs'[head] = epochs[head]
      BY <1>2 DEF TouchesOnly
  <2>2. CASE ~InCall(p)
      BY <2>1, <2>2 DEF InCall, Agreed
  <2>3. CASE InCall(p) /\ ops[p].pc # "restore"
    <3>1. ops[p].epoch \in DOMAIN epochs /\ ops[p].pc \in {"seed", "verify", "merge"}
        BY <2>3, OperationHere DEF AInv, HInv, InCall, Operation
    <3>2. ops[p].epoch # e
        BY <3>1, <1>2 DEF AInv, HInv, WorkOK, CallOK, Working
    <3> QED
        BY <2>1, <3>1, <3>2, StillAgreed DEF AInv, CallsAgree, TouchesOnly
  <2>4. CASE ops[p].pc = "restore"
      BY <2>1, <2>4, StillAgreed DEF AInv, CallsAgree, TouchesOnly
  <2> QED
      BY <2>2, <2>3, <2>4
<1>4. Agreed(o)'
    BY DEF TouchesOnly, Agreed
<1> QED
    BY <1>1, <1>3, <1>4 DEF CallsAgree

\* Work that leaves the branch in order leaves all branches in order.
LEMMA WorkBranches ==
    ASSUME AInv, NEW o \in Operators, NEW e \in DOMAIN epochs, e = ops[o].epoch,
           Working(o), TouchesOnly(e, o), BranchOK(epochs'[e]),
           Working(o)' => ops'[o].todo \subseteq epochs'[ops'[o].epoch].chosen
    PROVE  BranchesOK'
<1>1. e \notin heads
    BY DEF AInv, HInv, WorkOK, BranchesOK
<1>2. \A x \in DOMAIN epochs' : /\ BranchOK(epochs'[x])
                                /\ epochs'[x].status \in {"open", "ready"} => x \notin heads'
    BY <1>1 DEF AInv, BranchesOK, TouchesOnly
<1>3. \A p \in Operators \ {o} : Working(p)' => /\ Working(p) /\ ops'[p] = ops[p]
                                                /\ epochs'[ops[p].epoch] = epochs[ops[p].epoch]
  <2> SUFFICES ASSUME NEW p \in Operators \ {o}, Working(p)'
               PROVE  /\ Working(p) /\ ops'[p] = ops[p]
                      /\ epochs'[ops[p].epoch] = epochs[ops[p].epoch]
      OBVIOUS
  <2>1. ops'[p] = ops[p] /\ Working(p)
      BY DEF TouchesOnly, Working
  <2>2. ops[p].epoch \in DOMAIN epochs /\ ops[p].epoch # e
      BY <2>1, OperationHere DEF AInv, HInv, WorkOK, Working
  <2> QED
      BY <2>1, <2>2 DEF TouchesOnly
<1>4. \A p \in Operators : Working(p)' => ops'[p].todo \subseteq epochs'[ops'[p].epoch].chosen
    BY <1>3 DEF AInv, BranchesOK
<1> QED
    BY <1>2, <1>4 DEF BranchesOK

\* The baseline, less what will be produced again.
LEMMA SeedBranch ==
    ASSUME AInv, NEW o \in Operators, BranchSeed(o)
    PROVE  BranchesOK'
<1> PICK e : e = ops[o].epoch
    OBVIOUS
<1>1. Working(o) /\ e \in DOMAIN epochs /\ TouchesOnly(e, o)
    BY WorkTouches DEF AInv, HInv
<1>2. epochs[e] \in EpochRecord /\ ops[o] \in Operation
    BY <1>1, EpochHere, OperationHere DEF AInv, HInv
<1>3. PICK s, b : /\ s = {AsVersion(rows[i]) : i \in Baseline(e)}
                  /\ b = {AsVersion(rows[i]) : i \in HeadRows}
    OBVIOUS
<1>4. /\ epochs' = [epochs EXCEPT ![e].shadow = s, ![e].base = b]
      /\ Becomes(o, [ops[o] EXCEPT !.pc = "recompute"])
    BY <1>3 DEF BranchSeed
<1>5. /\ epochs'[e].shadow = s /\ epochs'[e].base = b
      /\ epochs'[e].chosen = epochs[e].chosen /\ epochs'[e].line = epochs[e].line
    BY <1>1, <1>2, <1>4 DEF EpochRecord
<1>6. epochs[e].parent = head /\ epochs[e].line = {e} \cup epochs[head].line
  <2>1. epochs[e].parent = head
      BY DEF BranchSeed, AInv, CallsAgree, Agreed
  <2>2. head # Never
      BY EpochsAreNumbered DEF AInv, HInv, Never
  <2> QED
      BY <2>1, <2>2, <1>1 DEF AInv, HInv, LinesOK
<1>7. \A v \in s : v.epoch \in epochs[e].line
  <2> SUFFICES ASSUME NEW i \in HeadRows PROVE AsVersion(rows[i]).epoch \in epochs[e].line
      BY <1>3 DEF Baseline
  <2>1. rows[i].epoch \in epochs[head].line
      BY DEF HeadRows, Current, Visible
  <2> QED
      BY <2>1, <1>6 DEF AsVersion
<1>8. \A v \in b : v \in s \/ v.eps \cap epochs[e].chosen # {}
  <2> SUFFICES ASSUME NEW i \in HeadRows
               PROVE  AsVersion(rows[i]) \in s \/ AsVersion(rows[i]).eps \cap epochs[e].chosen # {}
      BY <1>3
  <2>1. i \in Baseline(e) \/ rows[i].eps \cap epochs[e].chosen # {}
      BY DEF Baseline
  <2>2. AsVersion(rows[i]).eps = rows[i].eps
      BY DEF AsVersion
  <2> QED
      BY <2>1, <2>2, <1>3
<1>9. BranchOK(epochs'[e])
    BY <1>5, <1>7, <1>8 DEF BranchOK, Supported
<1>10. ops'[o].todo \subseteq epochs'[ops'[o].epoch].chosen
  <2>1. ops'[o].todo = ops[o].todo /\ ops'[o].epoch = e
      BY <1>2, <1>4, OpsAre DEF AInv, HInv, Operation
  <2> QED
      BY <2>1, <1>1, <1>5 DEF AInv, BranchesOK
<1> QED
    BY <1>1, <1>9, <1>10, WorkBranches

\* Formation in a shadow replaces a version only by one with the same key that
\* rests on the episode.
LEMMA FormInKeeps ==
    ASSUME NEW shadow \in SUBSET Version, NEW said \in Claims, NEW ep \in Episodes,
           NEW e \in 1..MaxEpochs, NEW c \in shadow
    PROVE  \/ c \in FormIn(shadow, said, ep, e)
           \/ \E d \in FormIn(shadow, said, ep, e) : d.key = c.key /\ ep \in d.eps
<1> DEFINE same == {x \in shadow : Says(x) = said}
           stronger(x) == [x EXCEPT !.eps = @ \cup {ep}]
           fresh == [key |-> said.key, fact |-> said.fact, eps |-> {ep}, epoch |-> e]
<1>1. stronger(c).key = c.key /\ ep \in stronger(c).eps
    BY DEF Version
<1>2. fresh.key = said.key /\ ep \in fresh.eps
    OBVIOUS
<1>3. FormIn(shadow, said, ep, e) =
        IF same # {} THEN (shadow \ same) \cup {stronger(x) : x \in same}
        ELSE {x \in shadow : x.key # said.key} \cup {fresh}
    BY DEF FormIn
<1> HIDE DEF same, stronger, fresh
<1>4. CASE same # {}
    BY <1>1, <1>3, <1>4
<1>5. CASE same = {}
    BY <1>2, <1>3, <1>5
<1> QED
    BY <1>4, <1>5

LEMMA RecomputeBranch ==
    ASSUME AInv, NEW o \in Operators, NEW ep \in Episodes, NEW found \in SUBSET Claims,
           Recompute(o, ep, found)
    PROVE  BranchesOK'
<1> PICK e : e = ops[o].epoch
    OBVIOUS
<1>1. Working(o) /\ e \in DOMAIN epochs /\ TouchesOnly(e, o)
    BY WorkTouches DEF AInv, HInv
<1>2. epochs[e] \in EpochRecord /\ ops[o] \in Operation /\ e \in 1..MaxEpochs /\ e \in epochs[e].line
    BY <1>1, EpochHere, OperationHere, EpochsAreNumbered DEF AInv, HInv, EpochOK
<1>3. PICK s : s = Reformed(e, ep, found)
    OBVIOUS
<1>4. IInv
    BY DEF AInv, HInv
<1>5. /\ ops[o].pc = "recompute" /\ ep \in ops[o].todo
      /\ Reshadowed(e, s) /\ Advanced(o, ep)
    BY <1>3, <1>4, RecomputeWrites
<1>6. /\ epochs'[e].shadow = s /\ epochs'[e].base = epochs[e].base
      /\ epochs'[e].chosen = epochs[e].chosen /\ epochs'[e].line = epochs[e].line
  <2> PICK finals : epochs' = [epochs EXCEPT ![e].shadow = s, ![e].finals = finals]
      BY <1>5 DEF Reshadowed
  <2> QED
      BY <1>1, <1>2 DEF EpochRecord
<1>7. ops'[o].todo = ops[o].todo \ {ep} /\ ops'[o].epoch = e
  <2> PICK d : Becomes(o, [ops[o] EXCEPT !.todo = @ \ {ep}, !.dirty = d])
      BY <1>5 DEF Advanced
  <2>1. ops'[o] = [ops[o] EXCEPT !.todo = @ \ {ep}, !.dirty = d]
      BY <1>4, OpsAre
  <2> QED
      BY <2>1, <1>2 DEF Operation
<1>8. epochs[e].shadow \in SUBSET Version /\ BranchOK(epochs[e])
      /\ ops[o].todo \subseteq epochs[e].chosen
    BY <1>1, <1>2 DEF EpochRecord, AInv, BranchesOK
<1>9. \A v \in s : v.epoch \in epochs[e].line
  <2>1. CASE found = {}
      BY <2>1, <1>3, <1>8 DEF BranchOK, Reformed
  <2>2. CASE found # {}
    <3>1. \A v \in epochs[e].shadow : v.epoch \in {e} \cup epochs[e].line
        BY <1>8 DEF BranchOK
    <3>2. \A said \in found : \A v \in FormIn(epochs[e].shadow, said, ep, e) :
              v.epoch \in {e} \cup epochs[e].line
        BY <3>1, <1>2, <1>8, FormInOK
    <3>3. \A v \in s : \E said \in found : v \in FormIn(epochs[e].shadow, said, ep, e)
        BY <2>2, <1>3 DEF Reformed
    <3> QED
        BY <3>2, <3>3, <1>2
  <2> QED
      BY <2>1, <2>2
<1>10. \A c \in epochs[e].shadow :
           c \in s \/ \E d \in s : d.key = c.key /\ d.eps \cap epochs[e].chosen # {}
  <2>1. CASE found = {}
      BY <2>1, <1>3 DEF Reformed
  <2>2. CASE found # {}
    <3> PICK said \in found : TRUE
        BY <2>2
    <3>1. FormIn(epochs[e].shadow, said, ep, e) \subseteq s
        BY <2>2, <1>3 DEF Reformed
    <3>2. ep \in epochs[e].chosen
        BY <1>5, <1>8
    <3>3. \A c \in epochs[e].shadow :
              \/ c \in FormIn(epochs[e].shadow, said, ep, e)
              \/ \E d \in FormIn(epochs[e].shadow, said, ep, e) : d.key = c.key /\ ep \in d.eps
        BY <1>2, <1>8, FormInKeeps
    <3> QED
        BY <3>1, <3>2, <3>3
  <2> QED
      BY <2>1, <2>2
<1>11. \A b \in epochs[e].base : Supported(b, epochs'[e])
  <2> TAKE b \in epochs[e].base
  <2>1. Supported(b, epochs[e])
      BY <1>8 DEF BranchOK
  <2>2. CASE b \in epochs[e].shadow
      BY <2>2, <1>6, <1>10 DEF Supported
  <2>3. CASE b.eps \cap epochs[e].chosen # {}
      BY <2>3, <1>6 DEF Supported
  <2>4. CASE \E c \in epochs[e].shadow : c.key = b.key /\ c.eps \cap epochs[e].chosen # {}
    <3> PICK c \in epochs[e].shadow : c.key = b.key /\ c.eps \cap epochs[e].chosen # {}
        BY <2>4
    <3>1. \E d \in s : d.key = b.key /\ d.eps \cap epochs[e].chosen # {}
        BY <1>10
    <3> QED
        BY <3>1, <1>6 DEF Supported
  <2> QED
      BY <2>1, <2>2, <2>3, <2>4 DEF Supported
<1>12. BranchOK(epochs'[e])
    BY <1>6, <1>9, <1>11 DEF BranchOK
<1>13. ops'[o].todo \subseteq epochs'[ops'[o].epoch].chosen
    BY <1>6, <1>7, <1>8
<1> QED
    BY <1>1, <1>12, <1>13, WorkBranches

\* A branch leaves its operator's hands.
LEMMA LeaveBranch ==
    ASSUME AInv, NEW o \in Operators, BranchReady(o) \/ BranchFail(o)
    PROVE  BranchesOK'
<1> PICK e : e = ops[o].epoch
    OBVIOUS
<1>1. Working(o) /\ e \in DOMAIN epochs /\ TouchesOnly(e, o)
    BY WorkTouches DEF AInv, HInv
<1>2. epochs[e] \in EpochRecord /\ BranchOK(epochs[e])
    BY <1>1, EpochHere DEF AInv, HInv, BranchesOK
<1>3. BranchOK(epochs'[e])
  <2>1. CASE BranchReady(o)
    <3>1. /\ epochs'[e].shadow = epochs[e].shadow /\ epochs'[e].base = epochs[e].base
          /\ epochs'[e].chosen = epochs[e].chosen /\ epochs'[e].line = epochs[e].line
        BY <2>1, <1>1, <1>2 DEF BranchReady, EpochRecord
    <3> QED
        BY <3>1, <1>2 DEF BranchOK, Supported
  <2>2. CASE BranchFail(o)
    <3>1. epochs'[e].shadow = {} /\ epochs'[e].base = {}
        BY <2>2, <1>1, <1>2 DEF BranchFail, Closed, EpochRecord
    <3> QED
        BY <3>1 DEF BranchOK
  <2> QED
      BY <2>1, <2>2
<1>4. ops'[o] = Idle
    BY OpsAre DEF AInv, HInv, BranchReady, BranchFail
<1>5. ~Working(o)'
    BY <1>4 DEF Working, Idle
<1> QED
    BY <1>1, <1>3, <1>5, WorkBranches

LEMMA WorkAdopts ==
    ASSUME AInv, NEW o \in Operators,
           \/ BranchSeed(o) \/ BranchReady(o) \/ BranchFail(o)
           \/ \E ep \in Episodes, found \in SUBSET Claims : Recompute(o, ep, found)
    PROVE  BranchesOK' /\ CallsAgree' /\ Remembered'
<1>1. BranchesOK'
    BY SeedBranch, RecomputeBranch, LeaveBranch
<1>2. PICK e : e = ops[o].epoch
    OBVIOUS
<1>3. Working(o) /\ e \in DOMAIN epochs /\ TouchesOnly(e, o)
    BY <1>2, WorkTouches DEF AInv
<1> QED
    BY <1>1, <1>2, <1>3, WorkAgrees

\* Calls, up to the step that moves HEAD.
LEMMA CallAdopts ==
    ASSUME AInv, Orderly, NEW o \in Operators,
           \/ AdoptRefuse(o) \/ AdoptDiff(o) \/ RollbackRead(o) \/ Crash(o)
           \/ \E e \in DOMAIN epochs : AdoptCheck(o, e)
    PROVE  BranchesOK' /\ CallsAgree' /\ Remembered'
<1>1. UNCHANGED <<rows, epochs, head, heads>> /\ \E new : Becomes(o, new) /\ ~(new.pc \in {"seed", "recompute"})
  <2>1. CASE AdoptRefuse(o) \/ Crash(o)
      BY <2>1 DEF AdoptRefuse, Crash, Idle
  <2>2. CASE AdoptDiff(o)
    <3>1. PICK n, d : Becomes(o, [ops[o] EXCEPT !.pc = "merge", !.new = n, !.old = d])
        BY <2>2 DEF AdoptDiff
    <3>2. [ops[o] EXCEPT !.pc = "merge", !.new = n, !.old = d].pc = "merge"
        BY OperationHere DEF AInv, HInv, Operation
    <3> QED
        BY <2>2, <3>1, <3>2 DEF AdoptDiff
  <2>3. CASE RollbackRead(o)
    <3>1. [Idle EXCEPT !.pc = "restore", !.epoch = head, !.old = epochs[head].snapshot].pc
              = "restore"
        BY DEF Idle
    <3> QED
        BY <2>3, <3>1 DEF RollbackRead
  <2>4. CASE \E e \in DOMAIN epochs : AdoptCheck(o, e)
    <3> PICK e \in DOMAIN epochs : AdoptCheck(o, e)
        BY <2>4
    <3>1. [Idle EXCEPT !.pc = "verify", !.epoch = e].pc = "verify"
        BY DEF Idle
    <3> QED
        BY <3>1 DEF AdoptCheck
  <2> QED
      BY <2>1, <2>2, <2>3, <2>4
<1>2. ~Working(o)' /\ \A p \in Operators \ {o} : ops'[p] = ops[p]
    BY <1>1, OpsAre DEF AInv, HInv, Working
<1>3. BranchesOK'
    BY <1>1, <1>2 DEF AInv, BranchesOK, Working
<1>4. Remembered'
    BY <1>1, StillRemembered DEF AInv, HInv, Remembered, RowsStay
<1>5. CallsAgree'
  <2>1. CASE AdoptRefuse(o) \/ Crash(o)
    <3>1. ops'[o] = Idle
        BY <2>1, OpsAre DEF AInv, HInv, AdoptRefuse, Crash
    <3>2. Agreed(o)'
        BY <3>1 DEF Agreed, Idle
    <3>3. \A p \in Operators \ {o} : Agreed(p)'
        BY <1>1, <1>2, StillAgreed DEF AInv, CallsAgree
    <3> QED
        BY <3>2, <3>3 DEF CallsAgree
  <2>2. CASE AdoptDiff(o)
    <3>1. PICK e : e = ops[o].epoch
        OBVIOUS
    <3>2. PICK n, d : n = Appeared(e) /\ d = Gone(e)
        OBVIOUS
    <3>3. Becomes(o, [ops[o] EXCEPT !.pc = "merge", !.new = n, !.old = d]) /\ ops[o].pc = "verify"
        BY <2>2, <3>1, <3>2 DEF AdoptDiff, Appeared, Gone
    <3>4. /\ ops'[o].pc = "merge" /\ ops'[o].epoch = e
          /\ ops'[o].new = n /\ ops'[o].old = d
      <4>1. ops'[o] = [ops[o] EXCEPT !.pc = "merge", !.new = n, !.old = d]
          BY <3>3, OpsAre DEF AInv, HInv
      <4> QED
          BY <4>1, <3>1, OperationHere DEF AInv, HInv, Operation
    <3>5. HeadRows' = HeadRows
        BY <1>1 DEF HeadRows, Current, Visible
    <3>6. Appeared(e)' = Appeared(e) /\ Gone(e)' = Gone(e) /\ (NoDrift(e)' <=> NoDrift(e))
        BY <3>5, <1>1 DEF Appeared, Gone, NoDrift, Unchanged
    <3>7. "drift" \in Misuse \/ NoDrift(e)
        BY <3>1, <3>3 DEF AInv, CallsAgree, Agreed
    <3>8. Agreed(o)'
        BY <3>2, <3>4, <3>6, <3>7 DEF Agreed
    <3>9. \A p \in Operators \ {o} : ~InCall(p)'
        BY <1>2, <3>3 DEF AInv, HInv, CallOK, InCall
    <3> QED
        BY <3>8, <3>9, OthersOutside
  <2>3. CASE RollbackRead(o) \/ \E e \in DOMAIN epochs : AdoptCheck(o, e)
    <3>1. Interleaves
        BY <2>3 DEF RollbackRead, AdoptCheck
    <3>2. \A p \in Operators \ {o} : ~InCall(p)'
        BY <3>1, <1>2, NobodyInCall DEF InCall
    <3>3. Agreed(o)'
      <4>1. CASE RollbackRead(o)
        <5>1. /\ ops'[o] = [Idle EXCEPT !.pc = "restore", !.epoch = head,
                                        !.old = epochs[head].snapshot]
              /\ epochs[head].snapshot # NotAdopted
            BY <4>1, OpsAre DEF AInv, HInv, RollbackRead
        <5>2. ops'[o].pc = "restore" /\ ops'[o].old = epochs[head].snapshot
            BY <5>1 DEF Idle
        <5> QED
            BY <5>1, <5>2, <1>1 DEF Agreed
      <4>2. CASE \E e \in DOMAIN epochs : AdoptCheck(o, e)
        <5> PICK e \in DOMAIN epochs : AdoptCheck(o, e)
            BY <4>2
        <5>1. ops'[o] = [Idle EXCEPT !.pc = "verify", !.epoch = e]
            BY OpsAre DEF AInv, HInv, AdoptCheck
        <5>2. ops'[o].pc = "verify" /\ ops'[o].epoch = e
            BY <5>1 DEF Idle
        <5>3. "drift" \in Misuse \/ NoDrift(e)
            BY DEF AdoptCheck, Documented, NoDrift
        <5>4. HeadRows' = HeadRows
            BY <1>1 DEF HeadRows, Current, Visible
        <5>5. NoDrift(e)' <=> NoDrift(e)
            BY <5>4, <1>1 DEF NoDrift
        <5> QED
            BY <5>2, <5>3, <5>5 DEF Agreed
      <4> QED
          BY <2>3, <4>1, <4>2
    <3> QED
        BY <3>2, <3>3, OthersOutside
  <2> QED
      BY <2>1, <2>2, <2>3
<1> QED
    BY <1>3, <1>4, <1>5

-----------------------------------------------------------------------------
\* After an adoption: old rows, some retired, and a row for each version copied.
LEMMA MergedRows ==
    ASSUME IInv, NEW o \in Operators, AdoptMerge(o)
    PROVE  /\ \A i \in DOMAIN rows :
                 /\ i \in DOMAIN rows' /\ rows'[i].epoch = rows[i].epoch
                 /\ i \in ops[o].old => rows'[i].status = "superseded"
                 /\ i \notin ops[o].old => rows'[i] = rows[i]
           /\ \A i \in DOMAIN rows' \ DOMAIN rows : \E v \in ops[o].new : rows'[i] = AsRow(v)
           /\ \A v \in ops[o].new : \E i \in DOMAIN rows' \ DOMAIN rows : rows'[i] = AsRow(v)
<1> PICK old, new : old = ops[o].old /\ new = ops[o].new
    OBVIOUS
<1>1. PICK n \in 0..MaxRows : \E order \in [1..n -> {AsRow(v) : v \in new}] :
        /\ \A v \in new : \E p \in 1..n : order[p] = AsRow(v)
        /\ rows' = Retired(old) \o order
    BY DEF AdoptMerge
<1>2. PICK order \in [1..n -> {AsRow(v) : v \in new}] :
        /\ \A v \in new : \E p \in 1..n : order[p] = AsRow(v)
        /\ rows' = Retired(old) \o order
    BY <1>1
<1>3. ops[o].pc = "merge" /\ new \subseteq Version
    BY OperationHere DEF AdoptMerge, Operation
<1>4. n \in Nat /\ order \in Seq(Row) /\ Len(order) = n
  <2>1. n \in Nat
      BY EpochsAssumption
  <2>2. \A p \in 1..n : order[p] \in Row
      BY <1>3, RowOfVersion
  <2>3. order = [p \in 1..n |-> order[p]]
      OBVIOUS
  <2>4. order \in Seq(Row)
      BY <2>1, <2>2, <2>3, SeqDef
  <2> QED
      BY <2>1, <2>4, LenProperties
<1>5. PICK r : r = Retired(old)
    OBVIOUS
<1>6. Len(rows) \in Nat /\ DOMAIN rows = 1..Len(rows) /\ r \in Seq(Row) /\ Len(r) = Len(rows)
    BY <1>5, RetiredOK, RowsAreNumbered
<1>7. /\ rows' \in Seq(Row) /\ Len(rows') = Len(rows) + n
      /\ \A i \in 1..(Len(rows) + n) :
            rows'[i] = IF i <= Len(rows) THEN r[i] ELSE order[i - Len(rows)]
  <2>1. /\ r \o order \in Seq(Row) /\ Len(r \o order) = Len(r) + Len(order)
        /\ \A i \in 1..(Len(r) + Len(order)) :
              (r \o order)[i] = IF i <= Len(r) THEN r[i] ELSE order[i - Len(r)]
      BY <1>4, <1>6, ConcatProperties
  <2> QED
      BY <2>1, <1>2, <1>4, <1>5, <1>6
<1>8. DOMAIN rows' = 1..(Len(rows) + n)
    BY <1>7, LenProperties
<1>9. ASSUME NEW i \in DOMAIN rows
      PROVE  /\ i \in DOMAIN rows' /\ rows'[i].epoch = rows[i].epoch
             /\ i \in old => rows'[i].status = "superseded"
             /\ i \notin old => rows'[i] = rows[i]
  <2>1. i \in 1..Len(rows) /\ i \in 1..(Len(rows) + n)
      BY <1>4, <1>6
  <2>2. rows'[i] = r[i]
      BY <2>1, <1>6, <1>7
  <2>3. r[i] = IF i \in old THEN [rows[i] EXCEPT !.status = "superseded"] ELSE rows[i]
      BY <1>5 DEF Retired
  <2>4. rows[i] \in Row
      BY RowsAreNumbered
  <2> QED
      BY <2>1, <2>2, <2>3, <2>4, <1>8 DEF Row
<1>10. ASSUME NEW i \in DOMAIN rows' \ DOMAIN rows
       PROVE  \E v \in new : rows'[i] = AsRow(v)
  <2>1. i \in 1..(Len(rows) + n) /\ ~(i <= Len(rows))
      BY <1>4, <1>6, <1>8
  <2>2. rows'[i] = order[i - Len(rows)] /\ i - Len(rows) \in 1..n
      BY <2>1, <1>4, <1>6, <1>7
  <2> QED
      BY <2>2
<1>11. ASSUME NEW v \in new
       PROVE  \E i \in DOMAIN rows' \ DOMAIN rows : rows'[i] = AsRow(v)
  <2> PICK p \in 1..n : order[p] = AsRow(v)
      BY <1>2
  <2>1. /\ Len(rows) + p \in 1..(Len(rows) + n) /\ ~(Len(rows) + p <= Len(rows))
        /\ (Len(rows) + p) - Len(rows) = p
      BY <1>4, <1>6
  <2>2. rows'[Len(rows) + p] = AsRow(v)
      BY <2>1, <1>7
  <2>3. Len(rows) + p \in DOMAIN rows' \ DOMAIN rows
      BY <2>1, <1>6, <1>8
  <2> QED
      BY <2>2, <2>3
<1> QED
    BY <1>9, <1>10, <1>11

LEMMA MergedEpochs ==
    ASSUME HInv, NEW o \in Operators, AdoptMerge(o), NEW e, e = ops[o].epoch
    PROVE  /\ ops[o].pc = "merge" /\ InCall(o) /\ head' = e /\ heads' = heads \cup {e}
           /\ e \in DOMAIN epochs /\ epochs[e].status = "ready" /\ epochs[e].parent = head
           /\ head \in DOMAIN epochs /\ head # e /\ head # Never
           /\ epochs[e].line = {e} \cup epochs[head].line
           /\ DOMAIN epochs' = DOMAIN epochs
           /\ \A x \in DOMAIN epochs : /\ epochs'[x].parent = epochs[x].parent
                                       /\ epochs'[x].line = epochs[x].line
           /\ \A x \in DOMAIN epochs \ {e} :
                 /\ epochs'[x].shadow = epochs[x].shadow /\ epochs'[x].base = epochs[x].base
                 /\ epochs'[x].chosen = epochs[x].chosen /\ epochs'[x].before = epochs[x].before
                 /\ epochs'[x].snapshot = epochs[x].snapshot
                 /\ epochs'[x].status \in {"open", "ready"} => epochs[x].status \in {"open", "ready"}
           /\ epochs'[e].shadow = {} /\ epochs'[e].base = {} /\ epochs'[e].status = "adopted"
           /\ epochs'[e].before = Current /\ epochs'[e].snapshot = Snapshot(ops[o].old)
<1> PICK before, snapshot : before = Current /\ snapshot = Snapshot(ops[o].old)
    OBVIOUS
<1> DEFINE closed == Closed(epochs[e], "adopted")
           flipped == [closed EXCEPT !.snapshot = snapshot, !.before = before]
           parent == [epochs[head] EXCEPT !.status = "superseded"]
<1>1. /\ epochs' = Flipped(e, snapshot) /\ head' = e /\ heads' = heads \cup {e}
      /\ ops[o].pc = "merge"
    BY DEF AdoptMerge
<1>2. e \in DOMAIN epochs /\ epochs[e].status = "ready" /\ epochs[e].parent = head
    BY <1>1, OperationHere DEF HInv, CallOK
<1>3. head \in DOMAIN epochs /\ epochs[head].status = "adopted" /\ head # e /\ head # Never
    BY <1>2, EpochsAreNumbered DEF HInv, OneHead, Never
<1>4. /\ DOMAIN epochs' = DOMAIN epochs
      /\ epochs'[e] = flipped /\ epochs'[head] = parent
      /\ \A x \in DOMAIN epochs \ {e, head} : epochs'[x] = epochs[x]
    BY <1>1, <1>2, <1>3 DEF Flipped, Adopted
<1>5. epochs[e] \in EpochRecord /\ epochs[head] \in EpochRecord
    BY <1>2, <1>3, EpochHere DEF HInv
<1>6. /\ flipped.status = "adopted" /\ flipped.parent = epochs[e].parent
      /\ flipped.line = epochs[e].line /\ flipped.shadow = {} /\ flipped.base = {}
      /\ flipped.snapshot = snapshot /\ flipped.before = before
    BY <1>5 DEF Closed, EpochRecord
<1>7. /\ parent.status = "superseded" /\ parent.parent = epochs[head].parent
      /\ parent.line = epochs[head].line /\ parent.shadow = epochs[head].shadow
      /\ parent.base = epochs[head].base /\ parent.chosen = epochs[head].chosen
      /\ parent.before = epochs[head].before /\ parent.snapshot = epochs[head].snapshot
    BY <1>5 DEF EpochRecord
<1>8. epochs[e].line = {e} \cup epochs[head].line
    BY <1>2, <1>3 DEF HInv, LinesOK
<1> HIDE DEF flipped, parent
<1>9. \A x \in DOMAIN epochs : /\ epochs'[x].parent = epochs[x].parent
                               /\ epochs'[x].line = epochs[x].line
    BY <1>4, <1>6, <1>7
<1>10. \A x \in DOMAIN epochs \ {e} :
          /\ epochs'[x].shadow = epochs[x].shadow /\ epochs'[x].base = epochs[x].base
          /\ epochs'[x].chosen = epochs[x].chosen /\ epochs'[x].before = epochs[x].before
          /\ epochs'[x].snapshot = epochs[x].snapshot
          /\ epochs'[x].status \in {"open", "ready"} => epochs[x].status \in {"open", "ready"}
    BY <1>4, <1>7
<1>11. InCall(o)
    BY <1>1 DEF InCall
<1> QED
    BY <1>1, <1>2, <1>3, <1>4, <1>6, <1>8, <1>9, <1>10, <1>11

LEMMA UndoneEpochs ==
    ASSUME HInv, NEW o \in Operators, RollbackWrite(o), NEW up, up = epochs[head].parent
    PROVE  /\ ops[o].pc = "restore" /\ InCall(o) /\ head' = up /\ heads' = heads
           /\ head \in DOMAIN epochs /\ up \in DOMAIN epochs /\ up < head /\ up # head
           /\ up \in Nat /\ head \in Nat
           /\ DOMAIN epochs' = DOMAIN epochs
           /\ \A x \in DOMAIN epochs :
                 /\ epochs'[x].parent = epochs[x].parent /\ epochs'[x].line = epochs[x].line
                 /\ epochs'[x].shadow = epochs[x].shadow /\ epochs'[x].base = epochs[x].base
                 /\ epochs'[x].chosen = epochs[x].chosen /\ epochs'[x].before = epochs[x].before
                 /\ epochs'[x].snapshot = epochs[x].snapshot
                 /\ epochs'[x].status \in {"open", "ready"} => epochs[x].status \in {"open", "ready"}
<1>1. ops[o].pc = "restore" /\ ops[o].epoch = head /\ heads' = heads
    BY DEF RollbackWrite, HInv, CallOK
<1>2. /\ epochs' = [epochs EXCEPT ![head].status = "discarded", ![up].status = "adopted"]
      /\ head' = up
    BY <1>1 DEF RollbackWrite
<1>3. head \in DOMAIN epochs /\ head \in Nat
    BY EpochsAreNumbered DEF HInv
<1>4. up < head /\ up \in DOMAIN epochs /\ up \in Nat
  <2>1. up # Never
      BY <1>1 DEF HInv, IInv, PlansOK
  <2>2. EpochOK(head, epochs[head], heads)
      BY <1>3, EpochHere DEF HInv
  <2> QED
      BY <2>1, <2>2, EpochsAreNumbered DEF EpochOK, HInv, IInv, HeadOK
<1>5. up # head
    BY <1>3, <1>4
<1>6. /\ DOMAIN epochs' = DOMAIN epochs
      /\ epochs'[head] = [epochs[head] EXCEPT !.status = "discarded"]
      /\ epochs'[up] = [epochs[up] EXCEPT !.status = "adopted"]
      /\ \A x \in DOMAIN epochs \ {up, head} : epochs'[x] = epochs[x]
    BY <1>2, <1>3, <1>4, <1>5
<1>7. ASSUME NEW x \in {up, head}, NEW status \in {"adopted", "discarded"},
             NEW y, y = [epochs[x] EXCEPT !.status = status]
      PROVE  /\ y.parent = epochs[x].parent /\ y.line = epochs[x].line
             /\ y.shadow = epochs[x].shadow /\ y.base = epochs[x].base
             /\ y.chosen = epochs[x].chosen /\ y.before = epochs[x].before
             /\ y.snapshot = epochs[x].snapshot
             /\ ~(y.status \in {"open", "ready"})
  <2>1. epochs[x] \in EpochRecord
      BY <1>3, <1>4, EpochHere DEF HInv
  <2> QED
      BY <2>1, <1>7 DEF EpochRecord
<1>8. ASSUME NEW x \in DOMAIN epochs
      PROVE  /\ epochs'[x].parent = epochs[x].parent /\ epochs'[x].line = epochs[x].line
             /\ epochs'[x].shadow = epochs[x].shadow /\ epochs'[x].base = epochs[x].base
             /\ epochs'[x].chosen = epochs[x].chosen /\ epochs'[x].before = epochs[x].before
             /\ epochs'[x].snapshot = epochs[x].snapshot
             /\ epochs'[x].status \in {"open", "ready"} => epochs[x].status \in {"open", "ready"}
  <2>1. CASE x \in {up, head}
    <3>1. PICK y : y = epochs'[x]
        OBVIOUS
    <3>2. \E status \in {"adopted", "discarded"} : y = [epochs[x] EXCEPT !.status = status]
        BY <2>1, <3>1, <1>6
    <3> QED
        BY <2>1, <3>1, <3>2, <1>7
  <2>2. CASE x \notin {up, head}
      BY <2>2, <1>6
  <2> QED
      BY <2>1, <2>2
<1>9. InCall(o)
    BY <1>1 DEF InCall
<1> QED
    BY <1>1, <1>2, <1>3, <1>4, <1>5, <1>6, <1>8, <1>9

\* What a rollback does to rows.
LEMMA UndoneRows ==
    ASSUME AInv, NEW o \in Operators, RollbackWrite(o)
    PROVE  /\ RowsStay /\ DOMAIN rows' = DOMAIN rows
           /\ epochs[head].snapshot # NotAdopted
           /\ \A i \in DOMAIN rows :
                 rows'[i].status = IF i \in DOMAIN epochs[head].snapshot THEN "active"
                                   ELSE rows[i].status
<1> PICK snapshot : snapshot = epochs[head].snapshot
    OBVIOUS
<1>1. ops[o].pc = "restore"
    BY DEF RollbackWrite
<1>2. ops[o].old = snapshot /\ snapshot # NotAdopted
    BY <1>1 DEF AInv, CallsAgree, Agreed
<1>3. \A i \in DOMAIN snapshot : snapshot[i] = "active"
    BY <1>2, EpochsAreNumbered DEF AInv, HInv, Remembered, Remembers
<1>4. rows' = [i \in DOMAIN rows |->
                 IF i \in DOMAIN snapshot
                 THEN [rows[i] EXCEPT !.status = snapshot[i]] ELSE rows[i]]
    BY <1>2 DEF RollbackWrite
<1>5. DOMAIN rows' = DOMAIN rows
    BY <1>4
<1>6. ASSUME NEW i \in DOMAIN rows
      PROVE  /\ rows'[i].epoch = rows[i].epoch
             /\ rows'[i].status = IF i \in DOMAIN snapshot THEN "active" ELSE rows[i].status
  <2>1. rows[i] \in Row
      BY RowsAreNumbered DEF AInv, HInv
  <2>2. CASE i \in DOMAIN snapshot
    <3>1. rows'[i] = [rows[i] EXCEPT !.status = "active"]
        BY <2>2, <1>3, <1>4
    <3> QED
        BY <2>1, <2>2, <3>1 DEF Row
  <2>3. CASE i \notin DOMAIN snapshot
      BY <2>3, <1>4
  <2> QED
      BY <2>2, <2>3
<1> QED
    BY <1>2, <1>5, <1>6 DEF RowsStay

\* HEAD moves: whoever works on a branch keeps it, and nobody is in a call.
LEMMA MoveAdopts ==
    ASSUME AInv, NEW o \in Operators, InCall(o), ops'[o] = Idle,
           \A p \in Operators \ {o} : ops'[p] = ops[p],
           \A x \in DOMAIN epochs :
               epochs[x].status = "open" => epochs'[x].chosen = epochs[x].chosen
    PROVE  /\ CallsAgree'
           /\ \A p \in Operators : Working(p)' => ops'[p].todo \subseteq epochs'[ops'[p].epoch].chosen
<1>1. Idle.pc = "idle"
    BY DEF Idle
<1>2. \A p \in Operators \ {o} : ~InCall(p)'
    BY DEF AInv, HInv, CallOK, InCall
<1>3. Agreed(o)'
    BY <1>1 DEF Agreed
<1>4. ASSUME NEW p \in Operators, Working(p)'
      PROVE  ops'[p].todo \subseteq epochs'[ops'[p].epoch].chosen
  <2>1. p # o /\ ops'[p] = ops[p] /\ Working(p)
      BY <1>1, <1>4 DEF Working
  <2>2. epochs[ops[p].epoch].status = "open" /\ ops[p].epoch \in DOMAIN epochs
      BY <2>1, OperationHere DEF AInv, HInv, WorkOK, Working
  <2> QED
      BY <2>1, <2>2 DEF AInv, BranchesOK
<1> QED
    BY <1>2, <1>3, <1>4, OthersOutside

LEMMA MergeAdopts ==
    ASSUME AInv, NEW o \in Operators, AdoptMerge(o)
    PROVE  BranchesOK' /\ CallsAgree' /\ Remembered'
<1> PICK e : e = ops[o].epoch
    OBVIOUS
<1>1. HInv /\ IInv
    BY DEF AInv, HInv
<1>2. /\ InCall(o) /\ heads' = heads \cup {e} /\ ops[o].pc = "merge"
      /\ e \in DOMAIN epochs /\ epochs[e].status = "ready" /\ epochs[e].parent = head
      /\ head \in DOMAIN epochs /\ head # Never
      /\ DOMAIN epochs' = DOMAIN epochs
      /\ \A x \in DOMAIN epochs : /\ epochs'[x].parent = epochs[x].parent
                                  /\ epochs'[x].line = epochs[x].line
      /\ \A x \in DOMAIN epochs \ {e} :
            /\ epochs'[x].shadow = epochs[x].shadow /\ epochs'[x].base = epochs[x].base
            /\ epochs'[x].chosen = epochs[x].chosen /\ epochs'[x].before = epochs[x].before
            /\ epochs'[x].snapshot = epochs[x].snapshot
            /\ epochs'[x].status \in {"open", "ready"} => epochs[x].status \in {"open", "ready"}
      /\ epochs'[e].shadow = {} /\ epochs'[e].base = {} /\ epochs'[e].status = "adopted"
      /\ epochs'[e].before = Current /\ epochs'[e].snapshot = Snapshot(ops[o].old)
    BY <1>1, MergedEpochs
<1>3. ops'[o] = Idle /\ \A p \in Operators \ {o} : ops'[p] = ops[p]
    BY <1>1, OpsAre DEF AdoptMerge
<1>4. \A i \in DOMAIN rows : i \in DOMAIN rows' /\ rows'[i].epoch = rows[i].epoch
    BY <1>1, MergedRows
<1>5. /\ CallsAgree'
      /\ \A p \in Operators : Working(p)' => ops'[p].todo \subseteq epochs'[ops'[p].epoch].chosen
    BY <1>2, <1>3, MoveAdopts
<1>6. BranchesOK'
  <2>1. BranchOK(epochs'[e])
      BY <1>2 DEF BranchOK
  <2>2. \A x \in DOMAIN epochs \ {e} :
            /\ BranchOK(epochs'[x])
            /\ epochs'[x].status \in {"open", "ready"} => x \notin heads'
      BY <1>2 DEF AInv, BranchesOK, BranchOK, Supported
  <2> QED
      BY <1>2, <1>5, <2>1, <2>2 DEF BranchesOK
<1>7. Remembered'
  <2>1. RowsStay
      BY <1>4 DEF RowsStay
  <2>2. \A x \in DOMAIN epochs \ {e} : Remembers(x)'
      BY <1>1, <1>2, <2>1, StillRemembered DEF AInv, Remembered
  <2>3. Remembers(e)'
    <3>1. \A i \in Current : i \in DOMAIN rows /\ rows[i].epoch \in epochs[head].line
        BY DEF Current, Visible
    <3>2. \A i \in ops[o].old : rows[i].status = "active"
        BY <1>2 DEF AInv, CallsAgree, Agreed, Gone, HeadRows, Current
    <3>3. \A i \in DOMAIN Snapshot(ops[o].old) : Snapshot(ops[o].old)[i] = "active"
        BY <3>2 DEF Snapshot
    <3>4. \A i \in epochs'[e].before :
              /\ i \in DOMAIN rows' /\ epochs'[e].parent # Never
              /\ rows'[i].epoch \in epochs'[epochs'[e].parent].line
        BY <1>2, <1>4, <3>1
    <3> QED
        BY <1>2, <3>3, <3>4 DEF Remembers
  <2> QED
      BY <1>2, <2>2, <2>3 DEF Remembered
<1> QED
    BY <1>5, <1>6, <1>7

LEMMA UndoAdopts ==
    ASSUME AInv, NEW o \in Operators, RollbackWrite(o)
    PROVE  BranchesOK' /\ CallsAgree' /\ Remembered'
<1>1. HInv /\ IInv
    BY DEF AInv, HInv
<1> PICK up : up = epochs[head].parent
    OBVIOUS
<1>2. /\ InCall(o) /\ heads' = heads /\ DOMAIN epochs' = DOMAIN epochs
      /\ \A x \in DOMAIN epochs :
            /\ epochs'[x].parent = epochs[x].parent /\ epochs'[x].line = epochs[x].line
            /\ epochs'[x].shadow = epochs[x].shadow /\ epochs'[x].base = epochs[x].base
            /\ epochs'[x].chosen = epochs[x].chosen /\ epochs'[x].before = epochs[x].before
            /\ epochs'[x].snapshot = epochs[x].snapshot
            /\ epochs'[x].status \in {"open", "ready"} => epochs[x].status \in {"open", "ready"}
    BY <1>1, UndoneEpochs
<1>3. ops'[o] = Idle /\ \A p \in Operators \ {o} : ops'[p] = ops[p]
    BY <1>1, OpsAre DEF RollbackWrite
<1>4. /\ CallsAgree'
      /\ \A p \in Operators : Working(p)' => ops'[p].todo \subseteq epochs'[ops'[p].epoch].chosen
    BY <1>2, <1>3, MoveAdopts
<1>5. BranchesOK'
  <2>1. \A x \in DOMAIN epochs :
            /\ BranchOK(epochs'[x])
            /\ epochs'[x].status \in {"open", "ready"} => x \notin heads'
      BY <1>2 DEF AInv, BranchesOK, BranchOK, Supported
  <2> QED
      BY <1>2, <1>4, <2>1 DEF BranchesOK
<1>6. Remembered'
    BY <1>1, <1>2, UndoneRows, StillRemembered DEF AInv, Remembered
<1> QED
    BY <1>4, <1>5, <1>6

LEMMA AdoptStep == Orderly /\ AInv /\ [Next]_vars => AInv'
<1> SUFFICES ASSUME Orderly, AInv, [Next]_vars PROVE AInv'
    OBVIOUS
<1>1. HInv'
    BY HeadStep DEF AInv
<1>2. CASE \/ \E ep \in Episodes, said \in Claims : LiveForm(ep, said)
           \/ \E i \in DOMAIN rows : LiveRetire(i)
    BY <1>1, <1>2, LiveAdopt DEF AInv
<1>3. CASE \E o \in Operators, chosen \in SUBSET Episodes, tier \in Tiers :
               BranchOpen(o, chosen, tier)
    BY <1>1, <1>3, OpenAdopts DEF AInv
<1>4. CASE \/ \E o \in Operators : BranchSeed(o) \/ BranchReady(o) \/ BranchFail(o)
           \/ \E o \in Operators, ep \in Episodes, found \in SUBSET Claims : Recompute(o, ep, found)
    BY <1>1, <1>4, WorkAdopts DEF AInv
<1>5. CASE \/ \E o \in Operators : AdoptRefuse(o) \/ AdoptDiff(o) \/ RollbackRead(o) \/ Crash(o)
           \/ \E o \in Operators, e \in DOMAIN epochs : AdoptCheck(o, e)
    BY <1>1, <1>5, CallAdopts DEF AInv
<1>6. CASE \E o \in Operators : AdoptMerge(o)
    BY <1>1, <1>6, MergeAdopts DEF AInv
<1>7. CASE \E o \in Operators : RollbackWrite(o)
    BY <1>1, <1>7, UndoAdopts DEF AInv
<1>8. CASE UNCHANGED vars
  <2>1. UNCHANGED <<rows, epochs, head, ops, heads>>
      BY <1>8 DEF vars
  <2>2. BranchesOK'
      BY <2>1 DEF AInv, BranchesOK, Working
  <2>3. CallsAgree'
      BY <2>1, StillAgreed DEF AInv, CallsAgree
  <2>4. Remembered'
      BY <2>1 DEF AInv, Remembered, Remembers
  <2> QED
      BY <1>1, <2>2, <2>3, <2>4 DEF AInv
<1> QED
    BY <1>2, <1>3, <1>4, <1>5, <1>6, <1>7, <1>8 DEF Next

LEMMA Adoptable == ASSUME Orderly PROVE Spec => []AInv
<1>1. Init => AInv
    BY InitOK, HeadInit, AdoptInit DEF AInv, HInv
<1>2. AInv /\ [Next]_vars => AInv'
    BY AdoptStep
<1> QED
    BY <1>1, <1>2, PTL DEF Spec

\* Only two steps move HEAD: an adoption to a branch of it, a rollback to its parent.
LEMMA WhoMovesHead ==
    ASSUME AInv, Next, head' # head
    PROVE  /\ \E o \in Operators : AdoptMerge(o) \/ RollbackWrite(o)
           /\ Adopts => \E o \in Operators : AdoptMerge(o) /\ ops[o].epoch = head'
           /\ RollsBack => \E o \in Operators : RollbackWrite(o)
<1>1. \E o \in Operators : AdoptMerge(o) \/ RollbackWrite(o)
    BY ZenonT(40) DEF Next, LiveForm, LiveRetire, BranchOpen, BranchSeed, Recompute, BranchReady,
           BranchFail, AdoptCheck, AdoptRefuse, AdoptDiff, RollbackRead, Crash
<1> PICK o \in Operators : AdoptMerge(o) \/ RollbackWrite(o)
    BY <1>1
<1> PICK e : e = ops[o].epoch
    OBVIOUS
<1> PICK up : up = epochs[head].parent
    OBVIOUS
<1>2. HInv /\ IInv
    BY DEF AInv, HInv
<1>3. \A x \in DOMAIN epochs : epochs[x].parent < x /\ x \in Nat /\ epochs[x].parent \in Nat
    BY <1>2, EpochHere, EpochsAreNumbered DEF EpochOK, EpochRecord
<1>4. CASE AdoptMerge(o)
  <2>1. head' = e /\ e \in DOMAIN epochs /\ epochs[e].parent = head /\ head \in DOMAIN epochs
      BY <1>2, <1>4, MergedEpochs
  <2>2. ~RollsBack
      BY <2>1, <1>3 DEF RollsBack
  <2> QED
      BY <1>1, <1>4, <2>1, <2>2
<1>5. CASE RollbackWrite(o)
  <2>1. head' = up /\ up \in DOMAIN epochs /\ head \in DOMAIN epochs
      BY <1>2, <1>5, UndoneEpochs
  <2>2. ~Adopts
      BY <2>1, <1>3 DEF Adopts
  <2> QED
      BY <1>1, <1>5, <2>2
<1> QED
    BY <1>4, <1>5

-----------------------------------------------------------------------------
\* What is current after an adoption: what was and is not retired, and a row for
\* each version that HEAD did not hold.
LEMMA MergedCurrent ==
    ASSUME AInv, NEW o \in Operators, AdoptMerge(o), NEW e, e = ops[o].epoch
    PROVE  /\ \A i \in DOMAIN rows : i \in Current' <=> i \in Current /\ i \notin Gone(e)
           /\ \A i \in Current' \cap DOMAIN rows : rows'[i] = rows[i]
           /\ \A i \in Current' \ DOMAIN rows : \E v \in Appeared(e) : rows'[i] = AsRow(v)
           /\ \A v \in Appeared(e) : \E i \in Current' : rows'[i] = AsRow(v)
<1>1. HInv /\ IInv
    BY DEF AInv, HInv
<1>2. /\ ops[o].pc = "merge" /\ head' = e
      /\ e \in DOMAIN epochs /\ epochs[e].status = "ready"
      /\ epochs[e].line = {e} \cup epochs[head].line /\ epochs'[e].line = epochs[e].line
    BY <1>1, MergedEpochs
<1>3. ops[o].old = Gone(e) /\ ops[o].new = Appeared(e)
    BY <1>2 DEF AInv, CallsAgree, Agreed
<1>4. /\ \A i \in DOMAIN rows :
            /\ i \in DOMAIN rows' /\ rows'[i].epoch = rows[i].epoch
            /\ i \in Gone(e) => rows'[i].status = "superseded"
            /\ i \notin Gone(e) => rows'[i] = rows[i]
      /\ \A i \in DOMAIN rows' \ DOMAIN rows : \E v \in Appeared(e) : rows'[i] = AsRow(v)
      /\ \A v \in Appeared(e) : \E i \in DOMAIN rows' \ DOMAIN rows : rows'[i] = AsRow(v)
    BY <1>1, <1>3, MergedRows
<1>5. e \notin heads
    BY <1>2 DEF AInv, BranchesOK
<1>6. \A i \in DOMAIN rows : rows[i].epoch # e
    BY <1>1, <1>5 DEF IInv, RowsOK
<1>7. Current' = {i \in DOMAIN rows' : /\ rows'[i].epoch \in {e} \cup epochs[head].line
                                       /\ rows'[i].status = "active"}
    BY <1>2 DEF Current, Visible
<1>8. \A i \in DOMAIN rows : i \in Current' <=> i \in Current /\ i \notin Gone(e)
    BY <1>4, <1>6, <1>7 DEF Current, Visible
<1>9. \A v \in Appeared(e) : /\ AsRow(v).epoch \in {e} \cup epochs[head].line
                             /\ AsRow(v).status = "active"
    BY <1>2 DEF AInv, BranchesOK, BranchOK, Appeared, AsRow
<1>10. \A v \in Appeared(e) : \E i \in Current' : rows'[i] = AsRow(v)
  <2> TAKE v \in Appeared(e)
  <2> PICK i \in DOMAIN rows' \ DOMAIN rows : rows'[i] = AsRow(v)
      BY <1>4
  <2>1. i \in Current'
      BY <1>7, <1>9
  <2> QED
      BY <2>1
<1>11. \A i \in Current' : i \in DOMAIN rows'
    BY <1>7
<1> QED
    BY <1>4, <1>8, <1>10, <1>11

(* After an adoption HEAD says what the branch says, key for key, however the *)
(* adoption comes about: in one process whose operators adopt finished        *)
(* branches of HEAD, a branch may have been open while formation went on and  *)
(* other branches failed, were adopted and rolled back (adopt, diff_epochs).  *)
THEOREM BranchIsInstalled == ASSUME Orderly PROVE Spec => AdoptInstallsTheBranch
<1>1. ASSUME AInv, Next, Adopts, OneRowPerKey
      PROVE  {Says(rows'[i]) : i \in Current'} = {Says(c) : c \in epochs[head'].shadow}
  <2>1. PICK o \in Operators : AdoptMerge(o) /\ ops[o].epoch = head'
      BY <1>1, WhoMovesHead DEF Adopts
  <2>2. PICK e : e = ops[o].epoch
      OBVIOUS
  <2>3. /\ \A i \in DOMAIN rows : i \in Current' <=> i \in Current /\ i \notin Gone(e)
        /\ \A i \in Current' \cap DOMAIN rows : rows'[i] = rows[i]
        /\ \A i \in Current' \ DOMAIN rows : \E v \in Appeared(e) : rows'[i] = AsRow(v)
        /\ \A v \in Appeared(e) : \E i \in Current' : rows'[i] = AsRow(v)
      BY <1>1, <2>1, <2>2, MergedCurrent
  <2>4. \A i \in Current : i \in HeadRows /\ i \in DOMAIN rows
    <3>1. \A i \in DOMAIN rows : i \in Nat
        BY <1>1, RowsAreNumbered DEF AInv, HInv
    <3> QED
        BY <1>1, <3>1 DEF HeadRows, OneRowPerKey, Current
  <2>5. \A v : Says(AsRow(v)) = Says(v)
      BY DEF Says, AsRow
  <2>6. \A i \in Current' : \E c \in epochs[e].shadow : Says(rows'[i]) = Says(c)
    <3> TAKE i \in Current'
    <3>1. CASE i \in DOMAIN rows
      <4>1. i \in HeadRows /\ i \notin Gone(e) /\ rows'[i] = rows[i]
          BY <3>1, <2>3, <2>4
      <4> QED
          BY <4>1 DEF Gone, Unchanged
    <3>2. CASE i \notin DOMAIN rows
        BY <3>2, <2>3, <2>5 DEF Appeared
    <3> QED
        BY <3>1, <3>2
  <2>7. \A c \in epochs[e].shadow : \E i \in Current' : Says(rows'[i]) = Says(c)
    <3> TAKE c \in epochs[e].shadow
    <3>1. CASE c \in Appeared(e)
        BY <3>1, <2>3, <2>5
    <3>2. CASE c \notin Appeared(e)
      <4> PICK i \in HeadRows : Unchanged(c, rows[i])
          BY <3>2 DEF Appeared
      <4>1. i \in Current /\ i \in DOMAIN rows /\ i \notin Gone(e)
          BY DEF HeadRows, Current, Gone
      <4>2. i \in Current' /\ rows'[i] = rows[i]
          BY <4>1, <2>3
      <4> QED
          BY <4>2 DEF Unchanged
    <3> QED
        BY <3>1, <3>2
  <2>8. epochs[head'].shadow = epochs[e].shadow
      BY <2>1, <2>2
  <2> QED
      BY <2>6, <2>7, <2>8
<1>2. AInv /\ [Next]_vars =>
        [Adopts /\ OneRowPerKey =>
           {Says(rows'[i]) : i \in Current'} = {Says(c) : c \in epochs[head'].shadow}]_vars
    BY <1>1
<1> QED
    BY <1>2, Adoptable, PTL DEF Spec, AdoptInstallsTheBranch

(* An adoption takes away only what the selected episodes bear on.  If,       *)
(* besides, HEAD says what it said when the branch was seeded, a current fact *)
(* that goes rests on a selected episode, or what stands in its place does.   *)
THEOREM OthersAreSpared ==
    ASSUME Orderly, "drift" \notin Misuse PROVE Spec => AdoptSparesTheRest
<1>1. ASSUME AInv, Next, Adopts, NEW i \in Current, i \notin Current',
             rows[i].eps \cap epochs[head'].chosen = {}
      PROVE  \E j \in Current' : /\ rows'[j].key = rows[i].key
                                 /\ rows'[j].eps \cap epochs[head'].chosen # {}
  <2>1. PICK o \in Operators : AdoptMerge(o) /\ ops[o].epoch = head'
      BY <1>1, WhoMovesHead DEF Adopts
  <2>2. PICK e : e = ops[o].epoch
      OBVIOUS
  <2>3. /\ \A k \in DOMAIN rows : k \in Current' <=> k \in Current /\ k \notin Gone(e)
        /\ \A v \in Appeared(e) : \E k \in Current' : rows'[k] = AsRow(v)
      BY <1>1, <2>1, <2>2, MergedCurrent
  <2>4. i \in Gone(e) /\ i \in HeadRows /\ ~\E c \in epochs[e].shadow : Unchanged(c, rows[i])
      BY <1>1, <2>3 DEF Current, Gone
  <2>5. PICK b : b = AsVersion(rows[i])
      OBVIOUS
  <2>6. /\ b.key = rows[i].key /\ b.eps = rows[i].eps /\ Unchanged(b, rows[i])
      BY <2>5 DEF AsVersion, Unchanged, Says
  <2>7. Supported(b, epochs[e])
    <3>1. ops[o].pc = "merge" /\ e \in DOMAIN epochs
        BY <1>1, <2>1, <2>2, MergedEpochs DEF AInv
    <3>2. Agreed(o)
        BY <1>1 DEF AInv, CallsAgree
    <3>3. NoDrift(e)
        BY <2>2, <3>1, <3>2 DEF Agreed
    <3>4. b \in epochs[e].base
        BY <2>4, <2>5, <3>3 DEF NoDrift
    <3> QED
        BY <1>1, <3>1, <3>4 DEF AInv, BranchesOK, BranchOK
  <2>8. PICK c \in epochs[e].shadow : c.key = b.key /\ c.eps \cap epochs[e].chosen # {}
      BY <1>1, <2>1, <2>2, <2>4, <2>6, <2>7 DEF Supported
  <2>9. c \in Appeared(e)
    <3> SUFFICES ASSUME NEW k \in HeadRows, Unchanged(c, rows[k]) PROVE FALSE
        BY DEF Appeared
    <3>1. rows[k].key = rows[i].key
        BY <2>6, <2>8 DEF Unchanged, Says
    <3>2. k \in Nat /\ i \in Nat
        BY <1>1, RowsAreNumbered DEF AInv, HInv, HeadRows, Current
    <3>3. k = i
        BY <3>1, <3>2, <2>4 DEF HeadRows
    <3> QED
        BY <3>3, <2>4
  <2>10. PICK j \in Current' : rows'[j] = AsRow(c)
      BY <2>3, <2>9
  <2>11. rows'[j].key = c.key /\ rows'[j].eps = c.eps
      BY <2>10 DEF AsRow
  <2> QED
      BY <2>1, <2>2, <2>6, <2>8, <2>11
<1>2. AInv /\ [Next]_vars =>
        [Adopts => LET chosen == epochs[head'].chosen IN
           \A i \in Current : i \in Current'
               \/ rows[i].eps \cap chosen # {}
               \/ \E j \in Current' : rows'[j].key = rows[i].key
                                      /\ rows'[j].eps \cap chosen # {}]_vars
    BY <1>1
<1> QED
    BY <1>2, Adoptable, PTL DEF Spec, AdoptSparesTheRest

(* A rollback brings back every row that HEAD said before the adoption and no *)
(* live write has retired since, and hides what was written under the epoch   *)
(* that is rolled back: in one process whose operators adopt finished         *)
(* branches of HEAD (rollback).                                               *)
THEOREM RollbackBringsBack == ASSUME Orderly PROVE Spec => RollbackUndoes
<1>1. ASSUME AInv, Next, RollsBack
      PROVE  Kept(head) \subseteq Current' /\ \A i \in Current' : rows'[i].epoch # head
  <2>1. PICK o \in Operators : RollbackWrite(o)
      BY <1>1, WhoMovesHead DEF RollsBack
  <2>2. PICK up : up = epochs[head].parent
      OBVIOUS
  <2>3. /\ head' = up /\ head \in DOMAIN epochs /\ up \in DOMAIN epochs /\ up < head
        /\ up \in Nat /\ head \in Nat /\ epochs'[up].line = epochs[up].line
      BY <1>1, <2>1, <2>2, UndoneEpochs DEF AInv
  <2>4. /\ RowsStay /\ DOMAIN rows' = DOMAIN rows
        /\ \A i \in DOMAIN rows :
              rows'[i].status = IF i \in DOMAIN epochs[head].snapshot THEN "active"
                                ELSE rows[i].status
      BY <1>1, <2>1, UndoneRows
  <2>5. Current' = {i \in DOMAIN rows : /\ rows[i].epoch \in epochs[up].line
                                        /\ rows'[i].status = "active"}
      BY <2>3, <2>4 DEF Current, Visible, RowsStay
  <2>6. Kept(head) \subseteq Current'
    <3> SUFFICES ASSUME NEW i \in Kept(head) PROVE i \in Current'
        OBVIOUS
    <3>1. i \in DOMAIN rows /\ rows[i].epoch \in epochs[up].line
        BY <1>1, <2>2, <2>3 DEF AInv, Remembered, Remembers, Kept
    <3>2. rows'[i].status = "active"
        BY <2>4, <3>1 DEF Kept
    <3> QED
        BY <2>5, <3>1, <3>2
  <2>7. \A i \in Current' : rows'[i].epoch # head
    <3>1. epochs[up].line \subseteq 1..up
        BY <1>1, <2>3, EpochHere DEF AInv, HInv, EpochOK
    <3>2. head \notin epochs[up].line
        BY <2>3, <3>1
    <3> QED
        BY <2>4, <2>5, <3>2 DEF RowsStay
  <2> QED
      BY <2>6, <2>7
<1>2. AInv /\ [Next]_vars =>
        [RollsBack => /\ Kept(head) \subseteq Current'
                      /\ \A i \in Current' : rows'[i].epoch # head]_vars
    BY <1>1
<1> QED
    BY <1>2, Adoptable, PTL DEF Spec, RollbackUndoes
=============================================================================
