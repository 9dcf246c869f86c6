----------------------------- MODULE AuditProofs -----------------------------
(* The audit of a scope misses nothing (AuditIsSound), in one process and for *)
(* any runs, early commits, outages, crashes and silent changes; and it       *)
(* accuses nobody of what did not happen (AuditAccepts), in any processes.    *)
EXTENDS ReceiptProofs, WellFoundedInduction

\* A set of naturals has a least member.
LEMMA LeastOf == ASSUME NEW N \in SUBSET Nat, N # {} PROVE \E m \in N : \A n \in N : m <= n
<1>. DEFINE less == OpToRel(<, Nat)
<1>1. PICK m \in N : \A n \in N : <<n, m>> \notin less
  <2>1. IsWellFoundedOn(less, Nat)
    BY NatLessThanWellFounded
  <2>. HIDE DEF less
  <2>. QED BY <2>1, WFMin
<1>2. \A n \in N : ~(n < m)
  BY <1>1 DEF OpToRel
<1>. QED BY <1>2

\* The receipts of a scope are listed in a total order, so a list that is not
\* empty has a last entry.
LEMMA LatestIsListed ==
    ASSUME NEW R \in SUBSET Receipt, IsFiniteSet(R), R # {},
           \A x, y \in R : x.run = y.run /\ x.idx = y.idx => x = y
    PROVE  Latest(R) \in R /\ \A y \in R \ {Latest(R)} : Earlier(y, Latest(R))
<1>. DEFINE After(x) == {y \in R : Earlier(x, y)}
            size == [x \in R |-> Cardinality(After(x))]
<1>1. \A x \in R : size[x] = Cardinality(After(x))
  OBVIOUS
<1>2. \A x \in R : IsFiniteSet(After(x)) /\ Cardinality(After(x)) \in Nat
  BY FS_Subset, FS_CardinalityType
<1>t. \A x \in R : x.run \in Nat /\ x.idx \in Nat /\ x.at \in Nat
  BY RunAssumption DEF Receipt
<1>. HIDE DEF size
<1>3. PICK x \in R : \A y \in R : size[x] <= size[y]
  <2>. DEFINE N == {size[y] : y \in R}
  <2>1. N \in SUBSET Nat /\ N # {}
    BY <1>1, <1>2, ZenonT(40)
  <2>2. \E m \in N : \A n \in N : m <= n
    <3>. HIDE DEF N
    <3>. QED BY <2>1, LeastOf
  <2>. QED BY <2>2
<1>4. ASSUME NEW y \in R, Earlier(x, y) PROVE FALSE
  <2>1. After(y) \subseteq After(x) /\ y \in After(x) /\ y \notin After(y)
    BY <1>t, <1>4 DEF Earlier
  <2>. HIDE DEF After
  <2>2. Cardinality(After(y)) <= Cardinality(After(x)) /\ After(y) # After(x)
    BY <1>2, <2>1, FS_Subset
  <2>3. Cardinality(After(y)) # Cardinality(After(x))
    BY <1>2, <2>1, FS_Subset
  <2>. QED BY <1>1, <1>2, <1>3, <2>2, <2>3
<1>5. \A y \in R \ {x} : Earlier(y, x)
  <2>1. \A y \in R \ {x} : ~(y.run = x.run /\ y.idx = x.idx)
    OBVIOUS
  <2>2. \A y \in R : ~Earlier(x, y)
    BY <1>4
  <2>. QED BY <1>t, <2>1, <2>2 DEF Earlier
<1>. QED BY <1>5 DEF Latest
-----------------------------------------------------------------------------
(* The invariant.                                                             *)
\* One run at a time is between two steps that belong together, and without a
\* writer nothing is open.
Busy(r) == run[r].stage \in {"bracket", "refused", "read", "marked"}
OneAtWork ==
    /\ \A p, q \in Runs : Busy(p) /\ Busy(q) => p = q
    /\ writer = 0 => work = disk

\* Every state that is seen or receipted was produced.
Counted ==
    /\ disk.state <= writes /\ work.state <= writes
    /\ \A r \in Runs : run[r].before <= writes
    /\ \A x \in work.receipts : x.after <= writes

\* No receipt says that a mutation led to this state.
Missing(s) == \A x \in Mutating(work.receipts) : x.after # s

\* What a run read before its mutation is what the mutation started from.
SomeoneMarked == \E r \in Runs : run[r].stage = "marked"
Between ==
    \A r \in Runs :
        /\ run[r].stage = "read" => run[r].before = disk.state
        /\ run[r].stage = "marked" => run[r].before < disk.state /\ Missing(disk.state)

\* A change without a receipt leaves a gap: the state it led to is where the
\* scope is, or where the next receipt starts, but no receipt leads there.
Shown(d, s) ==
    \/ d.state = s
    \/ \E y \in Mutating(d.receipts) : y.before = s
    \/ \E r \in Runs : run[r].stage = "marked" /\ run[r].before = s
Gap(s) ==
    /\ Missing(s) /\ Shown(disk, s) /\ Shown(work, s)
    /\ SomeoneMarked => s # disk.state
GapShows == unreceipted => \E s \in 1..writes : Gap(s)

AInv == IInv /\ OneAtWork /\ Counted /\ Between /\ GapShows

LEMMA StoresTyped ==
    ASSUME IInv
    PROVE  /\ disk \in Store /\ work \in Store /\ writes \in Nat
           /\ run \in [Runs -> Handle] /\ \A r \in Runs : run[r].before \in Nat
           /\ \A x \in work.receipts : x \in Receipt /\ x.before \in Nat /\ x.after \in Nat
           /\ disk.receipts \subseteq work.receipts
           /\ disk.state \in Nat /\ work.state \in Nat
BY DEF IInv, TypeOK, Store, Receipt, Handle, WorkExtendsDisk

\* An audit that passes has no room for a gap.
LEMMA GapsFail == AInv /\ AuditPasses /\ Grounded => ~unreceipted
<1>. SUFFICES ASSUME AInv, AuditPasses, Grounded, unreceipted PROVE FALSE
  OBVIOUS
<1>. DEFINE moves == Mutating(disk.receipts)
<1>1. moves \in SUBSET Receipt /\ IsFiniteSet(work.receipts) /\ moves \subseteq work.receipts
  BY StoresTyped DEF AInv, IInv, Mutating
<1>2. \A R \in SUBSET moves : R # {} => Latest(R) \in R
  <2>. SUFFICES ASSUME NEW R \in SUBSET moves, R # {} PROVE Latest(R) \in R
    OBVIOUS
  <2>1. IsFiniteSet(R)
    BY <1>1, FS_Subset
  <2>2. \A x, y \in R : x.run = y.run /\ x.idx = y.idx => x = y
    BY <1>1 DEF AInv, IInv, CursorsLead
  <2>. HIDE DEF moves
  <2>. QED BY <1>1, <2>1, <2>2, LatestIsListed
<1>3. \A s : Missing(s) => \A x \in moves : x.after # s
  BY StoresTyped DEF Missing, Mutating, AInv
<1>4. ASSUME NEW s \in Nat \ {0}, Missing(s) PROVE disk.state # s
  <2>1. moves # {} => Latest(moves).after # s
    BY <1>2, <1>3, <1>4
  <2>. QED BY <2>1 DEF AuditPasses
<1>5. ASSUME NEW s \in Nat \ {0}, Missing(s), NEW y \in moves PROVE y.before # s
  <2>. DEFINE past == {x \in moves : Earlier(x, y)}
  <2>1. CASE past = {}
    <3>1. \A x \in moves \ {y} : Earlier(y, x)
      <4>1. \A x \in moves : x.run \in Nat /\ x.idx \in Nat /\ x.at \in Nat
        BY <1>1, RunAssumption DEF Receipt
      <4>2. \A x \in moves \ {y} : ~(x.run = y.run /\ x.idx = y.idx)
        BY <1>1 DEF AInv, IInv, CursorsLead
      <4>3. \A x \in moves : ~Earlier(x, y)
        BY <2>1
      <4>. QED BY <4>1, <4>2, <4>3 DEF Earlier
    <3>. QED BY <3>1 DEF Grounded
  <2>2. CASE past # {}
    <3>1. y.before = Latest(past).after
      BY <2>2 DEF AuditPasses, Contiguous
    <3>2. Latest(past) \in past
      BY <1>2, <2>2
    <3>. QED BY <1>3, <1>5, <3>1, <3>2
  <2>. QED BY <2>1, <2>2
<1>6. PICK s \in 1..writes : Gap(s)
  BY DEF AInv, GapShows
<1>7. CASE \E r \in Runs : run[r].stage = "marked"
  <2>1. PICK r \in Runs : run[r].stage = "marked"
    BY <1>7
  <2>2. disk.state \in Nat \ {0} /\ Missing(disk.state)
    BY <2>1, StoresTyped DEF AInv, Between
  <2>. QED BY <1>4, <2>2
<1>8. CASE ~\E r \in Runs : run[r].stage = "marked"
  <2>1. s \in Nat \ {0} /\ Missing(s)
    BY <1>6, StoresTyped DEF AInv, Gap
  <2>2. disk.state = s \/ \E y \in moves : y.before = s
    BY <1>6, <1>8 DEF Gap, Shown
  <2>. QED BY <1>4, <1>5, <2>1, <2>2
<1>. QED BY <1>7, <1>8
-----------------------------------------------------------------------------
(* Its preservation.                                                          *)

\* In one process who acts finds nobody else between two steps.
LEMMA QuietAlone ==
    ASSUME OneProcess, NEW r \in Runs, Quiet(r)
    PROVE  \A q \in Runs \ {r} : ~Busy(q)
BY DEF Quiet, Busy

LEMMA BusyAlone ==
    ASSUME AInv, NEW r \in Runs, Busy(r)
    PROVE  (\A q \in Runs \ {r} : ~Busy(q)) /\ writer \in {0, r}
<1>1. \A q \in Runs \ {r} : ~Busy(q)
  BY DEF AInv, OneAtWork
<1>2. writer # 0 => writer \in Runs /\ Busy(writer)
  BY DEF AInv, IInv, TypeOK, WorkExtendsDisk, Busy
<1>. QED BY <1>1, <1>2

\* Decisions that move nothing do not count as mutations.
LEMMA MovesGrow ==
    ASSUME NEW R, NEW x
    PROVE  /\ x.before = x.after => Mutating(R \cup {x}) = Mutating(R)
           /\ x.before # x.after => Mutating(R \cup {x}) = Mutating(R) \cup {x}
BY DEF Mutating

LEMMA ReceiptSays ==
    ASSUME NEW r \in Runs, NEW a, NEW b
    PROVE  Receipted(r, a, b).before = a /\ Receipted(r, a, b).after = b
BY DEF Receipted

\* As d is now, so the store is after the step, as far as an audit can tell.
Same(e, d) == e.state = d.state /\ Mutating(e.receipts) = Mutating(d.receipts)

\* A step that commits, gives up or notes, but mutates nothing.
LEMMA Steady ==
    ASSUME AInv, writes' = writes, unreceipted' = unreceipted,
           Same(disk', disk) \/ Same(disk', work),
           Same(work', work) \/ Same(work', disk),
           \A x \in work'.receipts : x.after <= writes,
           \A r \in Runs : /\ run'[r].before = run[r].before
                           /\ run'[r].stage = "marked" <=> run[r].stage = "marked"
                           /\ run'[r].stage = "read" => run[r].stage = "read",
           (\E r \in Runs : run[r].stage \in {"read", "marked"}) => disk'.state = disk.state
    PROVE  Counted' /\ Between' /\ GapShows'
<1>1. Counted'
  BY DEF AInv, Counted, Same
<1>2. Mutating(disk.receipts) \subseteq Mutating(work.receipts)
  BY StoresTyped DEF AInv, Mutating
<1>3. Mutating(work'.receipts) \subseteq Mutating(work.receipts)
  BY <1>2 DEF Same
<1>4. \A s : Missing(s) => Missing(s)'
  BY <1>3 DEF Missing
<1>5. Between'
  BY <1>4 DEF AInv, Between
<1>6. \A s : Shown(disk, s) /\ Shown(work, s) => Shown(disk, s)' /\ Shown(work, s)'
  <2>1. ASSUME NEW s, Shown(disk, s), Shown(work, s), NEW e, Same(e, disk) \/ Same(e, work)
        PROVE  \/ e.state = s
               \/ \E y \in Mutating(e.receipts) : y.before = s
               \/ \E r \in Runs : run'[r].stage = "marked" /\ run'[r].before = s
    BY <2>1 DEF Shown, Same
  <2>. QED BY <2>1 DEF Shown
<1>7. \A s : Gap(s) => Gap(s)'
  BY <1>4, <1>6 DEF Gap, SomeoneMarked
<1>. QED BY <1>1, <1>5, <1>7 DEF AInv, GapShows

\* Steps that leave the stores alone, and steps that end a bracket.
LEMMA OtherSteps ==
    ASSUME AInv, OneProcess, NEW r \in Runs,
           \/ begin_run(r) \/ OpenBracket(r) \/ CommitEarly(r) \/ CommitBracket(r)
           \/ Outage(r) \/ Checkpoint(r)
    PROVE  OneAtWork' /\ Counted' /\ Between' /\ GapShows'
<1>a. run \in [Runs -> Handle] /\ (writer # 0 => writer \in Runs /\ Busy(writer))
  BY StoresTyped DEF AInv, IInv, TypeOK, WorkExtendsDisk, Busy
<1>1. /\ writes' = writes /\ unreceipted' = unreceipted
      /\ \A q \in Runs : run'[q].before = run[q].before
      /\ \A q \in Runs \ {r} : run'[q] = run[q]
      /\ run[r].stage \notin {"read", "marked"} /\ run'[r].stage \notin {"read", "marked"}
  BY <1>a DEF begin_run, OpenBracket, CommitEarly, CommitBracket, Outage, Checkpoint, History, Handle
<1>2. \/ disk' = disk /\ work' = work
      \/ Busy(r) /\ disk' = work /\ work' = work
      \/ disk' = disk /\ work' = disk
  BY DEF begin_run, OpenBracket, CommitEarly, CommitBracket, Outage, Checkpoint, Rollback, Busy
<1>3. \A q \in Runs \ {r} : ~Busy(q)
  <2>1. CASE CommitEarly(r) \/ CommitBracket(r) \/ Outage(r)
    <3>1. Busy(r)
      BY <2>1 DEF CommitEarly, CommitBracket, Outage, Busy
    <3>. QED BY <3>1, BusyAlone
  <2>2. CASE begin_run(r) \/ OpenBracket(r) \/ Checkpoint(r)
    BY <2>2, QuietAlone DEF begin_run, OpenBracket, Checkpoint, Free
  <2>. QED BY <2>1, <2>2
<1>4. OneAtWork'
  <2>1. \A p, q \in Runs : Busy(p)' /\ Busy(q)' => p = q
    BY <1>1, <1>3 DEF Busy
  <2>2. writer' = 0 => work' = disk'
    <3>1. CASE begin_run(r) \/ Checkpoint(r)
      BY <3>1 DEF begin_run, Checkpoint, AInv, OneAtWork
    <3>2. CASE OpenBracket(r)
      BY <3>2, RunAssumption DEF OpenBracket
    <3>3. CASE CommitEarly(r) \/ CommitBracket(r) \/ Outage(r)
      BY <3>3 DEF CommitEarly, CommitBracket, Outage
    <3>. QED BY <3>1, <3>2, <3>3
  <2>. QED BY <2>1, <2>2 DEF OneAtWork
<1>5. (\E q \in Runs : run[q].stage \in {"read", "marked"}) => disk' = disk
  BY <1>1, <1>3 DEF Busy
<1>6. \A x \in work'.receipts : x.after <= writes
  BY <1>2, StoresTyped DEF AInv, Counted
<1>7. \A q \in Runs : /\ run'[q].stage = "marked" <=> run[q].stage = "marked"
                      /\ run'[q].stage = "read" => run[q].stage = "read"
  BY <1>1
<1>8. (Same(disk', disk) \/ Same(disk', work)) /\ (Same(work', work) \/ Same(work', disk))
  BY <1>2 DEF Same
<1>. QED BY <1>1, <1>4, <1>5, <1>6, <1>7, <1>8, Steady

\* A receipt of a decision that moved nothing.
LEMMA NoteStep ==
    ASSUME AInv, OneProcess, NEW r \in Runs, EmitNote(r) \/ ReceiptOutage(r)
    PROVE  OneAtWork' /\ Counted' /\ Between' /\ GapShows'
<1>a. run \in [Runs -> Handle] /\ disk \in Store /\ disk.state \in Nat /\ TypeOK
  BY StoresTyped DEF AInv, IInv
<1>. DEFINE x == Receipted(r, disk.state, disk.state)
<1>1. x \in Receipt /\ x.before = disk.state /\ x.after = disk.state
  BY <1>a, ReceiptTyped, ReceiptSays
<1>2. /\ writer = 0 /\ disk' = [disk EXCEPT !.receipts = @ \cup {x}] /\ work' = disk'
      /\ writes' = writes /\ writer' = writer /\ unreceipted' = unreceipted
  BY DEF EmitNote, ReceiptOutage, History, Free
<1>. HIDE DEF x
<1>3. disk'.receipts = disk.receipts \cup {x} /\ disk'.state = disk.state
  BY <1>a, <1>2 DEF Store
<1>4. /\ \A q \in Runs : run'[q].before = run[q].before
      /\ \A q \in Runs \ {r} : run'[q] = run[q]
      /\ run[r].stage \in {"running", "refused"} /\ run'[r].stage = "running"
  BY <1>a DEF EmitNote, ReceiptOutage, Handle
<1>5. Same(disk', disk) /\ Same(work', disk)
  BY <1>1, <1>2, <1>3, MovesGrow DEF Same
<1>6. OneAtWork'
  <2>1. \A p \in Runs : Busy(p)' => Busy(p)
    BY <1>4 DEF Busy
  <2>. QED BY <1>2, <2>1 DEF AInv, OneAtWork
<1>7. \A y \in work'.receipts : y.after <= writes
  BY <1>1, <1>2, <1>3, StoresTyped DEF AInv, Counted
<1>8. \A q \in Runs : /\ run'[q].stage = "marked" <=> run[q].stage = "marked"
                      /\ run'[q].stage = "read" => run[q].stage = "read"
  BY <1>4
<1>. QED BY <1>2, <1>3, <1>4, <1>5, <1>6, <1>7, <1>8, Steady

\* A mutation inside a bracket starts where the open transaction is.
LEMMA MutateStep ==
    ASSUME AInv, OneProcess, NEW r \in Runs, Mutate(r)
    PROVE  OneAtWork' /\ Counted' /\ Between' /\ GapShows'
<1>a. /\ run \in [Runs -> Handle] /\ work.state \in Nat /\ writes \in Nat /\ TypeOK
      /\ \A q \in Runs : run[q].before \in Nat
  BY StoresTyped DEF AInv, IInv
<1>. DEFINE x == Receipted(r, work.state, writes + 1)
<1>1. x.before = work.state /\ x.after = writes + 1 /\ work.state <= writes
  BY ReceiptSays DEF AInv, Counted
<1>2. /\ writer' = r /\ disk' = disk /\ writes' = writes + 1 /\ unreceipted' = unreceipted
      /\ work' = [state |-> writes + 1, receipts |-> work.receipts \cup {x}]
  BY DEF Mutate, History
<1>. HIDE DEF x
<1>3. \A q \in Runs : run'[q].before = run[q].before /\ run'[q].stage = run[q].stage
  BY <1>a DEF Mutate, Handle
<1>4. \A q \in Runs : run[q].stage \notin {"read", "marked"}
  BY BusyAlone DEF Mutate, Busy
<1>5. Mutating(work'.receipts) = Mutating(work.receipts) \cup {x}
  BY <1>1, <1>2, <1>a, MovesGrow
<1>6. OneAtWork'
  BY <1>2, <1>3, RunAssumption DEF AInv, OneAtWork, Busy
<1>7. Counted'
  <2>1. disk'.state <= writes' /\ work'.state <= writes'
    BY <1>2, <1>a, StoresTyped DEF AInv, Counted
  <2>2. \A q \in Runs : run'[q].before <= writes'
    BY <1>2, <1>3, <1>a DEF AInv, Counted
  <2>3. \A y \in work'.receipts : y.after <= writes'
    BY <1>1, <1>2, <1>a, StoresTyped DEF AInv, Counted
  <2>. QED BY <2>1, <2>2, <2>3 DEF Counted
<1>8. Between'
  BY <1>3, <1>4 DEF Between
<1>9. \A s \in 1..writes : Gap(s) => Gap(s)'
  <2>. SUFFICES ASSUME NEW s \in 1..writes, Gap(s) PROVE Gap(s)'
    OBVIOUS
  <2>1. Missing(s)'
    BY <1>1, <1>5, <1>a DEF Gap, Missing
  <2>2. Shown(disk, s)'
    BY <1>2, <1>3 DEF Gap, Shown
  <2>3. Shown(work, s)'
    <3>1. CASE work.state = s
      BY <3>1, <1>1, <1>5 DEF Shown
    <3>2. CASE \E y \in Mutating(work.receipts) : y.before = s
      BY <3>2, <1>5 DEF Shown
    <3>. QED BY <3>1, <3>2, <1>4 DEF Gap, Shown
  <2>4. s <= writes' /\ ~SomeoneMarked'
    BY <1>2, <1>3, <1>4, <1>a DEF SomeoneMarked
  <2>. QED BY <2>1, <2>2, <2>3, <2>4 DEF Gap
<1>. QED BY <1>2, <1>6, <1>7, <1>8, <1>9, <1>a DEF AInv, GapShows

\* A run reads where the scope is, ...
LEMMA ReadStep ==
    ASSUME AInv, OneProcess, NEW r \in Runs, ReadHash(r)
    PROVE  OneAtWork' /\ Counted' /\ Between' /\ GapShows'
<1>a. run \in [Runs -> Handle] /\ disk.state \in Nat
  BY StoresTyped DEF AInv
<1>1. disk' = disk /\ work' = work /\ writer' = writer /\ writes' = writes /\ unreceipted' = unreceipted
  BY DEF ReadHash, History
<1>2. /\ \A q \in Runs \ {r} : run'[q] = run[q]
      /\ run[r].stage = "running" /\ run'[r].stage = "read" /\ run'[r].before = disk.state
  BY <1>a DEF ReadHash, Handle
<1>3. \A q \in Runs \ {r} : ~Busy(q)
  BY QuietAlone DEF ReadHash
<1>4. \A q \in Runs : run[q].stage # "marked" /\ run'[q].stage # "marked"
  BY <1>2, <1>3 DEF Busy
<1>5. OneAtWork'
  BY <1>1, <1>2, <1>3 DEF AInv, OneAtWork, Busy
<1>6. Counted'
  <2>1. \A q \in Runs : run'[q].before <= writes'
    BY <1>1, <1>2 DEF AInv, Counted
  <2>. QED BY <2>1, <1>1 DEF AInv, Counted
<1>7. Between'
  BY <1>1, <1>2, <1>3, <1>4 DEF Between, Busy
<1>8. \A s : Gap(s) => Gap(s)'
  BY <1>1, <1>4 DEF Gap, Shown, Missing, SomeoneMarked
<1>. QED BY <1>1, <1>5, <1>6, <1>7, <1>8 DEF AInv, GapShows

\* ... moves it on, ...
LEMMA MarkStep ==
    ASSUME AInv, OneProcess, NEW r \in Runs, Mark(r)
    PROVE  OneAtWork' /\ Counted' /\ Between' /\ GapShows'
<1>a. /\ run \in [Runs -> Handle] /\ disk \in Store /\ writes \in Nat
      /\ \A q \in Runs : run[q].before \in Nat
  BY StoresTyped DEF AInv
<1>1. /\ writer = 0 /\ writer' = 0 /\ writes' = writes + 1 /\ unreceipted' = unreceipted
      /\ disk' = [disk EXCEPT !.state = writes + 1] /\ work' = disk' /\ work = disk
  BY DEF Mark, History, AInv, OneAtWork
<1>2. disk'.state = writes + 1 /\ disk'.receipts = disk.receipts /\ work.receipts = disk.receipts
  BY <1>1, <1>a DEF Store
<1>3. /\ \A q \in Runs \ {r} : run'[q] = run[q]
      /\ run[r].stage = "read" /\ run'[r].stage = "marked" /\ run'[r].before = run[r].before
  BY <1>a DEF Mark, Handle
<1>4. (\A q \in Runs \ {r} : ~Busy(q)) /\ run[r].before = disk.state
  BY <1>3, BusyAlone DEF Busy, AInv, Between
<1>5. OneAtWork'
  BY <1>1, <1>3, <1>4 DEF OneAtWork, Busy
<1>6. Counted'
  <2>1. \A q \in Runs : run'[q].before <= writes'
    BY <1>1, <1>3, <1>a DEF AInv, Counted
  <2>2. \A y \in work'.receipts : y.after <= writes'
    BY <1>1, <1>2, <1>a, StoresTyped DEF AInv, Counted
  <2>. QED BY <2>1, <2>2, <1>1, <1>2, <1>a DEF Counted
<1>7. \A s : Missing(s)' <=> Missing(s)
  BY <1>1, <1>2 DEF Missing
<1>8. Missing(writes + 1)
  BY <1>a, StoresTyped DEF AInv, Counted, Missing, Mutating
<1>9. Between'
  <2>1. run'[r].before < disk'.state
    BY <1>2, <1>3, <1>a DEF AInv, Counted
  <2>2. \A q \in Runs \ {r} : run'[q].stage \notin {"read", "marked"}
    BY <1>3, <1>4 DEF Busy
  <2>3. Missing(disk.state)'
    BY <1>2, <1>7, <1>8 DEF Missing
  <2>. QED BY <1>3, <2>1, <2>2, <2>3 DEF Between
<1>10. \A s \in 1..writes : Gap(s) => Gap(s)'
  <2>. SUFFICES ASSUME NEW s \in 1..writes, Gap(s) PROVE Gap(s)'
    OBVIOUS
  <2>1. disk.state = s \/ \E y \in Mutating(disk.receipts) : y.before = s
    BY <1>3, <1>4 DEF Gap, Shown, Busy
  <2>2. \/ \E y \in Mutating(disk'.receipts) : y.before = s
        \/ \E q \in Runs : run'[q].stage = "marked" /\ run'[q].before = s
    BY <2>1, <1>2, <1>3, <1>4
  <2>3. Shown(disk, s)' /\ Shown(work, s)'
    BY <2>2, <1>1 DEF Shown
  <2>4. s <= writes' /\ s # disk'.state
    BY <1>1, <1>2, <1>a
  <2>. QED BY <2>3, <2>4, <1>7 DEF Gap
<1>. QED BY <1>1, <1>5, <1>6, <1>9, <1>10, <1>a DEF AInv, GapShows

\* ... and receipts the move: from what it read to where the scope is now.
LEMMA ReceiptMarkStep ==
    ASSUME AInv, OneProcess, NEW r \in Runs, ReceiptMark(r)
    PROVE  OneAtWork' /\ Counted' /\ Between' /\ GapShows'
<1>a. /\ run \in [Runs -> Handle] /\ disk \in Store /\ disk.state \in Nat
      /\ \A q \in Runs : run[q].before \in Nat
  BY StoresTyped DEF AInv
<1>. DEFINE x == Receipted(r, run[r].before, disk.state)
<1>1. x.before = run[r].before /\ x.after = disk.state
  BY ReceiptSays
<1>2. /\ writer = 0 /\ writer' = 0 /\ writes' = writes /\ unreceipted' = unreceipted
      /\ disk' = [disk EXCEPT !.receipts = @ \cup {x}] /\ work' = disk' /\ work = disk
  BY DEF ReceiptMark, History, AInv, OneAtWork
<1>. HIDE DEF x
<1>3. disk'.receipts = disk.receipts \cup {x} /\ disk'.state = disk.state
  BY <1>2, <1>a DEF Store
<1>4. /\ \A q \in Runs \ {r} : run'[q] = run[q]
      /\ run[r].stage = "marked" /\ run'[r].stage = "running" /\ run'[r].before = run[r].before
  BY <1>a DEF ReceiptMark, Handle
<1>5. \A q \in Runs \ {r} : ~Busy(q)
  BY <1>4, BusyAlone DEF Busy
<1>6. run[r].before < disk.state
  BY <1>4 DEF AInv, Between
<1>7. Mutating(disk'.receipts) = Mutating(disk.receipts) \cup {x}
  BY <1>1, <1>3, <1>6, <1>a, MovesGrow
<1>8. OneAtWork'
  BY <1>2, <1>4, <1>5 DEF OneAtWork, Busy
<1>9. Counted'
  <2>1. \A q \in Runs : run'[q].before <= writes'
    BY <1>2, <1>4 DEF AInv, Counted
  <2>2. \A y \in work'.receipts : y.after <= writes'
    BY <1>1, <1>2, <1>3 DEF AInv, Counted
  <2>. QED BY <2>1, <2>2, <1>2, <1>3 DEF AInv, Counted
<1>10. \A q \in Runs : run'[q].stage \notin {"read", "marked"}
  BY <1>4, <1>5 DEF Busy
<1>11. Between'
  BY <1>10 DEF Between
<1>12. \A s : Gap(s) => Gap(s)'
  <2>. SUFFICES ASSUME NEW s, Gap(s) PROVE Gap(s)'
    OBVIOUS
  <2>1. s # disk.state
    BY <1>4 DEF Gap, SomeoneMarked
  <2>2. Missing(s)'
    BY <2>1, <1>1, <1>2, <1>7 DEF Gap, Missing
  <2>3. \E y \in Mutating(disk'.receipts) : y.before = s
    <3>1. CASE \E y \in Mutating(disk.receipts) : y.before = s
      BY <3>1, <1>7
    <3>2. CASE \E q \in Runs : run[q].stage = "marked" /\ run[q].before = s
      BY <3>2, <1>1, <1>5, <1>7 DEF Busy
    <3>. QED BY <2>1, <3>1, <3>2 DEF Gap, Shown
  <2>4. Shown(disk, s)' /\ Shown(work, s)'
    BY <2>3, <1>2 DEF Shown
  <2>. QED BY <2>2, <2>4, <1>2, <1>10 DEF Gap, SomeoneMarked
<1>. QED BY <1>2, <1>8, <1>9, <1>11, <1>12 DEF AInv, GapShows

\* A run killed between its move and the receipt leaves the scope where no
\* receipt leads.
LEMMA CrashStep ==
    ASSUME AInv, OneProcess, NEW S \in SUBSET Runs, Crash(S)
    PROVE  OneAtWork' /\ Counted' /\ Between' /\ GapShows'
<1>a. /\ run \in [Runs -> Handle] /\ disk.state \in Nat /\ writes \in Nat
      /\ \A q \in Runs : run[q].before \in Nat
  BY StoresTyped DEF AInv
<1>1. /\ disk' = disk /\ writes' = writes
      /\ unreceipted' = (unreceipted \/ \E q \in S : run[q].stage = "marked")
      /\ \/ work' = disk /\ writer' = 0
         \/ writer \notin S /\ work' = work /\ writer' = writer
  BY DEF Crash
<1>2. \A q \in Runs : /\ run'[q].before = run[q].before
                      /\ run'[q].stage = IF q \in S THEN "dead" ELSE run[q].stage
  BY <1>a DEF Crash, Handle
<1>3. OneAtWork'
  BY <1>1, <1>2 DEF AInv, OneAtWork, Busy
<1>4. CASE \E q \in S : run[q].stage = "marked"
  <2>1. PICK r \in S : run[r].stage = "marked"
    BY <1>4
  <2>2. (\A q \in Runs \ {r} : ~Busy(q)) /\ writer \in {0, r}
    BY <2>1, BusyAlone DEF Busy
  <2>3. \A q \in Runs : run'[q].stage \notin {"read", "marked"}
    BY <1>2, <2>1, <2>2 DEF Busy
  <2>4. writer = 0
    BY <2>1, <2>2, RunAssumption DEF AInv, IInv, WorkExtendsDisk
  <2>5. work' = disk /\ work = disk
    BY <1>1, <2>4 DEF AInv, OneAtWork
  <2>6. Counted' /\ Between'
    BY <1>1, <1>2, <2>3, <2>5 DEF AInv, Counted, Between
  <2>7. Missing(disk.state)' /\ disk.state \in 1..writes
    BY <1>1, <1>a, <2>1, <2>5 DEF AInv, Between, Missing, Counted
  <2>8. Gap(disk.state)'
    BY <1>1, <2>3, <2>5, <2>7 DEF Gap, Shown, SomeoneMarked
  <2>. QED BY <1>1, <1>3, <2>6, <2>7, <2>8 DEF GapShows
<1>5. CASE ~\E q \in S : run[q].stage = "marked"
  <2>1. \A q \in Runs : /\ run'[q].stage = "marked" <=> run[q].stage = "marked"
                        /\ run'[q].stage = "read" => run[q].stage = "read"
    BY <1>2, <1>5
  <2>2. Same(disk', disk) /\ (Same(work', work) \/ Same(work', disk))
    BY <1>1 DEF Same
  <2>3. \A x \in work'.receipts : x.after <= writes
    BY <1>1, StoresTyped DEF AInv, Counted
  <2>4. unreceipted' = unreceipted
    BY <1>1, <1>5 DEF AInv, IInv, TypeOK
  <2>. QED BY <1>1, <1>2, <1>3, <2>1, <2>2, <2>3, <2>4, Steady
<1>. QED BY <1>4, <1>5

\* So does a change that emits nothing.
LEMMA SilentStep ==
    ASSUME AInv, OneProcess, Silent
    PROVE  OneAtWork' /\ Counted' /\ Between' /\ GapShows'
<1>a. disk \in Store /\ writes \in Nat /\ \A q \in Runs : run[q].before \in Nat
  BY StoresTyped DEF AInv
<1>1. /\ writer' = 0 /\ writes' = writes + 1 /\ run' = run
      /\ disk' = [disk EXCEPT !.state = writes + 1] /\ work' = disk'
      /\ \A q \in Runs : ~Busy(q)
  BY DEF Silent, Busy
<1>2. disk'.state = writes + 1 /\ disk'.receipts = disk.receipts
  BY <1>1, <1>a DEF Store
<1>3. OneAtWork' /\ Between' /\ ~SomeoneMarked'
  BY <1>1 DEF OneAtWork, Between, SomeoneMarked, Busy
<1>4. \A x \in disk.receipts : x.after <= writes /\ x.after \in Nat
  BY StoresTyped DEF AInv, Counted
<1>5. Counted'
  <2>1. \A q \in Runs : run'[q].before <= writes'
    BY <1>1, <1>a DEF AInv, Counted
  <2>2. \A x \in work'.receipts : x.after <= writes'
    BY <1>1, <1>2, <1>4, <1>a
  <2>. QED BY <1>1, <1>2, <1>a, <2>1, <2>2 DEF Counted
<1>6. Gap(writes)'
  <2>1. \A x \in disk.receipts : x.after # writes + 1
    BY <1>4, <1>a
  <2>2. Missing(writes)'
    BY <1>1, <1>2, <2>1 DEF Missing, Mutating
  <2>. QED BY <1>1, <1>2, <1>3, <1>a, <2>2 DEF Gap, Shown
<1>. QED BY <1>1, <1>3, <1>5, <1>6, <1>a DEF GapShows
-----------------------------------------------------------------------------
LEMMA AuditInductive == OneProcess /\ AInv /\ [Next]_vars => AInv'
<1>. SUFFICES ASSUME OneProcess, AInv, [Next]_vars PROVE AInv'
  OBVIOUS
<1>1. IInv'
  BY Inductive DEF AInv
<1>2. CASE \E r \in Runs : Step(r) \/ Outage(r)
  BY <1>1, <1>2, OtherSteps, NoteStep, MutateStep, ReadStep, MarkStep, ReceiptMarkStep
     DEF Step, AInv
<1>3. CASE \E S \in SUBSET Runs : Crash(S)
  BY <1>1, <1>3, CrashStep DEF AInv
<1>4. CASE Silent
  BY <1>1, <1>4, SilentStep DEF AInv
<1>5. CASE Tick \/ UNCHANGED vars
  <2>1. UNCHANGED <<disk, work, writer, writes, run, unreceipted>>
    BY <1>5 DEF Tick, History, vars
  <2>. QED BY <1>1, <2>1 DEF AInv, OneAtWork, Busy, Counted, Between, Missing, GapShows, Gap, Shown,
                             SomeoneMarked
<1>. QED BY <1>2, <1>3, <1>4, <1>5 DEF Next, Finished

LEMMA AuditInit == Init => AInv
<1>. SUFFICES ASSUME Init PROVE AInv
  OBVIOUS
<1>1. IInv
  BY InitHolds
<1>2. /\ disk.state = 0 /\ disk.receipts = {} /\ work = disk /\ writes = 0 /\ ~unreceipted
      /\ \A r \in Runs : run[r].stage = "new" /\ run[r].before = 0
  BY DEF Init
<1>. QED BY <1>1, <1>2 DEF AInv, OneAtWork, Busy, Counted, Between, GapShows

(* When verify_no_silent_mutation passes, every committed change has its      *)
(* receipt: neither a change that emits nothing nor a run killed between its  *)
(* mutation and its receipt escapes it, whatever else is rolled back,         *)
(* committed early or interleaved at the awaits.                              *)
THEOREM AuditMissesNothing == ASSUME OneProcess PROVE Spec => []AuditIsSound
<1>1. AInv => AuditIsSound
  BY GapsFail DEF AuditIsSound
<1>. QED BY <1>1, AuditInit, AuditInductive, PTL DEF Spec
-----------------------------------------------------------------------------
(* The other direction: an audit of an honest scope passes (AuditAccepts).    *)
(* While no run failed, nothing changed the scope silently and the runs came  *)
(* one after the other, ...                                                   *)
Clean == orderly /\ faults = 0 /\ ~unreceipted
Begun(r) == run[r].stage # "new"
Written(r) == {x \in work.receipts : x.run = r}
EndOf(R) == IF R = {} THEN 0 ELSE Latest(R).after

\* ... one run is in flight at a time, its time is later than that of every
\* other, and it neither was refused nor failed, ...
OneByOne ==
    /\ \A r \in Runs : run[r].stage \notin {"refused", "failed", "dead"}
    /\ \A p, q \in Runs : InFlight(p) /\ Begun(q) /\ p # q => ~InFlight(q) /\ run[q].at < run[p].at
    /\ \A p, q \in Runs : Begun(p) /\ Begun(q) /\ run[p].at = run[q].at => p = q
    /\ \A r \in Runs : run[r].at <= clock

\* ... a run's receipts carry its time and every index its handle has given,
\* and a run that ended is sealed unless it receipted nothing, ...
ChainsComplete ==
    /\ writer = 0 => work = disk
    /\ \A x \in work.receipts : Begun(x.run) /\ x.at = run[x.run].at
    /\ \A r \in Runs : {x.idx : x \in Written(r)} = 1..run[r].next
    /\ \A r \in Runs : run[r].stage = "done" /\ run[r].next > 0 => seal[r] # Unsealed

\* ... the scope is where the last receipted mutation led, but for the one that
\* is about to be receipted, ...
Tracked ==
    /\ disk.state <= writes /\ work.state <= writes
    /\ \A r \in Runs :
        /\ run[r].stage = "read" => run[r].before = disk.state
        /\ run[r].stage = "marked" => /\ run[r].before < disk.state
                                      /\ run[r].before = EndOf(Mutating(work.receipts))
    /\ ~SomeoneMarked => work.state = EndOf(Mutating(work.receipts))

\* ... the mutations join up, and a sealed run's last one led to the state its
\* checkpoint names.
JoinedUp ==
    /\ Contiguous(Mutating(work.receipts))
    /\ \A r \in Runs :
        seal[r] # Unsealed /\ seal[r].after # 0 /\ Mutating(Written(r)) # {}
            => Latest(Mutating(Written(r))).after = seal[r].after

Orderly == OneByOne /\ ChainsComplete /\ Tracked /\ JoinedUp
OInv == IInv /\ (Clean => Orderly)

\* Clean runs stay clean only by clean steps.
LEMMA CleanBefore ==
    ASSUME IInv, [Next]_vars, Clean'
    PROVE  /\ Clean /\ ~Silent
           /\ \A r \in Runs : ~Outage(r)
           /\ \A S \in SUBSET Runs : ~Crash(S)
<1>1. faults \in Nat /\ faults' = 0 /\ orderly' /\ unreceipted' = FALSE
  <2>1. unreceipted' \in BOOLEAN
    BY Typed DEF TypeOK
  <2>. QED BY <2>1, SettingAssumption DEF IInv, TypeOK, Clean
<1>2. ~Silent
  BY <1>1 DEF Silent
<1>3. (\A r \in Runs : ~Outage(r)) /\ (\A S \in SUBSET Runs : ~Crash(S))
  <2>1. ~Fault
    BY <1>1 DEF Fault
  <2>. QED BY <2>1 DEF Outage, Crash
<1>4. ASSUME NEW r \in Runs, Step(r) PROVE Clean
  <2>1. orderly' => orderly
    BY <1>4 DEF Step, begin_run, EmitNote, OpenBracket, Mutate, CommitEarly, CommitBracket,
                ReceiptOutage, ReadHash, Mark, ReceiptMark, Checkpoint, History
  <2>2. faults' = faults /\ unreceipted' = unreceipted
    BY <1>4 DEF Step, begin_run, EmitNote, OpenBracket, Mutate, CommitEarly, CommitBracket,
                ReceiptOutage, ReadHash, Mark, ReceiptMark, Checkpoint, History
  <2>. QED BY <1>1, <2>1, <2>2 DEF Clean
<1>5. ASSUME Tick \/ UNCHANGED vars PROVE Clean
  BY <1>1, <1>5 DEF Tick, History, vars, Clean
<1>. QED BY <1>2, <1>3, <1>4, <1>5 DEF Next, Finished

\* The last entry of a list is the one that all others are before.
LEMMA LastIsLatest ==
    ASSUME NEW R \in SUBSET Receipt, NEW x \in R, \A y \in R \ {x} : Earlier(y, x)
    PROVE  Latest(R) = x
<1>1. \A y, z \in Receipt : Earlier(y, z) => ~Earlier(z, y)
  <2>1. \A y \in Receipt : y.run \in Nat /\ y.idx \in Nat /\ y.at \in Nat
    BY RunAssumption DEF Receipt
  <2>. QED BY <2>1 DEF Earlier
<1>. DEFINE P(z) == \A y \in R \ {z} : Earlier(y, z)
<1>2. P(x)
  OBVIOUS
<1>3. \A z \in R : P(z) => z = x
  BY <1>1
<1>4. Latest(R) = CHOOSE z \in R : P(z)
  BY DEF Latest
<1>. HIDE DEF P
<1>. QED BY <1>2, <1>3, <1>4

\* A mutation that starts where the list ends and comes last extends the list.
LEMMA Appended ==
    ASSUME NEW R \in SUBSET Receipt, NEW z \in Receipt, Contiguous(R),
           \A y \in R : Earlier(y, z), z.before = EndOf(R) \/ R = {}
    PROVE  Contiguous(R \cup {z}) /\ EndOf(R \cup {z}) = z.after
<1>. DEFINE S == R \cup {z}
<1>1. \A x \in Receipt : x.run \in Nat /\ x.idx \in Nat /\ x.at \in Nat
  BY RunAssumption DEF Receipt
<1>2. ~Earlier(z, z) /\ \A y \in R : ~Earlier(z, y)
  BY <1>1 DEF Earlier
<1>3. {x \in S : Earlier(x, z)} = R
  BY <1>2
<1>4. \A y \in R : {x \in S : Earlier(x, y)} = {x \in R : Earlier(x, y)}
  BY <1>2
<1>5. R # {} => z.before = Latest(R).after
  BY DEF EndOf
<1>6. Contiguous(S)
  <2>. SUFFICES ASSUME NEW y \in S, {x \in S : Earlier(x, y)} # {}
                PROVE  y.before = Latest({x \in S : Earlier(x, y)}).after
    BY DEF Contiguous
  <2>1. CASE y = z
    BY <1>3, <1>5, <2>1
  <2>2. CASE y \in R
    <3>1. {x \in R : Earlier(x, y)} # {}
      BY <1>4, <2>2
    <3>2. y.before = Latest({x \in R : Earlier(x, y)}).after
      BY <2>2, <3>1 DEF Contiguous
    <3>. QED BY <1>4, <2>2, <3>2
  <2>. QED BY <2>1, <2>2
<1>7. Latest(S) = z
  <2>1. z \in S /\ S \in SUBSET Receipt /\ \A y \in S \ {z} : Earlier(y, z)
    OBVIOUS
  <2>. HIDE DEF S
  <2>. QED BY <2>1, LastIsLatest
<1>. QED BY <1>6, <1>7 DEF EndOf

\* What the run in flight receipts comes after everything that was receipted.
LEMMA ComesLast ==
    ASSUME OInv, Clean, NEW r \in Runs, InFlight(r), NEW a \in Nat, NEW b \in Nat
    PROVE  \A y \in work.receipts : Earlier(y, Receipted(r, a, b))
<1>. DEFINE z == Receipted(r, a, b)
<1>1. run[r].at \in Nat /\ run[r].next \in Nat
  BY DEF OInv, IInv, TypeOK, Handle
<1>2. z.run = r /\ z.idx = run[r].next + 1 /\ z.at = run[r].at
  BY DEF Receipted
<1>. HIDE DEF z
<1>3. ASSUME NEW y \in work.receipts PROVE Earlier(y, z)
  <2>1. y.run \in Runs /\ y.idx \in Nat /\ y.at = run[y.run].at /\ Begun(y.run) /\ y.idx <= run[y.run].next
    BY DEF OInv, IInv, TypeOK, Store, Receipt, CursorsLead, Orderly, ChainsComplete
  <2>2. CASE y.run = r
    BY <1>1, <1>2, <2>1, <2>2 DEF Earlier
  <2>3. CASE y.run # r
    <3>1. run[y.run].at < run[r].at
      BY <2>1, <2>3 DEF OInv, Orderly, OneByOne
    <3>. QED BY <1>2, <2>1, <3>1 DEF Earlier
  <2>. QED BY <2>2, <2>3
<1>. QED BY <1>3 DEF z

\* Nobody else is in flight.
LEMMA OthersRest ==
    ASSUME OInv, Clean, NEW r \in Runs, InFlight(r)
    PROVE  /\ \A q \in Runs \ {r} : ~InFlight(q) /\ run[q].stage \in {"new", "done"}
           /\ run[r].stage \in {"running", "bracket", "read", "marked"}
           /\ writer \in {0, r}
<1>1. \A q \in Runs : run[q].stage \in Stages
  BY DEF OInv, IInv, TypeOK, Handle, Stages
<1>2. \A q \in Runs \ {r} : Begun(q) => ~InFlight(q)
  BY DEF OInv, Orderly, OneByOne
<1>3. \A q \in Runs : run[q].stage \notin {"refused", "failed", "dead"}
  BY DEF OInv, Orderly, OneByOne
<1>4. \A q \in Runs \ {r} : ~InFlight(q) /\ run[q].stage \in {"new", "done"}
  BY <1>1, <1>2, <1>3 DEF Begun, InFlight, Stages
<1>5. run[r].stage \in {"running", "bracket", "read", "marked"}
  BY <1>1, <1>3 DEF InFlight, Stages
<1>6. writer \in Runs \cup {0} /\ (writer # 0 => run[writer].stage = "bracket")
  BY DEF OInv, IInv, TypeOK, WorkExtendsDisk
<1>. QED BY <1>4, <1>5, <1>6

\* A run whose chain is complete and in place can be sealed.
LEMMA CompleteIsSealable ==
    ASSUME OInv, Clean, NEW r \in Runs, writer = 0, run[r].next > 0
    PROVE  Sealable(r)
<1>. DEFINE C == Chain(r)
            I == {x.idx : x \in C}
            f == [x \in C |-> x.idx]
            n == run[r].next
<1>1. n \in Nat /\ work = disk
  BY DEF OInv, IInv, TypeOK, Handle, Orderly, ChainsComplete
<1>2. IsFiniteSet(C) /\ C = Written(r) /\ C \subseteq work.receipts
  BY <1>1, FS_Subset DEF Chain, Written, OInv, IInv
<1>3. I = 1..n
  BY <1>2 DEF OInv, Orderly, ChainsComplete
<1>4. f \in Bijection(C, I)
  <2>1. \A x, y \in C : x.idx = y.idx => x = y
    BY <1>2 DEF Chain, OInv, IInv, CursorsLead
  <2>. QED BY <2>1 DEF Bijection, Injection, Surjection, IsInjective
<1>. HIDE DEF C, I, f, n
<1>5. Cardinality(I) = Cardinality(C)
  BY <1>2, <1>4, FS_Bijection DEF ExistsBijection
<1>6. Cardinality(I) = n
  BY <1>1, <1>3, FS_Interval
<1>. QED BY <1>5, <1>6 DEF C, n, Sealable, Stored

\* Steps that receipt nothing.
LEMMA OrderKept ==
    ASSUME OInv, Clean, clock' >= clock, clock' \in Nat,
           \A q \in Runs : /\ run'[q].at = run[q].at
                           /\ Begun(q)' <=> Begun(q)
                           /\ InFlight(q)' => InFlight(q)
                           /\ run'[q].stage \notin {"refused", "failed", "dead"}
    PROVE  OneByOne'
<1>1. clock \in Nat /\ \A q \in Runs : run[q].at \in Nat
  BY DEF OInv, IInv, TypeOK, Handle
<1>. QED BY <1>1 DEF OInv, Orderly, OneByOne

LEMMA ChainsKept ==
    ASSUME OInv, Clean, work'.receipts = work.receipts,
           \A q \in Runs : run'[q].next = run[q].next /\ (Begun(q) => Begun(q)' /\ run'[q].at = run[q].at),
           writer' = 0 => work' = disk',
           \A q \in Runs : run'[q].stage = "done" /\ run[q].next > 0 /\ seal'[q] = Unsealed =>
                              run[q].stage = "done" /\ seal'[q] = seal[q]
    PROVE  ChainsComplete'
<1>1. \A q \in Runs : Written(q)' = Written(q)
  BY DEF Written
<1>2. \A x \in work.receipts : x.run \in Runs
  BY DEF OInv, IInv, TypeOK, Store, Receipt
<1>3. \A x \in work'.receipts : Begun(x.run)' /\ x.at = run'[x.run].at
  BY <1>2 DEF OInv, Orderly, ChainsComplete
<1>4. \A q \in Runs : {x.idx : x \in Written(q)'} = 1..run'[q].next
  BY <1>1 DEF OInv, Orderly, ChainsComplete
<1>5. \A q \in Runs : run'[q].stage = "done" /\ run'[q].next > 0 => seal'[q] # Unsealed
  BY DEF OInv, Orderly, ChainsComplete
<1>. QED BY <1>3, <1>4, <1>5 DEF ChainsComplete

LEMMA JoinsKept ==
    ASSUME OInv, Clean, work'.receipts = work.receipts, seal' = seal
    PROVE  JoinedUp'
<1>1. Mutating(work.receipts)' = Mutating(work.receipts) /\ \A q \in Runs : Mutating(Written(q))' = Mutating(Written(q))
  BY DEF Mutating, Written
<1>2. Contiguous(Mutating(work.receipts))'
  BY <1>1 DEF OInv, Orderly, JoinedUp
<1>. QED BY <1>1, <1>2 DEF OInv, Orderly, JoinedUp

\* A run begins, later than all that began.
LEMMA BeginOrdered ==
    ASSUME OInv, Clean, NEW r \in Runs, begin_run(r), Clean'
    PROVE  Orderly'
<1>1. /\ run \in [Runs -> Handle] /\ clock \in Nat
      /\ \A q \in Runs : run[q].at \in Nat
  BY DEF OInv, IInv, TypeOK, Handle
<1>2. /\ run[r].stage = "new" /\ disk' = disk /\ work' = work /\ writer' = writer /\ clock' = clock
      /\ seal' = seal /\ writes' = writes
      /\ \A q \in Runs : Begun(q) => ~InFlight(q) /\ run[q].at < clock
  BY DEF begin_run, Clean, Begun
<1>3. /\ run'[r].stage = "running" /\ run'[r].at = clock /\ run'[r].next = run[r].next
      /\ \A q \in Runs \ {r} : run'[q] = run[q]
  BY <1>1 DEF begin_run, Handle
<1>4. OneByOne'
  <2>1. \A q \in Runs \ {r} : (Begun(q)' <=> Begun(q)) /\ (InFlight(q)' <=> InFlight(q))
    BY <1>3 DEF Begun, InFlight
  <2>2. \A q \in Runs : run'[q].stage \notin {"refused", "failed", "dead"}
    BY <1>3 DEF OInv, Orderly, OneByOne
  <2>3. \A q \in Runs \ {r} : Begun(q) => ~InFlight(q) /\ run'[q].at < run'[r].at
    BY <1>2, <1>3
  <2>4. \A q \in Runs \ {r} : ~InFlight(q)
    BY <1>2 DEF Begun, InFlight
  <2>5. \A p, q \in Runs : InFlight(p)' /\ Begun(q)' /\ p # q => ~InFlight(q)' /\ run'[q].at < run'[p].at
    BY <2>1, <2>3, <2>4
  <2>6. \A p, q \in Runs : Begun(p)' /\ Begun(q)' /\ run'[p].at = run'[q].at => p = q
    <3>. SUFFICES ASSUME NEW p \in Runs, NEW q \in Runs, Begun(p)', Begun(q)', run'[p].at = run'[q].at, p # q
                  PROVE  FALSE
      OBVIOUS
    <3>1. CASE p = r
      <4>1. run'[q].at < run'[r].at
        BY <2>1, <2>3, <3>1
      <4>. QED BY <4>1, <3>1, <1>3, <1>1
    <3>2. CASE q = r
      <4>1. run'[p].at < run'[r].at
        BY <2>1, <2>3, <3>2
      <4>. QED BY <4>1, <3>2, <1>3, <1>1
    <3>3. CASE p # r /\ q # r
      BY <3>3, <2>1, <1>3 DEF OInv, Orderly, OneByOne
    <3>. QED BY <3>1, <3>2, <3>3
  <2>7. \A q \in Runs : run'[q].at <= clock'
    BY <1>1, <1>2, <1>3 DEF OInv, Orderly, OneByOne
  <2>. QED BY <2>2, <2>5, <2>6, <2>7 DEF OneByOne
<1>5. ChainsComplete'
  <2>1. \A q \in Runs : run'[q].next = run[q].next /\ (Begun(q) => Begun(q)' /\ run'[q].at = run[q].at)
    BY <1>2, <1>3 DEF Begun
  <2>2. \A q \in Runs : run'[q].stage = "done" => run[q].stage = "done"
    BY <1>3
  <2>3. writer' = 0 => work' = disk'
    BY <1>2 DEF OInv, Orderly, ChainsComplete
  <2>. QED BY <1>2, <2>1, <2>2, <2>3, ChainsKept
<1>6. Tracked'
  <2>1. \A q \in Runs : run'[q].stage \in {"read", "marked"} => run'[q] = run[q]
    BY <1>3
  <2>2. SomeoneMarked' <=> SomeoneMarked
    BY <1>2, <1>3 DEF SomeoneMarked
  <2>. QED BY <1>2, <2>1, <2>2 DEF OInv, Orderly, Tracked, EndOf, Latest, Mutating, Earlier
<1>7. JoinedUp'
  BY <1>2, JoinsKept
<1>. QED BY <1>4, <1>5, <1>6, <1>7 DEF Orderly

\* The steps of the run in flight that receipt nothing and seal nothing.
LEMMA PlainStepsOrdered ==
    ASSUME OInv, Clean, NEW r \in Runs,
           OpenBracket(r) \/ CommitEarly(r) \/ CommitBracket(r) \/ ReadHash(r)
    PROVE  Orderly'
<1>1. run \in [Runs -> Handle] /\ clock \in Nat /\ \A q \in Runs : run[q].next \in Nat
  BY DEF OInv, IInv, TypeOK, Handle
<1>2. InFlight(r) /\ run[r].stage \in {"running", "bracket"}
  BY DEF OpenBracket, CommitEarly, CommitBracket, ReadHash, InFlight
<1>3. /\ \A q \in Runs \ {r} : run'[q] = run[q]
      /\ run'[r].at = run[r].at /\ run'[r].next = run[r].next
      /\ run'[r].stage \in {"running", "bracket", "read"}
  BY <1>1, <1>2 DEF OpenBracket, CommitEarly, CommitBracket, ReadHash, Handle
<1>4. clock' = clock /\ writes' = writes /\ seal' = seal /\ work' = work /\ (disk' = disk \/ disk' = work)
  BY DEF OpenBracket, CommitEarly, CommitBracket, ReadHash, History
<1>5. \A q \in Runs \ {r} : ~InFlight(q) /\ run[q].stage \in {"new", "done"}
  BY <1>2, OthersRest
<1>6. OneByOne'
  <2>1. \A q \in Runs : /\ run'[q].at = run[q].at
                        /\ Begun(q)' <=> Begun(q)
                        /\ InFlight(q)' => InFlight(q)
                        /\ run'[q].stage \notin {"refused", "failed", "dead"}
    BY <1>2, <1>3, <1>5 DEF Begun, InFlight
  <2>. QED BY <2>1, <1>1, <1>4, OrderKept
<1>7. writer' = 0 => work' = disk'
  <2>1. CASE OpenBracket(r)
    BY <2>1, RunAssumption DEF OpenBracket
  <2>2. CASE CommitEarly(r) \/ CommitBracket(r)
    BY <2>2 DEF CommitEarly, CommitBracket
  <2>3. CASE ReadHash(r)
    BY <2>3 DEF ReadHash, OInv, Orderly, ChainsComplete
  <2>. QED BY <2>1, <2>2, <2>3
<1>8. ChainsComplete'
  <2>1. \A q \in Runs : run'[q].next = run[q].next /\ (Begun(q) => Begun(q)' /\ run'[q].at = run[q].at)
    BY <1>2, <1>3 DEF Begun
  <2>2. \A q \in Runs : run'[q].stage = "done" => run[q].stage = "done"
    BY <1>3
  <2>. QED BY <1>4, <1>7, <2>1, <2>2, ChainsKept
<1>9. Tracked'
  <2>1. \A q \in Runs : run[q].stage # "marked" /\ run'[q].stage # "marked"
    BY <1>2, <1>3, <1>5
  <2>2. \A q \in Runs : run'[q].stage = "read" => run'[q].before = disk'.state
    <3>1. CASE ReadHash(r)
      <4>1. run'[r].before = disk'.state
        BY <3>1, <1>1 DEF ReadHash, Handle
      <4>. QED BY <4>1, <1>3, <1>5
    <3>2. CASE ~ReadHash(r)
      <4>1. run'[r].stage # "read"
        BY <3>2, <1>1, <1>2 DEF OpenBracket, CommitEarly, CommitBracket, Handle
      <4>. QED BY <4>1, <1>3, <1>5
    <3>. QED BY <3>1, <3>2
  <2>3. disk'.state <= writes' /\ work'.state <= writes'
    BY <1>4 DEF OInv, Orderly, Tracked
  <2>4. work'.state = EndOf(Mutating(work'.receipts))
    BY <1>4, <2>1 DEF OInv, Orderly, Tracked, SomeoneMarked
  <2>. QED BY <2>1, <2>2, <2>3, <2>4 DEF Tracked
<1>10. JoinedUp'
  BY <1>4, JoinsKept
<1>. QED BY <1>6, <1>8, <1>9, <1>10 DEF Orderly

\* The run in flight moves the scope on; the receipt is still to come.
LEMMA MarkOrdered ==
    ASSUME OInv, Clean, NEW r \in Runs, Mark(r)
    PROVE  Orderly'
<1>1. /\ run \in [Runs -> Handle] /\ clock \in Nat /\ disk \in Store /\ writes \in Nat
      /\ disk.state \in Nat /\ \A q \in Runs : run[q].next \in Nat
  BY DEF OInv, IInv, TypeOK, Handle, Store
<1>2. InFlight(r) /\ run[r].stage = "read" /\ writer = 0
  BY DEF Mark, InFlight
<1>3. /\ \A q \in Runs \ {r} : run'[q] = run[q]
      /\ run'[r].at = run[r].at /\ run'[r].next = run[r].next /\ run'[r].before = run[r].before
      /\ run'[r].stage = "marked"
  BY <1>1, <1>2 DEF Mark, Handle
<1>4. /\ clock' = clock /\ writes' = writes + 1 /\ seal' = seal /\ work' = disk' /\ work = disk
      /\ disk'.state = writes + 1 /\ disk'.receipts = disk.receipts
  BY <1>1, <1>2 DEF Mark, History, Store, OInv, Orderly, ChainsComplete
<1>5. \A q \in Runs \ {r} : ~InFlight(q) /\ run[q].stage \in {"new", "done"}
  BY <1>2, OthersRest
<1>6. OneByOne'
  <2>1. \A q \in Runs : /\ run'[q].at = run[q].at
                        /\ Begun(q)' <=> Begun(q)
                        /\ InFlight(q)' => InFlight(q)
                        /\ run'[q].stage \notin {"refused", "failed", "dead"}
    BY <1>2, <1>3, <1>5 DEF Begun, InFlight
  <2>. QED BY <2>1, <1>1, <1>4, OrderKept
<1>8. ChainsComplete'
  <2>1. \A q \in Runs : run'[q].next = run[q].next /\ (Begun(q) => Begun(q)' /\ run'[q].at = run[q].at)
    BY <1>2, <1>3 DEF Begun
  <2>2. \A q \in Runs : run'[q].stage = "done" => run[q].stage = "done"
    BY <1>3
  <2>. QED BY <1>4, <2>1, <2>2, ChainsKept
<1>9. Tracked'
  <2>1. ~SomeoneMarked /\ SomeoneMarked'
    BY <1>2, <1>3, <1>5 DEF SomeoneMarked
  <2>2. run'[r].before = EndOf(Mutating(work'.receipts)) /\ run'[r].before <= writes
    BY <1>2, <1>3, <1>4, <2>1 DEF OInv, Orderly, Tracked
  <2>3. run'[r].before < disk'.state
    BY <2>2, <1>1, <1>4, <1>3 DEF Handle, OInv, IInv, TypeOK
  <2>4. disk'.state <= writes' /\ work'.state <= writes'
    BY <1>1, <1>4
  <2>5. \A q \in Runs : run'[q].stage # "read" /\ (run'[q].stage = "marked" => q = r)
    BY <1>3, <1>5
  <2>. QED BY <2>1, <2>2, <2>3, <2>4, <2>5 DEF Tracked
<1>10. JoinedUp'
  BY <1>4, JoinsKept
<1>. QED BY <1>6, <1>8, <1>9, <1>10 DEF Orderly

\* One more receipt of the run in flight: of no move, or of one that starts
\* where the last one ended.
LEMMA ReceiptJoins ==
    ASSUME OInv, Clean, NEW r \in Runs, InFlight(r), NEW a \in Nat, NEW b \in Nat,
           a = b \/ a = EndOf(Mutating(work.receipts)),
           work'.receipts = work.receipts \cup {Receipted(r, a, b)}, seal' = seal
    PROVE  /\ JoinedUp'
           /\ EndOf(Mutating(work'.receipts)) = IF a = b THEN EndOf(Mutating(work.receipts)) ELSE b
<1>. DEFINE z == Receipted(r, a, b)
            M == Mutating(work.receipts)
<1>1. z \in Receipt /\ z.run = r /\ z.before = a /\ z.after = b
  BY ReceiptTyped, ReceiptSays DEF OInv, IInv
<1>2. \A y \in work.receipts : Earlier(y, z)
  BY ComesLast
<1>. HIDE DEF z
<1>3. /\ a = b => Mutating(work'.receipts) = M
      /\ a # b => Mutating(work'.receipts) = M \cup {z}
  BY <1>1, MovesGrow DEF z
<1>4. M \in SUBSET Receipt /\ (\A y \in M : Earlier(y, z)) /\ Contiguous(M)
  BY <1>2 DEF OInv, IInv, TypeOK, Store, Mutating, Orderly, JoinedUp
<1>. HIDE DEF M
<1>5. a # b => Contiguous(M \cup {z}) /\ EndOf(M \cup {z}) = b
  BY <1>1, <1>4, Appended DEF M
<1>6. Contiguous(Mutating(work'.receipts))
  BY <1>3, <1>4, <1>5
<1>7. EndOf(Mutating(work'.receipts)) = IF a = b THEN EndOf(M) ELSE b
  BY <1>3, <1>5
<1>8. seal[r] = Unsealed
  BY DEF OInv, IInv, SealedAreDone, InFlight
<1>9. \A q \in Runs \ {r} : Mutating(Written(q))' = Mutating(Written(q))
  <2>1. \A q \in Runs \ {r} : Written(q)' = Written(q)
    BY <1>1 DEF Written, z
  <2>. QED BY <2>1 DEF Mutating
<1>10. JoinedUp'
  <2>1. \A q \in Runs : seal'[q] # Unsealed => q # r /\ seal[q] # Unsealed /\ seal'[q] = seal[q]
    BY <1>8
  <2>. QED BY <1>6, <1>9, <2>1 DEF OInv, Orderly, JoinedUp
<1>. QED BY <1>7, <1>10 DEF M

LEMMA ReceiptCounted ==
    ASSUME OInv, Clean, NEW r \in Runs, InFlight(r), NEW a \in Nat, NEW b \in Nat,
           work'.receipts = work.receipts \cup {Receipted(r, a, b)}, seal' = seal,
           writer' = 0 => work' = disk',
           \A q \in Runs : run'[q].at = run[q].at /\ (Begun(q) => Begun(q)'),
           run'[r].next = run[r].next + 1, run'[r].stage # "done",
           \A q \in Runs \ {r} : run'[q] = run[q]
    PROVE  ChainsComplete'
<1>. DEFINE z == Receipted(r, a, b)
<1>1. z.run = r /\ z.at = run[r].at /\ z.idx = run[r].next + 1
  BY DEF Receipted
<1>. HIDE DEF z
<1>2. run[r].next \in Nat /\ Begun(r) /\ \A x \in work.receipts : x.run \in Runs
  BY DEF OInv, IInv, TypeOK, Store, Receipt, Handle, InFlight, Begun
<1>3. \A x \in work'.receipts : Begun(x.run)' /\ x.at = run'[x.run].at
  BY <1>1, <1>2 DEF OInv, Orderly, ChainsComplete, z
<1>4. \A q \in Runs : {x.idx : x \in Written(q)'} = 1..run'[q].next
  <2>. SUFFICES ASSUME NEW q \in Runs PROVE {x.idx : x \in Written(q)'} = 1..run'[q].next
    OBVIOUS
  <2>0. {x.idx : x \in Written(q)} = 1..run[q].next
    BY DEF OInv, Orderly, ChainsComplete
  <2>1. CASE q = r
    <3>1. Written(q)' = Written(q) \cup {z}
      BY <1>1, <2>1 DEF Written, z
    <3>2. {x.idx : x \in Written(q)'} = {x.idx : x \in Written(q)} \cup {z.idx}
      BY <3>1
    <3>3. (1..run[r].next) \cup {run[r].next + 1} = 1..(run[r].next + 1)
      BY <1>2
    <3>. QED BY <1>1, <2>0, <2>1, <3>2, <3>3
  <2>2. CASE q # r
    <3>1. Written(q)' = Written(q)
      BY <1>1, <2>2 DEF Written, z
    <3>. QED BY <2>0, <2>2, <3>1
  <2>. QED BY <2>1, <2>2
<1>5. \A q \in Runs : run'[q].stage = "done" /\ run'[q].next > 0 => seal'[q] # Unsealed
  BY DEF OInv, Orderly, ChainsComplete
<1>. QED BY <1>3, <1>4, <1>5 DEF ChainsComplete

\* The steps that receipt something.
LEMMA ReceiptsOrdered ==
    ASSUME OInv, Clean, NEW r \in Runs, EmitNote(r) \/ Mutate(r) \/ ReceiptMark(r)
    PROVE  Orderly'
<1>1. /\ run \in [Runs -> Handle] /\ clock \in Nat /\ disk \in Store /\ writes \in Nat
      /\ disk.state \in Nat /\ work.state \in Nat
      /\ \A q \in Runs : run[q].next \in Nat /\ run[q].before \in Nat
  BY DEF OInv, IInv, TypeOK, Handle, Store
<1>2. /\ InFlight(r) /\ run[r].stage \in {"running", "bracket", "marked"}
      /\ clock' = clock /\ seal' = seal
  BY DEF EmitNote, Mutate, ReceiptMark, InFlight, History
<1>3. /\ \A q \in Runs \ {r} : run'[q] = run[q]
      /\ run'[r].at = run[r].at /\ run'[r].next = run[r].next + 1
      /\ run'[r].stage \in {"running", "bracket"}
  BY <1>1, <1>2 DEF EmitNote, Mutate, ReceiptMark, Handle
<1>5. \A q \in Runs \ {r} : ~InFlight(q) /\ run[q].stage \in {"new", "done"}
  BY <1>2, OthersRest
<1>6. OneByOne'
  <2>1. \A q \in Runs : /\ run'[q].at = run[q].at
                        /\ Begun(q)' <=> Begun(q)
                        /\ InFlight(q)' => InFlight(q)
                        /\ run'[q].stage \notin {"refused", "failed", "dead"}
    BY <1>2, <1>3, <1>5 DEF Begun, InFlight
  <2>. QED BY <2>1, <1>1, <1>2, OrderKept
<1>7. PICK a \in Nat, b \in Nat :
        /\ a = b \/ a = EndOf(Mutating(work.receipts))
        /\ work'.receipts = work.receipts \cup {Receipted(r, a, b)}
        /\ writer' = 0 => work' = disk'
        /\ work'.state = (IF a = b THEN EndOf(Mutating(work.receipts)) ELSE b)
        /\ disk'.state <= writes' /\ work'.state <= writes'
  <2>1. CASE EmitNote(r)
    <3>1. /\ work'.receipts = disk.receipts \cup {Receipted(r, disk.state, disk.state)}
          /\ work' = disk' /\ disk'.state = disk.state /\ writes' = writes /\ work = disk
      BY <2>1, <1>1 DEF EmitNote, Free, Store, OInv, Orderly, ChainsComplete
    <3>2. ~SomeoneMarked
      BY <2>1, <1>5 DEF EmitNote, SomeoneMarked
    <3>3. work.state = EndOf(Mutating(work.receipts)) /\ disk.state <= writes
      BY <3>2 DEF OInv, Orderly, Tracked
    <3>. QED BY <1>1, <3>1, <3>3
  <2>2. CASE Mutate(r)
    <3>1. /\ work'.receipts = work.receipts \cup {Receipted(r, work.state, writes + 1)}
          /\ work'.state = writes + 1 /\ writes' = writes + 1 /\ disk' = disk /\ writer' = r
      BY <2>2 DEF Mutate
    <3>2. ~SomeoneMarked
      BY <2>2, <1>5 DEF Mutate, SomeoneMarked
    <3>3. work.state = EndOf(Mutating(work.receipts)) /\ disk.state <= writes /\ work.state <= writes
      BY <3>2 DEF OInv, Orderly, Tracked
    <3>4. work.state # writes + 1 /\ disk'.state <= writes' /\ work'.state <= writes' /\ writer' # 0
      BY <1>1, <3>1, <3>3, RunAssumption
    <3>. QED BY <1>1, <3>1, <3>3, <3>4
  <2>3. CASE ReceiptMark(r)
    <3>1. /\ work'.receipts = disk.receipts \cup {Receipted(r, run[r].before, disk.state)}
          /\ work' = disk' /\ disk'.state = disk.state /\ writes' = writes /\ work = disk
          /\ run[r].stage = "marked"
      BY <2>3, <1>1 DEF ReceiptMark, Store, OInv, Orderly, ChainsComplete
    <3>2. run[r].before < disk.state /\ run[r].before = EndOf(Mutating(work.receipts)) /\ disk.state <= writes
      BY <3>1 DEF OInv, Orderly, Tracked
    <3>3. run[r].before # disk.state
      BY <1>1, <3>2
    <3>. QED BY <1>1, <3>1, <3>2, <3>3
  <2>. QED BY <2>1, <2>2, <2>3
<1>8. ChainsComplete'
  <2>1. \A q \in Runs : run'[q].at = run[q].at /\ (Begun(q) => Begun(q)')
    BY <1>3 DEF Begun
  <2>. QED BY <1>2, <1>3, <1>7, <2>1, ReceiptCounted
<1>9. JoinedUp' /\ EndOf(Mutating(work'.receipts)) = IF a = b THEN EndOf(Mutating(work.receipts)) ELSE b
  BY <1>2, <1>7, ReceiptJoins
<1>10. Tracked'
  <2>1. \A q \in Runs : run'[q].stage \notin {"read", "marked"}
    BY <1>3, <1>5
  <2>2. work'.state = EndOf(Mutating(work'.receipts))
    BY <1>7, <1>9
  <2>. QED BY <1>7, <2>1, <2>2 DEF Tracked
<1>. QED BY <1>6, <1>8, <1>9, <1>10 DEF Orderly

\* A checkpoint seals the run in flight: its own last mutation is the last of
\* the ledger and led to where the scope is.
LEMMA CheckpointOrdered ==
    ASSUME OInv, Clean, NEW r \in Runs, Checkpoint(r)
    PROVE  Orderly'
<1>1. /\ run \in [Runs -> Handle] /\ clock \in Nat /\ seal \in [Runs -> Seal]
      /\ \A q \in Runs : run[q].next \in Nat /\ run[q].at \in Nat
  BY DEF OInv, IInv, TypeOK, Handle
<1>2. /\ InFlight(r) /\ run[r].stage = "running" /\ writer = 0 /\ work = disk
      /\ clock' = clock /\ writes' = writes /\ work' = work /\ disk' = disk
  BY DEF Checkpoint, Free, InFlight, History, OInv, Orderly, ChainsComplete
<1>3. run[r].next > 0 => Sealable(r)
  BY <1>2, CompleteIsSealable
<1>4. /\ run' = [run EXCEPT ![r].stage = "done"]
      /\ \/ run[r].next = 0 /\ seal' = seal
         \/ run[r].next > 0 /\ Sealable(r) /\ seal' = [seal EXCEPT ![r] = Sealed(r)]
  BY <1>1, <1>3 DEF Checkpoint, Sealable
<1>5. /\ \A q \in Runs \ {r} : run'[q] = run[q] /\ seal'[q] = seal[q]
      /\ run'[r].at = run[r].at /\ run'[r].next = run[r].next /\ run'[r].stage = "done"
  BY <1>1, <1>4 DEF Handle
<1>6. \A q \in Runs \ {r} : ~InFlight(q) /\ run[q].stage \in {"new", "done"}
  BY <1>2, OthersRest
<1>7. OneByOne'
  <2>1. \A q \in Runs : /\ run'[q].at = run[q].at
                        /\ Begun(q)' <=> Begun(q)
                        /\ InFlight(q)' => InFlight(q)
                        /\ run'[q].stage \notin {"refused", "failed", "dead"}
    BY <1>2, <1>5, <1>6 DEF Begun, InFlight
  <2>. QED BY <2>1, <1>1, <1>2, OrderKept
<1>8. ChainsComplete'
  <2>1. \A q \in Runs : run'[q].next = run[q].next /\ (Begun(q) => Begun(q)' /\ run'[q].at = run[q].at)
    BY <1>5 DEF Begun
  <2>2. run[r].next > 0 => seal'[r] # Unsealed
    <3>1. run[r].next > 0 => seal'[r] = Sealed(r) /\ Stored(r) = run[r].next
      BY <1>1, <1>3, <1>4 DEF Sealable
    <3>2. Sealed(r).count = Stored(r) /\ Unsealed.count = 0
      BY DEF Sealed, Unsealed
    <3>. QED BY <3>1, <3>2, <1>1
  <2>3. \A q \in Runs : run'[q].stage = "done" /\ run[q].next > 0 /\ seal'[q] = Unsealed =>
                           run[q].stage = "done" /\ seal'[q] = seal[q]
    BY <1>5, <2>2
  <2>. QED BY <1>2, <2>1, <2>3, ChainsKept
<1>a. \A q \in Runs : run[q].stage # "marked" /\ run'[q].stage \notin {"read", "marked"}
  BY <1>2, <1>5, <1>6
<1>b. work.state = EndOf(Mutating(work.receipts))
  BY <1>a DEF OInv, Orderly, Tracked, SomeoneMarked
<1>9. Tracked'
  <2>1. disk'.state <= writes' /\ work'.state <= writes' /\ work'.state = EndOf(Mutating(work'.receipts))
    BY <1>2, <1>b DEF OInv, Orderly, Tracked
  <2>. QED BY <1>a, <2>1 DEF Tracked
<1>10. ASSUME seal'[r].after # 0, seal'[r] = Sealed(r), Mutating(Written(r)) # {}
       PROVE  Latest(Mutating(Written(r))).after = seal'[r].after
  <2>. DEFINE M == Mutating(work.receipts)
              own == Mutating(Written(r))
  <2>1. seal'[r].after = work.state
    BY <1>2, <1>10 DEF Sealed
  <2>2. /\ own \subseteq M /\ own # {} /\ M \in SUBSET Receipt /\ M \subseteq work.receipts
        /\ own = {y \in M : y.run = r}
    BY <1>10 DEF Mutating, Written, OInv, IInv, TypeOK, Store
  <2>3. IsFiniteSet(M) /\ \A x, y \in M : x.run = y.run /\ x.idx = y.idx => x = y
    BY <2>2, FS_Subset DEF OInv, IInv, CursorsLead
  <2>. HIDE DEF M, own
  <2>4. PICK x \in M : x = Latest(M) /\ \A y \in M \ {x} : Earlier(y, x)
    BY <2>2, <2>3, LatestIsListed
  <2>5. \A y \in M : /\ y.run \in Runs /\ y.at \in Nat /\ Begun(y.run) /\ y.at = run[y.run].at
    BY <2>2 DEF OInv, Orderly, ChainsComplete, Receipt
  <2>6. x.run = r
    <3>. SUFFICES ASSUME x.run # r PROVE FALSE
      OBVIOUS
    <3>1. x.at < run[r].at
      BY <1>2, <2>5 DEF OInv, Orderly, OneByOne
    <3>2. PICK y \in own : TRUE
      BY <2>2
    <3>3. y \in M \ {x} /\ y.at = run[r].at
      BY <2>2, <2>5
    <3>. QED BY <1>1, <2>4, <2>5, <3>1, <3>3 DEF Earlier
  <2>7. Latest(own) = x
    BY <2>2, <2>4, <2>6, LastIsLatest
  <2>8. x.after = work.state
    BY <1>b, <2>4 DEF EndOf, M
  <2>. QED BY <2>1, <2>7, <2>8 DEF own
<1>11. JoinedUp'
  <2>1. /\ Mutating(work.receipts)' = Mutating(work.receipts)
        /\ \A q \in Runs : Mutating(Written(q))' = Mutating(Written(q))
    BY <1>2 DEF Mutating, Written
  <2>2. Contiguous(Mutating(work.receipts))'
    BY <2>1 DEF OInv, Orderly, JoinedUp
  <2>3. seal'[r] # seal[r] => seal'[r] = Sealed(r)
    BY <1>1, <1>4
  <2>4. \A q \in Runs : seal'[q] = seal[q] => (seal[q] # Unsealed /\ seal[q].after # 0 /\ Mutating(Written(q)) # {}
            => Latest(Mutating(Written(q))).after = seal[q].after)
    BY DEF OInv, Orderly, JoinedUp
  <2>. QED BY <1>5, <1>10, <2>1, <2>2, <2>3, <2>4 DEF JoinedUp
<1>. QED BY <1>7, <1>8, <1>9, <1>11 DEF Orderly

\* Where the mutations join up, those of one run do: nobody's come in between.
LEMMA OwnJoins ==
    ASSUME OInv, Clean, NEW r \in Runs
    PROVE  Contiguous(Mutating(Written(r)))
<1>. DEFINE M == Mutating(work.receipts)
            own == Mutating(Written(r))
<1>1. M \in SUBSET Receipt /\ M \subseteq work.receipts /\ own = {x \in M : x.run = r} /\ Contiguous(M)
  BY DEF Mutating, Written, OInv, IInv, TypeOK, Store, Orderly, JoinedUp
<1>2. IsFiniteSet(M) /\ \A x, y \in M : x.run = y.run /\ x.idx = y.idx => x = y
  BY <1>1, FS_Subset DEF OInv, IInv, CursorsLead
<1>3. \A x \in M : x.run \in Runs /\ x.at \in Nat /\ Begun(x.run) /\ x.at = run[x.run].at
  BY <1>1 DEF OInv, Orderly, ChainsComplete, Receipt
<1>. HIDE DEF M, own
<1>4. ASSUME NEW y \in own, {x \in own : Earlier(x, y)} # {}
      PROVE  y.before = Latest({x \in own : Earlier(x, y)}).after
  <2>. DEFINE past == {x \in M : Earlier(x, y)}
              mine == {x \in own : Earlier(x, y)}
  <2>1. PICK x \in mine : TRUE
    BY <1>4
  <2>2. past \in SUBSET M /\ x \in past /\ mine \subseteq past /\ IsFiniteSet(past)
    BY <1>1, <1>2, <2>1, FS_Subset
  <2>3. y \in M /\ y.run = r
    BY <1>1
  <2>4. y.before = Latest(past).after
    BY <1>1, <2>2, <2>3 DEF Contiguous
  <2>5. PICK z \in past : z = Latest(past) /\ \A w \in past \ {z} : Earlier(w, z)
    <3>. HIDE DEF past
    <3>. QED BY <1>1, <1>2, <2>2, LatestIsListed
  <2>6. z.run = r
    <3>. SUFFICES ASSUME z.run # r PROVE FALSE
      OBVIOUS
    <3>1. x.run = r /\ Earlier(x, z) /\ Earlier(z, y)
      BY <1>1, <2>1, <2>2, <2>5
    <3>2. z.at = run[r].at
      <4>1. x.at <= z.at /\ z.at <= y.at
        BY <1>3, <2>2, <2>3, <3>1 DEF Earlier
      <4>. QED BY <1>3, <2>2, <2>3, <3>1, <4>1
    <3>. QED BY <1>3, <2>3, <3>2 DEF OInv, Orderly, OneByOne
  <2>7. z \in mine /\ \A w \in mine \ {z} : Earlier(w, z)
    BY <1>1, <2>2, <2>5, <2>6
  <2>8. mine \in SUBSET Receipt
    BY <1>1
  <2>9. Latest(mine) = z
    <3>. HIDE DEF mine
    <3>. QED BY <2>7, <2>8, LastIsLatest
  <2>. QED BY <2>4, <2>5, <2>9
<1>. QED BY <1>4 DEF Contiguous, own

LEMMA OrderInductive == OInv /\ [Next]_vars => OInv'
<1>. SUFFICES ASSUME OInv, [Next]_vars, Clean' PROVE Orderly'
  BY Inductive DEF OInv
<1>1. Clean /\ ~Silent /\ (\A r \in Runs : ~Outage(r)) /\ (\A S \in SUBSET Runs : ~Crash(S))
  BY CleanBefore DEF OInv
<1>2. ASSUME NEW r \in Runs, Step(r) PROVE Orderly'
  <2>1. ~ReceiptOutage(r)
    BY <1>1 DEF ReceiptOutage, OInv, Orderly, OneByOne
  <2>. QED BY <1>1, <1>2, <2>1, BeginOrdered, PlainStepsOrdered, MarkOrdered, ReceiptsOrdered, CheckpointOrdered
           DEF Step
<1>3. ASSUME Tick \/ UNCHANGED vars PROVE Orderly'
  <2>1. UNCHANGED <<disk, work, writer, writes, run, seal>>
    BY <1>3 DEF Tick, vars
  <2>2. clock \in Nat /\ clock' \in Nat /\ clock' >= clock
    BY <1>3 DEF Tick, vars, OInv, IInv, TypeOK
  <2>3. OneByOne'
    BY <1>1, <2>1, <2>2, OrderKept DEF OInv, Orderly, OneByOne, Begun, InFlight
  <2>4. ChainsComplete'
    BY <1>1, <2>1 DEF OInv, Orderly, ChainsComplete, Begun, Written
  <2>5. Tracked' /\ JoinedUp'
    <3>1. Mutating(work.receipts)' = Mutating(work.receipts) /\ EndOf(Mutating(work.receipts))' = EndOf(Mutating(work.receipts))
      BY <2>1 DEF Mutating, EndOf
    <3>. QED BY <1>1, <2>1, <3>1, JoinsKept DEF OInv, Orderly, Tracked, SomeoneMarked
  <2>. QED BY <2>3, <2>4, <2>5 DEF Orderly
<1>. QED BY <1>1, <1>2, <1>3 DEF Next, Finished

LEMMA OrderInit == Init => OInv
<1>. SUFFICES ASSUME Init PROVE OInv
  OBVIOUS
<1>1. /\ disk.state = 0 /\ disk.receipts = {} /\ work = disk /\ writes = 0 /\ clock = 0
      /\ \A r \in Runs : run[r].stage = "new" /\ run[r].at = 0 /\ run[r].next = 0 /\ seal[r] = Unsealed
  BY DEF Init
<1>2. OneByOne /\ JoinedUp /\ Tracked
  BY <1>1 DEF OneByOne, JoinedUp, Tracked, Begun, InFlight, Mutating, Contiguous, EndOf, SomeoneMarked
<1>3. ChainsComplete
  BY <1>1 DEF ChainsComplete, Written
<1>. QED BY <1>2, <1>3, InitHolds DEF OInv, Orderly

(* verify_no_silent_mutation accuses nobody of what did not happen: once      *)
(* every run has ended, none failed, nothing changed the scope silently and   *)
(* the runs came one after the other, it passes, for any runs, in one process *)
(* or several, whether or not the store commits early.                        *)
THEOREM HonestScopesPass == Spec => []AuditAccepts
<1>1. OInv => AuditAccepts
  <2>. SUFFICES ASSUME OInv, Honest, orderly PROVE AuditPasses
    BY DEF AuditAccepts
  <2>1. Clean /\ Orderly
    BY DEF Clean, Honest, OInv
  <2>2. writer = 0 /\ work = disk
    BY <2>1 DEF Honest, InFlight, OInv, IInv, TypeOK, WorkExtendsDisk, Orderly, ChainsComplete
  <2>3. \A r \in Runs : Chain(r) = Written(r)
    BY <2>2 DEF Chain, Written
  <2>4. ASSUME NEW x \in disk.receipts PROVE x.run \in Runs /\ seal[x.run] # Unsealed /\ verify_chain(x.run)
    <3>1. /\ x.run \in Runs /\ x.idx \in Nat \ {0} /\ x.idx <= run[x.run].next /\ run[x.run].next \in Nat
      BY <2>2 DEF OInv, IInv, TypeOK, Store, Receipt, Handle, CursorsLead
    <3>2. run[x.run].stage = "done"
      BY <2>1, <2>2, <3>1 DEF Honest, InFlight, Orderly, OneByOne, ChainsComplete, Begun
    <3>3. seal[x.run] # Unsealed
      BY <2>1, <3>1, <3>2 DEF Orderly, ChainsComplete
    <3>. QED BY <3>1, <3>3 DEF OInv, IInv, SealedAreDone, verify_chain
  <2>5. Contiguous(Mutating(disk.receipts))
    BY <2>1, <2>2 DEF Orderly, JoinedUp
  <2>6. ASSUME NEW x \in Mutating(disk.receipts) PROVE byte_replay(x.run)
    <3>1. x.run \in Runs /\ seal[x.run] # Unsealed /\ verify_chain(x.run)
      BY <2>4 DEF Mutating
    <3>2. Contiguous(Mutating(Chain(x.run)))
      BY <2>1, <2>2, <2>3, <3>1, OwnJoins DEF Orderly, JoinedUp
    <3>. QED BY <2>1, <2>3, <3>1, <3>2 DEF byte_replay, Orderly, JoinedUp
  <2>7. disk.state = (IF Mutating(disk.receipts) = {} THEN 0 ELSE Latest(Mutating(disk.receipts)).after)
    BY <2>1, <2>2 DEF Orderly, Tracked, EndOf, SomeoneMarked, Honest, InFlight
  <2>. QED BY <2>4, <2>5, <2>6, <2>7 DEF AuditPasses
<1>. QED BY <1>1, OrderInit, OrderInductive, PTL DEF Spec
===============================================================================
