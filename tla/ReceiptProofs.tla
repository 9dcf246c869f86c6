---------------------------- MODULE ReceiptProofs ----------------------------
(* Theorems about ReceiptLedger, for any runs, any number of processes and    *)
(* any bounds, whether or not the store commits early.                        *)
EXTENDS ReceiptLedger, FiniteSetTheorems, TLAPS

Stages == {"new", "running", "bracket", "refused", "read", "marked", "done", "failed", "dead"}

(* The strengthening.                                                         *)
(* What the open transaction sees is what is committed, and more of its       *)
(* writer only.                                                               *)
WorkExtendsDisk ==
    /\ disk.receipts \subseteq work.receipts
    /\ \A x \in work.receipts \ disk.receipts : x.run = writer
    /\ writer # 0 => run[writer].stage = "bracket"

(* A handle counts past every receipt it emitted, and gave each its own index. *)
CursorsLead ==
    /\ \A x \in work.receipts : x.idx <= run[x.run].next
    /\ \A x, y \in work.receipts : x.run = y.run /\ x.idx = y.idx => x = y

(* A sealed run is over, and its chain is dense.                              *)
SealedAreDone ==
    \A r \in Runs : seal[r] # Unsealed =>
        /\ run[r].stage = "done"
        /\ Chain(r) # {} /\ {x.idx : x \in Chain(r)} = 1..Stored(r)
        /\ seal[r].count = Stored(r)

IInv == /\ TypeOK /\ IsFiniteSet(work.receipts)
        /\ WorkExtendsDisk /\ CursorsLead /\ SealedAreDone
-----------------------------------------------------------------------------
LEMMA ReceiptTyped ==
    ASSUME TypeOK, NEW r \in Runs, NEW a \in Nat, NEW b \in Nat
    PROVE  /\ Receipted(r, a, b) \in Receipt
           /\ Receipted(r, a, b).run = r /\ Receipted(r, a, b).idx = run[r].next + 1
<1>1. run[r] \in Handle BY DEF TypeOK
<1>2. run[r].next \in Nat /\ run[r].at \in Nat BY <1>1 DEF Handle
<1>. QED BY <1>2 DEF Receipted, Receipt

LEMMA StoreTyped ==
    ASSUME NEW d \in Store, NEW x \in Receipt, NEW n \in Nat
    PROVE  /\ [d EXCEPT !.receipts = @ \cup {x}] \in Store
           /\ [d EXCEPT !.receipts = @ \cup {x}].receipts = d.receipts \cup {x}
           /\ [d EXCEPT !.state = n] \in Store
           /\ [d EXCEPT !.state = n].receipts = d.receipts
           /\ d.receipts \subseteq Receipt /\ d.state \in Nat
BY DEF Store

(* A store's receipts, filed under the handle's index, keep the invariant's   *)
(* relations when one more receipt of r arrives with the next index.          *)
LEMMA HandleTyped ==
    ASSUME NEW h \in Handle, NEW s \in Stages, NEW n \in Nat, NEW b \in BOOLEAN
    PROVE  /\ [h EXCEPT !.stage = s] \in Handle
           /\ [h EXCEPT !.next = n] \in Handle
           /\ [h EXCEPT !.next = n, !.stage = s] \in Handle
           /\ [h EXCEPT !.stage = s, !.next = n] \in Handle
           /\ [h EXCEPT !.stage = s, !.outage = b] \in Handle
           /\ [h EXCEPT !.stage = s, !.before = n] \in Handle
           /\ [h EXCEPT !.stage = s, !.at = n] \in Handle
           /\ h.next \in Nat /\ h.at \in Nat /\ h.before \in Nat /\ h.stage \in Stages
BY DEF Handle, Stages

LEMMA InitHolds == Init => IInv
<1>. SUFFICES ASSUME Init PROVE IInv
  OBVIOUS
<1>1. disk = [state |-> 0, receipts |-> {}] /\ work = [state |-> 0, receipts |-> {}]
  BY DEF Init
<1>2. disk \in Store /\ work \in Store
  BY <1>1 DEF Store
<1>. DEFINE fresh == [stage |-> "new", at |-> 0, next |-> 0, before |-> 0, outage |-> FALSE]
<1>5. fresh \in Handle /\ Unsealed \in Seal
  BY DEF Handle, Seal, Unsealed
<1>6. run \in [Runs -> Handle] /\ seal \in [Runs -> Seal]
  <2>1. run = [r \in Runs |-> fresh] /\ seal = [r \in Runs |-> Unsealed]
    BY DEF Init
  <2>. HIDE DEF fresh
  <2>. QED BY <1>5, <2>1
<1>7. 0 \in 0..MaxSilent /\ 0 \in 0..MaxFaults
  BY SettingAssumption
<1>8. /\ clock = 0 /\ writes = 0 /\ writer = 0 /\ silent = 0 /\ faults = 0
      /\ unreceipted = FALSE /\ orderly = TRUE
  BY DEF Init
<1>3. TypeOK
  BY <1>2, <1>6, <1>7, <1>8 DEF TypeOK
<1>4. IsFiniteSet(work.receipts)
  BY <1>1, FS_EmptySet
<1>. QED
  BY <1>1, <1>3, <1>4 DEF Init, IInv, WorkExtendsDisk, CursorsLead, SealedAreDone
-----------------------------------------------------------------------------
LEMMA Typed == IInv /\ [Next]_vars => TypeOK'
<1>. SUFFICES ASSUME TypeOK, IsFiniteSet(disk.receipts), [Next]_vars PROVE TypeOK'
  BY FS_Subset DEF IInv, WorkExtendsDisk
<1>. USE DEF History
<1>a. /\ clock \in Nat /\ writes \in Nat /\ writes + 1 \in Nat
      /\ disk \in Store /\ work \in Store /\ disk.state \in Nat /\ work.state \in Nat
      /\ run \in [Runs -> Handle] /\ seal \in [Runs -> Seal]
      /\ 0 \in Nat /\ writer \in Runs \cup {0}
  BY DEF TypeOK, Store
<1>b. \A r \in Runs : run[r] \in Handle /\ run[r].next + 1 \in Nat /\ run[r].before \in Nat
  BY <1>a DEF Handle
<1>. USE DEF Stages
<1>1. ASSUME NEW r \in Runs, begin_run(r) PROVE TypeOK'
  <2>1. run' \in [Runs -> Handle]
    BY <1>1, <1>a, <1>b, HandleTyped DEF begin_run
  <2>. QED BY <1>1, <1>a, <2>1 DEF begin_run, TypeOK
<1>2. ASSUME NEW r \in Runs, EmitNote(r) PROVE TypeOK'
  <2>1. run' \in [Runs -> Handle]
    BY <1>2, <1>a, <1>b, HandleTyped DEF EmitNote
  <2>2. disk' \in Store /\ work' \in Store
    BY <1>2, <1>a, ReceiptTyped, StoreTyped DEF EmitNote
  <2>. QED BY <1>2, <1>a, <2>1, <2>2 DEF EmitNote, TypeOK
<1>3. ASSUME NEW r \in Runs, OpenBracket(r) PROVE TypeOK'
  <2>1. run' \in [Runs -> Handle]
    BY <1>3, <1>a, <1>b, HandleTyped DEF OpenBracket
  <2>. QED BY <1>3, <1>a, <2>1 DEF OpenBracket, TypeOK
<1>4. ASSUME NEW r \in Runs, Mutate(r) PROVE TypeOK'
  <2>1. run' \in [Runs -> Handle]
    BY <1>4, <1>a, <1>b, HandleTyped DEF Mutate
  <2>2. work' \in Store
    <3>1. Receipted(r, work.state, writes + 1) \in Receipt
      BY <1>a, ReceiptTyped
    <3>. QED BY <1>4, <1>a, <3>1 DEF Mutate, Store
  <2>. QED BY <1>4, <1>a, <2>1, <2>2 DEF Mutate, TypeOK
<1>5. ASSUME NEW r \in Runs, CommitEarly(r) PROVE TypeOK'
  BY <1>5, <1>a DEF CommitEarly, TypeOK
<1>6. ASSUME NEW r \in Runs, CommitBracket(r) PROVE TypeOK'
  <2>1. run' \in [Runs -> Handle]
    BY <1>6, <1>a, <1>b, HandleTyped DEF CommitBracket
  <2>. QED BY <1>6, <1>a, <2>1 DEF CommitBracket, TypeOK
<1>7. ASSUME NEW r \in Runs, ReceiptOutage(r) PROVE TypeOK'
  <2>1. run' \in [Runs -> Handle]
    BY <1>7, <1>a, <1>b, HandleTyped DEF ReceiptOutage
  <2>2. disk' \in Store /\ work' \in Store
    BY <1>7, <1>a, ReceiptTyped, StoreTyped DEF ReceiptOutage
  <2>. QED BY <1>7, <1>a, <2>1, <2>2 DEF ReceiptOutage, TypeOK
<1>8. ASSUME NEW r \in Runs, ReadHash(r) PROVE TypeOK'
  <2>1. run' \in [Runs -> Handle]
    BY <1>8, <1>a, <1>b, HandleTyped DEF ReadHash
  <2>. QED BY <1>8, <1>a, <2>1 DEF ReadHash, TypeOK
<1>9. ASSUME NEW r \in Runs, Mark(r) PROVE TypeOK'
  <2>1. run' \in [Runs -> Handle]
    BY <1>9, <1>a, <1>b, HandleTyped DEF Mark
  <2>2. disk' \in Store /\ work' \in Store
    BY <1>9, <1>a DEF Mark, Store
  <2>. QED BY <1>9, <1>a, <2>1, <2>2 DEF Mark, TypeOK
<1>10. ASSUME NEW r \in Runs, ReceiptMark(r) PROVE TypeOK'
  <2>1. run' \in [Runs -> Handle]
    BY <1>10, <1>a, <1>b, HandleTyped DEF ReceiptMark
  <2>2. disk' \in Store /\ work' \in Store
    BY <1>10, <1>a, <1>b, ReceiptTyped, StoreTyped DEF ReceiptMark
  <2>. QED BY <1>10, <1>a, <2>1, <2>2 DEF ReceiptMark, TypeOK
<1>11. ASSUME NEW r \in Runs, Checkpoint(r) PROVE TypeOK'
  <2>1. run' \in [Runs -> Handle]
    <3>1. run' = [run EXCEPT ![r].stage = "done"] \/ run' = [run EXCEPT ![r].stage = "failed"]
      BY <1>11 DEF Checkpoint
    <3>2. CASE run' = [run EXCEPT ![r].stage = "done"]
      BY <3>2, <1>a, <1>b, HandleTyped
    <3>3. CASE run' = [run EXCEPT ![r].stage = "failed"]
      BY <3>3, <1>a, <1>b, HandleTyped
    <3>. QED BY <3>1, <3>2, <3>3
  <2>2. Stored(r) \in Nat
    BY FS_Subset, FS_CardinalityType DEF Stored, Chain
  <2>3. Sealed(r) \in Seal
    BY <2>2, <1>a DEF Sealed, Seal
  <2>4. seal' \in [Runs -> Seal]
    BY <1>11, <1>a, <2>3 DEF Checkpoint
  <2>. QED BY <1>11, <1>a, <2>1, <2>4 DEF Checkpoint, TypeOK
<1>12. ASSUME NEW r \in Runs, Outage(r) PROVE TypeOK'
  <2>1. run' \in [Runs -> Handle]
    BY <1>12, <1>a, <1>b, HandleTyped DEF Outage
  <2>2. faults' \in 0..MaxFaults
    BY <1>12, SettingAssumption DEF Outage, Fault, TypeOK
  <2>. QED BY <1>12, <1>a, <2>1, <2>2 DEF Outage, Rollback, TypeOK
<1>13. ASSUME NEW S \in SUBSET Runs, Crash(S) PROVE TypeOK'
  <2>1. \A r \in Runs : [run[r] EXCEPT !.stage = "dead"] \in Handle
    BY <1>b, HandleTyped
  <2>2. run' \in [Runs -> Handle]
    BY <1>13, <1>b, <2>1 DEF Crash
  <2>3. faults' \in 0..MaxFaults
    BY <1>13, SettingAssumption DEF Crash, Fault, TypeOK
  <2>4. unreceipted' \in BOOLEAN
    BY <1>13 DEF Crash
  <2>5. work' \in Store /\ writer' \in Runs \cup {0}
    BY <1>13, <1>a DEF Crash
  <2>. QED BY <1>13, <1>a, <2>2, <2>3, <2>4, <2>5 DEF Crash, TypeOK
<1>14. CASE Silent
  <2>1. disk' \in Store /\ work' \in Store
    BY <1>14, <1>a DEF Silent, Store
  <2>2. silent' \in 0..MaxSilent
    BY <1>14, SettingAssumption DEF Silent, TypeOK
  <2>. QED BY <1>14, <1>a, <2>1, <2>2 DEF Silent, TypeOK
<1>15. CASE Tick
  BY <1>15, <1>a DEF Tick, TypeOK
<1>16. CASE UNCHANGED vars
  BY <1>16 DEF vars, TypeOK
<1>. QED
  BY <1>1, <1>2, <1>3, <1>4, <1>5, <1>6, <1>7, <1>8, <1>9, <1>10, <1>11, <1>12, <1>13,
     <1>14, <1>15, <1>16 DEF Next, Step, Finished
-----------------------------------------------------------------------------
(* The chains.                                                                *)

(* One more receipt, under the next index of its run.                         *)
LEMMA Arrives ==
    ASSUME IInv, NEW r \in Runs, NEW a \in Nat, NEW b \in Nat,
           work'.receipts = work.receipts \cup {Receipted(r, a, b)},
           \A q \in Runs : run'[q].next = IF q = r THEN run[q].next + 1 ELSE run[q].next
    PROVE  CursorsLead' /\ IsFiniteSet(work'.receipts)
<1>. DEFINE x == Receipted(r, a, b)
<1>1. x \in Receipt /\ x.run = r /\ x.idx = run[r].next + 1
  BY ReceiptTyped DEF IInv
<1>2. work.receipts \subseteq Receipt /\ \A q \in Runs : run[q].next \in Nat
  BY DEF IInv, TypeOK, Store, Handle
<1>3. IsFiniteSet(work'.receipts)
  BY FS_AddElement DEF IInv
<1>. HIDE DEF x
<1>4. \A y \in work.receipts : y.run \in Runs /\ y.idx \in Nat /\ y.idx <= run[y.run].next
  BY <1>2 DEF IInv, CursorsLead, Receipt
<1>5. \A y \in work'.receipts : y.idx <= run'[y.run].next
  BY <1>1, <1>2, <1>4 DEF x
<1>6. \A y \in work.receipts : ~(y.run = x.run /\ y.idx = x.idx)
  BY <1>1, <1>2, <1>4
<1>7. \A y, z \in work'.receipts : y.run = z.run /\ y.idx = z.idx => y = z
  BY <1>6 DEF x, IInv, CursorsLead
<1>. QED BY <1>3, <1>5, <1>7 DEF CursorsLead

(* Receipts only go, or stay; cursors do not move.                            *)
LEMMA Departs ==
    ASSUME IInv, work'.receipts \subseteq work.receipts,
           \A q \in Runs : run'[q].next = run[q].next
    PROVE  CursorsLead' /\ IsFiniteSet(work'.receipts)
<1>1. IsFiniteSet(work'.receipts)
  BY FS_Subset DEF IInv
<1>2. \A y \in work.receipts : y.run \in Runs
  BY DEF IInv, TypeOK, Store, Receipt
<1>. QED BY <1>1, <1>2 DEF IInv, CursorsLead

(* A sealed run is done, so whatever arrives belongs to somebody else.        *)
LEMMA SealsStay ==
    ASSUME SealedAreDone, seal' = seal, disk.receipts \subseteq disk'.receipts,
           \A q \in Runs : run[q].stage = "done" => run'[q].stage = "done",
           \A x \in disk'.receipts \ disk.receipts : run[x.run].stage # "done"
    PROVE  SealedAreDone'
<1>1. \A q \in Runs : run[q].stage = "done" => Chain(q)' = Chain(q) /\ Stored(q)' = Stored(q)
  BY DEF Chain, Stored
<1>. QED BY <1>1 DEF SealedAreDone

(* As many receipts as the handle counts, each with an index of its own: the  *)
(* indices are all of them.                                                   *)
LEMMA SealableIsDense ==
    ASSUME IInv, NEW r \in Runs, Sealable(r)
    PROVE  /\ Chain(r) # {} /\ {x.idx : x \in Chain(r)} = 1..Stored(r)
           /\ Sealed(r).count = Stored(r)
<1>. DEFINE C == Chain(r)
            I == {x.idx : x \in C}
            f == [x \in C |-> x.idx]
            n == run[r].next
<1>1. IsFiniteSet(C) /\ C \subseteq work.receipts
  BY FS_Subset DEF Chain, IInv, WorkExtendsDisk
<1>2. n \in Nat /\ n > 0 /\ Cardinality(C) = n
  BY DEF Sealable, Stored, IInv, TypeOK, Handle
<1>3. C # {}
  BY <1>2, FS_EmptySet
<1>4. \A x \in C : x.idx \in 1..n
  <2>1. \A x \in C : x.idx \in Nat \ {0} /\ x.run = r /\ x.idx <= run[x.run].next
    BY <1>1 DEF Chain, IInv, TypeOK, Store, Receipt, CursorsLead
  <2>. QED BY <1>2, <2>1
<1>5. I \subseteq 1..n
  BY <1>4
<1>6. f \in Bijection(C, I)
  <2>1. \A x, y \in C : x.idx = y.idx => x = y
    BY <1>1 DEF Chain, IInv, CursorsLead
  <2>2. f \in [C -> I]
    OBVIOUS
  <2>. QED BY <2>1, <2>2 DEF Bijection, Injection, Surjection, IsInjective
<1>. HIDE DEF C, I, f, n
<1>7. IsFiniteSet(I) /\ Cardinality(I) = n
  BY <1>1, <1>2, <1>6, FS_Bijection DEF ExistsBijection
<1>8. IsFiniteSet(1..n) /\ Cardinality(1..n) = n
  BY <1>2, FS_Interval
<1>9. I = 1..n
  BY <1>5, <1>7, <1>8, FS_Subset
<1>. QED BY <1>2, <1>3, <1>9 DEF C, I, n, Stored, Sealed

LEMMA Together ==
    ASSUME IInv, writer = 0
    PROVE  work.receipts = disk.receipts
<1>1. \A x \in work.receipts : x.run # 0
  BY RunAssumption DEF IInv, TypeOK, Store, Receipt
<1>. QED BY <1>1 DEF IInv, WorkExtendsDisk

(* A receipt committed on its own.                                            *)
LEMMA Emitted ==
    ASSUME IInv, NEW r \in Runs, NEW a \in Nat, NEW b \in Nat,
           writer = 0, writer' = 0, seal' = seal, run[r].stage # "done",
           disk'.receipts = disk.receipts \cup {Receipted(r, a, b)}, work' = disk',
           \A q \in Runs : run'[q].next = IF q = r THEN run[q].next + 1 ELSE run[q].next,
           \A q \in Runs \ {r} : run'[q].stage = run[q].stage
    PROVE  /\ IsFiniteSet(work'.receipts)
           /\ WorkExtendsDisk' /\ CursorsLead' /\ SealedAreDone'
<1>1. work'.receipts = work.receipts \cup {Receipted(r, a, b)}
  BY Together
<1>2. CursorsLead' /\ IsFiniteSet(work'.receipts)
  BY <1>1, Arrives
<1>3. Receipted(r, a, b).run = r
  BY ReceiptTyped DEF IInv
<1>4. SealedAreDone'
  BY <1>3, SealsStay DEF IInv
<1>. QED BY <1>2, <1>4 DEF WorkExtendsDisk

(* Nothing is committed; what was open stays open or is given up.             *)
LEMMA NoneCommitted ==
    ASSUME IInv, seal' = seal, disk'.receipts = disk.receipts,
           \/ work' = work /\ writer' = writer
           \/ work'.receipts = disk.receipts,
           writer' # 0 => run'[writer'].stage = "bracket",
           \A q \in Runs : run'[q].next = run[q].next,
           \A q \in Runs : run[q].stage = "done" => run'[q].stage = "done"
    PROVE  /\ IsFiniteSet(work'.receipts)
           /\ WorkExtendsDisk' /\ CursorsLead' /\ SealedAreDone'
<1>1. disk.receipts \subseteq work'.receipts /\ work'.receipts \subseteq work.receipts
  BY DEF IInv, WorkExtendsDisk
<1>2. CursorsLead' /\ IsFiniteSet(work'.receipts)
  BY <1>1, Departs
<1>3. SealedAreDone'
  BY SealsStay DEF IInv
<1>4. WorkExtendsDisk'
  BY <1>1 DEF IInv, WorkExtendsDisk
<1>. QED BY <1>2, <1>3, <1>4

(* The open transaction commits.                                              *)
LEMMA Committed ==
    ASSUME IInv, NEW r \in Runs, writer \in {0, r}, writer' = 0, seal' = seal,
           disk' = work, work' = work, run[r].stage = "bracket",
           \A q \in Runs : run'[q].next = run[q].next,
           \A q \in Runs : run[q].stage = "done" => run'[q].stage = "done"
    PROVE  /\ IsFiniteSet(work'.receipts)
           /\ WorkExtendsDisk' /\ CursorsLead' /\ SealedAreDone'
<1>1. CursorsLead' /\ IsFiniteSet(work'.receipts)
  BY Departs
<1>2. \A x \in disk'.receipts \ disk.receipts : x.run = r
  <2>1. CASE writer = 0
    BY <2>1, Together
  <2>2. CASE writer = r
    BY <2>2 DEF IInv, WorkExtendsDisk
  <2>. QED BY <2>1, <2>2
<1>3. disk.receipts \subseteq disk'.receipts
  BY DEF IInv, WorkExtendsDisk
<1>4. SealedAreDone'
  BY <1>2, <1>3, SealsStay DEF IInv
<1>. QED BY <1>1, <1>4 DEF WorkExtendsDisk

LEMMA Kept ==
    ASSUME IInv, [Next]_vars
    PROVE  /\ IsFiniteSet(work'.receipts)
           /\ WorkExtendsDisk' /\ CursorsLead' /\ SealedAreDone'
<1>. DEFINE Goal == /\ IsFiniteSet(work'.receipts)
                    /\ WorkExtendsDisk' /\ CursorsLead' /\ SealedAreDone'
<1>a. /\ run \in [Runs -> Handle] /\ writer \in Runs \cup {0}
      /\ disk.state \in Nat /\ work.state \in Nat /\ writes + 1 \in Nat
  BY DEF IInv, TypeOK, Store
<1>b. \A r \in Runs : run[r].before \in Nat /\ run[r].next \in Nat
  BY <1>a DEF Handle
<1>c. writer # 0 => run[writer].stage = "bracket"
  BY DEF IInv, WorkExtendsDisk
<1>1. ASSUME NEW r \in Runs, begin_run(r) PROVE Goal
  <2>1. writer' # 0 => run'[writer'].stage = "bracket"
    BY <1>1, <1>a, <1>c DEF begin_run, Handle
  <2>2. \A q \in Runs : run'[q].next = run[q].next /\ (run[q].stage = "done" => run'[q].stage = "done")
    BY <1>1, <1>a DEF begin_run, Handle
  <2>. QED BY <1>1, <2>1, <2>2, NoneCommitted DEF begin_run
<1>2. ASSUME NEW r \in Runs, EmitNote(r) PROVE Goal
  <2>1. \A q \in Runs : run'[q].next = IF q = r THEN run[q].next + 1 ELSE run[q].next
    BY <1>2, <1>a DEF EmitNote, Handle
  <2>2. \A q \in Runs \ {r} : run'[q].stage = run[q].stage
    BY <1>2, <1>a DEF EmitNote
  <2>3. disk'.receipts = disk.receipts \cup {Receipted(r, disk.state, disk.state)}
    BY <1>2 DEF EmitNote, IInv, TypeOK, Store
  <2>. QED BY <1>2, <1>a, <2>1, <2>2, <2>3, Emitted DEF EmitNote, Free
<1>3. ASSUME NEW r \in Runs, OpenBracket(r) PROVE Goal
  <2>1. writer' # 0 => run'[writer'].stage = "bracket"
    BY <1>3, <1>a DEF OpenBracket, Handle
  <2>2. \A q \in Runs : run'[q].next = run[q].next /\ (run[q].stage = "done" => run'[q].stage = "done")
    BY <1>3, <1>a DEF OpenBracket, Handle
  <2>3. work'.receipts = disk.receipts
    BY <1>3, Together DEF OpenBracket, Free
  <2>. QED BY <1>3, <2>1, <2>2, <2>3, NoneCommitted DEF OpenBracket
<1>4. ASSUME NEW r \in Runs, Mutate(r) PROVE Goal
  <2>. DEFINE x == Receipted(r, work.state, writes + 1)
  <2>1. \A q \in Runs : run'[q].next = IF q = r THEN run[q].next + 1 ELSE run[q].next
    BY <1>4, <1>a DEF Mutate, Handle
  <2>2. \A q \in Runs : run'[q].stage = run[q].stage
    BY <1>4, <1>a DEF Mutate, Handle
  <2>3. work'.receipts = work.receipts \cup {x}
    BY <1>4 DEF Mutate
  <2>4. CursorsLead' /\ IsFiniteSet(work'.receipts)
    BY <2>1, <2>3, <1>a, Arrives
  <2>5. x.run = r
    BY <1>a, ReceiptTyped DEF IInv
  <2>6. \A y \in work.receipts \ disk.receipts : y.run = r
    <3>1. CASE writer = 0
      BY <3>1, Together
    <3>2. CASE writer = r
      BY <3>2 DEF IInv, WorkExtendsDisk
    <3>. QED BY <1>4, <3>1, <3>2 DEF Mutate
  <2>. HIDE DEF x
  <2>7. WorkExtendsDisk'
    BY <1>4, <2>2, <2>3, <2>5, <2>6 DEF Mutate, IInv, WorkExtendsDisk
  <2>8. SealedAreDone'
    <3>1. disk' = disk /\ seal' = seal
      BY <1>4 DEF Mutate
    <3>. QED BY <3>1, <2>2, SealsStay DEF IInv
  <2>. QED BY <2>4, <2>7, <2>8
<1>5. ASSUME NEW r \in Runs, CommitEarly(r) PROVE Goal
  BY <1>5, Committed DEF CommitEarly
<1>6. ASSUME NEW r \in Runs, CommitBracket(r) PROVE Goal
  <2>1. \A q \in Runs : run'[q].next = run[q].next /\ (run[q].stage = "done" => run'[q].stage = "done")
    BY <1>6, <1>a DEF CommitBracket, Handle
  <2>. QED BY <1>6, <2>1, Committed DEF CommitBracket
<1>7. ASSUME NEW r \in Runs, ReceiptOutage(r) PROVE Goal
  <2>1. \A q \in Runs : run'[q].next = IF q = r THEN run[q].next + 1 ELSE run[q].next
    BY <1>7, <1>a DEF ReceiptOutage, Handle
  <2>2. \A q \in Runs \ {r} : run'[q].stage = run[q].stage
    BY <1>7, <1>a DEF ReceiptOutage
  <2>3. disk'.receipts = disk.receipts \cup {Receipted(r, disk.state, disk.state)}
    BY <1>7 DEF ReceiptOutage, IInv, TypeOK, Store
  <2>. QED BY <1>7, <1>a, <2>1, <2>2, <2>3, Emitted, ZenonT(40) DEF ReceiptOutage
<1>8. ASSUME NEW r \in Runs, ReadHash(r) PROVE Goal
  <2>1. writer' # 0 => run'[writer'].stage = "bracket"
    BY <1>8, <1>a, <1>c DEF ReadHash, Handle
  <2>2. \A q \in Runs : run'[q].next = run[q].next /\ (run[q].stage = "done" => run'[q].stage = "done")
    BY <1>8, <1>a DEF ReadHash, Handle
  <2>. QED BY <1>8, <2>1, <2>2, NoneCommitted DEF ReadHash
<1>9. ASSUME NEW r \in Runs, Mark(r) PROVE Goal
  <2>1. writer' = 0
    BY <1>9 DEF Mark
  <2>2. \A q \in Runs : run'[q].next = run[q].next /\ (run[q].stage = "done" => run'[q].stage = "done")
    BY <1>9, <1>a DEF Mark, Handle
  <2>3. disk'.receipts = disk.receipts /\ work'.receipts = disk.receipts
    BY <1>9 DEF Mark, IInv, TypeOK, Store
  <2>. QED BY <1>9, <2>1, <2>2, <2>3, NoneCommitted DEF Mark
<1>10. ASSUME NEW r \in Runs, ReceiptMark(r) PROVE Goal
  <2>1. \A q \in Runs : run'[q].next = IF q = r THEN run[q].next + 1 ELSE run[q].next
    BY <1>10, <1>a DEF ReceiptMark, Handle
  <2>2. \A q \in Runs \ {r} : run'[q].stage = run[q].stage
    BY <1>10, <1>a DEF ReceiptMark
  <2>3. disk'.receipts = disk.receipts \cup {Receipted(r, run[r].before, disk.state)}
    BY <1>10 DEF ReceiptMark, IInv, TypeOK, Store
  <2>. QED
    <3>1. run[r].before \in Nat /\ run[r].stage # "done" /\ writer = 0 /\ writer' = 0
      BY <1>10, <1>b DEF ReceiptMark
    <3>2. seal' = seal /\ work' = disk'
      BY <1>10 DEF ReceiptMark
    <3>. QED BY <1>a, <2>1, <2>2, <2>3, <3>1, <3>2, Emitted
<1>11. ASSUME NEW r \in Runs, Checkpoint(r) PROVE Goal
  <2>0. writer = 0 /\ writer' = 0 /\ disk' = disk /\ work' = work /\ run[r].stage = "running"
    BY <1>11 DEF Checkpoint, Free
  <2>1. \A q \in Runs : run'[q].next = run[q].next /\ (run[q].stage = "done" => run'[q].stage = "done")
    BY <1>11, <1>a DEF Checkpoint, Handle
  <2>2. CASE seal' = seal
    BY <2>0, <2>1, <2>2, NoneCommitted
  <2>3. CASE Sealable(r) /\ seal' = [seal EXCEPT ![r] = Sealed(r)]
                         /\ run' = [run EXCEPT ![r].stage = "done"]
    <3>1. CursorsLead' /\ IsFiniteSet(work'.receipts)
      BY <2>0, <2>1, Departs
    <3>2. WorkExtendsDisk'
      BY <2>0 DEF IInv, WorkExtendsDisk
    <3>3. \A q \in Runs : Chain(q)' = Chain(q) /\ Stored(q)' = Stored(q)
      BY <2>0 DEF Chain, Stored
    <3>4. seal'[r] = Sealed(r) /\ run'[r].stage = "done"
      BY <2>3, <1>a DEF Handle, IInv, TypeOK
    <3>5. \A q \in Runs \ {r} : seal'[q] = seal[q]
      BY <2>3 DEF IInv, TypeOK
    <3>6. SealedAreDone'
      BY <3>3, <3>4, <3>5, <2>1, <2>3, SealableIsDense DEF SealedAreDone, IInv
    <3>. QED BY <3>1, <3>2, <3>6
  <2>. QED BY <1>11, <2>2, <2>3 DEF Checkpoint
<1>12. ASSUME NEW r \in Runs, Outage(r) PROVE Goal
  <2>1. writer' = 0 /\ disk' = disk /\ work' = disk /\ seal' = seal
    BY <1>12 DEF Outage, Rollback
  <2>2. \A q \in Runs : run'[q].next = run[q].next /\ (run[q].stage = "done" => run'[q].stage = "done")
    BY <1>12, <1>a DEF Outage, Handle
  <2>. QED BY <2>1, <2>2, NoneCommitted
<1>13. ASSUME NEW S \in SUBSET Runs, Crash(S) PROVE Goal
  <2>0. disk' = disk /\ seal' = seal
    BY <1>13 DEF Crash
  <2>1. \A q \in Runs : run'[q] = IF q \in S THEN [run[q] EXCEPT !.stage = "dead"] ELSE run[q]
    BY <1>13 DEF Crash
  <2>2. \A q \in Runs : run'[q].next = run[q].next
    BY <2>1, <1>a DEF Handle
  <2>3. \A q \in Runs : run[q].stage = "done" => run'[q].stage = "done"
    BY <1>13, <2>1 DEF Crash, InFlight
  <2>4. CASE writer \in S
    BY <1>13, <2>0, <2>2, <2>3, <2>4, NoneCommitted DEF Crash
  <2>5. CASE writer \notin S
    <3>1. work' = work /\ writer' = writer
      BY <1>13, <2>5 DEF Crash
    <3>2. writer' # 0 => run'[writer'].stage = "bracket"
      BY <3>1, <2>1, <2>5, <1>a, <1>c
    <3>. QED BY <2>0, <2>2, <2>3, <3>1, <3>2, NoneCommitted
  <2>. QED BY <2>4, <2>5
<1>14. ASSUME Silent PROVE Goal
  <2>1. writer' = 0 /\ run' = run /\ seal' = seal
    BY <1>14 DEF Silent
  <2>2. disk'.receipts = disk.receipts /\ work'.receipts = disk.receipts
    BY <1>14 DEF Silent, IInv, TypeOK, Store
  <2>. QED BY <2>1, <2>2, NoneCommitted
<1>15. ASSUME Tick PROVE Goal
  <2>1. disk' = disk /\ work' = work /\ writer' = writer /\ run' = run /\ seal' = seal
    BY <1>15 DEF Tick
  <2>. QED BY <2>1, <1>c, NoneCommitted
<1>16. ASSUME UNCHANGED vars PROVE Goal
  <2>1. disk' = disk /\ work' = work /\ writer' = writer /\ run' = run /\ seal' = seal
    BY <1>16 DEF vars
  <2>. QED BY <2>1, <1>c, NoneCommitted
<1>. HIDE DEF Goal
<1>17. Goal
  BY <1>1, <1>2, <1>3, <1>4, <1>5, <1>6, <1>7, <1>8, <1>9, <1>10, <1>11, <1>12, <1>13,
     <1>14, <1>15, <1>16 DEF Next, Step, Finished
<1>. QED BY <1>17 DEF Goal

LEMMA Inductive == IInv /\ [Next]_vars => IInv'
<1>. SUFFICES ASSUME IInv, [Next]_vars PROVE IInv'
  OBVIOUS
<1>. QED BY Typed, Kept DEF IInv

LEMMA Always == Spec => []IInv
<1>. QED BY InitHolds, Inductive, PTL DEF Spec
-----------------------------------------------------------------------------
(* Every reachable ledger is well typed: a stored receipt has an index from   *)
(* one on, a checkpoint a count.                                              *)
THEOREM TypeCorrect == Spec => []TypeOK
<1>1. IInv => TypeOK BY DEF IInv
<1>. QED BY <1>1, Always, PTL

(* What a checkpoint seals verifies for ever (ReceiptLedger.checkpoint and    *)
(* verify_chain): in any number of processes, whatever crashes, outages,      *)
(* early commits and unreceipted changes happen before or after.              *)
THEOREM SealedChainsVerify == Spec => []SealsHold
<1>1. IInv => SealsHold BY DEF IInv, SealedAreDone, SealsHold, verify_chain
<1>. QED BY <1>1, Always, PTL

(* No step takes back a committed receipt or alters a checkpoint: a rollback  *)
(* only loses what its transaction had not committed.                         *)
THEOREM OnlyGrows == Spec => LedgerOnlyGrows
<1>1. IInv /\ [Next]_vars =>
        [/\ disk.receipts \subseteq disk'.receipts
         /\ \A r \in Runs : seal[r] # Unsealed => seal'[r] = seal[r]]_vars
  <2>. SUFFICES ASSUME IInv, Next
               PROVE  /\ disk.receipts \subseteq disk'.receipts
                      /\ \A r \in Runs : seal[r] # Unsealed => seal'[r] = seal[r]
    OBVIOUS
  <2>. DEFINE Goal == /\ disk.receipts \subseteq disk'.receipts
                      /\ \A r \in Runs : seal[r] # Unsealed => seal'[r] = seal[r]
  <2>a. disk \in Store
    BY DEF IInv, TypeOK
  <2>1. ASSUME NEW r \in Runs, Step(r) PROVE Goal
    <3>1. CASE begin_run(r) \/ OpenBracket(r) \/ Mutate(r) \/ ReadHash(r)
      BY <3>1 DEF begin_run, OpenBracket, Mutate, ReadHash
    <3>2. CASE EmitNote(r)
      BY <3>2, <2>a DEF EmitNote, Store
    <3>3. CASE CommitEarly(r) \/ CommitBracket(r)
      BY <3>3 DEF CommitEarly, CommitBracket, IInv, WorkExtendsDisk
    <3>4. CASE ReceiptOutage(r)
      BY <3>4, <2>a DEF ReceiptOutage, Store
    <3>5. CASE Mark(r)
      BY <3>5, <2>a DEF Mark, Store
    <3>6. CASE ReceiptMark(r)
      BY <3>6, <2>a DEF ReceiptMark, Store
    <3>7. CASE Checkpoint(r)
      <4>1. run[r].stage = "running" /\ disk' = disk
        BY <3>7 DEF Checkpoint
      <4>2. seal[r] = Unsealed
        BY <4>1 DEF IInv, SealedAreDone
      <4>3. \A q \in Runs \ {r} : seal'[q] = seal[q]
        BY <3>7 DEF Checkpoint, IInv, TypeOK
      <4>. QED BY <4>1, <4>2, <4>3
    <3>. QED BY <2>1, <3>1, <3>2, <3>3, <3>4, <3>5, <3>6, <3>7 DEF Step
  <2>2. ASSUME NEW r \in Runs, Outage(r) PROVE Goal
    BY <2>2 DEF Outage, Rollback
  <2>3. ASSUME NEW S \in SUBSET Runs, Crash(S) PROVE Goal
    BY <2>3 DEF Crash
  <2>4. ASSUME Silent PROVE Goal
    BY <2>4, <2>a DEF Silent, Store
  <2>5. ASSUME Tick \/ Finished PROVE Goal
    BY <2>5 DEF Tick, Finished, vars
  <2>. HIDE DEF Goal
  <2>6. Goal
    BY <2>1, <2>2, <2>3, <2>4, <2>5 DEF Next
  <2>. QED BY <2>6 DEF Goal
<1>. QED BY <1>1, Always, PTL DEF Spec, LedgerOnlyGrows
=============================================================================
