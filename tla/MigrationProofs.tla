-------------------------- MODULE MigrationProofs --------------------------
(* Proofs about Migration, for any facts, agents and kinds of migration, any  *)
(* number of joins, crashes and attempts.                                     *)
EXTENDS Migration, FiniteSetTheorems, TLAPS

(* The assumptions on the constants, in one fact.                             *)
LEMMA Constants == /\ Tenant \notin Agents /\ Home \in [Facts -> Scopes]
                   /\ Members \subseteq Agents /\ Jobs \subseteq [same : BOOLEAN, purge : BOOLEAN]
                   /\ MaxJoins \in Nat /\ MaxFaults \in Nat
  BY HomeAssumption, JobAssumption, BoundAssumption DEF Scopes

(* Facts can be counted, whichever of them.                                   *)
LEMMA Countable == \A S : Cardinality(S \cap Facts) \in Nat
<1>1. TAKE S
<1>2. IsFiniteSet(S \cap Facts)
  BY FiniteAssumption, FS_Subset, S \cap Facts \subseteq Facts
<1> QED BY <1>2, FS_CardinalityType

LEMMA OfFacts == \A S, T : Cardinality(S \cap Of(T)) \in Nat
<1>1. TAKE S, T
<1>2. S \cap Of(T) = (S \cap Of(T)) \cap Facts
  BY DEF Of
<1> QED BY <1>2, Countable

LEMMA CountType == \A S : Count(S) \in Tally
  BY OfFacts DEF Count, Tally

LEMMA NothingType == Nothing \in Tally
  BY DEF Nothing, Tally

LEMMA MarkType == NoMark \in Mark /\ (TypeOK => \A S : Watermark(S) \in Mark)
<1>1. NoMark \in Mark
  BY DEF NoMark, Mark
<1>2. ASSUME TypeOK PROVE \A S : Watermark(S) \in Mark
  <2>1. live \subseteq Facts /\ formed \subseteq Facts /\ heard \subseteq Facts
    BY <1>2 DEF TypeOK
  <2> QED BY <2>1 DEF Watermark, Mark
<1> QED BY <1>1, <1>2

LEMMA InitType == Init => TypeOK
<1> SUFFICES ASSUME Init PROVE TypeOK
  OBVIOUS
<1> USE Constants
<1>1. heard \subseteq Facts /\ formed \subseteq heard /\ live \subseteq formed /\ owed \subseteq Facts
  BY DEF Init
<1>2. copies \in [Facts -> 0..2]
  BY DEF Init
<1>3. plan \in Tally /\ moved \in Tally /\ mark \in Mark
  BY NothingType, MarkType DEF Init
<1>4. joins \in 0..MaxJoins /\ faults \in 0..MaxFaults
  BY DEF Init
<1> QED BY <1>1, <1>2, <1>3, <1>4 DEF Init, TypeOK, Stages, Scopes

LEMMA StepType == ASSUME TypeOK, [Next]_vars PROVE TypeOK'
<1> USE Constants
<1>0. CASE UNCHANGED vars
  BY <1>0 DEF TypeOK, vars, sourceVars, destVars, agentVars, readVars, progress, history
<1>1. ASSUME NEW f \in Facts, Hear(f) \/ Form(f) \/ Retract(f) PROVE TypeOK'
  BY <1>1 DEF TypeOK, Hear, Form, Retract, Environment, sourceVars, destVars, agentVars,
              readVars, progress, history
<1>2. ASSUME NEW a \in Agents, Join(a) PROVE TypeOK'
  BY <1>2 DEF TypeOK, Join, Environment, sourceVars, destVars, readVars, progress, history
<1>3. CASE Preview
  <2>1. plan' \in Tally
    BY <1>3, CountType DEF Preview
  <2> QED BY <1>3, <2>1 DEF TypeOK, Preview, Stages, sourceVars, destVars, agentVars, progress, history
<1>4. CASE ReadScopes
  BY <1>4 DEF TypeOK, ReadScopes, Stages, sourceVars, destVars, agentVars, progress, history
<1>5. CASE TakeWatermark
  <2>1. mark' \in Mark /\ queue' \subseteq Scopes
    BY <1>5, MarkType DEF TakeWatermark, Copied, SourceScopes, Scopes, TypeOK
  <2> QED BY <1>5, <2>1 DEF TypeOK, TakeWatermark, Stages, sourceVars, destVars, agentVars, history
<1>6. ASSUME NEW s \in Scopes, CopyEpisodes(s) PROVE TypeOK'
  <2>1. moved' \in Tally
    <3> DEFINE n == Cardinality(heard \cap Of({s}))
    <3>1. n \in Nat
      BY OfFacts
    <3> HIDE DEF n
    <3>2. moved' = IF s = Tenant THEN [moved EXCEPT !.episodes = n]
                                 ELSE [moved EXCEPT !.agentEpisodes = @ + n]
      BY <1>6 DEF CopyEpisodes, n
    <3> QED BY <3>1, <3>2 DEF TypeOK, Tally
  <2>2. evidence' \subseteq Facts
    BY <1>6 DEF CopyEpisodes, TypeOK, Of
  <2>3. stage' \in Stages
    BY <1>6 DEF CopyEpisodes, Stages
  <2> QED BY <1>6, <2>1, <2>2, <2>3 DEF TypeOK, CopyEpisodes, sourceVars, agentVars, readVars, history
<1>7. CASE ReadFacts
  BY <1>7 DEF TypeOK, ReadFacts, Of, Stages, sourceVars, destVars, agentVars, readVars, history
<1>8. ASSUME NEW f \in Facts, CopyRow(f) PROVE TypeOK'
  <2>1. moved' \in Tally
    BY <1>8 DEF CopyRow, TypeOK, Tally
  <2>2. copies' \in [Facts -> 0..2]
    BY <1>8 DEF CopyRow, TypeOK
  <2> QED BY <1>8, <2>1, <2>2 DEF TypeOK, CopyRow, sourceVars, agentVars, readVars, history
<1>9. CASE EndOfScope
  BY <1>9 DEF TypeOK, EndOfScope, AfterRows, Stages, sourceVars, destVars, agentVars, readVars, progress, history
<1>10. CASE Recount
  <2>1. moved' \in Tally
    <3>1. Count(scopes).agentFacts \in Nat /\ Count(scopes).agentEpisodes \in Nat
      BY CountType DEF Tally
    <3> QED BY <1>10, <3>1 DEF Recount, TypeOK, Tally
  <2> QED BY <1>10, <2>1 DEF TypeOK, Recount, Stages, sourceVars, destVars, agentVars, readVars, history
<1>11. CASE RegisterAgents
  BY <1>11 DEF TypeOK, RegisterAgents, Stages, sourceVars, destVars, readVars, progress, history
<1>12. ASSUME NEW end \in {"done", "failed"}, Leave(end)
       PROVE /\ stage' \in Stages /\ plan' \in Tally /\ moved' \in Tally /\ scopes' \subseteq Agents
             /\ mark' \in Mark /\ queue' \subseteq Scopes /\ todo' \subseteq Facts /\ at' \in Scopes
             /\ job' = job
  BY <1>12, NothingType, MarkType DEF Leave, Stages, Scopes
<1>13. CASE VerifyCounts
  <2>1. CASE Leave("failed") \/ Leave("done")
    BY <1>13, <2>1, <1>12 DEF TypeOK, VerifyCounts, sourceVars, destVars, agentVars
  <2>2. CASE stage' = "handover" /\ queue' = Leaving /\ UNCHANGED <<readVars, moved, todo, at, job>>
    BY <1>13, <2>2 DEF TypeOK, VerifyCounts, Leaving, Scopes, Stages, sourceVars, destVars, agentVars, readVars
  <2> QED BY <1>13, <2>1, <2>2 DEF VerifyCounts
<1>14. ASSUME NEW a \in Agents, Deregister(a) PROVE TypeOK'
  BY <1>14 DEF TypeOK, Deregister, sourceVars, destVars, readVars, history
<1>15. CASE BeginPurge
  BY <1>15 DEF TypeOK, BeginPurge, Stages, sourceVars, destVars, agentVars, readVars, progress, history
<1>16. CASE Refuse
  BY <1>16, <1>12 DEF TypeOK, Refuse, sourceVars, destVars, agentVars
<1>17. CASE Purge
  <2>1. live' \subseteq formed' /\ formed' \subseteq heard'
    BY <1>17 DEF Purge, TypeOK
  <2>2. CASE job.same
    BY <1>17, <2>1, <2>2 DEF TypeOK, Purge, Stages, destVars, readVars, progress
  <2>3. CASE ~job.same
    BY <1>17, <2>1, <2>3, <1>12 DEF TypeOK, Purge, destVars
  <2> QED BY <2>2, <2>3
<1>18. CASE PostCheck
  BY <1>18, <1>12 DEF TypeOK, PostCheck, sourceVars, destVars, agentVars
<1>19. CASE Crash
  BY <1>19, <1>12 DEF TypeOK, Crash, sourceVars, destVars, agentVars
<1>20. CASE Rerun
  BY <1>20 DEF TypeOK, Rerun, Stages, sourceVars, destVars, agentVars, readVars, progress
<1> QED BY <1>0, <1>1, <1>2, <1>3, <1>4, <1>5, <1>6, <1>7, <1>8, <1>9, <1>10, <1>11, <1>13, <1>14,
           <1>15, <1>16, <1>17, <1>18, <1>19, <1>20 DEF Next, Others, Migrate

(* The source's, the destination's and the migrator's state keep their types. *)
THEOREM TypeCorrect == Spec => []TypeOK
<1>1. Init => TypeOK
  BY InitType
<1>2. TypeOK /\ [Next]_vars => TypeOK'
  BY StepType
<1> QED BY <1>1, <1>2, PTL DEF Spec

-----------------------------------------------------------------------------
(* The inductive invariant: how far the copy has come against the watermark.  *)

Copying == stage \in {"episodes", "facts", "rows"}
Marked == Copying \/ stage \in {"recount", "agents", "verify", "handover", "purge"}
Left == IF Copying THEN queue ELSE {}
Heard == Copied \ Left
Read == IF stage = "facts" THEN Heard \ {at} ELSE Heard

(* Rows are not removed while a migration runs: what was inactive at the      *)
(* watermark stays inactive.                                                  *)
MarkOK == Marked => /\ mark.heard \subseteq heard
                    /\ mark.live \subseteq mark.rows /\ mark.rows \subseteq formed
                    /\ (mark.rows \ mark.live) \cap live = {}

(* The scopes still to copy and the facts still to write.                     *)
QueueOK ==
    /\ Copying => queue \subseteq Copied
    /\ stage \in {"facts", "rows"} => at \in Copied \ queue /\ Counted
    /\ stage # "rows" => todo = {}
    /\ stage = "rows" => /\ todo \subseteq formed \cap Of({at})
                         /\ todo \cap mark.rows \subseteq mark.live

(* A scope that was read is copied: its episodes, and of its facts those      *)
(* still active since the watermark.                                          *)
CopiedOK == (Marked /\ (Counted \/ stage = "episodes")) =>
    /\ \A f \in mark.heard : Home[f] \in Heard => f \in evidence
    /\ \A f \in mark.live \cap live : Home[f] \in Read => f \in todo \/ copies[f] > 0

(* On the first attempt nothing else is copied, and nothing twice.            *)
FirstOK == ~again =>
    /\ stage \in {"idle", "scopes", "mark"} => \A f \in Facts : copies[f] = 0
    /\ Marked => \A f \in Facts : copies[f] # 0 =>
          /\ copies[f] = 1 /\ f \notin todo
          /\ Home[f] \in Read /\ f \in formed
          /\ f \in mark.rows => f \in mark.live

(* Who is registered with the source.                                         *)
AgentsOK ==
    /\ (Marked \/ stage = "mark") => source \subseteq scopes \cup late
    /\ stage \in {"verify", "handover", "purge"} => source \subseteq dest \cup late
    /\ (stage = "handover" /\ job.same) => source \subseteq queue \cup late
    /\ (stage = "purge" /\ job.same) => source \subseteq late

IInv == TypeOK /\ MarkOK /\ QueueOK /\ CopiedOK /\ FirstOK /\ AgentsOK

Steady == MarkOK /\ QueueOK /\ CopiedOK /\ FirstOK /\ AgentsOK

(* The actions of the other processes.                                        *)
LEMMA OthersStep == ASSUME IInv, Others PROVE Steady'
<1> USE Constants DEF IInv, Environment, sourceVars, destVars, agentVars, readVars, progress, history
<1>1. UNCHANGED <<stage, plan, mark, scopes, queue, todo, at, copies, evidence, job, again, moved, dest>>
  BY DEF Others, Hear, Form, Retract, Join
<1>2. /\ Copying' = Copying /\ Marked' = Marked /\ Counted' = Counted
      /\ Heard' = Heard /\ Read' = Read /\ Copied' = Copied
  BY <1>1 DEF Copying, Marked, Counted, Heard, Read, Left, Copied, SourceScopes
<1>3. /\ formed \subseteq formed' /\ heard \subseteq heard'
      /\ live' \cap formed \subseteq live
  BY DEF Others, Hear, Form, Retract, Join, TypeOK
<1>4. MarkOK'
  BY <1>1, <1>2, <1>3 DEF MarkOK
<1>5. QueueOK'
  BY <1>1, <1>2, <1>3 DEF QueueOK
<1>6. CopiedOK'
  <2>1. (Marked => mark.live \subseteq formed)
    BY DEF MarkOK
  <2> QED BY <1>1, <1>2, <1>3, <2>1 DEF CopiedOK
<1>7. FirstOK'
  BY <1>1, <1>2, <1>3 DEF FirstOK
<1>8. AgentsOK'
  <2>1. CASE UNCHANGED <<source, late>>
    BY <1>1, <1>2, <2>1 DEF AgentsOK
  <2>2. ASSUME NEW a \in Agents, Join(a) PROVE AgentsOK'
    <3>1. source' = source \cup {a}
      BY <2>2 DEF Join
    <3>2. (Marked \/ stage = "mark") => late' = late \cup {a}
      BY <2>2 DEF Join, Marked, Copying
    <3> QED BY <1>1, <1>2, <3>1, <3>2 DEF AgentsOK, Marked
  <2> QED BY <2>1, <2>2 DEF Others, Hear, Form, Retract
<1> QED BY <1>4, <1>5, <1>6, <1>7, <1>8 DEF Steady

(* Outside the copy there is little to keep.                                  *)
LEMMA OutsideStep ==
  ASSUME IInv, TypeOK', stage' \in {"idle", "failed", "done", "post"}, todo' = {},
         again' => again, copies' = copies, stage' = "idle" => (again' \/ \A f \in Facts : copies[f] = 0)
  PROVE Steady'
<1>1. ~Marked' /\ ~Copying' /\ stage' # "mark" /\ stage' # "scopes"
  BY DEF Marked, Copying
<1> QED BY <1>1 DEF Steady, MarkOK, QueueOK, CopiedOK, FirstOK, AgentsOK

(* Preview, the agents and the watermark.                                     *)
LEMMA ReadStep == ASSUME IInv, TypeOK', Preview \/ ReadScopes \/ TakeWatermark PROVE Steady'
<1> USE Constants DEF IInv, sourceVars, destVars, agentVars, progress, history
<1>1. CASE Preview
  BY <1>1 DEF Steady, Preview, MarkOK, QueueOK, CopiedOK, FirstOK, AgentsOK, Marked, Copying
<1>2. CASE ReadScopes
  BY <1>2 DEF Steady, ReadScopes, MarkOK, QueueOK, CopiedOK, FirstOK, AgentsOK, Marked, Copying
<1>3. CASE TakeWatermark
  <2>1. /\ Copying' /\ Marked' /\ stage' = "episodes"
        /\ Copied' = Copied /\ queue' = Copied /\ Heard' = {} /\ Read' = {}
        /\ todo' = todo /\ todo = {} /\ at' = at
    BY <1>3 DEF TakeWatermark, Copying, Marked, Copied, SourceScopes, Heard, Read, Left, QueueOK
  <2>2. MarkOK'
    BY <1>3 DEF TakeWatermark, Watermark, MarkOK, TypeOK, Of
  <2>3. QueueOK'
    BY <2>1 DEF QueueOK
  <2>4. CopiedOK'
    BY <2>1 DEF CopiedOK
  <2>5. FirstOK'
    BY <1>3, <2>1 DEF TakeWatermark, FirstOK
  <2>6. AgentsOK'
    BY <1>3, <2>1 DEF TakeWatermark, AgentsOK
  <2> QED BY <2>2, <2>3, <2>4, <2>5, <2>6 DEF Steady
<1> QED BY <1>1, <1>2, <1>3

(* The copy: what a scope's episodes and rows add to what is read.            *)
LEMMA CopyEpisodesStep == ASSUME IInv, NEW s \in Scopes, CopyEpisodes(s) PROVE Steady'
<1> USE Constants DEF IInv, sourceVars, agentVars, readVars, history
<1>1. /\ stage = "episodes" /\ s \in queue /\ queue' = queue \ {s} /\ at' = s
      /\ UNCHANGED <<heard, formed, live, copies, plan, scopes, mark, todo, job, again, source, late, dest>>
  BY DEF CopyEpisodes
<1>2. /\ Copied' = Copied /\ Counted' = Counted /\ Marked /\ Copying
      /\ Heard = Copied \ queue /\ Read = Heard
  BY <1>1 DEF Copied, SourceScopes, Counted, Marked, Copying, Heard, Read, Left
<1>3. todo = {} /\ queue \subseteq Copied
  BY <1>1, <1>2 DEF QueueOK
<1>4. MarkOK'
  BY <1>1, <1>2 DEF MarkOK
<1>5. CASE Counted
  <2>1. /\ stage' = "facts" /\ Copying' /\ Marked'
        /\ Heard' = Heard \cup {s} /\ Read' = Heard
    BY <1>1, <1>2, <1>3, <1>5 DEF CopyEpisodes, Copying, Marked, Heard, Read, Left
  <2>2. QueueOK'
    BY <1>1, <1>2, <1>3, <1>5, <2>1 DEF QueueOK
  <2>3. CopiedOK'
    <3>1. ASSUME NEW f \in mark.heard, Home[f] \in Heard' PROVE f \in evidence'
      <4>1. CASE Home[f] \in Heard
        BY <1>1, <1>2, <3>1, <4>1 DEF CopiedOK, CopyEpisodes
      <4>2. CASE Home[f] = s
        <5>1. f \in heard /\ f \in Facts
          BY <1>2 DEF MarkOK, TypeOK
        <5> QED BY <4>2, <5>1 DEF CopyEpisodes, Of
      <4> QED BY <2>1, <3>1, <4>1, <4>2
    <3>2. ASSUME NEW f \in mark.live \cap live, Home[f] \in Read' PROVE copies[f] > 0
      BY <1>1, <1>2, <1>3, <2>1, <3>2 DEF CopiedOK
    <3> QED BY <1>1, <3>1, <3>2 DEF CopiedOK
  <2>4. FirstOK'
    BY <1>1, <1>2, <2>1 DEF FirstOK
  <2>5. AgentsOK'
    BY <1>1, <1>2, <2>1 DEF AgentsOK
  <2> QED BY <1>4, <2>2, <2>3, <2>4, <2>5 DEF Steady
<1>6. CASE ~Counted
  <2>1. /\ stage' = "agents" /\ ~Copying' /\ Marked' /\ Heard' = Copied /\ Read' = Copied
    BY <1>1, <1>2, <1>6 DEF CopyEpisodes, Copying, Marked, Heard, Read, Left
  <2>2. QueueOK'
    BY <1>1, <1>3, <2>1 DEF QueueOK
  <2>3. CopiedOK'
    BY <1>2, <1>6, <2>1 DEF CopiedOK
  <2>4. FirstOK'
    BY <1>1, <1>2, <2>1 DEF FirstOK
  <2>5. AgentsOK'
    BY <1>1, <1>2, <2>1 DEF AgentsOK
  <2> QED BY <1>4, <2>2, <2>3, <2>4, <2>5 DEF Steady
<1> QED BY <1>5, <1>6

LEMMA ReadFactsStep == ASSUME IInv, ReadFacts PROVE Steady'
<1> USE Constants DEF IInv, sourceVars, destVars, agentVars, readVars, history
<1>1. /\ stage = "facts" /\ stage' = "rows" /\ todo' = live \cap Of({at})
      /\ UNCHANGED <<heard, formed, live, copies, evidence, plan, scopes, mark, queue, at, job, again,
                     source, late, dest>>
  BY DEF ReadFacts
<1>2. /\ Copied' = Copied /\ Counted' = Counted /\ Marked /\ Copying /\ Marked' /\ Copying'
      /\ Heard' = Heard /\ Heard = Copied \ queue /\ Read = Heard \ {at} /\ Read' = Heard
  BY <1>1 DEF Copied, SourceScopes, Counted, Marked, Copying, Heard, Read, Left
<1>3. at \in Copied \ queue /\ queue \subseteq Copied /\ Counted
  BY <1>1, <1>2 DEF QueueOK
<1>4. MarkOK' /\ AgentsOK'
  BY <1>1, <1>2 DEF MarkOK, AgentsOK
<1>5. QueueOK'
  BY <1>1, <1>2, <1>3 DEF QueueOK, MarkOK, TypeOK
<1>6. CopiedOK'
  <2>1. ASSUME NEW f \in mark.live \cap live, Home[f] = at PROVE f \in todo'
    BY <1>1, <2>1 DEF Of, TypeOK
  <2>2. ASSUME NEW f \in mark.live \cap live, Home[f] \in Heard, Home[f] # at PROVE copies[f] > 0
    BY <1>1, <1>2, <1>3, <2>2 DEF CopiedOK, QueueOK
  <2>3. \A f \in mark.heard : Home[f] \in Heard => f \in evidence
    BY <1>1, <1>2, <1>3 DEF CopiedOK
  <2> QED BY <1>1, <1>2, <2>1, <2>2, <2>3 DEF CopiedOK
<1>7. FirstOK'
  BY <1>1, <1>2 DEF FirstOK, Of
<1> QED BY <1>4, <1>5, <1>6, <1>7 DEF Steady

LEMMA CopyRowStep == ASSUME IInv, NEW f \in Facts, CopyRow(f) PROVE Steady'
<1> USE Constants DEF IInv, sourceVars, agentVars, readVars, history
<1>1. /\ stage = "rows" /\ stage' = stage /\ f \in todo /\ todo' = todo \ {f}
      /\ copies' = [copies EXCEPT ![f] = IF @ = 0 THEN 1 ELSE 2]
      /\ UNCHANGED <<heard, formed, live, evidence, plan, scopes, mark, queue, at, job, again,
                     source, late, dest>>
  BY DEF CopyRow
<1>2. /\ Copied' = Copied /\ Counted' = Counted /\ Marked /\ Copying /\ Marked' /\ Copying'
      /\ Heard' = Heard /\ Read' = Heard /\ Read = Heard /\ Heard = Copied \ queue
  BY <1>1 DEF Copied, SourceScopes, Counted, Marked, Copying, Heard, Read, Left
<1>3. at \in Heard /\ Home[f] = at /\ f \in formed /\ (f \in mark.rows => f \in mark.live)
  BY <1>1, <1>2 DEF QueueOK, Of
<1>4. MarkOK' /\ AgentsOK'
  BY <1>1, <1>2 DEF MarkOK, AgentsOK
<1>5. QueueOK'
  BY <1>1, <1>2 DEF QueueOK
<1>6. /\ copies'[f] > 0 /\ (copies[f] = 0 => copies'[f] = 1)
      /\ \A g \in Facts : g # f => copies'[g] = copies[g]
  BY <1>1 DEF TypeOK
<1>7. CopiedOK'
  <2>1. \A g \in mark.live \cap live : g \in Facts
    BY DEF TypeOK
  <2> QED BY <1>1, <1>2, <1>6, <2>1 DEF CopiedOK
<1>8. FirstOK'
  <2>1. ~again => copies[f] = 0
    BY <1>1, <1>2 DEF FirstOK
  <2> QED BY <1>1, <1>2, <1>3, <1>6, <2>1 DEF FirstOK
<1> QED BY <1>4, <1>5, <1>7, <1>8 DEF Steady

LEMMA EndOfScopeStep == ASSUME IInv, EndOfScope PROVE Steady'
<1> USE Constants DEF IInv, sourceVars, destVars, agentVars, readVars, progress, history
<1>1. /\ stage = "rows" /\ todo = {} /\ stage' = AfterRows
      /\ UNCHANGED <<heard, formed, live, copies, evidence, plan, scopes, mark, queue, todo, at, job, again,
                     source, late, dest>>
  BY DEF EndOfScope
<1>2. stage' \in {"episodes", "recount", "agents"} /\ (stage' = "episodes" \/ queue = {})
  BY <1>1 DEF AfterRows
<1>3. /\ Copied' = Copied /\ Counted' = Counted /\ Marked /\ Copying /\ Marked'
      /\ Heard = Copied \ queue /\ Read = Heard /\ Heard' = Heard /\ Read' = Heard
  BY <1>1, <1>2 DEF Copied, SourceScopes, Counted, Marked, Copying, Heard, Read, Left
<1>4. MarkOK' /\ AgentsOK'
  BY <1>1, <1>2, <1>3 DEF MarkOK, AgentsOK
<1>5. QueueOK'
  BY <1>1, <1>2, <1>3 DEF QueueOK, Copying
<1>6. CopiedOK'
  <2>1. Counted
    BY <1>1 DEF QueueOK
  <2> QED BY <1>1, <1>2, <1>3, <2>1 DEF CopiedOK
<1>7. FirstOK'
  BY <1>1, <1>2, <1>3 DEF FirstOK
<1> QED BY <1>4, <1>5, <1>6, <1>7 DEF Steady

(* After the copy, up to the purge, only the agents' registrations change.    *)
LEMMA AfterCopyStep ==
  ASSUME IInv, stage \in {"recount", "agents", "verify", "handover"},
         stage' \in {"agents", "verify", "handover", "purge"},
         UNCHANGED <<heard, formed, live, copies, evidence, plan, scopes, mark, todo, job, again>>
  PROVE MarkOK' /\ QueueOK' /\ CopiedOK' /\ FirstOK'
<1>1. /\ Marked /\ Marked' /\ ~Copying /\ ~Copying' /\ Counted' = Counted
      /\ Copied' = Copied /\ Heard' = Heard /\ Read' = Read
  BY DEF Marked, Copying, Counted, Copied, SourceScopes, Heard, Read, Left
<1>2. MarkOK'
  BY <1>1 DEF IInv, MarkOK
<1>3. QueueOK'
  BY <1>1 DEF IInv, QueueOK
<1>4. CopiedOK'
  BY <1>1 DEF IInv, CopiedOK
<1>5. FirstOK'
  BY <1>1 DEF IInv, FirstOK
<1> QED BY <1>2, <1>3, <1>4, <1>5

LEMMA HandoverStep ==
  ASSUME IInv, TypeOK',
         Recount \/ RegisterAgents \/ (VerifyCounts /\ stage' = "handover") \/ BeginPurge
           \/ \E a \in Agents : Deregister(a)
  PROVE Steady'
<1> USE DEF sourceVars, destVars, agentVars, readVars, progress, history
<1>1. /\ stage \in {"recount", "agents", "verify", "handover"}
      /\ stage' \in {"agents", "verify", "handover", "purge"}
      /\ UNCHANGED <<heard, formed, live, copies, evidence, plan, scopes, mark, todo, job, again, late>>
  BY DEF Recount, RegisterAgents, VerifyCounts, BeginPurge, Deregister, Leave
<1>2. AgentsOK'
  <2>1. CASE Recount
    BY <2>1 DEF Recount, IInv, AgentsOK, Marked, Copying
  <2>2. CASE RegisterAgents
    BY <2>2 DEF RegisterAgents, IInv, AgentsOK, Marked, Copying
  <2>3. CASE VerifyCounts /\ stage' = "handover"
    BY <2>3 DEF VerifyCounts, Leaving, Leave, IInv, AgentsOK, Marked, Copying
  <2>4. CASE BeginPurge
    BY <2>4 DEF BeginPurge, IInv, AgentsOK, Marked, Copying
  <2>5. ASSUME NEW a \in Agents, Deregister(a) PROVE AgentsOK'
    BY <2>5 DEF Deregister, IInv, AgentsOK, Marked, Copying
  <2> QED BY <2>1, <2>2, <2>3, <2>4, <2>5
<1> QED BY <1>1, <1>2, AfterCopyStep DEF Steady

LEMMA InvStep == IInv /\ [Next]_vars => IInv'
<1> SUFFICES ASSUME IInv, [Next]_vars PROVE IInv'
  OBVIOUS
<1>1. TypeOK'
  BY StepType DEF IInv
<1> SUFFICES Steady'
  BY <1>1 DEF IInv, Steady
<1>2. CASE UNCHANGED vars
  BY <1>2 DEF IInv, Steady, vars, sourceVars, destVars, agentVars, readVars, progress, history,
              MarkOK, QueueOK, CopiedOK, FirstOK, AgentsOK, Marked, Copying, Counted, Copied,
              SourceScopes, Heard, Read, Left
<1>3. CASE Others
  BY <1>3, OthersStep
<1>4. CASE Preview \/ ReadScopes \/ TakeWatermark
  BY <1>1, <1>4, ReadStep
<1>5. CASE \E s \in Scopes : CopyEpisodes(s)
  BY <1>5, CopyEpisodesStep
<1>6. CASE ReadFacts
  BY <1>6, ReadFactsStep
<1>7. CASE \E f \in Facts : CopyRow(f)
  BY <1>7, CopyRowStep
<1>8. CASE EndOfScope
  BY <1>8, EndOfScopeStep
<1>9. ASSUME Leave("failed") \/ Leave("done"), copies' = copies, again' = again PROVE Steady'
  BY <1>1, <1>9, OutsideStep DEF Leave
<1>10. CASE VerifyCounts
  <2>1. CASE Leave("failed") \/ Leave("done")
    BY <1>9, <1>10, <2>1 DEF VerifyCounts, destVars
  <2>2. CASE stage' = "handover"
    BY <1>1, <1>10, <2>2, HandoverStep
  <2> QED BY <1>10, <2>1, <2>2 DEF VerifyCounts
<1>11. CASE Recount \/ RegisterAgents \/ BeginPurge \/ \E a \in Agents : Deregister(a)
  BY <1>1, <1>11, HandoverStep
<1>12. CASE Refuse \/ Crash
  BY <1>9, <1>12 DEF Refuse, Crash, destVars
<1>13. CASE PostCheck
  BY <1>9, <1>13 DEF PostCheck, destVars
<1>14. CASE Purge
  <2>1. CASE job.same
    <3>1. todo = {}
      BY <1>14 DEF IInv, QueueOK, Purge
    <3> QED BY <1>1, <1>14, <2>1, <3>1, OutsideStep DEF Purge, progress, destVars
  <2>2. CASE ~job.same
    BY <1>9, <1>14, <2>2 DEF Purge, destVars
  <2> QED BY <2>1, <2>2
<1>15. CASE Rerun
  BY <1>15 DEF IInv, Rerun, Steady, sourceVars, destVars, agentVars, readVars, progress,
               MarkOK, QueueOK, CopiedOK, FirstOK, AgentsOK, Marked, Copying
<1> QED BY <1>2, <1>3, <1>4, <1>5, <1>6, <1>7, <1>8, <1>10, <1>11, <1>12, <1>13, <1>14, <1>15
        DEF Next, Migrate

LEMMA InvInit == Init => IInv
  BY InitType DEF Init, IInv, MarkOK, QueueOK, CopiedOK, FirstOK, AgentsOK, Marked, Copying

LEMMA Inductive == Spec => []IInv
  BY InvInit, InvStep, PTL DEF Spec

-----------------------------------------------------------------------------
(* What the invariant says when the purge begins.                             *)
LEMMA AtPurge ==
  ASSUME IInv, Purge
  PROVE /\ mark = Watermark(SourceScopes) /\ todo = {} /\ Read = Copied /\ Heard = Copied
        /\ Marked
<1>1. stage = "purge" /\ mark = Watermark(SourceScopes)
  BY DEF Purge, Moved
<1> QED BY <1>1 DEF IInv, QueueOK, Read, Heard, Left, Copying, Marked

(* The migrator loses nothing it copied, other than by the two ways named.    *)
THEOREM LossIsNamed == Spec => NoOtherLoss
<1> DEFINE Kept == \A f \in live \ live' : \/ f \notin owed'
                                           \/ copies[f] > 0
                                           \/ Home[f] \in late
                                           \/ ~Counted
<1>1. ASSUME IInv, [Next]_vars PROVE [Kept]_vars
  <2>1. ASSUME Purge, Counted, NEW f \in live \ live', Home[f] \notin late PROVE copies[f] > 0
    <3>1. f \in Facts /\ Home[f] \in source \cup {Tenant}
      BY <1>1, <2>1 DEF IInv, TypeOK, Purge, Swept, Of
    <3>2. Home[f] \in Copied
      BY <1>1, <2>1, <3>1 DEF IInv, AgentsOK, Purge, Copied, SourceScopes, Marked
    <3>3. f \in mark.live
      BY <1>1, <2>1, <3>1, <3>2, AtPurge DEF Watermark, Of, Copied, SourceScopes
    <3> QED BY <1>1, <2>1, <3>2, <3>3, AtPurge DEF IInv, CopiedOK
  <2>2. CASE Purge
    BY <2>1, <2>2
  <2>3. ASSUME NEW g \in Facts, Hear(g) \/ Form(g) \/ Retract(g) PROVE Kept
    BY <2>3 DEF Hear, Form, Retract
  <2>4. ASSUME NEW a \in Agents, Join(a) PROVE Kept
    BY <2>4 DEF Join, sourceVars
  <2>5. CASE (Migrate /\ ~Purge) \/ Crash
    <3>1. live' = live
      BY <2>5 DEF Migrate, Crash, Preview, ReadScopes, TakeWatermark, ReadFacts, EndOfScope, Recount,
                  RegisterAgents, VerifyCounts, BeginPurge, Refuse, PostCheck, Rerun, CopyEpisodes,
                  CopyRow, Deregister, sourceVars
    <3> QED BY <3>1
  <2> QED BY <1>1, <2>2, <2>3, <2>4, <2>5 DEF Next, Others
<1>2. Spec => [][Kept]_vars
  BY <1>1, Inductive, PTL DEF Spec
<1> QED BY <1>2 DEF NoOtherLoss

(* The first attempt copies what it purges, once.                             *)
THEOREM FirstIsExact == Spec => FirstMoveIsExact
<1> DEFINE Exact == (Purge /\ ~again /\ Counted) =>
               \A f \in Facts : copies[f] = IF f \in live \cap Of(Copied) THEN 1 ELSE 0
<1>1. ASSUME IInv PROVE Exact
  <2> SUFFICES ASSUME Purge, ~again, Counted, NEW f \in Facts
               PROVE copies[f] = IF f \in live \cap Of(Copied) THEN 1 ELSE 0
    OBVIOUS
  <2>1. /\ mark = Watermark(SourceScopes) /\ todo = {} /\ Read = Copied /\ Marked
        /\ stage = "purge" /\ copies[f] \in 0..2 /\ Copied \subseteq SourceScopes
    BY <1>1, AtPurge DEF Purge, IInv, TypeOK, Copied, SourceScopes
  <2>2. ASSUME f \in live \cap Of(Copied) PROVE copies[f] > 0
    BY <1>1, <2>1, <2>2 DEF IInv, CopiedOK, Watermark, Of
  <2>3. ASSUME copies[f] # 0 PROVE copies[f] = 1 /\ f \in live \cap Of(Copied)
    <3>1. /\ copies[f] = 1 /\ Home[f] \in Copied /\ f \in formed
          /\ f \in mark.rows => f \in mark.live
      BY <1>1, <2>1, <2>3 DEF IInv, FirstOK
    <3> QED BY <2>1, <3>1 DEF Watermark, Of
  <2> QED BY <2>1, <2>2, <2>3
<1>2. Spec => [][Exact]_vars
  BY <1>1, Inductive, PTL DEF Spec
<1> QED BY <1>2 DEF FirstMoveIsExact

(* The episodes of what is purged are in the destination.                     *)
THEOREM EvidenceIsMoved == Spec => EvidenceMoves
<1> DEFINE Moves == (Purge /\ Counted) => heard \cap Of(Copied) \subseteq evidence
<1>1. ASSUME IInv PROVE Moves
  <2> SUFFICES ASSUME Purge, Counted, NEW f \in heard \cap Of(Copied) PROVE f \in evidence
    OBVIOUS
  <2>1. f \in mark.heard /\ Home[f] \in Heard
    BY <1>1, AtPurge DEF Watermark, Of, Copied, SourceScopes
  <2> QED BY <1>1, <2>1, AtPurge DEF IInv, CopiedOK
<1>2. Spec => [][Moves]_vars
  BY <1>1, Inductive, PTL DEF Spec
<1> QED BY <1>2 DEF EvidenceMoves

(* Registered agents stay registered with one tenant or the other.            *)
THEOREM AgentsKeepAnOwner == Spec => NoOrphans
<1> DEFINE Kept == source \cup dest \subseteq Owned'
<1>1. ASSUME IInv, [Next]_vars PROVE [Kept]_vars
  <2>1. ASSUME NEW a \in Agents, Deregister(a) PROVE Kept
    BY <1>1, <2>1 DEF IInv, AgentsOK, Deregister, Owned
  <2>2. CASE Purge
    BY <1>1, <2>2 DEF IInv, AgentsOK, Purge, Owned
  <2>3. CASE RegisterAgents
    BY <2>3 DEF RegisterAgents, Owned
  <2>4. ASSUME NEW a \in Agents, Join(a) PROVE Kept
    BY <2>4 DEF Join, Owned
  <2>5. ASSUME NEW f \in Facts, Hear(f) \/ Form(f) \/ Retract(f) PROVE Kept
    BY <2>5 DEF Hear, Form, Retract, agentVars, Owned
  <2>6. CASE Preview \/ ReadScopes \/ TakeWatermark \/ ReadFacts \/ EndOfScope \/ Recount \/ VerifyCounts
             \/ BeginPurge \/ Refuse \/ PostCheck \/ Crash \/ Rerun
             \/ (\E s \in Scopes : CopyEpisodes(s)) \/ \E f \in Facts : CopyRow(f)
    BY <2>6 DEF Preview, ReadScopes, TakeWatermark, ReadFacts, EndOfScope, Recount, VerifyCounts,
                BeginPurge, Refuse, PostCheck, Crash, Rerun, CopyEpisodes, CopyRow, agentVars, Owned
  <2> QED BY <1>1, <2>1, <2>2, <2>3, <2>4, <2>5, <2>6 DEF Next, Others, Migrate
<1>2. Spec => [][Kept]_vars
  BY <1>1, Inductive, PTL DEF Spec
<1> QED BY <1>2 DEF NoOrphans
=============================================================================
