---------------------------- MODULE DreamClients ----------------------------
(* The client operations that touch the episode queue while dream runs work   *)
(* on it: add_memory and correct_memory, which store an evidence episode,     *)
(* write its memory themselves and only then mark it processed, and           *)
(* crypto_shred, which retires a scope's pending episodes and destroys the    *)
(* key that opens them.                                                       *)
EXTENDS DreamQueue

CONSTANTS Direct,     \* episodes of add_memory / correct_memory
          Sealed,     \* episodes of the scope under crypto-shred governance
          NoEpisode   \* the client is between two operations

ASSUME ClientAssumption ==
    Direct \subseteq Episodes /\ Sealed \subseteq Episodes /\ NoEpisode \notin Episodes

VARIABLES writing,    \* the direct write in progress: [episode, stage]
          erasure     \* the scope's key: "alive", then "retired", then "shredded"

clientVars == <<writing, erasure>>

Ready == [episode |-> NoEpisode, stage |-> "stored"]

ClientInit == Init /\ writing = Ready /\ erasure = "alive"

\* Sealing an episode of a shredded scope fails before anything is stored.
Storable(e) == e \in Sealed => erasure # "shredded"

Ingest(e) ==
    /\ e \notin Direct /\ Storable(e)
    /\ AddEpisode(e) /\ UNCHANGED clientVars

StoreDirect(e) ==
    /\ e \in Direct /\ Storable(e) /\ writing = Ready
    /\ AddEpisode(e)
    /\ writing' = [episode |-> e, stage |-> "stored"]
    /\ UNCHANGED erasure

MaterializeDirect ==
    /\ writing.episode # NoEpisode /\ writing.stage = "stored"
    /\ writing' = [writing EXCEPT !.stage = "written"]
    /\ UNCHANGED <<vars, erasure>>

\* The legacy marker, which counts for every consumer.
MarkDirect ==
    /\ writing.episode # NoEpisode /\ writing.stage = "written"
    /\ processed' = processed \cup ({writing.episode} \X Consumers)
    /\ writing' = Ready
    /\ UNCHANGED <<queued, claims, lastRun, formed, runs, faults, erasure>>

\* A failed materialization or a dead client: the episode stays queued.
DirectFails ==
    /\ writing # Ready /\ Fault
    /\ writing' = Ready
    /\ UNCHANGED <<store, runs, erasure>>

\* crypto_shred marks the episodes that NO consumer has processed yet ...
RetirePending ==
    /\ erasure = "alive"
    /\ erasure' = "retired"
    /\ processed' = processed \cup
          {k \in (queued \cap Sealed) \X Consumers :
              \A c \in Consumers : <<k[1], c>> \notin processed}
    /\ UNCHANGED <<queued, claims, lastRun, formed, runs, faults, writing>>

\* ... and destroys the key at the very end.
ShredKey ==
    /\ erasure = "retired"
    /\ erasure' = "shredded"
    /\ UNCHANGED <<vars, writing>>

\* The run is about to open the body of an episode whose key is gone.
OpensErased(w) ==
    /\ erasure = "shredded" /\ pc[w] = "select"
    /\ \E e \in Sealed \ Denied : Earliest(e, batch[w])

DreamStep(w) == ~OpensErased(w) /\ Step(w) /\ UNCHANGED clientVars

\* (mutant) The error is swallowed and the episode is tried again.
RetriesErased(w) == OpensErased(w) /\ UNCHANGED <<vars, clientVars>>

\* ContentKeyUnavailableError: the run aborts, and its cycle with it.
ContentKeyUnavailable(w) ==
    OpensErased(w) /\ Raise(w) /\ UNCHANGED <<faults, clientVars>>

ClientNext ==
    \/ \E e \in Episodes : Ingest(e) \/ StoreDirect(e)
    \/ MaterializeDirect \/ MarkDirect \/ DirectFails
    \/ RetirePending \/ ShredKey
    \/ \E w \in Workers : DreamStep(w) \/ ContentKeyUnavailable(w)
    \/ \E w \in Workers : Failure(w) /\ UNCHANGED clientVars
    \/ Tick /\ UNCHANGED clientVars

ClientSpec == ClientInit /\ [][ClientNext]_<<vars, clientVars>>

\* As in DreamQueue: callers keep going and time passes.
FairClientSpec ==
    /\ ClientSpec
    /\ WF_<<vars, clientVars>>(Tick /\ UNCHANGED clientVars)
    /\ \A w \in Workers :
          WF_<<vars, clientVars>>(DreamStep(w) \/ ContentKeyUnavailable(w))

-----------------------------------------------------------------------------
(* Properties. *)

\* A run never starts on an item that is already marked, however the marker
\* came: by another run, by a direct write or by an erasure that overtook the
\* run between reading the queue and claiming.
TakenItemsAreOpen ==
    [][\A w \in Workers, k \in Items :
          Holds(w, k)' /\ ~Holds(w, k) => k \notin processed]_<<vars, clientVars>>

\* "Pending (unprocessed) episodes in the scope are retired ... marking them
\* processed removes them from every queue" (crypto_shred).
RetireEmptiesEveryQueue ==
    [][erasure = "alive" /\ erasure' = "retired" =>
          (queued \cap Sealed) \X Consumers \subseteq processed']_<<vars, clientVars>>

\* A shredded scope's episode that is still pending for some consumer.
Stranded ==
    erasure = "shredded" /\ ~((queued \cap Sealed) \X Consumers \subseteq processed)

\* A run caught by the erasure between claim and extraction aborts its whole
\* cycle; as long as no erased episode stays pending, every other queued episode
\* still gets processed.
ErasureSparesTheRest ==
    []~Stranded =>
        \A j \in Jobs, e \in Episodes \ (Denied \cup Sealed \cup Direct) :
            Kind[j] = "formation" =>
                (e \in queued ~> <<e, Consumer[j]>> \in processed)
=============================================================================
