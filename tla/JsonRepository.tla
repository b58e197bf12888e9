--------------------------- MODULE JsonRepository ---------------------------
(***************************************************************************)
(* The repository of a bounded context (CashFlowJsonRepository and         *)
(* InvestmentJsonRepository have the same save) over LocalJsonStorage: one *)
(* object graph in memory, one JSON file, concurrent requests. A request   *)
(* looks up what it needs outside the write gate, then changes the graph,  *)
(* serializes all of it and writes the file inside the gate. A failure     *)
(* replaces the whole graph by the one last persisted. The process may die *)
(* between any two steps and start again from the file.                    *)
(*                                                                         *)
(* Each request makes one change, named after it; a document is the set of *)
(* the changes it contains, over the one that was there at first.          *)
(***************************************************************************)
EXTENDS Naturals

CONSTANTS
    Requests,     \* the save requests, each with its own change
    Capturing,    \* those that change an entity they looked up outside the gate;
                  \* the others add to or remove from the repository by id
    Torn,         \* the contents of a file whose writing was cut short
    NoFile,       \* the staged file does not exist
    NoOne,        \* the gate is free
    MaxCrashes    \* bound: crashes in a behaviour

ASSUME RepositoryAssumption ==
    /\ Capturing \subseteq Requests
    /\ \A document \in SUBSET Requests : Torn # document /\ NoFile # document
    /\ Torn # NoFile
    /\ NoOne \notin Requests
    /\ MaxCrashes \in Nat

VARIABLES
    graph,      \* _data: the changes the object graph in memory contains
    identity,   \* which graph object it is; every Deserialize makes a new one
    persisted,  \* _lastPersistedJson
    json,       \* the document the request inside the gate has serialized
    gate,       \* the request inside _writeGate, or NoOne
    pc,         \* where each request stands
    seen,       \* the identity of the graph each request looked its entities up in
    landed,     \* the requests whose change reached the graph that is in use
    file,       \* the data file
    staged,     \* the ".tmp" file beside it
    up,         \* the process is running
    crashes

memoryVars == <<graph, identity, persisted, json, gate>>
diskVars == <<file, staged>>
processVars == <<up, crashes>>
repositoryVars == <<memoryVars, pc, seen, landed, diskVars, processVars>>

----------------------------------------------------------------------------
(* Where a request stands.                                                 *)
(*   idle       not yet made                                               *)
(*   waiting    has looked up and validated, waits for the gate            *)
(*   applying   inside the gate, about to run applyChanges                 *)
(*   staging    File.WriteAllTextAsync of the staged file is to begin      *)
(*   writing    it has truncated the staged file and is filling it         *)
(*   moving     the staged file is whole, File.Move is next                *)
(*   moved      WriteAsync has returned                                    *)
(*   failing    an exception is on its way to the catch block              *)
(* and the answers: saved, unchanged (applyChanges returned false), failed *)
(* (the exception reached the caller), lost (the process died first).      *)

Inside == {"applying", "staging", "writing", "moving", "moved", "failing"}
Answers == {"saved", "unchanged", "failed", "lost"}
RequestPlaces == {"idle", "waiting"} \union Inside \union Answers

RepositoryInit ==
    /\ graph = {} /\ identity = 0 /\ persisted = {} /\ json = {}
    /\ gate = NoOne
    /\ pc = [r \in Requests |-> "idle"]
    /\ seen = [r \in Requests |-> 0]
    /\ landed = {}
    /\ file = {} /\ staged = NoFile
    /\ up = TRUE /\ crashes = 0

At(r, place) == up /\ pc[r] = place

Go(r, place) == pc' = [pc EXCEPT ![r] = place]

----------------------------------------------------------------------------
(* ApplyAndSaveAsync.                                                      *)

\* A service reads the graph, without the gate, and keeps references into it.
LookUp(r) ==
    /\ At(r, "idle")
    /\ seen' = [seen EXCEPT ![r] = identity]
    /\ Go(r, "waiting")
    /\ UNCHANGED <<memoryVars, landed, diskVars, processVars>>

Enter(r) ==
    /\ At(r, "waiting")
    /\ gate = NoOne
    /\ gate' = r
    /\ Go(r, "applying")
    /\ UNCHANGED <<graph, identity, persisted, json, seen, landed, diskVars, processVars>>

\* What applyChanges leaves in the graph: nothing at all when the entity it changes
\* belongs to a graph that has been replaced since.
Changed(r) ==
    IF r \in Capturing /\ seen[r] # identity THEN graph ELSE graph \union {r}

Apply(r) ==
    /\ At(r, "applying")
    /\ graph' = Changed(r)
    /\ json' = graph'
    /\ landed' = IF r \in graph' THEN landed \union {r} ELSE landed
    /\ Go(r, "staging")
    /\ UNCHANGED <<identity, persisted, gate, seen, diskVars, processVars>>

\* applyChanges returns false: it has found nothing to do.
ApplyNothing(r) ==
    /\ At(r, "applying")
    /\ gate' = NoOne
    /\ Go(r, "unchanged")
    /\ UNCHANGED <<graph, identity, persisted, json, seen, landed, diskVars, processVars>>

\* applyChanges throws, before or after it has changed the graph.
ApplyThrows(r) ==
    /\ At(r, "applying")
    /\ graph' \in {graph, Changed(r)}
    /\ Go(r, "failing")
    /\ UNCHANGED <<identity, persisted, json, gate, seen, landed, diskVars, processVars>>

\* Mutant: the rollback copy is not brought up to date.
CommitMutant(r) ==
    /\ At(r, "moved")
    /\ gate' = NoOne
    /\ Go(r, "saved")
    /\ UNCHANGED <<graph, identity, persisted, json, seen, landed, diskVars, processVars>>

Commit(r) ==
    /\ At(r, "moved")
    /\ persisted' = json
    /\ gate' = NoOne
    /\ Go(r, "saved")
    /\ UNCHANGED <<graph, identity, json, seen, landed, diskVars, processVars>>

\* Mutant: the exception is passed on, the graph is left as it is.
RollbackKeepsGraph(r) ==
    /\ At(r, "failing")
    /\ gate' = NoOne
    /\ Go(r, "failed")
    /\ UNCHANGED <<graph, identity, persisted, json, seen, landed, diskVars, processVars>>

\* Mutant: the gate is given back only after a success.
RollbackKeepsGate(r) ==
    /\ At(r, "failing")
    /\ graph' = persisted
    /\ identity' = identity + 1
    /\ Go(r, "failed")
    /\ UNCHANGED <<persisted, json, gate, seen, landed, diskVars, processVars>>

Rollback(r) ==
    /\ At(r, "failing")
    /\ graph' = persisted
    /\ identity' = identity + 1
    /\ gate' = NoOne
    /\ Go(r, "failed")
    /\ UNCHANGED <<persisted, json, seen, landed, diskVars, processVars>>

----------------------------------------------------------------------------
(* LocalJsonStorage.WriteAsync.                                            *)

\* File.WriteAllTextAsync truncates the staged file ...
BeginStage(r) ==
    /\ At(r, "staging")
    /\ staged' = Torn
    /\ Go(r, "writing")
    /\ UNCHANGED <<memoryVars, seen, landed, file, processVars>>

\* ... and fills it.
EndStage(r) ==
    /\ At(r, "writing")
    /\ staged' = json
    /\ Go(r, "moving")
    /\ UNCHANGED <<memoryVars, seen, landed, file, processVars>>

\* File.Move(staged, data file, overwrite): a rename, atomic.
MoveStaged(r) ==
    /\ At(r, "moving")
    /\ file' = staged
    /\ staged' = NoFile
    /\ Go(r, "moved")
    /\ UNCHANGED <<memoryVars, seen, landed, processVars>>

\* Either step throws; the staged file is discarded if that is possible.
StorageFails(r) ==
    /\ up /\ pc[r] \in {"staging", "writing", "moving"}
    /\ staged' \in {NoFile, staged}
    /\ Go(r, "failing")
    /\ UNCHANGED <<memoryVars, seen, landed, file, processVars>>

----------------------------------------------------------------------------
(* The process.                                                            *)

\* A kill or a power loss: the files stay as they are.
Crash ==
    /\ up
    /\ crashes < MaxCrashes
    /\ crashes' = crashes + 1
    /\ up' = FALSE
    /\ gate' = NoOne
    /\ pc' = [r \in Requests |->
                 IF pc[r] \in Inside \union {"waiting"} THEN "lost" ELSE pc[r]]
    /\ UNCHANGED <<graph, identity, persisted, json, seen, landed, diskVars>>

\* The repository factory loads the file; the constructor takes it for persisted.
Restart ==
    /\ ~up
    /\ file # Torn
    /\ up' = TRUE
    /\ graph' = file
    /\ persisted' = file
    /\ identity' = identity + 1
    /\ UNCHANGED <<json, gate, pc, seen, landed, diskVars, crashes>>

Step(r) ==
    \/ Enter(r) \/ Apply(r) \/ ApplyNothing(r) \/ ApplyThrows(r)
    \/ BeginStage(r) \/ EndStage(r) \/ MoveStaged(r) \/ StorageFails(r)
    \/ Commit(r) \/ Rollback(r)

\* Every request has its answer.
AllAnswered ==
    /\ up /\ \A r \in Requests : pc[r] \in Answers
    /\ UNCHANGED repositoryVars

RepositoryNext ==
    \/ \E r \in Requests : LookUp(r) \/ Step(r)
    \/ Crash \/ Restart \/ AllAnswered

\* A request that has begun goes on while the process is up; the user starts the
\* program again after a crash.
RepositoryFairness ==
    /\ \A r \in Requests : WF_repositoryVars(Step(r))
    /\ WF_repositoryVars(Restart)

RepositorySpec == RepositoryInit /\ [][RepositoryNext]_repositoryVars

FairRepositorySpec == RepositorySpec /\ RepositoryFairness

----------------------------------------------------------------------------
(* Properties.                                                             *)

\* Every field holds a document, a request or a place.
RepositoryTypeOK ==
    /\ graph \notin {Torn, NoFile}
    /\ graph \subseteq Requests /\ persisted \subseteq Requests /\ json \subseteq Requests
    /\ identity \in Nat /\ crashes \in Nat
    /\ gate \in Requests \union {NoOne}
    /\ pc \in [Requests -> RequestPlaces]
    /\ seen \in [Requests -> Nat]
    /\ landed \subseteq Requests
    /\ file = Torn \/ file \subseteq Requests
    /\ staged \in {Torn, NoFile} \/ staged \subseteq Requests
    /\ up \in BOOLEAN

\* At most one request is inside the gate, and the gate knows which.
OneInside == \A r \in Requests : pc[r] \in Inside <=> gate = r

\* The data file is always a whole document, so a crash at any moment leaves a file
\* the next start can load.
FileIsWhole == file # Torn

\* Whenever no request is inside the gate, memory, the rollback copy and the file
\* hold the same document: nothing half done is left by any outcome of any request.
QuietMeansSynced ==
    up /\ gate = NoOne => graph = file /\ persisted = file

\* A change its caller was told has failed is in no later document.
FailedLeavesNoTrace ==
    \A r \in Requests : pc[r] = "failed" => r \notin file

\* A change its caller was told is saved is in the file for good, through later
\* failures and crashes, provided it reached the graph in use.
SavedIsDurable ==
    \A r \in Requests : pc[r] = "saved" /\ r \in landed => r \in file

\* Every answer a caller got stays true, whatever fails or crashes after it.
AnswersStayTrue == FailedLeavesNoTrace /\ SavedIsDurable

\* The gate is always given back: a request that has begun gets an answer.
EveryRequestAnswered ==
    \A r \in Requests : pc[r] = "waiting" ~> pc[r] \in Answers

=============================================================================
