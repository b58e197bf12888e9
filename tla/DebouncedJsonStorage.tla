------------------------ MODULE DebouncedJsonStorage ------------------------
(***************************************************************************)
(* The decorator that makes every save of a bounded context asynchronous.  *)
(* WriteAsync only remembers the document and starts a debounce window; a  *)
(* background task (a "cycle") uploads it later, retrying transient        *)
(* failures; FlushAsync, called once by the host's StopAsync, saves at once *)
(* and waits for at most the flush timeout.                                *)
(*                                                                         *)
(* One action is one critical section of the object's lock, one attempt of *)
(* the inner storage's WriteAsync, or one timer. Everything between two of *)
(* them may be interleaved with anything else.                             *)
(*                                                                         *)
(* Documents are numbered by the order of the WriteAsync calls; document 0 *)
(* is the one loaded at start-up, which the remote file already holds.     *)
(***************************************************************************)
EXTENDS Naturals, Sequences

CONSTANTS
    MaxWrites,          \* bound: WriteAsync calls in a behaviour
    MaxRetries,         \* _maxRetries: attempts after the first one
    GapOutlastsWindow   \* TRUE: a cycle may sit between its generation check and
                        \* SaveNowAsync's lock for longer than a debounce window

ASSUME ConstantsAssumption ==
    /\ MaxWrites \in Nat
    /\ MaxRetries \in Nat
    /\ GapOutlastsWindow \in BOOLEAN

VARIABLES
    pending,      \* _pendingJson
    dirty,        \* _isDirty
    inFlight,     \* _isSaveInFlight
    generation,   \* _generation
    cycles,       \* the tasks Task.Run has started, in order
    current,      \* _currentCycleTask, an index of cycles; 0 is Task.CompletedTask
    state,        \* _state
    lastError,    \* _lastError is not null
    written,      \* the newest document handed to WriteAsync
    remote,       \* the document in the remote file
    host,         \* the process: running, flushing (inside FlushAsync), flushed
                  \* (StopAsync returned, other services still stopping), exited
    awaited,      \* cycleToAwait of FlushAsync
    timedOut      \* FlushAsync gave up waiting

storageVars == <<pending, dirty, inFlight, generation, current, state, lastError>>
hostVars == <<host, awaited, timedOut>>
vars == <<storageVars, cycles, written, remote, hostVars>>

----------------------------------------------------------------------------
(* Where a cycle's task stands.                                            *)
(*   debounce  in Task.Delay(_debounceWindow)                              *)
(*   saveNow   about to take SaveNowAsync's lock                           *)
(*   upload    an attempt of _inner.WriteAsync is running                  *)
(*   backoff   waiting for the next attempt                                *)
(*   stored    the attempt succeeded, HandleSaveSuccess not yet run        *)
(*   failed    the attempt's exception is final, HandleSaveFailure not yet *)
(*   done      the task has completed                                      *)

Saving == {"upload", "backoff", "stored", "failed"}
Places == {"debounce", "saveNow", "done"} \union Saving
States == {"Idle", "Pending", "Saving", "Failed"}

Cycle == [gen : Nat, at : Places, doc : Nat, retries : 0..MaxRetries]

NewCycle(g, place) == [gen |-> g, at |-> place, doc |-> 0, retries |-> 0]

\* A completed task keeps nothing of its locals.
Done == NewCycle(0, "done")

Init ==
    /\ pending = 0
    /\ dirty = FALSE
    /\ inFlight = FALSE
    /\ generation = 0
    /\ cycles = <<>>
    /\ current = 0
    /\ state = "Idle"
    /\ lastError = FALSE
    /\ written = 0
    /\ remote = 0
    /\ host = "running"
    /\ awaited = 0
    /\ timedOut = FALSE

----------------------------------------------------------------------------
(* The callers.                                                            *)

\* Mutant: the window is tagged with the generation before the increment.
StartDebounceMutant(sofar) ==
    /\ generation' = generation + 1
    /\ cycles' = Append(sofar, NewCycle(generation, "debounce"))
    /\ current' = Len(sofar) + 1

\* _currentCycleTask = Task.Run(() => RunDebounceThenSaveAsync(++_generation)),
\* with sofar the cycles as the same critical section leaves them.
StartDebounce(sofar) ==
    /\ generation' = generation + 1
    /\ cycles' = Append(sofar, NewCycle(generation + 1, "debounce"))
    /\ current' = Len(sofar) + 1

\* WriteAsync: a save in flight is neither disturbed nor waited for.
WriteAsync ==
    /\ host = "running"
    /\ written < MaxWrites
    /\ written' = written + 1
    /\ pending' = written + 1
    /\ dirty' = TRUE
    /\ IF inFlight
         THEN /\ generation' = generation + 1
              /\ UNCHANGED <<cycles, current, state>>
         ELSE /\ StartDebounce(cycles)
              /\ state' = "Pending"
    /\ UNCHANGED <<inFlight, lastError, remote, hostVars>>

\* StopAsync of the hosted service enters FlushAsync. The web server has stopped
\* before, so no WriteAsync follows.
FlushAsync ==
    /\ host = "running"
    /\ \/ /\ ~dirty /\ ~inFlight
          /\ host' = "flushed"
          /\ UNCHANGED <<generation, cycles, current, awaited>>
       \/ /\ dirty /\ ~inFlight
          /\ host' = "flushing"
          /\ generation' = generation + 1
          /\ cycles' = Append(cycles, NewCycle(generation + 1, "saveNow"))
          /\ current' = Len(cycles) + 1
          /\ awaited' = Len(cycles) + 1
       \/ /\ inFlight
          /\ host' = "flushing"
          /\ awaited' = current
          /\ UNCHANGED <<generation, cycles, current>>
    /\ UNCHANGED <<pending, dirty, inFlight, state, lastError, written, remote, timedOut>>

\* Task.WhenAny: the awaited cycle completed, or Task.Delay(_flushTimeout) did.
FlushReturns ==
    /\ host = "flushing"
    /\ IF cycles[awaited].at = "done"
         THEN timedOut' = FALSE
         ELSE timedOut' = TRUE
    /\ host' = "flushed"
    /\ UNCHANGED <<storageVars, cycles, written, remote, awaited>>

Exit ==
    /\ host = "flushed"
    /\ host' = "exited"
    /\ UNCHANGED <<storageVars, cycles, written, remote, awaited, timedOut>>

----------------------------------------------------------------------------
(* The cycles. They run until the process has exited.                      *)

Alive(c, place) ==
    /\ host # "exited"
    /\ c \in DOMAIN cycles
    /\ cycles[c].at = place

Move(c, place) == cycles' = [cycles EXCEPT ![c].at = place]

\* Mutant: the window looks at its generation only, not at a save in flight.
ElapseMutant(c) ==
    /\ Alive(c, "debounce")
    /\ IF cycles[c].gen # generation
         THEN cycles' = [cycles EXCEPT ![c] = Done]
         ELSE Move(c, "saveNow")
    /\ UNCHANGED <<storageVars, written, remote, hostVars>>

\* The debounce window of cycle c is over: proceed only when no newer write or
\* flush has superseded it and no save is running.
Elapse(c) ==
    /\ Alive(c, "debounce")
    /\ IF cycles[c].gen # generation \/ inFlight
         THEN cycles' = [cycles EXCEPT ![c] = Done]
         ELSE /\ GapOutlastsWindow \/ \A d \in DOMAIN cycles : cycles[d].at # "saveNow"
              /\ Move(c, "saveNow")
    /\ UNCHANGED <<storageVars, written, remote, hostVars>>

\* The locked prologue of SaveNowAsync.
StartSave(c) ==
    /\ Alive(c, "saveNow")
    /\ inFlight' = TRUE
    /\ dirty' = FALSE
    /\ state' = "Saving"
    /\ cycles' = [cycles EXCEPT ![c].at = "upload", ![c].doc = pending]
    /\ UNCHANGED <<pending, generation, current, lastError, written, remote, hostVars>>

UploadSucceeds(c) ==
    /\ Alive(c, "upload")
    /\ remote' = cycles[c].doc
    /\ Move(c, "stored")
    /\ UNCHANGED <<storageVars, written, hostVars>>

\* The attempt throws. An exception does not say that the remote file was left
\* alone: the answer to an upload that took effect may be what was lost.
UploadFails(c) ==
    /\ Alive(c, "upload")
    /\ remote' \in {remote, cycles[c].doc}
    /\ \/ /\ cycles[c].retries < MaxRetries       \* IsRetryable(ex)
          /\ cycles' = [cycles EXCEPT ![c].at = "backoff",
                                      ![c].retries = cycles[c].retries + 1]
       \/ Move(c, "failed")                       \* not retryable, or exhausted
    /\ UNCHANGED <<storageVars, written, hostVars>>

Retry(c) ==
    /\ Alive(c, "backoff")
    /\ Move(c, "upload")
    /\ UNCHANGED <<storageVars, written, remote, hostVars>>

\* Mutant: a write that arrived during the save is not looked for.
HandleSaveSuccessMutant(c) ==
    /\ Alive(c, "stored")
    /\ inFlight' = FALSE
    /\ state' = "Idle"
    /\ cycles' = [cycles EXCEPT ![c] = Done]
    /\ UNCHANGED <<pending, dirty, generation, current, lastError, written, remote, hostVars>>

HandleSaveSuccess(c) ==
    /\ Alive(c, "stored")
    /\ inFlight' = FALSE
    /\ LET completed == [cycles EXCEPT ![c] = Done]
       IN IF dirty
            THEN /\ state' = "Pending"
                 /\ StartDebounce(completed)
            ELSE /\ state' = "Idle"
                 /\ cycles' = completed
                 /\ UNCHANGED <<generation, current>>
    /\ UNCHANGED <<pending, dirty, lastError, written, remote, hostVars>>

HandleSaveFailure(c) ==
    /\ Alive(c, "failed")
    /\ inFlight' = FALSE
    /\ state' = "Failed"
    /\ lastError' = TRUE
    /\ cycles' = [cycles EXCEPT ![c] = Done]
    /\ UNCHANGED <<pending, dirty, generation, current, written, remote, hostVars>>

CycleStep(c) ==
    \/ Elapse(c) \/ StartSave(c)
    \/ UploadSucceeds(c) \/ UploadFails(c) \/ Retry(c)
    \/ HandleSaveSuccess(c) \/ HandleSaveFailure(c)

Cycles == \E c \in DOMAIN cycles : CycleStep(c)

\* The process is gone.
Terminated ==
    /\ host = "exited"
    /\ UNCHANGED vars

Next == WriteAsync \/ FlushAsync \/ FlushReturns \/ Exit \/ Cycles \/ Terminated

\* The thread pool runs the cycles and the timers fire; nobody is obliged to write
\* or to stop the host, but a host that began to stop goes through with it.
Fairness ==
    /\ WF_vars(Cycles)
    /\ WF_vars(FlushReturns)
    /\ WF_vars(Exit)

Spec == Init /\ [][Next]_vars

FairSpec == Spec /\ Fairness

----------------------------------------------------------------------------
(* Properties.                                                             *)

\* Every field, task and flag keeps the shape its declaration gives it.
TypeOK ==
    /\ pending \in Nat /\ written \in Nat /\ remote \in Nat
    /\ dirty \in BOOLEAN /\ inFlight \in BOOLEAN
    /\ lastError \in BOOLEAN /\ timedOut \in BOOLEAN
    /\ generation \in Nat
    /\ cycles \in Seq(Cycle)
    /\ current \in 0..Len(cycles) /\ awaited \in 0..Len(cycles)
    /\ state \in States
    /\ host \in {"running", "flushing", "flushed", "exited"}

\* GetStatus never answers Idle ("all changes saved" in both front ends) while the
\* remote file lacks the newest document.
IdleMeansSaved == state = "Idle" => remote = written

\* What makes the previous property inductive. A save runs alone, except that one
\* which FlushAsync started may overtake one between its check and its lock; then
\* no write can follow, and both carry the newest document. A save that carries an
\* older one knows it: dirty is set and the status still reads Saving.
Busy(c) == cycles[c].at \in Saving \union {"saveNow"}

SaveCoherent(c) ==
    /\ remote <= cycles[c].doc /\ cycles[c].doc <= written
    /\ dirty \/ cycles[c].doc = written
    /\ cycles[c].at = "stored" => remote = cycles[c].doc
    /\ \/ inFlight /\ state = "Saving"
       \/ host # "running" /\ cycles[c].doc = written

SavesCoherent ==
    /\ pending = written /\ remote <= written
    /\ host = "running" /\ inFlight => state = "Saving"
    /\ \A c \in DOMAIN cycles : cycles[c].at \in Saving => SaveCoherent(c)
    /\ \A c, d \in DOMAIN cycles :
          c # d /\ Busy(c) /\ Busy(d) =>
              /\ host # "running"
              /\ cycles[c].at \in Saving => cycles[c].doc = written

\* A newer document reaches the remote file, or the status shows Failed, unless the
\* process exits first.
EveryWriteSettles ==
    remote # written ~> remote = written \/ state = "Failed" \/ host = "exited"

\* The remote file never goes back to an older document, and Idle is reported only
\* once the newest one is there.
Document == INSTANCE DurableDocument
    WITH latest <- written, stored <- remote, synced <- state = "Idle"

ImplementsDurableDocument == Document!Spec
=============================================================================
