-------------------------- MODULE Persistence_proofs --------------------------
(***************************************************************************)
(* The two layers of persistence.                                          *)
(*                                                                         *)
(* DebouncedJsonStorage, for any number of writes and any retry limit: the *)
(* types, and - provided no cycle sleeps through a whole debounce window   *)
(* between two critical sections - that Idle is never reported while the   *)
(* remote file is behind, and that the remote file never goes back to an   *)
(* older document.                                                         *)
(*                                                                         *)
(* JsonRepository, for any set of requests and any number of crashes: the  *)
(* data file is always a whole document, memory and file agree whenever no *)
(* request is inside the gate, a failed request leaves nothing behind, and *)
(* a saved change that reached the graph in use stays in the file.         *)
(***************************************************************************)
EXTENDS DebouncedJsonStorage, JsonRepository, SequenceTheorems, TLAPS

----------------------------------------------------------------------------
(* The cycles.                                                             *)

\* A cycle just started is a cycle.
LEMMA NewCycleType ==
    ASSUME NEW g \in Nat, NEW p \in Places
    PROVE  NewCycle(g, p) \in Cycle
BY ConstantsAssumption DEF NewCycle, Cycle

\* Replacing the record of one task leaves the other tasks alone.
LEMMA ReplaceCycle ==
    ASSUME NEW s \in Seq(Cycle), NEW c \in DOMAIN s, NEW e \in Cycle
    PROVE  /\ [s EXCEPT ![c] = e] \in Seq(Cycle)
           /\ Len([s EXCEPT ![c] = e]) = Len(s)
           /\ DOMAIN [s EXCEPT ![c] = e] = DOMAIN s
           /\ \A d \in DOMAIN s : [s EXCEPT ![c] = e][d] = IF d = c THEN e ELSE s[d]
<1>1. c \in 1..Len(s) /\ DOMAIN s = 1..Len(s)
  BY LenProperties
<1>2. QED
  BY <1>1, ExceptSeq

\* Starting a task leaves the existing ones alone.
LEMMA AppendCycle ==
    ASSUME NEW s \in Seq(Cycle), NEW e \in Cycle
    PROVE  /\ Append(s, e) \in Seq(Cycle)
           /\ Len(Append(s, e)) = Len(s) + 1
           /\ DOMAIN Append(s, e) = DOMAIN s \union {Len(s) + 1}
           /\ Append(s, e)[Len(s) + 1] = e
           /\ \A d \in DOMAIN s : d # Len(s) + 1 /\ Append(s, e)[d] = s[d]
<1>1. Len(s) \in Nat /\ DOMAIN s = 1..Len(s)
  BY LenProperties
<1>2. QED
  BY <1>1, AppendProperties

\* What any task record may become in one step, field by field.
LEMMA CycleFields ==
    ASSUME NEW s \in Seq(Cycle), NEW c \in DOMAIN s
    PROVE  /\ s[c] \in Cycle
           /\ s[c].gen \in Nat /\ s[c].at \in Places
           /\ s[c].doc \in Nat /\ s[c].retries \in 0..MaxRetries
           /\ \A p \in Places : [s[c] EXCEPT !.at = p] \in Cycle
           /\ \A p \in Places, n \in Nat :
                 [s[c] EXCEPT !.at = p, !.doc = n] \in Cycle
           /\ s[c].retries < MaxRetries =>
                 \A p \in Places :
                    [s[c] EXCEPT !.at = p, !.retries = s[c].retries + 1] \in Cycle
           /\ Done \in Cycle
<1>1. s[c] \in Cycle
  BY LenProperties, ElementOfSeq
<1>2. /\ s[c].gen \in Nat /\ s[c].at \in Places
      /\ s[c].doc \in Nat /\ s[c].retries \in 0..MaxRetries
  BY <1>1 DEF Cycle
<1>3. \A p \in Places : [s[c] EXCEPT !.at = p] \in Cycle
  BY <1>1 DEF Cycle
<1>4. \A p \in Places, n \in Nat : [s[c] EXCEPT !.at = p, !.doc = n] \in Cycle
  BY <1>1 DEF Cycle
<1>5. ASSUME s[c].retries < MaxRetries, NEW p \in Places
      PROVE  [s[c] EXCEPT !.at = p, !.retries = s[c].retries + 1] \in Cycle
  <2>1. s[c].retries + 1 \in 0..MaxRetries
    BY <1>2, <1>5, ConstantsAssumption
  <2>2. QED
    BY <1>1, <2>1 DEF Cycle
<1>6. Done \in Cycle
  BY ConstantsAssumption DEF Cycle, Done, NewCycle, Places
<1>7. QED
  BY <1>1, <1>2, <1>3, <1>4, <1>5, <1>6

\* What a step of cycle c leaves alone: every other task. New tasks are debounces.
Frame(c) ==
    /\ cycles' \in Seq(Cycle)
    /\ Len(cycles') \in Nat /\ Len(cycles) <= Len(cycles')
    /\ DOMAIN cycles \subseteq DOMAIN cycles'
    /\ \A d \in DOMAIN cycles : d # c => cycles'[d] = cycles[d]
    /\ \A d \in DOMAIN cycles' : d \notin DOMAIN cycles => cycles'[d].at = "debounce"

\* The record of task c is replaced.
LEMMA FrameReplace ==
    ASSUME TypeOK, NEW c \in DOMAIN cycles, NEW e \in Cycle,
           cycles' = [cycles EXCEPT ![c] = e]
    PROVE  Frame(c) /\ Len(cycles') = Len(cycles) /\ cycles'[c] = e
<1>1. cycles \in Seq(Cycle)
  BY DEF TypeOK
<1>2. Len(cycles) \in Nat
  BY <1>1, LenProperties
<1>3. QED
  BY <1>1, <1>2, ReplaceCycle DEF Frame

\* Task c moves on with the document it carries.
LEMMA FrameMove ==
    ASSUME TypeOK, NEW c \in DOMAIN cycles, NEW p \in Places, Move(c, p)
    PROVE  /\ Frame(c) /\ Len(cycles') = Len(cycles)
           /\ cycles'[c].at = p /\ cycles'[c].doc = cycles[c].doc
<1> DEFINE e == [cycles[c] EXCEPT !.at = p]
<1>1. cycles[c] \in Cycle /\ e \in Cycle
  BY CycleFields DEF TypeOK
<1>2. cycles' = [cycles EXCEPT ![c] = e]
  BY DEF Move
<1>3. e.at = p /\ e.doc = cycles[c].doc
  BY <1>1 DEF Cycle
<1> HIDE DEF e
<1>4. QED
  BY <1>1, <1>2, <1>3, FrameReplace

\* Task c completes.
LEMMA FrameDone ==
    ASSUME TypeOK, NEW c \in DOMAIN cycles, cycles' = [cycles EXCEPT ![c] = Done]
    PROVE  Frame(c) /\ Len(cycles') = Len(cycles) /\ cycles'[c].at = "done"
<1>1. Done \in Cycle
  BY CycleFields DEF TypeOK
<1>2. Done.at = "done"
  BY DEF Done, NewCycle
<1>3. QED
  BY <1>1, <1>2, FrameReplace

\* Task c takes the pending document and starts to upload it.
LEMMA FrameStart ==
    ASSUME TypeOK, NEW c \in DOMAIN cycles, StartSave(c)
    PROVE  /\ Frame(c) /\ Len(cycles') = Len(cycles)
           /\ cycles'[c].at = "upload" /\ cycles'[c].doc = pending
<1> DEFINE e == [cycles[c] EXCEPT !.at = "upload", !.doc = pending]
<1>1. cycles[c] \in Cycle /\ e \in Cycle
  BY CycleFields DEF TypeOK, Places, Saving
<1>2. cycles' = [cycles EXCEPT ![c] = e]
  BY DEF StartSave
<1>3. e.at = "upload" /\ e.doc = pending
  BY <1>1 DEF Cycle
<1> HIDE DEF e
<1>4. QED
  BY <1>1, <1>2, <1>3, FrameReplace

\* A failed attempt is retried or given up; task c keeps its document either way.
LEMMA FrameFailure ==
    ASSUME TypeOK, NEW c \in DOMAIN cycles, UploadFails(c)
    PROVE  /\ Frame(c) /\ Len(cycles') = Len(cycles)
           /\ cycles'[c].at \in {"backoff", "failed"}
           /\ cycles'[c].doc = cycles[c].doc
<1>1. CASE Move(c, "failed")
  BY <1>1, FrameMove DEF Places, Saving
<1>2. CASE /\ cycles[c].retries < MaxRetries
           /\ cycles' = [cycles EXCEPT ![c].at = "backoff",
                                       ![c].retries = cycles[c].retries + 1]
  <2> DEFINE e == [cycles[c] EXCEPT !.at = "backoff", !.retries = cycles[c].retries + 1]
  <2>1. cycles[c] \in Cycle /\ e \in Cycle
    BY <1>2, CycleFields DEF TypeOK, Places, Saving
  <2>2. cycles' = [cycles EXCEPT ![c] = e]
    BY <1>2
  <2>3. e.at = "backoff" /\ e.doc = cycles[c].doc
    BY <2>1 DEF Cycle
  <2> HIDE DEF e
  <2>4. QED
    BY <2>1, <2>2, <2>3, FrameReplace
<1>3. QED
  BY <1>1, <1>2 DEF UploadFails

\* Task c reports success and, when a write has arrived meanwhile, starts the next.
LEMMA FrameSuccess ==
    ASSUME TypeOK, NEW c \in DOMAIN cycles, HandleSaveSuccess(c)
    PROVE  /\ Frame(c) /\ cycles'[c].at = "done"
           /\ current' \in 0..Len(cycles') /\ generation' \in Nat
<1> DEFINE completed == [cycles EXCEPT ![c] = Done]
<1>0. /\ cycles \in Seq(Cycle) /\ Len(cycles) \in Nat /\ DOMAIN cycles = 1..Len(cycles)
      /\ generation \in Nat /\ current \in 0..Len(cycles)
  BY LenProperties DEF TypeOK
<1>1. /\ completed \in Seq(Cycle) /\ Len(completed) = Len(cycles)
      /\ DOMAIN completed = DOMAIN cycles /\ completed[c] = Done
      /\ \A d \in DOMAIN cycles : d # c => completed[d] = cycles[d]
  BY <1>0, CycleFields, ReplaceCycle
<1>2. Done.at = "done"
  BY DEF Done, NewCycle
<1>3. CASE ~dirty
  <2>1. cycles' = completed /\ generation' = generation /\ current' = current
    BY <1>3 DEF HandleSaveSuccess
  <2>2. QED
    BY <1>0, <1>2, <2>1, FrameDone
<1>4. CASE dirty
  <2> DEFINE e == NewCycle(generation + 1, "debounce")
  <2>1. e \in Cycle /\ e.at = "debounce"
    BY <1>0, NewCycleType DEF Places, NewCycle
  <2>2. /\ cycles' = Append(completed, e)
        /\ generation' = generation + 1
        /\ current' = Len(completed) + 1
    BY <1>4 DEF HandleSaveSuccess, StartDebounce
  <2> HIDE DEF e, completed
  <2>3. /\ cycles' \in Seq(Cycle)
        /\ Len(cycles') = Len(cycles) + 1
        /\ DOMAIN cycles' = DOMAIN cycles \union {Len(cycles) + 1}
        /\ cycles'[Len(cycles) + 1] = e
        /\ \A d \in DOMAIN cycles : cycles'[d] = completed[d]
    BY <1>1, <2>1, <2>2, AppendCycle
  <2>4. QED
    BY <1>0, <1>1, <1>2, <2>1, <2>2, <2>3 DEF Frame
<1>5. QED
  BY <1>3, <1>4

\* A caller starts a task.
LEMMA FrameAppend ==
    ASSUME TypeOK, NEW p \in Places, cycles' = Append(cycles, NewCycle(generation + 1, p))
    PROVE  /\ cycles' \in Seq(Cycle)
           /\ Len(cycles) \in Nat /\ Len(cycles') = Len(cycles) + 1
           /\ DOMAIN cycles' = DOMAIN cycles \union {Len(cycles) + 1}
           /\ \A d \in DOMAIN cycles : cycles'[d] = cycles[d]
           /\ \A d \in DOMAIN cycles' : d \notin DOMAIN cycles => cycles'[d].at = p
<1> DEFINE e == NewCycle(generation + 1, p)
<1>1. e \in Cycle /\ e.at = p /\ cycles \in Seq(Cycle) /\ Len(cycles) \in Nat
  BY NewCycleType, LenProperties DEF TypeOK, NewCycle
<1> HIDE DEF e
<1>2. QED
  BY <1>1, AppendCycle DEF e

----------------------------------------------------------------------------
(* Types.                                                                  *)

\* The types hold at the start and every step keeps them.
LEMMA TypeOKInit == Init => TypeOK
<1>1. <<>> \in Seq(Cycle) /\ Len(<<>>) = 0
  OBVIOUS
<1>2. SUFFICES ASSUME Init PROVE TypeOK
  OBVIOUS
<1>3. cycles \in Seq(Cycle) /\ current \in 0..Len(cycles) /\ awaited \in 0..Len(cycles)
  BY <1>1, <1>2 DEF Init
<1>4. QED
  BY <1>2, <1>3 DEF Init, TypeOK, States

LEMMA TypeOKStep == TypeOK /\ [Next]_vars => TypeOK'
<1> SUFFICES ASSUME TypeOK, [Next]_vars PROVE TypeOK'
  OBVIOUS
<1> USE DEF storageVars, hostVars
<1>0. Len(cycles) \in Nat /\ DOMAIN cycles = 1..Len(cycles)
  BY LenProperties DEF TypeOK
<1>1. CASE WriteAsync
  <2>1. CASE inFlight
    BY <1>1, <2>1 DEF WriteAsync, TypeOK
  <2>2. CASE ~inFlight
    <3>1. cycles' = Append(cycles, NewCycle(generation + 1, "debounce"))
      BY <1>1, <2>2 DEF WriteAsync, StartDebounce
    <3>2. cycles' \in Seq(Cycle) /\ Len(cycles') = Len(cycles) + 1
      BY <3>1, FrameAppend DEF Places
    <3>3. QED
      BY <1>0, <1>1, <2>2, <3>2 DEF WriteAsync, StartDebounce, TypeOK, States
  <2>3. QED
    BY <2>1, <2>2
<1>2. CASE FlushAsync
  <2>1. CASE dirty /\ ~inFlight
    <3>1. cycles' = Append(cycles, NewCycle(generation + 1, "saveNow"))
      BY <1>2, <2>1 DEF FlushAsync
    <3>2. cycles' \in Seq(Cycle) /\ Len(cycles') = Len(cycles) + 1
      BY <3>1, FrameAppend DEF Places
    <3>3. QED
      BY <1>0, <1>2, <2>1, <3>2 DEF FlushAsync, TypeOK
  <2>2. CASE ~(dirty /\ ~inFlight)
    BY <1>2, <2>2 DEF FlushAsync, TypeOK
  <2>3. QED
    BY <2>1, <2>2
<1>3. CASE FlushReturns
  BY <1>3 DEF FlushReturns, TypeOK
<1>4. CASE Exit
  BY <1>4 DEF Exit, TypeOK
<1>5. ASSUME NEW c \in DOMAIN cycles, CycleStep(c) PROVE TypeOK'
  <2>1. CASE Elapse(c)
    <3>1. cycles' \in Seq(Cycle) /\ Len(cycles') = Len(cycles)
      BY <2>1, FrameDone, FrameMove DEF Elapse, Frame, Places
    <3>2. QED
      BY <2>1, <3>1 DEF Elapse, TypeOK
  <2>2. CASE StartSave(c)
    <3>1. cycles' \in Seq(Cycle) /\ Len(cycles') = Len(cycles)
      BY <2>2, FrameStart DEF Frame
    <3>2. QED
      BY <2>2, <3>1 DEF StartSave, TypeOK, States
  <2>3. CASE UploadSucceeds(c)
    <3>1. cycles' \in Seq(Cycle) /\ Len(cycles') = Len(cycles)
      BY <2>3, FrameMove DEF UploadSucceeds, Frame, Places, Saving
    <3>2. cycles[c].doc \in Nat
      BY CycleFields DEF TypeOK
    <3>3. QED
      BY <2>3, <3>1, <3>2 DEF UploadSucceeds, TypeOK
  <2>4. CASE UploadFails(c)
    <3>1. cycles' \in Seq(Cycle) /\ Len(cycles') = Len(cycles)
      BY <2>4, FrameFailure DEF Frame
    <3>2. cycles[c].doc \in Nat
      BY CycleFields DEF TypeOK
    <3>3. QED
      BY <2>4, <3>1, <3>2 DEF UploadFails, TypeOK
  <2>5. CASE Retry(c)
    <3>1. cycles' \in Seq(Cycle) /\ Len(cycles') = Len(cycles)
      BY <2>5, FrameMove DEF Retry, Frame, Places, Saving
    <3>2. QED
      BY <2>5, <3>1 DEF Retry, TypeOK
  <2>6. CASE HandleSaveSuccess(c)
    <3>1. /\ cycles' \in Seq(Cycle) /\ Len(cycles) <= Len(cycles')
          /\ Len(cycles') \in Nat
          /\ current' \in 0..Len(cycles') /\ generation' \in Nat
      BY <2>6, FrameSuccess DEF Frame
    <3>2. state' \in States
      BY <2>6 DEF HandleSaveSuccess, States
    <3>3. awaited' \in 0..Len(cycles')
      BY <1>0, <2>6, <3>1 DEF HandleSaveSuccess, TypeOK
    <3>4. QED
      BY <2>6, <3>1, <3>2, <3>3 DEF HandleSaveSuccess, TypeOK
  <2>7. CASE HandleSaveFailure(c)
    <3>1. cycles' \in Seq(Cycle) /\ Len(cycles') = Len(cycles)
      BY <2>7, FrameDone DEF HandleSaveFailure, Frame
    <3>2. QED
      BY <2>7, <3>1 DEF HandleSaveFailure, TypeOK, States
  <2>8. QED
    BY <1>5, <2>1, <2>2, <2>3, <2>4, <2>5, <2>6, <2>7 DEF CycleStep
<1>6. CASE UNCHANGED vars
  BY <1>6 DEF TypeOK, vars
<1>7. QED
  BY <1>1, <1>2, <1>3, <1>4, <1>5, <1>6 DEF Next, Cycles, Terminated

\* Every field keeps its type, whatever the callers, the uploads and the timers do:
\* in particular no task retries more often than _maxRetries.
THEOREM TypeCorrect == Spec => []TypeOK
BY TypeOKInit, TypeOKStep, PTL DEF Spec

----------------------------------------------------------------------------
(* The status tells the truth.                                             *)

IInv == TypeOK /\ SavesCoherent /\ IdleMeansSaved

\* Where no save is in flight, no task carries an older document.
LEMMA NotInFlight ==
    ASSUME IInv, ~inFlight, NEW c \in DOMAIN cycles, cycles[c].at \in Saving
    PROVE  host # "running" /\ cycles[c].doc = written
BY DEF IInv, SavesCoherent, SaveCoherent

\* The inductive invariant holds at the start.
LEMMA IInvInit == Init => IInv
<1> SUFFICES ASSUME Init PROVE IInv
  OBVIOUS
<1>1. cycles = <<>> /\ DOMAIN cycles = {}
  BY DEF Init
<1>2. SavesCoherent
  BY <1>1 DEF Init, SavesCoherent
<1>3. QED
  BY <1>2, TypeOKInit DEF Init, IInv, IdleMeansSaved

\* WriteAsync keeps it: a save in flight becomes an older one, and dirty records it.
LEMMA IInvWrite == IInv /\ WriteAsync => IInv'
<1> SUFFICES ASSUME IInv, WriteAsync PROVE SavesCoherent' /\ IdleMeansSaved'
  BY TypeOKStep DEF IInv, Next
<1> USE DEF hostVars
<1>0. TypeOK /\ SavesCoherent /\ written \in Nat /\ remote \in Nat
  BY DEF IInv, TypeOK
<1>1. CASE inFlight
  <2>1. /\ cycles' = cycles /\ state' = "Saving" /\ state = "Saving"
        /\ inFlight' /\ dirty' /\ written' = written + 1 /\ remote' = remote
        /\ pending' = written' /\ host = "running" /\ host' = host
    BY <1>0, <1>1 DEF WriteAsync, SavesCoherent
  <2>2. ASSUME NEW c \in DOMAIN cycles, cycles[c].at \in Saving
        PROVE  SaveCoherent(c)'
    <3>1. cycles[c].doc \in Nat
      BY <1>0, CycleFields DEF TypeOK
    <3>2. QED
      BY <1>0, <1>1, <2>1, <2>2, <3>1 DEF SavesCoherent, SaveCoherent
  <2>3. \A c, d \in DOMAIN cycles : ~(c # d /\ Busy(c) /\ Busy(d))
    BY <1>0, <2>1 DEF SavesCoherent
  <2>4. QED
    BY <1>0, <2>1, <2>2, <2>3 DEF SavesCoherent, Busy, IdleMeansSaved
<1>2. CASE ~inFlight
  <2>1. /\ cycles' = Append(cycles, NewCycle(generation + 1, "debounce"))
        /\ state' = "Pending" /\ ~inFlight' /\ written' = written + 1
        /\ remote' = remote /\ pending' = written' /\ host = "running" /\ host' = host
    BY <1>2 DEF WriteAsync, StartDebounce
  <2>2. /\ DOMAIN cycles' = DOMAIN cycles \union {Len(cycles) + 1}
        /\ \A c \in DOMAIN cycles : cycles'[c] = cycles[c]
        /\ \A c \in DOMAIN cycles' : c \notin DOMAIN cycles => cycles'[c].at = "debounce"
    BY <1>0, <2>1, FrameAppend DEF Places
  <2>3. \A c \in DOMAIN cycles : cycles[c].at \notin Saving
    BY <1>2, <2>1, NotInFlight
  <2>4. \A c, d \in DOMAIN cycles : ~(c # d /\ Busy(c) /\ Busy(d))
    BY <1>0, <2>1 DEF SavesCoherent
  <2>5. \A c \in DOMAIN cycles' : cycles'[c].at \notin Saving
    BY <2>2, <2>3 DEF Saving
  <2>6. \A c, d \in DOMAIN cycles' : ~(c # d /\ Busy(c)' /\ Busy(d)')
    BY <2>2, <2>4 DEF Busy, Saving
  <2>7. QED
    BY <1>0, <2>1, <2>5, <2>6 DEF SavesCoherent, IdleMeansSaved
<1>3. QED
  BY <1>1, <1>2

\* FlushAsync keeps it: it starts a save only when none is in flight, and nothing is
\* written any more.
LEMMA IInvFlush == IInv /\ FlushAsync => IInv'
<1> SUFFICES ASSUME IInv, FlushAsync PROVE SavesCoherent' /\ IdleMeansSaved'
  BY TypeOKStep DEF IInv, Next
<1>0. TypeOK /\ SavesCoherent /\ IdleMeansSaved
  BY DEF IInv
<1>1. /\ pending' = pending /\ written' = written /\ remote' = remote /\ dirty' = dirty
      /\ inFlight' = inFlight /\ state' = state /\ host = "running" /\ host' # "running"
  BY DEF FlushAsync
<1>2. CASE dirty /\ ~inFlight
  <2>1. cycles' = Append(cycles, NewCycle(generation + 1, "saveNow"))
    BY <1>2 DEF FlushAsync
  <2>2. /\ DOMAIN cycles' = DOMAIN cycles \union {Len(cycles) + 1}
        /\ \A c \in DOMAIN cycles : cycles'[c] = cycles[c]
        /\ \A c \in DOMAIN cycles' : c \notin DOMAIN cycles => cycles'[c].at = "saveNow"
    BY <1>0, <2>1, FrameAppend DEF Places
  <2>3. \A c \in DOMAIN cycles : cycles[c].at \notin Saving
    BY <1>1, <1>2, NotInFlight
  <2>4. \A c \in DOMAIN cycles' : cycles'[c].at \notin Saving
    BY <2>2, <2>3 DEF Saving
  <2>5. QED
    BY <1>0, <1>1, <2>4 DEF SavesCoherent, IdleMeansSaved
<1>3. CASE ~(dirty /\ ~inFlight)
  <2>1. cycles' = cycles
    BY <1>3 DEF FlushAsync
  <2>2. \A c \in DOMAIN cycles : SaveCoherent(c)' \/ ~SaveCoherent(c)
    BY <1>1, <2>1 DEF SaveCoherent
  <2>3. QED
    BY <1>0, <1>1, <2>1, <2>2 DEF SavesCoherent, Busy, IdleMeansSaved
<1>4. QED
  BY <1>2, <1>3

\* A step of task c keeps SavesCoherent if c's own record and those of the tasks
\* running beside it do.
LEMMA CoherentAfter ==
    ASSUME IInv, NEW c \in DOMAIN cycles, Frame(c),
           written' = written, pending' = pending, host' = host,
           remote' <= written,
           host = "running" /\ inFlight' => state' = "Saving",
           cycles'[c].at \in Saving => SaveCoherent(c)',
           \A d \in DOMAIN cycles : d # c /\ cycles[d].at \in Saving => SaveCoherent(d)',
           Busy(c)' => \A d \in DOMAIN cycles : d # c /\ Busy(d) =>
                          /\ host # "running"
                          /\ cycles'[c].at \in Saving => cycles'[c].doc = written
                          /\ cycles[d].at \in Saving => cycles[d].doc = written
    PROVE  SavesCoherent'
<1>1. \A d \in DOMAIN cycles' : d \in DOMAIN cycles \/ cycles'[d].at = "debounce"
  BY DEF Frame
<1>2. c \in DOMAIN cycles'
  BY DEF Frame
<1>3. ASSUME NEW d \in DOMAIN cycles', cycles'[d].at \in Saving PROVE SaveCoherent(d)'
  BY <1>1, <1>3 DEF Frame, Saving
<1>4. ASSUME NEW d \in DOMAIN cycles', NEW e \in DOMAIN cycles', d # e, Busy(d)', Busy(e)'
      PROVE  /\ host' # "running"
             /\ cycles'[d].at \in Saving => cycles'[d].doc = written'
  <2>1. d \in DOMAIN cycles /\ e \in DOMAIN cycles
    BY <1>1, <1>4 DEF Busy, Saving
  <2>2. CASE d # c /\ e # c
    <3>1. cycles'[d] = cycles[d] /\ cycles'[e] = cycles[e]
      BY <2>1, <2>2 DEF Frame
    <3>2. Busy(d) /\ Busy(e)
      BY <1>4, <3>1 DEF Busy
    <3>3. QED
      BY <1>4, <2>1, <3>1, <3>2 DEF IInv, SavesCoherent
  <2>3. CASE d = c
    <3>1. cycles'[e] = cycles[e]
      BY <1>4, <2>1, <2>3 DEF Frame
    <3>2. Busy(e)
      BY <1>4, <3>1 DEF Busy
    <3>3. QED
      BY <1>4, <2>1, <2>3, <3>2
  <2>4. CASE e = c
    <3>1. cycles'[d] = cycles[d]
      BY <1>4, <2>1, <2>4 DEF Frame
    <3>2. Busy(d)
      BY <1>4, <3>1 DEF Busy
    <3>3. QED
      BY <1>4, <2>1, <2>4, <3>1, <3>2
  <2>5. QED
    BY <2>2, <2>3, <2>4
<1>5. pending' = written' /\ remote' <= written'
  BY DEF IInv, SavesCoherent
<1>6. QED
  BY <1>3, <1>4, <1>5 DEF SavesCoherent

\* A task running beside task c leaves it be, when both hold the newest document.
LEMMA Beside ==
    ASSUME IInv, NEW c \in DOMAIN cycles, Busy(c),
           NEW d \in DOMAIN cycles, d # c, cycles[d].at \in Saving
    PROVE  /\ host # "running" /\ cycles[d].doc = written
           /\ cycles[c].at \in Saving => cycles[c].doc = written
<1>1. Busy(d)
  BY DEF Busy
<1>2. QED
  BY <1>1 DEF IInv, SavesCoherent

\* Once the host is stopping, a task with the newest document stays coherent as long
\* as the remote file holds nothing newer.
LEMMA NewestStaysCoherent ==
    ASSUME IInv, NEW c \in DOMAIN cycles, Frame(c), written' = written, host' = host,
           NEW d \in DOMAIN cycles, d # c, cycles[d].doc = written, host # "running",
           cycles[d].at \in Saving, remote' <= written,
           remote = written => remote' = written
    PROVE  SaveCoherent(d)'
<1>1. cycles'[d] = cycles[d] /\ written \in Nat
  BY DEF Frame, IInv, TypeOK
<1>2. cycles[d].at = "stored" => remote = written
  BY DEF IInv, SavesCoherent, SaveCoherent
<1>3. QED
  BY <1>1, <1>2 DEF SaveCoherent

\* Every step of a cycle keeps the invariant, provided no cycle sleeps through a
\* whole window between its check and its lock.
LEMMA IInvCycle ==
    ASSUME ~GapOutlastsWindow, IInv, NEW c \in DOMAIN cycles, CycleStep(c)
    PROVE  IInv'
<1> SUFFICES SavesCoherent' /\ IdleMeansSaved'
  BY TypeOKStep DEF IInv, Next, Cycles
<1> USE DEF storageVars, hostVars
<1>0. /\ TypeOK /\ SavesCoherent /\ IdleMeansSaved
      /\ written \in Nat /\ remote \in Nat /\ remote <= written /\ pending = written
      /\ cycles[c].doc \in Nat
  BY CycleFields DEF IInv, TypeOK, SavesCoherent
<1>1. CASE Elapse(c)
  <2>1. CASE cycles' = [cycles EXCEPT ![c] = Done]
    <3>1. Frame(c) /\ cycles'[c].at = "done"
      BY <1>0, <2>1, FrameDone
    <3>2. ASSUME NEW d \in DOMAIN cycles, d # c, cycles[d].at \in Saving
          PROVE  SaveCoherent(d)'
      BY <1>0, <1>1, <3>1, <3>2 DEF Elapse, Frame, SavesCoherent, SaveCoherent
    <3>3. ~Busy(c)' /\ cycles'[c].at \notin Saving
      BY <3>1 DEF Busy, Saving
    <3>4. SavesCoherent'
      BY <1>0, <1>1, <3>1, <3>2, <3>3, CoherentAfter DEF Elapse, SavesCoherent
    <3>5. QED
      BY <1>0, <1>1, <3>4 DEF Elapse, IdleMeansSaved
  <2>2. CASE ~inFlight /\ Move(c, "saveNow") /\ \A d \in DOMAIN cycles : cycles[d].at # "saveNow"
    <3>1. Frame(c) /\ cycles'[c].at = "saveNow"
      BY <1>0, <2>2, FrameMove DEF Places
    <3>2. ASSUME NEW d \in DOMAIN cycles, d # c, cycles[d].at \in Saving
          PROVE  SaveCoherent(d)'
      BY <1>0, <1>1, <3>1, <3>2 DEF Elapse, Frame, SavesCoherent, SaveCoherent
    <3>3. cycles'[c].at \notin Saving
      BY <3>1 DEF Saving
    <3>4. ASSUME NEW d \in DOMAIN cycles, d # c, Busy(d)
          PROVE  host # "running" /\ cycles[d].doc = written
      BY <2>2, <3>4, NotInFlight DEF Busy
    <3>5. SavesCoherent'
      BY <1>0, <1>1, <3>1, <3>2, <3>3, <3>4, CoherentAfter DEF Elapse, SavesCoherent
    <3>6. QED
      BY <1>0, <1>1, <3>5 DEF Elapse, IdleMeansSaved
  <2>3. QED
    BY <1>1, <2>1, <2>2 DEF Elapse
<1>2. CASE StartSave(c)
  <2>1. Frame(c) /\ cycles'[c].at = "upload" /\ cycles'[c].doc = written
    BY <1>0, <1>2, FrameStart
  <2>2. /\ written' = written /\ pending' = pending /\ host' = host /\ remote' = remote
        /\ inFlight' /\ state' = "Saving"
    BY <1>2 DEF StartSave
  <2>3. Busy(c)
    BY <1>2 DEF StartSave, Alive, Busy
  <2>4. SaveCoherent(c)'
    BY <1>0, <2>1, <2>2 DEF SaveCoherent
  <2>5. ASSUME NEW d \in DOMAIN cycles, d # c, cycles[d].at \in Saving
        PROVE  SaveCoherent(d)'
    BY <1>0, <2>1, <2>2, <2>3, <2>5, Beside, NewestStaysCoherent
  <2>6. ASSUME NEW d \in DOMAIN cycles, d # c, Busy(d)
        PROVE  host # "running" /\ (cycles[d].at \in Saving => cycles[d].doc = written)
    BY <1>0, <2>3, <2>6 DEF SavesCoherent
  <2>7. SavesCoherent'
    BY <1>0, <2>1, <2>2, <2>4, <2>5, <2>6, CoherentAfter
  <2>8. QED
    BY <2>2, <2>7 DEF IdleMeansSaved
<1>3. ASSUME \/ UploadSucceeds(c) \/ UploadFails(c) \/ Retry(c)
      PROVE  SavesCoherent' /\ IdleMeansSaved'
  <2>1. /\ Frame(c) /\ cycles'[c].at \in Saving /\ cycles'[c].doc = cycles[c].doc
        /\ cycles'[c].at = "stored" => remote' = cycles[c].doc
    <3>1. CASE UploadSucceeds(c)
      BY <1>0, <3>1, FrameMove DEF UploadSucceeds, Places, Saving
    <3>2. CASE UploadFails(c)
      BY <1>0, <3>2, FrameFailure DEF Saving
    <3>3. CASE Retry(c)
      BY <1>0, <3>3, FrameMove DEF Retry, Places, Saving
    <3>4. QED
      BY <1>3, <3>1, <3>2, <3>3
  <2>2. /\ written' = written /\ pending' = pending /\ host' = host /\ dirty' = dirty
        /\ inFlight' = inFlight /\ state' = state
        /\ remote' \in {remote, cycles[c].doc}
    BY <1>3 DEF UploadSucceeds, UploadFails, Retry
  <2>3. Busy(c) /\ cycles[c].at \in Saving
    BY <1>3 DEF UploadSucceeds, UploadFails, Retry, Alive, Busy, Saving
  <2>4. SaveCoherent(c)
    BY <1>0, <2>3 DEF SavesCoherent
  <2>5. SaveCoherent(c)' /\ remote' <= written
    BY <1>0, <2>1, <2>2, <2>4 DEF SaveCoherent
  <2>6. ASSUME NEW d \in DOMAIN cycles, d # c, cycles[d].at \in Saving
        PROVE  SaveCoherent(d)'
    <3>1. host # "running" /\ cycles[d].doc = written /\ cycles[c].doc = written
      BY <2>3, <2>6, Beside
    <3>2. QED
      BY <1>0, <2>1, <2>2, <2>5, <2>6, <3>1, NewestStaysCoherent
  <2>7. ASSUME NEW d \in DOMAIN cycles, d # c, Busy(d)
        PROVE  /\ host # "running" /\ cycles[c].doc = written
               /\ cycles[d].at \in Saving => cycles[d].doc = written
    BY <1>0, <2>3, <2>7 DEF SavesCoherent
  <2>8. SavesCoherent'
    BY <1>0, <2>1, <2>2, <2>5, <2>6, <2>7, CoherentAfter DEF SavesCoherent
  <2>9. IdleMeansSaved'
    BY <1>0, <2>2, <2>4 DEF SaveCoherent, IdleMeansSaved
  <2>10. QED
    BY <2>8, <2>9
<1>4. ASSUME \/ HandleSaveSuccess(c) \/ HandleSaveFailure(c)
      PROVE  SavesCoherent' /\ IdleMeansSaved'
  <2>1. Frame(c) /\ cycles'[c].at = "done"
    BY <1>0, <1>4, FrameSuccess, FrameDone DEF HandleSaveFailure
  <2>2. /\ written' = written /\ pending' = pending /\ host' = host /\ remote' = remote
        /\ ~inFlight'
    BY <1>4 DEF HandleSaveSuccess, HandleSaveFailure
  <2>3. Busy(c) /\ cycles[c].at \in Saving
    BY <1>4 DEF HandleSaveSuccess, HandleSaveFailure, Alive, Busy, Saving
  <2>4. ASSUME NEW d \in DOMAIN cycles, d # c, cycles[d].at \in Saving
        PROVE  SaveCoherent(d)'
    BY <1>0, <2>1, <2>2, <2>3, <2>4, Beside, NewestStaysCoherent
  <2>5. ~Busy(c)' /\ cycles'[c].at \notin Saving
    BY <2>1 DEF Busy, Saving
  <2>6. SavesCoherent'
    BY <1>0, <2>1, <2>2, <2>4, <2>5, CoherentAfter
  <2>7. IdleMeansSaved'
    <3>1. CASE HandleSaveSuccess(c) /\ ~dirty
      BY <1>0, <2>2, <2>3, <3>1
         DEF HandleSaveSuccess, Alive, SavesCoherent, SaveCoherent, IdleMeansSaved
    <3>2. CASE HandleSaveSuccess(c) /\ dirty
      BY <3>2 DEF HandleSaveSuccess, IdleMeansSaved
    <3>3. CASE HandleSaveFailure(c)
      BY <3>3 DEF HandleSaveFailure, IdleMeansSaved
    <3>4. QED
      BY <1>4, <3>1, <3>2, <3>3
  <2>8. QED
    BY <2>6, <2>7
<1>5. QED
  BY <1>1, <1>2, <1>3, <1>4 DEF CycleStep

\* No step breaks the invariant.
LEMMA IInvStep == ~GapOutlastsWindow /\ IInv /\ [Next]_vars => IInv'
<1> SUFFICES ASSUME ~GapOutlastsWindow, IInv, [Next]_vars PROVE IInv'
  OBVIOUS
<1>1. CASE WriteAsync
  BY <1>1, IInvWrite
<1>2. CASE FlushAsync
  BY <1>2, IInvFlush
<1>3. CASE FlushReturns \/ Exit
  <2>1. /\ UNCHANGED <<storageVars, cycles, written, remote>>
        /\ host # "running" /\ host' # "running" /\ TypeOK'
    BY <1>3, TypeOKStep DEF FlushReturns, Exit, IInv, Next
  <2>2. \A c \in DOMAIN cycles : SaveCoherent(c) => SaveCoherent(c)'
    BY <2>1 DEF SaveCoherent, storageVars
  <2>3. QED
    BY <2>1, <2>2 DEF IInv, SavesCoherent, Busy, IdleMeansSaved, storageVars
<1>4. CASE Cycles
  BY <1>4, IInvCycle DEF Cycles
<1>5. CASE UNCHANGED vars
  <2>1. \A c \in DOMAIN cycles : SaveCoherent(c) => SaveCoherent(c)'
    BY <1>5 DEF SaveCoherent, vars, storageVars, hostVars
  <2>2. QED
    BY <1>5, <2>1, TypeOKStep
       DEF IInv, SavesCoherent, Busy, IdleMeansSaved, vars, storageVars, hostVars
<1>6. QED
  BY <1>1, <1>2, <1>3, <1>4, <1>5 DEF Next, Terminated

\* Saves never run side by side with different documents, for any number of writes,
\* flushes at any moment, and uploads that fail, are retried or lose their answer.
THEOREM SavesStayCoherent ==
    ASSUME ~GapOutlastsWindow PROVE Spec => []SavesCoherent
<1>1. IInv => SavesCoherent
  BY DEF IInv
<1>2. QED
  BY <1>1, IInvInit, IInvStep, PTL DEF Spec

\* GetStatus reports Idle only while the remote file holds the newest document.
THEOREM StatusIsTrue ==
    ASSUME ~GapOutlastsWindow PROVE Spec => []IdleMeansSaved
<1>1. IInv => IdleMeansSaved
  BY DEF IInv
<1>2. QED
  BY <1>1, IInvInit, IInvStep, PTL DEF Spec

----------------------------------------------------------------------------
(* The storage implements DurableDocument.                                 *)

\* The storage starts where the abstract document starts.
LEMMA RefinesInit == Init => Document!Init
BY DEF Init, Document!Init

\* Every step is a submission, a store that does not go back, a confirmation or a
\* withdrawal of the status, or changes nothing the abstract document shows.
LEMMA RefinesStep == IInv /\ [Next]_vars => [Document!Next]_Document!vars
<1> SUFFICES ASSUME IInv, [Next]_vars PROVE Document!Next \/ UNCHANGED Document!vars
  BY DEF Document!vars
<1> USE DEF storageVars, hostVars, Document!vars
<1>0. /\ TypeOK /\ SavesCoherent /\ IdleMeansSaved
      /\ written \in Nat /\ remote \in Nat /\ remote <= written
  BY DEF IInv, TypeOK, SavesCoherent
<1>1. CASE WriteAsync
  <2>1. state' # "Idle" /\ written' = written + 1 /\ remote' = remote
    BY <1>0, <1>1 DEF WriteAsync, SavesCoherent
  <2>2. QED
    BY <2>1 DEF Document!Next, Document!Submit
<1>2. CASE FlushAsync \/ FlushReturns \/ Exit \/ UNCHANGED vars
  BY <1>2 DEF FlushAsync, FlushReturns, Exit, vars
<1>3. ASSUME NEW c \in DOMAIN cycles, CycleStep(c)
      PROVE  Document!Next \/ UNCHANGED Document!vars
  <2>0. cycles[c].at \in Saving => SaveCoherent(c)
    BY <1>0 DEF SavesCoherent
  <2>1. CASE Elapse(c) \/ Retry(c)
    BY <2>1 DEF Elapse, Retry
  <2>2. CASE StartSave(c)
    BY <2>2 DEF StartSave, Document!Next, Document!Withdraw
  <2>3. CASE UploadSucceeds(c) \/ UploadFails(c)
    <3>1. cycles[c].doc \in Nat /\ SaveCoherent(c)
      BY <1>0, <2>0, <2>3, CycleFields
         DEF UploadSucceeds, UploadFails, Alive, Saving, TypeOK
    <3>2. written' = written /\ state' = state /\ remote' \in {remote, cycles[c].doc}
      BY <2>3 DEF UploadSucceeds, UploadFails
    <3>3. remote' \in remote..written
      BY <1>0, <3>1, <3>2 DEF SaveCoherent
    <3>4. QED
      BY <3>2, <3>3 DEF Document!Next, Document!Store
  <2>4. CASE HandleSaveSuccess(c)
    <3>1. CASE dirty
      BY <2>4, <3>1 DEF HandleSaveSuccess, Document!Next, Document!Withdraw
    <3>2. CASE ~dirty
      <4>1. remote = written
        BY <2>0, <2>4, <3>2 DEF HandleSaveSuccess, Alive, Saving, SaveCoherent
      <4>2. QED
        BY <2>4, <3>2, <4>1 DEF HandleSaveSuccess, Document!Next, Document!Confirm
    <3>3. QED
      BY <3>1, <3>2
  <2>5. CASE HandleSaveFailure(c)
    BY <2>5 DEF HandleSaveFailure, Document!Next, Document!Withdraw
  <2>6. QED
    BY <1>3, <2>1, <2>2, <2>3, <2>4, <2>5 DEF CycleStep
<1>4. QED
  BY <1>1, <1>2, <1>3 DEF Next, Cycles, Terminated

\* The remote file never goes back to an older document, and the storage reports
\* Idle only once the newest one is there.
THEOREM Implementation ==
    ASSUME ~GapOutlastsWindow PROVE Spec => ImplementsDurableDocument
BY RefinesInit, RefinesStep, IInvInit, IInvStep, PTL
   DEF Spec, ImplementsDurableDocument, Document!Spec

----------------------------------------------------------------------------
(* The inductive invariant of the repository.                              *)

\* The document being written, as long as it is not in the file yet.
Staging == {"staging", "writing", "moving"}

\* What is in memory, on disk and in the request's hand while r is inside.
InsideOk(r) ==
    /\ pc[r] # "moved" => persisted = file
    /\ pc[r] = "applying" => graph = file
    /\ pc[r] \in Staging \union {"moved"} =>
          /\ json = graph
          /\ file \subseteq json /\ json \subseteq file \union {r}
          /\ r \in landed => r \in json
    /\ pc[r] = "moving" => staged = json
    /\ pc[r] = "moved" => file = json

\* The changes whose request has not got as far as the rename are not in the file.
NotYetInFile ==
    \A r \in Requests :
        /\ pc[r] \in {"idle", "waiting", "applying", "failing", "failed"} \union Staging =>
              r \notin file
        /\ pc[r] \in {"idle", "waiting", "applying"} => r \notin landed

RepositoryIInv ==
    /\ RepositoryTypeOK /\ OneInside /\ FileIsWhole
    /\ QuietMeansSynced /\ SavedIsDurable /\ NotYetInFile
    /\ \A r \in Requests : gate = r => InsideOk(r)
    /\ ~up => gate = NoOne

\* A request moves to another place; the others stay.
LEMMA GoOther ==
    ASSUME RepositoryTypeOK, NEW r \in Requests, NEW p \in RequestPlaces, Go(r, p)
    PROVE  /\ pc' \in [Requests -> RequestPlaces]
           /\ pc'[r] = p
           /\ \A q \in Requests : q # r => pc'[q] = pc[q]
BY DEF Go, RepositoryTypeOK

\* The invariant holds at the start.
LEMMA RepositoryIInvInit == RepositoryInit => RepositoryIInv
BY RepositoryAssumption
   DEF RepositoryInit, RepositoryIInv, RepositoryTypeOK, OneInside, FileIsWhole,
       QuietMeansSynced, SavedIsDurable, NotYetInFile, InsideOk, RequestPlaces, Inside,
       Answers, Staging

\* Entering the gate.
LEMMA RepositoryIInvEnter ==
    ASSUME RepositoryIInv, NEW r \in Requests, LookUp(r) \/ Enter(r)
    PROVE  RepositoryIInv'
<1> USE DEF memoryVars, diskVars, processVars
<1>1. RepositoryTypeOK /\ OneInside
  BY DEF RepositoryIInv
<1>2. CASE LookUp(r)
  <2>1. /\ pc' \in [Requests -> RequestPlaces] /\ pc[r] = "idle" /\ pc'[r] = "waiting"
        /\ \A q \in Requests : q # r => pc'[q] = pc[q]
    BY <1>1, <1>2, GoOther DEF LookUp, At, RequestPlaces
  <2>2. RepositoryTypeOK'
    BY <1>1, <1>2, <2>1 DEF LookUp, RepositoryTypeOK
  <2>3. OneInside'
    BY <1>1, <1>2, <2>1 DEF LookUp, OneInside, Inside
  <2>4. QED
    BY <1>2, <2>1, <2>2, <2>3
       DEF LookUp, RepositoryIInv, FileIsWhole, QuietMeansSynced, SavedIsDurable,
           NotYetInFile, InsideOk, OneInside, Inside, Staging
<1>3. CASE Enter(r)
  <2>1. /\ pc' \in [Requests -> RequestPlaces] /\ pc[r] = "waiting" /\ pc'[r] = "applying"
        /\ \A q \in Requests : q # r => pc'[q] = pc[q]
    BY <1>1, <1>3, GoOther DEF Enter, At, RequestPlaces, Inside
  <2>2. gate = NoOne /\ gate' = r /\ up /\ graph = file /\ persisted = file
    BY <1>3 DEF Enter, At, RepositoryIInv, QuietMeansSynced
  <2>3. RepositoryTypeOK'
    BY <1>1, <1>3, <2>1 DEF Enter, RepositoryTypeOK
  <2>4. OneInside'
    BY <1>1, <2>1, <2>2, RepositoryAssumption DEF OneInside, Inside
  <2>5. QED
    BY <1>3, <2>1, <2>2, <2>3, <2>4, RepositoryAssumption
       DEF Enter, RepositoryIInv, FileIsWhole, QuietMeansSynced, SavedIsDurable,
           NotYetInFile, InsideOk, Staging
<1>4. QED
  BY <1>2, <1>3

\* Steps inside the gate that leave it closed.
LEMMA RepositoryIInvInside ==
    ASSUME RepositoryIInv, NEW r \in Requests,
           \/ Apply(r) \/ ApplyThrows(r) \/ BeginStage(r) \/ EndStage(r)
           \/ MoveStaged(r) \/ StorageFails(r)
    PROVE  RepositoryIInv'
<1> USE DEF memoryVars, diskVars, processVars
<1>1. RepositoryTypeOK /\ OneInside /\ FileIsWhole /\ NotYetInFile /\ SavedIsDurable
  BY DEF RepositoryIInv
<1>2. pc[r] \in Inside /\ up
  BY DEF Apply, ApplyThrows, BeginStage, EndStage, MoveStaged, StorageFails, At, Inside
<1>3. gate = r /\ InsideOk(r)
  BY <1>1, <1>2 DEF RepositoryIInv, OneInside
<1>4. gate' = r /\ up' = up
  BY <1>2, <1>3 DEF Apply, ApplyThrows, BeginStage, EndStage, MoveStaged, StorageFails
<1>5. PICK p \in Inside : Go(r, p)
  BY DEF Apply, ApplyThrows, BeginStage, EndStage, MoveStaged, StorageFails, Inside
<1>6. /\ pc' \in [Requests -> RequestPlaces] /\ pc'[r] \in Inside /\ pc'[r] = p
      /\ \A q \in Requests : q # r => pc'[q] = pc[q]
  BY <1>1, <1>5, GoOther DEF RequestPlaces
<1>7. OneInside'
  BY <1>1, <1>2, <1>4, <1>6 DEF OneInside
<1>8. Changed(r) \in {graph, graph \union {r}}
  BY DEF Changed
<1>9. SUFFICES /\ RepositoryTypeOK' /\ FileIsWhole' /\ SavedIsDurable' /\ NotYetInFile'
               /\ InsideOk(r)'
  BY <1>2, <1>4, <1>7, RepositoryAssumption DEF RepositoryIInv, QuietMeansSynced
<1>10. CASE Apply(r)
  <2>1. pc[r] = "applying" /\ pc'[r] = "staging"
    BY <1>1, <1>10, GoOther DEF Apply, At, RequestPlaces, Inside
  <2>2. graph = file /\ persisted = file /\ r \notin landed
    BY <1>1, <1>3, <2>1 DEF InsideOk, NotYetInFile
  <2>3. QED
    BY <1>1, <1>6, <1>8, <1>10, <2>1, <2>2, RepositoryAssumption
       DEF Apply, RepositoryTypeOK, FileIsWhole, SavedIsDurable, NotYetInFile, InsideOk,
           Staging
<1>11. CASE ApplyThrows(r)
  <2>1. pc[r] = "applying" /\ pc'[r] = "failing"
    BY <1>1, <1>11, GoOther DEF ApplyThrows, At, RequestPlaces, Inside
  <2>2. QED
    BY <1>1, <1>3, <1>6, <1>8, <1>11, <2>1, RepositoryAssumption
       DEF ApplyThrows, RepositoryTypeOK, FileIsWhole, SavedIsDurable, NotYetInFile,
           InsideOk, Staging
<1>12. CASE BeginStage(r)
  <2>1. pc[r] = "staging" /\ pc'[r] = "writing"
    BY <1>1, <1>12, GoOther DEF BeginStage, At, RequestPlaces, Inside
  <2>2. QED
    BY <1>1, <1>3, <1>6, <1>12, <2>1
       DEF BeginStage, RepositoryTypeOK, FileIsWhole, SavedIsDurable, NotYetInFile,
           InsideOk, Staging
<1>13. CASE EndStage(r)
  <2>1. pc[r] = "writing" /\ pc'[r] = "moving"
    BY <1>1, <1>13, GoOther DEF EndStage, At, RequestPlaces, Inside
  <2>2. QED
    BY <1>1, <1>3, <1>6, <1>13, <2>1
       DEF EndStage, RepositoryTypeOK, FileIsWhole, SavedIsDurable, NotYetInFile,
           InsideOk, Staging
<1>14. CASE MoveStaged(r)
  <2>1. pc[r] = "moving" /\ pc'[r] = "moved"
    BY <1>1, <1>14, GoOther DEF MoveStaged, At, RequestPlaces, Inside
  <2>2. /\ file' = json /\ json \subseteq Requests /\ file \subseteq json
        /\ json \subseteq file \union {r}
    BY <1>1, <1>3, <1>14, <2>1 DEF MoveStaged, InsideOk, Staging, RepositoryTypeOK
  <2>3. QED
    BY <1>1, <1>3, <1>6, <1>14, <2>1, <2>2, RepositoryAssumption
       DEF MoveStaged, RepositoryTypeOK, FileIsWhole, SavedIsDurable, NotYetInFile,
           InsideOk, Staging
<1>15. CASE StorageFails(r)
  <2>1. pc[r] \in Staging /\ pc'[r] = "failing"
    BY <1>1, <1>15, GoOther DEF StorageFails, RequestPlaces, Inside, Staging
  <2>2. QED
    BY <1>1, <1>3, <1>6, <1>15, <2>1
       DEF StorageFails, RepositoryTypeOK, FileIsWhole, SavedIsDurable, NotYetInFile,
           InsideOk, Staging
<1>16. QED
  BY <1>10, <1>11, <1>12, <1>13, <1>14, <1>15

\* Steps that give the gate back.
LEMMA RepositoryIInvRelease ==
    ASSUME RepositoryIInv, NEW r \in Requests, ApplyNothing(r) \/ Commit(r) \/ Rollback(r)
    PROVE  RepositoryIInv'
<1> USE DEF memoryVars, diskVars, processVars
<1>1. RepositoryTypeOK /\ OneInside /\ FileIsWhole /\ NotYetInFile /\ SavedIsDurable
  BY DEF RepositoryIInv
<1>2. pc[r] \in Inside /\ up
  BY DEF ApplyNothing, Commit, Rollback, At, Inside
<1>3. gate = r /\ InsideOk(r)
  BY <1>1, <1>2 DEF RepositoryIInv, OneInside
<1>4. gate' = NoOne /\ up' = up
  BY DEF ApplyNothing, Commit, Rollback
<1>5. PICK p \in Answers : Go(r, p)
  BY DEF ApplyNothing, Commit, Rollback, Answers
<1>6. /\ pc' \in [Requests -> RequestPlaces] /\ pc'[r] = p
      /\ \A q \in Requests : q # r => pc'[q] = pc[q]
  BY <1>1, <1>5, GoOther DEF RequestPlaces
<1>7. OneInside'
  BY <1>1, <1>2, <1>3, <1>4, <1>6, RepositoryAssumption DEF OneInside, Inside, Answers
<1>8. SUFFICES /\ RepositoryTypeOK' /\ FileIsWhole' /\ SavedIsDurable'
               /\ NotYetInFile' /\ QuietMeansSynced'
  BY <1>4, <1>7, RepositoryAssumption DEF RepositoryIInv
<1>9. CASE ApplyNothing(r)
  <2>1. pc[r] = "applying" /\ pc'[r] = "unchanged"
    BY <1>1, <1>9, GoOther DEF ApplyNothing, At, RequestPlaces, Answers
  <2>2. QED
    BY <1>1, <1>3, <1>6, <1>9, <2>1
       DEF ApplyNothing, RepositoryTypeOK, FileIsWhole, SavedIsDurable, NotYetInFile,
           QuietMeansSynced, InsideOk, Staging
<1>10. CASE Commit(r)
  <2>1. pc[r] = "moved" /\ pc'[r] = "saved"
    BY <1>1, <1>10, GoOther DEF Commit, At, RequestPlaces, Answers
  <2>2. QED
    BY <1>1, <1>3, <1>6, <1>10, <2>1
       DEF Commit, RepositoryTypeOK, FileIsWhole, SavedIsDurable, NotYetInFile,
           QuietMeansSynced, InsideOk, Staging
<1>11. CASE Rollback(r)
  <2>1. pc[r] = "failing" /\ pc'[r] = "failed"
    BY <1>1, <1>11, GoOther DEF Rollback, At, RequestPlaces, Answers
  <2>2. QED
    BY <1>1, <1>3, <1>6, <1>11, <2>1, RepositoryAssumption
       DEF Rollback, RepositoryTypeOK, FileIsWhole, SavedIsDurable, NotYetInFile,
           QuietMeansSynced, InsideOk, Staging
<1>12. QED
  BY <1>9, <1>10, <1>11

\* Dying and starting again: the file is all that is left, and it is whole.
LEMMA RepositoryIInvProcess ==
    ASSUME RepositoryIInv, Crash \/ Restart PROVE RepositoryIInv'
<1> USE DEF memoryVars, diskVars, processVars
<1>1. CASE Crash
  <2>1. /\ pc' \in [Requests -> RequestPlaces]
        /\ \A q \in Requests : pc'[q] = pc[q] \/ pc'[q] = "lost"
        /\ \A q \in Requests : pc'[q] \notin Inside
    BY <1>1 DEF Crash, RepositoryIInv, RepositoryTypeOK, RequestPlaces, Answers, Inside
  <2>2. RepositoryTypeOK'
    <3>1. /\ crashes' \in Nat
          /\ UNCHANGED <<graph, identity, persisted, json, seen, landed, file, staged>>
      BY <1>1 DEF Crash, RepositoryIInv, RepositoryTypeOK
    <3>2. gate' = NoOne /\ up' = FALSE
      BY <1>1 DEF Crash
    <3>3. QED
      BY <2>1, <3>1, <3>2 DEF RepositoryIInv, RepositoryTypeOK
  <2>3. QED
    BY <1>1, <2>1, <2>2, RepositoryAssumption
       DEF Crash, RepositoryIInv, OneInside, FileIsWhole, QuietMeansSynced,
           SavedIsDurable, NotYetInFile, Inside, Answers, Staging
<1>2. CASE Restart
  <2>1. RepositoryTypeOK'
    BY <1>2, RepositoryAssumption
       DEF Restart, RepositoryIInv, RepositoryTypeOK, FileIsWhole
  <2>2. QED
    BY <1>2, <2>1, RepositoryAssumption
       DEF Restart, RepositoryIInv, OneInside, FileIsWhole, QuietMeansSynced,
           SavedIsDurable, NotYetInFile
<1>3. QED
  BY <1>1, <1>2

\* Every step keeps the invariant.
LEMMA RepositoryIInvStep ==
    RepositoryIInv /\ [RepositoryNext]_repositoryVars => RepositoryIInv'
<1> SUFFICES ASSUME RepositoryIInv, [RepositoryNext]_repositoryVars PROVE RepositoryIInv'
  OBVIOUS
<1>1. ASSUME NEW r \in Requests, LookUp(r) \/ Step(r) PROVE RepositoryIInv'
  BY <1>1, RepositoryIInvEnter, RepositoryIInvInside, RepositoryIInvRelease DEF Step
<1>2. CASE Crash \/ Restart
  BY <1>2, RepositoryIInvProcess
<1>3. CASE UNCHANGED repositoryVars
  BY <1>3
     DEF repositoryVars, memoryVars, diskVars, processVars, RepositoryIInv,
         RepositoryTypeOK, OneInside, FileIsWhole, QuietMeansSynced, SavedIsDurable,
         NotYetInFile, InsideOk
<1>4. QED
  BY <1>1, <1>2, <1>3 DEF RepositoryNext, AllAnswered

----------------------------------------------------------------------------
(* The theorems about the repository.                                      *)

\* Every field keeps its type.
THEOREM RepositoryTypeCorrect == RepositorySpec => []RepositoryTypeOK
<1>1. RepositoryIInv => RepositoryTypeOK
  BY DEF RepositoryIInv
<1>2. QED
  BY <1>1, RepositoryIInvInit, RepositoryIInvStep, PTL DEF RepositorySpec

\* The gate lets in one request at a time, through failures and crashes.
THEOREM MutualExclusion == RepositorySpec => []OneInside
<1>1. RepositoryIInv => OneInside
  BY DEF RepositoryIInv
<1>2. QED
  BY <1>1, RepositoryIInvInit, RepositoryIInvStep, PTL DEF RepositorySpec

\* No crash and no failure ever leaves a torn data file.
THEOREM FileStaysWhole == RepositorySpec => []FileIsWhole
<1>1. RepositoryIInv => FileIsWhole
  BY DEF RepositoryIInv
<1>2. QED
  BY <1>1, RepositoryIInvInit, RepositoryIInvStep, PTL DEF RepositorySpec

\* Between saves, the graph, the rollback copy and the file are the same document.
THEOREM MemoryFollowsFile == RepositorySpec => []QuietMeansSynced
<1>1. RepositoryIInv => QuietMeansSynced
  BY DEF RepositoryIInv
<1>2. QED
  BY <1>1, RepositoryIInvInit, RepositoryIInvStep, PTL DEF RepositorySpec

\* A failed save is undone; a successful one that reached the graph in use is kept.
THEOREM AnswersAreTrue == RepositorySpec => []AnswersStayTrue
<1>1. RepositoryIInv => AnswersStayTrue
  BY DEF RepositoryIInv, AnswersStayTrue, FailedLeavesNoTrace, NotYetInFile
<1>2. QED
  BY <1>1, RepositoryIInvInit, RepositoryIInvStep, PTL DEF RepositorySpec
=============================================================================
