---------------------------- MODULE InputFiredApp ----------------------------
(***************************************************************************)
(* An InputFiredAppDROP (dlg/drop.py) and the threads that drive it.       *)
(*                                                                         *)
(*  - Every input drop fires dropCompleted on its own thread.              *)
(*    InputFiredAppDROP.dropCompleted appends the input to one of three    *)
(*    lists without a lock. It then reads the three lengths, and the       *)
(*    thread that sees n_effective_inputs of them decides: it errors the   *)
(*    app when the error rate exceeds input_error_threshold, it skips the  *)
(*    app when every effective input was skipped, and otherwise it starts  *)
(*    execute() on a new thread (async_execute).                           *)
(*  - execute() runs run() up to n_tries times. It checks for a            *)
(*    cancellation only once run() has returned or raised. It then sets   *)
(*    the status and calls _notifyAppIsFinished, which fires               *)
(*    producerFinished at the outputs and calls completedrop().            *)
(*  - A session thread may call AppDROP.cancel() at any time.              *)
(*                                                                         *)
(* The three lengths are read in one step. A thread that sees the full     *)
(* count must have read every length after the last append, so a step      *)
(* that reads them one at a time reaches the same decisions.               *)
(***************************************************************************)
EXTENDS Integers, Sequences, FiniteSets, SequencesExt

CONSTANTS
  Inputs,          \* the input drops; each delivers on its own thread
  Executors,       \* threads async_execute() may start
  Cancellers,      \* session threads that may call cancel()
  NEffChoices,     \* values of n_effective_inputs (-1 means all inputs)
  Thresholds,      \* values of input_error_threshold, within 0..100
  NTries,          \* n_tries
  InputOutcomes,   \* the states an input may complete with
  RunMayFail,      \* whether run() may raise
  Concurrent       \* whether two inputs may deliver at the same time

ASSUME NEffChoices \subseteq ({-1} \cup 1..Cardinality(Inputs))
ASSUME Thresholds \subseteq 0..100
ASSUME NTries \in Nat \ {0}

\* DROPStates
INITIALIZED == "INITIALIZED"
WRITING     == "WRITING"
COMPLETED   == "COMPLETED"
ERROR       == "ERROR"
CANCELLED   == "CANCELLED"
SKIPPED     == "SKIPPED"
Status      == {INITIALIZED, WRITING, COMPLETED, ERROR, CANCELLED, SKIPPED}
Writable    == {INITIALIZED, WRITING}

\* AppDROPStates
NOT_RUN  == "NOT_RUN"
RUNNING  == "RUNNING"
FINISHED == "FINISHED"
ExecStatus == {NOT_RUN, RUNNING, FINISHED, ERROR, CANCELLED, SKIPPED}

NONE == "None"

ASSUME InputOutcomes \subseteq {COMPLETED, ERROR, SKIPPED}

Threads == Inputs \cup Executors \cup Cancellers
NInputs == Cardinality(Inputs)

VARIABLES
  status,           \* _status
  execStatus,       \* _execStatus
  nEffective,       \* n_effective_inputs
  threshold,        \* input_error_threshold
  errorInputs,      \* _errorInputs
  completedInputs,  \* _completedInputs
  skippedInputs,    \* _skippedInputs
  tries,            \* per executor thread: the local 'tries' of execute()
  committed,        \* _committed
  merkleStatus,     \* the status commit() recorded
  notified,         \* producerFinished events fired at the outputs
  outputsSkipped,   \* skip() was called on the outputs
  arrivals,         \* history: input states in the order they were tallied
  executions,       \* history: how many times execute() was started
  succeeded,        \* history: per executor, an attempt of run() returned
  outStatus,        \* the output data drop's _status
  downstream,       \* dropCompleted events the output fired at its consumers
  pc, ret

vars == <<status, execStatus, nEffective, threshold, errorInputs,
          completedInputs, skippedInputs, tries, committed, merkleStatus,
          notified, outputsSkipped, arrivals, executions, succeeded,
          outStatus, downstream, pc, ret>>

outVars == <<outStatus, downstream>>

Goto(t, l)    == pc' = [pc EXCEPT ![t] = l]
Call(t, l, r) == /\ pc' = [pc EXCEPT ![t] = l]
                 /\ ret' = [ret EXCEPT ![t] = r]
Return(t)     == pc' = [pc EXCEPT ![t] = ret[t]]

\* n_eff_inputs of dropCompleted: -1 stands for all inputs.
\* BarrierAppDROP.initialize(): n_effective_inputs is forced to -1, which
\* NEff reads as "every input".
BARRIER == -1

NEff(n) == IF n = -1 THEN NInputs ELSE n

\* percent_failed, with the exact floor of the rate.
PercentFailed(e, n) == (e * 100) \div n

Init ==
  /\ status = INITIALIZED
  /\ execStatus = NOT_RUN
  /\ nEffective \in NEffChoices
  /\ threshold \in Thresholds
  /\ errorInputs = <<>>
  /\ completedInputs = <<>>
  /\ skippedInputs = <<>>
  /\ tries = [e \in Executors |-> 0]
  /\ committed = FALSE
  /\ merkleStatus = NONE
  /\ notified = <<>>
  /\ outputsSkipped = FALSE
  /\ arrivals = <<>>
  /\ executions = 0
  /\ succeeded = [e \in Executors |-> FALSE]
  /\ outStatus = INITIALIZED
  /\ downstream = <<>>
  /\ pc = [t \in Threads |-> IF t \in Executors THEN "unborn" ELSE "idle"]
  /\ ret = [t \in Threads |-> "done"]

-----------------------------------------------------------------------------
(***************************************************************************)
(* dropCompleted: the tally, then the decision.                            *)
(***************************************************************************)
Busy(t) == pc[t] \notin {"idle", "done", "unborn"}

\* An input whose drop completed with state s is appended to its list.
DcAppend(i) ==
  /\ pc[i] = "idle"
  /\ Concurrent \/ \A j \in Inputs \ {i} : ~Busy(j)
  /\ \E s \in InputOutcomes :
       /\ errorInputs' = IF s = ERROR THEN Append(errorInputs, i)
                                      ELSE errorInputs
       /\ completedInputs' = IF s = COMPLETED THEN Append(completedInputs, i)
                                              ELSE completedInputs
       /\ skippedInputs' = IF s = SKIPPED THEN Append(skippedInputs, i)
                                          ELSE skippedInputs
       /\ arrivals' = Append(arrivals, s)
  /\ Goto(i, "dc_count")
  /\ UNCHANGED <<status, execStatus, nEffective, threshold, tries, committed,
                 merkleStatus, notified, outputsSkipped, executions, succeeded, ret>>
  /\ UNCHANGED outVars

Tally == Len(errorInputs) + Len(completedInputs) + Len(skippedInputs)

\* The body of dropCompleted after the tally: 'ready' is the test that enough
\* inputs have arrived and 'over' the test of the error threshold.
DecideOn(i, ready, over) ==
  /\ pc[i] = "dc_count"
  /\ \/ /\ ~ready
        /\ Goto(i, "done")
        /\ UNCHANGED <<status, execStatus, executions, succeeded, ret>>
     \/ /\ ready /\ over
        /\ execStatus' = ERROR
        /\ status' = ERROR
        /\ Call(i, "nf", "done")
        /\ UNCHANGED executions
     \/ /\ ready /\ ~over
        /\ Len(skippedInputs) = NEff(nEffective)
        /\ Call(i, "sk_check", "done")
        /\ UNCHANGED <<status, execStatus, executions>>
     \/ /\ ready /\ ~over
        /\ Len(skippedInputs) # NEff(nEffective)
        /\ \E e \in Executors :
             /\ pc[e] = "unborn"
             /\ pc' = [pc EXCEPT ![i] = "done", ![e] = "ex_start"]
        /\ executions' = executions + 1
        /\ UNCHANGED <<status, execStatus, ret>>
  /\ UNCHANGED <<nEffective, threshold, errorInputs, completedInputs,
                 skippedInputs, tries, committed, merkleStatus, notified,
                 outputsSkipped, arrivals, succeeded>>
  /\ UNCHANGED outVars

\* Mutant: proceeds once at least n_eff inputs are in, so that every late
\* input decides again.
DcCountAtLeast(i) ==
  DecideOn(i, Tally >= NEff(nEffective),
           PercentFailed(Len(errorInputs), NEff(nEffective)) > threshold)

\* Mutant: errors the app when the rate equals the threshold.
DcCountThresholdGe(i) ==
  DecideOn(i, Tally = NEff(nEffective),
           PercentFailed(Len(errorInputs), NEff(nEffective)) >= threshold)

\* Mutant: compares the tally with the raw parameter, forgetting that -1
\* means all inputs.
DcCountRawNEff(i) ==
  DecideOn(i, Tally = nEffective,
           PercentFailed(Len(errorInputs), NEff(nEffective)) > threshold)

DcCount(i) ==
  DecideOn(i, Tally = NEff(nEffective),
           PercentFailed(Len(errorInputs), NEff(nEffective)) > threshold)

-----------------------------------------------------------------------------
(***************************************************************************)
(* execute() on an executor thread.                                        *)
(***************************************************************************)
\* tries = 0; drop_state = COMPLETED; execStatus = RUNNING
ExStart(e) ==
  /\ pc[e] = "ex_start"
  /\ execStatus' = RUNNING
  /\ tries' = [tries EXCEPT ![e] = 0]
  /\ Goto(e, "ex_run")
  /\ UNCHANGED <<status, nEffective, threshold, errorInputs, completedInputs,
                 skippedInputs, committed, merkleStatus, notified,
                 outputsSkipped, arrivals, executions, succeeded, ret>>
  /\ UNCHANGED outVars

\* One attempt of run(), with the cancellation check that follows it on
\* either path; after a failed attempt the loop goes on while tries < bound.
Attempt(e, bound) ==
  /\ pc[e] = "ex_run"
  /\ \/ /\ Goto(e, IF execStatus = CANCELLED THEN "done" ELSE "ex_fin")
        /\ succeeded' = [succeeded EXCEPT ![e] = TRUE]
        /\ UNCHANGED tries
     \/ /\ RunMayFail
        /\ IF execStatus = CANCELLED
             THEN Goto(e, "done") /\ UNCHANGED tries
             ELSE /\ tries' = [tries EXCEPT ![e] = @ + 1]
                  /\ Goto(e, IF tries[e] + 1 < bound THEN "ex_run" ELSE "ex_end")
        /\ UNCHANGED succeeded
  /\ UNCHANGED <<status, execStatus, nEffective, threshold, errorInputs,
                 completedInputs, skippedInputs, committed, merkleStatus,
                 notified, outputsSkipped, arrivals, executions, ret>>
  /\ UNCHANGED outVars

\* Mutant: the loop runs while tries <= n_tries, one attempt too many.
ExRunOffByOne(e) == Attempt(e, NTries + 1)

ExRun(e) == Attempt(e, NTries)

\* execStatus = FINISHED; break
ExFinished(e) ==
  /\ pc[e] = "ex_fin"
  /\ execStatus' = FINISHED
  /\ Goto(e, "ex_end")
  /\ UNCHANGED <<status, nEffective, threshold, errorInputs, completedInputs,
                 skippedInputs, tries, committed, merkleStatus, notified,
                 outputsSkipped, arrivals, executions, succeeded, ret>>
  /\ UNCHANGED outVars

\* Mutant: drop_state is left at COMPLETED when every try failed.
ExEndKeepsCompleted(e) ==
  /\ pc[e] = "ex_end"
  /\ execStatus' = IF tries[e] = NTries THEN ERROR ELSE execStatus
  /\ status' = COMPLETED
  /\ Call(e, "nf", "done")
  /\ UNCHANGED <<nEffective, threshold, errorInputs, completedInputs,
                 skippedInputs, tries, committed, merkleStatus, notified,
                 outputsSkipped, arrivals, executions, succeeded>>
  /\ UNCHANGED outVars

\* After the loop: give up if every try failed, set the status and notify.
ExEnd(e) ==
  /\ pc[e] = "ex_end"
  /\ execStatus' = IF tries[e] = NTries THEN ERROR ELSE execStatus
  /\ status' = IF tries[e] = NTries THEN ERROR ELSE COMPLETED
  /\ Call(e, "nf", "done")
  /\ UNCHANGED <<nEffective, threshold, errorInputs, completedInputs,
                 skippedInputs, tries, committed, merkleStatus, notified,
                 outputsSkipped, arrivals, executions, succeeded>>
  /\ UNCHANGED outVars

-----------------------------------------------------------------------------
(***************************************************************************)
(* Methods run by whichever thread calls them.                             *)
(***************************************************************************)
(***************************************************************************)
(* The output data drop.  Its only producer is this app; events are        *)
(* delivered synchronously on the firing thread, so AbstractDROP           *)
(* .handleEvent and producerFinished run on the app thread that fires      *)
(* producerFinished.  The output's own completedrop() is not tracked.      *)
(***************************************************************************)
OUT_NPROD == 1

\* _fire("producerFinished", status=s) and the output's producerFinished:
\* the state is appended to _finishedProducers under its lock; one finish
\* too many raises, which ends the firing thread's call chain; the last
\* producer goes on to the output's setError/setCompleted at label 'out',
\* and the thread continues at 'next'.
FireProducerFinished(t, s, out, next) ==
  /\ notified' = Append(notified, s)
  /\ Goto(t, CASE Len(notified') > OUT_NPROD -> "done"
               [] Len(notified') = OUT_NPROD -> out
               [] OTHER                      -> next)

\* _notifyAppIsFinished: the status follows execStatus; producerFinished is
\* fired at the outputs and completedrop() follows.
NotifyApp(t) ==
  /\ pc[t] = "nf"
  /\ status' = IF execStatus = ERROR THEN ERROR ELSE COMPLETED
  /\ FireProducerFinished(t, status', "nf_out", "cd_check")
  /\ UNCHANGED <<execStatus, nEffective, threshold, errorInputs,
                 completedInputs, skippedInputs, tries, committed,
                 merkleStatus, outputsSkipped, arrivals, executions, succeeded, ret>>
  /\ UNCHANGED outVars

\* The output's setError(): a no-op on CANCELLED or SKIPPED, otherwise ERROR
\* and dropCompleted(ERROR) at its consumers.
OutSetError ==
  IF outStatus \in {CANCELLED, SKIPPED} THEN UNCHANGED outVars
  ELSE /\ outStatus' = ERROR
       /\ downstream' = Append(downstream, ERROR)

\* Mutant: the SKIPPED branch of setCompleted returns without re-firing.
OutSetCompletedNoRefire ==
  CASE outStatus = CANCELLED -> UNCHANGED outVars
    [] outStatus = SKIPPED   -> UNCHANGED outVars
    [] outStatus \in Writable -> /\ outStatus' = COMPLETED
                                /\ downstream' = Append(downstream, COMPLETED)

\* The output's setCompleted(): nothing on CANCELLED, a re-fired
\* dropCompleted(SKIPPED) on SKIPPED, COMPLETED and dropCompleted from a
\* writable status (it raises on any other status, which OutputEnd never
\* meets).
OutSetCompleted ==
  CASE outStatus = CANCELLED -> UNCHANGED outVars
    [] outStatus = SKIPPED   -> /\ downstream' = Append(downstream, SKIPPED)
                                /\ UNCHANGED outStatus
    [] outStatus \in Writable -> /\ outStatus' = COMPLETED
                                /\ downstream' = Append(downstream, COMPLETED)

\* The end of the output's producerFinished once every producer finished:
\* setError() if one of them is in ERROR, setCompleted() otherwise.  With
\* the app as the output's only producer this runs once, on a drop that is
\* not COMPLETED or ERROR, so setCompleted's raise cannot be reached.
OutputEnd(t, next) ==
  /\ pc[t] \in {"nf_out", "sk_out"}
  /\ IF ERROR \in ToSet(notified) THEN OutSetError ELSE OutSetCompleted
  /\ Goto(t, next)
  /\ UNCHANGED <<status, execStatus, nEffective, threshold, errorInputs,
                 completedInputs, skippedInputs, tries, committed,
                 merkleStatus, notified, outputsSkipped, arrivals,
                 executions, succeeded, ret>>

\* completedrop(): commit() builds the merkle data once.
CompleteDropCheck(t) ==
  /\ pc[t] = "cd_check"
  /\ IF committed THEN Return(t) ELSE Goto(t, "cd_commit")
  /\ UNCHANGED <<status, execStatus, nEffective, threshold, errorInputs,
                 completedInputs, skippedInputs, tries, committed,
                 merkleStatus, notified, outputsSkipped, arrivals,
                 executions, succeeded, ret>>
  /\ UNCHANGED outVars

CompleteDropCommit(t) ==
  /\ pc[t] = "cd_commit"
  /\ committed' = TRUE
  /\ merkleStatus' = status
  /\ Return(t)
  /\ UNCHANGED <<status, execStatus, nEffective, threshold, errorInputs,
                 completedInputs, skippedInputs, tries, notified,
                 outputsSkipped, arrivals, executions, succeeded, ret>>
  /\ UNCHANGED outVars

\* AppDROP.skip(): AbstractDROP.skip() first (status check, then set, then
\* completedrop()), then execStatus, the outputs, and producerFinished if
\* the app had not run.
SkipCheck(t) ==
  /\ pc[t] = "sk_check"
  /\ \/ status \in Writable /\ Goto(t, "sk_set") /\ UNCHANGED ret
     \/ status \notin Writable /\ Call(t, "cd_check", "sk_rest")
  /\ UNCHANGED <<status, execStatus, nEffective, threshold, errorInputs,
                 completedInputs, skippedInputs, tries, committed,
                 merkleStatus, notified, outputsSkipped, arrivals, executions, succeeded>>
  /\ UNCHANGED outVars

SkipSet(t) ==
  /\ pc[t] = "sk_set"
  /\ status' = SKIPPED
  /\ Call(t, "cd_check", "sk_rest")
  /\ UNCHANGED <<execStatus, nEffective, threshold, errorInputs,
                 completedInputs, skippedInputs, tries, committed,
                 merkleStatus, notified, outputsSkipped, arrivals, executions, succeeded>>
  /\ UNCHANGED outVars

SkipRest(t) ==
  /\ pc[t] = "sk_rest"
  /\ execStatus' = SKIPPED
  /\ outputsSkipped' = TRUE
  /\ outStatus' = IF outStatus \in Writable THEN SKIPPED ELSE outStatus
  /\ IF execStatus = NOT_RUN
       THEN FireProducerFinished(t, status, "sk_out", "done")
       ELSE Goto(t, "done") /\ UNCHANGED notified
  /\ UNCHANGED <<status, nEffective, threshold, errorInputs, completedInputs,
                 skippedInputs, tries, committed, merkleStatus, arrivals,
                 executions, succeeded, downstream, ret>>

\* AppDROP.cancel(): AbstractDROP.cancel() (status check, set CANCELLED,
\* completedrop()), then execStatus = CANCELLED.
\* Mutant: cancel() that only sets execStatus, leaving out super().cancel().
AppCancelCheckNoSuper(c) ==
  /\ pc[c] = "idle"
  /\ Goto(c, "c_exec")
  /\ UNCHANGED <<status, execStatus, nEffective, threshold, errorInputs,
                 completedInputs, skippedInputs, tries, committed,
                 merkleStatus, notified, outputsSkipped, arrivals,
                 executions, succeeded, ret>>
  /\ UNCHANGED outVars

AppCancelCheck(c) ==
  /\ pc[c] = "idle"
  /\ IF status \in Writable THEN Call(c, "c_set", "c_exec")
                            ELSE Call(c, "cd_check", "c_exec")
  /\ UNCHANGED <<status, execStatus, nEffective, threshold, errorInputs,
                 completedInputs, skippedInputs, tries, committed,
                 merkleStatus, notified, outputsSkipped, arrivals, executions, succeeded>>
  /\ UNCHANGED outVars

AppCancelSet(c) ==
  /\ pc[c] = "c_set"
  /\ status' = CANCELLED
  /\ Goto(c, "cd_check")
  /\ UNCHANGED <<execStatus, nEffective, threshold, errorInputs,
                 completedInputs, skippedInputs, tries, committed,
                 merkleStatus, notified, outputsSkipped, arrivals,
                 executions, succeeded, ret>>
  /\ UNCHANGED outVars

AppCancelExec(c) ==
  /\ pc[c] = "c_exec"
  /\ execStatus' = CANCELLED
  /\ Goto(c, "done")
  /\ UNCHANGED <<status, nEffective, threshold, errorInputs, completedInputs,
                 skippedInputs, tries, committed, merkleStatus, notified,
                 outputsSkipped, arrivals, executions, succeeded, ret>>
  /\ UNCHANGED outVars

-----------------------------------------------------------------------------
CompleteDrop(t) == CompleteDropCheck(t) \/ CompleteDropCommit(t)

Shared(t) == NotifyApp(t) \/ CompleteDrop(t)
             \/ SkipCheck(t) \/ SkipSet(t) \/ SkipRest(t)
             \/ (pc[t] = "nf_out" /\ OutputEnd(t, "cd_check"))
             \/ (pc[t] = "sk_out" /\ OutputEnd(t, "done"))

InputStep(i)  == DcAppend(i) \/ DcCount(i) \/ Shared(i)

ExecutorStep(e) ==
  ExStart(e) \/ ExRun(e) \/ ExFinished(e) \/ ExEnd(e) \/ Shared(e)

CancelStep(c) ==
  AppCancelCheck(c) \/ AppCancelSet(c) \/ AppCancelExec(c) \/ CompleteDrop(c)

Next ==
  \/ \E i \in Inputs : InputStep(i)
  \/ \E e \in Executors : ExecutorStep(e)
  \/ \E c \in Cancellers : CancelStep(c)

(***************************************************************************)
(* A thread inside a method runs on until it returns: nothing in these    *)
(* methods blocks. Whether and when an input drop completes, or a session  *)
(* cancels, is up to the environment, so idle threads get no fairness.     *)
(***************************************************************************)
Fairness ==
  /\ \A i \in Inputs : WF_vars(Busy(i) /\ InputStep(i))
  /\ \A e \in Executors : WF_vars(Busy(e) /\ ExecutorStep(e))
  /\ \A c \in Cancellers : WF_vars(Busy(c) /\ CancelStep(c))

Spec == Init /\ [][Next]_vars /\ Fairness

-----------------------------------------------------------------------------
(***************************************************************************)
(* Properties.                                                             *)
(***************************************************************************)
\* Every variable keeps to the values the code gives it; in particular
\* execute() never counts more than n_tries failed attempts.
TypeOK ==
  /\ status \in Status
  /\ execStatus \in ExecStatus
  /\ nEffective \in NEffChoices
  /\ threshold \in Thresholds
  /\ \A s \in {errorInputs, completedInputs, skippedInputs} :
       s \in Seq(Inputs)
  /\ tries \in [Executors -> 0..NTries]
  /\ committed \in BOOLEAN
  /\ notified \in Seq(Status)
  /\ executions \in 0..Cardinality(Executors)
  /\ succeeded \in [Executors -> BOOLEAN]
  /\ outStatus \in Status
  /\ downstream \in Seq(Status)

\* The outputs receive producerFinished from this app at most once: the
\* unlocked tally of dropCompleted must let exactly one input thread decide.
FinishNotifiedOnce == Len(notified) <= 1

Quiescent == \A t \in Threads : ~Busy(t)

\* Once the first n_effective_inputs inputs are tallied and every handler
\* has returned, dropCompleted has made the decision the class docstring
\* describes for them: the app ran iff the floor of their error percentage is
\* at most input_error_threshold and not all of them were skipped, and its
\* outputs were skipped iff all of them were skipped.
DecisionFollowsThreshold ==
  LET n      == NEff(nEffective)
      first  == SubSeq(arrivals, 1, n)
      errs   == Cardinality({k \in DOMAIN first : first[k] = ERROR})
      skips  == Cardinality({k \in DOMAIN first : first[k] = SKIPPED})
      over   == PercentFailed(errs, n) > threshold
  IN  (Quiescent /\ Len(arrivals) >= n) =>
        /\ (executions > 0) = (~over /\ skips # n)
        /\ outputsSkipped = (~over /\ skips = n)

\* Without a cancellation, execute() reports ERROR to the outputs exactly
\* when no attempt of run() returned, i.e. all n_tries attempts raised, and
\* COMPLETED when one of them returned.
RetryOutcome ==
  \A e \in Executors :
    pc[e] = "done" => ((notified = <<ERROR>>) = ~succeeded[e])

\* Once every input has completed, the consumers of the app's output
\* eventually receive dropCompleted from it, or the app ends CANCELLED: no
\* mix of input states and thread interleavings leaves the next stage of
\* the graph waiting.  This runs through the app's decision, its execution
\* or skip, producerFinished at the output and the output's setCompleted or
\* setError.
DownstreamEventuallyNotified ==
  (Len(arrivals) = NInputs) ~> (downstream # <<>> \/ status = CANCELLED)

\* Once the threads are done, an output that heard producerFinished from
\* the app has taken the status the app reported and told its consumers so
\* exactly once: COMPLETED and ERROR through setCompleted/setError, and
\* SKIPPED through skip() of the outputs followed by setCompleted's
\* re-fire of dropCompleted on a SKIPPED drop.
OutputFollowsApp ==
  (Quiescent /\ notified # <<>>) =>
    /\ outStatus = notified[1]
    /\ downstream = <<notified[1]>>

\* The app is a drop too, and its outputs see it keep the drop contract of
\* DropStatus: INITIALIZED, then one terminal status that never changes,
\* producerFinished fired once with that status, and fired eventually
\* once the status is terminal -- whichever of execute(), the threshold
\* error and skip() sets the status, and however often it is set.
AppDS == INSTANCE DropStatus WITH st <- status, out <- notified

AppImplementsDropStatus == AppDS!ASpec

\* A cancelled app stays cancelled: execute() must not run it to COMPLETED
\* after AppDROP.cancel() has set CANCELLED.
CancelledStaysCancelled ==
  [][(status = CANCELLED) => (status' = CANCELLED)]_vars

=============================================================================
