--------------------------- MODULE DropLifecycle ---------------------------
(***************************************************************************)
(* The lifecycle of one DataDROP (dlg/drop.py: AbstractDROP and DataDROP)  *)
(* as it is driven by the threads that call into it: the threads of the   *)
(* AppDROPs registered as its producers, which write() chunks into it and  *)
(* then call producerFinished(), and external threads (a session manager)  *)
(* that may call cancel().                                                 *)
(*                                                                         *)
(* Every method is split at the points where drop.py reads `status` and   *)
(* later acts on what it read without holding `_statusLock`: the status   *)
(* setter takes the lock only for the assignment itself, so another       *)
(* thread may run between the check and the act.  The producer-finished   *)
(* tally runs under `_finishedProducersLock` and is one step.              *)
(*                                                                         *)
(* Data is abstracted to chunk counts: every write() carries one byte.    *)
(* The drop's consumers are represented by `delivered`, the sequence of   *)
(* what they are handed: "DATA" for a chunk delivered to the streaming    *)
(* consumers by write(), and a status for each dropCompleted event.       *)
(* The fingerprint is that of the RERUN reproducibility level, whose      *)
(* record is the drop's status (generate_rerun_data).                     *)
(***************************************************************************)
EXTENDS Integers, Sequences, FiniteSets, SequencesExt

CONSTANTS
  Producers,      \* threads of the AppDROPs registered with addProducer()
  Cancellers,     \* external threads that may call cancel()
  Readers,        \* threads of consumer apps that open() and read() the drop
  Describers,     \* threads that set size and checksum of external data
  ExpectedSizes,  \* values the expectedSize constructor argument may take
  MaxWrites,      \* bound on the write() calls of one producer
  Outcomes,       \* statuses a producer may finish with (producerFinished)
  OpenMayFail,    \* whether opening a backend IO session may fail
  ChecksumDisabled \* drop.py's checksum_disabled: write() keeps no checksum

ASSUME Producers # {} /\ Producers \cap Cancellers = {}
ASSUME Readers \cap (Producers \cup Cancellers) = {}
ASSUME Describers \cap (Producers \cup Cancellers \cup Readers) = {}
ASSUME ChecksumDisabled \in BOOLEAN
ASSUME ExpectedSizes \subseteq ({-1} \cup (Nat \ {0}))
ASSUME MaxWrites \in Nat \ {0}
ASSUME OpenMayFail \in BOOLEAN

\* DROPStates of dlg/ddap_protocol.py used by drop.py
INITIALIZED == "INITIALIZED"
WRITING     == "WRITING"
COMPLETED   == "COMPLETED"
ERROR       == "ERROR"
CANCELLED   == "CANCELLED"
SKIPPED     == "SKIPPED"
Status      == {INITIALIZED, WRITING, COMPLETED, ERROR, CANCELLED, SKIPPED}
Writable    == {INITIALIZED, WRITING}
Terminal    == {COMPLETED, ERROR, CANCELLED, SKIPPED}

ASSUME Outcomes \subseteq {COMPLETED, ERROR, SKIPPED} /\ Outcomes # {}

DATA == "DATA"      \* a chunk handed to the streaming consumers
NONE == "None"      \* Python None for merkle data and producer outcome
CRC  == "CRC_32C"   \* the module's _checksumType
GIVEN == "given"    \* a checksum type set by a describer
EXTERNAL == 1       \* size, and checksum, of data written outside write()

Threads == Producers \cup Cancellers \cup Readers \cup Describers
NProd   == Cardinality(Producers)

VARIABLES
  status,             \* _status
  size,               \* _size; -1 stands for None
  checksum,           \* _checksum: the bytes folded into the crc; -1 = None
  checksumType,       \* _checksumType
  wio,                \* whether _wio holds an open write session
  expectedSize,       \* _expectedSize
  finishedProducers,  \* _finishedProducers, in append order
  committed,          \* _committed
  merkleStatus,       \* the status recorded in _merkleData by commit()
  refCount,           \* _refCount, changed under _refLock
  rios,               \* the readers whose descriptor is a key of _rios
  delivered,          \* what the consumers have been handed, in order
  pc,                 \* per thread: the statement it is about to run
  ret,                \* per thread: where the current method returns to
  writes,             \* per producer: write() calls made so far
  raised,             \* per producer: a write() of its run raised
  outcome,            \* per producer: the status it finished with
  local               \* per thread: a value read for a store still to come

vars == <<status, size, checksum, checksumType, wio, expectedSize,
          finishedProducers, committed, merkleStatus, refCount, rios,
          delivered, pc, ret, writes, raised, outcome, local>>

ioVars   == <<refCount, rios>>
ckVars   == <<checksum, checksumType>>
dropVars == <<status, size, ckVars, wio, expectedSize, finishedProducers,
              committed, merkleStatus, ioVars>>

-----------------------------------------------------------------------------
\* Control flow helpers.
Goto(t, l)      == pc' = [pc EXCEPT ![t] = l]
Call(t, l, r)   == /\ pc' = [pc EXCEPT ![t] = l]
                   /\ ret' = [ret EXCEPT ![t] = r]
Return(t)       == pc' = [pc EXCEPT ![t] = ret[t]]

\* _closeWriters(): the write session is closed and _wio dropped; an error
\* closing it is swallowed, so the session always counts as closed.
CloseWriters == wio' = FALSE

\* The status setter: the assignment under _statusLock (the "status" event
\* it fires changes no state).
SetStatus(v) == status' = v

\* _updateChecksum(chunk): a None checksum starts at 0 with the module's
\* type; `_checksum = crc32c(chunk, _checksum)` reads the checksum, and the
\* fold is stored in a later step.  The 0 stored for None is folded into
\* the read.  Every chunk is one same byte, so the crc is determined by the
\* number of bytes folded.
ChecksumRead(t, n) ==
  /\ checksumType' = IF checksum = -1 THEN CRC ELSE checksumType
  /\ local' = [local EXCEPT ![t] = (IF checksum = -1 THEN 0 ELSE checksum) + n]
  /\ UNCHANGED checksum
ChecksumStore(t) ==
  /\ checksum' = local[t]
  /\ UNCHANGED checksumType

Init ==
  /\ status = INITIALIZED
  /\ size = -1
  /\ checksum = -1
  /\ checksumType = NONE
  /\ wio = FALSE
  /\ expectedSize \in ExpectedSizes
  /\ finishedProducers = <<>>
  /\ committed = FALSE
  /\ merkleStatus = NONE
  /\ refCount = 0
  /\ rios = {}
  /\ delivered = <<>>
  /\ pc = [t \in Threads |-> "idle"]
  /\ ret = [t \in Threads |-> "idle"]
  /\ writes = [p \in Producers |-> 0]
  /\ raised = [p \in Producers |-> FALSE]
  /\ outcome = [p \in Producers |-> NONE]
  /\ local = [t \in Threads |-> 0]

-----------------------------------------------------------------------------
(***************************************************************************)
(* write() runs as steps that other threads can interleave with: the      *)
(* status check; the lazy opening of the write session; the backend     *)
(* write with the read of _size for `_size += nbytes`; the store of the   *)
(* new size; the streaming delivery with the read of _checksum for the    *)
(* crc fold; its store; and the expected-size handling.  Nothing is       *)
(* locked, so a read-modify-write of _size or _checksum can lose another  *)
(* producer's update, and a cancel() can close the session between the    *)
(* check and the write.  local[t] holds the value read and not yet        *)
(* stored.  Each chunk is one byte.                                        *)
(***************************************************************************)
\* Mutant: write() refuses only a COMPLETED drop.
WriteCheckOnlyCompleted(p) ==
  /\ pc[p] = "idle" /\ writes[p] < MaxWrites
  /\ writes' = [writes EXCEPT ![p] = @ + 1]
  /\ IF status = COMPLETED
       THEN raised' = [raised EXCEPT ![p] = TRUE] /\ UNCHANGED pc
       ELSE Goto(p, "w_open") /\ UNCHANGED raised
  /\ UNCHANGED <<dropVars, delivered, ret, outcome, local>>

WriteCheck(p) ==
  /\ pc[p] = "idle" /\ writes[p] < MaxWrites
  /\ writes' = [writes EXCEPT ![p] = @ + 1]
  /\ IF status \notin Writable
       THEN \* "No more writing expected": the producer's run raises
            raised' = [raised EXCEPT ![p] = TRUE] /\ UNCHANGED pc
       ELSE Goto(p, "w_open") /\ UNCHANGED raised
  /\ UNCHANGED <<dropVars, delivered, ret, outcome, local>>

\* The write session is opened lazily, when _wio is None; a failing open
\* sets the status to ERROR and raises.
WriteOpen(p) ==
  /\ pc[p] = "w_open"
  /\ \/ /\ wio /\ Goto(p, "w_write")
        /\ UNCHANGED <<status, wio, raised>>
     \/ /\ ~wio /\ wio' = TRUE /\ Goto(p, "w_write")
        /\ UNCHANGED <<status, raised>>
     \/ /\ ~wio /\ OpenMayFail
        /\ SetStatus(ERROR)
        /\ raised' = [raised EXCEPT ![p] = TRUE]
        /\ Goto(p, "idle")
        /\ UNCHANGED wio
  /\ UNCHANGED <<ioVars, ckVars, size, expectedSize, finishedProducers,
                 committed, merkleStatus, delivered, ret, writes, outcome,
                 local>>

\* Mutant: write() adds to a size that is still None (-1) without first
\* setting it to 0.
WriteDataNoNoneInit(p) ==
  /\ pc[p] = "w_write"
  /\ \/ /\ ~wio
        /\ raised' = [raised EXCEPT ![p] = TRUE]
        /\ Goto(p, "idle")
        /\ UNCHANGED <<size, local>>
     \/ /\ wio
        /\ local' = [local EXCEPT ![p] = size + 1]
        /\ Goto(p, "w_size")
        /\ UNCHANGED <<size, raised>>
  /\ UNCHANGED <<ioVars, ckVars, status, wio, expectedSize, finishedProducers,
                 committed, merkleStatus, delivered, ret, writes, outcome>>

\* self._wio.write(data): a session closed meanwhile (_wio is None) makes
\* the call raise.  Then _size is read for `_size += nbytes`, a None size
\* counting as the 0 the code stores first.
WriteData(p) ==
  /\ pc[p] = "w_write"
  /\ \/ /\ ~wio
        /\ raised' = [raised EXCEPT ![p] = TRUE]
        /\ Goto(p, "idle")
        /\ UNCHANGED <<size, local>>
     \/ /\ wio
        /\ local' = [local EXCEPT ![p] = (IF size = -1 THEN 0 ELSE size) + 1]
        /\ Goto(p, "w_size")
        /\ UNCHANGED <<size, raised>>
  /\ UNCHANGED <<ioVars, ckVars, status, wio, expectedSize, finishedProducers,
                 committed, merkleStatus, delivered, ret, writes, outcome>>

\* The store of `_size += nbytes`.
WriteSize(p) ==
  /\ pc[p] = "w_size"
  /\ size' = local[p]
  /\ Goto(p, "w_stream")
  /\ UNCHANGED <<ioVars, ckVars, status, wio, expectedSize, finishedProducers,
                 committed, merkleStatus, delivered, ret, writes, raised,
                 outcome, local>>

\* Every streaming consumer receives the chunk (dataWritten); then, unless
\* checksum_disabled, _updateChecksum reads the checksum to fold into.
WriteStream(p) ==
  /\ pc[p] = "w_stream"
  /\ delivered' = Append(delivered, DATA)
  /\ IF ChecksumDisabled
       THEN Goto(p, "w_expect") /\ UNCHANGED <<ckVars, local>>
       ELSE ChecksumRead(p, 1) /\ Goto(p, "w_ck")
  /\ UNCHANGED <<status, size, wio, expectedSize, finishedProducers,
                 committed, merkleStatus, ioVars, ret, writes, raised,
                 outcome>>

\* The store of the folded crc.
WriteChecksum(p) ==
  /\ pc[p] = "w_ck"
  /\ ChecksumStore(p)
  /\ Goto(p, "w_expect")
  /\ UNCHANGED <<status, size, wio, expectedSize, finishedProducers,
                 committed, merkleStatus, ioVars, delivered, ret, writes,
                 raised, outcome, local>>

\* With an expected size the drop completes itself once it has arrived;
\* otherwise, and while bytes remain, the status is set to WRITING.
WriteExpect(p) ==
  /\ pc[p] = "w_expect"
  /\ IF expectedSize > 0 /\ expectedSize - size <= 0
       THEN /\ Call(p, "sc_check", "idle")
            /\ UNCHANGED status
       ELSE /\ SetStatus(WRITING)
            /\ Goto(p, "idle")
            /\ UNCHANGED ret
  /\ UNCHANGED <<ioVars, ckVars, size, wio, expectedSize, finishedProducers,
                 committed, merkleStatus, delivered, writes, raised, outcome, local>>

(***************************************************************************)
(* The producer application finishes.  Its status is ERROR when its run    *)
(* raised (the retries meet the same drop status and raise again); it is  *)
(* SKIPPED only if it never ran, in which case AppDROP.skip() first skips *)
(* its outputs.  It then fires producerFinished, delivered synchronously  *)
(* to this drop on the producer's thread.                                 *)
(***************************************************************************)
Finish(p) ==
  /\ pc[p] = "idle"
  /\ \E o \in Outcomes :
       /\ raised[p] => o = ERROR
       /\ o = SKIPPED => writes[p] = 0
       /\ outcome' = [outcome EXCEPT ![p] = o]
       /\ IF o = SKIPPED THEN Call(p, "sk_check", "pf")
                         ELSE Goto(p, "pf") /\ UNCHANGED ret
  /\ UNCHANGED <<dropVars, delivered, writes, raised, local>>

\* Mutant: the drop completes when all but one producer have finished.
ProducerFinishedOffByOne(p) ==
  /\ pc[p] = "pf"
  /\ LET fp == Append(finishedProducers, outcome[p]) IN
       /\ finishedProducers' = fp
       /\ IF Len(fp) >= NProd - 1
            THEN IF ERROR \in ToSet(fp) THEN Call(p, "se_check", "done")
                                        ELSE Call(p, "sc_check", "done")
            ELSE Goto(p, "done") /\ UNCHANGED ret
  /\ UNCHANGED <<ioVars, ckVars, status, size, wio, expectedSize, committed,
                 merkleStatus, delivered, writes, raised, outcome, local>>

\* Mutant: the last producer's finish is taken for one too many.
ProducerFinishedStrict(p) ==
  /\ pc[p] = "pf"
  /\ LET fp == Append(finishedProducers, outcome[p]) IN
       /\ finishedProducers' = fp
       /\ IF Len(fp) > NProd
            THEN IF ERROR \in ToSet(fp) THEN Call(p, "se_check", "done")
                                        ELSE Call(p, "sc_check", "done")
            ELSE Goto(p, "done") /\ UNCHANGED ret
  /\ UNCHANGED <<ioVars, ckVars, status, size, wio, expectedSize, committed,
                 merkleStatus, delivered, writes, raised, outcome, local>>

\* producerFinished(): the tally under _finishedProducersLock; the last
\* producer to finish moves the drop to ERROR if any producer failed and
\* to COMPLETED otherwise.  (More finishes than producers raise; each
\* producer finishes once here, so that branch is unreachable.)
ProducerFinished(p) ==
  /\ pc[p] = "pf"
  /\ LET fp == Append(finishedProducers, outcome[p]) IN
       /\ finishedProducers' = fp
       /\ IF Len(fp) = NProd
            THEN IF ERROR \in ToSet(fp) THEN Call(p, "se_check", "done")
                                        ELSE Call(p, "sc_check", "done")
            ELSE Goto(p, "done") /\ UNCHANGED ret
  /\ UNCHANGED <<ioVars, ckVars, status, size, wio, expectedSize, committed,
                 merkleStatus, delivered, writes, raised, outcome, local>>

-----------------------------------------------------------------------------
(***************************************************************************)
(* setCompleted(): the status is read once; CANCELLED returns, SKIPPED    *)
(* re-fires dropCompleted(SKIPPED), any state but INITIALIZED/WRITING     *)
(* raises.  Then the writers are closed and the status is set, the        *)
(* completion fired, and completedrop() run.                              *)
(***************************************************************************)
\* Mutant: setCompleted() returns silently on SKIPPED, as on CANCELLED.
SetCompletedCheckNoRefire(t) ==
  /\ pc[t] = "sc_check"
  /\ \/ status \in {CANCELLED, SKIPPED} /\ Return(t)
     \/ status \notin Writable \cup {CANCELLED, SKIPPED} /\ Return(t)
     \/ status \in Writable /\ Goto(t, "sc_set")
  /\ UNCHANGED <<dropVars, delivered, ret, writes, raised, outcome, local>>

SetCompletedCheck(t) ==
  /\ pc[t] = "sc_check"
  /\ \/ status = CANCELLED /\ Return(t) /\ UNCHANGED delivered
     \/ status = SKIPPED /\ delivered' = Append(delivered, SKIPPED)
        /\ Return(t)
     \/ \* "not in INITIALIZED or WRITING state": raises
        status \notin Writable \cup {CANCELLED, SKIPPED}
        /\ Return(t) /\ UNCHANGED delivered
     \/ status \in Writable /\ Goto(t, "sc_set") /\ UNCHANGED delivered
  /\ UNCHANGED <<dropVars, ret, writes, raised, outcome, local>>

SetCompletedSet(t) ==
  /\ pc[t] = "sc_set"
  /\ CloseWriters
  /\ SetStatus(COMPLETED)
  /\ Goto(t, "sc_fire")
  /\ UNCHANGED <<ioVars, ckVars, size, expectedSize, finishedProducers,
                 committed, merkleStatus, delivered, ret, writes, raised,
                 outcome, local>>

SetCompletedFire(t) ==
  /\ pc[t] = "sc_fire"
  /\ delivered' = Append(delivered, COMPLETED)
  /\ Goto(t, "cd_check")
  /\ UNCHANGED <<dropVars, ret, writes, raised, outcome, local>>

\* Mutant: setError() also returns at once on a drop that is already ERROR.
SetErrorCheckSkipsError(t) ==
  /\ pc[t] = "se_check"
  /\ IF status \in {CANCELLED, SKIPPED, ERROR} THEN Return(t)
                                            ELSE Goto(t, "se_set")
  /\ UNCHANGED <<dropVars, delivered, ret, writes, raised, outcome, local>>

\* setError(): a no-op on CANCELLED and SKIPPED drops, and on no other.
SetErrorCheck(t) ==
  /\ pc[t] = "se_check"
  /\ IF status \in {CANCELLED, SKIPPED} THEN Return(t)
                                        ELSE Goto(t, "se_set")
  /\ UNCHANGED <<dropVars, delivered, ret, writes, raised, outcome, local>>

\* Mutant: setError() moves to ERROR without firing dropCompleted.
SetErrorSetNoFire(t) ==
  /\ pc[t] = "se_set"
  /\ CloseWriters
  /\ SetStatus(ERROR)
  /\ Goto(t, "cd_check")
  /\ UNCHANGED <<ioVars, ckVars, size, expectedSize, finishedProducers,
                 committed, merkleStatus, delivered, ret, writes, raised,
                 outcome, local>>

SetErrorSet(t) ==
  /\ pc[t] = "se_set"
  /\ CloseWriters
  /\ SetStatus(ERROR)
  /\ Goto(t, "se_fire")
  /\ UNCHANGED <<ioVars, ckVars, size, expectedSize, finishedProducers,
                 committed, merkleStatus, delivered, ret, writes, raised,
                 outcome, local>>

SetErrorFire(t) ==
  /\ pc[t] = "se_fire"
  /\ delivered' = Append(delivered, ERROR)
  /\ Goto(t, "cd_check")
  /\ UNCHANGED <<dropVars, ret, writes, raised, outcome, local>>

(***************************************************************************)
(* cancel() and skip(): the status test and the assignment are separate;  *)
(* completedrop() runs whatever the test found.                           *)
(***************************************************************************)
CancelCheck(c) ==
  /\ c \in Cancellers /\ pc[c] = "idle"
  /\ ret' = [ret EXCEPT ![c] = "done"]
  /\ IF status \in Writable THEN Goto(c, "c_set") ELSE Goto(c, "cd_check")
  /\ UNCHANGED <<dropVars, delivered, writes, raised, outcome, local>>

CancelSet(c) ==
  /\ pc[c] = "c_set"
  /\ CloseWriters
  /\ SetStatus(CANCELLED)
  /\ Goto(c, "cd_check")
  /\ UNCHANGED <<ioVars, ckVars, size, expectedSize, finishedProducers,
                 committed, merkleStatus, delivered, ret, writes, raised,
                 outcome, local>>

SkipCheck(t) ==
  /\ pc[t] = "sk_check"
  /\ IF status \in Writable THEN Goto(t, "sk_set") ELSE Goto(t, "cd_check")
  /\ UNCHANGED <<dropVars, delivered, ret, writes, raised, outcome, local>>

SkipSet(t) ==
  /\ pc[t] = "sk_set"
  /\ CloseWriters
  /\ SetStatus(SKIPPED)
  /\ Goto(t, "cd_check")
  /\ UNCHANGED <<ioVars, ckVars, size, expectedSize, finishedProducers,
                 committed, merkleStatus, delivered, ret, writes, raised,
                 outcome, local>>

(***************************************************************************)
(* completedrop(): commit() tests _committed, then generates the merkle   *)
(* data from the status as it is at that moment and marks the drop        *)
(* committed.  The reproducibility event it fires changes no state        *)
(* (dropReproComplete is empty).                                          *)
(***************************************************************************)
CompleteDropCheck(t) ==
  /\ pc[t] = "cd_check"
  /\ IF committed THEN Return(t) ELSE Goto(t, "cd_commit")
  /\ UNCHANGED <<dropVars, delivered, ret, writes, raised, outcome, local>>

CompleteDropCommit(t) ==
  /\ pc[t] = "cd_commit"
  /\ merkleStatus' = status
  /\ committed' = TRUE
  /\ Return(t)
  /\ UNCHANGED <<ioVars, ckVars, status, size, wio, expectedSize,
                 finishedProducers, delivered, ret, writes, raised, outcome, local>>

(***************************************************************************)
(* A reader is the thread of a consumer app, started by the dropCompleted *)
(* event.  open() checks for COMPLETED, opens a backend read session,     *)
(* stores it in _rios under a fresh descriptor and then increments        *)
(* _refCount under _refLock; read() and close() first run                 *)
(* _checkStateAndDescriptor(), and close() decrements _refCount before    *)
(* it pops the descriptor and closes the session.  _rios itself has no    *)
(* lock (the TODO of __init__).  A raise ends the reader's run.           *)
(***************************************************************************)
\* incrRefCount() and decrRefCount(), each atomic under _refLock.
IncrRefCount == refCount' = refCount + 1
DecrRefCount == refCount' = refCount - 1

\* _checkStateAndDescriptor(): COMPLETED, and an open descriptor.
DescriptorValid(r) == status = COMPLETED /\ r \in rios

\* The checksum getter, read by the app first: a COMPLETED drop with no
\* checksum opens a read session and folds the data it reads (one read
\* returns all of it) into _checksum, which nothing locks.  Empty data
\* leaves the checksum None.
ChecksumGet(r) ==
  /\ pc[r] = "idle"
  /\ \E i \in DOMAIN delivered : delivered[i] \in Terminal
  /\ \/ status = COMPLETED /\ checksum = -1 /\ Goto(r, "ck_fold")
     \/ status = COMPLETED /\ checksum = -1 /\ OpenMayFail /\ Goto(r, "done")
     \/ ~(status = COMPLETED /\ checksum = -1) /\ Goto(r, "o_check")
  /\ UNCHANGED <<dropVars, delivered, ret, writes, raised, outcome, local>>

ChecksumFold(r) ==
  /\ pc[r] = "ck_fold"
  /\ IF size > 0 THEN ChecksumRead(r, size) /\ Goto(r, "ck_store")
                 ELSE UNCHANGED <<ckVars, local>> /\ Goto(r, "o_check")
  /\ UNCHANGED <<status, size, wio, expectedSize, finishedProducers,
                 committed, merkleStatus, ioVars, delivered, ret, writes,
                 raised, outcome>>

ChecksumFoldStore(r) ==
  /\ pc[r] = "ck_store"
  /\ ChecksumStore(r)
  /\ Goto(r, "o_check")
  /\ UNCHANGED <<status, size, wio, expectedSize, finishedProducers,
                 committed, merkleStatus, ioVars, delivered, ret, writes,
                 raised, outcome, local>>

OpenCheck(r) ==
  /\ pc[r] = "o_check"
  /\ \/ status # COMPLETED /\ Goto(r, "done")
     \/ status = COMPLETED /\ OpenMayFail /\ Goto(r, "done")
     \/ status = COMPLETED /\ Goto(r, "o_reg")
  /\ UNCHANGED <<dropVars, delivered, ret, writes, raised, outcome, local>>

OpenRegister(r) ==
  /\ pc[r] = "o_reg"
  /\ rios' = rios \cup {r}
  /\ Goto(r, "o_incr")
  /\ UNCHANGED <<ckVars, status, size, wio, expectedSize, finishedProducers,
                 committed, merkleStatus, refCount, delivered, ret, writes,
                 raised, outcome, local>>

OpenIncr(r) ==
  /\ pc[r] = "o_incr"
  /\ IncrRefCount
  /\ Goto(r, "reading")
  /\ UNCHANGED <<ckVars, status, size, wio, expectedSize, finishedProducers,
                 committed, merkleStatus, rios, delivered, ret, writes,
                 raised, outcome, local>>

\* read() of the data, then close() begins with the same check.
Read(r) ==
  /\ pc[r] \in {"reading", "c_check"}
  /\ IF DescriptorValid(r)
       THEN Goto(r, IF pc[r] = "reading" THEN "c_check" ELSE "c_decr")
       ELSE Goto(r, "done")
  /\ UNCHANGED <<dropVars, delivered, ret, writes, raised, outcome, local>>

CloseDecr(r) ==
  /\ pc[r] = "c_decr"
  /\ DecrRefCount
  /\ Goto(r, "c_pop")
  /\ UNCHANGED <<ckVars, status, size, wio, expectedSize, finishedProducers,
                 committed, merkleStatus, rios, delivered, ret, writes,
                 raised, outcome, local>>

ClosePop(r) ==
  /\ pc[r] = "c_pop"
  /\ rios' = rios \ {r}
  /\ Goto(r, "done")
  /\ UNCHANGED <<ckVars, status, size, wio, expectedSize, finishedProducers,
                 committed, merkleStatus, refCount, delivered, ret, writes,
                 raised, outcome, local>>

(***************************************************************************)
(* A describer sets the size, checksum and checksum type of data written  *)
(* outside write(), in that order.  Each setter refuses a value that is   *)
(* already set and a drop still INITIALIZED or WRITING; a refusal raises  *)
(* and ends the describer's run.                                          *)
(***************************************************************************)
\* A setter's guard: the attribute is None and the drop fully written.
MaySet(attr, none) == attr = none /\ status \notin Writable

SizeSet(x) ==
  /\ pc[x] = "idle"
  /\ IF MaySet(size, -1)
       THEN size' = EXTERNAL /\ Goto(x, "x_checksum")
       ELSE UNCHANGED size /\ Goto(x, "done")
  /\ UNCHANGED <<status, ckVars, wio, expectedSize, finishedProducers,
                 committed, merkleStatus, ioVars, delivered, ret, writes,
                 raised, outcome, local>>

ChecksumSet(x) ==
  /\ pc[x] = "x_checksum"
  /\ IF MaySet(checksum, -1)
       THEN checksum' = EXTERNAL /\ Goto(x, "x_type")
       ELSE UNCHANGED checksum /\ Goto(x, "done")
  /\ UNCHANGED <<status, size, checksumType, wio, expectedSize,
                 finishedProducers, committed, merkleStatus, ioVars,
                 delivered, ret, writes, raised, outcome, local>>

ChecksumTypeSet(x) ==
  /\ pc[x] = "x_type"
  /\ IF MaySet(checksumType, NONE) THEN checksumType' = GIVEN
                                    ELSE UNCHANGED checksumType
  /\ Goto(x, "done")
  /\ UNCHANGED <<status, size, checksum, wio, expectedSize,
                 finishedProducers, committed, merkleStatus, ioVars,
                 delivered, ret, writes, raised, outcome, local>>

-----------------------------------------------------------------------------
Step(t) ==
  \/ WriteCheck(t) \/ WriteOpen(t) \/ WriteData(t) \/ WriteSize(t)
  \/ WriteStream(t) \/ WriteChecksum(t) \/ WriteExpect(t)
  \/ Finish(t) \/ ProducerFinished(t)
  \/ SetCompletedCheck(t) \/ SetCompletedSet(t) \/ SetCompletedFire(t)
  \/ SetErrorCheck(t) \/ SetErrorSet(t) \/ SetErrorFire(t)
  \/ SkipCheck(t) \/ SkipSet(t)
  \/ CompleteDropCheck(t) \/ CompleteDropCommit(t)

CancellerStep(c) ==
  \/ CancelCheck(c) \/ CancelSet(c)
  \/ CompleteDropCheck(c) \/ CompleteDropCommit(c)

ReaderStep(r) ==
  \/ ChecksumGet(r) \/ ChecksumFold(r) \/ ChecksumFoldStore(r)
  \/ OpenCheck(r) \/ OpenRegister(r) \/ OpenIncr(r) \/ Read(r)
  \/ CloseDecr(r) \/ ClosePop(r)

DescriberStep(x) == SizeSet(x) \/ ChecksumSet(x) \/ ChecksumTypeSet(x)

Next ==
  \/ \E p \in Producers : Step(p)
  \/ \E c \in Cancellers : CancellerStep(c)
  \/ \E r \in Readers : ReaderStep(r)
  \/ \E x \in Describers : DescriberStep(x)

\* A producer's thread runs to the end of its application (the run itself
\* is assumed to terminate); a canceller, a reader app or a describer is
\* never obliged to start, but once it has started a call it finishes it.
Fairness ==
  /\ \A p \in Producers : WF_vars(Step(p))
  /\ \A c \in Cancellers : WF_vars(CancellerStep(c) /\ pc[c] # "idle")
  /\ \A r \in Readers : WF_vars(ReaderStep(r) /\ pc[r] # "idle")
  /\ \A x \in Describers : WF_vars(DescriberStep(x) /\ pc[x] # "idle")

Spec == Init /\ [][Next]_vars /\ Fairness

-----------------------------------------------------------------------------
(***************************************************************************)
(* Properties                                                              *)
(***************************************************************************)
TypeOK ==
  /\ status \in Status
  /\ size \in {-1} \cup (1..(MaxWrites * NProd))
  /\ checksum \in -1..(MaxWrites * NProd * (1 + Cardinality(Readers)))
  /\ checksumType \in {NONE, CRC, GIVEN}
  /\ wio \in BOOLEAN
  /\ expectedSize \in ExpectedSizes
  /\ finishedProducers \in Seq(Outcomes)
  /\ committed \in BOOLEAN
  /\ merkleStatus \in Status \cup {NONE}
  /\ refCount \in 0..Cardinality(Readers)
  /\ rios \subseteq Readers
  /\ delivered \in Seq(Status \cup {DATA})
  /\ pc \in [Threads -> STRING]
  /\ ret \in [Threads -> STRING]
  /\ writes \in [Producers -> 0..MaxWrites]
  /\ raised \in [Producers -> BOOLEAN]
  /\ outcome \in [Producers -> Outcomes \cup {NONE}]
  /\ local \in [Threads -> Int]

\* A drop that has reached COMPLETED, ERROR, CANCELLED or SKIPPED never
\* leaves it (spec 4.1): no later write(), setError(), setCompleted() or
\* status assignment of another thread moves it elsewhere.
TerminalStatusStable ==
  [][(status \in Terminal) => status' = status]_vars

\* Once every producer has finished and no cancel() is under way, the
\* drop's provenance has been committed and records the status the drop
\* ended in: completedrop() ran after the last status change.
ProvenanceRecordsFinalStatus ==
  (/\ \A p \in Producers : pc[p] = "done"
   /\ \A c \in Cancellers : pc[c] \in {"idle", "done"})
    => committed /\ merkleStatus = status

\* Once all producers have called producerFinished, the consumers are
\* eventually sent a dropCompleted event, unless the drop was cancelled
\* (graph execution is driven by these events alone: without one every
\* consumer waits forever; cancel() fires none, as the session is being
\* torn down).  producerFinished's tally, the guards of setCompleted() and
\* setError(), a write() that completes the drop by itself and a cancel()
\* at any point must together leave no other way to stop.
FinishedProducersNotified ==
  (Len(finishedProducers) = NProd)
    ~> \/ \E i \in DOMAIN delivered : delivered[i] \in Terminal
       \/ status = CANCELLED

\* The drop, with all its threads, implements the abstract DropStatus: its
\* status only moves INITIALIZED/WRITING -> one terminal status, and the
\* consumers are handed chunks, then one dropCompleted carrying the status
\* the drop ended in, then nothing; and a drop that has ended eventually
\* fires that dropCompleted (setCompleted/setError/skip, drop.py:1053-1109).
DS == INSTANCE DropStatus WITH st <- status, out <- delivered

ImplementsDropStatus == DS!ASpec

=============================================================================
