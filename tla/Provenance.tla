----------------------------- MODULE Provenance -----------------------------
(***************************************************************************)
(* The provenance record of one drop (dlg/drop.py: the                     *)
(* reproducibility_level setter, generate_*_data, generate_merkle_data and *)
(* commit(); dlg/data/ngas.py: NgasDROP.generate_reproduce_data).           *)
(*                                                                         *)
(* Two threads act on it.  DROP is the thread that moves the drop to its   *)
(* terminal status and then runs completedrop(): commit() followed by the  *)
(* reproducibility event.  CLIENT is the code that configures the drop:    *)
(* it sets the reproducibility level and calls commit() itself, as the    *)
(* tests of test_drophash.py do.                                            *)
(*                                                                         *)
(* A Python dict is a sequence of <<key, value>> pairs in insertion order  *)
(* (MerkleTree is built over dict.items() in that order); the list []     *)
(* that the constructor and the setter store in _merkleData is EMPTYLIST. *)
(* A merkle root is the sequence of leaves it is built from, which stands *)
(* for a collision-free hash; the root of no leaves is None.  _merkleTree *)
(* always has the shape of _merkleRoot and is not kept apart.              *)
(***************************************************************************)
EXTENDS ReproducibilityFields, SequencesExt

CONSTANTS
  InitLevel,        \* REPRO_DEFAULT, the level a new drop starts with
  Levels,           \* levels the CLIENT passes to the setter
  MaxLevelChanges,  \* bound on the setter calls
  DropClasses,      \* "AbstractDROP" or "NgasDROP" (its generate_reproduce_data)
  EndStatuses,      \* terminal statuses the DROP thread may reach
  Concurrent,       \* whether CLIENT calls may overlap a commit() of DROP
  FieldCategories,  \* drop categories for the field-selection check
  CustomFields,     \* custom_fields values (as sets) for that check
  NONE,             \* Python None
  EMPTYLIST         \* the empty list []

ASSUME InitLevel \in Flags /\ Levels \subseteq Flags
ASSUME MaxLevelChanges \in Nat
ASSUME DropClasses \subseteq {"AbstractDROP", "NgasDROP"}
ASSUME EndStatuses \subseteq {"COMPLETED", "ERROR", "CANCELLED", "SKIPPED"}
ASSUME Concurrent \in BOOLEAN

FILEID    == "ngasFileId"   \* NgasDROP.ngasFileId
SIZE      == "FileSize"     \* the size NgasDROP.setCompleted reads back
CHECKSUM  == "Checksum"     \* the checksum NgasDROP.setCompleted reads back
\* NgasDROP.ngasFileId: a configured file id, or None by default (initialize()
\* then stores under the uid, which generate_reproduce_data does not use).
NgasFileIds == {NONE, FILEID}
DROP      == "DROP"
CLIENT    == "CLIENT"
Threads   == {DROP, CLIENT}

VARIABLES
  dropClass,   \* the class of the drop
  ngasFileId,  \* NgasDROP.ngasFileId, the configured file id
  level,       \* _reproducibility
  status,      \* _status; "INITIALIZED" until DROP ends the drop
  size,        \* _size as generate_reproduce_data reads it
  checksum,    \* NgasDROP.ngas_checksum
  committed,   \* _committed
  merkleData,  \* _merkleData
  merkleRoot,  \* _merkleRoot (and the shape of _merkleTree)
  pc, ret,     \* per thread: next statement and return point
  changes,     \* setter calls made
  fired        \* the reproducibility events fired by completedrop()

vars == <<dropClass, ngasFileId, level, status, size, checksum, committed, merkleData,
          merkleRoot, pc, ret, changes, fired>>

Goto(t, l)    == pc' = [pc EXCEPT ![t] = l]
Call(t, l, r) == pc' = [pc EXCEPT ![t] = l] /\ ret' = [ret EXCEPT ![t] = r]
Return(t)     == pc' = [pc EXCEPT ![t] = ret[t]]

\* With Concurrent = FALSE a thread starts a call only while the other
\* thread is between calls.
MayStart(t) ==
  Concurrent \/ \A u \in Threads \ {t} : pc[u] \in {"idle", "done"}

-----------------------------------------------------------------------------
(* dict helpers *)
Keys(d) == {d[i][1] : i \in DOMAIN d}
Get(d, k) == d[SelectInSeq(d, LAMBDA p : p[1] = k)][2]
\* d[k] = v: in place when k is present, appended otherwise.
Put(d, k, v) ==
  IF k \in Keys(d) THEN [d EXCEPT ![SelectInSeq(d, LAMBDA p : p[1] = k)] = <<k, v>>]
                   ELSE Append(d, <<k, v>>)
\* res.update(d)
Update(res, d) == FoldLeft(LAMBDA acc, p : Put(acc, p[1], p[2]), res, d)
\* {rmode.name: v for rmode in ALL_RMODES}
ModeDict(v) == [i \in 1..7 |-> <<RModes[i], v>>]
IsModeDict(x) == /\ x \notin {NONE, EMPTYLIST}
                 /\ DOMAIN x = 1..7
                 /\ \A i \in 1..7 : x[i][1] = RModes[i]
\* MerkleTree(items).merkle_root
Root(items) == IF items = <<>> THEN NONE ELSE <<"root", items>>

-----------------------------------------------------------------------------
(* generate_*_data *)
GenerateRerunData     == << <<"status", status>> >>
GenerateRepeatData    == << <<"status", status>> >>
GenerateRecomputeData == << <<"status", status>> >>
\* AbstractDROP returns {}; NgasDROP its checksum, or its file id and size
\* when setCompleted() stored no checksum.
GenerateReproduceData ==
  CASE dropClass = "AbstractDROP" -> <<>>
    [] checksum \in {NONE, ""}    -> << <<"fileid", ngasFileId>>, <<"size", size>> >>
    [] OTHER                      -> << <<"data_hash", checksum>> >>
GenerateReplicateSciData ==
  Update(Update(<<>>, GenerateRerunData), GenerateReproduceData)
\* Mutant: computational replication without the reproduce data.
GenerateReplicateCompDataNoReproduce ==
  Update(<<>>, GenerateRecomputeData)
GenerateReplicateCompData ==
  Update(Update(<<>>, GenerateRecomputeData), GenerateReproduceData)
GenerateReplicateTotalData ==
  Update(Update(<<>>, GenerateRepeatData), GenerateReproduceData)

\* generate_merkle_data for a given level.
GenerateLevel(l) ==
  CASE l = NOTHING         -> <<>>
    [] l = RERUN           -> GenerateRerunData
    [] l = REPEAT          -> GenerateRepeatData
    [] l = RECOMPUTE       -> GenerateRecomputeData
    [] l = REPRODUCE       -> GenerateReproduceData
    [] l = REPLICATE_SCI   -> GenerateReplicateSciData
    [] l = REPLICATE_COMP  -> GenerateReplicateCompData
    [] l = REPLICATE_TOTAL -> GenerateReplicateTotalData
GenerateMerkleData(l) ==
  IF l = ALL THEN [i \in 1..7 |-> <<RModes[i], GenerateLevel(RModes[i])>>]
             ELSE GenerateLevel(l)

-----------------------------------------------------------------------------
Init ==
  /\ dropClass \in DropClasses
  /\ ngasFileId \in NgasFileIds
  /\ level = InitLevel
  /\ status = "INITIALIZED"
  /\ size = NONE
  /\ checksum = NONE
  /\ committed = FALSE
  /\ merkleData = EMPTYLIST
  /\ merkleRoot = NONE
  /\ pc = [t \in Threads |-> "idle"]
  /\ ret = [t \in Threads |-> "idle"]
  /\ changes = 0
  /\ fired = <<>>

\* NgasDROP.setCompleted() asks the server for the stored file's status.
\* The lookup answers with the size and a checksum (which may be empty),
\* or raises: the exception is re-raised, so the status is never set and
\* completedrop() never runs.
FileStatusRead ==
  /\ size' = SIZE /\ checksum' \in {"", CHECKSUM}
FileStatusFails(s) ==
  dropClass = "NgasDROP" /\ s = "COMPLETED"

\* The DROP thread ends the drop with a terminal status; an NgasDROP
\* reading COMPLETED first reads back the file's status.  completedrop()
\* follows, unless the lookup raised.
End ==
  /\ pc[DROP] = "idle" /\ MayStart(DROP)
  /\ \E s \in EndStatuses :
       \/ /\ status' = s
          /\ IF dropClass = "NgasDROP" /\ s = "COMPLETED"
               THEN FileStatusRead ELSE UNCHANGED <<size, checksum>>
          /\ Call(DROP, "cm_gen", "cd_fire")
       \/ /\ FileStatusFails(s)
          /\ Goto(DROP, "done")
          /\ UNCHANGED <<status, size, checksum, ret>>
  /\ UNCHANGED <<dropClass, ngasFileId, level, committed, merkleData, merkleRoot,
                 changes, fired>>

\* Mutant: the setter leaves a committed record in place on a level change.
SetLevelNoReset ==
  /\ pc[CLIENT] = "idle" /\ MayStart(CLIENT) /\ changes < MaxLevelChanges
  /\ changes' = changes + 1
  /\ \E new \in Levels :
       /\ level' = new
       /\ IF new = ALL
            THEN /\ committed' = FALSE
                 /\ merkleRoot' = ModeDict(NONE)
                 /\ merkleData' = ModeDict(EMPTYLIST)
            ELSE UNCHANGED <<committed, merkleRoot, merkleData>>
  /\ UNCHANGED <<dropClass, ngasFileId, status, size, checksum, pc, ret, fired>>

\* Mutant: at ALL the setter fills _merkleData with None, as _merkleRoot.
SetLevelAllNone ==
  /\ pc[CLIENT] = "idle" /\ MayStart(CLIENT) /\ changes < MaxLevelChanges
  /\ changes' = changes + 1
  /\ \E new \in Levels :
       /\ level' = new
       /\ CASE new = ALL ->
                 /\ committed' = FALSE
                 /\ merkleRoot' = ModeDict(NONE)
                 /\ merkleData' = ModeDict(NONE)
            [] committed ->
                 /\ committed' = FALSE
                 /\ merkleRoot' = NONE
                 /\ merkleData' = EMPTYLIST
            [] OTHER -> UNCHANGED <<committed, merkleRoot, merkleData>>
  /\ UNCHANGED <<dropClass, ngasFileId, status, size, checksum, pc, ret, fired>>

\* The reproducibility_level setter.  ALL always resets the record to one
\* empty entry per mode; another level resets it only if it was committed.
SetLevel ==
  /\ pc[CLIENT] = "idle" /\ MayStart(CLIENT) /\ changes < MaxLevelChanges
  /\ changes' = changes + 1
  /\ \E new \in Levels :
       /\ level' = new
       /\ CASE new = ALL ->
                 /\ committed' = FALSE
                 /\ merkleRoot' = ModeDict(NONE)
                 /\ merkleData' = ModeDict(EMPTYLIST)
            [] committed ->
                 /\ committed' = FALSE
                 /\ merkleRoot' = NONE
                 /\ merkleData' = EMPTYLIST
            [] OTHER -> UNCHANGED <<committed, merkleRoot, merkleData>>
  /\ UNCHANGED <<dropClass, ngasFileId, status, size, checksum, pc, ret, fired>>

\* The CLIENT calls commit() on the ended drop.
ClientCommit ==
  /\ pc[CLIENT] = "idle" /\ MayStart(CLIENT) /\ status # "INITIALIZED"
  /\ Call(CLIENT, "cm_gen", "idle")
  /\ UNCHANGED <<dropClass, ngasFileId, level, status, size, checksum, committed,
                 merkleData, merkleRoot, changes, fired>>

\* commit(): a committed drop is left alone; otherwise the data is
\* generated for the level read now ...
CommitGenerate(t) ==
  /\ pc[t] = "cm_gen"
  /\ IF committed THEN Return(t) /\ UNCHANGED merkleData
                  ELSE Goto(t, "cm_tree")
                       /\ merkleData' = GenerateMerkleData(level)
  /\ UNCHANGED <<dropClass, ngasFileId, level, status, size, checksum, committed,
                 merkleRoot, ret, changes, fired>>

\* ... and the trees are built for the level read again.  At ALL a tree is
\* built from each mode's entry into the per-mode dict; the first mode
\* raises when _merkleData has no dict for it or _merkleTree is no dict.
\* Otherwise one tree is built from _merkleData, which raises on a list.
TreesBuildable ==
  IF level = ALL
    THEN /\ IsModeDict(merkleRoot)
         /\ \A i \in 1..7 : /\ RModes[i] \in Keys(merkleData)
                            /\ Get(merkleData, RModes[i]) # EMPTYLIST
    ELSE merkleData # EMPTYLIST

TreeRoots ==
  IF level = ALL
    THEN [i \in 1..7 |-> <<RModes[i], Root(Get(merkleData, RModes[i]))>>]
    ELSE Root(merkleData)

\* An exception leaves commit(), and completedrop() with it.
CommitTree(t) ==
  /\ pc[t] = "cm_tree"
  /\ \/ /\ TreesBuildable
        /\ merkleRoot' = TreeRoots
        /\ committed' = TRUE
        /\ Return(t)
     \/ /\ ~TreesBuildable
        /\ Goto(t, IF t = DROP THEN "done" ELSE "idle")
        /\ UNCHANGED <<merkleRoot, committed>>
  /\ UNCHANGED <<dropClass, ngasFileId, level, status, size, checksum, merkleData, ret,
                 changes, fired>>

\* completedrop() fires the record and the root it has after commit().
FireReproducibility ==
  /\ pc[DROP] = "cd_fire"
  /\ fired' = Append(fired, [data |-> merkleData, root |-> merkleRoot])
  /\ Goto(DROP, "done")
  /\ UNCHANGED <<dropClass, ngasFileId, level, status, size, checksum, committed,
                 merkleData, merkleRoot, ret, changes>>

Next ==
  \/ End \/ SetLevel \/ ClientCommit \/ FireReproducibility
  \/ \E t \in Threads : CommitGenerate(t) \/ CommitTree(t)

Spec == Init /\ [][Next]_vars

-----------------------------------------------------------------------------
(***************************************************************************)
(* Properties                                                              *)
(***************************************************************************)
Record == Seq(STRING \X (STRING \cup {NONE}))

TypeOK ==
  /\ dropClass \in DropClasses
  /\ ngasFileId \in NgasFileIds
  /\ level \in Flags
  /\ status \in {"INITIALIZED"} \cup EndStatuses
  /\ size \in {NONE, SIZE}
  /\ checksum \in {NONE, "", CHECKSUM}
  /\ committed \in BOOLEAN
  /\ \/ merkleData = EMPTYLIST
     \/ IsModeDict(merkleData)
        /\ \A i \in 1..7 : merkleData[i][2] \in {EMPTYLIST} \cup Record
     \/ ~IsModeDict(merkleData) /\ merkleData \in Record
  /\ pc \in [Threads -> STRING] /\ ret \in [Threads -> STRING]
  /\ changes \in 0..MaxLevelChanges

\* The fingerprint a drop should have at a level: the root of the record of
\* that level, and at ALL the roots of the seven records keyed by mode.
FingerprintOf(l) ==
  IF l = ALL THEN [i \in 1..7 |-> <<RModes[i], Root(GenerateLevel(RModes[i]))>>]
             ELSE Root(GenerateLevel(l))

\* Whenever no commit() is under way, a committed drop holds the record and
\* fingerprint of its current level and final facts: a level change after
\* commit() (spec: "resets committed state") never leaves the fingerprint
\* of the former level marked committed, and a later commit() recomputes.
FingerprintOfLevel ==
  (/\ \A t \in Threads : pc[t] \notin {"cm_gen", "cm_tree"}
   /\ committed)
    => /\ merkleData = GenerateMerkleData(level)
       /\ merkleRoot = FingerprintOf(level)

\* spec (Provenance engine): REPLICATE_SCI = RERUN u REPRODUCE,
\* REPLICATE_COMP = RECOMPUTE u REPRODUCE, REPLICATE_TOTAL = REPEAT u
\* REPRODUCE, NOTHING records nothing, and ALL holds the seven records
\* keyed by level name -- for the facts the drop has now, for both
\* AbstractDROP and NgasDROP's reproduce data.
RecordsFollowUnionRule ==
  /\ \A u \in UnionRule :
       ToSet(GenerateLevel(u[1]))
         = ToSet(GenerateLevel(u[2])) \cup ToSet(GenerateLevel(u[3]))
  /\ GenerateLevel(NOTHING) = <<>>
  /\ \A i \in 1..7 : Get(GenerateMerkleData(ALL), RModes[i])
                      = GenerateLevel(RModes[i])

\* A drop description holding every field that any layer selects.
FullDescription ==
  [f \in DOMAIN LgtBlockFields(RERUN)
          \cup UNION {DOMAIN LgBlockFields(c, RECOMPUTE, x) :
                        c \in FieldCategories, x \in CustomFields}
          \cup DOMAIN PgtUnrollBlockFields("data", RECOMPUTE)
          \cup DOMAIN PgtUnrollBlockFields("app", RECOMPUTE)
          \cup DOMAIN PgBlockFields(RECOMPUTE) |->
     CASE f \in {"inputPorts", "outputPorts", "inputLocalPorts",
                 "outputLocalPorts"}  -> <<"port1", "port2">>
       [] f \in {"node", "island"}    -> <<"#", "1">>
       [] OTHER                       -> "value"]

\* The same union rule for the field selections of reproducibility_fields
\* .py, at the drop's current level: at every layer, the record that a
\* replication level extracts from a drop description is the union of the
\* records of its two levels, and NOTHING extracts nothing.
FieldsFollowUnionRule ==
  \A c \in FieldCategories, k \in {"data", "app"}, x \in CustomFields :
    LET Rec(l) == LayerRecords(FullDescription, c, k, x, l) IN
      /\ \A u \in UnionRule : u[1] = level =>
           \A layer \in 1..5 :
             Rec(u[1])[layer] = MergeRecords(Rec(u[2])[layer], Rec(u[3])[layer])
      /\ level = NOTHING => \A layer \in 1..5 : Rec(NOTHING)[layer] = <<>>

=============================================================================
