------------------------ MODULE ReproducibilityFields ------------------------
(***************************************************************************)
(* The field selection of dlg/common/reproducibility/reproducibility_fields *)
(* .py: for each layer of the graph (logical graph template, logical graph, *)
(* physical graph template unroll and partition, physical graph) and each   *)
(* reproducibility level, the fields of a drop description that enter its  *)
(* provenance record, and extract_fields, which applies the selection to a *)
(* description.                                                             *)
(*                                                                         *)
(* A field selection is a function from field names to FieldOps; a drop    *)
(* description is a function from the field names it carries to values.   *)
(* Python's None for an absent key is the key being outside the domain.   *)
(***************************************************************************)
EXTENDS Integers, Sequences, FiniteSets, TLC

\* ReproducibilityFlags, in the order of ALL_RMODES.
NOTHING         == "NOTHING"
RERUN           == "RERUN"
REPEAT          == "REPEAT"
RECOMPUTE       == "RECOMPUTE"
REPRODUCE       == "REPRODUCE"
REPLICATE_SCI   == "REPLICATE_SCI"
REPLICATE_COMP  == "REPLICATE_COMP"
REPLICATE_TOTAL == "REPLICATE_TOTAL"
ALL             == "ALL"
RModes == <<RERUN, REPEAT, RECOMPUTE, REPRODUCE,
            REPLICATE_SCI, REPLICATE_COMP, REPLICATE_TOTAL>>
Flags  == {NOTHING, ALL} \cup {RModes[i] : i \in 1..7}

\* FieldOps
STORE == "STORE"
COUNT == "COUNT"
REMOVE_FIRST == "REMOVE_FIRST"

\* The levels whose records carry the recompute-only fields.
RecomputeLevels == {RECOMPUTE, REPLICATE_COMP}

\* A selection in which every field is stored.
Stored(names) == [f \in names |-> STORE]

\* extract_fields: every selected field the description holds, stored,
\* counted (len) or with its first character removed.
ExtractFields(drop, fields) ==
  [k \in DOMAIN fields \cap DOMAIN drop |->
     CASE fields[k] = STORE        -> drop[k]
       [] fields[k] = COUNT        -> Len(drop[k])
       [] fields[k] = REMOVE_FIRST -> Tail(drop[k])]

\* lgt_block_fields: nothing at NOTHING; REPRODUCE keeps the categories and
\* drops the four port counts.
LgtBlockFields(rmode) ==
  IF rmode = NOTHING THEN <<>>
  ELSE Stored({"categoryType", "category"})
       @@ IF rmode = REPRODUCE THEN <<>>
          ELSE [f \in {"inputPorts", "outputPorts", "inputLocalPorts",
                       "outputLocalPorts"} |-> COUNT]

\* The category-specific fields lg_block_fields adds, whatever the level
\* (the categories it passes over add none).
CategoryFields ==
  [c \in {"File", "Memory", "PythonApp", "Docker", "MKN", "Scatter", "Gather",
          "Loop", "GroupBy", "Branch", "Component", "BashShellApp", "MPI",
          "DynlibApp", "DynlibProcApp", "Plasma", "PlasmaFlight"} |->
     CASE c = "File" -> {"check_filepath_exists"}
       [] c = "Plasma" -> {"plasma_path", "object_id"}
       [] c = "PlasmaFlight" -> {"plasma_path", "object_id", "flight_path"}
       [] c = "MKN" -> {"m", "k", "n"}
       [] c = "Scatter" -> {"num_of_copies", "scatter_axis"}
       [] c = "Gather" -> {"num_of_inputs", "gather_axis"}
       [] c = "Loop" -> {"num_of_iter"}
       [] c = "GroupBy" -> {"group_key", "group_axis"}
       [] c \in {"Branch", "PythonApp", "Component"} -> {"appclass"}
       [] c = "BashShellApp" -> {"Arg01"}
       [] c = "MPI" -> {"num_of_procs"}
       [] c = "Docker" -> {"image", "command", "user", "ensureUserAndSwitch",
                           "removeContainer", "additionalBindings"}
       [] c \in {"DynlibApp", "DynlibProcApp"} -> {"libpath"}
       [] OTHER -> {}]

\* lg_block_fields: nothing at NOTHING, RERUN, REPRODUCE and REPLICATE_SCI;
\* otherwise the runtime fields, the category's fields, the file location
\* and the custom fields (custom = {} stands for custom_fields=None) at the
\* recompute levels.
LgBlockFields(category, rmode, custom) ==
  IF rmode \in {NOTHING, RERUN, REPRODUCE, REPLICATE_SCI} THEN <<>>
  ELSE Stored({"execution_time", "num_cpus", "inputApplicationName",
               "inputApplicationType", "data_volume"}
              \cup CategoryFields[category]
              \cup (IF category = "File" /\ rmode \in RecomputeLevels
                      THEN {"filepath", "dirname"} ELSE {})
              \cup (IF rmode \in RecomputeLevels THEN custom ELSE {}))

\* pgt_unroll_block_fields: the type, the timing of applications (not at
\* REPRODUCE), the storage of data drops and the rank at the recompute
\* levels.
\* Mutant: the rank is recorded at RECOMPUTE only.
PgtUnrollBlockFieldsRankRecomputeOnly(categoryType, rmode) ==
  IF rmode = NOTHING THEN <<>>
  ELSE Stored({"type"}
              \cup (IF rmode # REPRODUCE /\ categoryType # "data"
                      THEN {"dt"} ELSE {})
              \cup (IF categoryType = "data" THEN {"storage"} ELSE {})
              \cup (IF rmode = RECOMPUTE THEN {"rank"} ELSE {}))

PgtUnrollBlockFields(categoryType, rmode) ==
  IF rmode = NOTHING THEN <<>>
  ELSE Stored({"type"}
              \cup (IF rmode # REPRODUCE /\ categoryType # "data"
                      THEN {"dt"} ELSE {})
              \cup (IF categoryType = "data" THEN {"storage"} ELSE {})
              \cup (IF rmode \in RecomputeLevels THEN {"rank"} ELSE {}))

\* pgt_partition_block_fields and pg_block_fields: the node and island at
\* the recompute levels, with the leading character removed at the
\* partition layer.
PgtPartitionBlockFields(rmode) ==
  IF rmode \in RecomputeLevels
    THEN [f \in {"node", "island"} |-> REMOVE_FIRST] ELSE <<>>

PgBlockFields(rmode) ==
  IF rmode \in RecomputeLevels THEN Stored({"node", "island"}) ELSE <<>>

\* The records of one drop description at every layer, for one level.
LayerRecords(drop, category, categoryType, custom, rmode) ==
  << ExtractFields(drop, LgtBlockFields(rmode)),
     ExtractFields(drop, LgBlockFields(category, rmode, custom)),
     ExtractFields(drop, PgtUnrollBlockFields(categoryType, rmode)),
     ExtractFields(drop, PgtPartitionBlockFields(rmode)),
     ExtractFields(drop, PgBlockFields(rmode)) >>

\* spec.md (Provenance engine): the replication levels are unions of two
\* levels each.
UnionRule == { <<REPLICATE_SCI, RERUN, REPRODUCE>>,
               <<REPLICATE_COMP, RECOMPUTE, REPRODUCE>>,
               <<REPLICATE_TOTAL, REPEAT, REPRODUCE>> }

\* Union of two records taken key by key (dict.update).
MergeRecords(r, s) == [k \in DOMAIN r \cup DOMAIN s |->
                         IF k \in DOMAIN s THEN s[k] ELSE r[k]]

=============================================================================
