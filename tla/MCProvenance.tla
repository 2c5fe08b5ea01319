---------------------------- MODULE MCProvenance ----------------------------
(***************************************************************************)
(* Model-checking instance of Provenance.                                  *)
(***************************************************************************)
EXTENDS Provenance

\* Every ReproducibilityFlags member may be passed to the setter.
AnyLevel == Flags

\* One category with file location fields, one with its own fields and one
\* that adds none; custom_fields None or one application argument.
SomeCategories == {"File", "MKN", "Memory"}
SomeCustomFields == {{}, {"arg1"}}

=============================================================================
