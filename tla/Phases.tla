------------------------------- MODULE Phases -------------------------------
(* The phases of the discovery pipeline, as orchestrator.py lists them. *)

AllPhases ==
  <<"inventory", "extract", "fingerprint", "pii_scan", "candidate_gen",
    "validate", "data_quality", "composite_fk", "polymorphic_fk", "jsonb_fk",
    "inheritance", "pii_propagation", "pii_leak", "clustering",
    "cardinality_refine", "report">>

\* The phases behind a config gate and the exception-swallowing wrapper.
OptionalPhases ==
  {"data_quality", "composite_fk", "polymorphic_fk", "jsonb_fk",
   "inheritance", "pii_propagation", "pii_leak", "clustering",
   "cardinality_refine"}
=============================================================================
