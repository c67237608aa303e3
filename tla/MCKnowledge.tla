----------------------------- MODULE MCKnowledge -----------------------------
(* Small instances of KnowledgeIngest for TLC.  Their liveness properties  *)
(* rule symmetry out.                                                      *)
EXTENDS KnowledgeProperties, TLC
=============================================================================
