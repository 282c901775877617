----------------------------- MODULE MCMetrics -----------------------------
(***************************************************************************)
(* Three parts of the metrics, each shared by goroutines; a behaviour has  *)
(* one of them. The series budget leaves room for only a few of the        *)
(* combinations the label can make, for two goroutines; two goroutines     *)
(* register two names as two kinds, with time for a retry; and a test      *)
(* reads the exporter twice while the SDK collects twice.                    *)
(***************************************************************************)
EXTENDS MetricDimensions, MetricsRegistry, Exporter

CONSTANTS model, \* the one label: the request model
          large, \* a declared value of it
          other  \* an undeclared one

MCAllowed == [k \in Labels |-> {large}]

VARIABLE part

OneRegistry == RegistryInit /\ ~configured /\ want = [c \in Callers |-> CHOOSE w \in Names \X Kinds : TRUE]

MCInit ==
  \/ part = "dimensions" /\ Init /\ OneRegistry /\ ExporterInit
  \/ part = "registry" /\ Init /\ RegistryInit /\ ExporterInit
  \/ part = "exporter" /\ Init /\ OneRegistry /\ ExporterInit

MCNext ==
  /\ UNCHANGED part
  /\ \/ part = "dimensions" /\ Next /\ UNCHANGED <<registryVars, exporterVars>>
     \/ part = "registry" /\ RegistryNext /\ UNCHANGED <<vars, exporterVars>>
     \/ part = "exporter" /\ ExporterNext /\ UNCHANGED <<vars, registryVars>>

mcVars == <<part, vars, registryVars, exporterVars>>
registryOnly == UNCHANGED <<part, vars, exporterVars>>

\* MetricsRegistry's fairness.
MCSpec ==
  /\ MCInit /\ [][MCNext]_mcVars
  /\ \A c \in Callers : /\ WF_mcVars(part = "registry" /\ Step(c) /\ registryOnly)
                        /\ SF_mcVars(part = "registry" /\ Lock(c) /\ registryOnly)
=============================================================================
