---------------------------- MODULE SourceConfig ----------------------------
(***************************************************************************)
(* What a source configuration must satisfy, on each of the ways it goes:  *)
(* through a configuration file (internal/config), through the API         *)
(* (internal/api/handlers_sources.go) with the constraints of the table    *)
(* behind it, and into a tailer (cmd/tail.go and internal/tailer).         *)
(*                                                                         *)
(* A value that is checked is abstracted to the outcomes of its checks:    *)
(* "" is absent, "good" passes, anything else fails.  A path is relative   *)
(* or absolute.                                                            *)
(***************************************************************************)
EXTENDS Naturals

SourceTypes == {"file", "docker", "journalctl", "stdin", "kubernetes"}

Source == [type : SourceTypes \cup {"other"},
           path : {"", "relative", "absolute"},
           container : {"", "good", "bad"}, unit : {"", "good", "bad"},
           pod : {"", "good", "bad"}, labelSelector : {"", "good", "bad"},
           namespace : {"", "good", "bad"},
           kubeconfig : {"", "relative", "absolute", "absent"},
           priority : {"", "good", "bad"}, outputFormat : {"", "good", "bad"},
           parser : {"", "good", "bad"}]

\* Mutant: a kubernetes source may name nothing.
TargetGivenAny(c) == TRUE

\* The fields that say what to read.
TargetGiven(c) ==
    /\ c.type = "file" => c.path # ""
    /\ c.type = "docker" => c.container # ""
    /\ c.type = "journalctl" => c.unit # ""
    /\ c.type = "kubernetes" => (c.pod = "") # (c.labelSelector = "")

\* The fields that only one type may have.
FieldsBelong(c) ==
    /\ c.priority # "" \/ c.outputFormat # "" => c.type = "journalctl"
    /\ c.namespace # "" \/ c.labelSelector # "" \/ c.kubeconfig # "" => c.type = "kubernetes"

\* ValidateConfig, for one source of a configuration file.
ValidateConfig(c) ==
    /\ c.type \in SourceTypes
    /\ TargetGiven(c)
    /\ c.type = "kubernetes" => c.labelSelector \in {"", "good"} /\ c.kubeconfig # "absent"
    /\ c.priority \in {"", "good"}
    /\ c.outputFormat \in {"", "good"}
    /\ FieldsBelong(c)
    /\ c.parser \in {"", "good"}

\* The CHECK constraints of the sources table.
TableAccepts(c) == c.type \in SourceTypes /\ c.parser \in {"", "good"}

validateSourcePath(p) == p = "absolute"

\* handleCreateSource.
CreateAccepts(c) ==
    /\ TableAccepts(c)
    /\ c.type = "file" => validateSourcePath(c.path)
    /\ c.type = "kubernetes" /\ c.kubeconfig # "" => validateSourcePath(c.kubeconfig)

\* handleUpdateSource: what is left out is not asked for.
UpdateAccepts(c) ==
    /\ c.type = "file" /\ c.path # "" => validateSourcePath(c.path)
    /\ c.kubeconfig # "" => validateSourcePath(c.kubeconfig)
    /\ TableAccepts(c)

ValidateExternalName(name) == name = "good"

NewDockerTailer(c) == ValidateExternalName(c.container)

NewJournalctlTailer(c) == ValidateExternalName(c.unit)

NewKubernetesTailer(c) ==
    /\ (c.pod = "") # (c.labelSelector = "")
    /\ \A name \in {c.pod, c.container, c.namespace} \ {""} : ValidateExternalName(name)
    /\ c.labelSelector \in {"", "good"}

\* createTailer makes a tailer; nothing is opened yet.
createTailer(c) ==
    \/ c.type \in {"file", "stdin"}
    \/ c.type = "docker" /\ NewDockerTailer(c)
    \/ c.type = "journalctl" /\ NewJournalctlTailer(c)
    \/ c.type = "kubernetes" /\ NewKubernetesTailer(c)

=============================================================================
