---------------------------- MODULE MCHotReload ----------------------------
(* Bounded instances of HotReload: two sources, one of which exists at       *)
(* startup; configurations that every check accepts, that only the API       *)
(* accepts, or that only a file may hold; and two files, one of them refused. *)
EXTENDS HotReload

CONSTANTS n1, n2

MCSource(type) ==
    [type |-> type, path |-> "", container |-> "", unit |-> "", pod |-> "",
     labelSelector |-> "", namespace |-> "", kubeconfig |-> "", priority |-> "",
     outputFormat |-> "", parser |-> ""]

MCFile == [MCSource("file") EXCEPT !.path = "absolute"]
MCDocker == [MCSource("docker") EXCEPT !.container = "good"]
MCNoPod == MCSource("kubernetes")
MCBadUnit == [MCSource("journalctl") EXCEPT !.unit = "bad"]
MCOther == MCSource("other")

MCNames == {n1, n2}
MCConfigs == {MCFile, MCDocker, MCNoPod, MCBadUnit, MCOther}
MCInitRows == [n \in {n1} |-> MCFile]
MCFiles == {[n \in {n1, n2} |-> IF n = n1 THEN MCDocker ELSE MCBadUnit],
            [n \in {n2} |-> MCNoPod]}

=============================================================================
