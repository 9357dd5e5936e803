----------------------------- MODULE MCWriters -----------------------------
(* Bounded instance of Writers: files with and without compression, lines    *)
(* that fit the file and one that does not, and a batch size that is refused. *)
EXTENDS Writers

MCConfig(max, age, gz, batch, min) ==
    [maxSize |-> max, maxAge |-> age, compress |-> gz, batchSize |-> batch, minLevel |-> min]

MCConfigs == {MCConfig(2, 1, TRUE, 2, "fatal"), MCConfig(2, 0, FALSE, 2, "warn"),
              MCConfig(0, 0, FALSE, 0, ""), MCConfig(2, 1, FALSE, 4, "")}

MCLines == {[len |-> 1, level |-> "error"], [len |-> 3, level |-> "odd"]}

=============================================================================
