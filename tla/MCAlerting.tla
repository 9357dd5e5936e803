----------------------------- MODULE MCAlerting -----------------------------
(* Bounded instance of Alerting: a rate rule and a health rule to start      *)
(* with, edits that turn them into rules of every type, one of which does not *)
(* compile, and two goroutines that report health at the same time.          *)
EXTENDS Alerting, TLC

MCRule(type, cooldown) ==
    [type |-> type, pattern |-> "valid", level |-> "error", source |-> "",
     threshold |-> 2, window |-> 1, cooldown |-> cooldown]

On(rule) == [rule |-> rule, enabled |-> TRUE]

MCInitialRows == (1 :> On(MCRule("error_rate", 0))) @@ (2 :> On(MCRule("health_change", 2)))

MCRequests ==
    {On([MCRule("error_rate", 2) EXCEPT !.source = "app"]),
     [On(MCRule("health_change", 1)) EXCEPT !.enabled = FALSE],
     On([MCRule("pattern", 1) EXCEPT !.pattern = "invalid"]),
     On(MCRule("pattern", 1)),
     On(MCRule("level", 0))}

MCLines == {[kind |-> "line", source |-> "app", level |-> "error", matches |-> TRUE]}

=============================================================================
