--------------------------- MODULE MCSchedulerRuns ---------------------------
(* Instances of SchedulerRuns for TLC. *)
EXTENDS SchedulerRuns

Decided(universe, tickers, error) ==
    [universe |-> universe, tickers |-> tickers, error |-> error]

\* A success and a failure that is retried.
TwoOutcomes == {Decided(TRUE, "all", "none"), Decided(TRUE, "some", "observation")}

AllOutcomes == Outcome

=============================================================================
