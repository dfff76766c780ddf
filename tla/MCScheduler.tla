---------------------------- MODULE MCScheduler ----------------------------
(***************************************************************************)
(* Small deployments of Scheduler: a task under each misfire policy, with  *)
(* and without a limit that cuts its lists, and a task and a pipeline that *)
(* share an instant, with OverlapSkip.                                     *)
(***************************************************************************)
EXTENDS Scheduler

MCDefinition(kind, cron, misfire, overlap, lookback, maxCatchUp) ==
  [kind |-> kind, cron |-> cron, misfire |-> misfire, overlap |-> overlap,
   lookback |-> lookback, maxCatchUp |-> maxCatchUp]

MCPolicies ==
  {<<MCDefinition("task", {2, 3}, "catch_up", "allow", 0, 1)>>,
   <<MCDefinition("task", {2, 3}, "skip", "allow", 2, 2)>>,
   <<MCDefinition("task", {2, 3}, "latest", "allow", 2, 2)>>,
   <<MCDefinition("task", {3}, "catch_up", "skip", 1, 0),
     MCDefinition("pipeline", {3}, "latest", "skip", 0, 1)>>}
MCOverlapOnly == {<<MCDefinition("task", {1, 2}, "catch_up", "skip", 1, 2)>>}

MCIdempotencyKey == (1..2) \X (1..MaxTime)
MCDescendants == << >>   \* no pipeline nodes
MCInputs == [definition: 1..2, at: 1..MaxTime]

=============================================================================
