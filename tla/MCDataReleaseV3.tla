-------------------------- MODULE MCDataReleaseV3 --------------------------
(***************************************************************************)
(* Four deployments in one run: a release staged by two publishers under   *)
(* timeouts, the retained history under publications and operators, the    *)
(* migration of a legacy head, and a publication that no operator disturbs.*)
(***************************************************************************)
EXTENDS DataReleaseV3

Row(key, refs) ==
  [key |-> key, refs |-> refs, top |-> 0, at |-> 1, valid |-> TRUE, seen |-> 1]
Pack(key, at, valid) == [Row(key, {}) EXCEPT !.at = at, !.valid = valid]
Batch(kind, rows) == [kind |-> kind, rows |-> rows]
PlanOf(rid, asOf, batches) ==
  [rid |-> rid, asOf |-> asOf, policy |-> TRUE, batches |-> batches]
Listing(packs) == <<Batch("repacks", packs)>>

\* A whole catalog; two plans that both claim one release, and a third whose
\* repack advertises a chase that is never staged.
Whole(chases) ==
  <<Batch("categories", <<Row(1, {}), Row(2, {<<"categories", 1>>})>>),
    Batch("collectibles", <<Row(1, {<<"categories", 2>>})>>),
    Batch("repacks", <<[Row(1, {<<"categories", 1>>, <<"collectibles", 1>>}) EXCEPT !.top = 7],
                       Row(2, {<<"categories", 2>>}), Row(3, {<<"categories", 2>>})>>),
    Batch("repacks", <<Row(4, {<<"categories", 2>>})>>)>> \o chases
TopChase == Batch("chases",
  <<[Row(7, {<<"repacks", 1>>, <<"collectibles", 1>>}) EXCEPT !.top = 1]>>)
SideChase == Batch("chases", <<Row(8, {<<"repacks", 2>>, <<"collectibles", 1>>})>>)

\* Releases r1 to r3, l1 and l2 list packs with valid and failed calculations,
\* published in and out of the order in which they were made.
MCPlan ==
  ("n1" :> PlanOf("r1", 6, Listing(<<Pack(1, 6, TRUE), Pack(2, 4, TRUE), Pack(3, 4, FALSE)>>)))
  @@ ("n2" :> PlanOf("r2", 5, Listing(<<Pack(1, 5, FALSE), Pack(2, 5, FALSE)>>)))
  @@ ("n3" :> PlanOf("r3", 5, Listing(<<Pack(1, 3, TRUE), Pack(2, 1, TRUE)>>)))
  @@ ("o1" :> PlanOf("l1", 1, Listing(<<Pack(1, 1, TRUE)>>)))
  @@ ("o2" :> PlanOf("l2", 2, Listing(<<Pack(1, 2, FALSE), Pack(2, 2, TRUE)>>)))
  @@ ("whole" :> PlanOf("r1", 2, Whole(<<TopChase>>)))
  @@ ("other" :> PlanOf("r1", 2, Whole(<<TopChase, SideChase>>)))
  @@ ("missing" :> PlanOf("r2", 2, Whole(<<SideChase>>)))
MCLegacy == <<"o1", "o2">>

Deploy(shape, first, second, tags, moves, timeoutsAllowed) ==
  [shape |-> shape, assigned |-> ("w1" :> first) @@ ("w2" :> second),
   tags |-> tags, migrates |-> shape # "empty", moves |-> moves,
   timeouts |-> timeoutsAllowed]
MCDeployments ==
  {Deploy("empty", {"whole", "missing"}, {"other"}, {0}, 2, 1),
   Deploy("empty", {"n1", "n2", "n3"}, {}, {0, 1}, 4, 0),
   Deploy("activated", {"n3"}, {}, {0}, 4, 0),
   Deploy("rolled_back", {"n3"}, {}, {0}, 5, 1),
   Deploy("activated", {"n3"}, {}, {}, 3, 1)}
============================================================================
