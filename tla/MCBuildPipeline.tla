-------------------------- MODULE MCBuildPipeline --------------------------
(* Instances of BuildPipeline for TLC. *)
EXTENDS BuildPipeline

MCReq(profile, type, strip, dev, services, client) ==
  [profile |-> profile, type |-> type, strip |-> strip, dev |-> dev,
   threads |-> "single", services |-> services, client |-> client]

MCDebug == MCReq("debug", "", FALSE, FALSE, TRUE, TRUE)
\* Whole builds of the two named profiles, and a release of one half of the project.
MCPlain == {MCDebug, MCReq("release", "", FALSE, FALSE, FALSE, TRUE),
            MCReq("release", "", FALSE, FALSE, TRUE, FALSE)}
MCStrip == {MCReq("debug", "", TRUE, FALSE, TRUE, FALSE)}
\* Services alone, with a build type of one's own.
MCCustom == {MCReq("custom", "Debug", FALSE, FALSE, TRUE, FALSE),
             MCReq("custom", "RelWithDebInfo", FALSE, FALSE, TRUE, FALSE)}
MCNothing == {}

MCDev == {MCReq("debug", "", FALSE, TRUE, TRUE, TRUE)}
\* Three services: 1 is the edge. A chain against the order of names, a diamond, a cycle.
MCServices == {1, 2, 3}
MCConsumption == [v \in 0..MaxEdits |->
  CASE v = 0 -> {<<1, 2>>, <<2, 3>>, <<2, 2>>}
    [] v = 1 -> {<<2, 1>>, <<3, 1>>}
    [] OTHER -> {<<2, 3>>, <<3, 2>>, <<1, 2>>}]
=============================================================================
