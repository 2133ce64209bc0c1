------------------------ MODULE MCGenerationPipeline ------------------------
(* Two runs of one project and one authorization that either may redeem; the
   second run may find the day's allowance taken by the first. *)
EXTENDS GenerationPipeline, TLC

CONSTANTS k1, k2, a1, p1, qwen, skip

MCKeys      == {k1, k2}
MCProjects  == {p1}
MCProjectOf == (k1 :> p1) @@ (k2 :> p1)
==============================================================================
