-------------------------- MODULE MCAsyncGeneration --------------------------
(* Two idempotency keys of one project, a second project that an authorization
   may be issued for, and one authorization. *)
EXTENDS AsyncGeneration, TLC

CONSTANTS k1, k2, a1, p1, p2, qwen, kimi, skip, snap

MCKeys      == {k1, k2}
MCProjects  == {p1, p2}
MCProjectOf == (k1 :> p1) @@ (k2 :> p1)
==============================================================================
