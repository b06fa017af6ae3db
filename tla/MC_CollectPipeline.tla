------------------------- MODULE MC_CollectPipeline -------------------------
(***************************************************************************)
(* CollectPipeline on two jobs: j1 with two regions of one account and one *)
(* of another, j2 with a region j1 scans as well.                          *)
(***************************************************************************)
EXTENDS CollectPipeline, TLC

CONSTANTS j1, j2, i1, i2, i3, i4, w1, w2

\* An item of a scope <<account, region>>.
MCJobOf == [m \in Msgs |-> IF m = i4 THEN j2 ELSE j1]
MCScopes == (i1 :> <<"acc1", "r1">>) @@ (i2 :> <<"acc1", "r2">>)
              @@ (i3 :> <<"acc2", "r1">>) @@ (i4 :> <<"acc1", "r1">>)
MCScopeOf == [m \in Msgs |-> MCScopes[m]]
MCAccountOf == [s \in {MCScopeOf[m] : m \in Msgs} |-> s[1]]

\* One process with all the threads, or a process per thread.
MCOneProc == [w \in Workers |-> "p1"]
MCTwoProcs == (w1 :> "p1") @@ (w2 :> "p2")
=============================================================================
