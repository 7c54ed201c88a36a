-------------------------- MODULE MCFeatureAnalyzer --------------------------
(* FeatureAnalyzer on small binaries.                                      *)
EXTENDS FeatureAnalyzer, TLC

CONSTANTS f1, f2, f3, plt, w1, w2, ga, gb, gc

(* f1 is larger than f2 and f3, which are equal in size.                   *)
MCNumBlocks == (f1 :> 3) @@ (f2 :> 2) @@ (f3 :> 2) @@ (plt :> 1)

(* f1 and f2 share a feature, f3 has none.                                 *)
MCFeatPair == (f1 :> (ga :> 2 @@ gb :> 1)) @@ (f2 :> (gb :> 3 @@ gc :> 1))
              @@ (f3 :> <<>>) @@ (plt :> (ga :> 1))
=============================================================================
