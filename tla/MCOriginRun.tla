----------------------------- MODULE MCOriginRun -----------------------------
(* OriginRun on two binaries with the same last path component.            *)
EXTENDS OriginRun

CONSTANTS old, new, g, h, x

MCName == (old :> "bin") @@ (new :> "bin")
MCExtractions == <<"idiom 1", "graphlet 1">>
MCText == (old :> {10, 20}) @@ (new :> {10, 30})

(* In old, 10 has no idiom of size 1; in new, 30 has no kept feature.      *)
MCFeat ==
  (old :> << 10 :> {} @@ 20 :> {g, h}, 10 :> {x} @@ 20 :> {} >>) @@
  (new :> << 10 :> {g} @@ 30 :> {h}, 10 :> {} @@ 30 :> {} >>)
MCCutTo == (1 :> {}) @@ (12 :> {1})
MCEndAddr == (old :> 99) @@ (new :> 88)
=============================================================================
