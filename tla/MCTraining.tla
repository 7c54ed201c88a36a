------------------------------ MODULE MCTraining ------------------------------
(* Three binaries: two of the same name with different toolchains, and one  *)
(* of that name in a subdirectory of the first.                             *)
EXTENDS Training

CONSTANTS b1, b2, b3, f1, f2, f3, f4

MCBinaries == {b1, b2, b3}
(* No function has f4: a string cut at its end.                             *)
MCFeatures == {f1, f2, f3, f4}
MCDir == (b1 :> "proj/GCC/4/O2") @@ (b2 :> "proj/GCC/4/O3") @@ (b3 :> "proj/GCC/4/O2")
MCToolchain == (b1 :> "GCC-4-O2") @@ (b2 :> "GCC-4-O3") @@ (b3 :> "GCC-4-O2")
MCName == [b \in MCBinaries |-> "a.out"]
MCText == (b1 :> {1, 16}) @@ (b2 :> {1}) @@ (b3 :> {1})

(* 16 is 10 in hexadecimal.                                                 *)
MCCutTo == (1 :> {}) @@ (16 :> {1})

(* Function 1 of b2 has no feature of the second size.                      *)
MCFeat ==
  (b1 :> << (1 :> ((f1 :> 2) @@ (f2 :> 1))) @@ (16 :> (f2 :> 2)), (1 :> (f3 :> 1)) @@ (16 :> <<>>) >>) @@
  (b2 :> << (1 :> ((f2 :> 4))), (1 :> <<>>) >>) @@
  (b3 :> << (1 :> (f1 :> 1)), (1 :> (f3 :> 2)) >>)

MCFileLists == { <<b1, b2>>, <<b2, b1>> }
SubdirectoryFileLists == { <<b1, b3>> }
=============================================================================
