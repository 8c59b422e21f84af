--------------------------- MODULE MCWindowEvents ---------------------------
(* Two names, a key that has two codes, one that has one or none.           *)
EXTENDS WindowEvents, TLC

\* The second layout moves "a", and has "menu" where no window looks.
SmallMappings ==
  {(8 :> {}) @@ (17 :> {"a"}) @@ (62 :> {"menu", "a"}) @@ (255 :> {}),
   (8 :> {"a"}) @@ (17 :> {}) @@ (62 :> {"a"}) @@ (255 :> {"menu"})}

NameSymmetry == Permutations(Names)
=============================================================================
