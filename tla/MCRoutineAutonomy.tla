--------------------------- MODULE MCRoutineAutonomy ---------------------------
(* Instances of RoutineAutonomy for TLC. *)
EXTENDS RoutineAutonomy

Sound == [commits |-> 1, tidy |-> TRUE, launchedProvider |-> FALSE,
          files |-> {"dev", "test/dev", "docs"}, implementation |-> 8,
          schemaVersion |-> FALSE, forcePush |-> FALSE, targeted |-> TRUE, gates |-> TRUE]

\* A candidate to publish and one that reaches into the product.
SoundOrOutside == <<Sound, [Sound EXCEPT !.files = {"dev", "src"}]>>
================================================================================
