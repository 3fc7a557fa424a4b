----------------------------- MODULE MCWalkDirs -----------------------------
(* Two walkers that meet up to two entries each, of three files two of which *)
(* become the same object.                                                   *)
EXTENDS WalkDirs

MCPackets == {[file |-> "f1", object |-> "a"], [file |-> "f2", object |-> "a"],
              [file |-> "f2", object |-> "b"]}
=============================================================================
