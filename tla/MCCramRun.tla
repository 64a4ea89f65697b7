----------------------------- MODULE MCCramRun -----------------------------
(* Instantiates CramRun for TLC.  A tree d0 holds d1 (a.t and an empty    *)
(* b.t), a hidden .h that holds d3 (another a.t), and c.t of its own; d4 *)
(* is a directory with no tests.  The collision variant gives files     *)
(* called "tmp" and "a.t-1" on                                            *)
(* the command line.                                                      *)
EXTENDS CramRun

Base(n, sfx) == [name |-> n, sfx |-> sfx]
File(d, n, sfx, empty) == [dir |-> d, base |-> Base(n, sfx), empty |-> empty]
Dir(hidden, subdirs) == [hidden |-> hidden, subdirs |-> subdirs]

MCProcTmp == Base("tmp", <<>>)
MCTestNames == {"a.t", "b.t", "c.t"}
MCNameOrder == <<"a.t", "a.t-1", "b.t", "c.t", "tmp">>

MCTree ==
  [d \in {"d0", "d1", ".h", "d3", "d4"} |->
     IF d = "d0" THEN Dir(FALSE, {"d1", ".h"})
     ELSE IF d = ".h" THEN Dir(TRUE, {"d3"})
     ELSE Dir(FALSE, {})]

MCFiles ==
  { File("d1", "a.t", <<>>, FALSE), File("d1", "b.t", <<>>, TRUE),
    File("d3", "a.t", <<>>, FALSE), File("d0", "c.t", <<>>, FALSE) }

(* d0 as "d0" and as ".", d1, the empty d4, and d1/a.t, up to two       *)
(* arguments.                                                              *)
MCPathLists ==
  BoundedSeq({DirArg("d0", FALSE), DirArg("d0", TRUE), DirArg("d1", FALSE),
              DirArg("d4", FALSE), FileArg(File("d1", "a.t", <<>>, FALSE))}, 2)

(* A test file named "tmp", and one named "a.t-1" beside two files named *)
(* a.t, given on the command line.                                        *)
MCTreeFlat == [d \in {"d1", "d2", "d3"} |-> Dir(FALSE, {})]

MCFilesCollision ==
  { File("d1", "a.t", <<>>, FALSE), File("d2", "a.t", <<>>, FALSE),
    File("d2", "tmp", <<>>, FALSE), File("d3", "a.t", <<1>>, FALSE) }

MCPathListsCollision == BoundedSeq({FileArg(f) : f \in MCFilesCollision}, 3)
=============================================================================
