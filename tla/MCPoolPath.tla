----------------------------- MODULE MCPoolPath -----------------------------
(***************************************************************************)
(* A core that keeps a window feeds a link whose pool is cut in two and    *)
(* drained by two DMAs. With an iter_count the ends stop by themselves.    *)
(***************************************************************************)
EXTENDS PoolPath

CONSTANT Written  \* objects the core writes
CONSTANT Window   \* the largest acquire of the core

NearEnds == {"core", "sender"}
NearRole == [e \in NearEnds |-> IF e = "core" THEN "fill" ELSE "drain"]
NearKind == [e \in NearEnds |-> IF e = "core" THEN "core" ELSE "dma"]
NearSelected == [e \in NearEnds |-> {0}]
NearAcquire == [e \in NearEnds |-> IF e = "core" THEN Window ELSE 1]
NearObjects == [e \in NearEnds |-> IF e = "core" THEN Written ELSE DrainTotal]
NearDepth == IF Filled > 0 THEN Size ELSE ObjectCount(Window)

LinkEnds == {"receiver", "left", "right"}
LinkRole == [e \in LinkEnds |-> IF e = "receiver" THEN "fill" ELSE "drain"]
LinkSelected == [e \in LinkEnds |->
  IF e = "receiver" THEN {0, 1} ELSE IF e = "left" THEN {0} ELSE {1}]
LinkObjects == [e \in LinkEnds |-> IF e = "receiver" THEN FillTotal ELSE Unbounded]
LinkDepth == ObjectCount(0)
=============================================================================
