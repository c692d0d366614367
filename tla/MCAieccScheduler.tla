-------------------------- MODULE MCAieccScheduler --------------------------
(***************************************************************************)
(* Compilation graphs in the shape aiecc builds, small enough to check.    *)
(***************************************************************************)
EXTENDS AieccScheduler

Numbers(n) == 1..n

\* Every edge that has items writes a file of its own.
OwnPaths == [u \in Edges |-> IF u \in Fan /\ KeysOf[u] = {} THEN <<>> ELSE <<u>>]

\* A resumed build. 1 is restored and read directly by 8 and through the filter 2;
\* 4 produces nothing, so that 5 and 6 are empty fan-outs. 9 moves from the items
\* of 8, and the filter 10 hands its own on to the bundle 12. 8 and 11 ask for
\* their input in vain: 1 has another reader, and 3 is a checkpoint's frontier.
ResumeInputs ==
  <<<<>>, <<1>>, <<2>>, <<>>, <<4>>, <<5>>, <<6>>, <<1>>, <<8>>, <<9>>, <<3>>,
    <<11, 10>>, <<7, 12>>, <<12>>>>
ResumeProduced ==
  <<{"a", "b"}, {"a"}, {}, {}, {}, {}, {"all"}, {}, {}, {"a"}, {}, {}, {"all"}, {"x"}>>
FourteenEdges == Numbers(14)
=============================================================================
