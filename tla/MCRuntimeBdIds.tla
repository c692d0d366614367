--------------------------- MODULE MCRuntimeBdIds ---------------------------
(* Instances of RuntimeBdIds for TLC. *)
EXTENDS RuntimeBdIdsInv

\* Tasks of one BD on either channel, started once.
OnceShapes ==
  [channel : Channels, bds : {1}, token : BOOLEAN, starts : {1}, pin : {NoId}]

\* On channel 1 chains of two BDs with a token and single BDs started twice; on
\* channel 0, which has one id left, tasks that pin it.
TileShapes ==
  [channel : {1}, bds : {2}, token : {TRUE}, starts : {1}, pin : {NoId}]
    \cup [channel : {1}, bds : {1}, token : {FALSE}, starts : {2}, pin : {NoId}]
    \cup [channel : {0}, bds : {1}, token : {FALSE}, starts : {1}, pin : {1}]

\* Of these a single BD needs the next push, a task on channel 0 two more.
NeedsNothing == [s \in Shapes |-> 0]
TileNeeds ==
  [s \in Shapes |-> IF s.channel = 0 THEN 2 ELSE IF s.token THEN 0 ELSE 1]
=============================================================================
