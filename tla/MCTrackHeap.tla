---------------------------- MODULE MCTrackHeap ----------------------------
(* A small instance of TrackHeap: a queue and a table, rob, on two clocks, *)
(* an edge of two positions and some latency, and one of neither.          *)
EXTENDS TrackHeap

CONSTANTS queue, rob, wire, tick, c1, c2, t, slot, a

MCNodes == {queue, rob}
MCEdges == {wire, tick}
MCClocks == {c1, c2}
MCTags == {slot, t}
MCClockOf == queue :> c1 @@ rob :> c2 @@ wire :> c2 @@ tick :> c1
MCLayout == queue :> <<2>> @@ rob :> <<2, 2>>
MCBandwidth == wire :> 2 @@ tick :> 0
MCLatency == wire :> 2 @@ tick :> 0
=============================================================================
