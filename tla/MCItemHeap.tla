----------------------------- MODULE MCItemHeap -----------------------------
(* Instances of ItemHeap.  Chain: one clock, the sets of values           *)
(* of two items that fill several chunks.  Plain: tags of one value, with  *)
(* the options on and off, on two clocks of different frequencies that     *)
(* start together, the first in two phases.  Late: the second starts later *)
EXTENDS ItemHeap, TLC

CONSTANTS i, j, a, b, t, s, e

Together == [ratio |-> <<1, 2>>, divisions |-> <<2, 1>>,
             internal |-> <<1, 2>>, start |-> <<2, 1>>]
Alone    == [Together EXCEPT !.start = <<2, 9>>]
Apart    == [Together EXCEPT !.start = <<1, 1>>]

Plain == {[items |-> {i}, tags |-> {t}, sovTags |-> {}, events |-> {e}, maxEntries |-> 4,
           compressMutable |-> o, backPropagate |-> o] : o \in BOOLEAN}

Chain == [items |-> {i, j}, tags |-> {}, sovTags |-> {s}, events |-> {}, maxEntries |-> 6,
          compressMutable |-> FALSE, backPropagate |-> FALSE]

Regular == {Alone @@ Chain} \cup {Together @@ p : p \in Plain}
Late    == {Apart @@ p : p \in Plain}

Symmetry == Permutations({a, b})
=============================================================================
