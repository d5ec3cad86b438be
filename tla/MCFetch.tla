-------------------------------- MODULE MCFetch --------------------------------
(***************************************************************************)
(* FetchStage with a ring of five words, more than the FIFO and the bus    *)
(* hold together, and contents in which long, short and failing            *)
(* instructions follow each other.                                         *)
(***************************************************************************)
EXTENDS FetchStage

Content(shorts, bads) == [short |-> [h \in Halves |-> h \in shorts], bad |-> bads]

MCImages ==
  {Content({}, {}),                      \* from an odd address: all unaligned
   Content({0, 5, 8, 9}, {3}),
   Content({3, 6, 7}, {0, 4})}

MCTargets == {0, 5}
================================================================================
