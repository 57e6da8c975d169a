--------------------------- MODULE MCDistribution ---------------------------
(***************************************************************************)
(* Small instances of Distribution for TLC.                                *)
(***************************************************************************)
EXTENDS Distribution, TLC

CONSTANTS m1

\* The objects of an area are on the first active server of a list.
AreaOf(first, last, comps) == [startId |-> first, lastId |-> last, compId |-> comps]

\* Two areas, each with the other's server to stand in
TwoAreas == <<AreaOf(0, 0, <<0, 1>>), AreaOf(1, 1, <<1, 0>>)>>
=============================================================================
