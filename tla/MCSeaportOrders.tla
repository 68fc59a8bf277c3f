--------------------------- MODULE MCSeaportOrders ---------------------------
(***************************************************************************)
(* Small instances of SeaportOrders: a listing of four units that can be    *)
(* bought in parts, one with a royalty, two sold as a whole, and two whose  *)
(* price is no multiple of their size.                                     *)
(***************************************************************************)
EXTENDS SeaportOrdersProperties, TLC

MCListings ==
    {[size |-> 4, toSeller |-> 40, toOthers |-> 0, partial |-> TRUE],
     [size |-> 4, toSeller |-> 40, toOthers |-> 20, partial |-> TRUE],
     [size |-> 2, toSeller |-> 6, toOthers |-> 2, partial |-> FALSE],
     [size |-> 4, toSeller |-> 6, toOthers |-> 0, partial |-> TRUE],
     [size |-> 4, toSeller |-> 6, toOthers |-> 2, partial |-> FALSE]}

Symmetry == Permutations(Purchases)

=============================================================================
