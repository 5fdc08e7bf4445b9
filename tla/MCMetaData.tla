------------------------------ MODULE MCMetaData ------------------------------
(***************************************************************************)
(* MetaData with a 4-bit int and a 6-bit size_t: products below 8 fit the  *)
(* int, products below 64 fit the size_t.                                  *)
(***************************************************************************)
EXTENDS MetaData

DimValues == {0, 1, 2, 3, 8}

AllShapes == UNION {[1 .. n -> DimValues] : n \in 1 .. 3}

LargeShapes == {<<2, 4>>, <<3, 3>>, <<8>>}

(* Bytes of other origin: the ranks and the lengths go together only       *)
(* sometimes.  A rank of 32 makes the expected length wrap around to that  *)
(* of a record without dimensions, 33 to that of one dimension.            *)
OddBuffers ==
  {[length |-> 2 * n, words |-> [k \in 1 .. n |-> r]] :
     n \in 2 .. 5, r \in 0 .. 4 \cup {32, 33}}
=============================================================================
