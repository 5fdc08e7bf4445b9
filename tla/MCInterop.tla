------------------------------ MODULE MCInterop ------------------------------
(* An instance of Interop. *)
EXTENDS Interop

\* The metadata key of x is the key of a handle that is named like it.
MCNames == {<<"x">>, <<Prefix, "x">>}

MCNumbers ==
  {[class |-> "int", value |-> 1], [class |-> "int", value |-> -5],
   [class |-> "int64", value |-> 9], [class |-> "float32", value |-> 1],
   [class |-> "float", value |-> 2], [class |-> "int16", value |-> 1],
   [class |-> "str", value |-> 0]}

Array(dtype, dims, start, strides, cells) ==
  [dtype |-> dtype, dims |-> dims, start |-> start, strides |-> strides, cells |-> cells]

\* A matrix and its transpose, every other row from the last, no dimensions,
\* no elements, a dtype that is not supported.
MCArrays ==
  {Array("int64", <<2, 2>>, 1, <<2, 1>>, <<1, 2, 3, 4>>),
   Array("float32", <<3, 2>>, 1, <<1, 3>>, <<1, 2, 3, 4, 5, 6>>),
   Array("int32", <<2, 1>>, 3, <<-2, 1>>, <<1, 2, 3>>),
   Array("int64", <<>>, 1, <<>>, <<7>>),
   Array("float64", <<0, 2>>, 1, <<2, 1>>, <<>>),
   Array("int16", <<1>>, 1, <<1>>, <<1>>)}

Vector(dtype, dims, data) == [dtype |-> dtype, dims |-> dims, data |-> data]

\* Data that fits, too little, too much, none; and a tensor without dimensions.
MCVectors ==
  {Vector("INT64", <<2, 2>>, <<4, 3, 2, 1>>), Vector("FLOAT32", <<2, 2>>, <<1, 2>>),
   Vector("FLOAT64", <<1>>, <<8, 9>>), Vector("INT32", <<0>>, <<>>),
   Vector("INT32", <<>>, <<5>>)}

\* Other bytes may read as a scalar, as a tensor, or as a record of no dtype.
MCLookalikes ==
  {[dtype |-> "INT64", dims |-> <<>>], [dtype |-> "INT32", dims |-> <<2>>],
   [dtype |-> "UNKNOWN", dims |-> <<1>>]}
=============================================================================
