---------------------------- MODULE MCItemExchange ----------------------------
(***************************************************************************)
(* Small instances of ItemExchange: the handles, the items and the calls   *)
(* of each run.  Handle x holds a 2-element tensor or a scalar, y a        *)
(* pickled object.                                                         *)
(***************************************************************************)
EXTENDS ItemExchange, TLC

Symmetry == Permutations(Clients) \cup Permutations(Values)

X == <<"x">>
Y == <<"y">>
OneHandle  == {X}
TwoHandles == {X, Y}

Scalar(t) == [dtype |-> t, dims |-> <<>>]
Vector(t) == [dtype |-> t, dims |-> <<2>>]

Put(h, desc, v) ==
  [op |-> "put", handle |-> h, item |-> [desc |-> desc, value |-> v]]
Read(op, h, shape, t) ==
  [op |-> op, handle |-> h, req |-> [shape |-> shape, dtype |-> t]]
Plain(op, h) == [op |-> op, handle |-> h]

PutVectors  == {Put(X, Vector("FLOAT64"), v) : v \in Values}
PutPickles  == {Put(Y, Pickled, v) : v \in Values}
PutScalars  == {Put(X, Scalar("INT32"), v) : v \in Values}

(* Two writers of one shape, readers of the right and of the wrong type,   *)
(* a deleter.                                                              *)
VectorCalls ==
  PutVectors \cup {Read("get", X, "tensor", "FLOAT64"),
                   Read("get", X, "tensor", "INT32"),
                   Read("wait", X, "tensor", AnyDType),
                   Read("get", X, "scalar", "FLOAT64"),
                   Plain("delete", X), Plain("contains", X)}

(* A typed and a pickled handle, each read both ways.                      *)
MixedCalls ==
  {Put(X, Scalar("INT32"), v) : v \in Values} \cup PutPickles
    \cup {Read("get", X, "scalar", "INT32"), Read("wait", X, "picklable", AnyDType),
          Read("get", Y, "picklable", AnyDType), Read("wait", Y, "scalar", AnyDType),
          Plain("delete", X)}

(* One handle, nothing is deleted, and the writers change its shape.       *)
PublishCalls ==
  PutVectors \cup PutScalars \cup {Read("wait", X, "tensor", AnyDType)}

(* A writer changes the shape of an item.                                  *)
ReshapeCalls ==
  PutVectors \cup PutScalars
    \cup {Read("get", X, "tensor", AnyDType)}

(* A handle is deleted while it is read.                                   *)
RetireCalls ==
  PutVectors \cup {Read("get", X, "tensor", "FLOAT64"),
                   Read("wait", X, "tensor", "FLOAT64"), Plain("delete", X)}
=============================================================================
