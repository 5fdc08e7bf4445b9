---------------------------- MODULE PythonNumbers ----------------------------
(***************************************************************************)
(* How the Python client finds an element type for a number: a Python      *)
(* object is coerced to a NumPy scalar, whose class selects the C++ put.   *)
(***************************************************************************)

(* The classes with a C++ instance of put_scalar.                          *)
NumPyDTypes ==
  [int32 |-> "INT32", int64 |-> "INT64", float32 |-> "FLOAT32", float64 |-> "FLOAT64"]

\* Mutation: a Python int becomes the widest integer.
CoerceToWidest(class) ==
  CASE class \in {"int", "bool"}      -> "int64"
    [] class \in {"float", "float64"} -> "float64"
    [] OTHER                          -> class

(* coerce_py_objects_to_np_numbers.  A bool is an int, a np.float64 is a   *)
(* float, a np.bool_ is neither.                                           *)
Coerce(class) ==
  CASE class \in {"int", "bool"}      -> "int32"
    [] class \in {"float", "float64"} -> "float64"
    [] OTHER                          -> class

\* Mutation: the NumPy name is taken for the tag.
ScalarDTypeName(class) == Coerce(class)

(* The dtype put_scalar stores an object of the class under, if it does    *)
(* not raise a TypeError.                                                  *)
Accepted(class) == Coerce(class) \in DOMAIN NumPyDTypes

ScalarDType(class) == NumPyDTypes[Coerce(class)]
=============================================================================
