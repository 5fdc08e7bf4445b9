------------------------------- MODULE MetaData -------------------------------
(***************************************************************************)
(* The metadata record of a tensor and the arithmetic around it.           *)
(*                                                                         *)
(* The C interface multiplies the dimensions in size_t to know how many    *)
(* elements to store; MetaData::make_buffer lays the dimensions out after  *)
(* a header of two words; the reader checks the length of the record it    *)
(* gets (from_buffer) and multiplies the dimensions again to know how many *)
(* elements to read (n_elements).  That second product is accumulated in   *)
(* an int, because the initial value 1 is one.                             *)
(*                                                                         *)
(* size_t has SizeLimit values, int goes from -IntLimit to IntLimit - 1, a *)
(* word (MetaInt) takes WordBytes bytes.                                   *)
(***************************************************************************)
EXTENDS Integers, Sequences

CONSTANTS
  SizeLimit, IntLimit, WordBytes,
  DType,       \* encoding of the dtype
  Shapes,      \* dimensions that callers put
  RawBuffers,  \* bytes that others put under the metadata key
  None         \* no record

Size == 0 .. SizeLimit - 1

Header == 2

Buffer == [length : Size, words : Seq(Size)]

(* An int holds the 1 that a product starts with.                          *)
ASSUME WidthsAssumption ==
  /\ IntLimit \in Nat \ {0, 1} /\ WordBytes \in Nat \ {0} /\ SizeLimit \in Nat
  /\ 2 * IntLimit <= SizeLimit

(* A rank is a word as well.  words lists the whole words among the bytes, *)
(* which are enough to read a rank.                                        *)
ASSUME BuffersAssumption ==
  /\ DType \in Size
  /\ Shapes \subseteq Seq(Size) \ {<<>>} /\ \A ds \in Shapes : Len(ds) \in Size
  /\ RawBuffers \subseteq Buffer
  /\ \A b \in RawBuffers :
       /\ Len(b.words) >= Header
       /\ WordBytes * Len(b.words) <= b.length
       /\ b.length < WordBytes * (Len(b.words) + 1)
  /\ None \notin Buffer

VARIABLES
  pc,        \* "idle", "count", "stored", "read", "done" or "failed"
  dims,      \* the dimensions that are put
  count,     \* n_elements of radex_client_put_tensor
  buffer,    \* the bytes under the metadata key
  stored,    \* how many elements are under the data key
  acc,       \* the accumulator of n_elements
  i,         \* dimensions multiplied so far
  product    \* history: product[j + 1] is the exact product of j dimensions

vars == <<pc, dims, count, buffer, stored, acc, i, product>>

-----------------------------------------------------------------------------
(* Conversions between the two types: modulo 2^w, two's complement. *)

ToSize(n) == n % SizeLimit

\* Mutation: the bits are not read as two's complement.
ToIntUnsigned(n) == n % (2 * IntLimit)

ToInt(n) ==
  LET m == n % (2 * IntLimit) IN IF m >= IntLimit THEN m - 2 * IntLimit ELSE m

\* Mutation: the length leaves out the header.
MakeBufferShort(ds) ==
  [length |-> ToSize(Len(ds) * WordBytes), words |-> <<DType, Len(ds)>> \o ds]

MakeBuffer(ds) ==
  [length |-> ToSize((Len(ds) + Header) * WordBytes),
   words  |-> <<DType, Len(ds)>> \o ds]

NDims(b) == b.words[2]

\* Mutation: the dimensions begin at the rank.
DimEarly(b, j) == b.words[1 + j]

Dim(b, j) == b.words[Header + j]

ExpectedSize(b) == ToSize((NDims(b) + Header) * WordBytes)

(* What the reader may find as dimension j: behind the words of the record *)
(* lies anything.                                                          *)
DimsFound(b, j) == IF Header + j <= Len(b.words) THEN {Dim(b, j)} ELSE Size

(* The loop over the dimensions ends after NDims(b) of them.  The address  *)
(* of the end is computed from NDims(b) as well, and is that of the end of *)
(* the words if it wraps.                                                  *)
AtEnd(b, j) ==
  j = NDims(b) \/ (Header + j = Len(b.words) /\ j < NDims(b))

-----------------------------------------------------------------------------
Init ==
  /\ pc = "idle" /\ dims = <<>> /\ count = 0 /\ buffer = None /\ stored = 0
  /\ acc = 0 /\ i = 0 /\ product = <<1>>

(* The next tensor is put under a handle of its own.                       *)
NextHandle ==
  /\ pc \in {"done", "failed"}
  /\ pc' = "idle" /\ dims' = <<>> /\ count' = 0 /\ buffer' = None /\ stored' = 0
  /\ acc' = 0 /\ i' = 0 /\ product' = <<1>>

(* radex_client_put_tensor: rank <= 0 is refused.                          *)
BeginPut(ds) ==
  /\ pc = "idle" /\ Len(ds) > 0
  /\ pc' = "count" /\ dims' = ds /\ count' = 1 /\ i' = 0 /\ product' = <<1>>
  /\ UNCHANGED <<buffer, stored, acc>>

(* n_elements *= dims[i]                                                   *)
Count ==
  /\ pc = "count" /\ i < Len(dims)
  /\ count' = ToSize(count * dims[i + 1])
  /\ product' = Append(product, product[i + 1] * dims[i + 1])
  /\ i' = i + 1
  /\ UNCHANGED <<pc, dims, buffer, stored, acc>>

(* IClient::put_tensor writes both keys.                                   *)
Put ==
  /\ pc = "count" /\ i = Len(dims)
  /\ buffer' = MakeBuffer(dims)
  /\ stored' = count
  /\ pc' = "stored"
  /\ UNCHANGED <<dims, count, acc, i, product>>

(* Another client puts bytes of its own under the metadata key.            *)
PutRaw(b) ==
  /\ pc = "stored" /\ buffer = MakeBuffer(dims)
  /\ buffer' = b
  /\ UNCHANGED <<pc, dims, count, stored, acc, i, product>>

(* MetaData::from_buffer                                                   *)
FromBuffer ==
  /\ pc = "stored"
  /\ IF buffer.length # ExpectedSize(buffer)
     THEN pc' = "failed" /\ UNCHANGED <<acc, i>>
     ELSE pc' = "read" /\ acc' = 1 /\ i' = 0
  /\ UNCHANGED <<dims, count, buffer, stored, product>>

\* Mutation: the last dimension is left out.
ReadOneLess ==
  /\ pc = "read" /\ i < NDims(buffer)
  /\ i' = i + 1
  /\ \E d \in DimsFound(buffer, i + 1) :
       acc' = IF i' = NDims(buffer) THEN acc ELSE ToInt(ToSize(ToSize(acc) * d))
  /\ UNCHANGED <<pc, dims, count, buffer, stored, product>>

(* MetaData::n_elements: one step of accumulate                            *)
Read ==
  /\ pc = "read" /\ i < NDims(buffer)
  /\ \E d \in DimsFound(buffer, i + 1) : acc' = ToInt(ToSize(ToSize(acc) * d))
  /\ i' = i + 1
  /\ UNCHANGED <<pc, dims, count, buffer, stored, product>>

(* The result goes back to size_t.                                         *)
ReadDone ==
  /\ pc = "read" /\ AtEnd(buffer, i)
  /\ acc' = ToSize(acc)
  /\ pc' = "done"
  /\ UNCHANGED <<dims, count, buffer, stored, i, product>>

Next ==
  \/ \E ds \in Shapes : BeginPut(ds)
  \/ \E b \in RawBuffers : PutRaw(b)
  \/ Count \/ Put \/ FromBuffer \/ Read \/ ReadDone \/ NextHandle

Spec == Init /\ [][Next]_vars

-----------------------------------------------------------------------------
(* Correctness. *)

TypeOK ==
  /\ pc \in {"idle", "count", "stored", "read", "done", "failed"}
  /\ dims \in Seq(Size) /\ count \in Size /\ stored \in Size
  /\ buffer \in Buffer \cup {None}
  /\ acc \in IF pc = "done" THEN Size ELSE -IntLimit .. IntLimit - 1
  /\ i \in Nat /\ product \in Seq(Nat)

Exact == product[Len(product)]

Own == buffer = MakeBuffer(dims)

(* The length of a record with this rank does not fit a size_t.            *)
Wraps(b) == (NDims(b) + Header) * WordBytes >= SizeLimit

(* A record, of whatever origin, is decoded only if it holds the dimensions*)
(* it announces, so that the reader never multiplies words that are not    *)
(* there, or if it announces so many that their length wraps: that is the  *)
(* only way past from_buffer.  The record of a put is always accepted.     *)
RecordsAreChecked ==
  /\ pc \in {"read", "done"} =>
       Len(buffer.words) = NDims(buffer) + Header \/ Wraps(buffer)
  /\ pc = "failed" => ~Own

(* The reader reads as many elements as the writer has stored, if that     *)
(* number fits an int, although the two sides multiply in different types  *)
(* and in the presence of zero dimensions after an overflow.               *)
ElementsAgree ==
  pc = "done" /\ Own /\ Exact < IntLimit => acc = stored

(* The reader reads the tensor previously written under the handle, of     *)
(* whatever size (client_base.hpp).                                        *)
AllElementsRead ==
  pc = "done" /\ Own => acc = stored
=============================================================================
