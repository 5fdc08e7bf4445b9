------------------------------ MODULE HandleKeys ------------------------------
(***************************************************************************)
(* The keys of a handle (handles.cpp).                                     *)
(*                                                                         *)
(* A handle is a name.  Its value lives in the backend under two keys: the *)
(* name itself (the raw bytes) and "metadata::" followed by the name (the  *)
(* dtype and the dimensions).  A name is a sequence of components, so that *)
(* prepending the prefix is what the code does and two names can collide   *)
(* only if one of them carries the prefix.                                 *)
(***************************************************************************)
EXTENDS Sequences

Prefix == "metadata::"

Key(h) == h

\* Mutation: every handle shares one metadata key.
MetadataKeyWithoutName(h) == <<Prefix>>

MetadataKey(h) == <<Prefix>> \o Key(h)

(* The components a name can be made of; the prefix is one of them.        *)
NameParts == STRING \cup {Prefix}
=============================================================================
