------------------------------ MODULE Exceptions ------------------------------
(***************************************************************************)
(* Exceptions of the C++ library and what C and Python callers see of      *)
(* them: a C function returns the code of the first handler that catches   *)
(* the exception, a Python method raises the type of the first one.        *)
(***************************************************************************)
EXTENDS Integers, Sequences

(* The class each exception derives from.  StoreException stands for what  *)
(* the backends themselves throw; the standard classes between             *)
(* invalid_argument or out_of_range and exception are left out.            *)
Base ==
  [KeyNotFoundError        |-> "Error",
   TimeoutError            |-> "Error",
   TypeMismatchError       |-> "Error",
   RankMismatchError       |-> "TypeMismatchError",
   DTypeMismatchError      |-> "TypeMismatchError",
   MetadataError           |-> "Error",
   BackendUnavailableError |-> "Error",
   Error                   |-> "runtime_error",
   runtime_error           |-> "exception",
   invalid_argument        |-> "exception",
   out_of_range            |-> "exception",
   bad_alloc               |-> "exception",
   StoreException          |-> "exception",
   exception               |-> "exception"]

Classes == DOMAIN Base

(* The hierarchy is four classes deep below exception.                     *)
Ancestors(x) ==
  LET up(S) == S \cup {Base[y] : y \in S} IN up(up(up(up({x}))))

(* Handlers are tried in their order, and catch a class and what derives   *)
(* from it.                                                                *)
Translate(handlers, x) ==
  LET catches(i) == handlers[i].class \in Ancestors(x)
      first == CHOOSE i \in DOMAIN handlers :
                 catches(i) /\ \A j \in 1 .. i - 1 : ~catches(j)
  IN  handlers[first].as

-----------------------------------------------------------------------------
(* C: errno.h and RADEX_C_CATCH_EXCEPTIONS(RADEX_ERR_UNKNOWN) *)

Errno ==
  [RADEX_OK |-> 0, KEY_NOT_FOUND |-> 1, TIMEOUT |-> 2, TYPE_MISMATCH |-> 3,
   RANK_MISMATCH |-> 4, DTYPE_MISMATCH |-> 5, METADATA |-> 6,
   BACKEND_UNAVAILABLE |-> 7, BUFFER_TOO_SMALL |-> 8, ALLOCATION |-> 9,
   UNKNOWN |-> 99]

Handler(class, as) == [class |-> class, as |-> as]

\* Mutation: the common base of the two mismatches is caught first.
CHandlersBaseFirst ==
  << Handler("KeyNotFoundError",        Errno.KEY_NOT_FOUND),
     Handler("TimeoutError",            Errno.TIMEOUT),
     Handler("TypeMismatchError",       Errno.TYPE_MISMATCH),
     Handler("RankMismatchError",       Errno.RANK_MISMATCH),
     Handler("DTypeMismatchError",      Errno.DTYPE_MISMATCH),
     Handler("MetadataError",           Errno.METADATA),
     Handler("BackendUnavailableError", Errno.BACKEND_UNAVAILABLE),
     Handler("bad_alloc",               Errno.ALLOCATION),
     Handler("exception",               Errno.UNKNOWN) >>

CHandlers ==
  << Handler("KeyNotFoundError",        Errno.KEY_NOT_FOUND),
     Handler("TimeoutError",            Errno.TIMEOUT),
     Handler("RankMismatchError",       Errno.RANK_MISMATCH),
     Handler("DTypeMismatchError",      Errno.DTYPE_MISMATCH),
     Handler("MetadataError",           Errno.METADATA),
     Handler("BackendUnavailableError", Errno.BACKEND_UNAVAILABLE),
     Handler("TypeMismatchError",       Errno.TYPE_MISMATCH),
     Handler("bad_alloc",               Errno.ALLOCATION),
     Handler("exception",               Errno.UNKNOWN) >>

CCode(x) == Translate(CHandlers, x)

-----------------------------------------------------------------------------
(* Python: raise_py_error *)

\* Mutation: the radex base class is caught first.
PyHandlersBaseFirst ==
  << Handler("Error",            "RadexError"),
     Handler("invalid_argument", "ValueError"),
     Handler("out_of_range",     "IndexError"),
     Handler("bad_alloc",        "MemoryError"),
     Handler("exception",        "RuntimeError") >>

PyHandlers ==
  << Handler("KeyNotFoundError",        "KeyNotFoundError"),
     Handler("TimeoutError",            "TimeoutError"),
     Handler("RankMismatchError",       "RankMismatchError"),
     Handler("DTypeMismatchError",      "DTypeMismatchError"),
     Handler("TypeMismatchError",       "TypeMismatchError"),
     Handler("MetadataError",           "MetadataError"),
     Handler("BackendUnavailableError", "BackendUnavailableError"),
     Handler("Error",                   "RadexError"),
     Handler("invalid_argument",        "ValueError"),
     Handler("out_of_range",            "IndexError"),
     Handler("bad_alloc",               "MemoryError"),
     Handler("exception",               "RuntimeError") >>

PyType(x) == Translate(PyHandlers, x)
=============================================================================
