--------------------------- MODULE MCClientLifecycle ---------------------------
(***************************************************************************)
(* Instances of ClientLifecycle: a DDict of each sort, a Redis database,   *)
(* and the name of a backend, at which there is nothing.                   *)
(***************************************************************************)
EXTENDS ClientLifecycle, TLC

Stores == {"ddict", "old ddict", "redis", "dragon"}

Present == ("ddict" :> "waits") @@ ("old ddict" :> "returns") @@
           ("redis" :> "redis") @@ ("dragon" :> "nothing")

(* With a 4-bit unsigned int and a 6-bit unsigned long: in range, negative,*)
(* beyond int and unsigned int, and beyond unsigned long.                  *)
Timeouts == {-1, 3, 16, 64}

Env(store, opts, timeout, ssdb) ==
  [store |-> store, opts |-> opts, timeout |-> timeout, ssdb |-> ssdb]

SomeEnvironments ==
  {Env(Unset, FALSE, Unset, Unset), Env("redis", TRUE, Unset, "redis"),
   Env("redis", FALSE, Unset, Unset), Env("dragon", TRUE, Unset, Unset)}
  \cup {Env("ddict", FALSE, t, Unset) : t \in Timeouts \cup {Garbage}}
  \cup {Env("old ddict", FALSE, Unset, Unset)}

Symmetry == Permutations(Slots)
=============================================================================
