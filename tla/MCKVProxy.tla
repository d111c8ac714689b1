------------------------------ MODULE MCKVProxy ------------------------------
(***************************************************************************)
(* Instances of KVProxy for TLC.  The keys stand for all that '?', '%' and *)
(* slashes do to them: of the URLs .../store/a?x and .../get/a?x a worker  *)
(* reads the key a; .../store//a (a key %2Fa, decoded again) is redirected *)
(* and lost, .../get//a is redirected and found; '%' alone does not parse. *)
(***************************************************************************)
EXTENDS KVProxy

KeySought == [k \in Keys |-> CASE k \in {"a?x", "%2Fa"} -> "a"
                               [] k = "%"               -> NoURL
                               [] OTHER                 -> k]
KeyStored == [k \in Keys |-> IF k = "%2Fa" THEN NoRoute ELSE KeySought[k]]
==============================================================================
