------------------------------ MODULE MCIngress ------------------------------
(***************************************************************************)
(* Ingress for TLC: templates and calls chosen so that routes overlap in   *)
(* every way, that a placeholder has a choice of what to take, that        *)
(* split_path has a scheme, a netloc and a fragment to take away and a     *)
(* netloc to reject, and that every check on a packet meets one that fails *)
(* it.                                                                     *)
(***************************************************************************)
EXTENDS Ingress

Get(path, query, body) == [method |-> "GET", path |-> path, query |-> query, body |-> body]

SomeSignature ==
  [show |-> {[name |-> "x", type |-> "int", default |-> FALSE]},
   list |-> {[name |-> "x", type |-> "str", default |-> FALSE],
             [name |-> "y", type |-> "float", default |-> TRUE]}]

\* int() and float() of texts that can be cut from the paths.
SomeLiterals ==
  [int |-> {<<"1">>},
   float |-> {<<"1">>, <<"1", ".">>, <<".", "1">>}]

\* A bracket that is not closed.
SomeRejected == {<<"/", "/", "[">>}

SomeRegistrations ==
  {[methods |-> <<"GET">>, template |-> <<"/", "x">>, handler |-> "show"],
   [methods |-> <<"GET">>, template |-> <<"/", "a">>, handler |-> "list"],
   [methods |-> <<"NONE", "GET">>, template |-> <<"/", "x", ".", "y">>, handler |-> "list"],
   [methods |-> <<"GET">>, template |-> <<"a">>, handler |-> "show"],
   [methods |-> <<"GET">>, template |-> <<"/", "x", "x">>, handler |-> "show"]}

SomeCalls ==
  {Get(<<"/", "a", "#">>, <<[name |-> "x", value |-> <<"1">>]>>, 1),
   Get(<<"/", "/", "a", "/", "1">>, <<[name |-> "x", value |-> <<"a">>]>>, 0),
   Get(<<"/", "/", "[">>, <<>>, 0),
   Get(<<"/", "a">>, <<[name |-> "x", value |-> <<"a">>], [name |-> "x", value |-> <<"1">>]>>, 0),
   Get(<<"/", "1", ".", "a", ".", "1">>, <<>>, 0),
   Get(<<"a", ":", "/", "1", "a", "1">>, <<>>, 0),
   [method |-> "OPTIONS", path |-> <<"/", "1", ".", "a">>, query |-> <<>>, body |-> 0],
   Get(<<>>, <<>>, 0),
   Get(<<"/", "a", "/", "a", "/", "a", "/", "a">>, <<>>, 0),
   Get(<<"/", "1">>, <<>>, 5),
   Get(<<"/", "1">>, <<>>, 9)}

Symmetry == Permutations(Ips)
=============================================================================
