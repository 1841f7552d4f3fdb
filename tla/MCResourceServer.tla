-------------------------- MODULE MCResourceServer --------------------------
(***************************************************************************)
(* Two clients, one configured actor and one identity that is registered   *)
(* at run time, with and without an id of the client's choice.             *)
(***************************************************************************)
EXTENDS ResourceServer

CONSTANTS k1, k2, na, nb, nc

In(op, key, id, form) == [Idle EXCEPT !.op = op, !.key = key, !.id = id, !.form = form]
TwoConfigs == {{[key |-> k1, id |-> None]}, {[key |-> k1, id |-> 3]}}
FirstOrLegacy == {<<>>, <<nc>>}
MixedInputs ==
  {In("register", k2, None, "ok"), In("register", k2, 3, "ok"), In("register", k1, 3, "ok"),
   In("register", k2, None, "media type"),
   In("transition", None, 1, "ok"), In("get", None, 1, "ok"), In("list", None, None, "ok")}
=============================================================================
