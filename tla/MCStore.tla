------------------------------- MODULE MCStore -------------------------------
(* Instances of Store for TLC: two scenarios of one state graph. *)
EXTENDS Store, TLC

CONSTANTS c1, c2, la, lb, cfg1, cfg2, m1, m2, n1, n2, x, y, d1, d2

\* m1 and m2 share a layer.  n1 and n2 have the config of m1, which lists one diffID: n1 has no
\* layer, the layer of n2 is a foreign one.
AllImages == {m1, m2, n1, n2}
AllLayers == (m1 :> <<la>>) @@ (m2 :> <<la, lb>>) @@ (n1 :> <<>>) @@ (n2 :> <<la>>)
Configs == [m \in AllImages |-> IF m = m2 THEN cfg2 ELSE cfg1]
DiffIdLists == [m \in AllImages |-> IF m = m2 THEN <<d1, d2>> ELSE <<d1>>]
\* y is a leaf of another platform than m2's.
FitsAll == (Leaves \X AllImages) \ {<<y, m2>>}

\* "share": both callers store m1 and m2, to either leaf.  "refuse": they store m1, n1 and n2, to x.
VARIABLE scenario

Allowed(c) ==
  IF scenario = "share"
  THEN c.blob \notin {n1, n2}
  ELSE c.blob \notin {m2, cfg2, lb} /\ c.leaf # y

MCInit == Init /\ scenario \in {"share", "refuse"}
MCNext == Next /\ (\A c \in Callers : Allowed(call'[c])) /\ UNCHANGED scenario
MCSpec == MCInit /\ [][MCNext]_<<storeVars, scenario>>
=============================================================================
