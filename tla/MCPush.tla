------------------------------- MODULE MCPush -------------------------------
(* Instances of Push for TLC: two scenarios of one state graph. *)
EXTENDS Push, TLC

CONSTANTS p1, p2, u1, u2, u3, la, cfg1, cfg2, m1, m2, n1, n2, x, y, d1

\* m1 and m2 share a layer; n1 and n2 have none and share a config.
AllImages == {m1, m2, n1, n2}
AllLayers == [m \in AllImages |-> IF m \in {m1, m2} THEN <<la>> ELSE <<>>]
Configs == (m1 :> cfg1) @@ (m2 :> cfg2) @@ (n1 :> cfg1) @@ (n2 :> cfg1)
DiffIdLists == [m \in AllImages |-> IF m \in {m1, m2} THEN <<d1>> ELSE <<>>]
FitsAll == Leaves \X AllImages

To(l, m) == [leaf |-> l, manifest |-> m]
OneOrTwo == (p1 :> {u1, u2}) @@ (p2 :> {u3})

\* "alone": p1 pushes m1 and m2 with two goroutines, or m2 when m1 does not resolve.
\* "race": p1 and p2 push n1 and n2 to one leaf, one upload at a time; only p2 may be cancelled.
VARIABLE scenario

Alone == {<<To(x, m1), To(y, m2)>>, <<To(y, m2)>>}
Sets == (p1 :> Alone \cup {<<To(x, n1)>>}) @@ (p2 :> {<<To(x, n2)>>})

Within ==
  IF scenario = "alone"
  THEN phase'[p2] = "idle" /\ \A i \in DOMAIN plan'[p1] : plan'[p1][i].manifest # n1
  ELSE /\ stage'[u2] = "idle" /\ ~cancelled'[p1]
       /\ \A i \in DOMAIN plan'[p1] : plan'[p1][i].manifest = n1

MCInit == PushInit /\ scenario \in {"alone", "race"}
MCNext == PushNext /\ Within /\ UNCHANGED scenario
MCSpec ==
  /\ MCInit /\ [][MCNext]_<<pushVars, scenario>>
  /\ \A w \in Pushers : WF_pushVars(OwnStep(w))
=============================================================================
