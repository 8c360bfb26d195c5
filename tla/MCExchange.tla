------------------------------ MODULE MCExchange ------------------------------
(* Instances of Exchange for TLC, as scenarios of one state graph. *)
EXTENDS Exchange, TLC

CONSTANTS w1, w2, s1, ca, cb, cx, b1, b2, z1, z2, d1, d2, ra, rb, rp, rx

M(c, ls) == [config |-> c, layers |-> ls]

\* Image B stands on the layer of image A; X claims the diffID of that layer for another blob.
Chains == (ca :> <<d1>>) @@ (cb :> <<d1, d2>>) @@ (cx :> <<d1>>)
Contents == (b1 :> d1) @@ (z1 :> d1) @@ (b2 :> d2) @@ (z2 :> d2) @@ (d1 :> d1) @@ (d2 :> d2)
Zstds == (d1 :> z1) @@ (d2 :> z2)
A == M(ca, <<b1>>)
B == M(cb, <<b1, b2>>)
X == M(cx, <<b2>>)
Pins == (rp :> A) @@ [r \in Refs |-> None]
Upstream == (ra :> A) @@ (rb :> B) @@ (rp :> A) @@ (rx :> X)

\* The images as builds on this machine write them, B on top of A.
BuiltA == M(ca, <<d1>>)
BuiltB == M(cb, <<b1, d2>>)
Builds == {BuiltA, BuiltB}

Asks == [w \in Pullers |-> {<<ra>>, <<rb>>, <<rp>>, <<ra, rb>>, <<rx>>}]
Pushes == [w \in Pushers |-> {ra, rb, rp}]

\* The processes of a scenario with what they are asked for, what podman brings meanwhile, and what
\* it has built before.
VARIABLE scenario

Case(asks, pushes, brings, built) ==
  [asks |-> asks, pushes |-> pushes, brings |-> brings, built |-> built]
Scenarios ==
  [pulls   |-> Case((w1 :> <<rb>>) @@ (w2 :> <<rb>>), {}, {}, {}),
   entries |-> Case(w1 :> <<ra, rb>>, {}, {}, {}),
   podman  |-> Case(w1 :> <<rb>>, {}, {BuiltB}, {}),
   toc     |-> Case(w1 :> <<ra>>, {}, {BuiltA}, {}),
   push    |-> Case(<<>>, {rb}, {}, {BuiltB}),
   both    |-> Case(w1 :> <<ra>>, {ra}, {}, {BuiltA}),
   pinned  |-> Case(w1 :> <<rp>>, {rp}, {}, {}),
   alone   |-> Case(w1 :> <<rx>>, {}, {}, {}),
   wrong   |-> Case((w1 :> <<rx>>) @@ (w2 :> <<ra>>), {ra}, {}, {}),
   marked  |-> Case(w1 :> <<rx>>, {ra}, {}, {BuiltA})]

Within ==
  LET s == Scenarios[scenario]
  IN  /\ \A w \in Pullers : stage[w] = "idle" /\ stage'[w] # "idle" =>
            w \in DOMAIN s.asks /\ todo'[w] = s.asks[w]
      /\ \A w \in Pushers : ref'[w] \in s.pushes \cup {None}
      /\ \A w \in Pullers : cancelled'[w] => scenario = "entries"
      /\ z2 \in cache' => scenario = "push"
      /\ storageVars' # storageVars /\ UNCHANGED <<stage, k, answer, at>> =>
           /\ \A c \in Configs : image'[c] \notin {image[c], None} => image'[c].default \in s.brings
           /\ \A r \in Refs : name'[r] \notin {name[r], None} =>
                \E m \in s.brings : m.config = name'[r]
           /\ \A id \in LayerIds : layer'[id] \notin {layer[id], None} =>
                layer'[id].blob = None /\ \E m \in s.brings : \E top \in Tops(m.config) : Below(id, top)

\* What podman has built is there at the start, named and, for the base layer, with the blob it was
\* pulled from.  A push of A from another machine may have failed halfway.
MCInit ==
  /\ PullInit /\ SourceInit
  /\ cache = {} /\ markers = {} /\ leaf = [r \in Refs |-> None]
  /\ stored \in IF scenario = "pinned" THEN {{}, {A, ca}} ELSE {{}}
  /\ LET built == Scenarios[scenario].built
         has(c) == \E m \in built : m.config = c
     IN  /\ layer = [id \in LayerIds |->
                      IF \E m \in built : Below(id, Top(m.config))
                      THEN [diff |-> DiffOf(id), blob |-> IF id = <<d1>> THEN b1 ELSE None] ELSE None]
         /\ image = [c \in Configs |->
                      IF has(c) THEN LET m == CHOOSE m \in built : m.config = c
                                     IN  [top |-> Top(c), manifests |-> {m}, default |-> m]
                      ELSE None]
         /\ name = [r \in Refs |-> IF r = ra /\ has(ca) THEN ca ELSE IF r = rb /\ has(cb) THEN cb ELSE None]

MCNext == Next /\ Within /\ UNCHANGED scenario
MCVars == <<vars, scenario>>

\* The images are what they say they are, or nobody else looks.
Good == {"pulls", "entries", "podman", "toc", "push", "both", "pinned", "alone"}
GoodInit == scenario \in Good /\ MCInit
MCSpec == GoodInit /\ [][MCNext]_MCVars
PinnedSpec == scenario = "pinned" /\ MCInit /\ [][MCNext]_MCVars
\* One image is not.
WrongSpec == scenario = "wrong" /\ MCInit /\ [][MCNext]_MCVars
MarkedSpec == scenario = "marked" /\ MCInit /\ [][MCNext]_MCVars
=============================================================================
