--------------------------- MODULE IndexRegister ---------------------------
(***************************************************************************)
(* What the generation store of the context graph promises (the header of  *)
(* src/core/triwiki/context-graph/store/generation-commit.ts): one current *)
(* index that moves in a single step from one stored generation to         *)
(* another, remembers the one it replaced, and never loses either of them. *)
(***************************************************************************)
CONSTANTS
    Hashes,   \* content addresses of compiled snapshots
    Configs,  \* fingerprints of the configuration an index is built under
    Nil       \* absence

VARIABLES
    current,  \* the published index: [hash, cfg, prev], all Nil when none is
    stored    \* generations that can be opened

NoIndex == [hash |-> Nil, cfg |-> Nil, prev |-> Nil]

\* The generation that h replaces when it becomes current: republishing the
\* current one keeps its predecessor.
Replaced(old, h) == IF old.hash = h THEN old.prev ELSE old.hash

Kept(index) == {index.hash, index.prev} \ {Nil}

RegisterInit == current = NoIndex /\ stored = {}

\* A stored generation becomes current.
Publish(h, c) ==
    /\ h \in stored
    /\ current' = [hash |-> h, cfg |-> c, prev |-> Replaced(current, h)]
    /\ UNCHANGED stored

Store(h) ==
    /\ stored' = stored \cup {h}
    /\ UNCHANGED current

\* Retention: anything but current and previous may go.
Collect(h) ==
    /\ h \notin Kept(current)
    /\ stored' = stored \ {h}
    /\ UNCHANGED current

RegisterNext ==
    \E h \in Hashes : \/ \E c \in Configs : Publish(h, c)
                      \/ Store(h)
                      \/ Collect(h)

RegisterSpec == RegisterInit /\ [][RegisterNext]_<<current, stored>>
=============================================================================
