--------------------------- MODULE RemoteEffects ---------------------------
(***************************************************************************)
(* What the remote worker promises about side effects, whatever it is sent *)
(* and however often: the effect of a command happens at most once for as  *)
(* long as the command is remembered, and only a command whose receipt has *)
(* been stored is ever forgotten.                                          *)
(***************************************************************************)
EXTENDS Naturals

CONSTANT Commands

VARIABLES
    effects,  \* how often the side effect of each command has happened
    applied,  \* remembered commands whose side effect has happened
    settled   \* commands whose receipt is stored

EffectsInit ==
    /\ effects = [c \in Commands |-> 0]
    /\ applied = {}
    /\ settled = {}

Apply(c) ==
    /\ c \notin applied \cup settled
    /\ effects' = [effects EXCEPT ![c] = @ + 1]
    /\ applied' = applied \cup {c}
    /\ UNCHANGED settled

Settle(c) ==
    /\ c \notin settled
    /\ settled' = settled \cup {c}
    /\ UNCHANGED <<effects, applied>>

Forget(S) ==
    /\ S \subseteq settled
    /\ applied' = applied \ S
    /\ settled' = settled \ S
    /\ UNCHANGED effects

EffectsNext ==
    \/ \E c \in Commands : Apply(c) \/ Settle(c)
    \/ \E S \in SUBSET Commands : Forget(S)

EffectsSpec == EffectsInit /\ [][EffectsNext]_<<effects, applied, settled>>
=============================================================================
