------------------------- MODULE GenerationDelivery -------------------------
(***************************************************************************)
(* What generation transport promises: the source holds every generation   *)
(* until the receiver has recorded it.  A generation is produced once,     *)
(* recorded for good, and only then released by the source.                *)
(***************************************************************************)
CONSTANT Gens

VARIABLES
    produced,   \* generations frozen at the source
    held,       \* generations of which the source still has the bytes
    recorded    \* generations that survive at the receiver

dvars == <<produced, held, recorded>>

DInit == produced = {} /\ held = {} /\ recorded = {}

Produce(g) ==
    /\ g \notin produced
    /\ produced' = produced \cup {g}
    /\ held' = held \cup {g}
    /\ UNCHANGED recorded

\* One directory sync at the receiver may make several generations durable.
Record(S) ==
    /\ S \subseteq held
    /\ recorded' = recorded \cup S
    /\ UNCHANGED <<produced, held>>

Release(g) ==
    /\ g \in held \cap recorded
    /\ held' = held \ {g}
    /\ UNCHANGED <<produced, recorded>>

DNext ==
    \/ \E g \in Gens : Produce(g) \/ Release(g)
    \/ \E S \in SUBSET Gens : Record(S)

DSpec == DInit /\ [][DNext]_dvars

=============================================================================
