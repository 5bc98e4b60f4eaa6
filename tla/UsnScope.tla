------------------------------ MODULE UsnScope ------------------------------
(***************************************************************************)
(* Which objects of one bounded USN batch belong to the governed root.     *)
(* Journal records name an object and its parent at the time; the object   *)
(* may since have moved, been deleted, or be unreadable.  The selection is *)
(* a scan followed by passes over the batch until one makes no progress;   *)
(* it is compared with the set it is meant to compute.                     *)
(***************************************************************************)
EXTENDS Sentinel, Integers, Sequences, FiniteSets, SequencesExt

CONSTANTS
    BatchSize,    \* objects in the batch, in the order re-observed
    MaxParents    \* distinct recorded parents of one object

ASSUME ScopeAssumption == BatchSize \in Nat /\ MaxParents \in Nat

BatchObjects == 1 .. BatchSize
RootIdentity == 0
Elsewhere == BatchSize + 1   \* a directory that is not in the batch itself

ReobservationStatuses ==
    {"Observed", "ContainedObjectAccessDenied", "Outside", "Unavailable", "Error"}

VARIABLES
    reobserved,   \* status of every object of the batch
    parents,      \* recorded parents of every object of the batch
    elsewhere,    \* what a check of the other directory answers
    scope         \* the selection, once made

scopeVars == <<reobserved, parents, elsewhere, scope>>
----------------------------------------------------------------------------
\* What a check of a recorded parent answers: the object behind the identity is
\* opened as it is now.
checkRecordedParentScope(p) ==
    CASE p = Elsewhere -> elsewhere
      [] OTHER -> CASE reobserved[p] \in {"Observed", "ContainedObjectAccessDenied"}
                          -> "Contained"
                    [] OTHER -> reobserved[p]

\* Scope shown by the object itself, or by one of its recorded parents; a parent
\* that cannot be checked keeps the object, its scope unresolved.
selectUSNObjectForSpool(o) ==
    LET answers == {checkRecordedParentScope(p) : p \in parents[o] \ {RootIdentity}}
    IN CASE reobserved[o] = "Observed" -> "CurrentObject"
         [] reobserved[o] = "ContainedObjectAccessDenied" -> "CurrentObjectByHelper"
         [] RootIdentity \in parents[o] \/ "Contained" \in answers -> "RecordedParent"
         [] "Error" \in answers \/ parents[o] = {} -> "Unresolved"
         [] OTHER -> None

scopeBasisProvesGovernedRootContainment(basis) == basis \notin {None, "Unresolved"}

\* An unavailable object below an unavailable one of the batch that is known to
\* have been inside.
selectUSNObjectForRecordedAncestor(o, selection) ==
    /\ reobserved[o] = "Unavailable"
    /\ \E p \in parents[o] \cap BatchObjects :
          /\ reobserved[p] = "Unavailable"
          /\ scopeBasisProvesGovernedRootContainment(selection[p])

\* One pass over the batch, in order; what it selects counts for the rest of it.
ancestorPass(selection) ==
    FoldLeft(LAMBDA sel, o :
                IF sel[o] = None /\ selectUSNObjectForRecordedAncestor(o, sel)
                THEN [sel EXCEPT ![o] = "RecordedAncestor"] ELSE sel,
             selection, [i \in BatchObjects |-> i])

\* Mutant: a single pass over the batch.
selectInOnePass == ancestorPass([o \in BatchObjects |-> selectUSNObjectForSpool(o)])

\* Passes until one makes no progress, which is after as many as there are
\* objects at the latest.
selectUSNObjectsForSpool ==
    FoldLeft(LAMBDA sel, pass : ancestorPass(sel),
             [o \in BatchObjects |-> selectUSNObjectForSpool(o)],
             [i \in 1 .. BatchSize + 1 |-> i])

SelectScope == /\ scope = None
               /\ scope' = selectUSNObjectsForSpool
               /\ UNCHANGED <<reobserved, parents, elsewhere>>

ScopeInit ==
    /\ reobserved \in [BatchObjects -> ReobservationStatuses]
    /\ parents \in [BatchObjects -> {ps \in SUBSET ({RootIdentity, Elsewhere}
                                        \cup BatchObjects) : Cardinality(ps) <= MaxParents}]
    /\ \A o \in BatchObjects : o \notin parents[o]
    /\ elsewhere \in {"Contained", "Outside", "Unavailable", "Error"}
    /\ scope = None

ScopeNext == SelectScope

ScopeSpec == ScopeInit /\ [][ScopeNext]_scopeVars
----------------------------------------------------------------------------
(* Properties.                                                             *)

Gone(o) == reobserved[o] = "Unavailable"

\* The objects reached from one by recorded parents, all of them gone.
GoneAncestors(o) ==
    FoldLeft(LAMBDA S, i : S \cup {p \in BatchObjects :
                                     Gone(p) /\ \E a \in S : Gone(a) /\ p \in parents[a]},
             {o}, [i \in BatchObjects |-> i])

\* The recorded names alone place the object directly in the governed root.
PlacedInside(o) ==
    \/ reobserved[o] \in {"Observed", "ContainedObjectAccessDenied"}
    \/ \E p \in parents[o] :
          p = RootIdentity \/ checkRecordedParentScope(p) = "Contained"

\* The selection is what the batch can show, whatever order its objects come in:
\* an object is kept exactly if it, a recorded parent, or a chain of recorded
\* parents that are gone too, leads into the governed root, or if its scope could
\* not be decided.  Scope never spreads through an object that is elsewhere now or
\* was kept only because it is undecided.
SelectionIsClosure ==
    scope # None =>
       \A o \in BatchObjects :
          LET inside == \E a \in GoneAncestors(o) : PlacedInside(a)
              undecided == \/ parents[o] = {}
                           \/ \E p \in parents[o] \ {RootIdentity} :
                                 checkRecordedParentScope(p) = "Error"
          IN /\ scope[o] = None <=> ~inside /\ ~undecided
             /\ scope[o] = "Unresolved" => undecided
=============================================================================
