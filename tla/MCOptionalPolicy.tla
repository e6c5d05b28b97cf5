------------------------- MODULE MCOptionalPolicy --------------------------
(***************************************************************************)
(* Instances of OptionalPolicy: deployments that change a profile with and *)
(* without a new profile version, and the topic of its capability.         *)
(***************************************************************************)
EXTENDS OptionalPolicy, TLC

CONSTANT Fan

\* A profile of identity i: version v, topic t, and the rest of its meaning.
Meaning(i, v, t, rest) == [identity |-> i, version |-> v, topic |-> t, rest |-> rest]

\* One identity.  The capability moves to another topic; the definition changes under
\* the same version; the version is raised with it.
Base     == [profile |-> (Fan :> Meaning(Fan, 1, "a", "mean")), topic |-> (Fan :> "a")]
Redefined == [profile |-> (Fan :> Meaning(Fan, 1, "a", "last")), topic |-> (Fan :> "a")]
Moved    == [profile |-> (Fan :> Meaning(Fan, 1, "b", "mean")), topic |-> (Fan :> "b")]
Raised   == [profile |-> (Fan :> Meaning(Fan, 2, "a", "last")), topic |-> (Fan :> "a")]
Lost     == [profile |-> (Fan :> Meaning(Fan, 1, "a", "mean")), topic |-> (Fan :> "none")]
Upgrades == {Base, Redefined, Moved, Raised, Lost}
OneCode  == {Base}

Symmetry == Permutations(Clients)
=============================================================================
