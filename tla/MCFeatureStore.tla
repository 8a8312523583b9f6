--------------------------- MODULE MCFeatureStore ---------------------------
(* Instances of FeatureStore: two features that begin with one definition. *)
EXTENDS FeatureStore, TLC

CONSTANTS r1, r2, r3, f1, f2, pure, fromNews

MCRuns == {r1, r2, r3}
MCFeatures == {f1, f2}
MCDefinitions == {pure, fromNews}
MCDef == f1 :> pure @@ f2 :> pure
MCNewsDefs == {fromNews}
\* The first may become a feature made from news, or be deleted.
MCEdited == {f1}
\* Two runs of one feature, and a run of a model's features, which goes on without one.
MCWanted == r1 :> {f1} @@ r2 :> {f1} @@ r3 :> {f1, f2}
MCLenient == {r3}
\* The first two runs can be exchanged.
MCSymmetry == Permutations({r1, r2})

\* Only those two.
MCTwins == {r1, r2}
MCTwinsWanted == r1 :> {f1} @@ r2 :> {f1}
MCTwinsLenient == {}
=============================================================================
