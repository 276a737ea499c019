------------------------------- MODULE MCHarness -------------------------------
\* Instances for TLC of what a named daemon does for its clients, of how it is started and
\* stopped, and of the release scripts.  They share no state; a behaviour is one of one of
\* them.
EXTENDS TabRecovery, NamedDaemon, Release, TLC

VARIABLE part

Init == part \in {"tabs", "daemon", "release"} /\ TabInit /\ NamedInit /\ ReleaseInit

Next ==
    /\ UNCHANGED part
    /\ \/ part = "tabs" /\ TabNext /\ UNCHANGED <<namedVars, releaseVars>>
       \/ part = "daemon" /\ NamedNext /\ UNCHANGED <<tabVars, releaseVars>>
       \/ part = "release" /\ ReleaseNext /\ UNCHANGED <<tabVars, namedVars>>

Spec == Init /\ [][Next]_<<part, tabVars, namedVars, releaseVars>>

Symmetry == Permutations(Tabs) \cup Permutations(TabRequests)

=============================================================================
