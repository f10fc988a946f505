----------------------------- MODULE MCIdentity -----------------------------
\* Instances of Identity for TLC.
EXTENDS Identity, TLC

\* Keys differ in nothing but their identity.
KeySymmetry == Permutations(Key)

\* Bounds: the onboarding runs while there is a key to issue and no identity of another
\* machine, in behaviours of fewer than MaxStarts sessions.  (Until it runs, mismarked
\* holds just the identities of other machines.)
ShortSpec ==
  Init /\ [][Next /\ (runs' # runs => issued # Key)
                  /\ (runs' # 0 => starts' < MaxStarts)
                  /\ (runs = 0 /\ runs' # 0 => mismarked = {})]_vars
=============================================================================
