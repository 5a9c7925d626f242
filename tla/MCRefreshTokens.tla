--------------------------- MODULE MCRefreshTokens ---------------------------
(* Constants and symmetry for the model checking of RefreshTokens.         *)
EXTENDS RefreshTokensLedger, TLC

\* Tokens, users and slots are interchangeable in every safety property.
Symmetry == Permutations(Tokens) \cup Permutations(Users) \cup Permutations(Requests)

\* Requests overlap freely but for the three overlaps that break the strict contract.
\* Only a request that arrives or goes on can run into one: faults begin nothing.
KeptApart == OneRotation /\ QuietReplay /\ QuietLogout

ApartNext ==
    \/ \E r \in Requests : (Arrivals(r) \/ Progress(r)) /\ KeptApart'
    \/ \E r \in Requests : Faults(r)
    \/ Crash
    \/ Tick

ApartSpec == Init /\ [][ApartNext]_vars
=============================================================================
