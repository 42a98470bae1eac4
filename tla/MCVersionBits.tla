--------------------------- MODULE MCVersionBits ---------------------------
(***************************************************************************)
(* Instances of VersionBits for TLC: two branches that part after the      *)
(* first period, one deployment by height and one by median time.          *)
(***************************************************************************)
EXTENDS VersionBits

CONSTANTS taproot, mweb, b2, b4, G, A1, A2, A3, A4, A5, A6, A7, B2, B3

MCParent ==
    [b \in Block \ {G} |->
        CASE b = A1 -> G [] b = A2 -> A1 [] b = A3 -> A2 [] b = A4 -> A3 [] b = A5 -> A4
          [] b = A6 -> A5 [] b = A7 -> A6 [] b = B2 -> A1 [] b = B3 -> B2]

MCvDeployments ==
    [d \in Deployment |->
        IF d = taproot
        THEN [bit |-> b2, nStartTime |-> 0, nTimeout |-> 0,
              nStartHeight |-> 2, nTimeoutHeight |-> 6]
        ELSE [bit |-> b4, nStartTime |-> 3, nTimeout |-> 5,
              nStartHeight |-> 0, nTimeoutHeight |-> 0]]

MCTimes ==
    [b \in Block |->
        CASE b = G -> {0} [] b = A1 -> {2, 3} [] b = A2 -> {1, 4} [] b = A3 -> {2, 4}
          [] b = B2 -> {4} [] b = B3 -> {6} [] OTHER -> {5}]

MCVersions ==
    [b \in Block |->
        CASE b = G -> {{}} [] b = A1 -> {{b4}}
          [] b \in {A2, A3} -> {{}, {b2, b4}}
          [] OTHER -> {{b4}}]
=============================================================================
