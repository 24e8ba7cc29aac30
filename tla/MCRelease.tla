------------------------------ MODULE MCRelease -----------------------------
(* From a checkpoint to the hub: the converters (Convert) and the two         *)
(* publishing scripts (HjepaBatch, HfPublish) on small instances.  The latter *)
(* share the fixtures dataset only, which HfPublish lets the other script     *)
(* change: a behaviour runs one of the three and leaves the variables of the  *)
(* others alone.                                                              *)
EXTENDS Convert, ConvertCases, HjepaBatch, HfPublish, TLC

CONSTANT Classifier

VARIABLE which

BatchNames == <<"ant", "cube">>
BatchDtypes == <<"f32", "f16">>
MCArtifacts == {"parity", "ssv2"}
MCQuotes == [m \in Models |-> {"parity"} \cup IF m = Classifier THEN {"ssv2"} ELSE {}]

vars == <<which, batchVars, publishVars, convertVars>>
Init ==
    /\ which \in {"batch", "publish", "convert"}
    /\ BatchInit /\ PublishInit
    /\ \/ which = "convert" /\ ConvertInit
       \/ which # "convert" /\ job = "none" /\ step = "none" /\ rows = {} /\ out = "old"
Next ==
    \/ which = "batch" /\ BatchNext /\ UNCHANGED <<which, publishVars, convertVars>>
    \/ which = "publish" /\ PublishNext /\ UNCHANGED <<which, batchVars, convertVars>>
    \/ which = "convert" /\ ConvertNext /\ UNCHANGED <<which, batchVars, publishVars>>
Spec == Init /\ [][Next]_vars

Symmetry == Permutations(Contents) \cup Permutations(Bytes)
=============================================================================
