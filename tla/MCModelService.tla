--------------------------- MODULE MCModelService ---------------------------
(***************************************************************************)
(* Managers that share a profile and one with a profile of its own.        *)
(***************************************************************************)
EXTENDS ModelService, TLC

CONSTANTS m1, m2, m3

MCProfile == [m \in Managers |-> IF m = m3 THEN "other" ELSE "shared"]
\* A start and a stop beside another start; relaunches; a profile without a launch
\* section beside one that has it.
MCWorkloads ==
    {[m \in Managers |-> CASE m = m1 -> a [] m = m2 -> b [] m = m3 -> c] :
        <<a, b, c>> \in {<<<<"load", "unload">>, <<"load">>, <<>>>>,
                        <<<<"load", "load", "unload">>, <<>>, <<>>>>,
                        <<<<"load">>, <<>>, <<"load">>>>}}

=============================================================================
