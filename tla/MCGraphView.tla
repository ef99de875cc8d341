----------------------------- MODULE MCGraphView -----------------------------
(* One namespace: nothing stored yet, or a file and its edge from another   *)
(* run.                                                                     *)
EXTENDS GraphView

CONSTANTS file, section, edge

NodeItems == {file, section}

Histories == {<<>>, <<file, edge>>}

=============================================================================
