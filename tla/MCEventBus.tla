----------------------------- MODULE MCEventBus -----------------------------
(* Small instances of EventBus. *)
EXTENDS EventBusProps, TLC
CONSTANTS p1, p2, tui, recorder

Narrow == [s \in Subs |-> IF s = tui THEN 1 ELSE 2]
RecorderFirst == <<recorder>>
TextOnly == {"text"}
=============================================================================
