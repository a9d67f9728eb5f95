------------------------- MODULE MCResponseConsole -------------------------
(* Two tabs of one browser, two proposed actions.                           *)
EXTENDS ResponseConsole

CONSTANTS t1, t2, b, x, y

MCJar == [t \in {t1, t2} |-> b]
MCProposed == <<x, y>>
=============================================================================
