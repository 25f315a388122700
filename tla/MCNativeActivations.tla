------------------------ MODULE MCNativeActivations ------------------------
(* A program with both engines, a lazily compiled one without a boundary    *)
(* and an interpreted one, on one thread.                                   *)
EXTENDS NativeActivations

CONSTANTS mixed, lazy, interpreted

MCPrograms == {mixed, lazy, interpreted}
MCNative == {mixed, lazy}
MCInterpreting == {mixed, interpreted}
MCBoundary == {mixed}
=============================================================================
