--------------------------- MODULE MCProgramLoad ---------------------------
(* Three symbols of every combination of engines and import kinds.  The     *)
(* symbols are interchangeable, so their kinds are listed in one order.     *)
EXTENDS ProgramLoad

CONSTANTS f, g, h

MCFunctions == {f, g, h}

Ranks == <<"interpreter", "eager", "lazy", "blocks", "foreign", "callback", "typed">>

MCKinds ==
  {[x \in MCFunctions |-> Ranks[IF x = f THEN t[1] ELSE IF x = g THEN t[2] ELSE t[3]]] :
     t \in {t \in (1..4) \X (1..7) \X (1..7) : t[1] <= t[2] /\ t[2] <= t[3]}}

\* Every function refers to all symbols, or to all but the jump targets.
MCPrograms ==
  {[kind |-> k, jump |-> j, entries |-> e, symbols |-> MCFunctions,
    calls |-> [x \in MCFunctions |->
                 IF k[x] \in Imports THEN {} ELSE IF d THEN MCFunctions ELSE MCFunctions \ j],
    labels |-> {x \in l : k[x] \notin Imports},
    expressions |-> {x \in m \ j : k[x] \notin Imports}] :
     k \in MCKinds, j \in SUBSET MCFunctions, e \in BOOLEAN, d \in BOOLEAN,
     l \in {{}, {g}, MCFunctions}, m \in {{}, {f}, MCFunctions}}
=============================================================================
