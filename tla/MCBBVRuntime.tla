---------------------------- MODULE MCBBVRuntime ----------------------------
(* Three blocks; the second is a loop whose properties depend on who asks  *)
(* first; the arena is one page short of all three.                        *)
EXTENDS BBVRuntime

MCFlow ==
  [b \in Blocks |-> [p \in Properties |->
     CASE b = 1 -> <<<<2, "int">>, <<3, "any">>>>
       [] b = 2 -> IF p = "int" THEN <<<<2, "int">>>> ELSE <<<<3, "int">>, <<2, "any">>>>
       [] b = 3 -> IF p = "int" THEN <<>> ELSE <<<<2, "any">>, <<1, "int">>>>]]
MCSize == [b \in Blocks |-> IF b = 2 THEN 2 ELSE 1]
=============================================================================
