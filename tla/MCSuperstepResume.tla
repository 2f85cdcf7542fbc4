-------------------------- MODULE MCSuperstepResume --------------------------
(* Instances of SuperstepResume for TLC. *)
EXTENDS SuperstepResume, TLC

CONSTANTS t1, t2, h1

NoTasks   == {}
OneTask   == {t1}
OtherTask == {t2}
TwoTasks  == {t1, t2}
OneHandler == {h1}
Handles1  == t1 :> h1
NoHandlers == <<>>
=============================================================================
