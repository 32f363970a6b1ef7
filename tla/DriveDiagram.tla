---------------------------- MODULE DriveDiagram ----------------------------
(***************************************************************************)
(* The state diagram of a CiA 402 drive, as the comments "Transition 1" to *)
(* "Transition 16" of cia402appl.c number its edges.  It is what a master  *)
(* may rely on: CiA402 implements it.  Axes move independently; several    *)
(* may move at once.                                                       *)
(***************************************************************************)
CONSTANTS Axes,
          ErrorsInterrupt \* an error may come while the main loop is at work on an axis

VARIABLE state

(***************************************************************************)
(* The eight states (STATE_... of cia402appl.h).                           *)
(***************************************************************************)
States == {"NOT_READY", "SWITCH_ON_DISABLED", "READY", "SWITCHED_ON",
           "OPERATION_ENABLED", "QUICK_STOP", "FAULT_REACTION", "FAULT"}

(***************************************************************************)
(* Transitions 1 to 12, 14, 15 and 16; NOT_READY to READY is 1 and 2 taken *)
(* together.                                                               *)
(***************************************************************************)
Edges ==
  {<<"NOT_READY", "SWITCH_ON_DISABLED">>, <<"NOT_READY", "READY">>,
   <<"SWITCH_ON_DISABLED", "READY">>,
   <<"READY", "SWITCHED_ON">>, <<"READY", "SWITCH_ON_DISABLED">>,
   <<"SWITCHED_ON", "OPERATION_ENABLED">>, <<"SWITCHED_ON", "READY">>,
   <<"SWITCHED_ON", "SWITCH_ON_DISABLED">>,
   <<"OPERATION_ENABLED", "SWITCHED_ON">>, <<"OPERATION_ENABLED", "READY">>,
   <<"OPERATION_ENABLED", "SWITCH_ON_DISABLED">>,
   <<"OPERATION_ENABLED", "QUICK_STOP">>,
   <<"QUICK_STOP", "SWITCH_ON_DISABLED">>, <<"QUICK_STOP", "OPERATION_ENABLED">>,
   <<"FAULT_REACTION", "FAULT">>, <<"FAULT", "SWITCH_ON_DISABLED">>}

(***************************************************************************)
(* Transition 13: an error is detected, in any state.                      *)
(***************************************************************************)
ToFault == States \X {"FAULT_REACTION"}

(***************************************************************************)
(* Not in the diagram, but in the code: the end of a transition that was   *)
(* still pending when the error came replaces the fault reaction.          *)
(***************************************************************************)
Overtaken == {"FAULT_REACTION"} \X {"SWITCHED_ON", "READY", "SWITCH_ON_DISABLED"}

(***************************************************************************)
(* Nor is this: the main loop read the state before the error and writes   *)
(* the transition after it.                                                *)
(***************************************************************************)
Overwritten == IF ErrorsInterrupt THEN {"FAULT_REACTION"} \X States ELSE {}

Init == state = [a \in Axes |-> "NOT_READY"]

Move == \A a \in Axes : \/ state'[a] = state[a]
                        \/ <<state[a], state'[a]>> \in Edges \cup ToFault \cup Overtaken \cup Overwritten

Next == /\ state' \in [Axes -> States]
        /\ Move

Spec == Init /\ [][Next]_state
=============================================================================
