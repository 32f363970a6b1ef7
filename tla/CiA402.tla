------------------------------- MODULE CiA402 -------------------------------
(***************************************************************************)
(* The drive profile of cia402appl.c for MAX_AXES active axes (the build   *)
(* with CiA402_SAMPLE_APPLICATION).  The main loop runs CiA402_StateMachine*)
(* one axis after the other, and for each axis in steps, one for each read *)
(* and each write of i16State.  The cyclic application, CiA402_Application *)
(* for all axes, runs in an interrupt between any two of these steps, and  *)
(* so do the outputs that bring a new control word.                        *)
(***************************************************************************)
EXTENDS Integers

CONSTANTS MAX_AXES,    \* number of axes
          Writable,    \* option code objects the master writes in a run
          OptionCodes, \* values it writes
          ErrorsInterrupt, \* CiA402_LocalError is called in interrupts, not only between passes
          MaxEvents    \* bound: local errors and option code writes in a run

ASSUME AxesAssumption == MAX_AXES \in Nat \ {0}
ASSUME OptionAssumption == OptionCodes \subseteq Int /\ Writable \subseteq {"605A", "605B", "605C", "605E"}
ASSUME ErrorsAssumption == ErrorsInterrupt \in BOOLEAN
ASSUME EventAssumption == MaxEvents \in Nat

VARIABLES alOp,       \* nAlStatus = STATE_OP
          i16State,   \* state of each axis
          pending,    \* u16PendingOptionCode of each axis
          control,    \* objControlWord of each axis, as the command it is
          option,     \* option codes of each axis
          stopShown,  \* objStatusWord of each axis shows QUICK_STOP
          outputs,    \* bBrakeApplied, bHighLevelPowerApplied, bAxisFunctionEnabled
          counter,    \* axis the main loop is at
          at,         \* what the main loop does next with that axis
          word,       \* ControlWord6040, the copy CiA402_StateMachine works with
          from,       \* i16State as its first switch read it
          drive,      \* the outputs its second switch chose
          events      \* local errors and option code writes so far

vars == <<alOp, i16State, pending, control, option, stopShown, outputs, counter, at, word, from, drive, events>>

Axes == 0..MAX_AXES - 1

(***************************************************************************)
(* The masks of cia402appl.h put every control word into one command:      *)
(* bit 7 is FaultReset, else bit 1 clear DisableVoltage, else bit 2 clear  *)
(* QuickStop, else bit 0 clear Shutdown, else bit 3 tells SwitchOn (which  *)
(* is DisableOperation too) from EnableOperation.                          *)
(***************************************************************************)
Commands == {"FaultReset", "DisableVoltage", "QuickStop", "Shutdown",
             "SwitchOn", "EnableOperation"}

(***************************************************************************)
(* The option code objects a transition can wait for.                      *)
(***************************************************************************)
Objects == {"605A", "605B", "605C", "605E"}

(***************************************************************************)
(* Their values in DefCiA402ObjectValues: quick stop ramp, disable drive,  *)
(* slow down ramp, quick stop ramp.                                        *)
(***************************************************************************)
DefaultOptions == [o \in Objects |-> CASE o = "605B" -> 0 [] o = "605C" -> 1 [] OTHER -> 2]

Diagram == INSTANCE DriveDiagram WITH state <- i16State
States == Diagram!States

(***************************************************************************)
(* An operator ...Mutated, here and below, is the next definition with a   *)
(* slip that a property must find.                                         *)
(***************************************************************************)
OutputsMutated(s) == IF s \in {"OPERATION_ENABLED", "FAULT_REACTION"} THEN "enabled"
                     ELSE IF s = "SWITCHED_ON" THEN "powered" ELSE "off"

(***************************************************************************)
(* Brake on and no power, brake on and power, brake off and powered.       *)
(***************************************************************************)
Outputs(s) == IF s \in {"OPERATION_ENABLED", "QUICK_STOP", "FAULT_REACTION"} THEN "enabled"
              ELSE IF s = "SWITCHED_ON" THEN "powered" ELSE "off"

-----------------------------------------------------------------------------
(* CiA402_StateMachine.  *)

(***************************************************************************)
(* What the main loop goes on with after an interrupt.                     *)
(***************************************************************************)
Locations == {"next", "skip", "switch", "wait", "write", "update", "drive"}

Idle == counter = 0 /\ at = "next"

(***************************************************************************)
(* The next axis; 0 is the end of the pass.                                *)
(***************************************************************************)
Goto(a) == counter' = a /\ at' = "next" /\ word' = "none" /\ from' = "none" /\ drive' = "none"

StepMutated(a) == Goto(a + 1)
Step(a) == Goto(IF a + 1 < MAX_AXES THEN a + 1 ELSE 0)

(***************************************************************************)
(* return: the axes after this one are left out.                           *)
(***************************************************************************)
Return == Goto(0)

StillPending(a) ==
  /\ counter = a /\ at = "next" /\ pending[a] # "none"
  /\ Return
  /\ UNCHANGED <<alOp, i16State, pending, control, option, stopShown, outputs, events>>

(***************************************************************************)
(* The control word is copied; in OP transitions 1 and 2 are to be skipped.*)
(***************************************************************************)
ReadAxis(a) ==
  /\ counter = a /\ at = "next" /\ pending[a] = "none"
  /\ word' = control[a]
  /\ at' = IF alOp /\ i16State[a] \in {"NOT_READY", "SWITCH_ON_DISABLED"} THEN "skip" ELSE "switch"
  /\ UNCHANGED <<alOp, i16State, pending, control, option, stopShown, outputs, counter,
                 from, drive, events>>

SkipTransitionsMutated(a) ==
  /\ counter = a /\ at = "skip"
  /\ i16State' = [i16State EXCEPT ![a] = "SWITCHED_ON"]
  /\ at' = "switch"
  /\ UNCHANGED <<alOp, pending, control, option, stopShown, outputs, counter, word,
                 from, drive, events>>

SkipTransitions(a) ==
  /\ counter = a /\ at = "skip"
  /\ i16State' = [i16State EXCEPT ![a] = "READY"]
  /\ at' = "switch"
  /\ UNCHANGED <<alOp, pending, control, option, stopShown, outputs, counter, word,
                 from, drive, events>>

(***************************************************************************)
(* The option code a transition out of state s has to wait for.            *)
(***************************************************************************)
WaitsFor(a, s) ==
  CASE s = "OPERATION_ENABLED" /\ word = "SwitchOn" -> "605C"
    [] s = "OPERATION_ENABLED" /\ word = "Shutdown" -> "605B"
    [] s = "QUICK_STOP" /\ ~stopShown[a] -> "605A"
    [] s = "FAULT_REACTION" -> "605E"
    [] OTHER -> "none"

MustWait(a) == /\ WaitsFor(a, i16State[a]) # "none"
               /\ option[a][WaitsFor(a, i16State[a])] # 0

TargetMutated(s) ==
  CASE s = "NOT_READY" /\ alOp -> "SWITCH_ON_DISABLED"
    [] s = "SWITCH_ON_DISABLED" /\ word = "Shutdown" -> "READY"
    [] s = "READY" /\ word \in {"QuickStop", "DisableVoltage"} -> "SWITCH_ON_DISABLED"
    [] s = "READY" /\ word \in {"SwitchOn", "EnableOperation"} -> "SWITCHED_ON"
    [] s = "SWITCHED_ON" /\ word = "Shutdown" -> "READY"
    [] s = "SWITCHED_ON" /\ word = "QuickStop" -> "SWITCH_ON_DISABLED"
    [] s = "SWITCHED_ON" /\ word = "EnableOperation" -> "OPERATION_ENABLED"
    [] s = "OPERATION_ENABLED" /\ word = "SwitchOn" -> "SWITCHED_ON"
    [] s = "OPERATION_ENABLED" /\ word = "QuickStop" -> "QUICK_STOP"
    [] s = "OPERATION_ENABLED" /\ word = "Shutdown" -> "READY"
    [] s = "OPERATION_ENABLED" /\ word = "DisableVoltage" -> "SWITCH_ON_DISABLED"
    [] s = "QUICK_STOP" /\ word = "DisableVoltage" -> "SWITCH_ON_DISABLED"
    [] s = "QUICK_STOP" /\ word = "EnableOperation" -> "OPERATION_ENABLED"
    [] s = "FAULT_REACTION" -> "FAULT"
    [] s = "FAULT" /\ word = "FaultReset" -> "SWITCH_ON_DISABLED"
    [] OTHER -> s

(***************************************************************************)
(* The state after the switch, when no option code is to be waited for.    *)
(***************************************************************************)
Target(s) ==
  CASE s = "NOT_READY" /\ alOp -> "SWITCH_ON_DISABLED"
    [] s = "SWITCH_ON_DISABLED" /\ word = "Shutdown" -> "READY"
    [] s = "READY" /\ word \in {"QuickStop", "DisableVoltage"} -> "SWITCH_ON_DISABLED"
    [] s = "READY" /\ word \in {"SwitchOn", "EnableOperation"} -> "SWITCHED_ON"
    [] s = "SWITCHED_ON" /\ word = "Shutdown" -> "READY"
    [] s = "SWITCHED_ON" /\ word \in {"QuickStop", "DisableVoltage"} -> "SWITCH_ON_DISABLED"
    [] s = "SWITCHED_ON" /\ word = "EnableOperation" -> "OPERATION_ENABLED"
    [] s = "OPERATION_ENABLED" /\ word = "SwitchOn" -> "SWITCHED_ON"
    [] s = "OPERATION_ENABLED" /\ word = "QuickStop" -> "QUICK_STOP"
    [] s = "OPERATION_ENABLED" /\ word = "Shutdown" -> "READY"
    [] s = "OPERATION_ENABLED" /\ word = "DisableVoltage" -> "SWITCH_ON_DISABLED"
    [] s = "QUICK_STOP" /\ word = "DisableVoltage" -> "SWITCH_ON_DISABLED"
    [] s = "QUICK_STOP" /\ word = "EnableOperation" -> "OPERATION_ENABLED"
    [] s = "FAULT_REACTION" -> "FAULT"
    [] s = "FAULT" /\ word = "FaultReset" -> "SWITCH_ON_DISABLED"
    [] OTHER -> s

(***************************************************************************)
(* The first switch.  Out of OP it writes NOT_READY again.                 *)
(***************************************************************************)
Switch(a) ==
  /\ counter = a /\ at = "switch"
  /\ from' = i16State[a]
  /\ at' = IF MustWait(a) THEN "wait"
           ELSE IF i16State[a] = "NOT_READY" \/ Target(i16State[a]) # i16State[a] THEN "write"
           ELSE "update"
  /\ UNCHANGED <<alOp, i16State, pending, control, option, stopShown, outputs, counter, word,
                 drive, events>>

(***************************************************************************)
(* The option code is set pending, for the application to act on; nothing  *)
(* else is updated.                                                        *)
(***************************************************************************)
SetPending(a) ==
  /\ counter = a /\ at = "wait"
  /\ pending' = [pending EXCEPT ![a] = WaitsFor(a, from)]
  /\ Return
  /\ UNCHANGED <<alOp, i16State, control, option, stopShown, outputs, events>>

(***************************************************************************)
(* The transition, whatever the state is by now.                           *)
(***************************************************************************)
Transition(a) ==
  /\ counter = a /\ at = "write"
  /\ i16State' = [i16State EXCEPT ![a] = Target(from)]
  /\ at' = "update"
  /\ UNCHANGED <<alOp, pending, control, option, stopShown, outputs, counter, word,
                 from, drive, events>>

(***************************************************************************)
(* The second switch: "Update operational functions".                      *)
(***************************************************************************)
Update(a) ==
  /\ counter = a /\ at = "update"
  /\ drive' = Outputs(i16State[a])
  /\ at' = "drive"
  /\ UNCHANGED <<alOp, i16State, pending, control, option, stopShown, outputs, counter, word,
                 from, events>>

(***************************************************************************)
(* The outputs, and the status word: it gets the state the first switch    *)
(* read.  The four assignments are one step: motion control, their only    *)
(* reader, asks for all of them together, and the one that makes the       *)
(* difference is the last on the way in and the first on the way out.      *)
(***************************************************************************)
Drive(a) ==
  /\ counter = a /\ at = "drive"
  /\ outputs' = [outputs EXCEPT ![a] = drive]
  /\ stopShown' = [stopShown EXCEPT ![a] = from = "QUICK_STOP"]
  /\ Step(a)
  /\ UNCHANGED <<alOp, i16State, pending, control, option, events>>

CiA402_StateMachine ==
  \E a \in Axes : \/ StillPending(a) \/ ReadAxis(a) \/ SkipTransitions(a) \/ Switch(a)
                  \/ SetPending(a) \/ Transition(a) \/ Update(a) \/ Drive(a)

-----------------------------------------------------------------------------
(* CiA402_Application.  *)

(***************************************************************************)
(* CiA402_TransitionAction ends the four ramps at once and no other; quick *)
(* stop codes 5 to 8 stand for the ramps 1 to 4.                           *)
(***************************************************************************)
RampDone(a) == CASE pending[a] = "none" -> FALSE
                 [] pending[a] = "605A" -> option[a]["605A"] \in 1..8
                 [] OTHER -> option[a][pending[a]] \in 1..4

StaysInQuickStop(a) == pending[a] = "605A" /\ option[a]["605A"] \in 5..8

CompletedMutated(a) == CASE pending[a] = "605A" -> "READY"
                         [] pending[a] = "605B" -> "READY"
                         [] pending[a] = "605C" -> "SWITCHED_ON"
                         [] OTHER -> "FAULT"
Completed(a) == CASE pending[a] = "605A" -> "SWITCH_ON_DISABLED"
                  [] pending[a] = "605B" -> "READY"
                  [] pending[a] = "605C" -> "SWITCHED_ON"
                  [] OTHER -> "FAULT"

(***************************************************************************)
(* "objStatusWord &= ~STATUSWORD_STATE_SWITCHEDONDISABLED" clears 0x0040:   *)
(* it makes no other status word 0x0007, that of quick stop, so that       *)
(* stopShown is left alone.                                                *)
(***************************************************************************)
CiA402_Application ==
  /\ pending' = [a \in Axes |-> IF RampDone(a) THEN "none" ELSE pending[a]]
  /\ i16State' = [a \in Axes |-> IF RampDone(a) /\ ~StaysInQuickStop(a)
                                 THEN Completed(a) ELSE i16State[a]]
  /\ UNCHANGED <<alOp, control, option, stopShown, outputs, counter, at, word, from, drive, events>>

(***************************************************************************)
(* CiA402_LocalError: the application detects an error; all axes react.    *)
(* No code of the repository calls it: the application that does may be an *)
(* interrupt or a part of the main loop.                                   *)
(***************************************************************************)
CiA402_LocalError ==
  /\ ErrorsInterrupt \/ Idle
  /\ events < MaxEvents
  /\ events' = events + 1
  /\ i16State' = [a \in Axes |-> "FAULT_REACTION"]
  /\ UNCHANGED <<alOp, pending, control, option, stopShown, outputs, counter, at, word, from, drive>>

-----------------------------------------------------------------------------
(* The rest of the slave, and the master.  *)

(***************************************************************************)
(* ECAT_Main enters or leaves OP, between two passes; the axes keep their  *)
(* states.                                                                 *)
(***************************************************************************)
AlStatus ==
  /\ Idle
  /\ alOp' = ~alOp
  /\ UNCHANGED <<i16State, pending, control, option, stopShown, outputs, counter, at, word, from, drive, events>>

(***************************************************************************)
(* APPL_OutputMapping: a new control word, in OP only.                     *)
(***************************************************************************)
APPL_OutputMapping(a) ==
  /\ alOp
  /\ \E c \in Commands \ {control[a]} : control' = [control EXCEPT ![a] = c]
  /\ UNCHANGED <<alOp, i16State, pending, option, stopShown, outputs, counter, at, word, from, drive, events>>

(***************************************************************************)
(* The master writes an option code object (an SDO download in ECAT_Main). *)
(***************************************************************************)
WriteOption(a) ==
  /\ Idle /\ events < MaxEvents
  /\ events' = events + 1
  /\ \E o \in Writable, v \in OptionCodes : option' = [option EXCEPT ![a] = [@ EXCEPT ![o] = v]]
  /\ UNCHANGED <<alOp, i16State, pending, control, stopShown, outputs, counter, at, word, from, drive>>

(***************************************************************************)
(* CiA402_Init.                                                            *)
(***************************************************************************)
Init ==
  /\ alOp = FALSE
  /\ i16State = [a \in Axes |-> "NOT_READY"]
  /\ pending = [a \in Axes |-> "none"]
  /\ control = [a \in Axes |-> "DisableVoltage"]
  /\ option = [a \in Axes |-> DefaultOptions]
  /\ stopShown = [a \in Axes |-> FALSE]
  /\ outputs = [a \in Axes |-> "off"]
  /\ counter = 0 /\ at = "next" /\ word = "none" /\ from = "none" /\ drive = "none" /\ events = 0

Next == \/ CiA402_StateMachine \/ CiA402_Application \/ CiA402_LocalError \/ AlStatus
        \/ \E a \in Axes : APPL_OutputMapping(a) \/ WriteOption(a)

Spec == Init /\ [][Next]_vars

(***************************************************************************)
(* MainLoop runs for ever, and with it or in an interrupt the application. *)
(***************************************************************************)
FairSpec == Spec /\ WF_vars(CiA402_StateMachine) /\ WF_vars(CiA402_Application)

-----------------------------------------------------------------------------
(* Properties.  *)

TypeOK ==
  /\ alOp \in BOOLEAN
  /\ i16State \in [Axes -> States]
  /\ pending \in [Axes -> Objects \cup {"none"}]
  /\ control \in [Axes -> Commands]
  /\ option \in [Axes -> [Objects -> Int]]
  /\ stopShown \in [Axes -> BOOLEAN]
  /\ outputs \in [Axes -> {"off", "powered", "enabled"}]
  /\ counter \in Axes
  /\ at \in Locations
  /\ word \in Commands \cup {"none"}
  /\ from \in States \cup {"none"}
  /\ drive \in {"none", "off", "powered", "enabled"}
  /\ events \in 0..MaxEvents

(***************************************************************************)
(* The main loop is between the transition of the axis and its outputs.    *)
(***************************************************************************)
OutputsLag(a) == counter = a /\ at \in {"update", "drive"}

(***************************************************************************)
(* An axis that is operating or stops quickly has its brake released,      *)
(* whatever the application and errors do to its state meanwhile; only     *)
(* while the main loop is on its way from the transition to the outputs    *)
(* can an interrupt find it with the brake still applied.                  *)
(***************************************************************************)
OperatingIsEnabled ==
  \A a \in Axes : i16State[a] \in {"OPERATION_ENABLED", "QUICK_STOP"} /\ ~OutputsLag(a)
                   => outputs[a] = "enabled"

(***************************************************************************)
(* Only a switched-on axis and the command to enable it releases a brake:  *)
(* no pending option code of this or another axis, no change of the AL     *)
(* state and no error between two passes does it to an axis that stands    *)
(* still.  An error in an interrupt does, when the main loop is just at    *)
(* this axis: the second switch takes the fault reaction for operating.    *)
(***************************************************************************)
EnergisedOnCommand ==
  [][\A a \in Axes : outputs[a] # "enabled" /\ outputs'[a] = "enabled" =>
       \/ from = "SWITCHED_ON" /\ word = "EnableOperation" /\ outputs[a] = "powered"
       \/ ErrorsInterrupt /\ i16State[a] = "FAULT_REACTION"]_vars

(***************************************************************************)
(* Every axis follows the drive diagram.  An error in an interrupt may     *)
(* come between a read of i16State and the write that follows: then the    *)
(* write undoes the fault reaction (Overwritten).                          *)
(***************************************************************************)
ImplementsDiagram == Diagram!Spec

(***************************************************************************)
(* A master that goes on commanding "disable voltage" gets the axis        *)
(* powered off, whatever the other axes do, unless the option code of some *)
(* axis is never acted on (the master wrote a value that is no ramp).      *)
(* With a quick stop code of 5 to 8 it fails as QuickStopRunsOnce does.    *)
(***************************************************************************)
DisableVoltageIsObeyed ==
  ([]<>(\A a \in Axes : pending[a] = "none")) =>
     \A a \in Axes : <>[](control[a] = "DisableVoltage") => <>[](outputs[a] = "off")

(***************************************************************************)
(* "Only execute quick stop action in state transition 11"                 *)
(* (cia402appl.c:609): in an axis that stays in quick stop the action ends *)
(* and is not pending again.                                               *)
(***************************************************************************)
QuickStopRunsOnce ==
  \A a \in Axes : <>[](i16State[a] = "QUICK_STOP") => <>[](pending[a] = "none")
=============================================================================
