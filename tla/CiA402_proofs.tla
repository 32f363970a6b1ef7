---------------------------- MODULE CiA402_proofs ----------------------------
(***************************************************************************)
(* What CiA402 guarantees for any number of axes and whatever option codes *)
(* the master writes.                                                      *)
(***************************************************************************)
EXTENDS CiA402, TLAPS

(***************************************************************************)
(* The inductive invariant.  While an option code of an axis is pending    *)
(* the main loop does not work on the axis, so its outputs stay as they    *)
(* were, and its state is the one the transition leaves or, after an       *)
(* error, FAULT_REACTION.  While the main loop does work on an axis nothing*)
(* but an error changes its state behind the copy in from.                 *)
(***************************************************************************)
SwitchedOnIsPowered ==
  \A a \in Axes : i16State[a] = "SWITCHED_ON" /\ ~OutputsLag(a) => outputs[a] # "off"

PendingIsEnabled ==
  \A a \in Axes : pending[a] \in {"605A", "605B", "605C"} => outputs[a] = "enabled"

PendingMatchesState ==
  \A a \in Axes :
    /\ pending[a] = "605A" => i16State[a] \in {"QUICK_STOP", "FAULT_REACTION"}
    /\ pending[a] \in {"605B", "605C"} => i16State[a] \in {"OPERATION_ENABLED", "FAULT_REACTION"}
    /\ pending[a] = "605E" => i16State[a] = "FAULT_REACTION"

(***************************************************************************)
(* An error came between the read of the state of the axis and a later     *)
(* step of the main loop.                                                  *)
(***************************************************************************)
Struck(a) == ErrorsInterrupt /\ i16State[a] = "FAULT_REACTION"

PendingIsLeftAlone == at # "next" => pending[counter] = "none"

SkipIsStanding ==
  at = "skip" => i16State[counter] \in {"NOT_READY", "SWITCH_ON_DISABLED"} \/ Struck(counter)

FromIsRead ==
  at \in {"wait", "write", "update", "drive"} =>
    /\ from \in States
    /\ from \in {"OPERATION_ENABLED", "QUICK_STOP"} => outputs[counter] = "enabled"
    /\ from = "SWITCHED_ON" => outputs[counter] # "off"

FromIsLeft == at \in {"wait", "write"} => i16State[counter] = from \/ Struck(counter)

TargetIsReached ==
  at \in {"update", "drive"} => i16State[counter] = Target(from) \/ Struck(counter)

DriveIsChosen ==
  at = "drive" => \/ drive = Outputs(Target(from))
                  \/ drive = "enabled" /\ Struck(counter)

Outside == /\ OperatingIsEnabled
           /\ SwitchedOnIsPowered
           /\ PendingIsEnabled
           /\ PendingMatchesState

Inside == /\ PendingIsLeftAlone
          /\ SkipIsStanding
          /\ FromIsRead
          /\ FromIsLeft
          /\ TargetIsReached
          /\ DriveIsChosen

IInv == TypeOK /\ Outside /\ Inside
-----------------------------------------------------------------------------
(***************************************************************************)
(* The first axis is axis 0, and the next of an axis is an axis.           *)
(***************************************************************************)
LEMMA AxesFacts ==
  /\ 0 \in Axes
  /\ \A a \in Axes : a + 1 < MAX_AXES => a + 1 \in Axes
BY AxesAssumption DEF Axes

(***************************************************************************)
(* No transition leads out of the diagram, nor to the fault reaction: only *)
(* CiA402_LocalError does that.                                            *)
(***************************************************************************)
LEMMA TargetIsState ==
  ASSUME NEW s \in States
  PROVE  Target(s) \in States \ {"FAULT_REACTION"}
BY DEF Target, States, Diagram!States

LEMMA OutputsType ==
  ASSUME NEW s
  PROVE  Outputs(s) \in {"off", "powered", "enabled"}
BY DEF Outputs

(***************************************************************************)
(* What a transition waits for, and in which state.                        *)
(***************************************************************************)
LEMMA WaitsForState ==
  ASSUME NEW a \in Axes, NEW s \in States
  PROVE  /\ WaitsFor(a, s) \in Objects \cup {"none"}
         /\ WaitsFor(a, s) = "605A" => s = "QUICK_STOP"
         /\ WaitsFor(a, s) \in {"605B", "605C"} => s = "OPERATION_ENABLED"
         /\ WaitsFor(a, s) = "605E" => s = "FAULT_REACTION"
BY DEF WaitsFor, Objects

LEMMA CompletedState ==
  ASSUME NEW a \in Axes
  PROVE  /\ Completed(a) \in {"SWITCH_ON_DISABLED", "READY", "SWITCHED_ON", "FAULT"}
         /\ Completed(a) = "SWITCHED_ON" => pending[a] = "605C"
BY DEF Completed

LEMMA RampDoneIsPending ==
  ASSUME NEW a \in Axes, RampDone(a)
  PROVE  pending[a] # "none"
BY DEF RampDone

LEMMA InitIInv == Init => IInv
<1> SUFFICES ASSUME Init PROVE IInv
  OBVIOUS
<1>1. DefaultOptions \in [Objects -> Int]
  BY DEF DefaultOptions
<1>2. TypeOK
  <2>1. option \in [Axes -> [Objects -> Int]]
    BY <1>1 DEF Init
  <2>2. control \in [Axes -> Commands] /\ word \in Commands \cup {"none"}
    BY DEF Init, Commands
  <2>3. i16State \in [Axes -> States] /\ pending \in [Axes -> Objects \cup {"none"}]
    BY DEF Init, States, Diagram!States
  <2>4. counter \in Axes /\ events \in 0..MaxEvents
    BY AxesFacts, EventAssumption DEF Init
  <2>5. alOp \in BOOLEAN /\ stopShown \in [Axes -> BOOLEAN]
        /\ outputs \in [Axes -> {"off", "powered", "enabled"}]
    BY DEF Init
  <2>6. at \in Locations /\ from \in States \cup {"none"}
        /\ drive \in {"none", "off", "powered", "enabled"}
    BY DEF Init, Locations
  <2> QED BY <2>1, <2>2, <2>3, <2>4, <2>5, <2>6 DEF TypeOK
<1>3. Outside
  BY DEF Init, Outside, OperatingIsEnabled, SwitchedOnIsPowered, PendingIsEnabled,
         PendingMatchesState
<1>4. Inside
  BY DEF Init, Inside, PendingIsLeftAlone, SkipIsStanding, FromIsRead, FromIsLeft,
         TargetIsReached, DriveIsChosen
<1> QED BY <1>2, <1>3, <1>4 DEF IInv
-----------------------------------------------------------------------------
(* One lemma for each kind of step.  *)

(***************************************************************************)
(* A pass that ends, or goes on to the next axis, is at no axis for now.   *)
(***************************************************************************)
LEMMA GotoFacts ==
  ASSUME NEW a \in Axes, Goto(a)
  PROVE  /\ counter' \in Axes /\ at' = "next" /\ at' \in Locations
         /\ word' \in Commands \cup {"none"} /\ from' \in States \cup {"none"}
         /\ drive' \in {"none", "off", "powered", "enabled"}
         /\ Inside'
BY DEF Goto, Locations, Inside, PendingIsLeftAlone, SkipIsStanding, FromIsRead, FromIsLeft,
       TargetIsReached, DriveIsChosen

LEMMA StillPendingIInv ==
  ASSUME IInv, NEW a \in Axes, StillPending(a)
  PROVE  IInv'
<1>1. Goto(0)
  BY DEF StillPending, Return
<1>2. TypeOK' /\ Inside'
  BY <1>1, GotoFacts, AxesFacts DEF IInv, TypeOK, StillPending
<1>3. \A b \in Axes : ~OutputsLag(b)
  BY DEF StillPending, OutputsLag
<1>4. Outside'
  BY <1>3 DEF IInv, Outside, StillPending, OperatingIsEnabled, SwitchedOnIsPowered,
              PendingIsEnabled, PendingMatchesState
<1> QED BY <1>2, <1>4 DEF IInv

LEMMA ReadAxisIInv ==
  ASSUME IInv, NEW a \in Axes, ReadAxis(a)
  PROVE  IInv'
<1>1. at' \in {"skip", "switch"} /\ counter' = a
  BY DEF ReadAxis
<1>2. TypeOK'
  BY <1>1 DEF IInv, TypeOK, ReadAxis, Locations
<1>3. \A b \in Axes : ~OutputsLag(b) /\ ~OutputsLag(b)'
  BY <1>1 DEF ReadAxis, OutputsLag
<1>4. Outside'
  BY <1>3 DEF IInv, Outside, ReadAxis, OperatingIsEnabled, SwitchedOnIsPowered,
              PendingIsEnabled, PendingMatchesState
<1>5. PendingIsLeftAlone' /\ SkipIsStanding'
  BY <1>1 DEF ReadAxis, PendingIsLeftAlone, SkipIsStanding
<1>6. FromIsRead' /\ FromIsLeft' /\ TargetIsReached' /\ DriveIsChosen'
  BY <1>1 DEF FromIsRead, FromIsLeft, TargetIsReached, DriveIsChosen
<1> QED BY <1>2, <1>4, <1>5, <1>6 DEF IInv, Inside

LEMMA SkipTransitionsIInv ==
  ASSUME IInv, NEW a \in Axes, SkipTransitions(a)
  PROVE  IInv'
<1>1. at' = "switch" /\ counter' = a /\ pending[a] = "none"
  BY DEF SkipTransitions, IInv, Inside, PendingIsLeftAlone
<1>2. \A b \in Axes : i16State'[b] = IF b = a THEN "READY" ELSE i16State[b]
  BY DEF IInv, TypeOK, SkipTransitions
<1>3. TypeOK'
  <2>1. i16State' \in [Axes -> States]
    BY DEF IInv, TypeOK, SkipTransitions, States, Diagram!States
  <2> QED BY <1>1, <2>1 DEF IInv, TypeOK, SkipTransitions, Locations
<1>4. \A b \in Axes : ~OutputsLag(b) /\ ~OutputsLag(b)'
  BY <1>1 DEF SkipTransitions, OutputsLag
<1>5. OperatingIsEnabled' /\ SwitchedOnIsPowered'
  BY <1>2, <1>4 DEF IInv, Outside, SkipTransitions, OperatingIsEnabled, SwitchedOnIsPowered
<1>6. PendingIsEnabled' /\ PendingMatchesState'
  BY <1>1, <1>2 DEF IInv, Outside, SkipTransitions, PendingIsEnabled, PendingMatchesState
<1>7. Inside'
  BY <1>1 DEF SkipTransitions, Inside, PendingIsLeftAlone, SkipIsStanding, FromIsRead,
              FromIsLeft, TargetIsReached, DriveIsChosen
<1> QED BY <1>3, <1>5, <1>6, <1>7 DEF IInv, Outside

LEMMA SwitchIInv ==
  ASSUME IInv, NEW a \in Axes, Switch(a)
  PROVE  IInv'
<1>1. /\ counter = a /\ counter' = a /\ at = "switch" /\ at' \in {"wait", "write", "update"}
      /\ from' = i16State[a] /\ i16State[a] \in States
      /\ pending[a] = "none"
  BY DEF Switch, IInv, TypeOK, Inside, PendingIsLeftAlone
<1>2. TypeOK'
  BY <1>1 DEF IInv, TypeOK, Switch, Locations
<1>3. \A b \in Axes : ~OutputsLag(b)
  BY <1>1 DEF OutputsLag
<1>4. Outside'
  BY <1>3 DEF IInv, Outside, Switch, OperatingIsEnabled, SwitchedOnIsPowered,
              PendingIsEnabled, PendingMatchesState
<1>5. PendingIsLeftAlone' /\ SkipIsStanding' /\ FromIsLeft' /\ DriveIsChosen'
  BY <1>1 DEF Switch, PendingIsLeftAlone, SkipIsStanding, FromIsLeft, DriveIsChosen
<1>6. FromIsRead'
  BY <1>1, <1>3 DEF IInv, Outside, OperatingIsEnabled, SwitchedOnIsPowered, Switch, FromIsRead,
                    States
<1>7. at' = "update" => Target(i16State[a]) = i16State[a]
  BY DEF Switch
<1>8. Target(from)' = Target(i16State[a])
  BY <1>1 DEF Target, Switch
<1>9. TargetIsReached'
  BY <1>1, <1>7, <1>8 DEF TargetIsReached, Switch
<1> QED BY <1>2, <1>4, <1>5, <1>6, <1>9 DEF IInv, Inside

LEMMA SetPendingIInv ==
  ASSUME IInv, NEW a \in Axes, SetPending(a)
  PROVE  IInv'
<1> DEFINE o == WaitsFor(a, from)
<1>1. /\ from \in States /\ counter = a
      /\ from \in {"OPERATION_ENABLED", "QUICK_STOP"} => outputs[a] = "enabled"
      /\ i16State[a] \in {from, "FAULT_REACTION"}
  BY DEF IInv, Inside, FromIsRead, FromIsLeft, Struck, SetPending
<1>2. /\ o \in Objects \cup {"none"}
      /\ o = "605A" => from = "QUICK_STOP"
      /\ o \in {"605B", "605C"} => from = "OPERATION_ENABLED"
      /\ o = "605E" => from = "FAULT_REACTION"
  BY <1>1, WaitsForState
<1> HIDE DEF o
<1>3. pending' = [pending EXCEPT ![a] = o] /\ Goto(0)
  BY DEF SetPending, Return, o
<1>4. \A b \in Axes : pending'[b] = IF b = a THEN o ELSE pending[b]
  BY <1>3 DEF IInv, TypeOK
<1>5. TypeOK' /\ Inside'
  BY <1>2, <1>3, GotoFacts, AxesFacts DEF IInv, TypeOK, SetPending
<1>6. \A b \in Axes : ~OutputsLag(b)
  BY DEF OutputsLag, SetPending
<1>7. OperatingIsEnabled' /\ SwitchedOnIsPowered'
  BY <1>6 DEF IInv, Outside, OperatingIsEnabled, SwitchedOnIsPowered, SetPending
<1>8. PendingIsEnabled'
  BY <1>1, <1>2, <1>4 DEF IInv, Outside, PendingIsEnabled, SetPending
<1>9. PendingMatchesState'
  BY <1>1, <1>2, <1>4 DEF IInv, Outside, PendingMatchesState, SetPending
<1> QED BY <1>5, <1>7, <1>8, <1>9 DEF IInv, Outside

LEMMA TransitionIInv ==
  ASSUME IInv, NEW a \in Axes, Transition(a)
  PROVE  IInv'
<1> DEFINE t == Target(from)
<1>1. /\ counter = a /\ counter' = a /\ at = "write" /\ at' = "update" /\ from' = from
      /\ pending' = pending /\ outputs' = outputs /\ pending[a] = "none"
  BY DEF Transition, IInv, Inside, PendingIsLeftAlone
<1>2. t \in States /\ Target(from)' = t
  BY <1>1, TargetIsState DEF IInv, Inside, FromIsRead, Transition, Target
<1>3. i16State' = [i16State EXCEPT ![a] = t]
  BY DEF Transition
<1> HIDE DEF t
<1>4. \A b \in Axes : i16State'[b] = IF b = a THEN t ELSE i16State[b]
  BY <1>3 DEF IInv, TypeOK
<1>5. TypeOK'
  <2>1. i16State' \in [Axes -> States]
    BY <1>2, <1>3 DEF IInv, TypeOK
  <2> QED BY <1>1, <2>1 DEF IInv, TypeOK, Transition, Locations
<1>6. \A b \in Axes : ~OutputsLag(b) /\ (OutputsLag(b)' <=> b = a)
  BY <1>1 DEF OutputsLag
<1>7. OperatingIsEnabled' /\ SwitchedOnIsPowered'
  BY <1>1, <1>4, <1>6 DEF IInv, Outside, OperatingIsEnabled, SwitchedOnIsPowered
<1>8. PendingIsEnabled' /\ PendingMatchesState'
  BY <1>1, <1>4 DEF IInv, Outside, PendingIsEnabled, PendingMatchesState
<1>9. FromIsRead'
  BY <1>1 DEF IInv, Inside, FromIsRead
<1>10. TargetIsReached'
  BY <1>1, <1>2, <1>4 DEF TargetIsReached
<1>11. PendingIsLeftAlone' /\ SkipIsStanding' /\ FromIsLeft' /\ DriveIsChosen'
  BY <1>1 DEF PendingIsLeftAlone, SkipIsStanding, FromIsLeft, DriveIsChosen
<1> QED BY <1>5, <1>7, <1>8, <1>9, <1>10, <1>11 DEF IInv, Outside, Inside

LEMMA UpdateIInv ==
  ASSUME IInv, NEW a \in Axes, Update(a)
  PROVE  IInv'
<1>1. /\ counter = a /\ counter' = a /\ at = "update" /\ at' = "drive"
      /\ UNCHANGED <<i16State, pending, outputs, word, from, alOp>>
      /\ drive' = Outputs(i16State[a])
  BY DEF Update
<1>2. TypeOK'
  BY <1>1, OutputsType DEF IInv, TypeOK, Update, Locations
<1>3. \A b \in Axes : OutputsLag(b)' <=> OutputsLag(b)
  BY <1>1 DEF OutputsLag
<1>4. Outside'
  BY <1>1, <1>3 DEF IInv, Outside, OperatingIsEnabled, SwitchedOnIsPowered, PendingIsEnabled,
                    PendingMatchesState
<1>5. Target(from)' = Target(from) /\ (Struck(a)' <=> Struck(a))
  BY <1>1 DEF Target, Struck
<1>6. i16State[a] = Target(from) \/ Struck(a)
  BY <1>1 DEF IInv, Inside, TargetIsReached
<1>7. TargetIsReached'
  BY <1>1, <1>5, <1>6 DEF TargetIsReached
<1>8. Struck(a) => Outputs(i16State[a]) = "enabled"
  BY DEF Struck, Outputs
<1>9. Outputs(Target(from))' = Outputs(Target(from))
  BY <1>5 DEF Outputs
<1>10. DriveIsChosen'
  BY <1>1, <1>5, <1>6, <1>8, <1>9 DEF DriveIsChosen
<1>11. FromIsRead' /\ PendingIsLeftAlone' /\ SkipIsStanding' /\ FromIsLeft'
  BY <1>1 DEF IInv, Inside, FromIsRead, PendingIsLeftAlone, SkipIsStanding, FromIsLeft
<1> QED BY <1>2, <1>4, <1>7, <1>10, <1>11 DEF IInv, Inside

LEMMA DriveIInv ==
  ASSUME IInv, NEW a \in Axes, Drive(a)
  PROVE  IInv'
<1>1. /\ counter = a /\ at = "drive" /\ UNCHANGED <<i16State, pending>>
      /\ outputs' = [outputs EXCEPT ![a] = drive] /\ pending[a] = "none"
  BY DEF Drive, IInv, Inside, PendingIsLeftAlone
<1>2. drive \in {"off", "powered", "enabled"}
  BY <1>1, OutputsType DEF IInv, Inside, DriveIsChosen
<1>3. \A b \in Axes : outputs'[b] = IF b = a THEN drive ELSE outputs[b]
  BY <1>1 DEF IInv, TypeOK
<1>4. PICK n \in Axes : Goto(n)
  BY AxesFacts DEF Drive, Step
<1>5. TypeOK' /\ Inside'
  <2>1. outputs' \in [Axes -> {"off", "powered", "enabled"}]
    BY <1>1, <1>2 DEF IInv, TypeOK
  <2>2. stopShown' \in [Axes -> BOOLEAN]
    BY DEF IInv, TypeOK, Drive
  <2> QED BY <1>4, <2>1, <2>2, GotoFacts DEF IInv, TypeOK, Drive
<1>6. \A b \in Axes : OutputsLag(b) => b = a
  BY <1>1 DEF OutputsLag
<1>7. i16State[a] # "FAULT_REACTION" => drive = Outputs(i16State[a])
  BY <1>1 DEF IInv, Inside, DriveIsChosen, TargetIsReached, Struck
<1>8. OperatingIsEnabled' /\ SwitchedOnIsPowered'
  BY <1>1, <1>3, <1>6, <1>7 DEF IInv, Outside, OperatingIsEnabled, SwitchedOnIsPowered, Outputs
<1>9. PendingIsEnabled' /\ PendingMatchesState'
  BY <1>1, <1>3 DEF IInv, Outside, PendingIsEnabled, PendingMatchesState
<1> QED BY <1>5, <1>8, <1>9 DEF IInv, Outside

LEMMA ApplicationIInv ==
  ASSUME IInv, CiA402_Application
  PROVE  IInv'
<1>1. \A b \in Axes :
        /\ pending'[b] = (IF RampDone(b) THEN "none" ELSE pending[b])
        /\ i16State'[b] = (IF RampDone(b) /\ ~StaysInQuickStop(b) THEN Completed(b) ELSE i16State[b])
  BY DEF CiA402_Application
<1>2. UNCHANGED <<alOp, outputs, counter, at, word, from, drive>>
  BY DEF CiA402_Application
<1>3. TypeOK'
  <2>1. pending' \in [Axes -> Objects \cup {"none"}]
    BY DEF IInv, TypeOK, CiA402_Application
  <2>2. \A b \in Axes : i16State'[b] \in States
    BY <1>1, CompletedState DEF IInv, TypeOK, States, Diagram!States
  <2>3. i16State' \in [Axes -> States]
    BY <2>2 DEF CiA402_Application
  <2> QED BY <2>1, <2>3 DEF IInv, TypeOK, CiA402_Application
<1>4. \A b \in Axes : OutputsLag(b)' <=> OutputsLag(b)
  BY <1>2 DEF OutputsLag
<1>5. OperatingIsEnabled'
  BY <1>1, <1>2, <1>4, CompletedState DEF IInv, Outside, OperatingIsEnabled
<1>6. SwitchedOnIsPowered'
  BY <1>1, <1>2, <1>4, CompletedState
     DEF IInv, Outside, SwitchedOnIsPowered, PendingIsEnabled
<1>7. PendingIsEnabled'
  BY <1>1, <1>2 DEF IInv, Outside, PendingIsEnabled
<1>8. PendingMatchesState'
  BY <1>1 DEF IInv, Outside, PendingMatchesState
<1>9. at # "next" => /\ pending[counter] = "none" /\ pending'[counter] = "none"
                     /\ i16State'[counter] = i16State[counter]
  <2>1. counter \in Axes
    BY DEF IInv, TypeOK
  <2> QED BY <1>1, <2>1, RampDoneIsPending DEF IInv, Inside, PendingIsLeftAlone
<1>10. Target(from)' = Target(from) /\ Outputs(Target(from))' = Outputs(Target(from))
  BY <1>2 DEF Target, Outputs
<1>11. Inside'
  BY <1>2, <1>9, <1>10 DEF IInv, Inside, PendingIsLeftAlone, SkipIsStanding, FromIsRead,
                            FromIsLeft, TargetIsReached, DriveIsChosen, Struck
<1> QED BY <1>3, <1>5, <1>6, <1>7, <1>8, <1>11 DEF IInv, Outside

LEMMA LocalErrorIInv ==
  ASSUME IInv, CiA402_LocalError
  PROVE  IInv'
<1>1. \A b \in Axes : i16State'[b] = "FAULT_REACTION"
  BY DEF CiA402_LocalError
<1>2. UNCHANGED <<alOp, pending, outputs, counter, at, word, from, drive>>
  BY DEF CiA402_LocalError
<1>3. TypeOK'
  <2>1. i16State' \in [Axes -> States]
    BY DEF CiA402_LocalError, States, Diagram!States
  <2>2. events' \in 0..MaxEvents
    BY EventAssumption DEF IInv, TypeOK, CiA402_LocalError
  <2> QED BY <2>1, <2>2 DEF IInv, TypeOK, CiA402_LocalError
<1>4. OperatingIsEnabled' /\ SwitchedOnIsPowered' /\ PendingMatchesState'
  BY <1>1 DEF IInv, TypeOK, Objects, OperatingIsEnabled, SwitchedOnIsPowered, PendingMatchesState
<1>5. PendingIsEnabled'
  BY <1>2 DEF IInv, Outside, PendingIsEnabled
<1>6. Inside'
  <2>1. CASE ErrorsInterrupt
    <3>1. Struck(counter)'
      BY <1>1, <1>2, <2>1 DEF IInv, TypeOK, Struck
    <3>2. Outputs(Target(from))' = Outputs(Target(from))
      BY <1>2 DEF Target, Outputs
    <3>3. PendingIsLeftAlone' /\ FromIsRead'
      BY <1>2 DEF IInv, Inside, PendingIsLeftAlone, FromIsRead
    <3>4. DriveIsChosen'
      BY <1>2, <3>1, <3>2 DEF IInv, Inside, DriveIsChosen
    <3> QED BY <3>1, <3>3, <3>4 DEF Inside, SkipIsStanding, FromIsLeft, TargetIsReached
  <2>2. CASE at = "next"
    BY <1>2, <2>2 DEF Inside, PendingIsLeftAlone, SkipIsStanding, FromIsRead, FromIsLeft,
                      TargetIsReached, DriveIsChosen
  <2> QED BY <2>1, <2>2 DEF CiA402_LocalError, Idle
<1> QED BY <1>3, <1>4, <1>5, <1>6 DEF IInv, Outside

(***************************************************************************)
(* The steps that touch neither an axis nor the pass.                      *)
(***************************************************************************)
LEMMA OtherIInv ==
  ASSUME IInv, TypeOK', at = "next" \/ alOp' = alOp,
         UNCHANGED <<i16State, pending, outputs, counter, at, word, from, drive>>
  PROVE  IInv'
<1>1. Outside'
  BY DEF IInv, Outside, OperatingIsEnabled, SwitchedOnIsPowered, PendingIsEnabled,
         PendingMatchesState, OutputsLag
<1>2. at # "next" => Target(from)' = Target(from) /\ Outputs(Target(from))' = Outputs(Target(from))
  BY DEF Target, Outputs
<1>3. Inside'
  BY <1>2 DEF IInv, Inside, PendingIsLeftAlone, SkipIsStanding, FromIsRead, FromIsLeft,
              TargetIsReached, DriveIsChosen, Struck
<1> QED BY <1>1, <1>3 DEF IInv

LEMMA EnvironmentIInv ==
  ASSUME IInv,
         \/ AlStatus
         \/ \E a \in Axes : APPL_OutputMapping(a) \/ WriteOption(a)
         \/ UNCHANGED vars
  PROVE  IInv'
<1>1. CASE AlStatus
  <2>1. TypeOK'
    BY <1>1 DEF IInv, TypeOK, AlStatus
  <2> QED BY <1>1, <2>1, OtherIInv DEF AlStatus, Idle
<1>2. ASSUME NEW a \in Axes, APPL_OutputMapping(a)
      PROVE  IInv'
  <2>1. TypeOK'
    BY <1>2 DEF IInv, TypeOK, APPL_OutputMapping
  <2> QED BY <1>2, <2>1, OtherIInv DEF APPL_OutputMapping
<1>3. ASSUME NEW a \in Axes, WriteOption(a)
      PROVE  IInv'
  <2>1. PICK o \in Writable, v \in OptionCodes : option' = [option EXCEPT ![a] = [@ EXCEPT ![o] = v]]
    BY <1>3 DEF WriteOption
  <2>2. o \in Objects /\ v \in Int
    BY OptionAssumption DEF Objects
  <2>3. option' \in [Axes -> [Objects -> Int]]
    BY <2>1, <2>2 DEF IInv, TypeOK
  <2>4. events' \in 0..MaxEvents
    BY <1>3, EventAssumption DEF IInv, TypeOK, WriteOption
  <2>5. TypeOK'
    BY <1>3, <2>3, <2>4 DEF IInv, TypeOK, WriteOption
  <2> QED BY <1>3, <2>5, OtherIInv DEF WriteOption
<1>4. CASE UNCHANGED vars
  <2>1. TypeOK'
    BY <1>4 DEF IInv, TypeOK, vars
  <2> QED BY <1>4, <2>1, OtherIInv DEF vars
<1> QED BY <1>1, <1>2, <1>3, <1>4

LEMMA StepIInv == IInv /\ [Next]_vars => IInv'
<1> SUFFICES ASSUME IInv, [Next]_vars PROVE IInv'
  OBVIOUS
<1>1. CASE CiA402_StateMachine
  BY <1>1, StillPendingIInv, ReadAxisIInv, SkipTransitionsIInv, SwitchIInv, SetPendingIInv,
     TransitionIInv, UpdateIInv, DriveIInv DEF CiA402_StateMachine
<1>2. CASE CiA402_Application
  BY <1>2, ApplicationIInv
<1>3. CASE CiA402_LocalError
  BY <1>3, LocalErrorIInv
<1>4. CASE \/ AlStatus
           \/ \E a \in Axes : APPL_OutputMapping(a) \/ WriteOption(a)
           \/ UNCHANGED vars
  BY <1>4, EnvironmentIInv
<1> QED BY <1>1, <1>2, <1>3, <1>4 DEF Next
-----------------------------------------------------------------------------
(* The theorems.  *)

(***************************************************************************)
(* The invariant holds in every run, for any number of axes.               *)
(***************************************************************************)
THEOREM Invariance == Spec => []IInv
<1>1. Init => IInv
  BY InitIInv
<1>2. IInv /\ [Next]_vars => IInv'
  BY StepIInv
<1> QED BY <1>1, <1>2, PTL DEF Spec

(***************************************************************************)
(* The variables keep their types; the axis worked on always exists.       *)
(***************************************************************************)
THEOREM TypeCorrect == Spec => []TypeOK
<1>1. IInv => TypeOK
  BY DEF IInv
<1> QED BY <1>1, Invariance, PTL

(***************************************************************************)
(* An axis that operates or stops quickly has its brake released and its   *)
(* function enabled, whatever errors and the application do between any two*)
(* steps, but for the time the main loop takes from the transition to the  *)
(* outputs.                                                                *)
(***************************************************************************)
THEOREM OperatingSafe == Spec => []OperatingIsEnabled
<1>1. IInv => OperatingIsEnabled
  BY DEF IInv, Outside
<1> QED BY <1>1, Invariance, PTL

(***************************************************************************)
(* The outputs of an axis change in CiA402_StateMachine only, on the axis  *)
(* it works on.                                                            *)
(***************************************************************************)
LEMMA OnlyDriveDrives ==
  ASSUME IInv, [Next]_vars, NEW a \in Axes, outputs'[a] # outputs[a]
  PROVE  Drive(a)
<1>1. ASSUME NEW b \in Axes, Drive(b)
      PROVE  b = a
  BY <1>1 DEF Drive, IInv, TypeOK
<1>2. \E b \in Axes : Drive(b)
  BY DEF Next, CiA402_StateMachine, StillPending, ReadAxis, SkipTransitions, Switch, SetPending,
         Transition, Update, CiA402_Application, CiA402_LocalError, AlStatus,
         APPL_OutputMapping, WriteOption, vars
<1> QED BY <1>1, <1>2

(***************************************************************************)
(* A brake is released by the command for a switched-on axis or, where     *)
(* errors come in interrupts, by an error that strikes the axis at work.   *)
(***************************************************************************)
THEOREM EnergisedSafe == Spec => EnergisedOnCommand
<1> DEFINE C(a) == \/ from = "SWITCHED_ON" /\ word = "EnableOperation" /\ outputs[a] = "powered"
                   \/ ErrorsInterrupt /\ i16State[a] = "FAULT_REACTION"
           A == \A a \in Axes : outputs[a] # "enabled" /\ outputs'[a] = "enabled" => C(a)
<1>1. IInv /\ [Next]_vars => A
  <2> SUFFICES ASSUME IInv, [Next]_vars, NEW a \in Axes,
                      outputs[a] # "enabled", outputs'[a] = "enabled", ~Struck(a)
               PROVE  from = "SWITCHED_ON" /\ word = "EnableOperation" /\ outputs[a] = "powered"
    BY DEF Struck
  <2>1. Drive(a)
    BY OnlyDriveDrives
  <2>2. drive = "enabled" /\ counter = a /\ at = "drive"
    BY <2>1 DEF Drive, IInv, TypeOK
  <2>3. from \in States /\ from \notin {"OPERATION_ENABLED", "QUICK_STOP"}
        /\ (from = "SWITCHED_ON" => outputs[a] # "off")
    BY <2>2 DEF IInv, Inside, FromIsRead
  <2>4. Outputs(Target(from)) = "enabled"
    BY <2>2 DEF IInv, Inside, DriveIsChosen
  <2>5. Target(from) \in {"OPERATION_ENABLED", "QUICK_STOP"}
    BY <2>3, <2>4, TargetIsState DEF Outputs
  <2>6. from = "SWITCHED_ON" /\ word = "EnableOperation"
    BY <2>3, <2>5 DEF Target
  <2>7. outputs[a] = "powered"
    BY <2>3, <2>6 DEF IInv, TypeOK
  <2> QED BY <2>6, <2>7
<1>2. IInv /\ [Next]_vars => [A]_vars
  BY <1>1
<1> QED BY <1>2, Invariance, PTL DEF Spec, EnergisedOnCommand

(***************************************************************************)
(* Each step moves an axis along the diagram or leaves it.                 *)
(***************************************************************************)
LEMMA TransitionMoves ==
  ASSUME IInv, NEW a \in Axes, Transition(a)
  PROVE  Diagram!Move
<1>1. \A b \in Axes : i16State'[b] = IF b = a THEN Target(from) ELSE i16State[b]
  BY DEF Transition, IInv, TypeOK
<1>2. from \in States /\ Target(from) \in States /\ (i16State[a] = from \/ Struck(a))
  BY TargetIsState DEF Transition, IInv, Inside, FromIsRead, FromIsLeft
<1>3. Target(from) = from \/ <<from, Target(from)>> \in Diagram!Edges
  BY <1>2 DEF Target, States, Diagram!States, Diagram!Edges
<1>4. CASE i16State[a] = from
  BY <1>1, <1>3, <1>4 DEF Diagram!Move
<1>5. CASE Struck(a)
  BY <1>1, <1>2, <1>5 DEF Struck, States, Diagram!Move, Diagram!Overwritten
<1> QED BY <1>2, <1>4, <1>5

LEMMA SkipTransitionsMoves ==
  ASSUME IInv, NEW a \in Axes, SkipTransitions(a)
  PROVE  Diagram!Move
<1>1. \A b \in Axes : i16State'[b] = IF b = a THEN "READY" ELSE i16State[b]
  BY DEF SkipTransitions, IInv, TypeOK
<1>2. CASE i16State[a] \in {"NOT_READY", "SWITCH_ON_DISABLED"}
  BY <1>1, <1>2 DEF Diagram!Move, Diagram!Edges
<1>3. CASE Struck(a)
  BY <1>1, <1>3 DEF Struck, Diagram!Move, Diagram!Overwritten, Diagram!States
<1> QED BY <1>2, <1>3 DEF SkipTransitions, IInv, Inside, SkipIsStanding

LEMMA ApplicationMoves ==
  ASSUME IInv, CiA402_Application
  PROVE  Diagram!Move
<1> SUFFICES ASSUME NEW b \in Axes, i16State'[b] # i16State[b]
             PROVE  <<i16State[b], i16State'[b]>> \in Diagram!Edges \cup Diagram!Overtaken
  BY DEF Diagram!Move
<1> USE DEF IInv, Outside, PendingMatchesState, Completed, Diagram!Edges, Diagram!Overtaken
<1>1. RampDone(b) /\ i16State'[b] = Completed(b)
  BY DEF CiA402_Application
<1>2. pending[b] \in Objects
  BY <1>1, RampDoneIsPending DEF TypeOK
<1>3. CASE pending[b] = "605A"
  BY <1>1, <1>3
<1>4. CASE pending[b] = "605B"
  BY <1>1, <1>4
<1>5. CASE pending[b] = "605C"
  BY <1>1, <1>5
<1>6. CASE pending[b] = "605E"
  BY <1>1, <1>6
<1> QED BY <1>2, <1>3, <1>4, <1>5, <1>6 DEF Objects

LEMMA StepMoves ==
  ASSUME IInv, [Next]_vars
  PROVE  [Diagram!Next]_i16State
<1>1. i16State' \in [Axes -> Diagram!States]
  BY StepIInv DEF IInv, TypeOK, States
<1>2. CASE \E a \in Axes : Transition(a) \/ SkipTransitions(a)
  BY <1>1, <1>2, TransitionMoves, SkipTransitionsMoves DEF Diagram!Next
<1>3. CASE CiA402_Application
  BY <1>1, <1>3, ApplicationMoves DEF Diagram!Next
<1>4. CASE CiA402_LocalError
  <2>1. \A b \in Axes : <<i16State[b], i16State'[b]>> \in Diagram!ToFault
    BY <1>4 DEF CiA402_LocalError, IInv, TypeOK, States, Diagram!ToFault
  <2> QED BY <1>1, <2>1 DEF Diagram!Next, Diagram!Move
<1>5. CASE i16State' = i16State
  BY <1>5
<1> QED
  BY <1>2, <1>3, <1>4, <1>5 DEF Next, CiA402_StateMachine, StillPending, ReadAxis, Switch,
     SetPending, Update, Drive, AlStatus, APPL_OutputMapping, WriteOption, vars

(***************************************************************************)
(* The main loop, the interrupt and the errors together move every axis    *)
(* along the drive diagram; only where errors come in interrupts can a     *)
(* transition undo a fault reaction.                                       *)
(***************************************************************************)
THEOREM FollowsDiagram == Spec => ImplementsDiagram
<1>1. Init => Diagram!Init
  BY DEF Init, Diagram!Init
<1>2. IInv /\ [Next]_vars => [Diagram!Next]_i16State
  BY StepMoves
<1> QED BY <1>1, <1>2, Invariance, PTL DEF Spec, ImplementsDiagram, Diagram!Spec
=============================================================================
