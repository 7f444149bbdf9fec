------------------------------ MODULE MCDevices ------------------------------
(***************************************************************************)
(* What comes to a task from outside, for TLC: signals, the keyboard's     *)
(* ring of characters with two readers, or with one while the other tasks  *)
(* wait for it, its scan codes, and the timer's triggers.  They share no   *)
(* state in these models, so every behaviour explores one of them, and the *)
(* others stay in an initial state.                                        *)
(***************************************************************************)
EXTENDS Signal, Keyboard, Keycodes, Timer

CONSTANTS usr1, usr2, kill

VARIABLE explored

allVars == <<explored, vars, keyboardVars, keycodeVars, timerVars>>

Run == [handler |-> "run", mask |-> {}, nodefer |-> FALSE, resethand |-> FALSE]
TheActions == {Run, [Run EXCEPT !.handler = "ignore"],
               [Run EXCEPT !.mask = {kill}, !.nodefer = TRUE, !.resethand = TRUE]}
TheMasks == {{usr1}, {usr1, usr2, kill}}

\* The ring of Keyboard, with one reader, for whom the two others wait.
Alone == INSTANCE Keyboard WITH Readers <- {1}, Waiting <- {2, 3}

ASSUME ConstantsOK /\ KeyboardOK /\ Alone!KeyboardOK /\ KeycodesOK /\ TimerOK

AllInit ==
  /\ explored \in {"signals", "shared", "alone", "codes", "triggers"}
  /\ Init
  /\ IF explored = "alone" THEN Alone!KeyboardInit ELSE KeyboardInit
  /\ explored # "shared" => current = 1
  /\ KeycodesInit
  /\ TimerInit
  /\ explored # "triggers" => runs = 1

AllNext ==
  /\ UNCHANGED explored
  /\ \/ /\ explored = "signals" /\ Next
        /\ UNCHANGED <<keyboardVars, keycodeVars, timerVars>>
     \/ /\ explored = "shared" /\ KeyboardNext
        /\ UNCHANGED <<vars, keycodeVars, timerVars>>
     \/ /\ explored = "alone" /\ Alone!KeyboardNext
        /\ UNCHANGED <<vars, keycodeVars, timerVars>>
     \/ /\ explored = "codes" /\ KeycodesNext
        /\ UNCHANGED <<vars, keyboardVars, timerVars>>
     \/ /\ explored = "triggers" /\ TimerNext
        /\ UNCHANGED <<vars, keyboardVars, keycodeVars>>

AllSpec == AllInit /\ [][AllNext]_allVars

\* The fairness of the reader that is alone, as Keyboard states it.
AloneFairly ==
  /\ WF_allVars(/\ explored = "alone" /\ (Alone!ReadStep \/ Alone!WaitAgain)
             /\ UNCHANGED <<explored, vars, keycodeVars, timerVars>>)
  /\ SF_allVars(/\ explored = "alone" /\ Alone!Tick
             /\ UNCHANGED <<explored, vars, keycodeVars, timerVars>>)
FairSpec == AllSpec /\ AloneFairly
-----------------------------------------------------------------------------
\* The types of the states of the four.
AllTypeOK == TypeOK /\ KeyboardTypeOK /\ KeycodesTypeOK /\ TimerTypeOK

\* ReadersAreServed of Keyboard, of the behaviours with one reader.  The other
\* properties of the run are those of the modules it extends.
AloneIsServed == explored = "alone" => Alone!ReadersAreServed
=============================================================================
