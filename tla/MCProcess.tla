----------------------------- MODULE MCProcess -----------------------------
(* Model-checking instances of Process, Memory and Alarm.  They share no     *)
(* state: one of them moves in a behaviour, with the fairness it states.     *)
EXTENDS Process, Memory, Alarm

VARIABLE part    \* the module that moves

MCInit == /\ part \in {"process", "memory", "alarm"}
          /\ Init /\ MemInitial /\ AlInit
          /\ part # "alarm" => alCurr = CHOOSE p \in AlProcs : TRUE
MCNext ==
  /\ UNCHANGED part
  /\ \/ part = "process" /\ NextBooted /\ UNCHANGED <<memVars, alVars>>
     \/ part = "memory" /\ MemNext /\ UNCHANGED <<vars, alVars>>
     \/ part = "alarm" /\ AlNext /\ UNCHANGED <<vars, memVars>>
MCSpec ==
  /\ MCInit /\ [][MCNext]_<<part, vars, memVars, alVars>>
  /\ \A s \in Slots : WF_vars(part = "process" /\ Wake(s))
  /\ WF_vars(part = "process" /\ InitWaits)
  /\ WF_alVars(part = "alarm" /\ AlTick)
  /\ \A p \in AlProcs : /\ WF_alVars(part = "alarm" /\ AlSwitch(p))
                        /\ SF_alVars(part = "alarm" /\ AlWake(p))
=============================================================================
