---------------------------- MODULE MCSessions -----------------------------
(* Model-checking instances of a Process small enough for its signals'       *)
(* liveness, and of the programs that work for logged-in users: Login (init,  *)
(* getty, login, enable), Accounts (passwd, mkuser) and Mail.  They share no  *)
(* state: one of them moves in a behaviour, with the fairness it states.  A    *)
(* mailbox that is hurt stays so, MailKept says nothing of it and it is left.  *)
EXTENDS Process, Login, Accounts, Mail

VARIABLE part    \* the module that moves

MCUser == [p \in AcProcs |-> IF p = "p2" THEN "b" ELSE "a"]

MCInit == /\ part \in {"process", "login", "accounts", "mail"}
          /\ Init /\ LgStart /\ AcInit /\ MlInit
          /\ mlSent = IF part = "mail" THEN {"m1"} ELSE {}
          /\ part # "login" => \A i \in LgLines : lgTab[i] = "on"
MCNext ==
  /\ UNCHANGED part
  /\ \/ part = "process"  /\ NextBooted /\ UNCHANGED <<lgVars, acVars, mlVars>>
     \/ part = "login"    /\ LgNext /\ UNCHANGED <<vars, acVars, mlVars>>
     \/ part = "accounts" /\ AcNext /\ UNCHANGED <<vars, lgVars, mlVars>>
     \/ part = "mail"     /\ ~mlHurt /\ MlNext /\ UNCHANGED <<vars, lgVars, acVars>>
MCSpec ==
  /\ MCInit /\ [][MCNext]_<<part, vars, lgVars, acVars, mlVars>>
  /\ \A s \in Slots : WF_vars(part = "process" /\ Wake(s))
  /\ WF_vars(part = "process" /\ InitWaits)
  /\ WF_lgVars(part = "login" /\ LgInitStep)
=============================================================================
