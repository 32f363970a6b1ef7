---------------------------------- MODULE ESM ----------------------------------
(***************************************************************************)
(* The EtherCAT State Machine as the master sees it: the AL Status register *)
(* (a state and an error flag) and the AL Control register it writes.  This *)
(* is the promise that ecatslv.c has to keep; EcatSlave implements it.      *)
(*                                                                         *)
(* The slave rises one state at a time and only on request, it may fall at  *)
(* any moment, an error flag stays up until the master acknowledges it or   *)
(* asks for INIT, and OP is never shown together with an error.             *)
(***************************************************************************)
EXTENDS Naturals

CONSTANT Requests        \* the AL Control values the master may write

VARIABLES ctl,           \* AL Control: [req, ack, id]
          st, err,       \* AL Status: state and error flag
          pending        \* a SAFEOP-to-OP transition is in work

vars == <<ctl, st, err, pending>>

States == {"INIT", "PREOP", "BOOT", "SAFEOP", "OP"}

\* Height of a state in the diagram; BOOT stands beside PREOP above INIT.
Rank == [s \in States |-> CASE s = "INIT" -> 0 [] s \in {"PREOP", "BOOT"} -> 1
                            [] s = "SAFEOP" -> 2 [] s = "OP" -> 3]

\* The only upward edges of the diagram.
Rises == {<<"INIT", "PREOP">>, <<"INIT", "BOOT">>, <<"PREOP", "SAFEOP">>}

\* A request is heard when no error is shown, or when it acknowledges it, or
\* when it asks for INIT (which needs no acknowledgement).
Heard == ~err \/ ctl.ack \/ ctl.req = "INIT"

Init == /\ ctl \in Requests
        /\ st = "INIT" /\ err = FALSE /\ pending = FALSE

Request == ctl' \in Requests /\ UNCHANGED <<st, err, pending>>

Rise == /\ Heard /\ <<st, ctl.req>> \in Rises
        /\ st' = ctl.req /\ err' = FALSE /\ pending' = FALSE
        /\ UNCHANGED ctl

Pend == /\ Heard /\ st = "SAFEOP" /\ ctl.req = "OP"
        /\ pending' = TRUE
        /\ UNCHANGED <<ctl, st, err>>

Confirm == /\ pending
           /\ st' = "OP" /\ err' = FALSE /\ pending' = FALSE
           /\ UNCHANGED ctl

\* Downward, on request or on the slave's own account (then with an error).
Fall == /\ st' \in States /\ Rank[st'] < Rank[st]
        /\ err' \in BOOLEAN
        /\ err' \/ (Heard /\ ctl.req = st')
        /\ pending' = FALSE
        /\ UNCHANGED ctl

\* A refused request or a failed pending transition; never shown in OP.
Refuse == /\ st # "OP"
          /\ err' = TRUE /\ pending' = FALSE
          /\ UNCHANGED <<ctl, st>>

\* The state is confirmed without a change: an acknowledgement, or a change of
\* the sync managers that left the configuration valid.
Ack == /\ err => ctl.ack \/ ctl.req = "INIT" \/ pending
       /\ err' = FALSE /\ pending' = FALSE
       /\ UNCHANGED <<ctl, st>>

Next == Request \/ Rise \/ Pend \/ Confirm \/ Fall \/ Refuse \/ Ack

Spec == Init /\ [][Next]_vars
=============================================================================
