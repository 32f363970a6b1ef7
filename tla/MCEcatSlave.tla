------------------------------ MODULE MCEcatSlave ------------------------------
(***************************************************************************)
(* Values of the constants of EcatSlave for model checking.                 *)
(***************************************************************************)
EXTENDS EcatSlave

Req(s, a, i) == [req |-> s, ack |-> a, id |-> i]

\* Every state requested, some with an acknowledgement; no device ID.
MCRequests == {Req("INIT", FALSE, FALSE), Req("PREOP", TRUE, FALSE),
               Req("SAFEOP", TRUE, FALSE), Req("OP", FALSE, FALSE),
               Req("OP", TRUE, FALSE), Req("BOOT", FALSE, FALSE),
               Req("UNKNOWNOP", FALSE, FALSE)}
\* A master that only climbs, acknowledges and falls.
MCFewRequests == {Req("INIT", FALSE, FALSE), Req("PREOP", FALSE, FALSE),
                  Req("SAFEOP", TRUE, FALSE), Req("OP", FALSE, FALSE)}
\* Enough to reach OP, to leave it and to acknowledge an error on the way.
MCDcRequests == {Req("PREOP", FALSE, FALSE), Req("SAFEOP", TRUE, FALSE),
                 Req("OP", FALSE, FALSE)}
\* The explicit device ID is asked for with an acknowledgement.
MCIdRequests == MCFewRequests \cup {Req("OP", TRUE, TRUE), Req("SAFEOP", TRUE, TRUE)}

Map(r, o, i) == [res |-> r, out |-> o, in |-> i]
MCMappings == {Map(NoErr, TRUE, TRUE), Map(NoErr, FALSE, TRUE), Map(NoErr, FALSE, FALSE)}
MCOutMapping == {Map(NoErr, TRUE, TRUE)}

\* Free run is what only the user sets.
Cfg(r, s, w) == [res |-> r, sync |-> s, user |-> s = "FREERUN", sync0 |-> 0, wd |-> w]
MCSmConfigs == {Cfg(NoErr, "FREERUN", FALSE), Cfg(NoErr, "SM", TRUE),
                Cfg("INVALIDSMINCFG", "SM", FALSE), Cfg("INVALIDWDCFG", "SM", TRUE)}
\* Sync0 cycles of a millisecond.
MCDcConfigs == {[Cfg(NoErr, "DC", FALSE) EXCEPT !.sync0 = 2]}
\* SM and DC synchronous operation, both without a fault.
MCGoodConfigs == {Cfg(NoErr, "SM", TRUE)} \cup MCDcConfigs
===============================================================================
