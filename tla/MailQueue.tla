------------------------------- MODULE MailQueue -------------------------------
(***************************************************************************)
(* What the mailbox promises the master: the replies of the slave arrive in *)
(* the order they were sent, each exactly once, unless the mailbox is       *)
(* stopped, which loses the ones still under way.  Mailbox implements it    *)
(* over a link that loses and repeats.                                      *)
(***************************************************************************)
EXTENDS Sequences, Naturals

CONSTANT None         \* no reply received yet

VARIABLES queue,      \* replies sent and not received, oldest first
          last        \* the reply received last

vars == <<queue, last>>

Init == queue = <<>> /\ last = None

\* One or more replies are sent.
Send == /\ Len(queue') > Len(queue)
        /\ SubSeq(queue', 1, Len(queue)) = queue
        /\ UNCHANGED last

Receive == /\ queue # <<>>
           /\ last' = Head(queue) /\ queue' = Tail(queue)

Stop == queue' = <<>> /\ last' = None

Next == Send \/ Receive \/ Stop

Spec == Init /\ [][Next]_vars
===============================================================================
