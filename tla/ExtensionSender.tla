--------------------------- MODULE ExtensionSender ---------------------------
(***************************************************************************)
(* client/extension_sender.py on the transport of client/a2a_transport.py: *)
(* one use of it, which is an authorization, a notification subscription   *)
(* or a bare subscribe_to_task.                                            *)
(***************************************************************************)
EXTENDS Notification, Authorization

VARIABLE operation      \* which of them; never changes

senderVars == <<vars, streamVars, callVars, operation>>

SenderInit ==
    /\ Init /\ StreamInit /\ CallInit
    /\ operation \in {"authorization", "notification", "subscribe"}
    /\ method = IF operation = "authorization" THEN "consume" ELSE "subscribe"
    /\ operation # "notification" => prompt

Ended ==
    /\ \/ operation = "authorization" /\ call \in {"returned", "raised"}
       \/ operation = "subscribe" /\ stream # "open"
    /\ UNCHANGED senderVars

SenderNext ==
    \/ operation = "notification" /\ Next
         /\ UNCHANGED <<streamVars, callVars, operation>>
    \/ operation = "authorization" /\ CallNext /\ UNCHANGED <<vars, operation>>
    \/ operation = "subscribe" /\ StreamNext /\ UNCHANGED <<vars, callVars, operation>>
    \/ Ended

SenderSpec ==
    /\ SenderInit /\ [][SenderNext]_senderVars
    /\ operation = "notification" => Fairness
    /\ operation = "authorization" => CallFairness

-----------------------------------------------------------------------------
(* Under the deadline of the transport every authorization ends, whether    *)
(* the remote answers or not; and a subscription whose stream is dead is    *)
(* released.                                                               *)
UsesEnd ==
    /\ operation = "authorization" => <>(call \in {"returned", "raised"})
    /\ operation = "notification" => Released
=============================================================================
