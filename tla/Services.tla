------------------------------- MODULE Services -------------------------------
(***************************************************************************)
(* The three parts an execution shares with others: the account of the     *)
(* management center, the credentials of an agent and the client itself.    *)
(* They share only the clock, so a behaviour is one of one of them, and     *)
(* the others rest.                                                        *)
(***************************************************************************)
EXTENDS AccountAuth, CredentialService, ClientBinding

VARIABLE service    \* the part this behaviour is of; never changes

vars == <<service, now, authVars, credVars, bindingVars>>

Part == {"account", "credentials", "client"}

\* Whatever a part that rests could start with is left at one value.
Init ==
    /\ service \in Part
    /\ ClockInit /\ AuthInit /\ CredInit /\ BindingInit
    /\ service # "credentials" => requirements = <<>>
    /\ service # "client" => ~owns /\ listing = "missing"

AccountStep ==
    /\ service = "account" /\ AuthNext
    /\ UNCHANGED <<service, now, credVars, bindingVars>>

CredentialsStep ==
    /\ service = "credentials" /\ CredNext
    /\ UNCHANGED <<service, now, authVars, bindingVars>>

ClientStep ==
    /\ service = "client" /\ BindingNext
    /\ UNCHANGED <<service, now, authVars, credVars>>

TimePasses ==
    /\ service # "client" /\ Tick
    /\ UNCHANGED <<service, authVars, credVars, bindingVars>>

Next == AccountStep \/ CredentialsStep \/ ClientStep \/ TimePasses

(* HTTP timeouts end every login and every request; the lock is handed on   *)
(* in turn.  Nobody owes a failure while waiting for the lock.              *)
Fairness ==
    /\ \A r \in Request : WF_vars(service = "account" /\ Handle(r)
                             /\ UNCHANGED <<service, now, credVars, bindingVars>>)
    /\ \A c \in Call : WF_vars(service = "credentials" /\ Proceed(c)
                             /\ UNCHANGED <<service, now, authVars, bindingVars>>)

Spec == Init /\ [][Next]_vars /\ Fairness

-----------------------------------------------------------------------------
(* Every request is answered and every call gets its credentials or an     *)
(* error: no failure and no cancellation leaves a lock held.               *)
EveryCallEnds ==
    /\ service = "account" ~> \A r \in Request : request[r] \in Answered
    /\ service = "credentials" ~> \A c \in Call : at[c] \in {"applied", "raised"}

=============================================================================
