---------------------------- MODULE ClientBinding ----------------------------
(***************************************************************************)
(* The life of a WorkflowEngineClient and of the A2ATransport under it:     *)
(* executions that take the client one after the other, AgentCards that    *)
(* are replaced while one is under way, the cached A2A client of an agent,  *)
(* a stream of messages read by a consumer of its own, and close().        *)
(*                                                                         *)
(* One agent stands for all: cards of different agents share nothing but    *)
(* the moment they are replaced.                                           *)
(***************************************************************************)
EXTENDS Naturals

CONSTANTS
    Execution,      \* the executions that use the client
    NoExecution,    \* the client is not bound
    MaxUpdates      \* bound on the replacements of the cards

ASSUME BindingAssumption == NoExecution \notin Execution /\ MaxUpdates \in Nat

(* The agent's card may be missing, or be one that no client can be built   *)
(* from: credentials, protocol or TLS options do not fit.                   *)
Listing == {"missing", "usable", "unusable"}

VARIABLES
    closed, owns,       \* _closed and _close_transport_on_close
    transport_closed,
    active,             \* _active_execution_id
    handlers,           \* whose control point and event callback are installed
    execution,          \* where each execution is
    card,               \* the version of the card its interaction goes by, or 0
    version, listing,   \* the cards at hand
    client,             \* version of the card the cached client is of, or 0
    stream, any_event   \* where the stream is; received_any_event

binding == <<active, handlers, execution>>
cards == <<version, listing>>
life == <<closed, owns, transport_closed>>
streaming == <<stream, any_event>>

bindingVars == <<life, binding, card, cards, client, streaming>>

BindingInit ==
    /\ closed = FALSE /\ owns \in BOOLEAN /\ transport_closed = FALSE
    /\ active = NoExecution /\ handlers = NoExecution
    /\ execution = [e \in Execution |-> "new"]
    /\ card = [e \in Execution |-> 0]
    /\ version = 1 /\ listing \in Listing
    /\ client = 0
    /\ stream = "unread" /\ any_event = FALSE

(* Mutant: the binding of another execution is not respected. *)
BeginRegardless(e) ==
    /\ execution[e] = "new"
    /\ IF closed
         THEN execution' = [execution EXCEPT ![e] = "refused"]
              /\ UNCHANGED <<active, handlers>>
         ELSE /\ active' = e /\ handlers' = e
              /\ execution' = [execution EXCEPT ![e] = "running"]
    /\ UNCHANGED <<life, card, cards, client, streaming>>

(* run() binds the client outside its try: refused, it does not unbind.     *)
Begin(e) ==
    /\ execution[e] = "new"
    /\ IF closed \/ active # NoExecution
         THEN execution' = [execution EXCEPT ![e] = "refused"]
              /\ UNCHANGED <<active, handlers>>
         ELSE /\ active' = e /\ handlers' = e
              /\ execution' = [execution EXCEPT ![e] = "running"]
    /\ UNCHANGED <<life, card, cards, client, streaming>>

(* end_execution(), when the execution has come to an end or is cancelled.  *)
(* A subtask that a step left behind goes on with its interaction.         *)
End(e) ==
    /\ execution[e] = "running"
    /\ \/ /\ execution' = [execution EXCEPT ![e] = "ended"]
          /\ card' = [card EXCEPT ![e] = 0]
       \/ /\ execution' = [execution EXCEPT ![e] = "left"]
          /\ UNCHANGED card
    /\ IF active = e THEN active' = NoExecution /\ handlers' = NoExecution
                     ELSE UNCHANGED <<active, handlers>>
    /\ UNCHANGED <<life, cards, client, streaming>>

(* What was left behind has come to an end too.                            *)
EndLeft(e) ==
    /\ execution[e] = "left"
    /\ execution' = [execution EXCEPT ![e] = "ended"]
    /\ card' = [card EXCEPT ![e] = 0]
    /\ UNCHANGED <<life, active, handlers, cards, client, streaming>>

AtWork(e) == execution[e] \in {"running", "left"}

(* dispatch() looks the card up and keeps it for the whole interaction.     *)
StartInteraction(e) ==
    /\ AtWork(e) /\ card[e] = 0
    /\ ~closed /\ listing # "missing"
    /\ card' = [card EXCEPT ![e] = version]
    /\ UNCHANGED <<life, binding, cards, client, streaming>>

(* create_a2a_client()                                                     *)
Buildable == ~transport_closed /\ listing = "usable"

(* client_for(): a client at hand is used even if the transport is closed.  *)
ClientAvailable == listing # "missing" /\ (client # 0 \/ Buildable)

CacheClient == client' = IF client = 0 THEN version ELSE client

(* Every round of the interaction asks for the client anew.                *)
Round(e) ==
    /\ AtWork(e) /\ card[e] # 0
    /\ IF ClientAvailable
         THEN CacheClient /\ UNCHANGED card
         ELSE card' = [card EXCEPT ![e] = 0] /\ UNCHANGED client
    /\ UNCHANGED <<life, binding, cards, streaming>>

EndInteraction(e) ==
    /\ AtWork(e) /\ card[e] # 0
    /\ card' = [card EXCEPT ![e] = 0]
    /\ UNCHANGED <<life, binding, cards, client, streaming>>

(* The card map and the interceptors made from the cards are replaced; the  *)
(* credential services behind them stay.                                   *)
ReplaceCards ==
    /\ version <= MaxUpdates
    /\ version' = version + 1 /\ listing' \in Listing

(* Mutant: the cached clients outlive the update. *)
UpdateCardsOnly ==
    /\ ReplaceCards
    /\ UNCHANGED <<life, binding, card, client, streaming>>

(* update_agent_cards(), all at once; invalid cards are refused and change  *)
(* nothing.                                                                *)
UpdateCards ==
    /\ ReplaceCards
    /\ client' = 0
    /\ UNCHANGED <<life, binding, card, streaming>>

(* stream_message() at the first read: refused, or under way.              *)
OpenStream ==
    /\ stream = "unread"
    /\ IF ~closed /\ ClientAvailable
         THEN CacheClient /\ (stream' = "reading" \/ stream' = "refused")
         ELSE stream' = "refused" /\ UNCHANGED client
    /\ UNCHANGED <<life, binding, card, cards, any_event>>

YieldEvent ==
    /\ stream = "reading" /\ stream' = "yielded" /\ any_event' = TRUE
    /\ UNCHANGED <<life, binding, card, cards, client>>

ReadOn ==
    /\ stream = "yielded" /\ stream' = "reading"
    /\ UNCHANGED <<life, binding, card, cards, client, any_event>>

(* The remote ends the stream, which is a failure if it was empty; or it    *)
(* breaks; or the consumer leaves.                                         *)
EndStreaming ==
    /\ stream \in {"reading", "yielded"}
    /\ \/ stream = "reading" /\ stream' = IF any_event THEN "ended" ELSE "empty"
       \/ stream = "reading" /\ stream' = "failed"
       \/ stream = "yielded" /\ stream' = "left"
    /\ UNCHANGED <<life, binding, card, cards, client, any_event>>

(* asyncio.timeout() cancels the task that reads.  In a read the cancellation *)
(* becomes a TimeoutError; in the consumer's own code it stays what it is.    *)
StreamDeadline ==
    /\ stream \in {"reading", "yielded"}
    /\ stream' = IF stream = "reading" THEN "timed_out"
                                       ELSE "consumer_cancelled"
    /\ UNCHANGED <<life, binding, card, cards, client, any_event>>

(* close(); the transport goes with a client that owns it.                 *)
CloseClient ==
    /\ ~closed /\ closed' = TRUE
    /\ transport_closed' = (transport_closed \/ owns)
    /\ UNCHANGED <<owns, binding, card, cards, client, streaming>>

CloseTransport ==
    /\ ~transport_closed /\ transport_closed' = TRUE
    /\ UNCHANGED <<closed, owns, binding, card, cards, client, streaming>>

BindingNext ==
    \/ \E e \in Execution :
          \/ Begin(e) \/ End(e) \/ EndLeft(e)
          \/ StartInteraction(e) \/ Round(e) \/ EndInteraction(e)
    \/ UpdateCards \/ CloseClient \/ CloseTransport
    \/ OpenStream \/ YieldEvent \/ ReadOn \/ EndStreaming \/ StreamDeadline

-----------------------------------------------------------------------------
(* Every variable keeps to its range.                                      *)
BindingTypeOK ==
    /\ closed \in BOOLEAN /\ owns \in BOOLEAN /\ transport_closed \in BOOLEAN
    /\ active \in Execution \cup {NoExecution}
    /\ handlers \in Execution \cup {NoExecution}
    /\ execution \in [Execution -> {"new", "running", "left", "ended", "refused"}]
    /\ card \in [Execution -> 0..(MaxUpdates + 1)]
    /\ version \in 1..(MaxUpdates + 1) /\ listing \in Listing
    /\ client \in 0..(MaxUpdates + 1)
    /\ stream \in {"unread", "refused", "reading", "yielded", "ended", "empty",
                   "failed", "left", "timed_out", "consumer_cancelled"}
    /\ any_event \in BOOLEAN

(***************************************************************************)
(* A client serves one execution at a time, and an execution that is        *)
(* refused leaves the binding of the running one alone: whatever is running *)
(* is answered by its own control point and observed by its own callback.  *)
(* What an ended execution left behind keeps its control point, which       *)
(* dispatch() was given, but its events go to whoever is bound by then.     *)
(***************************************************************************)
BoundToOne ==
    \A e \in Execution : execution[e] = "running" => active = e /\ handlers = e

(* A cached client was built from the cards at hand, not from those they    *)
(* replaced, whatever interactions and streams were under way.             *)
CachedClientCurrent == client # 0 => client = version /\ listing = "usable"
=============================================================================
