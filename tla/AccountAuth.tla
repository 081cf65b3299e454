----------------------------- MODULE AccountAuth -----------------------------
(***************************************************************************)
(* registry/registry_client.py on registry/http_auth.py: helpers that call  *)
(* the management center concurrently through authenticated_request, with   *)
(* one OrchestrationAccountAuth between them.  The center gives out a new   *)
(* token at every login and may cease to accept one at any time.           *)
(*                                                                         *)
(* Abstracted: TLS, URLs, bodies, the validation of arguments, headers and  *)
(* answers, which make a request fail.  A fixed access token and providers  *)
(* of the application have no state here.                                  *)
(***************************************************************************)
EXTENDS Clock, Sequences

CONSTANTS
    Request,        \* the requests
    operation,      \* what each of them is
    NoRequest,      \* nobody holds the lock
    Ttl,            \* lifetime of a token, less the safety margin
    MaxLogins       \* bound on the tokens given out

ASSUME AccountAssumption ==
    /\ NoRequest \notin Request
    /\ Ttl \in Nat /\ MaxLogins \in Nat

(* The helpers: whether a 401 is followed by a second try, and what an       *)
(* answer may amount to beside an error.                                   *)
load_psop == [retry_unauthorized |-> TRUE, result |-> {"ok"}]

search_psop == [retry_unauthorized |-> TRUE, result |-> {"ok"}]

fetch_agent_cards == [retry_unauthorized |-> FALSE, result |-> {"ok"}]

fetch_agent_card == [retry_unauthorized |-> FALSE, result |-> {"ok", "none"}]

register_agent_card == [retry_unauthorized |-> FALSE, result |-> {"ok"}]

ASSUME OperationAssumption ==
    \A r \in Request : operation[r] \in {load_psop, search_psop, fetch_agent_cards,
                                         fetch_agent_card, register_agent_card}

VARIABLES
    token, expires_at,  \* _token, 0 for None, and _expires_at
    lock,               \* holder of _lock
    started,            \* when the holder began to log in
    revoked,            \* tokens the center does not accept
    request,            \* where each request is
    sent,               \* the tokens it was sent with
    obtained,           \* the last token obtained, and when it expires
    refused             \* tokens refused with a 401

center == <<revoked, refused>>

authVars == <<token, expires_at, lock, started, center, request, sent, obtained>>

Expired == now >= expires_at

Answered == {"ok", "none", "failed"}

AuthInit ==
    /\ token = 0 /\ expires_at = 0 /\ lock = NoRequest /\ started = 0
    /\ revoked = {} /\ refused = {}
    /\ request = [r \in Request |-> "headers"]
    /\ sent = [r \in Request |-> <<>>]
    /\ obtained = [token |-> 0, expires |-> 0]

Send(r, t) ==
    /\ request' = [request EXCEPT ![r] = "sending"]
    /\ sent' = [sent EXCEPT ![r] = Append(@, t)]

(* headers(), when the lock is free: the token at hand, or a login.         *)
Headers(r) ==
    /\ request[r] = "headers" /\ lock = NoRequest
    /\ IF token # 0 /\ ~Expired
         THEN Send(r, token) /\ UNCHANGED <<token, expires_at, lock, started>>
         ELSE /\ lock' = r /\ token' = 0 /\ expires_at' = 0 /\ started' = now
              /\ request' = [request EXCEPT ![r] = "login"]
              /\ UNCHANGED sent
    /\ UNCHANGED <<center, obtained>>

LoginSucceeds(r) ==
    /\ request[r] = "login" /\ obtained.token < MaxLogins
    /\ token' = obtained.token + 1 /\ expires_at' = started + Ttl
    /\ obtained' = [token |-> token', expires |-> expires_at']
    /\ lock' = NoRequest
    /\ Send(r, token')
    /\ UNCHANGED <<started, center>>

(* Mutant: the lock is not released on this path. *)
LoginFailsLocked(r) ==
    /\ request[r] = "login"
    /\ request' = [request EXCEPT ![r] = "failed"]
    /\ UNCHANGED <<token, expires_at, lock, started, center, sent, obtained>>

(* Any other answer; or the request is cancelled while it logs in.          *)
LoginFails(r) ==
    /\ request[r] = "login"
    /\ lock' = NoRequest
    /\ request' = [request EXCEPT ![r] = "failed"]
    /\ UNCHANGED <<token, expires_at, started, center, sent, obtained>>

(* Arguments or scope do not fit, or the host cancels while waiting.        *)
RequestFails(r) ==
    /\ request[r] \in {"headers", "sending", "refused"}
    /\ request' = [request EXCEPT ![r] = "failed"]
    /\ UNCHANGED <<token, expires_at, lock, started, center, sent, obtained>>

(* The center answers: a 401, or something that is an error or is parsed.   *)
Answer(r) ==
    LET t == sent[r][Len(sent[r])]
    IN /\ request[r] = "sending"
       /\ IF t \in revoked
            THEN /\ request' = [request EXCEPT ![r] = "refused"]
                 /\ refused' = refused \cup {t}
            ELSE /\ \E o \in operation[r].result \cup {"failed"} :
                       request' = [request EXCEPT ![r] = o]
                 /\ UNCHANGED refused
       /\ UNCHANGED <<token, expires_at, lock, started, revoked, sent, obtained>>

(* Mutant: the rejected token is not compared with the current one. *)
InvalidateAlways(t) == token' = 0 /\ expires_at' = 0

(* invalidate()                                                            *)
Invalidate(t) ==
    IF t = token THEN token' = 0 /\ expires_at' = 0
                 ELSE UNCHANGED <<token, expires_at>>

(* Mutant: a renewed token that is refused is renewed again. *)
RenewAgain(r) ==
    /\ request[r] = "refused"
    /\ IF operation[r].retry_unauthorized
         THEN /\ Invalidate(sent[r][Len(sent[r])])
              /\ request' = [request EXCEPT ![r] = "headers"]
         ELSE /\ request' = [request EXCEPT ![r] = "failed"]
              /\ UNCHANGED <<token, expires_at>>
    /\ UNCHANGED <<lock, started, center, sent, obtained>>

(* A 401 is read: the first one of a read or search renews.                 *)
Renew(r) ==
    /\ request[r] = "refused"
    /\ IF operation[r].retry_unauthorized /\ Len(sent[r]) = 1
         THEN /\ Invalidate(sent[r][1])
              /\ request' = [request EXCEPT ![r] = "headers"]
         ELSE /\ request' = [request EXCEPT ![r] = "failed"]
              /\ UNCHANGED <<token, expires_at>>
    /\ UNCHANGED <<lock, started, center, sent, obtained>>

Revoke(t) ==
    /\ revoked' = revoked \cup {t}
    /\ UNCHANGED <<token, expires_at, lock, started, refused, request, sent, obtained>>

Handle(r) ==
    Headers(r) \/ LoginSucceeds(r) \/ LoginFails(r) \/ Answer(r) \/ Renew(r)

AuthNext ==
    \/ \E r \in Request : Handle(r) \/ RequestFails(r)
    \/ \E t \in 1..obtained.token : Revoke(t)

-----------------------------------------------------------------------------
(* Every variable keeps to its range.                                      *)
AuthTypeOK ==
    /\ token \in 0..MaxLogins /\ expires_at \in Nat /\ started \in Nat
    /\ lock \in Request \cup {NoRequest}
    /\ revoked \in SUBSET (1..MaxLogins) /\ refused \in SUBSET (1..MaxLogins)
    /\ request \in [Request -> {"headers", "login", "sending", "refused"} \cup Answered]
    /\ sent \in [Request -> Seq(1..MaxLogins)]
    /\ obtained \in [token : 0..MaxLogins, expires : Nat]

(***************************************************************************)
(* A token is replaced for cause: a login begins only when no token was    *)
(* ever obtained, the last one has expired or the center has refused it,   *)
(* however many requests share it and however late their refusals arrive.  *)
(***************************************************************************)
RenewedForCause ==
    [][lock # lock' /\ lock' # NoRequest =>
          \/ obtained.token = 0
          \/ now >= obtained.expires
          \/ obtained.token \in refused]_authVars

(* A write, and any request of RegistryClient, is sent once; a read twice   *)
(* at most, and the second time with a newer token than the one refused.    *)
RetriedOnceWithNewToken ==
    \A r \in Request :
        /\ Len(sent[r]) <= (IF operation[r].retry_unauthorized THEN 2 ELSE 1)
        /\ Len(sent[r]) = 2 => sent[r][1] < sent[r][2] /\ sent[r][1] \in refused
=============================================================================
