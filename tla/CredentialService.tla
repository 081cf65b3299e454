-------------------------- MODULE CredentialService --------------------------
(***************************************************************************)
(* client/credential_service.py: calls of one agent that                   *)
(* CustomAuthInterceptor.before authenticates concurrently, with the token *)
(* cache of one AgentCredentialService between them.                       *)
(*                                                                         *)
(* A call walks the requirement groups of the AgentCard in order and the   *)
(* schemes of a group in order; a scheme needs a token from the cache or   *)
(* from a login.  A credential stands for the value its header is set to,  *)
(* the configured prefix included: two schemes may well come to the same.   *)
(* Abstracted: the request and the answer of a login.                      *)
(***************************************************************************)
EXTENDS Clock, Sequences

CONSTANTS
    Call,           \* the calls
    NoCall,         \* nobody holds the lock
    Scheme,         \* security schemes
    Usable,         \* those that card and configuration declare
    Header,         \* the header each scheme sets
    Values,         \* the values a login may give it
    Accept,         \* the Accept header a scheme asks for, or NoAccept
    NoAccept,
    NoValue,        \* no login yet
    TokenTtl,       \* token_ttl less the margin of 60 s, 0 if that is longer
    Requirements    \* the lists of groups a card may have

ASSUME CredentialAssumption ==
    /\ Usable \subseteq Scheme /\ NoCall \notin Call /\ TokenTtl \in Nat
    /\ Requirements \subseteq Seq(Seq(Scheme))

VARIABLES
    requirements,   \* those of the card; never changes
    tokens,         \* the cached value of each scheme, and until when it is fresh
    mutex,          \* holder of _lock
    at,             \* where each call is
    group, place,   \* the group and the scheme in it the call is at
    candidate       \* the schemes it has credentials of, with their values

credVars == <<requirements, tokens, mutex, at, group, place, candidate>>

Fresh(s) == now < tokens[s].until

SchemeOf(c) == requirements[group[c]][place[c]]

CredInit ==
    /\ requirements \in Requirements
    /\ tokens = [s \in Scheme |-> [value |-> NoValue, until |-> 0]]
    /\ mutex = NoCall
    /\ at = [c \in Call |-> "walking"]
    /\ group = [c \in Call |-> 1] /\ place = [c \in Call |-> 1]
    /\ candidate = [c \in Call |-> {}]

Walking(c) == at[c] = "walking" /\ group[c] <= Len(requirements)

Goto(c, w) == at' = [at EXCEPT ![c] = w]

(* The headers that the credentials k set.                                  *)
HeadersOf(k) ==
    {<<Header[p[1]], p[2]>> : p \in k}
      \cup {<<"Accept", Accept[p[1]]>> : p \in {x \in k : Accept[x[1]] # NoAccept}}

Agree(k) == \A h, o \in HeadersOf(k) : h[1] = o[1] => h[2] = o[2]

(* Mutant: the Accept header of the second scheme replaces the first's. *)
ConflictOfValues(c, s, v) ==
    \E p \in candidate[c] : Header[p[1]] = Header[s] /\ p[2] # v

(* A header of s, Accept included, has another value already.               *)
Conflict(c, s, v) == ~Agree(candidate[c] \cup {<<s, v>>})

(* A credential is at hand: the next scheme, unless the headers conflict.   *)
Obtain(c, s, v) ==
    IF Conflict(c, s, v)
      THEN /\ group' = [group EXCEPT ![c] = @ + 1]
           /\ place' = [place EXCEPT ![c] = 1]
           /\ candidate' = [candidate EXCEPT ![c] = {}]
      ELSE /\ place' = [place EXCEPT ![c] = @ + 1]
           /\ candidate' = [candidate EXCEPT ![c] = @ \cup {<<s, v>>}]
           /\ UNCHANGED group

(* The next scheme: not usable, or in the cache, or to be waited for.       *)
NextScheme(c) ==
    /\ Walking(c) /\ place[c] <= Len(requirements[group[c]])
    /\ IF SchemeOf(c) \notin Usable
         THEN /\ group' = [group EXCEPT ![c] = @ + 1]
              /\ place' = [place EXCEPT ![c] = 1]
              /\ candidate' = [candidate EXCEPT ![c] = {}]
              /\ UNCHANGED at
       ELSE IF Fresh(SchemeOf(c))
         THEN Obtain(c, SchemeOf(c), tokens[SchemeOf(c)].value) /\ UNCHANGED at
         ELSE Goto(c, "waiting") /\ UNCHANGED <<group, place, candidate>>
    /\ UNCHANGED <<requirements, tokens, mutex>>

(* Mutant: the cache is not read again. *)
LockOnly(c) ==
    /\ at[c] = "waiting" /\ mutex = NoCall
    /\ mutex' = c /\ Goto(c, "login")
    /\ UNCHANGED <<requirements, tokens, group, place, candidate>>

(* The lock is acquired, and the cache read again.                         *)
Lock(c) ==
    /\ at[c] = "waiting" /\ mutex = NoCall
    /\ IF Fresh(SchemeOf(c))
         THEN /\ Obtain(c, SchemeOf(c), tokens[SchemeOf(c)].value)
              /\ Goto(c, "walking") /\ UNCHANGED mutex
         ELSE mutex' = c /\ Goto(c, "login") /\ UNCHANGED <<group, place, candidate>>
    /\ UNCHANGED <<requirements, tokens>>

(* The token is kept from now on, and used even if it is stale at once.     *)
LoggedIn(c) ==
    /\ at[c] = "login"
    /\ \E v \in Values[SchemeOf(c)] :
         /\ tokens' = [tokens EXCEPT ![SchemeOf(c)] = [value |-> v, until |-> now + TokenTtl]]
         /\ Obtain(c, SchemeOf(c), v)
    /\ mutex' = NoCall /\ Goto(c, "walking")
    /\ UNCHANGED requirements

(* A login that fails ends the call, groups that are left or not; so does   *)
(* a host that cancels.                                                    *)
Fail(c) ==
    /\ at[c] \in {"waiting", "login"}
    /\ at[c] = "waiting" \/ mutex = c
    /\ Goto(c, "raised")
    /\ mutex' = IF mutex = c THEN NoCall ELSE mutex
    /\ UNCHANGED <<requirements, tokens, group, place, candidate>>

(* Mutant: the headers collected so far are set before the group is complete. *)
ApplyAny(c) ==
    /\ Walking(c) /\ candidate[c] # {}
    /\ Goto(c, "applied")
    /\ UNCHANGED <<requirements, tokens, mutex, group, place, candidate>>

(* The group is complete: its headers are set, or clash with others.        *)
Apply(c) ==
    /\ Walking(c) /\ place[c] > Len(requirements[group[c]])
    /\ Goto(c, "applied") \/ Goto(c, "raised")
    /\ UNCHANGED <<requirements, tokens, mutex, group, place, candidate>>

(* No group is satisfied; a card without requirements needs nothing.        *)
GiveUp(c) ==
    /\ at[c] = "walking" /\ group[c] > Len(requirements)
    /\ Goto(c, IF requirements = <<>> THEN "applied" ELSE "raised")
    /\ UNCHANGED <<requirements, tokens, mutex, group, place, candidate>>

Before(c) == NextScheme(c) \/ Lock(c) \/ LoggedIn(c) \/ Apply(c) \/ GiveUp(c)

CredNext == \E c \in Call : Before(c) \/ Fail(c)

(* What a call does without its host: a login is answered, refused or timed *)
(* out, but nothing ends the wait for the lock except its release.          *)
Proceed(c) == Before(c) \/ (at[c] = "login" /\ Fail(c))

-----------------------------------------------------------------------------
(***************************************************************************)
(* Callers share a login: none begins while a token of the same scheme is  *)
(* fresh, whoever obtained it and whatever the caller had read before.     *)
(***************************************************************************)
LoginsShared ==
    [][\A c \in Call : at[c] # "login" /\ at'[c] = "login" => ~Fresh(SchemeOf(c))]_credVars

(***************************************************************************)
(* The credentials applied are those of one requirement group, all of them *)
(* and no others, and where two of them set the same header, Accept        *)
(* included, they set it to the same value: none overwrites another.       *)
(***************************************************************************)
AppliedGroupComplete ==
    \A c \in Call : at[c] = "applied" /\ requirements # <<>> =>
        /\ {p[1] : p \in candidate[c]} = {requirements[group[c]][i] :
                                          i \in DOMAIN requirements[group[c]]}
        /\ {p[1] : p \in candidate[c]} \subseteq Usable
        /\ Agree(candidate[c])
=============================================================================
