--------------------------- MODULE ServicesProofs ---------------------------
(***************************************************************************)
(* Theorems about Services, for any number of requests, calls, executions  *)
(* and card updates, and for every AgentCard.                              *)
(***************************************************************************)
EXTENDS Services, SequenceTheorems, TLAPS

LEMMA OneAtATime ==
    ASSUME [Next]_vars
    PROVE  /\ AuthNext \/ UNCHANGED authVars
           /\ CredNext \/ UNCHANGED credVars
           /\ BindingNext \/ UNCHANGED bindingVars
           /\ now' = now \/ (now' = now + 1 /\ UNCHANGED authVars)
  BY DEF Next, AccountStep, CredentialsStep, ClientStep, TimePasses, Tick, vars

-----------------------------------------------------------------------------
(* The client.                                                             *)

BindingInv ==
    /\ execution \in [Execution -> {"new", "running", "left", "ended", "refused"}]
    /\ BoundToOne

LEMMA BindingStep == BindingInv /\ [Next]_vars => BindingInv'
<1> SUFFICES ASSUME BindingInv, [Next]_vars PROVE BindingInv'
  OBVIOUS
<1> USE BindingAssumption DEF BindingInv, BoundToOne
<1>1. ASSUME UNCHANGED binding PROVE BindingInv'
  BY <1>1 DEF binding
<1>2. ASSUME NEW e \in Execution, Begin(e) PROVE BindingInv'
  BY <1>2 DEF Begin
<1>3. ASSUME NEW e \in Execution, End(e) \/ EndLeft(e) PROVE BindingInv'
  BY <1>3 DEF End, EndLeft
<1>4. ASSUME NEW e \in Execution, StartInteraction(e) \/ Round(e) \/ EndInteraction(e)
      PROVE  BindingInv'
  BY <1>1, <1>4 DEF StartInteraction, Round, EndInteraction
<1>5. CASE UpdateCards \/ CloseClient \/ CloseTransport \/ OpenStream \/ YieldEvent
              \/ ReadOn \/ EndStreaming \/ StreamDeadline
  BY <1>1, <1>5 DEF UpdateCards, CloseClient, CloseTransport, OpenStream, YieldEvent,
                    ReadOn, EndStreaming, StreamDeadline
<1>6. CASE UNCHANGED bindingVars
  BY <1>1, <1>6 DEF bindingVars
<1>7. QED
  BY <1>2, <1>3, <1>4, <1>5, <1>6, OneAtATime DEF BindingNext

(* However many executions are started on one client, the running one is    *)
(* answered by its own control point, and there is one.                    *)
THEOREM BindingCorrect == Spec => []BoundToOne
<1>1. Init => BindingInv
  BY DEF Init, BindingInit, BindingInv, BoundToOne
<1>2. BindingInv => BoundToOne
  BY DEF BindingInv
<1>3. QED  BY <1>1, <1>2, BindingStep, PTL DEF Spec

LEMMA CacheStep == CachedClientCurrent /\ [Next]_vars => CachedClientCurrent'
<1> SUFFICES ASSUME CachedClientCurrent, [Next]_vars PROVE CachedClientCurrent'
  OBVIOUS
<1> USE DEF CachedClientCurrent
<1>1. ASSUME UNCHANGED <<client, cards>> PROVE CachedClientCurrent'
  BY <1>1 DEF cards
<1>2. ASSUME ClientAvailable, CacheClient, UNCHANGED cards PROVE CachedClientCurrent'
  BY <1>2 DEF ClientAvailable, Buildable, CacheClient, cards
<1>3. ASSUME NEW e \in Execution, Round(e) PROVE CachedClientCurrent'
  BY <1>1, <1>2, <1>3 DEF Round
<1>4. ASSUME NEW e \in Execution,
             \/ Begin(e) \/ End(e) \/ EndLeft(e)
             \/ StartInteraction(e) \/ EndInteraction(e)
      PROVE  CachedClientCurrent'
  BY <1>1, <1>4 DEF Begin, End, EndLeft, StartInteraction, EndInteraction
<1>5. CASE UpdateCards
  BY <1>5 DEF UpdateCards
<1>6. CASE OpenStream
  BY <1>1, <1>2, <1>6 DEF OpenStream
<1>7. CASE CloseClient \/ CloseTransport \/ YieldEvent \/ ReadOn \/ EndStreaming
              \/ StreamDeadline
  BY <1>1, <1>7 DEF CloseClient, CloseTransport, YieldEvent, ReadOn, EndStreaming,
                    StreamDeadline
<1>8. CASE UNCHANGED bindingVars
  BY <1>1, <1>8 DEF bindingVars
<1>9. QED
  BY <1>3, <1>4, <1>5, <1>6, <1>7, <1>8, OneAtATime DEF BindingNext

(* No interaction or stream brings the client of a replaced card back.      *)
THEOREM CacheCorrect == Spec => []CachedClientCurrent
<1>1. Init => CachedClientCurrent
  BY DEF Init, BindingInit, CachedClientCurrent
<1>2. QED  BY <1>1, CacheStep, PTL DEF Spec

LEMMA BindingTypes == BindingTypeOK /\ [Next]_vars => BindingTypeOK'
<1> SUFFICES ASSUME BindingTypeOK, [Next]_vars PROVE BindingTypeOK'
  OBVIOUS
<1> USE BindingAssumption DEF BindingTypeOK, life, binding, cards, streaming
<1>1. ASSUME NEW e \in Execution, Begin(e) PROVE BindingTypeOK'
  BY <1>1 DEF Begin
<1>2. ASSUME NEW e \in Execution, End(e) \/ EndLeft(e) PROVE BindingTypeOK'
  BY <1>2 DEF End, EndLeft
<1>3. ASSUME NEW e \in Execution, StartInteraction(e) PROVE BindingTypeOK'
  BY <1>3 DEF StartInteraction
<1>4. CacheClient => client' \in 0..(MaxUpdates + 1)
  BY DEF CacheClient
<1>5. ASSUME NEW e \in Execution, Round(e) \/ EndInteraction(e) PROVE BindingTypeOK'
  BY <1>4, <1>5 DEF Round, EndInteraction
<1>6. CASE UpdateCards
  BY <1>6 DEF UpdateCards, ReplaceCards
<1>7. CASE CloseClient \/ CloseTransport
  BY <1>7 DEF CloseClient, CloseTransport
<1>8. CASE OpenStream \/ YieldEvent \/ ReadOn \/ EndStreaming \/ StreamDeadline
  BY <1>4, <1>8 DEF OpenStream, YieldEvent, ReadOn, EndStreaming, StreamDeadline
<1>9. CASE UNCHANGED bindingVars
  BY <1>9 DEF bindingVars
<1>10. QED
  BY <1>1, <1>2, <1>3, <1>5, <1>6, <1>7, <1>8, <1>9, OneAtATime DEF BindingNext

(* Every variable of the client keeps to its range.                        *)
THEOREM ClientTypeCorrect == Spec => []BindingTypeOK
<1>1. ASSUME Init PROVE BindingTypeOK
  <2>1. 0 \in 0..(MaxUpdates + 1) /\ 1 \in 1..(MaxUpdates + 1)
    BY BindingAssumption
  <2>2. BindingInit  BY <1>1 DEF Init
  <2>3. card \in [Execution -> 0..(MaxUpdates + 1)]
    BY <2>1, <2>2 DEF BindingInit
  <2>4. QED  BY <2>1, <2>2, <2>3 DEF BindingInit, BindingTypeOK
<1>2. QED  BY <1>1, BindingTypes, PTL DEF Spec

-----------------------------------------------------------------------------
(* The credentials of an agent.                                            *)

CallState == {"walking", "waiting", "login", "applied", "raised"}

Groups == Seq(Seq(Scheme))

SchemesOf(k) == {x[1] : x \in k}

(* A call at a, in place p of group g of the requirements q, with the        *)
(* credentials k, has those of the group before its place, and they agree.  *)
Prefix(q, g, p, k) ==
    g <= Len(q) =>
       /\ p <= Len(q[g]) + 1
       /\ SchemesOf(k) = {q[g][i] : i \in 1..(p - 1)}

AtScheme(q, g, p) == g <= Len(q) /\ p <= Len(q[g]) /\ q[g][p] \in Usable

Position(q, a, g, p, k) ==
    /\ g \in Nat \ {0} /\ p \in Nat \ {0}
    /\ SchemesOf(k) \subseteq Usable
    /\ Prefix(q, g, p, k) /\ Agree(k)
    /\ a \in {"waiting", "login"} => AtScheme(q, g, p)
    /\ a = "applied" /\ q # <<>> => g <= Len(q) /\ p > Len(q[g])

Walk(c) == Position(requirements, at[c], group[c], place[c], candidate[c])

CredTypes ==
    /\ requirements \in Groups
    /\ at \in [Call -> CallState]
    /\ group \in [Call -> Nat] /\ place \in [Call -> Nat]
    /\ candidate = [c \in Call |-> candidate[c]]

CredInv == CredTypes /\ \A c \in Call : Walk(c)

LEMMA FirstPlace ==
    ASSUME NEW q \in Groups, NEW g \in Nat \ {0}
    PROVE  Position(q, "walking", g, 1, {})
<1>1. Prefix(q, g, 1, {})
  <2>1. SUFFICES ASSUME g <= Len(q)
                 PROVE  1 <= Len(q[g]) + 1
    BY DEF Prefix, SchemesOf
  <2>2. q[g] \in Seq(Scheme)  BY <2>1 DEF Groups
  <2>3. Len(q[g]) \in Nat  BY <2>2
  <2>4. QED  BY <2>3
<1>2. QED  BY <1>1 DEF Position, Agree, HeadersOf, SchemesOf

LEMMA CredInitially == Init => CredInv
<1> SUFFICES ASSUME Init PROVE CredInv
  OBVIOUS
<1> USE CredentialAssumption DEF Init, CredInit
<1>1. CredTypes
  BY DEF CredTypes, CallState, Groups
<1>2. ASSUME NEW c \in Call PROVE Walk(c)
  <2>1. group[c] = 1 /\ place[c] = 1 /\ candidate[c] = {} /\ at[c] = "walking"
    OBVIOUS
  <2>2. Position(requirements, "walking", 1, 1, {})
    BY <1>1, FirstPlace DEF CredTypes
  <2>3. QED  BY <2>1, <2>2 DEF Walk
<1>3. QED  BY <1>1, <1>2 DEF CredInv

(* What a call does leaves the other calls where they were.                 *)
Alone(c) ==
    /\ \A d \in Call \ {c} : /\ at'[d] = at[d] /\ group'[d] = group[d]
                             /\ place'[d] = place[d] /\ candidate'[d] = candidate[d]
    /\ UNCHANGED requirements

LEMMA OthersStay ==
    ASSUME CredInv, NEW c \in Call, Alone(c), CredTypes', Walk(c)'
    PROVE  CredInv'
<1>1. ASSUME NEW d \in Call \ {c} PROVE Walk(d)'
  BY <1>1 DEF Alone, CredInv, Walk
<1>2. QED  BY <1>1 DEF CredInv

(* The next group is begun with nothing in hand.                            *)
LEMMA NextGroup ==
    ASSUME CredInv, NEW c \in Call, UNCHANGED requirements,
           group' = [group EXCEPT ![c] = @ + 1],
           place' = [place EXCEPT ![c] = 1],
           candidate' = [candidate EXCEPT ![c] = {}],
           at' \in [Call -> CallState], at'[c] = "walking",
           \A d \in Call \ {c} : at'[d] = at[d]
    PROVE  CredInv'
<1>1. group[c] \in Nat \ {0} /\ group[c] + 1 \in Nat \ {0}
  BY DEF CredInv, Walk, Position
<1>2. group' \in [Call -> Nat] /\ place' \in [Call -> Nat]
         /\ candidate' = [d \in Call |-> candidate'[d]]
  BY <1>1 DEF CredInv, CredTypes
<1>3. CredTypes'  BY <1>2 DEF CredInv, CredTypes
<1>4. group'[c] = group[c] + 1 /\ place'[c] = 1 /\ candidate'[c] = {}
  BY DEF CredInv, CredTypes
<1>5. Position(requirements, "walking", group[c] + 1, 1, {})
  BY <1>1, FirstPlace DEF CredInv, CredTypes
<1>6. Walk(c)'  BY <1>4, <1>5 DEF Walk
<1>7. Alone(c)  BY DEF Alone, CredInv, CredTypes
<1>8. QED  BY <1>3, <1>6, <1>7, OthersStay

LEMMA PrefixGrows ==
    ASSUME NEW g \in Seq(Scheme), NEW p \in Nat \ {0}, p <= Len(g)
    PROVE  {g[i] : i \in 1..(p - 1)} \cup {g[p]} = {g[i] : i \in 1..((p + 1) - 1)}
  OBVIOUS

LEMMA OneMoreScheme ==
    ASSUME NEW k, NEW s, NEW v
    PROVE  SchemesOf(k \cup {<<s, v>>}) = SchemesOf(k) \cup {s}
<1>1. <<s, v>>[1] = s  OBVIOUS
<1>2. ASSUME NEW y \in SchemesOf(k \cup {<<s, v>>}) PROVE y \in SchemesOf(k) \cup {s}
  BY <1>1 DEF SchemesOf
<1>3. ASSUME NEW y \in SchemesOf(k) PROVE y \in SchemesOf(k \cup {<<s, v>>})
  BY DEF SchemesOf
<1>4. s \in SchemesOf(k \cup {<<s, v>>})
  <2>1. <<s, v>> \in k \cup {<<s, v>>}  OBVIOUS
  <2>2. QED  BY <1>1, <2>1, Zenon DEF SchemesOf
<1>5. QED  BY <1>2, <1>3, <1>4

LEMMA NextPlace ==
    ASSUME NEW q \in Groups, NEW a, NEW g, NEW p, NEW k, Position(q, a, g, p, k),
           AtScheme(q, g, p), NEW v, Agree(k \cup {<<q[g][p], v>>})
    PROVE  Position(q, "walking", g, p + 1, k \cup {<<q[g][p], v>>})
<1> DEFINE s == q[g][p]
           n == k \cup {<<s, v>>}
<1>1. g \in Nat \ {0} /\ p \in Nat \ {0} /\ g <= Len(q)  BY DEF Position, AtScheme
<1>2. q[g] \in Seq(Scheme)  BY <1>1 DEF Groups
<1>3. s \in Usable /\ p <= Len(q[g]) /\ Len(q[g]) \in Nat  BY <1>2 DEF AtScheme
<1>4. SchemesOf(n) = SchemesOf(k) \cup {s}  BY OneMoreScheme
<1>5. SchemesOf(k) = {q[g][i] : i \in 1..(p - 1)}  BY <1>1 DEF Position, Prefix
<1>6. SchemesOf(n) = {q[g][i] : i \in 1..((p + 1) - 1)}
  BY <1>1, <1>2, <1>3, <1>4, <1>5, PrefixGrows
<1>7. p + 1 <= Len(q[g]) + 1 /\ p + 1 \in Nat \ {0}  BY <1>1, <1>3
<1>8. Prefix(q, g, p + 1, n)  BY <1>6, <1>7 DEF Prefix
<1>9. SchemesOf(n) \subseteq Usable  BY <1>3, <1>4 DEF Position
<1>10. QED  BY <1>1, <1>7, <1>8, <1>9 DEF Position

(* A credential that is at hand brings the call to the next scheme or group. *)
LEMMA ObtainStep ==
    ASSUME CredInv, NEW c \in Call, NEW v,
           AtScheme(requirements, group[c], place[c]), Obtain(c, SchemeOf(c), v),
           UNCHANGED requirements,
           at' \in [Call -> CallState], at'[c] = "walking",
           \A d \in Call \ {c} : at'[d] = at[d]
    PROVE  CredInv'
<1>1. CASE Conflict(c, SchemeOf(c), v)
  BY <1>1, NextGroup DEF Obtain
<1>2. CASE ~Conflict(c, SchemeOf(c), v)
  <2> DEFINE n == candidate[c] \cup {<<SchemeOf(c), v>>}
  <2>1. /\ place' = [place EXCEPT ![c] = @ + 1]
        /\ candidate' = [candidate EXCEPT ![c] = n]
        /\ UNCHANGED group
    BY <1>2 DEF Obtain
  <2>2. place[c] + 1 \in Nat  BY DEF CredInv, Walk, Position
  <2>3. place' \in [Call -> Nat] /\ candidate' = [d \in Call |-> candidate'[d]]
    BY <2>1, <2>2 DEF CredInv, CredTypes
  <2>4. CredTypes'  BY <2>1, <2>3 DEF CredInv, CredTypes
  <2>5. candidate'[c] = n /\ place'[c] = place[c] + 1 /\ group'[c] = group[c]
    BY <2>1 DEF CredInv, CredTypes
  <2>6. Position(requirements, "walking", group[c], place[c] + 1, n)
    BY <1>2, NextPlace DEF CredInv, CredTypes, Walk, Conflict, SchemeOf
  <2>7. Walk(c)'  BY <2>5, <2>6 DEF Walk
  <2>8. Alone(c)  BY <2>1 DEF Alone, CredInv, CredTypes
  <2>9. QED  BY <2>4, <2>7, <2>8, OthersStay
<1>3. QED  BY <1>1, <1>2

(* A call that only goes on to w keeps its place.                           *)
LEMMA GotoStep ==
    ASSUME CredInv, NEW c \in Call, NEW w \in CallState, Goto(c, w),
           UNCHANGED <<requirements, group, place, candidate>>,
           w \in {"waiting", "login"} => AtScheme(requirements, group[c], place[c]),
           w = "applied" /\ requirements # <<>> =>
              /\ group[c] <= Len(requirements)
              /\ place[c] > Len(requirements[group[c]])
    PROVE  CredInv'
<1>1. CredTypes'  BY DEF CredInv, CredTypes, Goto
<1>2. at'[c] = w  BY DEF CredInv, CredTypes, Goto
<1>3. Position(requirements, w, group[c], place[c], candidate[c])
  BY DEF CredInv, Walk, Position
<1>4. Walk(c)'  BY <1>2, <1>3 DEF Walk
<1>5. Alone(c)  BY DEF Alone, CredInv, CredTypes, Goto
<1>6. QED  BY <1>1, <1>4, <1>5, OthersStay

LEMMA CredStep == CredInv /\ [Next]_vars => CredInv'
<1> SUFFICES ASSUME CredInv, [Next]_vars PROVE CredInv'
  OBVIOUS
<1>1. CASE UNCHANGED credVars
  BY <1>1 DEF credVars, CredInv, CredTypes, Walk
<1>2. ASSUME NEW c \in Call, NextScheme(c) PROVE CredInv'
  <2>1. /\ at[c] = "walking" /\ group[c] <= Len(requirements)
        /\ place[c] <= Len(requirements[group[c]])
        /\ UNCHANGED <<requirements, tokens, mutex>>
    BY <1>2 DEF NextScheme, Walking
  <2>2. at \in [Call -> CallState]  BY DEF CredInv, CredTypes
  <2>3. CASE SchemeOf(c) \notin Usable
    BY <1>2, <2>1, <2>2, <2>3, NextGroup DEF NextScheme
  <2>4. CASE SchemeOf(c) \in Usable
    <3>1. AtScheme(requirements, group[c], place[c])
      BY <2>1, <2>4 DEF AtScheme, SchemeOf
    <3>2. CASE Fresh(SchemeOf(c))
      BY <1>2, <2>1, <2>2, <2>4, <3>1, <3>2, ObtainStep DEF NextScheme
    <3>3. CASE ~Fresh(SchemeOf(c))
      <4>1. Goto(c, "waiting") /\ UNCHANGED <<requirements, group, place, candidate>>
        BY <1>2, <2>4, <3>3 DEF NextScheme
      <4>2. "waiting" \in CallState  BY DEF CallState
      <4>3. QED  BY <3>1, <4>1, <4>2, GotoStep
    <3>4. QED  BY <3>2, <3>3
  <2>5. QED  BY <2>3, <2>4
<1>3. ASSUME NEW c \in Call, at[c] \in {"waiting", "login"}
      PROVE  AtScheme(requirements, group[c], place[c])
  BY <1>3 DEF CredInv, Walk, Position
<1>4. ASSUME NEW c \in Call, NEW w \in CallState, Goto(c, w)
      PROVE  /\ at' \in [Call -> CallState] /\ at'[c] = w
             /\ \A d \in Call \ {c} : at'[d] = at[d]
  BY <1>4 DEF Goto, CredInv, CredTypes
<1>5. {"walking", "login", "applied", "raised"} \subseteq CallState
  BY DEF CallState
<1>6. ASSUME NEW c \in Call, Lock(c) PROVE CredInv'
  <2>1. AtScheme(requirements, group[c], place[c])  BY <1>3, <1>6 DEF Lock
  <2>2. CASE Fresh(SchemeOf(c))
    BY <1>4, <1>5, <1>6, <2>1, <2>2, ObtainStep DEF Lock
  <2>3. CASE ~Fresh(SchemeOf(c))
    BY <1>5, <1>6, <2>1, <2>3, GotoStep DEF Lock
  <2>4. QED  BY <2>2, <2>3
<1>7. ASSUME NEW c \in Call, LoggedIn(c) PROVE CredInv'
  <2>1. PICK v \in Values[SchemeOf(c)] : Obtain(c, SchemeOf(c), v)
    BY <1>7 DEF LoggedIn
  <2>2. AtScheme(requirements, group[c], place[c]) /\ Goto(c, "walking")
           /\ UNCHANGED requirements
    BY <1>3, <1>7 DEF LoggedIn
  <2>3. QED  BY <1>4, <1>5, <2>1, <2>2, ObtainStep
<1>8. ASSUME NEW c \in Call, Fail(c) PROVE CredInv'
  BY <1>5, <1>8, GotoStep DEF Fail
<1>9. ASSUME NEW c \in Call, Apply(c) PROVE CredInv'
  BY <1>5, <1>9, GotoStep DEF Apply, Walking
<1>10. ASSUME NEW c \in Call, GiveUp(c) PROVE CredInv'
  BY <1>5, <1>10, GotoStep DEF GiveUp
<1>11. QED
  BY <1>1, <1>2, <1>6, <1>7, <1>8, <1>9, <1>10, OneAtATime DEF CredNext, Before

LEMMA WholeGroup == CredInv => AppliedGroupComplete
<1> SUFFICES ASSUME CredInv, NEW c \in Call, at[c] = "applied", requirements # <<>>
             PROVE  /\ SchemesOf(candidate[c]) = {requirements[group[c]][i] :
                                         i \in DOMAIN requirements[group[c]]}
                    /\ SchemesOf(candidate[c]) \subseteq Usable
                    /\ Agree(candidate[c])
  BY DEF AppliedGroupComplete, SchemesOf
<1> DEFINE g == requirements[group[c]]
<1>1. Position(requirements, at[c], group[c], place[c], candidate[c])
  BY DEF CredInv, Walk
<1>2. group[c] \in Nat \ {0} /\ place[c] \in Nat \ {0}
         /\ group[c] <= Len(requirements) /\ place[c] > Len(g)
  BY <1>1 DEF Position
<1>3. g \in Seq(Scheme)  BY <1>2 DEF CredInv, CredTypes, Groups
<1>4. /\ place[c] <= Len(g) + 1
      /\ SchemesOf(candidate[c]) = {g[i] : i \in 1..(place[c] - 1)}
  BY <1>1, <1>2 DEF Position, Prefix
<1>5. place[c] - 1 = Len(g) /\ DOMAIN g = 1..Len(g)  BY <1>2, <1>3, <1>4
<1>6. SchemesOf(candidate[c]) = {g[i] : i \in DOMAIN g}  BY <1>4, <1>5
<1>7. Agree(candidate[c]) /\ SchemesOf(candidate[c]) \subseteq Usable
  BY <1>1 DEF Position
<1>8. QED  BY <1>6, <1>7

(* For every card and whatever the logins give, a call is authenticated     *)
(* with the credentials of one whole requirement group, and no credential   *)
(* of it overwrites a header that another one set to something else.        *)
THEOREM GroupsCorrect == Spec => []AppliedGroupComplete
  BY CredInitially, CredStep, WholeGroup, PTL DEF Spec

LEMMA LoginStep ==
    ASSUME CredInv, [Next]_vars
    PROVE  [\A c \in Call : at[c] # "login" /\ at'[c] = "login"
                               => ~Fresh(SchemeOf(c))]_credVars
<1> SUFFICES ASSUME NEW c \in Call, at[c] # "login", at'[c] = "login", CredNext
             PROVE  ~Fresh(SchemeOf(c))
  BY OneAtATime DEF credVars
<1>1. at \in [Call -> CallState]  BY DEF CredInv, CredTypes
<1>2. PICK d \in Call : Before(d) \/ Fail(d)  BY DEF CredNext
<1>3. CASE Lock(d)
  BY <1>1, <1>3 DEF Lock, Goto
<1>4. CASE NextScheme(d) \/ LoggedIn(d) \/ Apply(d) \/ GiveUp(d) \/ Fail(d)
  BY <1>1, <1>4 DEF NextScheme, LoggedIn, Apply, GiveUp, Fail, Goto
<1>5. QED  BY <1>2, <1>3, <1>4 DEF Before

(* However many calls find the cache empty, one of them logs in.            *)
THEOREM LoginsCorrect == Spec => LoginsShared
  BY CredInitially, CredStep, LoginStep, PTL DEF Spec, LoginsShared

-----------------------------------------------------------------------------
(* The account of the management center.                                   *)

Token == 1..MaxLogins

(* A request in state p was sent with the tokens s; y: it may be tried       *)
(* again, t: the token at hand, o: the last one obtained, n: the refused.   *)
Sent(p, s, y, t, o, n) ==
    /\ \A i \in 1..Len(s) : s[i] <= o
    /\ p \in {"headers", "login"} =>
          s = <<>> \/ (y /\ Len(s) = 1 /\ s[1] \in n /\ s[1] # t)
    /\ p \in {"sending", "refused"} => s # <<>>
    /\ p = "refused" => s[Len(s)] \in n
    /\ Len(s) <= IF y THEN 2 ELSE 1
    /\ Len(s) = 2 => s[1] < s[2] /\ s[1] \in n

Retries(r) == operation[r].retry_unauthorized

Accounted(r) ==
    Sent(request[r], sent[r], Retries(r), token, obtained.token, refused)

(* The token at hand is the last one obtained; there is none for cause only. *)
TokenKept ==
    /\ token # 0 => token = obtained.token /\ expires_at = obtained.expires
    /\ token = 0 => \/ obtained.token = 0
                    \/ obtained.token \in refused
                    \/ now >= obtained.expires

AuthInv ==
    /\ AuthTypeOK /\ now \in Nat
    /\ TokenKept /\ \A r \in Request : Accounted(r)

LEMMA TokenBounds == 0 \in 0..MaxLogins /\ \A t \in Token : t \in 0..MaxLogins /\ t # 0
  BY AccountAssumption DEF Token

LEMMA NextToken ==
    ASSUME NEW o \in 0..MaxLogins, o < MaxLogins
    PROVE  o + 1 \in Token
  BY AccountAssumption DEF Token

(* A newer token, or none, is not the one that was refused.                 *)
LEMMA SentStays ==
    ASSUME NEW p, NEW s \in Seq(Token), NEW y, NEW t, NEW o \in 0..MaxLogins, NEW n,
           Sent(p, s, y, t, o, n), NEW t2, NEW o2, NEW n2, n \subseteq n2,
           \/ t2 \in {t, 0} /\ o2 = o
           \/ t2 = o + 1 /\ o2 = o + 1
    PROVE  Sent(p, s, y, t2, o2, n2)
<1>1. \A i \in 1..Len(s) : s[i] <= o2  BY AccountAssumption DEF Sent, Token
<1>2. ASSUME Len(s) = 1, s[1] # t PROVE s[1] # t2
  <2>1. s[1] \in Token /\ s[1] <= o  BY <1>2 DEF Sent
  <2>2. QED  BY <1>2, <2>1 DEF Token
<1>3. QED  BY <1>1, <1>2 DEF Sent

LEMMA Appended ==
    ASSUME NEW s \in Seq(Token), NEW t \in Token
    PROVE  \E a : /\ a = Append(s, t) /\ a # <<>> /\ Len(a) = Len(s) + 1
                  /\ \A i \in 1..Len(s) : a[i] = s[i]
                  /\ a[Len(s) + 1] = t
<1>1. Append(s, t) # <<>>  BY AppendProperties
<1>2. Len(Append(s, t)) = Len(s) + 1  OBVIOUS
<1>3. \A i \in 1..Len(s) : Append(s, t)[i] = s[i]  OBVIOUS
<1>4. Append(s, t)[Len(s) + 1] = t  OBVIOUS
<1>5. QED  BY <1>1, <1>2, <1>3, <1>4, Zenon

LEMMA AppendToOne ==
    ASSUME NEW s \in Seq(Token), Len(s) = 1, NEW t \in Token
    PROVE  \E a : /\ a = Append(s, t) /\ a # <<>> /\ Len(a) = 2
                  /\ a[1] = s[1] /\ a[2] = t
<1>1. PICK a : /\ a = Append(s, t) /\ a # <<>> /\ Len(a) = Len(s) + 1
               /\ \A i \in 1..Len(s) : a[i] = s[i]
               /\ a[Len(s) + 1] = t
  BY Appended, Zenon
<1>2. 1 \in 1..Len(s) /\ Len(s) + 1 = 2  OBVIOUS
<1>3. Len(a) = 2 /\ a[1] = s[1] /\ a[2] = t  BY <1>1, <1>2, Zenon
<1>4. QED  BY <1>1, <1>3, Zenon

LEMMA SentOnceMore ==
    ASSUME NEW p \in {"headers", "login"}, NEW s \in Seq(Token), NEW y, NEW t,
           NEW o \in 0..MaxLogins, NEW n, Sent(p, s, y, t, o, n),
           NEW t2 \in Token, NEW o2,
           \/ t2 = t /\ t = o /\ o2 = o
           \/ t2 = o + 1 /\ o2 = o + 1
    PROVE  Sent("sending", Append(s, t2), y, t2, o2, n)
<1> DEFINE a == Append(s, t2)
<1>0. \A i \in 1..Len(s) : s[i] <= o  BY DEF Sent
<1>1. t2 \in Nat /\ o2 = t2 /\ o \in Nat /\ o <= o2  BY DEF Token
<1>2. CASE s = <<>>
  <2>1. Len(a) = 1 /\ a[1] = t2 /\ a # <<>>  BY <1>2
  <2>2. QED  BY <1>1, <2>1 DEF Sent
<1>3. CASE y /\ Len(s) = 1 /\ s[1] \in n /\ s[1] # t
  <2>0. Len(s) = 1 /\ s[1] # t  BY <1>3
  <2>1. Len(a) = 2 /\ a[1] = s[1] /\ a[2] = t2 /\ a # <<>>
    <3>1. PICK b : /\ b = Append(s, t2) /\ b # <<>> /\ Len(b) = 2
                   /\ b[1] = s[1] /\ b[2] = t2
      BY <2>0, AppendToOne
    <3>2. a = b  BY <3>1, Zenon
    <3>3. QED  BY <3>1, <3>2, Zenon
  <2>2. s[1] \in Nat /\ s[1] <= o
    <3>1. 1 \in 1..Len(s)  BY <2>0
    <3>2. s[1] \in Token /\ s[1] <= o  BY <1>0, <3>1
    <3>3. QED  BY <3>2 DEF Token
  <2>3. s[1] < t2
    <3>1. CASE t2 = t /\ t = o  BY <2>0, <2>2, <3>1, <1>1
    <3>2. CASE t2 = o + 1  BY <2>2, <3>2, <1>1
    <3>3. QED  BY <3>1, <3>2
  <2>4. \A i \in 1..Len(a) : a[i] <= o2
    BY <1>1, <2>1, <2>2
  <2>5. QED  BY <1>3, <2>1, <2>3, <2>4 DEF Sent
<1>4. QED  BY <1>2, <1>3 DEF Sent

(* What a step may do to the token behind the back of a request.            *)
TokenStep ==
    /\ refused \subseteq refused'
    /\ \/ token' \in {token, 0} /\ obtained' = obtained
       \/ token' = obtained.token + 1 /\ obtained'.token = obtained.token + 1

LEMMA AccountedStays ==
    ASSUME AuthInv, NEW r \in Request, TokenStep,
           request'[r] = request[r], sent'[r] = sent[r]
    PROVE  Accounted(r)'
<1>1. sent[r] \in Seq(Token) /\ obtained.token \in 0..MaxLogins
  BY DEF AuthInv, AuthTypeOK, Token
<1>2. Accounted(r)  BY DEF AuthInv
<1>3. Sent(request[r], sent[r], Retries(r), token', obtained'.token, refused')
  BY <1>1, <1>2, SentStays DEF Accounted, TokenStep
<1>4. QED  BY <1>3 DEF Accounted, Retries

LEMMA AuthInitially == Init => AuthInv
<1> SUFFICES ASSUME Init PROVE AuthInv
  OBVIOUS
<1> USE AccountAssumption DEF Init, AuthInit, ClockInit
<1>1. AuthTypeOK /\ now \in Nat
  <2>1. {} \in SUBSET (1..MaxLogins) /\ 0 \in 0..MaxLogins  OBVIOUS
  <2>2. sent \in [Request -> Seq(1..MaxLogins)]  OBVIOUS
  <2>3. QED  BY <2>1, <2>2 DEF AuthTypeOK, Answered
<1>2. \A r \in Request : Accounted(r)
  BY DEF Accounted, Sent
<1>3. QED  BY <1>1, <1>2 DEF AuthInv, TokenKept

(* A step of one request leaves the others alone.                           *)
Mine(r) ==
    \A q \in Request \ {r} : request'[q] = request[q] /\ sent'[q] = sent[q]

LEMMA RequestStep ==
    ASSUME AuthInv, NEW r \in Request, Mine(r), TokenStep, Accounted(r)',
           TokenKept', AuthTypeOK', UNCHANGED now
    PROVE  AuthInv'
  BY AccountedStays DEF AuthInv, Mine

(* A step that sends nothing and gets no token.                             *)
LEMMA QuietStep ==
    ASSUME AuthInv, NEW r \in Request,
           NEW p \in {"headers", "login", "sending", "refused"} \cup Answered,
           request' = [request EXCEPT ![r] = p],
           UNCHANGED <<sent, revoked, obtained>>,
           refused \subseteq refused', refused' \subseteq 1..MaxLogins,
           token' \in {token, 0}, TokenKept',
           Sent(p, sent[r], Retries(r), token', obtained.token, refused'),
           expires_at' \in {expires_at, 0}, started' \in {started, now},
           lock' \in Request \cup {NoRequest}, UNCHANGED now
    PROVE  AuthInv'
<1>1. AuthTypeOK'
  <2>1. AuthTypeOK /\ now \in Nat  BY DEF AuthInv
  <2>2. expires_at' \in Nat /\ started' \in Nat  BY <2>1 DEF AuthTypeOK
  <2>3. token' \in 0..MaxLogins  BY <2>1, TokenBounds DEF AuthTypeOK
  <2>4. request' \in [Request -> {"headers", "login", "sending", "refused"}
                                    \cup Answered]
    BY <2>1 DEF AuthTypeOK
  <2>5. QED  BY <2>1, <2>2, <2>3, <2>4 DEF AuthTypeOK
<1>2. request'[r] = p /\ Mine(r)
  BY DEF AuthInv, AuthTypeOK, Mine
<1>3. Accounted(r)'  BY <1>2 DEF Accounted, Retries
<1>4. TokenStep  BY DEF TokenStep
<1>5. QED  BY <1>1, <1>2, <1>3, <1>4, RequestStep

(* A request sent with the token at hand, or with a new one.                *)
LEMMA SendStep ==
    ASSUME AuthInv, NEW r \in Request, request[r] \in {"headers", "login"},
           NEW t \in Token, Send(r, t), token' = t,
           \/ /\ token = t /\ t = obtained.token
              /\ UNCHANGED <<expires_at, obtained, lock>>
           \/ /\ obtained.token < MaxLogins /\ t = obtained.token + 1
              /\ expires_at' = started + Ttl
              /\ obtained' = [token |-> t, expires |-> expires_at']
              /\ lock' = NoRequest,
           UNCHANGED <<started, center, now>>
    PROVE  AuthInv'
<1>1. /\ AuthTypeOK /\ sent[r] \in Seq(Token) /\ obtained.token \in 0..MaxLogins
      /\ Accounted(r) /\ TokenKept
  BY DEF AuthInv, AuthTypeOK, Token
<1>2. request'[r] = "sending" /\ sent'[r] = Append(sent[r], t) /\ Mine(r)
  BY <1>1 DEF Send, AuthTypeOK, Mine
<1>3. TokenStep
  BY DEF TokenStep, center
<1>4. /\ obtained'.token = t
      /\ (token = t /\ t = obtained.token) \/ t = obtained.token + 1
  OBVIOUS
<1>5. Sent("sending", Append(sent[r], t), Retries(r), t, obtained'.token, refused)
  BY <1>1, <1>4, SentOnceMore DEF Accounted
<1>6. Accounted(r)'
  BY <1>2, <1>5 DEF Accounted, Retries, center
<1>7. AuthTypeOK'
  <2>1. started + Ttl \in Nat
    BY <1>1, AccountAssumption DEF AuthTypeOK
  <2>2. expires_at' \in Nat  BY <1>1, <2>1 DEF AuthTypeOK
  <2>3. token' \in 0..MaxLogins  BY TokenBounds
  <2>4. obtained' \in [token : 0..MaxLogins, expires : Nat]
    BY <1>1, <2>2, <2>3 DEF AuthTypeOK
  <2>5. Append(sent[r], t) \in Seq(1..MaxLogins)  BY <1>1 DEF Token
  <2>6. /\ request' \in [Request -> {"headers", "login", "sending", "refused"}
                                       \cup Answered]
        /\ sent' \in [Request -> Seq(1..MaxLogins)]
    BY <1>1, <2>5 DEF AuthTypeOK, Send
  <2>7. lock' \in Request \cup {NoRequest}  BY <1>1 DEF AuthTypeOK
  <2>8. QED
    BY <1>1, <2>2, <2>3, <2>4, <2>6, <2>7 DEF AuthTypeOK, center
<1>8. TokenKept'
  <2>1. CASE token = t /\ t = obtained.token /\ UNCHANGED <<expires_at, obtained, lock>>
    BY <1>1, <2>1, TokenBounds DEF TokenKept
  <2>2. CASE obtained' = [token |-> t, expires |-> expires_at']
    <3>1. obtained'.token = t /\ obtained'.expires = expires_at'  BY <2>2
    <3>2. t # 0  BY TokenBounds
    <3>3. QED  BY <3>1, <3>2 DEF TokenKept
  <2>3. QED  BY <2>1, <2>2
<1>9. QED  BY <1>2, <1>3, <1>6, <1>7, <1>8, RequestStep

LEMMA HeadersStep ==
    ASSUME AuthInv, NEW r \in Request, Headers(r), UNCHANGED now
    PROVE  AuthInv'
<1>1. /\ AuthTypeOK /\ Accounted(r) /\ TokenKept /\ request[r] = "headers"
      /\ now \in Nat
  BY DEF Headers, AuthInv
<1>2. CASE token # 0 /\ ~Expired
  <2>1. token \in Token /\ token = obtained.token
    BY <1>1, <1>2 DEF AuthTypeOK, TokenKept, Token
  <2>2. Send(r, token) /\ UNCHANGED <<token, expires_at, lock, started, center, obtained>>
    BY <1>2 DEF Headers
  <2>3. QED  BY <1>1, <2>1, <2>2, SendStep
<1>3. CASE ~(token # 0 /\ ~Expired)
  <2>1. /\ lock' = r /\ token' = 0 /\ expires_at' = 0 /\ started' = now
        /\ request' = [request EXCEPT ![r] = "login"]
        /\ UNCHANGED <<sent, center, obtained>>
    BY <1>3 DEF Headers
  <2>2. obtained.token = 0 \/ obtained.token \in refused \/ now >= obtained.expires
    BY <1>1, <1>3 DEF TokenKept, Expired
  <2>3. TokenKept'  BY <2>1, <2>2 DEF TokenKept, center
  <2>4. sent[r] \in Seq(Token) /\ obtained.token \in 0..MaxLogins
    BY <1>1 DEF AuthTypeOK, Token
  <2>5. Sent("headers", sent[r], Retries(r), 0, obtained.token, refused)
    BY <1>1, <2>4, SentStays DEF Accounted
  <2>6. Sent("login", sent[r], Retries(r), 0, obtained.token, refused)
    BY <2>5 DEF Sent
  <2>7. refused \subseteq 1..MaxLogins  BY <1>1 DEF AuthTypeOK
  <2>8. QED  BY <2>1, <2>3, <2>6, <2>7, QuietStep DEF center
<1>4. QED  BY <1>2, <1>3

LEMMA AuthStep == AuthInv /\ [Next]_vars => AuthInv'
<1> SUFFICES ASSUME AuthInv, [Next]_vars PROVE AuthInv'
  OBVIOUS
<1>0. /\ AuthTypeOK /\ TokenKept /\ now \in Nat
      /\ \A r \in Request : Accounted(r) /\ sent[r] \in Seq(Token)
      /\ obtained.token \in 0..MaxLogins /\ refused \subseteq 1..MaxLogins
      /\ lock \in Request \cup {NoRequest}
  BY DEF AuthInv, AuthTypeOK, Token
<1>a. ASSUME NEW r \in Request, NEW p \in Answered
      PROVE  Sent(p, sent[r], Retries(r), token, obtained.token, refused)
  <2>1. Accounted(r) /\ p \notin {"headers", "login", "sending", "refused"}
    BY <1>0, <1>a DEF Answered
  <2>2. QED  BY <2>1 DEF Accounted, Sent
<1>1. CASE UNCHANGED authVars
  <2>1. ASSUME NEW r \in Request PROVE Accounted(r)'
    BY <1>0, <1>1 DEF authVars, center, Accounted, Retries
  <2>2. AuthTypeOK'  BY <1>0, <1>1 DEF authVars, center, AuthTypeOK
  <2>3. now' \in Nat /\ TokenKept'
    <3>1. now' = now \/ now' = now + 1  BY OneAtATime
    <3>2. now' \in Nat /\ (now >= obtained.expires => now' >= obtained.expires)
      BY <1>0, <3>1 DEF AuthTypeOK
    <3>3. UNCHANGED <<token, expires_at, obtained, refused>>
      BY <1>1 DEF authVars, center
    <3>4. QED  BY <1>0, <3>2, <3>3 DEF TokenKept
  <2>4. QED  BY <2>1, <2>2, <2>3 DEF AuthInv
<1>2. CASE AuthNext /\ UNCHANGED now
  <2>1. ASSUME NEW r \in Request, Headers(r) PROVE AuthInv'
    BY <1>2, <2>1, HeadersStep
  <2>2. ASSUME NEW r \in Request, LoginSucceeds(r) PROVE AuthInv'
    <3>1. obtained.token + 1 \in Token /\ obtained.token < MaxLogins
      BY <1>0, <2>2, NextToken DEF LoginSucceeds
    <3>2. request[r] = "login" /\ token' = obtained.token + 1
             /\ expires_at' = started + Ttl
             /\ obtained' = [token |-> token', expires |-> expires_at']
             /\ lock' = NoRequest /\ UNCHANGED <<started, center>>
      BY <2>2 DEF LoginSucceeds
    <3>3. Send(r, token')  BY <2>2 DEF LoginSucceeds
    <3>4. Send(r, obtained.token + 1)
             /\ obtained' = [token |-> obtained.token + 1, expires |-> expires_at']
      BY <3>2, <3>3
    <3>5. QED  BY <1>2, <3>1, <3>2, <3>4, SendStep
  <2>3. ASSUME NEW r \in Request, LoginFails(r) PROVE AuthInv'
    BY <1>0, <1>2, <1>a, <2>3, QuietStep DEF LoginFails, Answered, center, TokenKept
  <2>4. ASSUME NEW r \in Request, RequestFails(r) PROVE AuthInv'
    BY <1>0, <1>2, <1>a, <2>4, QuietStep DEF RequestFails, Answered, center, TokenKept
  <2>5. ASSUME NEW r \in Request, Answer(r) PROVE AuthInv'
    <3> DEFINE t == sent[r][Len(sent[r])]
    <3>1. request[r] = "sending"
             /\ UNCHANGED <<token, expires_at, lock, started, revoked, sent, obtained>>
      BY <2>5 DEF Answer
    <3>2. CASE t \in revoked
      <4>1. request' = [request EXCEPT ![r] = "refused"] /\ refused' = refused \cup {t}
        BY <2>5, <3>2 DEF Answer
      <4>2. t \in 1..MaxLogins  BY <1>0, <3>2 DEF AuthTypeOK
      <4>3. Sent("refused", sent[r], Retries(r), token, obtained.token, refused \cup {t})
        BY <1>0, <3>1 DEF Accounted, Sent
      <4>4. TokenKept'  BY <1>0, <1>2, <3>1, <4>1 DEF TokenKept
      <4>5. refused' \subseteq 1..MaxLogins  BY <1>0, <4>1, <4>2
      <4>6. QED  BY <1>0, <1>2, <3>1, <4>1, <4>3, <4>4, <4>5, QuietStep
    <3>3. CASE t \notin revoked
      <4>1. UNCHANGED refused
               /\ \E o \in operation[r].result \cup {"failed"} :
                     request' = [request EXCEPT ![r] = o]
        BY <2>5, <3>3 DEF Answer
      <4>2. PICK o \in Answered : request' = [request EXCEPT ![r] = o]
        <5>1. operation[r].result \subseteq {"ok", "none"}
          BY OperationAssumption DEF load_psop, search_psop, fetch_agent_cards,
             fetch_agent_card, register_agent_card
        <5>2. QED  BY <4>1, <5>1 DEF Answered
      <4>3. TokenKept'  BY <1>0, <1>2, <3>1, <4>1 DEF TokenKept
      <4>4. QED  BY <1>0, <1>2, <1>a, <3>1, <4>1, <4>2, <4>3, QuietStep
    <3>4. QED  BY <3>2, <3>3
  <2>6. ASSUME NEW r \in Request, Renew(r) PROVE AuthInv'
    <3>1. request[r] = "refused" /\ UNCHANGED <<lock, started, center, sent, obtained>>
      BY <2>6 DEF Renew
    <3>2. CASE Retries(r) /\ Len(sent[r]) = 1
      <4> DEFINE t == sent[r][1]
      <4>1. Invalidate(t) /\ request' = [request EXCEPT ![r] = "headers"]
        BY <2>6, <3>2 DEF Renew, Retries
      <4>2. t \in refused /\ t \in Token /\ t # 0
        <5>1. t \in refused  BY <1>0, <3>1, <3>2 DEF Accounted, Sent
        <5>2. QED  BY <1>0, <5>1, TokenBounds DEF Token
      <4>3. token' \in {token, 0} /\ expires_at' \in {expires_at, 0} /\ t # token'
        BY <4>1, <4>2 DEF Invalidate
      <4>4. TokenKept'
        BY <1>0, <1>2, <3>1, <4>1, <4>2 DEF Invalidate, TokenKept, center
      <4>5. Sent("headers", sent[r], Retries(r), token', obtained.token, refused)
        <5>1. Accounted(r)  BY <1>0
        <5>2. QED  BY <3>2, <4>2, <4>3, <5>1 DEF Accounted, Sent
      <4>6. QED  BY <1>0, <1>2, <3>1, <4>1, <4>3, <4>4, <4>5, QuietStep DEF center
    <3>3. CASE ~(Retries(r) /\ Len(sent[r]) = 1)
      <4>1. request' = [request EXCEPT ![r] = "failed"] /\ UNCHANGED <<token, expires_at>>
        BY <2>6, <3>3 DEF Renew, Retries
      <4>2. "failed" \in Answered  BY DEF Answered
      <4>3. TokenKept'  BY <1>0, <1>2, <3>1, <4>1 DEF TokenKept, center
      <4>4. QED  BY <1>0, <1>2, <1>a, <3>1, <4>1, <4>2, <4>3, QuietStep DEF center
    <3>4. QED  BY <3>2, <3>3
  <2>7. ASSUME NEW t \in 1..obtained.token, Revoke(t) PROVE AuthInv'
    <3>1. t \in 1..MaxLogins  BY <1>0, AccountAssumption
    <3>2. UNCHANGED <<token, expires_at, lock, started, refused, request, sent, obtained>>
             /\ revoked' = revoked \cup {t}
      BY <2>7 DEF Revoke
    <3>3. AuthTypeOK'  BY <1>0, <3>1, <3>2 DEF AuthTypeOK
    <3>4. \A r \in Request : Accounted(r)'
      BY <1>0, <3>2 DEF Accounted, Retries
    <3>5. QED  BY <1>0, <1>2, <3>2, <3>3, <3>4 DEF AuthInv, TokenKept
  <2>8. QED
    BY <1>2, <2>1, <2>2, <2>3, <2>4, <2>5, <2>6, <2>7 DEF AuthNext, Handle
<1>3. QED
  BY <1>1, <1>2, OneAtATime DEF Next, AccountStep, CredentialsStep, ClientStep,
     TimePasses, vars

(* Every variable of the account keeps to its range.                       *)
THEOREM AccountTypeCorrect == Spec => []AuthTypeOK
<1>1. AuthInv => AuthTypeOK  BY DEF AuthInv
<1>2. QED  BY <1>1, AuthInitially, AuthStep, PTL DEF Spec

(* However late a 401 comes and however many requests share the token, the  *)
(* token at hand is the one of the last login, with its expiry, and it is   *)
(* gone only if the center refused that one or its time was over.          *)
THEOREM TokensAreKept == Spec => []TokenKept
<1>1. AuthInv => TokenKept  BY DEF AuthInv
<1>2. QED  BY <1>1, AuthInitially, AuthStep, PTL DEF Spec

(* A write is sent once and a read twice at most, the second time with a    *)
(* newer token, however many requests share the token that was refused.     *)
THEOREM RetryCorrect == Spec => []RetriedOnceWithNewToken
<1>1. AuthInv => RetriedOnceWithNewToken
  BY DEF AuthInv, Accounted, Sent, Retries, RetriedOnceWithNewToken
<1>2. QED  BY <1>1, AuthInitially, AuthStep, PTL DEF Spec

LEMMA RenewalStep ==
    ASSUME AuthInv, [Next]_vars
    PROVE  [lock # lock' /\ lock' # NoRequest =>
               \/ obtained.token = 0
               \/ now >= obtained.expires
               \/ obtained.token \in refused]_authVars
<1> SUFFICES ASSUME lock # lock', lock' # NoRequest, AuthNext
             PROVE  \/ obtained.token = 0
                    \/ now >= obtained.expires
                    \/ obtained.token \in refused
  BY OneAtATime DEF authVars
<1>1. PICK r \in Request : Headers(r)
  BY DEF AuthNext, Handle, LoginSucceeds, LoginFails, RequestFails, Answer, Renew, Revoke
<1>2. token = 0 \/ Expired
  BY <1>1 DEF Headers
<1>3. QED  BY <1>2 DEF AuthInv, TokenKept, Expired

(* Whatever the interleaving of refusals and logins, a token is replaced    *)
(* for cause.                                                              *)
THEOREM RenewalCorrect == Spec => RenewedForCause
  BY AuthInitially, AuthStep, RenewalStep, PTL DEF Spec, RenewedForCause

-----------------------------------------------------------------------------
(***************************************************************************)
(* The locks.  A lock is held by the one who logs in under it, and by       *)
(* nobody else: there is one login at a time, and whoever waits for a lock *)
(* waits for a login, which a timeout ends.  No answer, no failure and no   *)
(* cancellation leaves a lock behind.                                      *)
(***************************************************************************)
LocksHeldByLogins ==
    /\ \A r \in Request : request[r] = "login" <=> lock = r
    /\ \A c \in Call : at[c] = "login" <=> mutex = c

LEMMA AccountLockStep ==
    ASSUME AuthInv, LocksHeldByLogins, AuthNext
    PROVE  \A r \in Request : request'[r] = "login" <=> lock' = r
<1>1. request \in [Request -> {"headers", "login", "sending", "refused"} \cup Answered]
  BY DEF AuthInv, AuthTypeOK
<1>2. "login" \notin Answered
  BY DEF Answered
<1>3. ASSUME NEW r \in Request, Headers(r)
      PROVE  \A q \in Request : request'[q] = "login" <=> lock' = q
  BY <1>1, <1>3, AccountAssumption DEF Headers, Send, LocksHeldByLogins
<1>4. ASSUME NEW r \in Request, LoginSucceeds(r) \/ LoginFails(r)
      PROVE  \A q \in Request : request'[q] = "login" <=> lock' = q
  BY <1>1, <1>4, AccountAssumption
     DEF LoginSucceeds, LoginFails, Send, LocksHeldByLogins
<1>5. ASSUME NEW r \in Request, RequestFails(r) \/ Answer(r) \/ Renew(r)
      PROVE  \A q \in Request : request'[q] = "login" <=> lock' = q
  <2>1. /\ request[r] # "login" /\ lock' = lock
        /\ \E p \in {"headers", "refused"} \cup Answered :
              request' = [request EXCEPT ![r] = p]
    <3>1. CASE RequestFails(r)
      BY <3>1 DEF RequestFails, Answered
    <3>2. CASE Answer(r)
      <4>1. operation[r].result \subseteq Answered
        BY OperationAssumption DEF Answered, load_psop, search_psop,
           fetch_agent_cards, fetch_agent_card, register_agent_card
      <4> QED  BY <3>2, <4>1 DEF Answer, Answered
    <3>3. CASE Renew(r)
      BY <3>3 DEF Renew, Answered
    <3> QED  BY <1>5, <3>1, <3>2, <3>3
  <2> QED  BY <1>1, <1>2, <2>1 DEF LocksHeldByLogins
<1>6. ASSUME NEW t, Revoke(t)
      PROVE  \A q \in Request : request'[q] = "login" <=> lock' = q
  BY <1>6 DEF Revoke, LocksHeldByLogins
<1> QED  BY <1>3, <1>4, <1>5, <1>6 DEF AuthNext, Handle

LEMMA CredentialsLockStep ==
    ASSUME CredInv, LocksHeldByLogins, CredNext
    PROVE  \A c \in Call : at'[c] = "login" <=> mutex' = c
<1>1. at \in [Call -> CallState]
  BY DEF CredInv, CredTypes
<1>2. ASSUME NEW c \in Call, NextScheme(c) \/ Apply(c) \/ GiveUp(c)
      PROVE  \A d \in Call : at'[d] = "login" <=> mutex' = d
  <2>1. /\ at[c] = "walking" /\ mutex' = mutex
        /\ \E w \in {"walking", "waiting", "applied", "raised"} :
              at' = [at EXCEPT ![c] = w]
    BY <1>1, <1>2 DEF NextScheme, Apply, GiveUp, Walking, Goto
  <2> QED  BY <1>1, <2>1 DEF LocksHeldByLogins
<1>3. ASSUME NEW c \in Call, Lock(c)
      PROVE  \A d \in Call : at'[d] = "login" <=> mutex' = d
  BY <1>1, <1>3, CredentialAssumption DEF Lock, Goto, LocksHeldByLogins
<1>4. ASSUME NEW c \in Call, LoggedIn(c) \/ Fail(c)
      PROVE  \A d \in Call : at'[d] = "login" <=> mutex' = d
  BY <1>1, <1>4, CredentialAssumption DEF LoggedIn, Fail, Goto, LocksHeldByLogins
<1> QED  BY <1>2, <1>3, <1>4 DEF CredNext, Before

(* No lock is ever held by one that does not log in.                       *)
THEOREM LocksAreHeldByLogins == Spec => []LocksHeldByLogins
<1>1. Init => LocksHeldByLogins
  BY AccountAssumption, CredentialAssumption
     DEF Init, AuthInit, CredInit, LocksHeldByLogins
<1>2. AuthInv /\ CredInv /\ LocksHeldByLogins /\ [Next]_vars => LocksHeldByLogins'
  <2> SUFFICES ASSUME AuthInv, CredInv, LocksHeldByLogins, [Next]_vars
               PROVE  LocksHeldByLogins'
    OBVIOUS
  <2>1. \A r \in Request : request'[r] = "login" <=> lock' = r
    BY OneAtATime, AccountLockStep DEF authVars, LocksHeldByLogins
  <2>2. \A c \in Call : at'[c] = "login" <=> mutex' = c
    BY OneAtATime, CredentialsLockStep DEF credVars, LocksHeldByLogins
  <2> QED  BY <2>1, <2>2 DEF LocksHeldByLogins
<1> QED
  BY <1>1, <1>2, AuthInitially, AuthStep, CredInitially, CredStep, PTL DEF Spec

=============================================================================
