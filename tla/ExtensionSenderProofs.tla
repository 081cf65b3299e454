------------------------ MODULE ExtensionSenderProofs ------------------------
(***************************************************************************)
(* Theorems about the streams and authorizations of ExtensionSender, for   *)
(* any tasks and artifacts, streams of any length and any number of polls. *)
(***************************************************************************)
EXTENDS ExtensionSender, TLAPS, WellFoundedInduction

LEMMA CallOrRest ==
    ASSUME [SenderNext]_senderVars
    PROVE  /\ CallNext \/ UNCHANGED callVars
           /\ StreamNext \/ UNCHANGED streamVars
  BY DEF SenderNext, senderVars, Ended, CallNext, Send, ReadStream,
         StreamOver, Wake,
         Polled, PassDeadline, GiveUp

-----------------------------------------------------------------------------
(* The reduction of a stream.                                              *)

Fields == {"task", "state", "status", "artifacts", "messages", "text"}

(* The result has its fields, its task and its state; and it mirrors the    *)
(* task once the stream has told of it.                                    *)
ReducedInv ==
    /\ method \in {"consume", "subscribe"}
    /\ DOMAIN reduced = Fields
    /\ reduced.task \in TaskId \cup {NoTask}
    /\ reduced.state \in State \cup {""}
    /\ DOMAIN remote = {"state", "status", "artifacts"}
    /\ Joined => SameAsRemote

LEMMA ReducedStep == ReducedInv /\ [SenderNext]_senderVars => ReducedInv'
<1> SUFFICES ASSUME ReducedInv, [SenderNext]_senderVars PROVE ReducedInv'
  OBVIOUS
<1> USE StreamAssumption DEF ReducedInv, SameAsRemote, Joined, Fields
<1>1. CASE TaskEvent
  <2>0. PICK s \in State, m \in {0, events + 1}, a \in Artifact, grow \in BOOLEAN,
             id \in TaskId :
           /\ remote' = [state |-> s, status |-> m, artifacts |->
                         IF grow THEN AfterArtifact(remote.artifacts, a, <<events + 1>>, TRUE)
                                 ELSE remote.artifacts]
           /\ \E said \in (IF method = "consume" THEN Said(s) ELSE {s}) :
                reduced' = AfterTask(reduced, id, said, m, remote'.artifacts)
    BY <1>1 DEF TaskEvent
  <2>1. PICK said \in (IF method = "consume" THEN Said(s) ELSE {s}) :
           reduced' = AfterTask(reduced, id, said, m, remote'.artifacts)
    BY <2>0
  <2>2. method' = method  BY <1>1 DEF TaskEvent, Arrives
  <2>3. /\ DOMAIN reduced' = Fields /\ reduced'.task = id
        /\ reduced'.state = IF said = "" /\ method = "consume" THEN reduced.state ELSE said
        /\ reduced'.status = m /\ reduced'.artifacts = remote'.artifacts
    BY <2>1 DEF AfterTask
  <2>4. /\ DOMAIN remote' = {"state", "status", "artifacts"}
        /\ remote'.state = s /\ remote'.status = m
    BY <2>0
  <2>5. reduced'.state = s
    BY <2>0, <2>1, <2>3 DEF Said, State
  <2>6. QED  BY <2>0, <2>2, <2>3, <2>4, <2>5
<1>2. CASE MessageEvent
  BY <1>2 DEF MessageEvent, Arrives, AfterMessage
<1>3. CASE StatusEvent
  <2>0. PICK s \in State, m \in {0, events + 1} :
           /\ remote' = [remote EXCEPT !.state = s, !.status = m]
           /\ \E said \in Said(s) : reduced' = AfterStatus(reduced, said, m)
    BY <1>3 DEF StatusEvent
  <2>1. PICK said \in Said(s) : reduced' = AfterStatus(reduced, said, m)
    BY <2>0
  <2>2. method' = method /\ Joined  BY <1>3 DEF StatusEvent, Arrives
  <2>3. /\ DOMAIN reduced' = Fields
        /\ reduced'.state = IF said = "" THEN reduced.state ELSE said
        /\ reduced'.status = m
        /\ UNCHANGED <<reduced.task, reduced.artifacts>>
    BY <2>1 DEF AfterStatus
  <2>4. /\ DOMAIN remote' = {"state", "status", "artifacts"}
        /\ remote'.state = s /\ remote'.status = m
        /\ remote'.artifacts = remote.artifacts
    BY <2>0
  <2>5. reduced'.state = s
    BY <2>0, <2>1, <2>2, <2>3 DEF Said, State
  <2>6. QED  BY <2>0, <2>2, <2>3, <2>4, <2>5
<1>4. CASE ArtifactEvent
  <2>1. PICK a \in Artifact, append \in BOOLEAN :
           /\ remote' = [remote EXCEPT
                !.artifacts = AfterArtifact(@, a, <<events + 1>>, append)]
           /\ reduced' = [reduced EXCEPT
                !.artifacts = AfterArtifact(@, a, <<events + 1>>, append)]
    BY <1>4 DEF ArtifactEvent
  <2>2. method' = method /\ Joined  BY <1>4 DEF ArtifactEvent, Arrives
  <2>3. /\ DOMAIN reduced' = Fields
        /\ reduced'.artifacts = AfterArtifact(reduced.artifacts, a, <<events + 1>>, append)
        /\ UNCHANGED <<reduced.task, reduced.state, reduced.status>>
    BY <2>1
  <2>4. /\ DOMAIN remote' = {"state", "status", "artifacts"}
        /\ remote'.artifacts = AfterArtifact(remote.artifacts, a, <<events + 1>>, append)
        /\ UNCHANGED <<remote.state, remote.status>>
    BY <2>1
  <2>5. QED  BY <2>2, <2>3, <2>4
<1>5. CASE EmptyEvent \/ EndStream \/ BreakStream \/ UNCHANGED streamVars
  BY <1>5 DEF EmptyEvent, EndStream, BreakStream, streamVars
<1>6. QED
  BY <1>1, <1>2, <1>3, <1>4, <1>5, CallOrRest DEF StreamNext

LEMMA ReducedInvariant == SenderSpec => []ReducedInv
<1>1. ASSUME SenderInit PROVE ReducedInv
  <2>1. StreamInit  BY <1>1 DEF SenderInit
  <2>2. /\ method \in {"consume", "subscribe"}
        /\ DOMAIN reduced = Fields
        /\ reduced.task = NoTask /\ reduced.state = "" /\ reduced.status = 0
        /\ reduced.artifacts = <<>>
    BY <2>1 DEF StreamInit, Fields
  <2>3. /\ DOMAIN remote = {"state", "status", "artifacts"}
        /\ remote.state = "" /\ remote.status = 0
        /\ method = "consume" => remote.artifacts = <<>>
    BY <2>1 DEF StreamInit
  <2>4. Joined => SameAsRemote  BY <2>2, <2>3 DEF Joined, SameAsRemote
  <2>5. QED  BY <2>2, <2>3, <2>4 DEF ReducedInv
<1>2. QED  BY <1>1, ReducedStep, PTL DEF SenderSpec

-----------------------------------------------------------------------------
(* The text of a result.  First, what joining sequences does to them; the   *)
(* inductions are about the smallest number for which a claim fails.        *)

LEMMA SmallestOf ==
    ASSUME NEW T, T \subseteq Nat, T # {}
    PROVE  \E n \in T : \A k \in T : n <= k
<1> DEFINE Less == {p \in Nat \X Nat : p[1] < p[2]}
<1>1. IsWellFoundedOn(Less, Nat)
  BY NatLessThanWellFounded DEF OpToRel
<1>2. PICK n \in T : \A k \in T : ~ (<<k, n>> \in Less)
  BY <1>1, WFMin
<1>3. \A k \in T : n <= k
  <2>1. TAKE k \in T
  <2>2. ~(k < n)  BY <1>2 DEF Less
  <2>3. QED  BY <2>2
<1>4. QED  BY <1>3

(* The first n sequences of s, joined one after the other.                  *)
Joins(f, s, n) == f = [i \in 1..n |-> IF i = 1 THEN s[i] ELSE f[i-1] \o s[i]]

LEMMA JoinsStep ==
    ASSUME NEW s, NEW n \in Nat, n > 1, NEW f, Joins(f, s, n - 1)
    PROVE  \E g : Joins(g, s, n)
<1> DEFINE g == [i \in 1..n |-> IF i = n THEN f[n-1] \o s[n] ELSE f[i]]
<1>1. ASSUME NEW i \in 1..n PROVE g[i] = IF i = 1 THEN s[i] ELSE g[i-1] \o s[i]
  <2>1. CASE i = n
    <3>1. n - 1 \in 1..n /\ n \in 1..n /\ n - 1 # n /\ n # 1  OBVIOUS
    <3>2. g[n] = f[n-1] \o s[n]  BY <3>1
    <3>3. g[n-1] = f[n-1]  BY <3>1
    <3>4. QED  BY <2>1, <3>1, <3>2, <3>3
  <2>2. CASE i # n
    <3>1. i \in 1..(n-1)  BY <2>2
    <3>2. i # 1 => i - 1 \in 1..n /\ i - 1 # n  BY <3>1
    <3>3. g[i] = f[i] /\ (i # 1 => g[i-1] = f[i-1])  BY <2>2, <3>2
    <3>4. f[i] = IF i = 1 THEN s[i] ELSE f[i-1] \o s[i]  BY <3>1 DEF Joins
    <3>5. QED  BY <3>3, <3>4
  <2>3. QED  BY <2>1, <2>2
<1>2. g = [i \in 1..n |-> g[i]]  OBVIOUS
<1> HIDE DEF g
<1>3. Joins(g, s, n)  BY <1>1, <1>2 DEF Joins
<1>4. QED  BY <1>3

LEMMA JoinsExist ==
    ASSUME NEW s, NEW n \in Nat, n # 0
    PROVE  \E f : Joins(f, s, n)
<1> DEFINE T == {k \in Nat : k # 0 /\ ~ \E f : Joins(f, s, k)}
<1>1. SUFFICES ASSUME T # {} PROVE FALSE
  OBVIOUS
<1>2. T \subseteq Nat  OBVIOUS
<1> HIDE DEF T
<1>3. PICK k \in T : \A l \in T : k <= l
  BY <1>1, <1>2, SmallestOf
<1>4. k \in Nat /\ k # 0 /\ ~ \E f : Joins(f, s, k)
  BY DEF T
<1>5. CASE k = 1
  <2> DEFINE g == [i \in 1..1 |-> s[1]]
  <2>1. Joins(g, s, 1)  BY DEF Joins
  <2>2. QED  BY <1>4, <1>5, <2>1
<1>6. CASE k # 1
  <2>1. k - 1 \in Nat /\ k - 1 # 0 /\ ~(k <= k - 1) /\ k > 1
    BY <1>4, <1>6
  <2>2. k - 1 \notin T  BY <1>3, <2>1
  <2>3. PICK f : Joins(f, s, k - 1)  BY <2>1, <2>2 DEF T
  <2>4. QED  BY <1>4, <2>1, <2>3, JoinsStep
<1>7. QED  BY <1>5, <1>6

LEMMA FlattenJoins ==
    ASSUME NEW s, Len(s) \in Nat, Len(s) # 0
    PROVE  \E f : Joins(f, s, Len(s)) /\ FlattenSeq(s) = f[Len(s)]
<1>1. \E f : Joins(f, s, Len(s))  BY JoinsExist
<1>2. QED  BY <1>1 DEF FlattenSeq, Joins

(* No element of s[1], ..., s[n] is at two places.                          *)
Apart(s, n) ==
    \A i, j \in 1..n : \A k \in DOMAIN s[i], l \in DOMAIN s[j] :
        s[i][k] = s[j][l] => i = j /\ k = l

LEMMA ConcatApart ==
    ASSUME NEW S, NEW a \in Seq(S), NEW b \in Seq(S),
           IsInjective(a), IsInjective(b),
           \A i \in DOMAIN a, j \in DOMAIN b : a[i] # b[j]
    PROVE  IsInjective(a \o b)
<1> DEFINE c == a \o b
<1>1. /\ c \in Seq(S) /\ Len(c) = Len(a) + Len(b)
      /\ DOMAIN c = 1..Len(c) /\ DOMAIN a = 1..Len(a) /\ DOMAIN b = 1..Len(b)
      /\ Len(a) \in Nat /\ Len(b) \in Nat
  OBVIOUS
<1>2. \A i \in DOMAIN c : \/ i \in DOMAIN a /\ c[i] = a[i]
                          \/ i \notin DOMAIN a /\ i - Len(a) \in DOMAIN b /\ c[i] = b[i - Len(a)]
  OBVIOUS
<1> HIDE DEF c
<1>3. ASSUME NEW i \in DOMAIN c, NEW j \in DOMAIN c, c[i] = c[j] PROVE i = j
  <2>1. CASE i \in DOMAIN a /\ j \in DOMAIN a
    BY <1>2, <1>3, <2>1 DEF IsInjective
  <2>2. CASE i \notin DOMAIN a /\ j \notin DOMAIN a
    <3>1. i - Len(a) = j - Len(a)  BY <1>2, <1>3, <2>2 DEF IsInjective
    <3>2. QED  BY <3>1, <1>1
  <2>3. QED  BY <1>2, <1>3, <2>1, <2>2
<1>4. QED  BY <1>3 DEF IsInjective, c

(* Joined, what was apart is all different, and there is nothing else.      *)
LEMMA JoinsApart ==
    ASSUME NEW S, NEW s \in Seq(Seq(S)), Apart(s, Len(s)), NEW f, Joins(f, s, Len(s)),
           NEW n \in 1..Len(s)
    PROVE  /\ f[n] \in Seq(S) /\ IsInjective(f[n])
           /\ \A k \in DOMAIN f[n] : \E i \in 1..n : \E l \in DOMAIN s[i] : f[n][k] = s[i][l]
<1> DEFINE Good(m) ==
           /\ f[m] \in Seq(S) /\ IsInjective(f[m])
           /\ \A k \in DOMAIN f[m] : \E i \in 1..m : \E l \in DOMAIN s[i] : f[m][k] = s[i][l]
<1> DEFINE T == {m \in 1..Len(s) : ~ Good(m)}
<1>0. /\ Len(s) \in Nat /\ \A i \in 1..Len(s) : s[i] \in Seq(S)
  OBVIOUS
<1> HIDE DEF Good
<1>1. SUFFICES ASSUME T # {} PROVE FALSE
  BY DEF Good
<1>2. T \subseteq Nat  BY <1>0
<1> HIDE DEF T
<1>3. PICK m \in T : \A l \in T : m <= l
  BY <1>1, <1>2, SmallestOf
<1>4. m \in 1..Len(s) /\ ~ Good(m) /\ m \in Nat /\ s[m] \in Seq(S)
  BY <1>0 DEF T
<1>5. f[m] = IF m = 1 THEN s[m] ELSE f[m-1] \o s[m]
  BY <1>4 DEF Joins
<1>6. IsInjective(s[m])
  BY <1>4 DEF Apart, IsInjective
<1>7. CASE m = 1
  <2>1. f[m] = s[m] /\ m \in 1..m  BY <1>5, <1>7, <1>4
  <2>2. Good(m)  BY <2>1, <1>4, <1>6 DEF Good
  <2>3. QED  BY <2>2, <1>4
<1>8. CASE m # 1
  <2>1. /\ m - 1 \in 1..Len(s) /\ ~(m <= m - 1) /\ m \in 1..m /\ m \notin 1..(m-1)
        /\ \A i \in 1..(m-1) : i \in 1..m /\ i \in 1..Len(s)
        /\ \A i \in 1..m : i = m \/ i \in 1..(m-1)
    BY <1>4, <1>8, <1>0
  <2>2. Good(m-1)  BY <1>3, <2>1 DEF T
  <2>3. f[m] = f[m-1] \o s[m]  BY <1>5, <1>8
  <2>4. \A i \in DOMAIN f[m-1], j \in DOMAIN s[m] : f[m-1][i] # s[m][j]
    <3>1. TAKE i \in DOMAIN f[m-1], j \in DOMAIN s[m]
    <3>2. PICK h \in 1..(m-1) : \E l \in DOMAIN s[h] : f[m-1][i] = s[h][l]
      BY <2>2 DEF Good
    <3>3. h \in 1..Len(s) /\ h # m  BY <2>1
    <3>4. \A l \in DOMAIN s[h] : s[h][l] # s[m][j]
      BY <3>3, <1>4 DEF Apart
    <3>5. QED  BY <3>2, <3>4
  <2>5. f[m] \in Seq(S) /\ IsInjective(f[m])
    BY <2>2, <2>3, <2>4, <1>4, <1>6, ConcatApart DEF Good
  <2>6. ASSUME NEW k \in DOMAIN f[m]
        PROVE  \E i \in 1..m : \E l \in DOMAIN s[i] : f[m][k] = s[i][l]
    <3>1. \/ k \in DOMAIN f[m-1] /\ f[m][k] = f[m-1][k]
          \/ \E l \in DOMAIN s[m] : f[m][k] = s[m][l]
      <4> DEFINE a == f[m-1]
      <4> DEFINE b == s[m]
      <4>1. a \in Seq(S) /\ b \in Seq(S) /\ f[m] = a \o b
        BY <2>2, <2>3, <1>4 DEF Good
      <4> HIDE DEF a, b
      <4>2. /\ DOMAIN a = 1..Len(a) /\ DOMAIN b = 1..Len(b) /\ Len(a) \in Nat
            /\ DOMAIN f[m] = 1..(Len(a) + Len(b))
            /\ \A i \in 1..(Len(a) + Len(b)) :
                 f[m][i] = IF i <= Len(a) THEN a[i] ELSE b[i - Len(a)]
        BY <4>1
      <4>3. \/ k \in DOMAIN a /\ f[m][k] = a[k]
            \/ k - Len(a) \in DOMAIN b /\ f[m][k] = b[k - Len(a)]
        BY <2>6, <4>2
      <4>4. QED  BY <4>3 DEF a, b
    <3>2. CASE k \in DOMAIN f[m-1] /\ f[m][k] = f[m-1][k]
      <4>1. PICK i \in 1..(m-1) : \E l \in DOMAIN s[i] : f[m-1][k] = s[i][l]
        BY <2>2, <3>2 DEF Good
      <4>2. i \in 1..m  BY <2>1
      <4>3. QED  BY <3>2, <4>1, <4>2
    <3>3. QED  BY <3>1, <3>2, <2>1
  <2>7. Good(m)  BY <2>5, <2>6 DEF Good
  <2>8. QED  BY <2>7, <1>4
<1>9. QED  BY <1>7, <1>8

LEMMA FlattenApart ==
    ASSUME NEW S, NEW s \in Seq(Seq(S)), Apart(s, Len(s))
    PROVE  IsInjective(FlattenSeq(s))
<1>1. CASE Len(s) = 0
  BY <1>1 DEF FlattenSeq, IsInjective
<1>2. CASE Len(s) # 0
  <2>1. PICK f : Joins(f, s, Len(s)) /\ FlattenSeq(s) = f[Len(s)]
    BY <1>2, FlattenJoins
  <2>2. Len(s) \in 1..Len(s)  BY <1>2
  <2>3. QED  BY <2>1, <2>2, JoinsApart
<1>3. QED  BY <1>1, <1>2

LEMMA FlattenNonEmpty ==
    ASSUME NEW S, NEW s \in Seq(Seq(S)), Apart(s, Len(s)), s # <<>>,
           \A i \in DOMAIN s : s[i] # <<>>
    PROVE  FlattenSeq(s) # <<>>
<1>0. PICK n \in Nat : n = Len(s)
  OBVIOUS
<1>1. n # 0 /\ n \in 1..n /\ s[n] \in Seq(S) /\ s[n] # <<>>
  BY <1>0
<1>2. PICK f : Joins(f, s, n) /\ FlattenSeq(s) = f[n]
  BY <1>0, <1>1, FlattenJoins
<1>3. f[n] = IF n = 1 THEN s[n] ELSE f[n-1] \o s[n]
  BY <1>1, <1>2 DEF Joins
<1>4. CASE n # 1
  <2>1. n - 1 \in 1..n  BY <1>1, <1>4
  <2>2. f[n-1] \in Seq(S)  BY <2>1, <1>0, <1>2, JoinsApart
  <2> DEFINE a == f[n-1]
  <2> DEFINE b == s[n]
  <2>3. a \in Seq(S) /\ b \in Seq(S) /\ b # <<>>  BY <2>2, <1>1
  <2> HIDE DEF a, b
  <2>4. a \o b # <<>>  BY <2>3
  <2>5. QED  BY <1>2, <1>3, <1>4, <2>4 DEF a, b
<1>5. QED  BY <1>1, <1>2, <1>3, <1>4

(* The texts of artifacts that tell of e events at most: one entry per       *)
(* artifact, none of them empty, and every part at one place only.           *)
PartsOf(d) == [i \in DOMAIN d |-> d[i].parts]
Keys == Artifact \cup {CHOOSE a \in Artifact : TRUE}
Entries(e) == [key : Keys, parts : Seq(0..e)]
ArtifactsOK(d, e) ==
    /\ d \in Seq(Entries(e))
    /\ \A i, j \in DOMAIN d : d[i].key = d[j].key => i = j
    /\ \A i \in DOMAIN d : d[i].parts # <<>>
    /\ Apart(PartsOf(d), Len(d))

LEMMA EntriesGrow ==
    ASSUME NEW e \in Nat, NEW d, ArtifactsOK(d, e)
    PROVE  ArtifactsOK(d, e + 1)
<1>1. Seq(0..e) \subseteq Seq(0..(e+1))
  OBVIOUS
<1>2. Entries(e) \subseteq Entries(e + 1)
  BY <1>1 DEF Entries
<1>3. d \in Seq(Entries(e + 1))
  BY <1>2 DEF ArtifactsOK
<1>4. QED  BY <1>3 DEF ArtifactsOK

(* A new part at the end of the text of one artifact, or in its place.      *)
LEMMA AfterArtifactOK ==
    ASSUME NEW e \in Nat, NEW d, ArtifactsOK(d, e), NEW k \in Artifact, NEW append \in BOOLEAN
    PROVE  ArtifactsOK(AfterArtifact(d, k, <<e + 1>>, append), e + 1)
<1> DEFINE new == <<e + 1>>
<1> DEFINE p == IF append /\ Has(d, k) THEN Lookup(d, k) \o new ELSE new
<1> DEFINE r == Put(d, k, p)
<1>0. /\ d \in Seq(Entries(e + 1)) /\ Len(d) \in Nat /\ DOMAIN d = 1..Len(d)
      /\ \A i \in DOMAIN d : d[i] \in Entries(e) /\ d[i] \in Entries(e + 1)
  <2>1. d \in Seq(Entries(e)) /\ d \in Seq(Entries(e + 1))
    BY EntriesGrow DEF ArtifactsOK
  <2>2. QED  BY <2>1
<1>1. new \in Seq(0..(e+1)) /\ new # <<>> /\ k \in Keys
  BY DEF Keys
<1>2. \A i \in DOMAIN d : d[i].parts \in Seq(0..e) /\ d[i].parts \in Seq(0..(e+1))
  BY <1>0 DEF Entries
<1>3. \A i \in DOMAIN d, l \in Nat : l \in DOMAIN d[i].parts => d[i].parts[l] \in 0..e
  BY <1>2
(* The new text holds the old text of the artifact, or nothing of it, and the new part.  *)
<1>4. /\ p \in Seq(0..(e+1)) /\ p # <<>>
      /\ \A l, m \in DOMAIN p : p[l] = p[m] => l = m
      /\ \A l \in DOMAIN p :
           \/ p[l] = e + 1
           \/ \E i \in DOMAIN d : d[i].key = k /\ l \in DOMAIN d[i].parts /\ p[l] = d[i].parts[l]
  <2>1. CASE append /\ Has(d, k)
    <3>1. PICK i \in DOMAIN d : d[i].key = k /\ Lookup(d, k) = d[i].parts
      BY <2>1 DEF Has, Lookup
    <3> DEFINE a == d[i].parts
    <3>2. a \in Seq(0..e) /\ p = a \o new  BY <2>1, <3>1, <1>2
    <3>3. \A l, m \in DOMAIN a : a[l] = a[m] => l = m
      BY <1>0 DEF ArtifactsOK, Apart, PartsOf
    <3> HIDE DEF a, p
    <3>4. /\ Len(a) \in Nat /\ p = a \o <<e + 1>> /\ DOMAIN a = 1..Len(a)
          /\ \A l \in DOMAIN a : a[l] \in 0..e
      BY <3>2
    <3>5. /\ Len(p) = Len(a) + 1 /\ DOMAIN p = 1..(Len(a) + 1) /\ p \in Seq(0..(e+1))
          /\ \A l \in 1..Len(a) : p[l] = a[l] /\ p[Len(a) + 1] = e + 1
          /\ p[Len(a) + 1] = e + 1
      BY <3>2, <3>4
    <3>6. \A l \in DOMAIN p : l \in DOMAIN a \/ l = Len(a) + 1
      BY <3>4, <3>5
    <3>7. \A l \in DOMAIN a : p[l] = a[l] /\ p[l] # e + 1
      BY <3>4, <3>5
    <3>8. \A l, m \in DOMAIN p : p[l] = p[m] => l = m
      BY <3>3, <3>5, <3>6, <3>7
    <3>9. p # <<>>  BY <3>5
    <3>10. \A l \in DOMAIN p : p[l] = e + 1 \/ (l \in DOMAIN a /\ p[l] = a[l])
      BY <3>5, <3>6, <3>7
    <3>11. QED  BY <3>1, <3>5, <3>8, <3>9, <3>10 DEF a
  <2>2. CASE ~(append /\ Has(d, k))
    <3>1. p = <<e + 1>>  BY <2>2
    <3> HIDE DEF p
    <3>2. DOMAIN p = {1} /\ p[1] = e + 1  BY <3>1
    <3>3. QED  BY <1>1, <3>1, <3>2
  <2>3. QED  BY <2>1, <2>2
<1> HIDE DEF p, new
<1>5. [key |-> k, parts |-> p] \in Entries(e + 1)
  BY <1>1, <1>4 DEF Entries
(* Every entry is an old one of another artifact, or the new one.           *)
<1>6. /\ r \in Seq(Entries(e + 1)) /\ DOMAIN r = 1..Len(r) /\ Len(r) \in Nat
      /\ \A i \in DOMAIN r : \/ i \in DOMAIN d /\ r[i] = d[i] /\ d[i].key # k
                             \/ r[i] = [key |-> k, parts |-> p]
      /\ \A i, j \in DOMAIN r : r[i].key = k /\ r[j].key = k => i = j
  <2>1. CASE Has(d, k)
    <3>1. r = [i \in DOMAIN d |-> IF d[i].key = k THEN [key |-> k, parts |-> p] ELSE d[i]]
      BY <2>1 DEF Put
    <3> HIDE DEF r
    <3>2. r \in Seq(Entries(e + 1)) /\ DOMAIN r = DOMAIN d
      BY <3>1, <1>0, <1>5
    <3>3. \A i \in DOMAIN r : \/ i \in DOMAIN d /\ r[i] = d[i] /\ d[i].key # k
                              \/ d[i].key = k /\ r[i] = [key |-> k, parts |-> p]
      BY <3>1
    <3>4. \A i, j \in DOMAIN r : r[i].key = k /\ r[j].key = k => i = j
      BY <3>2, <3>3 DEF ArtifactsOK
    <3>5. QED  BY <3>2, <3>3, <3>4, <1>0
  <2>2. CASE ~Has(d, k)
    <3>1. r = Append(d, [key |-> k, parts |-> p])
      BY <2>2 DEF Put
    <3> HIDE DEF r
    <3>2. /\ r \in Seq(Entries(e + 1)) /\ DOMAIN r = 1..(Len(d) + 1) /\ Len(r) = Len(d) + 1
          /\ \A i \in 1..Len(d) : r[i] = d[i] /\ r[Len(d) + 1] = [key |-> k, parts |-> p]
          /\ r[Len(d) + 1] = [key |-> k, parts |-> p]
      BY <3>1, <1>0, <1>5
    <3>3. \A i \in DOMAIN r : \/ i \in DOMAIN d /\ r[i] = d[i] /\ d[i].key # k
                              \/ i = Len(d) + 1 /\ r[i] = [key |-> k, parts |-> p]
      <4>1. \A i \in DOMAIN r : i \in DOMAIN d \/ i = Len(d) + 1
        BY <3>2, <1>0
      <4>2. QED  BY <2>2, <3>2, <4>1, <1>0 DEF Has
    <3>4. \A i, j \in DOMAIN r : r[i].key = k /\ r[j].key = k => i = j
      BY <3>3
    <3>5. QED  BY <3>2, <3>3, <3>4, <1>0
  <2>3. QED  BY <2>1, <2>2
<1> HIDE DEF r
<1>7. \A i \in DOMAIN r : \/ i \in DOMAIN d /\ r[i].key = d[i].key /\ r[i].parts = d[i].parts /\ d[i].key # k
                          \/ r[i].key = k /\ r[i].parts = p
  BY <1>6
<1>8. \A i, j \in DOMAIN r : r[i].key = r[j].key => i = j
  BY <1>6, <1>7 DEF ArtifactsOK
<1>9. \A i \in DOMAIN r : r[i].parts # <<>>
  BY <1>4, <1>7 DEF ArtifactsOK
<1>10. \A i, j \in DOMAIN d : \A l \in DOMAIN d[i].parts, m \in DOMAIN d[j].parts :
          d[i].parts[l] = d[j].parts[m] => i = j /\ l = m
  BY <1>0 DEF ArtifactsOK, Apart, PartsOf
<1>11. ASSUME NEW i \in DOMAIN r, r[i].key # k, NEW j \in DOMAIN r, r[j].key = k,
              NEW l \in DOMAIN r[i].parts, NEW m \in DOMAIN r[j].parts
       PROVE  r[i].parts[l] # r[j].parts[m]
  <2>1. i \in DOMAIN d /\ r[i].parts = d[i].parts /\ d[i].key # k
    BY <1>7, <1>11
  <2>2. r[j].parts = p
    BY <1>7, <1>11
  <2>3. d[i].parts[l] # e + 1
    <3>1. d[i].parts \in Seq(0..e) /\ l \in DOMAIN d[i].parts  BY <1>2, <1>11, <2>1
    <3>2. d[i].parts[l] \in 0..e  BY <3>1
    <3>3. QED  BY <3>2
  <2>4. \A h \in DOMAIN d : d[h].key = k /\ m \in DOMAIN d[h].parts => d[i].parts[l] # d[h].parts[m]
    BY <1>10, <1>11, <2>1
  <2>5. QED  BY <1>4, <1>11, <2>1, <2>2, <2>3, <2>4
<1>12. ASSUME NEW i \in DOMAIN r, NEW j \in DOMAIN r,
              NEW l \in DOMAIN r[i].parts, NEW m \in DOMAIN r[j].parts,
              r[i].parts[l] = r[j].parts[m]
       PROVE  i = j /\ l = m
  <2>1. CASE r[i].key = k /\ r[j].key = k
    <3>1. i = j /\ r[i].parts = p  BY <2>1, <1>6, <1>7
    <3>2. QED  BY <3>1, <1>4, <1>12
  <2>2. CASE r[i].key # k /\ r[j].key # k
    BY <2>2, <1>7, <1>10, <1>12
  <2>3. QED  BY <2>1, <2>2, <1>11, <1>12
<1>13. Apart(PartsOf(r), Len(r))
  <2>1. DOMAIN r = 1..Len(r) /\ \A i \in DOMAIN r : PartsOf(r)[i] = r[i].parts
    BY <1>6 DEF PartsOf
  <2>2. QED  BY <2>1, <1>12 DEF Apart
<1>14. ArtifactsOK(r, e + 1)
  BY <1>6, <1>8, <1>9, <1>13 DEF ArtifactsOK
<1>15. QED  BY <1>14 DEF AfterArtifact, r, p, new

PartsInv == events \in Nat /\ ArtifactsOK(remote.artifacts, events)

LEMMA PartsStep == ReducedInv /\ PartsInv /\ [SenderNext]_senderVars => PartsInv'
<1> SUFFICES ASSUME ReducedInv, PartsInv, [SenderNext]_senderVars PROVE PartsInv'
  OBVIOUS
<1>0. events \in Nat /\ ArtifactsOK(remote.artifacts, events)
  BY DEF PartsInv
<1>1. CASE TaskEvent
  <2>0. PICK s \in State, m \in {0, events + 1}, a \in Artifact, grow \in BOOLEAN,
             id \in TaskId :
           remote' = [state |-> s, status |-> m, artifacts |->
                         IF grow THEN AfterArtifact(remote.artifacts, a, <<events + 1>>, TRUE)
                                 ELSE remote.artifacts]
    BY <1>1 DEF TaskEvent
  <2>1. remote'.artifacts = IF grow THEN AfterArtifact(remote.artifacts, a, <<events + 1>>, TRUE)
                                    ELSE remote.artifacts
    BY <2>0
  <2>2. events' = events + 1  BY <1>1 DEF TaskEvent, Arrives
  <2>3. ArtifactsOK(remote.artifacts, events + 1)  BY <1>0, EntriesGrow
  <2>4. ArtifactsOK(AfterArtifact(remote.artifacts, a, <<events + 1>>, TRUE), events + 1)
    BY <1>0, AfterArtifactOK
  <2>5. ArtifactsOK(remote'.artifacts, events')
    BY <2>1, <2>2, <2>3, <2>4
  <2>6. QED  BY <1>0, <2>2, <2>5 DEF PartsInv
<1>2. CASE MessageEvent \/ StatusEvent \/ EmptyEvent
  <2>1. events' = events + 1 /\ remote'.artifacts = remote.artifacts
    BY <1>2 DEF MessageEvent, StatusEvent, EmptyEvent, Arrives, ReducedInv
  <2>2. QED  BY <1>0, <2>1, EntriesGrow DEF PartsInv
<1>3. CASE ArtifactEvent
  <2>1. PICK a \in Artifact, append \in BOOLEAN :
           remote' = [remote EXCEPT !.artifacts = AfterArtifact(@, a, <<events + 1>>, append)]
    BY <1>3 DEF ArtifactEvent
  <2>2. remote'.artifacts = AfterArtifact(remote.artifacts, a, <<events + 1>>, append)
    BY <2>1 DEF ReducedInv
  <2>3. events' = events + 1  BY <1>3 DEF ArtifactEvent, Arrives
  <2>4. QED  BY <1>0, <2>2, <2>3, AfterArtifactOK DEF PartsInv
<1>4. CASE EndStream \/ BreakStream \/ UNCHANGED streamVars
  BY <1>0, <1>4 DEF EndStream, BreakStream, streamVars, PartsInv
<1>5. QED
  BY <1>1, <1>2, <1>3, <1>4, CallOrRest DEF StreamNext

LEMMA PartsInitially == SenderInit => PartsInv
<1> SUFFICES ASSUME SenderInit PROVE PartsInv
  OBVIOUS
<1> DEFINE first == [key |-> CHOOSE a \in Artifact : TRUE, parts |-> <<0>>]
<1>1. events = 0 /\ (remote.artifacts = <<>> \/ remote.artifacts = <<first>>)
  BY DEF SenderInit, StreamInit
<1>2. ArtifactsOK(<<>>, 0)
  BY DEF ArtifactsOK, Apart, PartsOf
<1>3. first \in Entries(0) /\ first.parts = <<0>>
  BY DEF Entries, Keys
<1> HIDE DEF first
<1>4. ArtifactsOK(<<first>>, 0)
  <2> DEFINE d == <<first>>
  <2>1. d \in Seq(Entries(0)) /\ DOMAIN d = {1} /\ Len(d) = 1 /\ 1..1 = {1} /\ d[1] = first
    BY <1>3
  <2> HIDE DEF d
  <2>2. DOMAIN d[1].parts = {1} /\ d[1].parts # <<>>
    <3>1. d[1].parts = <<0>>  BY <1>3, <2>1
    <3>2. QED  BY <3>1
  <2>3. Apart(PartsOf(d), Len(d))
    BY <2>1, <2>2 DEF Apart, PartsOf
  <2>4. ArtifactsOK(d, 0)
    BY <2>1, <2>2, <2>3 DEF ArtifactsOK
  <2>5. QED  BY <2>4 DEF d
<1>5. QED  BY <1>1, <1>2, <1>4 DEF PartsInv

(* No stream, however it repeats, replaces and appends, puts a part into    *)
(* the text of the result twice; and the result is the task's.              *)
THEOREM ResultsMirrorTheRemote == SenderSpec => []MirrorsRemote
<1>1. ReducedInv /\ PartsInv => MirrorsRemote
  <2> SUFFICES ASSUME ReducedInv, PartsInv, Joined PROVE
          SameAsRemote /\ (remote.artifacts # <<>> => IsInjective(Text(reduced)))
    BY DEF MirrorsRemote
  <2>1. SameAsRemote  BY DEF ReducedInv
  <2>2. ASSUME remote.artifacts # <<>> PROVE IsInjective(Text(reduced))
    <3> DEFINE d == remote.artifacts
    <3> DEFINE s == PartsOf(d)
    <3>1. d \in Seq(Entries(events)) /\ d # <<>>
          /\ (\A i \in DOMAIN d : d[i].parts # <<>>) /\ Apart(s, Len(d))
      BY <2>2 DEF PartsInv, ArtifactsOK
    <3>2. s \in Seq(Seq(0..events)) /\ Len(s) = Len(d) /\ s # <<>>
          /\ \A i \in DOMAIN s : s[i] # <<>>
      <4> HIDE DEF d
      <4>1. DOMAIN s = DOMAIN d /\ \A i \in DOMAIN d : s[i] = d[i].parts
        BY DEF PartsOf
      <4>2. \A i \in DOMAIN d : d[i].parts \in Seq(0..events)
        <5>1. \A i \in DOMAIN d : d[i] \in Entries(events)  BY <3>1
        <5>2. QED  BY <5>1 DEF Entries
      <4>3. s = [i \in 1..Len(d) |-> d[i].parts] /\ Len(d) \in Nat /\ DOMAIN d = 1..Len(d)
        BY <3>1 DEF PartsOf
      <4> HIDE DEF s
      <4>4. s \in Seq(Seq(0..events)) /\ Len(s) = Len(d)
        BY <4>2, <4>3
      <4>5. s # <<>>  BY <4>3, <4>4, <3>1
      <4>6. QED  BY <3>1, <4>1, <4>4, <4>5
    <3> HIDE DEF s
    <3>3. IsInjective(FlattenSeq(s)) /\ FlattenSeq(s) # <<>>
      BY <3>1, <3>2, FlattenApart, FlattenNonEmpty
    <3>4. Text(reduced) = IF FlattenSeq(s) # <<>> THEN FlattenSeq(s) ELSE reduced.text
      BY <2>1 DEF Text, SameAsRemote, s, PartsOf
    <3>5. QED  BY <3>3, <3>4
  <2>3. QED  BY <2>1, <2>2
<1>2. QED  BY <1>1, ReducedInvariant, PartsInitially, PartsStep, PTL DEF SenderSpec

-----------------------------------------------------------------------------
(* Authorizations.                                                         *)

CallInv == CallTypeOK /\ ReturnsOwnTask

(* A judged answer is final only if it is about the task validated first.  *)
LEMMA JudgeStep ==
    ASSUME CallTypeOK, NEW a \in AnswerType, Judge(a), UNCHANGED expired
    PROVE  CallInv'
<1> USE StreamAssumption
<1>1. answer' = a /\ a.task \in TaskId \cup {NoTask}
  BY DEF Judge, AnswerType
<1>2. CASE ~Valid(a, task_id)
  BY <1>1, <1>2 DEF Judge, CallTypeOK, CallInv, ReturnsOwnTask
<1>3. CASE Valid(a, task_id)
  <2>1. task_id' = IF task_id = NoTask
                     THEN (IF a.task = NoTask THEN task_id ELSE a.task) ELSE task_id
    BY <1>3 DEF Judge
  <2>2. call' \in {"returned", "raised", "sleeping"}
        /\ (call' = "returned" => a.state \notin Pending)
    BY <1>3 DEF Judge
  <2>3. a.task # NoTask => a.sameContext /\ task_id' = a.task
    BY <1>3, <2>1 DEF Valid
  <2>4. task_id' \in TaskId \cup {NoTask}
    BY <1>1, <2>1 DEF CallTypeOK
  <2>5. QED
    BY <1>1, <2>2, <2>3, <2>4 DEF CallTypeOK, CallInv, ReturnsOwnTask
<1>4. QED  BY <1>2, <1>3

LEMMA CallStep == ReducedInv /\ CallInv /\ [SenderNext]_senderVars => CallInv'
<1> SUFFICES ASSUME ReducedInv, CallInv, [SenderNext]_senderVars PROVE CallInv'
  OBVIOUS
<1>0. CallTypeOK  BY DEF CallInv
<1>1. CASE Send \/ Wake \/ GiveUp \/ PassDeadline
  BY <1>1 DEF Send, Wake, GiveUp, PassDeadline, CallInv, CallTypeOK,
              ReturnsOwnTask
<1>2. CASE StreamOver
  <2>1. ASSUME NEW same \in BOOLEAN
        PROVE  [task |-> reduced.task, sameContext |-> same, state |-> reduced.state]
                  \in AnswerType
    BY DEF ReducedInv, AnswerType
  <2>2. CASE stream = "ended"
    BY <1>0, <1>2, <2>1, <2>2, JudgeStep DEF StreamOver
  <2>3. CASE stream # "ended"
    BY <1>2, <2>3 DEF StreamOver, CallInv, CallTypeOK, ReturnsOwnTask
  <2>4. QED  BY <2>2, <2>3
<1>3. CASE Polled
  <2>1. CASE \E a \in AnswerType : a.task # NoTask /\ Judge(a)
    BY <1>0, <1>3, <2>1, JudgeStep DEF Polled
  <2>2. CASE call' = "raised" /\ UNCHANGED <<answer, task_id>>
    BY <1>3, <2>2 DEF Polled, CallInv, CallTypeOK, ReturnsOwnTask
  <2>3. QED  BY <1>3, <2>1, <2>2 DEF Polled
<1>4. CASE ReadStream \/ UNCHANGED callVars
  BY <1>4 DEF ReadStream, callVars, CallInv, CallTypeOK, ReturnsOwnTask
<1>5. QED
  BY <1>1, <1>2, <1>3, <1>4, CallOrRest DEF CallNext

LEMMA CallInvariant == SenderSpec => []CallInv
<1>1. ASSUME SenderInit PROVE CallInv
  <2>1. call = "new" /\ task_id = NoTask /\ expired = FALSE
        /\ answer = [task |-> NoTask, sameContext |-> TRUE, state |-> ""]
    BY <1>1 DEF SenderInit, CallInit
  <2>2. answer \in AnswerType  BY <2>1 DEF AnswerType
  <2>3. QED  BY <2>1, <2>2 DEF CallInv, CallTypeOK, ReturnsOwnTask
<1>2. QED  BY <1>1, CallStep, ReducedInvariant, PTL DEF SenderSpec

(* Every variable of an authorization keeps to its range.                  *)
THEOREM CallTypeCorrect == SenderSpec => []CallTypeOK
<1>1. CallInv => CallTypeOK  BY DEF CallInv
<1>2. QED  BY <1>1, CallInvariant, PTL

(* Whatever tasks the stream and any number of polls name, an authorization *)
(* returns a final answer about the task it validated first.               *)
THEOREM AnswersAreOfTheOwnTask == SenderSpec => []ReturnsOwnTask
<1>1. CallInv => ReturnsOwnTask  BY DEF CallInv
<1>2. QED  BY <1>1, CallInvariant, PTL
=============================================================================
