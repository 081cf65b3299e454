---------------------------- MODULE StreamReducer ----------------------------
(***************************************************************************)
(* client/a2a_transport.py: how consume_stream and subscribe_to_task       *)
(* reduce the events of a response stream to one result, event by event.   *)
(* Beside the reduction stands the task at the remote whose history the    *)
(* events tell, as snapshots, updates or both.                             *)
(*                                                                         *)
(* Abstracted: a part is the number of the event that brought it; metadata, *)
(* names and descriptions, which are merged like parts, and intermediate    *)
(* events are left out.                                                    *)
(***************************************************************************)
EXTENDS Naturals, Sequences, SequencesExt

CONSTANTS
    Artifact,       \* artifact ids
    TaskId,         \* task ids the remote may name
    NoTask,         \* no task
    MaxEvents       \* bound on the events of a stream

ASSUME StreamAssumption == NoTask \notin TaskId /\ MaxEvents \in Nat

VARIABLES
    method,     \* "consume" or "subscribe"; never changes
    reduced,    \* what the events amount to so far
    remote,     \* the state, status message and artifacts of the task itself
    events,     \* events read
    stream      \* "open", then how it ended

streamVars == <<method, reduced, remote, events, stream>>

(* WORKING stands for SUBMITTED too, FAILED for CANCELED and REJECTED.      *)
State == {"WORKING", "COMPLETED", "FAILED"}

-----------------------------------------------------------------------------
(* Dictionaries keep the order of their first insertions.                  *)
Has(d, k) == \E i \in DOMAIN d : d[i].key = k

Lookup(d, k) == d[CHOOSE i \in DOMAIN d : d[i].key = k].parts

Put(d, k, p) ==
    IF Has(d, k)
      THEN [i \in DOMAIN d |-> IF d[i].key = k THEN [key |-> k, parts |-> p] ELSE d[i]]
      ELSE Append(d, [key |-> k, parts |-> p])

(* An artifact_update: with append its parts follow those known.            *)
AfterArtifact(d, k, p, append) ==
    Put(d, k, IF append /\ Has(d, k) THEN Lookup(d, k) \o p ELSE p)

(* Mutant: the parts of a snapshot are added to those known. *)
AfterTaskAccumulating(r, id, s, m, d) ==
    [r EXCEPT !.task = id,
              !.state = IF s = "" /\ method = "consume" THEN @ ELSE s,
              !.status = m,
              !.artifacts = [i \in DOMAIN d |->
                  [d[i] EXCEPT !.parts = IF Has(r.artifacts, d[i].key)
                      THEN Lookup(r.artifacts, d[i].key) \o @ ELSE @]]]

(* A task snapshot replaces what is known.  Only consume_stream keeps the   *)
(* state when the snapshot has none.                                       *)
AfterTask(r, id, s, m, d) ==
    [r EXCEPT !.task = id,
              !.state = IF s = "" /\ method = "consume" THEN @ ELSE s,
              !.status = m, !.artifacts = d]

AfterStatus(r, s, m) ==
    [r EXCEPT !.state = IF s = "" THEN @ ELSE s, !.status = m]

(* Text adds up; consume_stream keeps one message per id.                   *)
AfterMessage(r, k, p) ==
    [r EXCEPT !.text = @ \o p,
              !.messages = IF method = "consume" THEN Put(@, k, p)
                           ELSE Append(@, [key |-> k, parts |-> p])]

(* The text of the result is that of the artifacts, or of the messages.     *)
Text(r) ==
    LET parts == FlattenSeq([i \in DOMAIN r.artifacts |-> r.artifacts[i].parts])
    IN IF parts # <<>> THEN parts ELSE r.text

-----------------------------------------------------------------------------
StreamInit ==
    /\ method \in {"consume", "subscribe"}
    /\ reduced = [task |-> NoTask, state |-> "", status |-> 0, artifacts |-> <<>>,
                  messages |-> <<>>, text |-> <<>>]
    /\ remote = [state |-> "", status |-> 0, artifacts |->
                   IF method = "consume" THEN <<>>
                   ELSE <<[key |-> CHOOSE a \in Artifact : TRUE, parts |-> <<0>>]>>]
    /\ events = 0 /\ stream = "open"

Arrives ==
    /\ stream = "open" /\ events < MaxEvents
    /\ events' = events + 1
    /\ UNCHANGED <<method, stream>>

(* A stream that joins a task begins with its snapshot.                    *)
Joined == method = "consume" \/ reduced.task # NoTask

(* The remote may leave out a state that has not changed; not in a snapshot *)
(* to a subscriber.                                                        *)
Said(s) == IF s = remote.state /\ s # "" THEN {s, ""} ELSE {s}

(* The task goes on, and its snapshot is sent.                             *)
TaskEvent ==
    /\ Arrives
    /\ \E s \in State, m \in {0, events + 1}, a \in Artifact, grow \in BOOLEAN, id \in TaskId :
         /\ remote' = [state |-> s, status |-> m, artifacts |->
                         IF grow THEN AfterArtifact(remote.artifacts, a, <<events + 1>>, TRUE)
                                 ELSE remote.artifacts]
         /\ \E said \in (IF method = "consume" THEN Said(s) ELSE {s}) :
              reduced' = AfterTask(reduced, id, said, m, remote'.artifacts)

MessageEvent ==
    /\ Arrives /\ Joined
    /\ \E k \in {1, events + 1} : reduced' = AfterMessage(reduced, k, <<events + 1>>)
    /\ UNCHANGED remote

StatusEvent ==
    /\ Arrives /\ Joined
    /\ \E s \in State, m \in {0, events + 1} :
         /\ remote' = [remote EXCEPT !.state = s, !.status = m]
         /\ \E said \in Said(s) : reduced' = AfterStatus(reduced, said, m)

ArtifactEvent ==
    /\ Arrives /\ Joined
    /\ \E a \in Artifact, append \in BOOLEAN :
         /\ remote' = [remote EXCEPT
                         !.artifacts = AfterArtifact(@, a, <<events + 1>>, append)]
         /\ reduced' = [reduced EXCEPT
                         !.artifacts = AfterArtifact(@, a, <<events + 1>>, append)]

(* An event without a payload is an error to consume_stream alone.          *)
EmptyEvent ==
    /\ stream = "open" /\ events < MaxEvents
    /\ events' = events + 1
    /\ stream' = IF method = "consume" THEN "empty" ELSE "open"
    /\ UNCHANGED <<method, reduced, remote>>

(* So is a stream without any event.                                       *)
EndStream ==
    /\ stream = "open"
    /\ stream' = IF method = "consume" /\ events = 0 THEN "empty" ELSE "ended"
    /\ UNCHANGED <<method, reduced, remote, events>>

BreakStream ==
    /\ stream = "open" /\ stream' = "broken"
    /\ UNCHANGED <<method, reduced, remote, events>>

StreamNext ==
    \/ TaskEvent \/ MessageEvent \/ StatusEvent \/ ArtifactEvent \/ EmptyEvent
    \/ EndStream \/ BreakStream

-----------------------------------------------------------------------------
(* State, status message and artifacts are those of the task itself.        *)
SameAsRemote ==
    /\ reduced.state = remote.state /\ reduced.status = remote.status
    /\ reduced.artifacts = remote.artifacts

(***************************************************************************)
(* However the remote mixes snapshots and updates, state, status message   *)
(* and artifacts of the result are those of the task itself: nothing is    *)
(* missing or stale, and no part is in the text twice.                     *)
(***************************************************************************)
MirrorsRemote ==
    Joined =>
        /\ SameAsRemote
        /\ remote.artifacts # <<>> => IsInjective(Text(reduced))
=============================================================================
