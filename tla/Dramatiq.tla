------------------------------ MODULE Dramatiq ------------------------------
(***************************************************************************)
(* The message broker the workers run on: Dramatiq over Redis, as          *)
(* apps/workers/main.py configures it and as the agents use it.            *)
(*                                                                         *)
(* Dramatiq itself is a library.  What the code relies on is modelled:     *)
(* queues are unordered bags (several processes and threads drain them),   *)
(* a message stays owned by its worker until the actor returns, an actor   *)
(* that raises has its message retried up to MaxRetries times and then     *)
(* dead-lettered, and the message of a worker that dies is put back.       *)
(***************************************************************************)
EXTENDS Naturals

CONSTANTS
    Ops,         \* operation ids
    NoneId,      \* the payload string "None", which is no operation's id
    MaxRetries   \* Retries(max_retries=...), 3 in the deployed configuration

ASSUME DramatiqAssumption ==
    /\ NoneId \notin Ops
    /\ MaxRetries \in Nat

VARIABLES
    queue,       \* [Message -> Nat]: messages waiting in Redis
    dead         \* messages dead-lettered so far; Redis keeps each for the
                 \* seven days of dead_message_ttl

Stages == {"scan", "sanitize", "audit", "rescan", "review"}

Message == [stage : Stages, op : Ops \cup {NoneId}, tries : 0 .. MaxRetries]

\* What actor.send(operation_id) creates.
Fresh(s, o) == [stage |-> s, op |-> o, tries |-> 0]

\* The bag q with one more, or one less, copy of m.
With(q, m)    == [q EXCEPT ![m] = @ + 1]
Without(q, m) == [q EXCEPT ![m] = @ - 1]

Exhausted(m) == m.tries = MaxRetries

NextTry(m) == [m EXCEPT !.tries = @ + 1]

(***************************************************************************)
(* An actor raised while it owned m; q is the queue without m.  The        *)
(* Retries middleware re-enqueues m until its retries are used up.         *)
(***************************************************************************)
Raise(q, m) ==
    IF Exhausted(m)
    THEN /\ queue' = q
         /\ dead' = dead \cup {m}
    ELSE /\ queue' = With(q, NextTry(m))
         /\ dead' = dead

DramatiqTypeOK ==
    /\ queue \in [Message -> Nat]
    /\ dead \subseteq Message

DramatiqInit ==
    /\ queue = [m \in Message |-> 0]
    /\ dead = {}
=============================================================================
