--------------------------- MODULE PeriodicWakeup ---------------------------
(***************************************************************************)
(* The single-flight guard of one coalesced Celery Beat schedule           *)
(* (common/scheduling/periodic_wakeup.py, common/scheduling/scheduler.py). *)
(*                                                                         *)
(* Beat takes a short publish claim in Redis, publishes a message stamped  *)
(* with the claim's token, and promotes the claim to a queue lease that    *)
(* every later tick renews.  The worker turns the lease into an execution  *)
(* lease when the message starts, and releases it when the message ends.   *)
(* All Redis scripts compare the token.  A lease is a cache of "there is a *)
(* message": every operation on it may fail, and the program then goes on. *)
(*                                                                         *)
(* Tokens are recycled when nothing refers to them any more, so that the   *)
(* schedule runs for ever in a finite state space.  A message published    *)
(* without a token (the guard could not be asked) is one whose token is    *)
(* never written to Redis: every script compares it and does nothing.      *)
(***************************************************************************)
EXTENDS FiniteSets

CONSTANTS Beats,        \* Beat processes that share the schedule
          Tokens,       \* claim tokens (deadline and random part)
          NoToken,      \* "no token"
          WorkersDie,   \* TRUE if a worker may die while it runs a message
          RedisFails    \* TRUE if an operation on the guard may fail

ASSUME TokenAssumption == NoToken \notin Tokens
ASSUME FaultAssumption == WorkersDie \in BOOLEAN /\ RedisFails \in BOOLEAN

VARIABLES
  key,       \* the Redis value: its phase and its token
  aged,      \* TRUE if the key's time to live may elapse before the next tick
  late,      \* tokens whose absolute queue deadline has passed
  beat,      \* what each Beat process does, with the token it publishes
  queue,     \* tokens of the messages that wait in the broker
  running,   \* tokens of the messages that a worker executes
  retrying,  \* tokens whose execution has published its retry, before postrun
  unmarked,  \* running tokens whose prerun did not take the execution lease
  unacked,   \* tokens of dead workers' messages, which the broker redelivers
  orphaned   \* history: tokens whose lease was lost or left behind by a fault

guard == <<key, aged>>
messages == <<queue, running, retrying, unmarked, unacked>>
vars == <<key, aged, late, beat, messages, orphaned>>

Phases == {"claiming", "queued", "running"}
NoLease == [phase |-> "none", token |-> NoToken]
Lease(phase, t) == [phase |-> phase, token |-> t]
Idle == [at |-> "idle", token |-> NoToken]
At(label, t) == [at |-> label, token |-> t]

InFlight == queue \cup running
Held == {beat[b].token : b \in Beats}
Publishing == {beat[b].token : b \in {c \in Beats : beat[c].at \in {"claimed", "bare"}}}
Fresh == Tokens \ (InFlight \cup retrying \cup unacked \cup Held \cup {key.token})

TypeOK ==
  /\ key \in {NoLease} \cup [phase : Phases, token : Tokens]
  /\ aged \in BOOLEAN
  /\ late \subseteq Tokens
  /\ beat \in [Beats -> {Idle} \cup [at : {"claimed", "bare", "sent"}, token : Tokens]]
  /\ queue \subseteq Tokens /\ running \subseteq Tokens /\ retrying \subseteq Tokens
  /\ unmarked \subseteq Tokens /\ unacked \subseteq Tokens /\ orphaned \subseteq Tokens

Init ==
  /\ key = NoLease /\ aged = FALSE /\ late = {}
  /\ beat = [b \in Beats |-> Idle]
  /\ queue = {} /\ running = {} /\ retrying = {}
  /\ unmarked = {} /\ unacked = {} /\ orphaned = {}

(***************************************************************************)
(* The scripts.  Each is one Redis command or one Lua script, hence atomic.*)
(***************************************************************************)
SetKey(phase, t) == key' = Lease(phase, t) /\ aged' = FALSE
DelKey == key' = NoLease /\ aged' = FALSE

\* Mutant: the claim overwrites the lease that is there.
ClaimLeaseAnyway(t) == SetKey("claiming", t)

\* claim: SET NX with the short claim time to live.
ClaimLease(t) == key = NoLease /\ SetKey("claiming", t)

\* Mutant: queued work is renewed after its deadline too.
RenewLeaseAlways ==
  /\ key # NoLease
  /\ aged' = (aged /\ key.phase # "queued")
  /\ UNCHANGED key

\* claim, when the key is taken: renew queued work up to its deadline.
RenewLease ==
  /\ key # NoLease
  /\ aged' = IF key.phase = "queued" /\ key.token \notin late THEN FALSE ELSE aged
  /\ UNCHANGED key

\* promote: only the claim that is still there, and only before the deadline.
PromoteLease(t) ==
  IF key = Lease("claiming", t) /\ t \notin late THEN SetKey("queued", t)
                                                  ELSE UNCHANGED guard

\* prerun: a claim may be consumed before its publisher promotes it.
CanMark(t) == key \in {Lease("claiming", t), Lease("queued", t)}
MarkRunning(t) == IF CanMark(t) THEN SetKey("running", t) ELSE UNCHANGED guard

\* postrun of a retry: back to the queue, or away when the deadline has passed.
RequeueLease(t) ==
  IF key \notin {Lease("running", t), Lease("queued", t)} THEN UNCHANGED guard
  ELSE IF t \in late THEN DelKey ELSE SetKey("queued", t)

\* Mutant: the release does not compare the token.
ReleaseLeaseUnfenced(t) == DelKey

\* postrun, revoke and failed publication: only the owner deletes.
ReleaseLease(t) == IF key.token = t THEN DelKey ELSE UNCHANGED guard

\* A script that fails: not executed.  The caller logs it and goes on.
ScriptFails == RedisFails /\ UNCHANGED guard

\* A token loses its guard while something still relies on it.
Orphan(t) == orphaned' = orphaned \cup {t}

(***************************************************************************)
(* Beat: CoalescingDatabaseScheduler.apply_async                           *)
(***************************************************************************)
Claim(b, t) ==
  /\ beat[b] = Idle /\ t \in Fresh
  /\ ClaimLease(t)
  /\ beat' = [beat EXCEPT ![b] = At("claimed", t)]
  /\ late' = late \ {t} /\ orphaned' = orphaned \ {t}
  /\ UNCHANGED messages

\* The key is taken: this tick is coalesced.
Coalesce(b) ==
  /\ beat[b] = Idle
  /\ RenewLease
  /\ UNCHANGED <<late, beat, messages, orphaned>>

\* The guard cannot be asked: publish without it.  The reply may also be lost
\* after the claim was written, which leaves a claim nobody promotes.
ClaimUnavailable(b, t) ==
  /\ RedisFails /\ beat[b] = Idle /\ t \in Fresh
  /\ beat' = [beat EXCEPT ![b] = At("bare", t)]
  /\ \/ UNCHANGED guard /\ orphaned' = orphaned \cup {t}
     \/ \E lost \in Fresh \ {t} :
          /\ ClaimLease(lost)
          /\ orphaned' = orphaned \cup {t, lost}
  /\ late' = late \ {t}
  /\ UNCHANGED messages

\* Mutant: the entry is reset before its token is used.
PublishAfterReset(b) ==
  /\ beat[b].at \in {"claimed", "bare"}
  /\ beat' = [beat EXCEPT ![b] = IF @.at = "claimed" THEN At("sent", @.token) ELSE Idle]
  /\ queue' = queue \cup {IF beat'[b] = Idle THEN Idle.token ELSE beat'[b].token}
  /\ UNCHANGED <<guard, late, running, retrying, unmarked, unacked, orphaned>>

Publish(b) ==
  LET t == beat[b].token IN
  /\ beat[b].at \in {"claimed", "bare"}
  /\ queue' = queue \cup {t}
  /\ beat' = [beat EXCEPT ![b] = IF @.at = "claimed" THEN At("sent", t) ELSE Idle]
  /\ UNCHANGED <<guard, late, running, retrying, unmarked, unacked, orphaned>>

\* apply_async raises.  The broker may have taken the message all the same.
PublishFails(b) ==
  LET t == beat[b].token IN
  /\ beat[b].at \in {"claimed", "bare"}
  /\ \/ UNCHANGED <<queue, orphaned>>
     \/ RedisFails /\ queue' = queue \cup {t} /\ Orphan(t)
  /\ IF beat[b].at = "claimed" THEN ReleaseLease(t) \/ ScriptFails ELSE UNCHANGED guard
  /\ beat' = [beat EXCEPT ![b] = Idle]
  /\ UNCHANGED <<late, running, retrying, unmarked, unacked>>

Promote(b) ==
  /\ beat[b].at = "sent"
  /\ PromoteLease(beat[b].token) \/ ScriptFails
  /\ beat' = [beat EXCEPT ![b] = Idle]
  /\ UNCHANGED <<late, messages, orphaned>>

BeatDies(b) ==
  /\ WorkersDie /\ beat[b] # Idle
  /\ beat' = [beat EXCEPT ![b] = Idle]
  /\ UNCHANGED <<guard, late, messages, orphaned>>

(***************************************************************************)
(* The worker: prerun, body, postrun                                       *)
(***************************************************************************)
Start(t) ==
  /\ t \in queue
  /\ queue' = queue \ {t} /\ running' = running \cup {t}
  /\ \/ MarkRunning(t) /\ unmarked' = IF CanMark(t) THEN unmarked ELSE unmarked \cup {t}
     \/ ScriptFails /\ unmarked' = unmarked \cup {t}
  /\ UNCHANGED <<late, beat, retrying, unacked, orphaned>>

Finish(t) ==
  /\ t \in running
  /\ running' = running \ {t} /\ unmarked' = unmarked \ {t}
  /\ ReleaseLease(t) \/ ScriptFails
  /\ UNCHANGED <<late, beat, queue, retrying, unacked, orphaned>>

\* The body raises Retry: the retry is published, with the same stamps, before
\* the postrun signal.  One retry at a time is pending for a token.
Retry(t) ==
  /\ t \in running /\ t \notin retrying /\ t \notin queue
  /\ running' = running \ {t} /\ unmarked' = unmarked \ {t}
  /\ retrying' = retrying \cup {t} /\ queue' = queue \cup {t}
  /\ UNCHANGED <<guard, late, beat, unacked, orphaned>>

Requeue(t) ==
  /\ t \in retrying
  /\ retrying' = retrying \ {t}
  /\ RequeueLease(t) \/ ScriptFails
  /\ UNCHANGED <<late, beat, queue, running, unmarked, unacked, orphaned>>

\* A message that expired in the queue is revoked when a worker receives it.
Revoke(t) ==
  /\ t \in queue
  /\ queue' = queue \ {t}
  /\ ReleaseLease(t) \/ ScriptFails
  /\ UNCHANGED <<late, beat, running, retrying, unmarked, unacked, orphaned>>

\* The process dies or is killed at the hard time limit.  The broker keeps an
\* unacknowledged message (acks_late) for the visibility timeout, or drops it
\* when the pool acknowledges the loss.
WorkerDies(t) ==
  /\ WorkersDie /\ t \in running \cup retrying
  /\ IF t \in running
       THEN running' = running \ {t} /\ unmarked' = unmarked \ {t} /\ UNCHANGED retrying
       ELSE retrying' = retrying \ {t} /\ UNCHANGED <<running, unmarked>>
  /\ unacked' \in {unacked, unacked \cup {t}}
  /\ Orphan(t)
  /\ UNCHANGED <<guard, late, beat, queue>>

\* Hours later, when an execution lease and a retry of the message are over.
Redeliver(t) ==
  /\ t \in unacked /\ key # Lease("running", t) /\ t \notin InFlight \cup retrying
  /\ unacked' = unacked \ {t} /\ queue' = queue \cup {t}
  /\ UNCHANGED <<guard, late, beat, running, retrying, unmarked, orphaned>>

(***************************************************************************)
(* Time                                                                    *)
(***************************************************************************)
DeadlinePasses(t) ==
  /\ t \in (InFlight \cup Held \cup {key.token}) \ (late \cup {NoToken})
  /\ late' = late \cup {t}
  /\ aged' = (aged \/ key = Lease("queued", t))   \* the lease ends with its deadline
  /\ UNCHANGED <<key, beat, messages, orphaned>>

Age ==
  /\ key # NoLease /\ ~aged
  /\ aged' = TRUE
  /\ UNCHANGED <<key, late, beat, messages, orphaned>>

\* The key's time to live elapses.  The execution lease outlasts the hard time
\* limit, so it cannot elapse under the execution that took it.
Expire ==
  /\ key # NoLease
  /\ CASE key.phase = "claiming" -> TRUE
       [] key.phase = "queued" -> aged
       [] key.phase = "running" ->
            key.token \notin retrying /\ key.token \notin running \ unmarked
  /\ DelKey
  /\ Orphan(key.token)
  /\ UNCHANGED <<late, beat, messages>>

BeatStep(b) ==
  \/ \E t \in Tokens : Claim(b, t) \/ ClaimUnavailable(b, t)
  \/ Coalesce(b) \/ Publish(b) \/ PublishFails(b) \/ Promote(b) \/ BeatDies(b)
WorkerStep(t) ==
  \/ Start(t) \/ Finish(t) \/ Retry(t) \/ Requeue(t) \/ Revoke(t)
  \/ WorkerDies(t) \/ Redeliver(t)

Next ==
  \/ \E b \in Beats : BeatStep(b)
  \/ \E t \in Tokens : WorkerStep(t) \/ DeadlinePasses(t)
  \/ Age \/ Expire

Spec == Init /\ [][Next]_vars

(***************************************************************************)
(* Fairness: messages are consumed and end (the hard time limit ends those *)
(* that do not), time passes, and a time to live that nobody extends       *)
(* elapses however often the guard changes in between.                     *)
(***************************************************************************)
FairSpec ==
  /\ Spec
  /\ \A t \in Tokens :
       /\ WF_vars(Start(t)) /\ SF_vars(Requeue(t))
       /\ WF_vars(t \in running /\ (Finish(t) \/ Retry(t) \/ WorkerDies(t)))
       /\ WF_vars(DeadlinePasses(t))
  /\ SF_vars(Expire)

(***************************************************************************)
(* Properties                                                              *)
(***************************************************************************)
\* A token that is neither orphaned nor late is protected by the guard.
Guarded == Tokens \ (orphaned \cup late)

\* Single flight: of the wake-ups that are being published, wait or run,
\* at most one is guarded; each of the others lost its guard to a fault or to
\* the queue deadline.  (periodic_wakeup.py:139-142 promises at most one later
\* duplicate for a failed promotion.)
SingleFlight ==
  \A t, u \in (InFlight \cup Publishing) \cap Guarded : t = u

\* A wake-up that is still in flight keeps its lease against everybody else: a
\* stale delivery, a publisher that comes too late or a second Beat never
\* replaces or deletes it.  Only the end of its time to live may.
LeaseKeptWhileInFlight ==
  [][ key # NoLease /\ key'.token # key.token
        => \/ key.token \notin InFlight' \cup Publishing'
           \/ key.token \in orphaned' \cup late ]_vars

\* No permanent suppression: whatever was lost, every lease comes to an end, so
\* that a later tick publishes again.
EveryLeaseEnds == \A t \in Tokens : key.token = t ~> key.token # t
=============================================================================
