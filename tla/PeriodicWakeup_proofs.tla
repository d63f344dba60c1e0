------------------------ MODULE PeriodicWakeup_proofs ------------------------
(***************************************************************************)
(* Theorems about PeriodicWakeup for every set of Beat processes and every *)
(* set of tokens, with every fault the module knows.                       *)
(***************************************************************************)
EXTENDS PeriodicWakeup, TLAPS

-----------------------------------------------------------------------------
(* The inductive invariant                                                 *)

\* A message waits or runs, not both.
QueueApart == queue \cap running = {}

\* Two Beat processes never hold the same token.
HeldOnce ==
  \A b, c \in Beats : beat[b] # Idle /\ beat[b].token = beat[c].token => b = c

\* A token that is still to be published has no message yet; a message
\* published without asking the guard is not guarded.
PublishingIsNew ==
  \A b \in Beats : beat[b].at \in {"claimed", "bare"} =>
     /\ beat[b].token \notin InFlight \cup retrying \cup unacked
     /\ beat[b].at = "bare" => beat[b].token \in orphaned

\* Messages of dead workers lost their guard.
UnackedOrphaned == unacked \subseteq orphaned

\* A guarded token that is in flight or about to be owns the lease.
GuardHolds == \A t \in (InFlight \cup Publishing) \cap Guarded : key.token = t

IInv == TypeOK /\ QueueApart /\ HeldOnce /\ PublishingIsNew /\ UnackedOrphaned /\ GuardHolds

-----------------------------------------------------------------------------
(* The scripts                                                             *)

(* Every script of a token leaves a well-typed key, and changes it only    *)
(* into another lease of this token, or deletes a lease of this token.     *)
LEMMA ScriptsOfToken ==
    ASSUME TypeOK, NEW t \in Tokens,
           \/ PromoteLease(t) \/ MarkRunning(t) \/ RequeueLease(t)
           \/ ReleaseLease(t) \/ ScriptFails
    PROVE  /\ key' \in {NoLease} \cup [phase : Phases, token : Tokens]
           /\ aged' \in BOOLEAN
           /\ key'.token # key.token => key.token = t
<1>1. CASE UNCHANGED guard
    BY <1>1 DEF TypeOK, guard
<1>2. CASE DelKey /\ key.token = t
    BY <1>2 DEF DelKey, TypeOK
<1>3. ASSUME NEW phase \in Phases, SetKey(phase, t), key.token = t
      PROVE  /\ key' \in [phase : Phases, token : Tokens] /\ aged' = FALSE
             /\ key'.token = t
    BY <1>3 DEF SetKey, Lease
<1>4. \/ UNCHANGED guard \/ (DelKey /\ key.token = t)
      \/ \E phase \in Phases : SetKey(phase, t) /\ key.token = t
    BY DEF PromoteLease, MarkRunning, RequeueLease, ReleaseLease, ScriptFails, CanMark,
           Lease, Phases
<1> QED BY <1>1, <1>2, <1>3, <1>4

(* Promotion, marking and a requeue in time keep the owner of the lease.   *)
LEMMA ScriptsKeepOwner ==
    ASSUME TypeOK, NEW t \in Tokens,
           \/ PromoteLease(t) \/ MarkRunning(t) \/ ScriptFails
           \/ RequeueLease(t) /\ t \notin late
    PROVE  key'.token = key.token
BY DEF TypeOK, PromoteLease, MarkRunning, RequeueLease, ScriptFails, SetKey, CanMark,
       Lease, guard

-----------------------------------------------------------------------------
(* The invariant holds initially and is preserved                          *)

LEMMA InitInv == Init => IInv
<1> SUFFICES ASSUME Init PROVE IInv
    OBVIOUS
<1>1. TypeOK
    BY DEF Init, TypeOK
<1>2. QueueApart /\ HeldOnce /\ PublishingIsNew /\ UnackedOrphaned
    BY DEF Init, QueueApart, HeldOnce, PublishingIsNew, UnackedOrphaned, Idle
<1>3. InFlight = {} /\ Publishing = {}
    BY DEF Init, InFlight, Publishing, Idle
<1> QED BY <1>1, <1>2, <1>3 DEF IInv, GuardHolds

(* Taking a claim: the key was free, so nothing guarded was in flight.     *)
LEMMA ClaimInv ==
    ASSUME IInv, NEW b \in Beats, NEW t \in Tokens, Claim(b, t)
    PROVE  IInv'
<1> USE DEF IInv
<1>1. beat' = [beat EXCEPT ![b] = At("claimed", t)] /\ key' = Lease("claiming", t)
      /\ key = NoLease /\ aged' = FALSE
    BY DEF Claim, ClaimLease, SetKey
<1>2. TypeOK'
    <2>1. At("claimed", t) \in [at : {"claimed", "bare", "sent"}, token : Tokens]
          /\ Lease("claiming", t) \in [phase : Phases, token : Tokens]
        BY DEF At, Lease, Phases
    <2>2. late' \subseteq Tokens /\ orphaned' \subseteq Tokens /\ UNCHANGED messages
        BY DEF TypeOK, Claim
    <2>3. /\ queue' \subseteq Tokens /\ running' \subseteq Tokens /\ retrying' \subseteq Tokens
          /\ unmarked' \subseteq Tokens /\ unacked' \subseteq Tokens
        BY <2>2 DEF TypeOK, messages
    <2>4. beat' \in [Beats -> {Idle} \cup [at : {"claimed", "bare", "sent"}, token : Tokens]]
        BY <1>1, <2>1 DEF TypeOK
    <2> QED BY <1>1, <2>1, <2>2, <2>3, <2>4 DEF TypeOK
<1>3. QueueApart' /\ UnackedOrphaned'
    BY DEF QueueApart, UnackedOrphaned, Claim, messages, Fresh
<1>4. HeldOnce'
    BY <1>1 DEF HeldOnce, TypeOK, Claim, Fresh, Held, At, Idle
<1>5. PublishingIsNew'
    BY <1>1 DEF PublishingIsNew, TypeOK, Claim, Fresh, Held, At, InFlight, messages
<1>6. GuardHolds'
    <2> SUFFICES ASSUME NEW u \in ((InFlight \cup Publishing) \cap Guarded)'
                 PROVE  u = t
        BY <1>1 DEF GuardHolds, Lease
    <2> SUFFICES ASSUME u # t PROVE FALSE
        OBVIOUS
    <2>1. u \in (InFlight \cup Publishing) \cap Guarded
        BY <1>1 DEF TypeOK, InFlight, Publishing, Guarded, Claim, messages, At
    <2> QED BY <1>1, <2>1, TokenAssumption DEF GuardHolds, NoLease, Guarded
<1> QED BY <1>2, <1>3, <1>4, <1>5, <1>6

(* A tick that is coalesced changes no owner.                              *)
LEMMA CoalesceInv ==
    ASSUME IInv, NEW b \in Beats, Coalesce(b)
    PROVE  IInv'
<1>1. /\ aged' \in BOOLEAN
      /\ UNCHANGED <<key, late, beat, queue, running, retrying, unmarked, unacked, orphaned>>
    BY DEF IInv, Coalesce, RenewLease, messages, TypeOK
<1>2. TypeOK'
    BY <1>1 DEF IInv, TypeOK
<1> QED BY <1>1, <1>2 DEF IInv, QueueApart, HeldOnce, PublishingIsNew, UnackedOrphaned,
                          GuardHolds, InFlight, Publishing, Guarded

(* Publishing without the guard: the token is orphaned from the start.     *)
LEMMA ClaimUnavailableInv ==
    ASSUME IInv, NEW b \in Beats, NEW t \in Tokens, ClaimUnavailable(b, t)
    PROVE  IInv'
<1> USE DEF IInv
<1>1. /\ beat' = [beat EXCEPT ![b] = At("bare", t)]
      /\ t \in Fresh /\ beat[b] = Idle /\ UNCHANGED messages /\ late' = late \ {t}
    BY DEF ClaimUnavailable
<1>2. /\ key' \in {NoLease} \cup [phase : Phases, token : Tokens]
      /\ aged' \in BOOLEAN
      /\ orphaned \cup {t} \subseteq orphaned' /\ orphaned' \subseteq Tokens
      /\ key' # key => key = NoLease
    <2>1. CASE UNCHANGED guard /\ orphaned' = orphaned \cup {t}
        BY <2>1 DEF guard, TypeOK
    <2>2. ASSUME NEW lost \in Fresh, ClaimLease(lost), orphaned' = orphaned \cup {t, lost}
          PROVE  /\ key' \in {NoLease} \cup [phase : Phases, token : Tokens]
                 /\ aged' \in BOOLEAN
                 /\ orphaned \cup {t} \subseteq orphaned' /\ orphaned' \subseteq Tokens
                 /\ key' # key => key = NoLease
        <3>1. Lease("claiming", lost) \in [phase : Phases, token : Tokens]
            BY DEF Lease, Phases, Fresh
        <3> QED BY <2>2, <3>1 DEF ClaimLease, SetKey, TypeOK, Fresh
    <2> QED BY <2>1, <2>2 DEF ClaimUnavailable
<1>3. TypeOK'
    BY <1>1, <1>2 DEF TypeOK, messages, At
<1>4. QueueApart' /\ UnackedOrphaned'
    BY <1>1, <1>2 DEF QueueApart, UnackedOrphaned, messages
<1>5. HeldOnce'
    BY <1>1 DEF HeldOnce, TypeOK, Fresh, Held, At, Idle
<1>6. PublishingIsNew'
    BY <1>1, <1>2 DEF PublishingIsNew, TypeOK, Fresh, Held, At, InFlight, messages
<1>7. GuardHolds'
    <2> SUFFICES ASSUME NEW u \in ((InFlight \cup Publishing) \cap Guarded)'
                 PROVE  key'.token = u
        BY DEF GuardHolds
    <2>1. u \in (InFlight \cup Publishing) \cap Guarded
        BY <1>1, <1>2 DEF TypeOK, InFlight, Publishing, Guarded, messages, At
    <2>2. key.token = u /\ u # NoToken
        BY <2>1, TokenAssumption DEF GuardHolds, Guarded
    <2> QED BY <1>2, <2>2 DEF NoLease
<1> QED BY <1>3, <1>4, <1>5, <1>6, <1>7

(* Publishing moves a token from its publisher to the queue.               *)
LEMMA PublishInv ==
    ASSUME IInv, NEW b \in Beats, Publish(b)
    PROVE  IInv'
<1> USE DEF IInv
<1> DEFINE t == beat[b].token
<1>1. /\ queue' = queue \cup {t}
      /\ beat' = [beat EXCEPT ![b] = IF beat[b].at = "claimed" THEN At("sent", t) ELSE Idle]
      /\ beat[b].at \in {"claimed", "bare"}
      /\ UNCHANGED <<key, aged, late, running, retrying, unmarked, unacked, orphaned>>
    BY DEF Publish, guard
<1>2. t \in Tokens
    BY <1>1 DEF TypeOK, Idle
<1>3. TypeOK'
    BY <1>1, <1>2 DEF TypeOK, At
<1>4. QueueApart' /\ UnackedOrphaned'
    BY <1>1 DEF QueueApart, UnackedOrphaned, PublishingIsNew, InFlight
<1>5. HeldOnce'
    BY <1>1, <1>2, TokenAssumption DEF HeldOnce, TypeOK, At, Idle
<1>6. PublishingIsNew'
    <2> SUFFICES ASSUME NEW c \in Beats, beat'[c].at \in {"claimed", "bare"}
                 PROVE  /\ beat'[c].token \notin (InFlight \cup retrying \cup unacked)'
                        /\ beat'[c].at = "bare" => beat'[c].token \in orphaned'
        BY DEF PublishingIsNew
    <2>1. c # b /\ beat'[c] = beat[c]
        BY <1>1 DEF TypeOK, At, Idle
    <2>2. beat[c].token # t
        BY <1>1, <2>1 DEF HeldOnce, Idle
    <2> QED BY <1>1, <2>1, <2>2 DEF PublishingIsNew, InFlight
<1>7. GuardHolds'
    <2>1. t \in Publishing
        BY <1>1 DEF Publishing
    <2>2. (InFlight \cup Publishing)' \subseteq InFlight \cup Publishing
        BY <1>1, <2>1 DEF InFlight, Publishing, TypeOK, At, Idle
    <2> QED BY <1>1, <2>2 DEF GuardHolds, Guarded
<1> QED BY <1>3, <1>4, <1>5, <1>6, <1>7

(* A publication that fails deletes the claim of this publisher only.      *)
LEMMA PublishFailsInv ==
    ASSUME IInv, NEW b \in Beats, PublishFails(b)
    PROVE  IInv'
<1> USE DEF IInv
<1> DEFINE t == beat[b].token
<1>1. /\ beat' = [beat EXCEPT ![b] = Idle]
      /\ beat[b].at \in {"claimed", "bare"}
      /\ UNCHANGED <<late, running, retrying, unmarked, unacked>>
      /\ \/ queue' = queue /\ orphaned' = orphaned
         \/ queue' = queue \cup {t} /\ orphaned' = orphaned \cup {t}
      /\ ReleaseLease(t) \/ ScriptFails \/ UNCHANGED guard
    BY DEF PublishFails, Orphan
<1>2. t \in Tokens
    BY <1>1 DEF TypeOK, Idle
<1>3. /\ key' \in {NoLease} \cup [phase : Phases, token : Tokens]
      /\ aged' \in BOOLEAN
      /\ key'.token # key.token => key.token = t
    BY <1>1, <1>2, ScriptsOfToken DEF guard, TypeOK
<1>4. TypeOK'
    BY <1>1, <1>2, <1>3 DEF TypeOK
<1>5. QueueApart' /\ UnackedOrphaned'
    BY <1>1 DEF QueueApart, UnackedOrphaned, PublishingIsNew, InFlight
<1>6. HeldOnce'
    <2> SUFFICES ASSUME NEW c \in Beats, NEW d \in Beats, beat'[c] # Idle,
                        beat'[c].token = beat'[d].token
                 PROVE  c = d
        BY DEF HeldOnce
    <2>1. c # b /\ beat'[c] = beat[c] /\ beat[c].token \in Tokens
        BY <1>1 DEF TypeOK
    <2>2. d # b /\ beat'[d] = beat[d]
        BY <1>1, <2>1, TokenAssumption DEF TypeOK, Idle
    <2> QED BY <2>1, <2>2 DEF HeldOnce
<1>7. \A c \in Beats : beat'[c].at \in {"claimed", "bare"} =>
         c # b /\ beat'[c] = beat[c] /\ beat[c].token # t
    BY <1>1 DEF TypeOK, HeldOnce, Idle
<1>8. PublishingIsNew'
    BY <1>1, <1>7 DEF PublishingIsNew, InFlight
<1>9. GuardHolds'
    <2> SUFFICES ASSUME NEW u \in ((InFlight \cup Publishing) \cap Guarded)'
                 PROVE  key'.token = u
        BY DEF GuardHolds
    <2>1. u # t
        <3>1. t \notin InFlight
            BY <1>1 DEF PublishingIsNew
        <3> QED BY <1>1, <1>7, <3>1 DEF InFlight, Publishing, Guarded
    <2>2. u \in (InFlight \cup Publishing) \cap Guarded
        BY <1>1, <1>7, <2>1 DEF InFlight, Publishing, Guarded
    <2> QED BY <1>3, <2>1, <2>2 DEF GuardHolds
<1> QED BY <1>4, <1>5, <1>6, <1>8, <1>9

(* Promotion keeps the owner, and so does the death of a publisher.        *)
LEMMA PromoteInv ==
    ASSUME IInv, NEW b \in Beats, Promote(b) \/ BeatDies(b)
    PROVE  IInv'
<1> USE DEF IInv
<1>1. beat' = [beat EXCEPT ![b] = Idle] /\ UNCHANGED <<late, messages, orphaned>>
    BY DEF Promote, BeatDies
<1>2. /\ key' \in {NoLease} \cup [phase : Phases, token : Tokens]
      /\ aged' \in BOOLEAN /\ key'.token = key.token
    <2>1. CASE Promote(b)
        <3>1. beat[b].token \in Tokens
            BY <2>1 DEF TypeOK, Promote, Idle
        <3> QED BY <2>1, <3>1, ScriptsOfToken, ScriptsKeepOwner DEF Promote
    <2>2. CASE BeatDies(b)
        BY <2>2 DEF BeatDies, guard, TypeOK
    <2> QED BY <2>1, <2>2
<1>3. TypeOK'
    BY <1>1, <1>2 DEF TypeOK, messages
<1>4. QueueApart' /\ UnackedOrphaned' /\ PublishingIsNew'
    BY <1>1 DEF QueueApart, UnackedOrphaned, PublishingIsNew, messages, TypeOK,
                Idle, InFlight
<1>7. HeldOnce'
    <2> SUFFICES ASSUME NEW c \in Beats, NEW d \in Beats, beat'[c] # Idle,
                        beat'[c].token = beat'[d].token
                 PROVE  c = d
        BY DEF HeldOnce
    <2>1. c # b /\ beat'[c] = beat[c] /\ beat[c].token \in Tokens
        BY <1>1 DEF TypeOK
    <2>2. d # b /\ beat'[d] = beat[d]
        BY <1>1, <2>1, TokenAssumption DEF TypeOK, Idle
    <2> QED BY <2>1, <2>2 DEF HeldOnce
<1>5. (InFlight \cup Publishing)' \subseteq InFlight \cup Publishing
    BY <1>1 DEF InFlight, Publishing, messages, TypeOK, Idle
<1>6. GuardHolds'
    BY <1>1, <1>2, <1>5 DEF GuardHolds, Guarded
<1> QED BY <1>3, <1>4, <1>6, <1>7

(* The worker's steps keep the parts of the invariant about the publishers.*)
LEMMA WorkerPublishing ==
    ASSUME IInv, NEW t \in InFlight \cup retrying \cup unacked,
           UNCHANGED beat, orphaned \subseteq orphaned',
           (InFlight \cup retrying \cup unacked)' \subseteq InFlight \cup retrying \cup unacked
    PROVE  HeldOnce' /\ PublishingIsNew' /\ Publishing' = Publishing /\ t \notin Publishing
BY DEF IInv, HeldOnce, PublishingIsNew, Publishing

(* Starting a message keeps its lease.                                     *)
LEMMA StartInv ==
    ASSUME IInv, NEW t \in Tokens, Start(t)
    PROVE  IInv'
<1> USE DEF IInv
<1>1. /\ t \in queue /\ queue' = queue \ {t} /\ running' = running \cup {t}
      /\ UNCHANGED <<late, beat, retrying, unacked, orphaned>>
      /\ unmarked' \in {unmarked, unmarked \cup {t}}
      /\ MarkRunning(t) \/ ScriptFails
    BY DEF Start
<1>2. /\ key' \in {NoLease} \cup [phase : Phases, token : Tokens]
      /\ aged' \in BOOLEAN /\ key'.token = key.token
    BY <1>1, ScriptsOfToken, ScriptsKeepOwner
<1>3. InFlight' = InFlight
    BY <1>1 DEF InFlight
<1>4. TypeOK'
    BY <1>1, <1>2 DEF TypeOK
<1>5. QueueApart' /\ UnackedOrphaned'
    BY <1>1 DEF QueueApart, UnackedOrphaned
<1>6. HeldOnce' /\ PublishingIsNew' /\ Publishing' = Publishing
    BY <1>1, <1>3, WorkerPublishing DEF InFlight
<1>7. GuardHolds'
    BY <1>1, <1>2, <1>3, <1>6 DEF GuardHolds, Guarded
<1> QED BY <1>4, <1>5, <1>6, <1>7

(* Ending or revoking a message deletes at most its own lease.             *)
LEMMA EndInv ==
    ASSUME IInv, NEW t \in Tokens, Finish(t) \/ Revoke(t)
    PROVE  IInv'
<1> USE DEF IInv
<1>1. /\ t \in InFlight /\ InFlight' = InFlight \ {t}
      /\ queue' \subseteq queue /\ running' \subseteq running /\ unmarked' \subseteq unmarked
      /\ UNCHANGED <<late, beat, retrying, unacked, orphaned>>
      /\ ReleaseLease(t) \/ ScriptFails
    BY DEF Finish, Revoke, InFlight, QueueApart
<1>2. /\ key' \in {NoLease} \cup [phase : Phases, token : Tokens]
      /\ aged' \in BOOLEAN
      /\ key'.token # key.token => key.token = t
    BY <1>1, ScriptsOfToken
<1>3. TypeOK'
    <2>1. queue' \subseteq Tokens /\ running' \subseteq Tokens /\ unmarked' \subseteq Tokens
        BY <1>1 DEF TypeOK
    <2> QED BY <1>1, <1>2, <2>1 DEF TypeOK
<1>4. QueueApart' /\ UnackedOrphaned'
    BY <1>1 DEF QueueApart, UnackedOrphaned
<1>5. HeldOnce' /\ PublishingIsNew' /\ Publishing' = Publishing /\ t \notin Publishing
    BY <1>1, WorkerPublishing
<1>6. GuardHolds'
    <2> SUFFICES ASSUME NEW u \in ((InFlight \cup Publishing) \cap Guarded)'
                 PROVE  key'.token = u
        BY DEF GuardHolds
    <2>1. u # t /\ u \in (InFlight \cup Publishing) \cap Guarded
        BY <1>1, <1>5 DEF Guarded
    <2> QED BY <1>2, <2>1 DEF GuardHolds
<1> QED BY <1>3, <1>4, <1>5, <1>6

(* A retry of a message is the message again, and its postrun keeps the    *)
(* lease unless the queue deadline has passed.                             *)
LEMMA RetryInv ==
    ASSUME IInv, NEW t \in Tokens, Retry(t) \/ Requeue(t)
    PROVE  IInv'
<1> USE DEF IInv
<1>1. CASE Retry(t)
    <2>1. /\ t \in running /\ queue' = queue \cup {t} /\ running' = running \ {t}
          /\ retrying' = retrying \cup {t} /\ unmarked' \subseteq unmarked
          /\ UNCHANGED <<key, aged, late, beat, unacked, orphaned>>
        BY <1>1 DEF Retry, guard
    <2>2. InFlight' = InFlight
        BY <2>1 DEF InFlight
    <2>3. TypeOK' /\ QueueApart' /\ UnackedOrphaned'
        BY <2>1 DEF TypeOK, QueueApart, UnackedOrphaned
    <2>4. HeldOnce' /\ PublishingIsNew' /\ Publishing' = Publishing
        BY <2>1, <2>2, WorkerPublishing DEF InFlight
    <2> QED BY <2>1, <2>2, <2>3, <2>4 DEF GuardHolds, Guarded
<1>2. CASE Requeue(t)
    <2>1. /\ t \in retrying /\ retrying' = retrying \ {t}
          /\ RequeueLease(t) \/ ScriptFails
          /\ UNCHANGED <<late, beat, queue, running, unmarked, unacked, orphaned>>
        BY <1>2 DEF Requeue
    <2>2. /\ key' \in {NoLease} \cup [phase : Phases, token : Tokens]
          /\ aged' \in BOOLEAN
          /\ key'.token # key.token => key.token = t /\ t \in late
        BY <2>1, ScriptsOfToken, ScriptsKeepOwner
    <2>3. TypeOK' /\ QueueApart' /\ UnackedOrphaned' /\ InFlight' = InFlight
        BY <2>1, <2>2 DEF TypeOK, QueueApart, UnackedOrphaned, InFlight
    <2>4. HeldOnce' /\ PublishingIsNew' /\ Publishing' = Publishing
        BY <2>1, <2>3, WorkerPublishing
    <2>5. GuardHolds'
        BY <2>1, <2>2, <2>3, <2>4 DEF GuardHolds, Guarded
    <2> QED BY <2>3, <2>4, <2>5
<1> QED BY <1>1, <1>2

(* A message whose worker died has lost its guard; so has its redelivery.  *)
LEMMA WorkerDiesInv ==
    ASSUME IInv, NEW t \in Tokens, WorkerDies(t) \/ Redeliver(t)
    PROVE  IInv'
<1> USE DEF IInv
<1>1. /\ t \in running \cup retrying \cup unacked
      /\ running' \subseteq running /\ retrying' \subseteq retrying /\ unmarked' \subseteq unmarked
      /\ queue' \subseteq queue \cup {t} /\ unacked' \subseteq unacked \cup {t}
      /\ orphaned' \subseteq Tokens /\ orphaned \cup {t} \subseteq orphaned'
      /\ UNCHANGED <<key, aged, late, beat>>
    BY DEF WorkerDies, Redeliver, Orphan, guard, TypeOK, UnackedOrphaned
<1>2. TypeOK' /\ UnackedOrphaned'
    BY <1>1 DEF TypeOK, UnackedOrphaned
<1>3. QueueApart'
    BY <1>1 DEF QueueApart, WorkerDies, Redeliver, InFlight
<1>4. (InFlight \cup retrying \cup unacked)' \subseteq InFlight \cup retrying \cup unacked
    BY <1>1 DEF InFlight
<1>5. HeldOnce' /\ PublishingIsNew' /\ Publishing' = Publishing
    BY <1>1, <1>4, WorkerPublishing DEF InFlight
<1>6. GuardHolds'
    BY <1>1, <1>5 DEF GuardHolds, Guarded, InFlight
<1> QED BY <1>2, <1>3, <1>5, <1>6

(* Time only takes guards away from the tokens it concerns.                *)
LEMMA TimeInv ==
    ASSUME IInv, (\E t \in Tokens : DeadlinePasses(t)) \/ Age \/ Expire
    PROVE  IInv'
<1> USE DEF IInv
<1>1. /\ UNCHANGED <<beat, messages>>
      /\ late \subseteq late' /\ late' \subseteq Tokens
      /\ orphaned \subseteq orphaned' /\ orphaned' \subseteq Tokens
      /\ key' \in {NoLease} \cup [phase : Phases, token : Tokens] /\ aged' \in BOOLEAN
      /\ key'.token # key.token => key.token \in orphaned'
    <2>1. /\ key \in {NoLease} \cup [phase : Phases, token : Tokens] /\ aged \in BOOLEAN
          /\ late \subseteq Tokens /\ orphaned \subseteq Tokens
        BY DEF TypeOK
    <2>2. CASE \E t \in Tokens : DeadlinePasses(t)
        BY <2>1, <2>2 DEF DeadlinePasses
    <2>3. CASE Age
        BY <2>1, <2>3 DEF Age
    <2>4. CASE Expire
        <3>1. key \in [phase : Phases, token : Tokens] /\ orphaned' = orphaned \cup {key.token}
            BY <2>1, <2>4 DEF Expire, Orphan
        <3>2. key' = NoLease /\ aged' = FALSE /\ UNCHANGED <<late, beat, messages>>
            BY <2>4 DEF Expire, DelKey
        <3> QED BY <2>1, <3>1, <3>2
    <2> QED BY <2>2, <2>3, <2>4
<1>2. UNCHANGED <<queue, running, retrying, unmarked, unacked, beat, InFlight, Publishing>>
    BY <1>1 DEF messages, InFlight, Publishing
<1>3. TypeOK'
    BY <1>1, <1>2 DEF TypeOK
<1>4. QueueApart' /\ HeldOnce' /\ UnackedOrphaned'
    BY <1>1, <1>2 DEF QueueApart, HeldOnce, UnackedOrphaned
<1>5. PublishingIsNew'
    BY <1>1, <1>2 DEF PublishingIsNew
<1>6. GuardHolds'
    BY <1>1, <1>2 DEF GuardHolds, Guarded
<1> QED BY <1>3, <1>4, <1>5, <1>6

(* Every step preserves the invariant.                                     *)
LEMMA NextInv == IInv /\ [Next]_vars => IInv'
<1> SUFFICES ASSUME IInv, [Next]_vars PROVE IInv'
    OBVIOUS
<1>1. ASSUME NEW b \in Beats, BeatStep(b) PROVE IInv'
    BY <1>1, ClaimInv, ClaimUnavailableInv, CoalesceInv, PublishInv, PublishFailsInv,
       PromoteInv DEF BeatStep
<1>2. ASSUME NEW t \in Tokens, WorkerStep(t) PROVE IInv'
    BY <1>2, StartInv, EndInv, RetryInv, WorkerDiesInv DEF WorkerStep
<1>3. CASE (\E t \in Tokens : DeadlinePasses(t)) \/ Age \/ Expire
    BY <1>3, TimeInv
<1>4. CASE UNCHANGED vars
    BY <1>4 DEF IInv, vars, messages, TypeOK, QueueApart, HeldOnce, PublishingIsNew,
                UnackedOrphaned, GuardHolds, InFlight, Publishing, Guarded
<1> QED BY <1>1, <1>2, <1>3, <1>4 DEF Next

LEMMA Invariance == Spec => []IInv
BY InitInv, NextInv, PTL DEF Spec

-----------------------------------------------------------------------------
(* Types: the guard, the broker and the publishers keep their types.       *)
THEOREM WakeupTypeCorrect == Spec => []TypeOK
<1>1. IInv => TypeOK
    BY DEF IInv
<1> QED BY <1>1, Invariance, PTL

(* Single flight: whatever fails, two wake-ups of one schedule are in      *)
(* flight at a time only if one of them lost its guard to a fault or to    *)
(* the queue deadline (claim, promote, prerun, postrun and revoke).        *)
THEOREM WakeupsAreSingleFlight == Spec => []SingleFlight
<1>1. IInv => SingleFlight
    BY DEF IInv, SingleFlight, GuardHolds
<1> QED BY <1>1, Invariance, PTL

(* No step of another message, publisher or Beat takes the lease of a      *)
(* wake-up that is in flight (the token comparisons of the Lua scripts).   *)
THEOREM LeaseIsFenced == Spec => LeaseKeptWhileInFlight
<1> DEFINE Kept == key # NoLease /\ key'.token # key.token
                     => \/ key.token \notin InFlight' \cup Publishing'
                        \/ key.token \in orphaned' \cup late
<1>1. ASSUME IInv, [Next]_vars PROVE [Kept]_vars
    <2> SUFFICES ASSUME Next, key # NoLease, key'.token # key.token
                 PROVE  \/ key.token \notin InFlight' \cup Publishing'
                        \/ key.token \in orphaned' \cup late
        BY <1>1
    <2> USE <1>1 DEF IInv
    <2>1. ASSUME NEW b \in Beats, BeatStep(b)
          PROVE  key.token \notin InFlight' \cup Publishing' \/ key.token \in orphaned'
        <3>1. PublishFails(b)
            <4>1. \A t \in Tokens : ~Claim(b, t) /\ (ClaimUnavailable(b, t) => UNCHANGED key)
                BY DEF Claim, ClaimUnavailable, ClaimLease, guard
            <4>2. Promote(b) => beat[b].token \in Tokens
                BY DEF Promote, TypeOK, Idle
            <4>3. ~Promote(b)
                BY <4>2, ScriptsKeepOwner DEF Promote
            <4> QED BY <2>1, <4>1, <4>3
                    DEF BeatStep, Coalesce, RenewLease, Publish, BeatDies, guard
        <3> DEFINE t == beat[b].token
        <3>2. t \in Tokens /\ beat[b].at \in {"claimed", "bare"}
            BY <3>1 DEF PublishFails, TypeOK, Idle
        <3>3. key.token = t
            BY <3>1, <3>2, ScriptsOfToken DEF PublishFails, guard
        <3>4. t \notin InFlight
            BY <3>2 DEF PublishingIsNew
        <3>5. t \notin Publishing'
            BY <3>1, <3>2 DEF PublishFails, Publishing, HeldOnce, TypeOK, Idle
        <3>6. t \in orphaned' \/ InFlight' = InFlight
            BY <3>1 DEF PublishFails, Orphan, InFlight
        <3> QED BY <3>3, <3>4, <3>5, <3>6
    <2>2. ASSUME NEW t \in Tokens, WorkerStep(t)
          PROVE  key.token \notin InFlight' \cup Publishing' \/ key.token \in late
        <3>1. CASE Finish(t) \/ Revoke(t)
            <4>1. t \in InFlight /\ t \notin InFlight' /\ UNCHANGED beat
                BY <3>1 DEF Finish, Revoke, InFlight, QueueApart
            <4>2. t \notin Publishing'
                BY <4>1 DEF Publishing, PublishingIsNew
            <4>3. key.token = t
                BY <3>1, ScriptsOfToken DEF Finish, Revoke
            <4> QED BY <4>1, <4>2, <4>3
        <3>2. CASE Requeue(t)
            BY <3>2, ScriptsOfToken, ScriptsKeepOwner DEF Requeue
        <3>3. CASE Start(t)
            BY <3>3, ScriptsKeepOwner DEF Start
        <3> QED BY <2>2, <3>1, <3>2, <3>3 DEF WorkerStep, Retry, WorkerDies, Redeliver, guard
    <2>3. CASE (\E t \in Tokens : DeadlinePasses(t)) \/ Age \/ Expire
        BY <2>3 DEF DeadlinePasses, Age, Expire, Orphan
    <2> QED BY <2>1, <2>2, <2>3 DEF Next
<1> QED BY <1>1, Invariance, PTL DEF Spec, LeaseKeptWhileInFlight
=============================================================================
