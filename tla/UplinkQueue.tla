----------------------------- MODULE UplinkQueue -----------------------------
(***************************************************************************)
(* The Redis stream between the WebSocket processes and the workers that   *)
(* persist what Agents report (apps/node/ws/uplink_queue.py), with the     *)
(* Celery task that drains it (apps/node/tasks/uplink_ingest.py) and the   *)
(* lease that keeps the drain to one worker (PeriodicLease and             *)
(* periodic_lease in apps/node/services/internal/redis_store.py).          *)
(*                                                                         *)
(* A frame is queued as an entry; entries are numbered in stream order, and*)
(* a replayed dead letter is a new entry of the same frame.  The consumer  *)
(* group keeps, of every delivered entry, who has it and how often it was  *)
(* delivered (the pending list); entries that stay idle are claimed by the *)
(* next drain.  All frames of TaskFrames report on the same command and    *)
(* share its activity marker, which the watchdog reads.                    *)
(***************************************************************************)
EXTENDS Integers, Sequences, FiniteSets, FiniteSetsExt, Functions

CONSTANTS Workers,        \* ingest processes (consumers of the group)
          NFrames,        \* frames that Agents send, numbered as they arrive
          TaskFrames,     \* those that report on the command
          NoWorker,       \* "nobody"
          MinDeliveries,  \* UPLINK_DLQ_MIN_DELIVERIES
          BatchSize,      \* UPLINK_INGEST_BATCH_SIZE
          MaxEntries,     \* bound: entries ever added
          MaxFaults       \* bound: crashes, lost leases, expired markers, Redis errors

ASSUME WorkerAssumption == NoWorker \notin Workers
ASSUME FrameAssumption == NFrames \in Nat /\ TaskFrames \subseteq 1..NFrames
ASSUME BoundAssumption ==
  /\ MinDeliveries \in Nat \ {0}
  /\ BatchSize \in 1..7     \* so that a drain reclaims one entry at a time
  /\ MaxEntries \in Nat /\ MaxFaults \in Nat

VARIABLES
  entries,     \* frames of all entries ever added, in order
  stream,      \* entries in the stream
  delivered,   \* last entry that the group has delivered
  pending,     \* pending list: deliveries of each delivered, unacknowledged entry,
               \* counted up to MinDeliveries
  idle,        \* pending entries that have been idle long enough to be claimed
  old,         \* pending entries older than UPLINK_DLQ_MIN_AGE_SECONDS
  cursor,      \* where the next reclaim starts
  letters,     \* dead letters of each entry: two consumers may both quarantine it
  marker,      \* entry whose token is in the activity marker, 0 if there is none
  markerLate,  \* TRUE if the marker's time to live has elapsed
  lease,       \* owner of the ingest lease
  worker,      \* the state of each worker
  applied,     \* history: frames that were handled successfully
  faults

redis == <<entries, stream, delivered, pending, idle, old, cursor, letters, marker, markerLate>>
vars == <<redis, lease, worker, applied, faults>>

Frames == 1..NFrames
Ids == 1..MaxEntries
Added == 1..Len(entries)
Off == [pc |-> "off", batch |-> <<>>, done |-> 0, holds |-> FALSE]
PCs == {"off", "reclaim", "read", "handle", "ack", "failed", "quarantine", "more", "end"}

TypeOK ==
  /\ entries \in Seq(Frames) /\ Len(entries) <= MaxEntries
  /\ stream \subseteq Added /\ delivered \in 0..Len(entries)
  /\ DOMAIN pending \subseteq stream /\ \A e \in DOMAIN pending : pending[e] \in 1..MinDeliveries
  /\ idle \subseteq DOMAIN pending /\ old \subseteq DOMAIN pending /\ cursor \in 0..MaxEntries
  /\ letters \in [Ids -> Nat] /\ marker \in 0..Len(entries) /\ markerLate \in BOOLEAN
  /\ lease \in Workers \cup {NoWorker}
  /\ worker \in [Workers -> [pc : PCs, batch : Seq(Ids), done : Nat, holds : BOOLEAN]]
  /\ applied \subseteq Frames /\ faults \in 0..MaxFaults

Init ==
  /\ entries = <<>> /\ stream = {} /\ delivered = 0 /\ pending = <<>> /\ idle = {}
  /\ old = {} /\ cursor = 0 /\ letters = [e \in Ids |-> 0] /\ marker = 0 /\ markerLate = FALSE
  /\ lease = NoWorker /\ worker = [w \in Workers |-> Off]
  /\ applied = {} /\ faults = 0

Fault == faults < MaxFaults /\ faults' = faults + 1

\* Adding an entry publishes the marker of a task frame in the same transaction.
Add(f) ==
  /\ Len(entries) < MaxEntries
  /\ entries' = Append(entries, f)
  /\ stream' = stream \cup {Len(entries')}
  /\ IF f \in TaskFrames THEN marker' = Len(entries') /\ markerLate' = FALSE
                         ELSE UNCHANGED <<marker, markerLate>>

\* Mutant: the entry is deleted and stays in the pending list.
ForgetStream(e) ==
  /\ stream' = stream \ {e}
  /\ UNCHANGED <<pending, idle, old>>

\* Mutant: the entry is acknowledged and stays in the stream.
ForgetPending(e) ==
  /\ pending' = [x \in DOMAIN pending \ {e} |-> pending[x]]
  /\ idle' = idle \ {e} /\ old' = old \ {e}
  /\ UNCHANGED stream

\* Acknowledge and delete: XACK and XDEL of an entry that is gone do nothing.
Forget(e) ==
  /\ stream' = stream \ {e}
  /\ pending' = [x \in DOMAIN pending \ {e} |-> pending[x]]
  /\ idle' = idle \ {e} /\ old' = old \ {e}

\* Mutant: the marker is deleted whatever token it carries.
ClearAnyMarker(e) == marker' = 0

\* The marker is deleted only while it carries this entry's token.
ClearMarker(e) == marker' = IF marker = e THEN 0 ELSE marker

(***************************************************************************)
(* The WebSocket process and the operator                                  *)
(***************************************************************************)
EnqueueUplink(f) ==
  /\ {entries[e] : e \in Added} = 1..f - 1
  /\ Add(f)
  /\ UNCHANGED <<delivered, pending, idle, cursor, letters, old, lease, worker, applied, faults>>

ReplayDeadLetter(e) ==
  /\ letters[e] > 0
  /\ Add(entries[e])
  /\ letters' = [letters EXCEPT ![e] = @ - 1]
  /\ UNCHANGED <<delivered, pending, idle, cursor, old, lease, worker, applied, faults>>

(***************************************************************************)
(* The drain                                                               *)
(***************************************************************************)
Goto(w, pc) == worker' = [worker EXCEPT ![w].pc = pc]
Current(w) == Head(worker[w].batch)
Leave(w) == worker' = [worker EXCEPT ![w] = Off]

\* A coalesced run returns at once: no step.
AcquireLease(w) ==
  /\ worker[w].pc = "off" /\ lease = NoWorker
  /\ lease' = w
  /\ worker' = [worker EXCEPT ![w].pc = "reclaim", ![w].holds = TRUE]
  /\ UNCHANGED <<redis, applied, faults>>

\* Mutant: no reclaim of what another consumer, or this one, left pending.
ClaimNothing(w) ==
  /\ worker[w].pc = "reclaim"
  /\ Goto(w, "read")
  /\ UNCHANGED <<entries, stream, delivered, pending, idle, old, cursor, letters, marker,
                 markerLate, lease, applied, faults>>

First(S) == {e \in S : \A x \in S : e <= x}

\* XAUTOCLAIM from the cursor: the first idle entry is delivered again, to w.  (The
\* code claims up to a quarter of a batch, at least one.)
ClaimStaleEntries(w) ==
  /\ worker[w].pc = "reclaim"
  /\ LET stale == {e \in idle : e >= cursor}
         claimed == First(stale)
         next == First({e \in DOMAIN pending : \A c \in claimed : e > c})
     IN /\ pending' = [e \in DOMAIN pending |->
                       IF e \in claimed THEN Min({pending[e] + 1, MinDeliveries}) ELSE pending[e]]
        /\ idle' = idle \ claimed
        /\ \/ cursor' \in (IF claimed = {} \/ next = {} THEN {0} ELSE next) /\ UNCHANGED faults
           \/ Fault /\ UNCHANGED cursor           \* the cursor is not persisted
        /\ \E batch \in (IF claimed = {} THEN {<<>>} ELSE {<<e>> : e \in claimed}) :
             worker' = [worker EXCEPT ![w].pc = "read", ![w].batch = batch]
  /\ UNCHANGED <<entries, stream, delivered, letters, marker, markerLate, old, lease, applied>>

\* XREADGROUP ">": the next entries nobody has been given yet.
ReadNewEntries(w) ==
  /\ worker[w].pc = "read"
  /\ LET room == BatchSize - Len(worker[w].batch)
         last == Min({delivered + room, Len(entries)})
         fresh == delivered + 1 .. last
     IN /\ delivered' = last
        /\ pending' = [e \in DOMAIN pending \cup fresh |-> IF e \in fresh THEN 1 ELSE pending[e]]
        /\ worker' = [worker EXCEPT
             ![w].pc = IF worker[w].batch = <<>> /\ fresh = {} THEN "end" ELSE "handle",
             ![w].batch = @ \o [i \in 1..Cardinality(fresh) |-> delivered + i],
             ![w].done = 0]
  /\ UNCHANGED <<entries, stream, idle, cursor, letters, marker, markerLate, old, lease, applied,
                 faults>>

\* Mutant: a handler that raises is acknowledged like one that returned.
AckFailedUplink(w) ==
  /\ worker[w].pc = "handle"
  /\ \/ applied' = applied \cup {entries[Current(w)]}
     \/ UNCHANGED applied
  /\ Goto(w, "ack")
  /\ UNCHANGED <<redis, lease, faults>>

HandleUplink(w) ==
  /\ worker[w].pc = "handle"
  /\ \/ applied' = applied \cup {entries[Current(w)]} /\ Goto(w, "ack")
     \/ Goto(w, "failed") /\ UNCHANGED applied
  /\ UNCHANGED <<redis, lease, faults>>

\* The batch goes on with its next entry.  Only a full batch that succeeded is
\* followed by another one.
NextEntry(w, done) ==
  LET last == Len(worker[w].batch) = 1
      full == worker[w].done + done = BatchSize
  IN worker' = [worker EXCEPT
       ![w].pc = CASE ~last -> "handle" [] last /\ full -> "more" [] OTHER -> "end",
       ![w].batch = Tail(@), ![w].done = IF last THEN 0 ELSE @ + done]

AcknowledgeEntry(w) ==
  /\ worker[w].pc = "ack"
  /\ Forget(Current(w)) /\ ClearMarker(Current(w))
  /\ NextEntry(w, 1)
  /\ UNCHANGED <<entries, delivered, cursor, letters, markerLate, lease, applied, faults>>

\* The handler raised: look at the delivery count, 0 if the entry is not pending.
CountDeliveries(w) ==
  /\ worker[w].pc = "failed"
  /\ LET e == Current(w)
         count == IF e \in DOMAIN pending THEN pending[e] ELSE 0
     IN IF count >= MinDeliveries /\ e \in old
        THEN Goto(w, "quarantine")
        ELSE NextEntry(w, 0)
  /\ UNCHANGED <<redis, lease, applied, faults>>

\* The script adds the dead letter, acknowledges and deletes.
QuarantineFailedEntry(w) ==
  /\ worker[w].pc = "quarantine"
  /\ LET e == Current(w) IN
     \/ /\ letters' = [letters EXCEPT ![e] = @ + 1]
        /\ Forget(e) /\ ClearMarker(e)
        /\ UNCHANGED faults
     \/ /\ Fault
        /\ UNCHANGED <<letters, stream, pending, idle, old, marker>>
  /\ NextEntry(w, 0)
  /\ UNCHANGED <<entries, delivered, cursor, markerLate, lease, applied>>

\* A full batch is followed by another one while the lease lasts; otherwise, or
\* when the drain time is over, the run ends and releases its own lease.
AnotherBatch(w) ==
  /\ worker[w].pc = "more" /\ worker[w].holds
  /\ Goto(w, "reclaim")
  /\ UNCHANGED <<redis, lease, applied, faults>>

ReleaseLease(w) ==
  /\ worker[w].pc \in {"more", "end"}
  /\ lease' = IF lease = w THEN NoWorker ELSE lease
  /\ Leave(w)
  /\ UNCHANGED <<redis, applied, faults>>

(***************************************************************************)
(* Lease, time and faults                                                  *)
(***************************************************************************)
\* The heartbeat thread finds another owner, or Redis fails: it stops.
RefreshFails(w) ==
  /\ worker[w].holds
  /\ IF lease = w THEN Fault ELSE UNCHANGED faults
  /\ worker' = [worker EXCEPT ![w].holds = FALSE]
  /\ UNCHANGED <<redis, lease, applied>>

\* A lease nobody refreshes ends; so does one whose owner is stalled.
LeaseExpires ==
  /\ lease # NoWorker
  /\ IF worker[lease].holds THEN Fault ELSE UNCHANGED faults
  /\ lease' = NoWorker
  /\ UNCHANGED <<redis, worker, applied>>

WorkerCrash(w) ==
  /\ worker[w].pc # "off" /\ Fault
  /\ Leave(w)
  /\ UNCHANGED <<redis, lease, applied>>

\* A pending entry has not been delivered for UPLINK_PENDING_RECLAIM_IDLE_MS.  In
\* the batch of the lease's owner nobody looks, so the clock may wait.
BecomesIdle(e) ==
  /\ e \in DOMAIN pending \ idle
  /\ \A w \in Workers : lease = w => e \notin Range(worker[w].batch)
  /\ idle' = idle \cup {e}
  /\ UNCHANGED <<entries, stream, delivered, pending, cursor, letters, marker, markerLate, old,
                 lease, worker, applied, faults>>

\* The age is looked at only after MinDeliveries deliveries.
BecomesOld(e) ==
  /\ e \in DOMAIN pending \ old /\ pending[e] >= MinDeliveries
  /\ old' = old \cup {e}
  /\ UNCHANGED <<entries, stream, delivered, pending, idle, cursor, letters, marker, markerLate,
                 lease, worker, applied, faults>>

\* The backlog outlives the marker.
MarkerExpires ==
  /\ marker # 0 /\ Fault
  /\ marker' = 0 /\ markerLate' = TRUE
  /\ UNCHANGED <<entries, stream, delivered, pending, idle, cursor, letters, old, lease, worker,
                 applied>>

Drain(w) ==
  \/ AcquireLease(w) \/ ClaimStaleEntries(w) \/ ReadNewEntries(w) \/ HandleUplink(w)
  \/ AcknowledgeEntry(w) \/ CountDeliveries(w) \/ QuarantineFailedEntry(w)
  \/ AnotherBatch(w) \/ ReleaseLease(w)

Next ==
  \/ \E f \in Frames : EnqueueUplink(f)
  \/ \E e \in Added : ReplayDeadLetter(e) \/ BecomesIdle(e) \/ BecomesOld(e)
  \/ \E w \in Workers : Drain(w) \/ RefreshFails(w) \/ WorkerCrash(w)
  \/ LeaseExpires \/ MarkerExpires

Spec == Init /\ [][Next]_vars

\* The periodic task runs again and again and its steps end; idle and age are
\* clocks; a lease without heartbeat ends.
FairSpec ==
  /\ Spec
  /\ \A w \in Workers : WF_vars(Drain(w))
  /\ \A e \in Ids : WF_vars(e \in Added /\ BecomesIdle(e)) /\ WF_vars(e \in Added /\ BecomesOld(e))
  /\ WF_vars(LeaseExpires)

(***************************************************************************)
(* Properties                                                              *)
(***************************************************************************)
\* Nothing is stranded: an entry in the stream is still to be delivered or is in
\* the pending list, where a reclaim finds it.
NothingStranded == \A e \in stream : e > delivered \/ e \in DOMAIN pending

\* The watchdog must not take a command for silent while its latest frame waits:
\* until that frame was handled or quarantined, the marker is there, unless its
\* time to live has elapsed.
LatestFrameMarked ==
  LET reports == {e \in Added : entries[e] \in TaskFrames} IN
  \A e \in reports \cap stream : (\A x \in reports : x <= e) => marker = e \/ markerLate

\* Only the owner and time take a lease away: a run that lost its lease and
\* ends late never releases its successor's.
LeaseNotStolen ==
  [][ lease # NoWorker /\ lease' # lease
        => lease' = NoWorker /\ (worker'[lease].pc = "off" \/ UNCHANGED worker) ]_vars

\* A frame that only fails leaves the queue and cannot hold up the others: every
\* entry is eventually acknowledged or quarantined.
EntryLeavesQueue == \A e \in Ids : e \in stream ~> e \notin stream

\* The queue implements the mailbox.
FramesOf(S) == {entries[e] : e \in S}
mailbox == INSTANCE Mailbox WITH Frame <- Frames, waiting <- FramesOf(stream),
                                 dead <- FramesOf({e \in Added : letters[e] > 0}), processed <- applied
KeepsFrames == mailbox!Spec
=============================================================================
