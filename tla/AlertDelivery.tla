---------------------------- MODULE AlertDelivery ----------------------------
(***************************************************************************)
(* The alert engine (AlertEngine::process): incidents of a monitor tick go *)
(* to Telegram with anti-spam and quiet hours, then a heartbeat, then the  *)
(* daily digest of what quiet hours deferred.                              *)
(*                                                                         *)
(* process runs while its caller holds the tick lock, so there is one      *)
(* position pc; "idle" means the lock is free.  Time passes at any moment, *)
(* also between a check and the send it decides.  A message is accepted by *)
(* Telegram and answered in two steps, so that the answer, the process or  *)
(* the database can fail after the message has gone out.                   *)
(*                                                                         *)
(* Abstractions.  An incident is its fingerprint; every make_incident call *)
(* gives a fingerprint one severity.  The hours of a day are 0..DayLen-1.  *)
(* The text of the messages is left out, except how many queued incidents  *)
(* a digest lists.                                                         *)
(***************************************************************************)
EXTENDS Integers, Sequences, FiniteSets

CONSTANTS
  FP,            \* fingerprints
  Severity,      \* Severity[f] in 0 (info), 1 (warning), 2 (critical)
  MinSeverity,   \* telegram.min_severity
  Batches,       \* incident lists a tick may return
  OneShot,       \* fingerprints the monitor reports in one tick only
  Enabled,       \* telegram.enabled
  Window,        \* telegram.anti_spam_window_seconds
  Heartbeat,     \* telegram.heartbeat_minutes, at least 1
  DayLen,        \* hours per day
  QuietStart, QuietEnd, DigestHour,
  DigestLines,   \* queued incidents a digest lists (15)
  MaxQueue,      \* bound: length queued_digest may reach
  MaxTime,       \* bound: the clock
  MaxAlertFaults \* bound: crashes, lost answers, storage errors, hangs

ASSUME AlertAssumption ==
  /\ Severity \in [FP -> 0..2]
  /\ MinSeverity \in 0..2
  /\ Batches \subseteq Seq(FP)
  /\ OneShot \subseteq FP
  /\ Enabled \in BOOLEAN
  /\ Window \in Nat
  /\ Heartbeat \in Nat \ {0}
  /\ DayLen \in Nat \ {0}
  /\ QuietStart \in 0..(DayLen - 1) /\ QuietEnd \in 0..(DayLen - 1)
  /\ DigestHour \in 0..(DayLen - 1)
  /\ DigestLines \in Nat /\ MaxQueue \in Nat
  /\ MaxTime \in Nat /\ MaxAlertFaults \in Nat

VARIABLES
  now,           \* Utc::now()
  at,            \* position in process
  pending,       \* incidents still to be handled, the current one first
  stamp,         \* the `now` a heartbeat or a digest was decided with
  queue,         \* queued_digest, volatile
  sentAt,        \* alerts_sent: last row of a fingerprint
  heartbeatLast, \* app_state['heartbeat_last_sent']
  digestDays,    \* days with a digest_last_sent key
  emitted,       \* history: fingerprints reported so far
  lastDelivered, \* history: when Telegram last accepted an alert for f
  spam,          \* history: f was delivered twice within the window
  tainted,       \* history: f was delivered without a row, or read blindly
  digested,      \* history: days with a delivered digest ...
  digestTwice,   \* ... and with more than one
  digestTainted, \* history: days whose digest key was not stored or not read
  unlisted,      \* history: fingerprints dropped by a digest without a line
  refused,       \* history: fingerprints whose last send returned an error
  alertFaults

alertRows == <<sentAt, heartbeatLast, digestDays>>
alertHistory == <<emitted, lastDelivered, spam, tainted, refused>>
digestHistory == <<digested, digestTwice, digestTainted, unlisted>>
history == <<alertHistory, digestHistory>>
alertVars == <<now, at, pending, stamp, queue, alertRows, history, alertFaults>>

Never == -(Window + 1)        \* before every cutoff
Day(t) == t \div DayLen
Hour(t) == t % DayLen
Days == {Day(t) : t \in 0..MaxTime}
SendPC == {"sendIncident", "sendHeartbeat", "sendDigest"}
AcceptedPC == {"acceptedIncident", "acceptedHeartbeat", "acceptedDigest"}
AlertPC == {"idle", "incident", "heartbeat", "digest", "hung"}
        \union SendPC \union AcceptedPC

AlertTypeOK ==
  /\ now \in 0..MaxTime
  /\ at \in AlertPC
  /\ pending \in Seq(FP)
  /\ at \in {"sendIncident", "acceptedIncident"} => pending # <<>>
  /\ stamp \in 0..MaxTime
  /\ queue \in Seq(FP)
  /\ sentAt \in [FP -> Int]
  /\ heartbeatLast \in Int
  /\ digestDays \subseteq Days
  /\ emitted \subseteq FP
  /\ lastDelivered \in [FP -> Int]
  /\ spam \subseteq FP /\ tainted \subseteq FP
  /\ digested \subseteq Days /\ digestTwice \subseteq Days
  /\ digestTainted \subseteq Days
  /\ unlisted \subseteq FP /\ refused \subseteq FP
  /\ alertFaults \in 0..MaxAlertFaults

(***************************************************************************)
(* Conditions of the code.                                                 *)
(***************************************************************************)

\* in_quiet_hours: an empty range when start = end, wrapping past midnight
\* when start > end.
InQuietHours ==
  LET h == Hour(now)
  IN  /\ QuietStart # QuietEnd
      /\ IF QuietStart < QuietEnd THEN QuietStart <= h /\ h < QuietEnd
         ELSE h >= QuietStart \/ h < QuietEnd

\* Mutant of SentRecently: the cutoff itself no longer counts.
SentAfterCutoff(f) == sentAt[f] > now - Window

\* was_alert_sent_recently.
SentRecently(f) == sentAt[f] >= now - Window

BelowMinimum(f) == Severity[f] < MinSeverity
Deferred(f) == InQuietHours /\ Severity[f] # 2

HeartbeatDue == Enabled /\ now >= heartbeatLast + Heartbeat

\* Mutant of DigestDue: the day's key is not consulted.
DigestDueAnyTick == Enabled /\ Hour(now) = DigestHour /\ queue # <<>>

\* The conditions of process_digest.
DigestDue ==
  /\ Enabled
  /\ Hour(now) = DigestHour
  /\ Day(now) \notin digestDays
  /\ queue # <<>>

Lines(q) == {q[i] : i \in {j \in 1..Len(q) : j <= DigestLines}}
-----------------------------------------------------------------------------
AlertInit ==
  /\ now = 0 /\ at = "idle" /\ pending = <<>> /\ stamp = 0 /\ queue = <<>>
  /\ sentAt = [f \in FP |-> Never]
  /\ heartbeatLast = -Heartbeat /\ digestDays = {}
  /\ emitted = {}
  /\ lastDelivered = [f \in FP |-> Never]
  /\ spam = {} /\ tainted = {}
  /\ digested = {} /\ digestTwice = {}
  /\ digestTainted = {} /\ unlisted = {} /\ refused = {}
  /\ alertFaults = 0

AlertFault == alertFaults < MaxAlertFaults /\ alertFaults' = alertFaults + 1

\* The clock runs independently of the daemon.
Advance ==
  /\ now < MaxTime
  /\ now' = now + 1
  /\ UNCHANGED <<at, pending, stamp, queue, alertRows, history, alertFaults>>

\* A tick returned its incidents and process starts, under the tick lock.
\* What the monitor reports once (a missed attestation, guarded by the
\* liveness checkpoint) is in one batch only.
Begin(batch) ==
  /\ at = "idle"
  /\ Len(queue) + Len(batch) <= MaxQueue
  /\ LET fs == {batch[i] : i \in 1..Len(batch)}
     IN  /\ fs \intersect OneShot \intersect emitted = {}
         /\ emitted' = emitted \union fs
  /\ pending' = batch
  /\ at' = "incident"
  /\ UNCHANGED <<now, stamp, queue, alertRows, lastDelivered, spam, tainted, refused,
                 digestHistory, alertFaults>>

(***************************************************************************)
(* process_incidents: one round of its loop, or the end of it.             *)
(***************************************************************************)
NextIncident == at' = "incident" /\ pending' = Tail(pending)

SkipIncident ==
  /\ at = "incident" /\ pending # <<>>
  /\ BelowMinimum(Head(pending)) \/ SentRecently(Head(pending))
  /\ NextIncident
  /\ UNCHANGED <<now, stamp, queue, alertRows, history, alertFaults>>

\* Mutant of DeferIncident: the incident is deferred but not queued.
DeferIncidentForgets ==
  /\ at = "incident" /\ pending # <<>>
  /\ ~BelowMinimum(Head(pending)) /\ ~SentRecently(Head(pending))
  /\ Deferred(Head(pending))
  /\ NextIncident
  /\ UNCHANGED <<now, stamp, queue, alertRows, history, alertFaults>>

DeferIncident ==
  /\ at = "incident" /\ pending # <<>>
  /\ ~BelowMinimum(Head(pending)) /\ ~SentRecently(Head(pending))
  /\ Deferred(Head(pending))
  /\ queue' = Append(queue, Head(pending))
  /\ refused' = refused \ {Head(pending)}
  /\ NextIncident
  /\ UNCHANGED <<now, stamp, alertRows, emitted, lastDelivered, spam, tainted,
                 digestHistory, alertFaults>>

SendIncident ==
  /\ at = "incident" /\ pending # <<>>
  /\ ~BelowMinimum(Head(pending)) /\ ~SentRecently(Head(pending))
  /\ ~Deferred(Head(pending))
  /\ at' = "sendIncident"
  /\ UNCHANGED <<now, pending, stamp, queue, alertRows, history, alertFaults>>

\* The dedupe query fails and unwrap_or(false) takes it for "not sent".
HandleIncidentBlindly ==
  /\ at = "incident" /\ pending # <<>>
  /\ ~BelowMinimum(Head(pending))
  /\ AlertFault
  /\ tainted' = tainted \union {Head(pending)}
  /\ \/ /\ Deferred(Head(pending))
        /\ queue' = Append(queue, Head(pending))
        /\ refused' = refused \ {Head(pending)}
        /\ NextIncident
     \/ /\ ~Deferred(Head(pending))
        /\ at' = "sendIncident"
        /\ UNCHANGED <<queue, pending, refused>>
  /\ UNCHANGED <<now, stamp, alertRows, emitted, lastDelivered, spam, digestHistory>>

IncidentsDone ==
  /\ at = "incident" /\ pending = <<>>
  /\ at' = "heartbeat"
  /\ UNCHANGED <<now, pending, stamp, queue, alertRows, history, alertFaults>>

(***************************************************************************)
(* process_heartbeat and process_digest, up to the send.                   *)
(***************************************************************************)
HeartbeatCheck ==
  /\ at = "heartbeat"
  /\ at' = IF HeartbeatDue THEN "sendHeartbeat" ELSE "digest"
  /\ stamp' = IF HeartbeatDue THEN now ELSE stamp
  /\ UNCHANGED <<now, pending, queue, alertRows, history, alertFaults>>

DigestCheck ==
  /\ at = "digest"
  /\ at' = IF DigestDue THEN "sendDigest" ELSE "idle"
  /\ stamp' = IF DigestDue THEN now ELSE stamp
  /\ UNCHANGED <<now, pending, queue, alertRows, history, alertFaults>>

\* get_state of the last heartbeat fails: unwrap_or(0) makes it due.
HeartbeatBlindly ==
  /\ at = "heartbeat" /\ Enabled
  /\ AlertFault
  /\ at' = "sendHeartbeat"
  /\ stamp' = now
  /\ UNCHANGED <<now, pending, queue, alertRows, history>>

\* get_state of the day's key fails and counts as "not sent".
DigestBlindly ==
  /\ at = "digest" /\ Enabled
  /\ Hour(now) = DigestHour /\ queue # <<>>
  /\ AlertFault
  /\ at' = "sendDigest"
  /\ stamp' = now
  /\ digestTainted' = digestTainted \union {Day(now)}
  /\ UNCHANGED <<now, pending, queue, alertRows, alertHistory, digested, digestTwice,
                 unlisted>>

(***************************************************************************)
(* send_message.  When Telegram is disabled it returns Ok and sends        *)
(* nothing; otherwise Telegram accepts the message, refuses it, or never   *)
(* answers: the client is built without a timeout.                         *)
(***************************************************************************)
AcceptIncident ==
  /\ at = "sendIncident"
  /\ LET f == Head(pending)
     IN  IF Enabled
         THEN /\ lastDelivered' = [lastDelivered EXCEPT ![f] = now]
              /\ spam' = IF now <= lastDelivered[f] + Window
                         THEN spam \union {f} ELSE spam
         ELSE UNCHANGED <<lastDelivered, spam>>
  /\ refused' = refused \ {Head(pending)}
  /\ at' = "acceptedIncident"
  /\ UNCHANGED <<now, pending, stamp, queue, alertRows, emitted, tainted,
                 digestHistory, alertFaults>>

AcceptHeartbeat ==
  /\ at = "sendHeartbeat"
  /\ at' = "acceptedHeartbeat"
  /\ UNCHANGED <<now, pending, stamp, queue, alertRows, history, alertFaults>>

AcceptDigest ==
  /\ at = "sendDigest"
  /\ digested' = digested \union {Day(stamp)}
  /\ digestTwice' = digestTwice \union ({Day(stamp)} \intersect digested)
  /\ at' = "acceptedDigest"
  /\ UNCHANGED <<now, pending, stamp, queue, alertRows, alertHistory, digestTainted,
                 unlisted, alertFaults>>

\* Mutant of SendFails: the digest queue is cleared although nothing went out.
SendFailsClearsQueue ==
  /\ at = "sendDigest"
  /\ AlertFault
  /\ at' = "idle" /\ queue' = <<>>
  /\ UNCHANGED <<now, pending, stamp, alertRows, history>>

\* Mutant of SendFails: a row is written whether or not the send succeeded.
SendFailsRecorded ==
  /\ at = "sendIncident"
  /\ Enabled
  /\ AlertFault
  /\ sentAt' = [sentAt EXCEPT ![Head(pending)] = now]
  /\ refused' = refused \union {Head(pending)}
  /\ NextIncident
  /\ UNCHANGED <<now, stamp, queue, heartbeatLast, digestDays, emitted, lastDelivered,
                 spam, tainted, digestHistory>>

\* Err before Telegram accepted: logged, and the loop goes on.
SendFails ==
  /\ at \in SendPC
  /\ Enabled
  /\ AlertFault
  /\ \/ /\ at = "sendIncident"
        /\ NextIncident
        /\ refused' = refused \union {Head(pending)}
     \/ /\ at = "sendHeartbeat"
        /\ at' = "digest"
        /\ UNCHANGED <<pending, refused>>
     \/ /\ at = "sendDigest"
        /\ at' = "idle"
        /\ UNCHANGED <<pending, refused>>
  /\ UNCHANGED <<now, stamp, queue, alertRows, emitted, lastDelivered, spam, tainted,
                 digestHistory>>

\* The connection stalls for good; the accepted alert is never recorded.
SendHangs ==
  /\ at \in SendPC \union AcceptedPC
  /\ Enabled
  /\ AlertFault
  /\ at' = "hung"
  /\ tainted' = IF at = "acceptedIncident" THEN tainted \union {Head(pending)}
                ELSE tainted
  /\ digestTainted' = IF at = "acceptedDigest"
                      THEN digestTainted \union {Day(stamp)} ELSE digestTainted
  /\ UNCHANGED <<now, pending, stamp, queue, alertRows, emitted, lastDelivered, spam,
                 refused, digested, digestTwice, unlisted>>

(***************************************************************************)
(* What follows an answered send.                                          *)
(***************************************************************************)
RecordIncident ==
  /\ at = "acceptedIncident"
  /\ sentAt' = [sentAt EXCEPT ![Head(pending)] = now]
  /\ NextIncident
  /\ UNCHANGED <<now, stamp, queue, heartbeatLast, digestDays, history, alertFaults>>

\* The answer is lost, or record_alert_sent fails and `let _` drops the error.
RecordIncidentFails ==
  /\ at = "acceptedIncident"
  /\ AlertFault
  /\ tainted' = tainted \union {Head(pending)}
  /\ NextIncident
  /\ UNCHANGED <<now, stamp, queue, alertRows, emitted, lastDelivered, spam, refused,
                 digestHistory>>

RecordHeartbeat ==
  /\ at = "acceptedHeartbeat"
  /\ \/ heartbeatLast' = stamp /\ UNCHANGED alertFaults
     \/ AlertFault /\ UNCHANGED heartbeatLast
  /\ at' = "digest"
  /\ UNCHANGED <<now, pending, stamp, queue, sentAt, digestDays, history>>

\* The queue is cleared first, then the day's key is stored; storing may fail.
RecordDigest ==
  /\ at = "acceptedDigest"
  /\ queue' = <<>>
  /\ unlisted' = unlisted \union
       ({queue[i] : i \in 1..Len(queue)} \ Lines(queue))
  /\ \/ /\ digestDays' = digestDays \union {Day(stamp)}
        /\ UNCHANGED <<digestTainted, alertFaults>>
     \/ /\ AlertFault
        /\ digestTainted' = digestTainted \union {Day(stamp)}
        /\ UNCHANGED digestDays
  /\ at' = "idle"
  /\ UNCHANGED <<now, pending, stamp, sentAt, heartbeatLast, alertHistory, digested,
                 digestTwice>>

\* The digest's answer is lost: an Err, so the queue and the key stay.
DigestAnswerLost ==
  /\ at = "acceptedDigest"
  /\ AlertFault
  /\ digestTainted' = digestTainted \union {Day(stamp)}
  /\ at' = "idle"
  /\ UNCHANGED <<now, pending, stamp, queue, alertRows, alertHistory, digested,
                 digestTwice, unlisted>>

\* The daemon dies and is started again: the queue is in memory only.
AlertRestart ==
  /\ AlertFault
  /\ at' = "idle" /\ pending' = <<>> /\ stamp' = 0 /\ queue' = <<>>
  /\ tainted' = IF at = "acceptedIncident" THEN tainted \union {Head(pending)}
                ELSE tainted
  /\ digestTainted' = IF at = "acceptedDigest"
                      THEN digestTainted \union {Day(stamp)} ELSE digestTainted
  /\ UNCHANGED <<now, alertRows, emitted, lastDelivered, spam, refused, digested,
                 digestTwice, unlisted>>

\* Steps of process that the runtime keeps executing.
Step ==
  \/ SkipIncident
  \/ DeferIncident
  \/ SendIncident
  \/ IncidentsDone
  \/ HeartbeatCheck
  \/ DigestCheck
  \/ AcceptIncident
  \/ AcceptHeartbeat
  \/ AcceptDigest
  \/ RecordIncident
  \/ RecordHeartbeat
  \/ RecordDigest

AlertFailure ==
  \/ HandleIncidentBlindly
  \/ HeartbeatBlindly
  \/ DigestBlindly
  \/ SendFails
  \/ SendHangs
  \/ RecordIncidentFails
  \/ DigestAnswerLost
  \/ AlertRestart

Tick == \E batch \in Batches : Begin(batch)

AlertNext == Advance \/ Tick \/ Step \/ AlertFailure

AlertSpec == AlertInit /\ [][AlertNext]_alertVars

\* The monitor loop ticks again after each process, and process runs on.
AlertFairSpec == AlertSpec /\ WF_alertVars(Step) /\ WF_alertVars(Tick)
-----------------------------------------------------------------------------
(***************************************************************************)
(* Properties.                                                             *)
(***************************************************************************)

\* Two alerts of one fingerprint are more than the anti-spam window apart,
\* unless one went out whose row could not be written or read: the check and
\* the row bracket a send that may take any time (process_incidents).
AntiSpam == spam \subseteq tainted

\* At most one digest a day, unless its key could not be written or read.
OneDigestPerDay == digestTwice \subseteq digestTainted

\* What quiet hours deferred leaves the queue in one way only, with a digest
\* Telegram has accepted for all of it; otherwise the process has restarted.
DeferredUntilDigest ==
  [][queue' # queue /\ Len(queue') <= Len(queue) =>
       \/ at = "acceptedDigest" /\ queue' = <<>>
       \/ AlertRestart]_alertVars

\* Telegram has accepted an alert for f whose row is not older than the window.
Suppressed(f) == lastDelivered[f] >= 0 /\ now <= sentAt[f] + Window

\* No incident leaves the loop unseen, whatever fails: it is below the minimum,
\* queued for the digest, accepted by Telegram or refused, or it is skipped
\* because Telegram has accepted an alert for it whose row is not older than the
\* window; otherwise the process has restarted (process_incidents).
NothingSkippedUnsent ==
  [][Enabled /\ pending # <<>> /\ pending' # pending =>
       LET f == Head(pending)
       IN  \/ BelowMinimum(f)
           \/ queue' = Append(queue, f)
           \/ at = "acceptedIncident" /\ lastDelivered[f] >= 0
           \/ at = "sendIncident" /\ f \in refused'
           \/ Suppressed(f)
           \/ AlertRestart]_alertVars

\* An alert whose send failed is sent again, or deferred to the digest, if the
\* monitor goes on reporting its incident; only the row of an alert Telegram did
\* accept may keep it back (process_incidents logs the error and goes on).
RefusedIsRetried ==
  \A f \in FP :
    []<>(at = "incident" /\ pending # <<>> /\ Head(pending) = f) =>
      []<>(f \notin refused \/ Suppressed(f))

\* The documented promise: no duplicate inside the window, restarts included.
NoDuplicateInWindow == spam = {}

\* The documented promise: monitoring continues while Telegram is down.
MonitoringContinues == []<>(at = "idle")

\* The documented promise: an alert whose send failed is retried.
FailedSendIsRetried ==
  \A f \in FP : (f \in refused) ~> (lastDelivered[f] >= 0)

\* The documented promise: what quiet hours deferred is in the digest.
DeferredIsListed == unlisted = {}
=============================================================================
