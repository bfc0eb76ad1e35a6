------------------------------ MODULE Pipeline ------------------------------
(***************************************************************************)
(* The streaming pipeline (internal/streaming): the event loop of the      *)
(* enforcer emits each judged event into a bounded channel; one goroutine  *)
(* takes them off and writes each to every sink, here a webhook that       *)
(* batches (sink.go) and a syslog connection (siem.go), and flushes the    *)
(* sinks on a ticker.  Close drains the channel, flushes and closes.       *)
(* Events are numbered in the order in which Emit counts them.             *)
(***************************************************************************)
EXTENDS Integers, Sequences

CONSTANTS BufferSize, \* room in eventCh
          BatchSize,  \* WebhookConfig.BatchSize
          MaxEvents   \* bound: events the event loop emits

ASSUME PipelineAssumption ==
  BufferSize \in Nat \ {0} /\ BatchSize \in Nat \ {0} /\ MaxEvents \in Nat

VARIABLES
  emitter,   \* the event loop: "idle", in Emit "checked" or "counted", "ended"
  eventCh,   \* the channel's buffer
  chanOpen,  \* FALSE once Close has closed the channel
  closed,    \* the atomic flag
  closer,    \* Enforcer.Close: "no", "flagged", "waiting", "sinks", "done"
  loop,      \* the pipeline's goroutine: "select", "process", "exited"
  cur,       \* the event it processes
  received, emitted, dropped, sinkErrors, \* pipelineCounters
  batch,     \* the webhook's unsent events
  posted,    \* what the webhook's server has accepted
  lost,      \* how many events went with failed posts
  logged,    \* what has been written to the syslog connection
  panicked   \* a send on the closed channel

pipelineCounters == <<received, emitted, dropped, sinkErrors>>
webhook == <<batch, posted, lost>>
vars == <<emitter, eventCh, chanOpen, closed, closer, loop, cur, pipelineCounters,
          webhook, logged, panicked>>

Events == 1..MaxEvents

TypeOK ==
  /\ emitter \in {"idle", "checked", "counted", "ended"}
  /\ eventCh \in Seq(Events) /\ Len(eventCh) <= BufferSize
  /\ chanOpen \in BOOLEAN /\ closed \in BOOLEAN
  /\ closer \in {"no", "flagged", "waiting", "sinks", "done"}
  /\ loop \in {"select", "process", "exited"}
  /\ cur \in Events \cup {0}
  /\ received \in 0..MaxEvents /\ emitted \in Nat /\ dropped \in Nat
  /\ sinkErrors \in Nat
  /\ batch \in Seq(Events) /\ Len(batch) < BatchSize
  /\ posted \in Seq(Events) /\ lost \in Nat
  /\ logged \in Seq(Events)
  /\ panicked \in BOOLEAN

\* NewPipeline
Init ==
  /\ emitter = "idle" /\ eventCh = << >> /\ chanOpen = TRUE
  /\ closed = FALSE /\ closer = "no" /\ loop = "select" /\ cur = 0
  /\ received = 0 /\ emitted = 0 /\ dropped = 0 /\ sinkErrors = 0
  /\ batch = << >> /\ posted = << >> /\ lost = 0
  /\ logged = << >> /\ panicked = FALSE
-----------------------------------------------------------------------------
(* Emit, called by the event loop for each event. *)

KeepLoop == UNCHANGED <<loop, cur, emitted, sinkErrors, webhook, logged>>
KeepClose == UNCHANGED <<chanOpen, closed, closer>>

\* closed.Load: nothing is emitted into a closed pipeline.
EmitChecks ==
  /\ emitter = "idle" /\ received < MaxEvents
  /\ emitter' = IF closed THEN "idle" ELSE "checked"
  /\ UNCHANGED <<eventCh, received, dropped, panicked>>
  /\ KeepLoop /\ KeepClose

EmitCounts ==
  /\ emitter = "checked"
  /\ emitter' = "counted" /\ received' = received + 1
  /\ UNCHANGED <<eventCh, dropped, panicked>>
  /\ KeepLoop /\ KeepClose

\* Mutant of EmitSends: a full channel drops the event without counting it.
EmitSendsUncounted ==
  /\ emitter = "counted"
  /\ emitter' = "idle"
  /\ eventCh' = IF Len(eventCh) < BufferSize THEN Append(eventCh, received)
                ELSE eventCh
  /\ panicked' = ~chanOpen
  /\ UNCHANGED <<received, dropped>>
  /\ KeepLoop /\ KeepClose

\* The non-blocking send; a send on a closed channel panics.
EmitSends ==
  /\ emitter = "counted"
  /\ emitter' = "idle"
  /\ IF ~chanOpen
     THEN panicked' = TRUE /\ UNCHANGED <<eventCh, dropped>>
     ELSE /\ IF Len(eventCh) < BufferSize
             THEN eventCh' = Append(eventCh, received) /\ UNCHANGED dropped
             ELSE dropped' = dropped + 1 /\ UNCHANGED eventCh
          /\ UNCHANGED panicked
  /\ UNCHANGED received
  /\ KeepLoop /\ KeepClose

\* Enforcer.Stop has waited for the event loop to return.
EmitterEnds ==
  /\ emitter = "idle"
  /\ emitter' = "ended"
  /\ UNCHANGED <<eventCh, received, dropped, panicked>>
  /\ KeepLoop /\ KeepClose
-----------------------------------------------------------------------------
(* The pipeline's goroutine. *)

KeepEmit == UNCHANGED <<emitter, received, dropped, panicked>>

LoopTakes ==
  /\ loop = "select" /\ eventCh # << >>
  /\ loop' = "process" /\ cur' = Head(eventCh) /\ eventCh' = Tail(eventCh)
  /\ UNCHANGED <<emitted, sinkErrors, webhook, logged>>
  /\ KeepEmit /\ KeepClose

\* WebhookSink.Flush of the events b: posted, or lost with an error; the batch
\* is cleared first in either case.
Flush(b, ok) ==
  /\ batch' = << >>
  /\ posted' = IF ok THEN posted \o b ELSE posted
  /\ lost' = IF ok THEN lost ELSE lost + Len(b)

\* Mutant of WebhookWrite: the newest event goes first.
WebhookWritePrepends(e, due, ok) ==
  LET b == <<e>> \o batch
  IN  IF Len(b) >= BatchSize \/ due
      THEN Flush(b, ok)
      ELSE batch' = b /\ UNCHANGED <<posted, lost>>

\* WebhookSink.Write: a full batch, or one that is due by time, is flushed.
WebhookWrite(e, due, ok) ==
  LET b == Append(batch, e)
  IN  IF Len(b) >= BatchSize \/ due
      THEN Flush(b, ok)
      ELSE batch' = b /\ UNCHANGED <<posted, lost>>

\* SyslogSink.Write: an error, to dial again after an earlier one or to write,
\* loses this event only.
SyslogWrite(e, ok) == logged' = IF ok THEN Append(logged, e) ELSE logged

\* How many of the two writes failed.
Errors(flushed, ok1, ok2) ==
  (IF flushed /\ ~ok1 THEN 1 ELSE 0) + (IF ok2 THEN 0 ELSE 1)

\* process: every sink in turn, whatever the others returned.
Process(due, ok1, ok2) ==
  /\ loop = "process"
  /\ loop' = "select" /\ cur' = 0
  /\ WebhookWrite(cur, due, ok1) /\ SyslogWrite(cur, ok2)
  /\ sinkErrors' = sinkErrors + Errors(batch' = << >>, ok1, ok2)
  /\ emitted' = emitted + 1
  /\ UNCHANGED eventCh
  /\ KeepEmit /\ KeepClose

\* flushTicker: only the webhook has something to flush.
LoopFlushes(ok) ==
  /\ loop = "select" /\ batch # << >>
  /\ Flush(batch, ok)
  /\ sinkErrors' = sinkErrors + Errors(TRUE, ok, TRUE)
  /\ UNCHANGED <<loop, cur, eventCh, emitted, logged>>
  /\ KeepEmit /\ KeepClose

\* Mutant of LoopExits: the loop looks at the closed flag, not the channel.
LoopExitsEarly ==
  /\ loop = "select" /\ closed
  /\ loop' = "exited"
  /\ UNCHANGED <<cur, eventCh, emitted, sinkErrors, webhook, logged>>
  /\ KeepEmit /\ KeepClose

\* Mutant of LoopExits: a receive from the closed channel is skipped.
LoopContinues ==
  /\ loop = "select" /\ ~chanOpen /\ eventCh = << >>
  /\ UNCHANGED vars

\* A closed channel is drained before the receive reports it.
LoopExits ==
  /\ loop = "select" /\ ~chanOpen /\ eventCh = << >>
  /\ loop' = "exited"
  /\ UNCHANGED <<cur, eventCh, emitted, sinkErrors, webhook, logged>>
  /\ KeepEmit /\ KeepClose
-----------------------------------------------------------------------------
(* Close, called by Enforcer.Close after Stop. *)

KeepSinks == UNCHANGED <<emitted, sinkErrors, webhook, logged>>

\* Mutant of CloseFlags: Close does not wait for Stop.
CloseFlagsEarly ==
  /\ closer = "no" /\ closer' = "flagged" /\ closed' = TRUE
  /\ UNCHANGED <<chanOpen, eventCh, loop, cur>> /\ KeepSinks /\ KeepEmit

CloseFlags ==
  /\ emitter = "ended"
  /\ closer = "no" /\ closer' = "flagged" /\ closed' = TRUE
  /\ UNCHANGED <<chanOpen, eventCh, loop, cur>> /\ KeepSinks /\ KeepEmit

CloseChannel ==
  /\ closer = "flagged" /\ closer' = "waiting" /\ chanOpen' = FALSE
  /\ UNCHANGED <<closed, eventCh, loop, cur>> /\ KeepSinks /\ KeepEmit

\* wg.Wait
CloseWaits ==
  /\ closer = "waiting" /\ loop = "exited" /\ closer' = "sinks"
  /\ UNCHANGED <<chanOpen, closed, eventCh, loop, cur>>
  /\ KeepSinks /\ KeepEmit

\* Flush and Close of every sink; their errors are returned, not counted.
CloseSinks(ok) ==
  /\ closer = "sinks" /\ closer' = "done"
  /\ Flush(batch, ok)
  /\ UNCHANGED <<chanOpen, closed, eventCh, loop, cur, emitted, sinkErrors,
                 logged>>
  /\ KeepEmit

\* Close has returned.
Terminated == closer = "done" /\ UNCHANGED vars

Next ==
  \/ EmitChecks \/ EmitCounts \/ EmitSends \/ EmitterEnds
  \/ LoopTakes \/ LoopExits
  \/ \E due, ok1, ok2 \in BOOLEAN : Process(due, ok1, ok2)
  \/ \E ok \in BOOLEAN : LoopFlushes(ok)
  \/ CloseFlags \/ CloseChannel \/ CloseWaits
  \/ \E ok \in BOOLEAN : CloseSinks(ok)
  \/ Terminated

\* The goroutines run; every ticker fires, and a post ends one way or another
\* (the client has a timeout).  The event loop is asked to end.  Process need not
\* end: SyslogSink.Write sets no deadline, so it lasts as long as a peer that has
\* stopped reading wants.
Fairness ==
  /\ WF_vars(LoopTakes \/ LoopExits)
  /\ WF_vars(EmitCounts) /\ WF_vars(EmitSends) /\ SF_vars(EmitterEnds)
  /\ WF_vars(CloseFlags \/ CloseChannel \/ CloseWaits)
  /\ WF_vars(\E ok \in BOOLEAN : CloseSinks(ok))

Spec == Init /\ [][Next]_vars /\ Fairness
-----------------------------------------------------------------------------
InEmit == IF emitter = "counted" THEN 1 ELSE 0
InProcess == IF loop = "process" THEN 1 ELSE 0

\* No event leaves the accounts: every event counted as received is counted as
\* emitted or dropped, or is still on its way; and the webhook has every
\* emitted event posted, lost with an error, or in its batch.
EventsAccounted ==
  /\ received = emitted + dropped + Len(eventCh) + InEmit + InProcess
  /\ emitted = Len(posted) + lost + Len(batch)

Increasing(s) == \A i, j \in DOMAIN s : i < j => s[i] < s[j]

\* What a sink gets is in the order of emission, and nothing twice, across
\* full batches, flushes by the ticker, lost posts and reconnections.
InOrder == Increasing(posted \o batch) /\ Increasing(logged)

\* After Close everything that was taken in has reached the sinks.
CloseDrains ==
  closer = "done" =>
    /\ received = emitted + dropped
    /\ eventCh = << >> /\ batch = << >>
    /\ Len(posted) + lost = emitted

\* Every error a sink returned to the loop is counted: a post or a syslog
\* write that failed before Close leaves a trace in SinkErrors.
LossCounted ==
  closer # "done" =>
    /\ lost > 0 => sinkErrors > 0
    /\ emitted - Len(logged) <= sinkErrors

\* Emit never sends on the closed channel: Close runs after the event loop.
NoSendAfterClose == ~panicked

\* Close, and with it the shutdown of the daemon, ends, unless the write of one
\* event to the sinks never does.
CloseEnds == (emitter = "ended") ~> (closer = "done" \/ [](loop = "process"))
=============================================================================
