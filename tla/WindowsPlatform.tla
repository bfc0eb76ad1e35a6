--------------------------- MODULE WindowsPlatform ---------------------------
(***************************************************************************)
(* The Windows platform over the life of the daemon, and over the next one *)
(* after a crash: Load chooses the mode, Start brings up the eBPF loader   *)
(* and the ETW consumer step by step, Enforcer.Stop and Close take them    *)
(* down (platform/windows.go, etw/consumer.go, enforcer.go).  ETW sessions *)
(* belong to the system and outlive the process.                           *)
(***************************************************************************)
EXTENDS EBPFLoader

CONSTANTS MaxLives \* bound: how often the daemon is run

ASSUME LivesAssumption == MaxLives \in Nat \ {0}

VARIABLES
  pc,       \* of the main goroutine
  todo,     \* the steps of Start still to take
  mode,     \* p.mode
  running,  \* c.running
  opened,   \* the sessions with a trace the consumer reads
  started,  \* the sessions the consumer holds a handle of
  sessions, \* the ETW sessions of the system
  leftover, \* those that were there when the daemon was started
  lives

consumer == <<running, opened, started>>
pvars == <<pc, todo, mode, consumer, sessions, leftover, lives>>
vars == <<lvars, pvars>>

Modes == {"etw", "ebpf", "hybrid"}
Ended == {"failed", "closed", "panicked"}

WindowsTypeOK ==
  /\ LoaderTypeOK
  /\ pc \in {"new", "starting", "serving", "cancelled", "waiting", "consumer",
             "looping", "stopped"} \cup Ended
  /\ mode \in Modes /\ running \in BOOLEAN /\ lives \in 1..MaxLives
  /\ started \subseteq Programs /\ opened \subseteq Programs
  /\ sessions \subseteq Programs /\ leftover \subseteq Programs

PlatformInit ==
  /\ pc = "new" /\ todo = << >> /\ mode = "etw"
  /\ running = FALSE /\ opened = {} /\ started = {}

Init ==
  /\ machine \in Machines
  /\ LoaderInit /\ PlatformInit
  /\ sessions = {} /\ leftover = {} /\ lives = 1
-----------------------------------------------------------------------------
(* Load. *)

\* The object the loader opens: warmor_monitor.o, or the first file there is.
Object(files) ==
  IF "monitor" \in files THEN Programs
  ELSE IF "process" \in files THEN {"process"}
  ELSE IF "file" \in files THEN {"file"}
  ELSE IF "network" \in files THEN {"network"} ELSE {}

\* The calls of Start, in order.
Calls(m) ==
  CASE m = "ebpf" -> <<"loader", "process", "file", "network">>
    [] m = "hybrid" -> <<"loader", "network", "consumer", "etwProcess",
                         "etwFile">>
    [] m = "etw" -> <<"consumer", "etwProcess", "etwFile", "etwNetwork">>

\* The programs may be refused, and NewConsumer may fail (it does not today;
\* Load is written for it).  Only the libbpf API yields an object.
Load ==
  /\ pc = "new"
  /\ \E accepted \in BOOLEAN, etw \in BOOLEAN :
       LET ok == machine.detected /\ accepted /\ Object(machine.files) # {}
           m == IF ~ok THEN "etw" ELSE IF etw THEN "hybrid" ELSE "ebpf"
       IN  /\ loaded' = ok
           /\ object' = IF ok /\ machine.libbpf THEN Object(machine.files) ELSE {}
           /\ mode' = m
           /\ pc' = IF ok \/ etw THEN "starting" ELSE "failed"
           /\ todo' = IF ok \/ etw THEN Calls(m) ELSE << >>
  /\ UNCHANGED <<machine, kernel, rb, poller, stopChan, counts, chan, loop,
                 cancelled, consumer, sessions, leftover, lives>>
-----------------------------------------------------------------------------
(* Start: each call in its turn. *)

Turn(step) == pc = "starting" /\ todo # << >> /\ Head(todo) = step /\ todo' = Tail(todo)

\* EBPFLoader.Start; ring_buffer__new may be missing or fail.
StartLoader ==
  /\ Turn("loader")
  /\ \E ok \in BOOLEAN :
       /\ rb' = (ok /\ object # {})
       /\ poller' = IF rb' THEN "check" ELSE "wait"
  /\ UNCHANGED <<machine, kernel, loaded, object, stopChan, counts, chan, loop,
                 cancelled, pc, mode, consumer, sessions, leftover, lives>>

\* A program that is not in the object is skipped; attaching one may fail.
EnableProgram(k) ==
  /\ Turn(k)
  /\ \E ok \in BOOLEAN :
       attached' = IF ok /\ k \in object THEN attached \cup {k} ELSE attached
  /\ UNCHANGED <<machine, ring, rules, loader, counts, chan, loop, cancelled,
                 pc, mode, consumer, sessions, leftover, lives>>

\* Consumer.Start reads the sessions that are enabled when it is called.
StartConsumer ==
  /\ Turn("consumer")
  /\ running' = TRUE /\ opened' = started
  /\ UNCHANGED <<lvars, pc, mode, started, sessions, leftover, lives>>

\* Mutant of EnableSession: the session is kept when its provider is refused.
EnableSessionKeeps(step, k) ==
  /\ Turn(step)
  /\ \E ok \in BOOLEAN :
       /\ started' = IF ok /\ k \notin sessions THEN started \cup {k} ELSE started
       /\ sessions' = sessions \cup {k}
  /\ UNCHANGED <<lvars, pc, mode, running, opened, leftover, lives>>

\* StartTrace fails when a session of that name is there; when the provider
\* cannot be enabled, the session is stopped again.
EnableSession(step, k) ==
  /\ Turn(step)
  /\ \E ok \in BOOLEAN :
       /\ started' = IF ok /\ k \notin sessions THEN started \cup {k} ELSE started
       /\ sessions' = sessions \cup started'
  /\ UNCHANGED <<lvars, pc, mode, running, opened, leftover, lives>>

\* Start has returned; Enforcer.Start spawns the loop.
Serve ==
  /\ pc = "starting" /\ todo = << >>
  /\ pc' = "serving" /\ loop' = TRUE
  /\ UNCHANGED <<machine, kernel, loader, counts, chan, cancelled, todo, mode,
                 consumer, sessions, leftover, lives>>
-----------------------------------------------------------------------------
(* Enforcer.Stop and Close. *)

Cancel ==
  /\ pc = "serving" /\ pc' = "cancelled" /\ cancelled' = TRUE
  /\ UNCHANGED <<machine, kernel, loader, counts, chan, loop, todo, mode,
                 consumer, sessions, leftover, lives>>

\* Both Stop and Close call EBPFLoader.Stop, if there is a loader, and it
\* closes its channel whether or not it is closed.
CloseStopChan ==
  /\ pc \in {"cancelled", "stopped"} /\ mode # "etw"
  /\ stopChan' = TRUE /\ pc' = IF stopChan THEN "panicked" ELSE "waiting"
  /\ UNCHANGED <<machine, kernel, loaded, object, rb, poller, counts, chan, loop,
                 cancelled, todo, mode, consumer, sessions, leftover, lives>>

\* Mutant of Release: it does not wait for the poller.
ReleaseAtOnce ==
  /\ pc = "waiting"
  /\ rb' = FALSE /\ object' = {} /\ loaded' = FALSE
  /\ attached' = {} /\ ring' = << >> /\ rules' = {}
  /\ pc' = "consumer"
  /\ UNCHANGED <<machine, poller, stopChan, counts, chan, loop, cancelled,
                 todo, mode, consumer, sessions, leftover, lives>>

\* wg.Wait; then the ring buffer is freed and the object closed, with its maps
\* and its programs.
Release ==
  /\ pc = "waiting" /\ poller \in {"none", "done"}
  /\ rb' = FALSE /\ object' = {} /\ loaded' = FALSE
  /\ attached' = {} /\ ring' = << >> /\ rules' = {}
  /\ pc' = "consumer"
  /\ UNCHANGED <<machine, poller, stopChan, counts, chan, loop, cancelled,
                 todo, mode, consumer, sessions, leftover, lives>>

\* Consumer.Stop closes the traces and stops the sessions, once.
StopConsumer ==
  /\ pc = "consumer" \/ (pc = "cancelled" /\ mode = "etw")
  /\ running' = FALSE /\ opened' = IF running THEN {} ELSE opened
  /\ sessions' = IF running THEN sessions \ started ELSE sessions
  /\ started' = IF running THEN {} ELSE started
  /\ pc' = "looping"
  /\ UNCHANGED <<lvars, todo, mode, leftover, lives>>

\* Enforcer.Stop waits for the loop.
StopWaits ==
  /\ pc = "looping" /\ ~loop /\ pc' = "stopped"
  /\ UNCHANGED <<lvars, todo, mode, consumer, sessions, leftover, lives>>

\* Close without a loader: Consumer.Stop has nothing left to do.
Close ==
  /\ pc = "stopped" /\ mode = "etw" /\ pc' = "closed"
  /\ UNCHANGED <<lvars, todo, mode, consumer, sessions, leftover, lives>>

\* The daemon ends, is killed or dies, and is run again.
Again ==
  /\ lives < MaxLives /\ pc # "new" /\ lives' = lives + 1
  /\ leftover' = sessions /\ sessions' = sessions
  /\ machine' = machine
  /\ loaded' = FALSE /\ object' = {} /\ attached' = {} /\ ring' = << >>
  /\ rb' = FALSE /\ poller' = "none" /\ stopChan' = FALSE /\ rules' = {}
  /\ chan' = << >> /\ loop' = FALSE /\ cancelled' = FALSE
  /\ received' = 0 /\ dropped' = 0 /\ errors' = 0 /\ handled' = 0
  /\ pc' = "new" /\ todo' = << >> /\ mode' = "etw"
  /\ running' = FALSE /\ opened' = {} /\ started' = {}

Run(A) == pc \notin Ended /\ A /\ UNCHANGED pvars

Start ==
  \/ StartLoader \/ StartConsumer \/ Serve
  \/ \E k \in Programs : EnableProgram(k)
  \/ EnableSession("etwProcess", "process") \/ EnableSession("etwFile", "file")
  \/ EnableSession("etwNetwork", "network")

Stop == CloseStopChan \/ Release \/ StopConsumer \/ StopWaits

Next == \/ Load \/ Start \/ Cancel \/ Stop \/ Close \/ Again
        \/ Run(Kernel) \/ Run(Poller) \/ Run(LoopHandles) \/ Run(LoopEnds)

\* Goroutines are scheduled fairly, and a select of the loop that has several
\* ready cases picks each of them sooner or later.  A poll blocks up to its
\* timeout (ebpf_loader.go:478), so it returns however often it finds a record.
Spec == Init /\ [][Next]_vars
          /\ WF_vars(Stop) /\ WF_vars(Run(LoopEnds))
          /\ WF_vars(Run(Poller)) /\ SF_vars(Run(PollReturns))
-----------------------------------------------------------------------------
\* The poller calls ring_buffer__poll only on a consumer that is not freed, of
\* an object that is open: Stop waits for it first.
RingHeld ==
  poller \in {"check", "poll", "callback"} /\ pc \notin Ended => rb /\ object # {}

\* Of the records received, each was handled, is in the channel, was dropped or
\* could not be parsed, and the loader's counters say which, also when they
\* wrap.
ReceivedAccounted ==
  received = (errors + dropped + handled + Len(chan)) % CounterSize

\* Whichever build of the programs is installed, an event carries the process
\* and the kind of the operation it reports, which is what the enforcer kills
\* by; what it names, if anything, is what the operation was about.
EventTrue ==
  \A i \in 1..Len(chan) :
    LET o == chan[i].of
        e == chan[i].event
    IN  e.type = o.prog /\ e.pid = o.pid /\ e.subject \in {Zero, o.subject}

\* Stop leaves no ETW session behind but those an earlier daemon left, whatever
\* part of Start failed.
SessionsReleased ==
  pc \in {"looping", "stopped", "closed", "panicked"} => sessions = leftover

\* Stop returns: the poller and the loop end although the programs never stop
\* reporting and nobody reads the channel any more.
StopReturns ==
  pc = "cancelled" ~> pc \in {"stopped", "closed", "panicked", "new"}

\* etw/consumer.go:98, "Call Enable*Monitoring() before this.": the sessions
\* that are enabled are read.
SessionsRead == pc = "serving" => started = opened

\* platform/interface.go:23, "Close cleans up resources", after "Stop stops
\* event monitoring": neither panics.
NoPanic == pc # "panicked"

\* etw/programs/warmor_common.h:130 and docs/PLATFORM_WINDOWS.md:110: a denial is pushed
\* to the map under the pid.
DenialPushed ==
  [][LoopHandles /\ Head(chan).event.pid \in Denied /\ object # {}
     /\ machine.build = "packed" => Head(chan).event.pid \in rules']_vars
=============================================================================
