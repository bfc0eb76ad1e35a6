----------------------------- MODULE EBPFLoader -----------------------------
(***************************************************************************)
(* eBPF for Windows at work: the programs attached to the kernel, the ring *)
(* buffer they report in, the loader's goroutine that polls it, and the    *)
(* enforcer's loop that judges the events and writes the policy map        *)
(* (etw/ebpf_loader.go, etw/ebpf_policy_map.go, etw/programs/,             *)
(* bpf-windows/).  WindowsPlatform adds the calls that drive it.           *)
(***************************************************************************)
EXTENDS WindowsEvents, FiniteSets

CONSTANTS Machines,   \* what Load may find (machine)
          Actors,     \* <<pid, tid>> of the threads that act
          Subjects,   \* what their operations are about
          SockOps,    \* the codes a network operation has in its context
          Denied,     \* the pids whose events the policy denies
          RingSize,   \* bound: records the ring buffer holds
          ChanSize,   \* capacity of the enforcer's channel
          CounterSize \* the counters are modulo CounterSize (2^64 in the code)

ASSUME LoaderAssumption ==
  /\ {RingSize, ChanSize, CounterSize} \subseteq Nat \ {0}
  /\ Zero \notin Subjects
  /\ Machines \subseteq [detected : BOOLEAN, libbpf : BOOLEAN,
                           files : SUBSET (Programs \cup {"monitor"}),
                           build : Builds]

VARIABLES
  machine,  \* [detected, libbpf, files, build]
  loaded,   \* l.loaded
  object,   \* l.object: the programs of the open object, {} for none
  attached, \* the programs the kernel runs
  ring,     \* the events map: the operations reported and not yet consumed
  rb,       \* l.ringBuf: a consumer exists
  poller,   \* pollEvents: "none", "check", "poll", "callback", "wait", "done"
  stopChan, \* l.stopChan is closed
  rules,    \* policy_map: the keys with ACTION_DENY
  chan,     \* the enforcer's channel: [of: the operation, event]
  loop,     \* the enforcer's event loop runs
  cancelled, \* the enforcer's context is cancelled
  received, dropped, errors, \* the loader's counters
  handled   \* history: how many events the loop has taken

kernel == <<attached, ring, rules>>
counts == <<received, dropped, errors, handled>>
loader == <<loaded, object, rb, poller, stopChan>>
lvars == <<machine, kernel, loader, counts, chan, loop, cancelled>>

\* AF_INET or AF_INET6, or neither.
Families == {"inet", "other"}
Operations ==
  [prog : Programs, pid : {a[1] : a \in Actors}, tid : {a[2] : a \in Actors},
   subject : Subjects, op : SockOps \cup {0}, family : Families]

LoaderTypeOK ==
  /\ machine \in Machines
  /\ loaded \in BOOLEAN /\ object \subseteq Programs /\ attached \subseteq Programs
  /\ \A i \in 1..Len(ring) : ring[i] \in Operations
  /\ Len(ring) <= RingSize /\ Len(chan) <= ChanSize
  /\ \A i \in 1..Len(chan) : chan[i].of \in Operations
  /\ {rb, stopChan, loop, cancelled} \subseteq BOOLEAN
  /\ poller \in {"none", "check", "poll", "callback", "wait", "done"}
  /\ {received, dropped, errors, handled} \subseteq 0..(CounterSize - 1)

LoaderInit ==
  /\ loaded = FALSE /\ object = {} /\ attached = {} /\ ring = << >>
  /\ rb = FALSE /\ poller = "none" /\ stopChan = FALSE /\ rules = {}
  /\ chan = << >> /\ loop = FALSE /\ cancelled = FALSE
  /\ received = 0 /\ dropped = 0 /\ errors = 0 /\ handled = 0
-----------------------------------------------------------------------------
(* The programs.  A record that finds no room is not sent. *)

\* Program o.prog of this build runs for operation o.
Monitors(build, o, blocked) ==
  /\ machine.build = build /\ o.prog \in attached
  /\ ring' = IF blocked \/ Len(ring) = RingSize THEN ring ELSE Append(ring, o)
  /\ UNCHANGED <<machine, loader, counts, attached, rules, chan, loop, cancelled>>

\* etw/programs/ look the pid up in the policy map and block what is denied,
\* unreported.
check_policy(pid) == pid \in rules

process_monitor(a) ==
  \E s \in Subjects :
    Monitors("packed", Operation("process", a, s, 0, "other"), check_policy(a[1]))
file_monitor(a) ==
  \E s \in Subjects :
    Monitors("packed", Operation("file", a, s, 0, "other"), check_policy(a[1]))
network_monitor(a) ==
  \E s \in Subjects, n \in SockOps, f \in Families :
    Monitors("packed", Operation("network", a, s, n, f), check_policy(a[1]))

\* bpf-windows/ have no policy map and block nothing.
bind_process(a) ==
  \E s \in Subjects :
    Monitors("natural", Operation("process", a, s, 0, "other"), FALSE)
bind_file(a) ==
  \E s \in Subjects :
    Monitors("natural", Operation("file", a, s, 0, "other"), FALSE)
bind_network(a) ==
  \E s \in Subjects :
    Monitors("natural", Operation("network", a, s, 0, "other"), FALSE)
-----------------------------------------------------------------------------
(* The polling goroutine. *)

\* Without a ring buffer it only waits for the stop.
PollerQuits ==
  /\ poller \in {"check", "wait"} /\ (stopChan \/ cancelled)
  /\ poller' = "done"
  /\ UNCHANGED <<machine, kernel, counts, loaded, object, rb, stopChan, chan,
                 loop, cancelled>>

PollerPolls ==
  /\ poller = "check" /\ ~stopChan /\ ~cancelled
  /\ poller' = "poll"
  /\ UNCHANGED <<machine, kernel, counts, loaded, object, rb, stopChan, chan,
                 loop, cancelled>>

\* ring_buffer__poll finds a record and calls back; the record is consumed when
\* the callback returns.
PollFinds ==
  /\ poller = "poll" /\ ring # << >> /\ poller' = "callback"
  /\ UNCHANGED <<machine, kernel, counts, loaded, object, rb, stopChan, chan,
                 loop, cancelled>>

\* atomic.Uint64.Add(1)
Add1(n) == IF n + 1 = CounterSize THEN 0 ELSE n + 1

\* Mutant of ringBufferCallback: it waits for room in the channel.
ringBufferCallbackWaits ==
  /\ poller = "callback" /\ ring # << >> /\ Len(chan) < ChanSize
  /\ poller' = "poll"
  /\ received' = Add1(received) /\ ring' = Tail(ring)
  /\ chan' = Append(chan, [of |-> Head(ring),
                           event |-> parseEBPFEvent(machine.build, Head(ring))])
  /\ UNCHANGED <<machine, loaded, object, rb, stopChan, attached, rules, dropped, errors,
                 handled, loop, cancelled>>

\* Mutant of ringBufferCallback: the drop is not counted.
ringBufferCallbackSilent ==
  /\ poller = "callback" /\ ring # << >> /\ poller' = "poll"
  /\ received' = Add1(received) /\ ring' = Tail(ring)
  /\ chan' = IF Len(chan) = ChanSize THEN chan
             ELSE Append(chan, [of |-> Head(ring), event |->
                                parseEBPFEvent(machine.build, Head(ring))])
  /\ UNCHANGED <<machine, loaded, object, rb, stopChan, attached, rules, dropped, errors,
                 handled, loop, cancelled>>

\* An event whose type the parser does not know is an error; one that finds the
\* channel full is dropped.
ringBufferCallback ==
  LET event == parseEBPFEvent(machine.build, Head(ring))
      known == event.type \in Programs
      room == Len(chan) < ChanSize
  IN  /\ poller = "callback" /\ ring # << >> /\ poller' = "poll"
      /\ received' = Add1(received) /\ ring' = Tail(ring)
      /\ errors' = IF known THEN errors ELSE Add1(errors)
      /\ dropped' = IF known /\ ~room THEN Add1(dropped) ELSE dropped
      /\ chan' = IF known /\ room
                 THEN Append(chan, [of |-> Head(ring), event |-> event])
                 ELSE chan
      /\ UNCHANGED <<machine, loaded, object, rb, stopChan, attached, rules, handled, loop,
                     cancelled>>

\* ring_buffer__poll returns: it has caught up, or its time is over.  (One that
\* fails is tried again, like one that found nothing.)
PollReturns ==
  /\ poller = "poll" /\ poller' = "check"
  /\ UNCHANGED <<machine, kernel, counts, loaded, object, rb, stopChan, chan,
                 loop, cancelled>>
-----------------------------------------------------------------------------
(* The enforcer's loop. *)

\* SetRule: the key of a process or network rule is the event's cgroup id, which
\* no Windows event has (NoCgroup); the key of a file rule is a hash.  (A denial
\* for audit is not pushed; the policy here has none.)
NoCgroup == "pid 0"
SetRule(type, subject, deny) ==
  LET key == IF type = "file" THEN subject ELSE NoCgroup
  IN  IF deny THEN rules \cup {key} ELSE rules \ {key}

\* syncToPolicyMap: nothing without a pattern.  The map is there if the object
\* with the policy map was loaded.
Sync(event) ==
  IF object = {} \/ machine.build = "natural" \/ event.subject = Zero THEN rules
  ELSE SetRule(event.type, event.subject, event.pid \in Denied)

LoopHandles ==
  /\ loop /\ chan # << >>
  /\ rules' = Sync(Head(chan).event)
  /\ chan' = Tail(chan) /\ handled' = Add1(handled)
  /\ UNCHANGED <<machine, loader, attached, ring, received, dropped, errors,
                 loop, cancelled>>

LoopEnds ==
  /\ loop /\ cancelled /\ loop' = FALSE
  /\ UNCHANGED <<machine, kernel, loader, counts, chan, cancelled>>

Poller ==
  PollerQuits \/ PollerPolls \/ PollFinds \/ ringBufferCallback \/ PollReturns

Kernel ==
  \E a \in Actors :
    \/ process_monitor(a) \/ file_monitor(a) \/ network_monitor(a)
    \/ bind_process(a) \/ bind_file(a) \/ bind_network(a)
=============================================================================
