-------------------------- MODULE EndpointSecurity --------------------------
(***************************************************************************)
(* The macOS platform: the client of Apple's Endpoint Security framework   *)
(* (ES), its handler, and the daemon's start and stop                      *)
(* (platform/darwin.go, platform/esf/client.go).  ES calls the handler for *)
(* one message after the other, on a thread of its own.  A process whose   *)
(* operation has an AUTH message waits until the message is answered or    *)
(* the client is gone.                                                     *)
(***************************************************************************)
EXTENDS Integers, Sequences, FiniteSets

CONSTANTS Messages, \* bound: the messages ES has for the client
          Capacity, \* capacity of the enforcer's channel
          Drains,   \* external: es_delete_client waits for a running handler
          Flagged   \* external: the AUTH types ES refuses a plain verdict for

ASSUME ClientAssumption ==
  Capacity \in Nat \ {0} /\ Drains \in BOOLEAN /\ Flagged \subseteq STRING

Groups == <<"process", "file", "network">>
Auth == {"auth exec", "auth open", "auth create"}
Subscribed(g) ==
  CASE g = "process" -> {"auth exec", "exec", "exit", "fork"}
    [] g = "file" -> {"auth open", "auth create", "write", "unlink"}
    [] g = "network" -> {"connect"}
Types == UNION {Subscribed(Groups[i]) : i \in 1..3}

VARIABLES
  pc,       \* of the main goroutine
  todo,     \* the groups Start has yet to subscribe to
  types,    \* the events subscribed to
  es,       \* the ES client: "none", "live", "deleted"
  client,   \* c.client # nil
  running,  \* c.running
  global,   \* globalClient # nil
  stopChan, \* c.stopChan is closed
  type,     \* of each message that has arrived, "none" before
  queue,    \* messages ES has not yet handed over
  state,    \* of each message: "new", "open", "answered", "refused" (ES did not
            \* take the answer), "left" (there was none), "gone"
  hpc,      \* the handler: "idle", "lookup", "send", "respond", "call"
  hmsg,     \* the sequence with the message it works on, or << >>
  eventChan,
  eventLoop, \* the enforcer's event loop runs
  cancelled

main == <<pc, todo>>
conn == <<types, es, client, running, global, stopChan>>
msgs == <<type, queue, state>>
handler == <<hpc, hmsg>>
enforcer == <<eventChan, eventLoop, cancelled>>
vars == <<main, conn, msgs, handler, enforcer>>

TypeOK ==
  /\ pc \in {"new", "starting", "serving", "cancelled", "unregistered",
             "deleting", "deleted", "looping", "stopped", "closed",
             "failed"}
  /\ Len(todo) <= 3 /\ types \subseteq Types
  /\ es \in {"none", "live", "deleted"}
  /\ {client, running, global, stopChan, eventLoop, cancelled} \subseteq BOOLEAN
  /\ type \in [Messages -> Types \cup {"none"}]
  /\ state \in [Messages -> {"new", "open", "answered", "refused", "left", "gone"}]
  /\ hpc \in {"idle", "lookup", "send", "respond", "call"}
  /\ Len(hmsg) = IF hpc = "idle" THEN 0 ELSE 1
  /\ Len(eventChan) <= Capacity

Init ==
  /\ pc = "new" /\ todo = Groups /\ types = {}
  /\ es = "none" /\ client = FALSE /\ running = FALSE /\ global = FALSE
  /\ stopChan = FALSE
  /\ type = [m \in Messages |-> "none"] /\ queue = << >>
  /\ state = [m \in Messages |-> "new"]
  /\ hpc = "idle" /\ hmsg = << >>
  /\ eventChan = << >> /\ eventLoop = FALSE /\ cancelled = FALSE
-----------------------------------------------------------------------------
(* Load and Start. *)

\* Client.Start: ES may refuse; the daemon then ends.
StartClient ==
  /\ pc = "new"
  /\ \/ /\ es' = "live" /\ client' = TRUE /\ running' = TRUE /\ global' = TRUE
        /\ pc' = "starting"
     \/ /\ pc' = "failed" /\ UNCHANGED <<es, client, running, global>>
  /\ UNCHANGED <<todo, types, stopChan, msgs, handler, enforcer>>

\* SubscribeToProcessEvents, then file, then network; a refusal is logged.
Subscribe ==
  /\ pc = "starting" /\ todo # << >>
  /\ \/ types' = types \cup Subscribed(Head(todo))
     \/ types' = types
  /\ todo' = Tail(todo)
  /\ UNCHANGED <<pc, es, client, running, global, stopChan, msgs, handler,
                 enforcer>>

Serve ==
  /\ pc = "starting" /\ todo = << >> /\ pc' = "serving" /\ eventLoop' = TRUE
  /\ UNCHANGED <<todo, conn, msgs, handler, eventChan, cancelled>>
-----------------------------------------------------------------------------
(* Messages and the handler. *)

\* ES has a message; for AUTH the process waits from now on.
Arrive(m) ==
  /\ es = "live" /\ state[m] = "new"
  /\ \E t \in types : type' = [type EXCEPT ![m] = t]
  /\ state' = [state EXCEPT ![m] = "open"] /\ queue' = Append(queue, m)
  /\ UNCHANGED <<main, conn, handler, enforcer>>

Deliver ==
  /\ es = "live" /\ hpc = "idle" /\ queue # << >>
  /\ hpc' = "lookup" /\ hmsg' = <<Head(queue)>> /\ queue' = Tail(queue)
  /\ UNCHANGED <<main, conn, type, state, enforcer>>

\* The handler returns; an AUTH message it has not answered is left.
Returns ==
  /\ hpc' = "idle" /\ hmsg' = << >>
  /\ state' = [state EXCEPT ![hmsg[1]] = IF @ = "open" THEN "left" ELSE @]
  /\ UNCHANGED <<main, conn, type, queue>>

\* goEventHandler: nothing without a client.
goEventHandler ==
  /\ hpc = "lookup"
  /\ \/ ~global /\ Returns
     \/ /\ global /\ hpc' = "send"
        /\ UNCHANGED <<main, conn, msgs, hmsg>>
  /\ UNCHANGED enforcer

\* After the select: an AUTH message is answered, the handler is done with others.
Sent ==
  IF type[hmsg[1]] \in Auth
  THEN hpc' = "respond" /\ UNCHANGED <<main, conn, msgs, hmsg>>
  ELSE Returns

\* Mutant of handleEvent: a full channel ends the handler.
handleEventGivesUp ==
  /\ hpc = "send"
  /\ \/ type[hmsg[1]] = "fork" /\ Returns /\ UNCHANGED eventChan
     \/ /\ type[hmsg[1]] # "fork"
        /\ \/ /\ Len(eventChan) < Capacity /\ Sent
              /\ eventChan' = Append(eventChan, hmsg[1])
           \/ stopChan /\ Returns /\ UNCHANGED eventChan
           \/ Len(eventChan) = Capacity /\ ~stopChan /\ Returns /\ UNCHANGED eventChan
  /\ UNCHANGED <<eventLoop, cancelled>>

\* Mutant of handleEvent: it waits for room in the channel.
handleEventWaits ==
  /\ hpc = "send"
  /\ \/ type[hmsg[1]] = "fork" /\ Returns /\ UNCHANGED eventChan
     \/ /\ type[hmsg[1]] # "fork"
        /\ Len(eventChan) < Capacity /\ Sent
        /\ eventChan' = Append(eventChan, hmsg[1])
  /\ UNCHANGED <<eventLoop, cancelled>>

\* handleEvent: a fork is of no type it knows.  The select sends, or returns
\* when the client is stopping, or, if neither can be, drops the event.
handleEvent ==
  /\ hpc = "send"
  /\ \/ type[hmsg[1]] = "fork" /\ Returns /\ UNCHANGED eventChan
     \/ /\ type[hmsg[1]] # "fork"
        /\ \/ /\ Len(eventChan) < Capacity /\ Sent
              /\ eventChan' = Append(eventChan, hmsg[1])
           \/ stopChan /\ Returns /\ UNCHANGED eventChan
           \/ Len(eventChan) = Capacity /\ ~stopChan /\ Sent /\ UNCHANGED eventChan
  /\ UNCHANGED <<eventLoop, cancelled>>

\* RespondToAuthEvent looks at the client, then answers through it, ALLOW.
RespondToAuthEvent ==
  /\ hpc = "respond"
  /\ \/ ~client /\ Returns
     \/ client /\ hpc' = "call" /\ UNCHANGED <<main, conn, msgs, hmsg>>
  /\ UNCHANGED enforcer

\* es_respond_auth_result: ES may refuse the answer, and does so for a type it
\* wants flags for.  The error it returns is dropped, and the process waits on.
Answer ==
  /\ hpc = "call"
  /\ hpc' = "idle" /\ hmsg' = << >>
  /\ \/ /\ type[hmsg[1]] \notin Flagged
        /\ state' = [state EXCEPT ![hmsg[1]] = "answered"]
     \/ state' = [state EXCEPT ![hmsg[1]] = "refused"]
  /\ UNCHANGED <<main, conn, type, queue, enforcer>>

Handler == Deliver \/ goEventHandler \/ handleEvent \/ RespondToAuthEvent \/ Answer
-----------------------------------------------------------------------------
(* The enforcer's loop, Stop and Close. *)

LoopTakes ==
  /\ eventLoop /\ eventChan # << >> /\ eventChan' = Tail(eventChan)
  /\ UNCHANGED <<main, conn, msgs, handler, eventLoop, cancelled>>

LoopEnds ==
  /\ eventLoop /\ cancelled /\ eventLoop' = FALSE
  /\ UNCHANGED <<main, conn, msgs, handler, eventChan, cancelled>>

Cancel ==
  /\ pc = "serving" /\ pc' = "cancelled" /\ cancelled' = TRUE
  /\ UNCHANGED <<todo, conn, msgs, handler, eventChan, eventLoop>>

\* Client.Stop; a second call finds it stopped.
Unregister ==
  /\ pc = "cancelled" /\ running
  /\ pc' = "unregistered" /\ global' = FALSE
  /\ UNCHANGED <<todo, types, es, client, running, stopChan, msgs, handler,
                 enforcer>>

\* close(stopChan); wg.Wait returns at once, for nothing is ever added to it.
CloseStopChan ==
  /\ pc = "unregistered" /\ pc' = "deleting" /\ stopChan' = TRUE
  /\ UNCHANGED <<todo, types, es, client, running, global, msgs, handler,
                 enforcer>>

\* es_delete_client: ES no longer waits for an answer to anything.
Delete ==
  /\ pc = "deleting" /\ (Drains => hpc = "idle")
  /\ pc' = "deleted" /\ es' = "deleted" /\ types' = {} /\ queue' = << >>
  /\ state' = [m \in Messages |->
                 IF state[m] \in {"open", "refused", "left"} THEN "gone" ELSE state[m]]
  /\ UNCHANGED <<todo, client, running, global, stopChan, type, handler,
                 enforcer>>

Forget ==
  /\ pc = "deleted" /\ pc' = "looping" /\ client' = FALSE /\ running' = FALSE
  /\ UNCHANGED <<todo, types, es, global, stopChan, msgs, handler, enforcer>>

StopWaits ==
  /\ pc = "looping" /\ ~eventLoop /\ pc' = "stopped"
  /\ UNCHANGED <<todo, conn, msgs, handler, enforcer>>

Close ==
  /\ pc = "stopped" /\ ~running /\ pc' = "closed"
  /\ UNCHANGED <<todo, conn, msgs, handler, enforcer>>

Stop == Unregister \/ CloseStopChan \/ Delete \/ Forget \/ StopWaits \/ Close

Next ==
  \/ StartClient \/ Subscribe \/ Serve \/ (\E m \in Messages : Arrive(m))
  \/ Handler \/ LoopTakes \/ LoopEnds \/ Cancel \/ Stop

\* ES calls the handler as long as the client lives and goroutines are scheduled
\* fairly; nothing makes the enforcer's loop take an event in time.
Spec == Init /\ [][Next]_vars
          /\ WF_vars(Handler) /\ WF_vars(LoopEnds) /\ WF_vars(Stop)
-----------------------------------------------------------------------------
\* Until the client is unregistered, a handler returns from an AUTH message only
\* when it has given ES the answer, however full the enforcer's channel is.
\* (Whether ES takes it is another matter: NoneRefused.)
AuthAnswered ==
  pc \in {"starting", "serving", "cancelled"} =>
    \A m \in Messages : type[m] \in Auth => state[m] # "left"

\* An AUTH message is dealt with: ES is given its answer or its client goes, so
\* that no process waits for the enforcer.  The handler waits neither for the
\* enforcer's loop nor for Stop, and what it drops while Stop is under way is
\* gone with the client.
AuthSettled ==
  \A m \in Messages :
    type[m] \in Auth ~> state[m] \in {"answered", "refused", "gone"}

\* esf/client.go:292, "For AUTH events, respond with ALLOW": ES is never left
\* without a verdict.
NoneRefused == \A m \in Messages : state[m] # "refused"

\* Stop and Close return, with or without messages under way.
StopReturns == pc = "cancelled" ~> pc = "closed"

\* No answer goes through a client that was deleted.  It rests on ES alone
\* (Drains): Stop means to wait for handlers, client.go:155, but counts none.
AnswersLiveClient == hpc = "call" => es = "live"
=============================================================================
