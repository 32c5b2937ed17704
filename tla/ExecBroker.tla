----------------------------- MODULE ExecBroker -----------------------------
(***************************************************************************)
(* The broker of tc-exec (cmd/tc-exec): commands are submitted over a Unix *)
(* socket, kept in memory, and started once, over the socket again or over *)
(* a mailbox of two FIFOs that a goroutine serves.  Dispatchers of the     *)
(* mailbox are killed at any moment; the broker is signalled, crashes and  *)
(* starts again with a fresh session directory and an empty job table.     *)
(*                                                                         *)
(* A command is the job's identifier, which no other job ever has.  What   *)
(* is locked by b.mu, and what one system call does, is one step.          *)
(***************************************************************************)
EXTENDS Naturals, Sequences, FiniteSets

CONSTANTS
  Jobs,           \* job identifiers
  Handlers,       \* goroutines that serve a connection of the socket
  Dispatchers,    \* processes running "tc-exec dispatch --mailbox"
  maxJobs, maxWorkers, maxConnections,
  MaxBytes,       \* bound: bytes in a request FIFO
  MaxSessions,    \* bound: times the broker is started
  None            \* no time, no job, no result

\* The replies of a dispatch.  Those of a command, and of a bwrap that could not be
\* started, have a status and no error; the others have an error.
Complete == {"ok", "not run"}
Replies  == Complete \cup {"no sandbox", "timed out", "unknown", "busy"}

ASSUME BrokerAssumption ==
  /\ {maxJobs, maxWorkers, maxConnections, MaxBytes, MaxSessions} \subseteq Nat
  /\ Jobs \cap Handlers = {}
  /\ None \notin Jobs \cup {"fresh", "old"} \cup Replies

VARIABLES
  phase,         \* serve: "up", "closing" (in closeMailbox) or "down"
  signalled,     \* the signal's context is done
  session,       \* which start of the broker this is
  jobs,          \* b.jobs: each job in it, younger than jobTTL or older
  mailboxActive, \* b.mailboxActive
  box,           \* where each job's mailbox goroutine is
  cancelled,     \* mailbox goroutines whose own context was cancelled
  pipe,          \* bytes in each request FIFO
  response,      \* what is in each response FIFO
  dirs,          \* job directories on disk, with their session
  sessions,      \* session directories on disk
  call,          \* each dispatch under way: [pc, job, result]
  disp,          \* each dispatcher: [pc, job, result]
  started        \* history: how often bwrap was started with each job's command

vars == <<phase, signalled, session, jobs, mailboxActive, box, cancelled, pipe,
          response, dirs, sessions, call, disp, started>>

Idle == [pc |-> "idle", job |-> None, result |-> None]

\* A dispatch is made by a connection or by the mailbox goroutine of a job.
Callers == Handlers \cup Jobs

Known     == {j \in Jobs : jobs[j] # None}
Served    == {j \in Jobs : box[j] \notin {"none", "gone"}}
Working   == {c \in Callers : call[c].pc \in {"ready", "run"}}
Connected == {h \in Handlers : call[h].pc # "idle"}

\* Writers of a request FIFO.
Writers(j) == {d \in Dispatchers : disp[d].job = j /\ disp[d].pc \in {"locked", "wait"}}

\* mailboxContext: cancelled by the signal or by closeMailbox.
MailboxDone == signalled \/ phase = "closing"

\* (Faulty variants are named Bad...: each is a slip this code could have, and a
\* property of the module rejects it.)

\* Only a dispatcher's going away ends a mailbox's command, not the shutdown.
BadCtxDone(c) == IF c \in Jobs THEN c \in cancelled ELSE signalled

\* The context a dispatch runs under.
CtxDone(c) == IF c \in Jobs THEN MailboxDone \/ c \in cancelled ELSE signalled

Up == phase # "down"

TypeOK ==
  /\ phase \in {"up", "closing", "down"} /\ signalled \in BOOLEAN
  /\ session \in 0 .. MaxSessions
  /\ jobs \in [Jobs -> {None, "fresh", "old"}] /\ mailboxActive \in Nat
  /\ box \in [Jobs -> {"none", "wait", "serve", "reap", "forget", "clean", "gone"}]
  /\ cancelled \subseteq Jobs /\ pipe \in [Jobs -> Seq({"D", "other"})]
  /\ response \in [Jobs -> Replies \cup {None}]
  /\ dirs \subseteq Jobs \X (1 .. MaxSessions) /\ sessions \subseteq 1 .. MaxSessions
  /\ DOMAIN call = Callers /\ DOMAIN disp = Dispatchers
  /\ started \in [Jobs -> Nat]

Init ==
  /\ phase = "down" /\ signalled = FALSE /\ session = 0
  /\ jobs = [j \in Jobs |-> None] /\ mailboxActive = 0
  /\ box = [j \in Jobs |-> "none"] /\ cancelled = {}
  /\ pipe = [j \in Jobs |-> <<>>] /\ response = [j \in Jobs |-> None]
  /\ dirs = {} /\ sessions = {}
  /\ call = [c \in Callers |-> Idle] /\ disp = [d \in Dispatchers |-> Idle]
  /\ started = [j \in Jobs |-> 0]

\* Ten minutes pass: time.Since(j.created) is beyond jobTTL from now on.
Age(j) ==
  /\ jobs[j] = "fresh" /\ jobs' = [jobs EXCEPT ![j] = "old"]
  /\ UNCHANGED <<phase, signalled, session, mailboxActive, box, cancelled, pipe, response, dirs,
                 sessions, call, disp, started>>

-----------------------------------------------------------------------------
(***************************************************************************)
(* serve: start, signal, shutdown.                                         *)
(***************************************************************************)

\* serve and openMailbox: a session directory of a fresh name, no jobs.
Serve ==
  /\ phase = "down" /\ session < MaxSessions
  /\ session' = session + 1 /\ phase' = "up"
  /\ sessions' = sessions \cup {session + 1}
  /\ UNCHANGED <<signalled, jobs, mailboxActive, box, cancelled, pipe, response, dirs, call, disp,
                 started>>

\* SIGINT or SIGTERM: the listener is closed, contexts end.
Signal ==
  /\ Up /\ ~signalled /\ signalled' = TRUE
  /\ UNCHANGED <<phase, session, jobs, mailboxActive, box, cancelled, pipe, response,
                 dirs, sessions, call, disp, started>>

\* Accept fails, because of the signal or by itself: closeMailbox begins.  It sets
\* mailboxClosing and cancels mailboxContext.
CloseMailbox ==
  /\ phase = "up" /\ phase' = "closing"
  /\ UNCHANGED <<signalled, session, jobs, mailboxActive, box, cancelled, pipe, response,
                 dirs, sessions, call, disp, started>>

\* The process is gone: so are its memory, its goroutines, and its commands
\* (--die-with-parent).  What is in a FIFO without a reader is lost.
Exit ==
  /\ phase' = "down"
  /\ jobs' = [j \in Jobs |-> None] /\ mailboxActive' = 0
  /\ box' = [j \in Jobs |-> IF box[j] = "none" THEN "none" ELSE "gone"]
  /\ cancelled' = {} /\ pipe' = [j \in Jobs |-> <<>>]
  /\ call' = [c \in Callers |-> Idle] /\ signalled' = FALSE
  /\ UNCHANGED <<session, response, disp, started>>

\* mailboxWG.Wait is over: the session's directory is removed if it is empty.
BadClosed ==
  /\ phase = "closing"
  /\ sessions' = IF \E j \in Jobs : <<j, session>> \in dirs
                 THEN sessions ELSE sessions \ {session}
  /\ UNCHANGED dirs /\ Exit

Closed ==
  /\ phase = "closing" /\ Served = {}
  /\ sessions' = IF \E j \in Jobs : <<j, session>> \in dirs
                 THEN sessions ELSE sessions \ {session}
  /\ UNCHANGED dirs /\ Exit

Crash == Up /\ UNCHANGED <<dirs, sessions>> /\ Exit

-----------------------------------------------------------------------------
(***************************************************************************)
(* process: submit and dispatch.  handle serves one message per connection *)
(* and at most maxConnections at a time.                                   *)
(***************************************************************************)

\* A connection made before the signal is served after it too.
Connectable == Up /\ Cardinality(Connected) < maxConnections

\* expire: jobs older than their TTL leave the table.
expire == [j \in Jobs |-> IF jobs[j] = "old" THEN None ELSE jobs[j]]

Sweep ==
  /\ Up /\ ~signalled /\ jobs' = expire
  /\ UNCHANGED <<phase, signalled, session, mailboxActive, box, cancelled, pipe, response,
                 dirs, sessions, call, disp, started>>

\* The mailboxes being served are not counted against the limit.
BadBusy == Cardinality({k \in Jobs : expire[k] # None}) >= maxJobs

Busy == \/ Cardinality({k \in Jobs : expire[k] # None}) >= maxJobs
        \/ mailboxActive >= maxJobs

\* newMailboxJob: the pipes exist and are open before the directory gets its name, and
\* the goroutine serves them from then on.  A broker that is closing makes none.
newMailboxJob(j) ==
  /\ phase = "up"
  /\ box' = [box EXCEPT ![j] = "wait"] /\ mailboxActive' = mailboxActive + 1
  /\ dirs' = dirs \cup {<<j, session>>}

\* submit.  When it is refused, or the directory cannot be made, nothing is changed but
\* what expired.
Submit(j) ==
  /\ Connectable /\ box[j] = "none"
  /\ \/ ~Busy /\ newMailboxJob(j) /\ jobs' = [expire EXCEPT ![j] = "fresh"]
     \/ jobs' = expire /\ UNCHANGED <<box, mailboxActive, dirs>>
  /\ UNCHANGED <<phase, signalled, session, cancelled, pipe, response, sessions, call,
                 disp, started>>

Unchanged == UNCHANGED <<phase, signalled, session, mailboxActive, dirs, sessions>>

\* What a dispatch comes to before anything is run: no worker's slot is free, or the
\* job is not in the table any more, or is too old.
Refused(j) ==
  IF Cardinality(Working) >= maxWorkers THEN "busy"
  ELSE IF jobs[j] # "fresh" THEN "unknown" ELSE None

\* A connection's answer is not kept; the mailbox goroutine waits for its own.
Ended(c, result) == IF c \in Handlers THEN Idle ELSE [pc |-> "end", result |-> result, job |-> c]

\* The job stays in the table.
BadDispatch(c, j) ==
  /\ call' = [call EXCEPT ![c] = IF Refused(j) = None
                                 THEN [pc |-> "ready", job |-> j, result |-> None]
                                 ELSE Ended(c, Refused(j))]
  /\ UNCHANGED jobs
  /\ Unchanged /\ UNCHANGED <<box, cancelled, pipe, response, disp, started>>

\* dispatch: with a worker's slot, the job leaves the table, whoever dispatches it.
Dispatch(c, j) ==
  /\ call' = [call EXCEPT ![c] = IF Refused(j) = None
                                 THEN [pc |-> "ready", job |-> j, result |-> None]
                                 ELSE Ended(c, Refused(j))]
  /\ jobs' = IF Refused(j) = "busy" THEN jobs ELSE [jobs EXCEPT ![j] = None]
  /\ Unchanged /\ UNCHANGED <<box, cancelled, pipe, response, disp, started>>

SocketDispatch(h, j)  == Connectable /\ call[h].pc = "idle" /\ Dispatch(h, j)
MailboxDispatch(j)    == call[j].pc = "begin" /\ Dispatch(j, j)

\* shellContext up to the start of bwrap.  Its arguments or the network filter cannot be
\* made; a context that is done starts nothing; or bwrap itself cannot be started, and
\* the reply is that of a command that ended with status 1 and wrote nothing.
Start(c) ==
  /\ call[c].pc = "ready"
  /\ \/ /\ ~CtxDone(c)
        /\ call' = [call EXCEPT ![c].pc = "run"]
        /\ started' = [started EXCEPT ![call[c].job] = @ + 1]
     \/ /\ \E r \in {"no sandbox", IF CtxDone(c) THEN "timed out" ELSE "not run"} :
             call' = [call EXCEPT ![c] = Ended(c, r)]
        /\ UNCHANGED started
  /\ Unchanged /\ UNCHANGED <<jobs, box, cancelled, pipe, response, disp>>

\* The command ends and is reaped, and the slot is free.
End(c, result) ==
  /\ call[c].pc = "run" /\ call' = [call EXCEPT ![c] = Ended(c, result)]
  /\ Unchanged /\ UNCHANGED <<jobs, box, cancelled, pipe, response, disp, started>>

\* By itself, perhaps with its context already done; because its context is done;
\* or because its two minutes are up.
Finish(c)  == End(c, IF CtxDone(c) THEN "timed out" ELSE "ok")
Kill(c)    == CtxDone(c) /\ End(c, "timed out")
TimeOut(c) == ~CtxDone(c) /\ End(c, "timed out")

-----------------------------------------------------------------------------
(***************************************************************************)
(* serveMailbox.                                                           *)
(***************************************************************************)

\* The job was consumed over the socket or expired, the broker closes, or the
\* job's TTL is over: the goroutine returns.
GiveUp(j) ==
  /\ box[j] = "wait"
  /\ jobs[j] # "fresh" \/ MailboxDone
  /\ box' = [box EXCEPT ![j] = "forget"]
  /\ Unchanged /\ UNCHANGED <<jobs, cancelled, pipe, response, call, disp, started>>

\* A byte is there: D starts the job in a goroutine, any other ends the wait.
\* (Without a writer the FIFO reads as empty, which is not an end yet.)
ReadStart(j) ==
  /\ box[j] = "wait" /\ pipe[j] # <<>>
  /\ pipe' = [pipe EXCEPT ![j] = Tail(@)]
  /\ \/ /\ Head(pipe[j]) = "D" /\ box' = [box EXCEPT ![j] = "serve"]
        /\ call' = [call EXCEPT ![j] = [pc |-> "begin", job |-> j, result |-> None]]
     \/ /\ Head(pipe[j]) # "D" /\ box' = [box EXCEPT ![j] = "forget"] /\ UNCHANGED call
  /\ Unchanged /\ UNCHANGED <<jobs, cancelled, response, disp, started>>

\* Only a byte cancels.
BadPoll(j) ==
  /\ box[j] = "serve" /\ j \notin cancelled
  /\ pipe[j] # <<>>
  /\ pipe' = [pipe EXCEPT ![j] = Tail(@)]
  /\ cancelled' = cancelled \cup {j}
  /\ Unchanged /\ UNCHANGED <<jobs, box, response, call, disp, started>>

\* The ticker: another byte, or the end of the FIFO (no writer), cancels.
Poll(j) ==
  /\ box[j] = "serve" /\ j \notin cancelled
  /\ pipe[j] # <<>> \/ Writers(j) = {}
  /\ pipe' = [pipe EXCEPT ![j] = IF @ = <<>> THEN @ ELSE Tail(@)]
  /\ cancelled' = cancelled \cup {j}
  /\ Unchanged /\ UNCHANGED <<jobs, box, response, call, disp, started>>

\* ctx.Done: wait for the dispatch, and reply nothing.
Abandon(j) ==
  /\ box[j] = "serve" /\ CtxDone(j)
  /\ box' = [box EXCEPT ![j] = "reap"]
  /\ Unchanged /\ UNCHANGED <<jobs, cancelled, pipe, response, call, disp, started>>

\* writeFIFO: the reply is written, unless the context ends first or five seconds do
\* not suffice.
writeFIFO(j) ==
  \/ UNCHANGED response
  \/ ~CtxDone(j) /\ response' = [response EXCEPT ![j] = call[j].result]

\* The dispatch is over.  With its context done, the select may take either way.
Done(j) ==
  /\ box[j] \in {"serve", "reap"} /\ call[j].pc = "end"
  /\ IF box[j] = "serve" THEN writeFIFO(j) ELSE UNCHANGED response
  /\ box' = [box EXCEPT ![j] = "forget"]
  /\ call' = [call EXCEPT ![j] = Idle] /\ cancelled' = cancelled \ {j}
  /\ Unchanged /\ UNCHANGED <<jobs, pipe, disp, started>>

\* The deferred functions: the job is forgotten, whether it ran or not, ...
Forget(j) ==
  /\ box[j] = "forget" /\ box' = [box EXCEPT ![j] = "clean"]
  /\ jobs' = [jobs EXCEPT ![j] = None] /\ mailboxActive' = mailboxActive - 1
  /\ UNCHANGED <<phase, signalled, session, cancelled, pipe, response, dirs, sessions, call,
                 disp, started>>

\* ... the pipes are closed, and what was made is removed.
Cleanup(j) ==
  /\ box[j] = "clean" /\ box' = [box EXCEPT ![j] = "gone"]
  /\ dirs' = dirs \ {<<j, session>>} /\ pipe' = [pipe EXCEPT ![j] = <<>>]
  /\ response' = [response EXCEPT ![j] = IF Writers(j) = {} THEN None ELSE @]
  /\ UNCHANGED <<phase, signalled, session, jobs, mailboxActive, cancelled, sessions, call,
                 disp, started>>

-----------------------------------------------------------------------------
(***************************************************************************)
(* dispatchMailbox, in a process of its own.                               *)
(***************************************************************************)
Failed == [Idle EXCEPT !.pc = "failed"]

Move(d, r) ==
  /\ disp' = [disp EXCEPT ![d] = r]
  /\ response' = [j \in Jobs |-> IF box[j] = "gone" /\ disp[d].job = j THEN None ELSE response[j]]
  /\ Unchanged /\ UNCHANGED <<jobs, box, cancelled, call, started>>

\* The directory and both pipes are there, with the broker at the other end: a
\* FIFO nobody reads cannot be opened for writing.  flock admits one dispatcher at
\* a time; another goes away and has changed nothing.  A job can be dispatched
\* again after a dispatch that failed.
Open(d, j) ==
  /\ disp[d].pc \in {"idle", "failed"} /\ box[j] \notin {"none", "gone"} /\ Writers(j) = {}
  /\ Move(d, [pc |-> "locked", job |-> j, result |-> None]) /\ UNCHANGED pipe

\* The start byte.  Writing to a FIFO without a reader fails.
WriteD(d) ==
  /\ disp[d].pc = "locked" /\ Len(pipe[disp[d].job]) < MaxBytes
  /\ \/ /\ box[disp[d].job] # "gone"
        /\ Move(d, [disp[d] EXCEPT !.pc = "wait"])
        /\ pipe' = [pipe EXCEPT ![disp[d].job] = Append(@, "D")]
     \/ /\ box[disp[d].job] = "gone"
        /\ Move(d, Failed) /\ UNCHANGED pipe

\* A reply, or "broker closed mailbox before replying".
ReadReply(d) ==
  /\ disp[d].pc = "wait" /\ UNCHANGED pipe
  /\ LET r == response[disp[d].job]
     IN  \/ /\ r # None
            /\ response' = [response EXCEPT ![disp[d].job] = None]
            /\ disp' = [disp EXCEPT ![d] = IF r \in Complete
                                           THEN [@ EXCEPT !.pc = "done", !.result = r]
                                           ELSE Failed]
            /\ Unchanged /\ UNCHANGED <<jobs, box, cancelled, call, started>>
         \/ /\ r = None /\ box[disp[d].job] = "gone"
            /\ Move(d, Failed)

\* The dispatcher is killed, interrupted, or has waited three minutes.
Die(d) ==
  /\ disp[d].pc \in {"locked", "wait"} /\ UNCHANGED pipe
  /\ Move(d, Failed)

-----------------------------------------------------------------------------
Next ==
  \/ Serve \/ Signal \/ CloseMailbox \/ Closed \/ Crash \/ Sweep
  \/ \E j \in Jobs : \/ Age(j) \/ Submit(j) \/ GiveUp(j) \/ ReadStart(j) \/ Poll(j) \/ Abandon(j)
                     \/ Done(j) \/ Forget(j) \/ Cleanup(j)
                     \/ MailboxDispatch(j) \/ \E h \in Handlers : SocketDispatch(h, j)
  \/ \E c \in Callers : Start(c) \/ Finish(c) \/ Kill(c) \/ TimeOut(c)
  \/ \E d \in Dispatchers : \/ WriteD(d) \/ ReadReply(d) \/ Die(d)
                            \/ \E j \in Jobs : Open(d, j)

Spec == Init /\ [][Next]_vars

\* The broker's goroutines run.  Nothing is assumed of commands and dispatchers,
\* and the two minutes of a command are not used.
Fairness ==
  /\ WF_vars(Closed)
  /\ \A j \in Jobs : /\ WF_vars(GiveUp(j) \/ ReadStart(j)) /\ WF_vars(Poll(j))
                     /\ WF_vars(Abandon(j)) /\ WF_vars(Done(j))
                     /\ WF_vars(MailboxDispatch(j)) /\ WF_vars(Forget(j) \/ Cleanup(j))
  /\ \A c \in Callers : WF_vars(Start(c)) /\ WF_vars(Kill(c))

FairSpec == Spec /\ Fairness

-----------------------------------------------------------------------------
\* A job's command is started at most once, over whichever transports and however
\* many dispatchers, expiries and restarts there are.  A dispatcher that is given a
\* command's output is given that of a command that was started, and one that is told
\* the status of a bwrap that could not be started is told of a job that nobody starts
\* later (processJobContext, shellContext, serveMailbox).
AtMostOnce ==
  /\ \A j \in Jobs : started[j] <= 1
  /\ \A d \in Dispatchers :
       disp[d].pc = "done" => started[disp[d].job] = IF disp[d].result = "ok" THEN 1 ELSE 0

\* The limits hold together: prepared jobs, mailboxes with their FIFOs, running
\* commands, and the counter that admission reads is never wrong.
LimitsHold ==
  /\ Cardinality(Known) <= maxJobs
  /\ Cardinality(Served) <= mailboxActive + Cardinality({j \in Jobs : box[j] = "clean"})
  /\ mailboxActive <= maxJobs
  /\ Cardinality(Working) <= maxWorkers
  /\ Up => mailboxActive = Cardinality({j \in Served : box[j] # "clean"})

\* A clean shutdown leaves no FIFO, no session directory and no mailbox command:
\* only the sessions that crashed are still there (closeMailbox).
CloseLeavesNothing ==
  [][Closed => sessions' = sessions \ {session} /\ \A j \in Jobs : <<j, session>> \notin dirs]_vars

\* When the dispatchers of a job are gone, its command does not run on, even when
\* it would never end and its two minutes were not there to end it (the ticker's
\* read of the FIFO).
AbandonedStops ==
  \A j \in Jobs : <>[](Writers(j) = {}) => <>[](call[j].pc # "run")

\* closeMailbox returns, whatever the commands do.
CloseEnds == (phase = "closing") ~> (phase = "down")

\* No command outlasts those it runs for: neither its dispatchers nor the broker.
CommandsEnd == AbandonedStops /\ CloseEnds /\ CloseLeavesNothing
=============================================================================
