------------------------------ MODULE LogStream ------------------------------
(***************************************************************************)
(* Live logs of one job: append_log, update and publish_status of          *)
(* queue/client.py on the worker's side, and one GET /jobs/<id>/stream     *)
(* (stream_job_logs in webhook/server.py, subscribe_logs in client.py) on  *)
(* the reader's.  The list of log lines and the job hash are stored; the   *)
(* channel is not: who is not subscribed when a message is published never *)
(* gets it.  Lines are numbered in the order the agent writes them.        *)
(***************************************************************************)
EXTENDS Naturals, Sequences

CONSTANTS
    LogCap,    \* LOG_CAP
    MaxLines,  \* bound on the lines the agent writes
    MaxRuns,   \* bound on the runs of the job
    MaxDrops   \* bound on the PUBLISH commands that fail

ASSUME CapAssumption ==
    LogCap \in Nat \ {0} /\ MaxLines \in Nat /\ MaxRuns \in Nat \ {0} /\ MaxDrops \in Nat

VARIABLES
    status,    \* the status in the job hash
    unsent,    \* a status written and not yet published
    lost,      \* the last PUBLISH of a status failed
    drops,     \* how many have failed so far
    logs,      \* LIST job:<id>:logs
    written,   \* lines appended so far
    started,   \* runs begun so far
    gen,       \* where the generator _gen is
    channel,   \* messages of the subscription the generator has not read
    out        \* the events the client has been sent

workerVars == <<status, unsent, lost, drops, logs, written, started>>
streamVars == <<status, unsent, lost, drops, logs, written, started, gen, channel, out>>

Status   == {"pending", "running", "succeeded", "dead"}
Terminal == {"succeeded", "dead"}
Nothing  == "nothing"

Line(n)  == [event |-> "log", data |-> n]
State(s) == [event |-> "status", data |-> s]
Event    == {Line(n) : n \in 1..MaxLines} \cup {State(s) : s \in Status}

Init ==
    /\ status = "pending"
    /\ unsent = Nothing
    /\ lost = FALSE
    /\ drops = 0
    /\ logs = <<>>
    /\ written = 0
    /\ started = 0
    /\ gen = "closed"
    /\ channel = <<>>
    /\ out = <<>>

-----------------------------------------------------------------------------
\* The worker

\* Mutant: a message published while another is waiting replaces it.
PublishLatest(m) ==
    channel' = IF gen = "listen" THEN <<m>> ELSE channel

\* PUBLISH reaches the subscription if there is one.
Publish(m) ==
    channel' = IF gen = "listen" THEN Append(channel, m) ELSE channel

\* LTRIM -LOG_CAP -1.
Trim(s) == IF Len(s) > LogCap THEN Tail(s) ELSE s

\* append_log: RPUSH, LTRIM and PUBLISH in one pipeline, while the agent runs.
AppendLog ==
    /\ status = "running" /\ unsent = Nothing
    /\ written < MaxLines
    /\ written' = written + 1
    /\ logs' = Trim(Append(logs, written'))
    /\ Publish(Line(written'))
    /\ UNCHANGED <<status, unsent, lost, drops, started, gen, out>>

\* Mutant: update writes the hash and publishes nothing.
WriteSilently(s) ==
    /\ unsent = Nothing
    /\ status' = s
    /\ UNCHANGED <<unsent, lost, drops, logs, written, gen, channel, out>>

\* update: HSET.  The status goes out with the next command.
Write(s) ==
    /\ unsent = Nothing
    /\ status' = s
    /\ unsent' = s
    /\ UNCHANGED <<lost, drops, logs, written, gen, channel, out>>

\* A worker takes the job.
Run ==
    /\ status = "pending" /\ started < MaxRuns
    /\ started' = started + 1
    /\ Write("running")

\* It succeeds, fails for good or is tried again.
Finish(s) ==
    /\ status = "running"
    /\ s = "pending" => started < MaxRuns
    /\ Write(s)
    /\ UNCHANGED started

\* requeue_dead.
Requeue ==
    /\ status = "dead" /\ started < MaxRuns
    /\ Write("pending")
    /\ UNCHANGED started

\* publish_status.
PublishStatus ==
    /\ unsent # Nothing
    /\ Publish(State(unsent))
    /\ unsent' = Nothing
    /\ lost' = FALSE
    /\ UNCHANGED <<status, drops, logs, written, started, gen, out>>

\* publish_status swallows whatever its PUBLISH raises: the status stays in the
\* hash, nobody is told.
PublishFails ==
    /\ unsent # Nothing
    /\ drops < MaxDrops
    /\ drops' = drops + 1
    /\ lost' = TRUE
    /\ unsent' = Nothing
    /\ UNCHANGED <<status, logs, written, started, gen, channel, out>>

-----------------------------------------------------------------------------
\* The generator

\* A client connects, with or without replay.
Open ==
    /\ gen = "closed"
    /\ gen' \in {"replay", "check"}
    /\ UNCHANGED <<workerVars, channel, out>>

\* Mutant: lines that are published are replayed from the list later.
ReplayTwice ==
    /\ gen = "replay"
    /\ out' = [i \in 1..(2 * Len(logs)) |-> Line(logs[((i - 1) % Len(logs)) + 1])]
    /\ gen' = "check"
    /\ UNCHANGED <<workerVars, channel>>

\* get_logs: the whole list.
Replay ==
    /\ gen = "replay"
    /\ out' = [i \in 1..Len(logs) |-> Line(logs[i])]
    /\ gen' = "check"
    /\ UNCHANGED <<workerVars, channel>>

\* queue.get: a job that is over ends the stream with its status.
Check ==
    /\ gen = "check"
    /\ IF status \in Terminal
       THEN out' = Append(out, State(status)) /\ gen' = "done"
       ELSE gen' = "subscribe" /\ UNCHANGED out
    /\ UNCHANGED <<workerVars, channel>>

\* subscribe_logs: SUBSCRIBE.
Subscribe ==
    /\ gen = "subscribe"
    /\ gen' = "listen"
    /\ UNCHANGED <<workerVars, channel, out>>

\* One round of the loop over listen(): forward the message; a terminal
\* status ends the stream.
Forward ==
    /\ gen = "listen" /\ channel # <<>>
    /\ LET m == Head(channel) IN
          /\ out' = Append(out, m)
          /\ IF m.event = "status" /\ m.data \in Terminal
             THEN gen' = "done" /\ channel' = <<>>
             ELSE gen' = gen /\ channel' = Tail(channel)
    /\ UNCHANGED workerVars

-----------------------------------------------------------------------------
WorkerNext ==
    Run \/ Finish("succeeded") \/ Finish("dead") \/ Finish("pending") \/ PublishStatus

Generate == Replay \/ Check \/ Subscribe \/ Forward

Next == WorkerNext \/ PublishFails \/ AppendLog \/ Requeue \/ Open \/ Generate

Spec == Init /\ [][Next]_streamVars

\* A run ends (the agent's turns are bounded), a job that waits is taken, what
\* was written is published or fails to be, and the server keeps generating.
FairSpec == Spec /\ WF_streamVars(WorkerNext) /\ WF_streamVars(Generate)

-----------------------------------------------------------------------------
\* Properties

IsLine(m) == m.event = "log"

\* The client gets line l after others and without the one before it.
Skips(l) ==
    /\ IsLine(out[l])
    /\ \E k \in 1..(l-1) : IsLine(out[k])
    /\ \A k \in 1..(l-1) : IsLine(out[k]) => out[k].data + 1 # out[l].data

\* "replays the existing log buffer first, then subscribes"
\* (docs/PRODUCTION.md:156): the client sees no line twice and none out of
\* order, and misses lines at one point at most, where replay meets live.
OneGap ==
    \A k, l \in DOMAIN out :
        /\ k < l /\ IsLine(out[k]) /\ IsLine(out[l]) => out[k].data < out[l].data
        /\ Skips(k) /\ Skips(l) => k = l

\* The last status among the messages s is their k-th.
Newest(s, k) == ~IsLine(s[k]) /\ \A l \in DOMAIN s : l > k => IsLine(s[l])

\* "status - on every transition" (docs/PRODUCTION.md:150): a client that has
\* read all there is has been told the status the hash has, unless the status
\* has not changed since it subscribed or the last PUBLISH of one has failed.
\* The next one that succeeds repairs what a failed one has left.
StatusCurrent ==
    gen = "listen" /\ channel = <<>> /\ unsent = Nothing /\ ~lost =>
        \A k \in DOMAIN out : Newest(out, k) => out[k].data = status


\* A stream that is subscribed before the job ends is closed when it ends, or
\* the PUBLISH that should have ended it has failed; in that case too, when the
\* job is requeued and ends again.
ClosesAfterSubscription ==
    (gen = "listen" /\ status \notin Terminal)
        ~> (gen = "done" \/ (lost /\ status \in Terminal))

=============================================================================
