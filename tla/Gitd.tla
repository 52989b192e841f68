-------------------------------- MODULE Gitd --------------------------------
(***************************************************************************)
(* lnk-gitd: an SSH server whose channels each run one git subprocess.     *)
(* SSH sessions talk to one processes loop over two channels of capacity   *)
(* one; the loop talks to every subprocess task over a channel of capacity *)
(* one.  The reply side (thrussh) is a Boolean: replies reach the client   *)
(* or fail.                                                                *)
(***************************************************************************)
EXTENDS Naturals, Sequences, FiniteSets

CONSTANTS
    Chan,       \* SSH channels, one per session
    MaxGits,    \* MAX_IN_FLIGHT_GITS
    MaxData     \* bound: data messages a client sends

VARIABLES
    client,     \* client[c]: "idle", "live", "gone" or "closed"
    input,      \* input[c]: what the client still has to send: data, then eof
    execQ,      \* exec_git_incoming
    incoming,   \* the control messages of the handle
    running,    \* running_processes: the tasks the loop still holds
    sends,      \* process_sends: the channels with a sender
    stopping,   \* the loop was told to stop
    loop,       \* "select", "deliver" (of letter), "ok" or "err"
    letter,     \* the message being delivered, StopMessage if there is none
    task        \* task[c]: the task run_git_subprocess of c

gitdVars ==
    <<client, input, execQ, incoming, running, sends, stopping, loop, letter, task>>

NoTask == [at |-> "none", upload |-> FALSE, box |-> <<>>, stdin |-> TRUE, child |-> "none"]

StopMessage == [to |-> "loop", msg |-> "stop"]

Init ==
    /\ client = [c \in Chan |-> "idle"]
    /\ input = [c \in Chan |-> MaxData + 1]
    /\ execQ = <<>>
    /\ incoming = <<>>
    /\ running = {}
    /\ sends = {}
    /\ stopping = FALSE
    /\ loop = "select"
    /\ letter = StopMessage
    /\ task = [c \in Chan |-> NoTask]

LoopOver == loop \in {"ok", "err"}

----------------------------------------------------------------------------
(***************************************************************************)
(* SSH sessions.  A handler awaits the send on the loop's channel, so that *)
(* it waits while the channel is full; once the loop is gone every send    *)
(* fails, the handler returns an error and the session ends.               *)
(***************************************************************************)
ExecRequest(c, upload) ==
    /\ client[c] = "idle"
    /\ IF LoopOver
       THEN /\ client' = [client EXCEPT ![c] = "gone"]
            /\ UNCHANGED <<execQ, task>>
       ELSE /\ execQ = <<>>
            /\ execQ' = <<c>>
            /\ client' = [client EXCEPT ![c] = "live"]
            /\ task' = [task EXCEPT ![c].upload = upload]
    /\ UNCHANGED <<input, incoming, running, sends, stopping, loop, letter>>

Handle(c, m) ==
    IF LoopOver
    THEN /\ client' = [client EXCEPT ![c] = "gone"]
         /\ UNCHANGED incoming
    ELSE /\ incoming = <<>>
         /\ incoming' = <<[to |-> c, msg |-> m]>>
         /\ UNCHANGED client

(***************************************************************************)
(* A git client speaks after it has read what the server advertises, that  *)
(* is once the child runs.                                                 *)
(***************************************************************************)
ClientInput(c) ==
    /\ client[c] = "live"
    /\ task[c].child # "none"
    /\ input[c] > 0
    /\ Handle(c, IF input[c] > 1 THEN "data" ELSE "eof")
    /\ input' = [input EXCEPT ![c] = @ - 1]
    /\ UNCHANGED <<execQ, running, sends, stopping, loop, task, letter>>

ClientSignal(c) ==
    /\ client[c] = "live"
    /\ input[c] = 1
    /\ Handle(c, "signal")
    /\ UNCHANGED <<input, execQ, running, sends, stopping, loop, task, letter>>

(***************************************************************************)
(* The connection breaks: later replies fail.  No handler tells the loop   *)
(* (channel_close only logs).                                              *)
(***************************************************************************)
Vanish(c) ==
    /\ client[c] = "live"
    /\ client' = [client EXCEPT ![c] = "gone"]
    /\ UNCHANGED <<input, execQ, incoming, running, sends, stopping, loop, task, letter>>

(***************************************************************************)
(* handle_shutdown after SIGTERM, SIGINT or the end of the SSH server.     *)
(***************************************************************************)
Shutdown ==
    /\ ~stopping
    /\ ~LoopOver
    /\ incoming = <<>>
    /\ incoming' = <<StopMessage>>
    /\ UNCHANGED <<client, input, execQ, running, sends, stopping, loop, task, letter>>

----------------------------------------------------------------------------
(***************************************************************************)
(* The processes loop, Processes::run.                                     *)
(***************************************************************************)
Selecting == loop = "select" /\ ~(stopping /\ running = {})

ExecGit ==
    /\ Selecting
    /\ execQ # <<>>
    /\ ~stopping
    /\ ~(Cardinality(running) > MaxGits)
    /\ LET c == Head(execQ)
       IN  /\ running' = running \cup {c}
           /\ sends' = sends \cup {c}
           /\ task' = [task EXCEPT ![c].at = IF task[c].upload THEN "pre_upload" ELSE "command"]
    /\ execQ' = <<>>
    /\ UNCHANGED <<client, input, incoming, stopping, loop, letter>>

HandleIncoming ==
    /\ Selecting
    /\ incoming # <<>>
    /\ LET m == Head(incoming)
       IN  /\ letter' = IF m.to \in sends THEN m ELSE StopMessage
           /\ stopping' = (stopping \/ m = StopMessage)
           /\ loop' = IF m.to \in sends THEN "deliver" ELSE loop
    /\ incoming' = <<>>
    /\ UNCHANGED <<client, input, execQ, running, sends, task>>

(***************************************************************************)
(* The loop awaits room in the task's channel.  The receiver lives as long *)
(* as run_git_subprocess_inner: a data message that finds it dropped ends  *)
(* the loop with SubprocessDisappeared, an eof or a signal is ignored.     *)
(***************************************************************************)
ReceiverGone(c) == task[c].at \in {"close", "finished"}

DeliverMessage ==
    /\ loop = "deliver"
    /\ LET c == letter.to
       IN  IF ReceiverGone(c)
           THEN /\ loop' = IF letter.msg = "data" THEN "err" ELSE "select"
                /\ UNCHANGED task
           ELSE /\ task[c].box = <<>>
                /\ task' = [task EXCEPT ![c].box = <<letter.msg>>]
                /\ loop' = "select"
    /\ letter' = StopMessage
    /\ UNCHANGED <<client, input, execQ, incoming, running, sends, stopping>>

\* A bug variant: a finished task keeps its slot when its client is gone.
CompletedKeepsGone(c) ==
    /\ Selecting
    /\ c \in running
    /\ task[c].at = "finished"
    /\ client[c] # "gone"
    /\ running' = running \ {c}
    /\ sends' = sends \ {c}
    /\ UNCHANGED <<client, input, execQ, incoming, stopping, loop, task, letter>>

HandleCompleted(c) ==
    /\ Selecting
    /\ c \in running
    /\ task[c].at = "finished"
    /\ running' = running \ {c}
    /\ sends' = sends \ {c}
    /\ UNCHANGED <<client, input, execQ, incoming, stopping, loop, task, letter>>

LoopReturn ==
    /\ loop = "select"
    /\ stopping
    /\ running = {}
    /\ loop' = "ok"
    /\ UNCHANGED <<client, input, execQ, incoming, running, sends, stopping, task, letter>>

Loop == ExecGit \/ HandleIncoming \/ DeliverMessage \/ LoopReturn \/ \E c \in Chan : HandleCompleted(c)

----------------------------------------------------------------------------
(***************************************************************************)
(* The task of a channel, run_git_subprocess.                              *)
(***************************************************************************)
Replies(c) == client[c] = "live"

Move(c, at) == task' = [task EXCEPT ![c].at = at]

TaskOnly == UNCHANGED <<client, input, execQ, incoming, running, sends, stopping, loop, letter>>

(***************************************************************************)
(* Hooks::pre_upload reports before and after every seed; a report that    *)
(* cannot be delivered ends the task, a failed replication does not.       *)
(***************************************************************************)
PreUpload(c) ==
    /\ task[c].at = "pre_upload"
    /\ Move(c, IF Replies(c) THEN "command" ELSE "close")
    /\ TaskOnly

(***************************************************************************)
(* The storage from the pool, create_command with guard_has_urn, and the   *)
(* spawn of the child may each fail, which ends the task.                  *)
(***************************************************************************)
Command(c) ==
    /\ task[c].at = "command"
    /\ \/ Move(c, "close")
       \/ task' = [task EXCEPT ![c].at = "run", ![c].child = "runs"]
    /\ TaskOnly

(***************************************************************************)
(* The select loop of a running task: a message for the child's standard   *)
(* input, ...                                                              *)
(***************************************************************************)
Receive(c) ==
    /\ task[c].at = "run"
    /\ task[c].box # <<>>
    /\ LET m == Head(task[c].box)
           t == [task[c] EXCEPT !.box = <<>>]
       IN  \/ m = "data" /\ task' = [task EXCEPT ![c] = t]
           \/ m = "eof" /\ t.stdin /\ task' = [task EXCEPT ![c] = [t EXCEPT !.stdin = FALSE]]
           \/ m = "eof" /\ t.stdin /\ task' = [task EXCEPT ![c] = [t EXCEPT !.at = "close"]]
           \/ m = "signal" /\ t.child = "runs" /\ task' = [task EXCEPT ![c] = [t EXCEPT !.child = "failed"]]
           \/ m = "signal" /\ t.child # "runs" /\ task' = [task EXCEPT ![c] = t]
    /\ TaskOnly

(***************************************************************************)
(* ... output of the child for the client, whose absence kills the child,  *)
(* ...                                                                     *)
(***************************************************************************)
ForwardFails(c) ==
    /\ task[c].at = "run"
    /\ ~Replies(c)
    /\ task' = [task EXCEPT ![c].at = "close",
                            ![c].child = IF @ = "runs" THEN "failed" ELSE @]
    /\ TaskOnly

(***************************************************************************)
(* ... or the exit of the child, after which the rest of its output is     *)
(* drained whether or not the client still takes it.  A failed child and a *)
(* fetch end with the exit status, delivered or not.                       *)
(***************************************************************************)
ChildExited(c) ==
    /\ task[c].at = "run"
    /\ task[c].child \in {"succeeded", "failed"}
    /\ Move(c, IF task[c].child = "succeeded" /\ ~task[c].upload
               THEN "post_receive" ELSE "close")
    /\ TaskOnly

(***************************************************************************)
(* Hooks::post_receive: sign the refs, request-pull, announce.  Whatever   *)
(* fails is reported to the client, who in every case is told that git     *)
(* exited with zero.                                                       *)
(***************************************************************************)
PostReceive(c) ==
    /\ task[c].at = "post_receive"
    /\ Move(c, "close")
    /\ TaskOnly

(***************************************************************************)
(* run_git_subprocess closes the channel in every case, and the task ends. *)
(***************************************************************************)
Close(c) ==
    /\ task[c].at = "close"
    /\ task' = [task EXCEPT ![c] = [NoTask EXCEPT !.at = "finished"]]
    /\ client' = [client EXCEPT ![c] = IF @ = "live" THEN "closed" ELSE @]
    /\ UNCHANGED <<input, execQ, incoming, running, sends, stopping, loop, letter>>

Task(c) ==
    \/ PreUpload(c) \/ Command(c) \/ Receive(c) \/ ForwardFails(c) \/ ChildExited(c)
    \/ PostReceive(c) \/ Close(c)

(***************************************************************************)
(* The child.  git upload-pack gives up by itself (--timeout=5); git       *)
(* receive-pack reads its standard input to the end.                       *)
(***************************************************************************)
ChildEnds(c) ==
    /\ task[c].child = "runs"
    /\ task[c].upload \/ ~task[c].stdin
    /\ \E r \in {"succeeded", "failed"} : task' = [task EXCEPT ![c].child = r]
    /\ TaskOnly

Next ==
    \/ \E c \in Chan, u \in BOOLEAN : ExecRequest(c, u)
    \/ \E c \in Chan : ClientInput(c) \/ ClientSignal(c) \/ Vanish(c)
    \/ Shutdown
    \/ Loop
    \/ \E c \in Chan : Task(c) \/ ChildEnds(c)

(***************************************************************************)
(* The loop and the tasks are spawned on the runtime; a child that can end *)
(* does, and a client that stays sends what it has.                        *)
(***************************************************************************)
Fairness ==
    /\ WF_gitdVars(Loop)
    /\ \A c \in Chan : /\ WF_gitdVars(Task(c) /\ task[c].at # "run")
                       /\ WF_gitdVars(Receive(c))
                       /\ WF_gitdVars(ChildExited(c))
                       /\ WF_gitdVars(ChildEnds(c))
                       /\ SF_gitdVars(ClientInput(c))

Spec == Init /\ [][Next]_gitdVars /\ Fairness

----------------------------------------------------------------------------
(***************************************************************************)
(* A git task leaves the pool of in-flight processes, so that its slot     *)
(* serves another exec request: whatever the client sends or stops to      *)
(* send, whichever hook or spawn fails.  The exceptions are what the code  *)
(* does not watch: a push whose client vanished before its eof (the child  *)
(* waits for input that never comes, and nobody writes to the client), and *)
(* the end of the loop itself.                                             *)
(***************************************************************************)
Orphaned(c) ==
    client[c] = "gone" /\ task[c].at = "run" /\ ~task[c].upload /\ task[c].stdin

IsFreed(c) == c \notin running \/ Orphaned(c) \/ LoopOver

SlotsAreFreed == \A c \in Chan : (c \in running) ~> IsFreed(c)

(***************************************************************************)
(* "Any data delivered via ProcessesHandle::data ... will be delivered to  *)
(* the subprocess" (processes.rs); run (lib.rs) panics with "subprocesses  *)
(* loop terminated with error": the loop does not fail while clients use   *)
(* their channels.                                                         *)
(***************************************************************************)
LoopSurvives == loop # "err"

=============================================================================
