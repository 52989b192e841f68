------------------------------- MODULE Tasks -------------------------------
(***************************************************************************)
(* Driving a stream of spawned tasks to completion: the `Tasks` future of  *)
(* link-async/src/tasks.rs over the task handles of link-async/src/spawn.rs*)
(* (gitd and linkd serve their sockets with it).                           *)
(*                                                                         *)
(* A spawned task runs by itself; the stream yields its handle, the future *)
(* keeps it until it is joined. The future is polled only after one of the *)
(* wakers it left behind (at the stream, the tasks, the timer) was used,   *)
(* so that a forgotten waker is a future which hangs.                      *)
(***************************************************************************)
EXTENDS Integers, FiniteSets

CONSTANT Task

VARIABLES
    until,      \* "idle" for run_until_idle, "forever" for run_forever
    policy,     \* the error policy: "return" for ReturnRemainingTasks, "ignore" for Ignore
    run,        \* what became of the spawned task
    at,         \* where its handle is
    ended,      \* the stream has no more tasks to yield
    state,      \* TasksState, or how the future was resolved
    finishing,  \* `finishing` of TasksState::Servicing
    timer,      \* the sleep of TasksState::Idle
    listening,  \* the stream holds a waker
    woken       \* the future is scheduled to be polled

vars == <<until, policy, run, at, ended, state, finishing, timer, listening, woken>>

mode == <<until, policy>>

Finished == {"ok", "err", "panic", "cancelled"}
Resolved == {"Dead", "Error", "Panic"}

Held(where) == {t \in Task : at[t] = where}

\* What `extract_err` takes for a reason to stop, or `resume_unwind` raises.
Fatal == {"panic"} \cup (IF policy = "return" THEN {"err"} ELSE {})

Init ==
    /\ until \in {"idle", "forever"}
    /\ policy \in {"return", "ignore"}
    /\ run = [t \in Task |-> "none"]
    /\ at = [t \in Task |-> "none"]
    /\ ended = FALSE
    /\ state = "Idle"
    /\ finishing = FALSE
    /\ timer = IF until = "idle" THEN "armed" ELSE "none"
    /\ listening = FALSE
    /\ woken = TRUE

-----------------------------------------------------------------------------
(***************************************************************************)
(* The stream, the runtime and the clock.                                  *)
(***************************************************************************)

\* A task is spawned, and its handle is ready to be taken from the stream.
Yield(t) ==
    /\ ~ended
    /\ run[t] = "none"
    /\ run' = [run EXCEPT ![t] = "running"]
    /\ at' = [at EXCEPT ![t] = "stream"]
    /\ woken' = (woken \/ listening)
    /\ listening' = FALSE
    /\ UNCHANGED <<mode, ended, state, finishing, timer>>

End ==
    /\ ~ended
    /\ ended' = TRUE
    /\ woken' = (woken \/ listening)
    /\ listening' = FALSE
    /\ UNCHANGED <<mode, run, at, state, finishing, timer>>

\* Dropping the handle of a task aborts it (`abort_on_drop`).
Complete(t, result) ==
    /\ run[t] = "running"
    /\ result = "cancelled" \/ at[t] # "dropped"
    /\ run' = [run EXCEPT ![t] = result]
    /\ woken' = (woken \/ at[t] = "ongoing")
    /\ UNCHANGED <<mode, at, ended, state, finishing, timer, listening>>

Elapse ==
    /\ timer = "armed"
    /\ timer' = "elapsed"
    /\ woken' = TRUE
    /\ UNCHANGED <<mode, run, at, ended, state, finishing, listening>>

-----------------------------------------------------------------------------
(***************************************************************************)
(* `Tasks::poll`. The first half takes what the stream has, the second     *)
(* joins what has completed.                                               *)
(***************************************************************************)

\* Mutant: the stream is not polled any more once there are tasks to service.
PullWhenIdle == state = "Idle"

\* The stream is polled unless the future is finishing.
Pulling == state = "Idle" \/ (state = "Servicing" /\ ~finishing)

New == IF Pulling THEN Held("stream") ELSE {}

\* What the state is when the second half starts.
Servicing == state = "Servicing" \/ New # {}

Ongoing == Held("ongoing") \cup New

Finishing == finishing \/ (Pulling /\ Servicing /\ ended)

AllDone(done) == done = Ongoing

\* The sleep starts when there are no tasks left.
Sleep(dead) == IF until = "idle" /\ ~dead THEN "armed" ELSE "none"

\* All tasks which completed are joined.
PollServicing ==
    /\ woken /\ Servicing /\ state \notin Resolved
    /\ LET done == {t \in Ongoing : run[t] \in Finished}
       IN  /\ \A t \in done : run[t] \notin Fatal
           /\ at' = [t \in Task |-> IF t \in done THEN "joined"
                                    ELSE IF t \in Ongoing THEN "ongoing" ELSE at[t]]
           /\ IF AllDone(done)
              THEN /\ state' = IF Finishing THEN "Dead" ELSE "Idle"
                   /\ finishing' = FALSE
                   /\ timer' = Sleep(Finishing)
              ELSE /\ state' = "Servicing"
                   /\ finishing' = Finishing
                   /\ timer' = "none"
    /\ listening' = (listening \/ (Pulling /\ ~ended))
    /\ woken' = FALSE
    /\ UNCHANGED <<mode, run, ended>>

\* Mutant: the error output has no tasks, they are dropped with the future.
RemainingDropped == "dropped"

Remaining == "returned"

\* The first failure to be joined resolves the future. An error is returned with
\* the tasks not joined so far, a panic goes on in the polling thread and drops them.
PollFails ==
    /\ woken /\ Servicing /\ state \notin Resolved
    /\ \E t \in Ongoing :
           /\ run[t] \in Fatal
           /\ \E done \in SUBSET {o \in Ongoing : run[o] \in Finished \ Fatal} :
                  at' = [o \in Task |->
                            IF o \in done \cup {t} THEN "joined"
                            ELSE IF o \in Ongoing /\ run[t] = "err" THEN Remaining
                            ELSE IF o \in Ongoing THEN "dropped" ELSE at[o]]
           /\ state' = IF run[t] = "err" THEN "Error" ELSE "Panic"
    /\ finishing' = FALSE
    /\ timer' = "none"
    /\ listening' = FALSE
    /\ woken' = FALSE
    /\ UNCHANGED <<mode, run, ended>>

\* Mutant: every poll starts a new sleep.
PollIdleRearms ==
    /\ woken /\ ~Servicing /\ state = "Idle"
    /\ timer' = IF timer = "elapsed" THEN "armed" ELSE timer
    /\ listening' = ~ended
    /\ woken' = FALSE
    /\ UNCHANGED <<mode, run, at, ended, state, finishing>>

\* Nothing to do: the future is resolved if the sleep is over. The end of the
\* stream is not looked at.
PollIdle ==
    /\ woken /\ ~Servicing /\ state = "Idle"
    /\ state' = IF timer = "elapsed" THEN "Dead" ELSE "Idle"
    /\ timer' = IF timer = "elapsed" THEN "none" ELSE timer
    /\ listening' = ~ended
    /\ woken' = FALSE
    /\ UNCHANGED <<mode, run, at, ended, finishing>>

-----------------------------------------------------------------------------
Poll == PollServicing \/ PollFails \/ PollIdle

Next ==
    \/ \E t \in Task : Yield(t) \/ \E r \in Finished : Complete(t, r)
    \/ End
    \/ Elapse
    \/ Poll

\* The executor polls what was woken, time passes, and tasks complete. The stream
\* need not yield anything nor end.
Spec ==
    /\ Init /\ [][Next]_vars
    /\ WF_vars(Poll)
    /\ WF_vars(Elapse)
    /\ \A t \in Task : WF_vars(\E r \in Finished : Complete(t, r))

-----------------------------------------------------------------------------
\* An error is reported together with every task the future has taken from the
\* stream and not joined: none of them is dropped, which would abort it.
ErrorKeepsTasks == state = "Error" => Held("dropped") = {}

\* Every task the stream yields is joined, or returned, or the future is resolved.
EveryTaskJoined ==
    \A t \in Task : at[t] \in {"stream", "ongoing"} ~>
        at[t] \in {"joined", "returned"} \/ state \in Resolved

\* run_until_idle comes to an end, since the stream yields finitely many tasks.
IdleResolves == until = "idle" => <>(state \in Resolved)

=============================================================================
