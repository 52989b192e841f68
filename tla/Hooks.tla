------------------------------- MODULE Hooks -------------------------------
(***************************************************************************)
(* The hooks executor of link-hooks: Hooks::run feeds notifications to a   *)
(* set of child processes through bounded channels.  Each hook has a       *)
(* routine that writes what arrives on its channel to the child.  The      *)
(* routines are plain futures held by run itself, so that a routine makes  *)
(* progress only while run polls it: in the select loop all of them, in    *)
(* the final loop only the one being awaited, and none while the           *)
(* end-of-transmission messages are being sent.                            *)
(***************************************************************************)
EXTENDS Naturals, Sequences

CONSTANTS
    Hook,       \* the hooks that were started
    KindOf,     \* the notifications a hook is registered for: "data" or "track"
    PathOf,     \* the executable of a hook; senders are removed by path
    Buffer,     \* config.hook.buffer, the capacity of a hook's channel
    MaxNotes    \* bound: notifications in the incoming stream

VARIABLES
    notes,      \* notifications produced so far
    ended,      \* the incoming stream is exhausted
    senders,    \* the hooks whose sender is in data_senders or track_senders
    chan,       \* chan[h]: messages in the channel of h, a kind or "EOT"
    routine,    \* routine[h]: where the routine of h stands
    written,    \* written[h]: number of payloads the child of h was given
    main,       \* where run stands
    todo        \* the senders eot has not visited yet, or the routines to await

hooksVars == <<notes, ended, senders, chan, routine, written, main, todo>>

Init ==
    /\ notes = 0
    /\ ended = FALSE
    /\ senders = Hook
    /\ chan = [h \in Hook |-> <<>>]
    /\ routine = [h \in Hook |-> "recv"]
    /\ written = [h \in Hook |-> 0]
    /\ main = "select"
    /\ todo = {}

(***************************************************************************)
(* The environment: whoever feeds run closes the stream at some point.     *)
(***************************************************************************)
EndStream ==
    /\ ~ended
    /\ ended' = TRUE
    /\ UNCHANGED <<notes, senders, chan, routine, written, main, todo>>

(***************************************************************************)
(* Senders::send with try_send: a hook whose channel is full or closed     *)
(* misses the notification.                                                *)
(***************************************************************************)
Delivered(k) ==
    [h \in Hook |->
        IF /\ h \in senders
           /\ KindOf[h] = k
           /\ routine[h] # "done"
           /\ Len(chan[h]) < Buffer
        THEN Append(chan[h], k)
        ELSE chan[h]]

Notify(k) ==
    /\ main = "select"
    /\ ~ended
    /\ notes < MaxNotes
    /\ notes' = notes + 1
    /\ chan' = Delivered(k)
    /\ UNCHANGED <<ended, senders, routine, written, main, todo>>

(***************************************************************************)
(* The incoming stream yields None: the loop is left for the EOTs.         *)
(***************************************************************************)
StreamOver ==
    /\ main = "select"
    /\ ended
    /\ main' = "eot"
    /\ todo' = senders
    /\ UNCHANGED <<notes, ended, senders, chan, routine, written>>

(***************************************************************************)
(* routines.next() yields the path of a finished routine, and both sender  *)
(* maps forget that path; or there is no routine left and the loop ends.   *)
(***************************************************************************)
Failed(h) ==
    /\ main = "select"
    /\ routine[h] = "done"
    /\ routine' = [routine EXCEPT ![h] = "removed"]
    /\ senders' = {g \in senders : PathOf[g] # PathOf[h]}
    /\ UNCHANGED <<notes, ended, chan, written, main, todo>>

AllStopped ==
    /\ main = "select"
    /\ \A h \in Hook : routine[h] = "removed"
    /\ main' = "eot"
    /\ todo' = senders
    /\ UNCHANGED <<notes, ended, senders, chan, routine, written>>

(***************************************************************************)
(* Senders::eot awaits room in one channel after the other; a channel      *)
(* whose receiver is gone fails at once.                                   *)
(***************************************************************************)
SendEot(h) ==
    /\ main = "eot"
    /\ h \in todo
    /\ \/ /\ routine[h] \notin {"done", "removed"}
          /\ Len(chan[h]) < Buffer
          /\ chan' = [chan EXCEPT ![h] = Append(@, "EOT")]
       \/ /\ routine[h] \in {"done", "removed"}
          /\ UNCHANGED chan
    /\ todo' = todo \ {h}
    /\ UNCHANGED <<notes, ended, senders, routine, written, main>>

EotSent ==
    /\ main = "eot"
    /\ todo = {}
    /\ main' = "join"
    /\ todo' = {h \in Hook : routine[h] # "removed"}
    /\ UNCHANGED <<notes, ended, senders, chan, routine, written>>

(***************************************************************************)
(* The final loop awaits the remaining routines one by one.                *)
(***************************************************************************)
Await(h) ==
    /\ main = "join"
    /\ h \in todo
    /\ main' = h
    /\ todo' = todo \ {h}
    /\ UNCHANGED <<notes, ended, senders, chan, routine, written>>

Awaited(h) ==
    /\ main = h
    /\ routine[h] = "done"
    /\ main' = "join"
    /\ UNCHANGED <<notes, ended, senders, chan, routine, written, todo>>

Return ==
    /\ main = "join"
    /\ todo = {}
    /\ main' = "returned"
    /\ UNCHANGED <<notes, ended, senders, chan, routine, written, todo>>

(***************************************************************************)
(* The routine of a hook, Hook::start.  A child that cannot be written to  *)
(* ends it at once; after EOT the child is awaited or killed (wait_or_kill *)
(* with its timeout), whatever becomes of the two calls.                   *)
(***************************************************************************)
Polled(h) == main \in {"select", h}

Receive(h) ==
    /\ Polled(h)
    /\ routine[h] = "recv"
    /\ \/ /\ chan[h] # <<>>
          /\ routine' = [routine EXCEPT ![h] = Head(chan[h])]
          /\ chan' = [chan EXCEPT ![h] = Tail(@)]
       \/ /\ chan[h] = <<>>                 \* rx.recv() is None
          /\ h \notin senders
          /\ routine' = [routine EXCEPT ![h] = "done"]
          /\ UNCHANGED chan
    /\ UNCHANGED <<notes, ended, senders, written, main, todo>>

WritePayload(h) ==
    /\ Polled(h)
    /\ routine[h] \in {"data", "track"}
    /\ \/ /\ routine' = [routine EXCEPT ![h] = "recv"]
          /\ written' = [written EXCEPT ![h] = @ + 1]
       \/ /\ routine' = [routine EXCEPT ![h] = "done"]
          /\ UNCHANGED written
    /\ UNCHANGED <<notes, ended, senders, chan, main, todo>>

\* A bug variant: the routine goes back to its channel after EOT.
EotKeepsReceiving(h) ==
    /\ Polled(h)
    /\ routine[h] = "EOT"
    /\ routine' = [routine EXCEPT ![h] = "recv"]
    /\ UNCHANGED <<notes, ended, senders, chan, written, main, todo>>

WriteEot(h) ==
    /\ Polled(h)
    /\ routine[h] = "EOT"
    /\ routine' = [routine EXCEPT ![h] = "done"]
    /\ UNCHANGED <<notes, ended, senders, chan, written, main, todo>>

Run ==
    \/ StreamOver \/ AllStopped \/ EotSent \/ Return
    \/ \E h \in Hook : Failed(h) \/ SendEot(h) \/ Await(h) \/ Awaited(h)

Routine(h) == Receive(h) \/ WritePayload(h) \/ WriteEot(h)

Next ==
    \/ EndStream
    \/ \E k \in {"data", "track"} : Notify(k)
    \/ Run
    \/ \E h \in Hook : Routine(h)

(***************************************************************************)
(* run and the routines it polls are driven by the executor until they     *)
(* have nothing to do, and a child takes what is written or fails.         *)
(***************************************************************************)
Fairness ==
    /\ WF_hooksVars(Run)
    /\ \A h \in Hook : WF_hooksVars(Routine(h))

Spec == Init /\ [][Next]_hooksVars /\ Fairness

----------------------------------------------------------------------------
(***************************************************************************)
(* When every hook that is still registered has room in its channel as the *)
(* stream ends, run sends the EOTs, the hooks stop or are killed, and run  *)
(* returns (hook.rs, Hooks::run): no order of failures, drops and writes   *)
(* leaves it waiting for a routine.                                        *)
(***************************************************************************)
HasRoom == main = "eot" /\ \A h \in todo : Len(chan[h]) < Buffer

StopsWithRoom == HasRoom ~> (main = "returned")

(***************************************************************************)
(* "Once the stream is complete, the end-of-transmission character is sent *)
(* to every hook ... otherwise it will be terminated after the timeout"    *)
(* (hook.rs, the comment on Hooks::run): run returns once its stream has   *)
(* ended.                                                                  *)
(***************************************************************************)
StopsAfterStream == ended ~> (main = "returned")

============================================================================
