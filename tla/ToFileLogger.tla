----------------------------- MODULE ToFileLogger -----------------------------
(***************************************************************************)
(* ToFileLogger (mex_functions/logging/to_file_logger.cpp) on top of the   *)
(* queue of multithreading/queue.h: the caller reports events, clears the  *)
(* log and finally destroys the logger; one writer thread takes events off *)
(* the queue and appends them to the file. The caller's thread is split    *)
(* into the two roles it has towards the queue, Reporter (push_back) and   *)
(* Destroyer (abort), which never act at the same time.                    *)
(*                                                                         *)
(* An fstream that cannot be opened reports so by its state, not by an     *)
(* exception, and what is written to it is dropped.                        *)
(***************************************************************************)
EXTENDS Naturals, Sequences, FiniteSets

CONSTANTS Reporter, Destroyer, Writer, NoThread, Data,
          MaxReports   \* bound: events reported in the logger's life

ASSUME LoggerAssumption ==
    /\ Reporter # Writer /\ Reporter # Destroyer /\ Writer # Destroyer
    /\ NoThread \notin {Reporter, Writer, Destroyer}
    /\ MaxReports \in Nat

VARIABLES list, abort_flag, head_mutex, waiting, pc, taken,  \* the queue
          main,      \* where the caller is: "new", "running", "aborting", "joining", "destroyed"
          writer,    \* where the writer thread is: "none", "loop", "waiting", "write", "finished"
          writable,  \* can the file be opened for writing?
          file,      \* the events in the file
          reported,  \* history: every event reported
          handled    \* history: every event the writer is done with

queueVars == <<list, abort_flag, head_mutex, waiting, pc, taken>>
vars == <<queueVars, main, writer, writable, file, reported, handled>>

Q == INSTANCE Queue WITH Producers <- {Reporter}, Consumers <- {Writer},
                         Aborters <- {Destroyer}, MaxLength <- MaxReports

Init ==
    /\ Q!Init
    /\ main = "new"
    /\ writer = "none"
    /\ writable \in BOOLEAN
    /\ file = <<>>
    /\ reported = <<>>
    /\ handled = <<>>

\* The world outside: the file may become writable or stop being so.
FileChanges ==
    /\ writable' = ~writable
    /\ UNCHANGED <<queueVars, main, writer, file, reported, handled>>

-----------------------------------------------------------------------------
(* The caller.                                                             *)

\* The constructor: check_file opens the file and looks at nothing; then the
\* writer thread is launched.
Construct ==
    /\ main = "new"
    /\ main' = "running"
    /\ writer' = "loop"
    /\ UNCHANGED <<queueVars, writable, file, reported, handled>>

\* report_event: push_back, first half and (FinishReport) second half.
Report(d) ==
    /\ main = "running"
    /\ Len(reported) < MaxReports
    /\ Q!Push(Reporter, d)
    /\ reported' = Append(reported, d)
    /\ UNCHANGED <<main, writer, writable, file, handled>>

FinishReport ==
    /\ Q!NotifyOne(Reporter)
    /\ UNCHANGED <<main, writer, writable, file, reported, handled>>

\* clear_log truncates the file, if it can be opened, under the logger's lock;
\* the writer's append holds the same lock, so each of them is one step.
ClearLog ==
    /\ main = "running" /\ pc[Reporter] = "idle"
    /\ file' = IF writable THEN <<>> ELSE file
    /\ UNCHANGED <<queueVars, main, writer, writable, reported, handled>>

\* The destructor: abort(), then the join in ~WritingThread.
Abort ==
    /\ main = "running" /\ pc[Reporter] = "idle"
    /\ main' = "aborting"
    /\ Q!SetAbort(Destroyer)
    /\ UNCHANGED <<writer, writable, file, reported, handled>>

AbortNotify ==
    /\ main = "aborting"
    /\ main' = "joining"
    /\ Q!NotifyAll(Destroyer)
    /\ UNCHANGED <<writer, writable, file, reported, handled>>

JoinWriter ==
    /\ main = "joining"
    /\ writer = "finished"
    /\ main' = "destroyed"
    /\ UNCHANGED <<queueVars, writer, writable, file, reported, handled>>

-----------------------------------------------------------------------------
(* The writer: WritingThread::thread_loop.                                 *)

WriterCalls ==
    /\ writer = "loop"
    /\ writer' = "waiting"
    /\ Q!CallWaitPop(Writer)
    /\ UNCHANGED <<main, writable, file, reported, handled>>

WriterWaits ==
    /\ writer = "waiting"
    /\ Q!ConsumerStep(Writer) \/ Q!SpuriousWakeup(Writer)
    /\ UNCHANGED <<main, writer, writable, file, reported, handled>>

\* Mutant of WriterReturns: a null node ends the thread whether or not the
\* queue is aborting, and an event taken while it is aborting is dropped.
WriterReturnsDropping ==
    /\ writer = "waiting" /\ pc[Writer] = "idle"
    /\ writer' = IF abort_flag \/ taken[Writer] = <<>> THEN "finished" ELSE "write"
    /\ UNCHANGED <<queueVars, main, writable, file, reported, handled>>

\* wait_pop_front has returned: a null node ends the thread if the queue is
\* aborting, and is ignored otherwise.
WriterReturns ==
    /\ writer = "waiting" /\ pc[Writer] = "idle"
    /\ writer' = IF taken[Writer] # <<>> THEN "write"
                 ELSE IF abort_flag THEN "finished" ELSE "loop"
    /\ UNCHANGED <<queueVars, main, writable, file, reported, handled>>

\* write_one_event_to_file
Write ==
    /\ writer = "write"
    /\ writer' = "loop"
    /\ file' = IF writable THEN file \o taken[Writer] ELSE file
    /\ handled' = handled \o taken[Writer]
    /\ UNCHANGED <<queueVars, main, writable, reported>>

Next ==
    \/ FileChanges
    \/ Construct
    \/ \E d \in Data : Report(d)
    \/ FinishReport
    \/ ClearLog
    \/ Abort
    \/ AbortNotify
    \/ JoinWriter
    \/ WriterCalls
    \/ WriterWaits
    \/ WriterReturns
    \/ Write

Spec == Init /\ [][Next]_vars

-----------------------------------------------------------------------------
(* Properties. *)

\* What the writer has been handed but is not done with.
InFlight == IF writer = "write" \/ (writer = "waiting" /\ pc[Writer] = "idle")
            THEN taken[Writer] ELSE <<>>

\* No event is lost, duplicated or reordered on its way to the writer, up to
\* and including the destructor: what has not been handled is still queued.
\* When the destructor is done, so is the writer thread, which uses the queue and
\* the file name, and it has written every event it took off the queue.
EventsAccountedFor ==
    /\ reported = handled \o InFlight \o list
    /\ main = "destroyed" => writer = "finished" /\ reported = handled \o list
=============================================================================
