-------------------------- MODULE GroupRepGeneration --------------------------
(***************************************************************************)
(* Multi-threaded generation of the representations of a symmetry group    *)
(* (scenarios/symmetrized/group_rep_generation_worker.cpp). The bundle's   *)
(* thread ("main") and max_workers worker threads go through BuildList one  *)
(* level at a time. A level's elements are striped over the workers; main  *)
(* waits until every worker has counted the level done, moves the raw data *)
(* into a Representation, and raises global_index to release the workers   *)
(* to the next level, whose parents now exist. There are no locks: all     *)
(* ordering comes from the two kinds of counter and atomic wait/notify.    *)
(***************************************************************************)
EXTENDS RepresentationBuild

CONSTANTS NumWorkers,  \* max_workers: the cores, but at most group_size
          Moved        \* raw data that was moved from

Workers == 0 .. NumWorkers - 1

ASSUME WorkersAssumption == NumWorkers \in Nat \ {0} /\ NumWorkers <= GroupSize
ASSUME MovedAssumption == Moved \notin Data /\ Moved # Null

\* The elements a worker computes: worker_id, worker_id + max_workers, ...
Stripe(w) == {e \in Elements : e % NumWorkers = w}

Blank == [e \in Elements |-> 0]

VARIABLES
    representations,  \* per length: Null, or the element data
    rep_raw_data,     \* per level: the raw data, or Moved
    global_index,     \* bundle: number of levels published
    last_generated,   \* per worker: last_generated_index, levels finished
    wpc,              \* per worker: where its thread is
    local_index,      \* per worker: local copy of last_generated_index
    local_global,     \* per worker: local copy of global_index
    todo,             \* per worker: elements left in the current level
    mpc,              \* where the bundle's thread is
    g_idx,            \* main: local copy of global_index
    cursor,           \* main: the worker the current loop is at
    l_idx             \* main: local copy of that worker's last_generated_index

workerVars == <<wpc, local_index, local_global, todo>>
mainVars   == <<mpc, g_idx, cursor, l_idx>>
vars == <<representations, rep_raw_data, global_index, last_generated,
          workerVars, mainVars>>

TypeOK ==
    /\ representations \in [Lengths -> Data \cup {Null}]
    /\ rep_raw_data \in [Levels -> Data \cup {Moved}]
    /\ global_index \in 0 .. Len(BuildList)
    /\ last_generated \in [Workers -> 0 .. Len(BuildList)]
    /\ wpc \in [Workers -> {"unlaunched", "level", "check", "blocked", "load",
                            "elements", "notify", "finished", "joined"}]
    /\ local_index \in [Workers -> 0 .. Len(BuildList)]
    /\ local_global \in [Workers -> 0 .. Len(BuildList)]
    /\ todo \in [Workers -> SUBSET Elements]
    /\ mpc \in {"launch", "level", "load", "wait", "blocked", "publish", "add",
                "notify", "join", "done"}
    /\ g_idx \in 0 .. Len(BuildList)
    /\ cursor \in 0 .. NumWorkers
    /\ l_idx \in 0 .. Len(BuildList)

\* GroupRepGenerationBundle's constructor, up to the first launch of execute().
Init ==
    /\ representations = InitialRepresentations
    /\ rep_raw_data = [i \in Levels |-> Blank]
    /\ global_index = 0
    /\ last_generated = [w \in Workers |-> 0]
    /\ wpc = [w \in Workers |-> "unlaunched"]
    /\ local_index = [w \in Workers |-> 0]
    /\ local_global = [w \in Workers |-> 0]
    /\ todo = [w \in Workers |-> {}]
    /\ mpc = "launch"
    /\ g_idx = 0
    /\ cursor = 0
    /\ l_idx = 0

-----------------------------------------------------------------------------
(* Worker threads: GroupRepGenerationWorker::execute. *)

Goto(w, from, to) == wpc[w] = from /\ wpc' = [wpc EXCEPT ![w] = to]

\* while (local_index < max_index)
WorkerLevel(w) ==
    /\ Goto(w, "level", IF local_index[w] < Len(BuildList) THEN "check" ELSE "finished")
    /\ UNCHANGED <<representations, rep_raw_data, global_index, last_generated,
                   local_index, local_global, todo, mainVars>>

\* Mutant of WorkerCheck: the worker does not wait for the parents' level.
WorkerCheckUnwaited(w) ==
    /\ Goto(w, "check", "elements")
    /\ todo' = [todo EXCEPT ![w] = Stripe(w)]
    /\ UNCHANGED <<representations, rep_raw_data, global_index, last_generated,
                   local_index, local_global, mainVars>>

\* while (global_index < local_index), on the worker's own copies.
WorkerCheck(w) ==
    /\ local_global[w] >= local_index[w]
    /\ Goto(w, "check", "elements")
    /\ todo' = [todo EXCEPT ![w] = Stripe(w)]
    /\ UNCHANGED <<representations, rep_raw_data, global_index, last_generated,
                   local_index, local_global, mainVars>>

\* atomic wait: comparing the value and starting to block is one atomic step;
\* a blocked thread runs again only when it is notified.
WorkerWait(w) ==
    /\ local_global[w] < local_index[w]
    /\ Goto(w, "check", IF global_index = local_global[w] THEN "blocked" ELSE "load")
    /\ UNCHANGED <<representations, rep_raw_data, global_index, last_generated,
                   local_index, local_global, todo, mainVars>>

WorkerLoad(w) ==
    /\ Goto(w, "load", "check")
    /\ local_global' = [local_global EXCEPT ![w] = global_index]
    /\ UNCHANGED <<representations, rep_raw_data, global_index, last_generated,
                   local_index, todo, mainVars>>

\* Is e the next element of w's stripe?
IsNext(w, e) == e \in todo[w] /\ \A d \in todo[w] : e <= d

\* data_ptr[e] = mapper(...), in the raw data of level i.
WriteElement(i, e) ==
    rep_raw_data' =
        IF rep_raw_data[i] = Moved THEN rep_raw_data
        ELSE [rep_raw_data EXCEPT ![i] = [rep_raw_data[i] EXCEPT
                ![e] = Combined(representations, BuildList[i], e)]]

WorkerElement(w) ==
    /\ wpc[w] = "elements"
    /\ \E e \in Elements :
        /\ IsNext(w, e)
        /\ WriteElement(local_index[w] + 1, e)
        /\ todo' = [todo EXCEPT ![w] = @ \ {e}]
    /\ UNCHANGED <<representations, global_index, last_generated, wpc,
                   local_index, local_global, mainVars>>

\* last_generated_index.fetch_add(1), and reload of the local copy.
WorkerSignal(w) ==
    /\ todo[w] = {}
    /\ Goto(w, "elements", "notify")
    /\ last_generated' = [last_generated EXCEPT ![w] = @ + 1]
    /\ local_index' = [local_index EXCEPT ![w] = last_generated'[w]]
    /\ UNCHANGED <<representations, rep_raw_data, global_index, local_global,
                   todo, mainVars>>

\* Mutant of WorkerNotify: nobody is woken.
WorkerNotifyNobody(w) ==
    /\ Goto(w, "notify", "level")
    /\ UNCHANGED <<representations, rep_raw_data, global_index, last_generated,
                   local_index, local_global, todo, mainVars>>

\* last_generated_index.notify_all(): wakes main if it is blocked on this worker.
WorkerNotify(w) ==
    /\ Goto(w, "notify", "level")
    /\ mpc' = IF mpc = "blocked" /\ cursor = w THEN "wait" ELSE mpc
    /\ UNCHANGED <<representations, rep_raw_data, global_index, last_generated,
                   local_index, local_global, todo, g_idx, cursor, l_idx>>

WorkerStep(w) ==
    \/ WorkerLevel(w)
    \/ WorkerCheck(w)
    \/ WorkerWait(w)
    \/ WorkerLoad(w)
    \/ WorkerElement(w)
    \/ WorkerSignal(w)
    \/ WorkerNotify(w)

-----------------------------------------------------------------------------
(* The bundle's thread: GroupRepGenerationBundle::execute. *)

\* The loop that launches the workers: each may run as soon as it is launched.
Launch ==
    /\ mpc = "launch"
    /\ IF cursor < NumWorkers
       THEN /\ Goto(cursor, "unlaunched", "level")
            /\ cursor' = cursor + 1
            /\ mpc' = mpc
       ELSE /\ mpc' = "level"
            /\ UNCHANGED <<wpc, cursor>>
    /\ UNCHANGED <<representations, rep_raw_data, global_index, last_generated,
                   local_index, local_global, todo, g_idx, l_idx>>

\* for (wl : build_list)
NextLevel ==
    /\ mpc = "level"
    /\ mpc' = IF g_idx < Len(BuildList) THEN "load" ELSE "join"
    /\ cursor' = 0
    /\ UNCHANGED <<representations, rep_raw_data, global_index, last_generated,
                   workerVars, g_idx, l_idx>>

\* for (worker_ptr : workers): load its counter; all seen: publish.
LoadCounter ==
    /\ mpc = "load"
    /\ IF cursor < NumWorkers
       THEN /\ l_idx' = last_generated[cursor]
            /\ mpc' = "wait"
       ELSE /\ mpc' = "publish"
            /\ UNCHANGED l_idx
    /\ UNCHANGED <<representations, rep_raw_data, global_index, last_generated,
                   workerVars, g_idx, cursor>>

\* Mutant of WaitCounter: while (l_idx < g_idx).
WaitCounterOffByOne ==
    /\ mpc = "wait"
    /\ IF l_idx >= g_idx
       THEN cursor' = cursor + 1 /\ mpc' = "load"
       ELSE /\ mpc' = IF last_generated[cursor] = l_idx THEN "blocked" ELSE "load"
            /\ UNCHANGED cursor
    /\ UNCHANGED <<representations, rep_raw_data, global_index, last_generated,
                   workerVars, g_idx, l_idx>>

\* while (l_idx <= g_idx) wait(l_idx), then load again. A thread woken from
\* the wait compares again, and returns only when the value differs.
WaitCounter ==
    /\ mpc = "wait"
    /\ IF l_idx > g_idx
       THEN cursor' = cursor + 1 /\ mpc' = "load"
       ELSE /\ mpc' = IF last_generated[cursor] = l_idx THEN "blocked" ELSE "load"
            /\ UNCHANGED cursor
    /\ UNCHANGED <<representations, rep_raw_data, global_index, last_generated,
                   workerVars, g_idx, l_idx>>

\* representations[wl-1] = make_unique<Representation>(wl, move(rep_raw_data[g_idx]))
Publish ==
    /\ mpc = "publish"
    /\ mpc' = "add"
    /\ representations' = [representations EXCEPT ![BuildList[g_idx + 1]] = rep_raw_data[g_idx + 1]]
    /\ rep_raw_data' = [rep_raw_data EXCEPT ![g_idx + 1] = Moved]
    /\ UNCHANGED <<global_index, last_generated, workerVars, g_idx, cursor, l_idx>>

AddGlobal ==
    /\ mpc = "add"
    /\ mpc' = "notify"
    /\ global_index' = global_index + 1
    /\ UNCHANGED <<representations, rep_raw_data, last_generated, workerVars,
                   g_idx, cursor, l_idx>>

\* Mutant of NotifyGlobal: main does not reload its copy of the counter.
NotifyGlobalStale ==
    /\ mpc = "notify"
    /\ mpc' = "level"
    /\ wpc' = [w \in Workers |-> IF wpc[w] = "blocked" THEN "check" ELSE wpc[w]]
    /\ UNCHANGED <<representations, rep_raw_data, global_index, last_generated,
                   local_index, local_global, todo, g_idx, cursor, l_idx>>

\* global_index.notify_all(): every blocked worker compares again. Its value
\* has grown, so each returns from the wait.
NotifyGlobal ==
    /\ mpc = "notify"
    /\ mpc' = "level"
    /\ wpc' = [w \in Workers |-> IF wpc[w] = "blocked" THEN "check" ELSE wpc[w]]
    /\ g_idx' = global_index
    /\ UNCHANGED <<representations, rep_raw_data, global_index, last_generated,
                   local_index, local_global, todo, cursor, l_idx>>

\* join_all: each worker is joined once it has finished, its counter reset.
Join ==
    /\ mpc = "join"
    /\ IF cursor < NumWorkers
       THEN /\ Goto(cursor, "finished", "joined")
            /\ last_generated' = [last_generated EXCEPT ![cursor] = 0]
            /\ cursor' = cursor + 1
            /\ mpc' = mpc
       ELSE /\ mpc' = "done"
            /\ UNCHANGED <<wpc, last_generated, cursor>>
    /\ UNCHANGED <<representations, rep_raw_data, global_index, local_index,
                   local_global, todo, g_idx, l_idx>>

MainStep ==
    \/ Launch
    \/ NextLevel
    \/ LoadCounter
    \/ WaitCounter
    \/ Publish
    \/ AddGlobal
    \/ NotifyGlobal
    \/ Join

\* execute() has returned: nothing is left to run.
Terminated == mpc = "done" /\ UNCHANGED vars

Next ==
    \/ \E w \in Workers : WorkerStep(w)
    \/ MainStep
    \/ Terminated

\* Every thread that can take a step is eventually scheduled.
Fairness ==
    /\ WF_vars(MainStep)
    /\ \A w \in Workers : WF_vars(WorkerStep(w))

Spec     == Init /\ [][Next]_vars
FairSpec == Spec /\ Fairness

-----------------------------------------------------------------------------
(* Properties. *)

\* "Get parents, which are guaranteed after wait, to exist": no worker reads
\* a parent that main has not published.
ParentsPublished ==
    \A w \in Workers : wpc[w] = "elements" =>
        LET n == BuildList[local_index[w] + 1]
        IN  /\ representations[LeftParent(n)] # Null
            /\ representations[RightParent(n)] # Null

\* A published representation is complete: no element of it was still to be
\* written, or was computed from incomplete parents, when main moved the data.
PublishedComplete ==
    \A n \in Lengths : representations[n] # Null => representations[n] = Correct(n)

\* No worker can be writing the raw data that main moves out of, and none
\* writes data that is already moved.
NoWriteAfterMove ==
    \A w \in Workers : wpc[w] = "elements" =>
        /\ rep_raw_data[local_index[w] + 1] # Moved
        /\ mpc = "publish" => local_index[w] > g_idx

\* Callers keep references to representations without a lock: one that is
\* published is never replaced.
PublishedForGood ==
    [][\A n \in Lengths : representations[n] # Null =>
                           representations'[n] = representations[n]]_vars

\* The inductive invariant behind the properties above (see
\* GroupRepGeneration_proofs). Levels up to NumPublished are published: their
\* representation is right and their raw data is moved.
NumPublished == IF mpc \in {"add", "notify"} THEN g_idx + 1 ELSE g_idx

PublishedInv ==
    /\ \A n \in Built : representations[n] = Correct(n)
    /\ \A i \in Levels :
        IF i <= NumPublished
        THEN representations[BuildList[i]] = Correct(BuildList[i]) /\ rep_raw_data[i] = Moved
        ELSE representations[BuildList[i]] = Null /\ rep_raw_data[i] # Moved

\* Main: its copy of the global counter, and whom it has already waited for.
MainInv ==
    /\ global_index = IF mpc = "notify" THEN g_idx + 1 ELSE g_idx
    /\ mpc \in {"load", "wait", "blocked", "publish", "add", "notify"} => g_idx < Len(BuildList)
    /\ mpc \in {"load", "wait", "blocked"} =>
          \A w \in Workers : w < cursor => local_index[w] > g_idx
    /\ mpc = "publish" => \A w \in Workers : local_index[w] > g_idx
    /\ mpc \in {"join", "done"} => g_idx = Len(BuildList)
    /\ mpc \in {"wait", "blocked"} => cursor \in Workers /\ l_idx <= local_index[cursor]
    /\ mpc \notin {"join", "done"} => last_generated = local_index

\* Workers: when one generates a level, all earlier levels are published.
WorkerInv ==
    \A w \in Workers :
        /\ NumPublished <= local_index[w]
        /\ local_global[w] <= global_index
        /\ wpc[w] \in {"check", "blocked", "load", "elements"} => local_index[w] < Len(BuildList)
        /\ wpc[w] = "elements" => local_index[w] <= global_index /\ todo[w] \subseteq Stripe(w)

\* What a worker has generated of level i.
Generated(w, i) ==
    IF i <= local_index[w] THEN Stripe(w)
    ELSE IF i = local_index[w] + 1 /\ wpc[w] = "elements" THEN Stripe(w) \ todo[w]
    ELSE {}

\* Raw data not yet moved is right wherever a worker has been.
RawDataInv ==
    \A w \in Workers, i \in Levels :
        i > NumPublished => \A e \in Generated(w, i) : rep_raw_data[i][e] = BuildList[i]

IInv == TypeOK /\ PublishedInv /\ MainInv /\ WorkerInv /\ RawDataInv

\* execute() returns, whatever the schedule: no notification is lost, and
\* main and the workers never all wait for one another.
Termination == <>(mpc = "done")

\* The multi-threaded builder implements the single-threaded one.
Sequential == INSTANCE GroupRepSequential
                WITH idx <- NumPublished

ImplementsSequential == Sequential!Spec
=============================================================================
