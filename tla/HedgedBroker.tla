---------------------------- MODULE HedgedBroker ----------------------------
(***************************************************************************)
(* The query broker, src/py/server/broker.py: Broker and HedgedBroker.     *)
(*                                                                         *)
(* dispatch() runs on many client threads at once.  It submits one primary *)
(* call per shard to a pool of N threads that all dispatches share.  The   *)
(* hedged broker then waits for a fixed delay, submits one backup call to  *)
(* a second shared pool for each shard that has not answered, and takes    *)
(* per shard whichever call ends first.  Nothing cancels the other.        *)
(*                                                                         *)
(* A member of Dispatches is one execution of dispatch().  A pool runs     *)
(* what is submitted to it in order, on N threads.                         *)
(***************************************************************************)
EXTENDS Naturals, Sequences, FiniteSets, SequencesExt

CONSTANTS
    N,           \* number of shards, and size of both pools
    Dispatches,  \* executions of dispatch()
    Hits,        \* the documents that match the query, over all shards
    ShardOf,     \* the shard of a hit
    Score,       \* the score of a hit; all different
    K,           \* k
    MaxFailures  \* bound on the calls that fail

Shards == 1..N
Pools == {"primary", "backup"}
CallIds == Dispatches \X Shards

ASSUME BrokerAssumption ==
    /\ N \in Nat \ {0} /\ K \in Nat /\ MaxFailures \in Nat
    /\ IsFiniteSet(Dispatches) /\ IsFiniteSet(Hits)
    /\ ShardOf \in [Hits -> Shards]
    /\ Score \in [Hits -> Nat]
    /\ \A g, h \in Hits : Score[g] = Score[h] => g = h

VARIABLES
    hedged,   \* whether the broker is a HedgedBroker
    pc,       \* where each dispatch is
    notDone,  \* the shards whose primary had not ended when the wait did
    winner,   \* per dispatch and shard, the pool whose call was taken
    call,     \* per pool, the state of every call
    queue,    \* per pool, its unfinished calls, oldest first
    seen,     \* per dispatch, the counter it has read inside the lock
    total,    \* total_shard_calls
    sent,     \* backup_calls_sent
    stage     \* of close()

dispatchVars == <<pc, notDone, winner>>
poolVars == <<call, queue>>
counterVars == <<seen, total, sent>>
vars == <<hedged, dispatchVars, poolVars, counterVars, stage>>
-----------------------------------------------------------------------------
(* Answers *)

\* The k best of a set of hits: what a shard returns for its own hits, and
\* what sorting by score and slicing [:k] leaves of the merged list.
Best(hits) ==
    {h \in hits : Cardinality({g \in hits : Score[g] > Score[h]}) < K}

\* What the client of a shard answers, the replica's like the primary's.
Response(shard) == Best({h \in Hits : ShardOf[h] = shard})

Sent(p, d) == {i \in Shards : call[p][<<d, i>>] # "unsent"}
Answered(p, d) == {i \in Shards : call[p][<<d, i>>] = "answered"}
Done(p, d) == {i \in Shards : call[p][<<d, i>>] \in {"answered", "failed"}}

\* Faulty form: replicas are numbered in the order in which backups are sent.
ShardByOrder(p, d, i) ==
    IF p = "backup" THEN Cardinality({j \in Sent("backup", d) : j <= i}) ELSE i

\* The shard whose client makes call i of dispatch d.
ShardCalled(p, d, i) == i

\* The results of call i of dispatch d.
Reply(p, d, i) ==
    IF p \in Pools /\ i \in Answered(p, d) THEN Response(ShardCalled(p, d, i)) ELSE {}

\* The merged answer of a dispatch: the best of what it took for the shards.
Answer(d) == Best(UNION {Reply(winner[d][i], d, i) : i \in Shards})

\* Shards are gone through in order: i is the next one of S.
IsNext(i, S) == i \in S /\ \A j \in S : i <= j
-----------------------------------------------------------------------------
(* The executors *)

Failed(p) == {c \in CallIds : call[p][c] = "failed"}
Unfinished(p) == {c \in CallIds : call[p][c] = "pending"}

\* submit()
Submit(p, d, i) ==
    /\ call' = [call EXCEPT ![p][<<d, i>>] = "pending"]
    /\ queue' = [queue EXCEPT ![p] = Append(@, <<d, i>>)]

\* The places in the queue of the calls that have a thread: threads take calls
\* in order, so the N oldest unfinished ones.
Running(p) == {j \in DOMAIN queue[p] : j <= N}

\* SearchClient.dispatch returns or raises: the server sheds the call, is gone
\* or does not answer within timeout_s.
EndCall(p, outcome) ==
    /\ outcome = "failed" =>
           Cardinality(Failed("primary")) + Cardinality(Failed("backup")) < MaxFailures
    /\ \E j \in Running(p) :
          /\ call' = [call EXCEPT ![p][queue[p][j]] = outcome]
          /\ queue' = [queue EXCEPT ![p] = RemoveAt(@, j)]
    /\ UNCHANGED <<hedged, dispatchVars, counterVars, stage>>
-----------------------------------------------------------------------------
Init ==
    /\ hedged \in BOOLEAN
    /\ pc = [d \in Dispatches |-> "idle"]
    /\ notDone = [d \in Dispatches |-> {}]
    /\ winner = [d \in Dispatches |-> [i \in Shards |-> "none"]]
    /\ call = [p \in Pools |-> [c \in CallIds |-> "unsent"]]
    /\ queue = [p \in Pools |-> <<>>]
    /\ seen = [d \in Dispatches |-> 0]
    /\ total = 0
    /\ sent = 0
    /\ stage = "open"
-----------------------------------------------------------------------------
(* dispatch() *)

\* Faulty form: the counters are not protected by a lock.
NoLock == TRUE

\* Nobody is between the read and the write of a counter.
LockFree == \A d \in Dispatches : pc[d] \notin {"adding", "tallying"}

\* dispatch() is called.  Callers close the broker only after their last call.
Begin(d) ==
    /\ pc[d] = "idle"
    /\ stage = "open"
    /\ IF hedged
       THEN /\ LockFree
            /\ seen' = [seen EXCEPT ![d] = total]
            /\ pc' = [pc EXCEPT ![d] = "adding"]
       ELSE /\ pc' = [pc EXCEPT ![d] = "submitting"]
            /\ UNCHANGED seen
    /\ UNCHANGED <<hedged, notDone, winner, poolVars, total, sent, stage>>

\* self.total_shard_calls += n
AddCalls(d) ==
    /\ pc[d] = "adding"
    /\ total' = seen[d] + N
    /\ seen' = [seen EXCEPT ![d] = 0]
    /\ pc' = [pc EXCEPT ![d] = "submitting"]
    /\ UNCHANGED <<hedged, notDone, winner, poolVars, sent, stage>>

\* The shards whose primary has not been submitted.
Unsent(d) == Shards \ Sent("primary", d)

\* One primary after the other is submitted.
SubmitPrimary(d) ==
    /\ pc[d] = "submitting"
    /\ \E i \in Unsent(d) :
          /\ IsNext(i, Unsent(d))
          /\ Submit("primary", d, i)
          /\ pc' = [pc EXCEPT ![d] = IF Unsent(d) # {i} THEN "submitting"
                                     ELSE IF hedged THEN "waiting"
                                     ELSE "resolving"]
    /\ UNCHANGED <<hedged, notDone, winner, counterVars, stage>>

\* wait(primaries, hedge_delay_s) returns, because all have ended or because
\* the delay is over.
StopWaiting(d) ==
    LET late == Shards \ Done("primary", d)
    IN  /\ pc[d] = "waiting"
        /\ notDone' = [notDone EXCEPT ![d] = late]
        /\ pc' = [pc EXCEPT ![d] = IF late = {} THEN "resolving" ELSE "hedging"]
        /\ UNCHANGED <<hedged, winner, poolVars, counterVars, stage>>

\* The shards that still have to be hedged.
Hedges(d) == notDone[d] \ Sent("backup", d)

\* Pass 1: the next backup is submitted,
SubmitBackup(d) ==
    /\ pc[d] = "hedging"
    /\ \E i \in Hedges(d) : IsNext(i, Hedges(d)) /\ Submit("backup", d, i)
    /\ pc' = [pc EXCEPT ![d] = "counting"]
    /\ UNCHANGED <<hedged, notDone, winner, counterVars, stage>>

\* the lock is taken,
CountBackup(d) ==
    /\ pc[d] = "counting"
    /\ LockFree
    /\ seen' = [seen EXCEPT ![d] = sent]
    /\ pc' = [pc EXCEPT ![d] = "tallying"]
    /\ UNCHANGED <<hedged, notDone, winner, poolVars, total, sent, stage>>

\* and self.backup_calls_sent += 1.
TallyBackup(d) ==
    /\ pc[d] = "tallying"
    /\ sent' = seen[d] + 1
    /\ seen' = [seen EXCEPT ![d] = 0]
    /\ pc' = [pc EXCEPT ![d] = IF Hedges(d) = {} THEN "resolving" ELSE "hedging"]
    /\ UNCHANGED <<hedged, notDone, winner, poolVars, total, stage>>

\* The shards for which no call has been taken.
Open(d) == {i \in Shards : winner[d][i] = "none"}

\* Take the call of a pool for shard i; after the last shard, merge and return.
TakeCall(p, d, i) ==
    /\ winner' = [winner EXCEPT ![d][i] = p]
    /\ pc' = [pc EXCEPT ![d] = IF Open(d) = {i} THEN "returned" ELSE "resolving"]

\* Faulty form: wait for an answer, and not for an end.
ResolveAnswered(d) ==
    /\ pc[d] = "resolving"
    /\ \E i \in Open(d), p \in Pools :
          IsNext(i, Open(d)) /\ i \in Answered(p, d) /\ TakeCall(p, d, i)
    /\ UNCHANGED <<hedged, notDone, poolVars, counterVars, stage>>

\* Pass 2, shard by shard: any of its calls that has ended decides.  If that
\* call failed, result() raises out of dispatch(); the calls that have not
\* ended go on.
Resolve(d) ==
    /\ pc[d] = "resolving"
    /\ \E i \in Open(d), p \in Pools :
          /\ IsNext(i, Open(d))
          /\ i \in Done(p, d)
          /\ \/ i \in Answered(p, d) /\ TakeCall(p, d, i)
             \/ /\ i \notin Answered(p, d)
                /\ pc' = [pc EXCEPT ![d] = "raised"]
                /\ UNCHANGED winner
    /\ UNCHANGED <<hedged, notDone, poolVars, counterVars, stage>>
-----------------------------------------------------------------------------
(* close() *)

\* Faulty form: wait for the calls without a thread, not for those that run.
QueueEmpty(p) == Len(queue[p]) <= N

\* shutdown(wait=True) returns: every submitted call has ended.
Quiet(p) == Unfinished(p) = {}

Ended(d) == pc[d] \in {"returned", "raised"}

\* close() is called when no dispatch() is under way.
CloseStart ==
    /\ stage = "open"
    /\ \A d \in Dispatches : pc[d] = "idle" \/ Ended(d)
    /\ stage' = IF hedged THEN "backups" ELSE "primaries"
    /\ UNCHANGED <<hedged, dispatchVars, poolVars, counterVars>>

\* The backup pool is down; the replicas' channels are closed.
CloseReplicas ==
    /\ stage = "backups"
    /\ Quiet("backup")
    /\ stage' = "primaries"
    /\ UNCHANGED <<hedged, dispatchVars, poolVars, counterVars>>

\* The pool is down; the channels are closed, and close() returns.
CloseClients ==
    /\ stage = "primaries"
    /\ Quiet("primary")
    /\ stage' = "closed"
    /\ UNCHANGED <<hedged, dispatchVars, poolVars, counterVars>>
-----------------------------------------------------------------------------
Dispatch(d) ==
    \/ AddCalls(d) \/ SubmitPrimary(d) \/ StopWaiting(d)
    \/ SubmitBackup(d) \/ CountBackup(d) \/ TallyBackup(d)
    \/ Resolve(d)

Pool(p) == \E outcome \in {"answered", "failed"} : EndCall(p, outcome)

Close == CloseReplicas \/ CloseClients

Next ==
    \/ \E d \in Dispatches : Begin(d) \/ Dispatch(d)
    \/ \E p \in Pools : Pool(p)
    \/ CloseStart \/ Close

Spec == Init /\ [][Next]_vars

\* Threads run, and every call ends: SearchClient.dispatch has a timeout.
Fairness ==
    /\ \A d \in Dispatches : WF_vars(Dispatch(d))
    /\ \A p \in Pools : WF_vars(Pool(p))
    /\ WF_vars(Close)

FairSpec == Spec /\ Fairness
-----------------------------------------------------------------------------
TypeOK ==
    /\ hedged \in BOOLEAN
    /\ pc \in [Dispatches -> {"idle", "adding", "submitting", "waiting", "hedging",
                              "counting", "tallying", "resolving", "returned", "raised"}]
    /\ notDone \in [Dispatches -> SUBSET Shards]
    /\ winner \in [Dispatches -> [Shards -> Pools \cup {"none"}]]
    /\ call \in [Pools -> [CallIds -> {"unsent", "pending", "answered", "failed"}]]
    /\ queue \in [Pools -> Seq(CallIds)]
    /\ seen \in [Dispatches -> Nat] /\ total \in Nat /\ sent \in Nat
    /\ stage \in {"open", "backups", "primaries", "closed"}
-----------------------------------------------------------------------------
(* Safety *)

\* A dispatch that returns has the best hits of the whole corpus, whichever
\* call it took for each shard: no shard is missing, none stands in for
\* another (broker.py:109-153).
AnswerExact == \A d \in Dispatches : pc[d] = "returned" => Answer(d) = Best(Hits)

\* Every unfinished call finds its channel open, also the calls that lost a race
\* and outlived their dispatch (broker.py:155-159, 62-65).
ClientsOutliveCalls ==
    /\ Unfinished("backup") # {} => stage \in {"open", "backups"}
    /\ Unfinished("primary") # {} => stage # "closed"

\* When no dispatch is under way the counters are the numbers of shard calls
\* and of backups that were made, however many threads counted at once
\* (broker.py:90-96, read at hedging.py:122-123).
CountersExact ==
    (hedged /\ \A d \in Dispatches : pc[d] = "idle" \/ Ended(d)) =>
        /\ total = Cardinality({c \in CallIds : call["primary"][c] # "unsent"})
        /\ sent = Cardinality({c \in CallIds : call["backup"][c] # "unsent"})
-----------------------------------------------------------------------------
(* Liveness *)

\* Every dispatch() returns or raises, and so does close(): abandoned calls
\* that still hold a thread delay them only for a while.
CallsReturn ==
    /\ \A d \in Dispatches : pc[d] # "idle" ~> Ended(d)
    /\ stage # "open" ~> stage = "closed"
-----------------------------------------------------------------------------
(* What the comments say and the code does not do *)

\* "whichever of the two answers first wins" (broker.py:70-71): a dispatch
\* fails on a shard only if no call to that shard is left that could answer.
AnswerWins ==
    \A d \in Dispatches : pc[d] = "raised" =>
        \E i \in Shards :
            /\ call["primary"][<<d, i>>] = "failed"
            /\ call["backup"][<<d, i>>] \in {"unsent", "failed"}
=============================================================================
