---------------------------- MODULE EmailWorker ----------------------------
(* The welcome-email jobs of server/src/jobs from the queue to the mail: the   *)
(* worker processes of worker.ts, their start, their shutdown and its timer,   *)
(* and BullMQ and Redis as the code uses them.                                 *)
(*                                                                             *)
(* BullMQ is external: a fetched job is active under a lock that its worker    *)
(* renews; a job found active without a lock has stalled and waits again, and  *)
(* fails for good once it has stalled more than MaxStalled times.              *)
(* A command waits while Redis is away (maxRetriesPerRequest: null), so every  *)
(* step that needs an answer of Redis is guarded by redisUp.                   *)
EXTENDS Naturals, FiniteSets

CONSTANTS Jobs,         \* welcome emails, one per registration
          Workers,      \* worker processes; one that exits is started again
          Concurrency,  \* jobs a worker processes at once (5)
          MaxStalled,   \* BullMQ's maxStalledCount
          Nobody        \* no lock

ASSUME ConcurrencyAssumption == Concurrency \in Nat \ {0}
ASSUME MaxStalledAssumption == MaxStalled \in Nat
ASSUME NobodyAssumption == Nobody \notin Workers

VARIABLES redisUp,
          stage,     \* where each job is in the queue
          lock,      \* the worker that has the job's lock
          stalls,    \* the job's stalled count
          proc,      \* where each worker process is
          code,      \* how it exited last
          busy,      \* claims it has fetched and not settled
          mailed,    \* those of them whose processor has returned
          mails      \* history: welcome emails sent per job

queueVars == <<stage, lock, stalls>>
processVars == <<proc, code, busy, mailed>>
vars == <<redisUp, queueVars, processVars, mails>>

(* A claim is a job and its stalled count when it was fetched: a worker that   *)
(* lost a job and fetches it again does not take one for the other.            *)
Claims == Jobs \X (0 .. MaxStalled)
Claim(j) == <<j, stalls[j]>>

Up == {"running", "closing", "quitting"}   \* the process exists
ShuttingDown(w) == proc[w] \in {"closing", "quitting"}

-----------------------------------------------------------------------------
Init == /\ redisUp = TRUE
        /\ stage = [j \in Jobs |-> "none"]
        /\ lock = [j \in Jobs |-> Nobody]
        /\ stalls = [j \in Jobs |-> 0]
        /\ proc = [w \in Workers |-> "down"]
        /\ code = [w \in Workers |-> "none"]
        /\ busy = [w \in Workers |-> {}]
        /\ mailed = [w \in Workers |-> {}]
        /\ mails = [j \in Jobs |-> 0]

(* enqueueWelcomeEmail of a registration, as far as Redis has it.              *)
Enqueue(j) == /\ redisUp /\ stage[j] = "none"
              /\ stage' = [stage EXCEPT ![j] = "wait"]
              /\ UNCHANGED <<redisUp, lock, stalls, processVars, mails>>

BootWithoutRun(w) == /\ proc[w] = "down"    \* autorun: false and no run()
                     /\ code' = [code EXCEPT ![w] = "none"]
                     /\ UNCHANGED <<redisUp, queueVars, proc, busy, mailed, mails>>

(* A process loads the module and reaches worker.run().                        *)
Boot(w) == /\ proc[w] = "down"
           /\ proc' = [proc EXCEPT ![w] = "running"]
           /\ UNCHANGED <<redisUp, queueVars, code, busy, mailed, mails>>

(* worker.run() fetches a job while fewer than concurrency are in process.     *)
Fetch(w, j) == /\ redisUp /\ proc[w] = "running"
               /\ Cardinality(busy[w]) < Concurrency
               /\ stage[j] = "wait"
               /\ stage' = [stage EXCEPT ![j] = "active"]
               /\ lock' = [lock EXCEPT ![j] = w]
               /\ busy' = [busy EXCEPT ![w] = @ \cup {Claim(j)}]
               /\ UNCHANGED <<redisUp, stalls, proc, code, mailed, mails>>

ProcessAgain(w, c) == /\ proc[w] \in Up /\ c \in busy[w]   \* once more per claim
                      /\ mailed' = [mailed EXCEPT ![w] = @ \cup {c}]
                      /\ mails' = [mails EXCEPT ![c[1]] = @ + 1]
                      /\ UNCHANGED <<redisUp, queueVars, proc, code, busy>>

(* processWelcomeEmail: it only logs and does not throw.                       *)
Process(w, c) == /\ proc[w] \in Up /\ c \in busy[w] \ mailed[w]
                 /\ mailed' = [mailed EXCEPT ![w] = @ \cup {c}]
                 /\ mails' = [mails EXCEPT ![c[1]] = @ + 1]
                 /\ UNCHANGED <<redisUp, queueVars, proc, code, busy>>

(* BullMQ settles a processed job: removed (removeOnComplete) under its lock,  *)
(* and left where it is when that lock has gone meanwhile.                     *)
Settles(w, c) ==
    LET j == c[1]
    IN  /\ redisUp /\ proc[w] \in Up
        /\ busy' = [busy EXCEPT ![w] = @ \ {c}]
        /\ mailed' = [mailed EXCEPT ![w] = @ \ {c}]
        /\ IF lock[j] = w /\ c = Claim(j)
           THEN /\ stage' = [stage EXCEPT ![j] = "done"]
                /\ lock' = [lock EXCEPT ![j] = Nobody]
           ELSE UNCHANGED <<stage, lock>>
        /\ UNCHANGED <<redisUp, stalls, proc, code, mails>>

CompleteUnmailed(w, c) == c \in busy[w] /\ Settles(w, c)   \* the processor not awaited
Complete(w, c) == c \in mailed[w] /\ Settles(w, c)

(* A lock runs out when its worker does not renew it: the process has gone, or *)
(* Redis is out of its reach for longer than the lock lasts.                   *)
LockExpires(j) == /\ lock[j] # Nobody
                  /\ ~redisUp \/ Claim(j) \notin busy[lock[j]]
                  /\ lock' = [lock EXCEPT ![j] = Nobody]
                  /\ UNCHANGED <<redisUp, stage, stalls, processVars, mails>>

(* The stalled checker of a running worker.                                    *)
Stall(w, j) == /\ redisUp /\ proc[w] = "running"
               /\ stage[j] = "active" /\ lock[j] = Nobody
               /\ stalls' = [stalls EXCEPT ![j] = @ + 1]
               /\ stage' = [stage EXCEPT ![j] = IF stalls[j] < MaxStalled
                                                THEN "wait" ELSE "failed"]
               /\ UNCHANGED <<redisUp, lock, processVars, mails>>

-----------------------------------------------------------------------------
(* A process that exits drops what it was doing; its locks stay in Redis.      *)
Exit(w, status) == /\ proc' = [proc EXCEPT ![w] = "down"]
                   /\ code' = [code EXCEPT ![w] = status]
                   /\ busy' = [busy EXCEPT ![w] = {}]
                   /\ mailed' = [mailed EXCEPT ![w] = {}]
                   /\ UNCHANGED <<redisUp, queueVars, mails>>

(* shutdown() on SIGTERM or SIGINT; it ignores a second signal.                *)
Shutdown(w) == /\ proc[w] = "running"
               /\ proc' = [proc EXCEPT ![w] = "closing"]
               /\ UNCHANGED <<redisUp, queueVars, code, busy, mailed, mails>>

CloseUnawaited(w) == /\ proc[w] = "closing"
                     /\ proc' = [proc EXCEPT ![w] = "quitting"]
                     /\ UNCHANGED <<redisUp, queueVars, code, busy, mailed, mails>>

(* await worker.close(): it waits for the jobs in process.                     *)
Closed(w) == /\ proc[w] = "closing" /\ busy[w] = {}
             /\ proc' = [proc EXCEPT ![w] = "quitting"]
             /\ UNCHANGED <<redisUp, queueVars, code, busy, mailed, mails>>

(* await connection.quit(), then exit 0.                                       *)
Quit(w) == redisUp /\ proc[w] = "quitting" /\ Exit(w, "clean")

ForceExitAfterClose(w) == proc[w] = "quitting" /\ Exit(w, "failed")   \* armed too late

(* The forceExit timer, ten seconds after the signal.                          *)
ForceExit(w) == ShuttingDown(w) /\ Exit(w, "failed")

(* run(), close() or quit() rejects, an uncaught exception, an unhandled       *)
(* rejection, a SIGKILL.                                                       *)
Crash(w) == proc[w] \in Up /\ Exit(w, "failed")

RedisFails == redisUp /\ redisUp' = FALSE /\ UNCHANGED <<queueVars, processVars, mails>>
RedisReturns == ~redisUp /\ redisUp' = TRUE /\ UNCHANGED <<queueVars, processVars, mails>>

Next == \/ \E j \in Jobs : Enqueue(j) \/ LockExpires(j)
        \/ \E w \in Workers :
               \/ Boot(w) \/ Shutdown(w) \/ Closed(w) \/ Quit(w) \/ ForceExit(w) \/ Crash(w)
               \/ \E j \in Jobs : Fetch(w, j) \/ Stall(w, j)
               \/ \E c \in Claims : Process(w, c) \/ Complete(w, c)
        \/ RedisFails \/ RedisReturns

(* Timers fire, processors return, locks run out, and what exits is started    *)
(* again.  Fetching, settling and the stalled check are tried again as long as *)
(* the process runs; a process may exit and Redis may go in between.           *)
Fairness == /\ \A w \in Workers :
                   /\ WF_vars(ForceExit(w)) /\ WF_vars(Boot(w))
                   /\ \A c \in Claims : WF_vars(Process(w, c)) /\ SF_vars(Complete(w, c))
            /\ \A j \in Jobs : /\ WF_vars(LockExpires(j))
                               /\ SF_vars(\E w \in Workers : Fetch(w, j))
                               /\ SF_vars(\E w \in Workers : Stall(w, j))

Spec == Init /\ [][Next]_vars /\ Fairness

-----------------------------------------------------------------------------
(* Types; a job stalls at most once more than BullMQ allows it to.             *)
TypeOK == /\ redisUp \in BOOLEAN
          /\ stage \in [Jobs -> {"none", "wait", "active", "done", "failed"}]
          /\ lock \in [Jobs -> Workers \cup {Nobody}]
          /\ stalls \in [Jobs -> 0 .. MaxStalled + 1]
          /\ proc \in [Workers -> Up \cup {"down"}]
          /\ code \in [Workers -> {"none", "clean", "failed"}]
          /\ busy \in [Workers -> SUBSET Claims]
          /\ mailed \in [Workers -> SUBSET Claims]
          /\ mails \in [Jobs -> Nat]

(* However processes crash, time out and lose their locks, a new user gets no  *)
(* more welcome emails than one per stall of the job and one.                  *)
OneMailPerClaim == \A j \in Jobs : mails[j] <= stalls[j] + 1

(* A job leaves the queue as done only when its email was sent.                *)
DoneMeansMailed == \A j \in Jobs : stage[j] = "done" => mails[j] > 0

(* A worker that exits with status 0 leaves no job behind in process: a deploy *)
(* that ends in time makes nothing stall.                                      *)
CleanExitDropsNothing ==
    [][\A w \in Workers : (code'[w] = "clean" /\ proc'[w] = "down" /\ proc[w] # "down")
                              => busy[w] = {}]_vars

(* A signalled worker is gone in the end, with Redis away and its jobs hanging *)
(* as well (the timer of worker.ts).                                           *)
ShutdownEnds == \A w \in Workers : ShuttingDown(w) ~> proc[w] = "down"

(* Once Redis stays, every enqueued email is sent or has stalled too often,    *)
(* even if the workers keep crashing.                                          *)
EveryMailSettles ==
    <>[]redisUp => \A j \in Jobs : stage[j] = "wait" ~> stage[j] \in {"done", "failed"}
=============================================================================
