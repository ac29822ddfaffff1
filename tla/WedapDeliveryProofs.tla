------------------------ MODULE WedapDeliveryProofs ------------------------
(***************************************************************************)
(* Theorems about WedapDelivery, for every set of tasks and workers and    *)
(* every bound on the attempts, however workers stall, crash and overwrite *)
(* each other's rows.                                                      *)
(***************************************************************************)
EXTENDS WedapDelivery, FiniteSetTheorems, TLAPS

-----------------------------------------------------------------------------
(* The inductive invariant.                                                *)

\* What a worker knows that is at point d of its round: the answer, word or
\* result it carries is true of its task, and what it has passed on arrived.
Carried(d) ==
  /\ d.pc \notin {"asleep", "scan", "loop"} => d.task \in Tasks
  /\ d.stage = "resend" => \A t \in d.batch : d.seen[t] \in Ended
  /\ d.pc \in {"tell", "told"} => d.has \in Ended
  /\ d.pc = "told" => heard[d.task] # "nothing"
  /\ d.pc \in {"answered", "update"} /\ d.has = "DELIVERED" => d.task \in taken
  /\ d.pc \in {"alarm", "forward", "mark"} => d.has \in Files /\ d.has = file[d.task]
  /\ d.pc \in {"forward", "mark"} /\ BatchFailed(d.has)
       => <<d.task, "IMPORT_FAILED">> \in alerts
  /\ d.pc = "mark" => Recordable(d.has) \subseteq lines[d.task]

RecordInv ==
  /\ TypeOK
  /\ \A w \in Workers : Carried(worker[w])
  /\ DeliveredMeansTaken
  /\ ReportedWasHeard
  /\ NothingSwallowed

\* What wedap, recon and the alerts have taken in is never taken back.
Grows ==
  /\ taken \subseteq taken' /\ alerts \subseteq alerts'
  /\ \A t \in Tasks : /\ lines[t] \subseteq lines'[t]
                      /\ file[t] # "none" => file'[t] = file[t]
                      /\ heard[t] # "nothing" => heard'[t] # "nothing"

Points == {"asleep", "scan", "loop", "deliver", "answered", "update", "tell", "told",
           "fetch", "alarm", "forward", "mark", "release"}

LEMMA AtStageRound ==
  ASSUME NEW s \in Stages, NEW p \in Points
  PROVE  AtStage(s, p) \in Rounds
BY DEF AtStage, NoRead, Rounds, Points, Statuses

LEMMA AsleepRound == Asleep \in Rounds /\ Asleep.pc = "asleep"
BY AtStageRound DEF Asleep, AtStage, Stages, Points

LEMMA RecordInvInit == Init => RecordInv
<1> SUFFICES ASSUME Init
             PROVE  RecordInv
  OBVIOUS
<1>1. TypeOK
  BY AsleepRound, AttemptsAssumption DEF Init, TypeOK, Statuses, Locks
<1>2. \A w \in Workers : Carried(worker[w])
  BY AsleepRound DEF Init, Carried, Asleep, AtStage
<1> QED
  BY <1>1, <1>2 DEF Init, RecordInv, DeliveredMeansTaken, ReportedWasHeard, NothingSwallowed

LEMMA RoundOf ==
  ASSUME RecordInv, NEW w \in Workers
  PROVE  worker[w] \in Rounds /\ Carried(worker[w])
BY DEF RecordInv, TypeOK

\* A step of worker w to x.
LEMMA StepOf ==
  ASSUME RecordInv, NEW w \in Workers, NEW x \in Rounds,
         worker' = [worker EXCEPT ![w] = x]
  PROVE  /\ worker' \in [Workers -> Rounds]
         /\ worker'[w] = x
         /\ \A e \in Workers \ {w} : worker'[e] = worker[e]
BY DEF RecordInv, TypeOK

\* A step of worker w leaves the others what they know.
LEMMA OthersKeep ==
  ASSUME RecordInv, Grows, NEW w \in Workers,
         \A e \in Workers \ {w} : worker'[e] = worker[e],
         Carried(worker[w])'
  PROVE  \A e \in Workers : Carried(worker[e])'
<1> SUFFICES ASSUME NEW e \in Workers, e # w
             PROVE  Carried(worker[e])'
  OBVIOUS
<1>1. worker'[e] = worker[e] /\ Carried(worker[e])
  BY DEF RecordInv
<1>2. \A f \in Files : f # "none"
  BY FilesAssumption
<1> QED
  BY <1>1, <1>2 DEF Carried, Grows

\* A step that changes nothing but the worker.
LEMMA MovesKeep ==
  ASSUME RecordInv, NEW w \in Workers, NEW x \in Rounds,
         worker' = [worker EXCEPT ![w] = x], Carried(x),
         UNCHANGED <<delivery, report, result, alerts, aged, outside>>
  PROVE  RecordInv'
<1>1. UNCHANGED <<status, attempts, lock, waiting, deadline, reported, reporting,
                  collected, fetching, token, alerts, aged, taken, file, heard, lines,
                  tries, outlived>>
  BY DEF delivery, report, result, outside
<1>0. /\ worker' \in [Workers -> Rounds]
      /\ worker'[w] = x
      /\ \A e \in Workers \ {w} : worker'[e] = worker[e]
  BY StepOf
<1>2. Grows /\ Carried(worker[w])'
  BY <1>0, <1>1 DEF Grows, Carried
<1>3. \A e \in Workers : Carried(worker[e])'
  BY <1>0, <1>2, OthersKeep
<1>4. TypeOK'
  BY <1>0, <1>1 DEF RecordInv, TypeOK
<1> QED
  BY <1>1, <1>3, <1>4 DEF RecordInv, DeliveredMeansTaken, ReportedWasHeard, NothingSwallowed

-----------------------------------------------------------------------------
(* Steps of a worker that leave the rows alone.                            *)

LEMMA ScanKeeps ==
  ASSUME RecordInv, NEW w \in Workers, NEW s \in Stages, Scan(w, s)
  PROVE  RecordInv'
<1> DEFINE x == [AtStage(s, "loop") EXCEPT
                   !.batch = Candidates[s],
                   !.seen = [t \in Tasks |-> IF s = "resend" /\ t \in Candidates[s]
                                               THEN status[t] ELSE "ABSENT"]]
<1>1. /\ worker' = [worker EXCEPT ![w] = x]
      /\ UNCHANGED <<delivery, report, result, alerts, aged, outside>>
  BY DEF Scan, Step
<1>2. Candidates[s] \in SUBSET Tasks
  <2>1. Queued \subseteq Tasks /\ Unreported \subseteq Tasks /\ Uncollected \subseteq Tasks
    BY DEF Queued, Unreported, Uncollected
  <2>2. Stuck \subseteq Tasks /\ Overdue \subseteq Tasks
    BY <2>1 DEF Stuck, Overdue, RecordInv, TypeOK
  <2> QED
    BY <2>1, <2>2 DEF Candidates, Stages
<1>3. x \in Rounds
  <2>1. [t \in Tasks |-> IF s = "resend" /\ t \in Candidates[s]
                           THEN status[t] ELSE "ABSENT"] \in [Tasks -> Statuses]
    BY DEF RecordInv, TypeOK, Statuses
  <2>2. AtStage(s, "loop") \in Rounds
    BY AtStageRound DEF Points
  <2> QED
    BY <1>2, <2>1, <2>2 DEF Rounds
<1>4. Carried(x)
  <2>1. x.pc = "loop" /\ x.stage = s /\ x.batch = Candidates[s]
    BY DEF AtStage
  <2>2. x.seen = [t \in Tasks |-> IF s = "resend" /\ t \in Candidates[s]
                                    THEN status[t] ELSE "ABSENT"]
    BY DEF AtStage
  <2>3. s = "resend" => \A t \in Candidates[s] : x.seen[t] = status[t] /\ status[t] \in Ended
    BY <1>2, <2>2 DEF Candidates, Unreported
  <2> QED
    BY <2>1, <2>3 DEF Carried
<1> QED
  BY <1>1, <1>3, <1>4, MovesKeep

LEMMA AsleepKeeps ==
  ASSUME RecordInv, NEW w \in Workers, EndRound(w) \/ Crash(w)
  PROVE  RecordInv'
<1>1. /\ worker' = [worker EXCEPT ![w] = Asleep]
      /\ UNCHANGED <<delivery, report, result, alerts, aged, outside>>
  BY DEF EndRound, Crash, Step
<1>2. Carried(Asleep)
  BY DEF Carried, Asleep, AtStage
<1> QED
  BY <1>1, <1>2, AsleepRound, MovesKeep

\* The worker after a candidate it passes over.
LEMMA PassRound ==
  ASSUME RecordInv, NEW w \in Workers, NEW t \in Tasks, worker[w].pc = "loop"
  PROVE  LET x == [worker[w] EXCEPT !.batch = @ \ {t}, !.seen[t] = "ABSENT"]
         IN  x \in Rounds /\ Carried(x) /\ x.pc = "loop"
<1> DEFINE d == worker[w]
           x == [d EXCEPT !.batch = @ \ {t}, !.seen[t] = "ABSENT"]
<1>1. d \in Rounds /\ Carried(d)
  BY RoundOf
<1>2. /\ x.pc = d.pc /\ x.stage = d.stage /\ x.batch = d.batch \ {t}
      /\ x.seen = [d.seen EXCEPT ![t] = "ABSENT"]
  BY <1>1 DEF Rounds
<1>3. x \in Rounds
  BY <1>1 DEF Rounds, Statuses
<1>4. Carried(x)
  <2>1. d.stage = "resend" => \A r \in d.batch \ {t} : x.seen[r] = d.seen[r]
    BY <1>1, <1>2 DEF Rounds
  <2> QED
    BY <1>1, <1>2, <2>1 DEF Carried
<1> QED
  BY <1>2, <1>3, <1>4

LEMMA PassKeeps ==
  ASSUME RecordInv, NEW w \in Workers, NEW t \in Tasks,
         ClaimLost(w, t) \/ ReportLost(w, t) \/ ResultLost(w, t)
  PROVE  RecordInv'
<1> DEFINE x == [worker[w] EXCEPT !.batch = @ \ {t}, !.seen[t] = "ABSENT"]
<1>1. /\ worker[w].pc = "loop"
      /\ worker' = [worker EXCEPT ![w] = x]
      /\ UNCHANGED <<delivery, report, result, alerts, aged, outside>>
  BY DEF ClaimLost, ReportLost, ResultLost, Pass, Step, InLoop
<1>2. x \in Rounds /\ Carried(x)
  BY <1>1, PassRound
<1> QED
  BY <1>1, <1>2, MovesKeep

LEMMA ReadRowKeeps ==
  ASSUME RecordInv, NEW w \in Workers, ReadRow(w)
  PROVE  RecordInv'
<1> DEFINE d == worker[w]
           row == [status |-> status[d.task], attempts |-> attempts[d.task],
                   locked |-> lock[d.task] # "free"]
           x == [d EXCEPT !.pc = "update", !.read = row]
<1>1. /\ d.pc = "answered"
      /\ worker' = [worker EXCEPT ![w] = x]
      /\ UNCHANGED <<delivery, report, result, alerts, aged, outside>>
  BY DEF ReadRow, Step, At
<1>2. d \in Rounds /\ Carried(d) /\ d.task \in Tasks
  BY <1>1, RoundOf DEF Carried
<1>3. row \in [status : Statuses, attempts : Nat, locked : BOOLEAN]
  BY <1>2 DEF RecordInv, TypeOK
<1>4. x \in Rounds
  BY <1>2, <1>3 DEF Rounds
<1>5. x.pc = "update" /\ x.task = d.task /\ x.has = d.has
  BY <1>2 DEF Rounds
<1>6. Carried(x)
  BY <1>1, <1>2, <1>5 DEF Carried
<1> QED
  BY <1>1, <1>4, <1>6, MovesKeep

LEMMA FetchKeeps ==
  ASSUME RecordInv, NEW w \in Workers, NEW ok \in BOOLEAN, Fetch(w, ok)
  PROVE  RecordInv'
<1> DEFINE d == worker[w]
           f == file[d.task]
           got == [d EXCEPT !.has = f, !.pc = IF BatchFailed(f) THEN "alarm" ELSE "forward"]
           gone == [d EXCEPT !.pc = "release"]
<1>1. /\ d.pc = "fetch"
      /\ IF ok /\ f # "none" THEN worker' = [worker EXCEPT ![w] = got]
                             ELSE worker' = [worker EXCEPT ![w] = gone]
      /\ UNCHANGED <<delivery, report, result, alerts, aged, outside>>
  BY DEF Fetch, Step, At
<1>2. d \in Rounds /\ Carried(d) /\ d.task \in Tasks
  BY <1>1, RoundOf DEF Carried
<1>3. f \in Files \union {"none"}
  BY <1>2 DEF RecordInv, TypeOK
<1>4. CASE ok /\ f # "none"
  <2>1. f \in Files
    BY <1>3, <1>4
  <2>2. got \in Rounds
    BY <1>2, <2>1 DEF Rounds
  <2>3. /\ got.has = f /\ got.task = d.task
        /\ got.pc = IF BatchFailed(f) THEN "alarm" ELSE "forward"
    BY <1>2 DEF Rounds
  <2>4. Carried(got)
    BY <1>2, <2>1, <2>3 DEF Carried
  <2> QED
    BY <1>1, <1>4, <2>2, <2>4, MovesKeep
<1>5. CASE ~(ok /\ f # "none")
  <2>1. gone \in Rounds /\ gone.pc = "release" /\ gone.task = d.task
    BY <1>2 DEF Rounds
  <2>2. Carried(gone)
    BY <1>2, <2>1 DEF Carried
  <2> QED
    BY <1>1, <1>5, <2>1, <2>2, MovesKeep
<1> QED
  BY <1>4, <1>5

-----------------------------------------------------------------------------
(* Steps of a worker that write.                                           *)

\* What a step that changes a task's row has to keep.
LEMMA WritesKeep ==
  ASSUME RecordInv, Grows, TypeOK', \A w \in Workers : Carried(worker[w])',
         \A t \in Tasks : status'[t] = "DELIVERED" /\ status[t] # "DELIVERED"
           => t \in taken' /\ deadline'[t] # "unset",
         \A t \in Tasks : deadline[t] # "unset" => deadline'[t] # "unset",
         \A t \in reported' \ reported : heard'[t] # "nothing",
         \A t \in collected' \ collected :
           /\ file'[t] \in Files
           /\ Recordable(file'[t]) \subseteq lines'[t]
           /\ BatchFailed(file'[t]) => <<t, "IMPORT_FAILED">> \in alerts'
  PROVE  RecordInv'
<1>1. /\ collected \subseteq Tasks /\ collected' \subseteq Tasks
      /\ reported \subseteq Tasks /\ reported' \subseteq Tasks
  BY DEF RecordInv, TypeOK
<1>2. DeliveredMeansTaken'
  BY DEF RecordInv, DeliveredMeansTaken, Grows
<1>3. ReportedWasHeard'
  BY <1>1 DEF RecordInv, ReportedWasHeard, Grows
<1>4. NothingSwallowed'
  BY <1>1, FilesAssumption DEF RecordInv, NothingSwallowed, Grows
<1> QED
  BY <1>2, <1>3, <1>4 DEF RecordInv

LEMMA ReclaimKeeps ==
  ASSUME RecordInv, NEW w \in Workers, Reclaim(w)
  PROVE  RecordInv'
<1> DEFINE lost == {t \in Tasks : status[t] = "SENDING" /\ lock[t] = "stale"}
           x == AtStage("dispatch", "scan")
<1>1. /\ status' = [t \in Tasks |-> IF t \in lost THEN "PENDING" ELSE status[t]]
      /\ lock' = [t \in Tasks |-> IF t \in lost THEN "free" ELSE lock[t]]
      /\ worker' = [worker EXCEPT ![w] = x]
      /\ UNCHANGED <<attempts, waiting, deadline, reported, reporting, collected, fetching,
                     token, alerts, aged, taken, file, heard, lines, tries, outlived>>
  BY DEF Reclaim, Step, report, result, outside
<1>2. x \in Rounds /\ x.pc = "scan" /\ x.stage = "dispatch"
  BY AtStageRound DEF Stages, Points, AtStage
<1> HIDE DEF x
<1>3. /\ worker' \in [Workers -> Rounds]
      /\ worker'[w] = x
      /\ \A e \in Workers \ {w} : worker'[e] = worker[e]
  BY <1>1, <1>2, StepOf
<1>4. Grows /\ Carried(worker[w])'
  BY <1>1, <1>2, <1>3 DEF Grows, Carried
<1>5. \A e \in Workers : Carried(worker[e])'
  BY <1>3, <1>4, OthersKeep
<1>6. TypeOK'
  BY <1>1, <1>3 DEF RecordInv, TypeOK, Statuses, Locks
<1>7. \A t \in Tasks : status'[t] = "DELIVERED" => status[t] = "DELIVERED"
  BY <1>1
<1> QED
  BY <1>1, <1>4, <1>5, <1>6, <1>7, WritesKeep

LEMMA ClaimKeeps ==
  ASSUME RecordInv, NEW w \in Workers, NEW t \in Tasks, Claim(w, t)
  PROVE  RecordInv'
<1> DEFINE x == [worker[w] EXCEPT !.pc = "deliver", !.task = t, !.has = "nothing",
                                  !.batch = @ \ {t}, !.seen[t] = "ABSENT"]
<1>1. /\ worker[w].stage = "dispatch"
      /\ status' = [status EXCEPT ![t] = "SENDING"]
      /\ lock' = [lock EXCEPT ![t] = "held"]
      /\ worker' = [worker EXCEPT ![w] = x]
      /\ UNCHANGED <<attempts, waiting, deadline, reported, reporting, collected, fetching,
                     token, alerts, aged, taken, file, heard, lines, tries, outlived>>
  BY DEF Claim, InLoop, Take, Step, report, result, outside
<1>2. x \in Rounds /\ x.pc = "deliver" /\ x.task = t /\ x.stage = worker[w].stage
  BY RoundOf DEF Rounds, Statuses
<1> HIDE DEF x
<1>3. /\ worker' \in [Workers -> Rounds]
      /\ worker'[w] = x
      /\ \A e \in Workers \ {w} : worker'[e] = worker[e]
  BY <1>1, <1>2, StepOf
<1>4. Grows /\ Carried(worker[w])'
  BY <1>1, <1>2, <1>3 DEF Grows, Carried
<1>5. \A e \in Workers : Carried(worker[e])'
  BY <1>3, <1>4, OthersKeep
<1>6. TypeOK'
  BY <1>1, <1>3 DEF RecordInv, TypeOK, Statuses, Locks
<1>7. \A q \in Tasks : status'[q] = "DELIVERED" => status[q] = "DELIVERED"
  BY <1>1 DEF RecordInv, TypeOK
<1> QED
  BY <1>1, <1>4, <1>5, <1>6, <1>7, WritesKeep

LEMMA DeliverKeeps ==
  ASSUME RecordInv, NEW w \in Workers, NEW accepts \in BOOLEAN, NEW answer \in Answers,
         Deliver(w, accepts, answer)
  PROVE  RecordInv'
<1> DEFINE d == worker[w]
           t == d.task
           h == IF TakenAsAccepted(answer) THEN "DELIVERED" ELSE "error"
           x == [d EXCEPT !.pc = "answered", !.has = h]
<1>1. /\ d.pc = "deliver"
      /\ taken' = IF accepts THEN taken \union {t} ELSE taken
      /\ tries' = [tries EXCEPT ![t] = IF @ < MaxAttempts THEN @ + 1 ELSE @]
      /\ worker' = [worker EXCEPT ![w] = x]
      /\ accepts \/ t \in taken \/ answer # "accepted"
      /\ UNCHANGED <<status, attempts, lock, waiting, deadline, reported, reporting,
                     collected, fetching, token, alerts, aged, file, heard, lines, outlived>>
  BY DEF Deliver, Step, At, delivery, report, result
<1>2. h = "DELIVERED" => t \in taken'
  BY <1>1 DEF TakenAsAccepted
<1>3. d \in Rounds /\ t \in Tasks /\ (d.stage = "resend" => \A q \in d.batch : d.seen[q] \in Ended)
  BY <1>1, RoundOf DEF Carried
<1>4. /\ x \in Rounds /\ x.pc = "answered" /\ x.task = t /\ x.has = h
      /\ x.stage = d.stage /\ x.batch = d.batch /\ x.seen = d.seen
  BY <1>3 DEF Rounds, Ended
<1> HIDE DEF x, h
<1>5. /\ worker' \in [Workers -> Rounds]
      /\ worker'[w] = x
      /\ \A e \in Workers \ {w} : worker'[e] = worker[e]
  BY <1>1, <1>4, StepOf
<1>6. Grows /\ Carried(worker[w])'
  BY <1>1, <1>2, <1>3, <1>4, <1>5 DEF Grows, Carried
<1>7. \A e \in Workers : Carried(worker[e])'
  BY <1>5, <1>6, OthersKeep
<1>8. tries' \in [Tasks -> 0 .. MaxAttempts]
  BY <1>1, <1>3, AttemptsAssumption DEF RecordInv, TypeOK
<1>9. TypeOK'
  BY <1>1, <1>3, <1>5, <1>8 DEF RecordInv, TypeOK
<1> QED
  BY <1>1, <1>6, <1>7, <1>9, WritesKeep

\* The worker that goes on with its next candidate.
LEMMA ResumeRound ==
  ASSUME RecordInv, NEW w \in Workers, Resume(w)
  PROVE  /\ worker' \in [Workers -> Rounds]
         /\ worker'[w].pc = "loop"
         /\ worker'[w].stage = "resend" => \A t \in worker'[w].batch : worker'[w].seen[t] \in Ended
         /\ \A e \in Workers \ {w} : worker'[e] = worker[e]
<1> DEFINE d == worker[w]
           base == AtStage(d.stage, "loop")
           x == [base EXCEPT !.batch = d.batch, !.seen = d.seen]
<1>1. d \in Rounds /\ Carried(d)
  BY RoundOf
<1>2. base \in Rounds /\ base.pc = "loop" /\ base.stage = d.stage
  <2>1. d.stage \in Stages /\ "loop" \in Points
    BY <1>1 DEF Rounds, Points
  <2> QED
    BY <2>1, AtStageRound DEF AtStage
<1>3. worker' = [worker EXCEPT ![w] = x]
  BY DEF Resume, Step
<1> HIDE DEF base
<1>4. /\ x \in Rounds /\ x.pc = "loop" /\ x.stage = d.stage
      /\ x.batch = d.batch /\ x.seen = d.seen
  BY <1>1, <1>2 DEF Rounds
<1> HIDE DEF x
<1>5. /\ worker' \in [Workers -> Rounds]
      /\ worker'[w] = x
      /\ \A e \in Workers \ {w} : worker'[e] = worker[e]
  BY <1>3, <1>4, StepOf
<1> QED
  BY <1>1, <1>4, <1>5 DEF Carried

LEMMA VerdictValue ==
  ASSUME NEW w \in Workers
  PROVE  /\ Verdict(w) \in {"DELIVERED", "FAILED", "PENDING"}
         /\ Verdict(w) = "DELIVERED" <=> worker[w].has = "DELIVERED"
BY DEF Verdict

LEMMA UpdateKeeps ==
  ASSUME RecordInv, NEW w \in Workers, Update(w)
  PROVE  RecordInv'
<1> DEFINE d == worker[w]
           t == d.task
           verdict == Verdict(w)
           x == [d EXCEPT !.pc = "tell", !.has = verdict, !.read = NoRead]
<1>1. /\ d.pc = "update"
      /\ attempts' = [attempts EXCEPT ![t] = d.read.attempts + 1]
      /\ lock' = [lock EXCEPT ![t] = IF d.read.locked THEN "free" ELSE @]
      /\ status' = [status EXCEPT ![t] = IF verdict # d.read.status THEN verdict ELSE @]
      /\ waiting' = IF verdict = "PENDING" THEN waiting \union {t} ELSE waiting
      /\ deadline' = [deadline EXCEPT ![t] = IF verdict = "DELIVERED" THEN "ahead" ELSE @]
      /\ IF verdict \in Ended THEN worker' = [worker EXCEPT ![w] = x] ELSE Resume(w)
      /\ UNCHANGED <<reported, reporting, collected, fetching, token, alerts, aged,
                     taken, file, heard, lines, tries, outlived>>
  BY DEF Update, Step, At, report, result, outside
<1>2. /\ d \in Rounds /\ t \in Tasks
      /\ d.has = "DELIVERED" => t \in taken
  BY <1>1, RoundOf DEF Carried
<1>3. verdict \in {"DELIVERED", "FAILED", "PENDING"} /\ (verdict = "DELIVERED" => t \in taken)
  BY <1>2, VerdictValue
<1> HIDE DEF verdict
<1>4. /\ worker' \in [Workers -> Rounds]
      /\ Carried(worker[w])'
      /\ \A e \in Workers \ {w} : worker'[e] = worker[e]
  <2>1. CASE verdict \in Ended
    <3>1. x \in Rounds /\ x.pc = "tell" /\ x.task = t /\ x.has = verdict
          /\ x.stage = d.stage /\ x.batch = d.batch /\ x.seen = d.seen
      BY <1>2, <2>1 DEF Rounds, NoRead, Statuses, Ended
    <3> HIDE DEF x
    <3>2. /\ worker' \in [Workers -> Rounds] /\ worker'[w] = x
          /\ \A e \in Workers \ {w} : worker'[e] = worker[e]
      BY <1>1, <2>1, <3>1, StepOf
    <3>3. Carried(d)
      BY RoundOf
    <3> QED
      BY <1>2, <2>1, <3>1, <3>2, <3>3 DEF Carried
  <2>2. CASE verdict \notin Ended
    BY <1>1, <2>2, ResumeRound DEF Carried
  <2> QED
    BY <2>1, <2>2
<1>5. Grows
  BY <1>1 DEF Grows
<1>6. \A e \in Workers : Carried(worker[e])'
  BY <1>4, <1>5, OthersKeep
<1>7. status' \in [Tasks -> Statuses] /\ attempts' \in [Tasks -> Nat] /\ lock' \in [Tasks -> Locks]
  <2>1. d.read.attempts \in Nat
    BY <1>2 DEF Rounds
  <2>2. verdict \in Statuses /\ "free" \in Locks
    BY <1>3 DEF Statuses, Ended, Locks
  <2>3. status \in [Tasks -> Statuses] /\ attempts \in [Tasks -> Nat] /\ lock \in [Tasks -> Locks]
    BY DEF RecordInv, TypeOK
  <2>4. status' \in [Tasks -> Statuses]
    BY <1>1, <1>2, <2>2, <2>3
  <2>5. lock' \in [Tasks -> Locks]
    BY <1>1, <1>2, <2>2, <2>3
  <2> QED
    BY <1>1, <1>2, <2>1, <2>3, <2>4, <2>5
<1>8. /\ waiting' \subseteq Tasks /\ deadline' \in [Tasks -> {"unset", "ahead", "passed"}]
      /\ \A q \in Tasks : deadline[q] # "unset" => deadline'[q] # "unset"
      /\ verdict = "DELIVERED" => deadline'[t] = "ahead"
  BY <1>1, <1>2 DEF RecordInv, TypeOK
<1>9. TypeOK'
  BY <1>1, <1>4, <1>7, <1>8 DEF RecordInv, TypeOK
<1>10. \A q \in Tasks : status'[q] = "DELIVERED" /\ status[q] # "DELIVERED"
         => q \in taken' /\ deadline'[q] # "unset"
  <2>1. \A q \in Tasks : status'[q] # status[q] => q = t /\ status'[q] = verdict
    BY <1>1, <1>2 DEF RecordInv, TypeOK
  <2> QED
    BY <1>1, <1>3, <1>8, <2>1
<1> QED
  BY <1>1, <1>5, <1>6, <1>8, <1>9, <1>10, WritesKeep

LEMMA ClaimReportKeeps ==
  ASSUME RecordInv, NEW w \in Workers, NEW t \in Tasks, ClaimReport(w, t)
  PROVE  RecordInv'
<1> DEFINE d == worker[w]
           x == [d EXCEPT !.pc = "tell", !.task = t, !.has = d.seen[t],
                          !.batch = @ \ {t}, !.seen[t] = "ABSENT"]
<1>1. /\ d.stage = "resend" /\ t \in d.batch
      /\ reporting' = [reporting EXCEPT ![t] = "held"]
      /\ worker' = [worker EXCEPT ![w] = x]
      /\ UNCHANGED <<status, attempts, lock, waiting, deadline, reported, collected, fetching,
                     token, alerts, aged, taken, file, heard, lines, tries, outlived>>
  BY DEF ClaimReport, InLoop, Take, Step, delivery, result, outside
<1>2. d \in Rounds /\ d.seen[t] \in Ended /\ \A q \in d.batch : d.seen[q] \in Ended
  BY <1>1, RoundOf DEF Carried
<1>3. /\ x \in Rounds /\ x.pc = "tell" /\ x.task = t /\ x.has \in Ended
      /\ x.batch = d.batch \ {t} /\ \A q \in d.batch \ {t} : x.seen[q] = d.seen[q]
  BY <1>2 DEF Rounds, Statuses
<1> HIDE DEF x
<1>4. /\ worker' \in [Workers -> Rounds]
      /\ worker'[w] = x
      /\ \A e \in Workers \ {w} : worker'[e] = worker[e]
  BY <1>1, <1>3, StepOf
<1>5. Grows /\ Carried(worker[w])'
  BY <1>1, <1>2, <1>3, <1>4 DEF Grows, Carried
<1>6. \A e \in Workers : Carried(worker[e])'
  BY <1>4, <1>5, OthersKeep
<1>7. TypeOK'
  BY <1>1, <1>4 DEF RecordInv, TypeOK, Locks
<1> QED
  BY <1>1, <1>5, <1>6, <1>7, WritesKeep

LEMMA TellKeeps ==
  ASSUME RecordInv, NEW w \in Workers, NEW arrives \in BOOLEAN, NEW ok \in BOOLEAN,
         Tell(w, arrives, ok)
  PROVE  RecordInv'
<1> DEFINE d == worker[w]
           t == d.task
           x == [d EXCEPT !.pc = "told"]
<1>1. /\ d.pc = "tell" /\ (ok => arrives)
      /\ heard' = IF arrives THEN [heard EXCEPT ![t] = d.has] ELSE heard
      /\ IF ok THEN worker' = [worker EXCEPT ![w] = x] ELSE Resume(w)
      /\ UNCHANGED <<status, attempts, lock, waiting, deadline, reported, reporting, collected,
                     fetching, token, alerts, aged, taken, file, lines, tries, outlived>>
  BY DEF Tell, Step, At, delivery, report, result
<1>2. d \in Rounds /\ Carried(d) /\ t \in Tasks /\ d.has \in Ended
  BY <1>1, RoundOf DEF Carried
<1>3. /\ heard' \in [Tasks -> Ended \union {"nothing"}]
      /\ arrives => heard'[t] # "nothing"
      /\ \A q \in Tasks : heard[q] # "nothing" => heard'[q] # "nothing"
  BY <1>1, <1>2 DEF RecordInv, TypeOK, Ended
<1>4. Grows
  BY <1>1, <1>3 DEF Grows
<1>5. /\ worker' \in [Workers -> Rounds]
      /\ Carried(worker[w])'
      /\ \A e \in Workers \ {w} : worker'[e] = worker[e]
  <2>1. CASE ok
    <3>1. x \in Rounds /\ x.pc = "told" /\ x.task = t /\ x.has = d.has
          /\ x.stage = d.stage /\ x.batch = d.batch /\ x.seen = d.seen
      BY <1>2 DEF Rounds
    <3> HIDE DEF x
    <3>2. /\ worker' \in [Workers -> Rounds] /\ worker'[w] = x
          /\ \A e \in Workers \ {w} : worker'[e] = worker[e]
      BY <1>1, <2>1, <3>1, StepOf
    <3> QED
      BY <1>1, <1>2, <1>3, <2>1, <3>1, <3>2 DEF Carried
  <2>2. CASE ~ok
    BY <1>1, <2>2, ResumeRound DEF Carried
  <2> QED
    BY <2>1, <2>2
<1>6. \A e \in Workers : Carried(worker[e])'
  BY <1>4, <1>5, OthersKeep
<1>7. TypeOK'
  BY <1>1, <1>3, <1>5 DEF RecordInv, TypeOK
<1> QED
  BY <1>1, <1>4, <1>6, <1>7, WritesKeep

LEMMA MarkReportedKeeps ==
  ASSUME RecordInv, NEW w \in Workers, MarkReported(w)
  PROVE  RecordInv'
<1> DEFINE t == worker[w].task
<1>1. /\ worker[w].pc = "told" /\ Resume(w)
      /\ reported' = reported \union {t}
      /\ reporting' = [reporting EXCEPT ![t] = "free"]
      /\ UNCHANGED <<status, attempts, lock, waiting, deadline, collected, fetching, token,
                     alerts, aged, taken, file, heard, lines, tries, outlived>>
  BY DEF MarkReported, At, delivery, result, outside
<1>2. t \in Tasks /\ heard[t] # "nothing"
  BY <1>1, RoundOf DEF Carried
<1>3. Grows /\ worker' \in [Workers -> Rounds] /\ \A e \in Workers : Carried(worker[e])'
  <2>1. Grows
    BY <1>1 DEF Grows
  <2>2. Carried(worker[w])' /\ \A e \in Workers \ {w} : worker'[e] = worker[e]
    BY <1>1, ResumeRound DEF Carried
  <2> QED
    BY <1>1, <2>1, <2>2, ResumeRound, OthersKeep
<1>4. TypeOK'
  BY <1>1, <1>2, <1>3 DEF RecordInv, TypeOK, Locks
<1> QED
  BY <1>1, <1>2, <1>3, <1>4, WritesKeep

LEMMA ClaimResultKeeps ==
  ASSUME RecordInv, NEW w \in Workers, NEW t \in Tasks, ClaimResult(w, t)
  PROVE  RecordInv'
<1> DEFINE x == [worker[w] EXCEPT !.pc = "fetch", !.task = t, !.has = "nothing",
                                  !.batch = @ \ {t}, !.seen[t] = "ABSENT"]
<1>1. /\ worker[w].stage = "collect"
      /\ fetching' = [fetching EXCEPT ![t] = "held"]
      /\ token' = [token EXCEPT ![t] = w]
      /\ worker' = [worker EXCEPT ![w] = x]
      /\ UNCHANGED <<status, attempts, lock, waiting, deadline, reported, reporting, collected,
                     alerts, aged, taken, file, heard, lines, tries, outlived>>
  BY DEF ClaimResult, InLoop, Take, Step, delivery, report, outside
<1>2. x \in Rounds /\ x.pc = "fetch" /\ x.task = t /\ x.stage = worker[w].stage
  BY RoundOf DEF Rounds, Statuses
<1> HIDE DEF x
<1>3. /\ worker' \in [Workers -> Rounds]
      /\ worker'[w] = x
      /\ \A e \in Workers \ {w} : worker'[e] = worker[e]
  BY <1>1, <1>2, StepOf
<1>4. Grows /\ Carried(worker[w])'
  BY <1>1, <1>2, <1>3 DEF Grows, Carried
<1>5. \A e \in Workers : Carried(worker[e])'
  BY <1>3, <1>4, OthersKeep
<1>6. TypeOK'
  BY <1>1, <1>3 DEF RecordInv, TypeOK, Locks
<1> QED
  BY <1>1, <1>4, <1>5, <1>6, WritesKeep

LEMMA AlarmKeeps ==
  ASSUME RecordInv, NEW w \in Workers, NEW ok \in BOOLEAN, Alarm(w, ok)
  PROVE  RecordInv'
<1> DEFINE d == worker[w]
           p == IF ok THEN "forward" ELSE "release"
           x == [d EXCEPT !.pc = p]
<1>1. /\ d.pc = "alarm"
      /\ alerts' = IF ok THEN alerts \union {<<d.task, "IMPORT_FAILED">>} ELSE alerts
      /\ worker' = [worker EXCEPT ![w] = x]
      /\ UNCHANGED <<status, attempts, lock, waiting, deadline, reported, reporting, collected,
                     fetching, token, aged, taken, file, heard, lines, tries, outlived>>
  BY DEF Alarm, At, Step, delivery, report, result, outside
<1>2. d \in Rounds /\ Carried(d) /\ d.task \in Tasks
  BY <1>1, RoundOf DEF Carried
<1>3. /\ x \in Rounds /\ x.pc = p /\ x.task = d.task /\ x.has = d.has
      /\ x.stage = d.stage /\ x.batch = d.batch /\ x.seen = d.seen
  BY <1>2 DEF Rounds
<1> HIDE DEF x
<1>4. /\ worker' \in [Workers -> Rounds]
      /\ worker'[w] = x
      /\ \A e \in Workers \ {w} : worker'[e] = worker[e]
  BY <1>1, <1>3, StepOf
<1>5. Grows /\ Carried(worker[w])'
  BY <1>1, <1>2, <1>3, <1>4 DEF Grows, Carried
<1>6. \A e \in Workers : Carried(worker[e])'
  BY <1>4, <1>5, OthersKeep
<1>7. alerts' \subseteq Tasks \X Kinds
  BY <1>1, <1>2 DEF RecordInv, TypeOK, Kinds
<1>8. TypeOK'
  BY <1>1, <1>4, <1>7 DEF RecordInv, TypeOK
<1> QED
  BY <1>1, <1>5, <1>6, <1>8, WritesKeep

LEMMA ForwardKeeps ==
  ASSUME RecordInv, NEW w \in Workers, NEW arrives \in BOOLEAN, NEW ok \in BOOLEAN,
         Forward(w, arrives, ok)
  PROVE  RecordInv'
<1> DEFINE d == worker[w]
           told == Recordable(d.has)
           p == IF told = {} \/ ok THEN "mark" ELSE "release"
           x == [d EXCEPT !.pc = p]
<1>1. /\ d.pc = "forward" /\ (ok => arrives)
      /\ lines' = IF arrives THEN [lines EXCEPT ![d.task] = @ \union told] ELSE lines
      /\ worker' = [worker EXCEPT ![w] = x]
      /\ UNCHANGED <<status, attempts, lock, waiting, deadline, reported, reporting, collected,
                     fetching, token, alerts, aged, taken, file, heard, tries, outlived>>
  BY DEF Forward, At, Step, delivery, report, result
<1>2. d \in Rounds /\ Carried(d) /\ d.task \in Tasks
  BY <1>1, RoundOf DEF Carried
<1>3. /\ x \in Rounds /\ x.pc = p /\ x.task = d.task /\ x.has = d.has
      /\ x.stage = d.stage /\ x.batch = d.batch /\ x.seen = d.seen
  BY <1>2 DEF Rounds
<1>4. /\ \A t \in Tasks : lines[t] \subseteq lines'[t]
      /\ p = "mark" => told \subseteq lines'[d.task]
  BY <1>1, <1>2 DEF RecordInv, TypeOK
<1>0. lines' \in [Tasks -> SUBSET LineKinds]
  <2>1. told \subseteq LineKinds
    BY <1>1, <1>2, FilesAssumption DEF Carried, Recordable
  <2> QED
    BY <1>1, <1>2, <2>1 DEF RecordInv, TypeOK
<1> HIDE DEF x
<1>5. /\ worker' \in [Workers -> Rounds]
      /\ worker'[w] = x
      /\ \A e \in Workers \ {w} : worker'[e] = worker[e]
  BY <1>1, <1>3, StepOf
<1>6. Grows /\ Carried(worker[w])'
  BY <1>1, <1>2, <1>3, <1>4, <1>5 DEF Grows, Carried
<1>7. \A e \in Workers : Carried(worker[e])'
  BY <1>5, <1>6, OthersKeep
<1>8. TypeOK'
  BY <1>0, <1>1, <1>5 DEF RecordInv, TypeOK
<1> QED
  BY <1>1, <1>6, <1>7, <1>8, WritesKeep

LEMMA ReleaseResultKeeps ==
  ASSUME RecordInv, NEW w \in Workers, ReleaseResult(w)
  PROVE  RecordInv'
<1> DEFINE t == worker[w].task
<1>1. /\ worker[w].pc = "release" /\ Resume(w)
      /\ fetching' = IF HoldsResult(w) THEN [fetching EXCEPT ![t] = "free"] ELSE fetching
      /\ token' = IF HoldsResult(w) THEN [token EXCEPT ![t] = NoOne] ELSE token
      /\ UNCHANGED <<status, attempts, lock, waiting, deadline, reported, reporting, collected,
                     alerts, aged, taken, file, heard, lines, tries, outlived>>
  BY DEF ReleaseResult, At, delivery, report, outside
<1>2. t \in Tasks
  BY <1>1, RoundOf DEF Carried
<1>3. Grows /\ worker' \in [Workers -> Rounds] /\ \A e \in Workers : Carried(worker[e])'
  <2>1. Grows
    BY <1>1 DEF Grows
  <2>2. Carried(worker[w])' /\ \A e \in Workers \ {w} : worker'[e] = worker[e]
    BY <1>1, ResumeRound DEF Carried
  <2> QED
    BY <1>1, <2>1, <2>2, ResumeRound, OthersKeep
<1>4. TypeOK'
  BY <1>1, <1>2, <1>3 DEF RecordInv, TypeOK, Locks
<1> QED
  BY <1>1, <1>3, <1>4, WritesKeep

LEMMA MarkCollectedKeeps ==
  ASSUME RecordInv, NEW w \in Workers, MarkCollected(w)
  PROVE  RecordInv'
<1> DEFINE d == worker[w]
           t == d.task
<1>1. /\ d.pc = "mark" /\ Resume(w)
      /\ collected' = IF HoldsResult(w) THEN collected \union {t} ELSE collected
      /\ fetching' = IF HoldsResult(w) THEN [fetching EXCEPT ![t] = "free"] ELSE fetching
      /\ token' = IF HoldsResult(w) THEN [token EXCEPT ![t] = NoOne] ELSE token
      /\ UNCHANGED <<status, attempts, lock, waiting, deadline, reported, reporting,
                     alerts, aged, taken, file, heard, lines, tries, outlived>>
  BY DEF MarkCollected, At, delivery, report, outside
<1>2. /\ t \in Tasks /\ file[t] \in Files
      /\ Recordable(file[t]) \subseteq lines[t]
      /\ BatchFailed(file[t]) => <<t, "IMPORT_FAILED">> \in alerts
  BY <1>1, RoundOf DEF Carried
<1>3. Grows /\ worker' \in [Workers -> Rounds] /\ \A e \in Workers : Carried(worker[e])'
  <2>1. Grows
    BY <1>1 DEF Grows
  <2>2. Carried(worker[w])' /\ \A e \in Workers \ {w} : worker'[e] = worker[e]
    BY <1>1, ResumeRound DEF Carried
  <2> QED
    BY <1>1, <2>1, <2>2, ResumeRound, OthersKeep
<1>4. TypeOK'
  BY <1>1, <1>2, <1>3 DEF RecordInv, TypeOK, Locks
<1> QED
  BY <1>1, <1>2, <1>3, <1>4, WritesKeep

LEMMA AlertKeeps ==
  ASSUME RecordInv, NEW w \in Workers, NEW t \in Tasks, Alert(w, t)
  PROVE  RecordInv'
<1> DEFINE x == [worker[w] EXCEPT !.batch = @ \ {t}, !.seen[t] = "ABSENT"]
           a == <<t, AlertKind[worker[w].stage]>>
<1>1. /\ worker[w].pc = "loop" /\ worker[w].stage \in {"stuck", "overdue"}
      /\ alerts' = alerts \union {a}
      /\ worker' = [worker EXCEPT ![w] = x]
      /\ UNCHANGED <<status, attempts, lock, waiting, deadline, reported, reporting, collected,
                     fetching, token, aged, taken, file, heard, lines, tries, outlived>>
  BY DEF Alert, AlertKind, InLoop, Pass, Step, delivery, report, result, outside
<1>2. a \in Tasks \X Kinds
  BY <1>1 DEF AlertKind, Kinds
<1>3. x \in Rounds /\ Carried(x) /\ x.pc = "loop"
  BY <1>1, PassRound
<1> HIDE DEF x, a
<1>4. /\ worker' \in [Workers -> Rounds]
      /\ worker'[w] = x
      /\ \A e \in Workers \ {w} : worker'[e] = worker[e]
  BY <1>1, <1>3, StepOf
<1>5. Grows /\ Carried(worker[w])'
  BY <1>1, <1>3, <1>4 DEF Grows, Carried
<1>6. \A e \in Workers : Carried(worker[e])'
  BY <1>4, <1>5, OthersKeep
<1>7. TypeOK'
  BY <1>1, <1>2, <1>4 DEF RecordInv, TypeOK
<1> QED
  BY <1>1, <1>5, <1>6, <1>7, WritesKeep

-----------------------------------------------------------------------------
(* Requests, time and wedap.                                               *)

\* A step that leaves the rounds alone.
LEMMA RoundsStay ==
  ASSUME RecordInv, Grows, worker' = worker
  PROVE  \A w \in Workers : Carried(worker[w])'
<1> SUFFICES ASSUME NEW w \in Workers
             PROVE  Carried(worker[w])'
  OBVIOUS
<1>1. Carried(worker[w]) /\ \A f \in Files : f # "none"
  BY FilesAssumption DEF RecordInv
<1> QED
  BY <1>1 DEF Carried, Grows

LEMMA TimePasses ==
  ASSUME RecordInv, NEW t \in Tasks,
         \/ Enqueue(t) \/ ClaimExpires(t) \/ ReportClaimExpires(t) \/ ResultClaimExpires(t)
         \/ BackoffEnds(t) \/ DeadlinePasses(t) \/ Ages(t)
  PROVE  RecordInv'
<1>1. UNCHANGED <<attempts, reported, collected, token, alerts, worker, taken, file, heard,
                  lines, tries>>
  BY DEF Enqueue, ClaimExpires, ReportClaimExpires, ResultClaimExpires, BackoffEnds,
         DeadlinePasses, Ages, delivery, report, result, outside
<1>2. /\ status' = status \/ status' = [status EXCEPT ![t] = "PENDING"]
      /\ deadline' = deadline \/ deadline' = [deadline EXCEPT ![t] = "passed"]
      /\ lock' = lock \/ lock' = [lock EXCEPT ![t] = "stale"]
      /\ reporting' = reporting \/ reporting' = [reporting EXCEPT ![t] = "stale"]
      /\ fetching' = fetching \/ fetching' = [fetching EXCEPT ![t] = "stale"]
  BY DEF Enqueue, ClaimExpires, ReportClaimExpires, ResultClaimExpires, BackoffEnds,
         DeadlinePasses, Ages, delivery, report, result, outside
<1>3. /\ waiting' \subseteq waiting /\ aged' \subseteq aged \union {t}
      /\ outlived' \subseteq outlived \union {t}
  BY DEF Enqueue, ClaimExpires, ReportClaimExpires, ResultClaimExpires, BackoffEnds,
         DeadlinePasses, Ages, delivery, report, result, outside
<1>4. Grows
  BY <1>1 DEF Grows
<1>5. \A w \in Workers : Carried(worker[w])'
  BY <1>1, <1>4, RoundsStay
<1>6. /\ status' \in [Tasks -> Statuses] /\ deadline' \in [Tasks -> {"unset", "ahead", "passed"}]
      /\ \A q \in Tasks : status'[q] = "DELIVERED" => status[q] = "DELIVERED"
      /\ \A q \in Tasks : deadline[q] # "unset" => deadline'[q] # "unset"
  BY <1>2 DEF RecordInv, TypeOK, Statuses
<1>7. lock' \in [Tasks -> Locks] /\ reporting' \in [Tasks -> Locks] /\ fetching' \in [Tasks -> Locks]
  BY <1>2 DEF RecordInv, TypeOK, Locks
<1>8. TypeOK'
  BY <1>1, <1>3, <1>6, <1>7 DEF RecordInv, TypeOK
<1> QED
  BY <1>1, <1>4, <1>5, <1>6, <1>8, WritesKeep

LEMMA WedapKeeps ==
  ASSUME RecordInv, NEW t \in Tasks, NEW f \in Files, WedapWrites(t, f)
  PROVE  RecordInv'
<1>1. /\ file[t] = "none" /\ file' = [file EXCEPT ![t] = f]
      /\ UNCHANGED <<status, attempts, lock, waiting, deadline, reported, reporting, collected,
                     fetching, token, alerts, aged, worker, taken, heard, lines, tries, outlived>>
  BY DEF WedapWrites, delivery, report, result
<1>2. file' \in [Tasks -> Files \union {"none"}]
      /\ \A q \in Tasks : file[q] # "none" => file'[q] = file[q]
  BY <1>1 DEF RecordInv, TypeOK
<1>3. Grows
  BY <1>1, <1>2 DEF Grows
<1>4. \A w \in Workers : Carried(worker[w])'
  BY <1>1, <1>3, RoundsStay
<1>5. TypeOK'
  BY <1>1, <1>2 DEF RecordInv, TypeOK
<1> QED
  BY <1>1, <1>3, <1>4, <1>5, WritesKeep

-----------------------------------------------------------------------------
LEMMA RecordInvStep == RecordInv /\ [Next]_vars => RecordInv'
<1> SUFFICES ASSUME RecordInv, [Next]_vars
             PROVE  RecordInv'
  OBVIOUS
<1>1. CASE UNCHANGED vars
  <2>1. UNCHANGED <<status, attempts, lock, waiting, deadline, reported, reporting, collected,
                    fetching, token, alerts, aged, worker, taken, file, heard, lines, tries,
                    outlived>>
    BY <1>1 DEF vars, delivery, report, result, outside
  <2>2. Grows
    BY <2>1 DEF Grows
  <2>3. TypeOK'
    BY <2>1 DEF RecordInv, TypeOK
  <2> QED
    BY <2>1, <2>2, <2>3, RoundsStay, WritesKeep
<1>2. ASSUME NEW t \in Tasks, NEW f \in Files, WedapWrites(t, f)
      PROVE  RecordInv'
  BY <1>2, WedapKeeps
<1>3. ASSUME NEW w \in Workers, Dispatching(w)
      PROVE  RecordInv'
  BY <1>3, ClaimKeeps, PassKeeps, DeliverKeeps, ReadRowKeeps, UpdateKeeps DEF Dispatching
<1>4. ASSUME NEW w \in Workers, Reporting(w)
      PROVE  RecordInv'
  BY <1>4, ClaimReportKeeps, PassKeeps, TellKeeps, MarkReportedKeeps DEF Reporting
<1>5. ASSUME NEW w \in Workers, Collection(w)
      PROVE  RecordInv'
  BY <1>5, ClaimResultKeeps, PassKeeps, FetchKeeps, AlarmKeeps, ForwardKeeps,
     ReleaseResultKeeps, MarkCollectedKeeps DEF Collection
<1>6. ASSUME NEW w \in Workers, StartRound(w) \/ NextScan(w)
      PROVE  RecordInv'
  <2>1. CASE StartRound(w)
    BY <2>1, ScanKeeps DEF StartRound, Stages
  <2>2. CASE NextScan(w)
    <3>1. worker[w].stage \in Stages \ {"overdue"}
      BY <2>2, RoundOf DEF NextScan, Rounds
    <3>2. NextStage[worker[w].stage] \in Stages
      BY <3>1 DEF NextStage, Stages
    <3> QED
      BY <2>2, <3>2, ScanKeeps DEF NextScan
  <2> QED
    BY <1>6, <2>1, <2>2
<1>7. ASSUME NEW w \in Workers, Round(w) \/ Crash(w)
      PROVE  RecordInv'
  BY <1>3, <1>4, <1>5, <1>6, <1>7, ReclaimKeeps, AsleepKeeps, AlertKeeps DEF Round
<1> QED
  BY <1>1, <1>2, <1>7, TimePasses DEF Next

LEMMA RecordInvHolds == Spec => []RecordInv
<1> QED
  BY RecordInvInit, RecordInvStep, PTL DEF Spec

\* Every column and every round of WedapDelivery holds what it can hold.
THEOREM DeliveryTypes == Spec => []TypeOK
BY RecordInvHolds, PTL DEF RecordInv

\* A row that says DELIVERED is about a batch wedap has taken, and its missing
\* result will be missed, for any number of workers that overwrite each other.
THEOREM DeliveredTasksWereTaken == Spec => []DeliveredMeansTaken
BY RecordInvHolds, PTL DEF RecordInv

\* Of a result that has been put away recon has every line it can record, and a
\* failed batch its alert: for all kinds of result files, with lines that can and
\* that cannot be recorded, and whatever importStatus wedap writes.
THEOREM NoResultSwallowed == Spec => []NothingSwallowed
BY RecordInvHolds, PTL DEF RecordInv

\* No task counts as reported that recon has never heard of.
THEOREM ReportedTasksWereHeard == Spec => []ReportedWasHeard
BY RecordInvHolds, PTL DEF RecordInv

-----------------------------------------------------------------------------
(* While the deliveries of a task end before their claims.                 *)

Busy == {"deliver", "answered", "update"}

\* What a worker knows of a task whose deliveries end in time.
Leased(d, t) ==
  /\ d.task = t /\ d.pc \in Busy => status[t] = "SENDING" /\ lock[t] = "held"
  /\ d.task = t /\ d.pc = "update" => d.read.status = "SENDING"
  /\ d.task = t /\ d.pc \in {"tell", "told"} => d.has = status[t]
  /\ d.stage = "resend" /\ t \in d.batch => d.seen[t] = status[t]

LeaseInv ==
  \A t \in Tasks \ outlived :
    /\ \A w \in Workers : Leased(worker[w], t)
    /\ \A v, w \in Workers : v # w => ~(Delivering(v, t) /\ Delivering(w, t))
    /\ heard[t] # "nothing" => heard[t] = status[t] /\ status[t] \in Ended

\* What a step leaves worker e of task t: its claim, and the end of the task.
Undisturbed(e, t) ==
  /\ status[t] \in Ended => status'[t] = status[t]
  /\ Delivering(e, t) => status'[t] = status[t] /\ lock'[t] = lock[t]

LEMMA LeaseInvInit == Init => LeaseInv
<1> SUFFICES ASSUME Init
             PROVE  LeaseInv
  OBVIOUS
<1>1. Asleep.pc = "asleep" /\ Asleep.stage = "dispatch"
  BY DEF Asleep, AtStage
<1>2. \A w \in Workers : worker[w].pc = "asleep" /\ worker[w].stage = "dispatch"
  BY <1>1 DEF Init
<1>3. \A t \in Tasks : heard[t] = "nothing"
  BY DEF Init
<1> QED
  BY <1>2, <1>3 DEF LeaseInv, Leased, Delivering, Busy

LEMMA LeaseOf ==
  ASSUME LeaseInv, NEW t \in Tasks \ outlived, NEW w \in Workers
  PROVE  /\ Leased(worker[w], t)
         /\ Delivering(w, t) => status[t] = "SENDING" /\ lock[t] = "held"
         /\ Delivering(w, t) => worker[w].pc \in Busy /\ worker[w].task = t
BY DEF LeaseInv, Leased, Delivering, Busy

\* A worker that does not move, in a step that does not disturb it.
LEMMA OthersLeased ==
  ASSUME RecordInv, LeaseInv, NEW t \in Tasks \ outlived, NEW e \in Workers,
         worker'[e] = worker[e], Undisturbed(e, t)
  PROVE  Leased(worker[e], t)' /\ (Delivering(e, t)' <=> Delivering(e, t))
<1>1. Leased(worker[e], t) /\ Carried(worker[e])
  BY LeaseOf DEF RecordInv
<1>2. t \in worker[e].batch /\ worker[e].stage = "resend" => status'[t] = status[t]
  BY <1>1 DEF Carried, Leased, Undisturbed
<1>3. worker[e].task = t /\ worker[e].pc \in {"tell", "told"} => status'[t] = status[t]
  BY <1>1 DEF Carried, Leased, Undisturbed
<1>4. Delivering(e, t) <=> worker[e].task = t /\ worker[e].pc \in Busy
  BY DEF Delivering, Busy
<1>5. worker[e].pc = "update" => worker[e].pc \in Busy
  BY DEF Busy
<1> QED
  BY <1>1, <1>2, <1>3, <1>4, <1>5 DEF Leased, Undisturbed, Delivering

\* What a worker that does not write the row goes on with: the delivery it had
\* begun, the word it had, or what the rows say.
Follows(w) ==
  LET d == worker[w]  y == worker'[w] IN
  /\ y.pc \in Busy => d.pc \in Busy /\ y.task = d.task
  /\ y.pc = "update" => y.read.status = status[y.task]
  /\ y.pc \in {"tell", "told"} =>
       \/ d.pc \in {"tell", "told"} /\ y.task = d.task /\ y.has = d.has
       \/ d.stage = "resend" /\ y.task \in d.batch /\ y.has = d.seen[y.task]
  /\ y.stage = "resend" =>
       \A t \in y.batch : \/ y.seen[t] = status[t]
                          \/ d.stage = "resend" /\ t \in d.batch /\ y.seen[t] = d.seen[t]

\* A step of a worker that does not write status and lock.
LEMMA FollowingKeeps ==
  ASSUME RecordInv, LeaseInv, NEW w \in Workers, Follows(w),
         \A e \in Workers \ {w} : worker'[e] = worker[e],
         UNCHANGED <<status, lock, outlived>>,
         \A t \in Tasks \ outlived :
           heard'[t] # heard[t] => heard'[t] = status[t] /\ status[t] \in Ended
  PROVE  LeaseInv'
<1> SUFFICES ASSUME NEW t \in Tasks \ outlived
             PROVE  /\ \A e \in Workers : Leased(worker[e], t)'
                    /\ \A u, v \in Workers : u # v => ~(Delivering(u, t)' /\ Delivering(v, t)')
                    /\ heard'[t] # "nothing" => heard'[t] = status'[t] /\ status'[t] \in Ended
  BY DEF LeaseInv
<1>1. \A e \in Workers : Undisturbed(e, t)
  BY DEF Undisturbed
<1>2. \A e \in Workers \ {w} : Leased(worker[e], t)' /\ (Delivering(e, t)' <=> Delivering(e, t))
  BY <1>1, OthersLeased
<1>3. Leased(worker[w], t)' /\ (Delivering(w, t)' => Delivering(w, t))
  <2>1. Leased(worker[w], t)
    BY LeaseOf
  <2>2. Delivering(w, t)' => Delivering(w, t)
    BY DEF Follows, Delivering, Busy
  <2>3. worker'[w].pc \in Busy /\ worker'[w].task = t => status[t] = "SENDING" /\ lock[t] = "held"
    BY <2>1 DEF Follows, Leased
  <2>4. worker'[w].pc = "update" => worker'[w].pc \in Busy
    BY DEF Busy
  <2>5. worker'[w].pc \in {"tell", "told"} /\ worker'[w].task = t => worker'[w].has = status[t]
    BY <2>1 DEF Follows, Leased
  <2>6. worker'[w].stage = "resend" /\ t \in worker'[w].batch => worker'[w].seen[t] = status[t]
    BY <2>1 DEF Follows, Leased
  <2> QED
    BY <2>2, <2>3, <2>4, <2>5, <2>6 DEF Leased, Follows
<1>4. \A u, v \in Workers : u # v => ~(Delivering(u, t)' /\ Delivering(v, t)')
  BY <1>2, <1>3 DEF LeaseInv
<1>5. heard'[t] # "nothing" => heard'[t] = status'[t] /\ status'[t] \in Ended
  BY DEF LeaseInv
<1> QED
  BY <1>2, <1>3, <1>4, <1>5

LEMMA ScanFollows ==
  ASSUME NEW w \in Workers, RecordInv, NEW s \in Stages, Scan(w, s)
  PROVE  Follows(w) /\ \A e \in Workers \ {w} : worker'[e] = worker[e]
<1> DEFINE seen == [t \in Tasks |-> IF s = "resend" /\ t \in Candidates[s]
                                     THEN status[t] ELSE "ABSENT"]
           x == [AtStage(s, "loop") EXCEPT !.batch = Candidates[s], !.seen = seen]
<1>1. worker' = [worker EXCEPT ![w] = x]
  BY DEF Scan, Step
<1>2. worker'[w] = x /\ \A e \in Workers \ {w} : worker'[e] = worker[e]
  BY <1>1 DEF RecordInv, TypeOK
<1>3. /\ x.pc = "loop" /\ x.stage = s /\ x.batch = Candidates[s]
      /\ x.seen = seen
  BY DEF AtStage
<1>4. s = "resend" => \A t \in Candidates[s] : seen[t] = status[t]
  BY DEF Candidates, Unreported
<1> QED
  BY <1>2, <1>3, <1>4 DEF Follows, Busy

\* A round that ends, dies or passes over a candidate.
LEMMA AsleepFollows ==
  ASSUME NEW w \in Workers, RecordInv, worker' = [worker EXCEPT ![w] = Asleep]
  PROVE  Follows(w) /\ \A e \in Workers \ {w} : worker'[e] = worker[e]
<1>1. worker'[w] = Asleep /\ \A e \in Workers \ {w} : worker'[e] = worker[e]
  BY DEF RecordInv, TypeOK
<1>2. Asleep.pc = "asleep" /\ Asleep.stage = "dispatch"
  BY DEF Asleep, AtStage
<1> QED
  BY <1>1, <1>2 DEF Follows, Busy

LEMMA PassFollows ==
  ASSUME NEW w \in Workers, RecordInv, NEW t \in Tasks, Pass(w, t), worker[w].pc = "loop"
  PROVE  Follows(w) /\ \A e \in Workers \ {w} : worker'[e] = worker[e]
<1> DEFINE d == worker[w]
           x == [d EXCEPT !.batch = @ \ {t}, !.seen[t] = "ABSENT"]
<1>1. d \in Rounds
  BY RoundOf
<1>2. worker'[w] = x /\ \A e \in Workers \ {w} : worker'[e] = worker[e]
  BY DEF Pass, Step, RecordInv, TypeOK
<1>3. /\ x.pc = "loop" /\ x.stage = d.stage /\ x.batch = d.batch \ {t}
      /\ x.seen = [d.seen EXCEPT ![t] = "ABSENT"]
  BY <1>1 DEF Rounds
<1>4. \A q \in d.batch \ {t} : x.seen[q] = d.seen[q]
  BY <1>1, <1>3 DEF Rounds
<1> QED
  BY <1>2, <1>3, <1>4 DEF Follows, Busy

LEMMA ResumeFollows ==
  ASSUME NEW w \in Workers, RecordInv, Resume(w)
  PROVE  Follows(w) /\ \A e \in Workers \ {w} : worker'[e] = worker[e]
<1> DEFINE d == worker[w]
           x == [AtStage(d.stage, "loop") EXCEPT !.batch = d.batch, !.seen = d.seen]
<1>1. worker'[w] = x /\ \A e \in Workers \ {w} : worker'[e] = worker[e]
  BY DEF Resume, Step, RecordInv, TypeOK
<1>2. x.pc = "loop" /\ x.stage = d.stage /\ x.batch = d.batch /\ x.seen = d.seen
  BY DEF AtStage
<1> QED
  BY <1>1, <1>2 DEF Follows, Busy

\* A worker that goes on to point p with what it has.
LEMMA MoveFollows ==
  ASSUME NEW w \in Workers, RecordInv, NEW x \in Rounds, worker' = [worker EXCEPT ![w] = x],
         x.stage = worker[w].stage, x.batch = worker[w].batch, x.seen = worker[w].seen,
         x.task = worker[w].task,
         x.pc \in Busy => worker[w].pc \in Busy,
         x.pc = "update" => x.read.status = status[x.task],
         x.pc \in {"tell", "told"} => worker[w].pc \in {"tell", "told"} /\ x.has = worker[w].has
  PROVE  Follows(w) /\ \A e \in Workers \ {w} : worker'[e] = worker[e]
<1>1. worker'[w] = x /\ \A e \in Workers \ {w} : worker'[e] = worker[e]
  BY DEF RecordInv, TypeOK
<1> QED
  BY <1>1 DEF Follows

LEMMA DispatchFollows ==
  ASSUME NEW w \in Workers, RecordInv,
         \/ \E accepts \in BOOLEAN, answer \in Answers : Deliver(w, accepts, answer)
         \/ ReadRow(w)
  PROVE  Follows(w) /\ \A e \in Workers \ {w} : worker'[e] = worker[e]
<1> DEFINE d == worker[w]
<1>1. d \in Rounds /\ Carried(d)
  BY RoundOf
<1>2. ASSUME NEW accepts \in BOOLEAN, NEW answer \in Answers, Deliver(w, accepts, answer)
      PROVE  Follows(w) /\ \A e \in Workers \ {w} : worker'[e] = worker[e]
  <2> DEFINE h == IF TakenAsAccepted(answer) THEN "DELIVERED" ELSE "error"
             x == [d EXCEPT !.pc = "answered", !.has = h]
  <2>1. d.pc = "deliver" /\ worker' = [worker EXCEPT ![w] = x]
    BY <1>2 DEF Deliver, At, Step
  <2>2. /\ x \in Rounds /\ x.pc = "answered" /\ x.task = d.task
        /\ x.stage = d.stage /\ x.batch = d.batch /\ x.seen = d.seen
    BY <1>1 DEF Rounds, Ended
  <2> HIDE DEF x
  <2> QED
    BY <2>1, <2>2, MoveFollows DEF Busy
<1>3. CASE ReadRow(w)
  <2> DEFINE row == [status |-> status[d.task], attempts |-> attempts[d.task],
                     locked |-> lock[d.task] # "free"]
             x == [d EXCEPT !.pc = "update", !.read = row]
  <2>1. d.pc = "answered" /\ worker' = [worker EXCEPT ![w] = x]
    BY <1>3 DEF ReadRow, At, Step
  <2>2. row \in [status : Statuses, attempts : Nat, locked : BOOLEAN]
    BY <1>1, <2>1 DEF Carried, RecordInv, TypeOK
  <2>3. /\ x \in Rounds /\ x.pc = "update" /\ x.task = d.task /\ x.read.status = status[d.task]
        /\ x.stage = d.stage /\ x.batch = d.batch /\ x.seen = d.seen
    BY <1>1, <2>2 DEF Rounds
  <2> HIDE DEF x
  <2> QED
    BY <2>1, <2>3, MoveFollows DEF Busy
<1> QED
  BY <1>2, <1>3

LEMMA ReportFollows ==
  ASSUME NEW w \in Workers, RecordInv,
         \/ \E t \in Tasks : ClaimReport(w, t)
         \/ \E arrives, ok \in BOOLEAN : Tell(w, arrives, ok)
         \/ MarkReported(w)
  PROVE  Follows(w) /\ \A e \in Workers \ {w} : worker'[e] = worker[e]
<1> DEFINE d == worker[w]
<1>1. d \in Rounds
  BY RoundOf
<1>2. ASSUME NEW t \in Tasks, ClaimReport(w, t)
      PROVE  Follows(w) /\ \A e \in Workers \ {w} : worker'[e] = worker[e]
  <2> DEFINE x == [d EXCEPT !.pc = "tell", !.task = t, !.has = d.seen[t],
                            !.batch = @ \ {t}, !.seen[t] = "ABSENT"]
  <2>1. /\ d.stage = "resend" /\ t \in d.batch
        /\ worker' = [worker EXCEPT ![w] = x]
    BY <1>2 DEF ClaimReport, InLoop, Take, Step
  <2>2. worker'[w] = x /\ \A e \in Workers \ {w} : worker'[e] = worker[e]
    BY <2>1 DEF RecordInv, TypeOK
  <2>3. /\ x.pc = "tell" /\ x.task = t /\ x.has = d.seen[t]
        /\ x.batch = d.batch \ {t} /\ x.seen = [d.seen EXCEPT ![t] = "ABSENT"]
    BY <1>1 DEF Rounds
  <2>4. \A q \in d.batch \ {t} : x.seen[q] = d.seen[q]
    BY <1>1, <2>3 DEF Rounds
  <2> HIDE DEF x
  <2> QED
    BY <2>1, <2>2, <2>3, <2>4 DEF Follows, Busy
<1>3. ASSUME NEW arrives \in BOOLEAN, NEW ok \in BOOLEAN, Tell(w, arrives, ok)
      PROVE  Follows(w) /\ \A e \in Workers \ {w} : worker'[e] = worker[e]
  <2> DEFINE x == [d EXCEPT !.pc = "told"]
  <2>1. d.pc = "tell" /\ (IF ok THEN worker' = [worker EXCEPT ![w] = x] ELSE Resume(w))
    BY <1>3 DEF Tell, At, Step
  <2>2. /\ x \in Rounds /\ x.pc = "told" /\ x.task = d.task /\ x.has = d.has
        /\ x.stage = d.stage /\ x.batch = d.batch /\ x.seen = d.seen
    BY <1>1 DEF Rounds
  <2> HIDE DEF x
  <2> QED
    BY <2>1, <2>2, MoveFollows, ResumeFollows DEF Busy
<1>4. CASE MarkReported(w)
  BY <1>4, ResumeFollows DEF MarkReported
<1> QED
  BY <1>2, <1>3, <1>4

LEMMA CollectFollows ==
  ASSUME NEW w \in Workers, RecordInv,
         \/ \E t \in Tasks : ClaimResult(w, t)
         \/ \E ok \in BOOLEAN : Fetch(w, ok) \/ Alarm(w, ok)
         \/ \E arrives, ok \in BOOLEAN : Forward(w, arrives, ok)
         \/ ReleaseResult(w) \/ MarkCollected(w)
  PROVE  Follows(w) /\ \A e \in Workers \ {w} : worker'[e] = worker[e]
<1> DEFINE d == worker[w]
<1>1. d \in Rounds /\ Carried(d)
  BY RoundOf
<1>2. ASSUME NEW t \in Tasks, ClaimResult(w, t)
      PROVE  Follows(w) /\ \A e \in Workers \ {w} : worker'[e] = worker[e]
  <2> DEFINE x == [d EXCEPT !.pc = "fetch", !.task = t, !.has = "nothing",
                            !.batch = @ \ {t}, !.seen[t] = "ABSENT"]
  <2>1. d.stage = "collect" /\ worker' = [worker EXCEPT ![w] = x]
    BY <1>2 DEF ClaimResult, InLoop, Take, Step
  <2>2. worker'[w] = x /\ \A e \in Workers \ {w} : worker'[e] = worker[e]
    BY <2>1 DEF RecordInv, TypeOK
  <2>3. x.pc = "fetch" /\ x.stage = "collect"
    BY <1>1, <2>1 DEF Rounds
  <2> HIDE DEF x
  <2> QED
    BY <2>2, <2>3 DEF Follows, Busy
<1>3. ASSUME NEW p \in {"alarm", "forward", "mark", "release"}, NEW h \in Files \union {d.has},
             worker' = [worker EXCEPT ![w] = [d EXCEPT !.pc = p, !.has = h]]
      PROVE  Follows(w) /\ \A e \in Workers \ {w} : worker'[e] = worker[e]
  <2> DEFINE x == [d EXCEPT !.pc = p, !.has = h]
  <2>1. /\ x \in Rounds /\ x.pc = p /\ x.task = d.task
        /\ x.stage = d.stage /\ x.batch = d.batch /\ x.seen = d.seen
    BY <1>1 DEF Rounds
  <2>2. worker' = [worker EXCEPT ![w] = x]
    BY <1>3
  <2>3. x.pc \notin Busy \union {"tell", "told"}
    BY <2>1 DEF Busy
  <2> HIDE DEF x
  <2> QED
    BY <2>1, <2>2, <2>3, MoveFollows DEF Busy
<1>4. \A p : [d EXCEPT !.pc = p] = [d EXCEPT !.pc = p, !.has = d.has]
  BY <1>1 DEF Rounds
<1>5. ASSUME NEW ok \in BOOLEAN, Fetch(w, ok)
      PROVE  Follows(w) /\ \A e \in Workers \ {w} : worker'[e] = worker[e]
  <2>1. d.pc = "fetch" /\ d.task \in Tasks
    BY <1>1, <1>5 DEF Fetch, At, Carried
  <2>2. file[d.task] \in Files \union {"none"}
    BY <2>1 DEF RecordInv, TypeOK
  <2>3. CASE ok /\ file[d.task] # "none"
    BY <1>3, <1>5, <2>2, <2>3 DEF Fetch, Step
  <2>4. CASE ~(ok /\ file[d.task] # "none")
    BY <1>3, <1>4, <1>5, <2>4 DEF Fetch, Step
  <2> QED
    BY <2>3, <2>4
<1>6. ASSUME NEW ok \in BOOLEAN, Alarm(w, ok)
      PROVE  Follows(w) /\ \A e \in Workers \ {w} : worker'[e] = worker[e]
  BY <1>3, <1>4, <1>6 DEF Alarm, Step
<1>7. ASSUME NEW arrives \in BOOLEAN, NEW ok \in BOOLEAN, Forward(w, arrives, ok)
      PROVE  Follows(w) /\ \A e \in Workers \ {w} : worker'[e] = worker[e]
  BY <1>3, <1>4, <1>7 DEF Forward, Step
<1>8. CASE ReleaseResult(w) \/ MarkCollected(w)
  BY <1>8, ResumeFollows DEF ReleaseResult, MarkCollected
<1> QED
  BY <1>2, <1>5, <1>6, <1>7, <1>8

-----------------------------------------------------------------------------
\* A step of worker w that writes the row of task t, and no other.
LEMMA ClaimLeases ==
  ASSUME RecordInv, LeaseInv, NEW w \in Workers, NEW t \in Tasks, Claim(w, t)
  PROVE  LeaseInv'
<1> DEFINE d == worker[w]
           x == [d EXCEPT !.pc = "deliver", !.task = t, !.has = "nothing",
                          !.batch = @ \ {t}, !.seen[t] = "ABSENT"]
<1>1. /\ d.stage = "dispatch" /\ status[t] = "PENDING"
      /\ status' = [status EXCEPT ![t] = "SENDING"]
      /\ lock' = [lock EXCEPT ![t] = "held"]
      /\ worker' = [worker EXCEPT ![w] = x]
      /\ UNCHANGED <<heard, outlived>>
  BY DEF Claim, InLoop, Take, Step, outside
<1>2. worker'[w] = x /\ \A e \in Workers \ {w} : worker'[e] = worker[e]
  BY <1>1 DEF RecordInv, TypeOK
<1>3. x.pc = "deliver" /\ x.task = t /\ x.stage = "dispatch"
  BY <1>1, RoundOf DEF Rounds
<1> HIDE DEF x
<1>4. status'[t] = "SENDING" /\ lock'[t] = "held"
  BY <1>1 DEF RecordInv, TypeOK
<1>5. \A q \in Tasks \ {t} : status'[q] = status[q] /\ lock'[q] = lock[q]
  BY <1>1 DEF RecordInv, TypeOK
<1> SUFFICES ASSUME NEW q \in Tasks \ outlived
             PROVE  /\ \A e \in Workers : Leased(worker[e], q)'
                    /\ \A u, v \in Workers : u # v => ~(Delivering(u, q)' /\ Delivering(v, q)')
                    /\ heard'[q] # "nothing" => heard'[q] = status'[q] /\ status'[q] \in Ended
  BY <1>1 DEF LeaseInv
<1>6. q = t => \A e \in Workers : ~Delivering(e, q)
  BY <1>1, LeaseOf
<1>7. \A e \in Workers : Undisturbed(e, q)
  BY <1>1, <1>5, <1>6 DEF Undisturbed, Ended
<1>8. \A e \in Workers \ {w} : Leased(worker[e], q)' /\ (Delivering(e, q)' <=> Delivering(e, q))
  BY <1>2, <1>7, OthersLeased
<1>9. Leased(worker[w], q)' /\ (Delivering(w, q)' => q = t)
  BY <1>2, <1>3, <1>4 DEF Leased, Delivering, Busy
<1>10. \A u, v \in Workers : u # v => ~(Delivering(u, q)' /\ Delivering(v, q)')
  BY <1>6, <1>8, <1>9 DEF LeaseInv
<1>11. heard'[q] # "nothing" => heard'[q] = status'[q] /\ status'[q] \in Ended
  BY <1>1, <1>5 DEF LeaseInv, Ended
<1> QED
  BY <1>8, <1>9, <1>10, <1>11

LEMMA UpdateLeases ==
  ASSUME RecordInv, LeaseInv, NEW w \in Workers, Update(w)
  PROVE  LeaseInv'
<1> DEFINE d == worker[w]
           t == d.task
           verdict == Verdict(w)
           x == [d EXCEPT !.pc = "tell", !.has = verdict, !.read = NoRead]
<1>1. /\ d.pc = "update"
      /\ lock' = [lock EXCEPT ![t] = IF d.read.locked THEN "free" ELSE @]
      /\ status' = [status EXCEPT ![t] = IF verdict # d.read.status THEN verdict ELSE @]
      /\ IF verdict \in Ended THEN worker' = [worker EXCEPT ![w] = x] ELSE Resume(w)
      /\ UNCHANGED <<heard, outlived>>
  BY DEF Update, Step, At, outside
<1>2. d \in Rounds /\ t \in Tasks
  BY <1>1, RoundOf DEF Carried
<1>3. verdict \in {"DELIVERED", "FAILED", "PENDING"}
  BY VerdictValue
<1> HIDE DEF verdict
<1>4. /\ \A e \in Workers \ {w} : worker'[e] = worker[e]
      /\ worker'[w].pc \notin Busy
      /\ worker'[w].pc \in {"tell", "told"} =>
           worker'[w].task = t /\ worker'[w].has = verdict /\ verdict \in Ended
      /\ worker'[w].stage = d.stage /\ worker'[w].batch = d.batch /\ worker'[w].seen = d.seen
  <2>1. CASE verdict \in Ended
    <3>1. x.pc = "tell" /\ x.task = t /\ x.has = verdict
          /\ x.stage = d.stage /\ x.batch = d.batch /\ x.seen = d.seen
      BY <1>2 DEF Rounds
    <3>2. worker'[w] = x /\ \A e \in Workers \ {w} : worker'[e] = worker[e]
      BY <1>1, <2>1 DEF RecordInv, TypeOK
    <3> HIDE DEF x
    <3> QED
      BY <2>1, <3>1, <3>2 DEF Busy
  <2>2. CASE verdict \notin Ended
    <3> DEFINE y == [AtStage(d.stage, "loop") EXCEPT !.batch = d.batch, !.seen = d.seen]
    <3>1. worker'[w] = y /\ \A e \in Workers \ {w} : worker'[e] = worker[e]
      BY <1>1, <2>2 DEF Resume, Step, RecordInv, TypeOK
    <3>2. y.pc = "loop" /\ y.stage = d.stage /\ y.batch = d.batch /\ y.seen = d.seen
      BY DEF AtStage
    <3> HIDE DEF y
    <3> QED
      BY <3>1, <3>2 DEF Busy
  <2> QED
    BY <2>1, <2>2
<1>5. \A q \in Tasks \ {t} : status'[q] = status[q] /\ lock'[q] = lock[q]
  BY <1>1, <1>2 DEF RecordInv, TypeOK
<1>6. t \notin outlived => status[t] = "SENDING" /\ status'[t] = verdict
  <2>1. t \notin outlived => status[t] = "SENDING" /\ d.read.status = "SENDING"
    BY <1>1, <1>2, LeaseOf DEF Leased, Busy
  <2> QED
    BY <1>1, <1>2, <1>3, <2>1 DEF RecordInv, TypeOK
<1> SUFFICES ASSUME NEW q \in Tasks \ outlived
             PROVE  /\ \A e \in Workers : Leased(worker[e], q)'
                    /\ \A u, v \in Workers : u # v => ~(Delivering(u, q)' /\ Delivering(v, q)')
                    /\ heard'[q] # "nothing" => heard'[q] = status'[q] /\ status'[q] \in Ended
  BY <1>1 DEF LeaseInv
<1>7. q = t => \A e \in Workers \ {w} : ~Delivering(e, q)
  BY <1>1, <1>2 DEF LeaseInv, Delivering
<1>8. status[q] \in Ended => status'[q] = status[q]
  BY <1>5, <1>6 DEF Ended
<1>9. \A e \in Workers \ {w} : Undisturbed(e, q)
  BY <1>5, <1>7, <1>8 DEF Undisturbed
<1>10. \A e \in Workers \ {w} : Leased(worker[e], q)' /\ (Delivering(e, q)' <=> Delivering(e, q))
  BY <1>4, <1>9, OthersLeased
<1>11. Leased(worker[w], q)' /\ ~Delivering(w, q)'
  <2>1. d.stage = "resend" /\ q \in d.batch => d.seen[q] = status'[q]
    <3>1. Leased(d, q) /\ Carried(d)
      BY LeaseOf, RoundOf
    <3> QED
      BY <1>8, <3>1 DEF Leased, Carried
  <2>2. worker'[w].pc \in {"tell", "told"} /\ worker'[w].task = q => worker'[w].has = status'[q]
    BY <1>4, <1>6
  <2>3. worker'[w].pc \notin Busy /\ worker'[w].pc # "update" /\ ~Delivering(w, q)'
    BY <1>4 DEF Delivering, Busy
  <2>4. worker'[w].stage = "resend" /\ q \in worker'[w].batch => worker'[w].seen[q] = status'[q]
    BY <1>4, <2>1
  <2> QED
    BY <2>2, <2>3, <2>4 DEF Leased
<1>12. \A u, v \in Workers : u # v => ~(Delivering(u, q)' /\ Delivering(v, q)')
  BY <1>10, <1>11 DEF LeaseInv
<1>13. heard'[q] # "nothing" => heard'[q] = status'[q] /\ status'[q] \in Ended
  BY <1>1, <1>8 DEF LeaseInv
<1> QED
  BY <1>10, <1>11, <1>12, <1>13

LEMMA ReclaimLeases ==
  ASSUME RecordInv, LeaseInv, NEW w \in Workers, Reclaim(w)
  PROVE  LeaseInv'
<1> DEFINE lost == {t \in Tasks : status[t] = "SENDING" /\ lock[t] = "stale"}
           x == AtStage("dispatch", "scan")
<1>1. /\ status' = [t \in Tasks |-> IF t \in lost THEN "PENDING" ELSE status[t]]
      /\ lock' = [t \in Tasks |-> IF t \in lost THEN "free" ELSE lock[t]]
      /\ worker' = [worker EXCEPT ![w] = x]
      /\ UNCHANGED <<heard, outlived>>
  BY DEF Reclaim, Step, outside
<1>2. worker'[w] = x /\ \A e \in Workers \ {w} : worker'[e] = worker[e]
  BY <1>1 DEF RecordInv, TypeOK
<1>3. x.pc = "scan" /\ x.stage = "dispatch"
  BY DEF AtStage
<1> HIDE DEF x
<1> SUFFICES ASSUME NEW q \in Tasks \ outlived
             PROVE  /\ \A e \in Workers : Leased(worker[e], q)'
                    /\ \A u, v \in Workers : u # v => ~(Delivering(u, q)' /\ Delivering(v, q)')
                    /\ heard'[q] # "nothing" => heard'[q] = status'[q] /\ status'[q] \in Ended
  BY <1>1 DEF LeaseInv
<1>4. \A e \in Workers : Undisturbed(e, q)
  <2>1. \A e \in Workers : Delivering(e, q) => q \notin lost
    BY LeaseOf
  <2>2. status[q] \in Ended => q \notin lost
    BY DEF Ended
  <2> QED
    BY <1>1, <2>1, <2>2 DEF Undisturbed
<1>5. \A e \in Workers \ {w} : Leased(worker[e], q)' /\ (Delivering(e, q)' <=> Delivering(e, q))
  BY <1>2, <1>4, OthersLeased
<1>6. Leased(worker[w], q)' /\ ~Delivering(w, q)'
  BY <1>2, <1>3 DEF Leased, Delivering, Busy
<1>7. \A u, v \in Workers : u # v => ~(Delivering(u, q)' /\ Delivering(v, q)')
  BY <1>5, <1>6 DEF LeaseInv
<1>8. heard'[q] # "nothing" => heard'[q] = status'[q] /\ status'[q] \in Ended
  BY <1>1, <1>4 DEF LeaseInv, Undisturbed
<1> QED
  BY <1>5, <1>6, <1>7, <1>8

LEMMA TimeLeases ==
  ASSUME RecordInv, LeaseInv, worker' = worker, heard' = heard,
         outlived \subseteq outlived',
         \A q \in Tasks \ outlived' : /\ status[q] \in Ended => status'[q] = status[q]
                                     /\ \A e \in Workers : Undisturbed(e, q)
  PROVE  LeaseInv'
<1> SUFFICES ASSUME NEW q \in Tasks \ outlived'
             PROVE  /\ \A e \in Workers : Leased(worker[e], q)'
                    /\ \A u, v \in Workers : u # v => ~(Delivering(u, q)' /\ Delivering(v, q)')
                    /\ heard'[q] # "nothing" => heard'[q] = status'[q] /\ status'[q] \in Ended
  BY DEF LeaseInv
<1>1. q \in Tasks \ outlived
  OBVIOUS
<1>2. \A e \in Workers : Leased(worker[e], q)' /\ (Delivering(e, q)' <=> Delivering(e, q))
  BY <1>1, OthersLeased
<1>3. \A u, v \in Workers : u # v => ~(Delivering(u, q)' /\ Delivering(v, q)')
  BY <1>1, <1>2 DEF LeaseInv
<1>4. heard'[q] # "nothing" => heard'[q] = status'[q] /\ status'[q] \in Ended
  BY <1>1 DEF LeaseInv
<1> QED
  BY <1>2, <1>3, <1>4

LEMMA ClockLeases ==
  ASSUME RecordInv, LeaseInv, NEW t \in Tasks,
         \/ Enqueue(t) \/ ClaimExpires(t) \/ ReportClaimExpires(t) \/ ResultClaimExpires(t)
         \/ BackoffEnds(t) \/ DeadlinePasses(t) \/ Ages(t)
         \/ \E f \in Files : WedapWrites(t, f)
  PROVE  LeaseInv'
<1>1. worker' = worker /\ heard' = heard
  BY DEF Enqueue, ClaimExpires, ReportClaimExpires, ResultClaimExpires, BackoffEnds,
         DeadlinePasses, Ages, WedapWrites, outside
<1>2. CASE Enqueue(t)
  <2>1. status[t] = "ABSENT" /\ UNCHANGED <<lock, outlived>> /\ status' = [status EXCEPT ![t] = "PENDING"]
    BY <1>2 DEF Enqueue, outside
  <2>2. \A q \in Tasks : status[q] # "ABSENT" => status'[q] = status[q]
    BY <2>1 DEF RecordInv, TypeOK
  <2>3. \A q \in Tasks \ outlived : \A e \in Workers : Delivering(e, q) => status[q] = "SENDING"
    BY LeaseOf
  <2>4. \A q \in Tasks \ outlived : /\ status[q] \in Ended => status'[q] = status[q]
                                  /\ \A e \in Workers : Undisturbed(e, q)
    BY <2>1, <2>2, <2>3 DEF Undisturbed, Ended
  <2> QED
    BY <1>1, <2>1, <2>4, TimeLeases
<1>3. CASE ClaimExpires(t)
  <2>1. /\ status' = status /\ lock' = [lock EXCEPT ![t] = "stale"]
        /\ outlived' = IF \E w \in Workers : Delivering(w, t) THEN outlived \union {t} ELSE outlived
    BY <1>3 DEF ClaimExpires
  <2>2. \A q \in Tasks \ outlived' : \A e \in Workers : Delivering(e, q) => lock'[q] = lock[q]
    BY <2>1 DEF RecordInv, TypeOK
  <2> QED
    BY <1>1, <2>1, <2>2, TimeLeases DEF Undisturbed
<1>4. CASE ~Enqueue(t) /\ ~ClaimExpires(t)
  <2>1. UNCHANGED <<status, lock, outlived>>
    BY <1>4 DEF ReportClaimExpires, ResultClaimExpires, BackoffEnds, DeadlinePasses, Ages,
                WedapWrites, delivery, outside
  <2> QED
    BY <1>1, <2>1, TimeLeases DEF Undisturbed
<1> QED
  BY <1>2, <1>3, <1>4

\* The steps of a round that do not write status and lock.
LEMMA QuietLeases ==
  ASSUME RecordInv, LeaseInv, NEW w \in Workers,
         \/ StartRound(w) \/ NextScan(w) \/ EndRound(w) \/ Crash(w)
         \/ Reporting(w) \/ Collection(w) \/ \E t \in Tasks : Alert(w, t) \/ ClaimLost(w, t)
         \/ \E accepts \in BOOLEAN, answer \in Answers : Deliver(w, accepts, answer)
         \/ ReadRow(w)
  PROVE  LeaseInv'
<1>1. UNCHANGED <<status, lock, outlived>>
  BY DEF StartRound, NextScan, Scan, EndRound, Crash, Reporting, Collection, Alert, ClaimLost,
         Deliver, ReadRow, ClaimReport, ReportLost, Tell, MarkReported, ClaimResult, ResultLost,
         Fetch, Alarm, Forward, ReleaseResult, MarkCollected, delivery, outside
<1>2. Follows(w) /\ \A e \in Workers \ {w} : worker'[e] = worker[e]
  <2>1. CASE StartRound(w)
    BY <2>1, ScanFollows DEF StartRound, Stages
  <2>2. CASE NextScan(w)
    <3>1. worker[w].stage \in Stages \ {"overdue"}
      BY <2>2, RoundOf DEF NextScan, Rounds
    <3>2. NextStage[worker[w].stage] \in Stages
      BY <3>1 DEF NextStage, Stages
    <3> QED
      BY <2>2, <3>2, ScanFollows DEF NextScan
  <2>3. CASE EndRound(w) \/ Crash(w)
    BY <2>3, AsleepFollows DEF EndRound, Crash, Step
  <2>4. ASSUME NEW t \in Tasks,
               Alert(w, t) \/ ClaimLost(w, t) \/ ReportLost(w, t) \/ ResultLost(w, t)
        PROVE  Follows(w) /\ \A e \in Workers \ {w} : worker'[e] = worker[e]
    BY <2>4, PassFollows DEF Alert, ClaimLost, ReportLost, ResultLost, InLoop
  <2>5. CASE Reporting(w)
    BY <2>4, <2>5, ReportFollows DEF Reporting
  <2>6. CASE Collection(w)
    BY <2>4, <2>6, CollectFollows DEF Collection
  <2> QED
    BY <2>1, <2>2, <2>3, <2>4, <2>5, <2>6, DispatchFollows
<1>3. ASSUME NEW t \in Tasks \ outlived, heard'[t] # heard[t]
      PROVE  heard'[t] = status[t] /\ status[t] \in Ended
  <2>1. PICK arrives \in BOOLEAN, ok \in BOOLEAN : Tell(w, arrives, ok)
    BY <1>3 DEF StartRound, NextScan, Scan, EndRound, Crash, Reporting, Collection, Alert,
         ClaimLost, Deliver, ReadRow, ClaimReport, ReportLost, MarkReported, ClaimResult,
         ResultLost, Fetch, Alarm, Forward, ReleaseResult, MarkCollected, outside
  <2>2. worker[w].pc = "tell" /\ heard'[t] = worker[w].has /\ worker[w].task = t
    BY <1>3, <2>1 DEF Tell, At, RecordInv, TypeOK
  <2>3. Leased(worker[w], t) /\ Carried(worker[w])
    BY LeaseOf, RoundOf
  <2> QED
    BY <2>2, <2>3 DEF Leased, Carried
<1> QED
  BY <1>1, <1>2, <1>3, FollowingKeeps

LEMMA LeaseInvStep == RecordInv /\ LeaseInv /\ [Next]_vars => LeaseInv'
<1> SUFFICES ASSUME RecordInv, LeaseInv, [Next]_vars
             PROVE  LeaseInv'
  OBVIOUS
<1>1. CASE UNCHANGED vars
  BY <1>1, TimeLeases DEF vars, delivery, outside, Undisturbed
<1>2. ASSUME NEW w \in Workers, Round(w) \/ Crash(w)
      PROVE  LeaseInv'
  BY <1>2, ReclaimLeases, ClaimLeases, UpdateLeases, QuietLeases DEF Round, Dispatching
<1> QED
  BY <1>1, <1>2, ClockLeases DEF Next

LEMMA LeaseInvHolds == Spec => [](RecordInv /\ LeaseInv)
<1> QED
  BY RecordInvInit, RecordInvStep, LeaseInvInit, LeaseInvStep, PTL DEF Spec

\* As long as the deliveries of a task end before their claims, no two workers
\* upload and notify it at once.
THEOREM OneWorkerDelivers == Spec => []OneDeliverer
<1>1. LeaseInv => OneDeliverer
  BY DEF LeaseInv, OneDeliverer
<1> QED
  BY <1>1, LeaseInvHolds, PTL

\* As long as the deliveries of a task end before their claims, recon was last
\* told what the row of a reported task says.
THEOREM ReportsAreTrue == Spec => []ReportIsTrue
<1>1. RecordInv /\ LeaseInv => ReportIsTrue
  BY DEF RecordInv, TypeOK, LeaseInv, ReportIsTrue, ReportedWasHeard
<1> QED
  BY <1>1, LeaseInvHolds, PTL

\* As long as the deliveries of a task end before their claims, a delivered or
\* failed task stays what it is.
THEOREM TheEndStays == Spec => EndedStays
<1>1. RecordInv /\ LeaseInv /\ [Next]_vars
        => [\A t \in Tasks \ outlived : status[t] \in Ended => status'[t] = status[t]]_vars
  <2> SUFFICES ASSUME RecordInv, LeaseInv, Next, NEW t \in Tasks \ outlived, status[t] \in Ended
               PROVE  status'[t] = status[t]
    OBVIOUS
  <2>1. status[t] \notin {"ABSENT", "PENDING", "SENDING"}
    BY DEF Ended
  <2>2. ASSUME NEW q \in Tasks,
               \/ Enqueue(q) \/ ClaimExpires(q) \/ ReportClaimExpires(q) \/ ResultClaimExpires(q)
               \/ BackoffEnds(q) \/ DeadlinePasses(q) \/ Ages(q)
               \/ \E f \in Files : WedapWrites(q, f)
        PROVE  status'[t] = status[t]
    <3>1. status' = status \/ (status[q] = "ABSENT" /\ status' = [status EXCEPT ![q] = "PENDING"])
      BY <2>2 DEF Enqueue, ClaimExpires, ReportClaimExpires, ResultClaimExpires, BackoffEnds,
                  DeadlinePasses, Ages, WedapWrites, delivery
    <3> QED
      BY <2>1, <3>1 DEF RecordInv, TypeOK
  <2>3. ASSUME NEW w \in Workers, Reclaim(w)
        PROVE  status'[t] = status[t]
    BY <2>1, <2>3 DEF Reclaim
  <2>4. ASSUME NEW w \in Workers, NEW q \in Tasks, Claim(w, q)
        PROVE  status'[t] = status[t]
    BY <2>1, <2>4 DEF Claim, RecordInv, TypeOK
  <2>5. ASSUME NEW w \in Workers, Update(w)
        PROVE  status'[t] = status[t]
    <3>1. Leased(worker[w], t) /\ worker[w].pc = "update"
      BY <2>5, LeaseOf DEF Update, At
    <3>2. worker[w].task # t
      BY <2>1, <3>1 DEF Leased, Busy
    <3> QED
      BY <2>5, <3>2 DEF Update, RecordInv, TypeOK
  <2>6. ASSUME NEW w \in Workers,
               \/ StartRound(w) \/ NextScan(w) \/ EndRound(w) \/ Crash(w)
               \/ Reporting(w) \/ Collection(w)
               \/ \E q \in Tasks : Alert(w, q) \/ ClaimLost(w, q)
               \/ \E accepts \in BOOLEAN, answer \in Answers : Deliver(w, accepts, answer)
               \/ ReadRow(w)
        PROVE  status'[t] = status[t]
    BY <2>6 DEF StartRound, NextScan, Scan, EndRound, Crash, Reporting, Collection, Alert,
         ClaimLost, Deliver, ReadRow, ClaimReport, ReportLost, Tell, MarkReported, ClaimResult,
         ResultLost, Fetch, Alarm, Forward, ReleaseResult, MarkCollected, delivery
  <2>7. ASSUME NEW w \in Workers, Round(w) \/ Crash(w)
        PROVE  status'[t] = status[t]
    BY <2>3, <2>4, <2>5, <2>6, <2>7 DEF Round, Dispatching
  <2> QED
    BY <2>2, <2>7 DEF Next
<1> QED
  BY <1>1, LeaseInvHolds, PTL DEF Spec, EndedStays

\* A worker whose claim of a result was taken over does not release the claim of
\* the worker that took it over, however late it comes.
THEOREM ResultClaimsAreKept == Spec => ResultClaimIsKept
<1>1. RecordInv /\ [Next]_vars
        => [\A t \in Tasks : fetching[t] = "held" /\ fetching'[t] = "free"
              => worker'[token[t]] # worker[token[t]]]_vars
  <2> SUFFICES ASSUME RecordInv, Next, NEW t \in Tasks, fetching[t] = "held", fetching'[t] = "free"
               PROVE  worker'[token[t]] # worker[token[t]]
    OBVIOUS
  <2>1. ~\E q \in Tasks :
          \/ Enqueue(q) \/ ClaimExpires(q) \/ ReportClaimExpires(q) \/ ResultClaimExpires(q)
          \/ BackoffEnds(q) \/ DeadlinePasses(q) \/ Ages(q)
          \/ \E f \in Files : WedapWrites(q, f)
    BY DEF Enqueue, ClaimExpires, ReportClaimExpires, ResultClaimExpires, BackoffEnds,
           DeadlinePasses, Ages, WedapWrites, result, RecordInv, TypeOK
  <2>2. PICK w \in Workers : Round(w) \/ Crash(w)
    BY <2>1 DEF Next
  <2>3. ~(Reclaim(w) \/ StartRound(w) \/ NextScan(w) \/ EndRound(w) \/ Crash(w)
          \/ Dispatching(w) \/ Reporting(w) \/ \E q \in Tasks : Alert(w, q))
    BY DEF Reclaim, StartRound, NextScan, Scan, EndRound, Crash, Dispatching, Claim, ClaimLost,
           Deliver, ReadRow, Update, Reporting, ClaimReport, ReportLost, Tell, MarkReported,
           Alert, result
  <2>4. ReleaseResult(w) \/ MarkCollected(w)
    <3>1. Collection(w)
      BY <2>2, <2>3 DEF Round
    <3>2. ~\E q \in Tasks : ClaimResult(w, q)
      BY DEF ClaimResult, RecordInv, TypeOK
    <3> QED
      BY <3>1, <3>2 DEF Collection, ResultLost, Fetch, Alarm, Forward, result
  <2>5. Resume(w) /\ worker[w].pc # "loop" /\ HoldsResult(w) /\ worker[w].task = t
    BY <2>4 DEF ReleaseResult, MarkCollected, At, RecordInv, TypeOK
  <2>6. token[t] = w /\ worker'[w].pc = "loop"
    BY <2>5, ResumeRound DEF HoldsResult
  <2> QED
    BY <2>5, <2>6
<1> QED
  BY <1>1, RecordInvHolds, PTL DEF Spec, ResultClaimIsKept

-----------------------------------------------------------------------------
(* Attempts.  An update may set the number of attempts back to what its      *)
(* worker had read, so that attempts are lost and a task is tried more often *)
(* than MaxAttempts, but it is never given up sooner.                        *)

Answered == {"answered", "update"}

\* The workers whose delivery of t is tried but not yet counted.
InFlight(t) == {w \in Workers : worker[w].task = t /\ worker[w].pc \in Answered}

\* n attempts, and those in flight, are deliveries that were tried.
Covered(n, t) == n + Cardinality(InFlight(t)) <= tries[t] \/ tries[t] = MaxAttempts

AttemptInv ==
  /\ \A t \in Tasks : Covered(attempts[t], t)
  /\ \A w \in Workers : worker[w].pc = "update" => Covered(worker[w].read.attempts, worker[w].task)
  /\ FailedIsEarned

LEMMA InFlightFinite ==
  ASSUME NEW t
  PROVE  /\ IsFiniteSet(InFlight(t)) /\ Cardinality(InFlight(t)) \in Nat
         /\ \A S \in SUBSET InFlight(t) : Cardinality(S) \in Nat /\ Cardinality(S) <= Cardinality(InFlight(t))
<1>1. InFlight(t) \in SUBSET Workers
  BY DEF InFlight
<1>2. IsFiniteSet(InFlight(t))
  BY <1>1, WorkersAssumption, FS_Subset
<1> QED
  BY <1>2, FS_Subset, FS_CardinalityType

LEMMA AttemptInvInit == Init => AttemptInv
<1> SUFFICES ASSUME Init
             PROVE  AttemptInv
  OBVIOUS
<1>1. Asleep.pc = "asleep"
  BY DEF Asleep, AtStage
<1>2. \A w \in Workers : worker[w].pc = "asleep"
  BY <1>1 DEF Init
<1>3. \A t \in Tasks : InFlight(t) = {}
  BY <1>2 DEF InFlight, Answered
<1>4. \A t \in Tasks : attempts[t] = 0 /\ tries[t] = 0 /\ status[t] = "ABSENT"
  BY DEF Init
<1>5. Cardinality({}) = 0
  BY FS_EmptySet
<1> QED
  BY <1>2, <1>3, <1>4, <1>5 DEF AttemptInv, Covered, FailedIsEarned

\* A number that was covered is covered still, when no delivery is tried.
LEMMA StillCovered ==
  ASSUME RecordInv, NEW t \in Tasks, NEW n \in Nat, Covered(n, t),
         tries' = tries, InFlight(t)' \subseteq InFlight(t)
  PROVE  n + Cardinality(InFlight(t)') <= tries'[t] \/ tries'[t] = MaxAttempts
<1>1. Cardinality(InFlight(t)') \in Nat /\ Cardinality(InFlight(t)') <= Cardinality(InFlight(t))
      /\ Cardinality(InFlight(t)) \in Nat
  BY InFlightFinite
<1>2. tries[t] \in Nat
  BY AttemptsAssumption DEF RecordInv, TypeOK
<1> QED
  BY <1>1, <1>2 DEF Covered

\* A step in which no worker begins or reads anything.
LEMMA LeavingKeeps ==
  ASSUME RecordInv, AttemptInv, UNCHANGED <<attempts, tries>>,
         \A e \in Workers : worker'[e].pc \in Answered => worker'[e] = worker[e],
         \A t \in Tasks : status'[t] = "FAILED" => status[t] = "FAILED"
  PROVE  AttemptInv'
<1>1. \A t \in Tasks : InFlight(t)' \subseteq InFlight(t)
  BY DEF InFlight
<1>2. \A t \in Tasks : Covered(attempts[t], t)'
  <2> SUFFICES ASSUME NEW t \in Tasks
               PROVE  Covered(attempts[t], t)'
    OBVIOUS
  <2>1. attempts[t] \in Nat /\ Covered(attempts[t], t)
    BY DEF AttemptInv, RecordInv, TypeOK
  <2>2. attempts[t] + Cardinality(InFlight(t)') <= tries'[t] \/ tries'[t] = MaxAttempts
    BY <1>1, <2>1, StillCovered
  <2> QED
    BY <2>2 DEF Covered
<1>3. ASSUME NEW w \in Workers, worker'[w].pc = "update"
      PROVE  Covered(worker[w].read.attempts, worker[w].task)'
  <2>1. worker'[w] = worker[w]
    BY <1>3 DEF Answered
  <2>2. /\ worker[w].read.attempts \in Nat /\ worker[w].task \in Tasks
        /\ Covered(worker[w].read.attempts, worker[w].task)
    BY <1>3, <2>1, RoundOf DEF AttemptInv, Carried, Rounds
  <2> DEFINE n == worker[w].read.attempts
             t == worker[w].task
  <2>3. n + Cardinality(InFlight(t)') <= tries'[t] \/ tries'[t] = MaxAttempts
    <3> HIDE DEF n
    <3> SUFFICES ASSUME NEW q \in Tasks, q = t
                 PROVE  n + Cardinality(InFlight(q)') <= tries'[q] \/ tries'[q] = MaxAttempts
      BY <2>1, <2>2
    <3> QED
      BY <1>1, <2>2, StillCovered DEF n
  <2> QED
    BY <2>1, <2>3 DEF Covered
<1>4. FailedIsEarned'
  BY DEF AttemptInv, FailedIsEarned
<1> QED
  BY <1>2, <1>3, <1>4 DEF AttemptInv

LEMMA DeliverCounts ==
  ASSUME RecordInv, AttemptInv, NEW w \in Workers, NEW accepts \in BOOLEAN,
         NEW answer \in Answers, Deliver(w, accepts, answer)
  PROVE  AttemptInv'
<1> DEFINE d == worker[w]
           h == IF TakenAsAccepted(answer) THEN "DELIVERED" ELSE "error"
           x == [d EXCEPT !.pc = "answered", !.has = h]
<1> PICK t \in Tasks : t = d.task
  BY RoundOf DEF Deliver, At, Carried
<1>1. /\ d.pc = "deliver" /\ d \in Rounds /\ t = d.task
      /\ worker' = [worker EXCEPT ![w] = x]
      /\ tries' = [tries EXCEPT ![t] = IF @ < MaxAttempts THEN @ + 1 ELSE @]
      /\ UNCHANGED <<status, attempts>>
  BY RoundOf DEF Deliver, At, Step, delivery, Carried
<1>2. x.pc = "answered" /\ x.task = t
  BY <1>1 DEF Rounds
<1>3. worker'[w] = x /\ \A e \in Workers \ {w} : worker'[e] = worker[e]
  BY <1>1 DEF RecordInv, TypeOK
<1> HIDE DEF x
<1>4. InFlight(t)' = InFlight(t) \union {w} /\ w \notin InFlight(t)
  BY <1>1, <1>2, <1>3 DEF InFlight, Answered
<1>5. \A q \in Tasks \ {t} : InFlight(q)' \subseteq InFlight(q)
  BY <1>2, <1>3 DEF InFlight
<1>6. Cardinality(InFlight(t)') = Cardinality(InFlight(t)) + 1 /\ Cardinality(InFlight(t)) \in Nat
  BY <1>4, InFlightFinite, FS_AddElement
<1>7. tries[t] \in 0 .. MaxAttempts /\ tries'[t] = IF tries[t] < MaxAttempts THEN tries[t] + 1 ELSE tries[t]
  BY <1>1 DEF RecordInv, TypeOK
<1>8. \A q \in Tasks \ {t} : tries'[q] = tries[q]
  BY <1>1 DEF RecordInv, TypeOK
<1>9. ASSUME NEW q \in Tasks, NEW n \in Nat, Covered(n, q)
      PROVE  n + Cardinality(InFlight(q)') <= tries'[q] \/ tries'[q] = MaxAttempts
  <2>1. CASE q = t
    BY <1>6, <1>7, <1>9, <2>1, AttemptsAssumption DEF Covered
  <2>2. CASE q # t
    <3>1. /\ Cardinality(InFlight(q)') \in Nat /\ Cardinality(InFlight(q)) \in Nat
          /\ Cardinality(InFlight(q)') <= Cardinality(InFlight(q))
      BY <1>5, <2>2, InFlightFinite
    <3>2. tries[q] \in Nat /\ tries'[q] = tries[q]
      BY <1>8, <2>2, AttemptsAssumption DEF RecordInv, TypeOK
    <3> QED
      BY <1>9, <3>1, <3>2 DEF Covered
  <2> QED
    BY <2>1, <2>2
<1>10. \A q \in Tasks : Covered(attempts[q], q)'
  <2> SUFFICES ASSUME NEW q \in Tasks
               PROVE  Covered(attempts[q], q)'
    OBVIOUS
  <2>1. attempts[q] \in Nat /\ Covered(attempts[q], q)
    BY DEF AttemptInv, RecordInv, TypeOK
  <2>2. attempts[q] + Cardinality(InFlight(q)') <= tries'[q] \/ tries'[q] = MaxAttempts
    BY <1>9, <2>1
  <2> QED
    BY <1>1, <2>2 DEF Covered
<1>11. ASSUME NEW e \in Workers, worker'[e].pc = "update"
       PROVE  Covered(worker[e].read.attempts, worker[e].task)'
  <2>1. worker'[e] = worker[e]
    BY <1>2, <1>3, <1>11
  <2> SUFFICES ASSUME NEW q, q = worker[e].task, NEW n, n = worker[e].read.attempts
               PROVE  n + Cardinality(InFlight(q)') <= tries'[q] \/ tries'[q] = MaxAttempts
    BY <2>1 DEF Covered
  <2>2. n \in Nat /\ q \in Tasks /\ Covered(n, q)
    BY <1>11, <2>1, RoundOf DEF AttemptInv, Carried, Rounds
  <2> QED
    BY <1>9, <2>2
<1>12. FailedIsEarned'
  <2>1. \A q \in Tasks : tries[q] = MaxAttempts => tries'[q] = MaxAttempts
    BY <1>1, AttemptsAssumption DEF RecordInv, TypeOK
  <2> QED
    BY <1>1, <2>1 DEF AttemptInv, FailedIsEarned
<1> QED
  BY <1>10, <1>11, <1>12 DEF AttemptInv

LEMMA ReadRowCounts ==
  ASSUME RecordInv, AttemptInv, NEW w \in Workers, ReadRow(w)
  PROVE  AttemptInv'
<1> DEFINE d == worker[w]
           t == d.task
           row == [status |-> status[t], attempts |-> attempts[t], locked |-> lock[t] # "free"]
           x == [d EXCEPT !.pc = "update", !.read = row]
<1>1. /\ d.pc = "answered" /\ d \in Rounds /\ t \in Tasks
      /\ worker' = [worker EXCEPT ![w] = x]
      /\ UNCHANGED <<status, attempts, tries>>
  BY RoundOf DEF ReadRow, At, Step, delivery, outside, Carried
<1>2. x.pc = "update" /\ x.task = t /\ x.read.attempts = attempts[t]
  BY <1>1 DEF Rounds
<1>3. worker'[w] = x /\ \A e \in Workers \ {w} : worker'[e] = worker[e]
  BY <1>1 DEF RecordInv, TypeOK
<1> HIDE DEF x
<1>4. \A q \in Tasks : InFlight(q)' \subseteq InFlight(q)
  BY <1>1, <1>2, <1>3 DEF InFlight, Answered
<1>5. ASSUME NEW q \in Tasks, NEW n \in Nat, Covered(n, q)
      PROVE  n + Cardinality(InFlight(q)') <= tries'[q] \/ tries'[q] = MaxAttempts
  BY <1>1, <1>4, <1>5, StillCovered
<1>6. ASSUME NEW q \in Tasks
      PROVE  attempts[q] \in Nat /\ Covered(attempts[q], q)
  BY DEF AttemptInv, RecordInv, TypeOK
<1>7. \A q \in Tasks : attempts[q] + Cardinality(InFlight(q)') <= tries'[q] \/ tries'[q] = MaxAttempts
  BY <1>5, <1>6
<1>8. ASSUME NEW e \in Workers, worker'[e].pc = "update"
      PROVE  Covered(worker[e].read.attempts, worker[e].task)'
  <2>1. CASE e = w
    BY <1>1, <1>2, <1>3, <1>7, <2>1 DEF Covered
  <2>2. CASE e # w
    <3>1. worker'[e] = worker[e]
      BY <1>3, <2>2
    <3> SUFFICES ASSUME NEW q, q = worker[e].task, NEW n, n = worker[e].read.attempts
                 PROVE  n + Cardinality(InFlight(q)') <= tries'[q] \/ tries'[q] = MaxAttempts
      BY <3>1 DEF Covered
    <3>2. n \in Nat /\ q \in Tasks /\ Covered(n, q)
      BY <1>8, <3>1, RoundOf DEF AttemptInv, Carried, Rounds
    <3> QED
      BY <1>5, <3>2
  <2> QED
    BY <2>1, <2>2
<1> QED
  BY <1>1, <1>7, <1>8 DEF AttemptInv, FailedIsEarned, Covered

LEMMA UpdateCounts ==
  ASSUME RecordInv, AttemptInv, NEW w \in Workers, Update(w)
  PROVE  AttemptInv'
<1> DEFINE d == worker[w]
           a == d.read.attempts
           verdict == Verdict(w)
           x == [d EXCEPT !.pc = "tell", !.has = verdict, !.read = NoRead]
<1> PICK t \in Tasks : t = d.task
  BY RoundOf DEF Update, At, Carried
<1>1. /\ d.pc = "update" /\ d \in Rounds /\ t = d.task /\ a \in Nat /\ Covered(a, t)
      /\ attempts' = [attempts EXCEPT ![t] = a + 1]
      /\ status' = [status EXCEPT ![t] = IF verdict # d.read.status THEN verdict ELSE @]
      /\ IF verdict \in Ended THEN worker' = [worker EXCEPT ![w] = x] ELSE Resume(w)
      /\ tries' = tries
  <2>1. d.pc = "update" /\ d \in Rounds
    BY RoundOf DEF Update, At
  <2>2. a \in Nat /\ Covered(a, t)
    BY <2>1 DEF Rounds, AttemptInv
  <2> QED
    BY <2>1, <2>2 DEF Update, Step, outside
<1>2. /\ \A e \in Workers \ {w} : worker'[e] = worker[e]
      /\ worker'[w].pc \notin Answered
  <2>1. CASE verdict \in Ended
    <3>1. x.pc = "tell"
      BY <1>1 DEF Rounds
    <3> QED
      BY <1>1, <2>1, <3>1 DEF RecordInv, TypeOK, Answered
  <2>2. CASE verdict \notin Ended
    BY <1>1, <2>2, ResumeRound DEF Answered
  <2> QED
    BY <2>1, <2>2
<1>3. InFlight(t)' = InFlight(t) \ {w} /\ w \in InFlight(t)
  BY <1>1, <1>2 DEF InFlight, Answered
<1>4. \A q \in Tasks : InFlight(q)' \subseteq InFlight(q)
  BY <1>2 DEF InFlight
<1>5. /\ Cardinality(InFlight(t)') = Cardinality(InFlight(t)) - 1
      /\ Cardinality(InFlight(t)) \in Nat /\ Cardinality(InFlight(t)') \in Nat
  <2>1. IsFiniteSet(InFlight(t)) /\ Cardinality(InFlight(t)) \in Nat
    BY InFlightFinite
  <2>2. Cardinality(InFlight(t) \ {w}) = Cardinality(InFlight(t)) - 1
    BY <1>3, <2>1, FS_RemoveElement
  <2> QED
    BY <1>3, <1>4, <2>1, <2>2, InFlightFinite
<1>6. tries[t] \in 0 .. MaxAttempts
  BY <1>1 DEF RecordInv, TypeOK
<1>7. ASSUME NEW q \in Tasks, NEW n \in Nat, Covered(n, q)
      PROVE  n + Cardinality(InFlight(q)') <= tries'[q] \/ tries'[q] = MaxAttempts
  BY <1>1, <1>4, <1>7, StillCovered
<1>8. (a + 1) + Cardinality(InFlight(t)') <= tries[t] \/ tries[t] = MaxAttempts
  BY <1>1, <1>5, <1>6 DEF Covered
<1>9. verdict = "FAILED" => tries[t] = MaxAttempts
  <2>1. verdict = "FAILED" => a + 1 >= MaxAttempts
    BY DEF Verdict
  <2> QED
    BY <1>1, <1>5, <1>6, <1>8, <2>1, AttemptsAssumption
<1>10. \A q \in Tasks : Covered(attempts[q], q)'
  <2> SUFFICES ASSUME NEW q \in Tasks
               PROVE  Covered(attempts[q], q)'
    OBVIOUS
  <2>1. CASE q = t
    <3>1. attempts'[q] = a + 1
      <4>1. attempts \in [Tasks -> Nat]
        BY DEF RecordInv, TypeOK
      <4> QED
        BY <1>1, <2>1, <4>1
    <3>2. (a + 1) + Cardinality(InFlight(q)') <= tries'[q] \/ tries'[q] = MaxAttempts
      BY <1>1, <1>8, <2>1
    <3> QED
      BY <3>1, <3>2 DEF Covered
  <2>2. CASE q # t
    <3>1. attempts'[q] = attempts[q] /\ attempts[q] \in Nat /\ Covered(attempts[q], q)
      BY <1>1, <2>2 DEF AttemptInv, RecordInv, TypeOK
    <3>2. attempts[q] + Cardinality(InFlight(q)') <= tries'[q] \/ tries'[q] = MaxAttempts
      BY <1>7, <3>1
    <3> QED
      BY <3>1, <3>2 DEF Covered
  <2> QED
    BY <2>1, <2>2
<1>11. ASSUME NEW e \in Workers, worker'[e].pc = "update"
       PROVE  Covered(worker[e].read.attempts, worker[e].task)'
  <2>1. worker'[e] = worker[e]
    BY <1>2, <1>11 DEF Answered
  <2> SUFFICES ASSUME NEW q, q = worker[e].task, NEW n, n = worker[e].read.attempts
               PROVE  n + Cardinality(InFlight(q)') <= tries'[q] \/ tries'[q] = MaxAttempts
    BY <2>1 DEF Covered
  <2>2. n \in Nat /\ q \in Tasks /\ Covered(n, q)
    BY <1>11, <2>1, RoundOf DEF AttemptInv, Carried, Rounds
  <2> QED
    BY <1>7, <2>2
<1>12. FailedIsEarned'
  <2> SUFFICES ASSUME NEW q \in Tasks, status'[q] = "FAILED"
               PROVE  tries[q] = MaxAttempts
    BY <1>1 DEF FailedIsEarned
  <2>1. status[q] = "FAILED" \/ (q = t /\ verdict = "FAILED")
    BY <1>1 DEF RecordInv, TypeOK
  <2> QED
    BY <1>9, <2>1 DEF AttemptInv, FailedIsEarned
<1> QED
  BY <1>10, <1>11, <1>12 DEF AttemptInv

\* The point a step of a round leads to, unless it tries, reads or writes a row.
LEMMA LeavingPoint ==
  ASSUME RecordInv, NEW w \in Workers,
         \/ Reclaim(w) \/ StartRound(w) \/ NextScan(w) \/ EndRound(w) \/ Crash(w)
         \/ Reporting(w) \/ Collection(w)
         \/ \E t \in Tasks : Alert(w, t) \/ Claim(w, t) \/ ClaimLost(w, t)
  PROVE  worker'[w].pc \notin Answered /\ \A e \in Workers \ {w} : worker'[e] = worker[e]
<1> DEFINE d == worker[w]
<1>1. d \in Rounds /\ worker \in [Workers -> Rounds]
  BY DEF RecordInv, TypeOK
<1>2. ASSUME NEW x, x.pc \notin Answered, worker' = [worker EXCEPT ![w] = x]
      PROVE  worker'[w].pc \notin Answered /\ \A e \in Workers \ {w} : worker'[e] = worker[e]
  BY <1>1, <1>2
<1>3. ASSUME NEW s, NEW p, p \in {"asleep", "scan", "loop"}
      PROVE  AtStage(s, p).pc \notin Answered
  BY <1>3 DEF AtStage, Answered
<1>4. ASSUME NEW s, Scan(w, s)
      PROVE  worker'[w].pc \notin Answered /\ \A e \in Workers \ {w} : worker'[e] = worker[e]
  <2> DEFINE x == [AtStage(s, "loop") EXCEPT !.batch = Candidates[s],
                     !.seen = [t \in Tasks |-> IF s = "resend" /\ t \in Candidates[s]
                                                 THEN status[t] ELSE "ABSENT"]]
  <2>1. worker' = [worker EXCEPT ![w] = x]
    BY <1>4 DEF Scan, Step
  <2>2. x.pc \notin Answered
    BY DEF AtStage, Answered
  <2> HIDE DEF x
  <2> QED
    BY <1>2, <2>1, <2>2
<1>5. ASSUME NEW t \in Tasks, d.pc = "loop", Pass(w, t)
      PROVE  worker'[w].pc \notin Answered /\ \A e \in Workers \ {w} : worker'[e] = worker[e]
  <2> DEFINE x == [d EXCEPT !.batch = @ \ {t}, !.seen[t] = "ABSENT"]
  <2>1. worker' = [worker EXCEPT ![w] = x]
    BY <1>5 DEF Pass, Step
  <2>2. x.pc \notin Answered
    BY <1>1, <1>5 DEF Rounds, Answered
  <2> HIDE DEF x
  <2> QED
    BY <1>2, <2>1, <2>2
<1>6. ASSUME NEW t \in Tasks, NEW h, NEW p \in {"deliver", "tell", "fetch"}, Take(w, t, p, h)
      PROVE  worker'[w].pc \notin Answered /\ \A e \in Workers \ {w} : worker'[e] = worker[e]
  <2> DEFINE x == [d EXCEPT !.pc = p, !.task = t, !.has = h, !.batch = @ \ {t}, !.seen[t] = "ABSENT"]
  <2>1. worker' = [worker EXCEPT ![w] = x]
    BY <1>6 DEF Take, Step
  <2>2. x.pc \notin Answered
    BY <1>1 DEF Rounds, Answered
  <2> HIDE DEF x
  <2> QED
    BY <1>2, <2>1, <2>2
<1>7. ASSUME Resume(w)
      PROVE  worker'[w].pc \notin Answered /\ \A e \in Workers \ {w} : worker'[e] = worker[e]
  BY <1>7, ResumeRound DEF Answered
<1>8. ASSUME NEW p \in {"told", "alarm", "forward", "mark", "release"}, NEW h,
             \/ worker' = [worker EXCEPT ![w] = [d EXCEPT !.pc = p]]
             \/ worker' = [worker EXCEPT ![w] = [d EXCEPT !.pc = p, !.has = h]]
             \/ worker' = [worker EXCEPT ![w] = [d EXCEPT !.has = h, !.pc = p]]
      PROVE  worker'[w].pc \notin Answered /\ \A e \in Workers \ {w} : worker'[e] = worker[e]
  <2> DEFINE x == [d EXCEPT !.pc = p]
             y == [d EXCEPT !.pc = p, !.has = h]
             z == [d EXCEPT !.has = h, !.pc = p]
  <2>1. worker' = [worker EXCEPT ![w] = x] \/ worker' = [worker EXCEPT ![w] = y]
        \/ worker' = [worker EXCEPT ![w] = z]
    BY <1>8
  <2>2. x.pc \notin Answered /\ y.pc \notin Answered /\ z.pc \notin Answered
    BY <1>1 DEF Rounds, Answered
  <2> HIDE DEF x, y, z
  <2> QED
    BY <1>2, <2>1, <2>2
<1>9. CASE Reclaim(w)
  BY <1>2, <1>3, <1>9 DEF Reclaim, Step
<1>10. CASE EndRound(w) \/ Crash(w)
  BY <1>2, <1>3, <1>10 DEF EndRound, Crash, Step, Asleep
<1>11. CASE StartRound(w) \/ NextScan(w)
  BY <1>4, <1>11 DEF StartRound, NextScan
<1>12. ASSUME NEW t \in Tasks, Alert(w, t) \/ ClaimLost(w, t) \/ ReportLost(w, t) \/ ResultLost(w, t)
       PROVE  worker'[w].pc \notin Answered /\ \A e \in Workers \ {w} : worker'[e] = worker[e]
  BY <1>5, <1>12 DEF Alert, ClaimLost, ReportLost, ResultLost, InLoop
<1>13. ASSUME NEW t \in Tasks, Claim(w, t) \/ ClaimReport(w, t) \/ ClaimResult(w, t)
       PROVE  worker'[w].pc \notin Answered /\ \A e \in Workers \ {w} : worker'[e] = worker[e]
  BY <1>6, <1>13 DEF Claim, ClaimReport, ClaimResult
<1>14. CASE Reporting(w)
  <2>1. ASSUME NEW arrives \in BOOLEAN, NEW ok \in BOOLEAN, Tell(w, arrives, ok)
        PROVE  worker'[w].pc \notin Answered /\ \A e \in Workers \ {w} : worker'[e] = worker[e]
    BY <1>7, <1>8, <2>1 DEF Tell, Step
  <2>2. CASE MarkReported(w)
    BY <1>7, <2>2 DEF MarkReported
  <2> QED
    BY <1>12, <1>13, <1>14, <2>1, <2>2 DEF Reporting
<1>15. CASE Collection(w)
  <2>1. ASSUME NEW ok \in BOOLEAN, Fetch(w, ok)
        PROVE  worker'[w].pc \notin Answered /\ \A e \in Workers \ {w} : worker'[e] = worker[e]
    BY <1>8, <2>1 DEF Fetch, Step
  <2>2. ASSUME NEW ok \in BOOLEAN, Alarm(w, ok)
        PROVE  worker'[w].pc \notin Answered /\ \A e \in Workers \ {w} : worker'[e] = worker[e]
    BY <1>8, <2>2 DEF Alarm, Step
  <2>3. ASSUME NEW arrives \in BOOLEAN, NEW ok \in BOOLEAN, Forward(w, arrives, ok)
        PROVE  worker'[w].pc \notin Answered /\ \A e \in Workers \ {w} : worker'[e] = worker[e]
    BY <1>8, <2>3 DEF Forward, Step
  <2>4. CASE ReleaseResult(w) \/ MarkCollected(w)
    BY <1>7, <2>4 DEF ReleaseResult, MarkCollected
  <2> QED
    BY <1>12, <1>13, <1>15, <2>1, <2>2, <2>3, <2>4 DEF Collection
<1> QED
  BY <1>9, <1>10, <1>11, <1>12, <1>13, <1>14, <1>15

LEMMA QuietCounts ==
  ASSUME RecordInv, AttemptInv, NEW w \in Workers,
         \/ Reclaim(w) \/ StartRound(w) \/ NextScan(w) \/ EndRound(w) \/ Crash(w)
         \/ Reporting(w) \/ Collection(w)
         \/ \E t \in Tasks : Alert(w, t) \/ Claim(w, t) \/ ClaimLost(w, t)
  PROVE  AttemptInv'
<1>1. UNCHANGED <<attempts, tries>>
  BY DEF Reclaim, StartRound, NextScan, Scan, EndRound, Crash, Reporting, Collection, Alert, Claim,
         ClaimLost, ClaimReport, ReportLost, Tell, MarkReported, ClaimResult, ResultLost, Fetch,
         Alarm, Forward, ReleaseResult, MarkCollected, delivery, outside
<1>2. \A t \in Tasks : status'[t] = "FAILED" => status[t] = "FAILED"
  <2>1. CASE Reclaim(w)
    BY <2>1 DEF Reclaim
  <2>2. ASSUME NEW q \in Tasks, Claim(w, q)
        PROVE  \A t \in Tasks : status'[t] = "FAILED" => status[t] = "FAILED"
    BY <2>2 DEF Claim, RecordInv, TypeOK
  <2>3. CASE status' = status
    BY <2>3
  <2>4. Reclaim(w) \/ (\E q \in Tasks : Claim(w, q)) \/ status' = status
    BY DEF StartRound, NextScan, Scan, EndRound, Crash, Reporting, Collection, Alert,
           ClaimLost, ClaimReport, ReportLost, Tell, MarkReported, ClaimResult, ResultLost, Fetch,
           Alarm, Forward, ReleaseResult, MarkCollected, delivery
  <2> QED
    BY <2>1, <2>2, <2>3, <2>4
<1>3. \A e \in Workers : worker'[e].pc \in Answered => worker'[e] = worker[e]
  BY LeavingPoint
<1> QED
  BY <1>1, <1>2, <1>3, LeavingKeeps

LEMMA AttemptInvStep == RecordInv /\ AttemptInv /\ [Next]_vars => AttemptInv'
<1> SUFFICES ASSUME RecordInv, AttemptInv, [Next]_vars
             PROVE  AttemptInv'
  OBVIOUS
<1>1. CASE UNCHANGED vars
  BY <1>1, LeavingKeeps DEF vars, delivery, outside
<1>2. ASSUME NEW t \in Tasks,
             \/ Enqueue(t) \/ ClaimExpires(t) \/ ReportClaimExpires(t) \/ ResultClaimExpires(t)
             \/ BackoffEnds(t) \/ DeadlinePasses(t) \/ Ages(t)
             \/ \E f \in Files : WedapWrites(t, f)
      PROVE  AttemptInv'
  <2>1. UNCHANGED <<attempts, tries, worker>>
    BY <1>2 DEF Enqueue, ClaimExpires, ReportClaimExpires, ResultClaimExpires, BackoffEnds,
                DeadlinePasses, Ages, WedapWrites, delivery, outside
  <2>2. status' = status \/ status' = [status EXCEPT ![t] = "PENDING"]
    BY <1>2 DEF Enqueue, ClaimExpires, ReportClaimExpires, ResultClaimExpires, BackoffEnds,
                DeadlinePasses, Ages, WedapWrites, delivery
  <2>3. \A q \in Tasks : status'[q] = "FAILED" => status[q] = "FAILED"
    BY <2>2 DEF RecordInv, TypeOK
  <2> QED
    BY <2>1, <2>3, LeavingKeeps
<1>3. ASSUME NEW w \in Workers, Round(w) \/ Crash(w)
      PROVE  AttemptInv'
  BY <1>3, QuietCounts, DeliverCounts, ReadRowCounts, UpdateCounts DEF Round, Dispatching
<1> QED
  BY <1>1, <1>2, <1>3 DEF Next

\* However many attempts the overlapping updates lose: no task is given up
\* before MaxAttempts deliveries of it were tried.
THEOREM NoTaskIsGivenUpEarly == Spec => []FailedIsEarned
<1>1. RecordInv /\ AttemptInv => FailedIsEarned
  BY DEF AttemptInv
<1> QED
  BY <1>1, RecordInvInit, RecordInvStep, AttemptInvInit, AttemptInvStep, PTL DEF Spec
=============================================================================
