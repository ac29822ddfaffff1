--------------------------- MODULE WedapDelivery ---------------------------
(***************************************************************************)
(* Delivery of import batches to wedap (services/wedap_delivery.py) and    *)
(* its workers (workers/wedap_delivery_dispatcher.py).  A round of a       *)
(* worker goes through five stages: it delivers the queued tasks, reports  *)
(* to recon those that ended and are unreported, collects the result files *)
(* wedap has written, and raises two kinds of alerts.  Each stage reads    *)
(* its candidates without a lock and then claims them one by one.          *)
(*                                                                         *)
(* Time is represented by what it decides: which claims are older than     *)
(* their timeout, which tasks wait for a retry, which deadlines and which  *)
(* ages have passed.  The token of a result claim is represented by the    *)
(* worker that drew it, because a worker holds one such claim at a time.   *)
(***************************************************************************)
EXTENDS Naturals, FiniteSets

CONSTANTS Tasks,        \* wedap_import_delivery_task rows
          Workers,      \* processes running the worker
          MaxAttempts,  \* wedap_delivery_max_attempts
          Files,        \* the kinds of result file wedap writes
          ImportStatus, \* the importStatus of each kind
          BadLines,     \* the kinds of lines it lists that are not INGESTED
          Ageing,       \* tasks that may grow older than pending_max_age
          NoOne         \* the null task and the null token

ASSUME AttemptsAssumption == MaxAttempts \in Nat \ {0}
ASSUME WorkersAssumption == IsFiniteSet(Workers)
ASSUME AgeingAssumption == Ageing \subseteq Tasks
ASSUME NoOneAssumption == NoOne \notin Tasks \union Workers

VARIABLES
  status,    \* the task's status, "ABSENT" when there is no row
  attempts,  \* attempts
  lock,      \* locked_at: the claim of a delivery
  waiting,   \* tasks whose next_retry_at lies ahead
  deadline,  \* result_deadline_at
  reported,  \* tasks with a callback_sent_at
  reporting, \* callback_locked_at: the claim of a repeated report
  collected, \* tasks with a result_collected_at
  fetching,  \* result_locked_at: the claim of a result
  token,     \* result_lock_token
  alerts,    \* wedap_delivery_alert
  aged,      \* tasks older than pending_max_age
  worker,    \* the rounds of the workers
  taken,     \* batches wedap has accepted (external)
  file,      \* the result file wedap has written (external)
  heard,     \* what recon was last told of a task (external)
  lines,     \* the lines of a result recon has taken (external)
  tries,     \* deliveries tried, counted up to MaxAttempts
  outlived   \* tasks with a delivery that took longer than its claim lasts

delivery == <<status, attempts, lock, waiting, deadline>>
report == <<reported, reporting>>
result == <<collected, fetching, token>>
outside == <<taken, file, heard, lines, tries, outlived>>
vars == <<delivery, report, result, alerts, aged, worker, outside>>

Locks == {"free", "held", "stale"}
Ended == {"DELIVERED", "FAILED"}

\* parse_result takes importStatus as it comes: missing or not in the contract,
\* it is accepted like the others.
ImportStatuses == {"SUCCESS", "PARTIAL", "FAILED", "UNKNOWN"}

\* recon takes a line with an integer lineNo and one of four lineStatus; any
\* other line is illegible to it.
LineKinds == {"recordable", "illegible"}

ASSUME FilesAssumption ==
  /\ ImportStatus \in [Files -> ImportStatuses] /\ BadLines \in [Files -> SUBSET LineKinds]
  /\ "none" \notin Files

\* Only this importStatus raises an alert.
BatchFailed(f) == ImportStatus[f] = "FAILED"

\* Of the lines listed: those that recon is told.
Recordable(f) == BadLines[f] \ {"illegible"}

\* What a delivery ends in: wedap's acceptance (ACCEPTED, DUPLICATE_BATCH) at
\* a 2xx, the same words at another HTTP status, one of its rejections, or an
\* error of the staging store, the upload or the call.
Answers == {"accepted", "untrusted", "rejected", "error"}

\* Wrong on purpose: any answer in wedap's vocabulary is a success.
TakenAsAcceptedByWord(answer) == answer # "error"

\* notify_batch_uploaded and deliver_task: what counts as accepted.
TakenAsAccepted(answer) == answer = "accepted"

-----------------------------------------------------------------------------
(* The rounds.  batch: the candidates of the stage still to come; seen:    *)
(* the statuses they had; task: the claimed one; has: the answer, word or  *)
(* result the worker carries; read: the row as dispatch_delivery_once      *)
(* reads it before it writes it.                                           *)

Stages == {"dispatch", "resend", "collect", "stuck", "overdue"}

NextStage == [dispatch |-> "resend", resend |-> "collect", collect |-> "stuck",
              stuck |-> "overdue"]

NoRead == [status |-> "ABSENT", attempts |-> 0, locked |-> FALSE]

AtStage(s, point) ==
  [stage |-> s, pc |-> point, batch |-> {}, seen |-> [t \in Tasks |-> "ABSENT"],
   task |-> NoOne, has |-> "nothing", read |-> NoRead]

\* Between two rounds.
Asleep == AtStage("dispatch", "asleep")

Init ==
  /\ status = [t \in Tasks |-> "ABSENT"]
  /\ attempts = [t \in Tasks |-> 0]
  /\ lock = [t \in Tasks |-> "free"]
  /\ waiting = {}
  /\ deadline = [t \in Tasks |-> "unset"]
  /\ reported = {}
  /\ reporting = [t \in Tasks |-> "free"]
  /\ collected = {}
  /\ fetching = [t \in Tasks |-> "free"]
  /\ token = [t \in Tasks |-> NoOne]
  /\ alerts = {} /\ aged = {}
  /\ worker = [w \in Workers |-> Asleep]
  /\ taken = {}
  /\ file = [t \in Tasks |-> "none"]
  /\ heard = [t \in Tasks |-> "nothing"]
  /\ lines = [t \in Tasks |-> {}]
  /\ tries = [t \in Tasks |-> 0]
  /\ outlived = {}

Step(w, changed) == worker' = [worker EXCEPT ![w] = changed]

\* Worker w goes on with the next candidate of its stage.
Resume(w) ==
  Step(w, [AtStage(worker[w].stage, "loop") EXCEPT
             !.batch = worker[w].batch, !.seen = worker[w].seen])

\* Worker w has claimed candidate t and carries x to the next point.
Take(w, t, point, x) ==
  Step(w, [worker[w] EXCEPT !.pc = point, !.task = t, !.has = x,
                            !.batch = @ \ {t}, !.seen[t] = "ABSENT"])

Pass(w, t) ==
  Step(w, [worker[w] EXCEPT !.batch = @ \ {t}, !.seen[t] = "ABSENT"])

At(w, point) == worker[w].pc = point

InLoop(w, s, t) ==
  worker[w].stage = s /\ worker[w].pc = "loop" /\ t \in worker[w].batch

\* enqueue_delivery; a repeated request finds the row and changes nothing.
Enqueue(t) ==
  /\ status[t] = "ABSENT"
  /\ status' = [status EXCEPT ![t] = "PENDING"]
  /\ UNCHANGED <<attempts, lock, waiting, deadline, report, result, alerts, aged,
                 worker, outside>>

\* Wrong on purpose: the age of a claim is not looked at.
ReclaimFresh(w) ==
  LET lost == {t \in Tasks : status[t] = "SENDING"} IN
  /\ At(w, "asleep")
  /\ status' = [t \in Tasks |-> IF t \in lost THEN "PENDING" ELSE status[t]]
  /\ lock' = [t \in Tasks |-> IF t \in lost THEN "free" ELSE lock[t]]
  /\ Step(w, AtStage("dispatch", "scan"))
  /\ UNCHANGED <<attempts, waiting, deadline, report, result, alerts, aged, outside>>

\* _reclaim_stale_sending, with which a round begins.
Reclaim(w) ==
  LET lost == {t \in Tasks : status[t] = "SENDING" /\ lock[t] = "stale"} IN
  /\ At(w, "asleep")
  /\ status' = [t \in Tasks |-> IF t \in lost THEN "PENDING" ELSE status[t]]
  /\ lock' = [t \in Tasks |-> IF t \in lost THEN "free" ELSE lock[t]]
  /\ Step(w, AtStage("dispatch", "scan"))
  /\ UNCHANGED <<attempts, waiting, deadline, report, result, alerts, aged, outside>>

Queued == {t \in Tasks : status[t] = "PENDING"} \ waiting

\* Wrong on purpose: a failure is not reported again.
UnreportedDelivered == {t \in Tasks : status[t] = "DELIVERED"} \ reported

\* Wrong on purpose: a task is reported before it has ended.
UnreportedAny == {t \in Tasks : status[t] # "ABSENT"} \ reported

Unreported == {t \in Tasks : status[t] \in Ended} \ reported

Uncollected == {t \in Tasks : status[t] = "DELIVERED"} \ collected

Stuck == {t \in aged : status[t] \in {"PENDING", "SENDING"}}

\* Wrong on purpose: the wrong column tells that a result has been collected.
OverdueUnreported == {t \in Tasks : status[t] = "DELIVERED" /\ deadline[t] = "passed"} \ reported

Overdue == {t \in Uncollected : deadline[t] = "passed"}

\* What each stage selects.
Candidates ==
  [dispatch |-> Queued,
   resend |-> {t \in Unreported : reporting[t] # "held"},
   collect |-> {t \in Uncollected : fetching[t] # "held"},
   stuck |-> Stuck,
   overdue |-> Overdue]

\* Worker w enters stage s.
Scan(w, s) ==
  /\ Step(w, [AtStage(s, "loop") EXCEPT
        !.batch = Candidates[s],
        !.seen = [t \in Tasks |-> IF s = "resend" /\ t \in Candidates[s]
                                    THEN status[t] ELSE "ABSENT"]])
  /\ UNCHANGED <<delivery, report, result, alerts, aged, outside>>

StartRound(w) == At(w, "scan") /\ Scan(w, "dispatch")

NextScan(w) ==
  /\ At(w, "loop") /\ worker[w].batch = {} /\ worker[w].stage # "overdue"
  /\ Scan(w, NextStage[worker[w].stage])

EndRound(w) ==
  /\ At(w, "loop") /\ worker[w].batch = {} /\ worker[w].stage = "overdue"
  /\ Step(w, Asleep)
  /\ UNCHANGED <<delivery, report, result, alerts, aged, outside>>

\* The process dies, or a database error ends the round and the supervisor
\* starts the worker again.
Crash(w) ==
  /\ ~At(w, "asleep")
  /\ Step(w, Asleep)
  /\ UNCHANGED <<delivery, report, result, alerts, aged, outside>>

-----------------------------------------------------------------------------
(* dispatch_delivery_once                                                  *)

\* Wrong on purpose: the claim does not look at the row again.
ClaimBlindly(w, t) ==
  /\ InLoop(w, "dispatch", t) /\ status[t] # "ABSENT"
  /\ status' = [status EXCEPT ![t] = "SENDING"]
  /\ lock' = [lock EXCEPT ![t] = "held"]
  /\ Take(w, t, "deliver", "nothing")
  /\ UNCHANGED <<attempts, waiting, deadline, report, result, alerts, aged, outside>>

\* _claim: the back-off is not looked at again.
Claim(w, t) ==
  /\ InLoop(w, "dispatch", t) /\ status[t] = "PENDING"
  /\ status' = [status EXCEPT ![t] = "SENDING"]
  /\ lock' = [lock EXCEPT ![t] = "held"]
  /\ Take(w, t, "deliver", "nothing")
  /\ UNCHANGED <<attempts, waiting, deadline, report, result, alerts, aged, outside>>

ClaimLost(w, t) ==
  /\ InLoop(w, "dispatch", t) /\ status[t] # "PENDING"
  /\ Pass(w, t)
  /\ UNCHANGED <<delivery, report, result, alerts, aged, outside>>

\* deliver_task: wedap may take the batch although no answer arrives; taken
\* before, it answers DUPLICATE_BATCH.
Deliver(w, accepts, answer) ==
  LET t == worker[w].task IN
  /\ At(w, "deliver")
  /\ accepts \/ t \in taken \/ answer # "accepted"
  /\ taken' = IF accepts THEN taken \union {t} ELSE taken
  /\ tries' = [tries EXCEPT ![t] = IF @ < MaxAttempts THEN @ + 1 ELSE @]
  /\ Step(w, [worker[w] EXCEPT !.pc = "answered",
                !.has = IF TakenAsAccepted(answer) THEN "DELIVERED" ELSE "error"])
  /\ UNCHANGED <<delivery, report, result, alerts, aged, file, heard, lines, outlived>>

\* The row is read again, without a lock and without asking who holds it.
ReadRow(w) ==
  LET t == worker[w].task IN
  /\ At(w, "answered")
  /\ Step(w, [worker[w] EXCEPT !.pc = "update",
       !.read = [status |-> status[t], attempts |-> attempts[t], locked |-> lock[t] # "free"]])
  /\ UNCHANGED <<delivery, report, result, alerts, aged, outside>>

\* Wrong on purpose: one attempt too few.
VerdictEarly(w) ==
  IF worker[w].has = "DELIVERED" THEN "DELIVERED"
  ELSE IF worker[w].read.attempts + 2 >= MaxAttempts THEN "FAILED" ELSE "PENDING"

\* The status a delivery leads to.
Verdict(w) ==
  IF worker[w].has = "DELIVERED" THEN "DELIVERED"
  ELSE IF worker[w].read.attempts + 1 >= MaxAttempts THEN "FAILED" ELSE "PENDING"

\* The row is written by primary key: the columns that differ from what was read.
Update(w) ==
  LET t == worker[w].task  read == worker[w].read  verdict == Verdict(w) IN
  /\ At(w, "update")
  /\ attempts' = [attempts EXCEPT ![t] = read.attempts + 1]
  /\ lock' = [lock EXCEPT ![t] = IF read.locked THEN "free" ELSE @]
  /\ status' = [status EXCEPT ![t] = IF verdict # read.status THEN verdict ELSE @]
  /\ waiting' = IF verdict = "PENDING" THEN waiting \union {t} ELSE waiting
  /\ deadline' = [deadline EXCEPT ![t] = IF verdict = "DELIVERED" THEN "ahead" ELSE @]
  /\ IF verdict \in Ended
       THEN Step(w, [worker[w] EXCEPT !.pc = "tell", !.has = verdict, !.read = NoRead])
       ELSE Resume(w)
  /\ UNCHANGED <<report, result, alerts, aged, outside>>

-----------------------------------------------------------------------------
(* on_terminal, called by the dispatch stage and by the resend stage       *)

\* _claim_callback; recon is told the status of the scan.
ClaimReport(w, t) ==
  /\ InLoop(w, "resend", t) /\ t \notin reported /\ reporting[t] # "held"
  /\ reporting' = [reporting EXCEPT ![t] = "held"]
  /\ Take(w, t, "tell", worker[w].seen[t])
  /\ UNCHANGED <<delivery, reported, result, alerts, aged, outside>>

ReportLost(w, t) ==
  /\ InLoop(w, "resend", t) /\ (t \in reported \/ reporting[t] = "held")
  /\ Pass(w, t)
  /\ UNCHANGED <<delivery, report, result, alerts, aged, outside>>

\* Wrong on purpose: a report counts as sent before recon has taken it.
TellFirstMark(w, arrives, ok) ==
  /\ At(w, "tell")
  /\ ok => arrives
  /\ heard' = IF arrives THEN [heard EXCEPT ![worker[w].task] = worker[w].has] ELSE heard
  /\ Step(w, [worker[w] EXCEPT !.pc = "told"])
  /\ UNCHANGED <<delivery, report, result, alerts, aged, taken, file, lines, tries,
                 outlived>>

\* post_result: recon may have heard although the call fails; a failed call
\* leaves the claim to its timeout.
Tell(w, arrives, ok) ==
  /\ At(w, "tell")
  /\ ok => arrives
  /\ heard' = IF arrives THEN [heard EXCEPT ![worker[w].task] = worker[w].has] ELSE heard
  /\ IF ok THEN Step(w, [worker[w] EXCEPT !.pc = "told"]) ELSE Resume(w)
  /\ UNCHANGED <<delivery, report, result, alerts, aged, taken, file, lines, tries,
                 outlived>>

\* mark_callback_sent: whoever holds the claim, whatever the status is now.
MarkReported(w) ==
  LET t == worker[w].task IN
  /\ At(w, "told")
  /\ reported' = reported \union {t}
  /\ reporting' = [reporting EXCEPT ![t] = "free"]
  /\ Resume(w)
  /\ UNCHANGED <<delivery, result, alerts, aged, outside>>

-----------------------------------------------------------------------------
(* collect_results_once                                                    *)

\* _claim_result
ClaimResult(w, t) ==
  /\ InLoop(w, "collect", t) /\ t \notin collected /\ fetching[t] # "held"
  /\ fetching' = [fetching EXCEPT ![t] = "held"]
  /\ token' = [token EXCEPT ![t] = w]
  /\ Take(w, t, "fetch", "nothing")
  /\ UNCHANGED <<delivery, report, collected, alerts, aged, outside>>

ResultLost(w, t) ==
  /\ InLoop(w, "collect", t) /\ (t \in collected \/ fetching[t] = "held")
  /\ Pass(w, t)
  /\ UNCHANGED <<delivery, report, result, alerts, aged, outside>>

\* fetch and parse_result: the file, none yet, or an error of the call or of a
\* file that cannot be parsed.
Fetch(w, ok) ==
  LET f == file[worker[w].task] IN
  /\ At(w, "fetch")
  /\ IF ok /\ f # "none"
       THEN Step(w, [worker[w] EXCEPT !.has = f,
                       !.pc = IF BatchFailed(f) THEN "alarm" ELSE "forward"])
       ELSE Step(w, [worker[w] EXCEPT !.pc = "release"])
  /\ UNCHANGED <<delivery, report, result, alerts, aged, outside>>

\* _record_delivery_alert, which may fail.
Alarm(w, ok) ==
  /\ At(w, "alarm")
  /\ alerts' = IF ok THEN alerts \union {<<worker[w].task, "IMPORT_FAILED">>} ELSE alerts
  /\ Step(w, [worker[w] EXCEPT !.pc = IF ok THEN "forward" ELSE "release"])
  /\ UNCHANGED <<delivery, report, result, aged, outside>>

\* Wrong on purpose: a failed post does not keep the result from being marked.
ForwardAnyway(w, arrives, ok) ==
  LET t == worker[w].task  told == Recordable(worker[w].has) IN
  /\ At(w, "forward")
  /\ ok => arrives
  /\ lines' = IF arrives THEN [lines EXCEPT ![t] = @ \union told] ELSE lines
  /\ Step(w, [worker[w] EXCEPT !.pc = "mark"])
  /\ UNCHANGED <<delivery, report, result, alerts, aged, taken, file, heard, tries,
                 outlived>>

\* post_line_results with the recordable lines; the others are dropped with a
\* warning.  When none is left recon is not called, and the result counts as
\* forwarded.
Forward(w, arrives, ok) ==
  LET t == worker[w].task  told == Recordable(worker[w].has) IN
  /\ At(w, "forward")
  /\ ok => arrives
  /\ lines' = IF arrives THEN [lines EXCEPT ![t] = @ \union told] ELSE lines
  /\ Step(w, [worker[w] EXCEPT !.pc = IF told = {} \/ ok THEN "mark" ELSE "release"])
  /\ UNCHANGED <<delivery, report, result, alerts, aged, taken, file, heard, tries,
                 outlived>>

\* Wrong on purpose: the claim of another worker is released, or used.
HoldsResultAnyway(w) == worker[w].task \notin collected

\* The condition on the token.
HoldsResult(w) == token[worker[w].task] = w /\ worker[w].task \notin collected

\* _release_result_lock
ReleaseResult(w) ==
  LET t == worker[w].task IN
  /\ At(w, "release")
  /\ fetching' = IF HoldsResult(w) THEN [fetching EXCEPT ![t] = "free"] ELSE fetching
  /\ token' = IF HoldsResult(w) THEN [token EXCEPT ![t] = NoOne] ELSE token
  /\ Resume(w)
  /\ UNCHANGED <<delivery, report, collected, alerts, aged, outside>>

\* mark_result_collected
MarkCollected(w) ==
  LET t == worker[w].task IN
  /\ At(w, "mark")
  /\ collected' = IF HoldsResult(w) THEN collected \union {t} ELSE collected
  /\ fetching' = IF HoldsResult(w) THEN [fetching EXCEPT ![t] = "free"] ELSE fetching
  /\ token' = IF HoldsResult(w) THEN [token EXCEPT ![t] = NoOne] ELSE token
  /\ Resume(w)
  /\ UNCHANGED <<delivery, report, alerts, aged, outside>>

-----------------------------------------------------------------------------
(* alert_stuck_deliveries                                                  *)

AlertKind == [stuck |-> "PENDING_STUCK", overdue |-> "RESULT_OVERDUE"]

\* A second alert of the same kind for a batch changes nothing.
Alert(w, t) ==
  /\ worker[w].stage \in DOMAIN AlertKind /\ InLoop(w, worker[w].stage, t)
  /\ alerts' = alerts \union {<<t, AlertKind[worker[w].stage]>>}
  /\ Pass(w, t)
  /\ UNCHANGED <<delivery, report, result, aged, outside>>

-----------------------------------------------------------------------------
(* Time and wedap.                                                         *)

Delivering(w, t) ==
  worker[w].task = t /\ worker[w].pc \in {"deliver", "answered", "update"}

\* Claims grow older than 300 s.  The calls of a delivery end within their
\* timeouts, but a claim bears the time at which the round began, so that a
\* worker with many tasks may outlive it.
ClaimExpires(t) ==
  /\ lock[t] = "held"
  /\ lock' = [lock EXCEPT ![t] = "stale"]
  /\ outlived' = IF \E w \in Workers : Delivering(w, t) THEN outlived \union {t} ELSE outlived
  /\ UNCHANGED <<status, attempts, waiting, deadline, report, result, alerts, aged,
                 worker, taken, file, heard, lines, tries>>

ReportClaimExpires(t) ==
  /\ reporting[t] = "held"
  /\ reporting' = [reporting EXCEPT ![t] = "stale"]
  /\ UNCHANGED <<delivery, reported, result, alerts, aged, worker, outside>>

ResultClaimExpires(t) ==
  /\ fetching[t] = "held"
  /\ fetching' = [fetching EXCEPT ![t] = "stale"]
  /\ UNCHANGED <<delivery, report, collected, token, alerts, aged, worker, outside>>

BackoffEnds(t) ==
  /\ t \in waiting
  /\ waiting' = waiting \ {t}
  /\ UNCHANGED <<status, attempts, lock, deadline, report, result, alerts, aged,
                 worker, outside>>

\* compute_result_deadline: 24 h and a quarter after wedap's acceptance.
DeadlinePasses(t) ==
  /\ deadline[t] = "ahead"
  /\ deadline' = [deadline EXCEPT ![t] = "passed"]
  /\ UNCHANGED <<status, attempts, lock, waiting, report, result, alerts, aged,
                 worker, outside>>

Ages(t) ==
  /\ status[t] # "ABSENT" /\ t \in Ageing \ aged
  /\ aged' = aged \union {t}
  /\ UNCHANGED <<delivery, report, result, alerts, worker, outside>>

\* wedap writes the result file of a batch it has taken.
WedapWrites(t, f) ==
  /\ t \in taken /\ file[t] = "none"
  /\ file' = [file EXCEPT ![t] = f]
  /\ UNCHANGED <<delivery, report, result, alerts, aged, worker, taken, heard, lines, tries,
                 outlived>>

-----------------------------------------------------------------------------
Dispatching(w) ==
  \/ \E t \in Tasks : Claim(w, t) \/ ClaimLost(w, t)
  \/ \E accepts \in BOOLEAN, answer \in Answers : Deliver(w, accepts, answer)
  \/ ReadRow(w) \/ Update(w)

Reporting(w) ==
  \/ \E t \in Tasks : ClaimReport(w, t) \/ ReportLost(w, t)
  \/ \E arrives, ok \in BOOLEAN : Tell(w, arrives, ok)
  \/ MarkReported(w)

Collection(w) ==
  \/ \E t \in Tasks : ClaimResult(w, t) \/ ResultLost(w, t)
  \/ \E ok \in BOOLEAN : Fetch(w, ok) \/ Alarm(w, ok)
  \/ \E arrives, ok \in BOOLEAN : Forward(w, arrives, ok)
  \/ ReleaseResult(w) \/ MarkCollected(w)

\* Everything a worker does, short of dying.
Round(w) ==
  \/ Reclaim(w) \/ StartRound(w) \/ NextScan(w) \/ EndRound(w)
  \/ Dispatching(w) \/ Reporting(w) \/ Collection(w)
  \/ \E t \in Tasks : Alert(w, t)

Next ==
  \/ \E t \in Tasks :
       \/ Enqueue(t) \/ ClaimExpires(t) \/ ReportClaimExpires(t) \/ ResultClaimExpires(t)
       \/ BackoffEnds(t) \/ DeadlinePasses(t) \/ Ages(t)
       \/ \E f \in Files : WedapWrites(t, f)
  \/ \E w \in Workers : Round(w) \/ Crash(w)

Spec == Init /\ [][Next]_vars

-----------------------------------------------------------------------------
(* Properties.                                                             *)

Kinds == {"PENDING_STUCK", "RESULT_OVERDUE", "IMPORT_FAILED"}
Statuses == {"ABSENT", "PENDING", "SENDING"} \union Ended

Rounds ==
  [stage : Stages,
   pc : {"asleep", "scan", "loop", "deliver", "answered", "update", "tell", "told",
         "fetch", "alarm", "forward", "mark", "release"},
   batch : SUBSET Tasks, seen : [Tasks -> Statuses], task : Tasks \union {NoOne},
   has : {"nothing", "error"} \union Ended \union Files,
   read : [status : Statuses, attempts : Nat, locked : BOOLEAN]]

\* Every column and every round holds what it can hold.
TypeOK ==
  /\ status \in [Tasks -> Statuses]
  /\ attempts \in [Tasks -> Nat]
  /\ lock \in [Tasks -> Locks]
  /\ waiting \subseteq Tasks
  /\ deadline \in [Tasks -> {"unset", "ahead", "passed"}]
  /\ reported \subseteq Tasks
  /\ reporting \in [Tasks -> Locks]
  /\ collected \subseteq Tasks
  /\ fetching \in [Tasks -> Locks]
  /\ token \in [Tasks -> Workers \union {NoOne}]
  /\ alerts \subseteq Tasks \X Kinds
  /\ aged \subseteq Tasks
  /\ worker \in [Workers -> Rounds]
  /\ taken \subseteq Tasks
  /\ file \in [Tasks -> Files \union {"none"}]
  /\ heard \in [Tasks -> Ended \union {"nothing"}]
  /\ lines \in [Tasks -> SUBSET LineKinds]
  /\ tries \in [Tasks -> 0 .. MaxAttempts]
  /\ outlived \subseteq Tasks

\* However workers stall, crash and overwrite each other's rows: a task is
\* recorded as delivered only when wedap has taken the batch, and then it has a
\* deadline, without which nobody would miss its result.
DeliveredMeansTaken ==
  \A t \in Tasks : status[t] = "DELIVERED" => t \in taken /\ deadline[t] # "unset"

\* However attempts are lost by overlapping updates: a task is given up only
\* after MaxAttempts deliveries.
FailedIsEarned == \A t \in Tasks : status[t] = "FAILED" => tries[t] = MaxAttempts

\* A result that is marked as collected, and so never looked at again, has been
\* written by wedap; recon has every line of it that it can record, and a batch
\* that failed as a whole, which may list none, has raised an alert.  Of illegible
\* lines, and of an importStatus outside the contract, nobody hears.
NothingSwallowed ==
  \A t \in collected : /\ file[t] \in Files
                       /\ Recordable(file[t]) \subseteq lines[t]
                       /\ BatchFailed(file[t]) => <<t, "IMPORT_FAILED">> \in alerts

\* A task that counts as reported, and so is never reported again, was heard of
\* by recon.
ReportedWasHeard == \A t \in reported : heard[t] # "nothing"

\* A worker that comes late, its claim of a result taken over, does not release
\* the claim of the worker that took it over.
ResultClaimIsKept ==
  [][\A t \in Tasks : fetching[t] = "held" /\ fetching'[t] = "free"
       => worker'[token[t]] # worker[token[t]]]_vars

\* While the deliveries of a task end before their claims: its end is final.
EndedStays ==
  [][\A t \in Tasks \ outlived : status[t] \in Ended => status'[t] = status[t]]_vars

\* While the deliveries of a task end before their claims: what recon was last
\* told of it, once reported, is what the row says.
ReportIsTrue == \A t \in reported \ outlived : heard[t] = status[t]

\* While the deliveries of a task end before their claims: the batch is uploaded
\* and notified by one worker at a time, however workers crash and restart.
OneDeliverer ==
  \A v, w \in Workers, t \in Tasks \ outlived :
    v # w => ~(Delivering(v, t) /\ Delivering(w, t))

-----------------------------------------------------------------------------
\* A worker goes round for ever and is restarted when it dies, which one day
\* it does no more (the end of a round has the form of a crash); recon answers
\* a report again and again.
Fairness ==
  /\ \A w \in Workers : WF_vars(Round(w))
  /\ <>[][\A w \in Workers : Crash(w) => EndRound(w)]_vars
  /\ \A t \in Tasks :
       /\ WF_vars(ClaimExpires(t)) /\ WF_vars(ReportClaimExpires(t))
       /\ WF_vars(BackoffEnds(t)) /\ WF_vars(DeadlinePasses(t))
       /\ SF_vars(\E w \in Workers : worker[w].task = t /\ Tell(w, TRUE, TRUE))

FairSpec == Spec /\ Fairness

\* A task recon has handed over ends, and recon hears of it, although its report
\* may fail and its worker may die between the two.
EveryTaskIsReported == \A t \in Tasks : status[t] = "PENDING" ~> t \in reported

\* A batch wedap has taken has its result collected or raises the alert that it
\* is overdue, although wedap may never write it.
NoResultIsForgotten ==
  \A t \in Tasks : status[t] = "DELIVERED" ~> t \in collected \/ <<t, "RESULT_OVERDUE">> \in alerts

-----------------------------------------------------------------------------
\* models/wedap_delivery.py:23: DELIVERED and FAILED are the ends of a delivery.
EndIsFinal ==
  [][\A t \in Tasks : status[t] \in Ended => status'[t] = status[t]]_vars

\* What the filter of Forward gives up: every line that was not ingested comes to
\* recon before its result is put away.
NoLineIsDropped == \A t \in collected : BadLines[file[t]] \subseteq lines[t]
=============================================================================
