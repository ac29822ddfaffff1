----------------------------- MODULE ReconFiles -----------------------------
(***************************************************************************)
(* Reconciliation results (api/v1/recon_notify.py, workers/recon_worker.py,*)
(* services/recon_ingest.py).  wedap announces the versions of a result    *)
(* file; workers claim a version, download its file, check the digest and  *)
(* land its rows, which supersedes the lower versions.  Only the claim and *)
(* the landing look at the row they write; every other status is written   *)
(* blindly, by the worker that has claimed the version.                    *)
(*                                                                         *)
(* One number of a reconciliation is enough: its versions, for several     *)
(* tenants that may use the same number.  A file is named by the version   *)
(* it was notified for; in the archive of a worker its path has the number *)
(* and the version but not the tenant.                                     *)
(***************************************************************************)
EXTENDS Naturals, Sequences

CONSTANTS Tenants,
          Tasks,    \* the versions wedap may announce: tenant and version
          Workers,  \* recon workers, each in a container of its own
          NoOne     \* no task, no file

ASSUME TasksAssumption == Tasks \subseteq Tenants \X (Nat \ {0})
ASSUME NoOneAssumption == NoOne \notin Tasks

TenantOf(t) == t[1]
VersionOf(t) == t[2]
Versions == {VersionOf(t) : t \in Tasks}

VARIABLES status,   \* recon_result_task.status, "ABSENT" when there is no row
          landed,   \* the files whose rows a task has in the three row tables
          archive,  \* the file at the path of a version in a worker's archive
          worker,   \* the rounds of the workers
          orphans   \* versions whose worker died under them

vars == <<status, landed, archive, worker, orphans>>

Ended == {"PARSED", "FAILED", "SUPERSEDED"}

Asleep == [pc |-> "asleep", batch |-> {}, task |-> NoOne, file |-> NoOne]

Init ==
  /\ status = [t \in Tasks |-> "ABSENT"]
  /\ landed = [t \in Tasks |-> <<>>]
  /\ archive = [w \in Workers |-> [v \in Versions |-> NoOne]]
  /\ worker = [w \in Workers |-> Asleep]
  /\ orphans = {}

Step(w, changes) == worker' = [worker EXCEPT ![w] = changes]
Goto(w, label) == Step(w, [worker[w] EXCEPT !.pc = label])

\* Wrong on purpose: the next task is taken with the last one still in hand.
LeaveHolding(w) == Goto(w, "round")

\* The worker is done with its task and takes the next one of its round.
Leave(w) == Step(w, [Asleep EXCEPT !.pc = "round", !.batch = worker[w].batch])

-----------------------------------------------------------------------------
\* recon_notify: the inbox row and the task in one transaction.  A repetition,
\* or another request id for the same version, violates a unique key and is
\* answered as deduplicated.  Versions may arrive in any order.
Notify(t) ==
  /\ status[t] = "ABSENT"
  /\ status' = [status EXCEPT ![t] = "NOTIFIED"]
  /\ UNCHANGED <<landed, archive, worker, orphans>>

\* ingest_pending_once begins.
Scan(w) ==
  /\ worker[w].pc = "asleep"
  /\ Step(w, [Asleep EXCEPT !.pc = "round", !.batch = {t \in Tasks : status[t] = "NOTIFIED"}])
  /\ UNCHANGED <<status, landed, archive, orphans>>

\* Wrong on purpose: the claiming update does not look at the status.
ClaimableBlindly(t) == TRUE

\* The condition of the claiming update.
Claimable(t) == status[t] = "NOTIFIED"

\* _atomic_claim.  What others have claimed meanwhile is skipped, and stays so.
Claim(w, t) ==
  /\ worker[w].pc = "round" /\ t \in worker[w].batch
  /\ Claimable(t)
  /\ status' = [status EXCEPT ![t] = "DOWNLOADING"]
  /\ Step(w, [worker[w] EXCEPT !.pc = "download", !.task = t,
                               !.batch = {u \in @ \ {t} : Claimable(u)}])
  /\ UNCHANGED <<landed, archive, orphans>>

EndRound(w) ==
  /\ worker[w].pc = "round" /\ \A t \in worker[w].batch : ~Claimable(t)
  /\ Step(w, Asleep)
  /\ UNCHANGED <<status, landed, archive, orphans>>

-----------------------------------------------------------------------------
\* Wrong on purpose: after a failed download the worker goes on.
DownloadedAnyway(ok) == "mark"

\* Wrong on purpose: a failed download is logged and not recorded.
DownloadedSilently(ok) == IF ok THEN "mark" ELSE "round"

\* Where the worker goes after the download.
Downloaded(ok) == IF ok THEN "mark" ELSE "fail"

\* download_verified: the file is written only when its digest is the notified one.
Download(w, ok) ==
  LET t == worker[w].task IN
  /\ worker[w].pc = "download"
  /\ archive' = IF ok THEN [archive EXCEPT ![w][VersionOf(t)] = t] ELSE archive
  /\ Goto(w, Downloaded(ok))
  /\ UNCHANGED <<status, landed, orphans>>

\* _set_status: the row is written whatever became of it.
MarkDownloaded(w) ==
  /\ worker[w].pc = "mark"
  /\ status' = [status EXCEPT ![worker[w].task] = "DOWNLOADED"]
  /\ Goto(w, "check")
  /\ UNCHANGED <<landed, archive, orphans>>

MarkFailed(w) ==
  /\ worker[w].pc = "fail"
  /\ status' = [status EXCEPT ![worker[w].task] = "FAILED"]
  /\ Leave(w)
  /\ UNCHANGED <<landed, archive, orphans>>

\* parse_and_land looks at the row, without a lock.
Precheck(w) ==
  /\ worker[w].pc = "check"
  /\ IF status[worker[w].task] = "DOWNLOADED" THEN Goto(w, "parse") ELSE Leave(w)
  /\ UNCHANGED <<status, landed, archive, orphans>>

\* It opens the file.  A header that has drifted is recorded in a transaction
\* of its own, any other error by the worker: both write FAILED blindly.
Parse(w) ==
  LET file == archive[w][VersionOf(worker[w].task)] IN
  /\ worker[w].pc = "parse"
  /\ \/ Goto(w, "fail")
     \/ file # NoOne /\ Step(w, [worker[w] EXCEPT !.pc = "land", !.file = file])
  /\ UNCHANGED <<status, landed, archive, orphans>>

\* Wrong on purpose: superseding reaches into other tenants.
SupersedesForAll(t, u) == VersionOf(u) < VersionOf(t) /\ status[u] # "ABSENT"

\* Whether landing t supersedes u: a lower version of the same tenant that has
\* a row.
Supersedes(t, u) ==
  TenantOf(u) = TenantOf(t) /\ VersionOf(u) < VersionOf(t) /\ status[u] # "ABSENT"

\* The one transaction that lands: the row is locked and looked at again, the
\* rows of the three sheets are inserted, lower versions superseded.
Land(w) ==
  LET t == worker[w].task IN
  /\ worker[w].pc = "land"
  /\ IF status[t] = "DOWNLOADED"
       THEN /\ landed' = [landed EXCEPT ![t] = Append(@, worker[w].file)]
            /\ status' = [u \in Tasks |->
                 CASE u = t -> "PARSED"
                   [] u # t /\ Supersedes(t, u) -> "SUPERSEDED"
                   [] OTHER -> status[u]]
       ELSE UNCHANGED <<landed, status>>
  /\ Leave(w)
  /\ UNCHANGED <<archive, orphans>>

\* A dirty amount or a database error: the transaction is rolled back, and the
\* failure is recorded after its lock is gone.
LandFails(w) ==
  /\ worker[w].pc = "land" /\ status[worker[w].task] = "DOWNLOADED"
  /\ Goto(w, "fail")
  /\ UNCHANGED <<status, landed, archive, orphans>>

\* The process dies, or a database error outside the handled ones ends the
\* round; the task it worked on keeps its status.
Crash(w) ==
  /\ worker[w].pc # "asleep"
  /\ orphans' = orphans \union ({worker[w].task} \ {NoOne})
  /\ Step(w, Asleep)
  /\ UNCHANGED <<status, landed, archive>>

Work(w) ==
  \/ Scan(w) \/ EndRound(w)
  \/ \E t \in Tasks : Claim(w, t)
  \/ \E ok \in BOOLEAN : Download(w, ok)
  \/ MarkDownloaded(w) \/ MarkFailed(w) \/ Precheck(w) \/ Parse(w)
  \/ Land(w) \/ LandFails(w)

Next ==
  \/ \E t \in Tasks : Notify(t)
  \/ \E w \in Workers : Work(w) \/ Crash(w)

Spec == Init /\ [][Next]_vars

-----------------------------------------------------------------------------
Rounds ==
  [pc : {"asleep", "round", "download", "mark", "fail", "check", "parse", "land"},
   batch : SUBSET Tasks, task : Tasks \union {NoOne}, file : Tasks \union {NoOne}]

\* Rows, archives and rounds hold what the tables and the code can hold; a worker
\* has a task in hand exactly between its claim and its end.
TypeOK ==
  /\ status \in [Tasks -> {"ABSENT", "NOTIFIED", "DOWNLOADING", "DOWNLOADED"} \union Ended]
  /\ landed \in [Tasks -> Seq(Tasks)]
  /\ archive \in [Workers -> [Versions -> Tasks \union {NoOne}]]
  /\ worker \in [Workers -> Rounds]
  /\ \A w \in Workers : worker[w].task = NoOne <=> worker[w].pc \in {"asleep", "round"}
  /\ orphans \subseteq Tasks

\* However workers race, fail and crash, a version's rows land at most once, a
\* version that reads PARSED has its rows, and one that reads FAILED has none.
RowsLandOnce ==
  \A t \in Tasks :
    /\ Len(landed[t]) <= 1
    /\ status[t] = "PARSED" => landed[t] # <<>>
    /\ status[t] \in {"NOTIFIED", "DOWNLOADING", "DOWNLOADED", "FAILED"} => landed[t] = <<>>

\* Rows come from the file the version was notified with, although a version of
\* another tenant has the same path in the archive.
RowsFromOwnFile == \A t \in Tasks : landed[t] \in {<<>>, <<t>>}

\* Of the versions of a tenant whose rows have landed, the highest is PARSED:
\* whatever order they are processed in, and whatever is written blindly, a
\* lower version never hides a higher one, nor another tenant's version any.
LatestLandedStands ==
  \A t \in Tasks :
    /\ landed[t] # <<>>
    /\ \A u \in Tasks : TenantOf(u) = TenantOf(t) /\ VersionOf(u) > VersionOf(t)
                          => landed[u] = <<>>
    => status[t] = "PARSED"

-----------------------------------------------------------------------------
\* The worker loops for ever and is restarted when it crashes; of a version that
\* is found in round after round, a worker that lives long enough gets hold.
Fairness ==
  /\ \A w \in Workers : WF_vars(Work(w))
  /\ \A t \in Tasks : SF_vars(\E w \in Workers : Claim(w, t))

FairSpec == Spec /\ Fairness

\* Every version that is notified ends, unless a worker died under it: then it
\* stays as it was, for nothing takes up DOWNLOADING and DOWNLOADED again.
EveryVersionEnds ==
  \A t \in Tasks : status[t] = "NOTIFIED" ~> status[t] \in Ended \/ t \in orphans
=============================================================================
