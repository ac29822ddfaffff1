-------------------------- MODULE ReconFilesProofs --------------------------
(***************************************************************************)
(* Theorems about ReconFiles, for every set of tenants, versions and       *)
(* workers.                                                                *)
(***************************************************************************)
EXTENDS ReconFiles, TLAPS

-----------------------------------------------------------------------------
(* The inductive invariant.                                                *)

\* What a worker knows of the task it has in hand: its rows have not landed,
\* nobody else has it, and the file it will read or has read is its own.
InHand(w) ==
  worker[w].task # NoOne =>
    LET t == worker[w].task IN
    /\ landed[t] = <<>>
    /\ status[t] \notin {"ABSENT", "NOTIFIED"}
    /\ \A v \in Workers : worker[v].task = t => v = w
    /\ worker[w].pc \in {"mark", "check", "parse"} => archive[w][VersionOf(t)] = t
    /\ worker[w].pc = "land" => worker[w].file = t

\* A status and the rows that go with it.
RowFits(t) ==
  /\ landed[t] \in {<<>>, <<t>>}
  /\ status[t] = "PARSED" => landed[t] # <<>>
  /\ status[t] \notin {"PARSED", "SUPERSEDED"} => landed[t] = <<>>

ReconInv ==
  /\ TypeOK
  /\ \A w \in Workers : InHand(w)
  /\ \A t \in Tasks : RowFits(t)
  /\ LatestLandedStands

LEMMA ReconInvInit == Init => ReconInv
<1> SUFFICES ASSUME Init
             PROVE  ReconInv
  OBVIOUS
<1>1. Asleep \in Rounds
  BY DEF Asleep, Rounds
<1>2. TypeOK
  BY <1>1 DEF Init, TypeOK, Asleep
<1>3. \A w \in Workers : InHand(w)
  BY DEF Init, InHand, Asleep
<1>4. \A t \in Tasks : RowFits(t)
  BY DEF Init, RowFits
<1>5. LatestLandedStands
  BY DEF Init, LatestLandedStands
<1> QED
  BY <1>2, <1>3, <1>4, <1>5 DEF ReconInv

\* A version is one of Versions, and so its path is in every archive.
LEMMA VersionOfTask == ASSUME NEW t \in Tasks PROVE VersionOf(t) \in Versions
BY DEF Versions

-----------------------------------------------------------------------------
(* Steps.                                                                  *)

\* A worker moves to x, with the task it had or with none, and the rows and the
\* archives stay as they are.
LEMMA OnlyWorkerMoves ==
  ASSUME ReconInv, NEW w \in Workers, NEW x \in Rounds,
         worker' = [worker EXCEPT ![w] = x],
         x.task \in {NoOne, worker[w].task},
         x.task = NoOne <=> x.pc \in {"asleep", "round"},
         x.pc \in {"mark", "check", "parse"} => archive[w][VersionOf(x.task)] = x.task,
         x.pc = "land" => x.file = x.task,
         UNCHANGED <<status, landed, archive>>, orphans' \subseteq Tasks
  PROVE  ReconInv'
<1>1. TypeOK'
  BY DEF ReconInv, TypeOK
<1>2. worker'[w] = x /\ \A v \in Workers : v # w => worker'[v] = worker[v]
  BY DEF ReconInv, TypeOK
<1>3. ASSUME NEW v \in Workers
      PROVE  InHand(v)'
  <2>1. InHand(v) /\ InHand(w)
    BY DEF ReconInv
  <2>2. CASE v = w
    BY <1>2, <2>1, <2>2 DEF InHand
  <2>3. CASE v # w
    BY <1>2, <2>1, <2>3 DEF InHand
  <2> QED
    BY <2>2, <2>3
<1>4. (\A t \in Tasks : RowFits(t)') /\ LatestLandedStands'
  BY DEF ReconInv, RowFits, LatestLandedStands
<1> QED
  BY <1>1, <1>3, <1>4 DEF ReconInv

\* The status of a task whose rows have not landed changes to another one
\* without rows, and nothing else of the rows.
LEMMA BlindWrite ==
  ASSUME ReconInv, NEW t \in Tasks, NEW s,
         landed[t] = <<>>, s \notin {"PARSED", "SUPERSEDED"},
         status' = [status EXCEPT ![t] = s], UNCHANGED landed
  PROVE  (\A u \in Tasks : RowFits(u)') /\ LatestLandedStands'
BY DEF ReconInv, TypeOK, RowFits, LatestLandedStands

LEMMA NotifyStep ==
  ASSUME ReconInv, NEW t \in Tasks, Notify(t)
  PROVE  ReconInv'
<1>1. TypeOK'
  BY DEF ReconInv, TypeOK, Notify
<1>2. (\A u \in Tasks : RowFits(u)') /\ LatestLandedStands'
  BY BlindWrite DEF Notify, ReconInv, RowFits
<1>3. ASSUME NEW w \in Workers
      PROVE  InHand(w)'
  <2>1. worker[w].task # NoOne => worker[w].task \in Tasks /\ worker[w].task # t
    BY DEF ReconInv, TypeOK, Rounds, InHand, Notify
  <2> QED
    BY <2>1 DEF ReconInv, TypeOK, InHand, Notify
<1> QED
  BY <1>1, <1>2, <1>3 DEF ReconInv

LEMMA ClaimStep ==
  ASSUME ReconInv, NEW w \in Workers, NEW t \in Tasks, Claim(w, t)
  PROVE  ReconInv'
<1> DEFINE x == [worker[w] EXCEPT !.pc = "download", !.task = t,
                                  !.batch = {u \in @ \ {t} : Claimable(u)}]
<1>1. x \in Rounds /\ x.task = t /\ x.pc = "download"
  BY DEF ReconInv, TypeOK, Rounds
<1>2. worker' = [worker EXCEPT ![w] = x] /\ status[t] = "NOTIFIED"
  BY DEF Claim, Step, Claimable
<1> HIDE DEF x
<1>3. worker'[w] = x /\ \A v \in Workers : v # w => worker'[v] = worker[v]
  BY <1>2 DEF ReconInv, TypeOK
<1>4. TypeOK'
  BY <1>1, <1>2, <1>3, NoOneAssumption DEF ReconInv, TypeOK, Claim
<1>5. (\A u \in Tasks : RowFits(u)') /\ LatestLandedStands'
  BY <1>2, BlindWrite DEF Claim, ReconInv, RowFits
<1>6. ASSUME NEW v \in Workers
      PROVE  worker[v].task # t
  BY <1>2, NoOneAssumption DEF ReconInv, InHand
<1>7. ASSUME NEW v \in Workers
      PROVE  InHand(v)'
  <2>1. landed[t] = <<>>
    BY <1>2 DEF ReconInv, RowFits
  <2>2. CASE v = w
    BY <2>1, <2>2, <1>1, <1>3, <1>6 DEF ReconInv, TypeOK, InHand, Claim
  <2>3. CASE v # w
    <3>1. InHand(v) /\ worker'[v] = worker[v]
      BY <2>3, <1>3 DEF ReconInv
    <3>2. \A u \in Workers : worker'[u].task \in {worker[u].task, t} /\ (u # w => worker'[u] = worker[u])
      BY <1>1, <1>3
    <3>3. worker'[w].task = t /\ worker[v].task # t
      BY <1>1, <1>3, <1>6
    <3>4. \A u \in Workers : worker'[u].task = worker[v].task => worker[u].task = worker[v].task
      BY <3>2, <3>3
    <3>5. worker[v].task \in Tasks \union {NoOne}
      BY DEF ReconInv, TypeOK, Rounds
    <3>6. worker[v].task # NoOne => status'[worker[v].task] = status[worker[v].task]
      BY <3>3, <3>5 DEF ReconInv, TypeOK, Claim
    <3>7. landed' = landed /\ archive' = archive
      BY DEF Claim
    <3> QED
      BY <3>1, <3>4, <3>6, <3>7 DEF InHand
  <2> QED
    BY <2>2, <2>3
<1> QED
  BY <1>4, <1>5, <1>7 DEF ReconInv

LEMMA DownloadStep ==
  ASSUME ReconInv, NEW w \in Workers, NEW ok \in BOOLEAN, Download(w, ok)
  PROVE  ReconInv'
<1> DEFINE t == worker[w].task
           x == [worker[w] EXCEPT !.pc = Downloaded(ok)]
<1>1. t \in Tasks /\ VersionOf(t) \in Versions /\ t # NoOne
  BY VersionOfTask DEF ReconInv, TypeOK, Rounds, Download
<1>2. /\ x \in Rounds /\ x.task = t
      /\ x.pc \in {"mark", "fail"} /\ (x.pc = "mark" => ok)
  BY DEF ReconInv, TypeOK, Rounds, Downloaded
<1>3. worker' = [worker EXCEPT ![w] = x]
  BY DEF Download, Goto, Step
<1>4. ok => archive' = [archive EXCEPT ![w][VersionOf(t)] = t]
  BY DEF Download
<1>5. ~ok => archive' = archive
  BY DEF Download
<1>6. worker'[w] = x /\ \A v \in Workers : v # w => worker'[v] = worker[v]
  BY <1>3 DEF ReconInv, TypeOK
<1>7. UNCHANGED <<status, landed, orphans>>
  BY DEF Download
<1> HIDE DEF x, t
<1>8. archive' \in [Workers -> [Versions -> Tasks \union {NoOne}]]
  <2>1. archive \in [Workers -> [Versions -> Tasks \union {NoOne}]]
    BY DEF ReconInv, TypeOK
  <2>2. [archive[w] EXCEPT ![VersionOf(t)] = t] \in [Versions -> Tasks \union {NoOne}]
    BY <2>1, <1>1
  <2>3. CASE ok
    <3>1. archive' = [archive EXCEPT ![w] = [archive[w] EXCEPT ![VersionOf(t)] = t]]
      BY <2>3, <1>4
    <3> QED
      BY <3>1, <2>1, <2>2
  <2> QED
    BY <2>1, <2>3, <1>5
<1>9. TypeOK'
  BY <1>1, <1>2, <1>3, <1>6, <1>7, <1>8 DEF ReconInv, TypeOK
<1>10. \A v \in Workers : v # w => archive'[v] = archive[v]
  BY <1>4, <1>5 DEF ReconInv, TypeOK
<1>11. ok => archive'[w][VersionOf(t)] = t
  BY <1>1, <1>4 DEF ReconInv, TypeOK
<1>12. ASSUME NEW v \in Workers
       PROVE  InHand(v)'
  <2>1. InHand(v) /\ InHand(w)
    BY DEF ReconInv
  <2>2. CASE v = w
    BY <2>1, <2>2, <1>1, <1>2, <1>6, <1>7, <1>11 DEF InHand, t
  <2>3. CASE v # w
    <3>1. worker'[v] = worker[v] /\ archive'[v] = archive[v]
      BY <2>3, <1>6, <1>10
    <3>2. \A u \in Workers : worker'[u].task = worker[u].task
      BY <1>2, <1>6 DEF t
    <3> QED
      BY <2>1, <3>1, <3>2, <1>7 DEF InHand
  <2> QED
    BY <2>2, <2>3
<1>13. (\A u \in Tasks : RowFits(u)') /\ LatestLandedStands'
  BY <1>7 DEF ReconInv, RowFits, LatestLandedStands
<1> QED
  BY <1>9, <1>12, <1>13 DEF ReconInv

\* The worker writes the status of its task without looking, and goes to x.
LEMMA WriteStep ==
  ASSUME ReconInv, NEW w \in Workers, NEW x \in Rounds, NEW s \in {"DOWNLOADED", "FAILED"},
         worker[w].task # NoOne,
         status' = [status EXCEPT ![worker[w].task] = s],
         worker' = [worker EXCEPT ![w] = x],
         x.task \in {NoOne, worker[w].task},
         x.task = NoOne <=> x.pc \in {"asleep", "round"},
         x.pc \in {"mark", "check", "parse"} => archive[w][VersionOf(x.task)] = x.task,
         x.pc # "land",
         UNCHANGED <<landed, archive, orphans>>
  PROVE  ReconInv'
<1>1. PICK t \in Tasks : t = worker[w].task
  BY DEF ReconInv, TypeOK, Rounds
<1>2. landed[t] = <<>>
  BY <1>1 DEF ReconInv, InHand
<1>3. worker'[w] = x /\ \A v \in Workers : v # w => worker'[v] = worker[v]
  BY DEF ReconInv, TypeOK
<1>4. TypeOK'
  BY <1>1, <1>3 DEF ReconInv, TypeOK, Ended
<1>5. (\A u \in Tasks : RowFits(u)') /\ LatestLandedStands'
  BY <1>1, <1>2, BlindWrite
<1>6. \A u \in Tasks : status'[u] \in {"ABSENT", "NOTIFIED"} => status'[u] = status[u]
  BY <1>1 DEF ReconInv, TypeOK
<1>7. ASSUME NEW v \in Workers
      PROVE  InHand(v)'
  <2>1. InHand(v) /\ InHand(w)
    BY DEF ReconInv
  <2>2. worker[v].task \in Tasks \union {NoOne}
    BY DEF ReconInv, TypeOK, Rounds
  <2>3. CASE v = w
    BY <2>1, <2>2, <2>3, <1>3, <1>6 DEF InHand
  <2>4. CASE v # w
    BY <2>1, <2>2, <2>4, <1>1, <1>3, <1>6 DEF InHand
  <2> QED
    BY <2>3, <2>4
<1> QED
  BY <1>4, <1>5, <1>7 DEF ReconInv

LEMMA MarkStep ==
  ASSUME ReconInv, NEW w \in Workers, MarkDownloaded(w) \/ MarkFailed(w)
  PROVE  ReconInv'
<1>0. worker[w].pc \in {"mark", "fail"} /\ worker[w] \in Rounds /\ worker[w].task # NoOne
  BY DEF MarkDownloaded, MarkFailed, ReconInv, TypeOK
<1>1. CASE MarkDownloaded(w)
  <2> DEFINE x == [worker[w] EXCEPT !.pc = "check"]
  <2>1. x \in Rounds /\ x.task = worker[w].task /\ x.pc = "check"
    BY <1>0 DEF Rounds
  <2>2. worker' = [worker EXCEPT ![w] = x] /\ worker[w].pc = "mark"
    BY <1>1 DEF MarkDownloaded, Goto, Step
  <2> HIDE DEF x
  <2>3. archive[w][VersionOf(x.task)] = x.task
    BY <1>0, <2>1, <2>2 DEF ReconInv, InHand
  <2> QED
    BY <1>0, <1>1, <2>1, <2>2, <2>3, WriteStep DEF MarkDownloaded
<1>2. CASE MarkFailed(w)
  <2> DEFINE x == [Asleep EXCEPT !.pc = "round", !.batch = worker[w].batch]
  <2>1. x \in Rounds /\ x.task = NoOne /\ x.pc = "round"
    BY <1>0 DEF Rounds, Asleep
  <2>2. worker' = [worker EXCEPT ![w] = x]
    BY <1>2 DEF MarkFailed, Leave, Step
  <2> HIDE DEF x
  <2> QED
    BY <1>0, <1>2, <2>1, <2>2, WriteStep DEF MarkFailed
<1> QED
  BY <1>1, <1>2

LEMMA LandStep ==
  ASSUME ReconInv, NEW w \in Workers, Land(w)
  PROVE  ReconInv'
<1> DEFINE x == [Asleep EXCEPT !.pc = "round", !.batch = worker[w].batch]
<1>1. x \in Rounds /\ x.task = NoOne /\ x.pc = "round"
  BY DEF ReconInv, TypeOK, Rounds, Asleep
<1>2. worker' = [worker EXCEPT ![w] = x]
  BY DEF Land, Leave, Step
<1> HIDE DEF x
<1>3. PICK t \in Tasks : t = worker[w].task /\ t # NoOne
  BY DEF ReconInv, TypeOK, Rounds, Land
<1>4. worker[w].file = t /\ landed[t] = <<>>
  BY <1>3 DEF ReconInv, InHand, Land
<1>5. CASE status[t] # "DOWNLOADED"
  BY <1>1, <1>2, <1>3, <1>5, OnlyWorkerMoves DEF Land, ReconInv, TypeOK
<1>6. CASE status[t] = "DOWNLOADED"
  <2>1. landed' = [landed EXCEPT ![t] = <<t>>]
    <3>1. Append(landed[t], worker[w].file) = <<t>>
      BY <1>4
    <3> QED
      BY <3>1, <1>3, <1>6 DEF Land
  <2>2. status' = [u \in Tasks |-> CASE u = t -> "PARSED"
                                     [] u # t /\ Supersedes(t, u) -> "SUPERSEDED"
                                     [] OTHER -> status[u]]
    BY <1>3, <1>6 DEF Land
  <2>3. landed'[t] = <<t>> /\ \A u \in Tasks : u # t => landed'[u] = landed[u]
    BY <2>1 DEF ReconInv, TypeOK
  <2>4. status'[t] = "PARSED"
    BY <2>2
  <2>5. \A u \in Tasks : u # t /\ ~Supersedes(t, u) => status'[u] = status[u]
    BY <2>2
  <2>6. \A u \in Tasks : u # t /\ Supersedes(t, u) => status'[u] = "SUPERSEDED"
    BY <2>2
  <2>7. \A u \in Tasks : status'[u] \in {status[u], "PARSED", "SUPERSEDED"}
    BY <2>4, <2>5, <2>6
  <2>8. worker'[w] = x /\ \A v \in Workers : v # w => worker'[v] = worker[v]
    BY <1>2 DEF ReconInv, TypeOK
  <2>9. TypeOK'
    <3>1. landed' \in [Tasks -> Seq(Tasks)]
      BY <2>1 DEF ReconInv, TypeOK
    <3>2. status' \in [Tasks -> {"ABSENT", "NOTIFIED", "DOWNLOADING", "DOWNLOADED"} \union Ended]
      BY <2>2, <2>7 DEF ReconInv, TypeOK, Ended
    <3> QED
      BY <3>1, <3>2, <1>1, <1>2, <2>8 DEF ReconInv, TypeOK, Land
  <2>10. ASSUME NEW v \in Workers
         PROVE  InHand(v)'
    <3>1. InHand(v) /\ InHand(w) /\ worker[v].task \in Tasks \union {NoOne}
      BY DEF ReconInv, TypeOK, Rounds
    <3>2. CASE v = w
      BY <3>2, <2>8, <1>1 DEF InHand
    <3>3. CASE v # w
      <4>1. worker[v].task # NoOne => worker[v].task # t
        BY <3>1, <3>3, <1>3 DEF InHand
      <4> QED
        BY <4>1, <3>1, <3>3, <2>3, <2>7, <2>8, <1>1 DEF InHand, Land
    <3> QED
      BY <3>2, <3>3
  <2>11. ASSUME NEW u \in Tasks
         PROVE  RowFits(u)'
    <3>1. RowFits(u)
      BY DEF ReconInv
    <3>2. CASE u = t
      BY <3>2, <2>3, <2>4 DEF RowFits
    <3>3. CASE u # t
      BY <3>1, <3>3, <2>3, <2>5, <2>6 DEF RowFits
    <3> QED
      BY <3>2, <3>3
  <2>12. LatestLandedStands'
    <3> SUFFICES ASSUME NEW u \in Tasks, landed'[u] # <<>>,
                        \A z \in Tasks : TenantOf(z) = TenantOf(u) /\ VersionOf(z) > VersionOf(u)
                                           => landed'[z] = <<>>
                 PROVE  status'[u] = "PARSED"
      BY DEF LatestLandedStands
    <3>1. CASE u = t
      BY <3>1, <2>4
    <3>2. CASE u # t
      <4>1. ~Supersedes(t, u)
        <5>1. landed'[t] # <<>>
          BY <2>3
        <5>2. VersionOf(t) \in Nat /\ VersionOf(u) \in Nat
          BY TasksAssumption DEF VersionOf
        <5> QED
          BY <5>1, <5>2 DEF Supersedes
      <4>2. \A z \in Tasks : TenantOf(z) = TenantOf(u) /\ VersionOf(z) > VersionOf(u)
                               => landed[z] = <<>>
        BY <2>3, <1>4
      <4>3. status[u] = "PARSED"
        BY <4>2, <3>2, <2>3 DEF ReconInv, LatestLandedStands
      <4> QED
        BY <4>1, <4>3, <3>2, <2>5
    <3> QED
      BY <3>1, <3>2
  <2> QED
    BY <2>9, <2>10, <2>11, <2>12 DEF ReconInv
<1> QED
  BY <1>5, <1>6

\* Steps in which only the worker moves.
LEMMA MoveStep ==
  ASSUME ReconInv, NEW w \in Workers,
         Scan(w) \/ EndRound(w) \/ Precheck(w) \/ Parse(w) \/ LandFails(w) \/ Crash(w)
  PROVE  ReconInv'
<1>1. worker[w] \in Rounds /\ worker[w].batch \subseteq Tasks
  BY DEF ReconInv, TypeOK, Rounds
<1>2. InHand(w) /\ TypeOK
  BY DEF ReconInv
<1>3. UNCHANGED <<status, landed, archive>> /\ orphans' \subseteq Tasks
  BY <1>1, <1>2 DEF TypeOK, Rounds, Scan, EndRound, Precheck, Parse, LandFails, Crash
<1>4. PICK x \in Rounds :
        /\ worker' = [worker EXCEPT ![w] = x]
        /\ x.task \in {NoOne, worker[w].task}
        /\ x.task = NoOne <=> x.pc \in {"asleep", "round"}
        /\ x.pc \in {"mark", "check", "parse"} => archive[w][VersionOf(x.task)] = x.task
        /\ x.pc = "land" => x.file = x.task
  <2>1. CASE Scan(w)
    <3>1. [Asleep EXCEPT !.pc = "round", !.batch = {t \in Tasks : status[t] = "NOTIFIED"}] \in Rounds
      BY DEF Asleep, Rounds
    <3> QED
      BY <2>1, <3>1 DEF Scan, Step, Asleep
  <2>2. CASE EndRound(w) \/ Crash(w)
    <3>1. Asleep \in Rounds
      BY DEF Asleep, Rounds
    <3> QED
      BY <2>2, <3>1 DEF EndRound, Crash, Step, Asleep
  <2>3. CASE Precheck(w)
    <3>1. [worker[w] EXCEPT !.pc = "parse"] \in Rounds
      BY <1>1 DEF Rounds
    <3>2. [Asleep EXCEPT !.pc = "round", !.batch = worker[w].batch] \in Rounds
      BY <1>1 DEF Asleep, Rounds
    <3>3. worker[w].task # NoOne /\ archive[w][VersionOf(worker[w].task)] = worker[w].task
      BY <2>3, <1>2 DEF Precheck, TypeOK, InHand
    <3>4. CASE status[worker[w].task] = "DOWNLOADED"
      BY <2>3, <3>1, <3>3, <3>4, <1>1 DEF Precheck, Goto, Step, Rounds
    <3>5. CASE status[worker[w].task] # "DOWNLOADED"
      BY <2>3, <3>2, <3>5 DEF Precheck, Leave, Step, Asleep
    <3> QED
      BY <3>4, <3>5
  <2>4. CASE Parse(w)
    <3>1. worker[w].task # NoOne /\ archive[w][VersionOf(worker[w].task)] = worker[w].task
      BY <2>4, <1>2 DEF Parse, TypeOK, InHand
    <3>2. [worker[w] EXCEPT !.pc = "fail"] \in Rounds
      BY <1>1 DEF Rounds
    <3>3. [worker[w] EXCEPT !.pc = "land", !.file = worker[w].task] \in Rounds
      BY <1>1 DEF Rounds
    <3>4. CASE Goto(w, "fail")
      BY <3>1, <3>2, <3>4, <1>1 DEF Goto, Step, Rounds
    <3>5. CASE Step(w, [worker[w] EXCEPT !.pc = "land", !.file = worker[w].task])
      BY <3>1, <3>3, <3>5, <1>1 DEF Step, Rounds
    <3> QED
      BY <2>4, <3>1, <3>4, <3>5 DEF Parse
  <2>5. CASE LandFails(w)
    <3>1. [worker[w] EXCEPT !.pc = "fail"] \in Rounds
      BY <1>1 DEF Rounds
    <3>2. worker[w].task # NoOne
      BY <2>5, <1>2 DEF LandFails, TypeOK
    <3> QED
      BY <2>5, <3>1, <3>2, <1>1 DEF LandFails, Goto, Step, Rounds
  <2> QED
    BY <2>1, <2>2, <2>3, <2>4, <2>5
<1> QED
  BY <1>3, <1>4, OnlyWorkerMoves

LEMMA ReconInvNext == ReconInv /\ [Next]_vars => ReconInv'
<1> SUFFICES ASSUME ReconInv, [Next]_vars
             PROVE  ReconInv'
  OBVIOUS
<1>1. ASSUME NEW t \in Tasks, Notify(t)
      PROVE  ReconInv'
  BY <1>1, NotifyStep
<1>2. ASSUME NEW w \in Workers, Work(w)
      PROVE  ReconInv'
  BY <1>2, ClaimStep, DownloadStep, MarkStep, LandStep, MoveStep DEF Work
<1>3. ASSUME NEW w \in Workers, Crash(w)
      PROVE  ReconInv'
  BY <1>3, MoveStep
<1>4. CASE UNCHANGED vars
  BY <1>4 DEF vars, ReconInv, TypeOK, InHand, RowFits, LatestLandedStands
<1> QED
  BY <1>1, <1>2, <1>3, <1>4 DEF Next

-----------------------------------------------------------------------------
(* The theorems.                                                           *)

\* The inductive invariant holds of every version and every worker.
THEOREM ReconInvariant == Spec => []ReconInv
BY ReconInvInit, ReconInvNext, PTL DEF Spec

\* Rows, archives and rounds keep their types; a worker has a task in hand
\* exactly between its claim and its end.
THEOREM ReconTypeCorrect == Spec => []TypeOK
<1>1. ReconInv => TypeOK
  BY DEF ReconInv
<1> QED
  BY <1>1, ReconInvariant, PTL

\* The rows of a version land at most once, and are there exactly if the status
\* says so: parse_and_land and the blind writes around it, for any workers.
THEOREM RowsLandOnceCorrect == Spec => []RowsLandOnce
<1>1. ReconInv => RowsLandOnce
  <2> SUFFICES ASSUME ReconInv, NEW t \in Tasks
               PROVE  /\ Len(landed[t]) <= 1
                      /\ status[t] = "PARSED" => landed[t] # <<>>
                      /\ status[t] \in {"NOTIFIED", "DOWNLOADING", "DOWNLOADED", "FAILED"}
                           => landed[t] = <<>>
    BY DEF RowsLandOnce
  <2>1. Len(<<>>) = 0 /\ Len(<<t>>) = 1
    OBVIOUS
  <2>2. RowFits(t)
    BY DEF ReconInv
  <2>3. CASE landed[t] = <<>>
    BY <2>1, <2>2, <2>3 DEF RowFits
  <2>4. CASE landed[t] = <<t>>
    <3>1. Len(landed[t]) <= 1
      BY <2>1, <2>4
    <3> QED
      BY <3>1, <2>2 DEF RowFits
  <2> QED
    BY <2>2, <2>3, <2>4 DEF RowFits
<1> QED
  BY <1>1, ReconInvariant, PTL

\* Rows come from the file their version was notified with, although another
\* tenant's version has the same path.
THEOREM RowsFromOwnFileCorrect == Spec => []RowsFromOwnFile
<1>1. ReconInv => RowsFromOwnFile
  BY DEF ReconInv, RowFits, RowsFromOwnFile
<1> QED
  BY <1>1, ReconInvariant, PTL

\* Of a tenant's versions whose rows have landed the highest is PARSED, in
\* whatever order any number of versions and workers go through.
THEOREM LatestLandedStandsCorrect == Spec => []LatestLandedStands
<1>1. ReconInv => LatestLandedStands
  BY DEF ReconInv
<1> QED
  BY <1>1, ReconInvariant, PTL
=============================================================================
