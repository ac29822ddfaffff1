--------------------------- MODULE ReversalProofs ---------------------------
(***************************************************************************)
(* Proofs about Reversal: the audit chain is linear and tells what the     *)
(* ledger tells, a pair that a request settles flips together, and what is *)
(* said of a reversal is so, for any reversals, requests and settlers.     *)
(*                                                                         *)
(* Two kinds of lock carry the argument.  Who has written the anchor owns  *)
(* it until the transaction ends, so that nobody else commits an entry in  *)
(* between (Appending); who has written an order holds its row, so that    *)
(* the move that was allowed when it was made is allowed when it is        *)
(* committed (Holding).  An original that cannot be flipped any more stays *)
(* so (StandsStays), and one request calls wedap for a reversal (Sole).    *)
(***************************************************************************)
EXTENDS Reversal, TLAPS

-----------------------------------------------------------------------------
(* The chain.                                                              *)

\* What a transaction in write_audit knows of the chain.
Appending(t) ==
  /\ owner = t <=> tip[t] # NoOne
  /\ owner # t => draft[t] = <<>>
  /\ owner = t =>
       /\ tip[t] = Len(log) + Len(draft[t])
       /\ \A i \in 1..Len(draft[t]) : draft[t][i].prev = Len(log) + i - 1
  /\ writing[t] \in {"peek", "insert"} => owner # t
  /\ writing[t] = "insert" /\ anchor = NoOne => seed[t] = Len(log)
  /\ writing[t] = "append" => tip[t] # NoOne \/ anchor # NoOne
  /\ writing[t] # "rest" => subject[t] \in Subjects

ChainInv == ChainTypeOK /\ LinearChain /\ \A t \in Txns : Appending(t)

-----------------------------------------------------------------------------
(* The rows.                                                               *)

\* Entries of a sequence about a status of an order; there is exactly one.
About(entries, x, s) == {i \in 1..Len(entries) : entries[i].about = <<x, s>>}
Once(entries, x, s) == \E i \in 1..Len(entries) : About(entries, x, s) = {i}
Never(entries, x, s) == About(entries, x, s) = {}

\* Who is where: write_audit runs while a transaction is open, only a settler
\* has a verdict, and nothing is written before the rows are locked.
Standing(t) ==
  /\ writing[t] # "rest" => pc[t] \in {"flip", "commit"}
  /\ pc[t] \in {"flip", "register", "dispatch", "calling", "answered"} => t \in Threads
  /\ pc[t] = "heard" => t \notin Threads /\ verdict[t] \in Orders \X Terminal

\* What a transaction has written is allowed and stays so: it holds the rows.
Holding(t) ==
  \A x \in Orders : staged[t][x] # NoOne =>
    /\ holder[x] = t
    /\ CanMove(status[x], staged[t][x])
    /\ staged[t][x] \in {"RESULT_UNKNOWN"} \union Terminal

\* It is recorded once, or is about to be.
Drafting(t) ==
  \A x \in Orders, s \in Statuses :
    LET pending == writing[t] # "rest" /\ subject[t] = <<x, s>> IN
      IF staged[t][x] = s
        THEN IF pending THEN Never(draft[t], x, s) ELSE Once(draft[t], x, s)
        ELSE ~pending /\ Never(draft[t], x, s)

\* What has been forwarded of an order follows from where it stands.
Forwarded(x) ==
  /\ status[x] \in {"ABSENT", "ACCEPTED", "RESULT_UNKNOWN"} \union Terminal
  /\ status[x] \in {"ABSENT", "ACCEPTED", "RESULT_UNKNOWN"} => forwarded[x] = {}
  /\ status[x] \in {"SUCCEEDED", "FAILED"} => forwarded[x] = {status[x]}
  /\ status[x] = "REVERSED" =>
       "REVERSED" \in forwarded[x] /\ forwarded[x] \subseteq {"SUCCEEDED", "REVERSED"}

Told(x) ==
  \A s \in Terminal : IF s \in forwarded[x] THEN Once(log, x, s) ELSE Never(log, x, s)

RowInv ==
  /\ \A t \in Txns : Holding(t) /\ Drafting(t)
  /\ \A x \in Orders : Forwarded(x) /\ Told(x)

-----------------------------------------------------------------------------
(* The pair, and the truth.                                                *)

Stands == status[Original] # "ABSENT" => ~CanMove(status[Original], "REVERSED")

\* A request writes only under its locks, and only its two orders; when it is
\* about to commit an accepted reversal it has dealt with the original.
Flipping(p) ==
  /\ pc[p] \notin {"flip", "commit"} => \A x \in Orders : staged[p][x] = NoOne
  /\ \A x \in Orders \ {intent[p], Original} : staged[p][x] = NoOne
  /\ pc[p] = "flip" => staged[p][intent[p]] = "SUCCEEDED"
  /\ pc[p] = "commit" /\ staged[p][intent[p]] = "SUCCEEDED" =>
       staged[p][Original] = "REVERSED" \/ Stands

PairInv == (\A p \in Threads : Flipping(p)) /\ PairFlipsTogether

\* Where a request is on its own: it is the only one that came to dispatch.
Active == {"dispatch", "calling", "answered", "flip", "commit"}

Sole(p) ==
  /\ pc[p] # "register" => status[intent[p]] # "ABSENT"
  /\ pc[p] \in {"register", "dispatch", "calling"} => answer[p] = NoOne
  /\ pc[p] \in Active => said[intent[p]] = NoOne
  /\ \A u \in Threads \ {p} : pc[p] \in Active /\ intent[u] = intent[p] =>
       pc[u] \in {"register", "done"} /\ answer[u] = NoOne

\* What the answers, verdicts and drafts prove of wedap.
Replied(r) ==
  /\ bank[r] = "SUCCEEDED" => bank[Original] = "REVERSED"
  /\ said[r] = "NOT_APPLIED" => bank[r] = "refused"
  /\ said[r] # NoOne => status[r] # "ABSENT"

Proven(p) ==
  /\ answer[p] = "SUCCESS" => bank[Original] = "REVERSED"
  /\ AtDoor(answer[p]) => bank[intent[p]] = "refused"
  /\ pc[p] = "flip" => answer[p] = "SUCCESS"

Reported(t) ==
  /\ pc[t] = "heard" /\ verdict[t] = <<Original, "REVERSED">> => bank[Original] = "REVERSED"
  /\ staged[t][Original] = "REVERSED" => bank[Original] = "REVERSED"

TruthInv ==
  /\ \A p \in Threads : Sole(p) /\ Proven(p)
  /\ \A r \in Reversals : Replied(r)
  /\ \A t \in Txns : Reported(t)
  /\ status[Original] = "REVERSED" => bank[Original] = "REVERSED"

-----------------------------------------------------------------------------
(* Steps of the chain.                                                     *)

\* A transaction that does not move keeps what it knows, if nobody takes its
\* lock, the anchor does not vanish, and the log grows only without it.
LEMMA OtherWriters ==
  ASSUME NEW u \in Txns, Appending(u),
         /\ writing'[u] = writing[u] /\ subject'[u] = subject[u] /\ seed'[u] = seed[u]
         /\ tip'[u] = tip[u] /\ draft'[u] = draft[u],
         owner = u <=> owner' = u,
         anchor # NoOne => anchor' # NoOne,
         owner = u \/ anchor' = NoOne => log' = log
  PROVE  Appending(u)'
BY DEF Appending

LEMMA BeginAuditKeeps ==
  ASSUME ChainInv, NEW t \in Txns, NEW about \in Subjects, BeginAudit(t, about)
  PROVE  ChainInv'
<1>1. /\ ChainTypeOK /\ LinearChain /\ UNCHANGED <<anchor, log, owner, sharers, seed, tip, draft>>
      /\ subject' = [subject EXCEPT ![t] = about]
      /\ writing' = [writing EXCEPT ![t] = IF owner = t THEN "append" ELSE "peek"]
  BY DEF ChainInv, BeginAudit, Writes
<1>2. /\ subject'[t] = about /\ writing'[t] = IF owner = t THEN "append" ELSE "peek"
      /\ \A u \in Txns \ {t} : subject'[u] = subject[u] /\ writing'[u] = writing[u]
  BY <1>1 DEF ChainTypeOK
<1>3. ChainTypeOK'
  BY <1>1 DEF ChainTypeOK
<1>4. LinearChain'
  BY <1>1 DEF LinearChain
<1>5. Appending(t)'
  <2>1. Appending(t)
    BY DEF ChainInv
  <2> QED
    BY <1>1, <1>2, <2>1 DEF Appending
<1>6. ASSUME NEW u \in Txns \ {t} PROVE Appending(u)'
  BY <1>1, <1>2, OtherWriters DEF ChainInv
<1> QED
  BY <1>3, <1>4, <1>5, <1>6 DEF ChainInv

LEMMA PeekKeeps ==
  ASSUME ChainInv, NEW t \in Txns, Peek(t) PROVE ChainInv'
<1>1. /\ ChainTypeOK /\ LinearChain /\ writing[t] = "peek" /\ Appending(t)
      /\ UNCHANGED <<anchor, log, owner, sharers, subject, tip, draft>>
  BY DEF ChainInv, Peek
<1>2. CASE anchor # NoOne
  <2>1. writing' = [writing EXCEPT ![t] = "append"] /\ seed' = seed
    BY <1>2 DEF Peek, Writes
  <2>2. ChainTypeOK'
    BY <1>1, <2>1 DEF ChainTypeOK
  <2>3. writing'[t] = "append" /\ \A u \in Txns \ {t} : writing'[u] = writing[u]
    BY <1>1, <2>1 DEF ChainTypeOK
  <2>4. Appending(t)'
    BY <1>1, <1>2, <2>1, <2>3 DEF Appending
  <2>5. ASSUME NEW u \in Txns \ {t} PROVE Appending(u)'
    BY <1>1, <2>1, <2>3, OtherWriters DEF ChainInv
  <2> QED
    BY <1>1, <2>2, <2>4, <2>5 DEF ChainInv, LinearChain
<1>3. CASE anchor = NoOne
  <2>1. writing' = [writing EXCEPT ![t] = "insert"] /\ seed' = [seed EXCEPT ![t] = Len(log)]
    BY <1>3 DEF Peek, Writes
  <2>2. Len(log) \in Nat
    BY <1>1 DEF ChainTypeOK
  <2>3. ChainTypeOK'
    BY <1>1, <2>1, <2>2 DEF ChainTypeOK
  <2>4. /\ writing'[t] = "insert" /\ seed'[t] = Len(log)
        /\ \A u \in Txns \ {t} : writing'[u] = writing[u] /\ seed'[u] = seed[u]
    BY <1>1, <2>1 DEF ChainTypeOK
  <2>5. Appending(t)'
    BY <1>1, <2>4 DEF Appending
  <2>6. ASSUME NEW u \in Txns \ {t} PROVE Appending(u)'
    BY <1>1, <2>4, OtherWriters DEF ChainInv
  <2> QED
    BY <1>1, <2>3, <2>5, <2>6 DEF ChainInv, LinearChain
<1> QED
  BY <1>2, <1>3

\* The insert of an anchor that is not there chains to the tail that was read.
LEMMA InsertKeeps ==
  ASSUME ChainInv, NEW t \in Txns, Insert(t) PROVE ChainInv'
<1>1. /\ ChainTypeOK /\ LinearChain /\ writing[t] = "insert" /\ Unlocked(t) /\ Appending(t)
      /\ UNCHANGED <<anchor, log, subject, seed, draft>>
      /\ writing' = [writing EXCEPT ![t] = "append"]
  BY DEF ChainInv, Insert, Writes
<1>2. writing'[t] = "append" /\ \A u \in Txns \ {t} : writing'[u] = writing[u]
  BY <1>1 DEF ChainTypeOK
<1>3. owner # t /\ owner = NoOne /\ draft[t] = <<>> /\ subject[t] \in Subjects
  BY <1>1 DEF Appending, Unlocked
<1>4. CASE anchor = NoOne
  <2>1. owner' = t /\ tip' = [tip EXCEPT ![t] = seed[t]] /\ sharers' = sharers
    BY <1>4 DEF Insert
  <2>2. seed[t] = Len(log) /\ Len(log) \in Nat
    BY <1>1, <1>4 DEF Appending, ChainTypeOK
  <2>3. tip'[t] = Len(log) /\ \A u \in Txns \ {t} : tip'[u] = tip[u]
    BY <1>1, <2>1, <2>2 DEF ChainTypeOK
  <2>4. ChainTypeOK'
    BY <1>1, <2>1, <2>2 DEF ChainTypeOK
  <2>5. Appending(t)'
    <3>1. Len(<<>>) = 0 /\ Len(log) # NoOne /\ 1..0 = {}
      BY <2>2, NoOneAssumption
    <3> QED
      BY <1>1, <1>2, <1>3, <2>1, <2>2, <2>3, <3>1 DEF Appending
  <2>6. ASSUME NEW u \in Txns \ {t} PROVE Appending(u)'
    <3>1. owner # u
      BY <1>3, NoOneAssumption
    <3> QED
      BY <1>1, <1>2, <2>1, <2>3, <3>1, OtherWriters DEF ChainInv
  <2> QED
    BY <1>1, <2>4, <2>5, <2>6 DEF ChainInv, LinearChain
<1>5. CASE anchor # NoOne
  <2>1. owner' = owner /\ tip' = tip /\ sharers' = sharers \union {t}
    BY <1>5 DEF Insert
  <2>2. ChainTypeOK'
    BY <1>1, <2>1 DEF ChainTypeOK
  <2>3. Appending(t)'
    BY <1>1, <1>2, <1>5, <2>1 DEF Appending
  <2>4. ASSUME NEW u \in Txns \ {t} PROVE Appending(u)'
    BY <1>1, <1>2, <2>1, OtherWriters DEF ChainInv
  <2> QED
    BY <1>1, <2>2, <2>3, <2>4 DEF ChainInv, LinearChain
<1> QED
  BY <1>4, <1>5

\* The entry chains to the last one of the log or of the transaction.
LEMMA AppendEntryKeeps ==
  ASSUME ChainInv, NEW t \in Txns, AppendEntry(t) PROVE ChainInv'
<1> DEFINE prev == IF tip[t] = NoOne THEN anchor ELSE tip[t]
           entry == [prev |-> prev, about |-> subject[t]]
           more == Append(draft[t], entry)
<1>1. /\ ChainTypeOK /\ LinearChain /\ writing[t] = "append" /\ Exclusive(t) /\ Appending(t)
      /\ UNCHANGED <<anchor, log, sharers, subject, seed>>
      /\ writing' = [writing EXCEPT ![t] = "rest"] /\ owner' = t
      /\ draft' = [draft EXCEPT ![t] = more]
      /\ tip' = [tip EXCEPT ![t] = Len(log) + Len(draft[t]) + 1]
  BY DEF ChainInv, AppendEntry, Writes
<1>2. /\ Len(log) \in Nat /\ Len(draft[t]) \in Nat /\ draft[t] \in Seq(Entries)
      /\ subject[t] \in Subjects
  BY <1>1 DEF ChainTypeOK, Appending
<1>3. prev = Len(log) + Len(draft[t])
  <2>1. CASE tip[t] = NoOne
    <3>1. anchor = Len(log) /\ draft[t] = <<>>
      BY <1>1, <2>1 DEF Appending, LinearChain
    <3>2. Len(<<>>) = 0
      OBVIOUS
    <3> QED
      BY <1>2, <2>1, <3>1, <3>2
  <2>2. CASE tip[t] # NoOne
    BY <1>1, <2>2 DEF Appending
  <2> QED
    BY <2>1, <2>2
<1> HIDE DEF prev
<1>4. entry \in Entries /\ entry.prev = Len(log) + Len(draft[t])
  BY <1>2, <1>3 DEF Entries
<1> HIDE DEF entry
<1>5. /\ more \in Seq(Entries) /\ Len(more) = Len(draft[t]) + 1
      /\ more[Len(draft[t]) + 1] = entry
      /\ \A i \in 1..Len(draft[t]) : more[i] = draft[t][i]
  BY <1>2, <1>4
<1> HIDE DEF more
<1>6. /\ writing'[t] = "rest" /\ draft'[t] = more /\ tip'[t] = Len(log) + Len(more)
      /\ \A u \in Txns \ {t} :
           writing'[u] = writing[u] /\ draft'[u] = draft[u] /\ tip'[u] = tip[u]
  BY <1>1, <1>2, <1>5 DEF ChainTypeOK
<1>7. ChainTypeOK'
  BY <1>1, <1>2, <1>5 DEF ChainTypeOK
<1>8. \A i \in 1..Len(more) : more[i].prev = Len(log) + i - 1
  <2>1. \A i \in 1..Len(draft[t]) : draft[t][i].prev = Len(log) + i - 1
    <3>1. CASE owner = t
      BY <1>1, <3>1 DEF Appending
    <3>2. CASE owner # t
      <4>1. draft[t] = <<>>
        BY <1>1, <3>2 DEF Appending
      <4> QED
        BY <4>1
    <3> QED
      BY <3>1, <3>2
  <2>2. more[Len(draft[t]) + 1].prev = Len(log) + (Len(draft[t]) + 1) - 1
    BY <1>2, <1>4, <1>5
  <2>3. ASSUME NEW i \in 1..Len(draft[t]) PROVE more[i].prev = Len(log) + i - 1
    BY <1>5, <2>1
  <2>4. \A i \in 1..Len(more) : i = Len(draft[t]) + 1 \/ i \in 1..Len(draft[t])
    BY <1>2, <1>5
  <2> QED
    BY <2>2, <2>3, <2>4
<1>9. Appending(t)'
  <2>1. Len(log) + Len(more) # NoOne
    BY <1>2, <1>5, NoOneAssumption
  <2> QED
    BY <1>1, <1>6, <1>8, <2>1 DEF Appending
<1>10. ASSUME NEW u \in Txns \ {t} PROVE Appending(u)'
  <2>1. owner # u
    BY <1>1, NoOneAssumption DEF Exclusive, Unlocked
  <2> QED
    BY <1>1, <1>6, <2>1, OtherWriters DEF ChainInv
<1> QED
  BY <1>1, <1>7, <1>9, <1>10 DEF ChainInv, LinearChain

\* What the end of a transaction leaves of it.
LEMMA Released ==
  ASSUME ChainInv, NEW t \in Txns, Release(t)
  PROVE  /\ owner' \in Txns \union {NoOne} /\ sharers' \subseteq Txns /\ owner' # t
         /\ writing' \in [Txns -> {"rest", "peek", "insert", "append"}]
         /\ subject' \in [Txns -> Subjects \union {NoOne}]
         /\ seed' \in [Txns -> Nat \union {NoOne}] /\ tip' \in [Txns -> Nat \union {NoOne}]
         /\ draft' \in [Txns -> Seq(Entries)]
         /\ writing'[t] = "rest" /\ tip'[t] = NoOne /\ draft'[t] = <<>>
         /\ \A u \in Txns \ {t} :
              /\ writing'[u] = writing[u] /\ subject'[u] = subject[u] /\ seed'[u] = seed[u]
              /\ tip'[u] = tip[u] /\ draft'[u] = draft[u]
              /\ owner = u <=> owner' = u
<1>1. ChainTypeOK /\ <<>> \in Seq(Entries)
  BY DEF ChainInv
<1>2. /\ owner' \in Txns \union {NoOne} /\ sharers' \subseteq Txns /\ owner' # t
      /\ \A u \in Txns \ {t} : owner = u <=> owner' = u
  BY <1>1, NoOneAssumption DEF Release, ChainTypeOK
<1>3. /\ writing' \in [Txns -> {"rest", "peek", "insert", "append"}]
      /\ subject' \in [Txns -> Subjects \union {NoOne}]
      /\ seed' \in [Txns -> Nat \union {NoOne}] /\ tip' \in [Txns -> Nat \union {NoOne}]
  BY <1>1 DEF Release, ChainTypeOK
<1>4. draft' \in [Txns -> Seq(Entries)]
  BY <1>1 DEF Release, ChainTypeOK
<1>5. /\ writing'[t] = "rest" /\ tip'[t] = NoOne /\ draft'[t] = <<>>
      /\ \A u \in Txns \ {t} :
           /\ writing'[u] = writing[u] /\ subject'[u] = subject[u] /\ seed'[u] = seed[u]
           /\ tip'[u] = tip[u] /\ draft'[u] = draft[u]
  BY <1>1 DEF Release, ChainTypeOK
<1> QED
  BY <1>2, <1>3, <1>4, <1>5

LEMMA CommitChainKeeps ==
  ASSUME ChainInv, NEW t \in Txns, CommitChain(t) PROVE ChainInv'
<1>1. /\ ChainTypeOK /\ LinearChain /\ Appending(t) /\ Release(t)
      /\ log' = log \o draft[t]
      /\ anchor' = IF tip[t] = NoOne THEN anchor ELSE tip[t]
  BY DEF ChainInv, CommitChain
<1>2. log \in Seq(Entries) /\ draft[t] \in Seq(Entries)
  BY <1>1 DEF ChainTypeOK
<1>3. log' \in Seq(Entries) /\ anchor' \in Nat \union {NoOne}
  BY <1>1, <1>2 DEF ChainTypeOK
<1>4. ChainTypeOK'
  BY <1>1, <1>3, Released DEF ChainTypeOK
<1>5. CASE owner = t
  <2>1. /\ tip[t] # NoOne /\ anchor' = Len(log) + Len(draft[t])
        /\ \A i \in 1..Len(draft[t]) : draft[t][i].prev = Len(log) + i - 1
    BY <1>1, <1>5 DEF Appending
  <2>2. /\ Len(log') = Len(log) + Len(draft[t])
        /\ \A i \in 1..Len(log) : log'[i] = log[i]
        /\ \A i \in Len(log)+1..Len(log') : log'[i] = draft[t][i - Len(log)]
    BY <1>1, <1>2
  <2>3. LinearChain'
    <3>1. ASSUME NEW i \in 1..Len(log') PROVE log'[i].prev = i - 1
      <4>1. CASE i \in 1..Len(log)
        BY <1>1, <2>2, <4>1 DEF LinearChain
      <4>2. CASE i \notin 1..Len(log)
        <5> DEFINE k == i - Len(log)
        <5>1. k \in 1..Len(draft[t]) /\ log'[i] = draft[t][k] /\ i = Len(log) + k
          <6>1. Len(log) \in Nat /\ Len(draft[t]) \in Nat /\ i \in Len(log)+1..Len(log')
            BY <1>2, <2>2, <4>2
          <6> QED
            BY <2>2, <6>1
        <5>2. draft[t][k].prev = Len(log) + k - 1
          BY <2>1, <5>1
        <5>3. Len(log) \in Nat
          BY <1>2
        <5> HIDE DEF k
        <5> QED
          BY <5>1, <5>2, <5>3
      <4> QED
        BY <4>1, <4>2
    <3> QED
      BY <2>1, <2>2, <3>1 DEF LinearChain
  <2>4. Appending(t)'
    BY Released, NoOneAssumption, <1>1 DEF Appending
  <2>5. ASSUME NEW u \in Txns \ {t} PROVE Appending(u)'
    <3>1. owner # u /\ anchor' # NoOne
      BY <1>1, <1>2, <1>5, <2>1
    <3>2. Appending(u)
      BY DEF ChainInv
    <3> QED
      BY <1>1, <3>1, <3>2, Released DEF Appending
  <2> QED
    BY <1>4, <2>3, <2>4, <2>5 DEF ChainInv
<1>6. CASE owner # t
  <2>1. draft[t] = <<>> /\ tip[t] = NoOne
    BY <1>1, <1>6 DEF Appending
  <2>2. log' = log /\ anchor' = anchor
    BY <1>1, <1>2, <2>1
  <2>3. LinearChain'
    BY <1>1, <2>2 DEF LinearChain
  <2>4. Appending(t)'
    BY Released, <1>1 DEF Appending
  <2>5. ASSUME NEW u \in Txns \ {t} PROVE Appending(u)'
    BY <1>1, <2>2, Released, OtherWriters DEF ChainInv
  <2> QED
    BY <1>4, <2>3, <2>4, <2>5 DEF ChainInv
<1> QED
  BY <1>5, <1>6

LEMMA RollbackChainKeeps ==
  ASSUME ChainInv, NEW t \in Txns, RollbackChain(t) PROVE ChainInv'
<1>1. /\ ChainTypeOK /\ LinearChain /\ Release(t) /\ log' = log /\ anchor' = anchor
  BY DEF ChainInv, RollbackChain
<1>2. ChainTypeOK'
  BY <1>1, Released DEF ChainTypeOK
<1>3. Appending(t)'
  BY Released, <1>1 DEF Appending
<1>4. ASSUME NEW u \in Txns \ {t} PROVE Appending(u)'
  BY <1>1, Released, OtherWriters DEF ChainInv
<1> QED
  BY <1>1, <1>2, <1>3, <1>4 DEF ChainInv, LinearChain

LEMMA ChainKept ==
  ASSUME ChainInv,
         \/ UNCHANGED chain
         \/ \E t \in Txns : \/ \E about \in Subjects : BeginAudit(t, about)
                            \/ Audit(t) \/ CommitChain(t) \/ RollbackChain(t)
  PROVE  ChainInv'
<1>1. CASE UNCHANGED chain
  BY <1>1 DEF ChainInv, ChainTypeOK, LinearChain, Appending, chain
<1> QED
  BY <1>1, BeginAuditKeeps, PeekKeeps, InsertKeeps, AppendEntryKeeps, CommitChainKeeps,
    RollbackChainKeeps DEF Audit

-----------------------------------------------------------------------------
(* Locks, drafts and commits.                                              *)

LEMMA Sets ==
  /\ NoOne \notin Txns /\ NoOne \notin Statuses /\ Terminal \subseteq Statuses
  /\ Threads \subseteq Txns /\ Settlers \subseteq Txns /\ Original \in Orders
  /\ Reversals \subseteq Orders /\ Original \notin Reversals
  /\ "RESULT_UNKNOWN" \in Statuses /\ "ABSENT" \notin Statuses
  /\ \A x \in Orders, s \in Statuses : <<x, s>> \in Subjects
BY NoOneAssumption, NoValueAssumption, ThreadsAssumption, OriginalAssumption, SubjectsAssumption
  DEF Terminal, Statuses, Settlers, Orders

\* An order that can be moved has a row.
LEMMA MovesAreOfRows ==
  /\ \A s : ~CanMove("ABSENT", s)
  /\ \A s : ~CanMove("REVERSED", s)
  /\ \A s \in Terminal : ~CanMove(s, s)
BY DEF CanMove, Terminal

LEMMA LockLocks ==
  ASSUME ReversalTypeOK, NEW t \in Txns, NEW x \in Orders, Lock(t, x)
  PROVE  /\ holder' \in [Orders -> Txns \union {NoOne}] /\ holder[x] = NoOne
         /\ status[x] # "ABSENT" => holder'[x] = t
         /\ \A y \in Orders : holder'[y] # holder[y] => y = x
         /\ \A y \in Orders : holder[y] # NoOne => holder'[y] = holder[y]
BY DEF Lock, ReversalTypeOK

LEMMA StageStages ==
  ASSUME ReversalTypeOK, NEW t \in Txns, NEW x \in Orders, NEW s \in Statuses, Stage(t, x, s)
  PROVE  /\ staged' \in [Txns -> [Orders -> Statuses \union {NoOne}]]
         /\ staged'[t][x] = s
         /\ \A y \in Orders \ {x} : staged'[t][y] = staged[t][y]
         /\ \A u \in Txns \ {t} : staged'[u] = staged[u]
         /\ subject'[t] = <<x, s>> /\ writing'[t] \in {"append", "peek"}
         /\ \A u \in Txns \ {t} : subject'[u] = subject[u] /\ writing'[u] = writing[u]
         /\ UNCHANGED <<log, draft>>
         /\ BeginAudit(t, <<x, s>>) /\ <<x, s>> \in Subjects
<1>1. staged' = [staged EXCEPT ![t] = [staged[t] EXCEPT ![x] = s]]
  BY DEF Stage
<1>2. staged[t] \in [Orders -> Statuses \union {NoOne}]
  BY DEF ReversalTypeOK
<1>3. /\ [staged[t] EXCEPT ![x] = s] \in [Orders -> Statuses \union {NoOne}]
      /\ [staged[t] EXCEPT ![x] = s][x] = s
      /\ \A y \in Orders \ {x} : [staged[t] EXCEPT ![x] = s][y] = staged[t][y]
  BY <1>2
<1>4. /\ staged' \in [Txns -> [Orders -> Statuses \union {NoOne}]]
      /\ staged'[t][x] = s
      /\ \A y \in Orders \ {x} : staged'[t][y] = staged[t][y]
      /\ \A u \in Txns \ {t} : staged'[u] = staged[u]
  BY <1>1, <1>3 DEF ReversalTypeOK
<1>5. BeginAudit(t, <<x, s>>) /\ <<x, s>> \in Subjects
  BY Sets DEF Stage
<1>6. /\ subject'[t] = <<x, s>> /\ writing'[t] \in {"append", "peek"}
      /\ \A u \in Txns \ {t} : subject'[u] = subject[u] /\ writing'[u] = writing[u]
      /\ UNCHANGED <<log, draft>>
  BY <1>5 DEF BeginAudit, Writes, ReversalTypeOK, ChainTypeOK
<1> QED
  BY <1>4, <1>5, <1>6

LEMMA UnlockUnlocks ==
  ASSUME ReversalTypeOK, NEW t \in Txns, Unlock(t)
  PROVE  /\ holder' \in [Orders -> Txns \union {NoOne}]
         /\ staged' \in [Txns -> [Orders -> Statuses \union {NoOne}]]
         /\ \A x \in Orders : staged'[t][x] = NoOne
         /\ \A u \in Txns \ {t} : staged'[u] = staged[u]
         /\ \A x \in Orders : /\ holder'[x] # t
                              /\ holder[x] # t => holder'[x] = holder[x]
<1>1. NoWrites \in [Orders -> Statuses \union {NoOne}] /\ \A x \in Orders : NoWrites[x] = NoOne
  BY DEF NoWrites
<1>2. staged' = [staged EXCEPT ![t] = NoWrites]
  BY DEF Unlock
<1>3. /\ staged' \in [Txns -> [Orders -> Statuses \union {NoOne}]] /\ staged'[t] = NoWrites
      /\ \A u \in Txns \ {t} : staged'[u] = staged[u]
  BY <1>1, <1>2 DEF ReversalTypeOK
<1>4. /\ holder' \in [Orders -> Txns \union {NoOne}]
      /\ \A x \in Orders : /\ holder'[x] # t
                           /\ holder[x] # t => holder'[x] = holder[x]
  BY Sets DEF Unlock, ReversalTypeOK
<1> QED
  BY <1>1, <1>3, <1>4

\* What a commit makes of each order.
LEMMA PublishPublishes ==
  ASSUME ReversalTypeOK, NEW t \in Txns, NEW source \in {"SYNC", "LATE"}, Publish(t, source)
  PROVE  /\ status' \in [Orders -> Statuses \union {"ABSENT"}]
         /\ via' \in [Orders -> {"SYNC", "LATE", NoOne}]
         /\ forwarded' \in [Orders -> SUBSET Terminal]
         /\ \A x \in Orders :
              LET w == staged[t][x] IN
                /\ w = NoOne => /\ status'[x] = status[x] /\ via'[x] = via[x]
                                /\ forwarded'[x] = forwarded[x]
                /\ w # NoOne => status'[x] = w
                /\ w \in Terminal => via'[x] = source /\ forwarded'[x] = forwarded[x] \union {w}
                /\ w \notin Terminal => via'[x] = via[x] /\ forwarded'[x] = forwarded[x]
         /\ CommitChain(t) /\ Unlock(t)
<1> DEFINE w == staged[t]
           final == {x \in Orders : w[x] \in Terminal}
<1>1. /\ status' = [x \in Orders |-> IF w[x] = NoOne THEN status[x] ELSE w[x]]
      /\ via' = [x \in Orders |-> IF x \in final THEN source ELSE via[x]]
      /\ forwarded' = [x \in Orders |-> forwarded[x] \union IF x \in final THEN {w[x]} ELSE {}]
      /\ CommitChain(t) /\ Unlock(t)
  BY DEF Publish
<1>2. w \in [Orders -> Statuses \union {NoOne}]
  BY DEF ReversalTypeOK
<1> HIDE DEF w
<1>3. status' \in [Orders -> Statuses \union {"ABSENT"}]
  BY <1>1, <1>2 DEF ReversalTypeOK
<1>4. via' \in [Orders -> {"SYNC", "LATE", NoOne}]
  BY <1>1 DEF ReversalTypeOK
<1>5. forwarded' \in [Orders -> SUBSET Terminal]
  BY <1>1 DEF ReversalTypeOK
<1>6. NoOne \notin Terminal
  BY Sets
<1>7. ASSUME NEW x \in Orders
      PROVE  /\ w[x] = NoOne => /\ status'[x] = status[x] /\ via'[x] = via[x]
                                /\ forwarded'[x] = forwarded[x]
             /\ w[x] # NoOne => status'[x] = w[x]
             /\ w[x] \in Terminal => via'[x] = source /\ forwarded'[x] = forwarded[x] \union {w[x]}
             /\ w[x] \notin Terminal => via'[x] = via[x] /\ forwarded'[x] = forwarded[x]
  BY <1>1, <1>2, <1>6
<1> QED
  BY <1>1, <1>3, <1>4, <1>5, <1>7 DEF w

-----------------------------------------------------------------------------
(* Types, the chain, and who stands where.                                 *)

BaseInv == ReversalTypeOK /\ ChainInv /\ \A t \in Txns : Standing(t)

LEMMA StartsHaveStatuses ==
  ASSUME NEW start \in Starts
  PROVE  /\ start[1] \in {"ABSENT", "RESULT_UNKNOWN", "SUCCEEDED", "FAILED"}
         /\ start[2] \in {"processing"} \union Terminal /\ start[2] # "REVERSED"
BY DEF Starts, Terminal

LEMMA BaseInvInit == Init => BaseInv
<1> SUFFICES ASSUME Init PROVE BaseInv
  OBVIOUS
<1> PICK start \in Starts : InitOf(start)
  BY DEF Init
<1> DEFINE settled == start[1] \in Terminal
           history == IF settled THEN <<[prev |-> 0, about |-> <<Original, start[1]>>]>> ELSE <<>>
<1>1. Inherited(history) /\ ChainInit
  BY DEF InitOf, Init
<1>2. history \in Seq(Entries) /\ Len(history) \in Nat
  <2>1. CASE settled
    <3>1. [prev |-> 0, about |-> <<Original, start[1]>>] \in Entries
      BY <2>1, Sets DEF Entries
    <3> QED
      BY <2>1, <3>1
  <2>2. CASE ~settled
    BY <2>2
  <2> QED
    BY <2>1, <2>2
<1>3. \A i \in 1..Len(history) : history[i].prev = i - 1
  <2>1. CASE settled
    <3>1. /\ history = <<[prev |-> 0, about |-> <<Original, start[1]>>]>>
          /\ Len(<<[prev |-> 0, about |-> <<Original, start[1]>>]>>) = 1
      BY <2>1
    <3> QED
      BY <3>1
  <2>2. CASE ~settled
    BY <2>2
  <2> QED
    BY <2>1, <2>2
<1> HIDE DEF history
<1>4. log = history /\ (anchor = NoOne \/ anchor = Len(history))
  BY <1>1 DEF Inherited
<1>5. ChainTypeOK
  <2>1. <<>> \in Seq(Entries)
    OBVIOUS
  <2> QED
    BY <1>1, <1>2, <1>4, <2>1 DEF ChainInit, ChainTypeOK
<1>6. LinearChain
  BY <1>3, <1>4 DEF LinearChain
<1>7. ASSUME NEW t \in Txns PROVE Appending(t)
  BY <1>1, Sets DEF ChainInit, Appending
<1>8. ReversalTypeOK
  <2>1. /\ status \in [Orders -> Statuses \union {"ABSENT"}]
        /\ bank \in [Orders -> {"unseen", "sent", "refused", "processing"} \union Terminal]
    BY StartsHaveStatuses DEF InitOf, Statuses
  <2>2. via \in [Orders -> {"SYNC", "LATE", NoOne}] /\ forwarded \in [Orders -> SUBSET Terminal]
    BY DEF InitOf
  <2>3. /\ intent \in [Threads -> Reversals] /\ pc \in [Txns -> Labels]
        /\ answer \in [Threads -> Endings \union {NoOne}]
        /\ verdict \in [Settlers -> (Orders \X Terminal) \union {NoOne}]
        /\ holder \in [Orders -> Txns \union {NoOne}]
        /\ said \in [Reversals -> Outcomes \union {NoOne}]
    BY DEF Init, Labels
  <2>4. staged \in [Txns -> [Orders -> Statuses \union {NoOne}]]
    BY DEF Init, NoWrites
  <2> QED
    BY <1>5, <2>1, <2>2, <2>3, <2>4 DEF ReversalTypeOK
<1>9. ASSUME NEW t \in Txns PROVE Standing(t)
  BY <1>1 DEF Init, ChainInit, Standing
<1> QED
  BY <1>5, <1>6, <1>7, <1>8, <1>9 DEF BaseInv, ChainInv

LEMMA ReversalStatusRange ==
  ASSUME NEW a
  PROVE  /\ ReversalStatus(a) \in {"SUCCEEDED", "RESULT_UNKNOWN", "FAILED"}
         /\ ReversalStatus(a) \in Statuses /\ CanMove("ACCEPTED", ReversalStatus(a))
         /\ ReversalStatus(a) = "SUCCEEDED" <=> a = "SUCCESS"
BY DEF ReversalStatus, Statuses, CanMove, Terminal

\* A verdict that is taken is a move.
LEMMA TakesMoves ==
  ASSUME NEW x, NEW s, Takes(x, s)
  PROVE  CanMove(status[x], s)
BY DEF Takes, CanMove

LEMMA OutcomeRange ==
  ASSUME NEW s, NEW e, NEW b
  PROVE  /\ Outcome(s, e, b) \in Outcomes
         /\ Outcome(s, e, b) = "NOT_APPLIED" => s = "FAILED" /\ e
         /\ Outcome(s, e, b) # NoOne
<1>1. /\ Outcome(s, e, b) \in Outcomes
      /\ Outcome(s, e, b) = "NOT_APPLIED" => s = "FAILED" /\ e
  BY DEF Outcome, Outcomes
<1> QED
  BY <1>1, NoValueAssumption

\* A step of one transaction that moves only its own frame.
LEMMA StandingOthers ==
  ASSUME BaseInv, NEW t \in Txns, NEW u \in Txns \ {t},
         writing'[u] = writing[u], pc'[u] = pc[u], u \in Settlers => verdict'[u] = verdict[u]
  PROVE  Standing(u)'
BY DEF BaseInv, Standing, Settlers

LEMMA AtMoves ==
  ASSUME ReversalTypeOK, NEW t \in Txns, NEW label \in Labels, At(t, label)
  PROVE  /\ pc' \in [Txns -> Labels] /\ pc'[t] = label
         /\ \A u \in Txns \ {t} : pc'[u] = pc[u]
BY DEF At, ReversalTypeOK

\* The steps that leave the chain alone: only the frame of one request moves.
LEMMA QuietStep ==
  ASSUME BaseInv, UNCHANGED <<chain, via, forwarded, said, intent, verdict, locks>>,
         NEW t \in Threads, NEW label \in {"dispatch", "calling", "answered", "done"}, At(t, label),
         pc[t] \in {"register", "dispatch", "calling"},
         status' \in [Orders -> Statuses \union {"ABSENT"}],
         answer' \in [Threads -> Endings \union {NoOne}],
         bank' \in [Orders -> {"unseen", "sent", "refused", "processing"} \union Terminal]
  PROVE  BaseInv'
<1>1. t \in Txns /\ label \in Labels /\ ReversalTypeOK
  BY Sets DEF Labels, BaseInv
<1>2. ChainInv'
  BY ChainKept DEF BaseInv
<1>3. /\ pc' \in [Txns -> Labels] /\ pc'[t] = label
      /\ \A u \in Txns \ {t} : pc'[u] = pc[u]
  BY <1>1, AtMoves
<1>4. ReversalTypeOK'
  BY <1>1, <1>2, <1>3 DEF ReversalTypeOK, ChainInv, locks
<1>5. Standing(t)'
  <2>1. writing'[t] = writing[t] /\ Standing(t)
    BY <1>1 DEF chain, BaseInv
  <2> QED
    BY <1>3, <2>1 DEF Standing
<1>6. ASSUME NEW u \in Txns \ {t} PROVE Standing(u)'
  BY <1>1, <1>3, StandingOthers DEF chain
<1> QED
  BY <1>2, <1>4, <1>5, <1>6 DEF BaseInv

LEMMA RequestsAreQuiet ==
  ASSUME BaseInv, NEW p \in Threads,
         Register(p) \/ Dispatch(p) \/ \E a \in Endings : Answered(p, a)
  PROVE  BaseInv'
<1>1. ReversalTypeOK /\ intent[p] \in Reversals /\ intent[p] \in Orders
  BY Sets DEF BaseInv, ReversalTypeOK
<1>2. CASE Register(p)
  <2>1. /\ status' \in [Orders -> Statuses \union {"ABSENT"}]
        /\ \E label \in {"dispatch", "calling", "answered", "done"} : At(p, label)
    BY <1>1, <1>2 DEF Register, ReversalTypeOK, Statuses
  <2> QED
    BY <1>1, <1>2, <2>1, QuietStep DEF Register, ReversalTypeOK
<1>3. CASE Dispatch(p)
  <2>1. bank' \in [Orders -> {"unseen", "sent", "refused", "processing"} \union Terminal]
    BY <1>1, <1>3 DEF Dispatch, ReversalTypeOK
  <2> QED
    BY <1>1, <1>3, <2>1, QuietStep DEF Dispatch, ReversalTypeOK, rows
<1>4. ASSUME NEW a \in Endings, Answered(p, a) PROVE BaseInv'
  <2>1. answer' \in [Threads -> Endings \union {NoOne}]
    BY <1>1, <1>4 DEF Answered, ReversalTypeOK
  <2> QED
    BY <1>1, <1>4, <2>1, QuietStep DEF Answered, ReversalTypeOK, rows
<1> QED
  BY <1>2, <1>3, <1>4

-----------------------------------------------------------------------------
(* The steps that take a row.                                              *)

\* Where LockReversal, LockOriginal and LockVerdict agree: the row of x is
\* locked, and moved if its status allows it.
TakesRow(t, x) ==
  /\ Lock(t, x)
  /\ \/ UNCHANGED <<chain, staged>>
     \/ \E s \in {"RESULT_UNKNOWN"} \union Terminal : CanMove(status[x], s) /\ Stage(t, x, s)
  /\ UNCHANGED <<rows, intent, answer, verdict, bank>>
  /\ writing[t] = "rest"
  /\ \/ At(t, "commit")
     \/ At(t, "flip") /\ t \in Threads

LEMMA LockReversalTakesRow ==
  ASSUME BaseInv, NEW p \in Threads, LockReversal(p)
  PROVE  TakesRow(p, intent[p])
<1>1. pc[p] = "answered" /\ Standing(p) /\ p \in Txns
  BY Sets DEF LockReversal, BaseInv
<1>2. writing[p] = "rest"
  BY <1>1 DEF Standing
<1> DEFINE s == ReversalStatus(answer[p])
<1>3. s \in {"RESULT_UNKNOWN"} \union Terminal /\ CanMove("ACCEPTED", s)
  BY ReversalStatusRange DEF Terminal
<1>4. \/ status[intent[p]] = "ACCEPTED" /\ Stage(p, intent[p], s)
      \/ UNCHANGED <<chain, staged>>
  BY DEF LockReversal
<1>5. At(p, "commit") \/ At(p, "flip")
  BY DEF LockReversal
<1> HIDE DEF s
<1> QED
  BY <1>2, <1>3, <1>4, <1>5 DEF LockReversal, TakesRow

LEMMA LockOriginalTakesRow ==
  ASSUME BaseInv, NEW p \in Threads, LockOriginal(p)
  PROVE  TakesRow(p, Original)
<1>1. "REVERSED" \in {"RESULT_UNKNOWN"} \union Terminal
  BY DEF Terminal
<1> QED
  BY <1>1 DEF LockOriginal, TakesRow, Flips

LEMMA LockVerdictTakesRow ==
  ASSUME BaseInv, NEW q \in Settlers, LockVerdict(q)
  PROVE  /\ verdict[q] \in Orders \X Terminal
         /\ TakesRow(q, verdict[q][1])
<1>1. pc[q] = "heard" /\ Standing(q) /\ q \in Txns
  BY Sets DEF LockVerdict, BaseInv
<1>2. writing[q] = "rest" /\ verdict[q] \in Orders \X Terminal
  BY <1>1 DEF Standing
<1> DEFINE x == verdict[q][1]
           s == verdict[q][2]
<1>3. x \in Orders /\ s \in Terminal
  BY <1>2
<1>4. \/ Takes(x, s) /\ Stage(q, x, s)
      \/ UNCHANGED <<chain, staged>>
  BY DEF LockVerdict
<1>5. Lock(q, x) /\ At(q, "commit") /\ UNCHANGED <<rows, intent, answer, verdict, bank>>
  BY DEF LockVerdict
<1> HIDE DEF x, s
<1>6. TakesRow(q, x)
  BY <1>2, <1>3, <1>4, <1>5, TakesMoves DEF TakesRow
<1> QED
  BY <1>2, <1>6 DEF x

LEMMA TakesRowTakes ==
  ASSUME BaseInv, NEW t \in Txns, NEW x \in Orders, TakesRow(t, x)
  PROVE  /\ BaseInv'
         /\ \A u \in Txns \ {t} :
              /\ staged'[u] = staged[u] /\ writing'[u] = writing[u] /\ subject'[u] = subject[u]
              /\ pc'[u] = pc[u]
         /\ UNCHANGED <<log, draft>>
<1>1. ReversalTypeOK /\ ChainInv
  BY DEF BaseInv
<1>2. /\ holder' \in [Orders -> Txns \union {NoOne}]
      /\ UNCHANGED <<rows, intent, answer, verdict, bank>>
  BY <1>1, LockLocks DEF TakesRow
<1>3. /\ pc' \in [Txns -> Labels] /\ pc'[t] \in {"flip", "commit"}
      /\ pc'[t] = "flip" => t \in Threads
      /\ \A u \in Txns \ {t} : pc'[u] = pc[u]
  <2>1. "flip" \in Labels /\ "commit" \in Labels
    BY DEF Labels
  <2> QED
    BY <1>1, <2>1, AtMoves DEF TakesRow
<1>4. /\ ChainInv' /\ staged' \in [Txns -> [Orders -> Statuses \union {NoOne}]]
      /\ \A u \in Txns \ {t} :
           staged'[u] = staged[u] /\ writing'[u] = writing[u] /\ subject'[u] = subject[u]
      /\ UNCHANGED <<log, draft>>
  <2>1. CASE UNCHANGED <<chain, staged>>
    <3>1. ChainInv'
      BY <1>1, <2>1, ChainKept
    <3> QED
      BY <1>1, <2>1, <3>1 DEF chain, ReversalTypeOK
  <2>2. ASSUME NEW s \in {"RESULT_UNKNOWN"} \union Terminal, Stage(t, x, s)
        PROVE  /\ ChainInv' /\ staged' \in [Txns -> [Orders -> Statuses \union {NoOne}]]
               /\ \A u \in Txns \ {t} :
                    staged'[u] = staged[u] /\ writing'[u] = writing[u] /\ subject'[u] = subject[u]
               /\ UNCHANGED <<log, draft>>
    <3>1. s \in Statuses
      BY Sets
    <3>2. /\ BeginAudit(t, <<x, s>>) /\ <<x, s>> \in Subjects
          /\ staged' \in [Txns -> [Orders -> Statuses \union {NoOne}]]
          /\ \A u \in Txns \ {t} :
               staged'[u] = staged[u] /\ writing'[u] = writing[u] /\ subject'[u] = subject[u]
          /\ UNCHANGED <<log, draft>>
      BY <1>1, <2>2, <3>1, StageStages
    <3>3. ChainInv'
      BY <1>1, <3>2, BeginAuditKeeps
    <3> QED
      BY <3>2, <3>3
  <2> QED
    BY <2>1, <2>2 DEF TakesRow
<1>5. ReversalTypeOK'
  BY <1>1, <1>2, <1>3, <1>4 DEF ReversalTypeOK, ChainInv, rows
<1>6. Standing(t)'
  BY <1>3 DEF Standing
<1>7. ASSUME NEW u \in Txns \ {t} PROVE Standing(u)'
  BY <1>2, <1>3, <1>4, StandingOthers
<1> QED
  BY <1>3, <1>4, <1>5, <1>6, <1>7 DEF BaseInv

-----------------------------------------------------------------------------
(* The steps that end a transaction, and those of others.                  *)

\* Where Complete and Settle agree.
Ends(t, source) ==
  /\ pc[t] = "commit" /\ Publish(t, source)
  /\ UNCHANGED <<intent, answer, bank>>

LEMMA Ending ==
  ASSUME BaseInv, NEW t \in Txns, NEW label \in {"done", "failed", "idle"}, At(t, label),
         Unlock(t), CommitChain(t) \/ RollbackChain(t), UNCHANGED <<intent, answer, bank>>,
         status' \in [Orders -> Statuses \union {"ABSENT"}],
         via' \in [Orders -> {"SYNC", "LATE", NoOne}],
         forwarded' \in [Orders -> SUBSET Terminal],
         said' \in [Reversals -> Outcomes \union {NoOne}],
         \/ verdict' = verdict
         \/ t \in Settlers /\ verdict' = [verdict EXCEPT ![t] = NoOne]
  PROVE  /\ BaseInv' /\ pc'[t] = label
         /\ \A u \in Txns \ {t} :
              /\ pc'[u] = pc[u] /\ staged'[u] = staged[u]
              /\ writing'[u] = writing[u] /\ subject'[u] = subject[u] /\ draft'[u] = draft[u]
         /\ \A x \in Orders : staged'[t][x] = NoOne
         /\ writing'[t] = "rest" /\ draft'[t] = <<>>
         /\ \A x \in Orders : holder[x] # t => holder'[x] = holder[x]
<1>1. ReversalTypeOK /\ ChainInv /\ Release(t)
  BY DEF BaseInv, CommitChain, RollbackChain
<1>2. ChainInv'
  BY <1>1, ChainKept
<1>3. /\ pc' \in [Txns -> Labels] /\ pc'[t] = label
      /\ \A u \in Txns \ {t} : pc'[u] = pc[u]
  BY <1>1, AtMoves DEF Labels
<1>4. /\ verdict' \in [Settlers -> (Orders \X Terminal) \union {NoOne}]
      /\ \A u \in Txns \ {t} : u \in Settlers => verdict'[u] = verdict[u]
  BY <1>1 DEF ReversalTypeOK
<1>5. /\ holder' \in [Orders -> Txns \union {NoOne}]
      /\ staged' \in [Txns -> [Orders -> Statuses \union {NoOne}]]
      /\ \A x \in Orders : staged'[t][x] = NoOne
      /\ \A u \in Txns \ {t} : staged'[u] = staged[u]
      /\ \A x \in Orders : holder[x] # t => holder'[x] = holder[x]
  BY <1>1, UnlockUnlocks
<1>6. ReversalTypeOK'
  BY <1>1, <1>2, <1>3, <1>4, <1>5 DEF ReversalTypeOK, ChainInv
<1>7. /\ writing'[t] = "rest" /\ draft'[t] = <<>>
      /\ \A u \in Txns \ {t} :
           writing'[u] = writing[u] /\ subject'[u] = subject[u] /\ draft'[u] = draft[u]
  BY <1>1, Released
<1>8. Standing(t)'
  BY <1>3, <1>7 DEF Standing
<1>9. ASSUME NEW u \in Txns \ {t} PROVE Standing(u)'
  BY <1>3, <1>4, <1>7, StandingOthers
<1> QED
  BY <1>2, <1>3, <1>5, <1>6, <1>7, <1>8, <1>9 DEF BaseInv

\* The effect of a commit, of a request or of a settler.
LEMMA CommitEnds ==
  ASSUME BaseInv,
         NEW t \in Txns, (t \in Threads /\ Complete(t)) \/ (t \in Settlers /\ Settle(t))
  PROVE  /\ Ends(t, IF t \in Threads THEN "SYNC" ELSE "LATE")
         /\ BaseInv'
         /\ pc'[t] = IF t \in Threads THEN "done" ELSE "idle"
         /\ \A u \in Txns \ {t} :
              /\ pc'[u] = pc[u] /\ staged'[u] = staged[u]
              /\ writing'[u] = writing[u] /\ subject'[u] = subject[u] /\ draft'[u] = draft[u]
         /\ \A x \in Orders : staged'[t][x] = NoOne
         /\ writing'[t] = "rest" /\ draft'[t] = <<>>
         /\ \A x \in Orders : holder[x] # t => holder'[x] = holder[x]
<1>1. ReversalTypeOK
  BY DEF BaseInv
<1>2. CASE t \in Threads /\ Complete(t)
  <2>1. Ends(t, "SYNC") /\ At(t, "done") /\ UNCHANGED verdict
    BY <1>2 DEF Complete, Ends
  <2>2. said' \in [Reversals -> Outcomes \union {NoOne}]
    BY <1>1, <1>2, OutcomeRange DEF Complete, ReversalTypeOK
  <2>3. /\ status' \in [Orders -> Statuses \union {"ABSENT"}]
        /\ via' \in [Orders -> {"SYNC", "LATE", NoOne}]
        /\ forwarded' \in [Orders -> SUBSET Terminal]
        /\ CommitChain(t) /\ Unlock(t)
    BY <1>1, <2>1, PublishPublishes DEF Ends
  <2> QED
    BY <1>2, <2>1, <2>2, <2>3, Ending DEF Ends
<1>3. CASE t \in Settlers /\ Settle(t)
  <2>1. /\ Ends(t, "LATE") /\ At(t, "idle") /\ UNCHANGED said
        /\ verdict' = [verdict EXCEPT ![t] = NoOne]
    BY <1>3 DEF Settle, Ends
  <2>2. /\ status' \in [Orders -> Statuses \union {"ABSENT"}]
        /\ via' \in [Orders -> {"SYNC", "LATE", NoOne}]
        /\ forwarded' \in [Orders -> SUBSET Terminal]
        /\ CommitChain(t) /\ Unlock(t)
    BY <1>1, <2>1, PublishPublishes DEF Ends
  <2>3. said' \in [Reversals -> Outcomes \union {NoOne}] /\ t \notin Threads
    BY <1>1, <1>3, <2>1 DEF ReversalTypeOK, Settlers
  <2> QED
    BY <1>3, <2>1, <2>2, <2>3, Ending DEF Ends
<1> QED
  BY <1>2, <1>3

LEMMA AbortEnds ==
  ASSUME BaseInv, NEW t \in Txns, Abort(t)
  PROVE  /\ BaseInv' /\ UNCHANGED <<rows, intent, answer, bank, log>>
         /\ pc'[t] = IF t \in Threads THEN "failed" ELSE "idle"
         /\ \A u \in Txns \ {t} :
              /\ pc'[u] = pc[u] /\ staged'[u] = staged[u]
              /\ writing'[u] = writing[u] /\ subject'[u] = subject[u] /\ draft'[u] = draft[u]
         /\ \A x \in Orders : staged'[t][x] = NoOne
         /\ writing'[t] = "rest" /\ draft'[t] = <<>>
         /\ \A x \in Orders : holder[x] # t => holder'[x] = holder[x]
<1>1. ReversalTypeOK
  BY DEF BaseInv
<1>2. RollbackChain(t) /\ Unlock(t) /\ UNCHANGED <<rows, intent, answer, bank, log>>
  BY DEF Abort, RollbackChain
<1>3. /\ status' \in [Orders -> Statuses \union {"ABSENT"}]
      /\ via' \in [Orders -> {"SYNC", "LATE", NoOne}]
      /\ forwarded' \in [Orders -> SUBSET Terminal]
      /\ said' \in [Reversals -> Outcomes \union {NoOne}]
  BY <1>1, <1>2 DEF ReversalTypeOK, rows
<1>4. CASE t \in Threads
  <2>1. At(t, "failed") /\ verdict' = verdict
    BY <1>4 DEF Abort
  <2> QED
    BY <1>2, <1>3, <1>4, <2>1, Ending
<1>5. CASE t \notin Threads
  <2>1. At(t, "idle") /\ verdict' = [verdict EXCEPT ![t] = NoOne] /\ t \in Settlers
    BY <1>5 DEF Abort, Settlers
  <2> QED
    BY <1>2, <1>3, <1>5, <2>1, Ending
<1> QED
  BY <1>4, <1>5

LEMMA AuditStepKeeps ==
  ASSUME BaseInv, NEW t \in Txns, AuditStep(t)
  PROVE  /\ BaseInv' /\ UNCHANGED <<rows, intent, pc, answer, verdict, locks, bank, log>>
         /\ \A u \in Txns \ {t} : writing'[u] = writing[u] /\ draft'[u] = draft[u]
         /\ subject' = subject
         /\ \/ writing[t] # "rest" /\ writing'[t] # "rest" /\ draft' = draft
            \/ AppendEntry(t)
<1>1. /\ ReversalTypeOK /\ ChainInv /\ Audit(t)
      /\ UNCHANGED <<rows, intent, pc, answer, verdict, locks, bank>>
  BY DEF BaseInv, AuditStep
<1>2. ChainInv'
  BY <1>1, ChainKept
<1>3. ReversalTypeOK'
  BY <1>1, <1>2 DEF ReversalTypeOK, ChainInv, rows, locks
<1>4. /\ writing[t] # "rest"
      /\ \A u \in Txns \ {t} : writing'[u] = writing[u] /\ draft'[u] = draft[u]
      /\ subject' = subject /\ log' = log
      /\ \/ writing[t] # "rest" /\ writing'[t] # "rest" /\ draft' = draft
         \/ AppendEntry(t)
  BY <1>1 DEF Audit, Peek, Insert, AppendEntry, Writes, ReversalTypeOK, ChainTypeOK
<1>5. ASSUME NEW u \in Txns PROVE Standing(u)'
  BY <1>1, <1>4 DEF BaseInv, Standing
<1> QED
  BY <1>1, <1>2, <1>3, <1>4, <1>5 DEF BaseInv

LEMMA HearKeeps ==
  ASSUME BaseInv, NEW q \in Settlers, NEW x \in Orders, Hear(q, x)
  PROVE  /\ BaseInv' /\ verdict'[q] = <<x, bank[x]>>
         /\ \A u \in Settlers \ {q} : verdict'[u] = verdict[u]
         /\ pc'[q] = "heard" /\ \A u \in Txns \ {q} : pc'[u] = pc[u]
<1>1. /\ ReversalTypeOK /\ ChainInv /\ q \in Txns /\ At(q, "heard")
      /\ UNCHANGED <<chain, rows, intent, answer, locks, bank>>
      /\ pc[q] = "idle"
  BY Sets DEF BaseInv, Hear
<1>2. ChainInv'
  BY <1>1, ChainKept
<1>3. /\ verdict'[q] = <<x, bank[x]>> /\ <<x, bank[x]>> \in Orders \X Terminal
      /\ verdict' \in [Settlers -> (Orders \X Terminal) \union {NoOne}]
      /\ \A u \in Settlers \ {q} : verdict'[u] = verdict[u]
  BY <1>1 DEF Hear, ReversalTypeOK
<1>4. /\ pc' \in [Txns -> Labels] /\ pc'[q] = "heard"
      /\ \A u \in Txns \ {q} : pc'[u] = pc[u]
  BY <1>1, AtMoves DEF Labels
<1>5. ReversalTypeOK'
  BY <1>1, <1>2, <1>3, <1>4 DEF ReversalTypeOK, ChainInv, rows, locks
<1>6. Standing(q)'
  <2>1. writing'[q] = writing[q] /\ Standing(q) /\ q \notin Threads
    BY <1>1 DEF chain, BaseInv, Settlers
  <2> QED
    BY <1>1, <1>3, <1>4, <2>1 DEF Standing
<1>7. ASSUME NEW u \in Txns \ {q} PROVE Standing(u)'
  BY <1>1, <1>3, <1>4, StandingOthers DEF chain
<1> QED
  BY <1>2, <1>3, <1>4, <1>5, <1>6, <1>7 DEF BaseInv

\* The steps of wedap, and none at all.
LEMMA BankKeeps ==
  ASSUME BaseInv, UNCHANGED <<chain, rows, intent, pc, answer, verdict, locks>>,
         bank' \in [Orders -> {"unseen", "sent", "refused", "processing"} \union Terminal]
  PROVE  BaseInv'
<1>1. ChainInv' /\ ReversalTypeOK
  BY ChainKept DEF BaseInv
<1>2. ReversalTypeOK'
  BY <1>1 DEF ReversalTypeOK, ChainInv, rows, locks
<1>3. ASSUME NEW u \in Txns PROVE Standing(u)'
  BY DEF BaseInv, Standing, chain
<1> QED
  BY <1>1, <1>2, <1>3 DEF BaseInv

LEMMA BankMoves ==
  ASSUME BaseInv, BankSettles \/ \E r \in Reversals : BankDecides(r)
  PROVE  /\ BaseInv' /\ UNCHANGED <<chain, rows, intent, pc, answer, verdict, locks>>
         /\ \/ /\ bank'[Original] \in Terminal /\ bank[Original] \in {"processing", "SUCCEEDED"}
               /\ bank[Original] = "SUCCEEDED" => bank'[Original] = "REVERSED"
               /\ \A r \in Reversals : bank'[r] = bank[r]
            \/ \E r \in Reversals :
                 /\ bank[r] = "sent" /\ \A u \in Reversals \ {r} : bank'[u] = bank[u]
                 /\ \/ bank'[r] \in {"refused", "FAILED"} /\ bank'[Original] = bank[Original]
                    \/ bank'[r] = "SUCCEEDED" /\ bank'[Original] = "REVERSED"
<1>1. bank \in [Orders -> {"unseen", "sent", "refused", "processing"} \union Terminal]
  BY DEF BaseInv, ReversalTypeOK
<1>2. CASE BankSettles
  <2>1. bank' \in [Orders -> {"unseen", "sent", "refused", "processing"} \union Terminal]
    BY <1>1, <1>2, Sets DEF BankSettles, Terminal
  <2>2. UNCHANGED <<chain, rows, intent, pc, answer, verdict, locks>>
    BY <1>2 DEF BankSettles
  <2>3. /\ bank'[Original] \in Terminal /\ bank[Original] \in {"processing", "SUCCEEDED"}
        /\ bank[Original] = "SUCCEEDED" => bank'[Original] = "REVERSED"
        /\ \A r \in Reversals : bank'[r] = bank[r]
    BY <1>1, <1>2, Sets DEF BankSettles, Terminal
  <2> QED
    BY <2>1, <2>2, <2>3, BankKeeps
<1>3. ASSUME NEW r \in Reversals, BankDecides(r)
      PROVE  /\ bank' \in [Orders -> {"unseen", "sent", "refused", "processing"} \union Terminal]
             /\ UNCHANGED <<chain, rows, intent, pc, answer, verdict, locks>>
             /\ bank[r] = "sent" /\ \A u \in Reversals \ {r} : bank'[u] = bank[u]
             /\ \/ bank'[r] \in {"refused", "FAILED"} /\ bank'[Original] = bank[Original]
                \/ bank'[r] = "SUCCEEDED" /\ bank'[Original] = "REVERSED"
  <2>1. ASSUME NEW no \in {"refused", "FAILED"}, bank' = [bank EXCEPT ![r] = no]
        PROVE  /\ bank' \in [Orders -> {"unseen", "sent", "refused", "processing"} \union Terminal]
               /\ bank'[r] \in {"refused", "FAILED"} /\ bank'[Original] = bank[Original]
               /\ \A u \in Reversals \ {r} : bank'[u] = bank[u]
    BY <1>1, <2>1, Sets DEF Terminal
  <2>2. ASSUME bank' = [bank EXCEPT ![r] = "SUCCEEDED", ![Original] = "REVERSED"]
        PROVE  /\ bank' \in [Orders -> {"unseen", "sent", "refused", "processing"} \union Terminal]
               /\ bank'[r] = "SUCCEEDED" /\ bank'[Original] = "REVERSED"
               /\ \A u \in Reversals \ {r} : bank'[u] = bank[u]
    BY <1>1, <2>2, Sets DEF Terminal
  <2> QED
    BY <1>3, <2>1, <2>2 DEF BankDecides
<1> QED
  BY <1>2, <1>3, BankKeeps

LEMMA BaseInvNext == BaseInv /\ [Next]_vars => BaseInv'
<1> SUFFICES ASSUME BaseInv, [Next]_vars PROVE BaseInv'
  OBVIOUS
<1>1. ASSUME NEW t \in Txns, AuditStep(t) \/ Abort(t) PROVE BaseInv'
  BY <1>1, AuditStepKeeps, AbortEnds
<1>2. ASSUME NEW p \in Threads, Request(p) PROVE BaseInv'
  <2>1. CASE Register(p) \/ Dispatch(p) \/ \E a \in Endings : Answered(p, a)
    BY <2>1, RequestsAreQuiet
  <2>2. p \in Txns /\ intent[p] \in Orders
    BY Sets DEF BaseInv, ReversalTypeOK
  <2>3. CASE LockReversal(p)
    BY <2>2, <2>3, LockReversalTakesRow, TakesRowTakes
  <2>4. CASE LockOriginal(p)
    BY <2>2, <2>4, LockOriginalTakesRow, TakesRowTakes, Sets
  <2>5. CASE Complete(p)
    BY <2>2, <2>5, CommitEnds
  <2> QED
    BY <1>2, <2>1, <2>3, <2>4, <2>5 DEF Request
<1>3. ASSUME NEW q \in Settlers, Settler(q) PROVE BaseInv'
  <2>1. q \in Txns
    BY Sets
  <2>2. CASE \E x \in Orders : Hear(q, x)
    BY <2>2, HearKeeps
  <2>3. CASE LockVerdict(q)
    <3>1. verdict[q] \in Orders \X Terminal /\ TakesRow(q, verdict[q][1])
      BY <2>3, LockVerdictTakesRow
    <3>2. verdict[q][1] \in Orders
      BY <3>1
    <3> QED
      BY <2>1, <3>1, <3>2, TakesRowTakes
  <2>4. CASE Settle(q)
    BY <2>1, <2>4, CommitEnds
  <2> QED
    BY <1>3, <2>2, <2>3, <2>4 DEF Settler
<1>4. CASE BankSettles \/ \E r \in Reversals : BankDecides(r)
  BY <1>4, BankMoves
<1>5. CASE UNCHANGED vars
  <2>1. /\ UNCHANGED <<chain, rows, intent, pc, answer, verdict, locks>>
        /\ bank' \in [Orders -> {"unseen", "sent", "refused", "processing"} \union Terminal]
    BY <1>5 DEF vars, BaseInv, ReversalTypeOK
  <2> QED
    BY <2>1, BankKeeps
<1> QED
  BY <1>1, <1>2, <1>3, <1>4, <1>5 DEF Next

-----------------------------------------------------------------------------
(* Entries about a status of an order.                                     *)

LEMMA AboutAppended ==
  ASSUME NEW seq \in Seq(Entries), NEW e \in Entries, NEW x, NEW s
  PROVE  About(Append(seq, e), x, s) =
           About(seq, x, s) \union (IF e.about = <<x, s>> THEN {Len(seq) + 1} ELSE {})
<1>1. /\ Len(seq) \in Nat /\ Len(Append(seq, e)) = Len(seq) + 1
      /\ Append(seq, e)[Len(seq) + 1] = e
      /\ \A i \in 1..Len(seq) : Append(seq, e)[i] = seq[i]
  OBVIOUS
<1>2. 1..(Len(seq) + 1) = (1..Len(seq)) \union {Len(seq) + 1}
  BY <1>1
<1> QED
  BY <1>1, <1>2 DEF About

LEMMA AboutJoined ==
  ASSUME NEW a \in Seq(Entries), NEW b \in Seq(Entries), NEW x, NEW s
  PROVE  /\ Never(a, x, s) /\ Never(b, x, s) => Never(a \o b, x, s)
         /\ Once(a, x, s) /\ Never(b, x, s) => Once(a \o b, x, s)
         /\ Never(a, x, s) /\ Once(b, x, s) => Once(a \o b, x, s)
<1>1. /\ Len(a) \in Nat /\ Len(b) \in Nat /\ Len(a \o b) = Len(a) + Len(b)
      /\ \A i \in 1..Len(a) : (a \o b)[i] = a[i]
      /\ \A i \in Len(a)+1..Len(a \o b) : (a \o b)[i] = b[i - Len(a)]
  OBVIOUS
<1>2. \A i \in 1..Len(a \o b) : i \in 1..Len(a) \/ (i \in Len(a)+1..Len(a \o b) /\ i - Len(a) \in 1..Len(b))
  BY <1>1
<1>3. \A i \in 1..Len(a \o b) :
        i \in About(a \o b, x, s) <=>
          i \in About(a, x, s) \/ (i \in Len(a)+1..Len(a \o b) /\ i - Len(a) \in About(b, x, s))
  BY <1>1, <1>2 DEF About
<1>4. ASSUME Never(a, x, s), Never(b, x, s) PROVE Never(a \o b, x, s)
  BY <1>3, <1>4 DEF Never, About
<1>5. ASSUME Once(a, x, s), Never(b, x, s) PROVE Once(a \o b, x, s)
  <2> PICK k \in 1..Len(a) : About(a, x, s) = {k}
    BY <1>5 DEF Once
  <2>1. k \in 1..Len(a \o b)
    BY <1>1
  <2>2. About(a \o b, x, s) = {k}
    BY <1>3, <1>5, <2>1 DEF Never, About
  <2> QED
    BY <2>1, <2>2 DEF Once
<1>6. ASSUME Never(a, x, s), Once(b, x, s) PROVE Once(a \o b, x, s)
  <2> PICK k \in 1..Len(b) : About(b, x, s) = {k}
    BY <1>6 DEF Once
  <2>1. Len(a) + k \in 1..Len(a \o b) /\ Len(a) + k \in Len(a)+1..Len(a \o b)
    BY <1>1
  <2>2. \A i \in 1..Len(a \o b) : i \in About(a \o b, x, s) <=> i = Len(a) + k
    BY <1>1, <1>3, <1>6, <2>1 DEF Never
  <2>3. About(a \o b, x, s) = {Len(a) + k}
    BY <2>1, <2>2 DEF About
  <2> QED
    BY <2>1, <2>3 DEF Once
<1> QED
  BY <1>4, <1>5, <1>6

LEMMA NothingIsNever ==
  ASSUME NEW x, NEW s PROVE Never(<<>>, x, s)
BY DEF Never, About

\* Drafting in the next state, in terms of what the transaction has then.
LEMMA DraftingNext ==
  ASSUME NEW t \in Txns,
         \A x \in Orders, s \in Statuses :
           LET pending == writing'[t] # "rest" /\ subject'[t] = <<x, s>> IN
             IF staged'[t][x] = s
               THEN IF pending THEN Never(draft'[t], x, s) ELSE Once(draft'[t], x, s)
               ELSE ~pending /\ Never(draft'[t], x, s)
  PROVE  Drafting(t)'
BY DEF Drafting

LEMMA DraftingSame ==
  ASSUME NEW t \in Txns, Drafting(t), staged'[t] = staged[t], draft'[t] = draft[t],
         subject'[t] = subject[t], writing[t] # "rest" <=> writing'[t] # "rest"
  PROVE  Drafting(t)'
BY DraftingNext DEF Drafting

-----------------------------------------------------------------------------
(* What the ledger and the chain tell.                                     *)

LEMMA RowInvInit == Init => RowInv
<1> SUFFICES ASSUME Init PROVE RowInv
  OBVIOUS
<1> PICK start \in Starts : InitOf(start)
  BY DEF Init
<1>1. start[1] \in {"ABSENT", "RESULT_UNKNOWN", "SUCCEEDED", "FAILED"}
  BY StartsHaveStatuses
<1>2. ASSUME NEW t \in Txns PROVE Holding(t)
  BY <1>2 DEF Init, Holding, NoWrites
<1>3. ASSUME NEW t \in Txns PROVE Drafting(t)
  <2>1. writing[t] = "rest" /\ draft[t] = <<>> /\ \A x \in Orders : staged[t][x] = NoOne
    BY DEF Init, ChainInit, NoWrites
  <2> QED
    BY <2>1, NothingIsNever, Sets DEF Drafting
<1>4. ASSUME NEW x \in Orders PROVE Forwarded(x)
  BY <1>1 DEF InitOf, Forwarded, Terminal
<1>5. ASSUME NEW x \in Orders PROVE Told(x)
  <2> SUFFICES ASSUME NEW s \in Terminal
               PROVE  IF s \in forwarded[x] THEN Once(log, x, s) ELSE Never(log, x, s)
    BY DEF Told
  <2>1. forwarded[x] = IF x = Original /\ start[1] \in Terminal THEN {start[1]} ELSE {}
    BY DEF InitOf
  <2>2. CASE start[1] \in Terminal
    <3> DEFINE e == [prev |-> 0, about |-> <<Original, start[1]>>]
    <3>1. log = <<e>>
      BY <2>2 DEF InitOf, Inherited
    <3>2. Len(<<e>>) = 1 /\ <<e>>[1] = e /\ e.about = <<Original, start[1]>>
      OBVIOUS
    <3> HIDE DEF e
    <3>3. About(<<e>>, x, s) = IF x = Original /\ s = start[1] THEN {1} ELSE {}
      BY <3>2 DEF About
    <3>4. 1 \in 1..Len(<<e>>)
      BY <3>2
    <3> QED
      BY <2>1, <2>2, <3>1, <3>3, <3>4 DEF Once, Never
  <2>3. CASE start[1] \notin Terminal
    <3>1. log = <<>>
      BY <2>3 DEF InitOf, Inherited
    <3> QED
      BY <2>1, <2>3, <3>1, NothingIsNever
  <2> QED
    BY <2>2, <2>3
<1> QED
  BY <1>2, <1>3, <1>4, <1>5 DEF RowInv

\* Steps that move no row, no draft and no lock that is held.
LEMMA RowsUnmoved ==
  ASSUME RowInv, UNCHANGED <<chain, staged, forwarded>>, BaseInv,
         \A x \in Orders : holder[x] # NoOne => holder'[x] = holder[x],
         \A x \in Orders : \/ status'[x] = status[x]
                           \/ status[x] = "ABSENT" /\ status'[x] = "ACCEPTED"
  PROVE  RowInv'
<1>1. ASSUME NEW t \in Txns PROVE Holding(t)'
  <2> SUFFICES ASSUME NEW x \in Orders, staged[t][x] # NoOne
               PROVE  /\ holder'[x] = t
                      /\ CanMove(status'[x], staged[t][x])
                      /\ staged[t][x] \in {"RESULT_UNKNOWN"} \union Terminal
    BY DEF Holding
  <2>1. /\ holder[x] = t /\ CanMove(status[x], staged[t][x])
        /\ staged[t][x] \in {"RESULT_UNKNOWN"} \union Terminal
    BY DEF RowInv, Holding
  <2> QED
    BY <2>1, Sets, MovesAreOfRows
<1>2. ASSUME NEW t \in Txns PROVE Drafting(t)'
  BY DraftingSame DEF RowInv, chain
<1>3. ASSUME NEW x \in Orders PROVE Forwarded(x)' /\ Told(x)'
  <2>1. Told(x)'
    BY DEF RowInv, Told, chain, Once, Never, About
  <2>2. Forwarded(x)'
    BY DEF RowInv, Forwarded
  <2> QED
    BY <2>1, <2>2
<1> QED
  BY <1>1, <1>2, <1>3 DEF RowInv

LEMMA TakesRowTells ==
  ASSUME BaseInv, RowInv, NEW t \in Txns, NEW x \in Orders, TakesRow(t, x)
  PROVE  RowInv'
<1>1. /\ ReversalTypeOK /\ writing[t] = "rest" /\ Lock(t, x)
      /\ UNCHANGED <<status, forwarded>>
      /\ UNCHANGED <<log, draft>>
      /\ \A u \in Txns \ {t} :
           staged'[u] = staged[u] /\ writing'[u] = writing[u] /\ subject'[u] = subject[u]
  BY TakesRowTakes DEF BaseInv, TakesRow, rows
<1>2. /\ holder[x] = NoOne
      /\ status[x] # "ABSENT" => holder'[x] = t
      /\ \A y \in Orders : holder[y] # NoOne => holder'[y] = holder[y]
  BY <1>1, LockLocks
<1>3. CASE UNCHANGED <<chain, staged>>
  BY <1>1, <1>2, <1>3, RowsUnmoved
<1>4. ASSUME NEW s \in {"RESULT_UNKNOWN"} \union Terminal, CanMove(status[x], s), Stage(t, x, s)
      PROVE  RowInv'
  <2>1. s \in Statuses /\ status[x] # "ABSENT"
    BY <1>4, Sets, MovesAreOfRows
  <2>2. /\ staged'[t][x] = s
        /\ \A y \in Orders \ {x} : staged'[t][y] = staged[t][y]
        /\ subject'[t] = <<x, s>> /\ writing'[t] \in {"append", "peek"}
    BY <1>1, <1>4, <2>1, StageStages
  <2>3. staged[t][x] = NoOne
    <3>1. Holding(t) /\ t # NoOne
      BY Sets DEF RowInv
    <3> QED
      BY <1>2, <3>1 DEF Holding
  <2>4. ASSUME NEW u \in Txns PROVE Holding(u)'
    <3> SUFFICES ASSUME NEW y \in Orders, staged'[u][y] # NoOne
                 PROVE  /\ holder'[y] = u
                        /\ CanMove(status[y], staged'[u][y])
                        /\ staged'[u][y] \in {"RESULT_UNKNOWN"} \union Terminal
      BY <1>1 DEF Holding
    <3>1. CASE u = t /\ y = x
      BY <1>2, <1>4, <2>1, <2>2, <3>1
    <3>2. CASE ~(u = t /\ y = x)
      <4>1. staged'[u][y] = staged[u][y]
        BY <1>1, <2>2, <3>2
      <4>2. /\ holder[y] = u /\ CanMove(status[y], staged[u][y])
            /\ staged[u][y] \in {"RESULT_UNKNOWN"} \union Terminal
        BY <4>1 DEF RowInv, Holding
      <4> QED
        BY <1>2, <4>1, <4>2, Sets
    <3> QED
      BY <3>1, <3>2
  <2>5. Drafting(t)'
    <3> SUFFICES ASSUME NEW y \in Orders, NEW z \in Statuses
                 PROVE  IF staged'[t][y] = z
                          THEN IF <<x, s>> = <<y, z>> THEN Never(draft[t], y, z)
                                                      ELSE Once(draft[t], y, z)
                          ELSE <<x, s>> # <<y, z>> /\ Never(draft[t], y, z)
      BY <1>1, <2>2, DraftingNext
    <3>1. IF staged[t][y] = z THEN Once(draft[t], y, z) ELSE Never(draft[t], y, z)
      BY <1>1 DEF RowInv, Drafting
    <3>2. CASE y = x
      <4>1. Never(draft[t], y, z)
        BY <2>3, <3>1, <3>2, Sets
      <4> QED
        BY <2>2, <3>2, <4>1
    <3>3. CASE y # x
      BY <2>2, <3>1, <3>3
    <3> QED
      BY <3>2, <3>3
  <2>6. ASSUME NEW u \in Txns \ {t} PROVE Drafting(u)'
    BY <1>1, DraftingSame DEF RowInv
  <2>7. ASSUME NEW y \in Orders PROVE Forwarded(y)' /\ Told(y)'
    BY <1>1 DEF RowInv, Forwarded, Told, Once, Never, About
  <2> QED
    BY <2>4, <2>5, <2>6, <2>7 DEF RowInv
<1> QED
  BY <1>3, <1>4 DEF TakesRow

\* The entry that is appended is the one that was pending.
LEMMA AuditStepTells ==
  ASSUME BaseInv, RowInv, NEW t \in Txns, AuditStep(t)
  PROVE  RowInv'
<1>1. /\ UNCHANGED <<rows, locks, log, subject>>
      /\ \A u \in Txns \ {t} : writing'[u] = writing[u] /\ draft'[u] = draft[u]
      /\ \/ writing[t] # "rest" /\ writing'[t] # "rest" /\ draft' = draft
         \/ AppendEntry(t)
  BY AuditStepKeeps
<1>2. ASSUME NEW u \in Txns PROVE Holding(u)'
  BY <1>1 DEF RowInv, Holding, rows, locks
<1>3. ASSUME NEW x \in Orders PROVE Forwarded(x)' /\ Told(x)'
  BY <1>1 DEF RowInv, Forwarded, Told, rows, Once, Never, About
<1>4. ASSUME NEW u \in Txns \ {t} PROVE Drafting(u)'
  BY <1>1, DraftingSame DEF RowInv, locks
<1>5. Drafting(t)'
  <2>1. CASE writing[t] # "rest" /\ writing'[t] # "rest" /\ draft' = draft
    BY <1>1, <2>1, DraftingSame DEF RowInv, locks
  <2>2. CASE AppendEntry(t)
    <3> DEFINE e == [prev |-> IF tip[t] = NoOne THEN anchor ELSE tip[t], about |-> subject[t]]
    <3>1. /\ ChainTypeOK /\ draft[t] \in Seq(Entries) /\ writing[t] = "append"
          /\ subject[t] \in Orders \X Statuses
      BY <2>2, SubjectsAssumption
        DEF BaseInv, ChainInv, Appending, AppendEntry, ReversalTypeOK, ChainTypeOK
    <3>2. writing'[t] = "rest" /\ draft'[t] = Append(draft[t], e)
      BY <2>2, <3>1 DEF AppendEntry, Writes, ChainTypeOK
    <3>3. e \in Entries /\ e.about = subject[t]
      <4>1. tip[t] # NoOne \/ anchor # NoOne
        BY <3>1 DEF BaseInv, ChainInv, Appending
      <4>2. (IF tip[t] = NoOne THEN anchor ELSE tip[t]) \in Nat
        BY <3>1, <4>1 DEF ChainTypeOK
      <4> QED
        BY <3>1, <4>2, SubjectsAssumption DEF Entries
    <3> HIDE DEF e
    <3> SUFFICES ASSUME NEW y \in Orders, NEW z \in Statuses
                 PROVE  IF staged[t][y] = z THEN Once(Append(draft[t], e), y, z)
                                            ELSE Never(Append(draft[t], e), y, z)
      BY <1>1, <3>2, DraftingNext DEF locks
    <3>4. IF staged[t][y] = z
            THEN IF subject[t] = <<y, z>> THEN Never(draft[t], y, z) ELSE Once(draft[t], y, z)
            ELSE subject[t] # <<y, z>> /\ Never(draft[t], y, z)
      BY <3>1 DEF RowInv, Drafting
    <3>5. /\ About(Append(draft[t], e), y, z) =
               About(draft[t], y, z) \union (IF e.about = <<y, z>> THEN {Len(draft[t]) + 1} ELSE {})
          /\ Len(Append(draft[t], e)) = Len(draft[t]) + 1 /\ Len(draft[t]) \in Nat
      BY <3>1, <3>3, AboutAppended
    <3>6. CASE subject[t] = <<y, z>>
      <4>1. staged[t][y] = z /\ Never(draft[t], y, z)
        BY <3>4, <3>6
      <4>2. About(Append(draft[t], e), y, z) = {Len(draft[t]) + 1}
        BY <3>3, <3>5, <3>6, <4>1 DEF Never
      <4>3. Len(draft[t]) + 1 \in 1..Len(Append(draft[t], e))
        BY <3>5
      <4> QED
        BY <4>1, <4>2, <4>3 DEF Once
    <3>7. CASE subject[t] # <<y, z>>
      <4>1. About(Append(draft[t], e), y, z) = About(draft[t], y, z)
        BY <3>3, <3>5, <3>7
      <4>2. \A i \in 1..Len(draft[t]) : i \in 1..Len(Append(draft[t], e))
        BY <3>5
      <4> QED
        BY <3>4, <3>7, <4>1, <4>2 DEF Never, Once
    <3> QED
      BY <3>6, <3>7
  <2> QED
    BY <1>1, <2>1, <2>2
<1> QED
  BY <1>2, <1>3, <1>4, <1>5 DEF RowInv

\* A move that can still be made has not been forwarded.
LEMMA MovesAreNew ==
  ASSUME NEW x \in Orders, Forwarded(x), NEW s \in Terminal, CanMove(status[x], s)
  PROVE  s \notin forwarded[x]
BY DEF Forwarded, CanMove, Terminal

LEMMA CommitTells ==
  ASSUME BaseInv, RowInv,
         NEW t \in Txns, (t \in Threads /\ Complete(t)) \/ (t \in Settlers /\ Settle(t))
  PROVE  RowInv'
<1> DEFINE source == IF t \in Threads THEN "SYNC" ELSE "LATE"
           w == staged[t]
<1>1. /\ Ends(t, source) /\ source \in {"SYNC", "LATE"}
      /\ \A u \in Txns \ {t} :
           /\ staged'[u] = staged[u]
           /\ writing'[u] = writing[u] /\ subject'[u] = subject[u] /\ draft'[u] = draft[u]
      /\ \A x \in Orders : staged'[t][x] = NoOne
      /\ writing'[t] = "rest" /\ draft'[t] = <<>>
      /\ \A x \in Orders : holder[x] # t => holder'[x] = holder[x]
  BY CommitEnds
<1> HIDE DEF source
<1>2. /\ CommitChain(t)
      /\ \A x \in Orders :
           /\ w[x] = NoOne => status'[x] = status[x] /\ forwarded'[x] = forwarded[x]
           /\ w[x] # NoOne => status'[x] = w[x]
           /\ w[x] \in Terminal => forwarded'[x] = forwarded[x] \union {w[x]}
           /\ w[x] \notin Terminal => forwarded'[x] = forwarded[x]
  BY <1>1, PublishPublishes DEF Ends, BaseInv
<1>3. /\ log' = log \o draft[t] /\ writing[t] = "rest"
      /\ log \in Seq(Entries) /\ draft[t] \in Seq(Entries)
  BY <1>2 DEF CommitChain, BaseInv, ReversalTypeOK, ChainTypeOK
<1>4. Holding(t) /\ Drafting(t)
  BY DEF RowInv
<1>5. ASSUME NEW u \in Txns PROVE Holding(u)'
  <2>1. CASE u = t
    BY <1>1, <2>1 DEF Holding
  <2>2. CASE u # t
    <3> SUFFICES ASSUME NEW x \in Orders, staged[u][x] # NoOne
                 PROVE  /\ holder'[x] = u
                        /\ CanMove(status'[x], staged[u][x])
                        /\ staged[u][x] \in {"RESULT_UNKNOWN"} \union Terminal
      BY <1>1, <2>2 DEF Holding
    <3>1. /\ holder[x] = u /\ CanMove(status[x], staged[u][x])
          /\ staged[u][x] \in {"RESULT_UNKNOWN"} \union Terminal
      BY DEF RowInv, Holding
    <3>2. w[x] = NoOne
      BY <1>4, <2>2, <3>1 DEF Holding
    <3> QED
      BY <1>1, <1>2, <2>2, <3>1, <3>2
  <2> QED
    BY <2>1, <2>2
<1>6. ASSUME NEW u \in Txns PROVE Drafting(u)'
  <2>1. CASE u = t
    BY <1>1, <2>1, DraftingNext, NothingIsNever, Sets
  <2>2. CASE u # t
    BY <1>1, <2>2, DraftingSame DEF RowInv
  <2> QED
    BY <2>1, <2>2
<1>7. ASSUME NEW x \in Orders PROVE Forwarded(x)'
  <2>1. Forwarded(x)
    BY DEF RowInv
  <2>2. CASE w[x] = NoOne
    BY <1>2, <2>1, <2>2 DEF Forwarded
  <2>3. CASE w[x] # NoOne
    <3>1. CanMove(status[x], w[x]) /\ w[x] \in {"RESULT_UNKNOWN"} \union Terminal
      BY <1>4, <2>3 DEF Holding
    <3>2. /\ status'[x] = w[x]
          /\ forwarded'[x] = IF w[x] \in Terminal THEN forwarded[x] \union {w[x]} ELSE forwarded[x]
      BY <1>2, <2>3
    <3> HIDE DEF w
    <3>3. CASE w[x] = "RESULT_UNKNOWN"
      BY <2>1, <3>1, <3>2, <3>3 DEF Forwarded, CanMove, Terminal
    <3>4. CASE w[x] = "REVERSED"
      BY <2>1, <3>1, <3>2, <3>4 DEF Forwarded, CanMove, Terminal
    <3>5. CASE w[x] \in {"SUCCEEDED", "FAILED"}
      BY <2>1, <3>1, <3>2, <3>5 DEF Forwarded, CanMove, Terminal
    <3> QED
      BY <3>1, <3>3, <3>4, <3>5 DEF Terminal
  <2> QED
    BY <2>2, <2>3
<1>8. ASSUME NEW x \in Orders PROVE Told(x)'
  <2> SUFFICES ASSUME NEW s \in Terminal
               PROVE  IF s \in forwarded'[x] THEN Once(log', x, s) ELSE Never(log', x, s)
    BY DEF Told
  <2>1. /\ s \in Statuses
        /\ IF w[x] = s THEN Once(draft[t], x, s) ELSE Never(draft[t], x, s)
    BY <1>3, <1>4, Sets DEF Drafting
  <2>2. IF s \in forwarded[x] THEN Once(log, x, s) ELSE Never(log, x, s)
    BY DEF RowInv, Told
  <2>3. CASE w[x] = s
    <3>1. CanMove(status[x], s)
      BY <1>4, <2>1, <2>3, Sets DEF Holding
    <3>2. s \notin forwarded[x]
      BY <3>1, MovesAreNew DEF RowInv
    <3>3. s \in forwarded'[x]
      BY <1>2, <2>3
    <3> QED
      BY <1>3, <2>1, <2>2, <2>3, <3>2, <3>3, AboutJoined
  <2>4. CASE w[x] # s
    <3>1. s \in forwarded'[x] <=> s \in forwarded[x]
      BY <1>2, <2>4
    <3> QED
      BY <1>3, <2>1, <2>2, <2>4, <3>1, AboutJoined
  <2> QED
    BY <2>3, <2>4
<1> QED
  BY <1>5, <1>6, <1>7, <1>8 DEF RowInv

LEMMA AbortTells ==
  ASSUME BaseInv, RowInv, NEW t \in Txns, Abort(t) PROVE RowInv'
<1>1. /\ UNCHANGED <<status, forwarded, log>>
      /\ \A u \in Txns \ {t} :
           /\ staged'[u] = staged[u]
           /\ writing'[u] = writing[u] /\ subject'[u] = subject[u] /\ draft'[u] = draft[u]
      /\ \A x \in Orders : staged'[t][x] = NoOne
      /\ writing'[t] = "rest" /\ draft'[t] = <<>>
      /\ \A x \in Orders : holder[x] # t => holder'[x] = holder[x]
  BY AbortEnds DEF rows
<1>2. ASSUME NEW u \in Txns PROVE Holding(u)' /\ Drafting(u)'
  <2>1. CASE u = t
    <3>1. Holding(t)'
      BY <1>1 DEF Holding
    <3>2. Drafting(t)'
      BY <1>1, DraftingNext, NothingIsNever, Sets
    <3> QED
      BY <2>1, <3>1, <3>2
  <2>2. CASE u # t
    <3>1. Holding(u) /\ Drafting(u)
      BY DEF RowInv
    <3>2. Holding(u)'
      BY <1>1, <2>2, <3>1 DEF Holding
    <3>3. Drafting(u)'
      BY <1>1, <2>2, <3>1, DraftingSame
    <3> QED
      BY <3>2, <3>3
  <2> QED
    BY <2>1, <2>2
<1>3. ASSUME NEW x \in Orders PROVE Forwarded(x)' /\ Told(x)'
  <2>1. Forwarded(x) /\ Told(x)
    BY DEF RowInv
  <2>2. Forwarded(x)'
    BY <1>1, <2>1 DEF Forwarded
  <2>3. Told(x)'
    BY <1>1, <2>1 DEF Told, Once, Never, About
  <2> QED
    BY <2>2, <2>3
<1> QED
  BY <1>2, <1>3 DEF RowInv

LEMMA RowInvNext == BaseInv /\ RowInv /\ [Next]_vars => RowInv'
<1> SUFFICES ASSUME BaseInv, RowInv, [Next]_vars PROVE RowInv'
  OBVIOUS
<1>1. ASSUME NEW t \in Txns, AuditStep(t) \/ Abort(t) PROVE RowInv'
  BY <1>1, AuditStepTells, AbortTells
<1>2. ASSUME NEW p \in Threads, Request(p) PROVE RowInv'
  <2>1. p \in Txns /\ intent[p] \in Orders /\ ReversalTypeOK
    BY Sets DEF BaseInv, ReversalTypeOK
  <2>2. CASE Register(p) \/ Dispatch(p) \/ \E a \in Endings : Answered(p, a)
    <3>1. /\ UNCHANGED <<chain, staged, forwarded, holder>>
          /\ \A x \in Orders : \/ status'[x] = status[x]
                               \/ status[x] = "ABSENT" /\ status'[x] = "ACCEPTED"
      BY <2>1, <2>2 DEF Register, Dispatch, Answered, rows, locks, ReversalTypeOK
    <3> QED
      BY <3>1, RowsUnmoved
  <2>3. CASE LockReversal(p)
    BY <2>1, <2>3, LockReversalTakesRow, TakesRowTells
  <2>4. CASE LockOriginal(p)
    BY <2>1, <2>4, LockOriginalTakesRow, TakesRowTells, Sets
  <2>5. CASE Complete(p)
    BY <2>1, <2>5, CommitTells
  <2> QED
    BY <1>2, <2>2, <2>3, <2>4, <2>5 DEF Request
<1>3. ASSUME NEW q \in Settlers, Settler(q) PROVE RowInv'
  <2>1. q \in Txns
    BY Sets
  <2>2. CASE \E x \in Orders : Hear(q, x)
    BY <2>2, RowsUnmoved DEF Hear, rows, locks
  <2>3. CASE LockVerdict(q)
    <3>1. verdict[q] \in Orders \X Terminal /\ TakesRow(q, verdict[q][1])
      BY <2>3, LockVerdictTakesRow
    <3>2. verdict[q][1] \in Orders
      BY <3>1
    <3> QED
      BY <2>1, <3>1, <3>2, TakesRowTells
  <2>4. CASE Settle(q)
    BY <2>1, <2>4, CommitTells
  <2> QED
    BY <1>3, <2>2, <2>3, <2>4 DEF Settler
<1>4. CASE BankSettles \/ \E r \in Reversals : BankDecides(r)
  BY <1>4, BankMoves, RowsUnmoved DEF rows, locks
<1>5. CASE UNCHANGED vars
  BY <1>5, RowsUnmoved DEF vars, rows, locks
<1> QED
  BY <1>1, <1>2, <1>3, <1>4, <1>5 DEF Next

-----------------------------------------------------------------------------
(* The pair.                                                               *)

\* A row appears when a request registers it and moves along the table.
LEMMA RowsMove ==
  ASSUME BaseInv, RowInv, [Next]_vars, NEW x \in Orders
  PROVE  \/ status'[x] = status[x]
         \/ x \in Reversals /\ status[x] = "ABSENT" /\ status'[x] = "ACCEPTED"
         \/ CanMove(status[x], status'[x]) /\ status'[x] \in Statuses
<1>1. ReversalTypeOK /\ Threads \subseteq Txns /\ Settlers \subseteq Txns
  BY Sets DEF BaseInv
<1>2. ASSUME NEW t \in Txns, AuditStep(t) \/ Abort(t) PROVE status' = status
  BY <1>2 DEF AuditStep, Abort, rows
<1>3. ASSUME NEW t \in Txns, NEW source \in {"SYNC", "LATE"}, Publish(t, source)
      PROVE  \/ status'[x] = status[x]
             \/ CanMove(status[x], status'[x]) /\ status'[x] \in Statuses
  <2>1. /\ staged[t][x] = NoOne => status'[x] = status[x]
        /\ staged[t][x] # NoOne => status'[x] = staged[t][x]
    BY <1>1, <1>3, PublishPublishes
  <2>2. staged[t][x] # NoOne => CanMove(status[x], staged[t][x]) /\ staged[t][x] \in Statuses
    BY <1>1 DEF RowInv, Holding, ReversalTypeOK
  <2> QED
    BY <2>1, <2>2
<1>4. ASSUME NEW p \in Threads, Request(p)
      PROVE  \/ status'[x] = status[x]
             \/ x \in Reversals /\ status[x] = "ABSENT" /\ status'[x] = "ACCEPTED"
             \/ CanMove(status[x], status'[x]) /\ status'[x] \in Statuses
  <2>1. CASE Register(p)
    BY <1>1, <2>1 DEF Register, ReversalTypeOK
  <2>2. CASE Dispatch(p) \/ LockReversal(p) \/ LockOriginal(p) \/ \E a \in Endings : Answered(p, a)
    BY <2>2 DEF Dispatch, LockReversal, LockOriginal, Answered, rows
  <2>3. CASE Complete(p)
    BY <1>1, <1>3, <2>3 DEF Complete
  <2> QED
    BY <1>4, <2>1, <2>2, <2>3 DEF Request
<1>5. ASSUME NEW q \in Settlers, Settler(q)
      PROVE  \/ status'[x] = status[x]
             \/ CanMove(status[x], status'[x]) /\ status'[x] \in Statuses
  BY <1>1, <1>3, <1>5 DEF Settler, Hear, LockVerdict, Settle, rows
<1>6. CASE BankSettles \/ \E r \in Reversals : BankDecides(r)
  BY <1>6 DEF BankSettles, BankDecides, rows
<1>7. CASE UNCHANGED vars
  BY <1>7 DEF vars, rows
<1> QED
  BY <1>2, <1>4, <1>5, <1>6, <1>7 DEF Next

\* An original that cannot be flipped any more does not move any more.
LEMMA StandsStays ==
  ASSUME BaseInv, RowInv, [Next]_vars, Stands PROVE Stands'
<1>1. Original \in Orders /\ Original \notin Reversals /\ "ABSENT" \notin Statuses
  BY Sets
<1>2. \/ status'[Original] = status[Original]
      \/ CanMove(status[Original], status'[Original])
  BY <1>1, RowsMove
<1>3. status[Original] \in {"ABSENT", "ACCEPTED", "RESULT_UNKNOWN"} \union Terminal
  BY <1>1 DEF RowInv, Forwarded
<1>4. status[Original] \in {"ABSENT", "FAILED", "REVERSED"}
  BY <1>3 DEF Stands, CanMove, Terminal
<1>5. status'[Original] = status[Original]
  BY <1>2, <1>4 DEF CanMove
<1> QED
  BY <1>5 DEF Stands

LEMMA FlippingElsewhere ==
  ASSUME NEW p \in Threads, Flipping(p), Stands => Stands', intent' = intent,
         staged'[p] = staged[p], pc'[p] = pc[p]
  PROVE  Flipping(p)'
BY DEF Flipping

LEMMA PairInvInit == Init => PairInv
<1> SUFFICES ASSUME Init PROVE PairInv
  OBVIOUS
<1>1. /\ \A t \in Txns : pc[t] \notin {"flip", "commit"}
      /\ \A t \in Txns : \A x \in Orders : staged[t][x] = NoOne
      /\ \A r \in Reversals : via[r] = NoOne
  <2>1. \A r \in Reversals : r \in Orders /\ r # Original
    BY Sets
  <2>2. \A r \in Reversals : via[r] = NoOne
    BY <2>1 DEF Init, InitOf
  <2> QED
    BY <2>2 DEF Init, NoWrites
<1>2. Threads \subseteq Txns
  BY Sets
<1>3. NoOne # "SYNC" \/ \A r \in Reversals : status[r] # "SUCCEEDED"
  <2>1. \A r \in Reversals : r \in Orders /\ r # Original
    BY Sets
  <2> QED
    BY <2>1 DEF Init, InitOf
<1>4. PairFlipsTogether
  BY <1>1, <1>3 DEF PairFlipsTogether
<1>5. ASSUME NEW p \in Threads PROVE Flipping(p)
  BY <1>1, <1>2 DEF Flipping
<1> QED
  BY <1>4, <1>5 DEF PairInv

\* Who takes a step.
Moves(t) ==
  \/ AuditStep(t) \/ Abort(t)
  \/ t \in Threads /\ Request(t)
  \/ t \in Settlers /\ Settler(t)

\* Nobody but the one that moves writes, goes on or learns anything.
LEMMA OthersRest ==
  ASSUME BaseInv, NEW u \in Txns, Moves(u), NEW t \in Txns \ {u}
  PROVE  /\ staged'[t] = staged[t] /\ pc'[t] = pc[t] /\ intent' = intent
         /\ t \in Threads => answer'[t] = answer[t]
         /\ t \in Settlers => verdict'[t] = verdict[t]
<1>1. ReversalTypeOK /\ Threads \subseteq Txns /\ Settlers \subseteq Txns
  BY Sets DEF BaseInv
<1>2. CASE AuditStep(u)
  BY <1>2 DEF AuditStep, locks
<1>3. CASE Abort(u)
  <2>1. verdict' = verdict \/ verdict' = [verdict EXCEPT ![u] = NoOne]
    BY <1>3 DEF Abort
  <2>2. t \in Settlers => verdict'[t] = verdict[t]
    BY <1>1, <2>1 DEF ReversalTypeOK
  <2> QED
    BY <1>1, <1>3, <2>2, AbortEnds
<1>4. CASE u \in Threads /\ Request(u)
  <2>1. CASE Register(u) \/ Dispatch(u)
    BY <1>1, <2>1 DEF Register, Dispatch, At, ReversalTypeOK, locks
  <2>2. CASE \E a \in Endings : Answered(u, a)
    BY <1>1, <2>2 DEF Answered, At, ReversalTypeOK, locks
  <2>3. CASE LockReversal(u)
    <3>1. TakesRow(u, intent[u]) /\ intent[u] \in Orders
      BY <1>1, <1>4, <2>3, LockReversalTakesRow, Sets DEF ReversalTypeOK
    <3> QED
      BY <1>1, <3>1, TakesRowTakes DEF TakesRow
  <2>4. CASE LockOriginal(u)
    <3>1. TakesRow(u, Original) /\ Original \in Orders
      BY <1>1, <1>4, <2>4, LockOriginalTakesRow, Sets
    <3> QED
      BY <1>1, <3>1, TakesRowTakes DEF TakesRow
  <2>5. CASE Complete(u)
    BY <1>1, <1>4, <2>5, CommitEnds DEF Complete
  <2> QED
    BY <1>4, <2>1, <2>2, <2>3, <2>4, <2>5 DEF Request
<1>5. CASE u \in Settlers /\ Settler(u)
  <2>1. CASE \E x \in Orders : Hear(u, x)
    BY <1>1, <2>1 DEF Hear, At, ReversalTypeOK, locks
  <2>2. CASE LockVerdict(u)
    <3>1. TakesRow(u, verdict[u][1]) /\ verdict[u][1] \in Orders
      BY <1>5, <2>2, LockVerdictTakesRow
    <3> QED
      BY <1>1, <3>1, TakesRowTakes DEF TakesRow
  <2>3. CASE Settle(u)
    <3>1. t \in Settlers => verdict'[t] = verdict[t]
      BY <1>1, <2>3 DEF Settle, ReversalTypeOK
    <3> QED
      BY <1>1, <1>5, <2>3, <3>1, CommitEnds DEF Settle
  <2> QED
    BY <1>5, <2>1, <2>2, <2>3 DEF Settler
<1> QED
  BY <1>2, <1>3, <1>4, <1>5 DEF Moves

LEMMA NextMoves ==
  ASSUME [Next]_vars
  PROVE  \/ \E u \in Txns : Moves(u)
         \/ BankSettles \/ \E r \in Reversals : BankDecides(r)
         \/ UNCHANGED vars
BY Sets DEF Next, Moves

LEMMA Untouched ==
  ASSUME BaseInv, [Next]_vars, NEW t \in Txns, ~Moves(t)
  PROVE  /\ staged'[t] = staged[t] /\ pc'[t] = pc[t] /\ intent' = intent
         /\ t \in Threads => answer'[t] = answer[t]
         /\ t \in Settlers => verdict'[t] = verdict[t]
<1>1. CASE \E u \in Txns : Moves(u)
  <2>1. PICK u \in Txns \ {t} : Moves(u)
    BY <1>1
  <2> QED
    BY <2>1, OthersRest
<1>2. CASE BankSettles \/ \E r \in Reversals : BankDecides(r)
  BY <1>2 DEF BankSettles, BankDecides, locks
<1>3. CASE UNCHANGED vars
  BY <1>3 DEF vars, locks
<1> QED
  BY <1>1, <1>2, <1>3, NextMoves

\* What a request writes, and where it goes.
LEMMA FlippingNext ==
  ASSUME BaseInv, RowInv, [Next]_vars, NEW p \in Threads, Flipping(p) PROVE Flipping(p)'
<1>1. /\ ReversalTypeOK /\ p \in Txns /\ intent[p] \in Reversals /\ intent[p] \in Orders
      /\ Original \in Orders /\ intent[p] # Original /\ NoOne \notin Statuses
      /\ "SUCCEEDED" \in Statuses /\ "REVERSED" \in Statuses
  <2>1. ReversalTypeOK /\ p \in Txns /\ intent[p] \in Reversals
    BY Sets DEF BaseInv, ReversalTypeOK
  <2>2. "SUCCEEDED" \in Statuses /\ "REVERSED" \in Statuses
    BY DEF Statuses
  <2> QED
    BY <2>1, <2>2, Sets
<1>2. Stands => Stands'
  BY StandsStays
<1>3. CASE AuditStep(p)
  BY <1>2, <1>3, FlippingElsewhere DEF AuditStep, locks
<1>4. CASE Abort(p)
  <2>1. pc'[p] = "failed" /\ \A x \in Orders : staged'[p][x] = NoOne
    BY <1>1, <1>4, AbortEnds
  <2> QED
    BY <1>1, <2>1 DEF Flipping
<1>5. CASE Request(p)
  <2>1. CASE Register(p) \/ Dispatch(p) \/ \E a \in Endings : Answered(p, a)
    <3>1. /\ pc[p] \notin {"flip", "commit"} /\ pc'[p] \notin {"flip", "commit"}
          /\ staged' = staged
      BY <1>1, <2>1 DEF Register, Dispatch, Answered, At, ReversalTypeOK, locks
    <3> QED
      BY <1>1, <3>1 DEF Flipping
  <2>2. CASE LockReversal(p)
    <3> DEFINE s == ReversalStatus(answer[p])
    <3>1. pc[p] = "answered" /\ intent' = intent /\ \A x \in Orders : staged[p][x] = NoOne
      BY <2>2 DEF LockReversal, Flipping
    <3>2. \/ /\ Stage(p, intent[p], s)
             /\ At(p, IF s = "SUCCEEDED" THEN "flip" ELSE "commit")
          \/ At(p, "commit") /\ staged' = staged
      BY <2>2 DEF LockReversal
    <3>3. s \in Statuses
      BY ReversalStatusRange
    <3> HIDE DEF s
    <3>4. CASE Stage(p, intent[p], s) /\ At(p, IF s = "SUCCEEDED" THEN "flip" ELSE "commit")
      <4>1. staged'[p][intent[p]] = s /\ \A x \in Orders \ {intent[p]} : staged'[p][x] = NoOne
        <5>1. /\ staged'[p][intent[p]] = s
              /\ \A x \in Orders \ {intent[p]} : staged'[p][x] = staged[p][x]
          <6>1. staged' = [staged EXCEPT ![p] = [staged[p] EXCEPT ![intent[p]] = s]]
            BY <3>4 DEF Stage
          <6> QED
            BY <1>1, <3>3, <6>1 DEF ReversalTypeOK
        <5> QED
          BY <3>1, <5>1
      <4>2. pc'[p] = IF s = "SUCCEEDED" THEN "flip" ELSE "commit"
        BY <1>1, <3>4 DEF At, ReversalTypeOK
      <4> QED
        BY <1>1, <3>1, <4>1, <4>2 DEF Flipping
    <3>5. CASE At(p, "commit") /\ staged' = staged
      <4>1. pc'[p] = "commit"
        BY <1>1, <3>5 DEF At, ReversalTypeOK
      <4> QED
        BY <1>1, <3>1, <3>5, <4>1 DEF Flipping
    <3> QED
      BY <3>2, <3>4, <3>5
  <2>3. CASE LockOriginal(p)
    <3>1. pc[p] = "flip" /\ intent' = intent /\ pc'[p] = "commit"
      BY <1>1, <2>3 DEF LockOriginal, At, ReversalTypeOK
    <3>2. CASE Flips(status[Original])
      <4>1. Stage(p, Original, "REVERSED")
        BY <2>3, <3>2 DEF LockOriginal
      <4>2. staged'[p][Original] = "REVERSED" /\ \A x \in Orders \ {Original} : staged'[p][x] = staged[p][x]
        BY <1>1, <4>1, StageStages
      <4> QED
        BY <1>1, <3>1, <4>2 DEF Flipping
    <3>3. CASE ~Flips(status[Original])
      <4>1. staged' = staged /\ Stands
        BY <2>3, <3>3 DEF LockOriginal, Flips, Stands
      <4> QED
        BY <1>1, <1>2, <3>1, <4>1 DEF Flipping
    <3> QED
      BY <3>2, <3>3
  <2>4. CASE Complete(p)
    <3>1. pc'[p] = "done" /\ \A x \in Orders : staged'[p][x] = NoOne
      BY <1>1, <2>4, CommitEnds
    <3> QED
      BY <1>1, <3>1 DEF Flipping
  <2> QED
    BY <1>5, <2>1, <2>2, <2>3, <2>4 DEF Request
<1>6. CASE ~Moves(p)
  BY <1>1, <1>2, <1>6, Untouched, FlippingElsewhere
<1> QED
  BY <1>1, <1>3, <1>4, <1>5, <1>6 DEF Moves, Settlers

\* A commit that settles a reversal by its request settles the pair.
LEMMA PairNext ==
  ASSUME BaseInv, RowInv, PairInv, [Next]_vars PROVE PairFlipsTogether'
<1>1. ReversalTypeOK /\ Original \in Orders /\ Threads \subseteq Txns /\ Settlers \subseteq Txns
  BY Sets DEF BaseInv
<1>2. Stands => Stands'
  BY StandsStays
<1>3. ASSUME NEW r \in Reversals, via'[r] = "SYNC", status'[r] = "SUCCEEDED"
      PROVE  (via[r] = "SYNC" /\ status[r] = "SUCCEEDED") \/ Stands'
  <2>1. r \in Orders /\ r # Original /\ NoOne \notin Statuses
    BY Sets
  <2>2. ASSUME UNCHANGED <<status, via>> PROVE via[r] = "SYNC" /\ status[r] = "SUCCEEDED"
    BY <1>3, <2>2
  <2>3. ASSUME NEW p \in Threads, Register(p) PROVE via[r] = "SYNC" /\ status[r] = "SUCCEEDED"
    BY <1>1, <1>3, <2>1, <2>3 DEF Register, ReversalTypeOK
  <2>4. ASSUME NEW p \in Threads, Complete(p)
        PROVE  (via[r] = "SYNC" /\ status[r] = "SUCCEEDED") \/ Stands'
    <3>1. p \in Txns /\ pc[p] = "commit" /\ Publish(p, "SYNC") /\ Flipping(p)
      BY <1>1, <2>4 DEF Complete, PairInv
    <3>2. \A x \in Orders :
            /\ staged[p][x] = NoOne => status'[x] = status[x] /\ via'[x] = via[x]
            /\ staged[p][x] # NoOne => status'[x] = staged[p][x]
      BY <1>1, <3>1, PublishPublishes
    <3>3. CASE staged[p][r] = NoOne
      BY <1>3, <2>1, <3>2, <3>3
    <3>4. CASE staged[p][r] # NoOne
      <4>1. r = intent[p] /\ staged[p][r] = "SUCCEEDED"
        BY <1>3, <2>1, <3>1, <3>2, <3>4 DEF Flipping
      <4>2. staged[p][Original] = "REVERSED" \/ Stands
        BY <3>1, <4>1 DEF Flipping
      <4>3. CASE staged[p][Original] = "REVERSED"
        <5>1. "REVERSED" # NoOne
          BY Sets DEF Statuses
        <5>2. status'[Original] = "REVERSED"
          BY <1>1, <3>2, <4>3, <5>1
        <5> QED
          BY <5>2 DEF Stands, CanMove
      <4> QED
        BY <1>2, <4>2, <4>3
    <3> QED
      BY <3>3, <3>4
  <2>5. ASSUME NEW q \in Settlers, Settle(q) PROVE via[r] = "SYNC" /\ status[r] = "SUCCEEDED"
    <3>1. q \in Txns /\ Publish(q, "LATE")
      BY <1>1, <2>5 DEF Settle
    <3>2. /\ staged[q][r] = NoOne => status'[r] = status[r] /\ via'[r] = via[r]
          /\ staged[q][r] # NoOne => status'[r] = staged[q][r]
          /\ staged[q][r] \in Terminal => via'[r] = "LATE"
      BY <1>1, <2>1, <3>1, PublishPublishes
    <3> QED
      BY <1>3, <3>2 DEF Terminal
  <2>6. CASE UNCHANGED vars \/ BankSettles \/ \E u \in Reversals : BankDecides(u)
    BY <2>2, <2>6 DEF vars, BankSettles, BankDecides, rows
  <2>7. ASSUME NEW t \in Txns, AuditStep(t) \/ Abort(t) PROVE via[r] = "SYNC" /\ status[r] = "SUCCEEDED"
    BY <2>2, <2>7 DEF AuditStep, Abort, rows
  <2>8. ASSUME NEW p \in Threads, Request(p)
        PROVE  (via[r] = "SYNC" /\ status[r] = "SUCCEEDED") \/ Stands'
    <3>1. CASE Dispatch(p) \/ LockReversal(p) \/ LockOriginal(p) \/ \E a \in Endings : Answered(p, a)
      BY <2>2, <3>1 DEF Dispatch, LockReversal, LockOriginal, Answered, rows
    <3> QED
      BY <2>3, <2>4, <2>8, <3>1 DEF Request
  <2>9. ASSUME NEW q \in Settlers, Settler(q) PROVE via[r] = "SYNC" /\ status[r] = "SUCCEEDED"
    BY <2>2, <2>5, <2>9 DEF Settler, Hear, LockVerdict, rows
  <2> QED
    BY <2>6, <2>7, <2>8, <2>9 DEF Next
<1>4. ASSUME NEW r \in Reversals, via[r] = "SYNC", status[r] = "SUCCEEDED" PROVE Stands
  BY <1>4 DEF PairInv, PairFlipsTogether, Stands
<1>5. \A r \in Reversals : via'[r] = "SYNC" /\ status'[r] = "SUCCEEDED" => Stands'
  BY <1>2, <1>3, <1>4
<1> QED
  BY <1>5 DEF PairFlipsTogether, Stands

LEMMA PairInvNext == BaseInv /\ RowInv /\ PairInv /\ [Next]_vars => PairInv'
<1> SUFFICES ASSUME BaseInv, RowInv, PairInv, [Next]_vars PROVE PairInv'
  OBVIOUS
<1>1. ASSUME NEW p \in Threads PROVE Flipping(p)'
  BY FlippingNext DEF PairInv
<1> QED
  BY <1>1, PairNext DEF PairInv

-----------------------------------------------------------------------------
(* The truth.                                                              *)

\* A row that is there stays.
LEMMA RowsStay ==
  ASSUME BaseInv, RowInv, [Next]_vars, NEW x \in Orders, status[x] # "ABSENT"
  PROVE  status'[x] # "ABSENT"
<1>1. "ABSENT" \notin Statuses
  BY Sets
<1> QED
  BY <1>1, RowsMove

\* How requests move: one registers, or one that is on its own goes on or
\* ends, or none moves.
Proceeds(u) ==
  /\ pc[u] \in Active /\ pc'[u] \in (Active \ {"dispatch"}) \union {"done", "failed"}
  /\ pc'[u] = "calling" => pc[u] \in {"dispatch", "calling"} /\ answer'[u] = answer[u]
  /\ \A v \in Threads \ {u} : pc'[v] = pc[v] /\ answer'[v] = answer[v]
  /\ pc'[u] \in Active => said' = said
  /\ \A r \in Reversals \ {intent[u]} : said'[r] = said[r]

Resting == said' = said /\ \A v \in Threads : pc'[v] = pc[v] /\ answer'[v] = answer[v]

LEMMA RequestsMove ==
  ASSUME BaseInv, [Next]_vars
  PROVE  /\ intent' = intent
         /\ (\E u \in Threads : Register(u) \/ Proceeds(u)) \/ Resting
<1>1. ReversalTypeOK /\ Threads \subseteq Txns /\ Settlers \subseteq Txns
  BY Sets DEF BaseInv
<1>2. ASSUME NEW u \in Threads, Moves(u)
      PROVE  intent' = intent /\ (Register(u) \/ Proceeds(u) \/ Resting)
  <2>1. \A v \in Threads \ {u} : pc'[v] = pc[v] /\ answer'[v] = answer[v]
    BY <1>1, <1>2, OthersRest
  <2>2. CASE AuditStep(u)
    BY <2>2 DEF AuditStep, rows, Resting
  <2>3. CASE Abort(u)
    <3>1. pc'[u] = "failed" /\ UNCHANGED <<intent, answer, said>>
      BY <1>1, <2>3, AbortEnds DEF rows
    <3>2. pc[u] \in Active
      BY <1>1, <2>3 DEF Abort, BaseInv, Standing, Active
    <3> QED
      BY <2>1, <3>1, <3>2 DEF Proceeds, Active
  <2>4. CASE Dispatch(u)
    <3>1. pc[u] = "dispatch" /\ pc'[u] = "calling" /\ UNCHANGED <<intent, answer, said>>
      BY <1>1, <2>4 DEF Dispatch, At, ReversalTypeOK, rows
    <3> QED
      BY <2>1, <3>1 DEF Proceeds, Active
  <2>5. CASE \E a \in Endings : Answered(u, a)
    <3>1. pc[u] = "calling" /\ pc'[u] = "answered" /\ UNCHANGED <<intent, said>>
      BY <1>1, <2>5 DEF Answered, At, ReversalTypeOK, rows
    <3> QED
      BY <2>1, <3>1 DEF Proceeds, Active
  <2>6. CASE LockReversal(u) \/ LockOriginal(u)
    <3>1. /\ pc[u] \in {"answered", "flip"} /\ pc'[u] \in {"flip", "commit"}
          /\ UNCHANGED <<intent, answer, said>>
      BY <1>1, <2>6 DEF LockReversal, LockOriginal, At, ReversalTypeOK, rows
    <3> QED
      BY <2>1, <3>1 DEF Proceeds, Active
  <2>7. CASE Complete(u)
    <3>1. /\ pc[u] = "commit" /\ pc'[u] = "done" /\ UNCHANGED <<intent, answer>>
          /\ \A r \in Reversals \ {intent[u]} : said'[r] = said[r]
      BY <1>1, <2>7 DEF Complete, At, ReversalTypeOK
    <3> QED
      BY <2>1, <3>1 DEF Proceeds, Active
  <2>8. CASE Register(u)
    BY <2>8 DEF Register
  <2> QED
    BY <1>2, <2>2, <2>3, <2>4, <2>5, <2>6, <2>7, <2>8 DEF Moves, Request, Settlers
<1>3. ASSUME NEW q \in Settlers, Moves(q) PROVE intent' = intent /\ Resting
  <2>1. \A v \in Threads : pc'[v] = pc[v] /\ answer'[v] = answer[v]
    <3>1. \A v \in Threads : v \in Txns \ {q}
      BY <1>1 DEF Settlers
    <3> QED
      BY <1>1, <1>3, <3>1, OthersRest
  <2>2. UNCHANGED <<intent, said>>
    BY <1>3 DEF Moves, AuditStep, Abort, Settler, Hear, LockVerdict, Settle, rows, Settlers
  <2> QED
    BY <2>1, <2>2 DEF Resting
<1>4. CASE BankSettles \/ \E r \in Reversals : BankDecides(r)
  BY <1>4 DEF BankSettles, BankDecides, rows, Resting
<1>5. CASE UNCHANGED vars
  BY <1>5 DEF vars, rows, Resting
<1>6. \A u \in Txns : u \in Threads \/ u \in Settlers
  BY DEF Settlers
<1> QED
  BY <1>2, <1>3, <1>4, <1>5, <1>6, NextMoves

\* There is one request that came to dispatch for each reversal.
LEMMA SoleNext ==
  ASSUME BaseInv, RowInv, TruthInv, [Next]_vars, NEW p \in Threads PROVE Sole(p)'
<1>1. /\ ReversalTypeOK /\ intent' = intent /\ Threads \subseteq Txns
      /\ \A u \in Threads : intent[u] \in Reversals /\ intent[u] \in Orders /\ Sole(u)
  BY RequestsMove, Sets DEF BaseInv, ReversalTypeOK, TruthInv
<1>2. \A u \in Threads : status[intent[u]] # "ABSENT" => status'[intent[u]] # "ABSENT"
  BY <1>1, RowsStay
<1>3. ASSUME NEW u \in Threads, Register(u) PROVE Sole(p)'
  <2>1. /\ pc[u] = "register" /\ said' = said /\ answer' = answer
        /\ \A v \in Threads \ {u} : pc'[v] = pc[v]
    BY <1>1, <1>3 DEF Register, At, ReversalTypeOK
  <2>2. CASE status[intent[u]] = "ABSENT"
    <3>1. pc'[u] = "dispatch" /\ status'[intent[u]] = "ACCEPTED"
      BY <1>1, <1>3, <2>2 DEF Register, At, ReversalTypeOK
    <3>2. said[intent[u]] = NoOne
      BY <1>1, <2>2 DEF TruthInv, Replied
    <3>3. \A v \in Threads : intent[v] = intent[u] => pc[v] = "register" /\ answer[v] = NoOne
      BY <1>1, <2>2 DEF Sole
    <3>4. CASE p = u
      BY <1>1, <2>1, <3>1, <3>2, <3>3, <3>4 DEF Sole, Active
    <3>5. CASE p # u
      <4>1. pc[p] \in Active => intent[u] # intent[p]
        BY <1>1, <2>2, <3>3 DEF Active
      <4>2. Sole(p) /\ pc'[p] = pc[p]
        BY <1>1, <2>1, <3>5
      <4> QED
        BY <1>1, <1>2, <2>1, <4>1, <4>2 DEF Sole
    <3> QED
      BY <3>4, <3>5
  <2>3. CASE status[intent[u]] # "ABSENT"
    <3>1. pc'[u] = "done" /\ answer[u] = NoOne
      BY <1>1, <1>3, <2>1, <2>3 DEF Register, At, ReversalTypeOK, Sole
    <3>2. CASE p = u
      BY <1>1, <1>2, <2>3, <3>1, <3>2 DEF Sole, Active
    <3>3. CASE p # u
      <4>1. Sole(p) /\ pc'[p] = pc[p]
        BY <1>1, <2>1, <3>3
      <4> QED
        BY <1>1, <1>2, <2>1, <3>1, <4>1 DEF Sole
    <3> QED
      BY <3>2, <3>3
  <2> QED
    BY <2>2, <2>3
<1>4. ASSUME NEW u \in Threads, Proceeds(u) PROVE Sole(p)'
  <2>1. CASE p = u
    <3>1. Sole(u)
      BY <1>1
    <3>2. status'[intent[u]] # "ABSENT"
      BY <1>1, <1>2, <1>4, <3>1 DEF Sole, Proceeds, Active
    <3>3. pc'[u] \in {"register", "dispatch", "calling"} => answer'[u] = NoOne
      <4>1. pc'[u] \in {"register", "dispatch", "calling"} => pc'[u] = "calling"
        BY <1>4 DEF Proceeds, Active
      <4> QED
        BY <1>4, <3>1, <4>1 DEF Proceeds, Sole
    <3>4. pc'[u] \in Active => said'[intent[u]] = NoOne
      BY <1>4, <3>1 DEF Proceeds, Sole
    <3>5. \A v \in Threads \ {u} : pc'[u] \in Active /\ intent[v] = intent[u] =>
            pc'[v] \in {"register", "done"} /\ answer'[v] = NoOne
      BY <1>4, <3>1 DEF Proceeds, Sole
    <3> QED
      BY <1>1, <2>1, <3>2, <3>3, <3>4, <3>5 DEF Sole
  <2>2. CASE p # u
    <3>1. Sole(p) /\ pc'[p] = pc[p] /\ answer'[p] = answer[p]
      BY <1>1, <1>4, <2>2 DEF Proceeds
    <3>2. pc[p] \in Active => intent[u] # intent[p]
      <4>1. pc[u] \notin {"register", "done"}
        BY <1>4 DEF Proceeds, Active
      <4> QED
        BY <2>2, <3>1, <4>1 DEF Sole
    <3>3. pc[p] \in Active => said'[intent[p]] = said[intent[p]]
      BY <1>1, <1>4, <3>2 DEF Proceeds
    <3>4. \A v \in Threads \ {u} : pc'[v] = pc[v] /\ answer'[v] = answer[v]
      BY <1>4 DEF Proceeds
    <3> QED
      BY <1>1, <1>2, <3>1, <3>2, <3>3, <3>4 DEF Sole
  <2> QED
    BY <2>1, <2>2
<1>5. CASE Resting
  <2>1. Sole(p)
    BY <1>1
  <2> QED
    BY <1>1, <1>2, <1>5, <2>1 DEF Resting, Sole
<1> QED
  BY <1>3, <1>4, <1>5, RequestsMove

\* NoOne is no answer.
LEMMA SilenceProvesNothing ==
  /\ ~AtDoor(NoOne) /\ NoOne # "SUCCESS" /\ NoOne # "NOT_APPLIED" /\ NoOne # "REVERSED"
  /\ ~AtDoor("SUCCESS")
<1>1. {"LISTED_AT_DOOR", "UNLISTED_AT_DOOR", "HTTP_DOOR", "SUCCESS"} \subseteq Answers
  BY DEF Answers, Codes, Words
<1>2. "NOT_APPLIED" \in Outcomes /\ "REVERSED" \in Statuses
  BY DEF Outcomes, Statuses
<1> QED
  BY <1>1, <1>2, NoValueAssumption DEF AtDoor

\* What wedap has done stays done, but for a call that leaves anew.
LEMMA BankStays ==
  ASSUME BaseInv, TruthInv, [Next]_vars
  PROVE  /\ bank[Original] = "REVERSED" => bank'[Original] = "REVERSED"
         /\ \A r \in Reversals :
              /\ bank'[r] = "SUCCEEDED" => bank[r] = "SUCCEEDED" \/ bank'[Original] = "REVERSED"
              /\ bank[r] = "refused" =>
                   \/ bank'[r] = "refused"
                   \/ \E p \in Threads : Dispatch(p) /\ intent[p] = r
<1>1. /\ bank \in [Orders -> {"unseen", "sent", "refused", "processing"} \union Terminal]
      /\ \A p \in Threads : intent[p] \in Reversals
      /\ Reversals \subseteq Orders /\ Original \in Orders /\ Original \notin Reversals
  BY Sets DEF BaseInv, ReversalTypeOK
<1>2. ASSUME NEW p \in Threads, Dispatch(p)
      PROVE  /\ bank'[Original] = bank[Original]
             /\ \A r \in Reversals : IF r = intent[p] THEN bank'[r] = "sent" ELSE bank'[r] = bank[r]
  BY <1>1, <1>2 DEF Dispatch
<1>3. CASE BankSettles \/ \E r \in Reversals : BankDecides(r)
  <2>1. /\ bank[Original] = "REVERSED" => bank'[Original] = "REVERSED"
        /\ \A r \in Reversals :
             /\ bank'[r] = "SUCCEEDED" => bank[r] = "SUCCEEDED" \/ bank'[Original] = "REVERSED"
             /\ bank[r] = "refused" => bank'[r] = "refused"
    BY <1>3, BankMoves
  <2> QED
    BY <2>1
<1>4. (\E p \in Threads : Dispatch(p)) \/ bank' = bank \/ BankSettles \/ \E r \in Reversals : BankDecides(r)
  <2>1. ASSUME NEW u \in Txns, Moves(u) PROVE (\E p \in Threads : Dispatch(p)) \/ bank' = bank
    BY <2>1 DEF Moves, AuditStep, Abort, Request, Register, Answered, LockReversal, LockOriginal,
                Complete, Settler, Hear, LockVerdict, Settle
  <2>2. CASE UNCHANGED vars
    BY <2>2 DEF vars
  <2> QED
    BY <2>1, <2>2, NextMoves
<1>5. CASE bank' = bank
  BY <1>5
<1>6. CASE \E p \in Threads : Dispatch(p)
  <2>1. PICK p \in Threads : Dispatch(p)
    BY <1>6
  <2> QED
    BY <1>2, <2>1
<1> QED
  BY <1>3, <1>4, <1>5, <1>6

\* A call that leaves is the only one about its reversal.
LEMMA DispatchIsFirst ==
  ASSUME BaseInv, TruthInv, NEW p \in Threads, Dispatch(p)
  PROVE  /\ said[intent[p]] = NoOne /\ said' = said /\ answer' = answer
         /\ \A u \in Threads : intent[u] = intent[p] => answer[u] = NoOne
<1>1. pc[p] = "dispatch" /\ said' = said /\ answer' = answer /\ Sole(p)
  BY DEF Dispatch, rows, TruthInv
<1> QED
  BY <1>1 DEF Sole, Active

LEMMA ProvenNext ==
  ASSUME BaseInv, TruthInv, [Next]_vars, NEW p \in Threads PROVE Proven(p)'
<1>1. /\ ReversalTypeOK /\ p \in Txns /\ intent[p] \in Reversals /\ Proven(p)
      /\ intent' = intent /\ p \notin Settlers
  BY RequestsMove, Sets DEF BaseInv, ReversalTypeOK, TruthInv, Settlers
<1>2. ASSUME answer'[p] = answer[p] PROVE /\ answer'[p] = "SUCCESS" => bank'[Original] = "REVERSED"
                                          /\ AtDoor(answer'[p]) => bank'[intent[p]] = "refused"
  <2>1. answer[p] = "SUCCESS" => bank'[Original] = "REVERSED"
    BY <1>1, BankStays DEF Proven
  <2>2. ASSUME AtDoor(answer[p]) PROVE bank'[intent[p]] = "refused"
    <3>1. bank[intent[p]] = "refused" /\ answer[p] # NoOne
      BY <1>1, <2>2, SilenceProvesNothing DEF Proven
    <3>2. ASSUME NEW u \in Threads, Dispatch(u), intent[u] = intent[p] PROVE FALSE
      BY <3>1, <3>2, DispatchIsFirst
    <3> QED
      BY <1>1, <3>1, <3>2, BankStays
  <2> QED
    BY <1>2, <2>1, <2>2
<1>3. CASE \E a \in Endings : Answered(p, a)
  <2>1. PICK a \in Endings : Answered(p, a)
    BY <1>3
  <2>2. /\ answer'[p] = a /\ MayAnswer(intent[p], a) /\ bank' = bank /\ pc'[p] = "answered"
    BY <1>1, <2>1 DEF Answered, At, ReversalTypeOK
  <2>3. a = "SUCCESS" => bank[Original] = "REVERSED"
    <3>1. a = "SUCCESS" => bank[intent[p]] = "SUCCEEDED"
      BY <2>2, SilenceProvesNothing DEF MayAnswer
    <3>2. Replied(intent[p])
      BY <1>1 DEF TruthInv
    <3> QED
      BY <3>1, <3>2 DEF Replied
  <2>4. AtDoor(a) => bank[intent[p]] = "refused"
    BY <2>2, SilenceProvesNothing DEF MayAnswer
  <2> QED
    BY <1>1, <2>2, <2>3, <2>4 DEF Proven
<1>4. CASE LockReversal(p)
  <2>1. answer' = answer /\ pc'[p] \in {"flip", "commit"}
    BY <1>1, <1>4 DEF LockReversal, At, ReversalTypeOK
  <2>2. pc'[p] = "flip" => ReversalStatus(answer[p]) = "SUCCEEDED"
    BY <1>1, <1>4 DEF LockReversal, At, ReversalTypeOK
  <2> QED
    BY <1>1, <1>2, <2>1, <2>2, ReversalStatusRange DEF Proven
<1>5. CASE Register(p) \/ Dispatch(p) \/ LockOriginal(p) \/ Complete(p) \/ Abort(p) \/ AuditStep(p)
  <2>1. answer' = answer /\ (pc'[p] = "flip" => pc[p] = "flip")
    BY <1>1, <1>5 DEF Register, Dispatch, LockOriginal, Complete, Abort, AuditStep, At, ReversalTypeOK
  <2> QED
    BY <1>1, <1>2, <2>1 DEF Proven
<1>6. CASE ~Moves(p)
  <2>1. answer'[p] = answer[p] /\ pc'[p] = pc[p]
    BY <1>1, <1>6, Untouched
  <2> QED
    BY <1>1, <1>2, <2>1 DEF Proven
<1> QED
  BY <1>1, <1>3, <1>4, <1>5, <1>6 DEF Moves, Request

LEMMA RepliedNext ==
  ASSUME BaseInv, RowInv, TruthInv, [Next]_vars, NEW r \in Reversals PROVE Replied(r)'
<1>1. /\ ReversalTypeOK /\ intent' = intent /\ Replied(r) /\ r \in Orders
      /\ \A u \in Threads : intent[u] \in Reversals /\ u \in Txns /\ Sole(u) /\ Proven(u)
  BY RequestsMove, Sets DEF BaseInv, ReversalTypeOK, TruthInv
<1>2. bank'[r] = "SUCCEEDED" => bank'[Original] = "REVERSED"
  BY <1>1, BankStays DEF Replied
<1>3. CASE \E p \in Threads : Complete(p) /\ intent[p] = r
  <2>1. PICK p \in Threads : Complete(p) /\ intent[p] = r
    BY <1>3
  <2> DEFINE evidence == NoEffectEvidence(answer[p], FALSE)
  <2>2. /\ said'[r] = Outcome(status'[r], evidence, TRUE) /\ pc[p] = "commit" /\ bank' = bank
    BY <1>1, <2>1 DEF Complete, ReversalTypeOK
  <2>3. evidence => AtDoor(answer[p])
    BY DEF NoEffectEvidence, Codes, Words, AtDoor
  <2> HIDE DEF evidence
  <2>4. said'[r] = "NOT_APPLIED" => evidence
    BY <2>2, OutcomeRange
  <2>5. said'[r] = "NOT_APPLIED" => bank'[r] = "refused"
    BY <1>1, <2>1, <2>2, <2>3, <2>4 DEF Proven
  <2>6. status'[r] # "ABSENT"
    <3>1. status[r] # "ABSENT"
      BY <1>1, <2>1, <2>2 DEF Sole
    <3> QED
      BY <1>1, <3>1, RowsStay
  <2> QED
    BY <1>2, <2>5, <2>6 DEF Replied
<1>4. CASE ~\E p \in Threads : Complete(p) /\ intent[p] = r
  <2>1. said'[r] = said[r]
    <3>1. ASSUME NEW u \in Txns, Moves(u) PROVE said'[r] = said[r]
      <4>1. CASE u \in Threads /\ Complete(u)
        BY <1>1, <1>4, <4>1 DEF Complete, ReversalTypeOK
      <4>2. CASE ~(u \in Threads /\ Complete(u))
        BY <3>1, <4>2 DEF Moves, AuditStep, Abort, Request, Register, Dispatch, Answered, LockReversal,
                          LockOriginal, Settler, Hear, LockVerdict, Settle, rows
      <4> QED
        BY <4>1, <4>2
    <3>2. CASE BankSettles \/ \E u \in Reversals : BankDecides(u)
      BY <3>2 DEF BankSettles, BankDecides, rows
    <3>3. CASE UNCHANGED vars
      BY <3>3 DEF vars, rows
    <3> QED
      BY <3>1, <3>2, <3>3, NextMoves
  <2>2. said[r] = "NOT_APPLIED" => bank'[r] = "refused"
    <3>1. ASSUME NEW p \in Threads, Dispatch(p), intent[p] = r, said[r] = "NOT_APPLIED" PROVE FALSE
      BY <3>1, DispatchIsFirst, SilenceProvesNothing
    <3> QED
      BY <1>1, <3>1, BankStays DEF Replied
  <2>3. said[r] # NoOne => status'[r] # "ABSENT"
    BY <1>1, RowsStay DEF Replied
  <2> QED
    BY <1>2, <2>1, <2>2, <2>3 DEF Replied
<1> QED
  BY <1>3, <1>4

\* REVERSED is written of the original only when wedap has said so.
LEMMA ReportedNext ==
  ASSUME BaseInv, TruthInv, [Next]_vars, NEW t \in Txns PROVE Reported(t)'
<1>1. /\ ReversalTypeOK /\ Reported(t) /\ Original \in Orders /\ Original \notin Reversals
      /\ \A p \in Threads : intent[p] \in Reversals /\ intent[p] \in Orders /\ Proven(p)
      /\ Standing(t) /\ Standing(t)'
  BY BaseInvNext, Sets DEF BaseInv, ReversalTypeOK, TruthInv
<1>2. bank[Original] = "REVERSED" => bank'[Original] = "REVERSED"
  BY BankStays
<1>3. CASE ~Moves(t)
  <2>1. pc'[t] = pc[t] /\ staged'[t] = staged[t] /\ (t \in Settlers => verdict'[t] = verdict[t])
    BY <1>3, Untouched
  <2>2. pc[t] = "heard" => t \in Settlers
    BY <1>1 DEF Standing, Settlers
  <2> QED
    BY <1>1, <1>2, <2>1, <2>2 DEF Reported
<1>4. ASSUME pc'[t] # "heard", staged'[t] = staged[t] PROVE Reported(t)'
  BY <1>1, <1>2, <1>4 DEF Reported
<1>5. ASSUME pc'[t] # "heard", staged'[t][Original] = NoOne PROVE Reported(t)'
  BY <1>5, SilenceProvesNothing DEF Reported
<1>6. CASE AuditStep(t)
  <2>1. pc' = pc /\ staged' = staged /\ verdict' = verdict
    BY <1>6 DEF AuditStep, locks
  <2> QED
    BY <1>1, <1>2, <2>1 DEF Reported
<1>7. CASE Abort(t)
  <2>1. pc'[t] \in {"failed", "idle"} /\ staged'[t][Original] = NoOne
    BY <1>1, <1>7, AbortEnds
  <2> QED
    BY <1>5, <2>1
<1>8. CASE (t \in Threads /\ Complete(t)) \/ (t \in Settlers /\ Settle(t))
  <2>1. pc'[t] \in {"done", "idle"} /\ staged'[t][Original] = NoOne
    BY <1>1, <1>8, CommitEnds
  <2> QED
    BY <1>5, <2>1
<1>9. CASE t \in Threads /\ (Register(t) \/ Dispatch(t) \/ \E a \in Endings : Answered(t, a))
  <2>1. pc'[t] # "heard" /\ staged' = staged
    BY <1>1, <1>9 DEF Register, Dispatch, Answered, At, ReversalTypeOK, locks
  <2> QED
    BY <1>4, <2>1
<1>10. CASE t \in Threads /\ LockReversal(t)
  <2>1. pc'[t] # "heard"
    BY <1>1, <1>10 DEF LockReversal, At, ReversalTypeOK
  <2>2. staged'[t][Original] = staged[t][Original]
    <3> DEFINE s == ReversalStatus(answer[t])
    <3>1. Stage(t, intent[t], s) \/ staged' = staged
      BY <1>10 DEF LockReversal
    <3> HIDE DEF s
    <3>2. CASE Stage(t, intent[t], s)
      <4>1. staged' = [staged EXCEPT ![t] = [staged[t] EXCEPT ![intent[t]] = s]]
        BY <3>2 DEF Stage
      <4> QED
        BY <1>1, <1>10, <4>1 DEF ReversalTypeOK
    <3> QED
      BY <3>1, <3>2
  <2> QED
    BY <1>1, <1>2, <2>1, <2>2 DEF Reported
<1>11. CASE t \in Threads /\ LockOriginal(t)
  <2>1. pc'[t] # "heard" /\ bank[Original] = "REVERSED"
    BY <1>1, <1>11 DEF LockOriginal, At, ReversalTypeOK, Proven
  <2> QED
    BY <1>2, <2>1 DEF Reported
<1>12. CASE t \in Settlers /\ \E x \in Orders : Hear(t, x)
  <2>1. PICK x \in Orders : Hear(t, x)
    BY <1>12
  <2>2. verdict'[t] = <<x, bank[x]>> /\ staged' = staged /\ bank' = bank
    BY <1>1, <1>12, <2>1 DEF Hear, ReversalTypeOK, locks
  <2>3. verdict'[t] = <<Original, "REVERSED">> => bank[Original] = "REVERSED"
    BY <2>2
  <2> QED
    BY <1>1, <2>2, <2>3 DEF Reported
<1>13. CASE t \in Settlers /\ LockVerdict(t)
  <2> DEFINE x == verdict[t][1]
             s == verdict[t][2]
  <2>1. pc[t] = "heard" /\ verdict[t] \in Orders \X Terminal /\ pc'[t] = "commit"
    BY <1>1, <1>13 DEF LockVerdict, At, ReversalTypeOK, Standing
  <2>2. Stage(t, x, s) \/ staged' = staged
    BY <1>13 DEF LockVerdict
  <2>3. x \in Orders /\ verdict[t] = <<x, s>>
    BY <2>1
  <2> HIDE DEF x, s
  <2>4. CASE staged' = staged
    BY <1>4, <2>1, <2>4
  <2>5. CASE Stage(t, x, s)
    <3>1. staged' = [staged EXCEPT ![t] = [staged[t] EXCEPT ![x] = s]]
      BY <2>5 DEF Stage
    <3>2. staged'[t][Original] = IF x = Original THEN s ELSE staged[t][Original]
      BY <1>1, <2>3, <3>1 DEF ReversalTypeOK
    <3>3. staged'[t][Original] = "REVERSED" => bank[Original] = "REVERSED"
      BY <1>1, <2>1, <2>3, <3>2 DEF Reported
    <3> QED
      BY <1>2, <2>1, <3>3 DEF Reported
  <2> QED
    BY <2>2, <2>4, <2>5
<1> QED
  BY <1>3, <1>6, <1>7, <1>8, <1>9, <1>10, <1>11, <1>12, <1>13 DEF Moves, Request, Settler

\* The original becomes REVERSED when such a draft is committed.
LEMMA OriginalIsTrue ==
  ASSUME BaseInv, TruthInv, [Next]_vars, status'[Original] = "REVERSED"
  PROVE  bank'[Original] = "REVERSED"
<1>1. /\ ReversalTypeOK /\ Original \in Orders /\ Original \notin Reversals
      /\ \A t \in Txns : Reported(t)
      /\ \A p \in Threads : intent[p] \in Reversals
      /\ Threads \subseteq Txns /\ Settlers \subseteq Txns
  BY Sets DEF BaseInv, ReversalTypeOK, TruthInv
<1>2. bank[Original] = "REVERSED" => bank'[Original] = "REVERSED"
  BY BankStays
<1>3. ASSUME NEW t \in Txns, NEW source \in {"SYNC", "LATE"}, Publish(t, source)
      PROVE  status[Original] = "REVERSED" \/ staged[t][Original] = "REVERSED"
  <2>1. /\ staged[t][Original] = NoOne => status'[Original] = status[Original]
        /\ staged[t][Original] # NoOne => status'[Original] = staged[t][Original]
    BY <1>1, <1>3, PublishPublishes
  <2> QED
    BY <2>1
<1>4. ASSUME NEW u \in Txns, Moves(u)
      PROVE  status[Original] = "REVERSED" \/ \E t \in Txns : staged[t][Original] = "REVERSED"
  <2>1. CASE u \in Threads /\ Register(u)
    BY <1>1, <2>1 DEF Register, ReversalTypeOK
  <2>2. CASE (u \in Threads /\ Complete(u)) \/ (u \in Settlers /\ Settle(u))
    BY <1>3, <2>2 DEF Complete, Settle
  <2>3. CASE ~(u \in Threads /\ (Register(u) \/ Complete(u))) /\ ~(u \in Settlers /\ Settle(u))
    BY <1>4, <2>3 DEF Moves, AuditStep, Abort, Request, Dispatch, Answered, LockReversal,
                      LockOriginal, Settler, Hear, LockVerdict, rows
  <2> QED
    BY <2>1, <2>2, <2>3
<1>5. CASE BankSettles \/ \E r \in Reversals : BankDecides(r)
  BY <1>2, <1>5 DEF BankSettles, BankDecides, rows, TruthInv
<1>6. CASE UNCHANGED vars
  BY <1>2, <1>6 DEF vars, rows, TruthInv
<1>7. CASE \E u \in Txns : Moves(u)
  BY <1>1, <1>2, <1>4, <1>7 DEF TruthInv, Reported
<1> QED
  BY <1>5, <1>6, <1>7, NextMoves

LEMMA TruthInvNext == BaseInv /\ RowInv /\ TruthInv /\ [Next]_vars => TruthInv'
<1> SUFFICES ASSUME BaseInv, RowInv, TruthInv, [Next]_vars PROVE TruthInv'
  OBVIOUS
<1>1. ASSUME NEW p \in Threads PROVE Sole(p)' /\ Proven(p)'
  BY SoleNext, ProvenNext
<1>2. ASSUME NEW r \in Reversals PROVE Replied(r)'
  BY RepliedNext
<1>3. ASSUME NEW t \in Txns PROVE Reported(t)'
  BY ReportedNext
<1> QED
  BY <1>1, <1>2, <1>3, OriginalIsTrue DEF TruthInv

LEMMA TruthInvInit == Init => TruthInv
<1> SUFFICES ASSUME Init PROVE TruthInv
  OBVIOUS
<1>1. /\ \A r \in Reversals : r \in Orders /\ r # Original
      /\ Original \in Orders /\ Threads \subseteq Txns
  BY Sets
<1>2. /\ \A r \in Reversals : said[r] = NoOne /\ bank[r] = "unseen"
      /\ status[Original] # "REVERSED"
      /\ \A p \in Threads : pc[p] = "register" /\ answer[p] = NoOne
      /\ \A t \in Txns : pc[t] # "heard" /\ staged[t][Original] = NoOne
  <2>1. \A r \in Reversals : said[r] = NoOne /\ bank[r] = "unseen"
    BY <1>1 DEF Init, InitOf
  <2>2. status[Original] # "REVERSED"
    BY <1>1 DEF Init, InitOf, Starts
  <2>3. /\ \A p \in Threads : pc[p] = "register" /\ answer[p] = NoOne
        /\ \A t \in Txns : pc[t] # "heard" /\ staged[t][Original] = NoOne
    BY <1>1 DEF Init, NoWrites
  <2> QED
    BY <2>1, <2>2, <2>3
<1>3. ASSUME NEW p \in Threads PROVE Sole(p) /\ Proven(p)
  BY <1>2, SilenceProvesNothing DEF Sole, Proven, Active
<1>4. ASSUME NEW r \in Reversals PROVE Replied(r)
  BY <1>2, SilenceProvesNothing DEF Replied
<1>5. ASSUME NEW t \in Txns PROVE Reported(t)
  BY <1>2, SilenceProvesNothing DEF Reported
<1> QED
  BY <1>2, <1>3, <1>4, <1>5 DEF TruthInv

-----------------------------------------------------------------------------
(* The theorems.                                                           *)

\* Types, the chain and the call frames; and what the rows and the chain tell.
THEOREM BaseInvariant == Spec => []BaseInv
BY BaseInvInit, BaseInvNext, PTL DEF Spec

\* What a transaction has written, it may write, and is recorded once.
THEOREM RowInvariant == Spec => [](BaseInv /\ RowInv)
<1>1. Init => RowInv
  BY RowInvInit
<1>2. BaseInv /\ RowInv /\ [Next]_vars => RowInv'
  BY RowInvNext
<1> QED
  BY <1>1, <1>2, BaseInvariant, PTL DEF Spec

\* A request that settles a reversal has dealt with its original.
THEOREM PairInvariant == Spec => []PairInv
BY PairInvInit, PairInvNext, RowInvariant, PTL DEF Spec

\* One request calls wedap for a reversal, and what it and the settlers hold
\* of wedap's words is so.
THEOREM TruthInvariant == Spec => []TruthInv
BY TruthInvInit, TruthInvNext, RowInvariant, PTL DEF Spec

\* Rows, drafts, locks and the chain keep their types.
THEOREM ReversalTypeCorrect == Spec => []ReversalTypeOK
<1>1. BaseInv => ReversalTypeOK
  BY DEF BaseInv
<1> QED
  BY <1>1, BaseInvariant, PTL

\* write_audit makes one chain without forks or gaps, whichever transactions
\* race for its anchor and are rolled back after they have appended.
THEOREM LinearChainCorrect == Spec => []LinearChain
<1>1. BaseInv => LinearChain
  BY DEF BaseInv, ChainInv
<1> QED
  BY <1>1, BaseInvariant, PTL

\* The committed chain holds exactly one entry for each verdict that lifecycle
\* hears of, and none for another, for any reversals, requests and settlers.
THEOREM ChainTellsTheLedgerCorrect == Spec => []ChainTellsTheLedger
<1>1. ASSUME RowInv, NEW x \in Orders
      PROVE  /\ status[x] \in Terminal => status[x] \in forwarded[x]
             /\ \A s \in Terminal :
                  IF s \in forwarded[x] THEN \E i \in EntriesAbout(x, s) : EntriesAbout(x, s) = {i}
                                        ELSE EntriesAbout(x, s) = {}
  <2>1. Forwarded(x) /\ Told(x)
    BY <1>1 DEF RowInv
  <2>2. status[x] \in Terminal => status[x] \in forwarded[x]
    BY <2>1 DEF Forwarded, Terminal
  <2>3. \A s : EntriesAbout(x, s) = About(log, x, s)
    BY DEF EntriesAbout, About
  <2> QED
    BY <2>1, <2>2, <2>3 DEF Told, Once, Never
<1>2. RowInv => ChainTellsTheLedger
  BY <1>1 DEF ChainTellsTheLedger
<1> QED
  BY <1>2, RowInvariant, PTL

\* A reversal that its own request has settled leaves no original that could
\* still be flipped, for any requests, reversals and settlers.
THEOREM PairFlipsTogetherCorrect == Spec => []PairFlipsTogether
<1>1. PairInv => PairFlipsTogether
  BY DEF PairInv
<1> QED
  BY <1>1, PairInvariant, PTL

\* REVERSED is said of an original only when wedap has reversed it, and
\* NOT_APPLIED of a reversal only when wedap has refused it, for any requests,
\* reversals and settlers.
THEOREM ReversalIsTrueCorrect == Spec => []ReversalIsTrue
<1>1. TruthInv => ReversalIsTrue
  BY DEF TruthInv, Replied, ReversalIsTrue
<1> QED
  BY <1>1, TruthInvariant, PTL
=============================================================================
