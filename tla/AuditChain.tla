----------------------------- MODULE AuditChain -----------------------------
(***************************************************************************)
(* The audit hash chain of one tenant (services/audit.py).  write_audit    *)
(* runs inside the transaction of its caller: it peeks at the anchor row,  *)
(* inserts it if there is none, locks it, and appends an entry that chains *)
(* to the hash the row holds.  The lock, the entry and the new anchor live *)
(* until the caller commits or rolls back.                                 *)
(*                                                                         *)
(* An entry stands for its hash by its place in the log: entry i hashes to *)
(* i, the genesis hash is 0.  What a transaction has appended and not yet  *)
(* committed is its draft.                                                 *)
(***************************************************************************)
EXTENDS Naturals, Sequences

CONSTANTS Txns,       \* the transactions of the tenant
          Subjects,   \* what an entry is about
          NoOne       \* nobody holds the lock, no row, no value

ASSUME NoOneAssumption == NoOne \notin Txns /\ NoOne \notin Nat

VARIABLES anchor,    \* audit_chain_head.last_row_hash, NoOne without a row
          log,       \* audit_log, in the order of its ids
          owner,     \* the transaction with the exclusive lock of the anchor
          sharers,   \* those with a shared lock, from a duplicate key
          writing,   \* where each transaction stands in write_audit
          subject,   \* what it is about to record
          seed,      \* the tail of the log it has read for a new anchor
          tip,       \* the anchor as it has written it, NoOne if it has not
          draft      \* the entries it has appended

chain == <<anchor, log, owner, sharers, writing, subject, seed, tip, draft>>

Entries == [prev : Nat, about : Subjects]

ChainInit ==
  /\ owner = NoOne
  /\ sharers = {}
  /\ writing = [t \in Txns |-> "rest"]
  /\ subject = [t \in Txns |-> NoOne]
  /\ seed = [t \in Txns |-> NoOne]
  /\ tip = [t \in Txns |-> NoOne]
  /\ draft = [t \in Txns |-> <<>>]

\* The history an upgrade finds: entries that chain, with or without an anchor.
Inherited(history) ==
  /\ log = history
  /\ anchor \in IF history = <<>> THEN {NoOne} ELSE {NoOne, Len(history)}

-----------------------------------------------------------------------------
Writes(t, label) == writing' = [writing EXCEPT ![t] = label]

\* write_audit is called.  A transaction that has the anchor's lock already
\* finds its own row at once: nothing of what follows has an effect on it.
BeginAudit(t, about) ==
  /\ subject' = [subject EXCEPT ![t] = about]
  /\ Writes(t, IF owner = t THEN "append" ELSE "peek")
  /\ UNCHANGED <<anchor, log, owner, sharers, seed, tip, draft>>

\* The plain read of the anchor and, without one, of the last entry's hash:
\* both from one snapshot, which is old by the time it is used.
Peek(t) ==
  /\ writing[t] = "peek"
  /\ IF anchor # NoOne
       THEN Writes(t, "append") /\ UNCHANGED seed
       ELSE Writes(t, "insert") /\ seed' = [seed EXCEPT ![t] = Len(log)]
  /\ UNCHANGED <<anchor, log, owner, sharers, subject, tip, draft>>

\* Nobody else holds the row in a way that keeps t waiting.
Unlocked(t) == owner \in {NoOne, t}
Exclusive(t) == Unlocked(t) /\ sharers \subseteq {t}

\* The INSERT, in a savepoint.  It waits for another transaction's INSERT;
\* a duplicate key is swallowed but leaves a shared lock behind.
Insert(t) ==
  /\ writing[t] = "insert" /\ Unlocked(t)
  /\ IF anchor = NoOne
       THEN /\ owner' = t
            /\ tip' = [tip EXCEPT ![t] = seed[t]]
            /\ UNCHANGED sharers
       ELSE /\ sharers' = sharers \union {t}
            /\ UNCHANGED <<owner, tip>>
  /\ Writes(t, "append")
  /\ UNCHANGED <<anchor, log, subject, seed, draft>>

\* Wrong on purpose: the lock of the anchor is left out.
AppendUnlocked(t) ==
  /\ writing[t] = "append"
  /\ LET prev == IF tip[t] = NoOne THEN anchor ELSE tip[t] IN
       draft' = [draft EXCEPT ![t] = Append(@, [prev |-> prev, about |-> subject[t]])]
  /\ tip' = [tip EXCEPT ![t] = Len(log) + Len(draft[t]) + 1]
  /\ Writes(t, "rest")
  /\ UNCHANGED <<anchor, log, owner, sharers, subject, seed>>

\* SELECT ... FOR UPDATE of the anchor, which reads the latest hash, then the
\* new entry and the new anchor.
AppendEntry(t) ==
  /\ writing[t] = "append" /\ Exclusive(t)
  /\ owner' = t
  /\ LET prev == IF tip[t] = NoOne THEN anchor ELSE tip[t] IN
       draft' = [draft EXCEPT ![t] = Append(@, [prev |-> prev, about |-> subject[t]])]
  /\ tip' = [tip EXCEPT ![t] = Len(log) + Len(draft[t]) + 1]
  /\ Writes(t, "rest")
  /\ UNCHANGED <<anchor, log, sharers, subject, seed>>

\* The caller's transaction ends: its locks go, and what it read with them.
Release(t) ==
  /\ owner' = IF owner = t THEN NoOne ELSE owner
  /\ sharers' = sharers \ {t}
  /\ writing' = [writing EXCEPT ![t] = "rest"]
  /\ subject' = [subject EXCEPT ![t] = NoOne]
  /\ seed' = [seed EXCEPT ![t] = NoOne]
  /\ tip' = [tip EXCEPT ![t] = NoOne]
  /\ draft' = [draft EXCEPT ![t] = <<>>]

CommitChain(t) ==
  /\ writing[t] = "rest"
  /\ log' = log \o draft[t]
  /\ anchor' = IF tip[t] = NoOne THEN anchor ELSE tip[t]
  /\ Release(t)

RollbackChain(t) == Release(t) /\ UNCHANGED <<anchor, log>>

\* The steps of write_audit itself.
Audit(t) == Peek(t) \/ Insert(t) \/ AppendEntry(t)

ChainNext ==
  \E t \in Txns :
    \/ writing[t] = "rest" /\ \E about \in Subjects : BeginAudit(t, about)
    \/ Audit(t) \/ CommitChain(t) \/ RollbackChain(t)

-----------------------------------------------------------------------------
ChainTypeOK ==
  /\ anchor \in Nat \union {NoOne}
  /\ log \in Seq(Entries)
  /\ owner \in Txns \union {NoOne}
  /\ sharers \subseteq Txns
  /\ writing \in [Txns -> {"rest", "peek", "insert", "append"}]
  /\ subject \in [Txns -> Subjects \union {NoOne}]
  /\ seed \in [Txns -> Nat \union {NoOne}]
  /\ tip \in [Txns -> Nat \union {NoOne}]
  /\ draft \in [Txns -> Seq(Entries)]

\* The chain has no fork and no gap: every entry chains to the one before it,
\* and the anchor is the last entry, whoever wrote first, raced for the anchor,
\* or was rolled back after it had appended.
LinearChain ==
  /\ \A i \in 1..Len(log) : log[i].prev = i - 1
  /\ anchor # NoOne => anchor = Len(log)
=============================================================================
