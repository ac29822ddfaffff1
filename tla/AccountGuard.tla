---------------------------- MODULE AccountGuard ----------------------------
(***************************************************************************)
(* The whitelist of platform accounts and who changes it                   *)
(* (models/platform_account.py, api/v1/platform_accounts.py), with what    *)
(* the guard of the money endpoints asks of it (services/account_guard.py).*)
(*                                                                         *)
(* One account of one tenant.  An administrator's request is a             *)
(* transaction: a plain read, an UPDATE of the columns whose value differs *)
(* from what was read, which locks the row, and an audit entry; all of it  *)
(* becomes visible with the commit.  How entries chain is AuditChain's.    *)
(***************************************************************************)
EXTENDS MoneyBodies

CONSTANTS Admins,         \* requests of administrators
          Registrations,  \* the rows they may register
          Patches,        \* the changes they may send, as partial rows
          Scopes,         \* the money operations an account can be allowed
          MaxWrites       \* how many of their requests commit or fail (bound)

Accounts == [status : {"active", "disabled"}, scopes : SUBSET Scopes,
             currency : Currencies \union {None}]

Columns == {"status", "scopes", "currency"}

ASSUME NobodyAssumption == None \notin Accounts \union Admins
ASSUME RegistrationsAssumption == Registrations \subseteq Accounts

\* A change gives some columns values that an account can have.
ASSUME PatchesAssumption ==
  \A patch \in Patches :
    /\ DOMAIN patch \subseteq Columns
    /\ \E account \in Accounts : \A c \in DOMAIN patch : patch[c] = account[c]

VARIABLES row,      \* the account's row as committed, None without one
          log,      \* the audit entries about its changes
          lock,     \* the transaction that has written the row
          adm,      \* the administrators' transactions
          writes    \* how many of them have ended

whitelist == <<row, log, lock, adm, writes>>

Idle == [at |-> "idle", seen |-> None, sent |-> <<>>, dirty |-> {}]

\* The row may be there from the start: a migration seeds the whitelist.
WhitelistInit ==
  /\ row \in Registrations \union {None}
  /\ log = <<>>
  /\ lock = None
  /\ adm = [a \in Admins |-> Idle]
  /\ writes = 0

\* _evaluate: registered, active, in scope, and in a currency that it is
\* restricted to, if it is restricted.
Allows(account, scope, currency) ==
  /\ account # None
  /\ account.status = "active"
  /\ scope \in account.scopes
  /\ account.currency \in {None, currency}

Entry(action, told) == [action |-> action, told |-> told]

-----------------------------------------------------------------------------
Becomes(a, frame) == adm' = [adm EXCEPT ![a] = frame]

\* The INSERT of a registration.  The unique key makes it wait for another
\* one; a second registration of the account changes nothing (409).
Register(a) ==
  /\ adm[a].at = "idle" /\ writes < MaxWrites
  /\ row = None /\ lock = None
  /\ \E new \in Registrations :
       Becomes(a, [at |-> "written", seen |-> None, sent |-> new, dirty |-> Columns])
  /\ lock' = a
  /\ UNCHANGED <<row, log, writes>>

\* A PATCH reads the row, without a lock; there is none to change otherwise (404).
Load(a) ==
  /\ adm[a].at = "idle" /\ writes < MaxWrites
  /\ row # None
  /\ \E sent \in Patches :
       Becomes(a, [at |-> "loaded", seen |-> row, sent |-> sent, dirty |-> {}])
  /\ UNCHANGED <<row, log, lock, writes>>

\* Wrong on purpose: the row is written back as a whole, as it was read.
DirtyAll(frame) == Columns

\* The columns that were set and that this changed.
Dirty(frame) == {c \in DOMAIN frame.sent : frame.sent[c] # frame.seen[c]}

\* The flush before the audit entry is written: an UPDATE waits for the row's
\* lock, and without a changed column there is none.
Flush(a) ==
  /\ adm[a].at = "loaded"
  /\ LET dirty == Dirty(adm[a]) IN
       /\ dirty # {} => lock = None
       /\ lock' = IF dirty = {} THEN lock ELSE a
       /\ Becomes(a, [adm[a] EXCEPT !.at = "written", !.dirty = dirty])
  /\ UNCHANGED <<row, log, writes>>

\* What a transaction has written to a column: what was sent, or what was read.
Written(frame, c) == IF c \in DOMAIN frame.sent THEN frame.sent[c] ELSE frame.seen[c]

Merged(frame) ==
  [c \in Columns |-> IF c \in frame.dirty THEN Written(frame, c) ELSE row[c]]

Unlock(a) == lock' = IF lock = a THEN None ELSE lock

\* The commit: the row and the entry that tells of it, together.
CommitWrite(a) ==
  /\ adm[a].at = "written"
  /\ row' = Merged(adm[a])
  /\ log' = Append(log, Entry(IF adm[a].seen = None THEN "create" ELSE "update", adm[a].sent))
  /\ Unlock(a)
  /\ Becomes(a, Idle)
  /\ writes' = writes + 1

\* The transaction fails (the database, a deadlock over the anchor, a crash).
WriteFails(a) ==
  /\ adm[a].at \in {"loaded", "written"}
  /\ Unlock(a)
  /\ Becomes(a, Idle)
  /\ writes' = writes + 1
  /\ UNCHANGED <<row, log>>

-----------------------------------------------------------------------------
Sendings == Registrations \union Patches \union {<<>>}
Frames == [at : {"idle", "loaded", "written"}, seen : Accounts \union {None},
           sent : Sendings, dirty : SUBSET Columns]

WhitelistTypeOK ==
  /\ row \in Accounts \union {None}
  /\ log \in Seq([action : {"create", "update"}, told : Sendings])
  /\ lock \in Admins \union {None}
  /\ adm \in [Admins -> Frames]
  /\ writes \in Nat

\* Whichever administrators change the account at the same time: no column of
\* its row changes but to what the audit entry of the same commit tells, and
\* nothing that another has changed is undone in passing.
RowChangesAreTold ==
  [][row' # row =>
       /\ Len(log') = Len(log) + 1
       /\ LET entry == log'[Len(log')] IN
            IF row = None
              THEN entry.action = "create" /\ row' = entry.told
              ELSE \A c \in Columns :
                     row'[c] # row[c] => c \in DOMAIN entry.told /\ entry.told[c] = row'[c]
    ]_<<row, log>>
=============================================================================
