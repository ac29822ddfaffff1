------------------------ MODULE CallbackOutboxProofs ------------------------
(***************************************************************************)
(* Theorems about CallbackOutbox, for every set of rows and dispatchers    *)
(* and every bound on the attempts.                                        *)
(***************************************************************************)
EXTENDS CallbackOutbox, TLAPS

-----------------------------------------------------------------------------
(* The inductive invariant.                                                *)

\* What a dispatcher at work knows: the result it carries is true, and while
\* its claim stands the attempts it has read are those of the row, and the
\* try it has made is counted.
Works(d) ==
  Calling(d) =>
    LET r == dispatcher[d].row IN
    /\ r \in Rows /\ status[r] # "ABSENT"
    /\ dispatcher[d].pc = "answered" /\ dispatcher[d].ok => r \in accepted
    /\ Holds(d) /\ dispatcher[d].pc # "claimed" => dispatcher[d].read = attempts[r]
    /\ Holds(d) /\ dispatcher[d].pc = "answered" => dispatcher[d].read + 1 <= tries[r]

\* A row that can still be tried has attempts left, and each attempt written
\* was a try.
Counts(r) ==
  /\ status[r] \in {"PENDING", "FAILED", "SENDING"} => attempts[r] < MaxAttempts
  /\ attempts[r] <= tries[r]
  /\ status[r] = "ABSENT" => attempts[r] = 0
  /\ status[r] = "DEAD" => tries[r] = MaxAttempts
  /\ status[r] = "SENT" => r \in accepted

OutboxInv ==
  /\ TypeOK
  /\ \A d \in Dispatchers : Works(d)
  /\ \A r \in Rows : Counts(r)

LEMMA AsleepRound == Asleep \in Rounds
BY AttemptsAssumption DEF Asleep, Rounds

LEMMA OutboxInvInit == Init => OutboxInv
<1> SUFFICES ASSUME Init
             PROVE  OutboxInv
  OBVIOUS
<1>1. Asleep \in Rounds
  BY AsleepRound
<1>2. TypeOK
  BY <1>1, AttemptsAssumption DEF Init, TypeOK
<1>3. \A d \in Dispatchers : Works(d)
  BY DEF Init, Works, Calling, Asleep
<1>4. \A r \in Rows : Counts(r)
  BY AttemptsAssumption DEF Init, Counts
<1> QED
  BY <1>2, <1>3, <1>4 DEF OutboxInv

-----------------------------------------------------------------------------
(* Steps of a dispatcher that leave the rows alone.                        *)

\* Only dispatcher d moves, to x, and neither the rows nor the outside change.
Moves(d, x) ==
  /\ dispatcher' = [dispatcher EXCEPT ![d] = x]
  /\ UNCHANGED <<row, replaying, outside>>

\* If what d knows then is true, the invariant is kept.
LEMMA MovesKeep ==
  ASSUME OutboxInv, NEW d \in Dispatchers, NEW x \in Rounds, Moves(d, x), Works(d)'
  PROVE  OutboxInv'
<1>1. TypeOK'
  BY DEF Moves, OutboxInv, TypeOK, row, outside
<1>2. \A e \in Dispatchers : Works(e)'
  <2> SUFFICES ASSUME NEW e \in Dispatchers, e # d
               PROVE  Works(e)'
    OBVIOUS
  <2>1. dispatcher'[e] = dispatcher[e]
    BY DEF Moves, OutboxInv, TypeOK
  <2>2. UNCHANGED <<status, attempts, holder, accepted, tries>>
    BY DEF Moves, row, outside
  <2> QED
    BY <2>1, <2>2 DEF OutboxInv, Works, Calling, Holds
<1>3. \A r \in Rows : Counts(r)'
  BY DEF Moves, OutboxInv, Counts, row, outside
<1> QED
  BY <1>1, <1>2, <1>3 DEF OutboxInv

LEMMA RoundOf ==
  ASSUME OutboxInv, NEW d \in Dispatchers
  PROVE  /\ dispatcher[d] \in Rounds
         /\ \A x : Moves(d, x) => dispatcher'[d] = x
         /\ Calling(d) => dispatcher[d].row \in Rows
BY DEF OutboxInv, TypeOK, Moves, Works

-----------------------------------------------------------------------------
(* Steps that change a row.                                                *)

LEMMA ReclaimKeeps ==
  ASSUME OutboxInv, NEW d \in Dispatchers, Reclaim(d)
  PROVE  OutboxInv'
<1> DEFINE lost == {r \in Rows : status[r] = "SENDING" /\ r \in stale}
           x == [Asleep EXCEPT !.pc = "select", !.late = waiting]
<1>1. /\ status' = [r \in Rows |-> IF r \in lost THEN "FAILED" ELSE status[r]]
      /\ holder' = [r \in Rows |-> IF r \in lost THEN NoOne ELSE holder[r]]
      /\ stale' = stale \ lost
      /\ dispatcher' = [dispatcher EXCEPT ![d] = x]
      /\ UNCHANGED <<attempts, waiting, replaying, accepted, tries>>
  BY DEF Reclaim, Step, outside
<1>2. x \in Rounds
  <2>1. waiting \in SUBSET Rows
    BY DEF OutboxInv, TypeOK
  <2> QED
    BY <2>1, AsleepRound DEF Rounds
<1>3. TypeOK'
  <2>1. /\ status' \in [Rows -> {"ABSENT", "PENDING", "SENDING", "SENT", "FAILED", "DEAD"}]
        /\ holder' \in [Rows -> Dispatchers \union {NoOne}]
    BY <1>1 DEF OutboxInv, TypeOK
  <2>2. stale' \subseteq Rows /\ dispatcher' \in [Dispatchers -> Rounds]
    BY <1>1, <1>2 DEF OutboxInv, TypeOK
  <2> QED
    BY <1>1, <2>1, <2>2 DEF OutboxInv, TypeOK
<1>4. \A e \in Dispatchers : Works(e)'
  <2> SUFFICES ASSUME NEW e \in Dispatchers
               PROVE  Works(e)'
    OBVIOUS
  <2>1. CASE e = d
    BY <1>1, <2>1 DEF Works, Calling, OutboxInv, TypeOK, Asleep
  <2>2. CASE e # d
    <3>1. dispatcher'[e] = dispatcher[e] /\ Works(e)
      BY <1>1, <2>2 DEF OutboxInv, TypeOK
    <3>2. Calling(e) => (Holds(e)' => Holds(e))
      BY <1>1, <3>1, NoOneAssumption DEF Holds, Works
    <3> QED
      BY <1>1, <3>1, <3>2 DEF Works, Calling
  <2> QED
    BY <2>1, <2>2
<1>5. \A r \in Rows : Counts(r)'
  BY <1>1 DEF OutboxInv, Counts
<1> QED
  BY <1>3, <1>4, <1>5 DEF OutboxInv

LEMMA ClaimKeeps ==
  ASSUME OutboxInv, NEW d \in Dispatchers, NEW r \in Rows, Claim(d, r)
  PROVE  OutboxInv'
<1> DEFINE x == [dispatcher[d] EXCEPT !.pc = "claimed", !.row = r,
                                      !.batch = dispatcher[d].batch \ {r}]
<1>1. /\ status[r] \in {"PENDING", "FAILED"}
      /\ status' = [status EXCEPT ![r] = "SENDING"]
      /\ holder' = [holder EXCEPT ![r] = d]
      /\ stale' = stale \ {r}
      /\ dispatcher' = [dispatcher EXCEPT ![d] = x]
      /\ UNCHANGED <<attempts, waiting, replaying, accepted, tries>>
  BY DEF Claim, Claimable, Deliverable, Step, outside
<1>2. x \in Rounds
  BY RoundOf DEF Rounds
<1>3. TypeOK'
  BY <1>1, <1>2 DEF OutboxInv, TypeOK
<1>4. dispatcher'[d] = x /\ x.pc = "claimed" /\ x.row = r
  BY <1>1, RoundOf DEF OutboxInv, TypeOK, Rounds
<1>5. \A e \in Dispatchers : Works(e)'
  <2> SUFFICES ASSUME NEW e \in Dispatchers
               PROVE  Works(e)'
    OBVIOUS
  <2>1. CASE e = d
    <3>1. status'[r] = "SENDING"
      BY <1>1 DEF OutboxInv, TypeOK
    <3> QED
      BY <1>4, <2>1, <3>1 DEF Works, Calling
  <2>2. CASE e # d
    <3>1. dispatcher'[e] = dispatcher[e] /\ Works(e)
      BY <1>1, <2>2 DEF OutboxInv, TypeOK
    <3>2. Calling(e) => (Holds(e)' => Holds(e))
      BY <1>1, <2>2, <3>1 DEF Holds, Works, OutboxInv, TypeOK
    <3> QED
      BY <1>1, <3>1, <3>2 DEF Works, Calling
  <2> QED
    BY <2>1, <2>2
<1>6. \A q \in Rows : Counts(q)'
  BY <1>1 DEF OutboxInv, Counts, TypeOK
<1> QED
  BY <1>3, <1>5, <1>6 DEF OutboxInv

LEMMA PostKeeps ==
  ASSUME OutboxInv, NEW d \in Dispatchers, NEW taken \in BOOLEAN, NEW ok \in BOOLEAN,
         Post(d, taken, ok)
  PROVE  OutboxInv'
<1> DEFINE r == dispatcher[d].row
           n == IF tries[r] < MaxAttempts THEN tries[r] + 1 ELSE tries[r]
           x == [dispatcher[d] EXCEPT !.pc = "answered", !.ok = ok]
<1>1. /\ dispatcher[d].pc = "post"
      /\ ok => taken
      /\ accepted' = IF taken THEN accepted \union {r} ELSE accepted
      /\ tries' = [tries EXCEPT ![r] = n]
      /\ dispatcher' = [dispatcher EXCEPT ![d] = x]
      /\ UNCHANGED <<status, attempts, holder, stale, waiting, replaying>>
  BY DEF Post, Step, row
<1>2. r \in Rows /\ Works(d)
  BY <1>1, RoundOf DEF Calling, OutboxInv
<1>3. x \in Rounds
  BY RoundOf DEF Rounds
<1>4. /\ tries[r] \in 0 .. MaxAttempts
      /\ n \in 0 .. MaxAttempts
      /\ n >= tries[r]
  BY <1>2, AttemptsAssumption DEF OutboxInv, TypeOK
<1>5. TypeOK'
  BY <1>1, <1>2, <1>3, <1>4 DEF OutboxInv, TypeOK
<1>6. \A q \in Rows : tries'[q] = IF q = r THEN n ELSE tries[q]
  BY <1>1, <1>2 DEF OutboxInv, TypeOK
<1>7. /\ dispatcher'[d] = x /\ x.pc = "answered" /\ x.row = r
      /\ x.ok = ok /\ x.read = dispatcher[d].read
  BY <1>1, RoundOf DEF OutboxInv, TypeOK, Rounds
<1>8. Works(d)'
  <2>1. ok => r \in accepted'
    BY <1>1
  <2>2. Holds(d)' => Holds(d)
    BY <1>1, <1>7 DEF Holds
  <2>3. Holds(d) => dispatcher[d].read = attempts[r] /\ attempts[r] < MaxAttempts
    BY <1>1, <1>2 DEF Works, Calling, Holds, OutboxInv, Counts
  <2>4. Holds(d) => dispatcher[d].read + 1 <= n
    <3>1. attempts[r] <= tries[r] /\ attempts[r] \in 0 .. MaxAttempts
      BY <1>2 DEF OutboxInv, Counts, TypeOK
    <3> QED
      BY <1>4, <2>3, <3>1, AttemptsAssumption
  <2> QED
    BY <1>1, <1>2, <1>6, <1>7, <2>1, <2>2, <2>3, <2>4 DEF Works, Calling
<1>9. \A e \in Dispatchers : Works(e)'
  <2> SUFFICES ASSUME NEW e \in Dispatchers, e # d
               PROVE  Works(e)'
    BY <1>8
  <2>1. dispatcher'[e] = dispatcher[e] /\ Works(e)
    BY <1>1 DEF OutboxInv, TypeOK
  <2>2. Calling(e) => (Holds(e)' => Holds(e))
    BY <1>1, <2>1 DEF Holds
  <2>3. Calling(e) => /\ dispatcher[e].row \in Rows
                      /\ dispatcher[e].read \in Nat
                      /\ tries[dispatcher[e].row] \in Nat
                      /\ tries'[dispatcher[e].row] \in Nat
                      /\ tries'[dispatcher[e].row] >= tries[dispatcher[e].row]
    BY <1>4, <1>6, <2>1, RoundOf, AttemptsAssumption DEF Rounds, OutboxInv, TypeOK
  <2>4. accepted \subseteq accepted'
    BY <1>1
  <2> QED
    BY <1>1, <2>1, <2>2, <2>3, <2>4 DEF Works, Calling
<1>10. \A q \in Rows : Counts(q)'
  <2> SUFFICES ASSUME NEW q \in Rows
               PROVE  Counts(q)'
    OBVIOUS
  <2>1. /\ tries[q] \in 0 .. MaxAttempts
        /\ tries'[q] \in 0 .. MaxAttempts
        /\ tries'[q] >= tries[q]
        /\ attempts[q] \in 0 .. MaxAttempts
    BY <1>2, <1>4, <1>6 DEF OutboxInv, TypeOK
  <2>2. q \in accepted => q \in accepted'
    BY <1>1
  <2> QED
    BY <1>1, <2>1, <2>2, AttemptsAssumption DEF OutboxInv, Counts
<1> QED
  BY <1>5, <1>9, <1>10 DEF OutboxInv

LEMMA FinalizeKeeps ==
  ASSUME OutboxInv, NEW d \in Dispatchers, Finalize(d)
  PROVE  OutboxInv'
<1> DEFINE r == dispatcher[d].row
           n == dispatcher[d].read + 1
<1>1. PICK s \in {"SENT", "DEAD", "FAILED"}, b \in BOOLEAN :
        /\ dispatcher[d].pc = "answered" /\ Holds(d)
        /\ Write(d, s, b)
        /\ s = "SENT" => dispatcher[d].ok
        /\ s = "DEAD" => n >= MaxAttempts
        /\ s = "FAILED" => n < MaxAttempts
  <2>1. /\ dispatcher[d].pc = "answered" /\ Holds(d)
        /\ \/ Write(d, "SENT", FALSE) /\ dispatcher[d].ok
           \/ Write(d, "DEAD", FALSE) /\ n >= MaxAttempts
           \/ Write(d, "FAILED", TRUE) /\ ~(n >= MaxAttempts)
    BY DEF Finalize, Exhausted
  <2>2. dispatcher[d].read \in Nat
    BY RoundOf, AttemptsAssumption DEF Rounds
  <2>3. (n >= MaxAttempts) \/ (n < MaxAttempts)
    BY <2>2, AttemptsAssumption
  <2>4. CASE Write(d, "SENT", FALSE) /\ dispatcher[d].ok
    BY <2>1, <2>4
  <2>5. CASE Write(d, "DEAD", FALSE) /\ n >= MaxAttempts
    BY <2>1, <2>5
  <2>6. CASE Write(d, "FAILED", TRUE) /\ ~(n >= MaxAttempts)
    BY <2>1, <2>3, <2>6
  <2> QED
    BY <2>1, <2>4, <2>5, <2>6
<1>2. r \in Rows /\ Works(d) /\ Counts(r) /\ status[r] = "SENDING"
  BY <1>1, RoundOf DEF Calling, OutboxInv, Holds
<1>3. dispatcher[d].read = attempts[r] /\ n <= tries[r] /\ n \in 1 .. MaxAttempts
  <2>1. dispatcher[d].read = attempts[r] /\ n <= tries[r]
    BY <1>1, <1>2 DEF Works, Calling
  <2>2. attempts[r] < MaxAttempts /\ attempts[r] \in 0 .. MaxAttempts
    BY <1>2 DEF Counts, OutboxInv, TypeOK
  <2> QED
    BY <2>1, <2>2, AttemptsAssumption
<1> DEFINE late(e) == IF b /\ dispatcher[e].pc # "asleep"
                        THEN dispatcher[e].late \union {r} ELSE dispatcher[e].late
           x(e) == IF e = d THEN [Asleep EXCEPT !.pc = "round", !.late = late(e),
                                                !.batch = dispatcher[d].batch]
                            ELSE [dispatcher[e] EXCEPT !.late = late(e)]
<1>4. /\ status' = [status EXCEPT ![r] = s]
      /\ attempts' = [attempts EXCEPT ![r] = n]
      /\ holder' = [holder EXCEPT ![r] = NoOne]
      /\ stale' = stale \ {r}
      /\ waiting' = IF b THEN waiting \union {r} ELSE waiting
      /\ dispatcher' = [e \in Dispatchers |-> x(e)]
      /\ UNCHANGED <<replaying, accepted, tries>>
  BY <1>1 DEF Write, outside
<1>5. \A e \in Dispatchers : x(e) \in Rounds
  <2> SUFFICES ASSUME NEW e \in Dispatchers
               PROVE  x(e) \in Rounds
    OBVIOUS
  <2>1. late(e) \subseteq Rows /\ dispatcher[d].batch \subseteq Rows
    BY <1>2, RoundOf DEF Rounds
  <2> HIDE DEF late
  <2>2. CASE e = d
    <3>1. [Asleep EXCEPT !.pc = "round", !.late = late(e), !.batch = dispatcher[d].batch] \in Rounds
      BY <2>1, AsleepRound DEF Rounds
    <3> QED
      BY <2>2, <3>1
  <2>3. CASE e # d
    <3>1. [dispatcher[e] EXCEPT !.late = late(e)] \in Rounds
      <4>1. dispatcher[e] \in Rounds /\ late(e) \in SUBSET Rows
        BY <2>1, RoundOf
      <4> QED
        BY <4>1 DEF Rounds
    <3> QED
      BY <2>3, <3>1
  <2> QED
    BY <2>2, <2>3
<1>6. TypeOK'
  <2>1. status' \in [Rows -> {"ABSENT", "PENDING", "SENDING", "SENT", "FAILED", "DEAD"}]
    BY <1>4 DEF OutboxInv, TypeOK
  <2>2. /\ attempts' \in [Rows -> 0 .. MaxAttempts]
        /\ holder' \in [Rows -> Dispatchers \union {NoOne}]
    <3>1. n \in 0 .. MaxAttempts
      BY <1>3, AttemptsAssumption
    <3> HIDE DEF n
    <3> QED
      BY <1>4, <3>1 DEF OutboxInv, TypeOK
  <2>3. dispatcher' \in [Dispatchers -> Rounds]
    BY <1>4, <1>5
  <2>4. stale' \subseteq Rows /\ waiting' \subseteq Rows
    BY <1>2, <1>4 DEF OutboxInv, TypeOK
  <2> QED
    BY <1>4, <2>1, <2>2, <2>3, <2>4 DEF OutboxInv, TypeOK
<1>7. \A e \in Dispatchers : Works(e)'
  <2> SUFFICES ASSUME NEW e \in Dispatchers
               PROVE  Works(e)'
    OBVIOUS
  <2>1. CASE e = d
    <3>1. dispatcher'[e].pc = "round"
      BY <1>4, <2>1 DEF Asleep
    <3> QED
      BY <3>1 DEF Works, Calling
  <2>2. CASE e # d
    <3>1. /\ dispatcher'[e].pc = dispatcher[e].pc
          /\ dispatcher'[e].row = dispatcher[e].row
          /\ dispatcher'[e].read = dispatcher[e].read
          /\ dispatcher'[e].ok = dispatcher[e].ok
      <4>1. dispatcher'[e] = [dispatcher[e] EXCEPT !.late = late(e)]
        BY <1>4, <2>2
      <4> HIDE DEF late
      <4> QED
        BY <4>1, RoundOf DEF Rounds
    <3>2. Works(e)
      BY DEF OutboxInv
    <3>3. CASE Calling(e) /\ dispatcher[e].row = r
      <4>1. ~Holds(e)'
        <5>1. holder'[r] = NoOne
          BY <1>2, <1>4 DEF OutboxInv, TypeOK
        <5> QED
          BY <3>1, <3>3, <5>1, NoOneAssumption DEF Holds
      <4>2. accepted' = accepted
        BY <1>4
      <4>3. status'[r] # "ABSENT"
        BY <1>1, <1>2, <1>4 DEF OutboxInv, TypeOK
      <4> QED
        BY <3>1, <3>2, <3>3, <4>1, <4>2, <4>3 DEF Works, Calling
    <3>4. CASE Calling(e) /\ dispatcher[e].row # r
      <4> DEFINE q == dispatcher[e].row
      <4>1. q \in Rows /\ q # r
        BY <3>2, <3>4 DEF Works
      <4>2. status'[q] = status[q] /\ holder'[q] = holder[q] /\ attempts'[q] = attempts[q]
        BY <1>4, <4>1 DEF OutboxInv, TypeOK
      <4>3. Holds(e)' <=> Holds(e)
        BY <3>1, <4>2 DEF Holds
      <4>4. accepted' = accepted /\ tries' = tries
        BY <1>4
      <4> QED
        BY <3>1, <3>2, <3>4, <4>2, <4>3, <4>4 DEF Works, Calling
    <3>5. CASE ~Calling(e)
      BY <3>1, <3>5 DEF Works, Calling
    <3> QED
      BY <3>3, <3>4, <3>5
  <2> QED
    BY <2>1, <2>2
<1>8. \A q \in Rows : Counts(q)'
  <2>1. ASSUME NEW q \in Rows \ {r}
        PROVE  Counts(q)'
    <3>1. status'[q] = status[q] /\ attempts'[q] = attempts[q]
      BY <1>4 DEF OutboxInv, TypeOK
    <3>2. accepted' = accepted /\ tries' = tries
      BY <1>4
    <3> QED
      BY <3>1, <3>2 DEF OutboxInv, Counts
  <2>2. status'[r] = s /\ attempts'[r] = n /\ tries'[r] = tries[r] /\ tries[r] \in 0 .. MaxAttempts
    BY <1>2, <1>4 DEF OutboxInv, TypeOK
  <2>3. s = "SENT" => r \in accepted
    BY <1>1, <1>2 DEF Works, Calling
  <2>4. s = "DEAD" => tries[r] = MaxAttempts
    BY <1>1, <1>3, <2>2, AttemptsAssumption
  <2>5. ASSUME NEW q \in Rows, q = r
        PROVE  Counts(q)'
    <3>1. /\ accepted' = accepted
          /\ status'[q] = s /\ attempts'[q] = n /\ tries'[q] = tries[q]
          /\ attempts'[q] <= tries'[q]
      BY <1>3, <1>4, <2>2, <2>5
    <3>2. s = "FAILED" => attempts'[q] < MaxAttempts
      BY <1>1, <3>1
    <3>3. s = "SENT" => q \in accepted
      BY <2>3, <2>5
    <3>4. s = "DEAD" => tries'[q] = MaxAttempts
      BY <2>4, <2>5, <3>1
    <3> QED
      BY <3>1, <3>2, <3>3, <3>4 DEF Counts
  <2> QED
    BY <2>1, <2>5
<1> QED
  BY <1>6, <1>7, <1>8 DEF OutboxInv

LEMMA EnqueueKeeps ==
  ASSUME OutboxInv, NEW r \in Rows, Enqueue(r)
  PROVE  OutboxInv'
<1>1. /\ status[r] = "ABSENT"
      /\ status' = [status EXCEPT ![r] = "PENDING"]
      /\ UNCHANGED <<attempts, holder, stale, waiting, dispatcher, replaying, accepted, tries>>
  BY DEF Enqueue, outside
<1>2. TypeOK'
  BY <1>1 DEF OutboxInv, TypeOK
<1>3. \A e \in Dispatchers : Works(e)'
  <2> SUFFICES ASSUME NEW e \in Dispatchers
               PROVE  Works(e)'
    OBVIOUS
  <2>1. Calling(e) => (Holds(e)' => Holds(e))
    BY <1>1 DEF Holds, Works, OutboxInv, TypeOK
  <2> QED
    BY <1>1, <2>1 DEF OutboxInv, Works, Calling
<1>4. \A q \in Rows : Counts(q)'
  <2> SUFFICES ASSUME NEW q \in Rows
               PROVE  Counts(q)'
    OBVIOUS
  <2>1. status'[q] = IF q = r THEN "PENDING" ELSE status[q]
    BY <1>1 DEF OutboxInv, TypeOK
  <2> QED
    BY <1>1, <2>1, AttemptsAssumption DEF OutboxInv, Counts
<1> QED
  BY <1>2, <1>3, <1>4 DEF OutboxInv

LEMMA ReplayWriteKeeps ==
  ASSUME OutboxInv, NEW a \in Admins, ReplayWrite(a)
  PROVE  OutboxInv'
<1>1. PICK r \in Rows :
        /\ replaying' = [replaying EXCEPT ![a] = NoOne]
        /\ status' = [status EXCEPT ![r] = "PENDING"]
        /\ attempts' = [attempts EXCEPT ![r] = 0]
        /\ waiting' = waiting \ {r}
        /\ dispatcher' = [e \in Dispatchers |->
             [dispatcher[e] EXCEPT !.late = dispatcher[e].late \ {r}]]
        /\ tries' = [tries EXCEPT ![r] = 0]
        /\ UNCHANGED <<holder, stale, accepted>>
  <2>1. replaying[a] \in Rows
    BY DEF ReplayWrite, OutboxInv, TypeOK
  <2> QED
    BY <2>1 DEF ReplayWrite
<1>2. \A e \in Dispatchers :
        /\ dispatcher'[e] \in Rounds
        /\ dispatcher'[e].pc = dispatcher[e].pc
        /\ dispatcher'[e].row = dispatcher[e].row
        /\ dispatcher'[e].read = dispatcher[e].read
        /\ dispatcher'[e].ok = dispatcher[e].ok
  <2> SUFFICES ASSUME NEW e \in Dispatchers
               PROVE  /\ dispatcher'[e] \in Rounds
                      /\ dispatcher'[e].pc = dispatcher[e].pc
                      /\ dispatcher'[e].row = dispatcher[e].row
                      /\ dispatcher'[e].read = dispatcher[e].read
                      /\ dispatcher'[e].ok = dispatcher[e].ok
    OBVIOUS
  <2>1. dispatcher'[e] = [dispatcher[e] EXCEPT !.late = dispatcher[e].late \ {r}]
    BY <1>1
  <2>2. dispatcher[e] \in Rounds /\ dispatcher[e].late \ {r} \in SUBSET Rows
    BY RoundOf DEF Rounds
  <2> QED
    BY <2>1, <2>2 DEF Rounds
<1>3. TypeOK'
  <2>1. /\ status' \in [Rows -> {"ABSENT", "PENDING", "SENDING", "SENT", "FAILED", "DEAD"}]
        /\ attempts' \in [Rows -> 0 .. MaxAttempts]
        /\ tries' \in [Rows -> 0 .. MaxAttempts]
    BY <1>1, AttemptsAssumption DEF OutboxInv, TypeOK
  <2>2. dispatcher' \in [Dispatchers -> Rounds] /\ waiting' \subseteq Rows
    BY <1>1, <1>2 DEF OutboxInv, TypeOK
  <2>3. replaying' \in [Admins -> Rows \union {NoOne}]
    BY <1>1 DEF OutboxInv, TypeOK
  <2> QED
    BY <1>1, <2>1, <2>2, <2>3 DEF OutboxInv, TypeOK
<1>4. \A q \in Rows : q # r => /\ status'[q] = status[q]
                               /\ attempts'[q] = attempts[q]
                               /\ tries'[q] = tries[q]
  BY <1>1 DEF OutboxInv, TypeOK
<1>5. status'[r] = "PENDING" /\ attempts'[r] = 0 /\ tries'[r] = 0
  BY <1>1 DEF OutboxInv, TypeOK
<1>6. \A e \in Dispatchers : Works(e)'
  <2> SUFFICES ASSUME NEW e \in Dispatchers
               PROVE  Works(e)'
    OBVIOUS
  <2>1. Works(e)
    BY DEF OutboxInv
  <2>2. CASE dispatcher[e].row = r
    <3>1. ~Holds(e)'
      BY <1>2, <1>5, <2>2 DEF Holds
    <3> QED
      BY <1>1, <1>2, <2>1, <3>1 DEF Works, Calling
  <2>3. CASE dispatcher[e].row # r
    <3> DEFINE q == dispatcher[e].row
    <3>1. CASE Calling(e)
      <4>1. /\ status'[q] = status[q] /\ attempts'[q] = attempts[q]
            /\ tries'[q] = tries[q] /\ holder'[q] = holder[q] /\ accepted' = accepted
        BY <1>1, <1>4, <2>1, <2>3, <3>1 DEF Works
      <4>2. Holds(e)' <=> Holds(e)
        BY <1>2, <4>1 DEF Holds
      <4> QED
        BY <1>2, <2>1, <4>1, <4>2 DEF Works, Calling
    <3>2. CASE ~Calling(e)
      BY <1>2, <3>2 DEF Works, Calling
    <3> QED
      BY <3>1, <3>2
  <2> QED
    BY <2>2, <2>3
<1>7. \A q \in Rows : Counts(q)'
  <2> SUFFICES ASSUME NEW q \in Rows
               PROVE  Counts(q)'
    OBVIOUS
  <2>1. CASE q = r
    BY <1>5, <2>1, AttemptsAssumption DEF Counts
  <2>2. CASE q # r
    <3>1. status'[q] = status[q] /\ attempts'[q] = attempts[q] /\ tries'[q] = tries[q]
      BY <1>4, <2>2
    <3> QED
      BY <1>1, <3>1 DEF OutboxInv, Counts
  <2> QED
    BY <2>1, <2>2
<1> QED
  BY <1>3, <1>6, <1>7 DEF OutboxInv

\* A replay that reads a row, or dies, changes neither rows nor dispatchers.
LEMMA ReplayReadKeeps ==
  ASSUME OutboxInv, NEW a \in Admins,
         (\E r \in Rows : ReplayRead(a, r)) \/ ReplayFails(a)
  PROVE  OutboxInv'
<1>1. UNCHANGED <<status, attempts, holder, stale, waiting, dispatcher, accepted, tries>>
  BY DEF ReplayRead, ReplayFails, row, outside
<1>2. replaying' \in [Admins -> Rows \union {NoOne}]
  BY DEF ReplayRead, ReplayFails, OutboxInv, TypeOK
<1>3. TypeOK'
  BY <1>1, <1>2 DEF OutboxInv, TypeOK
<1>4. (\A e \in Dispatchers : Works(e)') /\ (\A q \in Rows : Counts(q)')
  BY <1>1 DEF OutboxInv, Works, Calling, Holds, Counts
<1> QED
  BY <1>3, <1>4 DEF OutboxInv

LEMMA TimeKeeps ==
  ASSUME OutboxInv, NEW r \in Rows, ClaimExpires(r) \/ BackoffEnds(r)
  PROVE  OutboxInv'
<1>1. /\ UNCHANGED <<status, attempts, holder, dispatcher, replaying, accepted, tries>>
      /\ stale' \in {stale, stale \union {r}}
      /\ waiting' \in {waiting, waiting \ {r}}
  BY DEF ClaimExpires, BackoffEnds, outside
<1>2. TypeOK'
  BY <1>1 DEF OutboxInv, TypeOK
<1>3. (\A e \in Dispatchers : Works(e)') /\ (\A q \in Rows : Counts(q)')
  BY <1>1 DEF OutboxInv, Works, Calling, Holds, Counts
<1> QED
  BY <1>2, <1>3 DEF OutboxInv

-----------------------------------------------------------------------------
(* The steps of a dispatcher that MovesKeep covers.                        *)

LEMMA SelectKeeps ==
  ASSUME OutboxInv, NEW d \in Dispatchers, Select(d)
  PROVE  OutboxInv'
<1> DEFINE b == {r \in Rows : status[r] \in Deliverable} \ dispatcher[d].late
           x == [dispatcher[d] EXCEPT !.pc = "round", !.batch = b]
<1>1. Moves(d, x)
  BY DEF Select, Step, Moves
<1>2. b \in SUBSET Rows /\ dispatcher[d] \in Rounds
  BY RoundOf
<1> HIDE DEF b
<1>3. x \in Rounds /\ x.pc = "round"
  BY <1>2 DEF Rounds
<1>4. Works(d)'
  <2>1. dispatcher'[d] = x
    BY <1>1, RoundOf
  <2> HIDE DEF x
  <2> QED
    BY <1>3, <2>1 DEF Works, Calling
<1> QED
  BY <1>1, <1>3, <1>4, MovesKeep

LEMMA SkipKeeps ==
  ASSUME OutboxInv, NEW d \in Dispatchers, NEW r \in Rows, Skip(d, r)
  PROVE  OutboxInv'
<1> DEFINE b == dispatcher[d].batch \ {r}
           x == [dispatcher[d] EXCEPT !.batch = b]
<1>1. Moves(d, x) /\ dispatcher[d].pc = "round"
  BY DEF Skip, Step, Moves
<1>2. b \in SUBSET Rows /\ dispatcher[d] \in Rounds
  BY RoundOf DEF Rounds
<1> HIDE DEF b
<1>3. x \in Rounds /\ x.pc = "round"
  BY <1>1, <1>2 DEF Rounds
<1>4. Works(d)'
  <2>1. dispatcher'[d] = x
    BY <1>1, RoundOf
  <2> HIDE DEF x
  <2> QED
    BY <1>3, <2>1 DEF Works, Calling
<1> QED
  BY <1>1, <1>3, <1>4, MovesKeep

LEMMA ReadKeeps ==
  ASSUME OutboxInv, NEW d \in Dispatchers, Read(d)
  PROVE  OutboxInv'
<1> DEFINE r == dispatcher[d].row
           x == [dispatcher[d] EXCEPT !.pc = "post", !.read = attempts[r]]
<1>1. Moves(d, x) /\ dispatcher[d].pc = "claimed"
  BY DEF Read, Step, Moves
<1>2. r \in Rows
  BY <1>1, RoundOf DEF Calling
<1>3. attempts[r] \in 0 .. MaxAttempts /\ dispatcher[d] \in Rounds
  BY <1>2, RoundOf DEF OutboxInv, TypeOK
<1>4. x \in Rounds /\ x.pc = "post" /\ x.row = r /\ x.read = attempts[r]
  BY <1>3 DEF Rounds
<1>5. Works(d)'
  <2>1. dispatcher'[d] = x /\ attempts' = attempts
    BY <1>1, RoundOf DEF Moves, row
  <2>2. dispatcher'[d].pc = "post" /\ dispatcher'[d].row = r /\ dispatcher'[d].read = attempts'[r]
    BY <1>4, <2>1
  <2>3. status'[r] # "ABSENT"
    BY <1>1 DEF Moves, row, OutboxInv, Works, Calling
  <2> QED
    BY <1>2, <2>2, <2>3 DEF Works
<1> QED
  BY <1>1, <1>4, <1>5, MovesKeep

LEMMA ResumeKeeps ==
  ASSUME OutboxInv, NEW d \in Dispatchers, Resume(d)
  PROVE  OutboxInv'
<1> DEFINE x == [Asleep EXCEPT !.pc = "round", !.late = dispatcher[d].late,
                               !.batch = dispatcher[d].batch]
<1>1. Moves(d, x)
  BY DEF Resume, Step, Moves
<1>2. x \in Rounds
  BY AsleepRound, RoundOf DEF Rounds
<1>3. x.pc = "round"
  BY AsleepRound DEF Rounds
<1>4. Works(d)'
  <2>1. dispatcher'[d] = x
    BY <1>1, RoundOf
  <2> HIDE DEF x
  <2> QED
    BY <1>3, <2>1 DEF Works, Calling
<1> QED
  BY <1>1, <1>2, <1>4, MovesKeep

LEMMA SleepKeeps ==
  ASSUME OutboxInv, NEW d \in Dispatchers, Moves(d, Asleep)
  PROVE  OutboxInv'
<1>1. Works(d)'
  BY RoundOf DEF Works, Calling, Asleep
<1> QED
  BY <1>1, AsleepRound, MovesKeep

\* The invariant is kept by every step.
LEMMA OutboxInvStep == OutboxInv /\ [Next]_vars => OutboxInv'
<1> SUFFICES ASSUME OutboxInv, [Next]_vars
             PROVE  OutboxInv'
  OBVIOUS
<1>1. CASE \E r \in Rows : Enqueue(r) \/ ClaimExpires(r) \/ BackoffEnds(r)
  BY <1>1, EnqueueKeeps, TimeKeeps
<1>2. ASSUME NEW d \in Dispatchers,
             Reclaim(d) \/ Select(d) \/ Read(d) \/ Finalize(d)
      PROVE  OutboxInv'
  BY <1>2, ReclaimKeeps, SelectKeeps, ReadKeeps, FinalizeKeeps
<1>3. ASSUME NEW d \in Dispatchers, FinalizeLate(d) \/ EndRound(d) \/ Crash(d)
      PROVE  OutboxInv'
  <2>1. Resume(d) \/ Moves(d, Asleep)
    BY <1>3 DEF FinalizeLate, EndRound, Crash, Step, Moves
  <2> QED
    BY <2>1, ResumeKeeps, SleepKeeps
<1>4. ASSUME NEW d \in Dispatchers, NEW r \in Rows, Claim(d, r) \/ Skip(d, r)
      PROVE  OutboxInv'
  BY <1>4, ClaimKeeps, SkipKeeps
<1>5. ASSUME NEW d \in Dispatchers, NEW taken \in BOOLEAN, NEW ok \in BOOLEAN,
             Post(d, taken, ok)
      PROVE  OutboxInv'
  BY <1>5, PostKeeps
<1>6. ASSUME NEW a \in Admins,
             (\E r \in Rows : ReplayRead(a, r)) \/ ReplayWrite(a) \/ ReplayFails(a)
      PROVE  OutboxInv'
  BY <1>6, ReplayReadKeeps, ReplayWriteKeeps
<1>7. CASE UNCHANGED vars
  <2>1. TypeOK'
    BY <1>7 DEF vars, row, outside, OutboxInv, TypeOK
  <2>2. (\A e \in Dispatchers : Works(e)') /\ (\A q \in Rows : Counts(q)')
    BY <1>7 DEF vars, row, outside, OutboxInv, Works, Calling, Holds, Counts
  <2> QED
    BY <2>1, <2>2 DEF OutboxInv
<1> QED
  BY <1>1, <1>2, <1>3, <1>4, <1>5, <1>6, <1>7 DEF Next

LEMMA OutboxAlways == Spec => []OutboxInv
<1>1. Init => OutboxInv
  BY OutboxInvInit
<1>2. OutboxInv /\ [Next]_vars => OutboxInv'
  BY OutboxInvStep
<1> QED
  BY <1>1, <1>2, PTL DEF Spec

-----------------------------------------------------------------------------
(* The theorems.                                                           *)

\* Every column and every round keeps its type; in particular no row counts
\* more than MaxAttempts attempts, replays and lost claims included.
THEOREM OutboxTypeCorrect == Spec => []TypeOK
<1>1. OutboxInv => TypeOK
  BY DEF OutboxInv
<1> QED
  BY <1>1, OutboxAlways, PTL

\* A row is DEAD only after MaxAttempts posts: no claim given up after a crash,
\* and no late result, spends an attempt that was not made.
THEOREM DeadIsEarnedCorrect == Spec => []DeadIsEarned
<1>1. OutboxInv => DeadIsEarned
  BY DEF OutboxInv, Counts, DeadIsEarned
<1> QED
  BY <1>1, OutboxAlways, PTL

\* The code does not keep two replays of one row apart.  What follows is about
\* an operator who waits for one replay to end before the next.
OneReplay == \A a, b \in Admins : a = b

\* A row that is being replayed is then still DEAD.
ReplayInv ==
  \A a \in Admins : replaying[a] # NoOne => status[replaying[a]] = "DEAD"

\* What one step can do to the status of a row.
LEMMA StatusSteps ==
  ASSUME OutboxInv, ReplayInv, Next, NEW r \in Rows
  PROVE  \/ status'[r] = status[r]
         \/ status[r] = "ABSENT" /\ status'[r] = "PENDING"
         \/ status[r] \in {"PENDING", "FAILED"} /\ status'[r] = "SENDING"
         \/ status[r] = "SENDING" /\ status'[r] \in {"FAILED", "DEAD"}
         \/ status[r] = "SENDING" /\ status'[r] = "SENT" /\ r \in accepted
         \/ /\ status[r] = "DEAD" /\ status'[r] = "PENDING"
            /\ \E a \in Admins : ReplayWrite(a)
<1> DEFINE Goal == \/ status'[r] = status[r]
                   \/ status[r] = "ABSENT" /\ status'[r] = "PENDING"
                   \/ status[r] \in {"PENDING", "FAILED"} /\ status'[r] = "SENDING"
                   \/ status[r] = "SENDING" /\ status'[r] \in {"FAILED", "DEAD"}
                   \/ status[r] = "SENDING" /\ status'[r] = "SENT" /\ r \in accepted
                   \/ /\ status[r] = "DEAD" /\ status'[r] = "PENDING"
                      /\ \E a \in Admins : ReplayWrite(a)
<1> SUFFICES Goal
  OBVIOUS
<1>1. ASSUME NEW q \in Rows, NEW s, status' = [status EXCEPT ![q] = s]
      PROVE  status'[r] = IF q = r THEN s ELSE status[r]
  BY <1>1 DEF OutboxInv, TypeOK
<1>2. ASSUME NEW q \in Rows, Enqueue(q) PROVE Goal
  BY <1>1, <1>2 DEF Enqueue
<1>3. ASSUME NEW a \in Admins, ReplayWrite(a) PROVE Goal
  <2>1. PICK q \in Rows : q = replaying[a]
    BY <1>3 DEF ReplayWrite, OutboxInv, TypeOK
  <2>2. status[q] = "DEAD" /\ status' = [status EXCEPT ![q] = "PENDING"]
    BY <1>3, <2>1, NoOneAssumption DEF ReplayWrite, ReplayInv
  <2> QED
    BY <1>1, <1>3, <2>2
<1>4. ASSUME NEW d \in Dispatchers, NEW q \in Rows, Claim(d, q) PROVE Goal
  BY <1>1, <1>4 DEF Claim, Claimable, Deliverable
<1>5. ASSUME NEW d \in Dispatchers, Reclaim(d) PROVE Goal
  BY <1>5 DEF Reclaim
<1>6. ASSUME NEW d \in Dispatchers, Finalize(d) PROVE Goal
  <2> DEFINE q == dispatcher[d].row
  <2>1. /\ dispatcher[d].pc = "answered" /\ status[q] = "SENDING"
        /\ \/ status' = [status EXCEPT ![q] = "SENT"] /\ dispatcher[d].ok
           \/ status' = [status EXCEPT ![q] = "DEAD"]
           \/ status' = [status EXCEPT ![q] = "FAILED"]
    BY <1>6 DEF Finalize, Write, Holds
  <2>2. q \in Rows /\ (dispatcher[d].ok => q \in accepted)
    BY <2>1 DEF OutboxInv, Works, Calling
  <2> HIDE DEF q
  <2> QED
    BY <1>1, <2>1, <2>2
<1>7. ASSUME UNCHANGED status PROVE Goal
  BY <1>7
<1>8. ASSUME NEW q \in Rows, ClaimExpires(q) \/ BackoffEnds(q) PROVE Goal
  BY <1>7, <1>8 DEF ClaimExpires, BackoffEnds
<1>9. ASSUME NEW d \in Dispatchers,
             Select(d) \/ Read(d) \/ FinalizeLate(d) \/ EndRound(d) \/ Crash(d)
      PROVE  Goal
  BY <1>7, <1>9 DEF Select, Read, FinalizeLate, Resume, EndRound, Crash, row
<1>10. ASSUME NEW d \in Dispatchers, NEW q \in Rows, Skip(d, q) PROVE Goal
  BY <1>7, <1>10 DEF Skip, row
<1>11. ASSUME NEW d \in Dispatchers, NEW taken \in BOOLEAN, NEW ok \in BOOLEAN,
              Post(d, taken, ok)
       PROVE  Goal
  BY <1>7, <1>11 DEF Post, row
<1>12. ASSUME NEW a \in Admins, (\E q \in Rows : ReplayRead(a, q)) \/ ReplayFails(a)
       PROVE  Goal
  BY <1>7, <1>12 DEF ReplayRead, ReplayFails, row
<1> HIDE DEF Goal
<1> QED
  BY <1>2, <1>3, <1>4, <1>5, <1>6, <1>8, <1>9, <1>10, <1>11, <1>12 DEF Next

LEMMA ReplayAlways ==
  ASSUME OneReplay
  PROVE  Spec => []ReplayInv
<1>1. Init => ReplayInv
  BY DEF Init, ReplayInv
<1>2. ASSUME OutboxInv, ReplayInv, Next
      PROVE  ReplayInv'
  <2> SUFFICES ASSUME NEW a \in Admins, replaying'[a] # NoOne
               PROVE  status'[replaying'[a]] = "DEAD"
    BY DEF ReplayInv
  <2>1. \A b \in Admins : b = a
    BY OneReplay DEF OneReplay
  <2>2. CASE \E b \in Admins : ReplayWrite(b) \/ ReplayFails(b)
    <3>1. ReplayWrite(a) \/ ReplayFails(a)
      BY <2>1, <2>2
    <3>2. replaying' = [replaying EXCEPT ![a] = NoOne]
      BY <3>1 DEF ReplayWrite, ReplayFails
    <3>3. replaying'[a] = NoOne
      BY <1>2, <3>2 DEF OutboxInv, TypeOK
    <3> QED
      BY <3>3
  <2>3. CASE \E b \in Admins, q \in Rows : ReplayRead(b, q)
    <3>1. PICK q \in Rows : ReplayRead(a, q)
      BY <2>1, <2>3
    <3> QED
      BY <3>1 DEF ReplayRead, row, OutboxInv, TypeOK
  <2>4. CASE ~ \E b \in Admins : \/ ReplayWrite(b) \/ ReplayFails(b)
                                \/ \E q \in Rows : ReplayRead(b, q)
    <3>1. replaying' = replaying
      BY <1>2, <2>4 DEF Next, Enqueue, ClaimExpires, BackoffEnds, Reclaim, Select, Read,
           Finalize, Write, FinalizeLate, Resume, EndRound, Crash, Claim, Skip, Post
    <3>2. replaying[a] \in Rows /\ status[replaying[a]] = "DEAD"
      BY <1>2, <3>1 DEF ReplayInv, OutboxInv, TypeOK
    <3>3. PICK q \in Rows : q = replaying[a]
      BY <3>2
    <3>4. status'[q] = "DEAD"
      BY <1>2, <2>4, <3>2, <3>3, StatusSteps
    <3> QED
      BY <3>1, <3>3, <3>4
  <2> QED
    BY <2>2, <2>3, <2>4
<1>3. ASSUME ReplayInv, UNCHANGED vars
      PROVE  ReplayInv'
  BY <1>3 DEF vars, row, ReplayInv
<1>4. OutboxInv /\ ReplayInv /\ [Next]_vars => ReplayInv'
  BY <1>2, <1>3
<1> QED
  BY <1>1, <1>4, OutboxAlways, PTL DEF Spec

\* A row that was sent stays sent, whichever dispatcher comes late with the
\* result of a post whose claim it has lost.
THEOREM SentStaysCorrect ==
  ASSUME OneReplay
  PROVE  Spec => SentStays
<1>1. OutboxInv /\ ReplayInv /\ [Next]_vars =>
        [\A r \in Rows : status[r] = "SENT" => status'[r] = "SENT"]_vars
  BY StatusSteps
<1>2. Spec => []ReplayInv
  BY OneReplay, ReplayAlways
<1> QED
  BY <1>1, <1>2, OutboxAlways, PTL DEF Spec, SentStays

\* What a step of the outbox is to the contract, when the phases stay.
LEMMA PhasesStay ==
  ASSUME OutboxInv, Next, \A r \in Rows : Phase(r)' = Phase(r),
         \/ accepted' = accepted
         \/ \E r \in Rows : status[r] # "ABSENT" /\ accepted' = accepted \union {r}
  PROVE  [Delivery!Next]_(Delivery!vars)
<1> DEFINE phases == [r \in Rows |-> Phase(r)]
<1>1. phases' = phases
  OBVIOUS
<1>2. CASE accepted' = accepted
  BY <1>1, <1>2 DEF Delivery!vars
<1>3. ASSUME NEW r \in Rows, status[r] # "ABSENT", accepted' = accepted \union {r}
      PROVE  Delivery!Next
  <2>1. phases[r] # "none"
    BY <1>3 DEF Phase
  <2>2. Delivery!Take(r)
    BY <1>1, <1>3, <2>1 DEF Delivery!Take
  <2> QED
    BY <2>2 DEF Delivery!Next
<1> QED
  BY <1>2, <1>3

\* A step that writes one row moves the phase of its event and no other.
LEMMA OnePhase ==
  ASSUME NEW q \in Rows, NEW from, NEW to, accepted' = accepted,
         \A r \in Rows : r # q => status'[r] = status[r],
         Phase(q) = from, Phase(q)' = to
  PROVE  Delivery!Move(q, from, to)
<1> DEFINE phases == [r \in Rows |-> Phase(r)]
           target == [phases EXCEPT ![q] = to]
<1>1. phases' = [r \in Rows |-> Phase(r)']
  OBVIOUS
<1>2. target = [r \in Rows |-> IF r = q THEN to ELSE Phase(r)]
  OBVIOUS
<1>3. \A r \in Rows : Phase(r)' = IF r = q THEN to ELSE Phase(r)
  BY DEF Phase
<1>4. phases' = target
  BY <1>1, <1>2, <1>3
<1>5. phases[q] = from
  OBVIOUS
<1> QED
  BY <1>4, <1>5 DEF Delivery!Move

\* Every step of the outbox is a step of the contract, or none.
LEMMA DeliveryStep == OutboxInv /\ ReplayInv /\ Next => [Delivery!Next]_(Delivery!vars)
<1> SUFFICES ASSUME OutboxInv, ReplayInv, Next
             PROVE  [Delivery!Next]_(Delivery!vars)
  OBVIOUS
<1>1. ASSUME NEW q \in Rows, NEW s, status' = [status EXCEPT ![q] = s]
      PROVE  /\ status'[q] = s
             /\ \A r \in Rows : r # q => status'[r] = status[r]
  BY <1>1 DEF OutboxInv, TypeOK
<1>2. ASSUME NEW q \in Rows, Enqueue(q) PROVE Delivery!Next
  <2>1. Phase(q) = "none" /\ Phase(q)' = "queued"
    <3>1. status[q] = "ABSENT" /\ status'[q] = "PENDING"
      BY <1>1, <1>2 DEF Enqueue
    <3> QED
      BY <3>1 DEF Phase
  <2>2. Delivery!Move(q, "none", "queued")
    <3>1. accepted' = accepted /\ \A r \in Rows : r # q => status'[r] = status[r]
      BY <1>1, <1>2 DEF Enqueue, outside
    <3> QED
      BY <2>1, <3>1, OnePhase
  <2> QED
    BY <2>2 DEF Delivery!Next
<1>3. ASSUME NEW a \in Admins, ReplayWrite(a) PROVE Delivery!Next
  <2>1. PICK q \in Rows : q = replaying[a]
    BY <1>3 DEF ReplayWrite, OutboxInv, TypeOK
  <2>2. /\ status[q] = "DEAD" /\ status' = [status EXCEPT ![q] = "PENDING"]
        /\ accepted' = accepted
    BY <1>3, <2>1, NoOneAssumption DEF ReplayWrite, ReplayInv
  <2>3. status'[q] = "PENDING" /\ \A r \in Rows : r # q => status'[r] = status[r]
    BY <1>1, <2>2
  <2>4. Phase(q) = "dead" /\ Phase(q)' = "queued"
    BY <2>2, <2>3 DEF Phase
  <2>5. Delivery!Move(q, "dead", "queued")
    BY <2>2, <2>3, <2>4, OnePhase
  <2> QED
    BY <2>5 DEF Delivery!Next
<1>4. ASSUME NEW d \in Dispatchers, Finalize(d)
      PROVE  [Delivery!Next]_(Delivery!vars)
  <2>1. PICK q \in Rows : q = dispatcher[d].row
    BY <1>4 DEF Finalize, OutboxInv, Works, Calling
  <2>2. /\ accepted' = accepted /\ Phase(q) = "queued"
        /\ dispatcher[d].ok => q \in accepted
    <3>1. accepted' = accepted /\ status[q] = "SENDING"
      BY <1>4, <2>1 DEF Finalize, Write, outside, Holds
    <3>2. dispatcher[d].ok => q \in accepted
      BY <1>4, <2>1 DEF Finalize, OutboxInv, Works, Calling
    <3> QED
      BY <3>1, <3>2 DEF Phase
  <2>3. CASE status' = [status EXCEPT ![q] = "SENT"] /\ dispatcher[d].ok
    <3>1. Phase(q)' = "sent"
      <4>1. status'[q] = "SENT"
        BY <1>1, <2>3
      <4> QED
        BY <4>1 DEF Phase
    <3>2. Delivery!Move(q, "queued", "sent")
      BY <1>1, <2>2, <2>3, <3>1, OnePhase
    <3>3. q \in accepted
      BY <2>2, <2>3
    <3> QED
      BY <3>2, <3>3 DEF Delivery!Next
  <2>4. CASE status' = [status EXCEPT ![q] = "DEAD"]
    <3>1. Phase(q)' = "dead"
      BY <1>1, <2>4 DEF Phase
    <3>2. Delivery!Move(q, "queued", "dead")
      BY <1>1, <2>2, <2>4, <3>1, OnePhase
    <3> QED
      BY <3>2 DEF Delivery!Next
  <2>5. CASE status' = [status EXCEPT ![q] = "FAILED"]
    <3>1. Phase(q)' = "queued"
      BY <1>1, <2>5 DEF Phase
    <3>2. ASSUME NEW r \in Rows, r # q PROVE Phase(r)' = Phase(r)
      BY <1>1, <2>5, <3>2 DEF Phase
    <3>3. \A r \in Rows : Phase(r)' = Phase(r)
      BY <2>2, <3>1, <3>2
    <3> QED
      BY <2>2, <3>3, PhasesStay
  <2> QED
    BY <1>4, <2>1, <2>3, <2>4, <2>5 DEF Finalize, Write
<1>5. ASSUME NEW d \in Dispatchers, Reclaim(d)
      PROVE  [Delivery!Next]_(Delivery!vars)
  <2>1. \A r \in Rows : Phase(r)' = Phase(r)
    BY <1>5 DEF Reclaim, Phase
  <2> QED
    BY <1>5, <2>1, PhasesStay DEF Reclaim, outside
<1>6. ASSUME NEW d \in Dispatchers, NEW q \in Rows, Claim(d, q)
      PROVE  [Delivery!Next]_(Delivery!vars)
  <2>1. status[q] \in {"PENDING", "FAILED"} /\ status'[q] = "SENDING"
    BY <1>1, <1>6 DEF Claim, Claimable, Deliverable
  <2>2. \A r \in Rows : Phase(r)' = Phase(r)
    BY <1>1, <1>6, <2>1 DEF Claim, Phase
  <2> QED
    BY <1>6, <2>2, PhasesStay DEF Claim, outside
<1>7. ASSUME NEW d \in Dispatchers, NEW taken \in BOOLEAN, NEW ok \in BOOLEAN,
             Post(d, taken, ok)
      PROVE  [Delivery!Next]_(Delivery!vars)
  <2>1. \A r \in Rows : Phase(r)' = Phase(r)
    BY <1>7 DEF Post, row, Phase
  <2>2. /\ dispatcher[d].row \in Rows /\ status[dispatcher[d].row] # "ABSENT"
        /\ accepted' \in {accepted, accepted \union {dispatcher[d].row}}
    BY <1>7 DEF Post, OutboxInv, Works, Calling
  <2> QED
    BY <2>1, <2>2, PhasesStay
<1>8. ASSUME UNCHANGED <<status, accepted>>
      PROVE  [Delivery!Next]_(Delivery!vars)
  <2>1. \A r \in Rows : Phase(r)' = Phase(r)
    BY <1>8 DEF Phase
  <2> QED
    BY <1>8, <2>1, PhasesStay
<1>9. ASSUME NEW q \in Rows, ClaimExpires(q) \/ BackoffEnds(q)
      PROVE  [Delivery!Next]_(Delivery!vars)
  BY <1>8, <1>9 DEF ClaimExpires, BackoffEnds, outside
<1>10. ASSUME NEW d \in Dispatchers,
              Select(d) \/ Read(d) \/ FinalizeLate(d) \/ EndRound(d) \/ Crash(d)
       PROVE  [Delivery!Next]_(Delivery!vars)
  BY <1>8, <1>10 DEF Select, Read, FinalizeLate, Resume, EndRound, Crash, row, outside
<1>11. ASSUME NEW d \in Dispatchers, NEW q \in Rows, Skip(d, q)
       PROVE  [Delivery!Next]_(Delivery!vars)
  BY <1>8, <1>11 DEF Skip, row, outside
<1>12. ASSUME NEW a \in Admins, (\E q \in Rows : ReplayRead(a, q)) \/ ReplayFails(a)
       PROVE  [Delivery!Next]_(Delivery!vars)
  BY <1>8, <1>12 DEF ReplayRead, ReplayFails, row, outside
<1> QED
  BY <1>2, <1>3, <1>4, <1>5, <1>6, <1>7, <1>9, <1>10, <1>11, <1>12 DEF Next

\* The outbox implements at-least-once delivery: an event is marked sent only
\* after the downstream service took it, and sent is final.
THEOREM DeliveryImplemented ==
  ASSUME OneReplay
  PROVE  Spec => ImplementsDelivery
<1>1. Init => Delivery!Init
  BY DEF Init, Delivery!Init, Phase
<1>2. UNCHANGED vars => UNCHANGED Delivery!vars
  BY DEF vars, row, outside, Delivery!vars, Phase
<1>3. OutboxInv /\ ReplayInv /\ [Next]_vars => [Delivery!Next]_(Delivery!vars)
  BY <1>2, DeliveryStep
<1>4. Spec => []ReplayInv
  BY OneReplay, ReplayAlways
<1> QED
  BY <1>1, <1>3, <1>4, OutboxAlways, PTL DEF Spec, ImplementsDelivery, Delivery!Spec

-----------------------------------------------------------------------------
(* One dispatcher at a time.                                               *)

\* A dispatcher that does not stall keeps its claim until its result is
\* written: nobody else takes the row, and the claim does not grow old.
Stands(d) == Calling(d) => Holds(d) /\ dispatcher[d].row \notin stale

ClaimsStand == \A d \in Dispatchers \ Stalling : Stands(d)

\* A claim that stands does so still when its row and its round stay.
LEMMA StandsStable ==
  ASSUME NEW d \in Dispatchers, Stands(d),
         Calling(d)' => Calling(d),
         dispatcher'[d].row = dispatcher[d].row \/ ~Calling(d)',
         LET r == dispatcher[d].row IN
           Calling(d)' => /\ status'[r] = status[r] /\ holder'[r] = holder[r]
                          /\ r \in stale' => r \in stale
  PROVE  Stands(d)'
BY DEF Stands, Holds

\* Steps of a dispatcher, after which its own claim stands and those of the
\* others are as they were.
LEMMA DispatcherStands ==
  ASSUME OutboxInv, ClaimsStand, NEW d \in Dispatchers \ Stalling, NEW e \in Dispatchers,
         \/ Reclaim(e) \/ Select(e) \/ Read(e) \/ Finalize(e) \/ FinalizeLate(e)
         \/ EndRound(e) \/ Crash(e)
         \/ \E r \in Rows : Claim(e, r) \/ Skip(e, r)
         \/ \E taken, ok \in BOOLEAN : Post(e, taken, ok)
  PROVE  Stands(d)'
<1>1. Stands(d) /\ d \in Dispatchers /\ dispatcher[d] \in Rounds
  BY DEF ClaimsStand, OutboxInv, TypeOK
<1>2. ASSUME NEW x, dispatcher' = [dispatcher EXCEPT ![e] = x]
      PROVE  dispatcher'[d] = IF e = d THEN x ELSE dispatcher[d]
  BY <1>1, <1>2 DEF OutboxInv, TypeOK
<1>3. Calling(d) => dispatcher[d].row \in Rows /\ Holds(d) /\ dispatcher[d].row \notin stale
  BY <1>1, RoundOf DEF Stands
<1>4. CASE Reclaim(e)
  <2> DEFINE lost == {r \in Rows : status[r] = "SENDING" /\ r \in stale}
  <2>1. /\ dispatcher' = [dispatcher EXCEPT ![e] =
                            [Asleep EXCEPT !.pc = "select", !.late = waiting]]
        /\ status' = [r \in Rows |-> IF r \in lost THEN "FAILED" ELSE status[r]]
        /\ holder' = [r \in Rows |-> IF r \in lost THEN NoOne ELSE holder[r]]
        /\ stale' = stale \ lost
    BY <1>4 DEF Reclaim, Step
  <2>2. dispatcher'[d] = IF e = d THEN [Asleep EXCEPT !.pc = "select", !.late = waiting]
                                  ELSE dispatcher[d]
    BY <1>2, <2>1
  <2>3. CASE e = d
    BY <2>2, <2>3 DEF Stands, Calling, Asleep
  <2>4. CASE e # d
    BY <1>1, <1>3, <2>1, <2>2, <2>4, StandsStable DEF Calling
  <2> QED
    BY <2>3, <2>4
<1>5. CASE \E r \in Rows : Claim(e, r)
  <2>1. PICK r \in Rows : Claim(e, r)
    BY <1>5
  <2>2. /\ status[r] \in Deliverable
        /\ status' = [status EXCEPT ![r] = "SENDING"]
        /\ holder' = [holder EXCEPT ![r] = e]
        /\ stale' = stale \ {r}
        /\ dispatcher' = [dispatcher EXCEPT ![e] =
             [dispatcher[e] EXCEPT !.pc = "claimed", !.row = r, !.batch = @ \ {r}]]
    BY <2>1 DEF Claim, Claimable, Step
  <2>3. /\ status'[r] = "SENDING" /\ holder'[r] = e /\ r \notin stale'
        /\ \A q \in Rows \ {r} : status'[q] = status[q] /\ holder'[q] = holder[q]
    BY <2>2 DEF OutboxInv, TypeOK
  <2>4. CASE e = d
    <3>1. dispatcher'[d] = [dispatcher[d] EXCEPT !.pc = "claimed", !.row = r, !.batch = @ \ {r}]
      BY <1>2, <2>2, <2>4
    <3>2. dispatcher'[d].row = r
      BY <1>1, <3>1 DEF Rounds
    <3> QED
      BY <2>3, <2>4, <3>2 DEF Stands, Holds
  <2>5. CASE e # d
    <3>1. dispatcher'[d] = dispatcher[d]
      BY <1>2, <2>2, <2>5
    <3>2. Calling(d) => dispatcher[d].row \in Rows \ {r}
      BY <1>3, <2>2 DEF Holds, Deliverable
    <3> QED
      BY <1>1, <2>2, <2>3, <3>1, <3>2, StandsStable DEF Calling
  <2> QED
    BY <2>4, <2>5
<1>6. CASE Finalize(e)
  <2> DEFINE q == dispatcher[e].row
  <2>1. /\ dispatcher[e].pc = "answered" /\ holder[q] = e
        /\ \E s : status' = [status EXCEPT ![q] = s]
        /\ holder' = [holder EXCEPT ![q] = NoOne]
        /\ stale' = stale \ {q}
    BY <1>6 DEF Finalize, Write, Holds
  <2>2. /\ d = e => dispatcher'[d].pc = "round"
        /\ d # e => /\ dispatcher'[d].row = dispatcher[d].row
                    /\ dispatcher'[d].pc = dispatcher[d].pc
    <3>1. PICK s \in {"SENT", "DEAD", "FAILED"}, backoff \in BOOLEAN : Write(e, s, backoff)
      BY <1>6 DEF Finalize
    <3> DEFINE late == IF backoff /\ dispatcher[d].pc # "asleep"
                         THEN dispatcher[d].late \union {dispatcher[e].row}
                         ELSE dispatcher[d].late
    <3>2. dispatcher'[d] = IF d = e THEN [Asleep EXCEPT !.pc = "round", !.late = late,
                                                       !.batch = dispatcher[e].batch]
                                    ELSE [dispatcher[d] EXCEPT !.late = late]
      BY <1>1, <3>1 DEF Write
    <3> HIDE DEF late
    <3> QED
      BY <1>1, <3>2 DEF Asleep, Rounds
  <2>3. CASE d = e
    BY <2>2, <2>3 DEF Stands, Calling
  <2>4. CASE d # e
    <3>1. Calling(d) => dispatcher[d].row # q
      BY <1>3, <2>1, <2>4 DEF Holds
    <3>2. \A r \in Rows \ {q} : status'[r] = status[r] /\ holder'[r] = holder[r]
      BY <2>1 DEF OutboxInv, TypeOK
    <3> HIDE DEF q
    <3> QED
      BY <1>1, <1>3, <2>1, <2>2, <2>4, <3>1, <3>2, StandsStable DEF Calling
  <2> QED
    BY <2>3, <2>4
<1>7. CASE \/ Select(e) \/ Read(e) \/ FinalizeLate(e) \/ EndRound(e) \/ Crash(e)
           \/ \E r \in Rows : Skip(e, r)
           \/ \E taken, ok \in BOOLEAN : Post(e, taken, ok)
  <2>1. UNCHANGED <<status, holder, stale>>
    BY <1>7 DEF Select, Read, FinalizeLate, Resume, EndRound, Crash, Skip, Post, row
  <2>2. CASE Read(e) \/ \E taken, ok \in BOOLEAN : Post(e, taken, ok)
    <3>1. dispatcher'[d].row = dispatcher[d].row /\ (Calling(d)' => Calling(d))
      <4>1. CASE Read(e)
        <5> DEFINE x == [dispatcher[e] EXCEPT !.pc = "post", !.read = attempts[dispatcher[e].row]]
        <5>1. dispatcher' = [dispatcher EXCEPT ![e] = x] /\ dispatcher[e].pc = "claimed"
          BY <4>1 DEF Read, Step
        <5>2. dispatcher'[d] = IF e = d THEN x ELSE dispatcher[d]
          BY <1>2, <5>1
        <5>3. e = d => x.row = dispatcher[d].row
          BY <1>1 DEF Rounds
        <5> HIDE DEF x
        <5> QED
          BY <5>1, <5>2, <5>3 DEF Calling
      <4>2. ASSUME NEW taken, NEW ok, Post(e, taken, ok)
            PROVE  dispatcher'[d].row = dispatcher[d].row /\ (Calling(d)' => Calling(d))
        <5> DEFINE x == [dispatcher[e] EXCEPT !.pc = "answered", !.ok = ok]
        <5>1. dispatcher' = [dispatcher EXCEPT ![e] = x] /\ dispatcher[e].pc = "post"
          BY <4>2 DEF Post, Step
        <5>2. dispatcher'[d] = IF e = d THEN x ELSE dispatcher[d]
          BY <1>2, <5>1
        <5>3. e = d => x.row = dispatcher[d].row
          BY <1>1 DEF Rounds
        <5> HIDE DEF x
        <5> QED
          BY <5>1, <5>2, <5>3 DEF Calling
      <4> QED
        BY <2>2, <4>1, <4>2
    <3> QED
      BY <1>1, <2>1, <3>1, StandsStable
  <2>3. CASE \/ Select(e) \/ FinalizeLate(e) \/ EndRound(e) \/ Crash(e)
             \/ \E r \in Rows : Skip(e, r)
    <3>1. PICK x \in Rounds : /\ dispatcher' = [dispatcher EXCEPT ![e] = x]
                              /\ ~(x.pc \in {"claimed", "post", "answered"})
      <4>1. dispatcher[e] \in Rounds
        BY DEF OutboxInv, TypeOK
      <4>2. Asleep \in Rounds /\ Asleep.pc = "asleep"
        BY AsleepRound DEF Asleep
      <4>3. CASE Select(e)
        <5> DEFINE x == [dispatcher[e] EXCEPT !.pc = "round",
                           !.batch = {r \in Rows : status[r] \in Deliverable} \ dispatcher[e].late]
        <5>1. x \in Rounds /\ x.pc = "round"
          BY <4>1 DEF Rounds
        <5> QED
          BY <4>3, <5>1 DEF Select, Step
      <4>4. CASE FinalizeLate(e)
        <5> DEFINE x == [Asleep EXCEPT !.pc = "round", !.late = dispatcher[e].late,
                                       !.batch = dispatcher[e].batch]
        <5>1. x \in Rounds /\ x.pc = "round"
          BY <4>1, <4>2 DEF Rounds
        <5> QED
          BY <4>4, <5>1 DEF FinalizeLate, Resume, Step
      <4>5. CASE EndRound(e) \/ Crash(e)
        BY <4>2, <4>5 DEF EndRound, Crash, Step
      <4>6. ASSUME NEW r \in Rows, Skip(e, r)
            PROVE  \E x \in Rounds : /\ dispatcher' = [dispatcher EXCEPT ![e] = x]
                                     /\ ~(x.pc \in {"claimed", "post", "answered"})
        <5> DEFINE x == [dispatcher[e] EXCEPT !.batch = @ \ {r}]
        <5>1. x \in Rounds /\ x.pc = "round"
          BY <4>1, <4>6 DEF Rounds, Skip
        <5> QED
          BY <4>6, <5>1 DEF Skip, Step
      <4> QED
        BY <2>3, <4>3, <4>4, <4>5, <4>6
    <3>2. dispatcher'[d] = IF e = d THEN x ELSE dispatcher[d]
      BY <1>2, <3>1
    <3>3. CASE e = d
      BY <3>1, <3>2, <3>3 DEF Stands, Calling
    <3>4. CASE e # d
      BY <1>1, <2>1, <3>2, <3>4, StandsStable DEF Calling
    <3> QED
      BY <3>3, <3>4
  <2> QED
    BY <1>7, <2>2, <2>3
<1> QED
  BY <1>4, <1>5, <1>6, <1>7

LEMMA ClaimsStep == OutboxInv /\ ReplayInv /\ ClaimsStand /\ [Next]_vars => ClaimsStand'
<1> SUFFICES ASSUME OutboxInv, ReplayInv, ClaimsStand, [Next]_vars,
                    NEW d \in Dispatchers \ Stalling
             PROVE  Stands(d)'
  BY DEF ClaimsStand
<1>1. Stands(d) /\ d \in Dispatchers
  BY DEF ClaimsStand
<1>2. Calling(d) => dispatcher[d].row \in Rows /\ Holds(d)
  BY <1>1, RoundOf DEF Stands
<1>3. ASSUME NEW r \in Rows, Enqueue(r)
      PROVE  Stands(d)'
  <2>1. UNCHANGED <<dispatcher, holder, stale>>
    BY <1>3 DEF Enqueue
  <2>2. Calling(d) => status'[dispatcher[d].row] = status[dispatcher[d].row]
    BY <1>2, <1>3 DEF Enqueue, Holds, OutboxInv, TypeOK
  <2> QED
    BY <1>1, <2>1, <2>2, StandsStable DEF Calling
<1>4. ASSUME NEW r \in Rows, ClaimExpires(r)
      PROVE  Stands(d)'
  <2>1. UNCHANGED <<dispatcher, holder, status>> /\ stale' = stale \union {r}
    BY <1>4 DEF ClaimExpires
  <2>2. Calling(d) => dispatcher[d].row # r
    BY <1>2, <1>4 DEF ClaimExpires, Holds
  <2> QED
    BY <1>1, <2>1, <2>2, StandsStable DEF Calling
<1>5. ASSUME NEW a \in Admins, ReplayWrite(a)
      PROVE  Stands(d)'
  <2>1. PICK r \in Rows : r = replaying[a]
    BY <1>5 DEF ReplayWrite, OutboxInv, TypeOK
  <2>2. status[r] = "DEAD"
    BY <1>5, <2>1 DEF ReplayWrite, ReplayInv
  <2>3. /\ status' = [status EXCEPT ![r] = "PENDING"]
        /\ UNCHANGED <<holder, stale>>
    BY <1>5, <2>1 DEF ReplayWrite
  <2>4. dispatcher'[d].row = dispatcher[d].row /\ dispatcher'[d].pc = dispatcher[d].pc
    BY <1>1, <1>5 DEF ReplayWrite, OutboxInv, TypeOK, Rounds
  <2>5. Calling(d) => status'[dispatcher[d].row] = status[dispatcher[d].row]
    BY <1>2, <2>2, <2>3 DEF Holds, OutboxInv, TypeOK
  <2> QED
    BY <1>1, <2>3, <2>4, <2>5, StandsStable DEF Calling
<1>6. ASSUME UNCHANGED <<status, holder, stale, dispatcher>>
      PROVE  Stands(d)'
  BY <1>1, <1>6, StandsStable DEF Calling
<1>7. ASSUME NEW r \in Rows, BackoffEnds(r)
      PROVE  Stands(d)'
  BY <1>6, <1>7 DEF BackoffEnds
<1>8. ASSUME NEW a \in Admins, (\E r \in Rows : ReplayRead(a, r)) \/ ReplayFails(a)
      PROVE  Stands(d)'
  BY <1>6, <1>8 DEF ReplayRead, ReplayFails, row
<1>9. CASE UNCHANGED vars
  BY <1>6, <1>9 DEF vars, row
<1> QED
  BY <1>3, <1>4, <1>5, <1>7, <1>8, <1>9, DispatcherStands DEF Next

\* No two dispatchers that keep within the claim timeout deliver one row, while
\* one row is replayed at a time; those that do not keep within it, and those
\* that crash, cannot take a claim from them.
THEOREM OneCallerCorrect ==
  ASSUME OneReplay
  PROVE  Spec => []OneCaller
<1>1. Init => ClaimsStand
  BY DEF Init, ClaimsStand, Stands, Calling, Asleep
<1>2. Spec => []ReplayInv
  BY OneReplay, ReplayAlways
<1>3. Spec => []ClaimsStand
  BY <1>1, <1>2, ClaimsStep, OutboxAlways, PTL DEF Spec
<1>4. ClaimsStand => OneCaller
  BY DEF ClaimsStand, Stands, Holds, OneCaller
<1> QED
  BY <1>3, <1>4, PTL
=============================================================================
