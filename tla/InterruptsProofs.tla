--------------------------- MODULE InterruptsProofs ---------------------------
(***************************************************************************)
(* Proofs about Interrupts, for any tasks, questions and number of runs.   *)
(***************************************************************************)
EXTENDS Interrupts, TLAPS

-----------------------------------------------------------------------------
(* Types.                                                                  *)

\* A run that is under way has a number, and questions are counted from 1.
TInv ==
    /\ TypeOK
    /\ on => run # NoRun
    /\ \A t \in Tasks : q[t] >= 1

\* What a run begins with.
LEMMA PrepareFacts ==
    ASSUME TypeOK, run < LastRun, LastRun \in Nat,
           NEW null \in 0 .. LastRun, NEW S \in SUBSET Tasks, Prepare(null, S)
    PROVE  /\ on' = TRUE /\ run' = run + 1 /\ run' \in 1 .. LastRun /\ nullLeft' = null
           /\ db' \in [null : 0 .. LastRun, resume : [Tasks -> Seq(Answers)],
                       asked : [Tasks -> Nat], done : SUBSET Tasks]
           /\ db'.resume = db.resume /\ db'.asked = db.asked /\ db'.done = db.done
           /\ pad' \in [Tasks -> [resume : Seq(Answers), null : 0 .. LastRun, calls : Nat]]
           /\ \A t \in Tasks : /\ pad'[t].calls = 0 /\ q'[t] = 1
                               /\ task'[t] = IF t \in db.done THEN "none" ELSE "running"
                               /\ pad'[t].null = null
                               /\ t \notin S => pad'[t].resume = db.resume[t]
                               /\ t \in S => pad'[t].resume = Append(db.resume[t], ById(run', t))
           /\ task' \in [Tasks -> {"none", "running", "interrupted", "failed", "done"}]
           /\ q' \in [Tasks -> Nat] /\ wrote' = {}
           /\ UNCHANGED <<used, answered, retried>>
<1>1. run' = run + 1 /\ run' \in 1 .. LastRun
    BY DEF Prepare, TypeOK
<1>2. /\ db' \in [null : 0 .. LastRun, resume : [Tasks -> Seq(Answers)],
                  asked : [Tasks -> Nat], done : SUBSET Tasks]
      /\ db'.resume = db.resume /\ db'.asked = db.asked /\ db'.done = db.done
    BY DEF Prepare, TypeOK
<1>3. ASSUME NEW t \in Tasks
      PROVE  /\ db.resume[t] \o Mapped(S, run', t) \in Seq(Answers)
             /\ t \notin S => db.resume[t] \o Mapped(S, run', t) = db.resume[t]
             /\ t \in S => db.resume[t] \o Mapped(S, run', t)
                              = Append(db.resume[t], ById(run', t))
    <2>1. db.resume[t] \in Seq(Answers)
        BY DEF TypeOK
    <2>2. ById(run', t) \in Answers
        BY <1>1 DEF ById, Answers
    <2>3. CASE t \in S
        <3>1. Mapped(S, run', t) = <<ById(run', t)>>
            BY <2>3 DEF Mapped
        <3> QED
            BY <2>1, <2>2, <2>3, <3>1
    <2>4. CASE t \notin S
        <3>1. Mapped(S, run', t) = <<>>
            BY <2>4 DEF Mapped
        <3> QED
            BY <2>1, <2>4, <3>1
    <2> QED
        BY <2>3, <2>4
<1>4. /\ pad' = [t \in Tasks |-> [resume |-> db.resume[t] \o Mapped(S, run', t),
                                  null |-> null, calls |-> 0]]
      /\ task' = [t \in Tasks |-> IF t \in db.done THEN "none" ELSE "running"]
      /\ q' = [t \in Tasks |-> 1] /\ wrote' = {} /\ on' = TRUE /\ nullLeft' = null
      /\ UNCHANGED <<used, answered, retried>>
    BY DEF Prepare
<1>5. pad' \in [Tasks -> [resume : Seq(Answers), null : 0 .. LastRun, calls : Nat]]
    BY <1>3, <1>4
<1> QED
    BY <1>1, <1>2, <1>3, <1>4, <1>5


\* How a task may end.
Ends == {"interrupted", "failed", "done"}

\* What commit changes.
Committed(t, state, list) ==
    /\ task' = [task EXCEPT ![t] = state]
    /\ db' \in [null : 0 .. LastRun, resume : [Tasks -> Seq(Answers)],
                asked : [Tasks -> Nat], done : SUBSET Tasks]
    /\ db'.resume = [db.resume EXCEPT ![t] = list]
    /\ db'.asked = [db.asked EXCEPT ![t] = IF state = "interrupted" THEN q[t] ELSE @]
    /\ answered' \in [Tasks -> Nat]
    /\ \A u \in Tasks : u # t => answered'[u] = answered[u]
    /\ answered'[t] = IF answered[t] > q[t] - 1 THEN answered[t] ELSE q[t] - 1
    /\ UNCHANGED <<run, on, nullLeft, q, wrote, meant, used, retried>>

LEMMA CommitFacts ==
    ASSUME TInv, NEW t \in Tasks, NEW state \in Ends,
           NEW list \in Seq(Answers), Commit(t, state, list)
    PROVE  Committed(t, state, list)
<1>1. /\ task' = [task EXCEPT ![t] = state]
      /\ UNCHANGED <<run, on, nullLeft, q, wrote, meant, used, retried>>
    BY DEF Commit
<1>2. db' = [db EXCEPT !.resume = [db.resume EXCEPT ![t] = list],
                       !.asked = [db.asked EXCEPT ![t] = IF state = "interrupted"
                                                         THEN q[t] ELSE @],
                       !.done = IF state = "done" THEN db.done \cup {t} ELSE db.done]
    BY DEF Commit, TInv, TypeOK
<1>3. [db.resume EXCEPT ![t] = list] \in [Tasks -> Seq(Answers)]
    BY DEF TInv, TypeOK
<1>4. [db.asked EXCEPT ![t] = IF state = "interrupted" THEN q[t] ELSE @] \in [Tasks -> Nat]
    BY DEF TInv, TypeOK
<1>5. /\ db' \in [null : 0 .. LastRun, resume : [Tasks -> Seq(Answers)],
                  asked : [Tasks -> Nat], done : SUBSET Tasks]
      /\ db'.resume = [db.resume EXCEPT ![t] = list]
      /\ db'.asked = [db.asked EXCEPT ![t] = IF state = "interrupted" THEN q[t] ELSE @]
    BY <1>2, <1>3, <1>4 DEF TInv, TypeOK
<1>6. q[t] - 1 \in Nat
    BY DEF TInv, TypeOK
<1>7. /\ answered' \in [Tasks -> Nat]
      /\ \A u \in Tasks : u # t => answered'[u] = answered[u]
      /\ answered'[t] = IF answered[t] > q[t] - 1 THEN answered[t] ELSE q[t] - 1
    BY <1>6 DEF Commit, TInv, TypeOK
<1> QED
    BY <1>1, <1>5, <1>7 DEF Committed

LEMMA SavedType ==
    ASSUME TInv, NEW t \in Tasks
    PROVE  SavedList(t) \in Seq(Answers) /\ SavedOnInterrupt(t) \in Seq(Answers)
BY DEF TInv, TypeOK, SavedList, SavedOnInterrupt

\* What a call of interrupt() that returns changes, besides the scratchpad.
LEMMA ReturnFacts ==
    ASSUME TInv, NEW t \in Tasks, NEW ans \in Answers, Asks(t), Return(t, ans)
    PROVE  /\ used' \subseteq Use
           /\ used' = used \cup {[ans |-> ans, task |-> t, q |-> q[t], in |-> run]}
           /\ q' = [q EXCEPT ![t] = q[t] + 1] /\ q' \in [Tasks -> Nat]
           /\ \A u \in Tasks : q'[u] >= 1
           /\ wrote' = wrote \cup {t}
           /\ UNCHANGED <<run, on, task, db, meant, answered, retried>>
<1>1. run \in 1 .. LastRun /\ q[t] \in Nat
    BY DEF TInv, TypeOK, Asks, NoRun
<1>2. [ans |-> ans, task |-> t, q |-> q[t], in |-> run] \in Use
    BY <1>1 DEF Use
<1> QED
    BY <1>2 DEF Return, TInv, TypeOK

\* A scratchpad whose counter has moved, and one whose list is replaced.
LEMMA CountPad ==
    ASSUME NEW R, NEW N, NEW p \in [resume : R, null : N, calls : Nat]
    PROVE  LET new == [p EXCEPT !.calls = @ + 1]
           IN  /\ new \in [resume : R, null : N, calls : Nat]
               /\ new.resume = p.resume /\ new.null = p.null /\ new.calls = p.calls + 1
OBVIOUS

LEMMA ListPad ==
    ASSUME NEW R, NEW N, NEW p \in [resume : R, null : N, calls : Nat], NEW r \in R
    PROVE  LET new == [p EXCEPT !.resume = r]
           IN  /\ new \in [resume : R, null : N, calls : Nat]
               /\ new.resume = r /\ new.null = p.null /\ new.calls = p.calls
OBVIOUS

\* What any call of interrupt() does to the scratchpads.
LEMMA CallFacts ==
    ASSUME TInv, NEW t \in Tasks, pad' = [pad EXCEPT ![t].calls = @ + 1]
    PROVE  /\ pad' \in [Tasks -> [resume : Seq(Answers), null : 0 .. LastRun, calls : Nat]]
           /\ \A u \in Tasks : pad'[u].resume = pad[u].resume /\ pad'[u].null = pad[u].null
           /\ \A u \in Tasks : u # t => pad'[u].calls = pad[u].calls
           /\ pad'[t].calls = pad[t].calls + 1
<1> DEFINE Pad == [resume : Seq(Answers), null : 0 .. LastRun, calls : Nat]
           new == [pad[t] EXCEPT !.calls = @ + 1]
<1>1. pad' = [pad EXCEPT ![t] = new]
    OBVIOUS
<1>2. pad \in [Tasks -> Pad] /\ pad[t] \in Pad
    BY DEF TInv, TypeOK
<1>3. /\ new \in Pad /\ new.resume = pad[t].resume /\ new.null = pad[t].null
      /\ new.calls = pad[t].calls + 1
    BY <1>2, CountPad
<1> HIDE DEF Pad, new
<1>4. pad' \in [Tasks -> Pad] /\ pad'[t] = new /\ \A u \in Tasks : u # t => pad'[u] = pad[u]
    BY <1>1, <1>2, <1>3
<1> QED
    BY <1>3, <1>4 DEF Pad

\* A call that takes the null task's value appends it to the list.
LEMMA NullFacts ==
    ASSUME TInv, NEW t \in Tasks, AnswerFromNull(t)
    PROVE  /\ Plain(nullLeft) \in Answers
           /\ pad' \in [Tasks -> [resume : Seq(Answers), null : 0 .. LastRun, calls : Nat]]
           /\ \A u \in Tasks : u # t => pad'[u] = pad[u]
           /\ pad'[t].calls = pad[t].calls + 1
           /\ pad'[t].resume = Append(pad[t].resume, Plain(nullLeft))
<1>1. Plain(nullLeft) \in Answers
    BY DEF AnswerFromNull, HasNull, NoRun, Plain, Answers, TInv, TypeOK
<1> DEFINE Pad == [resume : Seq(Answers), null : 0 .. LastRun, calls : Nat]
           mid == [pad[t] EXCEPT !.calls = @ + 1]
           list == Append(pad[t].resume, Plain(nullLeft))
           new == [mid EXCEPT !.resume = list]
<1>2. pad \in [Tasks -> Pad] /\ pad[t] \in Pad
    BY DEF TInv, TypeOK
<1>3. mid \in Pad /\ mid.resume = pad[t].resume /\ mid.calls = pad[t].calls + 1
    BY <1>2, CountPad
<1>4. pad' = [pad EXCEPT ![t] = new]
    <2>1. pad' = [pad EXCEPT ![t] = [mid EXCEPT !.resume = Append(@, Plain(nullLeft))]]
        BY <1>2 DEF AnswerFromNull
    <2> QED
        BY <2>1, <1>3
<1>5. list \in Seq(Answers)
    BY <1>1, <1>2
<1>6. new \in Pad /\ new.resume = list /\ new.calls = pad[t].calls + 1
    <2> HIDE DEF mid, list
    <2> QED
        BY <1>3, <1>5, ListPad
<1> HIDE DEF Pad, new
<1>7. pad' \in [Tasks -> Pad] /\ pad'[t] = new /\ \A u \in Tasks : u # t => pad'[u] = pad[u]
    BY <1>2, <1>4, <1>6
<1> QED
    BY <1>1, <1>6, <1>7 DEF Pad

LEMMA TypeInit ==
    ASSUME LastRun \in Nat, Init
    PROVE  TInv
<1>1. <<>> \in Seq(Answers)
    OBVIOUS
<1>2. /\ pad \in [Tasks -> [resume : Seq(Answers), null : 0 .. LastRun, calls : Nat]]
      /\ db \in [null : 0 .. LastRun, resume : [Tasks -> Seq(Answers)],
                  asked : [Tasks -> Nat], done : SUBSET Tasks]
    BY <1>1 DEF Init, NoRun
<1>3. /\ task \in [Tasks -> {"none", "running", "interrupted", "failed", "done"}]
      /\ q \in [Tasks -> Nat] /\ answered \in [Tasks -> Nat]
      /\ \A t \in Tasks : q[t] >= 1
    BY DEF Init
<1>4. /\ run \in 0 .. LastRun /\ on = FALSE /\ nullLeft \in 0 .. LastRun
      /\ wrote = {} /\ meant = {} /\ used = {} /\ retried = {}
    BY DEF Init, NoRun
<1> QED
    BY <1>2, <1>3, <1>4 DEF TInv, TypeOK

\* A run begins.
LEMMA PrepareType ==
    ASSUME TInv, Ready, LastRun \in Nat,
           NEW null \in 0 .. LastRun, NEW S \in SUBSET Tasks, Prepare(null, S),
           meant' \subseteq Asked
    PROVE  TInv'
<1>1. run < LastRun /\ TypeOK
    BY DEF Ready, TInv
<1>2. /\ run' \in 1 .. LastRun /\ on' = TRUE /\ nullLeft' \in 0 .. LastRun
      /\ db' \in [null : 0 .. LastRun, resume : [Tasks -> Seq(Answers)],
                  asked : [Tasks -> Nat], done : SUBSET Tasks]
      /\ pad' \in [Tasks -> [resume : Seq(Answers), null : 0 .. LastRun, calls : Nat]]
      /\ task' \in [Tasks -> {"none", "running", "interrupted", "failed", "done"}]
      /\ q' \in [Tasks -> Nat] /\ wrote' = {}
      /\ \A t \in Tasks : q'[t] >= 1
      /\ UNCHANGED <<used, answered, retried>>
    <2>1. q' = [t \in Tasks |-> 1]
        BY DEF Prepare
    <2>2. \A t \in Tasks : q'[t] >= 1
        BY <2>1
    <2> QED
        BY <1>1, <2>2, PrepareFacts
<1> QED
    BY <1>2 DEF TInv, TypeOK, NoRun

LEMMA TypeNext ==
    ASSUME LastRun \in Nat, TInv, [Next]_vars
    PROVE  TInv'
<1>1. CASE RunNone
    <2>1. db.null \in 0 .. LastRun
        BY DEF TInv, TypeOK
    <2>2. meant' \subseteq Asked /\ Ready /\ Prepare(db.null, {})
        BY <1>1 DEF RunNone, TInv, TypeOK
    <2> QED
        BY <2>1, <2>2, PrepareType
<1>2. CASE RunPlain
    <2>1. run + 1 \in 1 .. LastRun
        BY <1>2 DEF RunPlain, Ready, TInv, TypeOK
    <2>2. Plain(run + 1) \in Answers
        BY <2>1 DEF Plain, Answers
    <2>3. meant' \subseteq Asked
        BY <1>2, <2>2 DEF RunPlain, Waiting, Asked, TInv, TypeOK
    <2> QED
        BY <1>2, <2>1, <2>3, PrepareType DEF RunPlain
<1>3. ASSUME NEW S \in SUBSET Tasks, RunIds(S)
      PROVE  TInv'
    <2>1. run + 1 \in 1 .. LastRun
        BY <1>3 DEF RunIds, Ready, TInv, TypeOK
    <2>2. \A t \in Tasks : ById(run + 1, t) \in Answers
        BY <2>1 DEF ById, Answers
    <2>3. meant' \subseteq Asked
        BY <1>3, <2>2 DEF RunIds, Asked, TInv, TypeOK
    <2>4. db.null \in 0 .. LastRun
        BY DEF TInv, TypeOK
    <2> QED
        BY <1>3, <2>3, <2>4, PrepareType DEF RunIds
<1>4. ASSUME NEW t \in Tasks, AnswerFromList(t)
      PROVE  TInv'
    <2>1. pad[t].resume[Position(t)] \in Answers
        BY <1>4 DEF AnswerFromList, Position, TInv, TypeOK
    <2>2. pad' \in [Tasks -> [resume : Seq(Answers), null : 0 .. LastRun, calls : Nat]]
        BY <1>4, CallFacts DEF AnswerFromList
    <2>4. Asks(t) /\ Return(t, pad[t].resume[Position(t)]) /\ UNCHANGED nullLeft
        BY <1>4 DEF AnswerFromList
    <2>5. /\ used' \subseteq Use /\ q' \in [Tasks -> Nat] /\ \A u \in Tasks : q'[u] >= 1
          /\ wrote' = wrote \cup {t}
          /\ UNCHANGED <<run, on, task, db, meant, answered, retried>>
        BY <2>1, <2>4, ReturnFacts
    <2> QED
        BY <2>2, <2>4, <2>5 DEF TInv, TypeOK
<1>5. ASSUME NEW t \in Tasks, AnswerFromNull(t)
      PROVE  TInv'
    <2>1. Plain(nullLeft) \in Answers
        BY <1>5 DEF AnswerFromNull, HasNull, NoRun, Plain, Answers, TInv, TypeOK
    <2>2. pad' \in [Tasks -> [resume : Seq(Answers), null : 0 .. LastRun, calls : Nat]]
        BY <1>5, NullFacts DEF AnswerFromNull
    <2>3. nullLeft' \in 0 .. LastRun
        BY <1>5 DEF AnswerFromNull, Consume, NoRun
    <2>4. Asks(t) /\ Return(t, Plain(nullLeft))
        BY <1>5 DEF AnswerFromNull
    <2>5. /\ used' \subseteq Use /\ q' \in [Tasks -> Nat] /\ \A u \in Tasks : q'[u] >= 1
          /\ wrote' = wrote \cup {t}
          /\ UNCHANGED <<run, on, task, db, meant, answered, retried>>
        BY <2>1, <2>4, ReturnFacts
    <2> QED
        BY <2>2, <2>4, <2>5, <2>3 DEF TInv, TypeOK
<1>6. ASSUME NEW t \in Tasks, Interrupt(t)
      PROVE  TInv'
    <2>1. pad' \in [Tasks -> [resume : Seq(Answers), null : 0 .. LastRun, calls : Nat]]
        BY <1>6, CallFacts DEF Interrupt
    <2>2. SavedOnInterrupt(t) \in Seq(Answers) /\ Commit(t, "interrupted", SavedOnInterrupt(t))
        BY <1>6, SavedType DEF Interrupt
    <2>3. Committed(t, "interrupted", SavedOnInterrupt(t))
        BY <2>2, CommitFacts DEF Ends
    <2> QED
        BY <2>1, <2>3 DEF Committed, TInv, TypeOK
<1>7. ASSUME NEW t \in Tasks, Finish(t) \/ Fail(t)
      PROVE  TInv'
    <2>1. PICK state \in Ends : Commit(t, state, SavedList(t))
        BY <1>7 DEF Finish, Fail, Ends
    <2>2. Committed(t, state, SavedList(t)) /\ UNCHANGED pad
        BY <1>7, <2>1, SavedType, CommitFacts DEF Finish, Fail
    <2> QED
        BY <2>2 DEF Committed, Ends, TInv, TypeOK
<1>8. ASSUME NEW t \in Tasks, Retry(t)
      PROVE  TInv'
    <2>1. q' \in [Tasks -> Nat] /\ \A u \in Tasks : q'[u] >= 1
        BY <1>8 DEF Retry, TInv, TypeOK
    <2> QED
        BY <1>8, <2>1 DEF Retry, TInv, TypeOK
<1>9. CASE EndRun \/ Crash
    BY <1>9 DEF EndRun, Crash, TInv, TypeOK
<1>10. CASE Over \/ UNCHANGED vars
    BY <1>10 DEF Over, vars, TInv, TypeOK
<1> QED
    BY <1>1, <1>2, <1>3, <1>4, <1>5, <1>6, <1>7, <1>8, <1>9, <1>10 DEF Next

\* The types of the state.
THEOREM InterruptTypeCorrect ==
    ASSUME LastRun \in Nat
    PROVE  Spec => []TypeOK
<1>1. Init => TInv
    BY TypeInit
<1>2. TInv /\ [Next]_vars => TInv'
    BY TypeNext
<1>3. TInv => TypeOK
    BY DEF TInv
<1> QED
    BY <1>1, <1>2, <1>3, PTL DEF Spec

-----------------------------------------------------------------------------
(* No question is asked twice.                                             *)

\* An attempt that was not preceded by another in this run looks its n-th
\* question up at position n, in a list that extends the saved one; and it has
\* sent the list as soon as a question was answered.
Attempt(t) ==
    /\ q[t] = pad[t].calls + 1
    /\ pad[t].calls <= Len(pad[t].resume)
    /\ Len(db.resume[t]) <= Len(pad[t].resume)
    /\ t \notin wrote => q[t] = 1

\* The answers a task was committed with are saved.
ListInv ==
    \A t \in Tasks : t \notin retried =>
        /\ answered[t] <= Len(db.resume[t])
        /\ task[t] = "running" => Attempt(t)

LEMMA Lengths ==
    ASSUME TypeOK, NEW t \in Tasks
    PROVE  /\ Len(db.resume[t]) \in Nat /\ Len(pad[t].resume) \in Nat
           /\ pad[t].calls \in Nat /\ q[t] \in Nat /\ answered[t] \in Nat
BY DEF TypeOK

LEMMA ListInit ==
    ASSUME Init
    PROVE  ListInv
BY DEF Init, ListInv

LEMMA PrepareList ==
    ASSUME TInv, ListInv, Ready, LastRun \in Nat,
           NEW null \in 0 .. LastRun, NEW S \in SUBSET Tasks, Prepare(null, S), TInv'
    PROVE  ListInv'
<1>1. run < LastRun /\ TypeOK
    BY DEF Ready, TInv
<1>2. ASSUME NEW t \in Tasks, t \notin retried'
      PROVE  /\ answered'[t] <= Len(db'.resume[t])
             /\ task'[t] = "running" => Attempt(t)'
    <2>1. /\ db'.resume[t] = db.resume[t] /\ answered'[t] = answered[t] /\ t \notin retried
          /\ pad'[t].calls = 0 /\ q'[t] = 1
          /\ \/ pad'[t].resume = db.resume[t]
             \/ pad'[t].resume = Append(db.resume[t], ById(run', t))
        BY <1>1, <1>2, PrepareFacts
    <2>2. db.resume[t] \in Seq(Answers) /\ run' \in 1 .. LastRun
        BY <1>1, PrepareFacts DEF TypeOK
    <2>3. ById(run', t) \in Answers
        BY <2>2 DEF ById, Answers
    <2>4. Len(db.resume[t]) \in Nat /\ Len(db.resume[t]) <= Len(pad'[t].resume)
          /\ Len(pad'[t].resume) \in Nat
        BY <2>1, <2>2, <2>3
    <2> QED
        BY <2>1, <2>4 DEF ListInv, Attempt
<1> QED
    BY <1>2 DEF ListInv

\* A step of one task leaves what is known of the others.
LEMMA OtherTasks ==
    ASSUME ListInv, NEW t \in Tasks, NEW u \in Tasks, u # t, u \notin retried',
           retried \subseteq retried', answered'[u] = answered[u],
           db'.resume[u] = db.resume[u], task'[u] = task[u], q'[u] = q[u],
           pad'[u].calls = pad[u].calls, pad'[u].resume = pad[u].resume,
           u \in wrote <=> u \in wrote'
    PROVE  /\ answered'[u] <= Len(db'.resume[u])
           /\ task'[u] = "running" => Attempt(u)'
BY DEF ListInv, Attempt

LEMMA CommitList ==
    ASSUME TInv, ListInv, NEW t \in Tasks, task[t] = "running",
           NEW state \in Ends,
           Commit(t, state, SavedList(t)),
           \A u \in Tasks : pad'[u].resume = pad[u].resume
                            /\ (u # t => pad'[u].calls = pad[u].calls)
    PROVE  ListInv'
<1>1. SavedList(t) \in Seq(Answers)
    BY SavedType
<1>2. /\ task' = [task EXCEPT ![t] = state]
      /\ db'.resume = [db.resume EXCEPT ![t] = SavedList(t)]
      /\ \A u \in Tasks : u # t => answered'[u] = answered[u]
      /\ answered'[t] = IF answered[t] > q[t] - 1 THEN answered[t] ELSE q[t] - 1
      /\ UNCHANGED <<q, wrote, retried>>
    <2>1. Committed(t, state, SavedList(t))
        BY <1>1, CommitFacts
    <2> QED
        BY <2>1 DEF Committed
<1>3. ASSUME NEW u \in Tasks, u # t, u \notin retried'
      PROVE  /\ answered'[u] <= Len(db'.resume[u])
             /\ task'[u] = "running" => Attempt(u)'
    BY <1>2, <1>3, OtherTasks DEF TInv, TypeOK
<1>4. ASSUME t \notin retried'
      PROVE  /\ answered'[t] <= Len(db'.resume[t])
             /\ task'[t] # "running"
    <2>1. Attempt(t) /\ answered[t] <= Len(db.resume[t])
        BY <1>2, <1>4 DEF ListInv
    <2>2. db'.resume[t] = SavedList(t) /\ task'[t] = state
        BY <1>2 DEF TInv, TypeOK
    <2>3. /\ Len(db.resume[t]) \in Nat /\ Len(pad[t].resume) \in Nat
          /\ pad[t].calls \in Nat /\ q[t] \in Nat /\ answered[t] \in Nat
        BY Lengths DEF TInv
    <2>4. Len(SavedList(t)) \in Nat /\ answered[t] <= Len(SavedList(t))
          /\ q[t] - 1 <= Len(SavedList(t))
        BY <2>1, <2>3 DEF SavedList, Attempt
    <2> QED
        BY <1>2, <2>2, <2>4 DEF Ends
<1> QED
    BY <1>3, <1>4 DEF ListInv

LEMMA AnswerList ==
    ASSUME TInv, ListInv, NEW t \in Tasks, NEW ans \in Answers, Asks(t), Return(t, ans),
           pad'[t].calls = pad[t].calls + 1,
           pad[t].calls + 1 <= Len(pad'[t].resume),
           Len(pad[t].resume) <= Len(pad'[t].resume),
           Len(pad'[t].resume) \in Nat,
           \A u \in Tasks : u # t => pad'[u].resume = pad[u].resume
                                     /\ pad'[u].calls = pad[u].calls
    PROVE  ListInv'
<1>1. /\ q' = [q EXCEPT ![t] = q[t] + 1] /\ wrote' = wrote \cup {t}
      /\ UNCHANGED <<task, db, answered, retried>>
    BY ReturnFacts
<1>2. ASSUME NEW u \in Tasks, u # t, u \notin retried'
      PROVE  /\ answered'[u] <= Len(db'.resume[u])
             /\ task'[u] = "running" => Attempt(u)'
    BY <1>1, <1>2, OtherTasks DEF TInv, TypeOK
<1>3. ASSUME t \notin retried'
      PROVE  answered'[t] <= Len(db'.resume[t]) /\ Attempt(t)'
    <2>1. Attempt(t) /\ answered[t] <= Len(db.resume[t])
        BY <1>1, <1>3 DEF ListInv, Asks
    <2>2. /\ Len(db.resume[t]) \in Nat /\ Len(pad[t].resume) \in Nat
          /\ pad[t].calls \in Nat /\ q[t] \in Nat /\ q'[t] = q[t] + 1
        BY <1>1, Lengths DEF TInv, TypeOK
    <2> QED
        BY <1>1, <2>1, <2>2 DEF Attempt
<1> QED
    BY <1>2, <1>3 DEF ListInv

\* What an attempt that follows another in its run does, does not matter.
LEMMA RetriedAnswer ==
    ASSUME TInv, ListInv, NEW t \in Tasks, NEW ans \in Answers, Asks(t), Return(t, ans),
           t \in retried,
           \A u \in Tasks : u # t => pad'[u] = pad[u]
    PROVE  ListInv'
<1>1. /\ q' = [q EXCEPT ![t] = q[t] + 1] /\ wrote' = wrote \cup {t}
      /\ UNCHANGED <<task, db, answered, retried>>
    BY ReturnFacts
<1>2. ASSUME NEW u \in Tasks, u # t, u \notin retried'
      PROVE  /\ answered'[u] <= Len(db'.resume[u])
             /\ task'[u] = "running" => Attempt(u)'
    BY <1>1, <1>2, OtherTasks DEF TInv, TypeOK
<1> QED
    BY <1>1, <1>2 DEF ListInv

LEMMA ListNext ==
    ASSUME LastRun \in Nat, TInv, ListInv, [Next]_vars
    PROVE  ListInv'
<1>0. TInv' /\ TypeOK
    BY TypeNext DEF TInv
<1>1. CASE RunNone
    <2>1. db.null \in 0 .. LastRun /\ Ready /\ Prepare(db.null, {})
        BY <1>1, <1>0 DEF RunNone, TypeOK
    <2> QED
        BY <1>0, <2>1, PrepareList
<1>2. CASE RunPlain
    <2>1. run + 1 \in 0 .. LastRun /\ Ready /\ Prepare(run + 1, {})
        BY <1>2, <1>0 DEF RunPlain, Ready, TypeOK
    <2> QED
        BY <1>0, <2>1, PrepareList
<1>3. ASSUME NEW S \in SUBSET Tasks, RunIds(S)
      PROVE  ListInv'
    <2>1. db.null \in 0 .. LastRun /\ Ready /\ Prepare(db.null, S)
        BY <1>3, <1>0 DEF RunIds, TypeOK
    <2> QED
        BY <1>0, <2>1, PrepareList
<1>4. ASSUME NEW t \in Tasks, AnswerFromList(t)
      PROVE  ListInv'
    <2>1. /\ Asks(t) /\ Position(t) <= Len(pad[t].resume)
          /\ Return(t, pad[t].resume[Position(t)])
          /\ pad' = [pad EXCEPT ![t].calls = @ + 1]
        BY <1>4 DEF AnswerFromList
    <2>2. pad[t].resume[Position(t)] \in Answers
        BY <2>1, <1>0 DEF Position, TypeOK
    <2>3. /\ \A u \in Tasks : pad'[u].resume = pad[u].resume
          /\ \A u \in Tasks : u # t => pad'[u].calls = pad[u].calls
          /\ pad'[t].calls = pad[t].calls + 1
        BY <2>1, CallFacts
    <2>4. Len(pad[t].resume) \in Nat /\ pad[t].calls + 1 <= Len(pad'[t].resume)
        BY <1>0, <2>1, <2>3, Lengths DEF Position
    <2> QED
        BY <2>1, <2>2, <2>3, <2>4, AnswerList
<1>5. ASSUME NEW t \in Tasks, AnswerFromNull(t)
      PROVE  ListInv'
    <2>1. Asks(t) /\ Position(t) > Len(pad[t].resume) /\ Return(t, Plain(nullLeft))
        BY <1>5 DEF AnswerFromNull
    <2>2. /\ Plain(nullLeft) \in Answers
          /\ \A u \in Tasks : u # t => pad'[u] = pad[u]
          /\ pad'[t].calls = pad[t].calls + 1
          /\ pad'[t].resume = Append(pad[t].resume, Plain(nullLeft))
        BY <1>5, NullFacts
    <2>3. /\ pad[t].resume \in Seq(Answers) /\ pad[t].calls \in Nat
          /\ Len(pad'[t].resume) = Len(pad[t].resume) + 1
          /\ Len(pad[t].resume) \in Nat
        BY <1>0, <2>2 DEF TypeOK
    <2>4. CASE t \in retried
        BY <1>0, <1>5, <2>1, <2>2, <2>4, RetriedAnswer
    <2>5. CASE t \notin retried
        <3>1. pad[t].calls + 1 <= Len(pad'[t].resume)
            BY <2>1, <2>3, <2>5 DEF ListInv, Attempt, Asks
        <3> QED
            BY <2>1, <2>2, <2>3, <3>1, AnswerList
    <2> QED
        BY <2>4, <2>5
<1>6. ASSUME NEW t \in Tasks, Interrupt(t)
      PROVE  ListInv'
    <2>1. /\ task[t] = "running" /\ Commit(t, "interrupted", SavedList(t))
          /\ pad' = [pad EXCEPT ![t].calls = @ + 1]
        BY <1>6 DEF Interrupt, Asks, SavedOnInterrupt
    <2>2. \A u \in Tasks : pad'[u].resume = pad[u].resume
                            /\ (u # t => pad'[u].calls = pad[u].calls)
        BY <2>1, CallFacts
    <2> QED
        BY <2>1, <2>2, CommitList DEF Ends
<1>7. ASSUME NEW t \in Tasks, Finish(t) \/ Fail(t)
      PROVE  ListInv'
    <2>1. PICK state \in Ends : Commit(t, state, SavedList(t))
        BY <1>7 DEF Finish, Fail, Ends
    <2>2. task[t] = "running" /\ pad' = pad
        BY <1>7 DEF Finish, Fail
    <2> QED
        BY <2>1, <2>2, CommitList
<1>8. ASSUME NEW t \in Tasks, Retry(t)
      PROVE  ListInv'
    <2>1. /\ q' = [q EXCEPT ![t] = 1] /\ wrote' = wrote \ {t} /\ retried' = retried \cup {t}
          /\ UNCHANGED <<task, pad, db, answered>>
        BY <1>8 DEF Retry
    <2>2. ASSUME NEW u \in Tasks, u # t, u \notin retried'
          PROVE  /\ answered'[u] <= Len(db'.resume[u])
                 /\ task'[u] = "running" => Attempt(u)'
        BY <1>0, <2>1, <2>2, OtherTasks DEF TypeOK
    <2> QED
        BY <2>1, <2>2 DEF ListInv
<1>9. CASE EndRun \/ Over \/ UNCHANGED vars
    BY <1>9 DEF EndRun, Over, vars, ListInv, Attempt
<1>10. CASE Crash
    BY <1>10 DEF Crash, ListInv
<1> QED
    BY <1>1, <1>2, <1>3, <1>4, <1>5, <1>6, <1>7, <1>8, <1>9, <1>10 DEF Next

\* Only interrupt() ends a task that way, past the end of the list.
LEMMA AskedStep ==
    ASSUME LastRun \in Nat, TInv, ListInv, Next, NEW t \in Tasks,
           t \notin retried, task[t] # "interrupted", task'[t] = "interrupted"
    PROVE  q[t] > answered[t]
<1>0. TypeOK
    BY DEF TInv
<1>1. CASE Interrupt(t)
    <2>1. Position(t) > Len(pad[t].resume) /\ task[t] = "running"
        BY <1>1 DEF Interrupt, Asks
    <2>2. Attempt(t) /\ answered[t] <= Len(db.resume[t])
        BY <2>1 DEF ListInv
    <2>3. q[t] = Position(t) /\ Len(db.resume[t]) <= Len(pad[t].resume)
        BY <2>2 DEF Attempt, Position
    <2>4. /\ Len(db.resume[t]) \in Nat /\ Len(pad[t].resume) \in Nat
          /\ q[t] \in Nat /\ answered[t] \in Nat
        BY <1>0, Lengths
    <2> QED
        BY <2>1, <2>2, <2>3, <2>4
<1>2. Interrupt(t)
    <2>1. ASSUME NEW u \in Tasks, NEW state, NEW list, Commit(u, state, list),
                 u # t \/ state # "interrupted"
          PROVE  FALSE
        BY <1>0, <2>1 DEF Commit, TypeOK
    <2>2. ASSUME NEW null, NEW S, Prepare(null, S)
          PROVE  FALSE
        BY <2>2 DEF Prepare
    <2>3. task' # task
        OBVIOUS
    <2>4. ~RunNone /\ ~RunPlain /\ \A S \in SUBSET Tasks : ~RunIds(S)
        BY <2>2 DEF RunNone, RunPlain, RunIds
    <2>5. \A u \in Tasks : ~AnswerFromList(u) /\ ~AnswerFromNull(u) /\ ~Retry(u)
        BY <2>3 DEF AnswerFromList, AnswerFromNull, Return, Retry
    <2>6. \A u \in Tasks : ~Finish(u) /\ ~Fail(u)
        BY <2>1 DEF Finish, Fail
    <2>7. \A u \in Tasks : u # t => ~Interrupt(u)
        BY <2>1 DEF Interrupt
    <2>8. ~EndRun /\ ~Crash /\ ~Over
        BY <2>3 DEF EndRun, Crash, Over, vars
    <2> QED
        BY <2>4, <2>5, <2>6, <2>7, <2>8 DEF Next
<1> QED
    BY <1>1, <1>2

\* A question answered when its task was committed is not asked again
\* (interrupt, _scratchpad, put_writes).
THEOREM NoQuestionTwice ==
    ASSUME LastRun \in Nat
    PROVE  Spec => AskedOnce
<1>1. Init => TInv /\ ListInv
    BY TypeInit, ListInit
<1>2. TInv /\ ListInv /\ [Next]_vars => (TInv /\ ListInv)'
    BY TypeNext, ListNext
<1>3. TInv /\ ListInv /\ [Next]_vars =>
        [\A t \in Tasks :
            (t \notin retried /\ task[t] # "interrupted" /\ task'[t] = "interrupted")
                => q[t] > answered[t]]_vars
    BY AskedStep
<1> QED
    BY <1>1, <1>2, <1>3, PTL DEF Spec, AskedOnce

-----------------------------------------------------------------------------
(* Answers reach the questions they were given for.                        *)

\* A last question is the first that has no saved answer.
AskedInv == \A t \in Tasks : t \notin retried => db.asked[t] <= Len(db.resume[t]) + 1

\* All values of the list were given to the first n runs.
Until(n, list) == \A i \in 1 .. Len(list) : list[i].run <= n

\* Nothing is of a later run than the last one.

AgeInv ==
    /\ nullLeft <= run /\ db.null <= run
    /\ \A m \in meant : m.ans.run <= run
    /\ \A x \in used : x.in <= run
    /\ \A t \in Tasks : Until(run, db.resume[t]) /\ Until(run, pad[t].resume)

\* A value given by id stands in its task's list where its question looks.
Placed(t, list, M) ==
    \A i \in 1 .. Len(list) :
        list[i].to # "any" => [ans |-> list[i], task |-> t, q |-> i] \in M

IdInv ==
    /\ \A m, k \in meant : m.ans = k.ans => m = k
    /\ \A t \in Tasks : t \notin retried =>
            Placed(t, db.resume[t], meant) /\ Placed(t, pad[t].resume, meant)
    /\ \A x \in used : (x.task \notin retried /\ x.ans.to # "any") =>
            [ans |-> x.ans, task |-> x.task, q |-> x.q] \in meant

\* A plain value returned in the run it was given to.
Now(x) == x.ans.to = "any" /\ x.in = x.ans.run

\* The plain value of this run is the null task's until a call takes it; a list
\* that holds it has been read beyond it.
UntakenInv ==
    nullLeft = run =>
        /\ \A x \in used : x.ans # Plain(run) \/ x.in # run
        /\ \A m \in meant, t \in Tasks : (m.ans = Plain(run) /\ task[t] = "running") =>
                t = m.task /\ (t \notin retried => m.q = Len(pad[t].resume) + 1)

PlainInv ==
    /\ UntakenInv
    /\ \A t \in Tasks : \A i \in 1 .. Len(pad[t].resume) :
            pad[t].resume[i] = Plain(run) => i <= pad[t].calls
    /\ \A x, y \in used : (x.ans = y.ans /\ Now(x) /\ Now(y)) => x = y
    /\ \A x \in used, m \in meant :
            (x.ans = m.ans /\ Now(x) /\ x.task \notin retried) => m.task = x.task /\ m.q = x.q

AnswerInv == AskedInv /\ AgeInv /\ IdInv /\ PlainInv

-----------------------------------------------------------------------------
(* Lists of answers.                                                       *)

\* A value appended to a list is its last.
LEMMA Appended ==
    ASSUME NEW list \in Seq(Answers), NEW ans \in Answers
    PROVE  LET new == Append(list, ans)
           IN  /\ new \in Seq(Answers) /\ Len(new) = Len(list) + 1 /\ Len(list) \in Nat
               /\ \A i \in 1 .. Len(new) :
                    \/ i \in 1 .. Len(list) /\ new[i] = list[i]
                    \/ i = Len(list) + 1 /\ new[i] = ans
OBVIOUS

LEMMA Element ==
    ASSUME NEW list \in Seq(Answers), NEW i \in 1 .. Len(list)
    PROVE  /\ list[i] \in Answers /\ list[i].run \in Nat \ {0}
           /\ Len(list) \in Nat /\ i \in Nat
<1>1. list[i] \in Answers
    OBVIOUS
<1> QED
    BY <1>1 DEF Answers

LEMMA UntilLater ==
    ASSUME NEW list \in Seq(Answers), NEW n \in Nat, NEW k \in Nat, n <= k, Until(n, list)
    PROVE  Until(k, list)
<1>1. ASSUME NEW i \in 1 .. Len(list)
      PROVE  list[i].run <= k
    BY Element DEF Until
<1> QED
    BY <1>1 DEF Until

LEMMA UntilAppend ==
    ASSUME NEW list \in Seq(Answers), NEW ans \in Answers, NEW k \in Nat,
           Until(k, list), ans.run <= k
    PROVE  Until(k, Append(list, ans))
BY Appended DEF Until

\* A plain value of a later run is not in the list.
LEMMA NotYet ==
    ASSUME NEW list \in Seq(Answers), NEW n \in Nat, NEW i \in 1 .. Len(list), Until(n, list)
    PROVE  list[i] # Plain(n + 1)
<1>1. list[i].run <= n /\ list[i].run \in Nat
    BY Element DEF Until
<1> QED
    BY <1>1 DEF Plain

LEMMA PlacedMore ==
    ASSUME NEW list, NEW t, NEW M, NEW K, M \subseteq K, Placed(t, list, M)
    PROVE  Placed(t, list, K)
BY DEF Placed

LEMMA PlacedAppend ==
    ASSUME NEW list \in Seq(Answers), NEW ans \in Answers, NEW t, NEW M, Placed(t, list, M),
           ans.to # "any" => [ans |-> ans, task |-> t, q |-> Len(list) + 1] \in M
    PROVE  Placed(t, Append(list, ans), M)
BY Appended DEF Placed

LEMMA Lists ==
    ASSUME TypeOK, NEW t \in Tasks
    PROVE  db.resume[t] \in Seq(Answers) /\ pad[t].resume \in Seq(Answers)
BY DEF TypeOK

-----------------------------------------------------------------------------
(* A run begins.                                                           *)

\* What the user means by the answers a run brings: the null task's value is
\* for the only unfinished task, one given by id for the task of that id.
Begun(null, S) ==
    /\ run < LastRun /\ S \subseteq Waiting /\ Prepare(null, S)
    /\ null \in 0 .. LastRun /\ (null <= run \/ null = run + 1)
    /\ meant \subseteq meant'
    /\ \A m \in meant' \ meant : m.ans.run = run + 1
    /\ \A m, k \in meant' \ meant : m.ans = k.ans => m = k
    /\ \A t \in S : [ans |-> ById(run + 1, t), task |-> t, q |-> db.asked[t]] \in meant'
    /\ null = run + 1 =>
            /\ S = {}
            /\ \A m \in meant' \ meant : /\ m.task \in Waiting /\ Tasks \ db.done = {m.task}
                                         /\ m.q = db.asked[m.task]

LEMMA BegunNone ==
    ASSUME TypeOK, AgeInv, LastRun \in Nat, RunNone
    PROVE  Begun(db.null, {})
BY DEF RunNone, Ready, Begun, AgeInv, TypeOK

LEMMA BegunPlain ==
    ASSUME TypeOK, LastRun \in Nat, RunPlain
    PROVE  Begun(run + 1, {})
<1>1. run < LastRun /\ run + 1 \in 0 .. LastRun /\ Prepare(run + 1, {}) /\ run \in Nat
    BY DEF RunPlain, Ready, TypeOK
<1>2. meant' = meant \cup {[ans |-> Plain(run + 1), task |-> t, q |-> db.asked[t]] :
                              t \in {u \in Waiting : Tasks \ db.done = {u}}}
    BY DEF RunPlain
<1>3. ASSUME NEW m \in meant' \ meant
      PROVE  /\ m.ans = Plain(run + 1) /\ m.task \in Waiting /\ Tasks \ db.done = {m.task}
             /\ m = [ans |-> Plain(run + 1), task |-> m.task, q |-> db.asked[m.task]]
    <2>1. PICK t \in {u \in Waiting : Tasks \ db.done = {u}} :
                m = [ans |-> Plain(run + 1), task |-> t, q |-> db.asked[t]]
        BY <1>2, <1>3
    <2> QED
        BY <2>1
<1>4. ASSUME NEW m \in meant' \ meant, NEW k \in meant' \ meant
      PROVE  m = k
    <2>1. m.task = k.task
        BY <1>3
    <2> QED
        BY <1>3, <2>1
<1>5. \A m \in meant' \ meant : m.ans.run = run + 1 /\ m.q = db.asked[m.task]
    BY <1>3 DEF Plain
<1> QED
    BY <1>1, <1>2, <1>3, <1>4, <1>5 DEF Begun

LEMMA BegunIds ==
    ASSUME TypeOK, AgeInv, LastRun \in Nat, NEW S \in SUBSET Tasks, RunIds(S)
    PROVE  Begun(db.null, S)
<1>1. /\ run < LastRun /\ run \in Nat /\ db.null \in 0 .. LastRun /\ db.null <= run
      /\ Prepare(db.null, S) /\ S \subseteq Waiting
    BY DEF RunIds, Ready, TypeOK, AgeInv
<1>2. meant' = meant \cup {[ans |-> ById(run + 1, t), task |-> t, q |-> db.asked[t]] : t \in S}
    BY DEF RunIds
<1>3. ASSUME NEW m \in meant' \ meant
      PROVE  /\ m.ans.run = run + 1 /\ m.ans.to = m.task
             /\ m = [ans |-> ById(run + 1, m.task), task |-> m.task, q |-> db.asked[m.task]]
    <2>1. PICK t \in S : m = [ans |-> ById(run + 1, t), task |-> t, q |-> db.asked[t]]
        BY <1>2, <1>3
    <2> QED
        BY <2>1 DEF ById
<1>4. ASSUME NEW m \in meant' \ meant, NEW k \in meant' \ meant, m.ans = k.ans
      PROVE  m = k
    <2>1. m.task = k.task
        BY <1>3, <1>4
    <2> QED
        BY <1>3, <2>1
<1>5. \A m \in meant' \ meant : m.ans.run = run + 1
    BY <1>3
<1> QED
    BY <1>1, <1>2, <1>4, <1>5 DEF Begun

\* The scratchpads that a run begins with.
LEMMA BegunPads ==
    ASSUME TypeOK, LastRun \in Nat, NEW null, NEW S, Begun(null, S), NEW t \in Tasks
    PROVE  /\ run' = run + 1 /\ nullLeft' = null /\ db'.null = null
           /\ db'.resume = db.resume /\ db'.asked = db.asked
           /\ UNCHANGED <<used, retried>>
           /\ task'[t] = IF t \in db.done THEN "none" ELSE "running"
           /\ t \notin S => pad'[t].resume = db.resume[t]
           /\ t \in S => /\ pad'[t].resume = Append(db.resume[t], ById(run + 1, t))
                         /\ ById(run + 1, t) \in Answers
<1>1. S \in SUBSET Tasks /\ null \in 0 .. LastRun /\ run < LastRun /\ Prepare(null, S)
    BY DEF Begun, Waiting
<1>2. db'.null = null
    BY <1>1 DEF Prepare, TypeOK
<1>3. ById(run + 1, t) \in Answers
    BY <1>1 DEF ById, Answers, TypeOK
<1>4. /\ run' = run + 1 /\ nullLeft' = null
      /\ db'.resume = db.resume /\ db'.asked = db.asked
      /\ UNCHANGED <<used, retried>>
    BY <1>1, PrepareFacts
<1>5. /\ task'[t] = IF t \in db.done THEN "none" ELSE "running"
      /\ t \notin S => pad'[t].resume = db.resume[t]
      /\ t \in S => pad'[t].resume = Append(db.resume[t], ById(run', t))
    BY <1>1, PrepareFacts
<1> QED
    BY <1>2, <1>3, <1>4, <1>5

\* An unfinished task's last question, if it has no saved answer, looks at the
\* position after its list.
LEMMA WaitingAsked ==
    ASSUME TypeOK, AskedInv, NEW t \in Waiting, t \notin retried
    PROVE  t \in Tasks /\ db.asked[t] = Len(db.resume[t]) + 1
<1>1. t \in Tasks /\ db.asked[t] > Len(db.resume[t])
    BY DEF Waiting
<1>2. db.asked[t] \in Nat /\ Len(db.resume[t]) \in Nat /\ db.asked[t] <= Len(db.resume[t]) + 1
    BY <1>1 DEF TypeOK, AskedInv
<1> QED
    BY <1>1, <1>2

\* Plain(n), where tasks have other names, is no answer by id.
LEMMA IdNotPlain ==
    ASSUME "any" \notin Tasks, NEW t \in Tasks, NEW n
    PROVE  ById(n, t).run = n /\ ById(n, t).to = t /\ t # "any" /\ ById(n, t) # Plain(n)
BY DEF ById, Plain

LEMMA BegunAge ==
    ASSUME TInv, AgeInv, LastRun \in Nat, "any" \notin Tasks,
           NEW null, NEW S, Begun(null, S)
    PROVE  /\ AgeInv'
           /\ \A t \in Tasks : \A i \in 1 .. Len(pad'[t].resume) :
                pad'[t].resume[i] # Plain(run')
<1>1. TypeOK /\ run \in Nat /\ null \in Nat /\ run + 1 \in Nat /\ run <= run + 1
    BY DEF TInv, TypeOK, Begun
<1>2. ASSUME NEW t \in Tasks
      PROVE  /\ run' = run + 1 /\ db'.resume = db.resume
             /\ Until(run + 1, db.resume[t]) /\ Until(run + 1, pad'[t].resume)
             /\ \A i \in 1 .. Len(pad'[t].resume) : pad'[t].resume[i] # Plain(run + 1)
    <2>1. /\ run' = run + 1 /\ db'.resume = db.resume
          /\ t \notin S => pad'[t].resume = db.resume[t]
          /\ t \in S => /\ pad'[t].resume = Append(db.resume[t], ById(run + 1, t))
                        /\ ById(run + 1, t) \in Answers
        BY <1>1, BegunPads
    <2>2. db.resume[t] \in Seq(Answers) /\ Until(run, db.resume[t])
        BY <1>1, Lists DEF AgeInv
    <2>3. Until(run + 1, db.resume[t])
        BY <1>1, <2>2, UntilLater
    <2>4. \A i \in 1 .. Len(db.resume[t]) : db.resume[t][i] # Plain(run + 1)
        BY <1>1, <2>2, NotYet
    <2>5. CASE t \notin S
        BY <2>1, <2>3, <2>4, <2>5
    <2>6. CASE t \in S
        <3>1. ById(run + 1, t).run <= run + 1 /\ ById(run + 1, t) # Plain(run + 1)
            BY <1>1, IdNotPlain
        <3>2. Until(run + 1, pad'[t].resume)
            BY <1>1, <2>1, <2>2, <2>3, <2>6, <3>1, UntilAppend
        <3>3. \A i \in 1 .. Len(pad'[t].resume) : pad'[t].resume[i] # Plain(run + 1)
            <4> DEFINE list == db.resume[t]
                       new == Append(list, ById(run + 1, t))
            <4>1. \A i \in 1 .. Len(new) : \/ i \in 1 .. Len(list) /\ new[i] = list[i]
                                           \/ new[i] = ById(run + 1, t)
                BY <2>1, <2>2, <2>6, Appended
            <4>2. \A i \in 1 .. Len(list) : list[i] # Plain(run + 1)
                BY <2>4
            <4>3. pad'[t].resume = new
                BY <2>1, <2>6
            <4> HIDE DEF list, new
            <4> QED
                BY <3>1, <4>1, <4>2, <4>3
        <3> QED
            BY <2>1, <2>3, <3>2, <3>3
    <2> QED
        BY <2>5, <2>6
<1>3. /\ run' = run + 1 /\ nullLeft' = null /\ db'.null = null /\ UNCHANGED used
      /\ db'.resume = db.resume
    <2>1. run < LastRun /\ null \in 0 .. LastRun /\ S \in SUBSET Tasks /\ Prepare(null, S)
        BY DEF Begun, Waiting
    <2>2. db'.null = null
        BY <1>1, <2>1 DEF Prepare, TypeOK
    <2> QED
        BY <1>1, <2>1, <2>2, PrepareFacts
<1>4. null <= run + 1
    BY <1>1 DEF Begun
<1>5. ASSUME NEW m \in meant'
      PROVE  m.ans.run <= run + 1
    <2>1. CASE m \in meant
        <3>1. m.ans.run \in Nat /\ m.ans.run <= run
            BY <1>1, <2>1 DEF TypeOK, Asked, Answers, AgeInv
        <3> QED
            BY <1>1, <3>1
    <2>2. CASE m \notin meant
        BY <1>1, <1>5, <2>2 DEF Begun
    <2> QED
        BY <2>1, <2>2
<1>6. ASSUME NEW x \in used'
      PROVE  x.in <= run + 1
    <2>1. x.in \in Nat /\ x.in <= run
        BY <1>1, <1>3, <1>6 DEF TypeOK, Use, AgeInv
    <2> QED
        BY <1>1, <2>1
<1>7. AgeInv'
    BY <1>2, <1>3, <1>4, <1>5, <1>6 DEF AgeInv
<1>8. \A t \in Tasks : \A i \in 1 .. Len(pad'[t].resume) : pad'[t].resume[i] # Plain(run')
    BY <1>2, <1>3
<1> QED
    BY <1>7, <1>8

LEMMA Ages ==
    ASSUME TypeOK, AgeInv
    PROVE  /\ \A m \in meant : m.ans \in Answers /\ m.ans.run \in Nat /\ m.ans.run <= run
           /\ \A x \in used : x.ans \in Answers /\ x.in \in Nat /\ x.in <= run
<1>1. meant \subseteq Asked /\ used \subseteq Use
    BY DEF TypeOK
<1>2. ASSUME NEW m \in meant
      PROVE  m.ans \in Answers /\ m.ans.run \in Nat
    <2>1. m.ans \in Answers
        BY <1>1 DEF Asked
    <2> QED
        BY <2>1 DEF Answers
<1>3. \A x \in used : x.ans \in Answers /\ x.in \in Nat
    BY <1>1 DEF Use
<1> QED
    BY <1>2, <1>3 DEF AgeInv

\* What does not depend on a task.
LEMMA BegunSame ==
    ASSUME TypeOK, LastRun \in Nat, NEW null, NEW S, Begun(null, S)
    PROVE  /\ run' = run + 1 /\ nullLeft' = null /\ run \in Nat
           /\ db'.resume = db.resume /\ db'.asked = db.asked
           /\ UNCHANGED <<used, retried>>
<1>1. run < LastRun /\ null \in 0 .. LastRun /\ S \in SUBSET Tasks /\ Prepare(null, S)
    BY DEF Begun, Waiting
<1>2. run \in Nat
    BY DEF TypeOK
<1> QED
    BY <1>1, <1>2, PrepareFacts

LEMMA BegunPlaced ==
    ASSUME TInv, AskedInv, AgeInv, IdInv, LastRun \in Nat, NEW null, NEW S, Begun(null, S)
    PROVE  AskedInv' /\ IdInv'
<1>1. TypeOK /\ run \in Nat
    BY DEF TInv, TypeOK
<1>2. /\ run' = run + 1 /\ db'.resume = db.resume /\ db'.asked = db.asked
      /\ UNCHANGED <<used, retried>> /\ meant \subseteq meant'
    BY <1>1, BegunSame DEF Begun
<1>3. AskedInv'
    BY <1>2 DEF AskedInv
<1>4. ASSUME NEW m \in meant', NEW k \in meant', m.ans = k.ans
      PROVE  m = k
    <2>1. \A j \in meant : j.ans.run \in Nat /\ j.ans.run <= run
        BY <1>1, Ages
    <2>2. \A j \in meant' \ meant : j.ans.run = run + 1
        BY DEF Begun
    <2>3. (m \in meant /\ k \in meant) \/ (m \in meant' \ meant /\ k \in meant' \ meant)
        BY <1>1, <1>4, <2>1, <2>2
    <2> QED
        BY <1>4, <2>3 DEF Begun, IdInv
<1>5. ASSUME NEW t \in Tasks, t \notin retried
      PROVE  Placed(t, db.resume[t], meant') /\ Placed(t, pad'[t].resume, meant')
    <2>1. Placed(t, db.resume[t], meant')
        BY <1>2, <1>5, PlacedMore DEF IdInv
    <2>2. /\ t \notin S => pad'[t].resume = db.resume[t]
          /\ t \in S => /\ pad'[t].resume = Append(db.resume[t], ById(run + 1, t))
                        /\ ById(run + 1, t) \in Answers
        BY <1>1, BegunPads
    <2>3. CASE t \notin S
        BY <2>1, <2>2, <2>3
    <2>4. CASE t \in S
        <3>1. t \in Waiting /\ [ans |-> ById(run + 1, t), task |-> t, q |-> db.asked[t]] \in meant'
            BY <2>4 DEF Begun
        <3>2. db.asked[t] = Len(db.resume[t]) + 1
            BY <1>1, <1>5, <3>1, WaitingAsked
        <3>3. db.resume[t] \in Seq(Answers)
            BY <1>1, Lists
        <3> QED
            BY <2>1, <2>2, <2>4, <3>1, <3>2, <3>3, PlacedAppend
    <2> QED
        BY <2>3, <2>4
<1>6. IdInv'
    BY <1>2, <1>4, <1>5 DEF IdInv
<1> QED
    BY <1>3, <1>6

LEMMA BegunPlainInv ==
    ASSUME TInv, AskedInv, AgeInv, PlainInv, LastRun \in Nat, "any" \notin Tasks,
           NEW null, NEW S, Begun(null, S)
    PROVE  PlainInv'
<1>1. TypeOK /\ run \in Nat
    BY DEF TInv, TypeOK
<1>2. /\ run' = run + 1 /\ db'.resume = db.resume /\ db'.asked = db.asked
      /\ nullLeft' = null /\ UNCHANGED <<used, retried>> /\ meant \subseteq meant'
    BY <1>1, BegunSame DEF Begun
<1>3. /\ \A m \in meant : m.ans.run \in Nat /\ m.ans.run <= run
      /\ \A x \in used : x.in \in Nat /\ x.in <= run
    BY <1>1, Ages
<1>4. \A m \in meant' \ meant : m.ans.run = run + 1
    BY DEF Begun
<1>5. ASSUME null = run + 1
      PROVE  /\ \A x \in used : x.in # run + 1
             /\ \A m \in meant', t \in Tasks :
                    (m.ans = Plain(run + 1) /\ task'[t] = "running") =>
                        t = m.task /\ (t \notin retried => m.q = Len(pad'[t].resume) + 1)
    <2>1. \A x \in used : x.in # run + 1
        BY <1>1, <1>3
    <2>2. ASSUME NEW m \in meant', NEW t \in Tasks,
                 m.ans = Plain(run + 1), task'[t] = "running"
          PROVE  t = m.task /\ (t \notin retried => m.q = Len(pad'[t].resume) + 1)
        <3>1. m \in meant' \ meant
            BY <1>1, <1>3, <2>2 DEF Plain
        <3>2. /\ m.task \in Waiting /\ Tasks \ db.done = {m.task} /\ m.q = db.asked[m.task]
              /\ S = {}
            BY <1>5, <3>1 DEF Begun
        <3>3. task'[t] = IF t \in db.done THEN "none" ELSE "running"
            BY <1>1, BegunPads
        <3>4. t = m.task
            BY <2>2, <3>2, <3>3
        <3>5. pad'[t].resume = db.resume[t]
            BY <1>1, <3>2, BegunPads
        <3>6. t \notin retried => db.asked[t] = Len(db.resume[t]) + 1
            BY <1>1, <3>2, <3>4, WaitingAsked
        <3> QED
            BY <3>2, <3>4, <3>5, <3>6
    <2> QED
        BY <2>1, <2>2
<1>6. UntakenInv'
    BY <1>2, <1>5 DEF UntakenInv
<1>7. \A t \in Tasks : \A i \in 1 .. Len(pad'[t].resume) : pad'[t].resume[i] # Plain(run')
    BY BegunAge
<1>8. ASSUME NEW x \in used, NEW m \in meant',
             x.ans = m.ans, Now(x), x.task \notin retried
      PROVE  m.task = x.task /\ m.q = x.q
    <2>1. m \in meant
        BY <1>1, <1>3, <1>4, <1>8 DEF Now
    <2> QED
        BY <1>8, <2>1 DEF PlainInv
<1>9. \A x, y \in used : (x.ans = y.ans /\ Now(x) /\ Now(y)) => x = y
    BY DEF PlainInv
<1> QED
    BY <1>2, <1>6, <1>7, <1>8, <1>9 DEF PlainInv, Now

LEMMA BegunAnswer ==
    ASSUME TInv, AnswerInv, LastRun \in Nat, "any" \notin Tasks,
           NEW null, NEW S, Begun(null, S)
    PROVE  AnswerInv'
BY BegunAge, BegunPlaced, BegunPlainInv DEF AnswerInv

-----------------------------------------------------------------------------
(* interrupt() returns.                                                    *)

\* What the use of a value adds.
NewUse(t, ans) == [ans |-> ans, task |-> t, q |-> q[t], in |-> run]

\* A use that is not of this run's plain value keeps what is known of those.
LEMMA UseOther ==
    ASSUME AgeInv, PlainInv, NEW t \in Tasks, NEW ans, ~Now(NewUse(t, ans)), TypeOK,
           ans # Plain(run),
           used' = used \cup {NewUse(t, ans)},
           UNCHANGED <<run, nullLeft, meant, task, retried>>,
           \A u \in Tasks : pad'[u].resume = pad[u].resume /\ pad'[u].calls \in Nat
                            /\ pad[u].calls <= pad'[u].calls
    PROVE  PlainInv'
<1>1. UntakenInv'
    <2>1. ASSUME nullLeft = run
          PROVE  /\ \A x \in used' : x.ans # Plain(run) \/ x.in # run
                 /\ \A m \in meant, u \in Tasks : (m.ans = Plain(run) /\ task[u] = "running") =>
                        u = m.task /\ (u \notin retried => m.q = Len(pad[u].resume) + 1)
        <3>1. NewUse(t, ans).ans = ans
            BY DEF NewUse
        <3> QED
            BY <2>1, <3>1 DEF PlainInv, UntakenInv
    <2> QED
        BY <2>1 DEF UntakenInv
<1>2. ASSUME NEW u \in Tasks, NEW i \in 1 .. Len(pad[u].resume),
             pad[u].resume[i] = Plain(run)
      PROVE  i <= pad'[u].calls
    <2>1. i <= pad[u].calls /\ pad[u].calls <= pad'[u].calls
        BY <1>2 DEF PlainInv
    <2>2. i \in Nat /\ pad[u].calls \in Nat /\ pad'[u].calls \in Nat
        BY Lengths, <1>2
    <2> QED
        BY <2>1, <2>2
<1>3. \A x \in used' : Now(x) => x \in used
    OBVIOUS
<1>4. \A x, y \in used' : (x.ans = y.ans /\ Now(x) /\ Now(y)) => x = y
    BY <1>3 DEF PlainInv
<1>5. \A x \in used', m \in meant :
            (x.ans = m.ans /\ Now(x) /\ x.task \notin retried) => m.task = x.task /\ m.q = x.q
    BY <1>3 DEF PlainInv
<1> QED
    BY <1>1, <1>2, <1>4, <1>5 DEF PlainInv, Now

LEMMA ListAnswer ==
    ASSUME TInv, ListInv, AnswerInv, NEW t \in Tasks, AnswerFromList(t)
    PROVE  AnswerInv'
<1> DEFINE p == pad[t].calls + 1
           ans == pad[t].resume[p]
<1>1. /\ TypeOK /\ Asks(t) /\ p \in 1 .. Len(pad[t].resume) /\ Return(t, ans)
      /\ pad' = [pad EXCEPT ![t].calls = @ + 1] /\ UNCHANGED nullLeft
    <2>1. pad[t].calls \in Nat /\ Len(pad[t].resume) \in Nat /\ TypeOK
        BY Lengths DEF TInv
    <2> QED
        BY <2>1 DEF AnswerFromList, Position
<1>2. pad[t].resume \in Seq(Answers) /\ ans \in Answers /\ ans.run \in Nat
    BY <1>1, Lists, Element
<1>3. /\ used' = used \cup {NewUse(t, ans)}
      /\ UNCHANGED <<run, on, task, db, meant, answered, retried>>
    BY <1>1, <1>2, ReturnFacts DEF NewUse
<1>4. /\ \A u \in Tasks : pad'[u].resume = pad[u].resume
      /\ \A u \in Tasks : u # t => pad'[u].calls = pad[u].calls
      /\ pad'[t].calls = pad[t].calls + 1
    BY <1>1, CallFacts
<1> HIDE DEF p, ans
<1>5. AskedInv'
    BY <1>3 DEF AnswerInv, AskedInv
<1>6. AgeInv'
    <2>1. run \in Nat /\ NewUse(t, ans).in = run
        BY <1>1 DEF TypeOK, NewUse
    <2>2. \A x \in used' : x.in <= run
        BY <1>3, <2>1 DEF AnswerInv, AgeInv
    <2> QED
        BY <1>1, <1>3, <1>4, <2>2 DEF AnswerInv, AgeInv
<1>7. IdInv'
    <2>1. ASSUME t \notin retried, ans.to # "any"
          PROVE  [ans |-> ans, task |-> t, q |-> q[t]] \in meant
        <3>1. q[t] = p
            BY <1>1, <2>1 DEF ListInv, Attempt, Asks, p
        <3>2. Placed(t, pad[t].resume, meant)
            BY <2>1 DEF AnswerInv, IdInv
        <3> QED
            BY <1>1, <2>1, <3>1, <3>2 DEF Placed, ans
    <2>2. ASSUME NEW x \in used', x.task \notin retried, x.ans.to # "any"
          PROVE  [ans |-> x.ans, task |-> x.task, q |-> x.q] \in meant
        <3>1. CASE x \in used
            BY <2>2, <3>1 DEF AnswerInv, IdInv
        <3>2. CASE x = NewUse(t, ans)
            <4>1. x.ans = ans /\ x.task = t /\ x.q = q[t]
                BY <3>2 DEF NewUse
            <4> QED
                BY <2>1, <2>2, <4>1
        <3> QED
            BY <1>3, <3>1, <3>2
    <2> QED
        BY <1>3, <1>4, <2>2 DEF AnswerInv, IdInv
<1>8. PlainInv'
    <2>1. ans # Plain(run)
        <3>1. pad[t].calls \in Nat
            BY <1>1, Lengths
        <3> QED
            BY <1>1, <3>1 DEF AnswerInv, PlainInv, ans, p
    <2>2. ans = [run |-> ans.run, to |-> ans.to]
        BY <1>2 DEF Answers
    <2>3. ~Now(NewUse(t, ans))
        BY <2>1, <2>2 DEF Now, NewUse, Plain
    <2>4. \A u \in Tasks : pad'[u].calls \in Nat /\ pad[u].calls <= pad'[u].calls
        BY <1>1, <1>4, Lengths
    <2> QED
        BY <1>1, <1>3, <1>4, <2>1, <2>3, <2>4, UseOther DEF AnswerInv
<1> QED
    BY <1>5, <1>6, <1>7, <1>8 DEF AnswerInv

\* A call that takes the null task's value looks beyond its list.
LEMMA NullPlace ==
    ASSUME TInv, ListInv, AgeInv, PlainInv, NEW t \in Tasks, AnswerFromNull(t)
    PROVE  /\ nullLeft \in Nat \ {0} /\ nullLeft <= run /\ run \in Nat /\ nullLeft' = 0
           /\ Plain(nullLeft) \in Answers /\ Plain(nullLeft).run = nullLeft
           /\ Plain(nullLeft).to = "any"
           /\ pad[t].resume \in Seq(Answers) /\ Len(pad[t].resume) <= pad[t].calls
           /\ t \notin retried => q[t] = Len(pad[t].resume) + 1
           /\ task[t] = "running"
           /\ used' = used \cup {NewUse(t, Plain(nullLeft))}
           /\ UNCHANGED <<run, on, task, db, meant, answered, retried>>
<1>1. TypeOK
    BY DEF TInv
<1>2. nullLeft \in Nat \ {0} /\ nullLeft <= run /\ run \in Nat /\ nullLeft' = 0
    BY <1>1 DEF AnswerFromNull, HasNull, Consume, NoRun, AgeInv, TypeOK
<1>3. Plain(nullLeft) \in Answers
    BY NullFacts
<1>4. Plain(nullLeft).run = nullLeft /\ Plain(nullLeft).to = "any"
    BY DEF Plain
<1>5. /\ Asks(t) /\ task[t] = "running" /\ Return(t, Plain(nullLeft))
      /\ Len(pad[t].resume) <= pad[t].calls
    <2>1. Len(pad[t].resume) \in Nat /\ pad[t].calls \in Nat
        BY <1>1, Lengths
    <2> QED
        BY <2>1 DEF AnswerFromNull, Asks, Position
<1>6. t \notin retried => q[t] = Len(pad[t].resume) + 1
    <2>1. Len(pad[t].resume) \in Nat /\ pad[t].calls \in Nat
        BY <1>1, Lengths
    <2> QED
        BY <1>5, <2>1 DEF ListInv, Attempt
<1>7. /\ used' = used \cup {NewUse(t, Plain(nullLeft))}
      /\ UNCHANGED <<run, on, task, db, meant, answered, retried>>
    BY <1>3, <1>5, ReturnFacts DEF NewUse
<1> QED
    BY <1>1, <1>2, <1>3, <1>4, <1>5, <1>6, <1>7, Lists

LEMMA NullAnswer ==
    ASSUME TInv, ListInv, AnswerInv, NEW t \in Tasks, AnswerFromNull(t)
    PROVE  AnswerInv'
<1> DEFINE ans == Plain(nullLeft)
           new == NewUse(t, ans)
<1>0. TypeOK /\ AskedInv /\ AgeInv /\ IdInv /\ PlainInv
    BY DEF TInv, AnswerInv
<1>1. /\ nullLeft \in Nat \ {0} /\ nullLeft <= run /\ run \in Nat /\ nullLeft' = 0
      /\ ans \in Answers /\ ans.run = nullLeft /\ ans.to = "any"
      /\ pad[t].resume \in Seq(Answers) /\ Len(pad[t].resume) <= pad[t].calls
      /\ t \notin retried => q[t] = Len(pad[t].resume) + 1
      /\ task[t] = "running"
      /\ used' = used \cup {new}
      /\ UNCHANGED <<run, on, task, db, meant, answered, retried>>
    BY <1>0, NullPlace
<1>2. /\ \A u \in Tasks : u # t => pad'[u] = pad[u]
      /\ pad'[t].calls = pad[t].calls + 1
      /\ pad'[t].resume = Append(pad[t].resume, ans)
    BY NullFacts
<1>3. new.ans = ans /\ new.task = t /\ new.q = q[t] /\ new.in = run
    BY DEF NewUse
<1>4. nullLeft = run => ans = Plain(run)
    OBVIOUS
<1> HIDE DEF ans, new
<1>5. AskedInv'
    BY <1>0, <1>1 DEF AskedInv
<1>6. AgeInv'
    <2>1. Until(run, pad'[t].resume)
        BY <1>0, <1>1, <1>2, UntilAppend DEF AgeInv
    <2>2. \A u \in Tasks : Until(run, pad'[u].resume)
        BY <1>0, <1>2, <2>1 DEF AgeInv
    <2>3. \A x \in used' : x.in <= run
        BY <1>0, <1>1, <1>3 DEF AgeInv
    <2> QED
        BY <1>0, <1>1, <2>2, <2>3 DEF AgeInv
<1>7. IdInv'
    <2>1. ASSUME NEW u \in Tasks, u \notin retried
          PROVE  Placed(u, pad'[u].resume, meant)
        <3>1. Placed(u, pad[u].resume, meant)
            BY <1>0, <2>1 DEF IdInv
        <3>2. CASE u = t
            BY <1>1, <1>2, <3>1, <3>2, PlacedAppend
        <3> QED
            BY <1>2, <3>1, <3>2
    <2>2. ASSUME NEW x \in used', x.task \notin retried, x.ans.to # "any"
          PROVE  [ans |-> x.ans, task |-> x.task, q |-> x.q] \in meant
        <3>1. x \in used
            BY <1>1, <1>3, <2>2
        <3> QED
            BY <1>0, <2>2, <3>1 DEF IdInv
    <2> QED
        BY <1>0, <1>1, <2>1, <2>2 DEF IdInv
<1>8. Now(new) => nullLeft = run /\ ans = Plain(run)
    BY <1>1, <1>3, <1>4 DEF Now
<1>9. UntakenInv'
    BY <1>1 DEF UntakenInv
<1>10. ASSUME NEW u \in Tasks, NEW i \in 1 .. Len(pad'[u].resume),
              pad'[u].resume[i] = Plain(run)
       PROVE  i <= pad'[u].calls
    <2>1. CASE u # t
        BY <1>0, <1>2, <1>10, <2>1 DEF PlainInv
    <2>2. CASE u = t
        <3>1. \/ i \in 1 .. Len(pad[t].resume)
              \/ i = Len(pad[t].resume) + 1
            BY <1>1, <1>2, <2>2, Appended
        <3>2. pad[t].calls \in Nat /\ Len(pad[t].resume) \in Nat
            BY <1>0, Lengths
        <3> QED
            BY <1>1, <1>2, <2>2, <3>1, <3>2
    <2> QED
        BY <2>1, <2>2
<1>11. ASSUME NEW x \in used', NEW y \in used', x.ans = y.ans, Now(x), Now(y)
       PROVE  x = y
    <2>1. ASSUME NEW z \in used, z.ans = ans, Now(z), Now(new)
          PROVE  FALSE
        <3>1. z.ans = Plain(run) /\ nullLeft = run /\ z.in = run
            BY <1>1, <1>8, <2>1 DEF Now
        <3> QED
            BY <1>0, <3>1 DEF PlainInv, UntakenInv
    <2>2. CASE x \in used /\ y \in used
        BY <1>0, <1>11, <2>2 DEF PlainInv
    <2> QED
        BY <1>1, <1>3, <1>11, <2>1, <2>2
<1>12. ASSUME NEW x \in used', NEW m \in meant,
              x.ans = m.ans, Now(x), x.task \notin retried
       PROVE  m.task = x.task /\ m.q = x.q
    <2>1. CASE x \in used
        BY <1>0, <1>12, <2>1 DEF PlainInv
    <2>2. CASE x = new
        <3>1. nullLeft = run /\ m.ans = Plain(run)
            BY <1>3, <1>8, <1>12, <2>2
        <3>2. t = m.task /\ m.q = Len(pad[t].resume) + 1
            BY <1>0, <1>1, <1>3, <1>12, <2>2, <3>1 DEF PlainInv, UntakenInv
        <3> QED
            BY <1>1, <1>3, <1>12, <2>2, <3>2
    <2> QED
        BY <1>1, <2>1, <2>2
<1>13. PlainInv'
    BY <1>1, <1>9, <1>10, <1>11, <1>12 DEF PlainInv, Now
<1> QED
    BY <1>5, <1>6, <1>7, <1>13 DEF AnswerInv

-----------------------------------------------------------------------------
(* The other steps.                                                        *)

\* A step that returns no answer: at most a task's list is saved.
Quiet ==
    /\ UNCHANGED <<run, nullLeft, meant, used>> /\ db'.null = db.null
    /\ retried \subseteq retried'
    /\ \A u \in Tasks :
            /\ task'[u] = "running" => task[u] = "running"
            /\ pad'[u].resume = pad[u].resume
            /\ pad'[u].calls = pad[u].calls \/ pad'[u].calls = pad[u].calls + 1
            /\ db'.resume[u] = db.resume[u] \/ db'.resume[u] = pad[u].resume

LEMMA QuietAnswer ==
    ASSUME TInv, AnswerInv, Quiet, AskedInv'
    PROVE  AnswerInv'
<1>0. TypeOK /\ AgeInv /\ IdInv /\ PlainInv
    BY DEF TInv, AnswerInv
<1>1. AgeInv'
    BY <1>0 DEF Quiet, AgeInv
<1>2. IdInv'
    BY <1>0 DEF Quiet, IdInv
<1>3. UntakenInv'
    BY <1>0 DEF Quiet, PlainInv, UntakenInv
<1>4. ASSUME NEW u \in Tasks, NEW i \in 1 .. Len(pad'[u].resume),
             pad'[u].resume[i] = Plain(run)
      PROVE  i <= pad'[u].calls
    <2>1. pad'[u].resume = pad[u].resume
          /\ (pad'[u].calls = pad[u].calls \/ pad'[u].calls = pad[u].calls + 1)
        BY DEF Quiet
    <2>2. i <= pad[u].calls /\ i \in Nat /\ pad[u].calls \in Nat
        BY <1>0, <1>4, <2>1, Lengths DEF PlainInv
    <2> QED
        BY <2>1, <2>2
<1>5. PlainInv'
    BY <1>0, <1>3, <1>4 DEF Quiet, PlainInv, Now
<1> QED
    BY <1>1, <1>2, <1>5 DEF AnswerInv

\* A task ends; one that asked looked at the position after the saved list.
LEMMA CommitAnswer ==
    ASSUME TInv, ListInv, AnswerInv, NEW t \in Tasks, task[t] = "running",
           NEW state \in Ends, Commit(t, state, SavedList(t)),
           \A u \in Tasks : pad'[u].resume = pad[u].resume
                            /\ (pad'[u].calls = pad[u].calls
                                \/ pad'[u].calls = pad[u].calls + 1)
    PROVE  AnswerInv'
<1>0. TypeOK /\ SavedList(t) \in Seq(Answers)
    BY SavedType DEF TInv
<1>1. /\ task' = [task EXCEPT ![t] = state]
      /\ db'.resume = [db.resume EXCEPT ![t] = SavedList(t)]
      /\ db'.asked = [db.asked EXCEPT ![t] = IF state = "interrupted" THEN q[t] ELSE @]
      /\ UNCHANGED <<run, nullLeft, meant, used, retried>>
    BY <1>0, CommitFacts DEF Committed
<1>2. db'.null = db.null
    BY <1>0 DEF Commit, TypeOK
<1>3. /\ db.resume \in [Tasks -> Seq(Answers)] /\ db.asked \in [Tasks -> Nat]
      /\ task \in [Tasks -> {"none", "running", "interrupted", "failed", "done"}]
    BY <1>0 DEF TypeOK
<1>4. Quiet
    BY <1>1, <1>2, <1>3 DEF Quiet, SavedList, Ends
<1>5. ASSUME t \notin retried
      PROVE  db'.asked[t] <= Len(db'.resume[t]) + 1
    <2>1. db.asked[t] <= Len(db.resume[t]) + 1 /\ Attempt(t)
        BY <1>5 DEF AnswerInv, AskedInv, ListInv
    <2>2. /\ Len(db.resume[t]) \in Nat /\ Len(pad[t].resume) \in Nat
          /\ pad[t].calls \in Nat /\ q[t] \in Nat /\ db.asked[t] \in Nat
        BY <1>0, <1>3, Lengths
    <2>3. /\ q[t] <= Len(SavedList(t)) + 1 /\ Len(db.resume[t]) <= Len(SavedList(t))
          /\ Len(SavedList(t)) \in Nat
        BY <2>1, <2>2 DEF SavedList, Attempt
    <2>4. /\ db'.resume[t] = SavedList(t)
          /\ db'.asked[t] = q[t] \/ db'.asked[t] = db.asked[t]
        BY <1>1, <1>3
    <2> QED
        BY <2>1, <2>2, <2>3, <2>4
<1>6. \A u \in Tasks : u # t => db'.asked[u] = db.asked[u] /\ db'.resume[u] = db.resume[u]
    BY <1>1, <1>3
<1>7. AskedInv'
    BY <1>1, <1>5, <1>6 DEF AnswerInv, AskedInv
<1> QED
    BY <1>4, <1>7, QuietAnswer

LEMMA AnswerInit ==
    ASSUME Init
    PROVE  AnswerInv
<1>1. AskedInv /\ AgeInv
    BY DEF Init, NoRun, AskedInv, AgeInv, Until
<1>2. IdInv
    BY DEF Init, IdInv, Placed
<1>3. PlainInv
    BY DEF Init, PlainInv, UntakenInv
<1> QED
    BY <1>1, <1>2, <1>3 DEF AnswerInv

LEMMA AnswerNext ==
    ASSUME LastRun \in Nat, "any" \notin Tasks, TInv, ListInv, AnswerInv, [Next]_vars
    PROVE  AnswerInv'
<1>0. TypeOK /\ AgeInv
    BY DEF TInv, AnswerInv
<1>1. CASE RunNone
    BY <1>0, <1>1, BegunNone, BegunAnswer
<1>2. CASE RunPlain
    BY <1>0, <1>2, BegunPlain, BegunAnswer
<1>3. ASSUME NEW S \in SUBSET Tasks, RunIds(S)
      PROVE  AnswerInv'
    BY <1>0, <1>3, BegunIds, BegunAnswer
<1>4. ASSUME NEW t \in Tasks, AnswerFromList(t) \/ AnswerFromNull(t)
      PROVE  AnswerInv'
    BY <1>4, ListAnswer, NullAnswer
<1>5. ASSUME NEW t \in Tasks, Interrupt(t)
      PROVE  AnswerInv'
    <2>1. /\ task[t] = "running" /\ Commit(t, "interrupted", SavedList(t))
          /\ pad' = [pad EXCEPT ![t].calls = @ + 1]
        BY <1>5 DEF Interrupt, Asks, SavedOnInterrupt
    <2>2. \A u \in Tasks : pad'[u].resume = pad[u].resume
                            /\ (pad'[u].calls = pad[u].calls
                                \/ pad'[u].calls = pad[u].calls + 1)
        BY <2>1, CallFacts
    <2> QED
        BY <2>1, <2>2, CommitAnswer DEF Ends
<1>6. ASSUME NEW t \in Tasks, Finish(t) \/ Fail(t)
      PROVE  AnswerInv'
    <2>1. PICK state \in Ends : Commit(t, state, SavedList(t))
        BY <1>6 DEF Finish, Fail, Ends
    <2>2. task[t] = "running" /\ pad' = pad
        BY <1>6 DEF Finish, Fail
    <2> QED
        BY <2>1, <2>2, CommitAnswer
<1>7. ASSUME NEW t \in Tasks, Retry(t)
      PROVE  AnswerInv'
    <2>1. Quiet
        BY <1>7 DEF Retry, Quiet
    <2>2. AskedInv'
        BY <1>7 DEF Retry, AnswerInv, AskedInv
    <2> QED
        BY <2>1, <2>2, QuietAnswer
<1>8. CASE EndRun \/ Crash \/ Over \/ UNCHANGED vars
    <2>1. Quiet
        BY <1>8 DEF EndRun, Crash, Over, vars, Quiet
    <2>2. AskedInv'
        BY <1>8 DEF EndRun, Crash, Over, vars, AnswerInv, AskedInv
    <2> QED
        BY <2>1, <2>2, QuietAnswer
<1> QED
    BY <1>1, <1>2, <1>3, <1>4, <1>5, <1>6, <1>7, <1>8 DEF Next

LEMMA AnswerImplies ==
    ASSUME AnswerInv
    PROVE  RightAnswers
<1>0. IdInv /\ PlainInv
    BY DEF AnswerInv
<1>1. ASSUME NEW x \in used, Fresh(x)
      PROVE  /\ \A m \in meant : m.ans = x.ans => m.task = x.task /\ m.q = x.q
             /\ \A y \in used : (y.ans = x.ans /\ Fresh(y)) => y.task = x.task /\ y.q = x.q
    <2>1. CASE x.ans.to # "any"
        <3>1. ASSUME NEW z \in used, Fresh(z), z.ans = x.ans
              PROVE  [ans |-> x.ans, task |-> z.task, q |-> z.q] \in meant
            BY <1>0, <2>1, <3>1 DEF Fresh, IdInv
        <3>2. [ans |-> x.ans, task |-> x.task, q |-> x.q] \in meant
            BY <1>1, <3>1
        <3>3. ASSUME NEW m \in meant, m.ans = x.ans
              PROVE  m.task = x.task /\ m.q = x.q
            <4>1. m = [ans |-> x.ans, task |-> x.task, q |-> x.q]
                BY <1>0, <3>2, <3>3 DEF IdInv
            <4> QED
                BY <4>1
        <3>4. ASSUME NEW y \in used, y.ans = x.ans, Fresh(y)
              PROVE  y.task = x.task /\ y.q = x.q
            <4>1. [ans |-> x.ans, task |-> y.task, q |-> y.q] \in meant
                BY <3>1, <3>4
            <4> QED
                BY <3>3, <4>1
        <3> QED
            BY <3>3, <3>4
    <2>2. CASE x.ans.to = "any"
        <3>1. \A y \in used : (y.ans = x.ans /\ Fresh(y)) => Now(y)
            BY <2>2 DEF Fresh, Now
        <3> QED
            BY <1>0, <1>1, <3>1 DEF PlainInv, Fresh
    <2> QED
        BY <2>1, <2>2
<1> QED
    BY <1>1 DEF RightAnswers

\* A value given by id, or a plain one for a single unfinished task, is returned
\* to the question that waited for it and to no other (interrupt, _scratchpad,
\* get_null_resume, put_writes).
THEOREM AnswersAreRight ==
    ASSUME LastRun \in Nat, "any" \notin Tasks
    PROVE  Spec => []RightAnswers
<1>1. Init => TInv /\ ListInv /\ AnswerInv
    BY TypeInit, ListInit, AnswerInit
<1>2. TInv /\ ListInv /\ AnswerInv /\ [Next]_vars => (TInv /\ ListInv /\ AnswerInv)'
    BY TypeNext, ListNext, AnswerNext
<1>3. AnswerInv => RightAnswers
    BY AnswerImplies
<1> QED
    BY <1>1, <1>2, <1>3, PTL DEF Spec
=============================================================================
