--------------------------- MODULE JobsPageProofs ---------------------------
(***************************************************************************)
(* Proofs about the Jobs page.  First JobsPage: a page has one stream, what *)
(* it shows follows the server once everything sent has come, and no       *)
(* finished target is lost.  Then the functions of the page, which MCPure  *)
(* checks over bounded inputs: what the dialog of a tool, the form of a job *)
(* and the registration form send, how stream events are merged, and what  *)
(* the card of a job offers.                                               *)
(***************************************************************************)
EXTENDS JobsPage, PureProofs

-----------------------------------------------------------------------------
\* Folds over sequences, by induction up to their length

\* Max() of a set is the element that no other exceeds.
LEMMA MaxIs ==
  ASSUME NEW S \in SUBSET Int, NEW k \in S, \A t \in S : t <= k
  PROVE  Max(S) = k
  <1>1. \A x \in S : (\A t \in S : x >= t) => x = k
    OBVIOUS
  <1>2. \A t \in S : k >= t
    OBVIOUS
  <1> QED
    BY <1>1, <1>2 DEF Max

\* The recursion of a fold, with the step it makes at a position as a function.
Steps(step, base, n, g) ==
  [S \in SUBSET (1..n) |-> IF S = {} THEN base ELSE step[Max(S)][g[S \ {Max(S)}]]]

\* It has a solution.
LEMMA StepsExist ==
  ASSUME NEW X, NEW base \in X, NEW n \in Nat, NEW step,
         \A x \in X : \A k \in 1..n : step[k][x] \in X
  PROVE  \E g : g = Steps(step, base, n, g) /\ \A S \in SUBSET (1..n) : g[S] \in X
  <1> DEFINE Solves(k, g) == g = Steps(step, base, k, g) /\ \A S \in SUBSET (1..k) : g[S] \in X
             P == {k \in 0..n : \E g : Solves(k, g)}
  <1>1. 0 \in P
    <2> DEFINE g == [S \in SUBSET (1..0) |-> base]
    <2>1. SUBSET (1..0) = {{}}
      OBVIOUS
    <2>2. Solves(0, g)
      BY <2>1 DEF Steps
    <2> HIDE DEF g, Solves
    <2> QED
      BY <2>2
  <1>2. ASSUME NEW j \in 0..n, NEW k \in 0..n, k = j + 1, j \in P
        PROVE  k \in P
    <2>1. PICK h : Solves(j, h)
      BY <1>2 DEF P
    <2> DEFINE g == [S \in SUBSET (1..k) |-> IF k \in S THEN step[k][h[S \ {k}]] ELSE h[S]]
    <2>2. k \in 1..n /\ 1..k = 1..j \cup {k} /\ k \notin 1..j
      BY <1>2
    <2>3. ASSUME NEW S \in SUBSET (1..k), k \in S
          PROVE  /\ g[S] \in X
                 /\ g[S] = IF S = {} THEN base ELSE step[Max(S)][g[S \ {Max(S)}]]
      <3>1. Max(S) = k
        <4>1. S \in SUBSET Int /\ \A t \in S : t <= k
          BY <2>2
        <4> QED
          BY <2>3, <4>1, MaxIs
      <3>2. S \ {k} \in SUBSET (1..k) /\ S \ {k} \in SUBSET (1..j)
        BY <2>2
      <3>3. g[S \ {k}] = h[S \ {k}] /\ h[S \ {k}] \in X
        BY <2>1, <3>2
      <3>4. g[S] = step[k][h[S \ {k}]]
        BY <2>3
      <3> HIDE DEF g
      <3> QED
        BY <2>2, <2>3, <3>1, <3>3, <3>4
    <2>4. ASSUME NEW S \in SUBSET (1..k), k \notin S
          PROVE  /\ g[S] \in X
                 /\ g[S] = IF S = {} THEN base ELSE step[Max(S)][g[S \ {Max(S)}]]
      <3>1. S \in SUBSET (1..j)
        BY <2>2, <2>4
      <3>2. h[S] = IF S = {} THEN base ELSE step[Max(S)][h[S \ {Max(S)}]]
        BY <2>1, <3>1 DEF Steps
      <3>3. g[S] = h[S] /\ g[S \ {Max(S)}] = h[S \ {Max(S)}] /\ h[S] \in X
        BY <2>1, <2>4, <3>1
      <3> HIDE DEF g
      <3> QED
        BY <3>2, <3>3
    <2>5. g = [S \in SUBSET (1..k) |-> g[S]]
      OBVIOUS
    <2> HIDE DEF g
    <2>6. \A S \in SUBSET (1..k) : g[S] \in X
      BY <2>3, <2>4
    <2>7. g = Steps(step, base, k, g)
      BY <2>3, <2>4, <2>5 DEF Steps
    <2> QED
      BY <2>6, <2>7
  <1> HIDE DEF P
  <1>3. \A j, k \in 0..n : k = j + 1 /\ j \in P => k \in P
    BY <1>2
  <1>4. n \in P
    BY <1>1, <1>3, UpTo
  <1> QED
    BY <1>4 DEF P

\* The prefixes of the positions.
LEMMA PrefixFacts ==
  ASSUME NEW n \in Nat, NEW k \in 1..n
  PROVE  /\ 1..k \in SUBSET (1..n) /\ 1..k # {}
         /\ Max(1..k) = k /\ (1..k) \ {k} = 1..(k - 1)
  <1>1. /\ 1..k \in SUBSET (1..n) /\ 1..k \in SUBSET Int
        /\ k \in 1..k /\ \A t \in 1..k : t <= k
    OBVIOUS
  <1>2. Max(1..k) = k
    BY <1>1, MaxIs
  <1>3. (1..k) \ {k} = 1..(k - 1)
    OBVIOUS
  <1> QED
    BY <1>1, <1>2, <1>3

\* What a step of filter() does, and the recursion of the fold Among is.
Kept(kept, v, S) == IF v \in S THEN Append(kept, v) ELSE kept

AmongIter(s, S, n, g) ==
  [T \in SUBSET (1..n) |-> IF T = {} THEN <<>> ELSE Kept(g[T \ {Max(T)}], s[Max(T)], S)]

LEMMA AmongIsIter ==
  ASSUME NEW s, NEW S, NEW n, DOMAIN s = 1..n
  PROVE  Among(s, S) = (CHOOSE g : g = AmongIter(s, S, n, g))[1..n]
  BY DEF Among, FoldLeft, MapThenFoldSet, AmongIter, Kept

LEMMA KeptType ==
  ASSUME NEW V, NEW kept \in Seq(V), NEW v \in V, NEW S
  PROVE  Kept(kept, v, S) \in Seq(V)
  BY DEF Kept

LEMMA AmongIterExists ==
  ASSUME NEW V, NEW s \in Seq(V), NEW S, NEW n, n = Len(s)
  PROVE  \E g : g = AmongIter(s, S, n, g)
  <1> DEFINE step == [k \in 1..n |-> [a \in Seq(V) |-> Kept(a, s[k], S)]]
  <1>1. n \in Nat /\ \A k \in 1..n : s[k] \in V
    OBVIOUS
  <1>2. \A a \in Seq(V) : \A k \in 1..n : step[k][a] = Kept(a, s[k], S)
    OBVIOUS
  <1> HIDE DEF step
  <1>3. \A a \in Seq(V) : \A k \in 1..n : step[k][a] \in Seq(V)
    BY <1>1, <1>2, KeptType
  <1>4. PICK empty : empty \in Seq(V) /\ empty = <<>>
    <2>1. <<>> \in Seq(V)
      OBVIOUS
    <2> QED
      BY <2>1
  <1>5. PICK g : g = Steps(step, empty, n, g) /\ \A T \in SUBSET (1..n) : g[T] \in Seq(V)
    <2> DEFINE X == Seq(V)
    <2>1. empty \in X /\ \A a \in X : \A k \in 1..n : step[k][a] \in X
      BY <1>3, <1>4
    <2> HIDE DEF X
    <2>2. \E g : g = Steps(step, empty, n, g) /\ \A T \in SUBSET (1..n) : g[T] \in X
      BY <1>1, <2>1, StepsExist
    <2> QED
      BY <2>2 DEF X
  <1>6. ASSUME NEW T \in SUBSET (1..n), T # {}
        PROVE  step[Max(T)][g[T \ {Max(T)}]] = Kept(g[T \ {Max(T)}], s[Max(T)], S)
    <2>1. Max(T) \in 1..n
      <3>1. T \in SUBSET (0..n)
        OBVIOUS
      <3> QED
        BY <1>1, <1>6, <3>1, MaxIn
    <2>2. T \ {Max(T)} \in SUBSET (1..n)
      OBVIOUS
    <2>3. g[T \ {Max(T)}] \in Seq(V)
      BY <1>5, <2>2
    <2> QED
      BY <1>2, <2>1, <2>3
  <1>7. g = AmongIter(s, S, n, g)
    BY <1>4, <1>5, <1>6 DEF Steps, AmongIter
  <1> QED
    BY <1>7

\* filter() step by step: f[k] is what it keeps of the first k elements.
LEMMA AmongUnfolds ==
  ASSUME NEW V, NEW s \in Seq(V), NEW S
  PROVE  \E f : /\ f[0] = <<>> /\ f[Len(s)] = Among(s, S)
                /\ \A k \in 1..Len(s) : f[k] = Kept(f[k - 1], s[k], S)
  <1> DEFINE n == Len(s)
             g == CHOOSE g : g = AmongIter(s, S, n, g)
             f == [k \in 0..n |-> g[1..k]]
  <1>1. n \in Nat /\ n = Len(s) /\ DOMAIN s = 1..n
    OBVIOUS
  <1> HIDE DEF n
  <1>2. g = AmongIter(s, S, n, g)
    BY <1>1, AmongIterExists
  <1>3. Among(s, S) = g[1..n]
    BY <1>1, AmongIsIter
  <1> HIDE DEF g
  <1>4. g[1..0] = <<>>
    <2>1. 1..0 = {} /\ {} \in SUBSET (1..n)
      OBVIOUS
    <2> QED
      BY <1>2, <2>1 DEF AmongIter
  <1>5. ASSUME NEW k \in 1..n
        PROVE  g[1..k] = Kept(g[1..(k - 1)], s[k], S)
    <2>1. 1..k \in SUBSET (1..n) /\ 1..k # {} /\ Max(1..k) = k /\ (1..k) \ {k} = 1..(k - 1)
      BY <1>1, PrefixFacts
    <2> QED
      BY <1>2, <2>1 DEF AmongIter
  <1>6. /\ f[0] = g[1..0] /\ f[n] = g[1..n]
        /\ \A k \in 1..n : f[k] = g[1..k] /\ f[k - 1] = g[1..(k - 1)]
    BY <1>1
  <1> HIDE DEF f
  <1>7. /\ f[0] = <<>> /\ f[n] = Among(s, S)
        /\ \A k \in 1..n : f[k] = Kept(f[k - 1], s[k], S)
    BY <1>3, <1>4, <1>5, <1>6
  <1> QED
    BY <1>1, <1>7

\* Of one element more, filter() keeps that element as well, if it is one to keep.
LEMMA KeptRange ==
  ASSUME NEW V, NEW kept \in Seq(V), NEW v \in V, NEW S
  PROVE  Range(Kept(kept, v, S)) = Range(kept) \cup ({v} \cap S)
  <1>1. CASE v \in S
    <2>1. /\ DOMAIN Append(kept, v) = 1..(Len(kept) + 1) /\ DOMAIN kept = 1..Len(kept)
          /\ Len(kept) \in Nat /\ Append(kept, v)[Len(kept) + 1] = v
          /\ \A i \in 1..Len(kept) : Append(kept, v)[i] = kept[i]
      OBVIOUS
    <2>2. Range(Append(kept, v)) = Range(kept) \cup {v}
      BY <2>1 DEF Range
    <2> QED
      BY <1>1, <2>2 DEF Kept
  <1>2. CASE v \notin S
    BY <1>2 DEF Kept
  <1> QED
    BY <1>1, <1>2

\* filter() keeps the elements that are in the set, and no others.
LEMMA AmongKeeps ==
  ASSUME NEW V, NEW s \in Seq(V), NEW S
  PROVE  Among(s, S) \in Seq(V) /\ Range(Among(s, S)) = Range(s) \cap S
  <1>1. PICK f : /\ f[0] = <<>> /\ f[Len(s)] = Among(s, S)
                 /\ \A k \in 1..Len(s) : f[k] = Kept(f[k - 1], s[k], S)
    BY AmongUnfolds
  <1> DEFINE n == Len(s)
             Seen(k) == {s[i] : i \in 1..k}
             P == {k \in 0..n : f[k] \in Seq(V) /\ Range(f[k]) = Seen(k) \cap S}
  <1>2. n \in Nat /\ \A k \in 1..n : s[k] \in V
    OBVIOUS
  <1>3. 0 \in P
    <2>1. Range(<<>>) = {} /\ <<>> \in Seq(V) /\ 0 \in 0..n /\ Seen(0) = {}
      BY <1>2 DEF Range
    <2> HIDE DEF Seen
    <2> QED
      BY <1>1, <2>1
  <1>4. ASSUME NEW j \in 0..n, NEW k \in 0..n, k = j + 1, j \in P
        PROVE  k \in P
    <2>1. k \in 1..n /\ k - 1 = j /\ s[k] \in V
      BY <1>2, <1>4
    <2>2. f[k] = Kept(f[j], s[k], S)
      BY <1>1, <2>1
    <2>3. f[j] \in Seq(V) /\ Range(f[j]) = Seen(j) \cap S
      BY <1>4
    <2>4. f[k] \in Seq(V) /\ Range(f[k]) = Range(f[j]) \cup ({s[k]} \cap S)
      BY <2>1, <2>2, <2>3, KeptType, KeptRange
    <2>5. Seen(k) = Seen(j) \cup {s[k]}
      <3>1. 1..k = 1..j \cup {k}
        BY <1>4
      <3> QED
        BY <3>1
    <2> HIDE DEF Seen
    <2> QED
      BY <2>3, <2>4, <2>5
  <1>5. Seen(n) = Range(s)
    BY DEF Range
  <1> HIDE DEF P, Seen, n
  <1>6. \A j, k \in 0..n : k = j + 1 /\ j \in P => k \in P
    BY <1>4
  <1>7. n \in P
    BY <1>2, <1>3, <1>6, UpTo
  <1> QED
    BY <1>1, <1>5, <1>7 DEF P, n

-----------------------------------------------------------------------------
\* Types

Targets == Executions \X (1..MaxTargets)
TargetEvents ==
  [type : {"job-target-finished"}, jobId : Own, executionId : Executions, toolId : {"tool"},
   target : Targets]
Snapshots ==
  UNION {[type : {"jobs-aggregated"}, running : {r}, events : [r -> Seq(TargetEvents)],
          scheduled : SUBSET Own] : r \in SUBSET Own}
RunningEvents == [type : {"jobs-running"}, running : SUBSET Jobs]
ScheduledEvents == [type : {"jobs-scheduled"}, scheduled : SUBSET Own]
EndEvents == [type : Outcomes, jobId : Own, executionId : Executions, finishedAt : Executions]
Event == Snapshots \cup RunningEvents \cup ScheduledEvents \cup TargetEvents \cup EndEvents

ToolState == [toolId : {"tool"}, targets : Seq(Targets)]
ExecutionState ==
  [executionId : Executions, finishedAt : Executions \cup {None}, tools : Seq(ToolState)]
JobState == [id : Own, executions : Seq(ExecutionState)]
EffectState ==
  [component : Nat \ {0}, phase : {"fetching", "answered", "streaming", "closed"},
   cancelled : BOOLEAN, answer : Seq(JobState),
   connection : {"none", "connecting", "open", "dead"}, queue : Seq(Event)]
PageState ==
  [component : Nat, jobs : Seq(JobState), isFetchingJobs : BOOLEAN, running : SUBSET Jobs,
   scheduled : SUBSET Own, isStreamHydrated : BOOLEAN]
Mutation ==
  [kind : {"create", "update", "delete"}, job : Own, component : Nat, isServed : BOOLEAN,
   answer : Seq(ExecutionState)]

Typed ==
  /\ docs \in [Own -> Seq(ExecutionState) \cup {None}]
  /\ created \subseteq Own /\ running \subseteq Jobs /\ attached \subseteq Own
  /\ runs \in [Executions -> RunState \cup {None}]
  /\ emitted \in Seq(TargetEvents)
  /\ effects \in Seq(EffectState)
  /\ page \in PageState
  /\ mutation \in Mutation \cup {None}
  /\ overwritten \subseteq Own

-----------------------------------------------------------------------------
\* What the overlay makes of executions: nothing that is shown is lost

InTools(tools, target) ==
  \E t \in DOMAIN tools : \E n \in DOMAIN tools[t].targets : tools[t].targets[n] = target

ShownIn(executions, target) == \E x \in DOMAIN executions : InTools(executions[x].tools, target)

\* An element of a sequence is replaced.
LEMMA Replaced ==
  ASSUME NEW V, NEW s \in Seq(V), NEW i \in DOMAIN s, NEW v \in V, NEW r, r = [s EXCEPT ![i] = v]
  PROVE  /\ r \in Seq(V) /\ Len(r) = Len(s) /\ DOMAIN r = DOMAIN s
         /\ r[i] = v /\ \A k \in DOMAIN s : k # i => r[k] = s[k]
  OBVIOUS

\* An element is appended.
LEMMA Appended ==
  ASSUME NEW V, NEW s \in Seq(V), NEW v \in V, NEW r, r = Append(s, v)
  PROVE  /\ r \in Seq(V) /\ Len(r) = Len(s) + 1 /\ Len(s) \in Nat
         /\ DOMAIN s = 1..Len(s) /\ DOMAIN r = 1..(Len(s) + 1)
         /\ r[Len(s) + 1] = v /\ \A k \in DOMAIN s : k \in DOMAIN r /\ r[k] = s[k]
  OBVIOUS

\* The fields of a record.
LEMMA ToolFields ==
  ASSUME NEW toolId \in {"tool"}, NEW targets \in Seq(Targets),
         NEW x, x = [toolId |-> toolId, targets |-> targets]
  PROVE  x \in ToolState /\ x.toolId = toolId /\ x.targets = targets
  BY DEF ToolState

\* The target is among those of its tool, which keeps the ones it had.
LEMMA AddTarget ==
  ASSUME NEW tools \in Seq(ToolState), NEW v \in TargetEvents
  PROVE  /\ addTarget(tools, v) \in Seq(ToolState)
         /\ InTools(addTarget(tools, v), v.target)
         /\ \A target : InTools(tools, target) => InTools(addTarget(tools, v), target)
  <1> DEFINE r == addTarget(tools, v)
             i == IndexWhere(tools, LAMBDA t : t.toolId = v.toolId)
  <1>1. i = 0 \/ i \in DOMAIN tools
    BY DEF IndexWhere
  <1>2. r = IF i = 0 THEN Append(tools, [toolId |-> v.toolId, targets |-> <<v.target>>])
            ELSE [tools EXCEPT ![i].targets = Append(@, v.target)]
    BY DEF addTarget
  <1>3. v.toolId \in {"tool"} /\ v.target \in Targets
    BY DEF TargetEvents
  <1> HIDE DEF i, r
  <1>4. CASE i = 0
    <2> DEFINE x == [toolId |-> v.toolId, targets |-> <<v.target>>]
    <2>1. <<v.target>> \in Seq(Targets) /\ DOMAIN <<v.target>> = 1..1 /\ <<v.target>>[1] = v.target
      BY <1>3
    <2>2. x \in ToolState /\ x.targets = <<v.target>>
      BY <1>3, <2>1, ToolFields
    <2> HIDE DEF x
    <2>3. r = Append(tools, x)
      BY <1>2, <1>4 DEF x
    <2>4. /\ r \in Seq(ToolState) /\ Len(tools) + 1 \in DOMAIN r /\ r[Len(tools) + 1] = x
          /\ \A k \in DOMAIN tools : k \in DOMAIN r /\ r[k] = tools[k]
      BY <2>2, <2>3, Appended
    <2>5. InTools(r, v.target)
      BY <2>1, <2>2, <2>4 DEF InTools
    <2>6. \A target : InTools(tools, target) => InTools(r, target)
      BY <2>4 DEF InTools
    <2> QED
      BY <2>4, <2>5, <2>6 DEF r
  <1>5. CASE i # 0
    <2> DEFINE old == tools[i].targets
               new == Append(old, v.target)
               x == [tools[i] EXCEPT !.targets = new]
    <2>1. i \in DOMAIN tools /\ tools[i] \in ToolState
      BY <1>1, <1>5
    <2>2. old \in Seq(Targets) /\ tools[i].toolId \in {"tool"}
      BY <2>1 DEF ToolState
    <2>3. /\ new \in Seq(Targets) /\ Len(old) + 1 \in DOMAIN new /\ new[Len(old) + 1] = v.target
          /\ \A k \in DOMAIN old : k \in DOMAIN new /\ new[k] = old[k]
      BY <1>3, <2>2, Appended
    <2>4. r = [tools EXCEPT ![i] = x]
      BY <1>2, <1>5, <2>1
    <2> HIDE DEF old, new
    <2>5. x = [toolId |-> tools[i].toolId, targets |-> new]
      BY <2>1 DEF ToolState
    <2> HIDE DEF x
    <2>6. x \in ToolState /\ x.targets = new
      BY <2>2, <2>3, <2>5, ToolFields
    <2>7. /\ r \in Seq(ToolState) /\ DOMAIN r = DOMAIN tools /\ r[i] = x
          /\ \A k \in DOMAIN tools : k # i => r[k] = tools[k]
      BY <2>1, <2>4, <2>6, Replaced
    <2>8. InTools(r, v.target)
      BY <2>1, <2>3, <2>6, <2>7 DEF InTools
    <2>9. ASSUME NEW target, InTools(tools, target)
          PROVE  InTools(r, target)
      <3>1. PICK k \in DOMAIN tools :
                   \E n \in DOMAIN tools[k].targets : tools[k].targets[n] = target
        BY <2>9 DEF InTools
      <3>2. CASE k = i
        <4>1. \E n \in DOMAIN new : new[n] = target
          BY <2>3, <3>1, <3>2 DEF old
        <4> QED
          BY <2>1, <2>6, <2>7, <4>1 DEF InTools
      <3>3. CASE k # i
        BY <2>7, <3>1, <3>3 DEF InTools
      <3> QED
        BY <3>2, <3>3
    <2> QED
      BY <2>7, <2>8, <2>9 DEF r
  <1> QED
    BY <1>4, <1>5

\* A target that has finished is shown by its execution.
LEMMA MapToExecutions ==
  ASSUME NEW executions \in Seq(ExecutionState), NEW v \in TargetEvents
  PROVE  LET r == mapToExecutions(executions, v) IN
         /\ r \in Seq(ExecutionState) /\ ShownIn(r, v.target)
         /\ \A target : ShownIn(executions, target) => ShownIn(r, target)
  <1> DEFINE r == mapToExecutions(executions, v)
             i == IndexWhere(executions, LAMBDA e : e.executionId = v.executionId)
             fresh == addTarget(<<>>, v)
  <1>1. i = 0 \/ i \in DOMAIN executions
    BY DEF IndexWhere
  <1>2. r = IF i = 0
            THEN Append(executions, [executionId |-> v.executionId, finishedAt |-> None,
                                     tools |-> fresh])
            ELSE [executions EXCEPT ![i].tools = addTarget(@, v)]
    BY DEF mapToExecutions
  <1>3. v.executionId \in Executions
    BY DEF TargetEvents
  <1> HIDE DEF i, r
  <1>4. CASE i = 0
    <2> DEFINE x == [executionId |-> v.executionId, finishedAt |-> None, tools |-> fresh]
    <2>1. fresh \in Seq(ToolState) /\ InTools(fresh, v.target)
      <3>1. PICK empty : empty = <<>> /\ empty \in Seq(ToolState)
        <4>1. <<>> \in Seq(ToolState)
          OBVIOUS
        <4> QED
          BY <4>1
      <3>2. addTarget(empty, v) \in Seq(ToolState) /\ InTools(addTarget(empty, v), v.target)
        BY <3>1, AddTarget
      <3> QED
        BY <3>1, <3>2
    <2> HIDE DEF fresh
    <2>2. x \in ExecutionState /\ x.tools = fresh
      BY <1>3, <2>1 DEF ExecutionState
    <2> HIDE DEF x
    <2>3. r = Append(executions, x)
      BY <1>2, <1>4 DEF x
    <2>4. /\ r \in Seq(ExecutionState) /\ Len(executions) + 1 \in DOMAIN r
          /\ r[Len(executions) + 1] = x
          /\ \A k \in DOMAIN executions : k \in DOMAIN r /\ r[k] = executions[k]
      BY <2>2, <2>3, Appended
    <2>5. ShownIn(r, v.target)
      BY <2>1, <2>2, <2>4 DEF ShownIn
    <2>6. \A target : ShownIn(executions, target) => ShownIn(r, target)
      BY <2>4 DEF ShownIn
    <2> QED
      BY <2>4, <2>5, <2>6 DEF r
  <1>5. CASE i # 0
    <2> DEFINE old == executions[i].tools
               new == addTarget(old, v)
               x == [executions[i] EXCEPT !.tools = new]
    <2>1. i \in DOMAIN executions /\ executions[i] \in ExecutionState
      BY <1>1, <1>5
    <2>2. /\ old \in Seq(ToolState) /\ executions[i].executionId \in Executions
          /\ executions[i].finishedAt \in Executions \cup {None}
      BY <2>1 DEF ExecutionState
    <2>3. r = [executions EXCEPT ![i] = x]
      BY <1>2, <1>5, <2>1
    <2> HIDE DEF new
    <2>4. x = [executionId |-> executions[i].executionId, finishedAt |-> executions[i].finishedAt,
               tools |-> new]
      <3>1. PICK e \in ExecutionState : e = executions[i]
        BY <2>1
      <3>2. [e EXCEPT !.tools = new]
              = [executionId |-> e.executionId, finishedAt |-> e.finishedAt, tools |-> new]
        BY DEF ExecutionState
      <3> QED
        BY <3>1, <3>2
    <2> HIDE DEF x, old
    <2> USE DEF new
    <2>5. /\ new \in Seq(ToolState) /\ InTools(new, v.target)
          /\ \A target : InTools(old, target) => InTools(new, target)
      BY <2>2, AddTarget
    <2> HIDE DEF new
    <2>6. x \in ExecutionState /\ x.tools = new
      BY <2>2, <2>4, <2>5 DEF ExecutionState
    <2>7. /\ r \in Seq(ExecutionState) /\ DOMAIN r = DOMAIN executions /\ r[i] = x
          /\ \A k \in DOMAIN executions : k # i => r[k] = executions[k]
      BY <2>1, <2>3, <2>6, Replaced
    <2>8. ShownIn(r, v.target)
      BY <2>1, <2>5, <2>6, <2>7 DEF ShownIn
    <2>9. ASSUME NEW target, ShownIn(executions, target)
          PROVE  ShownIn(r, target)
      <3>1. PICK k \in DOMAIN executions : InTools(executions[k].tools, target)
        BY <2>9 DEF ShownIn
      <3>2. CASE k = i
        <4>1. InTools(new, target)
          BY <2>5, <3>1, <3>2 DEF old
        <4> QED
          BY <2>1, <2>6, <2>7, <4>1 DEF ShownIn
      <3>3. CASE k # i
        BY <2>7, <3>1, <3>3 DEF ShownIn
      <3> QED
        BY <3>2, <3>3
    <2> QED
      BY <2>7, <2>8, <2>9 DEF r
  <1> QED
    BY <1>4, <1>5 DEF r

\* The end of a run changes nothing that is shown of targets.
LEMMA WithFinishedAt ==
  ASSUME NEW executions \in Seq(ExecutionState), NEW v, v.finishedAt \in Executions
  PROVE  LET r == withFinishedAt(executions, v) IN
         /\ r \in Seq(ExecutionState)
         /\ \A target : ShownIn(executions, target) => ShownIn(r, target)
  <1> DEFINE r == withFinishedAt(executions, v)
             i == IndexWhere(executions, LAMBDA e : e.executionId = v.executionId)
  <1>1. i = 0 \/ i \in DOMAIN executions
    BY DEF IndexWhere
  <1>2. r = IF i = 0 THEN executions ELSE [executions EXCEPT ![i].finishedAt = v.finishedAt]
    BY DEF withFinishedAt
  <1> HIDE DEF i, r
  <1>3. CASE i = 0
    BY <1>2, <1>3 DEF r
  <1>4. CASE i # 0
    <2> DEFINE x == [executions[i] EXCEPT !.finishedAt = v.finishedAt]
    <2>1. i \in DOMAIN executions /\ executions[i] \in ExecutionState
      BY <1>1, <1>4
    <2>2. executions[i].tools \in Seq(ToolState) /\ executions[i].executionId \in Executions
      BY <2>1 DEF ExecutionState
    <2>3. r = [executions EXCEPT ![i] = x]
      BY <1>2, <1>4, <2>1
    <2>4. x = [executionId |-> executions[i].executionId, finishedAt |-> v.finishedAt,
               tools |-> executions[i].tools]
      <3>1. PICK e \in ExecutionState : e = executions[i]
        BY <2>1
      <3>2. x = [e EXCEPT !.finishedAt = v.finishedAt]
        BY <3>1
      <3> HIDE DEF x
      <3>3. x = [executionId |-> e.executionId, finishedAt |-> v.finishedAt, tools |-> e.tools]
        BY <3>2 DEF ExecutionState
      <3> QED
        BY <3>1, <3>3, Zenon
    <2> HIDE DEF x
    <2>5. x \in ExecutionState /\ x.tools = executions[i].tools
      BY <2>2, <2>4 DEF ExecutionState
    <2>6. /\ r \in Seq(ExecutionState) /\ DOMAIN r = DOMAIN executions /\ r[i] = x
          /\ \A k \in DOMAIN executions : k # i => r[k] = executions[k]
      BY <2>1, <2>3, <2>5, Replaced
    <2>7. \A k \in DOMAIN executions : r[k].tools = executions[k].tools
      BY <2>5, <2>6
    <2> QED
      BY <2>6, <2>7 DEF ShownIn, r
  <1> QED
    BY <1>3, <1>4

\* The recursion of the fold replay is.
ReplayIter(executions, events, n, g) ==
  [T \in SUBSET (1..n) |->
     IF T = {} THEN executions ELSE mapToExecutions(g[T \ {Max(T)}], events[Max(T)])]

LEMMA ReplayIsIter ==
  ASSUME NEW executions, NEW events, NEW n, DOMAIN events = 1..n
  PROVE  replay(executions, events)
           = (CHOOSE g : g = ReplayIter(executions, events, n, g))[1..n]
  BY DEF replay, FoldLeft, MapThenFoldSet, ReplayIter

LEMMA ReplayIterIn ==
  ASSUME NEW X, NEW executions \in X, NEW E, NEW events \in Seq(E), NEW n, n = Len(events),
         \A a \in X : \A v \in E : mapToExecutions(a, v) \in X
  PROVE  LET g == CHOOSE g : g = ReplayIter(executions, events, n, g) IN g = ReplayIter(executions, events, n, g)
  <1> DEFINE step == [k \in 1..n |-> [a \in X |-> mapToExecutions(a, events[k])]]
  <1>1. n \in Nat /\ \A k \in 1..n : events[k] \in E
    OBVIOUS
  <1>2. \A a \in X : \A k \in 1..n : step[k][a] = mapToExecutions(a, events[k])
    OBVIOUS
  <1> HIDE DEF step
  <1>3. \A a \in X : \A k \in 1..n : step[k][a] \in X
    BY <1>1, <1>2
  <1>4. PICK g : g = Steps(step, executions, n, g) /\ \A T \in SUBSET (1..n) : g[T] \in X
    BY <1>1, <1>3, StepsExist
  <1>5. ASSUME NEW T \in SUBSET (1..n), T # {}
        PROVE  step[Max(T)][g[T \ {Max(T)}]] = mapToExecutions(g[T \ {Max(T)}], events[Max(T)])
    <2>1. Max(T) \in 1..n
      <3>1. T \in SUBSET (0..n)
        OBVIOUS
      <3> QED
        BY <1>1, <1>5, <3>1, MaxIn
    <2>2. T \ {Max(T)} \in SUBSET (1..n)
      OBVIOUS
    <2>3. g[T \ {Max(T)}] \in X
      BY <1>4, <2>2
    <2> QED
      BY <1>2, <2>1, <2>3
  <1>6. g = ReplayIter(executions, events, n, g)
    BY <1>4, <1>5 DEF Steps, ReplayIter
  <1> QED
    BY <1>6

LEMMA ReplayIterExists ==
  ASSUME NEW executions \in Seq(ExecutionState), NEW events \in Seq(TargetEvents),
         NEW n, n = Len(events)
  PROVE  LET g == CHOOSE g : g = ReplayIter(executions, events, n, g) IN g = ReplayIter(executions, events, n, g)
  <1> DEFINE X == Seq(ExecutionState)
  <1>1. \A a \in X : \A v \in TargetEvents : mapToExecutions(a, v) \in X
    BY MapToExecutions
  <1>2. executions \in X
    OBVIOUS
  <1> HIDE DEF X
  <1> QED
    BY <1>1, <1>2, ReplayIterIn

\* The replay step by step: f[k] is what the first k events make of the executions.
LEMMA ReplayUnfolds ==
  ASSUME NEW executions \in Seq(ExecutionState), NEW events \in Seq(TargetEvents)
  PROVE  \E f : /\ f[0] = executions /\ f[Len(events)] = replay(executions, events)
                /\ \A k \in 1..Len(events) : f[k] = mapToExecutions(f[k - 1], events[k])
  <1> DEFINE n == Len(events)
             g == CHOOSE g : g = ReplayIter(executions, events, n, g)
             f == [k \in 0..n |-> g[1..k]]
  <1>1. n \in Nat /\ n = Len(events) /\ DOMAIN events = 1..n
    OBVIOUS
  <1> HIDE DEF n
  <1>2. g = ReplayIter(executions, events, n, g)
    BY <1>1, ReplayIterExists
  <1>3. replay(executions, events) = g[1..n]
    BY <1>1, ReplayIsIter
  <1> HIDE DEF g
  <1>4. g[1..0] = executions
    <2>1. 1..0 = {} /\ {} \in SUBSET (1..n)
      OBVIOUS
    <2> QED
      BY <1>2, <2>1 DEF ReplayIter
  <1>5. ASSUME NEW k \in 1..n
        PROVE  g[1..k] = mapToExecutions(g[1..(k - 1)], events[k])
    <2>1. 1..k \in SUBSET (1..n) /\ 1..k # {} /\ Max(1..k) = k /\ (1..k) \ {k} = 1..(k - 1)
      BY <1>1, PrefixFacts
    <2> QED
      BY <1>2, <2>1 DEF ReplayIter
  <1>6. /\ f[0] = g[1..0] /\ f[n] = g[1..n]
        /\ \A k \in 1..n : f[k] = g[1..k] /\ f[k - 1] = g[1..(k - 1)]
    BY <1>1
  <1> HIDE DEF f
  <1>7. /\ f[0] = executions /\ f[n] = replay(executions, events)
        /\ \A k \in 1..n : f[k] = mapToExecutions(f[k - 1], events[k])
    BY <1>3, <1>4, <1>5, <1>6
  <1> QED
    BY <1>1, <1>7

\* Every target of the events of a snapshot is shown after their replay, and so is every one
\* shown before it.
LEMMA ReplayShows ==
  ASSUME NEW executions \in Seq(ExecutionState), NEW events \in Seq(TargetEvents)
  PROVE  /\ replay(executions, events) \in Seq(ExecutionState)
         /\ \A k \in DOMAIN events : ShownIn(replay(executions, events), events[k].target)
         /\ \A target : ShownIn(executions, target) => ShownIn(replay(executions, events), target)
  <1>1. PICK f : /\ f[0] = executions /\ f[Len(events)] = replay(executions, events)
                 /\ \A k \in 1..Len(events) : f[k] = mapToExecutions(f[k - 1], events[k])
    BY ReplayUnfolds
  <1> DEFINE n == Len(events)
             X == Seq(ExecutionState)
             Shows(k) == /\ \A i \in 1..k : ShownIn(f[k], events[i].target)
                         /\ \A target : ShownIn(executions, target) => ShownIn(f[k], target)
             P == {k \in 0..n : f[k] \in X /\ Shows(k)}
  <1>2. n \in Nat /\ DOMAIN events = 1..n /\ \A k \in 1..n : events[k] \in TargetEvents
    OBVIOUS
  <1>3. /\ f[0] = executions /\ f[n] = replay(executions, events) /\ executions \in X
        /\ \A k \in 1..n : f[k] = mapToExecutions(f[k - 1], events[k])
    BY <1>1
  <1>4. \A a \in X : \A v \in TargetEvents :
          /\ mapToExecutions(a, v) \in X /\ ShownIn(mapToExecutions(a, v), v.target)
          /\ \A target : ShownIn(a, target) => ShownIn(mapToExecutions(a, v), target)
    BY MapToExecutions
  <1> HIDE DEF X, n
  <1>5. 0 \in P
    BY <1>2, <1>3
  <1>6. ASSUME NEW j \in 0..n, NEW k \in 0..n, k = j + 1, j \in P
        PROVE  k \in P
    <2>1. k \in 1..n /\ k - 1 = j /\ 1..k = 1..j \cup {k}
      BY <1>2, <1>6
    <2>2. f[k] = mapToExecutions(f[j], events[k]) /\ events[k] \in TargetEvents
      BY <1>2, <1>3, <2>1
    <2>3. f[j] \in X /\ Shows(j)
      BY <1>6
    <2>4. /\ f[k] \in X /\ ShownIn(f[k], events[k].target)
          /\ \A target : ShownIn(f[j], target) => ShownIn(f[k], target)
      BY <1>4, <2>2, <2>3
    <2>5. Shows(k)
      BY <2>1, <2>3, <2>4
    <2> QED
      BY <2>4, <2>5
  <1>7. \A j, k \in 0..n : k = j + 1 /\ j \in P => k \in P
    BY <1>6
  <1> HIDE DEF P
  <1>8. n \in P
    BY <1>2, <1>5, <1>7, UpTo
  <1>9. f[n] \in X /\ Shows(n)
    BY <1>8 DEF P
  <1> QED
    BY <1>2, <1>3, <1>9 DEF X

\* A set of jobs as a sequence of them.
LEMMA SetToSeqKeeps ==
  ASSUME NEW S, IsFiniteSet(S)
  PROVE  SetToSeq(S) \in Seq(S)
  <1>1. Cardinality(S) \in Nat /\ ExistsBijection(1..Cardinality(S), S)
    BY FS_CardinalityType
  <1>2. \E f \in [1..Cardinality(S) -> S] : IsInjective(f)
    BY <1>1 DEF ExistsBijection, Bijection, Injection, IsInjective
  <1>3. SetToSeq(S) \in [1..Cardinality(S) -> S]
    BY <1>2 DEF SetToSeq
  <1> QED
    BY <1>1, <1>3

-----------------------------------------------------------------------------
\* What an event says, and what the page makes of it

SaysRunning(v) == v.type \in {"jobs-aggregated", "jobs-running"}
SaysScheduled(v) == v.type \in {"jobs-aggregated", "jobs-scheduled"}
SaysEnded(v, j) == v.type \in Outcomes /\ v.jobId = j
Decides(v, j) == SaysRunning(v) \/ SaysEnded(v, j)

Carries(v, j, target) ==
  \/ v.type = "job-target-finished" /\ v.jobId = j /\ v.target = target
  \/ /\ v.type = "jobs-aggregated" /\ j \in v.running
     /\ \E m \in DOMAIN v.events[j] : v.events[j][m].target = target

\* The kinds of events.
LEMMA EventKinds ==
  ASSUME NEW v \in Event
  PROVE  \/ /\ v.type = "jobs-aggregated" /\ v.running \subseteq Own /\ v.scheduled \subseteq Own
            /\ \A j \in v.running : v.events[j] \in Seq(TargetEvents)
         \/ v.type = "jobs-running" /\ v.running \subseteq Jobs
         \/ v.type = "jobs-scheduled" /\ v.scheduled \subseteq Own
         \/ v.type = "job-target-finished" /\ v \in TargetEvents
         \/ v.type \in Outcomes /\ v.finishedAt \in Executions
  <1>1. CASE v \in Snapshots
    <2>1. PICK r \in SUBSET Own :
            v \in [type : {"jobs-aggregated"}, running : {r}, events : [r -> Seq(TargetEvents)],
                  scheduled : SUBSET Own]
      BY <1>1 DEF Snapshots
    <2> DEFINE E == Seq(TargetEvents)
    <2>2. /\ v.running = r /\ v.events \in [r -> E]
          /\ v.type = "jobs-aggregated" /\ v.scheduled \subseteq Own
      BY <2>1
    <2> HIDE DEF E
    <2>3. \A j \in v.running : v.events[j] \in E
      BY <2>2
    <2> QED
      BY <2>2, <2>3 DEF E
  <1>2. CASE v \in RunningEvents
    BY <1>2 DEF RunningEvents
  <1>3. CASE v \in ScheduledEvents
    BY <1>3 DEF ScheduledEvents
  <1>4. CASE v \in TargetEvents
    <2>1. v.type = "job-target-finished"
      BY <1>4 DEF TargetEvents
    <2> QED
      BY <1>4, <2>1
  <1>5. CASE v \in EndEvents
    BY <1>5 DEF EndEvents
  <1> QED
    BY <1>1, <1>2, <1>3, <1>4, <1>5 DEF Event

\* A state of the page, by its fields.
PageOf(component, jobs, isFetchingJobs, now, scheduled, isStreamHydrated) ==
  [component |-> component, jobs |-> jobs, isFetchingJobs |-> isFetchingJobs, running |-> now,
   scheduled |-> scheduled, isStreamHydrated |-> isStreamHydrated]

LEMMA PageFields ==
  ASSUME NEW p \in PageState
  PROVE  /\ p.component \in Nat /\ p.jobs \in Seq(JobState) /\ p.isFetchingJobs \in BOOLEAN
         /\ p.running \subseteq Jobs /\ p.scheduled \subseteq Own /\ p.isStreamHydrated \in BOOLEAN
         /\ p = PageOf(p.component, p.jobs, p.isFetchingJobs, p.running, p.scheduled,
                     p.isStreamHydrated)
  BY DEF PageState, PageOf

\* The fields that a handler sets.
LEMMA PageSetOne ==
  ASSUME NEW p \in PageState, NEW x
  PROVE  /\ [p EXCEPT !.running = x]
              = PageOf(p.component, p.jobs, p.isFetchingJobs, x, p.scheduled, p.isStreamHydrated)
         /\ [p EXCEPT !.scheduled = x]
              = PageOf(p.component, p.jobs, p.isFetchingJobs, p.running, x, p.isStreamHydrated)
         /\ [p EXCEPT !.jobs = x]
              = PageOf(p.component, x, p.isFetchingJobs, p.running, p.scheduled, p.isStreamHydrated)
  <1>1. PICK c, l, f, r, s, h : p = PageOf(c, l, f, r, s, h)
    BY PageFields
  <1>2. /\ p.component = c /\ p.jobs = l /\ p.isFetchingJobs = f
        /\ p.running = r /\ p.scheduled = s /\ p.isStreamHydrated = h
    BY <1>1 DEF PageOf
  <1>3. [p EXCEPT !.running = x] = PageOf(c, l, f, x, s, h)
    BY <1>1 DEF PageOf
  <1>4. [p EXCEPT !.scheduled = x] = PageOf(c, l, f, r, x, h)
    BY <1>1 DEF PageOf
  <1>5. [p EXCEPT !.jobs = x] = PageOf(c, x, f, r, s, h)
    BY <1>1 DEF PageOf
  <1> QED
    BY <1>2, <1>3, <1>4, <1>5

WithEnd(p, x, z) == [p EXCEPT !.running = x, !.jobs = z]

LEMMA PageSetFinished ==
  ASSUME NEW p \in PageState, NEW x, NEW z
  PROVE  WithEnd(p, x, z)
           = PageOf(p.component, z, p.isFetchingJobs, x, p.scheduled, p.isStreamHydrated)
  <1>1. PICK c, l, f, r, s, h : p = PageOf(c, l, f, r, s, h)
    BY PageFields
  <1>2. p.component = c /\ p.isFetchingJobs = f /\ p.scheduled = s /\ p.isStreamHydrated = h
    BY <1>1 DEF PageOf
  <1>3. WithEnd(p, x, z) = [[p EXCEPT !.running = x] EXCEPT !.jobs = z]
    BY Zenon DEF WithEnd
  <1>4. [p EXCEPT !.running = x] = PageOf(c, l, f, x, s, h)
    BY <1>1 DEF PageOf
  <1>5. [PageOf(c, l, f, x, s, h) EXCEPT !.jobs = z] = PageOf(c, z, f, x, s, h)
    BY DEF PageOf
  <1> QED
    BY <1>2, <1>3, <1>4, <1>5

WithFetched(p, z, no) == [p EXCEPT !.jobs = z, !.isFetchingJobs = no]

LEMMA PageSetFetched ==
  ASSUME NEW p \in PageState, NEW no, NEW z
  PROVE  WithFetched(p, z, no)
           = PageOf(p.component, z, no, p.running, p.scheduled, p.isStreamHydrated)
  <1>1. PICK c, l, f, r, s, h : p = PageOf(c, l, f, r, s, h)
    BY PageFields
  <1>2. p.component = c /\ p.running = r /\ p.scheduled = s /\ p.isStreamHydrated = h
    BY <1>1 DEF PageOf
  <1>3. WithFetched(p, z, no) = [[p EXCEPT !.jobs = z] EXCEPT !.isFetchingJobs = no]
    BY Zenon DEF WithFetched
  <1>4. [p EXCEPT !.jobs = z] = PageOf(c, z, f, r, s, h)
    BY <1>1 DEF PageOf
  <1>5. [PageOf(c, z, f, r, s, h) EXCEPT !.isFetchingJobs = no] = PageOf(c, z, no, r, s, h)
    BY DEF PageOf
  <1> QED
    BY <1>2, <1>3, <1>4, <1>5

WithSnapshot(p, x, y, yes, z) ==
  [p EXCEPT !.running = x, !.scheduled = y, !.isStreamHydrated = yes, !.jobs = z]

LEMMA PageSetAggregated ==
  ASSUME NEW p \in PageState, NEW x, NEW y, NEW yes, NEW z
  PROVE  WithSnapshot(p, x, y, yes, z) = PageOf(p.component, z, p.isFetchingJobs, x, y, yes)
  <1>1. PICK c, l, f, r, s, h : p = PageOf(c, l, f, r, s, h)
    BY PageFields
  <1>2. p.component = c /\ p.isFetchingJobs = f
    BY <1>1 DEF PageOf
  <1>3. WithSnapshot(p, x, y, yes, z)
          = [[[[p EXCEPT !.running = x] EXCEPT !.scheduled = y] EXCEPT !.isStreamHydrated = yes]
               EXCEPT !.jobs = z]
    BY Zenon DEF WithSnapshot
  <1>4. [p EXCEPT !.running = x] = PageOf(c, l, f, x, s, h)
    BY <1>1 DEF PageOf
  <1> DEFINE p1 == PageOf(c, l, f, x, s, h)
             p2 == PageOf(c, l, f, x, y, h)
             p3 == PageOf(c, l, f, x, y, yes)
  <1>5. [p EXCEPT !.running = x] = p1 /\ [p1 EXCEPT !.scheduled = y] = p2
    BY <1>4 DEF PageOf
  <1>6. [p2 EXCEPT !.isStreamHydrated = yes] = p3
    BY DEF PageOf
  <1>7. [p3 EXCEPT !.jobs = z] = PageOf(c, z, f, x, y, yes)
    BY DEF PageOf
  <1> HIDE DEF p1, p2, p3
  <1> QED
    BY <1>2, <1>3, <1>5, <1>6, <1>7

LEMMA PageTyped ==
  ASSUME NEW c \in Nat, NEW l \in Seq(JobState), NEW f \in BOOLEAN, NEW r, r \subseteq Jobs,
         NEW s, s \subseteq Own, NEW h \in BOOLEAN
  PROVE  PageOf(c, l, f, r, s, h) \in PageState
  BY DEF PageOf, PageState

LEMMA JobFields ==
  ASSUME NEW l \in Seq(JobState), NEW n \in DOMAIN l
  PROVE  /\ l[n] \in JobState /\ l[n].id \in Own /\ l[n].executions \in Seq(ExecutionState)
         /\ l[n] = [id |-> l[n].id, executions |-> l[n].executions]
  <1>1. l[n] \in JobState
    OBVIOUS
  <1> QED
    BY <1>1 DEF JobState

\* The jobs of a page, later: none is gone and no target is lost.
Grows(jobs, new) ==
  /\ new \in Seq(JobState) /\ DOMAIN new = DOMAIN jobs
  /\ \A n \in DOMAIN jobs :
       /\ new[n].id = jobs[n].id
       /\ \A target : ShownIn(jobs[n].executions, target) => ShownIn(new[n].executions, target)

\* Each job is given the executions f names, which show no less.
GivenTo(jobs, f) == [n \in DOMAIN jobs |-> [jobs[n] EXCEPT !.executions = f[n]]]

ShowsNoLess(jobs, f) ==
  \A n \in DOMAIN jobs :
    /\ f[n] \in Seq(ExecutionState)
    /\ \A target : ShownIn(jobs[n].executions, target) => ShownIn(f[n], target)

LEMMA GivenGrows ==
  ASSUME NEW jobs \in Seq(JobState), NEW f, ShowsNoLess(jobs, f)
  PROVE  /\ Grows(jobs, GivenTo(jobs, f)) /\ GivenTo(jobs, f) \in Seq(JobState)
         /\ \A n \in DOMAIN jobs : GivenTo(jobs, f)[n].executions = f[n]
  <1> DEFINE new == GivenTo(jobs, f)
  <1>1. ASSUME NEW n \in DOMAIN jobs
        PROVE  new[n] \in JobState /\ new[n].id = jobs[n].id /\ new[n].executions = f[n]
    <2>1. jobs[n] \in JobState /\ new[n] = [jobs[n] EXCEPT !.executions = f[n]]
      BY DEF GivenTo
    <2>2. new[n] = [id |-> jobs[n].id, executions |-> f[n]] /\ jobs[n].id \in Own
      BY <2>1 DEF JobState
    <2>3. f[n] \in Seq(ExecutionState)
      BY DEF ShowsNoLess
    <2> QED
      BY <2>2, <2>3 DEF JobState
  <1>2. /\ DOMAIN new = 1..Len(jobs) /\ Len(jobs) \in Nat /\ DOMAIN jobs = 1..Len(jobs)
        /\ new = [n \in 1..Len(jobs) |-> new[n]]
    BY DEF GivenTo
  <1> HIDE DEF new
  <1>3. new \in Seq(JobState)
    BY <1>1, <1>2
  <1>4. Grows(jobs, new)
    BY <1>1, <1>2, <1>3 DEF Grows, ShowsNoLess
  <1> QED
    BY <1>1, <1>3, <1>4 DEF new

LEMMA GrowsNot ==
  ASSUME NEW jobs \in Seq(JobState)
  PROVE  Grows(jobs, jobs)
  BY DEF Grows

\* The page after an event.
HandledOK(p, v, q) ==
  /\ q \in PageState /\ q.component = p.component /\ Grows(p.jobs, q.jobs)
  /\ \A j : j \in q.running <=> IF SaysRunning(v) THEN j \in v.running
                                ELSE j \in p.running /\ ~SaysEnded(v, j)
  /\ q.scheduled = IF SaysScheduled(v) THEN v.scheduled ELSE p.scheduled
  /\ q.isStreamHydrated <=> p.isStreamHydrated \/ v.type = "jobs-aggregated"
  /\ \A n \in DOMAIN p.jobs : \A target :
       Carries(v, p.jobs[n].id, target) => ShownIn(q.jobs[n].executions, target)

\* A snapshot replaces the overlay, and replays what it carries.
LEMMA AggregatedHandled ==
  ASSUME NEW p \in PageState, NEW v \in Event, v.type = "jobs-aggregated"
  PROVE  HandledOK(p, v, onJobsAggregatedEvent(p, v))
  <1> DEFINE jobs == p.jobs
             f == [n \in DOMAIN jobs |->
                     IF jobs[n].id \in v.running
                     THEN replay(jobs[n].executions, v.events[jobs[n].id])
                     ELSE jobs[n].executions]
             new == GivenTo(jobs, f)
  <1>1. /\ v.running \subseteq Own /\ v.scheduled \subseteq Own
        /\ \A j \in v.running : v.events[j] \in Seq(TargetEvents)
    BY EventKinds DEF Outcomes
  <1>2. PICK yes : yes = TRUE
    OBVIOUS
  <1> DEFINE q == PageOf(p.component, new, p.isFetchingJobs, v.running, v.scheduled, yes)
  <1>3. onJobsAggregatedEvent(p, v) = q
    <2> DEFINE new2 == WithExecutions(p.jobs, LAMBDA job :
                         IF job.id \in v.running THEN replay(job.executions, v.events[job.id])
                         ELSE job.executions)
    <2>1. new2 = new
      BY DEF WithExecutions, GivenTo
    <2>2. onJobsAggregatedEvent(p, v) = WithSnapshot(p, v.running, v.scheduled, yes, new2)
      BY <1>2 DEF onJobsAggregatedEvent, WithSnapshot
    <2> HIDE DEF new, new2
    <2>3. WithSnapshot(p, v.running, v.scheduled, yes, new2)
            = PageOf(p.component, new2, p.isFetchingJobs, v.running, v.scheduled, yes)
      BY PageSetAggregated
    <2> QED
      BY <2>1, <2>2, <2>3
  <1>4. jobs \in Seq(JobState)
    BY PageFields
  <1> HIDE DEF jobs
  <1>5. ASSUME NEW n \in DOMAIN jobs
        PROVE  /\ f[n] \in Seq(ExecutionState)
               /\ \A target : ShownIn(jobs[n].executions, target) => ShownIn(f[n], target)
               /\ \A target : Carries(v, jobs[n].id, target) => ShownIn(f[n], target)
    <2> DEFINE j == jobs[n].id
               old == jobs[n].executions
    <2>1. /\ old \in Seq(ExecutionState)
          /\ f[n] = IF j \in v.running THEN replay(old, v.events[j]) ELSE old
      BY <1>4, JobFields
    <2> HIDE DEF f, old
    <2>2. CASE j \in v.running
      <3>1. v.events[j] \in Seq(TargetEvents)
        BY <1>1, <2>2
      <3>2. /\ f[n] \in Seq(ExecutionState)
            /\ \A k \in DOMAIN v.events[j] : ShownIn(f[n], v.events[j][k].target)
            /\ \A target : ShownIn(old, target) => ShownIn(f[n], target)
        BY <2>1, <2>2, <3>1, ReplayShows
      <3> QED
        BY <3>2 DEF Carries, old
    <2>3. CASE j \notin v.running
      BY <2>1, <2>3 DEF Carries, old
    <2> QED
      BY <2>2, <2>3
  <1> HIDE DEF f
  <1>6. ShowsNoLess(jobs, f)
    BY <1>5 DEF ShowsNoLess
  <1>7. /\ Grows(jobs, new) /\ new \in Seq(JobState)
        /\ \A n \in DOMAIN jobs : new[n].executions = f[n]
    BY <1>4, <1>6, GivenGrows
  <1> HIDE DEF new
  <1>8. q \in PageState
    BY <1>1, <1>2, <1>7, PageFields, PageTyped DEF Jobs
  <1>9. /\ q.component = p.component /\ q.jobs = new /\ q.running = v.running
        /\ q.scheduled = v.scheduled /\ q.isStreamHydrated = TRUE
    BY <1>2 DEF PageOf
  <1> HIDE DEF q
  <1> QED
    BY <1>3, <1>5, <1>7, <1>8, <1>9 DEF HandledOK, SaysRunning, SaysScheduled, jobs

\* The jobs that run are replaced, a schedule is attached or detached, a run fails.
LEMMA RunningHandled ==
  ASSUME NEW p \in PageState, NEW v \in Event, v.type = "jobs-running"
  PROVE  HandledOK(p, v, onRunningJobsEvent(p, v))
  <1> DEFINE q == PageOf(p.component, p.jobs, p.isFetchingJobs, v.running, p.scheduled,
                       p.isStreamHydrated)
  <1>1. v.running \subseteq Jobs
    BY EventKinds DEF Outcomes
  <1>2. onRunningJobsEvent(p, v) = q
    BY PageSetOne DEF onRunningJobsEvent
  <1>3. q \in PageState
    BY <1>1, PageFields, PageTyped
  <1>4. /\ q.component = p.component /\ q.jobs = p.jobs /\ q.running = v.running
        /\ q.scheduled = p.scheduled /\ q.isStreamHydrated = p.isStreamHydrated
    BY DEF PageOf
  <1>5. Grows(p.jobs, p.jobs)
    BY PageFields, GrowsNot
  <1> HIDE DEF q
  <1> QED
    BY <1>2, <1>3, <1>4, <1>5 DEF HandledOK, SaysRunning, SaysScheduled, Carries

LEMMA ScheduledHandled ==
  ASSUME NEW p \in PageState, NEW v \in Event, v.type = "jobs-scheduled"
  PROVE  HandledOK(p, v, onScheduledJobsEvent(p, v))
  <1> DEFINE q == PageOf(p.component, p.jobs, p.isFetchingJobs, p.running, v.scheduled,
                       p.isStreamHydrated)
  <1>1. v.scheduled \subseteq Own
    BY EventKinds DEF Outcomes
  <1>2. onScheduledJobsEvent(p, v) = q
    BY PageSetOne DEF onScheduledJobsEvent
  <1>3. q \in PageState
    BY <1>1, PageFields, PageTyped
  <1>4. /\ q.component = p.component /\ q.jobs = p.jobs /\ q.running = p.running
        /\ q.scheduled = v.scheduled /\ q.isStreamHydrated = p.isStreamHydrated
    BY DEF PageOf
  <1>5. Grows(p.jobs, p.jobs)
    BY PageFields, GrowsNot
  <1> HIDE DEF q
  <1> QED
    BY <1>2, <1>3, <1>4, <1>5
    DEF HandledOK, SaysRunning, SaysScheduled, SaysEnded, Carries, Outcomes

LEMMA FailedHandled ==
  ASSUME NEW p \in PageState, NEW v \in Event, v.type \in {"job-failed", "job-cancelled"}
  PROVE  HandledOK(p, v, onJobFailedEvent(p, v))
  <1> DEFINE r == p.running \ {v.jobId}
             q == PageOf(p.component, p.jobs, p.isFetchingJobs, r, p.scheduled, p.isStreamHydrated)
  <1>1. r \subseteq Jobs
    BY PageFields
  <1>2. onJobFailedEvent(p, v) = q
    <2> DEFINE x == r
    <2>1. onJobFailedEvent(p, v) = [p EXCEPT !.running = x]
      BY DEF onJobFailedEvent
    <2> HIDE DEF r
    <2> QED
      BY <2>1, PageSetOne
  <1>3. q \in PageState
    <2> HIDE DEF r
    <2> QED
      BY <1>1, PageFields, PageTyped
  <1>4. /\ q.component = p.component /\ q.jobs = p.jobs /\ q.running = r
        /\ q.scheduled = p.scheduled /\ q.isStreamHydrated = p.isStreamHydrated
    BY DEF PageOf
  <1>5. Grows(p.jobs, p.jobs)
    BY PageFields, GrowsNot
  <1> HIDE DEF q
  <1> QED
    BY <1>2, <1>3, <1>4, <1>5
    DEF HandledOK, SaysRunning, SaysScheduled, SaysEnded, Carries, Outcomes

\* A target is added to the run of its job.
LEMMA TargetHandled ==
  ASSUME NEW p \in PageState, NEW v \in Event, v.type = "job-target-finished"
  PROVE  HandledOK(p, v, onTargetFinishedEvent(p, v))
  <1> DEFINE jobs == p.jobs
             f == [n \in DOMAIN jobs |->
                     IF jobs[n].id = v.jobId THEN mapToExecutions(jobs[n].executions, v)
                     ELSE jobs[n].executions]
             new == GivenTo(jobs, f)
             q == PageOf(p.component, new, p.isFetchingJobs, p.running, p.scheduled,
                       p.isStreamHydrated)
  <1>1. v \in TargetEvents
    BY EventKinds DEF Outcomes
  <1>2. onTargetFinishedEvent(p, v) = q
    <2> DEFINE new2 == WithExecutions(p.jobs, LAMBDA job :
                         IF job.id = v.jobId THEN mapToExecutions(job.executions, v)
                         ELSE job.executions)
    <2>1. new2 = new
      BY DEF WithExecutions, GivenTo
    <2>2. onTargetFinishedEvent(p, v) = [p EXCEPT !.jobs = new2]
      BY DEF onTargetFinishedEvent
    <2> HIDE DEF new, new2
    <2> QED
      BY <2>1, <2>2, PageSetOne
  <1>3. jobs \in Seq(JobState)
    BY PageFields
  <1> HIDE DEF jobs
  <1>4. ASSUME NEW n \in DOMAIN jobs
        PROVE  /\ f[n] \in Seq(ExecutionState)
               /\ \A target : ShownIn(jobs[n].executions, target) => ShownIn(f[n], target)
               /\ \A target : Carries(v, jobs[n].id, target) => ShownIn(f[n], target)
    <2> DEFINE j == jobs[n].id
               old == jobs[n].executions
    <2>1. old \in Seq(ExecutionState) /\ f[n] = IF j = v.jobId THEN mapToExecutions(old, v) ELSE old
      BY <1>3, JobFields
    <2> HIDE DEF f, old
    <2>2. CASE j = v.jobId
      <3>1. /\ f[n] \in Seq(ExecutionState) /\ ShownIn(f[n], v.target)
            /\ \A target : ShownIn(old, target) => ShownIn(f[n], target)
        BY <1>1, <2>1, <2>2, MapToExecutions
      <3> QED
        BY <3>1 DEF Carries, old
    <2>3. CASE j # v.jobId
      BY <2>1, <2>3 DEF Carries, old
    <2> QED
      BY <2>2, <2>3
  <1> HIDE DEF f
  <1>5. ShowsNoLess(jobs, f)
    BY <1>4 DEF ShowsNoLess
  <1>6. /\ Grows(jobs, new) /\ new \in Seq(JobState)
        /\ \A n \in DOMAIN jobs : new[n].executions = f[n]
    BY <1>3, <1>5, GivenGrows
  <1> HIDE DEF new
  <1>7. q \in PageState
    BY <1>6, PageFields, PageTyped
  <1>8. /\ q.component = p.component /\ q.jobs = new /\ q.running = p.running
        /\ q.scheduled = p.scheduled /\ q.isStreamHydrated = p.isStreamHydrated
    BY DEF PageOf
  <1> HIDE DEF q
  <1> QED
    BY <1>2, <1>4, <1>6, <1>7, <1>8
    DEF HandledOK, SaysRunning, SaysScheduled, SaysEnded, Outcomes, jobs

\* A run ends: its job is running no more, and its execution has its end.
LEMMA FinishedHandled ==
  ASSUME NEW p \in PageState, NEW v \in Event, v.type = "job-finished"
  PROVE  HandledOK(p, v, onJobFinishedEvent(p, v))
  <1> DEFINE jobs == p.jobs
             r == p.running \ {v.jobId}
             f == [n \in DOMAIN jobs |->
                     IF jobs[n].id = v.jobId THEN withFinishedAt(jobs[n].executions, v)
                     ELSE jobs[n].executions]
             new == GivenTo(jobs, f)
             q == PageOf(p.component, new, p.isFetchingJobs, r, p.scheduled, p.isStreamHydrated)
  <1>1. v.finishedAt \in Executions /\ r \subseteq Jobs
    BY EventKinds, PageFields DEF Outcomes
  <1>2. onJobFinishedEvent(p, v) = q
    <2> DEFINE new2 == WithExecutions(p.jobs, LAMBDA job :
                         IF job.id = v.jobId THEN withFinishedAt(job.executions, v)
                         ELSE job.executions)
    <2>1. new2 = new
      BY DEF WithExecutions, GivenTo
    <2>2. onJobFinishedEvent(p, v) = WithEnd(p, r, new2)
      BY DEF onJobFinishedEvent, WithEnd
    <2> HIDE DEF new, new2, r
    <2> QED
      BY <2>1, <2>2, PageSetFinished
  <1>3. jobs \in Seq(JobState)
    BY PageFields
  <1> HIDE DEF jobs
  <1>4. ASSUME NEW n \in DOMAIN jobs
        PROVE  /\ f[n] \in Seq(ExecutionState)
               /\ \A target : ShownIn(jobs[n].executions, target) => ShownIn(f[n], target)
    <2> DEFINE j == jobs[n].id
               old == jobs[n].executions
    <2>1. old \in Seq(ExecutionState) /\ f[n] = IF j = v.jobId THEN withFinishedAt(old, v) ELSE old
      BY <1>3, JobFields
    <2> HIDE DEF f, old
    <2>2. CASE j = v.jobId
      <3>1. /\ f[n] \in Seq(ExecutionState)
            /\ \A target : ShownIn(old, target) => ShownIn(f[n], target)
        BY <1>1, <2>1, <2>2, WithFinishedAt
      <3> QED
        BY <3>1 DEF old
    <2>3. CASE j # v.jobId
      BY <2>1, <2>3 DEF old
    <2> QED
      BY <2>2, <2>3
  <1> HIDE DEF f
  <1>5. ShowsNoLess(jobs, f)
    BY <1>4 DEF ShowsNoLess
  <1>6. Grows(jobs, new) /\ new \in Seq(JobState)
    BY <1>3, <1>5, GivenGrows
  <1> HIDE DEF new
  <1>7. q \in PageState
    <2> HIDE DEF r
    <2> QED
      BY <1>1, <1>6, PageFields, PageTyped
  <1>8. /\ q.component = p.component /\ q.jobs = new /\ q.running = r
        /\ q.scheduled = p.scheduled /\ q.isStreamHydrated = p.isStreamHydrated
    BY DEF PageOf
  <1> HIDE DEF q
  <1> QED
    BY <1>2, <1>6, <1>7, <1>8
    DEF HandledOK, SaysRunning, SaysScheduled, SaysEnded, Outcomes, Carries, jobs

LEMMA EventIsHandled ==
  ASSUME NEW p \in PageState, NEW v \in Event
  PROVE  HandledOK(p, v, OnMessage(p, v))
  <1>1. CASE v.type = "jobs-aggregated"
    BY <1>1, AggregatedHandled DEF OnMessage
  <1>2. CASE v.type = "jobs-running"
    BY <1>2, RunningHandled DEF OnMessage
  <1>3. CASE v.type = "jobs-scheduled"
    BY <1>3, ScheduledHandled DEF OnMessage
  <1>4. CASE v.type = "job-target-finished"
    BY <1>4, TargetHandled DEF OnMessage
  <1>5. CASE v.type \in {"job-failed", "job-cancelled"}
    <2>1. OnMessage(p, v) = onJobFailedEvent(p, v)
      BY <1>5 DEF OnMessage
    <2> QED
      BY <1>5, <2>1, FailedHandled
  <1>6. CASE v.type = "job-finished"
    BY <1>6, FinishedHandled DEF OnMessage
  <1> QED
    BY <1>1, <1>2, <1>3, <1>4, <1>5, <1>6, EventKinds DEF Outcomes

-----------------------------------------------------------------------------
\* What a stream will have made of the overlay once its queue is delivered

\* The last event that decides on it shows the job as running.
WillShow(now, q, j) ==
  \/ \E k \in DOMAIN q :
       /\ SaysRunning(q[k]) /\ j \in q[k].running
       /\ \A m \in DOMAIN q : m > k => ~Decides(q[m], j)
  \/ j \in now /\ \A m \in DOMAIN q : ~Decides(q[m], j)

WillSchedule(now, q, s) ==
  \/ \E k \in DOMAIN q :
       /\ SaysScheduled(q[k]) /\ q[k].scheduled = s
       /\ \A m \in DOMAIN q : m > k => ~SaysScheduled(q[m])
  \/ now = s /\ \A m \in DOMAIN q : ~SaysScheduled(q[m])

Coming(q, j, target) == \E k \in DOMAIN q : Carries(q[k], j, target)

\* An event is sent.
LEMMA ShowAppend ==
  ASSUME NEW now, NEW q \in Seq(Event), NEW v \in Event, NEW j
  PROVE  WillShow(now, Append(q, v), j)
           <=> IF SaysRunning(v) THEN j \in v.running
               ELSE WillShow(now, q, j) /\ ~SaysEnded(v, j)
  <1> DEFINE r == Append(q, v)
             n == Len(q)
  <1>1. /\ n \in Nat /\ DOMAIN q = 1..n /\ DOMAIN r = 1..(n + 1) /\ r[n + 1] = v
        /\ \A k \in 1..n : r[k] = q[k]
    BY Appended
  <1> HIDE DEF r, n
  <1>2. CASE SaysRunning(v)
    <2>1. Decides(r[n + 1], j) /\ SaysRunning(r[n + 1]) /\ n + 1 \in 1..(n + 1)
      BY <1>1, <1>2 DEF Decides
    <2>2. \A k \in 1..(n + 1) : k = n + 1 \/ n + 1 > k
      BY <1>1
    <2>3. \A m \in 1..(n + 1) : ~(m > n + 1)
      BY <1>1
    <2> QED
      BY <1>1, <1>2, <2>1, <2>2, <2>3 DEF WillShow, r
  <1>3. CASE ~SaysRunning(v)
    <2>1. Decides(v, j) <=> SaysEnded(v, j)
      BY <1>3 DEF Decides
    <2>2. /\ n + 1 \in 1..(n + 1) /\ \A k \in 1..n : k \in 1..(n + 1) /\ n + 1 > k
          /\ \A k \in 1..(n + 1) : k = n + 1 \/ k \in 1..n
      BY <1>1
    <2>3. ASSUME WillShow(now, r, j)
          PROVE  WillShow(now, q, j) /\ ~SaysEnded(v, j)
      BY <1>1, <1>3, <2>1, <2>2, <2>3 DEF WillShow
    <2>4. ASSUME WillShow(now, q, j), ~SaysEnded(v, j)
          PROVE  WillShow(now, r, j)
      BY <1>1, <1>3, <2>1, <2>2, <2>4 DEF WillShow
    <2> QED
      BY <1>3, <2>3, <2>4 DEF r
  <1> QED
    BY <1>2, <1>3

LEMMA ScheduleAppend ==
  ASSUME NEW now, NEW q \in Seq(Event), NEW v \in Event, NEW s
  PROVE  WillSchedule(now, Append(q, v), s)
           <=> IF SaysScheduled(v) THEN v.scheduled = s ELSE WillSchedule(now, q, s)
  <1> DEFINE r == Append(q, v)
             n == Len(q)
  <1>1. /\ n \in Nat /\ DOMAIN q = 1..n /\ DOMAIN r = 1..(n + 1) /\ r[n + 1] = v
        /\ \A k \in 1..n : r[k] = q[k]
    BY Appended
  <1> HIDE DEF r, n
  <1>2. /\ n + 1 \in 1..(n + 1) /\ \A k \in 1..n : k \in 1..(n + 1) /\ n + 1 > k
        /\ \A k \in 1..(n + 1) : k = n + 1 \/ k \in 1..n
        /\ \A m \in 1..(n + 1) : ~(m > n + 1)
    BY <1>1
  <1>3. CASE SaysScheduled(v)
    BY <1>1, <1>2, <1>3 DEF WillSchedule, r
  <1>4. CASE ~SaysScheduled(v)
    BY <1>1, <1>2, <1>4 DEF WillSchedule, r
  <1> QED
    BY <1>3, <1>4

LEMMA ComingAppend ==
  ASSUME NEW q \in Seq(Event), NEW v \in Event, NEW j, NEW target,
         Coming(q, j, target) \/ Carries(v, j, target)
  PROVE  Coming(Append(q, v), j, target)
  <1> DEFINE r == Append(q, v)
             n == Len(q)
  <1>1. /\ n \in Nat /\ DOMAIN q = 1..n /\ DOMAIN r = 1..(n + 1) /\ r[n + 1] = v
        /\ \A k \in 1..n : r[k] = q[k]
    BY Appended
  <1> HIDE DEF r, n
  <1>2. n + 1 \in 1..(n + 1) /\ \A k \in 1..n : k \in 1..(n + 1)
    BY <1>1
  <1> QED
    BY <1>1, <1>2 DEF Coming, r

\* The first event is delivered.
LEMMA TailIs ==
  ASSUME NEW V, NEW q \in Seq(V), q # <<>>
  PROVE  /\ Head(q) \in V /\ Head(q) = q[1] /\ Tail(q) \in Seq(V)
         /\ Len(q) \in Nat \ {0} /\ DOMAIN q = 1..Len(q)
         /\ DOMAIN Tail(q) = 1..(Len(q) - 1)
         /\ \A k \in 1..(Len(q) - 1) : Tail(q)[k] = q[k + 1]
  OBVIOUS

LEMMA ShowTail ==
  ASSUME NEW now, NEW new, NEW q \in Seq(Event), q # <<>>, NEW j,
         j \in new <=> IF SaysRunning(Head(q)) THEN j \in Head(q).running
                      ELSE j \in now /\ ~SaysEnded(Head(q), j)
  PROVE  WillShow(new, Tail(q), j) <=> WillShow(now, q, j)
  <1> DEFINE t == Tail(q)
             n == Len(q)
             h == q[1]
  <1>1. /\ n \in Nat \ {0} /\ DOMAIN q = 1..n /\ DOMAIN t = 1..(n - 1) /\ h = Head(q)
        /\ \A k \in 1..(n - 1) : t[k] = q[k + 1]
    BY TailIs
  <1>2. j \in new <=> IF SaysRunning(h) THEN j \in h.running ELSE j \in now /\ ~SaysEnded(h, j)
    BY <1>1
  <1> HIDE DEF t, n
  <1>3. /\ 1 \in 1..n /\ \A k \in 1..n : k = 1 \/ k - 1 \in 1..(n - 1)
        /\ \A k \in 1..(n - 1) : k + 1 \in 1..n /\ k + 1 > 1
    BY <1>1
  <1>4. \A k \in 2..n : k - 1 \in 1..(n - 1) /\ q[k] = t[k - 1]
    BY <1>1
  <1>5. ASSUME WillShow(new, t, j)
        PROVE  WillShow(now, q, j)
    <2>1. CASE \E k \in 1..(n - 1) :
                 /\ SaysRunning(t[k]) /\ j \in t[k].running
                 /\ \A m \in 1..(n - 1) : m > k => ~Decides(t[m], j)
      <3>1. PICK k \in 1..(n - 1) :
              /\ SaysRunning(t[k]) /\ j \in t[k].running
              /\ \A m \in 1..(n - 1) : m > k => ~Decides(t[m], j)
        BY <2>1
      <3>2. k + 1 \in 1..n /\ q[k + 1] = t[k]
        BY <1>1
      <3>3. ASSUME NEW m \in 1..n, m > k + 1
            PROVE  ~Decides(q[m], j)
        <4>1. m \in 2..n /\ m - 1 > k /\ m - 1 \in 1..(n - 1)
          BY <1>1, <3>3
        <4> QED
          BY <1>4, <3>1, <4>1
      <3> QED
        BY <1>1, <3>1, <3>2, <3>3 DEF WillShow
    <2>2. CASE j \in new /\ \A m \in 1..(n - 1) : ~Decides(t[m], j)
      <3>1. \A m \in 2..n : ~Decides(q[m], j)
        BY <1>4, <2>2
      <3>2. \A m \in 1..n : m = 1 \/ (m \in 2..n /\ m > 1)
        BY <1>1
      <3>3. CASE SaysRunning(h)
        BY <1>1, <1>2, <1>3, <2>2, <3>1, <3>2, <3>3 DEF WillShow
      <3>4. CASE ~SaysRunning(h)
        BY <1>1, <1>2, <1>3, <2>2, <3>1, <3>2, <3>4 DEF WillShow, Decides
      <3> QED
        BY <3>3, <3>4
    <2> QED
      BY <1>1, <1>5, <2>1, <2>2 DEF WillShow
  <1>6. ASSUME WillShow(now, q, j)
        PROVE  WillShow(new, t, j)
    <2>1. CASE \E k \in 1..n :
                 /\ SaysRunning(q[k]) /\ j \in q[k].running
                 /\ \A m \in 1..n : m > k => ~Decides(q[m], j)
      <3>1. PICK k \in 1..n :
              /\ SaysRunning(q[k]) /\ j \in q[k].running
              /\ \A m \in 1..n : m > k => ~Decides(q[m], j)
        BY <2>1
      <3>2. ASSUME NEW m \in 1..(n - 1), m + 1 > k
            PROVE  ~Decides(t[m], j)
        <4>1. m + 1 \in 1..n /\ t[m] = q[m + 1]
          BY <1>1
        <4> QED
          BY <3>1, <3>2, <4>1
      <3>3. CASE k = 1
        <4>1. \A m \in 1..(n - 1) : m + 1 > 1
          OBVIOUS
        <4>2. j \in new /\ \A m \in 1..(n - 1) : ~Decides(t[m], j)
          BY <1>2, <3>1, <3>2, <3>3, <4>1
        <4> QED
          BY <1>1, <4>2 DEF WillShow
      <3>4. CASE k # 1
        <4>1. k \in 2..n /\ k - 1 \in 1..(n - 1) /\ \A m \in 1..(n - 1) : m > k - 1 => m + 1 > k
          BY <1>1, <3>4
        <4>2. SaysRunning(t[k - 1]) /\ j \in t[k - 1].running
          BY <1>4, <3>1, <4>1
        <4>3. \A m \in 1..(n - 1) : m > k - 1 => ~Decides(t[m], j)
          BY <3>2, <4>1
        <4> QED
          BY <1>1, <4>1, <4>2, <4>3 DEF WillShow
      <3> QED
        BY <3>3, <3>4
    <2>2. CASE j \in now /\ \A m \in 1..n : ~Decides(q[m], j)
      <3>1. j \in new
        BY <1>2, <1>3, <2>2 DEF Decides
      <3>2. \A m \in 1..(n - 1) : ~Decides(t[m], j)
        BY <1>1, <1>3, <2>2
      <3> QED
        BY <1>1, <3>1, <3>2 DEF WillShow
    <2> QED
      BY <1>1, <1>6, <2>1, <2>2 DEF WillShow
  <1> QED
    BY <1>5, <1>6 DEF t

LEMMA ScheduleTail ==
  ASSUME NEW now, NEW new, NEW q \in Seq(Event), q # <<>>, NEW s,
         new = IF SaysScheduled(Head(q)) THEN Head(q).scheduled ELSE now,
         WillSchedule(now, q, s)
  PROVE  WillSchedule(new, Tail(q), s)
  <1> DEFINE t == Tail(q)
             n == Len(q)
             h == q[1]
  <1>1. /\ n \in Nat \ {0} /\ DOMAIN q = 1..n /\ DOMAIN t = 1..(n - 1) /\ h = Head(q)
        /\ \A k \in 1..(n - 1) : t[k] = q[k + 1]
    BY TailIs
  <1>2. new = IF SaysScheduled(h) THEN h.scheduled ELSE now
    BY <1>1
  <1> HIDE DEF t, n
  <1>3. /\ 1 \in 1..n /\ \A k \in 1..n : k = 1 \/ k - 1 \in 1..(n - 1)
        /\ \A k \in 1..(n - 1) : k + 1 \in 1..n /\ k + 1 > 1
    BY <1>1
  <1>4. CASE \E k \in 1..n :
               /\ SaysScheduled(q[k]) /\ q[k].scheduled = s
               /\ \A m \in 1..n : m > k => ~SaysScheduled(q[m])
    <2>1. PICK k \in 1..n :
            /\ SaysScheduled(q[k]) /\ q[k].scheduled = s
            /\ \A m \in 1..n : m > k => ~SaysScheduled(q[m])
      BY <1>4
    <2>2. ASSUME NEW m \in 1..(n - 1), m + 1 > k
          PROVE  ~SaysScheduled(t[m])
      <3>1. m + 1 \in 1..n /\ t[m] = q[m + 1]
        BY <1>1
      <3> QED
        BY <2>1, <2>2, <3>1
    <2>3. CASE k = 1
      <3>1. \A m \in 1..(n - 1) : m + 1 > 1
        OBVIOUS
      <3>2. new = s /\ \A m \in 1..(n - 1) : ~SaysScheduled(t[m])
        BY <1>2, <2>1, <2>2, <2>3, <3>1
      <3> QED
        BY <1>1, <3>2 DEF WillSchedule, t
    <2>4. CASE k # 1
      <3>1. k - 1 \in 1..(n - 1) /\ (k - 1) + 1 = k /\ \A m \in 1..(n - 1) : m > k - 1 => m + 1 > k
        BY <1>1, <2>4
      <3>2. t[k - 1] = q[k]
        BY <1>1, <3>1
      <3>3. \A m \in 1..(n - 1) : m > k - 1 => ~SaysScheduled(t[m])
        BY <2>2, <3>1
      <3> QED
        BY <1>1, <2>1, <3>1, <3>2, <3>3 DEF WillSchedule, t
    <2> QED
      BY <2>3, <2>4
  <1>5. CASE now = s /\ \A m \in 1..n : ~SaysScheduled(q[m])
    <2>1. new = s
      BY <1>2, <1>3, <1>5
    <2>2. \A m \in 1..(n - 1) : ~SaysScheduled(t[m])
      BY <1>1, <1>3, <1>5
    <2> QED
      BY <1>1, <2>1, <2>2 DEF WillSchedule, t
  <1> QED
    BY <1>1, <1>4, <1>5 DEF WillSchedule

LEMMA ComingTail ==
  ASSUME NEW q \in Seq(Event), q # <<>>, NEW j, NEW target, Coming(q, j, target)
  PROVE  Carries(Head(q), j, target) \/ Coming(Tail(q), j, target)
  <1> DEFINE t == Tail(q)
             n == Len(q)
  <1>1. /\ n \in Nat \ {0} /\ DOMAIN q = 1..n /\ DOMAIN t = 1..(n - 1) /\ q[1] = Head(q)
        /\ \A k \in 1..(n - 1) : t[k] = q[k + 1]
    BY TailIs
  <1> HIDE DEF t, n
  <1>2. PICK k \in 1..n : Carries(q[k], j, target)
    BY <1>1 DEF Coming
  <1>3. CASE k = 1
    BY <1>1, <1>2, <1>3
  <1>4. CASE k # 1
    <2>1. k - 1 \in 1..(n - 1) /\ (k - 1) + 1 = k
      BY <1>1, <1>4
    <2>2. t[k - 1] = q[k]
      BY <1>1, <2>1
    <2> QED
      BY <1>1, <1>2, <2>1, <2>2 DEF Coming, t
  <1> QED
    BY <1>3, <1>4

-----------------------------------------------------------------------------
\* The inductive invariant

\* The jobs in progress, those with one run in progress, and the targets of theirs that the
\* backend lists.
Going(rs) ==
  {j \in Jobs : \E e \in Executions : rs[e] # None /\ rs[e].job = j /\ rs[e].phase # "done"}

Single(rs, j) ==
  \A e, f \in Executions :
    (/\ rs[e] # None /\ rs[e].job = j /\ rs[e].phase # "done"
     /\ rs[f] # None /\ rs[f].job = j /\ rs[f].phase # "done") => e = f

Wanted(em, live, rs) == {v \in Range(em) : v.jobId \in live /\ Single(rs, v.jobId)}

\* An effect that the cleanup has not reached is of the component that is shown.
EffectOK(x, component) ==
  /\ x.phase = "streaming" <=> x.connection # "none"
  /\ x.connection # "open" => x.queue = <<>>
  /\ x.phase = "streaming" => ~x.cancelled
  /\ ~x.cancelled => x.component = component

StreamsOK ==
  /\ \A i \in Effects : EffectOK(effects[i], page.component)
  /\ \A i, k \in Effects : ~effects[i].cancelled /\ ~effects[k].cancelled => i = k

\* What the backend lists is in progress.
ServerOK ==
  /\ running \subseteq Going(runs)
  /\ \A v \in Range(emitted) : v.jobId \in Going(runs)

Open(i) == effects[i].connection = "open"

\* What the stream will have made of the overlay follows the server.
Overlay(p, q, live, going, att) ==
  /\ \A j \in Own :
       /\ j \in live => WillShow(p.running, q, j)
       /\ WillShow(p.running, q, j) => j \in going
  /\ WillSchedule(p.scheduled, q, att)

OverlayOK ==
  \A i \in Effects :
    Open(i) => Overlay(page, effects[i].queue, running, Going(runs), attached)

\* Every target wanted is shown or coming.  Until the snapshot is delivered it is coming,
\* so that a fetch that answers late cannot lose it.
NoLoss(p, q, wanted, replaced) ==
  /\ ~p.isStreamHydrated =>
       /\ q # <<>> /\ Head(q).type = "jobs-aggregated"
       /\ \A v \in wanted : Coming(q, v.jobId, v.target)
  /\ \A job \in Range(p.jobs) : \A v \in wanted :
       job.id = v.jobId /\ v.jobId \notin replaced
         => ShownIn(job.executions, v.target) \/ Coming(q, v.jobId, v.target)

TargetsOK ==
  \A i \in Effects :
    Open(i) => NoLoss(page, effects[i].queue, Wanted(emitted, running, runs), overwritten)

Inv == Typed /\ StreamsOK /\ ServerOK /\ OverlayOK /\ TargetsOK

-----------------------------------------------------------------------------
\* What a change of an effect leaves alone

\* The fields of an effect.
LEMMA EffectFields ==
  ASSUME NEW x \in EffectState
  PROVE  /\ x.component \in Nat \ {0} /\ x.cancelled \in BOOLEAN /\ x.answer \in Seq(JobState)
         /\ x.phase \in {"fetching", "answered", "streaming", "closed"}
         /\ x.connection \in {"none", "connecting", "open", "dead"} /\ x.queue \in Seq(Event)
  BY DEF EffectState

WithQueue(x, q) == [x EXCEPT !.queue = q]
WithConnection(x, c, q) == [x EXCEPT !.connection = c, !.queue = q]
WithAnswer(x, a) == [x EXCEPT !.phase = "answered", !.answer = a]

LEMMA QueueSet ==
  ASSUME NEW x \in EffectState, NEW q \in Seq(Event), NEW r, r = WithQueue(x, q)
  PROVE  /\ r \in EffectState /\ r.component = x.component /\ r.cancelled = x.cancelled
         /\ r.phase = x.phase /\ r.connection = x.connection /\ r.queue = q
  BY DEF EffectState, WithQueue, WithConnection

LEMMA ConnectionSet ==
  ASSUME NEW x \in EffectState, NEW c \in {"connecting", "open", "dead"}, NEW q \in Seq(Event),
         NEW r, r = WithConnection(x, c, q)
  PROVE  /\ r \in EffectState /\ r.component = x.component /\ r.cancelled = x.cancelled
         /\ r.phase = x.phase /\ r.connection = c /\ r.queue = q
  BY DEF EffectState, WithQueue, WithConnection

LEMMA ConnectionRefused ==
  ASSUME NEW x \in EffectState, NEW r, r = [x EXCEPT !.connection = "dead"]
  PROVE  /\ r \in EffectState /\ r.component = x.component /\ r.cancelled = x.cancelled
         /\ r.phase = x.phase /\ r.connection = "dead" /\ r.queue = x.queue
  BY DEF EffectState

LEMMA AnswerSet ==
  ASSUME NEW x \in EffectState, NEW a \in Seq(JobState),
         NEW r, r = WithAnswer(x, a)
  PROVE  /\ r \in EffectState /\ r.component = x.component /\ r.cancelled = x.cancelled
         /\ r.phase = "answered" /\ r.connection = x.connection /\ r.queue = x.queue
  BY DEF EffectState, WithAnswer

LEMMA IsClosed ==
  ASSUME NEW x \in EffectState, NEW r, r = Closed(x)
  PROVE  /\ r \in EffectState /\ r.component = x.component /\ r.cancelled = x.cancelled
         /\ r.phase = "closed" /\ r.connection = "none" /\ r.queue = <<>>
  <1>1. PICK empty : empty = <<>> /\ empty \in Seq(Event)
    <2>1. <<>> \in Seq(Event)
      OBVIOUS
    <2> QED
      BY <2>1
  <1>2. r = [x EXCEPT !.phase = "closed", !.connection = "none", !.queue = empty]
    BY <1>1 DEF Closed
  <1>3. /\ r \in EffectState /\ r.component = x.component /\ r.cancelled = x.cancelled
        /\ r.phase = "closed" /\ r.connection = "none" /\ r.queue = empty
    BY <1>1, <1>2 DEF EffectState
  <1> QED
    BY <1>1, <1>3

LEMMA IsSubscribed ==
  ASSUME NEW x \in EffectState, NEW r, r = Subscribed(x)
  PROVE  /\ r \in EffectState /\ r.component = x.component /\ r.cancelled = x.cancelled
         /\ r.phase = "streaming" /\ r.connection = "connecting" /\ r.queue = x.queue
  <1>1. PICK empty : empty = <<>> /\ empty \in Seq(JobState)
    <2>1. <<>> \in Seq(JobState)
      OBVIOUS
    <2> QED
      BY <2>1
  <1>2. r = [x EXCEPT !.phase = "streaming", !.connection = "connecting", !.answer = empty]
    BY <1>1 DEF Subscribed
  <1> QED
    BY <1>1, <1>2 DEF EffectState

LEMMA IsCancelled ==
  ASSUME NEW x \in EffectState, NEW r, r = [x EXCEPT !.cancelled = TRUE]
  PROVE  /\ r \in EffectState /\ r.component = x.component /\ r.cancelled = TRUE
         /\ r.phase = x.phase /\ r.connection = x.connection /\ r.queue = x.queue
  BY DEF EffectState

\* Two effects are alike but for the queue.
Alike(x, y) ==
  /\ x.component = y.component /\ x.cancelled = y.cancelled
  /\ x.phase = y.phase /\ x.connection = y.connection

\* An event is appended to the queues of the open connections.
LEMMA EventIsSent ==
  ASSUME Typed, NEW owned \in BOOLEAN, NEW v, v \in Event \/ ~owned, Emit(owned, v)
  PROVE  /\ effects' \in Seq(EffectState) /\ Effects' = Effects
         /\ \A i \in Effects :
              /\ Alike(effects'[i], effects[i])
              /\ effects'[i].queue = IF owned /\ Open(i) THEN Append(effects[i].queue, v)
                                     ELSE effects[i].queue
  <1>1. effects \in Seq(EffectState) /\ Effects = 1..Len(effects) /\ Len(effects) \in Nat
    BY DEF Typed, Effects
  <1>2. CASE owned
    <2>1. v \in Event /\ effects' = Queued(v)
      BY <1>2 DEF Emit
    <2>2. ASSUME NEW i \in Effects
          PROVE  /\ effects'[i] \in EffectState /\ Alike(effects'[i], effects[i])
                 /\ effects'[i].queue = IF Open(i) THEN Append(effects[i].queue, v)
                                        ELSE effects[i].queue
      <3> DEFINE x == effects[i]
                 q == Append(x.queue, v)
      <3>1. effects'[i] = IF Open(i) THEN [x EXCEPT !.queue = q] ELSE x
        BY <2>1 DEF Queued, Open
      <3>2. x \in EffectState /\ x.queue \in Seq(Event)
        BY <1>1, EffectFields
      <3>3. q \in Seq(Event)
        BY <2>1, <3>2
      <3>4. CASE Open(i)
        <4>1. effects'[i] = WithQueue(x, q)
          BY <3>1, <3>4 DEF WithQueue
        <4> HIDE DEF x, q
        <4>2. /\ effects'[i] \in EffectState /\ Alike(effects'[i], x) /\ effects'[i].queue = q
          BY <3>2, <3>3, <4>1, QueueSet DEF Alike
        <4> QED
          BY <3>4, <4>2 DEF x, q
      <3>5. CASE ~Open(i)
        BY <3>1, <3>2, <3>5 DEF Alike
      <3> QED
        BY <3>4, <3>5
    <2>3. effects' = [i \in 1..Len(effects) |-> effects'[i]]
      BY <1>1, <2>1 DEF Queued
    <2>4. effects' \in Seq(EffectState) /\ Len(effects') = Len(effects)
      BY <1>1, <2>2, <2>3
    <2> QED
      BY <1>1, <1>2, <2>2, <2>4 DEF Effects
  <1>3. CASE ~owned
    BY <1>1, <1>3 DEF Emit, Alike, Effects
  <1> QED
    BY <1>2, <1>3

\* One effect is replaced.
LEMMA EffectIsSet ==
  ASSUME Typed, NEW i \in Effects, NEW x \in EffectState, effects' = [effects EXCEPT ![i] = x]
  PROVE  /\ effects' \in Seq(EffectState) /\ Effects' = Effects
         /\ effects'[i] = x /\ \A k \in Effects : k # i => effects'[k] = effects[k]
  <1>1. /\ effects \in Seq(EffectState) /\ DOMAIN effects = 1..Len(effects)
        /\ Effects = 1..Len(effects)
    BY DEF Typed, Effects
  <1>2. i \in DOMAIN effects
    BY <1>1
  <1>3. /\ effects' \in Seq(EffectState) /\ Len(effects') = Len(effects)
        /\ effects'[i] = x /\ \A k \in DOMAIN effects : k # i => effects'[k] = effects[k]
    BY <1>1, <1>2, Replaced
  <1> QED
    BY <1>1, <1>3 DEF Effects

\* The effects stay as they are but for their queues, and the page keeps its component.
LEMMA StreamsStay ==
  ASSUME StreamsOK, Effects' = Effects, page'.component = page.component,
         \A i \in Effects :
           /\ Alike(effects'[i], effects[i])
           /\ effects[i].connection # "open" => effects'[i].queue = effects[i].queue
  PROVE  StreamsOK'
  <1>1. \A i \in Effects : EffectOK(effects'[i], page'.component)
    BY DEF StreamsOK, EffectOK, Alike
  <1>2. \A i, k \in Effects : ~effects'[i].cancelled /\ ~effects'[k].cancelled => i = k
    BY DEF StreamsOK, Alike
  <1> QED
    BY <1>1, <1>2 DEF StreamsOK

\* An open stream is of the component that is shown, and it is the only one.
LEMMA OpenIsShown ==
  ASSUME Typed, StreamsOK, NEW i \in Effects, Open(i)
  PROVE  /\ ~effects[i].cancelled /\ effects[i].component = page.component
         /\ page.component # 0 /\ effects[i].phase = "streaming"
         /\ effects[i].queue \in Seq(Event)
         /\ \A k \in Effects : ~effects[k].cancelled => k = i
  <1>1. effects[i] \in EffectState
    BY DEF Typed, Effects
  <1>2. EffectOK(effects[i], page.component)
    BY DEF StreamsOK
  <1>3. /\ ~effects[i].cancelled /\ effects[i].component = page.component
        /\ effects[i].phase = "streaming"
    BY <1>2 DEF EffectOK, Open
  <1>4. \A k \in Effects : ~effects[k].cancelled => k = i
    BY <1>3 DEF StreamsOK
  <1> QED
    BY <1>1, <1>3, <1>4, EffectFields

-----------------------------------------------------------------------------
\* The overlay, when something is sent, delivered or done by the server

\* An event is sent that says what the server does.
LEMMA OverlayIsSent ==
  ASSUME NEW p, NEW q \in Seq(Event), NEW v \in Event, NEW live, NEW going, NEW att,
         NEW live2, NEW going2, NEW att2,
         Overlay(p, q, live, going, att),
         \A j \in Own :
           IF SaysRunning(v)
           THEN (j \in live2 => j \in v.running) /\ (j \in v.running => j \in going2)
           ELSE /\ j \in live2 => j \in live /\ ~SaysEnded(v, j)
                /\ j \in going /\ ~SaysEnded(v, j) => j \in going2,
         att2 = IF SaysScheduled(v) THEN v.scheduled ELSE att
  PROVE  Overlay(p, Append(q, v), live2, going2, att2)
  <1>1. \A j \in Own : WillShow(p.running, Append(q, v), j)
                         <=> IF SaysRunning(v) THEN j \in v.running
                             ELSE WillShow(p.running, q, j) /\ ~SaysEnded(v, j)
    BY ShowAppend
  <1>2. WillSchedule(p.scheduled, Append(q, v), att2)
    BY ScheduleAppend DEF Overlay
  <1>3. \A j \in Own : /\ j \in live2 => WillShow(p.running, Append(q, v), j)
                       /\ WillShow(p.running, Append(q, v), j) => j \in going2
    BY <1>1 DEF Overlay
  <1> QED
    BY <1>2, <1>3 DEF Overlay

\* Less runs, or more is in progress.
LEMMA OverlayStays ==
  ASSUME NEW p, NEW q, NEW live, NEW going, NEW att, NEW live2, NEW going2,
         Overlay(p, q, live, going, att),
         \A j \in Own : (j \in live2 => j \in live) /\ (j \in going => j \in going2)
  PROVE  Overlay(p, q, live2, going2, att)
  BY DEF Overlay

\* The page handles the first event.
LEMMA OverlayIsDelivered ==
  ASSUME NEW p \in PageState, NEW q \in Seq(Event), q # <<>>, NEW live, NEW going, NEW att,
         Overlay(p, q, live, going, att), NEW new, HandledOK(p, Head(q), new)
  PROVE  Overlay(new, Tail(q), live, going, att)
  <1>1. \A j \in Own : j \in new.running <=> IF SaysRunning(Head(q)) THEN j \in Head(q).running
                                             ELSE j \in p.running /\ ~SaysEnded(Head(q), j)
    BY DEF HandledOK
  <1>2. \A j \in Own : WillShow(new.running, Tail(q), j) <=> WillShow(p.running, q, j)
    BY <1>1, ShowTail
  <1>3. new.scheduled = IF SaysScheduled(Head(q)) THEN Head(q).scheduled ELSE p.scheduled
    BY DEF HandledOK
  <1>4. WillSchedule(new.scheduled, Tail(q), att)
    BY <1>3, ScheduleTail DEF Overlay
  <1> QED
    BY <1>2, <1>4 DEF Overlay

\* An event is sent that carries every target wanted from now on.
LEMMA NoLossIsSent ==
  ASSUME NEW p, NEW q \in Seq(Event), NEW v \in Event, NEW wanted, NEW replaced,
         NoLoss(p, q, wanted, replaced), NEW wanted2,
         \A w \in wanted2 : w \in wanted \/ Carries(v, w.jobId, w.target)
  PROVE  NoLoss(p, Append(q, v), wanted2, replaced)
  <1> DEFINE r == Append(q, v)
  <1>1. \A w \in wanted2 : Coming(q, w.jobId, w.target) => Coming(r, w.jobId, w.target)
    BY ComingAppend
  <1>2. \A w \in wanted2 : Carries(v, w.jobId, w.target) => Coming(r, w.jobId, w.target)
    BY ComingAppend
  <1>3. q # <<>> => r # <<>> /\ Head(r) = Head(q)
    OBVIOUS
  <1> HIDE DEF r
  <1>4. ASSUME ~p.isStreamHydrated
        PROVE  /\ r # <<>> /\ Head(r).type = "jobs-aggregated"
               /\ \A w \in wanted2 : Coming(r, w.jobId, w.target)
    BY <1>1, <1>2, <1>3, <1>4 DEF NoLoss
  <1>5. ASSUME NEW job \in Range(p.jobs), NEW w \in wanted2,
               job.id = w.jobId, w.jobId \notin replaced
        PROVE  ShownIn(job.executions, w.target) \/ Coming(r, w.jobId, w.target)
    BY <1>1, <1>2, <1>5 DEF NoLoss
  <1> QED
    BY <1>4, <1>5 DEF NoLoss, r

LEMMA NoLossStays ==
  ASSUME NEW p, NEW q, NEW wanted, NEW replaced, NoLoss(p, q, wanted, replaced),
         NEW wanted2 \in SUBSET wanted
  PROVE  NoLoss(p, q, wanted2, replaced)
  BY DEF NoLoss

\* The page handles the first event, which is the snapshot if it had none.
LEMMA NoLossIsDelivered ==
  ASSUME NEW p \in PageState, NEW q \in Seq(Event), q # <<>>, NEW wanted, NEW replaced,
         NoLoss(p, q, wanted, replaced), NEW new, HandledOK(p, Head(q), new)
  PROVE  NoLoss(new, Tail(q), wanted, replaced)
  <1>1. new.isStreamHydrated
    BY DEF HandledOK, NoLoss
  <1>2. ASSUME NEW job \in Range(new.jobs), NEW w \in wanted,
               job.id = w.jobId, w.jobId \notin replaced
        PROVE  ShownIn(job.executions, w.target) \/ Coming(Tail(q), w.jobId, w.target)
    <2>1. DOMAIN new.jobs = DOMAIN p.jobs
      BY DEF HandledOK, Grows
    <2>2. PICK n \in DOMAIN p.jobs : job = new.jobs[n]
      BY <2>1 DEF Range
    <2>3. /\ p.jobs[n].id = w.jobId /\ p.jobs[n] \in Range(p.jobs)
          /\ ShownIn(p.jobs[n].executions, w.target) => ShownIn(job.executions, w.target)
          /\ Carries(Head(q), w.jobId, w.target) => ShownIn(job.executions, w.target)
      BY <1>2, <2>2 DEF HandledOK, Grows, Range
    <2>4. ShownIn(p.jobs[n].executions, w.target) \/ Coming(q, w.jobId, w.target)
      BY <1>2, <2>3 DEF NoLoss
    <2>5. Coming(q, w.jobId, w.target)
            => Carries(Head(q), w.jobId, w.target) \/ Coming(Tail(q), w.jobId, w.target)
      BY ComingTail
    <2> QED
      BY <2>3, <2>4, <2>5
  <1> QED
    BY <1>1, <1>2 DEF NoLoss

\* The page takes jobs over, those it shows as they were or ones that were replaced.
LEMMA NoLossIsReplaced ==
  ASSUME NEW p, NEW q, NEW wanted, NEW replaced, NoLoss(p, q, wanted, replaced),
         NEW new, NEW replaced2, new.isStreamHydrated = p.isStreamHydrated,
         replaced \subseteq replaced2,
         p.isStreamHydrated =>
           \A job \in Range(new.jobs) : \A w \in wanted :
             job.id = w.jobId => job \in Range(p.jobs) \/ w.jobId \in replaced2
  PROVE  NoLoss(new, q, wanted, replaced2)
  BY DEF NoLoss

-----------------------------------------------------------------------------
\* The jobs in progress and the targets wanted

LEMMA GoingIs ==
  ASSUME NEW j \in Jobs
  PROVE  InProgress(j) <=> j \in Going(runs)
  BY DEF InProgress, Going

LEMMA SingleIs ==
  ASSUME NEW j
  PROVE  OneRun(j) <=> Single(runs, j)
  BY DEF OneRun, Single

\* A run is replaced.
LEMMA RunIsSet ==
  ASSUME Typed, NEW e \in Executions, NEW r \in RunState, runs' = [runs EXCEPT ![e] = r]
  PROVE  /\ runs' \in [Executions -> RunState \cup {None}] /\ runs'[e] = r
         /\ \A f \in Executions : f # e => runs'[f] = runs[f]
  BY DEF Typed

\* A run that goes on changes neither the jobs in progress nor the targets wanted.
LEMMA RunGoesOn ==
  ASSUME NEW e \in Executions,
         runs[e] # None, runs'[e] # None, runs'[e].job = runs[e].job,
         runs[e].phase # "done", runs'[e].phase # "done",
         \A f \in Executions : f # e => runs'[f] = runs[f]
  PROVE  Going(runs') = Going(runs) /\ \A j : Single(runs', j) <=> Single(runs, j)
  <1>1. \A f \in Executions : \A j :
          (runs'[f] # None /\ runs'[f].job = j /\ runs'[f].phase # "done")
            <=> (runs[f] # None /\ runs[f].job = j /\ runs[f].phase # "done")
    OBVIOUS
  <1> QED
    BY <1>1 DEF Going, Single

\* A run that ends takes only its own job out of those in progress.
LEMMA RunIsOver ==
  ASSUME NEW e \in Executions, NEW j0, runs[e] # None, runs[e].job = j0,
         runs'[e] # None, runs'[e].job = j0,
         \A f \in Executions : f # e => runs'[f] = runs[f]
  PROVE  /\ \A j \in Going(runs) : j # j0 => j \in Going(runs')
         /\ \A j : j # j0 => (Single(runs', j) <=> Single(runs, j))
  <1>1. ASSUME NEW j, j # j0
        PROVE  \A f \in Executions :
                 (runs'[f] # None /\ runs'[f].job = j /\ runs'[f].phase # "done")
                   <=> (runs[f] # None /\ runs[f].job = j /\ runs[f].phase # "done")
    BY <1>1
  <1> QED
    BY <1>1 DEF Going, Single

\* A job that is started is in progress; one that was so has more than one run.
LEMMA RunIsStarted ==
  ASSUME NEW e \in Executions, NEW j0 \in Jobs, runs[e] = None,
         runs'[e] # None, runs'[e].job = j0, runs'[e].phase # "done",
         \A f \in Executions : f # e => runs'[f] = runs[f]
  PROVE  /\ Going(runs') = Going(runs) \cup {j0}
         /\ \A j : j # j0 => (Single(runs', j) <=> Single(runs, j))
         /\ j0 \in Going(runs) => ~Single(runs', j0)
  <1>1. ASSUME NEW j, j # j0
        PROVE  \A f \in Executions :
                 (runs'[f] # None /\ runs'[f].job = j /\ runs'[f].phase # "done")
                   <=> (runs[f] # None /\ runs[f].job = j /\ runs[f].phase # "done")
    BY <1>1
  <1>2. \A f \in Executions : runs[f] # None => f # e /\ runs'[f] = runs[f]
    OBVIOUS
  <1>3. Going(runs') = Going(runs) \cup {j0}
    BY <1>1, <1>2 DEF Going
  <1>4. j0 \in Going(runs) => ~Single(runs', j0)
    BY <1>2 DEF Going, Single
  <1> QED
    BY <1>1, <1>3, <1>4 DEF Single

\* What is sent reaches the open streams, and what is wanted is on its way.
LEMMA ServerStep ==
  ASSUME Inv, NEW owned \in BOOLEAN, NEW v, v \in Event \/ ~owned, Emit(owned, v),
         page' = page, overwritten' = overwritten,
         owned =>
           /\ \A j \in Own :
                IF SaysRunning(v)
                THEN (j \in running' => j \in v.running) /\ (j \in v.running => j \in Going(runs'))
                ELSE /\ j \in running' => j \in running /\ ~SaysEnded(v, j)
                     /\ j \in Going(runs) /\ ~SaysEnded(v, j) => j \in Going(runs')
           /\ attached' = IF SaysScheduled(v) THEN v.scheduled ELSE attached
           /\ \A w \in Wanted(emitted', running', runs') :
                w \in Wanted(emitted, running, runs) \/ Carries(v, w.jobId, w.target),
         ~owned =>
           /\ \A j \in Own : /\ j \in running' => j \in running
                             /\ j \in Going(runs) => j \in Going(runs')
           /\ attached' = attached
           /\ Wanted(emitted', running', runs') \subseteq Wanted(emitted, running, runs)
  PROVE  StreamsOK' /\ OverlayOK' /\ TargetsOK'
  <1>1. /\ Effects' = Effects
        /\ \A i \in Effects :
             /\ Alike(effects'[i], effects[i])
             /\ effects'[i].queue = IF owned /\ Open(i) THEN Append(effects[i].queue, v)
                                    ELSE effects[i].queue
    BY EventIsSent DEF Inv
  <1>2. StreamsOK'
    BY <1>1, StreamsStay DEF Inv, Open
  <1> DEFINE w1 == Wanted(emitted, running, runs)
             w2 == Wanted(emitted', running', runs')
             g1 == Going(runs)
             g2 == Going(runs')
  <1>3. ASSUME NEW i \in Effects, effects'[i].connection = "open"
        PROVE  /\ Overlay(page, effects'[i].queue, running', g2, attached')
               /\ NoLoss(page, effects'[i].queue, w2, overwritten)
    <2> DEFINE q == effects[i].queue
    <2>1. Open(i) /\ q \in Seq(Event)
      BY <1>1, <1>3, OpenIsShown DEF Alike, Open, Inv
    <2>2. Overlay(page, q, running, g1, attached) /\ NoLoss(page, q, w1, overwritten)
      BY <2>1 DEF Inv, OverlayOK, TargetsOK
    <2> HIDE DEF w1, w2, g1, g2
    <2>3. CASE owned
      <3>1. effects'[i].queue = Append(q, v) /\ v \in Event
        BY <1>1, <2>1, <2>3
      <3>2. /\ \A j \in Own :
                 IF SaysRunning(v)
                 THEN (j \in running' => j \in v.running) /\ (j \in v.running => j \in g2)
                 ELSE /\ j \in running' => j \in running /\ ~SaysEnded(v, j)
                      /\ j \in g1 /\ ~SaysEnded(v, j) => j \in g2
            /\ attached' = IF SaysScheduled(v) THEN v.scheduled ELSE attached
            /\ \A w \in w2 : w \in w1 \/ Carries(v, w.jobId, w.target)
        BY <2>3 DEF w1, w2, g1, g2
      <3> HIDE DEF q
      <3>3. Overlay(page, Append(q, v), running', g2, attached')
        BY <2>1, <2>2, <3>1, <3>2, OverlayIsSent
      <3>4. NoLoss(page, Append(q, v), w2, overwritten)
        BY <2>1, <2>2, <3>1, <3>2, NoLossIsSent
      <3> QED
        BY <3>1, <3>3, <3>4
    <2>4. CASE ~owned
      <3>1. effects'[i].queue = q
        BY <1>1, <2>4
      <3>2. /\ \A j \in Own : (j \in running' => j \in running) /\ (j \in g1 => j \in g2)
            /\ attached' = attached /\ w2 \in SUBSET w1
        BY <2>4 DEF w1, w2, g1, g2
      <3> HIDE DEF q
      <3>3. Overlay(page, q, running', g2, attached)
        BY <2>2, <3>2, OverlayStays
      <3>4. NoLoss(page, q, w2, overwritten)
        BY <2>2, <3>2, NoLossStays
      <3> QED
        BY <3>1, <3>2, <3>3, <3>4
    <2> QED
      BY <2>3, <2>4
  <1>4. OverlayOK'
    BY <1>1, <1>3 DEF OverlayOK, Open
  <1>5. TargetsOK'
    BY <1>1, <1>3 DEF TargetsOK, Open
  <1> QED
    BY <1>2, <1>4, <1>5

-----------------------------------------------------------------------------
\* The server's side: each step keeps the invariant

LEMMA EventTypes ==
  /\ \A S \in SUBSET Jobs : [type |-> "jobs-running", running |-> S] \in Event
  /\ \A S \in SUBSET Own : [type |-> "jobs-scheduled", scheduled |-> S] \in Event
  /\ \A type \in Outcomes : \A j \in Own : \A e \in Executions :
       [type |-> type, jobId |-> j, executionId |-> e, finishedAt |-> e] \in Event
  /\ TargetEvents \subseteq Event
  <1>1. \A S \in SUBSET Jobs : [type |-> "jobs-running", running |-> S] \in RunningEvents
    BY DEF RunningEvents
  <1>2. \A S \in SUBSET Own : [type |-> "jobs-scheduled", scheduled |-> S] \in ScheduledEvents
    BY DEF ScheduledEvents
  <1>3. \A type \in Outcomes : \A j \in Own : \A e \in Executions :
          [type |-> type, jobId |-> j, executionId |-> e, finishedAt |-> e] \in EndEvents
    BY DEF EndEvents
  <1> QED
    BY <1>1, <1>2, <1>3 DEF Event

\* The fields of a run.
LEMMA RunFields ==
  ASSUME Typed, NEW e \in Executions, runs[e] # None
  PROVE  /\ runs[e] \in RunState /\ runs[e].job \in Jobs /\ runs[e].sent \in 0..MaxTargets
         /\ runs[e].phase \in {"tools", "persisted", "done"}
         /\ runs[e] = [job |-> runs[e].job, sent |-> runs[e].sent, phase |-> runs[e].phase]
  <1>1. runs[e] \in RunState
    BY DEF Typed
  <1> QED
    BY <1>1 DEF RunState

LEMMA StartKeeps ==
  ASSUME Inv, NEW j \in Jobs, RunStarts(j)
  PROVE  Inv'
  <1> DEFINE v == [type |-> "jobs-running", running |-> running']
             r == [job |-> j, sent |-> 0, phase |-> "tools"]
  <1>1. PICK e \in Executions :
          /\ runs[e] = None /\ runs' = [runs EXCEPT ![e] = r]
          /\ running' = running \cup {j} /\ Emit(j \in Own, v)
          /\ UNCHANGED <<docs, created, emitted, attached>>
    BY DEF RunStarts, Delegate
  <1>2. UNCHANGED <<docs, created, emitted, attached, page, mutation, overwritten>>
    BY <1>1 DEF RunStarts
  <1>3. r \in RunState /\ r # None
    BY PageAssumption DEF RunState
  <1>4. r.job = j /\ r.phase = "tools"
    OBVIOUS
  <1> HIDE DEF r
  <1>5. /\ runs' \in [Executions -> RunState \cup {None}] /\ runs'[e] = r
        /\ \A f \in Executions : f # e => runs'[f] = runs[f]
    BY <1>1, <1>3, RunIsSet DEF Inv
  <1>6. running' \subseteq Jobs /\ v \in Event
    BY <1>1, EventTypes DEF Inv, Typed
  <1>7. effects' \in Seq(EffectState)
    <2> DEFINE owned == j \in Own
    <2>1. owned \in BOOLEAN /\ Typed /\ v \in Event /\ Emit(owned, v)
      BY <1>1, <1>6 DEF Inv
    <2> HIDE DEF owned, v
    <2> QED
      BY <2>1, EventIsSent
  <1>8. Typed'
    BY <1>2, <1>5, <1>6, <1>7 DEF Inv, Typed
  <1>9. /\ Going(runs') = Going(runs) \cup {j}
        /\ \A k : k # j => (Single(runs', k) <=> Single(runs, k))
        /\ j \in Going(runs) => ~Single(runs', j)
    BY <1>1, <1>3, <1>4, <1>5, RunIsStarted
  <1>10. ServerOK'
    BY <1>1, <1>2, <1>9 DEF Inv, ServerOK
  <1>11. Wanted(emitted', running', runs') \subseteq Wanted(emitted, running, runs)
    BY <1>1, <1>2, <1>9 DEF Inv, ServerOK, Wanted
  <1>12. v.type = "jobs-running" /\ v.running = running'
    OBVIOUS
  <1> HIDE DEF v
  <1>13. SaysRunning(v) /\ ~SaysScheduled(v)
    BY <1>12 DEF SaysRunning, SaysScheduled
  <1>14. StreamsOK' /\ OverlayOK' /\ TargetsOK'
    <2>1. /\ \A k \in Own :
               /\ k \in running' => k \in v.running
               /\ k \in v.running => k \in Going(runs')
          /\ attached' = attached
      BY <1>2, <1>10, <1>12 DEF ServerOK
    <2>2. \A k \in Own : k \in Going(runs) => k \in Going(runs')
      BY <1>9
    <2>3. j \notin Own => \A k \in Own : k \in running' => k \in running
      BY <1>1
    <2>4. (j \in Own) \in BOOLEAN
      OBVIOUS
    <2> QED
      BY <1>1, <1>2, <1>6, <1>11, <1>13, <2>1, <2>2, <2>3, <2>4, ServerStep
  <1> QED
    BY <1>8, <1>10, <1>14 DEF Inv

LEMMA TargetKeeps ==
  ASSUME Inv, NEW e \in Executions, TargetFinishes(e)
  PROVE  Inv'
  <1> DEFINE v == TargetEvent(e)
  <1>1. /\ runs[e] # None /\ runs[e].phase = "tools" /\ runs[e].sent < MaxTargets
        /\ runs[e].job \in Own /\ runs' = [runs EXCEPT ![e].sent = @ + 1]
        /\ emitted' = Append(emitted, v) /\ Emit(TRUE, v)
        /\ UNCHANGED <<docs, created, running, attached, page, mutation, overwritten>>
    BY DEF TargetFinishes
  <1> DEFINE j == runs[e].job
             n == runs[e].sent
  <1>0. /\ j \in Own /\ n \in Nat /\ n + 1 \in 1..MaxTargets /\ n + 1 \in 0..MaxTargets
        /\ j \in Jobs /\ runs[e] \in RunState
    <2>1. n \in 0..MaxTargets /\ runs[e] \in RunState /\ j \in Jobs
      BY <1>1, RunFields DEF Inv
    <2> QED
      BY <1>1, <2>1, PageAssumption
  <1>2. v \in TargetEvents /\ v.type = "job-target-finished" /\ v.jobId = j
    <2>1. v = [type |-> "job-target-finished", jobId |-> j, executionId |-> e, toolId |-> "tool",
               target |-> <<e, n + 1>>]
      BY DEF TargetEvent
    <2>2. <<e, n + 1>> \in Targets
      BY <1>0 DEF Targets
    <2> HIDE DEF v, j, n
    <2> QED
      BY <1>0, <2>1, <2>2 DEF TargetEvents
  <1>3. v \in Event
    BY <1>2, EventTypes
  <1> HIDE DEF v
  <1>4. PICK r \in RunState :
          runs' = [runs EXCEPT ![e] = r] /\ r.job = runs[e].job /\ r.phase = "tools"
    <2> DEFINE r == [runs[e] EXCEPT !.sent = n + 1]
    <2>1. [runs[e] EXCEPT !.sent = @ + 1] = r
      OBVIOUS
    <2> HIDE DEF n
    <2>2. r \in RunState
      BY <1>0 DEF RunState
    <2>3. r.job = j /\ r.phase = "tools"
      BY <1>0, <1>1 DEF RunState
    <2> HIDE DEF r
    <2>4. runs' = [runs EXCEPT ![e] = r]
      BY <1>1, <2>1
    <2> QED
      BY <2>2, <2>3, <2>4
  <1>5. r # None
    BY PageAssumption
  <1>6. /\ runs' \in [Executions -> RunState \cup {None}] /\ runs'[e] = r
        /\ \A f \in Executions : f # e => runs'[f] = runs[f]
    BY <1>4, RunIsSet DEF Inv
  <1>7. /\ emitted' \in Seq(TargetEvents)
        /\ \A w \in Range(emitted') : w \in Range(emitted) \/ w = v
    <2>1. emitted \in Seq(TargetEvents)
      BY DEF Inv, Typed
    <2>2. /\ emitted' \in Seq(TargetEvents) /\ Len(emitted) \in Nat
          /\ DOMAIN emitted = 1..Len(emitted) /\ DOMAIN emitted' = 1..(Len(emitted) + 1)
          /\ emitted'[Len(emitted) + 1] = v
          /\ \A k \in DOMAIN emitted : emitted'[k] = emitted[k]
      BY <1>1, <1>2, <2>1, Appended
    <2>3. \A k \in 1..(Len(emitted) + 1) : k \in 1..Len(emitted) \/ k = Len(emitted) + 1
      BY <2>2
    <2> QED
      BY <2>2, <2>3 DEF Range
  <1>8. effects' \in Seq(EffectState)
    BY <1>1, <1>3, EventIsSent DEF Inv
  <1>9. Typed'
    BY <1>1, <1>6, <1>7, <1>8 DEF Inv, Typed
  <1>10. Going(runs') = Going(runs) /\ \A k : Single(runs', k) <=> Single(runs, k)
    BY <1>1, <1>4, <1>5, <1>6, RunGoesOn
  <1>11. v.jobId \in Going(runs)
    BY <1>1, <1>2, RunFields DEF Going, Inv
  <1>12. ServerOK'
    BY <1>1, <1>7, <1>10, <1>11 DEF Inv, ServerOK
  <1>13. \A w \in Wanted(emitted', running', runs') :
           w \in Wanted(emitted, running, runs) \/ Carries(v, w.jobId, w.target)
    BY <1>1, <1>2, <1>7, <1>10 DEF Wanted, Carries
  <1>14. ~SaysRunning(v) /\ ~SaysScheduled(v) /\ \A k : ~SaysEnded(v, k)
    BY <1>2 DEF SaysRunning, SaysScheduled, SaysEnded, Outcomes
  <1>15. StreamsOK' /\ OverlayOK' /\ TargetsOK'
    BY <1>1, <1>3, <1>10, <1>13, <1>14, ServerStep
  <1> QED
    BY <1>9, <1>12, <1>15 DEF Inv

\* The jobs of a user are replaced by what the page or the server makes of them; effects and
\* page stay.
LEMMA PageStays ==
  ASSUME Inv, UNCHANGED <<effects, page, overwritten, attached>>,
         \A j \in Own :
           /\ j \in running' => j \in running
           /\ j \in Going(runs) => j \in Going(runs'),
         Wanted(emitted', running', runs') \subseteq Wanted(emitted, running, runs)
  PROVE  StreamsOK' /\ OverlayOK' /\ TargetsOK'
  <1>1. Effects' = Effects
    BY DEF Effects
  <1>2. StreamsOK'
    BY <1>1 DEF StreamsOK, Inv
  <1>3. OverlayOK'
    BY <1>1, OverlayStays DEF OverlayOK, Open, Inv
  <1>4. TargetsOK'
    BY <1>1, NoLossStays DEF TargetsOK, Open, Inv
  <1> QED
    BY <1>2, <1>3, <1>4

\* The targets of a run, as many as it has sent.
LEMMA RecordType ==
  ASSUME Typed, NEW e \in Executions, runs[e] # None
  PROVE  Record(e) \in ExecutionState
  <1> DEFINE n == runs[e].sent
             targets == [k \in 1..n |-> <<e, k>>]
             tool == [toolId |-> "tool", targets |-> targets]
             tools == <<tool>>
  <1>1. n \in Nat /\ 1..n \subseteq 1..MaxTargets
    <2>1. n \in 0..MaxTargets
      BY RunFields
    <2> QED
      BY <2>1, PageAssumption
  <1>2. targets \in Seq(Targets)
    <2>1. \A k \in 1..n : <<e, k>> \in Targets
      BY <1>1 DEF Targets
    <2> HIDE DEF n
    <2> QED
      BY <1>1, <2>1
  <1>3. Record(e) = [executionId |-> e, finishedAt |-> e, tools |-> tools]
    BY DEF Record, TargetsOf
  <1> HIDE DEF targets
  <1>4. tool \in ToolState
    BY <1>2, ToolFields
  <1> HIDE DEF tool
  <1>5. tools \in Seq(ToolState)
    BY <1>4
  <1> HIDE DEF tools
  <1> QED
    BY <1>3, <1>5 DEF ExecutionState

LEMMA RecordKeeps ==
  ASSUME Inv, NEW e \in Executions, RecordIsWritten(e)
  PROVE  Inv'
  <1>1. /\ runs[e] # None /\ runs[e].phase = "tools"
        /\ runs' = [runs EXCEPT ![e].phase = "persisted"]
        /\ docs' = IF runs[e].job \in Own /\ docs[runs[e].job] # None
                   THEN [docs EXCEPT ![runs[e].job] = Append(@, Record(e))] ELSE docs
        /\ UNCHANGED <<created, running, emitted, attached, effects, page, mutation, overwritten>>
    BY DEF RecordIsWritten
  <1>2. PICK r \in RunState :
          runs' = [runs EXCEPT ![e] = r] /\ r.job = runs[e].job /\ r.phase = "persisted"
    <2> DEFINE r == [runs[e] EXCEPT !.phase = "persisted"]
    <2>1. runs[e] \in RunState
      BY <1>1, RunFields DEF Inv
    <2>2. r \in RunState /\ r.job = runs[e].job /\ r.phase = "persisted"
      BY <2>1 DEF RunState
    <2>3. runs' = [runs EXCEPT ![e] = r]
      BY <1>1
    <2> HIDE DEF r
    <2> QED
      BY <2>2, <2>3
  <1>3. r # None
    BY PageAssumption
  <1>4. /\ runs' \in [Executions -> RunState \cup {None}] /\ runs'[e] = r
        /\ \A f \in Executions : f # e => runs'[f] = runs[f]
    BY <1>2, RunIsSet DEF Inv
  <1>5. docs' \in [Own -> Seq(ExecutionState) \cup {None}]
    <2>1. docs \in [Own -> Seq(ExecutionState) \cup {None}]
      BY DEF Inv, Typed
    <2>2. CASE runs[e].job \in Own /\ docs[runs[e].job] # None
      <3> DEFINE j == runs[e].job
                 x == Append(docs[j], Record(e))
      <3>1. docs[j] \in Seq(ExecutionState) /\ Record(e) \in ExecutionState
        BY <1>1, <2>1, <2>2, RecordType DEF Inv
      <3>2. x \in Seq(ExecutionState)
        BY <3>1
      <3>3. docs' = [docs EXCEPT ![j] = x]
        BY <1>1, <2>2
      <3> HIDE DEF x
      <3> QED
        BY <2>1, <3>2, <3>3
    <2>3. CASE ~(runs[e].job \in Own /\ docs[runs[e].job] # None)
      BY <1>1, <2>1, <2>3
    <2> QED
      BY <2>2, <2>3
  <1>6. Typed'
    BY <1>1, <1>4, <1>5 DEF Inv, Typed
  <1>7. Going(runs') = Going(runs) /\ \A k : Single(runs', k) <=> Single(runs, k)
    BY <1>1, <1>2, <1>3, <1>4, RunGoesOn
  <1>8. ServerOK'
    BY <1>1, <1>7 DEF Inv, ServerOK
  <1>9. Wanted(emitted', running', runs') \subseteq Wanted(emitted, running, runs)
    BY <1>1, <1>7 DEF Wanted
  <1>10. StreamsOK' /\ OverlayOK' /\ TargetsOK'
    BY <1>1, <1>7, <1>9, PageStays
  <1> QED
    BY <1>6, <1>8, <1>10 DEF Inv

\* What the backend drops of a job leaves the targets of the others.
LEMMA WithoutKeeps ==
  ASSUME Typed, NEW j
  PROVE  /\ Without(j) \in Seq(TargetEvents)
         /\ \A v \in Range(Without(j)) : v \in Range(emitted) /\ v.jobId # j
  <1>1. emitted \in Seq(TargetEvents)
    BY DEF Typed
  <1> DEFINE S == {v \in Range(emitted) : v.jobId # j}
  <1>2. Without(j) = Among(emitted, S)
    BY DEF Without
  <1>3. Among(emitted, S) \in Seq(TargetEvents) /\ Range(Among(emitted, S)) = Range(emitted) \cap S
    BY <1>1, AmongKeeps
  <1> QED
    BY <1>2, <1>3

LEMMA EndKeeps ==
  ASSUME Inv, NEW e \in Executions, NEW type \in Outcomes, RunEnds(e, type)
  PROVE  Inv'
  <1> DEFINE j == runs[e].job
             v == [type |-> type, jobId |-> j, executionId |-> e, finishedAt |-> e]
  <1>1. /\ runs[e] # None /\ runs' = [runs EXCEPT ![e].phase = "done"]
        /\ running' = running \ {j} /\ emitted' = Without(j) /\ Emit(j \in Own, v)
        /\ UNCHANGED <<docs, created, attached, page, mutation, overwritten>>
    BY DEF RunEnds
  <1>2. v.type \in Outcomes /\ v.jobId = j
    OBVIOUS
  <1>3. j \in Own => v \in Event
    BY EventTypes
  <1>4. PICK r \in RunState : runs' = [runs EXCEPT ![e] = r] /\ r.job = j
    <2> DEFINE r == [runs[e] EXCEPT !.phase = "done"]
    <2>1. runs[e] \in RunState
      BY <1>1, RunFields DEF Inv
    <2>2. r \in RunState /\ r.job = j
      BY <2>1 DEF RunState
    <2>3. runs' = [runs EXCEPT ![e] = r]
      BY <1>1
    <2> HIDE DEF r
    <2> QED
      BY <2>2, <2>3
  <1>5. r # None
    BY PageAssumption
  <1>6. /\ runs' \in [Executions -> RunState \cup {None}] /\ runs'[e] = r
        /\ \A f \in Executions : f # e => runs'[f] = runs[f]
    BY <1>4, RunIsSet DEF Inv
  <1> DEFINE owned == j \in Own
  <1>7. owned \in BOOLEAN /\ (owned <=> j \in Own) /\ (v \in Event \/ ~owned) /\ Emit(owned, v)
    BY <1>1, <1>3
  <1> HIDE DEF owned, v
  <1>8. effects' \in Seq(EffectState)
    BY <1>7, EventIsSent DEF Inv
  <1>9. /\ emitted' \in Seq(TargetEvents)
        /\ \A w \in Range(emitted') : w \in Range(emitted) /\ w.jobId # j
    BY <1>1, WithoutKeeps DEF Inv
  <1>10. Typed'
    BY <1>1, <1>6, <1>8, <1>9 DEF Inv, Typed
  <1>11. /\ \A k \in Going(runs) : k # j => k \in Going(runs')
         /\ \A k : k # j => (Single(runs', k) <=> Single(runs, k))
    BY <1>1, <1>4, <1>5, <1>6, RunIsOver
  <1>12. ServerOK'
    BY <1>1, <1>9, <1>11 DEF Inv, ServerOK
  <1>13. Wanted(emitted', running', runs') \subseteq Wanted(emitted, running, runs)
    BY <1>1, <1>9, <1>11 DEF Wanted
  <1>14. /\ ~SaysRunning(v) /\ ~SaysScheduled(v)
         /\ \A k : SaysEnded(v, k) <=> k = j
    BY <1>2 DEF SaysRunning, SaysScheduled, SaysEnded, Outcomes
  <1>15. \A k \in Own : /\ k \in running' => k \in running /\ k # j
                        /\ k \in Going(runs) /\ k # j => k \in Going(runs')
                        /\ ~owned => k # j
    BY <1>1, <1>7, <1>11
  <1>16. StreamsOK' /\ OverlayOK' /\ TargetsOK'
    BY <1>1, <1>7, <1>13, <1>14, <1>15, ServerStep
  <1> QED
    BY <1>10, <1>12, <1>16 DEF Inv

LEMMA AttachKeeps ==
  ASSUME Inv, NEW j \in Own, ScheduleIsAttached(j)
  PROVE  Inv'
  <1> DEFINE v == [type |-> "jobs-scheduled", scheduled |-> attached']
  <1>1. /\ attached' = attached \cup {j} /\ Emit(TRUE, v)
        /\ UNCHANGED <<docs, created, running, runs, emitted, page, mutation, overwritten>>
    BY DEF ScheduleIsAttached
  <1>2. attached' \subseteq Own /\ v \in Event
    BY <1>1, EventTypes DEF Inv, Typed
  <1>3. v.type = "jobs-scheduled" /\ v.scheduled = attached'
    OBVIOUS
  <1> HIDE DEF v
  <1>4. effects' \in Seq(EffectState)
    BY <1>1, <1>2, EventIsSent DEF Inv
  <1>5. Typed'
    BY <1>1, <1>2, <1>4 DEF Inv, Typed
  <1>6. ServerOK'
    BY <1>1 DEF Inv, ServerOK
  <1>7. SaysScheduled(v) /\ ~SaysRunning(v) /\ \A k : ~SaysEnded(v, k)
    BY <1>3 DEF SaysRunning, SaysScheduled, SaysEnded, Outcomes
  <1>8. StreamsOK' /\ OverlayOK' /\ TargetsOK'
    BY <1>1, <1>2, <1>3, <1>7, ServerStep
  <1> QED
    BY <1>5, <1>6, <1>8 DEF Inv

-----------------------------------------------------------------------------
\* The client's side: each step keeps the invariant

\* One effect changes, and with it what the page shows; each open stream has to follow.
LEMMA EffectStep ==
  ASSUME Inv, NEW i \in Effects, NEW x \in EffectState, effects' = [effects EXCEPT ![i] = x],
         UNCHANGED <<serverVars, mutation>>,
         page' \in PageState, page'.component = page.component, overwritten' \subseteq Own,
         x.component = effects[i].component, x.cancelled = effects[i].cancelled,
         EffectOK(x, page.component),
         \A k \in Effects : effects'[k].connection = "open" =>
           /\ Overlay(page', effects'[k].queue, running, Going(runs), attached)
           /\ NoLoss(page', effects'[k].queue, Wanted(emitted, running, runs), overwritten')
  PROVE  Inv'
  <1>1. /\ effects' \in Seq(EffectState) /\ Effects' = Effects
        /\ effects'[i] = x /\ \A k \in Effects : k # i => effects'[k] = effects[k]
    BY EffectIsSet DEF Inv
  <1>2. UNCHANGED <<docs, created, running, runs, emitted, attached, mutation>>
    BY DEF serverVars
  <1>3. Typed'
    BY <1>1, <1>2 DEF Inv, Typed
  <1>4. StreamsOK'
    <2>1. \A k \in Effects : EffectOK(effects'[k], page'.component)
      BY <1>1 DEF Inv, StreamsOK
    <2>2. \A k \in Effects : effects'[k].cancelled = effects[k].cancelled
      BY <1>1
    <2>3. \A k, l \in Effects : ~effects'[k].cancelled /\ ~effects'[l].cancelled => k = l
      BY <2>2 DEF Inv, StreamsOK
    <2> QED
      BY <1>1, <2>1, <2>3 DEF StreamsOK
  <1>5. ServerOK'
    BY <1>2 DEF Inv, ServerOK
  <1>6. OverlayOK'
    BY <1>1, <1>2 DEF OverlayOK, Open
  <1>7. TargetsOK'
    BY <1>1, <1>2 DEF TargetsOK, Open
  <1> QED
    BY <1>3, <1>4, <1>5, <1>6, <1>7 DEF Inv

\* One effect changes and the page does not.
LEMMA EffectAlone ==
  ASSUME Inv, NEW i \in Effects, NEW x \in EffectState, effects' = [effects EXCEPT ![i] = x],
         UNCHANGED <<serverVars, mutation, page, overwritten>>,
         x.component = effects[i].component, x.cancelled = effects[i].cancelled,
         EffectOK(x, page.component),
         x.connection = "open" =>
           /\ Overlay(page, x.queue, running, Going(runs), attached)
           /\ NoLoss(page, x.queue, Wanted(emitted, running, runs), overwritten)
  PROVE  Inv'
  <1>1. effects'[i] = x /\ \A k \in Effects : k # i => effects'[k] = effects[k]
    BY EffectIsSet DEF Inv
  <1>2. ASSUME NEW k \in Effects, effects'[k].connection = "open"
        PROVE  /\ Overlay(page', effects'[k].queue, running, Going(runs), attached)
               /\ NoLoss(page', effects'[k].queue, Wanted(emitted, running, runs), overwritten')
    <2>1. CASE k = i
      BY <1>1, <1>2, <2>1
    <2>2. CASE k # i
      BY <1>1, <1>2, <2>2 DEF Inv, OverlayOK, TargetsOK, Open
    <2> QED
      BY <2>1, <2>2
  <1>3. page' \in PageState /\ page'.component = page.component /\ overwritten' \subseteq Own
    BY DEF Inv, Typed
  <1> QED
    BY <1>2, <1>3, EffectStep

\* An effect is typed and as it should be.
LEMMA EffectIs ==
  ASSUME Inv, NEW i \in Effects
  PROVE  effects[i] \in EffectState /\ EffectOK(effects[i], page.component)
  BY DEF Inv, Typed, StreamsOK, Effects

LEMMA StoredType ==
  ASSUME Typed
  PROVE  Stored \in Seq(JobState)
  <1> DEFINE S == {j \in Own : docs[j] # None}
             s == SetToSeq(S)
             a == [n \in DOMAIN s |-> [id |-> s[n], executions |-> docs[s[n]]]]
  <1>1. IsFiniteSet(S)
    BY PageAssumption, FS_Subset
  <1>2. s \in Seq(S)
    BY <1>1, SetToSeqKeeps
  <1>3. Stored = a
    BY DEF Stored, Mapped
  <1>4. \A j \in S : [id |-> j, executions |-> docs[j]] \in JobState
    BY DEF Typed, JobState
  <1> HIDE DEF S, s
  <1>5. \A n \in DOMAIN s : a[n] \in JobState
    BY <1>2, <1>4
  <1>6. DOMAIN s = 1..Len(s) /\ Len(s) \in Nat
    BY <1>2
  <1> QED
    BY <1>3, <1>5, <1>6

LEMMA FetchIsServedKeeps ==
  ASSUME Inv, NEW i \in Effects, FetchIsServed(i)
  PROVE  Inv'
  <1> DEFINE x == [effects[i] EXCEPT !.phase = "answered", !.answer = Stored]
  <1>1. /\ effects[i].phase = "fetching"
        /\ UNCHANGED <<serverVars, mutation, page, overwritten>>
    BY DEF FetchIsServed
  <1>2. effects' = [effects EXCEPT ![i] = x]
    BY DEF FetchIsServed
  <1>3. effects[i] \in EffectState /\ EffectOK(effects[i], page.component)
    BY EffectIs
  <1>4. Stored \in Seq(JobState)
    BY StoredType DEF Inv
  <1>5. /\ x \in EffectState /\ x.component = effects[i].component
        /\ x.cancelled = effects[i].cancelled /\ x.phase = "answered"
        /\ x.connection = effects[i].connection /\ x.queue = effects[i].queue
    <2>1. x = WithAnswer(effects[i], Stored)
      BY DEF WithAnswer
    <2> HIDE DEF x
    <2> QED
      BY <1>3, <1>4, <2>1, AnswerSet
  <1> HIDE DEF x
  <1>6. EffectOK(x, page.component) /\ x.connection # "open"
    BY <1>1, <1>3, <1>5 DEF EffectOK
  <1> QED
    BY <1>1, <1>2, <1>5, <1>6, EffectAlone

LEMMA FetchFailsKeeps ==
  ASSUME Inv, NEW i \in Effects, FetchFails(i)
  PROVE  Inv'
  <1> DEFINE x == Closed(effects[i])
  <1>1. /\ effects[i].phase = "fetching" /\ effects' = [effects EXCEPT ![i] = x]
        /\ UNCHANGED <<serverVars, mutation, page, overwritten>>
    BY DEF FetchFails
  <1>2. effects[i] \in EffectState /\ EffectOK(effects[i], page.component)
    BY EffectIs
  <1>3. /\ x \in EffectState /\ x.component = effects[i].component
        /\ x.cancelled = effects[i].cancelled /\ x.phase = "closed"
        /\ x.connection = "none" /\ x.queue = <<>>
    BY <1>2, IsClosed
  <1> HIDE DEF x
  <1>4. EffectOK(x, page.component) /\ x.connection # "open"
    BY <1>2, <1>3 DEF EffectOK
  <1> QED
    BY <1>1, <1>3, <1>4, EffectAlone

\* What a snapshot carries.
LEMMA SnapshotIs ==
  ASSUME Typed
  PROVE  /\ Snapshot \in Event /\ Snapshot.type = "jobs-aggregated"
         /\ Snapshot.running = running \cap Own /\ Snapshot.scheduled = attached
         /\ \A v \in Range(emitted) :
              v.jobId \in running => Carries(Snapshot, v.jobId, v.target)
  <1> DEFINE r == running \cap Own
             events == [j \in r |-> EventsOf(j)]
             E == Seq(TargetEvents)
  <1>1. ASSUME NEW j
        PROVE  EventsOf(j) \in E /\ Range(EventsOf(j)) = {v \in Range(emitted) : v.jobId = j}
    <2> DEFINE S == {v \in Range(emitted) : v.jobId = j}
    <2>1. emitted \in Seq(TargetEvents) /\ EventsOf(j) = Among(emitted, S)
      BY DEF Typed, EventsOf
    <2>2. /\ Among(emitted, S) \in Seq(TargetEvents)
          /\ Range(Among(emitted, S)) = Range(emitted) \cap S
      BY <2>1, AmongKeeps
    <2> QED
      BY <2>1, <2>2
  <1>2. Snapshot = [type |-> "jobs-aggregated", running |-> r, events |-> events,
                    scheduled |-> attached]
    BY DEF Snapshot
  <1>3. r \in SUBSET Own /\ attached \in SUBSET Own
    BY DEF Typed
  <1>4. \A j \in r : events[j] = EventsOf(j)
    OBVIOUS
  <1>5. Snapshot \in Event
    <2> HIDE DEF E
    <2>1. events \in [r -> E]
      BY <1>1
    <2> HIDE DEF r, events
    <2>2. Snapshot \in [type : {"jobs-aggregated"}, running : {r}, events : [r -> E],
                        scheduled : SUBSET Own]
      BY <1>2, <1>3, <2>1
    <2>3. Snapshot \in Snapshots
      BY <1>3, <2>2 DEF Snapshots, E
    <2> QED
      BY <2>3 DEF Event
  <1>6. /\ Snapshot.type = "jobs-aggregated" /\ Snapshot.running = r
        /\ Snapshot.events = events /\ Snapshot.scheduled = attached
    BY <1>2
  <1> HIDE DEF events
  <1>7. ASSUME NEW v \in Range(emitted), v.jobId \in running
        PROVE  Carries(Snapshot, v.jobId, v.target)
    <2> DEFINE j == v.jobId
    <2>1. v \in TargetEvents
      BY DEF Typed, Range
    <2>2. j \in r
      BY <1>7, <2>1 DEF TargetEvents
    <2>3. v \in Range(EventsOf(j))
      BY <1>1
    <2>4. PICK m \in DOMAIN EventsOf(j) : EventsOf(j)[m] = v
      BY <2>3 DEF Range
    <2> QED
      BY <1>4, <1>6, <2>2, <2>4 DEF Carries
  <1> QED
    BY <1>5, <1>6, <1>7

LEMMA ConnectKeeps ==
  ASSUME Inv, NEW i \in Effects, Connect(i)
  PROVE  Inv'
  <1> DEFINE q == <<Snapshot>>
             x == [effects[i] EXCEPT !.connection = "open", !.queue = q]
             wanted == Wanted(emitted, running, runs)
  <1>1. /\ effects[i].connection = "connecting"
        /\ UNCHANGED <<serverVars, mutation, page, overwritten>>
    BY DEF Connect
  <1>2. effects' = [effects EXCEPT ![i] = x]
    BY DEF Connect
  <1>3. effects[i] \in EffectState /\ EffectOK(effects[i], page.component)
    BY EffectIs
  <1>4. /\ Snapshot \in Event /\ Snapshot.type = "jobs-aggregated"
        /\ Snapshot.running = running \cap Own /\ Snapshot.scheduled = attached
        /\ \A v \in Range(emitted) :
             v.jobId \in running => Carries(Snapshot, v.jobId, v.target)
    BY SnapshotIs DEF Inv
  <1>5. q \in Seq(Event) /\ DOMAIN q = {1} /\ q[1] = Snapshot /\ q # <<>> /\ Head(q) = Snapshot
    BY <1>4
  <1> HIDE DEF q
  <1>6. /\ x \in EffectState /\ x.component = effects[i].component
        /\ x.cancelled = effects[i].cancelled /\ x.phase = effects[i].phase
        /\ x.connection = "open" /\ x.queue = q
    <2>1. PICK e \in EffectState : e = effects[i]
      BY <1>3
    <2>2. x = WithConnection(e, "open", q) /\ q \in Seq(Event)
      BY <1>5, <2>1 DEF WithConnection
    <2> HIDE DEF x
    <2>3. /\ x \in EffectState /\ x.component = e.component
          /\ x.cancelled = e.cancelled /\ x.phase = e.phase
          /\ x.connection = "open" /\ x.queue = q
      BY <2>2 DEF EffectState, WithConnection
    <2> QED
      BY <2>1, <2>3
  <1> HIDE DEF x
  <1>7. EffectOK(x, page.component)
    BY <1>1, <1>3, <1>6 DEF EffectOK
  <1>8. Overlay(page, q, running, Going(runs), attached)
    <2>1. SaysRunning(q[1]) /\ SaysScheduled(q[1])
      BY <1>4, <1>5 DEF SaysRunning, SaysScheduled
    <2>2. \A m \in DOMAIN q : m = 1 /\ ~(m > 1)
      BY <1>5
    <2>3. \A j : WillShow(page.running, q, j) <=> j \in running \cap Own
      BY <1>4, <1>5, <2>1, <2>2 DEF WillShow, Decides
    <2>4. WillSchedule(page.scheduled, q, attached)
      BY <1>4, <1>5, <2>1, <2>2 DEF WillSchedule
    <2> QED
      BY <2>3, <2>4 DEF Overlay, Inv, ServerOK
  <1>9. NoLoss(page, q, wanted, overwritten)
    <2>1. \A v \in wanted : Coming(q, v.jobId, v.target)
      BY <1>4, <1>5 DEF Wanted, Coming
    <2> HIDE DEF wanted
    <2> QED
      BY <1>4, <1>5, <2>1 DEF NoLoss
  <1> QED
    BY <1>1, <1>2, <1>6, <1>7, <1>8, <1>9, EffectAlone

LEMMA RefusedKeeps ==
  ASSUME Inv, NEW i \in Effects, ConnectIsRefused(i)
  PROVE  Inv'
  <1> DEFINE x == [effects[i] EXCEPT !.connection = "dead"]
  <1>1. /\ effects[i].connection = "connecting" /\ effects' = [effects EXCEPT ![i] = x]
        /\ UNCHANGED <<serverVars, mutation, page, overwritten>>
    BY DEF ConnectIsRefused
  <1>2. effects[i] \in EffectState /\ EffectOK(effects[i], page.component)
    BY EffectIs
  <1>3. /\ x \in EffectState /\ x.component = effects[i].component
        /\ x.cancelled = effects[i].cancelled /\ x.phase = effects[i].phase
        /\ x.connection = "dead" /\ x.queue = effects[i].queue
    BY <1>2, ConnectionRefused
  <1> HIDE DEF x
  <1>4. EffectOK(x, page.component) /\ x.connection # "open"
    BY <1>1, <1>2, <1>3 DEF EffectOK
  <1> QED
    BY <1>1, <1>3, <1>4, EffectAlone

LEMMA BreakKeeps ==
  ASSUME Inv, NEW i \in Effects, ConnectionBreaks(i)
  PROVE  Inv'
  <1>1. PICK q : q = <<>> /\ q \in Seq(Event)
    <2>1. <<>> \in Seq(Event)
      OBVIOUS
    <2> QED
      BY <2>1
  <1> DEFINE x == [effects[i] EXCEPT !.connection = "connecting", !.queue = q]
  <1>2. /\ effects[i].connection = "open"
        /\ UNCHANGED <<serverVars, mutation, page, overwritten>>
    BY DEF ConnectionBreaks
  <1>3. effects' = [effects EXCEPT ![i] = x]
    BY <1>1 DEF ConnectionBreaks
  <1>4. effects[i] \in EffectState /\ EffectOK(effects[i], page.component)
    BY EffectIs
  <1>5. /\ x \in EffectState /\ x.component = effects[i].component
        /\ x.cancelled = effects[i].cancelled /\ x.phase = effects[i].phase
        /\ x.connection = "connecting" /\ x.queue = q
    <2>1. PICK e \in EffectState : e = effects[i]
      BY <1>4
    <2>2. x = WithConnection(e, "connecting", q) /\ q \in Seq(Event)
      BY <1>1, <2>1 DEF WithConnection
    <2> HIDE DEF x
    <2>3. /\ x \in EffectState /\ x.component = e.component
          /\ x.cancelled = e.cancelled /\ x.phase = e.phase
          /\ x.connection = "connecting" /\ x.queue = q
      BY <2>2 DEF EffectState, WithConnection
    <2> QED
      BY <2>1, <2>3
  <1> HIDE DEF x
  <1>6. EffectOK(x, page.component) /\ x.connection # "open"
    BY <1>1, <1>2, <1>4, <1>5 DEF EffectOK
  <1> QED
    BY <1>2, <1>3, <1>5, <1>6, EffectAlone

LEMMA DeliverKeeps ==
  ASSUME Inv, NEW i \in Effects, Deliver(i)
  PROVE  Inv'
  <1> DEFINE q == effects[i].queue
             t == Tail(q)
             x == [effects[i] EXCEPT !.queue = t]
             wanted == Wanted(emitted, running, runs)
             going == Going(runs)
             p == OnMessage(page, Head(q))
  <1>1. /\ Open(i) /\ q # <<>>
        /\ page' = IF effects[i].component = page.component THEN p ELSE page
        /\ UNCHANGED <<serverVars, mutation, overwritten>>
    BY DEF Deliver, Open
  <1>2. effects' = [effects EXCEPT ![i] = x]
    BY DEF Deliver
  <1>3. effects[i] \in EffectState /\ EffectOK(effects[i], page.component) /\ page \in PageState
    BY EffectIs DEF Inv, Typed
  <1>4. /\ effects[i].component = page.component /\ ~effects[i].cancelled /\ q \in Seq(Event)
        /\ \A k \in Effects : ~effects[k].cancelled => k = i
    BY <1>1, OpenIsShown DEF Inv
  <1>5. Overlay(page, q, running, going, attached) /\ NoLoss(page, q, wanted, overwritten)
    BY <1>1 DEF Inv, OverlayOK, TargetsOK
  <1>6. Head(q) \in Event /\ t \in Seq(Event)
    BY <1>1, <1>4, TailIs
  <1>7. HandledOK(page, Head(q), p) /\ page' = p
    BY <1>1, <1>3, <1>4, <1>6, EventIsHandled
  <1> HIDE DEF p, wanted, going
  <1>8. /\ x \in EffectState /\ x.component = effects[i].component
        /\ x.cancelled = effects[i].cancelled /\ x.phase = effects[i].phase
        /\ x.connection = effects[i].connection /\ x.queue = t
    <2>1. x = WithQueue(effects[i], t)
      BY DEF WithQueue
    <2> HIDE DEF x, q, t
    <2> QED
      BY <1>3, <1>6, <2>1, QueueSet
  <1> HIDE DEF x
  <1>9. EffectOK(x, page.component)
    BY <1>1, <1>3, <1>8 DEF EffectOK, Open
  <1> HIDE DEF q
  <1>10. Overlay(p, t, running, going, attached)
    BY <1>1, <1>3, <1>4, <1>5, <1>7, OverlayIsDelivered
  <1>11. NoLoss(p, t, wanted, overwritten)
    BY <1>1, <1>3, <1>4, <1>5, <1>7, NoLossIsDelivered
  <1>12. p \in PageState /\ p.component = page.component /\ overwritten \subseteq Own
    BY <1>7 DEF HandledOK, Inv, Typed
  <1>13. ASSUME NEW k \in Effects, effects'[k].connection = "open"
         PROVE  /\ Overlay(page', effects'[k].queue, running, going, attached)
                /\ NoLoss(page', effects'[k].queue, wanted, overwritten')
    <2>1. effects'[i] = x /\ \A l \in Effects : l # i => effects'[l] = effects[l]
      BY <1>2, <1>8, EffectIsSet DEF Inv
    <2>2. k = i
      <3>1. SUFFICES ASSUME k # i PROVE FALSE
        OBVIOUS
      <3>2. Open(k)
        BY <1>13, <2>1, <3>1 DEF Open
      <3> QED
        BY <1>4, <3>1, <3>2, OpenIsShown DEF Inv
    <2> QED
      BY <1>1, <1>7, <1>8, <1>10, <1>11, <2>1, <2>2
  <1> QED
    BY <1>1, <1>2, <1>7, <1>8, <1>9, <1>12, <1>13, EffectStep DEF wanted, going

LEMMA FetchArrivesKeeps ==
  ASSUME Inv, NEW i \in Effects, FetchArrives(i)
  PROVE  Inv'
  <1> DEFINE e == effects[i]
             y == Subscribed(e)
             x == IF e.cancelled THEN Closed(y) ELSE y
             wanted == Wanted(emitted, running, runs)
             going == Going(runs)
  <1>1. /\ e.phase = "answered" /\ effects' = [effects EXCEPT ![i] = x]
        /\ UNCHANGED <<serverVars, mutation>>
    BY DEF FetchArrives, Fetched
  <1>2. /\ e \in EffectState /\ EffectOK(e, page.component)
        /\ page \in PageState /\ overwritten \subseteq Own
    BY EffectIs DEF Inv, Typed
  <1>3. e.connection = "none" /\ e.queue = <<>>
    BY <1>1, <1>2, EffectFields DEF EffectOK
  <1>4. /\ y \in EffectState /\ y.component = e.component /\ y.cancelled = e.cancelled
        /\ y.phase = "streaming" /\ y.connection = "connecting" /\ y.queue = <<>>
    BY <1>2, <1>3, IsSubscribed
  <1>5. /\ x \in EffectState /\ x.component = e.component /\ x.cancelled = e.cancelled
        /\ EffectOK(x, page.component) /\ x.connection # "open"
    <2> HIDE DEF y, e
    <2>1. CASE e.cancelled
      <3> DEFINE z == Closed(y)
      <3>1. x = z
        BY <2>1
      <3>2. /\ z \in EffectState /\ z.component = y.component /\ z.cancelled = y.cancelled
            /\ z.phase = "closed" /\ z.connection = "none" /\ z.queue = <<>>
        BY <1>4, IsClosed
      <3> HIDE DEF x, z
      <3> QED
        BY <1>4, <2>1, <3>1, <3>2 DEF EffectOK
    <2>2. CASE ~e.cancelled
      <3>1. x = y
        BY <2>2
      <3> HIDE DEF x
      <3> QED
        BY <1>2, <1>4, <2>2, <3>1 DEF EffectOK
    <2> QED
      BY <2>1, <2>2
  <1> HIDE DEF x
  <1>6. /\ page' \in PageState /\ page'.component = page.component
        /\ page'.running = page.running /\ page'.scheduled = page.scheduled
        /\ page'.isStreamHydrated = page.isStreamHydrated
        /\ overwritten' \subseteq Own /\ overwritten \subseteq overwritten'
        /\ page'.isStreamHydrated => page'.jobs = page.jobs \/ overwritten' = Own
    <2>1. CASE e.component = page.component
      <3>1. PICK no : no = FALSE
        OBVIOUS
      <3> DEFINE p == PageOf(page.component, e.answer, no, page.running, page.scheduled,
                           page.isStreamHydrated)
      <3>2. page' = WithFetched(page, e.answer, no)
        BY <2>1, <3>1 DEF FetchArrives, Fetched, WithFetched
      <3>3. page' = p
        BY <1>2, <3>2, PageSetFetched
      <3>4. p \in PageState
        BY <1>2, <3>1, PageFields, PageTyped, EffectFields
      <3>5. /\ p.component = page.component /\ p.running = page.running
            /\ p.scheduled = page.scheduled /\ p.isStreamHydrated = page.isStreamHydrated
        BY DEF PageOf
      <3>6. overwritten' = IF page.isStreamHydrated THEN Own ELSE overwritten
        BY <2>1 DEF FetchArrives, Fetched
      <3> HIDE DEF p
      <3> QED
        BY <1>2, <3>3, <3>4, <3>5, <3>6
    <2>2. CASE e.component # page.component
      <3>1. page' = page /\ overwritten' = overwritten
        BY <2>2 DEF FetchArrives, Fetched
      <3> QED
        BY <1>2, <3>1
    <2> QED
      BY <2>1, <2>2
  <1>7. ASSUME NEW k \in Effects, effects'[k].connection = "open"
        PROVE  /\ Overlay(page', effects'[k].queue, running, going, attached)
               /\ NoLoss(page', effects'[k].queue, wanted, overwritten')
    <2> DEFINE q == effects[k].queue
    <2>1. effects'[i] = x /\ \A l \in Effects : l # i => effects'[l] = effects[l]
      BY <1>1, <1>5, EffectIsSet DEF Inv
    <2>2. effects'[k] = effects[k] /\ Open(k)
      BY <1>5, <1>7, <2>1 DEF Open
    <2>3. Overlay(page, q, running, going, attached) /\ NoLoss(page, q, wanted, overwritten)
      BY <2>2 DEF Inv, OverlayOK, TargetsOK
    <2>4. \A w \in wanted : w.jobId \in Own
      <3>1. emitted \in Seq(TargetEvents)
        BY DEF Inv, Typed
      <3>2. \A w \in Range(emitted) : w \in TargetEvents
        BY <3>1 DEF Range
      <3>3. \A w \in TargetEvents : w.jobId \in Own
        BY DEF TargetEvents
      <3> QED
        BY <3>2, <3>3 DEF Wanted
    <2> HIDE DEF q, wanted, going
    <2>5. Overlay(page', q, running, going, attached)
      BY <1>6, <2>3 DEF Overlay
    <2>6. page'.isStreamHydrated =>
            \A job \in Range(page'.jobs) : \A w \in wanted :
              job.id = w.jobId => job \in Range(page.jobs) \/ w.jobId \in overwritten'
      BY <1>6, <2>4
    <2>7. NoLoss(page', q, wanted, overwritten')
      BY <1>6, <2>3, <2>6, NoLossIsReplaced
    <2> QED
      BY <2>2, <2>5, <2>7 DEF q
  <1> HIDE DEF e
  <1> QED
    BY <1>1, <1>5, <1>6, <1>7, EffectStep DEF wanted, going, e

\* The page takes jobs over; those it replaced are marked.
LEMMA PageStep ==
  ASSUME Inv, UNCHANGED <<serverVars, effects>>, mutation' \in Mutation \cup {None},
         page' \in PageState, page'.component = page.component,
         page'.running = page.running, page'.scheduled = page.scheduled,
         page'.isStreamHydrated = page.isStreamHydrated,
         overwritten \subseteq overwritten', overwritten' \subseteq Own,
         \A job \in Range(page'.jobs) : job \in Range(page.jobs) \/ job.id \in overwritten'
  PROVE  Inv'
  <1>1. UNCHANGED <<docs, created, running, runs, emitted, attached>> /\ Effects' = Effects
    BY DEF serverVars, Effects
  <1>2. Typed'
    BY <1>1 DEF Inv, Typed
  <1>3. StreamsOK'
    BY <1>1, StreamsStay DEF Inv, Alike
  <1>4. ServerOK'
    BY <1>1 DEF Inv, ServerOK
  <1>5. ASSUME NEW i \in Effects, Open(i)
        PROVE  /\ Overlay(page', effects[i].queue, running, Going(runs), attached)
               /\ NoLoss(page', effects[i].queue, Wanted(emitted, running, runs), overwritten')
    <2> DEFINE q == effects[i].queue
               wanted == Wanted(emitted, running, runs)
    <2>1. Overlay(page, q, running, Going(runs), attached) /\ NoLoss(page, q, wanted, overwritten)
      BY <1>5 DEF Inv, OverlayOK, TargetsOK
    <2> HIDE DEF q, wanted
    <2>2. Overlay(page', q, running, Going(runs), attached)
      BY <2>1 DEF Overlay
    <2>3. page'.isStreamHydrated =>
            \A job \in Range(page'.jobs) : \A w \in wanted :
              job.id = w.jobId => job \in Range(page.jobs) \/ w.jobId \in overwritten'
      OBVIOUS
    <2>4. NoLoss(page', q, wanted, overwritten')
      BY <2>1, <2>3, NoLossIsReplaced
    <2> QED
      BY <2>2, <2>4 DEF q, wanted
  <1>6. OverlayOK'
    BY <1>1, <1>5 DEF OverlayOK, Open
  <1>7. TargetsOK'
    BY <1>1, <1>5 DEF TargetsOK, Open
  <1> QED
    BY <1>2, <1>3, <1>4, <1>6, <1>7 DEF Inv

LEMMA SubmitKeeps ==
  ASSUME Inv, NEW kind \in {"create", "update", "delete"}, NEW j \in Own, Submit(kind, j)
  PROVE  Inv'
  <1>1. UNCHANGED <<serverVars, effects, page, overwritten>>
    BY DEF Submit
  <1>2. PICK no : no = FALSE
    OBVIOUS
  <1>3. PICK empty : empty = <<>> /\ empty \in Seq(ExecutionState)
    <2>1. <<>> \in Seq(ExecutionState)
      OBVIOUS
    <2> QED
      BY <2>1
  <1>4. page.component \in Nat
    BY PageFields DEF Inv, Typed
  <1>5. mutation' = [kind |-> kind, job |-> j, component |-> page.component, isServed |-> no,
                     answer |-> empty]
    BY <1>2, <1>3 DEF Submit
  <1>6. mutation' \in Mutation
    BY <1>2, <1>3, <1>4, <1>5 DEF Mutation
  <1>7. page \in PageState /\ overwritten \subseteq Own
    BY DEF Inv, Typed
  <1> QED
    BY <1>1, <1>6, <1>7, PageStep

LEMMA RequestFailsKeeps ==
  ASSUME Inv, RequestFails
  PROVE  Inv'
  <1>1. page \in PageState /\ overwritten \subseteq Own
    BY DEF Inv, Typed
  <1> QED
    BY <1>1, PageStep DEF RequestFails

\* A job is taken off the scheduler and the delegator.
LEMMA DetachedKeeps ==
  ASSUME Inv, NEW j \in Own, Detached(j), UNCHANGED <<page, overwritten>>
  PROVE  /\ effects' \in Seq(EffectState) /\ emitted' \in Seq(TargetEvents)
         /\ running' \subseteq Jobs /\ attached' \subseteq Own /\ runs' = runs
         /\ StreamsOK' /\ ServerOK' /\ OverlayOK' /\ TargetsOK'
  <1> DEFINE left == attached \ {j}
             v == [type |-> "jobs-scheduled", scheduled |-> left]
  <1>1. /\ running' = running \ {j} /\ emitted' = Without(j) /\ attached' = left
        /\ Emit(TRUE, v) /\ runs' = runs
    BY DEF Detached
  <1>2. left \subseteq Own /\ v \in Event /\ running' \subseteq Jobs
    BY <1>1, EventTypes DEF Inv, Typed
  <1>3. v.type = "jobs-scheduled" /\ v.scheduled = left
    OBVIOUS
  <1> HIDE DEF v
  <1>4. effects' \in Seq(EffectState)
    BY <1>1, <1>2, EventIsSent DEF Inv
  <1>5. /\ emitted' \in Seq(TargetEvents)
        /\ \A w \in Range(emitted') : w \in Range(emitted) /\ w.jobId # j
    BY <1>1, WithoutKeeps DEF Inv
  <1>6. ServerOK'
    BY <1>1, <1>5 DEF Inv, ServerOK
  <1>7. SaysScheduled(v) /\ ~SaysRunning(v) /\ \A k : ~SaysEnded(v, k)
    BY <1>3 DEF SaysRunning, SaysScheduled, SaysEnded, Outcomes
  <1>8. \A w \in Wanted(emitted', running', runs') : w \in Wanted(emitted, running, runs)
    BY <1>1, <1>5 DEF Wanted
  <1>9. StreamsOK' /\ OverlayOK' /\ TargetsOK'
    BY <1>1, <1>2, <1>3, <1>7, <1>8, ServerStep
  <1> QED
    BY <1>1, <1>2, <1>4, <1>5, <1>6, <1>9

\* The fields of a request.
LEMMA MutationFields ==
  ASSUME NEW m \in Mutation
  PROVE  /\ m.kind \in {"create", "update", "delete"} /\ m.job \in Own /\ m.component \in Nat
         /\ m.isServed \in BOOLEAN /\ m.answer \in Seq(ExecutionState)
  BY DEF Mutation

LEMMA RequestIsServedKeeps ==
  ASSUME Inv, RequestIsServed
  PROVE  Inv'
  <1> DEFINE j == mutation.job
             a == IF docs'[j] = None THEN <<>> ELSE docs'[j]
  <1>1. /\ mutation # None /\ UNCHANGED <<page, overwritten>>
        /\ mutation' = [mutation EXCEPT !.isServed = TRUE, !.answer = a]
        /\ \/ /\ docs' = [docs EXCEPT ![j] = <<>>] /\ created' = created \cup {j}
              /\ UNCHANGED <<running, runs, emitted, attached, effects>>
           \/ /\ UNCHANGED <<docs, created>>
              /\ Detached(j) \/ UNCHANGED <<running, runs, emitted, attached, effects>>
           \/ /\ docs' = [docs EXCEPT ![j] = None] /\ UNCHANGED created
              /\ Detached(j)
    BY DEF RequestIsServed
  <1>2. mutation \in Mutation /\ j \in Own
    BY <1>1, MutationFields DEF Inv, Typed
  <1>3. PICK empty : empty = <<>> /\ empty \in Seq(ExecutionState)
    <2>1. <<>> \in Seq(ExecutionState)
      OBVIOUS
    <2> QED
      BY <2>1
  <1>4. docs' \in [Own -> Seq(ExecutionState) \cup {None}] /\ created' \subseteq Own
    <2> DEFINE D == Seq(ExecutionState) \cup {None}
    <2>1. docs \in [Own -> D] /\ created \subseteq Own /\ None \in D /\ empty \in D
      BY <1>3 DEF Inv, Typed
    <2> HIDE DEF j, D
    <2>2. \/ docs' = [docs EXCEPT ![j] = empty] /\ created' = created \cup {j}
          \/ docs' = docs /\ created' = created
          \/ docs' = [docs EXCEPT ![j] = None] /\ created' = created
      BY <1>1, <1>3
    <2>3. docs' \in [Own -> D] /\ created' \subseteq Own
      BY <1>2, <2>1, <2>2
    <2> QED
      BY <2>3 DEF D
  <1>5. a \in Seq(ExecutionState)
    BY <1>2, <1>4
  <1>6. mutation' \in Mutation
    <2> HIDE DEF a, j
    <2>1. PICK yes : yes = TRUE
      OBVIOUS
    <2>2. mutation' = [mutation EXCEPT !.isServed = yes, !.answer = a]
      BY <1>1, <2>1
    <2> QED
      BY <1>2, <1>5, <2>1, <2>2 DEF Mutation
  <1> HIDE DEF a, j
  <1>7. CASE Detached(j)
    <2>1. /\ effects' \in Seq(EffectState) /\ emitted' \in Seq(TargetEvents)
          /\ running' \subseteq Jobs /\ attached' \subseteq Own /\ runs' = runs
          /\ StreamsOK' /\ ServerOK' /\ OverlayOK' /\ TargetsOK'
      BY <1>1, <1>2, <1>7, DetachedKeeps
    <2>2. Typed'
      BY <1>1, <1>4, <1>6, <2>1 DEF Inv, Typed
    <2> QED
      BY <2>1, <2>2 DEF Inv
  <1>8. CASE UNCHANGED <<running, runs, emitted, attached, effects>>
    <2>1. Typed'
      BY <1>1, <1>4, <1>6, <1>8 DEF Inv, Typed
    <2>2. ServerOK'
      BY <1>8 DEF Inv, ServerOK
    <2>3. StreamsOK' /\ OverlayOK' /\ TargetsOK'
      BY <1>1, <1>8, PageStays
    <2> QED
      BY <2>1, <2>2, <2>3 DEF Inv
  <1> QED
    BY <1>1, <1>7, <1>8

LEMMA ResponseKeeps ==
  ASSUME Inv, ResponseArrives
  PROVE  Inv'
  <1> DEFINE j == mutation.job
             job == [id |-> j, executions |-> mutation.answer]
             jobs == page.jobs
             S == {other \in Range(jobs) : other.id # j}
             new == CASE mutation.kind = "create" -> Append(jobs, job)
                      [] mutation.kind = "update" ->
                           [n \in DOMAIN jobs |-> IF jobs[n].id = j THEN job ELSE jobs[n]]
                      [] mutation.kind = "delete" -> Among(jobs, S)
  <1>1. mutation \in Mutation /\ mutation' = None /\ UNCHANGED <<serverVars, effects>>
    BY DEF ResponseArrives, Inv, Typed
  <1>2. page \in PageState /\ overwritten \subseteq Own /\ jobs \in Seq(JobState)
    BY PageFields DEF Inv, Typed
  <1>3. CASE mutation.component # page.component
    <2>1. UNCHANGED <<page, overwritten>>
      BY <1>3 DEF ResponseArrives
    <2> QED
      BY <1>1, <1>2, <2>1, PageStep
  <1>4. CASE mutation.component = page.component
    <2>1. page' = [page EXCEPT !.jobs = new] /\ overwritten' = overwritten \cup {j}
      BY <1>4 DEF ResponseArrives
    <2>2. /\ j \in Own /\ mutation.answer \in Seq(ExecutionState)
          /\ mutation.kind \in {"create", "update", "delete"}
      BY <1>1, MutationFields
    <2>3. job \in JobState /\ job.id = j
      BY <2>2 DEF JobState
    <2> HIDE DEF jobs, job
    <2>4. new \in Seq(JobState) /\ \A x \in Range(new) : x \in Range(jobs) \/ x.id = j
      <3>1. CASE mutation.kind = "create"
        <4>1. new = Append(jobs, job)
          BY <3>1
        <4> HIDE DEF new
        <4>2. /\ new \in Seq(JobState) /\ Len(jobs) \in Nat
              /\ DOMAIN jobs = 1..Len(jobs) /\ DOMAIN new = 1..(Len(jobs) + 1)
              /\ new[Len(jobs) + 1] = job /\ \A k \in DOMAIN jobs : new[k] = jobs[k]
          BY <1>2, <2>3, <4>1, Appended
        <4>3. \A k \in 1..(Len(jobs) + 1) : k \in 1..Len(jobs) \/ k = Len(jobs) + 1
          BY <4>2
        <4> QED
          BY <2>3, <4>2, <4>3 DEF Range
      <3>2. CASE mutation.kind = "update"
        <4>1. new = [n \in DOMAIN jobs |-> IF jobs[n].id = j THEN job ELSE jobs[n]]
          BY <3>2
        <4> HIDE DEF new
        <4>2. /\ DOMAIN jobs = 1..Len(jobs) /\ Len(jobs) \in Nat
              /\ \A n \in DOMAIN jobs : jobs[n] \in JobState
          BY <1>2
        <4>3. \A n \in DOMAIN jobs : new[n] \in JobState
          BY <2>3, <4>1, <4>2
        <4>4. new \in Seq(JobState) /\ DOMAIN new = DOMAIN jobs
          BY <4>1, <4>2, <4>3
        <4> QED
          BY <2>3, <4>1, <4>4 DEF Range
      <3>3. CASE mutation.kind = "delete"
        <4>1. new = Among(jobs, S)
          BY <3>3
        <4> HIDE DEF new
        <4> QED
          BY <1>2, <4>1, AmongKeeps
      <3> QED
        BY <2>2, <3>1, <3>2, <3>3
    <2> HIDE DEF new
    <2> DEFINE p == PageOf(page.component, new, page.isFetchingJobs, page.running, page.scheduled,
                         page.isStreamHydrated)
    <2>5. page' = p
      BY <1>2, <2>1, PageSetOne
    <2>6. p \in PageState
      BY <1>2, <2>4, PageFields, PageTyped
    <2>7. /\ p.component = page.component /\ p.running = page.running
          /\ p.scheduled = page.scheduled /\ p.isStreamHydrated = page.isStreamHydrated
          /\ p.jobs = new
      BY DEF PageOf
    <2> HIDE DEF p, j
    <2>8. \A x \in Range(page'.jobs) : x \in Range(page.jobs) \/ x.id \in overwritten'
      BY <2>1, <2>4, <2>5, <2>7 DEF jobs
    <2> QED
      BY <1>1, <1>2, <2>1, <2>2, <2>5, <2>6, <2>7, <2>8, PageStep
  <1> QED
    BY <1>3, <1>4

\* A component that is new, or none.
LEMMA NewStateType ==
  ASSUME NEW c \in Nat
  PROVE  NewState(c) \in PageState /\ NewState(c).component = c
  <1>1. PICK empty : empty = <<>> /\ empty \in Seq(JobState)
    <2>1. <<>> \in Seq(JobState)
      OBVIOUS
    <2> QED
      BY <2>1
  <1>2. PICK yes, no : yes = TRUE /\ no = FALSE
    OBVIOUS
  <1> DEFINE p == PageOf(c, empty, yes, {}, {}, no)
  <1>3. NewState(c) = p
    BY <1>1, <1>2 DEF NewState, PageOf
  <1>4. p.component = c
    BY DEF PageOf
  <1>5. p \in PageState
    BY <1>1, <1>2, PageTyped
  <1> QED
    BY <1>3, <1>4, <1>5

LEMMA NewEffectType ==
  ASSUME NEW c \in Nat \ {0}, NEW b \in BOOLEAN, NEW r, r = NewEffect(c, b)
  PROVE  /\ r \in EffectState /\ r.component = c /\ r.cancelled = b /\ r.phase = "fetching"
         /\ r.connection = "none" /\ r.queue = <<>>
  <1>1. PICK a, q : a = <<>> /\ a \in Seq(JobState) /\ q = <<>> /\ q \in Seq(Event)
    <2>1. <<>> \in Seq(JobState) /\ <<>> \in Seq(Event)
      OBVIOUS
    <2> QED
      BY <2>1
  <1>2. r = [component |-> c, phase |-> "fetching", cancelled |-> b, answer |-> a,
             connection |-> "none", queue |-> q]
    BY <1>1 DEF NewEffect
  <1>3. r \in EffectState
    BY <1>1, <1>2 DEF EffectState
  <1> QED
    BY <1>1, <1>2, <1>3

\* No stream is open where no effect goes on, whatever the page shows.
LEMMA NoneIsOpen ==
  ASSUME Inv, UNCHANGED serverVars, Typed', StreamsOK',
         \A i \in Effects' : effects'[i].connection # "open"
  PROVE  Inv'
  <1>1. ServerOK'
    BY DEF Inv, ServerOK, serverVars
  <1>2. OverlayOK' /\ TargetsOK'
    BY DEF OverlayOK, TargetsOK, Open
  <1> QED
    BY <1>1, <1>2 DEF Inv

LEMMA MountKeeps ==
  ASSUME Inv, NEW isStrict \in BOOLEAN, Mount(isStrict)
  PROVE  Inv'
  <1>0. PICK yes, no : yes = TRUE /\ no = FALSE
    OBVIOUS
  <1>a. yes \in BOOLEAN /\ no \in BOOLEAN /\ yes # no
    BY <1>0
  <1> DEFINE c == Len(effects) + 1
             first == NewEffect(c, yes)
             last == NewEffect(c, no)
             new == IF isStrict THEN <<first, last>> ELSE <<last>>
             n == Len(effects)
  <1>1. /\ page.component = 0 /\ effects' = effects \o new /\ page' = NewState(c)
        /\ overwritten' = {} /\ UNCHANGED <<serverVars, mutation>>
    BY <1>0 DEF Mount, Shown, Unmounted
  <1>2. /\ effects \in Seq(EffectState) /\ n \in Nat /\ c \in Nat \ {0} /\ c \in Nat
        /\ Effects = 1..n /\ Effects' = 1..Len(effects')
    BY DEF Inv, Typed, Effects
  <1> HIDE DEF c
  <1>3. /\ first \in EffectState /\ first.component = c /\ first.cancelled = yes
        /\ first.phase = "fetching" /\ first.connection = "none" /\ first.queue = <<>>
    BY <1>a, <1>2, NewEffectType
  <1>4. /\ last \in EffectState /\ last.component = c /\ last.cancelled = no
        /\ last.phase = "fetching" /\ last.connection = "none" /\ last.queue = <<>>
    BY <1>a, <1>2, NewEffectType
  <1>5. page' \in PageState /\ page'.component = c
    BY <1>1, <1>2, NewStateType
  <1> HIDE DEF first, last
  <1>6. /\ new \in Seq(EffectState) /\ Len(new) \in {1, 2}
        /\ \A k \in 1..Len(new) :
             /\ new[k] \in {first, last}
             /\ new[k] = last => k = Len(new) \/ first = last
    <2>1. CASE isStrict
      BY <1>3, <1>4, <2>1
    <2>2. CASE ~isStrict
      BY <1>3, <1>4, <2>2
    <2> QED
      BY <2>1, <2>2
  <1>7. first # last
    BY <1>a, <1>3, <1>4
  <1> HIDE DEF new
  <1>8. /\ effects' \in Seq(EffectState) /\ Len(effects') = n + Len(new)
        /\ \A k \in 1..n : effects'[k] = effects[k]
        /\ \A k \in (n + 1)..(n + Len(new)) : effects'[k] = new[k - n] /\ k - n \in 1..Len(new)
    BY <1>1, <1>2, <1>6
  <1>9. \A k \in 1..(n + Len(new)) : k \in 1..n \/ k \in (n + 1)..(n + Len(new))
    BY <1>2, <1>6
  <1>10. \A k \in 1..n : EffectOK(effects[k], 0) /\ effects[k].cancelled
    <2>1. ASSUME NEW k \in 1..n
          PROVE  EffectOK(effects[k], 0) /\ effects[k].cancelled
      <3>1. effects[k] \in EffectState /\ EffectOK(effects[k], 0)
        BY <1>1, <1>2, EffectIs
      <3>2. effects[k].component # 0
        BY <3>1, EffectFields
      <3> QED
        BY <3>1, <3>2 DEF EffectOK
    <2> QED
      BY <2>1
  <1>11. UNCHANGED <<docs, created, running, runs, emitted, attached>>
    BY <1>1 DEF serverVars
  <1>12. Typed'
    BY <1>1, <1>5, <1>8, <1>11 DEF Inv, Typed
  <1>13. \A k \in (n + 1)..(n + Len(new)) :
           /\ effects'[k].phase = "fetching" /\ effects'[k].connection = "none"
           /\ effects'[k].queue = <<>> /\ effects'[k].component = c
           /\ ~effects'[k].cancelled => k = n + Len(new)
    <2>1. ASSUME NEW k \in (n + 1)..(n + Len(new))
          PROVE  /\ effects'[k] \in {first, last}
                 /\ effects'[k] = last => k = n + Len(new)
      <3>1. effects'[k] = new[k - n] /\ k - n \in 1..Len(new)
        BY <1>8
      <3>2. k - n = Len(new) => k = n + Len(new)
        BY <1>2, <1>6
      <3> QED
        BY <1>6, <1>7, <3>1, <3>2
    <2> QED
      BY <1>0, <1>3, <1>4, <2>1
  <1>14. StreamsOK'
    <2>1. \A k \in 1..(n + Len(new)) : EffectOK(effects'[k], page'.component)
      BY <1>5, <1>8, <1>9, <1>10, <1>13 DEF EffectOK
    <2>2. \A k \in 1..(n + Len(new)) : ~effects'[k].cancelled => k = n + Len(new)
      BY <1>8, <1>9, <1>10, <1>13
    <2> QED
      BY <1>2, <1>8, <2>1, <2>2 DEF StreamsOK
  <1>15. \A k \in Effects' : effects'[k].connection # "open"
    <2>1. \A k \in 1..n : effects[k].connection # "open"
      BY <1>10, <1>2, EffectIs DEF EffectOK, Inv
    <2> QED
      BY <1>2, <1>8, <1>9, <1>13, <2>1
  <1> QED
    BY <1>1, <1>12, <1>14, <1>15, NoneIsOpen

LEMMA UnmountKeeps ==
  ASSUME Inv, Unmount
  PROVE  Inv'
  <1>1. /\ effects' = [i \in Effects |->
             IF effects[i].component # page.component THEN effects[i]
             ELSE IF effects[i].phase = "streaming"
                  THEN [Closed(effects[i]) EXCEPT !.cancelled = TRUE]
                  ELSE [effects[i] EXCEPT !.cancelled = TRUE]]
        /\ page' = NewState(Unmounted) /\ UNCHANGED <<serverVars, mutation, overwritten>>
    BY DEF Unmount
  <1>2. /\ effects \in Seq(EffectState) /\ Effects = 1..Len(effects) /\ Len(effects) \in Nat
        /\ Effects' = 1..Len(effects')
    BY DEF Inv, Typed, Effects
  <1>3. page' \in PageState /\ page'.component = 0
    BY <1>1, NewStateType DEF Unmounted
  <1>4. ASSUME NEW i \in Effects
        PROVE  /\ effects'[i] \in EffectState /\ effects'[i].cancelled
               /\ EffectOK(effects'[i], 0) /\ effects'[i].connection # "open"
    <2> DEFINE x == effects[i]
               y == Closed(x)
    <2>1. x \in EffectState /\ EffectOK(x, page.component)
      BY EffectIs
    <2>2. effects'[i] = IF x.component # page.component THEN x
                        ELSE IF x.phase = "streaming" THEN [y EXCEPT !.cancelled = TRUE]
                        ELSE [x EXCEPT !.cancelled = TRUE]
      BY <1>1
    <2>3. /\ y \in EffectState /\ y.component = x.component /\ y.cancelled = x.cancelled
          /\ y.phase = "closed" /\ y.connection = "none" /\ y.queue = <<>>
      BY <2>1, IsClosed
    <2> HIDE DEF x, y
    <2>4. CASE x.component # page.component
      BY <2>1, <2>2, <2>4, EffectFields DEF EffectOK
    <2>5. CASE x.component = page.component /\ x.phase = "streaming"
      <3> DEFINE z == effects'[i]
      <3>1. z = [y EXCEPT !.cancelled = TRUE]
        BY <2>2, <2>5
      <3> HIDE DEF z
      <3>2. /\ z \in EffectState /\ z.component = y.component /\ z.cancelled = TRUE
            /\ z.phase = y.phase /\ z.connection = y.connection /\ z.queue = y.queue
        BY <2>3, <3>1, IsCancelled
      <3>3. EffectOK(z, 0)
        BY <2>3, <3>2 DEF EffectOK
      <3> QED
        BY <2>3, <3>2, <3>3 DEF z
    <2>6. CASE x.component = page.component /\ x.phase # "streaming"
      <3> DEFINE z == effects'[i]
      <3>1. z = [x EXCEPT !.cancelled = TRUE]
        BY <2>2, <2>6
      <3> HIDE DEF z
      <3>2. /\ z \in EffectState /\ z.component = x.component /\ z.cancelled = TRUE
            /\ z.phase = x.phase /\ z.connection = x.connection /\ z.queue = x.queue
        BY <2>1, <3>1, IsCancelled
      <3>3. EffectOK(z, 0) /\ z.connection # "open"
        BY <2>1, <2>6, <3>2 DEF EffectOK
      <3> QED
        BY <3>2, <3>3 DEF z
    <2> QED
      BY <2>4, <2>5, <2>6
  <1>5. effects' \in Seq(EffectState) /\ Effects' = Effects
    <2>1. effects' = [i \in 1..Len(effects) |-> effects'[i]]
      BY <1>1, <1>2
    <2>2. effects' \in Seq(EffectState) /\ Len(effects') = Len(effects)
      BY <1>2, <1>4, <2>1
    <2> QED
      BY <1>2, <2>2
  <1>6. UNCHANGED <<docs, created, running, runs, emitted, attached>>
    BY <1>1 DEF serverVars
  <1>7. Typed'
    BY <1>1, <1>3, <1>5, <1>6 DEF Inv, Typed
  <1>8. StreamsOK'
    BY <1>3, <1>4, <1>5 DEF StreamsOK
  <1> QED
    BY <1>1, <1>4, <1>5, <1>7, <1>8, NoneIsOpen

-----------------------------------------------------------------------------
\* The theorems

LEMMA InitInv ==
  ASSUME Init
  PROVE  Inv
  <1>1. /\ created \subseteq Own /\ running = {} /\ emitted = <<>> /\ attached = {}
        /\ effects = <<>> /\ mutation = None /\ overwritten = {}
        /\ runs = [e \in Executions |-> None]
        /\ docs = [j \in Own |-> IF j \in created THEN <<>> ELSE None]
        /\ page = NewState(0)
    BY DEF Init, Unmounted
  <1>2. PICK empty : empty = <<>> /\ empty \in Seq(ExecutionState)
    <2>1. <<>> \in Seq(ExecutionState)
      OBVIOUS
    <2> QED
      BY <2>1
  <1>3. docs \in [Own -> Seq(ExecutionState) \cup {None}]
    <2>1. docs = [j \in Own |-> IF j \in created THEN empty ELSE None]
      BY <1>1, <1>2
    <2> QED
      BY <1>2, <2>1
  <1>4. emitted \in Seq(TargetEvents) /\ effects \in Seq(EffectState)
    BY <1>1
  <1>5. page \in PageState
    BY <1>1, NewStateType
  <1>6. Typed
    BY <1>1, <1>3, <1>4, <1>5 DEF Typed
  <1>7. Effects = {} /\ Range(emitted) = {}
    BY <1>1 DEF Effects, Range
  <1>8. StreamsOK /\ ServerOK /\ OverlayOK /\ TargetsOK
    BY <1>1, <1>7 DEF StreamsOK, ServerOK, OverlayOK, TargetsOK
  <1> QED
    BY <1>6, <1>8 DEF Inv

LEMMA StutterKeeps ==
  ASSUME Inv, UNCHANGED vars
  PROVE  Inv'
  <1>1. UNCHANGED <<serverVars, effects, page, mutation, overwritten>>
    BY DEF vars
  <1>2. page \in PageState /\ overwritten \subseteq Own /\ mutation \in Mutation \cup {None}
    BY DEF Inv, Typed
  <1> QED
    BY <1>1, <1>2, PageStep

LEMMA NextKeeps ==
  ASSUME Inv, [Next]_vars
  PROVE  Inv'
  <1>1. CASE \E j \in Jobs : RunStarts(j)
    BY <1>1, StartKeeps
  <1>2. CASE \E e \in Executions : TargetFinishes(e) \/ Run(e)
    BY <1>2, TargetKeeps, RecordKeeps, EndKeeps DEF Run
  <1>3. CASE \E j \in Own : ScheduleIsAttached(j)
    BY <1>3, AttachKeeps
  <1>4. CASE \E isStrict \in BOOLEAN : Mount(isStrict)
    BY <1>4, MountKeeps
  <1>5. CASE Unmount
    BY <1>5, UnmountKeeps
  <1>6. CASE \E i \in Effects : EffectActs(i)
    BY <1>6, FetchIsServedKeeps, FetchFailsKeeps, FetchArrivesKeeps, ConnectKeeps, RefusedKeeps,
       BreakKeeps, DeliverKeeps
    DEF EffectActs
  <1>7. CASE \E kind \in {"create", "update", "delete"}, j \in Own : Submit(kind, j)
    BY <1>7, SubmitKeeps
  <1>8. CASE RequestFails
    BY <1>8, RequestFailsKeeps
  <1>9. CASE RequestIsServed
    BY <1>9, RequestIsServedKeeps
  <1>10. CASE ResponseArrives
    BY <1>10, ResponseKeeps
  <1>11. CASE UNCHANGED vars
    BY <1>11, StutterKeeps
  <1> QED
    BY <1>1, <1>2, <1>3, <1>4, <1>5, <1>6, <1>7, <1>8, <1>9, <1>10, <1>11 DEF Next

\* The invariant holds for every user, however many jobs, runs, mounts, breaks and requests.
THEOREM PageFollowsStream == Spec => []Inv
  <1>1. Init => Inv
    BY InitInv
  <1>2. Inv /\ [Next]_vars => Inv'
    BY NextKeeps
  <1> QED
    BY <1>1, <1>2, PTL DEF Spec

\* A page has at most one stream, of the component that is shown, and none once it is gone:
\* the cleanup that runs between an await and its continuation leaks no subscription.
THEOREM PageHasOneStream == Spec => []OneStream
  <1>1. ASSUME Inv
        PROVE  OneStream
    <2>1. TypeOK
      <3>1. \A e \in Executions : runs[e] # None => runs[e].sent \in 0..MaxTargets
        BY <1>1, RunFields DEF Inv
      <3>2. ASSUME NEW i \in Effects
            PROVE  /\ effects[i].phase \in {"fetching", "answered", "streaming", "closed"}
                   /\ effects[i].connection \in {"none", "connecting", "open", "dead"}
                   /\ effects[i].connection # "open" => effects[i].queue = <<>>
        BY <1>1, EffectIs, EffectFields DEF EffectOK
      <3>3. page.running \subseteq Jobs /\ page.scheduled \subseteq Own
        BY <1>1, PageFields DEF Inv, Typed
      <3> QED
        BY <1>1, <3>1, <3>2, <3>3 DEF TypeOK, Inv, Typed
    <2>2. \A i \in Effects :
            effects[i].phase = "streaming" =>
              /\ effects[i].component = page.component /\ ~effects[i].cancelled
              /\ \A k \in Effects : effects[k].phase = "streaming" => k = i
      BY <1>1 DEF Inv, StreamsOK, EffectOK
    <2> QED
      BY <2>1, <2>2 DEF OneStream
  <1>2. Inv => OneStream
    BY <1>1
  <1> QED
    BY <1>2, PageFollowsStream, PTL

\* A page to which everything sent has come shows the running jobs and the schedules of its
\* user as they are on the server, however the connection broke before.
THEOREM OverlayIsFaithful == Spec => []OverlayFollowsServer
  <1>1. ASSUME Inv, UpToDate
        PROVE  /\ running \cap Own \subseteq page.running
               /\ \A j \in page.running \cap Own : InProgress(j)
               /\ page.scheduled = attached
    <2>1. PICK i \in Effects : Open(i) /\ effects[i].queue = <<>>
      BY <1>1 DEF UpToDate, Open
    <2>2. Overlay(page, <<>>, running, Going(runs), attached)
      BY <1>1, <2>1 DEF Inv, OverlayOK
    <2>3. \A j : WillShow(page.running, <<>>, j) <=> j \in page.running
      BY DEF WillShow
    <2>4. page.scheduled = attached
      BY <2>2 DEF WillSchedule, Overlay
    <2>5. \A j \in Own :
            /\ j \in running => j \in page.running
            /\ j \in page.running => j \in Going(runs)
      BY <2>2, <2>3 DEF Overlay
    <2> QED
      BY <2>4, <2>5, GoingIs DEF Jobs
  <1>2. Inv => OverlayFollowsServer
    BY <1>1 DEF OverlayFollowsServer
  <1> QED
    BY <1>2, PageFollowsStream, PTL

\* No finished target of the run that the backend lists is lost on an up-to-date page, unless
\* a response has replaced its job.
THEOREM TargetsAreShown == Spec => []NoTargetLost
  <1>1. ASSUME Inv, UpToDate, NEW n \in DOMAIN page.jobs, page.jobs[n].id \in running,
               OneRun(page.jobs[n].id), page.jobs[n].id \notin overwritten,
               NEW k \in DOMAIN emitted, emitted[k].jobId = page.jobs[n].id
        PROVE  ShowsTarget(page.jobs[n], emitted[k].target)
    <2> DEFINE wanted == Wanted(emitted, running, runs)
               job == page.jobs[n]
               v == emitted[k]
    <2>1. PICK i \in Effects : Open(i) /\ effects[i].queue = <<>>
      BY <1>1 DEF UpToDate, Open
    <2>2. NoLoss(page, <<>>, wanted, overwritten)
      BY <1>1, <2>1 DEF Inv, TargetsOK
    <2>3. job \in Range(page.jobs) /\ v \in Range(emitted)
      BY DEF Range
    <2>4. v \in wanted
      BY <1>1, <2>3, SingleIs DEF Wanted
    <2>5. ~Coming(<<>>, v.jobId, v.target)
      BY DEF Coming
    <2>6. ShownIn(job.executions, v.target)
      <3> HIDE DEF wanted, job
      <3> QED
        BY <1>1, <2>2, <2>3, <2>4, <2>5 DEF NoLoss, job
    <2> QED
      BY <2>6 DEF ShowsTarget, ShownIn, InTools
  <1>2. Inv => NoTargetLost
    BY <1>1 DEF NoTargetLost
  <1> QED
    BY <1>2, PageFollowsStream, PTL

-----------------------------------------------------------------------------
\* The dialog of a tool

FoldStays(X, n, h) == h[{}] \in X /\ \A k \in 1..n : h[1..(k - 1)] \in X => h[1..k] \in X

\* A fold ends in a set that holds its base and that its steps do not leave.
LEMMA FoldEnds ==
  ASSUME NEW X, NEW n \in Nat, NEW h, FoldStays(X, n, h)
  PROVE  h[1..n] \in X
  <1>0. h[{}] \in X /\ \A k \in 1..n : h[1..(k - 1)] \in X => h[1..k] \in X
    BY DEF FoldStays
  <1> DEFINE P == {k \in 0..n : h[1..k] \in X}
  <1>1. 0 \in P
    <2>1. 1..0 = {}
      OBVIOUS
    <2> QED
      BY <1>0, <2>1
  <1>2. ASSUME NEW j \in 0..n, NEW k \in 0..n, k = j + 1, j \in P
        PROVE  k \in P
    <2>1. k \in 1..n /\ k - 1 = j
      BY <1>2
    <2> QED
      BY <1>0, <1>2, <2>1
  <1> HIDE DEF P
  <1>3. n \in P
    BY <1>1, <1>2, UpTo
  <1> QED
    BY <1>3 DEF P

\* The recursion of ToolAfter.
ToolIter(events, n, g) ==
  [T \in SUBSET (1..n) |->
     IF T = {} THEN onToolTypeChange("scraper") ELSE ToolStep(g[T \ {Max(T)}], events[Max(T)])]

LEMMA ToolAfterIsIter ==
  ASSUME NEW events, NEW n, DOMAIN events = 1..n
  PROVE  ToolAfter(events) = (CHOOSE g : g = ToolIter(events, n, g))[1..n]
  BY DEF ToolAfter, FoldLeft, MapThenFoldSet, ToolIter

\* Where the events lead the dialog, if none of them leads out of X.
LEMMA ToolAfterIn ==
  ASSUME NEW X, onToolTypeChange("scraper") \in X, NEW E, NEW events \in Seq(E),
         \A x \in X : \A event \in E : ToolStep(x, event) \in X
  PROVE  ToolAfter(events) \in X
  <1> DEFINE n == Len(events)
             base == onToolTypeChange("scraper")
             step == [k \in 1..n |-> [x \in X |-> ToolStep(x, events[k])]]
             h == CHOOSE g : g = ToolIter(events, n, g)
  <1>1. n \in Nat /\ DOMAIN events = 1..n /\ \A k \in 1..n : events[k] \in E
    OBVIOUS
  <1> HIDE DEF n
  <1>2. \A x \in X : \A k \in 1..n : step[k][x] = ToolStep(x, events[k])
    OBVIOUS
  <1> HIDE DEF step
  <1>3. \A x \in X : \A k \in 1..n : step[k][x] \in X
    BY <1>1, <1>2
  <1>4. base \in X
    OBVIOUS
  <1> HIDE DEF base
  <1>5. PICK g : g = Steps(step, base, n, g) /\ \A T \in SUBSET (1..n) : g[T] \in X
    BY <1>1, <1>3, <1>4, StepsExist
  <1>6. ASSUME NEW T \in SUBSET (1..n), T # {}
        PROVE  step[Max(T)][g[T \ {Max(T)}]] = ToolStep(g[T \ {Max(T)}], events[Max(T)])
    <2>1. T \in SUBSET (0..n)
      OBVIOUS
    <2>2. Max(T) \in 1..n
      BY <1>1, <1>6, <2>1, MaxIn
    <2>3. g[T \ {Max(T)}] \in X
      BY <1>5
    <2> QED
      BY <1>2, <2>2, <2>3
  <1>7. g = ToolIter(events, n, g)
    BY <1>5, <1>6 DEF Steps, ToolIter, base
  <1>8. h = ToolIter(events, n, h)
    BY <1>7
  <1>9. ToolAfter(events) = h[1..n]
    BY <1>1, ToolAfterIsIter
  <1> HIDE DEF h
  <1>10. h[{}] \in X
    <2>1. {} \in SUBSET (1..n)
      OBVIOUS
    <2> QED
      BY <1>4, <1>8, <2>1 DEF ToolIter, base
  <1>11. ASSUME NEW k \in 1..n
         PROVE  h[1..k] = ToolStep(h[1..(k - 1)], events[k])
    <2>1. 1..k \in SUBSET (1..n) /\ 1..k # {} /\ Max(1..k) = k /\ (1..k) \ {k} = 1..(k - 1)
      BY <1>1, PrefixFacts
    <2> QED
      BY <1>8, <2>1 DEF ToolIter
  <1>12. ASSUME NEW k \in 1..n, h[1..(k - 1)] \in X
         PROVE  h[1..k] \in X
    <2>1. events[k] \in E
      BY <1>1
    <2> QED
      BY <1>11, <1>12, <2>1
  <1>13. FoldStays(X, n, h)
    BY <1>10, <1>12, Zenon DEF FoldStays
  <1>14. h[1..n] \in X
    BY <1>1, <1>13, FoldEnds
  <1> QED
    BY <1>9, <1>14

\* The scrapers of the dialog: keywords K, websites N, and ids I; a page limit is any number.
DialogTargets(K, N, I) == [target : N, targetId : I, keywords : Seq(K), maxPages : Int]

Dialogs(K, N, I) ==
  [type : {"scraper"}, toolId : I, keywords : Seq(K), maxPages : Int, targets : Seq(DialogTargets(K, N, I))]

\* The keywords a payload has for those of the dialog.
Sendable(keywords) == IF keywords = <<>> THEN None ELSE keywords

TargetOf(target, id, keywords, pages) ==
  [target |-> target, targetId |-> id, keywords |-> keywords, maxPages |-> pages]

ScraperOf(id, keywords, pages, targets) ==
  [type |-> "scraper", toolId |-> id, keywords |-> keywords, maxPages |-> pages, targets |-> targets]

LEMMA TargetIsSent ==
  ASSUME NEW K, NEW N, NEW I, NEW t \in DialogTargets(K, N, I)
  PROVE  /\ KeywordsOrNone(t) = TargetOf(t.target, t.targetId, Sendable(t.keywords), t.maxPages)
         /\ t.maxPages \in Int /\ t.keywords \in Seq(K)
  <1>1. PICK n, i, k, m : t = TargetOf(n, i, k, m)
    BY DEF DialogTargets, TargetOf
  <1>2. KeywordsOrNone(t) = TargetOf(n, i, Sendable(k), m)
    BY <1>1 DEF KeywordsOrNone, TargetOf, Sendable
  <1>3. /\ t.target = n /\ t.targetId = i /\ t.keywords = k /\ t.maxPages = m
        /\ t.maxPages \in Int /\ t.keywords \in Seq(K)
    BY <1>1 DEF TargetOf, DialogTargets
  <1> QED
    BY <1>2, <1>3

\* The targets of a payload.
LEMMA PayloadTargets ==
  ASSUME NEW K, NEW N, NEW I, NEW targets \in Seq(DialogTargets(K, N, I)),
         NEW sent, sent = Mapped(KeywordsOrNone, targets)
  PROVE  /\ DOMAIN sent = DOMAIN targets
         /\ \A i \in DOMAIN targets :
              LET t == targets[i] IN
              sent[i] = TargetOf(t.target, t.targetId, Sendable(t.keywords), t.maxPages)
  <1>1. DOMAIN sent = DOMAIN targets /\ \A i \in DOMAIN targets : sent[i] = KeywordsOrNone(targets[i])
    BY DEF Mapped
  <1>2. \A i \in DOMAIN targets : targets[i] \in DialogTargets(K, N, I)
    OBVIOUS
  <1>3. \A t \in DialogTargets(K, N, I) :
          KeywordsOrNone(t) = TargetOf(t.target, t.targetId, Sendable(t.keywords), t.maxPages)
    BY TargetIsSent
  <1>4. ASSUME NEW i \in DOMAIN targets
        PROVE  LET t == targets[i] IN
               sent[i] = TargetOf(t.target, t.targetId, Sendable(t.keywords), t.maxPages)
    <2> DEFINE t == targets[i]
    <2>1. sent[i] = KeywordsOrNone(t) /\ t \in DialogTargets(K, N, I)
      BY <1>1, <1>2
    <2> HIDE DEF t
    <2>2. sent[i] = TargetOf(t.target, t.targetId, Sendable(t.keywords), t.maxPages)
      BY <1>3, <2>1, Zenon
    <2> QED
      BY <2>2 DEF t
  <1> QED
    BY <1>1, <1>4

\* A payload as its parts: that of a new tool has no id.
LEMMA PayloadIs ==
  ASSUME NEW K, NEW N, NEW I, NEW tool \in Dialogs(K, N, I)
  PROVE  LET sent == Mapped(KeywordsOrNone, tool.targets) IN
         /\ mapToUpdateJobTool(tool) = ScraperOf(tool.toolId, Sendable(tool.keywords), tool.maxPages, sent)
         /\ mapToCreateJobTool(tool) = ScraperOf(None, Sendable(tool.keywords), tool.maxPages, sent)
  <1> DEFINE sent == Mapped(KeywordsOrNone, tool.targets)
  <1>1. PICK i, k, m, t : tool = ScraperOf(i, k, m, t)
    BY DEF Dialogs, ScraperOf
  <1>2. KeywordsOrNone(tool) = ScraperOf(i, Sendable(k), m, t)
    BY <1>1 DEF KeywordsOrNone, ScraperOf, Sendable
  <1>3. tool.targets = t /\ tool.toolId = i /\ tool.keywords = k /\ tool.maxPages = m /\ tool.type = "scraper"
    BY <1>1 DEF ScraperOf
  <1>4. scraperPayload(tool) = ScraperOf(i, Sendable(k), m, sent)
    <2>1. scraperPayload(tool) = [ScraperOf(i, Sendable(k), m, t) EXCEPT !.targets = sent]
      BY <1>2, <1>3 DEF scraperPayload, ScraperOf
    <2> HIDE DEF sent
    <2> QED
      BY <2>1 DEF ScraperOf
  <1> HIDE DEF sent
  <1>5. [ScraperOf(i, Sendable(k), m, sent) EXCEPT !.toolId = None] = ScraperOf(None, Sendable(k), m, sent)
    BY DEF ScraperOf
  <1>6. mapToUpdateJobTool(tool) = ScraperOf(i, Sendable(k), m, sent)
    BY <1>3, <1>4 DEF mapToUpdateJobTool
  <1>7. mapToCreateJobTool(tool) = ScraperOf(None, Sendable(k), m, sent)
    BY <1>3, <1>4, <1>5 DEF mapToCreateJobTool
  <1> QED
    BY <1>3, <1>6, <1>7 DEF sent

\* A scraper the dialog lets through has keywords for every website, which is what the backend
\* insists on, whether the user adds the tool or saves an old one; the one thing the dialog does
\* not look at is the sign of a page limit, so that the backend refuses just the tools that have
\* a negative one.
THEOREM DialogToolsAreJudged ==
  ASSUME NEW K, NEW N, NEW I, NEW tool \in Dialogs(K, N, I), None \notin Int \cup Seq(K)
  PROVE  RefusedOnlyIfNegative(tool)
  <1> SUFFICES ASSUME canSubmitTool(tool),
                      NEW payload \in {mapToCreateJobTool(tool), mapToUpdateJobTool(tool)}
               PROVE  validateCreateOrUpdateJobPayload([tools |-> <<payload>>, schedule |-> None], 0)
                        <=> ~HasNegativeLimit(tool)
    BY DEF RefusedOnlyIfNegative
  <1>1. /\ payload.type = "scraper" /\ payload.maxPages = tool.maxPages
        /\ payload.keywords = Sendable(tool.keywords)
        /\ DOMAIN payload.targets = DOMAIN tool.targets
        /\ \A i \in DOMAIN tool.targets :
             /\ payload.targets[i].maxPages = tool.targets[i].maxPages
             /\ payload.targets[i].keywords = Sendable(tool.targets[i].keywords)
    <2> DEFINE sent == Mapped(KeywordsOrNone, tool.targets)
    <2>1. tool.targets \in Seq(DialogTargets(K, N, I))
      BY DEF Dialogs
    <2>2. /\ DOMAIN sent = DOMAIN tool.targets
          /\ \A i \in DOMAIN tool.targets :
               LET t == tool.targets[i] IN
               sent[i] = TargetOf(t.target, t.targetId, Sendable(t.keywords), t.maxPages)
      BY <2>1, PayloadTargets
    <2>3. \E id : payload = ScraperOf(id, Sendable(tool.keywords), tool.maxPages, sent)
      BY PayloadIs
    <2> HIDE DEF sent
    <2>4. /\ payload.type = "scraper" /\ payload.maxPages = tool.maxPages
          /\ payload.keywords = Sendable(tool.keywords) /\ payload.targets = sent
      BY <2>3 DEF ScraperOf
    <2>5. \A n, k, p, id : TargetOf(n, id, k, p).keywords = k /\ TargetOf(n, id, k, p).maxPages = p
      BY DEF TargetOf
    <2> QED
      BY <2>2, <2>4, <2>5
  <1>2. /\ tool.type = "scraper" /\ tool.maxPages \in Int /\ tool.keywords \in Seq(K)
        /\ tool.targets \in Seq(DialogTargets(K, N, I))
    BY DEF Dialogs
  <1>3. \A i \in DOMAIN tool.targets :
          tool.targets[i].maxPages \in Int /\ tool.targets[i].keywords \in Seq(K)
    <2>1. \A i \in DOMAIN tool.targets : tool.targets[i] \in DialogTargets(K, N, I)
      BY <1>2
    <2> QED
      BY <2>1, TargetIsSent
  <1>4. \/ tool.keywords # <<>>
        \/ \A i \in DOMAIN tool.targets : tool.targets[i].keywords # <<>>
    BY <1>2 DEF canSubmitTool, keywordsValid
  <1>5. None # <<>>
    <2>1. <<>> \in Seq(K)
      OBVIOUS
    <2> QED
      BY <2>1
  <1>6. \A keywords \in Seq(K) :
          /\ Sendable(keywords) # <<>>
          /\ keywords # <<>> => Sendable(keywords) # None
    BY <1>5 DEF Sendable
  <1>7. HasNegativeLimit(tool) <=>
          tool.maxPages < 0 \/ \E i \in DOMAIN tool.targets : tool.targets[i].maxPages < 0
    BY DEF HasNegativeLimit, Range
  <1>8. schemaAccepts(payload) <=> ~HasNegativeLimit(tool)
    <2>1. schemaAccepts(payload) <=>
            /\ payload.keywords # <<>> /\ (payload.maxPages # None => payload.maxPages >= 0)
            /\ \A i \in DOMAIN payload.targets :
                 /\ payload.targets[i].keywords # <<>>
                 /\ payload.targets[i].maxPages # None => payload.targets[i].maxPages >= 0
      BY <1>1 DEF schemaAccepts, Range
    <2>2. payload.keywords # <<>> /\ \A i \in DOMAIN tool.targets : payload.targets[i].keywords # <<>>
      BY <1>1, <1>2, <1>3, <1>6
    <2>3. \A m \in Int : m # None /\ (m >= 0 <=> ~(m < 0))
      OBVIOUS
    <2> QED
      BY <1>1, <1>2, <1>3, <1>7, <2>1, <2>2, <2>3
  <1> DEFINE sent == [tools |-> <<payload>>, schedule |-> None]
  <1>9. DOMAIN sent.tools = {1} /\ sent.tools[1] = payload /\ sent.tools # <<>> /\ sent.schedule = None
    OBVIOUS
  <1> HIDE DEF sent
  <1>10. validateToolsSchema(sent.tools)
    <2>1. payload.maxPages # None
      BY <1>1, <1>2
    <2>2. \A i \in DOMAIN payload.targets :
            payload.keywords \notin {None, <<>>} \/ payload.targets[i].keywords \notin {None, <<>>}
      BY <1>1, <1>2, <1>3, <1>4, <1>6
    <2> QED
      BY <1>1, <1>9, <2>1, <2>2 DEF validateToolsSchema, Covered
  <1>11. validateCreateOrUpdateJobPayload(sent, 0) <=> schemaAccepts(payload)
    BY <1>9, <1>10 DEF validateCreateOrUpdateJobPayload, validateJobSchedule
  <1> QED
    BY <1>8, <1>11 DEF sent

LEMMA RemoveAtTyped ==
  ASSUME NEW V, NEW s \in Seq(V), NEW k \in DOMAIN s
  PROVE  /\ RemoveAt(s, k) \in Seq(V) /\ Len(RemoveAt(s, k)) = Len(s) - 1
         /\ \A i \in 1..(Len(s) - 1) : RemoveAt(s, k)[i] = s[IF i < k THEN i ELSE i + 1]
  <1> DEFINE a == SubSeq(s, 1, k - 1)
             b == SubSeq(s, k + 1, Len(s))
  <1>1. k \in 1..Len(s) /\ Len(s) \in Nat
    OBVIOUS
  <1>2. a \in Seq(V) /\ Len(a) = k - 1 /\ \A i \in 1..(k - 1) : a[i] = s[i]
    BY <1>1
  <1>3. b \in Seq(V) /\ Len(b) = Len(s) - k /\ \A i \in 1..(Len(s) - k) : b[i] = s[k + i]
    BY <1>1
  <1> HIDE DEF a, b
  <1>4. a \o b \in Seq(V) /\ Len(a \o b) = Len(s) - 1
    BY <1>1, <1>2, <1>3
  <1>5. ASSUME NEW i \in 1..(Len(s) - 1)
        PROVE  (a \o b)[i] = s[IF i < k THEN i ELSE i + 1]
    <2>1. (a \o b)[i] = IF i <= Len(a) THEN a[i] ELSE b[i - Len(a)]
      BY <1>1, <1>2, <1>3
    <2>2. CASE i < k
      <3>1. i \in 1..(k - 1) /\ i <= Len(a)
        BY <1>1, <1>2, <2>2
      <3> QED
        BY <1>2, <2>1, <2>2, <3>1
    <2>3. CASE ~(i < k)
      <3>1. i - Len(a) \in 1..(Len(s) - k) /\ ~(i <= Len(a)) /\ k + (i - Len(a)) = i + 1
        BY <1>1, <1>2, <2>3
      <3> QED
        BY <1>3, <2>1, <2>3, <3>1
    <2> QED
      BY <2>2, <2>3
  <1> QED
    BY <1>4, <1>5 DEF RemoveAt, a, b

LEMMA ScraperIn ==
  ASSUME NEW K, NEW N, NEW I, NEW tool \in Dialogs(K, N, I)
  PROVE  /\ tool.type = "scraper" /\ tool.toolId \in I /\ tool.keywords \in Seq(K) /\ tool.maxPages \in Int
         /\ tool.targets \in Seq(DialogTargets(K, N, I))
         /\ \A i \in DOMAIN tool.targets :
              /\ tool.targets[i] \in DialogTargets(K, N, I)
              /\ tool.targets[i].keywords \in Seq(K)
  <1>1. /\ tool.type = "scraper" /\ tool.toolId \in I /\ tool.keywords \in Seq(K) /\ tool.maxPages \in Int
        /\ tool.targets \in Seq(DialogTargets(K, N, I))
    BY DEF Dialogs
  <1>2. \A i \in DOMAIN tool.targets : tool.targets[i] \in DialogTargets(K, N, I)
    BY <1>1
  <1>3. \A t \in DialogTargets(K, N, I) : t.keywords \in Seq(K)
    BY DEF DialogTargets
  <1> QED
    BY <1>1, <1>2, <1>3

\* A dialog with another setting, or with other targets, is one.
LEMMA DialogWith ==
  ASSUME NEW K, NEW N, NEW I, NEW tool \in Dialogs(K, N, I)
  PROVE  /\ \A keywords \in Seq(K) : [tool EXCEPT !.keywords = keywords] \in Dialogs(K, N, I)
         /\ \A pages \in Int : [tool EXCEPT !.maxPages = pages] \in Dialogs(K, N, I)
         /\ \A targets \in Seq(DialogTargets(K, N, I)) : [tool EXCEPT !.targets = targets] \in Dialogs(K, N, I)
  BY DEF Dialogs

LEMMA TargetWith ==
  ASSUME NEW K, NEW N, NEW I, NEW targets \in Seq(DialogTargets(K, N, I)), NEW i \in DOMAIN targets
  PROVE  /\ \A keywords \in Seq(K) : [targets EXCEPT ![i].keywords = keywords] \in Seq(DialogTargets(K, N, I))
         /\ \A pages \in Int : [targets EXCEPT ![i].maxPages = pages] \in Seq(DialogTargets(K, N, I))
  <1>1. targets[i] \in DialogTargets(K, N, I)
    OBVIOUS
  <1>2. /\ \A keywords \in Seq(K) : [targets[i] EXCEPT !.keywords = keywords] \in DialogTargets(K, N, I)
        /\ \A pages \in Int : [targets[i] EXCEPT !.maxPages = pages] \in DialogTargets(K, N, I)
    BY <1>1 DEF DialogTargets
  <1>3. \A t \in DialogTargets(K, N, I) : [targets EXCEPT ![i] = t] \in Seq(DialogTargets(K, N, I))
    OBVIOUS
  <1> QED
    BY <1>2, <1>3

LEMMA DialogStep ==
  ASSUME NEW I, None \in I, NEW tool \in Dialogs({"k"}, {"jobs-ch"}, I), NEW event \in ToolEvents
  PROVE  ToolStep(tool, event) \in Dialogs({"k"}, {"jobs-ch"}, I)
  <1> DEFINE D == Dialogs({"k"}, {"jobs-ch"}, I)
             T == DialogTargets({"k"}, {"jobs-ch"}, I)
             i == event.at
  <1>0. event.pages \in Int
    BY DEF ToolEvents
  <1>1. /\ tool.keywords \in Seq({"k"}) /\ tool.targets \in Seq(T)
        /\ \A j \in DOMAIN tool.targets : tool.targets[j] \in T /\ tool.targets[j].keywords \in Seq({"k"})
    BY ScraperIn
  <1>2. \A keywords \in Seq({"k"}) : Append(keywords, "k") \in Seq({"k"}) /\ (keywords # <<>> => RemoveAt(keywords, 1) \in Seq({"k"}))
    <2>1. \A keywords \in Seq({"k"}) : keywords # <<>> => 1 \in DOMAIN keywords
      OBVIOUS
    <2> QED
      BY <2>1, RemoveAtTyped
  <1>3. /\ \A keywords \in Seq({"k"}) : [tool EXCEPT !.keywords = keywords] \in D
        /\ \A pages \in Int : [tool EXCEPT !.maxPages = pages] \in D
        /\ \A targets \in Seq(T) : [tool EXCEPT !.targets = targets] \in D
    BY DialogWith
  <1>4. ASSUME i \in DOMAIN tool.targets
        PROVE  /\ RemoveAt(tool.targets, i) \in Seq(T)
               /\ \A keywords \in Seq({"k"}) : [tool.targets EXCEPT ![i].keywords = keywords] \in Seq(T)
               /\ \A pages \in Int : [tool.targets EXCEPT ![i].maxPages = pages] \in Seq(T)
    BY <1>1, <1>4, RemoveAtTyped, TargetWith
  <1>5. Append(tool.targets, TargetOf("jobs-ch", None, <<>>, 0)) \in Seq(T)
    <2>1. TargetOf("jobs-ch", None, <<>>, 0) \in T
      BY DEF TargetOf, DialogTargets
    <2> QED
      BY <1>1, <2>1
  <1> HIDE DEF T
  <1>6. onTargetChange(tool, "jobs-ch") \in D
    BY <1>3, <1>5 DEF onTargetChange, TargetOf
  <1>7. onKeywordAdd(tool, "k") \in D /\ (tool.keywords # <<>> => onKeywordRemove(tool, 1) \in D)
    BY <1>1, <1>2, <1>3 DEF onKeywordAdd, onKeywordRemove
  <1>8. onToolMaxPagesChange(tool, event.pages) \in D
    BY <1>3, <1>0 DEF onToolMaxPagesChange
  <1>9. ASSUME i \in DOMAIN tool.targets
        PROVE  /\ onTargetKeywordAdd(tool, i, "k") \in D
               /\ tool.targets[i].keywords # <<>> => onTargetKeywordRemove(tool, i, 1) \in D
               /\ onTargetMaxPagesChange(tool, i, event.pages) \in D
               /\ onTargetRemove(tool, i) \in D
    <2>1. onTargetKeywordAdd(tool, i, "k") \in D
      <3>1. Append(tool.targets[i].keywords, "k") \in Seq({"k"})
        BY <1>1, <1>2, <1>9
      <3>2. onTargetKeywordAdd(tool, i, "k")
              = [tool EXCEPT !.targets = [tool.targets EXCEPT ![i].keywords = Append(tool.targets[i].keywords, "k")]]
        BY DEF onTargetKeywordAdd
      <3> QED
        BY <1>3, <1>4, <1>9, <3>1, <3>2
    <2>2. ASSUME tool.targets[i].keywords # <<>>
          PROVE  onTargetKeywordRemove(tool, i, 1) \in D
      <3>1. RemoveAt(tool.targets[i].keywords, 1) \in Seq({"k"})
        BY <1>1, <1>2, <1>9, <2>2
      <3>2. onTargetKeywordRemove(tool, i, 1)
              = [tool EXCEPT !.targets = [tool.targets EXCEPT ![i].keywords = RemoveAt(tool.targets[i].keywords, 1)]]
        BY DEF onTargetKeywordRemove
      <3> QED
        BY <1>3, <1>4, <1>9, <3>1, <3>2
    <2>3. onTargetMaxPagesChange(tool, i, event.pages) \in D
      <3>1. onTargetMaxPagesChange(tool, i, event.pages)
              = [tool EXCEPT !.targets = [tool.targets EXCEPT ![i].maxPages = event.pages]]
        BY DEF onTargetMaxPagesChange
      <3> QED
        BY <1>3, <1>4, <1>9, <1>0, <3>1
    <2>4. onTargetRemove(tool, i) \in D
      BY <1>3, <1>4, <1>9 DEF onTargetRemove
    <2> QED
      BY <2>1, <2>2, <2>3, <2>4
  <1> HIDE DEF D
  <1>10. tool \in D
    BY DEF D
  <1>11. ToolStep(tool, event) \in D
    BY <1>6, <1>7, <1>8, <1>9, <1>10 DEF ToolStep
  <1> QED
    BY <1>11 DEF D

LEMMA DialogsAre ==
  ASSUME NEW events \in Seq(ToolEvents)
  PROVE  ToolAfter(events) \in Dialogs({"k"}, {"jobs-ch"}, {None})
  <1>1. onToolTypeChange("scraper") \in Dialogs({"k"}, {"jobs-ch"}, {None})
    BY DEF onToolTypeChange, initialScraperTool, Dialogs
  <1>2. \A x \in Dialogs({"k"}, {"jobs-ch"}, {None}) : \A event \in ToolEvents :
          ToolStep(x, event) \in Dialogs({"k"}, {"jobs-ch"}, {None})
    BY DialogStep
  <1> QED
    BY <1>1, <1>2, ToolAfterIn

-----------------------------------------------------------------------------
\* The form of a job

\* The recursion of FormAfter.
FormIter(events, n, g) ==
  [T \in SUBSET (1..n) |->
     IF T = {} THEN onFieldChange(emptyForm, "name", "n") ELSE FormStep(g[T \ {Max(T)}], events[Max(T)])]

LEMMA FormAfterIsIter ==
  ASSUME NEW events, NEW n, DOMAIN events = 1..n
  PROVE  FormAfter(events) = (CHOOSE g : g = FormIter(events, n, g))[1..n]
  BY DEF FormAfter, FoldLeft, MapThenFoldSet, FormIter

\* Where the events lead the form, if none of them leads out of X.
LEMMA FormAfterIn ==
  ASSUME NEW X, onFieldChange(emptyForm, "name", "n") \in X, NEW E, NEW events \in Seq(E),
         \A x \in X : \A event \in E : FormStep(x, event) \in X
  PROVE  FormAfter(events) \in X
  <1> DEFINE n == Len(events)
             base == onFieldChange(emptyForm, "name", "n")
             step == [k \in 1..n |-> [x \in X |-> FormStep(x, events[k])]]
             h == CHOOSE g : g = FormIter(events, n, g)
  <1>1. n \in Nat /\ DOMAIN events = 1..n /\ \A k \in 1..n : events[k] \in E
    OBVIOUS
  <1> HIDE DEF n
  <1>2. \A x \in X : \A k \in 1..n : step[k][x] = FormStep(x, events[k])
    OBVIOUS
  <1> HIDE DEF step
  <1>3. \A x \in X : \A k \in 1..n : step[k][x] \in X
    BY <1>1, <1>2
  <1>4. base \in X
    OBVIOUS
  <1> HIDE DEF base
  <1>5. PICK g : g = Steps(step, base, n, g) /\ \A T \in SUBSET (1..n) : g[T] \in X
    BY <1>1, <1>3, <1>4, StepsExist
  <1>6. ASSUME NEW T \in SUBSET (1..n), T # {}
        PROVE  step[Max(T)][g[T \ {Max(T)}]] = FormStep(g[T \ {Max(T)}], events[Max(T)])
    <2>1. T \in SUBSET (0..n)
      OBVIOUS
    <2>2. Max(T) \in 1..n
      BY <1>1, <1>6, <2>1, MaxIn
    <2>3. g[T \ {Max(T)}] \in X
      BY <1>5
    <2> QED
      BY <1>2, <2>2, <2>3
  <1>7. g = FormIter(events, n, g)
    BY <1>5, <1>6 DEF Steps, FormIter, base
  <1>8. h = FormIter(events, n, h)
    BY <1>7
  <1>9. FormAfter(events) = h[1..n]
    BY <1>1, FormAfterIsIter
  <1> HIDE DEF h
  <1>10. h[{}] \in X
    <2>1. {} \in SUBSET (1..n)
      OBVIOUS
    <2> QED
      BY <1>4, <1>8, <2>1 DEF FormIter, base
  <1>11. ASSUME NEW k \in 1..n
         PROVE  h[1..k] = FormStep(h[1..(k - 1)], events[k])
    <2>1. 1..k \in SUBSET (1..n) /\ 1..k # {} /\ Max(1..k) = k /\ (1..k) \ {k} = 1..(k - 1)
      BY <1>1, PrefixFacts
    <2> QED
      BY <1>8, <2>1 DEF FormIter
  <1>12. ASSUME NEW k \in 1..n, h[1..(k - 1)] \in X
         PROVE  h[1..k] \in X
    <2>1. events[k] \in E
      BY <1>1
    <2> QED
      BY <1>11, <1>12, <2>1
  <1>13. FoldStays(X, n, h)
    BY <1>10, <1>12, Zenon DEF FoldStays
  <1>14. h[1..n] \in X
    BY <1>1, <1>13, FoldEnds
  <1> QED
    BY <1>9, <1>14

\* The ids the backend drew earlier, and those a tool has in the form.
OldIds == {None} \cup {<<0, n>> : n \in Nat} \cup {<<0, n, 1>> : n \in Nat}

\* No two targets of a tool have the same id, and no two tools of a form.
TargetsApart(tool) ==
  \A i, k \in DOMAIN tool.targets :
    tool.targets[i].targetId = tool.targets[k].targetId => i = k \/ tool.targets[i].targetId = None

ToolsApart(tools) ==
  \A i, k \in DOMAIN tools : tools[i].toolId = tools[k].toolId => i = k \/ tools[i].toolId = None

FormScrapers == Dialogs({"k"}, {"jobs-ch", "job-ich"}, OldIds)

FormTexts == {"", "s", "b"}

EmailTargets == [target : {"address"}, targetId : OldIds, subject : FormTexts, body : FormTexts]

FormEmails ==
  [type : {"email"}, toolId : OldIds, subject : FormTexts, body : FormTexts, targets : Seq(EmailTargets)]

FormTools == {tool \in FormScrapers \cup FormEmails : TargetsApart(tool)}

\* The states of the form.
FormRecords ==
  [name : {"", "n"}, scheduleType : {"", "once", "daily"}, scheduleStatus : {"idle", "stopped"},
   startDate : Nat \cup {None}, startTime : Nat \cup {None}, endDate : Nat \cup {None},
   endTime : Nat \cup {None}, tools : Seq(FormTools), isEditing : BOOLEAN]

HasItsEnd(state) == state.scheduleType \in {"", "once"} => state.endDate = None /\ state.endTime = None

Forms == {state \in FormRecords : HasItsEnd(state) /\ ToolsApart(state.tools)}

LEMMA FormParts ==
  ASSUME NEW state \in Forms
  PROVE  /\ state \in FormRecords
         /\ state.name \in {"", "n"} /\ state.scheduleType \in {"", "once", "daily"}
         /\ state.scheduleStatus \in {"idle", "stopped"} /\ state.isEditing \in BOOLEAN
         /\ state.startDate \in Nat \cup {None} /\ state.startTime \in Nat \cup {None}
         /\ state.endDate \in Nat \cup {None} /\ state.endTime \in Nat \cup {None}
         /\ state.tools \in Seq(FormTools)
         /\ HasItsEnd(state) /\ ToolsApart(state.tools)
  BY DEF Forms, FormRecords

\* A form with other tools.
LEMMA FormWithTools ==
  ASSUME NEW state \in Forms, NEW tools \in Seq(FormTools), ToolsApart(tools)
  PROVE  [state EXCEPT !.tools = tools] \in Forms
  <1> DEFINE after == [state EXCEPT !.tools = tools]
  <1>1. after \in FormRecords /\ after.tools = tools /\ after.scheduleType = state.scheduleType
        /\ after.endDate = state.endDate /\ after.endTime = state.endTime
    BY FormParts DEF FormRecords
  <1> HIDE DEF after
  <1>2. after \in Forms
    BY <1>1, FormParts DEF Forms, HasItsEnd
  <1> QED
    BY <1>2 DEF after

LEMMA FormWithSchedule ==
  ASSUME NEW state \in Forms
  PROVE  /\ \A type \in {"", "once", "daily"} : onScheduleTypeChange(state, type) \in Forms
         /\ \A d \in Nat : onDateChange(state, "startDate", d) \in Forms
         /\ \A d \in Nat : onFieldChange(state, "startTime", d) \in Forms
         /\ \A d \in Nat : state.scheduleType \notin {"", "once"} => onDateChange(state, "endDate", d) \in Forms
         /\ \A d \in Nat : state.scheduleType \notin {"", "once"} => onFieldChange(state, "endTime", d) \in Forms
         /\ onScheduleStatusChange(state, "stopped") \in Forms
  <1>1. state \in FormRecords /\ HasItsEnd(state) /\ ToolsApart(state.tools)
    BY FormParts
  <1>2. ASSUME NEW type \in {"", "once", "daily"}
        PROVE  onScheduleTypeChange(state, type) \in Forms
    BY <1>1 DEF onScheduleTypeChange, Forms, FormRecords, HasItsEnd
  <1>3. ASSUME NEW d \in Nat
        PROVE  onDateChange(state, "startDate", d) \in Forms /\ onFieldChange(state, "startTime", d) \in Forms
    BY <1>1 DEF onDateChange, onFieldChange, Forms, FormRecords, HasItsEnd
  <1>4. ASSUME NEW d \in Nat, state.scheduleType \notin {"", "once"}
        PROVE  onDateChange(state, "endDate", d) \in Forms /\ onFieldChange(state, "endTime", d) \in Forms
    BY <1>1, <1>4 DEF onDateChange, onFieldChange, Forms, FormRecords, HasItsEnd
  <1>5. onScheduleStatusChange(state, "stopped") \in Forms
    BY <1>1 DEF onScheduleStatusChange, Forms, FormRecords, HasItsEnd
  <1> QED
    BY <1>2, <1>3, <1>4, <1>5

LEMMA ToolIsAdded ==
  ASSUME NEW state \in Forms
  PROVE  onToolAdd(state, onTargetChange(initialScraperTool, "jobs-ch")) \in Forms
  <1> DEFINE tool == ScraperOf(None, <<>>, 0, <<TargetOf("jobs-ch", None, <<>>, 0)>>)
             tools == Append(state.tools, tool)
  <1>1. onTargetChange(initialScraperTool, "jobs-ch") = tool
    BY DEF onTargetChange, initialScraperTool, ScraperOf, TargetOf
  <1>2. tool \in FormTools
    <2> DEFINE t == TargetOf("jobs-ch", None, <<>>, 0)
    <2>1. t \in DialogTargets({"k"}, {"jobs-ch", "job-ich"}, OldIds)
      BY DEF TargetOf, DialogTargets, OldIds
    <2>2. t.targetId = None
      BY DEF TargetOf
    <2> HIDE DEF t
    <2>3. <<t>> \in Seq(DialogTargets({"k"}, {"jobs-ch", "job-ich"}, OldIds)) /\ <<t>>[1] = t /\ DOMAIN <<t>> = {1}
      BY <2>1
    <2>4. ScraperOf(None, <<>>, 0, <<t>>) \in FormScrapers
      BY <2>3 DEF FormScrapers, Dialogs, ScraperOf, OldIds
    <2>5. TargetsApart(ScraperOf(None, <<>>, 0, <<t>>))
      BY <2>3, <2>2 DEF TargetsApart, ScraperOf
    <2>6. ScraperOf(None, <<>>, 0, <<t>>) \in FormTools
      BY <2>4, <2>5 DEF FormTools
    <2> QED
      BY <2>6 DEF t
  <1>3. tool.toolId = None
    BY DEF ScraperOf
  <1> HIDE DEF tool
  <1>4. state.tools \in Seq(FormTools) /\ ToolsApart(state.tools)
    BY FormParts
  <1>5. tools \in Seq(FormTools) /\ Len(tools) = Len(state.tools) + 1
        /\ \A i \in DOMAIN state.tools : i \in DOMAIN tools /\ tools[i] = state.tools[i]
        /\ tools[Len(tools)] = tool
    BY <1>2, <1>4
  <1>6. \A i \in DOMAIN tools : i \in DOMAIN state.tools \/ i = Len(tools)
    BY <1>4, <1>5
  <1>7. ToolsApart(tools)
    BY <1>3, <1>4, <1>5, <1>6 DEF ToolsApart
  <1>8. [state EXCEPT !.tools = tools] \in Forms
    BY <1>5, <1>7, FormWithTools
  <1> QED
    BY <1>1, <1>8 DEF onToolAdd

LEMMA ToolIsRemoved ==
  ASSUME NEW state \in Forms, state.tools # <<>>
  PROVE  onToolRemove(state, 1) \in Forms
  <1> DEFINE n == Len(state.tools) - 1
             tools == RemoveAt(state.tools, 1)
  <1>0. state.tools \in Seq(FormTools) /\ ToolsApart(state.tools)
    BY FormParts
  <1>1. state.tools \in Seq(FormTools) /\ ToolsApart(state.tools) /\ 1 \in DOMAIN state.tools
    BY <1>0
  <1>2. /\ tools \in Seq(FormTools) /\ Len(tools) = n
        /\ \A i \in 1..n : tools[i] = state.tools[IF i < 1 THEN i ELSE i + 1]
    BY <1>1, RemoveAtTyped
  <1>3. n \in Nat /\ DOMAIN tools = 1..n /\ \A i \in 1..n : i + 1 \in DOMAIN state.tools /\ tools[i] = state.tools[i + 1]
    BY <1>1, <1>2
  <1> HIDE DEF tools, n
  <1>4. ToolsApart(tools)
    <2> SUFFICES ASSUME NEW i \in 1..n, NEW k \in 1..n, tools[i].toolId = tools[k].toolId
                 PROVE  i = k \/ tools[i].toolId = None
      BY <1>3 DEF ToolsApart
    <2>1. i + 1 = k + 1 \/ state.tools[i + 1].toolId = None
      BY <1>1, <1>3 DEF ToolsApart
    <2> QED
      BY <1>3, <2>1
  <1>5. [state EXCEPT !.tools = tools] \in Forms
    BY <1>2, <1>4, FormWithTools
  <1> QED
    BY <1>5 DEF onToolRemove, tools

LEMMA ScraperIsEdited ==
  ASSUME NEW tool \in FormTools, tool.type = "scraper"
  PROVE  /\ onTargetChange(tool, "job-ich") \in FormTools
         /\ onTargetChange(tool, "job-ich").toolId = tool.toolId
  <1> DEFINE T == DialogTargets({"k"}, {"jobs-ch", "job-ich"}, OldIds)
             t == TargetOf("job-ich", None, <<>>, 0)
             targets == Append(tool.targets, t)
             after == [tool EXCEPT !.targets = targets]
  <1>1. tool \in FormScrapers /\ TargetsApart(tool)
    BY DEF FormTools, FormEmails
  <1>2. onTargetChange(tool, "job-ich") = after
    BY DEF onTargetChange, TargetOf
  <1>3. t \in T /\ t.targetId = None
    BY DEF TargetOf, DialogTargets, OldIds
  <1>4. tool.targets \in Seq(T)
    BY <1>1, ScraperIn DEF FormScrapers
  <1> HIDE DEF t, T
  <1>5. /\ targets \in Seq(T) /\ targets[Len(targets)] = t
        /\ \A i \in DOMAIN tool.targets : i \in DOMAIN targets /\ targets[i] = tool.targets[i]
    BY <1>3, <1>4
  <1>6. \A i \in DOMAIN targets : i \in DOMAIN tool.targets \/ i = Len(targets)
    BY <1>3, <1>4
  <1> HIDE DEF targets
  <1>7. after \in FormScrapers /\ after.targets = targets /\ after.toolId = tool.toolId
    BY <1>1, <1>5 DEF FormScrapers, Dialogs, T
  <1>8. TargetsApart(after)
    BY <1>1, <1>3, <1>5, <1>6, <1>7 DEF TargetsApart
  <1> QED
    BY <1>2, <1>7, <1>8 DEF FormTools

LEMMA ToolIsEdited ==
  ASSUME NEW state \in Forms, NEW i \in Nat
  PROVE  EditTool(state, i) \in Forms
  <1>1. CASE ~(i \in DOMAIN state.tools /\ state.tools[i].type = "scraper")
    BY <1>1 DEF EditTool
  <1>2. CASE i \in DOMAIN state.tools /\ state.tools[i].type = "scraper"
    <2> DEFINE tool == onTargetChange(state.tools[i], "job-ich")
               tools == Mapped(LAMBDA t : IF t.toolId = tool.toolId THEN tool ELSE t, state.tools)
    <2>1. state.tools \in Seq(FormTools) /\ ToolsApart(state.tools)
      BY FormParts
    <2>2. tool \in FormTools
      BY <1>2, <2>1, ScraperIsEdited
    <2>3. EditTool(state, i) = [state EXCEPT !.tools = tools]
      BY <1>2 DEF EditTool, onToolEdit
    <2> HIDE DEF tool
    <2>4. DOMAIN tools = DOMAIN state.tools
          /\ \A k \in DOMAIN state.tools :
               tools[k] = IF state.tools[k].toolId = tool.toolId THEN tool ELSE state.tools[k]
      BY DEF Mapped
    <2>5. \A k \in DOMAIN state.tools : tools[k] \in FormTools /\ tools[k].toolId = state.tools[k].toolId
      <3>1. \A k \in DOMAIN state.tools : state.tools[k] \in FormTools
        BY <2>1
      <3> QED
        BY <2>2, <2>4, <3>1
    <2>6. tools \in Seq(FormTools)
      <3>1. DOMAIN tools = 1..Len(state.tools) /\ Len(state.tools) \in Nat
        BY <2>1, <2>4
      <3>2. tools = [k \in DOMAIN tools |-> tools[k]]
        BY DEF Mapped
      <3> HIDE DEF tools
      <3>3. tools = [k \in 1..Len(state.tools) |-> tools[k]] /\ \A k \in 1..Len(state.tools) : tools[k] \in FormTools
        BY <2>4, <2>5, <3>1, <3>2
      <3> QED
        BY <3>1, <3>3
    <2> HIDE DEF tools
    <2>7. ToolsApart(tools)
      BY <2>1, <2>4, <2>5 DEF ToolsApart
    <2> QED
      BY <2>3, <2>6, <2>7, FormWithTools
  <1> QED
    BY <1>1, <1>2

\* A sequence of one.
LEMMA OneElement ==
  ASSUME NEW f, NEW x, f = [i \in 1..1 |-> f[i]], f[1] = x
  PROVE  f = <<x>>
  OBVIOUS

LEMMA OrElseIn ==
  ASSUME NEW S, NEW x \in S \cup {None}, NEW y \in S
  PROVE  OrElse(x, y) \in S
  BY DEF OrElse

\* The parts of a tool with the settings they miss.
Filled(p) == [p EXCEPT !.keywords = OrElse(@, <<>>), !.maxPages = OrElse(@, 0)]

FilledEmail(p) == [p EXCEPT !.subject = OrElse(@, ""), !.body = OrElse(@, "")]

EmailTo(id, subject, body) == [target |-> "address", targetId |-> id, subject |-> subject, body |-> body]

EmailOf(id, subject, body, targets) ==
  [type |-> "email", toolId |-> id, subject |-> subject, body |-> body, targets |-> targets]

LEMMA TargetFilled ==
  ASSUME NEW n, NEW i, NEW k, NEW m
  PROVE  Filled(TargetOf(n, i, k, m)) = TargetOf(n, i, OrElse(k, <<>>), OrElse(m, 0))
  <1> DEFINE x == OrElse(k, <<>>)
             y == OrElse(m, 0)
             part == TargetOf(n, i, k, m)
  <1>1. part.keywords = k /\ part.maxPages = m
    BY DEF TargetOf
  <1> HIDE DEF x, y
  <1>2. [TargetOf(n, i, k, m) EXCEPT !.keywords = x] = TargetOf(n, i, x, m)
    BY DEF TargetOf
  <1>3. [TargetOf(n, i, x, m) EXCEPT !.maxPages = y] = TargetOf(n, i, x, y)
    BY DEF TargetOf
  <1> HIDE DEF part
  <1>4. Filled(part) = [[part EXCEPT !.keywords = x] EXCEPT !.maxPages = y]
    BY <1>1, Zenon DEF Filled, x, y
  <1> QED
    BY <1>2, <1>3, <1>4, Zenon DEF part, x, y

LEMMA ScraperFilled ==
  ASSUME NEW i, NEW k, NEW m, NEW ts
  PROVE  Filled(ScraperOf(i, k, m, ts)) = ScraperOf(i, OrElse(k, <<>>), OrElse(m, 0), ts)
  <1> DEFINE x == OrElse(k, <<>>)
             y == OrElse(m, 0)
             part == ScraperOf(i, k, m, ts)
  <1>1. part.keywords = k /\ part.maxPages = m
    BY DEF ScraperOf
  <1> HIDE DEF x, y
  <1>2. [ScraperOf(i, k, m, ts) EXCEPT !.keywords = x] = ScraperOf(i, x, m, ts)
    BY DEF ScraperOf
  <1>3. [ScraperOf(i, x, m, ts) EXCEPT !.maxPages = y] = ScraperOf(i, x, y, ts)
    BY DEF ScraperOf
  <1> HIDE DEF part
  <1>4. Filled(part) = [[part EXCEPT !.keywords = x] EXCEPT !.maxPages = y]
    BY <1>1, Zenon DEF Filled, x, y
  <1> QED
    BY <1>2, <1>3, <1>4, Zenon DEF part, x, y

LEMMA EmailTargetFilled ==
  ASSUME NEW i, NEW s, NEW b
  PROVE  FilledEmail(EmailTo(i, s, b)) = EmailTo(i, OrElse(s, ""), OrElse(b, ""))
  <1> DEFINE x == OrElse(s, "")
             y == OrElse(b, "")
             part == EmailTo(i, s, b)
  <1>1. part.subject = s /\ part.body = b
    BY DEF EmailTo
  <1> HIDE DEF x, y
  <1>2. [EmailTo(i, s, b) EXCEPT !.subject = x] = EmailTo(i, x, b)
    BY DEF EmailTo
  <1>3. [EmailTo(i, x, b) EXCEPT !.body = y] = EmailTo(i, x, y)
    BY DEF EmailTo
  <1> HIDE DEF part
  <1>4. FilledEmail(part) = [[part EXCEPT !.subject = x] EXCEPT !.body = y]
    BY <1>1, Zenon DEF FilledEmail, x, y
  <1> QED
    BY <1>2, <1>3, <1>4, Zenon DEF part, x, y

LEMMA EmailFilled ==
  ASSUME NEW i, NEW s, NEW b, NEW ts
  PROVE  FilledEmail(EmailOf(i, s, b, ts)) = EmailOf(i, OrElse(s, ""), OrElse(b, ""), ts)
  <1> DEFINE x == OrElse(s, "")
             y == OrElse(b, "")
             part == EmailOf(i, s, b, ts)
  <1>1. part.subject = s /\ part.body = b
    BY DEF EmailOf
  <1> HIDE DEF x, y
  <1>2. [EmailOf(i, s, b, ts) EXCEPT !.subject = x] = EmailOf(i, x, b, ts)
    BY DEF EmailOf
  <1>3. [EmailOf(i, x, b, ts) EXCEPT !.body = y] = EmailOf(i, x, y, ts)
    BY DEF EmailOf
  <1> HIDE DEF part
  <1>4. FilledEmail(part) = [[part EXCEPT !.subject = x] EXCEPT !.body = y]
    BY <1>1, Zenon DEF FilledEmail, x, y
  <1> QED
    BY <1>2, <1>3, <1>4, Zenon DEF part, x, y

\* What the sheet shows of a saved tool.
LEMMA SavedToolIs ==
  ASSUME NEW n \in Nat
  PROVE  mapToJobFormTool(SavedTool(n)) \in FormTools /\ mapToJobFormTool(SavedTool(n)).toolId = <<0, n>>
  <1> DEFINE part(p) == Filled(p)
             pages == OrElse(1, 0)
             keywords == OrElse(<<"k">>, <<>>)
             old == TargetOf("jobs-ch", <<0, n, 1>>, None, None)
             t == TargetOf("jobs-ch", <<0, n, 1>>, <<>>, 0)
             tool == ScraperOf(<<0, n>>, keywords, pages, <<t>>)
  <1>1. SavedTool(n) = ScraperOf(<<0, n>>, <<"k">>, 1, <<old>>)
    BY DEF SavedTool, ScraperOf, TargetOf
  <1>2. part(old) = t
    <2>1. PICK i : i = <<0, n, 1>>
      OBVIOUS
    <2>2. Filled(TargetOf("jobs-ch", i, None, None)) = TargetOf("jobs-ch", i, OrElse(None, <<>>), OrElse(None, 0))
      BY TargetFilled
    <2> QED
      BY <2>1, <2>2 DEF OrElse
  <1>3. part(SavedTool(n)) = ScraperOf(<<0, n>>, keywords, pages, <<old>>)
    <2> HIDE DEF old
    <2>1. \A k, m, ts : part(ScraperOf(<<0, n>>, k, m, ts)) = ScraperOf(<<0, n>>, OrElse(k, <<>>), OrElse(m, 0), ts)
      BY ScraperFilled, Zenon
    <2> QED
      BY <1>1, <2>1
  <1>4. SavedTool(n).type = "scraper"
    BY DEF SavedTool
  <1> HIDE DEF old
  <1>5. ScraperOf(<<0, n>>, keywords, pages, <<old>>).targets = <<old>>
    BY DEF ScraperOf
  <1>6. mapToJobFormTool(SavedTool(n)) = [part(SavedTool(n)) EXCEPT !.targets = Mapped(part, @)]
    BY <1>4 DEF mapToJobFormTool, Filled, Mapped
  <1>7. Mapped(part, <<old>>) = <<t>>
    <2>1. Mapped(part, <<old>>) = [i \in 1..1 |-> part(<<old>>[i])]
      BY DEF Mapped
    <2>2. <<old>>[1] = old
      OBVIOUS
    <2>3. part(<<old>>[1]) = t
      BY <1>2, <2>2
    <2> HIDE DEF t, part
    <2> QED
      BY <2>1, <2>3, OneElement
  <1>8. mapToJobFormTool(SavedTool(n)) = tool
    BY <1>3, <1>5, <1>6, <1>7 DEF ScraperOf
  <1>9. keywords \in Seq({"k"}) /\ pages \in Nat
    <2>1. <<"k">> \in Seq({"k"}) /\ <<>> \in Seq({"k"}) /\ 0 \in Nat /\ 1 \in Nat
      OBVIOUS
    <2> QED
      BY <2>1, OrElseIn
  <1>10. t \in DialogTargets({"k"}, {"jobs-ch", "job-ich"}, OldIds)
    BY DEF TargetOf, DialogTargets, OldIds
  <1> HIDE DEF t, keywords, pages
  <1>11. <<t>> \in Seq(DialogTargets({"k"}, {"jobs-ch", "job-ich"}, OldIds)) /\ DOMAIN <<t>> = {1}
    BY <1>10
  <1>12. <<0, n>> \in OldIds
    BY DEF OldIds
  <1>13. tool \in FormScrapers /\ tool.targets = <<t>> /\ tool.toolId = <<0, n>>
    BY <1>9, <1>11, <1>12 DEF FormScrapers, Dialogs, ScraperOf
  <1> HIDE DEF tool
  <1>14. TargetsApart(tool)
    BY <1>11, <1>13 DEF TargetsApart
  <1>15. tool \in FormTools
    BY <1>13, <1>14 DEF FormTools
  <1> QED
    BY <1>8, <1>13, <1>15

LEMMA SavedEmailIs ==
  mapToJobFormTool(SavedEmail) \in FormTools
  <1> DEFINE part(p) == FilledEmail(p)
             s == OrElse("s", "")
             b == OrElse("b", "")
             old == EmailTo(<<0, 9, 1>>, None, None)
             t == EmailTo(<<0, 9, 1>>, "", "")
             tool == EmailOf(<<0, 9>>, s, b, <<t>>)
  <1>1. SavedEmail = EmailOf(<<0, 9>>, "s", "b", <<old>>)
    BY DEF SavedEmail, EmailTo, EmailOf
  <1>2. part(old) = t
    <2>1. part(old) = EmailTo(<<0, 9, 1>>, OrElse(None, ""), OrElse(None, ""))
      BY EmailTargetFilled, Zenon
    <2> QED
      BY <2>1 DEF OrElse
  <1>3. part(SavedEmail) = EmailOf(<<0, 9>>, s, b, <<old>>)
    <2> HIDE DEF old
    <2>1. \A x, y, ts : part(EmailOf(<<0, 9>>, x, y, ts)) = EmailOf(<<0, 9>>, OrElse(x, ""), OrElse(y, ""), ts)
      BY EmailFilled, Zenon
    <2> QED
      BY <1>1, <2>1
  <1>4. SavedEmail.type = "email"
    BY DEF SavedEmail
  <1>10. t \in EmailTargets
    BY DEF EmailTargets, OldIds, FormTexts, EmailTo
  <1>9. s \in FormTexts /\ b \in FormTexts
    BY DEF OrElse, FormTexts
  <1> HIDE DEF old, t, s, b
  <1>6. mapToJobFormTool(SavedEmail) = [part(SavedEmail) EXCEPT !.targets = Mapped(part, @)]
    BY <1>4 DEF mapToJobFormTool, FilledEmail, Mapped
  <1>7. Mapped(part, <<old>>) = <<t>>
    <2>1. Mapped(part, <<old>>) = [i \in 1..1 |-> part(<<old>>[i])]
      BY DEF Mapped
    <2>2. <<old>>[1] = old
      OBVIOUS
    <2>3. part(<<old>>[1]) = t
      BY <1>2, <2>2
    <2> HIDE DEF part
    <2> QED
      BY <2>1, <2>3, OneElement
  <1>8. mapToJobFormTool(SavedEmail) = tool
    BY <1>3, <1>6, <1>7 DEF EmailOf
  <1>11. <<t>> \in Seq(EmailTargets) /\ DOMAIN <<t>> = {1}
    BY <1>10
  <1>12. <<0, 9>> \in OldIds
    BY DEF OldIds
  <1>13. tool \in FormEmails /\ tool.targets = <<t>>
    BY <1>9, <1>11, <1>12 DEF FormEmails, EmailOf
  <1> HIDE DEF tool
  <1>14. TargetsApart(tool)
    BY <1>11, <1>13 DEF TargetsApart
  <1> QED
    BY <1>8, <1>13, <1>14 DEF FormTools

LEMMA DatesAre ==
  ASSUME NEW instant \in Nat
  PROVE  DateOf(instant) \in Nat \cup {None} /\ TimeOf(instant) \in Nat \cup {None}
  <1>1. instant \div DayLength \in Nat /\ instant % DayLength \in Nat
    BY DayHasMoments
  <1> QED
    BY <1>1 DEF DateOf, TimeOf

LEMMA EmptyIsForm ==
  /\ emptyForm \in Forms /\ [emptyForm EXCEPT !.isEditing = FALSE] \in Forms
  /\ onFieldChange(emptyForm, "name", "n") \in Forms
  <1> DEFINE EmptyWith(name, tools) ==
               [name |-> name, scheduleType |-> "", scheduleStatus |-> "idle", startDate |-> None,
                startTime |-> None, endDate |-> None, endTime |-> None, tools |-> tools, isEditing |-> FALSE]
  <1>1. <<>> \in Seq(FormTools) /\ ToolsApart(<<>>)
    BY DEF ToolsApart
  <1>2. ASSUME NEW name \in {"", "n"}, NEW tools \in Seq(FormTools), ToolsApart(tools)
        PROVE  EmptyWith(name, tools) \in Forms
    <2>1. EmptyWith(name, tools) \in FormRecords /\ HasItsEnd(EmptyWith(name, tools)) /\ EmptyWith(name, tools).tools = tools
      BY DEF FormRecords, HasItsEnd
    <2> QED
      BY <1>2, <2>1 DEF Forms
  <1>3. emptyForm = EmptyWith("", <<>>)
    BY DEF emptyForm
  <1>4. [emptyForm EXCEPT !.isEditing = FALSE] \in Forms
    <2> DEFINE after == [emptyForm EXCEPT !.isEditing = FALSE]
    <2>1. emptyForm \in Forms
      BY <1>1, <1>2, <1>3
    <2>2. after \in FormRecords /\ after.tools = emptyForm.tools /\ after.scheduleType = emptyForm.scheduleType
          /\ after.endDate = emptyForm.endDate /\ after.endTime = emptyForm.endTime
      BY <2>1, FormParts DEF FormRecords
    <2> HIDE DEF after
    <2>3. after \in Forms
      BY <2>1, <2>2, FormParts DEF Forms, HasItsEnd
    <2> QED
      BY <2>3 DEF after
  <1>5. ASSUME NEW tools
        PROVE  onFieldChange(EmptyWith("", tools), "name", "n") = EmptyWith("n", tools)
    <2>1. onFieldChange(EmptyWith("", tools), "name", "n") = [EmptyWith("", tools) EXCEPT !.name = "n"]
      BY DEF onFieldChange
    <2> QED
      BY <2>1
  <1> HIDE DEF EmptyWith
  <1> QED
    BY <1>1, <1>2, <1>3, <1>4, <1>5

\* The sheet when a saved job is filled in it.
LEMMA OpenedScraperJob ==
  ASSUME NEW state
  PROVE  populate(state, ScraperJob) \in Forms
  <1> DEFINE tools == mapToJobFormTools(ScraperJob.tools)
             filled == [name |-> "n", tools |-> tools, isEditing |-> TRUE, scheduleType |-> "",
                        scheduleStatus |-> "idle", startDate |-> None, startTime |-> None,
                        endDate |-> None, endTime |-> None]
  <1>1. CASE ScraperJob = None
    BY <1>1, EmptyIsForm DEF populate
  <1>2. CASE ScraperJob # None
    <2>1. populate(state, ScraperJob) = filled
      <3>1. ScraperJob.schedule = None /\ ScraperJob.name = "n"
        BY DEF ScraperJob
      <3> HIDE DEF tools
      <3> QED
        BY <1>2, <3>1 DEF populate, tools
    <2>2. /\ DOMAIN tools = 1..2 /\ tools = [i \in 1..2 |-> tools[i]]
          /\ tools[1] = mapToJobFormTool(SavedTool(1)) /\ tools[2] = mapToJobFormTool(SavedTool(2))
      <3> DEFINE saved == <<SavedTool(1), SavedTool(2)>>
      <3>1. ScraperJob.tools = saved
        BY DEF ScraperJob
      <3>2. DOMAIN saved = 1..2 /\ saved[1] = SavedTool(1) /\ saved[2] = SavedTool(2)
        OBVIOUS
      <3> HIDE DEF saved
      <3>3. tools = [i \in DOMAIN saved |-> mapToJobFormTool(saved[i])]
        BY <3>1 DEF mapToJobFormTools, Mapped
      <3> HIDE DEF tools
      <3> QED
        BY <3>2, <3>3
    <2>3. /\ tools[1] \in FormTools /\ tools[2] \in FormTools
          /\ tools[1].toolId = <<0, 1>> /\ tools[2].toolId = <<0, 2>>
      BY <2>2, SavedToolIs
    <2> HIDE DEF tools
    <2>4. tools \in Seq(FormTools)
      BY <2>2, <2>3, FunctionsAreSequences
    <2>5. ToolsApart(tools)
      <3>1. <<0, 1>> # <<0, 2>>
        OBVIOUS
      <3> QED
        BY <2>2, <2>3, <3>1 DEF ToolsApart
    <2>6. filled \in FormRecords /\ HasItsEnd(filled) /\ filled.tools = tools
      BY <2>4 DEF FormRecords, HasItsEnd
    <2> QED
      BY <2>1, <2>5, <2>6 DEF Forms
  <1> QED
    BY <1>1, <1>2

LEMMA OpenedEmailJob ==
  ASSUME NEW state
  PROVE  populate(state, EmailJob) \in Forms
  <1> DEFINE s == EmailJob.schedule
             tools == mapToJobFormTools(EmailJob.tools)
             filled == [name |-> EmailJob.name, tools |-> tools, isEditing |-> TRUE,
                        scheduleType |-> IF s = None THEN "" ELSE s.type,
                        scheduleStatus |-> IF s = None THEN "idle" ELSE s.status,
                        startDate |-> IF s = None THEN None ELSE DateOf(s.startDate),
                        startTime |-> IF s = None THEN None ELSE TimeOf(s.startDate),
                        endDate |-> IF s = None THEN None ELSE DateOf(s.endDate),
                        endTime |-> IF s = None THEN None ELSE TimeOf(s.endDate)]
  <1>1. CASE EmailJob = None
    BY <1>1, EmptyIsForm DEF populate
  <1>2. CASE EmailJob # None
    <2>1. populate(state, EmailJob) = filled
      BY <1>2 DEF populate
    <2>2. tools \in Seq(FormTools) /\ DOMAIN tools = {1}
      <3> DEFINE saved == <<SavedEmail>>
      <3>1. EmailJob.tools = saved
        BY DEF EmailJob
      <3>2. DOMAIN saved = 1..1 /\ saved[1] = SavedEmail
        OBVIOUS
      <3> HIDE DEF saved
      <3>3. tools = [i \in 1..1 |-> mapToJobFormTool(saved[i])]
        BY <3>1, <3>2 DEF mapToJobFormTools, Mapped
      <3> HIDE DEF tools
      <3>4. tools = [i \in 1..1 |-> tools[i]] /\ \A i \in 1..1 : tools[i] \in FormTools
        BY <3>2, <3>3, SavedEmailIs
      <3> QED
        BY <3>3, <3>4, FunctionsAreSequences
    <2>3. EmailJob.name = "n" /\ s.type = "daily" /\ s.status = "idle" /\ s.startDate = 3 /\ s.endDate = 7
      BY DEF EmailJob
    <2>4. /\ DateOf(s.startDate) \in Nat \cup {None} /\ TimeOf(s.startDate) \in Nat \cup {None}
          /\ DateOf(s.endDate) \in Nat \cup {None} /\ TimeOf(s.endDate) \in Nat \cup {None}
      BY <2>3, DatesAre
    <2> HIDE DEF tools, s
    <2>5. filled \in FormRecords /\ HasItsEnd(filled) /\ filled.tools = tools
      BY <2>2, <2>3, <2>4 DEF FormRecords, HasItsEnd
    <2>6. ToolsApart(tools)
      BY <2>2 DEF ToolsApart
    <2> QED
      BY <2>1, <2>5, <2>6 DEF Forms
  <1> QED
    BY <1>1, <1>2

LEMMA FormsStay ==
  ASSUME NEW state \in Forms, NEW event \in FormEvents
  PROVE  FormStep(state, event) \in Forms
  <1>1. /\ populate(state, ScraperJob) \in Forms /\ populate(state, EmailJob) \in Forms
        /\ onToolAdd(state, onTargetChange(initialScraperTool, "jobs-ch")) \in Forms
        /\ EditTool(state, 1) \in Forms /\ EditTool(state, 2) \in Forms
        /\ state.tools # <<>> => onToolRemove(state, 1) \in Forms
    BY OpenedScraperJob, OpenedEmailJob, ToolIsAdded, ToolIsEdited, ToolIsRemoved
  <1>2. /\ \A type \in {"", "once", "daily"} : onScheduleTypeChange(state, type) \in Forms
        /\ onDateChange(state, "startDate", 1) \in Forms
        /\ onFieldChange(state, "startTime", 1) \in Forms
        /\ state.scheduleType \notin {"", "once"} => onDateChange(state, "endDate", 4) \in Forms
        /\ state.scheduleType \notin {"", "once"} => onFieldChange(state, "endTime", 0) \in Forms
        /\ onScheduleStatusChange(state, "stopped") \in Forms
    BY FormWithSchedule
  <1> QED
    BY <1>1, <1>2 DEF FormStep

LEMMA FormsAre ==
  ASSUME NEW events \in Seq(FormEvents)
  PROVE  FormAfter(events) \in Forms
  <1>1. onFieldChange(emptyForm, "name", "n") \in Forms
    BY EmptyIsForm
  <1>2. \A x \in Forms : \A event \in FormEvents : FormStep(x, event) \in Forms
    BY FormsStay
  <1> QED
    BY <1>1, <1>2, FormAfterIn

\* What a form sends has a start whenever it has a type and no end with a once schedule; it
\* sends none without a type, and what cannot be built only when an end date has no time.
THEOREM SchedulesAreWhole ==
  ASSUME NEW state \in Forms, None \notin FormSchedules \cup {InvalidTime}
  PROVE  ScheduleIsWhole(state)
  <1> SUFFICES ASSUME requiredFieldsFilled(state)
               PROVE  LET schedule == mapToSchedule(state) IN
                      /\ schedule = InvalidTime <=> (state.scheduleType # "" /\ state.endDate # None /\ state.endTime = None)
                      /\ (schedule = None) <=> (state.scheduleType = "")
                      /\ (schedule \notin {None, InvalidTime} /\ schedule.type = "once") => schedule.endDate = None
    BY DEF ScheduleIsWhole
  <1> DEFINE schedule == mapToSchedule(state)
             end == IF state.endDate = None THEN None ELSE Instant(state.endDate, state.endTime)
  <1>1. /\ state.scheduleType \in {"", "once", "daily"} /\ state.scheduleStatus \in {"idle", "stopped"}
        /\ state.startDate \in Nat \cup {None} /\ state.startTime \in Nat \cup {None}
        /\ state.endDate \in Nat \cup {None} /\ state.endTime \in Nat \cup {None}
        /\ HasItsEnd(state)
    BY FormParts
  <1>2. state.scheduleType # "" => state.startDate \in Nat /\ state.startTime \in Nat
    BY <1>1 DEF requiredFieldsFilled
  <1>3. \A d, t \in Nat : Instant(d, t) \in Nat
    BY DayHasMoments DEF Instant
  <1>4. CASE state.scheduleType = ""
    BY <1>1, <1>4 DEF mapToSchedule
  <1>5. CASE state.scheduleType # "" /\ state.endDate # None /\ state.endTime = None
    <2>1. schedule = InvalidTime
      BY <1>5 DEF mapToSchedule
    <2> QED
      BY <1>5, <2>1
  <1>6. CASE state.scheduleType # "" /\ ~(state.endDate # None /\ state.endTime = None)
    <2>1. schedule = [type |-> state.scheduleType, status |-> state.scheduleStatus,
                      startDate |-> Instant(state.startDate, state.startTime), endDate |-> end]
      BY <1>2, <1>6 DEF mapToSchedule, requiredFieldsFilled
    <2>2. end \in Nat \cup {None} /\ Instant(state.startDate, state.startTime) \in Nat
      BY <1>1, <1>2, <1>3, <1>6
    <2> HIDE DEF end
    <2> HIDE DEF schedule
    <2>3. schedule \in FormSchedules /\ schedule.type = state.scheduleType /\ schedule.endDate = end
      <3>1. state.scheduleType \in {"once", "daily"}
        BY <1>1, <1>6
      <3> QED
        BY <1>1, <2>1, <2>2, <3>1 DEF FormSchedules
    <2>4. schedule # InvalidTime /\ schedule # None
      BY <2>3 DEF FormSchedules, InvalidTime
    <2>5. schedule.type = "once" => end = None
      BY <1>1, <2>3 DEF HasItsEnd, end
    <2> QED
      BY <1>6, <2>3, <2>4, <2>5 DEF schedule
  <1> QED
    BY <1>4, <1>5, <1>6

-----------------------------------------------------------------------------
\* The ids of a form's tools

\* A tool with the fields of its ids.
HasIds(tool) ==
  /\ "toolId" \in DOMAIN tool /\ "targets" \in DOMAIN tool
  /\ \A k \in DOMAIN tool.targets : "targetId" \in DOMAIN tool.targets[k]

\* Two tools whose targets are as many, and with the same ids.
SameTargets(tool, other) == DOMAIN other.targets = DOMAIN tool.targets

SameIds(tool, other) ==
  /\ other.toolId = tool.toolId /\ SameTargets(tool, other)
  /\ \A k \in DOMAIN tool.targets : other.targets[k].targetId = tool.targets[k].targetId

NoIds(tool) == tool.toolId = None /\ \A k \in DOMAIN tool.targets : tool.targets[k].targetId = None

Rewritten(tool, id, targets) == [[tool EXCEPT !.toolId = id] EXCEPT !.targets = targets]

\* What an update of a field does to the ids.
LEMMA TargetsReplaced ==
  ASSUME NEW tool, HasIds(tool), NEW id, NEW targets, DOMAIN targets = DOMAIN tool.targets,
         \A k \in DOMAIN targets : "targetId" \in DOMAIN targets[k]
  PROVE  /\ HasIds(Rewritten(tool, id, targets))
         /\ Rewritten(tool, id, targets).toolId = id /\ Rewritten(tool, id, targets).targets = targets
  <1> DEFINE with == [tool EXCEPT !.toolId = id]
             other == [with EXCEPT !.targets = targets]
  <1>1. with.toolId = id /\ DOMAIN with = DOMAIN tool
    BY DEF HasIds
  <1> HIDE DEF with
  <1>2. other.toolId = id /\ other.targets = targets /\ DOMAIN other = DOMAIN tool
    BY <1>1 DEF HasIds
  <1> HIDE DEF other
  <1>3. HasIds(other)
    BY <1>2 DEF HasIds
  <1> QED
    BY <1>2, <1>3 DEF other, with, Rewritten

LEMMA IdsAreDrawn ==
  ASSUME NEW tool, HasIds(tool), NEW fresh
  PROVE  LET saved == mapToIds(tool, fresh) IN
         /\ saved.toolId = OrElse(tool.toolId, <<fresh>>) /\ SameTargets(tool, saved)
         /\ \A k \in DOMAIN tool.targets :
              saved.targets[k].targetId = OrElse(tool.targets[k].targetId, <<fresh, k>>)
  <1> DEFINE id == OrElse(tool.toolId, <<fresh>>)
             targets == [k \in DOMAIN tool.targets |->
                          [tool.targets[k] EXCEPT !.targetId = OrElse(@, <<fresh, k>>)]]
             saved == Rewritten(tool, id, targets)
  <1>1. mapToIds(tool, fresh) = saved
    <2>1. [tool EXCEPT !.toolId = id].targets = tool.targets
      BY DEF HasIds
    <2> QED
      BY <2>1 DEF mapToIds, Rewritten
  <1>2. DOMAIN targets = DOMAIN tool.targets
    OBVIOUS
  <1>3. ASSUME NEW k \in DOMAIN tool.targets
        PROVE  /\ targets[k].targetId = OrElse(tool.targets[k].targetId, <<fresh, k>>)
               /\ "targetId" \in DOMAIN targets[k]
    <2> DEFINE x == OrElse(tool.targets[k].targetId, <<fresh, k>>)
    <2>1. targets[k] = [tool.targets[k] EXCEPT !.targetId = x]
      BY <1>3
    <2> HIDE DEF x, targets
    <2>2. targets[k].targetId = x /\ "targetId" \in DOMAIN targets[k]
      BY <2>1 DEF HasIds
    <2> QED
      BY <2>2 DEF x
  <1> HIDE DEF targets, id
  <1>4. saved.toolId = id /\ saved.targets = targets
    <2>1. \A k \in DOMAIN targets : "targetId" \in DOMAIN targets[k]
      BY <1>2, <1>3
    <2> QED
      BY <1>2, <2>1, TargetsReplaced
  <1> HIDE DEF saved
  <1> QED
    BY <1>1, <1>2, <1>3, <1>4 DEF SameTargets, id

LEMMA IdsAreDropped ==
  ASSUME NEW tool, HasIds(tool)
  PROVE  LET bare == createJobToolSchema(tool) IN HasIds(bare) /\ SameTargets(tool, bare) /\ NoIds(bare)
  <1> DEFINE targets == Mapped(LAMBDA t : [t EXCEPT !.targetId = None], tool.targets)
             bare == Rewritten(tool, None, targets)
  <1>1. createJobToolSchema(tool) = bare
    <2>1. [tool EXCEPT !.toolId = None].targets = tool.targets
      BY DEF HasIds
    <2> QED
      BY <2>1 DEF createJobToolSchema, Rewritten
  <1>2. DOMAIN targets = DOMAIN tool.targets
        /\ \A k \in DOMAIN tool.targets : targets[k] = [tool.targets[k] EXCEPT !.targetId = None]
    BY DEF Mapped
  <1> HIDE DEF targets
  <1>3. \A k \in DOMAIN targets : targets[k].targetId = None /\ "targetId" \in DOMAIN targets[k]
    BY <1>2 DEF HasIds
  <1>4. HasIds(bare) /\ bare.toolId = None /\ bare.targets = targets
    BY <1>2, <1>3, TargetsReplaced
  <1> HIDE DEF bare
  <1> QED
    BY <1>1, <1>2, <1>3, <1>4 DEF SameTargets, NoIds

\* An update sends the ids of the form, a new job as many targets.
LEMMA FormToolIds ==
  ASSUME NEW tool \in FormTools
  PROVE  /\ HasIds(tool) /\ TargetsApart(tool) /\ tool.type \in {"scraper", "email"}
         /\ tool.toolId \in OldIds
         /\ \A k \in DOMAIN tool.targets : k \in Nat /\ tool.targets[k].targetId \in OldIds
         /\ tool.type = "scraper" =>
              /\ "keywords" \in DOMAIN tool
              /\ \A k \in DOMAIN tool.targets : "keywords" \in DOMAIN tool.targets[k]
         /\ tool.type = "email" => "body" \in DOMAIN tool
  <1>1. TargetsApart(tool)
    BY DEF FormTools
  <1>2. CASE tool \in FormScrapers
    <2>1. /\ tool.type = "scraper" /\ tool.toolId \in OldIds
          /\ \A k \in DOMAIN tool.targets : tool.targets[k] \in DialogTargets({"k"}, {"jobs-ch", "job-ich"}, OldIds)
          /\ DOMAIN tool.targets \subseteq Nat
      BY <1>2, ScraperIn DEF FormScrapers
    <2>2. DOMAIN tool = {"type", "toolId", "keywords", "maxPages", "targets"}
      BY <1>2 DEF FormScrapers, Dialogs
    <2>3. \A t \in DialogTargets({"k"}, {"jobs-ch", "job-ich"}, OldIds) :
            "targetId" \in DOMAIN t /\ "keywords" \in DOMAIN t /\ t.targetId \in OldIds
      BY DEF DialogTargets
    <2> QED
      BY <1>1, <2>1, <2>2, <2>3 DEF HasIds
  <1>3. CASE tool \in FormEmails
    <2>1. tool.type = "email" /\ tool.toolId \in OldIds /\ tool.targets \in Seq(EmailTargets)
      BY <1>3 DEF FormEmails
    <2>2. DOMAIN tool = {"type", "toolId", "subject", "body", "targets"}
      BY <1>3 DEF FormEmails
    <2>3. \A t \in EmailTargets : "targetId" \in DOMAIN t /\ t.targetId \in OldIds
      BY DEF EmailTargets
    <2>4. \A k \in DOMAIN tool.targets : k \in Nat /\ tool.targets[k] \in EmailTargets
      BY <2>1
    <2> QED
      BY <1>1, <2>1, <2>2, <2>3, <2>4 DEF HasIds
  <1> QED
    BY <1>2, <1>3 DEF FormTools

LEMMA UpdateKeepsIds ==
  ASSUME NEW tool \in FormTools
  PROVE  HasIds(mapToUpdateJobTool(tool)) /\ SameIds(tool, mapToUpdateJobTool(tool))
  <1>1. CASE tool.type = "scraper"
    <2> DEFINE with == KeywordsOrNone(tool)
               targets == Mapped(KeywordsOrNone, tool.targets)
               sent == [with EXCEPT !.targets = targets]
    <2>1. HasIds(tool) /\ "keywords" \in DOMAIN tool
          /\ \A k \in DOMAIN tool.targets : "keywords" \in DOMAIN tool.targets[k]
      BY <1>1, FormToolIds
    <2>2. DOMAIN with = DOMAIN tool /\ with.toolId = tool.toolId /\ with.targets = tool.targets
      BY <2>1 DEF KeywordsOrNone, HasIds
    <2>3. mapToUpdateJobTool(tool) = sent
      BY <1>1, <2>2 DEF mapToUpdateJobTool, scraperPayload
    <2>4. DOMAIN targets = DOMAIN tool.targets /\ \A k \in DOMAIN tool.targets : targets[k] = KeywordsOrNone(tool.targets[k])
      BY DEF Mapped
    <2>5. \A k \in DOMAIN tool.targets :
            "targetId" \in DOMAIN targets[k] /\ targets[k].targetId = tool.targets[k].targetId
      BY <2>1, <2>4 DEF KeywordsOrNone, HasIds
    <2> HIDE DEF with, targets
    <2>6. sent.toolId = tool.toolId /\ sent.targets = targets /\ DOMAIN sent = DOMAIN tool
      BY <2>1, <2>2 DEF HasIds
    <2> HIDE DEF sent
    <2>7. HasIds(sent) /\ SameIds(tool, sent)
      BY <2>1, <2>4, <2>5, <2>6 DEF HasIds, SameIds, SameTargets
    <2> QED
      BY <2>3, <2>7
  <1>2. CASE tool.type = "email"
    <2> DEFINE sent == [tool EXCEPT !.body = None]
    <2>1. mapToUpdateJobTool(tool) = sent
      BY <1>2 DEF mapToUpdateJobTool
    <2>2. HasIds(tool)
      BY FormToolIds
    <2>3. sent.toolId = tool.toolId /\ sent.targets = tool.targets /\ DOMAIN sent = DOMAIN tool
      BY <2>2 DEF HasIds
    <2> HIDE DEF sent
    <2>4. HasIds(sent) /\ SameIds(tool, sent)
      BY <2>2, <2>3 DEF HasIds, SameIds, SameTargets
    <2> QED
      BY <2>1, <2>4
  <1> QED
    BY <1>1, <1>2, FormToolIds

LEMMA CreateHasIds ==
  ASSUME NEW tool \in FormTools
  PROVE  HasIds(mapToCreateJobTool(tool)) /\ SameTargets(tool, mapToCreateJobTool(tool))
  <1> DEFINE sent == IF tool.type = "scraper" THEN scraperPayload(tool) ELSE tool
  <1>1. HasIds(sent) /\ SameTargets(tool, sent)
    <2>1. CASE tool.type = "scraper"
      BY <2>1, UpdateKeepsIds DEF mapToUpdateJobTool, SameIds
    <2>2. CASE tool.type # "scraper"
      BY <2>2, FormToolIds DEF SameTargets
    <2> QED
      BY <2>1, <2>2
  <1>2. mapToCreateJobTool(tool) = [sent EXCEPT !.toolId = None]
    BY DEF mapToCreateJobTool
  <1> HIDE DEF sent
  <1> DEFINE new == [sent EXCEPT !.toolId = None]
  <1>3. DOMAIN new = DOMAIN sent /\ new.targets = sent.targets
    BY <1>1 DEF HasIds
  <1> HIDE DEF new
  <1> QED
    BY <1>1, <1>2, <1>3 DEF HasIds, SameTargets, new

\* Drawn where there are none, ids stay apart.
LEMMA DrawnIdsDiffer ==
  ASSUME NEW S, NEW ids, NEW drawn, NEW fresh, DOMAIN drawn = S, DOMAIN ids = S,
         \A k \in S : drawn[k] = OrElse(ids[k], fresh[k]),
         \A i, k \in S : ids[i] = ids[k] => i = k \/ ids[i] = None,
         \A i, k \in S : fresh[i] = fresh[k] => i = k,
         \A i, k \in S : ids[i] # None => ids[i] # fresh[k]
  PROVE  IsInjective(drawn)
  BY DEF IsInjective, OrElse

\* Tools and targets keep their identity across an edit, new ones get their own, whatever the
\* user did in the form (randomUUID() draws ids that are not in use).
THEOREM IdsStay ==
  ASSUME NEW state \in Forms
  PROVE  IdsAreStable(state)
  <1> DEFINE tools == state.tools
             saved == Saved((IF state.isEditing THEN updateJobInputSchema(onFormSubmit(state))
                             ELSE createJobInputSchema(onFormSubmit(state))).tools)
             targetIds(tool) == Mapped(LAMBDA t : t.targetId, tool.targets)
  <1>1. tools \in Seq(FormTools) /\ ToolsApart(tools)
    BY FormParts
  <1>2. \A i \in DOMAIN tools : tools[i] \in FormTools /\ i \in Nat
    BY <1>1
  <1>3. ASSUME NEW i \in Nat, NEW k \in Nat, NEW id \in OldIds, id # None, NEW m \in Nat \ {0}
        PROVE  id # <<m>> /\ id # <<m, k>>
    BY <1>3 DEF OldIds
  <1>4. CASE state.isEditing
    <2> DEFINE sent == Mapped(mapToUpdateJobTool, tools)
    <2>1. saved = [i \in DOMAIN tools |-> mapToIds(mapToUpdateJobTool(tools[i]), i)]
      BY <1>4 DEF onFormSubmit, mapToUpdateJobPayload, updateJobInputSchema, updateJobToolSchema, Saved, Mapped
    <2> HIDE DEF saved
    <2>2. ASSUME NEW i \in DOMAIN tools
          PROVE  /\ saved[i].toolId = OrElse(tools[i].toolId, <<i>>) /\ SameTargets(tools[i], saved[i])
                 /\ \A k \in DOMAIN tools[i].targets :
                      saved[i].targets[k].targetId = OrElse(tools[i].targets[k].targetId, <<i, k>>)
      <3> DEFINE payload == mapToUpdateJobTool(tools[i])
      <3>1. HasIds(payload) /\ SameIds(tools[i], payload)
        BY <1>2, UpdateKeepsIds
      <3>2. saved[i] = mapToIds(payload, i)
        BY <2>1
      <3> HIDE DEF payload
      <3> QED
        BY <3>1, <3>2, IdsAreDrawn DEF SameIds, SameTargets
    <2>3. DOMAIN saved = DOMAIN tools
      BY <2>1
    <2>4. ASSUME NEW i \in DOMAIN saved
          PROVE  /\ tools[i].toolId # None => saved[i].toolId = tools[i].toolId
                 /\ \A k \in DOMAIN saved[i].targets :
                      tools[i].targets[k].targetId \in {None, saved[i].targets[k].targetId}
      BY <2>2, <2>3 DEF OrElse, SameTargets
    <2>5. ASSUME NEW i \in DOMAIN saved
          PROVE  IsInjective(targetIds(saved[i]))
      <3> DEFINE S == DOMAIN tools[i].targets
                 ids == [k \in S |-> tools[i].targets[k].targetId]
                 fresh == [k \in S |-> <<i, k>>]
                 drawn == targetIds(saved[i])
      <3>1. i \in DOMAIN tools /\ tools[i] \in FormTools /\ i \in 1..Len(tools) /\ i \in Nat \ {0}
        BY <1>1, <1>2, <2>3
      <3>2. TargetsApart(tools[i]) /\ \A k \in S : k \in Nat /\ tools[i].targets[k].targetId \in OldIds
        BY <3>1, FormToolIds
      <3>3. DOMAIN drawn = S /\ \A k \in S : drawn[k] = OrElse(ids[k], fresh[k])
        BY <2>2, <3>1 DEF Mapped, SameTargets
      <3>4. \A j, k \in S : ids[j] # None => ids[j] # fresh[k]
        BY <1>3, <3>1, <3>2
      <3>5. \A j, k \in S : ids[j] = ids[k] => j = k \/ ids[j] = None
        BY <3>2 DEF TargetsApart
      <3>6. \A j, k \in S : fresh[j] = fresh[k] => j = k
        OBVIOUS
      <3>7. DOMAIN ids = S
        OBVIOUS
      <3> HIDE DEF S, ids, fresh, drawn
      <3> QED
        BY <3>3, <3>4, <3>5, <3>6, <3>7, DrawnIdsDiffer DEF drawn
    <2>6. IsInjective(Mapped(LAMBDA tool : tool.toolId, saved))
      <3> DEFINE S == DOMAIN tools
                 ids == [i \in S |-> tools[i].toolId]
                 fresh == [i \in S |-> <<i>>]
                 drawn == Mapped(LAMBDA tool : tool.toolId, saved)
      <3>1. DOMAIN drawn = S /\ \A k \in S : drawn[k] = OrElse(ids[k], fresh[k])
        BY <2>2, <2>3 DEF Mapped
      <3>2. \A k \in S : k \in Nat \ {0} /\ ids[k] \in OldIds
        BY <1>1, <1>2, FormToolIds
      <3>3. \A j, k \in S : ids[j] # None => ids[j] # fresh[k]
        BY <1>3, <3>2
      <3>4. \A j, k \in S : ids[j] = ids[k] => j = k \/ ids[j] = None
        BY <1>1 DEF ToolsApart
      <3>5. \A j, k \in S : fresh[j] = fresh[k] => j = k
        OBVIOUS
      <3>6. DOMAIN ids = S
        OBVIOUS
      <3> HIDE DEF S, ids, fresh, drawn
      <3> QED
        BY <3>1, <3>3, <3>4, <3>5, <3>6, DrawnIdsDiffer DEF drawn
    <2> QED
      BY <1>4, <2>4, <2>5, <2>6 DEF IdsAreStable, saved
  <1>5. CASE ~state.isEditing
    <2>1. saved = [i \in DOMAIN tools |-> mapToIds(createJobToolSchema(mapToCreateJobTool(tools[i])), i)]
      BY <1>5 DEF onFormSubmit, mapToCreateJobPayload, createJobInputSchema, Saved, Mapped
    <2> HIDE DEF saved
    <2>2. ASSUME NEW i \in DOMAIN tools
          PROVE  /\ saved[i].toolId = <<i>>
                 /\ \A k \in DOMAIN saved[i].targets : saved[i].targets[k].targetId = <<i, k>>
      <3> DEFINE sent == mapToCreateJobTool(tools[i])
                 bare == createJobToolSchema(sent)
      <3>1. HasIds(sent)
        BY <1>2, CreateHasIds
      <3>2. HasIds(bare) /\ NoIds(bare)
        BY <3>1, IdsAreDropped
      <3>3. saved[i] = mapToIds(bare, i)
        BY <2>1
      <3> HIDE DEF sent, bare
      <3> QED
        <4>1. /\ saved[i].toolId = OrElse(bare.toolId, <<i>>) /\ DOMAIN saved[i].targets = DOMAIN bare.targets
              /\ \A k \in DOMAIN bare.targets :
                   saved[i].targets[k].targetId = OrElse(bare.targets[k].targetId, <<i, k>>)
          BY <3>2, <3>3, IdsAreDrawn DEF SameTargets
        <4>2. \A x : OrElse(None, x) = x
          BY DEF OrElse
        <4> QED
          BY <3>2, <4>1, <4>2 DEF NoIds
    <2>3. DOMAIN saved = DOMAIN tools
      BY <2>1
    <2>4. ASSUME NEW i \in DOMAIN saved
          PROVE  IsInjective(targetIds(saved[i]))
      <3>1. \A k \in DOMAIN saved[i].targets : targetIds(saved[i])[k] = <<i, k>>
        BY <2>2, <2>3 DEF Mapped
      <3>2. DOMAIN targetIds(saved[i]) = DOMAIN saved[i].targets
        BY DEF Mapped
      <3> HIDE DEF targetIds
      <3> QED
        BY <3>1, <3>2 DEF IsInjective
    <2>5. IsInjective(Mapped(LAMBDA tool : tool.toolId, saved))
      <3> DEFINE drawn == Mapped(LAMBDA tool : tool.toolId, saved)
      <3>1. DOMAIN drawn = DOMAIN saved /\ \A i \in DOMAIN drawn : drawn[i] = <<i>>
        BY <2>2, <2>3 DEF Mapped
      <3> HIDE DEF drawn
      <3>2. IsInjective(drawn)
        BY <3>1 DEF IsInjective
      <3> QED
        BY <3>2 DEF drawn
    <2> QED
      BY <1>5, <2>4, <2>5 DEF IdsAreStable, saved
  <1> QED
    BY <1>4, <1>5, FormParts

-----------------------------------------------------------------------------
\* The registration form

\* The recursion of RegistrationAfter.
RegistrationIter(events, n, g) ==
  [T \in SUBSET (1..n) |->
     IF T = {} THEN InitialForm(TRUE) ELSE FormEventStep(g[T \ {Max(T)}], events[Max(T)])]

LEMMA RegistrationIsIter ==
  ASSUME NEW events, NEW n, DOMAIN events = 1..n
  PROVE  RegistrationAfter(events) = (CHOOSE g : g = RegistrationIter(events, n, g))[1..n]
  BY DEF RegistrationAfter, FoldLeft, MapThenFoldSet, RegistrationIter

\* Where the events lead the registration form, if none of them leads out of X.
LEMMA RegistrationIn ==
  ASSUME NEW X, InitialForm(TRUE) \in X, NEW E, NEW events \in Seq(E),
         \A x \in X : \A event \in E : FormEventStep(x, event) \in X
  PROVE  RegistrationAfter(events) \in X
  <1> DEFINE n == Len(events)
             base == InitialForm(TRUE)
             step == [k \in 1..n |-> [x \in X |-> FormEventStep(x, events[k])]]
             h == CHOOSE g : g = RegistrationIter(events, n, g)
  <1>1. n \in Nat /\ DOMAIN events = 1..n /\ \A k \in 1..n : events[k] \in E
    OBVIOUS
  <1> HIDE DEF n
  <1>2. \A x \in X : \A k \in 1..n : step[k][x] = FormEventStep(x, events[k])
    OBVIOUS
  <1> HIDE DEF step
  <1>3. \A x \in X : \A k \in 1..n : step[k][x] \in X
    BY <1>1, <1>2
  <1>4. base \in X
    OBVIOUS
  <1> HIDE DEF base
  <1>5. PICK g : g = Steps(step, base, n, g) /\ \A T \in SUBSET (1..n) : g[T] \in X
    BY <1>1, <1>3, <1>4, StepsExist
  <1>6. ASSUME NEW T \in SUBSET (1..n), T # {}
        PROVE  step[Max(T)][g[T \ {Max(T)}]] = FormEventStep(g[T \ {Max(T)}], events[Max(T)])
    <2>1. T \in SUBSET (0..n)
      OBVIOUS
    <2>2. Max(T) \in 1..n
      BY <1>1, <1>6, <2>1, MaxIn
    <2>3. g[T \ {Max(T)}] \in X
      BY <1>5
    <2> QED
      BY <1>2, <2>2, <2>3
  <1>7. g = RegistrationIter(events, n, g)
    BY <1>5, <1>6 DEF Steps, RegistrationIter, base
  <1>8. h = RegistrationIter(events, n, h)
    BY <1>7
  <1>9. RegistrationAfter(events) = h[1..n]
    BY <1>1, RegistrationIsIter
  <1> HIDE DEF h
  <1>10. h[{}] \in X
    <2>1. {} \in SUBSET (1..n)
      OBVIOUS
    <2> QED
      BY <1>4, <1>8, <2>1 DEF RegistrationIter, base
  <1>11. ASSUME NEW k \in 1..n
         PROVE  h[1..k] = FormEventStep(h[1..(k - 1)], events[k])
    <2>1. 1..k \in SUBSET (1..n) /\ 1..k # {} /\ Max(1..k) = k /\ (1..k) \ {k} = 1..(k - 1)
      BY <1>1, PrefixFacts
    <2> QED
      BY <1>8, <2>1 DEF RegistrationIter
  <1>12. ASSUME NEW k \in 1..n, h[1..(k - 1)] \in X
         PROVE  h[1..k] \in X
    <2>1. events[k] \in E
      BY <1>1
    <2> QED
      BY <1>11, <1>12, <2>1
  <1>13. FoldStays(X, n, h)
    BY <1>10, <1>12, Zenon DEF FoldStays
  <1>14. h[1..n] \in X
    BY <1>1, <1>13, FoldEnds
  <1> QED
    BY <1>9, <1>14

\* Passwords told apart by their texts, of which a blank one meets no policy.
ArePasswords(passwords) ==
  /\ NoPassword \in passwords
  /\ \A p, q \in passwords : p.text = q.text => p.has = q.has
  /\ \A p \in passwords : p.text = "" => p.has # Requirements

RegistrationOf(r, p, c, valid, validator) ==
  [register |-> r, password |-> p, confirmation |-> c, isPasswordValid |-> valid, validator |-> validator]

\* The form while and after the validator is mounted.
Validated(form) ==
  IF MeetsRequirements(form) THEN form.validator = TRUE /\ form.isPasswordValid = TRUE
  ELSE form.validator = FALSE

Registrations(passwords) ==
  {form \in [register : BOOLEAN, password : passwords, confirmation : passwords, isPasswordValid : BOOLEAN,
             validator : BOOLEAN \cup {None}] :
     IF form.register = TRUE THEN Validated(form) ELSE form.validator = None}

\* Those of a user who has not been to the login form: all the validator knows was reported.
FreshRegistrations(passwords) ==
  {form \in Registrations(passwords) : form.register = TRUE /\ form.isPasswordValid = form.validator}

\* The form with what the validator reports.
Reported(form, valid) == [[form EXCEPT !.validator = valid] EXCEPT !.isPasswordValid = valid]

LEMMA ReportIs ==
  ASSUME NEW r, NEW p, NEW c, NEW valid, NEW w, NEW v
  PROVE  Reported(RegistrationOf(r, p, c, valid, w), v) = RegistrationOf(r, p, c, v, v)
  <1>1. [RegistrationOf(r, p, c, valid, w) EXCEPT !.validator = v] = RegistrationOf(r, p, c, valid, v)
    BY DEF RegistrationOf
  <1>2. [RegistrationOf(r, p, c, valid, v) EXCEPT !.isPasswordValid = v] = RegistrationOf(r, p, c, v, v)
    BY DEF RegistrationOf
  <1> QED
    BY <1>1, <1>2, Zenon DEF Reported

\* What the form looks like after an event, before the validator's effect, and whether it meets
\* the requirements does not depend on the validator.
LEMMA MeetsIs ==
  ASSUME NEW r, NEW p, NEW c, NEW v, NEW w, NEW s, NEW x, NEW y
  PROVE  MeetsRequirements(RegistrationOf(r, p, c, v, w)) <=> MeetsRequirements(RegistrationOf(s, p, c, x, y))
  BY DEF MeetsRequirements, passwordsMatch, RegistrationOf

LEMMA RenderedIs ==
  ASSUME NEW P, NEW p \in P, NEW c \in P, NEW valid, NEW w, NEW r
  PROVE  (valid \in BOOLEAN /\ w \in BOOLEAN /\ r = TRUE /\ None \notin BOOLEAN) =>
           LET form == RegistrationOf(r, p, c, valid, w) IN
           /\ (w = TRUE => valid = TRUE) => Rendered(form) \in Registrations(P)
           /\ valid = w => Rendered(form) \in FreshRegistrations(P)
  <1> DEFINE form == RegistrationOf(r, p, c, valid, w)
             yes == RegistrationOf(r, p, c, TRUE, TRUE)
             no(v) == RegistrationOf(r, p, c, v, FALSE)
  <1>5. /\ MeetsRequirements(yes) <=> MeetsRequirements(form)
        /\ \A v : MeetsRequirements(no(v)) <=> MeetsRequirements(form)
    <2>1. \A v, w1, x, y : MeetsRequirements(RegistrationOf(r, p, c, v, w1)) <=> MeetsRequirements(RegistrationOf(r, p, c, x, y))
      BY MeetsIs
    <2> QED
      BY <2>1
  <1>12. /\ MeetsRequirements(form) /\ w = TRUE => Effect(form) = form
         /\ MeetsRequirements(form) /\ w = FALSE => Effect(form) = yes
         /\ ~MeetsRequirements(form) /\ w = TRUE => Effect(form) = no(FALSE)
         /\ ~MeetsRequirements(form) /\ w = FALSE => Effect(form) = form
    <2>1. form.validator = w
      BY DEF RegistrationOf
    <2>2. ASSUME NEW v
          PROVE  Reported(form, v) = RegistrationOf(r, p, c, v, v)
      BY ReportIs
    <2> HIDE DEF form
    <2>3. MeetsRequirements(form) /\ w = TRUE => Effect(form) = form
      BY <2>1, Zenon DEF Effect
    <2>4. MeetsRequirements(form) /\ w = FALSE => Effect(form) = yes
      BY <2>1, <2>2, Zenon DEF Effect, Reported
    <2>5. ~MeetsRequirements(form) /\ w = TRUE => Effect(form) = no(FALSE)
      BY <2>1, <2>2, Zenon DEF Effect, Reported
    <2>6. ~MeetsRequirements(form) /\ w = FALSE => Effect(form) = form
      BY <2>1, Zenon DEF Effect
    <2> QED
      BY <2>3, <2>4, <2>5, <2>6
  <1> HAVE valid \in BOOLEAN /\ w \in BOOLEAN /\ r = TRUE /\ None \notin BOOLEAN
  <1>1. w # None
    OBVIOUS
  <1>2. Rendered(form) = Effect(form)
    <2>1. form.validator = w
      BY DEF RegistrationOf
    <2> QED
      BY <1>1, <2>1, Zenon DEF Rendered
  <1>3. MeetsRequirements(yes) => yes \in FreshRegistrations(P) /\ yes \in Registrations(P)
    BY DEF RegistrationOf, FreshRegistrations, Registrations, Validated
  <1>4. ASSUME NEW v \in BOOLEAN
        PROVE  /\ ~MeetsRequirements(no(v)) => no(v) \in Registrations(P)
               /\ ~MeetsRequirements(no(v)) /\ v = FALSE => no(v) \in FreshRegistrations(P)
    BY DEF RegistrationOf, FreshRegistrations, Registrations, Validated
  <1>6. w = TRUE \/ w = FALSE
    OBVIOUS
  <1>7. valid = TRUE \/ valid = FALSE
    OBVIOUS
  <1>8. CASE MeetsRequirements(form) /\ w = TRUE
    <2>1. Effect(form) = form
      BY <1>8, <1>12, Zenon
    <2>2. valid = TRUE => form = yes
      BY <1>8, Zenon
    <2> QED
      BY <1>2, <1>3, <1>5, <1>8, <2>1, <2>2, Zenon
  <1>9. CASE MeetsRequirements(form) /\ w = FALSE
    <2>1. Effect(form) = yes
      BY <1>9, <1>12, Zenon
    <2> QED
      BY <1>2, <1>3, <1>5, <1>9, <2>1, Zenon
  <1>10. CASE ~MeetsRequirements(form) /\ w = TRUE
    <2>1. Effect(form) = no(FALSE)
      BY <1>10, <1>12, Zenon
    <2> QED
      BY <1>2, <1>4, <1>5, <1>10, <2>1, Zenon
  <1>11. CASE ~MeetsRequirements(form) /\ w = FALSE
    <2>1. Effect(form) = no(valid)
      BY <1>11, <1>12, Zenon
    <2> QED
      BY <1>2, <1>4, <1>5, <1>11, <2>1, Zenon
  <1> QED
    BY <1>6, <1>8, <1>9, <1>10, <1>11, Zenon

\* A form as its parts.
LEMMA RegistrationParts ==
  ASSUME NEW P, NEW form \in Registrations(P)
  PROVE  form = RegistrationOf(form.register, form.password, form.confirmation, form.isPasswordValid, form.validator)
  BY DEF Registrations, RegistrationOf

LEMMA RegistrationIs ==
  ASSUME NEW P, NEW form \in Registrations(P)
  PROVE  /\ form.register \in BOOLEAN /\ form.password \in P /\ form.confirmation \in P
         /\ form.isPasswordValid \in BOOLEAN
         /\ form.register = TRUE => /\ form.validator \in BOOLEAN
                                    /\ form.validator = TRUE => form.isPasswordValid = TRUE /\ MeetsRequirements(form)
                                    /\ MeetsRequirements(form) => form.validator = TRUE
         /\ form.register = FALSE => form.validator = None
  <1>2. /\ form.register \in BOOLEAN /\ form.password \in P /\ form.confirmation \in P
        /\ form.isPasswordValid \in BOOLEAN
        /\ IF form.register = TRUE THEN Validated(form) ELSE form.validator = None
    BY DEF Registrations
  <1>3. form.register = TRUE => /\ form.validator \in BOOLEAN
                                /\ form.validator = TRUE => form.isPasswordValid = TRUE /\ MeetsRequirements(form)
                                /\ MeetsRequirements(form) => form.validator = TRUE
    BY <1>2 DEF Validated
  <1> QED
    BY <1>2, <1>3

RegistrationEventsOf(P) ==
  [field : {"password", "confirmation"}, value : P] \cup [field : {"switch"}, value : {NoPassword}]

FieldEventsOf(P) == [field : {"password", "confirmation"}, value : P]

\* The form whose fields are set, before the effect.
\* That an option is on or off, and which.
On(r) == r = TRUE
Off(r) == r = FALSE

LEMMA PasswordEdited ==
  ASSUME NEW r, NEW p, NEW c, NEW v, NEW w, NEW q
  PROVE  onInputChange(RegistrationOf(r, p, c, v, w), "password", q) = Rendered(RegistrationOf(r, q, c, v, w))
  <1> DEFINE form == RegistrationOf(r, p, c, v, w)
  <1>1. [form EXCEPT !.password = q] = RegistrationOf(r, q, c, v, w)
    BY DEF RegistrationOf
  <1> QED
    BY <1>1, Zenon DEF onInputChange

LEMMA ConfirmationEdited ==
  ASSUME NEW r, NEW p, NEW c, NEW v, NEW w, NEW q
  PROVE  On(r) => onInputChange(RegistrationOf(r, p, c, v, w), "confirmation", q) = Rendered(RegistrationOf(r, p, q, v, w))
  <1> DEFINE form == RegistrationOf(r, p, c, v, w)
  <1>1. [form EXCEPT !.confirmation = q] = RegistrationOf(r, p, q, v, w)
    BY DEF RegistrationOf
  <1>2. form.register = r
    BY DEF RegistrationOf
  <1>3. "confirmation" # "password"
    OBVIOUS
  <1> QED
    BY <1>1, <1>2, <1>3, Zenon DEF onInputChange, On

LEMMA ConfirmationKept ==
  ASSUME NEW r, NEW p, NEW c, NEW v, NEW w, NEW q
  PROVE  Off(r) => onInputChange(RegistrationOf(r, p, c, v, w), "confirmation", q) = Rendered(RegistrationOf(r, p, c, v, w))
  <1> DEFINE form == RegistrationOf(r, p, c, v, w)
  <1>1. form.register = r
    BY DEF RegistrationOf
  <1>2. "confirmation" # "password"
    OBVIOUS
  <1> QED
    BY <1>1, <1>2, Zenon DEF onInputChange, Off

LEMMA SwitchedOff ==
  ASSUME NEW r, NEW p, NEW c, NEW v, NEW w, NEW s, NEW x
  PROVE  On(r) /\ Off(s) /\ x = None => onSwitch(RegistrationOf(r, p, c, v, w)) = Rendered(RegistrationOf(s, p, c, v, x))
  <1> DEFINE form == RegistrationOf(r, p, c, v, w)
             there(y, z) == [[form EXCEPT !.register = y] EXCEPT !.validator = z]
  <1>1. there(s, x) = RegistrationOf(s, p, c, v, x)
    <2>1. [form EXCEPT !.register = s] = RegistrationOf(s, p, c, v, w)
      BY DEF RegistrationOf
    <2>2. [RegistrationOf(s, p, c, v, w) EXCEPT !.validator = x] = RegistrationOf(s, p, c, v, x)
      BY DEF RegistrationOf
    <2> QED
      BY <2>1, <2>2, Zenon
  <1>2. form.register = r
    BY DEF RegistrationOf
  <1> HIDE DEF form
  <1>3. On(r) => onSwitch(form) = Rendered(there(FALSE, None))
    BY <1>2, Zenon DEF onSwitch, On
  <1>4. Off(s) /\ x = None => there(FALSE, None) = there(s, x)
    BY Zenon DEF Off
  <1> HIDE DEF there
  <1>5. On(r) /\ Off(s) /\ x = None => onSwitch(form) = Rendered(RegistrationOf(s, p, c, v, x))
    BY <1>1, <1>3, <1>4, Zenon
  <1> QED
    BY <1>5 DEF form

LEMMA SwitchedOn ==
  ASSUME NEW r, NEW p, NEW c, NEW v, NEW w, NEW s, NEW x
  PROVE  Off(r) /\ On(s) /\ Off(x) => onSwitch(RegistrationOf(r, p, c, v, w)) = Rendered(RegistrationOf(s, p, c, v, x))
  <1> DEFINE form == RegistrationOf(r, p, c, v, w)
             there(y, z) == [[form EXCEPT !.register = y] EXCEPT !.validator = z]
  <1>1. there(s, x) = RegistrationOf(s, p, c, v, x)
    <2>1. [form EXCEPT !.register = s] = RegistrationOf(s, p, c, v, w)
      BY DEF RegistrationOf
    <2>2. [RegistrationOf(s, p, c, v, w) EXCEPT !.validator = x] = RegistrationOf(s, p, c, v, x)
      BY DEF RegistrationOf
    <2> QED
      BY <2>1, <2>2, Zenon
  <1>2. form.register = r
    BY DEF RegistrationOf
  <1> HIDE DEF form
  <1>3. Off(r) => onSwitch(form) = Rendered(there(TRUE, FALSE))
    BY <1>2, Zenon DEF onSwitch, Off
  <1>4. On(s) /\ Off(x) => there(TRUE, FALSE) = there(s, x)
    BY Zenon DEF On, Off
  <1> HIDE DEF there
  <1>5. Off(r) /\ On(s) /\ Off(x) => onSwitch(form) = Rendered(RegistrationOf(s, p, c, v, x))
    BY <1>1, <1>3, <1>4, Zenon
  <1> QED
    BY <1>5 DEF form


LEMMA LoginRendered ==
  ASSUME NEW P, NEW p \in P, NEW c \in P, NEW valid, NEW w, NEW r
  PROVE  (valid \in BOOLEAN /\ w = None /\ r = FALSE) =>
           Rendered(RegistrationOf(r, p, c, valid, w)) \in Registrations(P)
  <1> DEFINE form == RegistrationOf(r, p, c, valid, w)
  <1>1. form.validator = w
    BY DEF RegistrationOf
  <1>2. w = None => Rendered(form) = form
    <2> HIDE DEF form
    <2> QED
      BY <1>1, Zenon DEF Rendered
  <1>3. (valid \in BOOLEAN /\ w = None /\ r = FALSE) => form \in Registrations(P)
    BY DEF RegistrationOf, Registrations
  <1> QED
    BY <1>2, <1>3

\* What the events of the registration form and of the login form lead to.
LEMMA EditedRegister ==
  ASSUME NEW P, NEW p \in P, NEW c \in P, NEW q \in P, NEW valid, NEW w, NEW r
  PROVE  (valid \in BOOLEAN /\ w \in BOOLEAN /\ r = TRUE /\ (w = TRUE => valid = TRUE) /\ None \notin BOOLEAN) =>
           LET form == RegistrationOf(r, p, c, valid, w) IN
           /\ onInputChange(form, "password", q) \in Registrations(P)
           /\ onInputChange(form, "confirmation", q) \in Registrations(P)
           /\ onSwitch(form) \in Registrations(P)
           /\ valid = w => /\ onInputChange(form, "password", q) \in FreshRegistrations(P)
                           /\ onInputChange(form, "confirmation", q) \in FreshRegistrations(P)
  <1> DEFINE form == RegistrationOf(r, p, c, valid, w)
             yes == valid \in BOOLEAN /\ w \in BOOLEAN /\ r = TRUE /\ (w = TRUE => valid = TRUE) /\ None \notin BOOLEAN
             one == RegistrationOf(r, q, c, valid, w)
             two == RegistrationOf(r, p, q, valid, w)
             three(s, x) == RegistrationOf(s, p, c, valid, x)
  <1>1. yes => /\ Rendered(one) \in Registrations(P) /\ Rendered(two) \in Registrations(P)
               /\ valid = w => Rendered(one) \in FreshRegistrations(P) /\ Rendered(two) \in FreshRegistrations(P)
    BY RenderedIs
  <1>2. ASSUME NEW s, NEW x
        PROVE  yes /\ s = FALSE /\ x = None => Rendered(three(s, x)) \in Registrations(P)
    BY LoginRendered
  <1>3. yes => /\ onInputChange(form, "password", q) = Rendered(one)
               /\ onInputChange(form, "confirmation", q) = Rendered(two)
    <2>1. onInputChange(form, "password", q) = Rendered(one)
      BY PasswordEdited
    <2>2. On(r) => onInputChange(form, "confirmation", q) = Rendered(two)
      BY ConfirmationEdited
    <2>3. yes => On(r)
      BY DEF On
    <2> HIDE DEF form, one, two, yes
    <2> QED
      BY <2>1, <2>2, <2>3
  <1>4. yes => onSwitch(form) \in Registrations(P)
    <2>1. ASSUME NEW s, NEW x
          PROVE  On(r) /\ Off(s) /\ x = None => onSwitch(form) = Rendered(three(s, x))
      BY SwitchedOff
    <2>2. yes => On(r) /\ Off(FALSE)
      BY DEF On, Off
    <2> HIDE DEF form, three, yes
    <2>3. yes => onSwitch(form) = Rendered(three(FALSE, None)) /\ Rendered(three(FALSE, None)) \in Registrations(P)
      BY <1>2, <2>1, <2>2
    <2> QED
      BY <2>3
  <1> HIDE DEF form, one, two, three, yes
  <1>5. yes => /\ onInputChange(form, "password", q) \in Registrations(P)
               /\ onInputChange(form, "confirmation", q) \in Registrations(P)
               /\ onSwitch(form) \in Registrations(P)
               /\ valid = w => /\ onInputChange(form, "password", q) \in FreshRegistrations(P)
                               /\ onInputChange(form, "confirmation", q) \in FreshRegistrations(P)
    BY <1>1, <1>3, <1>4
  <1> QED
    BY <1>5 DEF form, yes

LEMMA EditedLogin ==
  ASSUME NEW P, NEW p \in P, NEW c \in P, NEW q \in P, NEW valid, NEW w, NEW r
  PROVE  (valid \in BOOLEAN /\ w = None /\ r = FALSE /\ None \notin BOOLEAN) =>
           LET form == RegistrationOf(r, p, c, valid, w) IN
           /\ onInputChange(form, "password", q) \in Registrations(P)
           /\ onInputChange(form, "confirmation", q) \in Registrations(P)
           /\ onSwitch(form) \in Registrations(P)
  <1> DEFINE form == RegistrationOf(r, p, c, valid, w)
             yes == valid \in BOOLEAN /\ w = None /\ r = FALSE /\ None \notin BOOLEAN
             one == RegistrationOf(r, q, c, valid, w)
             three(s, x) == RegistrationOf(s, p, c, valid, x)
  <1>1. yes => Rendered(one) \in Registrations(P) /\ Rendered(form) \in Registrations(P)
    BY LoginRendered
  <1>2. ASSUME NEW s, NEW x
        PROVE  yes /\ s = TRUE /\ x = FALSE => Rendered(three(s, x)) \in Registrations(P)
    BY RenderedIs
  <1>3. yes => /\ onInputChange(form, "password", q) = Rendered(one)
               /\ onInputChange(form, "confirmation", q) = Rendered(form)
    <2>1. onInputChange(form, "password", q) = Rendered(one)
      BY PasswordEdited
    <2>2. Off(r) => onInputChange(form, "confirmation", q) = Rendered(form)
      BY ConfirmationKept
    <2>3. yes => Off(r)
      BY DEF Off
    <2> HIDE DEF form, one, yes
    <2> QED
      BY <2>1, <2>2, <2>3
  <1>4. yes => onSwitch(form) \in Registrations(P)
    <2>1. ASSUME NEW s, NEW x
          PROVE  Off(r) /\ On(s) /\ Off(x) => onSwitch(form) = Rendered(three(s, x))
      BY SwitchedOn
    <2>2. yes => Off(r) /\ On(TRUE) /\ Off(FALSE)
      BY DEF On, Off
    <2> HIDE DEF form, three, yes
    <2>3. yes => onSwitch(form) = Rendered(three(TRUE, FALSE)) /\ Rendered(three(TRUE, FALSE)) \in Registrations(P)
      BY <1>2, <2>1, <2>2
    <2> QED
      BY <2>3
  <1> HIDE DEF form, one, three, yes
  <1>5. yes => /\ onInputChange(form, "password", q) \in Registrations(P)
               /\ onInputChange(form, "confirmation", q) \in Registrations(P)
               /\ onSwitch(form) \in Registrations(P)
    BY <1>1, <1>3, <1>4
  <1> QED
    BY <1>5 DEF form, yes

LEMMA RegistrationStays ==
  ASSUME NEW P, NEW form \in Registrations(P), NEW event \in RegistrationEventsOf(P), None \notin BOOLEAN
  PROVE  FormEventStep(form, event) \in Registrations(P)
  <1> DEFINE next == FormEventStep(form, event)
  <1>1. \/ next = onSwitch(form)
        \/ \E q \in P : next \in {onInputChange(form, "password", q), onInputChange(form, "confirmation", q)}
    <2>1. CASE event \in [field : {"switch"}, value : {NoPassword}]
      BY <2>1 DEF FormEventStep
    <2>2. CASE event \in [field : {"password", "confirmation"}, value : P]
      BY <2>2 DEF FormEventStep
    <2> QED
      BY <2>1, <2>2 DEF RegistrationEventsOf
  <1> HIDE DEF next
  <1>2. PICK r, p, c, v, w : /\ form = RegistrationOf(r, p, c, v, w) /\ p \in P /\ c \in P /\ v \in BOOLEAN
                             /\ \/ r = TRUE /\ w \in BOOLEAN /\ (w = TRUE => v = TRUE)
                                \/ r = FALSE /\ w = None
    <2>1. form.register = TRUE \/ form.register = FALSE
      BY RegistrationIs
    <2> DEFINE r == form.register
               p == form.password
               c == form.confirmation
               v == form.isPasswordValid
               w == form.validator
    <2>2. /\ form = RegistrationOf(r, p, c, v, w) /\ p \in P /\ c \in P /\ v \in BOOLEAN
          /\ r = TRUE => w \in BOOLEAN /\ (w = TRUE => v = TRUE)
          /\ r = FALSE => w = None
      <3>1. form = RegistrationOf(r, p, c, v, w)
        BY RegistrationParts
      <3>2. p \in P /\ c \in P /\ v \in BOOLEAN
        BY RegistrationIs
      <3>3. r = TRUE => w \in BOOLEAN /\ (w = TRUE => v = TRUE)
        BY DEF Registrations, Validated
      <3>4. r = FALSE => w = None
        BY RegistrationIs
      <3> HIDE DEF r, p, c, v, w
      <3> QED
        BY <3>1, <3>2, <3>3, <3>4
    <2> HIDE DEF r, p, c, v, w
    <2> QED
      BY <2>1, <2>2, Zenon DEF r
  <1>3. ASSUME NEW q \in P
        PROVE  /\ onInputChange(form, "password", q) \in Registrations(P)
               /\ onInputChange(form, "confirmation", q) \in Registrations(P)
               /\ onSwitch(form) \in Registrations(P)
    BY <1>2, EditedRegister, EditedLogin
  <1>4. p \in P
    BY <1>2
  <1> QED
    BY <1>1, <1>3, <1>4 DEF next

LEMMA FreshStays ==
  ASSUME NEW P, NEW form \in FreshRegistrations(P), NEW event \in FieldEventsOf(P), None \notin BOOLEAN
  PROVE  FormEventStep(form, event) \in FreshRegistrations(P)
  <1> DEFINE next == FormEventStep(form, event)
  <1>1. PICK q \in P : next \in {onInputChange(form, "password", q), onInputChange(form, "confirmation", q)}
    BY DEF FormEventStep, FieldEventsOf
  <1> HIDE DEF next
  <1>2. form \in Registrations(P) /\ form.register = TRUE /\ form.isPasswordValid = form.validator
    BY DEF FreshRegistrations
  <1>3. PICK r, p, c, v, w : /\ form = RegistrationOf(r, p, c, v, w) /\ p \in P /\ c \in P /\ v \in BOOLEAN
                             /\ r = TRUE /\ w \in BOOLEAN /\ (w = TRUE => v = TRUE) /\ v = w
    <2> DEFINE r == form.register
               p == form.password
               c == form.confirmation
               v == form.isPasswordValid
               w == form.validator
    <2>1. /\ form = RegistrationOf(r, p, c, v, w) /\ p \in P /\ c \in P /\ v \in BOOLEAN
          /\ r = TRUE => w \in BOOLEAN /\ (w = TRUE => v = TRUE)
      <3>1. form = RegistrationOf(r, p, c, v, w)
        BY <1>2, RegistrationParts
      <3>2. /\ p \in P /\ c \in P /\ v \in BOOLEAN
            /\ r = TRUE => w \in BOOLEAN /\ (w = TRUE => v = TRUE)
        BY <1>2, RegistrationIs
      <3> HIDE DEF r, p, c, v, w
      <3> QED
        BY <3>1, <3>2
    <2>2. r = TRUE /\ v = w
      BY <1>2
    <2> HIDE DEF r, p, c, v, w
    <2> QED
      BY <2>1, <2>2, Zenon
  <1>4. /\ onInputChange(form, "password", q) \in FreshRegistrations(P)
        /\ onInputChange(form, "confirmation", q) \in FreshRegistrations(P)
    BY <1>3, EditedRegister
  <1> QED
    BY <1>1, <1>4 DEF next

LEMMA FirstRegistration ==
  ASSUME NEW P, ArePasswords(P)
  PROVE  InitialForm(TRUE) \in FreshRegistrations(P) /\ InitialForm(TRUE) \in Registrations(P)
  BY DEF InitialForm, FreshRegistrations, Registrations, Validated, MeetsRequirements, passwordsMatch,
         NoPassword, ArePasswords

\* A registration the backend would accept is never held back; one it would refuse is, unless
\* the user has been to the login form.
THEOREM RegistrationsAreOffered ==
  ASSUME NEW P, ArePasswords(P), NEW events \in Seq(RegistrationEventsOf(P)), None \notin BOOLEAN
  PROVE  ValidRegistrationIsOffered(events)
  <1> DEFINE form == RegistrationAfter(events)
             visited == \E i \in DOMAIN events : events[i].field = "switch"
  <1>1. form \in Registrations(P)
    BY FirstRegistration, RegistrationStays, RegistrationIn
  <1>2. ~visited => form \in FreshRegistrations(P)
    <2> HAVE ~visited
    <2>1. \A i \in DOMAIN events : events[i] \in RegistrationEventsOf(P) /\ events[i].field # "switch"
      OBVIOUS
    <2>2. \A e \in RegistrationEventsOf(P) : e.field # "switch" => e \in FieldEventsOf(P)
      BY DEF RegistrationEventsOf, FieldEventsOf
    <2>3. events \in Seq(FieldEventsOf(P))
      BY <2>1, <2>2
    <2>4. \A x \in FreshRegistrations(P) : \A event \in FieldEventsOf(P) : FormEventStep(x, event) \in FreshRegistrations(P)
      BY FreshStays
    <2>5. InitialForm(TRUE) \in FreshRegistrations(P)
      BY FirstRegistration
    <2> QED
      BY <2>3, <2>4, <2>5, RegistrationIn
  <1> HIDE DEF form
  <1>3. form.password \in P /\ form.confirmation \in P /\ form.isPasswordValid \in BOOLEAN
    BY <1>1, RegistrationIs
  <1>4. registerUserInputAccepts(form) => MeetsRequirements(form)
    BY <1>3 DEF registerUserInputAccepts, passwordSchema, MeetsRequirements, passwordsMatch, ArePasswords
  <1>5. MeetsRequirements(form) => registerUserInputAccepts(form)
    BY <1>3 DEF registerUserInputAccepts, passwordSchema, MeetsRequirements, passwordsMatch, ArePasswords
  <1>6. ASSUME form.register = TRUE
        PROVE  /\ MeetsRequirements(form) => form.isPasswordValid = TRUE
               /\ ~MeetsRequirements(form) /\ ~visited => form.isPasswordValid = FALSE
    <2>1. MeetsRequirements(form) => form.isPasswordValid = TRUE
      BY <1>1, <1>6 DEF Registrations, Validated
    <2>2. ~MeetsRequirements(form) => form.validator = FALSE
      <3>1. form.validator \in BOOLEAN /\ (form.validator = TRUE => MeetsRequirements(form))
        BY <1>1, <1>6 DEF Registrations, Validated
      <3> QED
        BY <3>1
    <2>3. ~visited => form.isPasswordValid = form.validator
      BY <1>2 DEF FreshRegistrations
    <2> HIDE DEF visited
    <2> QED
      BY <2>1, <2>2, <2>3
  <1>7. form.register \in BOOLEAN
    BY <1>1, RegistrationIs
  <1>8. form.register = TRUE =>
          /\ registerUserInputAccepts(form) => ~isSubmitDisabled(form)
          /\ ~registerUserInputAccepts(form) => isSubmitDisabled(form) \/ visited
    <2> HIDE DEF visited
    <2>1. CASE form.isPasswordValid = TRUE
      BY <1>4, <1>5, <1>6, <2>1, Zenon DEF isSubmitDisabled
    <2>2. CASE form.isPasswordValid = FALSE
      BY <1>4, <1>5, <1>6, <2>2, Zenon DEF isSubmitDisabled
    <2> QED
      BY <1>3, <2>1, <2>2
  <1> QED
    BY <1>7, <1>8, Zenon DEF ValidRegistrationIsOffered, form

-----------------------------------------------------------------------------
\* Stream events, merged by run and tool

EventsOver(E, T, G) == [executionId : E, toolId : T, target : G]

ToolsOver(T, G) == [toolId : T, targets : Seq(G)]

RunsOver(E, T, G) == [executionId : E, finishedAt : {None}, tools : Seq(ToolsOver(T, G))]

\* The targets of a run and a tool, in the order they came.
TargetsFor(u, r, t) ==
  LET s == At(u, {i \in DOMAIN u : u[i].executionId = r /\ u[i].toolId = t}) IN [i \in DOMAIN s |-> s[i].target]

LEMMA TargetsAre ==
  ASSUME NEW E, NEW T, NEW G, NEW u \in Seq(EventsOver(E, T, G)), NEW r, NEW t
  PROVE  LET V == EventsOver(E, T, G)
             S == {e \in V : e.executionId = r /\ e.toolId = t}
             f == [e \in V |-> e.target]
         IN /\ TargetsFor(u, r, t) = Image(Sub(u, S), f)
            /\ Sub(u, S) \in Seq(V)
  <1> DEFINE V == EventsOver(E, T, G)
             S == {e \in V : e.executionId = r /\ e.toolId = t}
             f == [e \in V |-> e.target]
             s == Sub(u, S)
  <1>1. \A i \in DOMAIN u : u[i] \in V
    OBVIOUS
  <1>2. {i \in DOMAIN u : u[i] \in S} = {i \in DOMAIN u : u[i].executionId = r /\ u[i].toolId = t}
    BY <1>1
  <1>3. At(u, {i \in DOMAIN u : u[i].executionId = r /\ u[i].toolId = t}) = s
    BY <1>2 DEF Sub
  <1>4. u \in Seq(V)
    OBVIOUS
  <1> HIDE DEF V, S
  <1>5. s \in Seq(V)
    BY <1>4, SubTyped
  <1> HIDE DEF s
  <1>6. [i \in DOMAIN s |-> s[i].target] = Image(s, f)
    BY <1>5 DEF Image
  <1>7. TargetsFor(u, r, t) = Image(s, f)
    BY <1>3, <1>6 DEF TargetsFor
  <1> QED
    BY <1>5, <1>7 DEF s, S, V

LEMMA TargetsAppend ==
  ASSUME NEW E, NEW T, NEW G, NEW u \in Seq(EventsOver(E, T, G)), NEW v \in EventsOver(E, T, G), NEW r, NEW t
  PROVE  TargetsFor(Append(u, v), r, t) =
           IF v.executionId = r /\ v.toolId = t THEN Append(TargetsFor(u, r, t), v.target) ELSE TargetsFor(u, r, t)
  <1> DEFINE V == EventsOver(E, T, G)
             S == {e \in V : e.executionId = r /\ e.toolId = t}
             f == [e \in V |-> e.target]
             w == Append(u, v)
  <1>1. w \in Seq(V) /\ u \in Seq(V) /\ v \in V
    OBVIOUS
  <1>2. f[v] = v.target
    OBVIOUS
  <1>3. v \in S <=> v.executionId = r /\ v.toolId = t
    OBVIOUS
  <1>4. TargetsFor(u, r, t) = Image(Sub(u, S), f) /\ Sub(u, S) \in Seq(V)
    <2>1. \A x \in Seq(EventsOver(E, T, G)) :
            TargetsFor(x, r, t) = Image(Sub(x, S), f) /\ Sub(x, S) \in Seq(V)
      BY TargetsAre
    <2> QED
      BY <2>1, Zenon
  <1>5. TargetsFor(w, r, t) = Image(Sub(w, S), f)
    <2>1. w \in Seq(EventsOver(E, T, G))
      OBVIOUS
    <2> HIDE DEF w
    <2> QED
      BY <2>1, TargetsAre
  <1> HIDE DEF V, S, f
  <1>6. CASE v \in S
    <2>1. Sub(w, S) = Append(Sub(u, S), v)
      BY <1>1, <1>6, SubTaken
    <2>2. Image(Append(Sub(u, S), v), f) = Append(Image(Sub(u, S), f), f[v])
      BY <1>1, <1>4, ImageAppend
    <2> QED
      BY <1>2, <1>3, <1>4, <1>5, <1>6, <2>1, <2>2
  <1>7. CASE v \notin S
    <2>1. Sub(w, S) = Sub(u, S)
      BY <1>1, <1>7, SubDropped
    <2> QED
      BY <1>3, <1>4, <1>5, <1>7, <2>1
  <1> QED
    BY <1>6, <1>7

LEMMA TargetsTyped ==
  ASSUME NEW E, NEW T, NEW G, NEW u \in Seq(EventsOver(E, T, G)), NEW r, NEW t
  PROVE  TargetsFor(u, r, t) \in Seq(G)
  <1> DEFINE V == EventsOver(E, T, G)
             S == {e \in V : e.executionId = r /\ e.toolId = t}
             f == [e \in V |-> e.target]
  <1>1. TargetsFor(u, r, t) = Image(Sub(u, S), f) /\ Sub(u, S) \in Seq(V)
    BY TargetsAre
  <1>2. \A e \in V : f[e] \in G
    BY DEF EventsOver
  <1> HIDE DEF V, S, f
  <1> QED
    BY <1>1, <1>2, ImageTyped

LEMMA TargetsBegin ==
  ASSUME NEW E, NEW T, NEW G, NEW u \in Seq(EventsOver(E, T, G)), NEW r, NEW t,
         \A m \in DOMAIN u : ~(u[m].executionId = r /\ u[m].toolId = t)
  PROVE  TargetsFor(u, r, t) = <<>>
  <1> DEFINE V == EventsOver(E, T, G)
             none == {}
  <1>1. {i \in DOMAIN u : u[i].executionId = r /\ u[i].toolId = t} = {i \in DOMAIN u : u[i] \in none}
    OBVIOUS
  <1>2. At(u, {i \in DOMAIN u : u[i].executionId = r /\ u[i].toolId = t}) = Sub(u, none)
    BY <1>1 DEF Sub
  <1>3. u \in Seq(V)
    OBVIOUS
  <1> HIDE DEF V
  <1>4. Sub(u, none) \in Seq(V \cap none)
    BY <1>3, SubIsIn
  <1> DEFINE s == Sub(u, none)
  <1>5. s \in Seq({})
    BY <1>4
  <1>6. TargetsFor(u, r, t) = [i \in DOMAIN s |-> s[i].target]
    BY <1>2 DEF TargetsFor
  <1> HIDE DEF s
  <1>7. s = <<>>
    BY <1>5
  <1> QED
    BY <1>6, <1>7

\* The tools of a run are those of its events, each with its targets.
ToolsFollow(T, G, tools, u, r) ==
  /\ tools \in Seq(ToolsOver(T, G))
  /\ \A i, k \in DOMAIN tools : tools[i].toolId = tools[k].toolId => i = k
  /\ \A t : (\E i \in DOMAIN tools : tools[i].toolId = t) <=> (\E m \in DOMAIN u : u[m].executionId = r /\ u[m].toolId = t)
  /\ \A i \in DOMAIN tools : tools[i].targets = TargetsFor(u, r, tools[i].toolId)

\* The executions are the runs of the events, each with its tools.
RunsFollow(E, T, G, runs_, u) ==
  /\ runs_ \in Seq(RunsOver(E, T, G))
  /\ \A i, k \in DOMAIN runs_ : runs_[i].executionId = runs_[k].executionId => i = k
  /\ \A r : (\E i \in DOMAIN runs_ : runs_[i].executionId = r) <=> (\E m \in DOMAIN u : u[m].executionId = r)
  /\ \A i \in DOMAIN runs_ : ToolsFollow(T, G, runs_[i].tools, u, runs_[i].executionId)

LEMMA SomeAppend ==
  ASSUME NEW V, NEW u \in Seq(V), NEW v \in V, NEW S
  PROVE  (\E m \in DOMAIN Append(u, v) : Append(u, v)[m] \in S) <=> (v \in S \/ \E m \in DOMAIN u : u[m] \in S)
  <1> DEFINE w == Append(u, v)
  <1>1. /\ DOMAIN w = 1..(Len(u) + 1) /\ DOMAIN u = 1..Len(u) /\ Len(u) \in Nat
        /\ w[Len(u) + 1] = v /\ \A m \in DOMAIN u : w[m] = u[m]
    OBVIOUS
  <1> HIDE DEF w
  <1>2. \A m \in DOMAIN w : m \in DOMAIN u \/ m = Len(u) + 1
    BY <1>1
  <1>3. Len(u) + 1 \in DOMAIN w /\ \A m \in DOMAIN u : m \in DOMAIN w
    BY <1>1
  <1> QED
    BY <1>1, <1>2, <1>3 DEF w

LEMMA EventsAppend ==
  ASSUME NEW E, NEW T, NEW G, NEW u \in Seq(EventsOver(E, T, G)), NEW v \in EventsOver(E, T, G), NEW r
  PROVE  /\ (\E m \in DOMAIN Append(u, v) : Append(u, v)[m].executionId = r)
              <=> (v.executionId = r \/ \E m \in DOMAIN u : u[m].executionId = r)
         /\ \A t : (\E m \in DOMAIN Append(u, v) : Append(u, v)[m].executionId = r /\ Append(u, v)[m].toolId = t)
              <=> ((v.executionId = r /\ v.toolId = t) \/ \E m \in DOMAIN u : u[m].executionId = r /\ u[m].toolId = t)
  <1> DEFINE w == Append(u, v)
  <1>1. /\ DOMAIN w = 1..(Len(u) + 1) /\ DOMAIN u = 1..Len(u) /\ Len(u) \in Nat
        /\ w[Len(u) + 1] = v /\ \A m \in DOMAIN u : w[m] = u[m]
    OBVIOUS
  <1> HIDE DEF w
  <1>2. \A m \in DOMAIN w : m \in DOMAIN u \/ m = Len(u) + 1
    BY <1>1
  <1>3. Len(u) + 1 \in DOMAIN w /\ \A m \in DOMAIN u : m \in DOMAIN w
    BY <1>1
  <1>4. (\E m \in DOMAIN w : w[m].executionId = r) <=> (v.executionId = r \/ \E m \in DOMAIN u : u[m].executionId = r)
    BY <1>1, <1>2, <1>3
  <1>5. ASSUME NEW t
        PROVE  (\E m \in DOMAIN w : w[m].executionId = r /\ w[m].toolId = t)
                 <=> ((v.executionId = r /\ v.toolId = t) \/ \E m \in DOMAIN u : u[m].executionId = r /\ u[m].toolId = t)
    BY <1>1, <1>2, <1>3
  <1> QED
    BY <1>4, <1>5 DEF w

LEMMA ToolsStay ==
  ASSUME NEW E, NEW T, NEW G, NEW u \in Seq(EventsOver(E, T, G)), NEW v \in EventsOver(E, T, G), NEW r,
         v.executionId # r, NEW tools, ToolsFollow(T, G, tools, u, r)
  PROVE  ToolsFollow(T, G, tools, Append(u, v), r)
  <1> DEFINE w == Append(u, v)
  <1>1. \A t : TargetsFor(w, r, t) = TargetsFor(u, r, t)
    BY TargetsAppend
  <1>2. \A t : (\E m \in DOMAIN w : w[m].executionId = r /\ w[m].toolId = t)
                 <=> \E m \in DOMAIN u : u[m].executionId = r /\ u[m].toolId = t
    BY EventsAppend
  <1> HIDE DEF w
  <1>3. ToolsFollow(T, G, tools, w, r)
    BY <1>1, <1>2 DEF ToolsFollow
  <1> QED
    BY <1>3 DEF w

LEMMA ToolsGrow ==
  ASSUME NEW E, NEW T, NEW G, NEW u \in Seq(EventsOver(E, T, G)), NEW v \in EventsOver(E, T, G), NEW r,
         v.executionId = r, NEW tools, ToolsFollow(T, G, tools, u, r)
  PROVE  ToolsFollow(T, G, addTarget(tools, v), Append(u, v), r)
  <1> DEFINE w == Append(u, v)
             new == addTarget(tools, v)
             id == v.toolId
             i == IndexWhere(tools, LAMBDA t : t.toolId = id)
             V == ToolsOver(T, G)
             has(s, t) == \E k \in DOMAIN s : s[k].toolId = t
             came(s, t) == \E m \in DOMAIN s : s[m].executionId = r /\ s[m].toolId = t
  <1>1. id \in T /\ v.target \in G
    BY DEF EventsOver
  <1>2. \A t : TargetsFor(w, r, t) = IF t = id THEN Append(TargetsFor(u, r, t), v.target) ELSE TargetsFor(u, r, t)
    BY TargetsAppend
  <1>3. \A t : came(w, t) <=> (t = id \/ came(u, t))
    BY EventsAppend
  <1>4. /\ tools \in Seq(V)
        /\ \A j, k \in DOMAIN tools : tools[j].toolId = tools[k].toolId => j = k
        /\ \A t : has(tools, t) <=> came(u, t)
        /\ \A k \in DOMAIN tools : tools[k].targets = TargetsFor(u, r, tools[k].toolId)
    BY DEF ToolsFollow
  <1>5. IF has(tools, id) THEN i \in DOMAIN tools /\ tools[i].toolId = id ELSE i = 0
    BY DEF IndexWhere
  <1>6. new = IF i = 0 THEN Append(tools, [toolId |-> id, targets |-> <<v.target>>])
              ELSE [tools EXCEPT ![i].targets = Append(@, v.target)]
    BY DEF addTarget
  <1>7. TargetsFor(u, r, id) \in Seq(G)
    BY TargetsTyped
  <1>8. ~came(u, id) => TargetsFor(u, r, id) = <<>>
    BY TargetsBegin
  <1>9. DOMAIN tools = 1..Len(tools) /\ Len(tools) \in Nat
    BY <1>4
  <1> HIDE DEF new, w, i, id
  <1>10. CASE ~has(tools, id)
    <2> DEFINE x == [toolId |-> id, targets |-> <<v.target>>]
               n == Len(tools) + 1
    <2>1. i = 0
      BY <1>5, <1>10
    <2>2. x \in V /\ x.toolId = id /\ x.targets = <<v.target>>
      BY <1>1 DEF ToolsOver
    <2>3. new = Append(tools, x)
      BY <1>6, <2>1
    <2> HIDE DEF x, V
    <2>4. /\ new \in Seq(V) /\ DOMAIN new = 1..n /\ n \in Nat /\ new[n] = x
          /\ \A k \in DOMAIN tools : k \in DOMAIN new /\ new[k] = tools[k]
      BY <1>4, <2>2, <2>3, Appended
    <2>5. n \in DOMAIN new /\ n \notin DOMAIN tools /\ \A k \in DOMAIN new : k = n \/ k \in DOMAIN tools
      BY <1>9, <2>4
    <2>6. <<v.target>> = TargetsFor(w, r, id)
      <3>1. TargetsFor(u, r, id) = <<>>
        BY <1>4, <1>8, <1>10
      <3>2. TargetsFor(w, r, id) = Append(<<>>, v.target)
        BY <1>2, <3>1
      <3> QED
        BY <3>2
    <2>7. \A k \in DOMAIN tools : tools[k].toolId # id
      BY <1>10
    <2> HIDE DEF n
    <2>8. \A j, k \in DOMAIN new : new[j].toolId = new[k].toolId => j = k
      BY <1>4, <2>2, <2>4, <2>5, <2>7
    <2>9. ASSUME NEW t
          PROVE  has(new, t) <=> came(w, t)
      <3>1. has(new, t) <=> (t = id \/ has(tools, t))
        BY <2>2, <2>4, <2>5
      <3> HIDE DEF has, came
      <3> QED
        BY <1>3, <1>4, <3>1
    <2>10. ASSUME NEW k \in DOMAIN new
           PROVE  new[k].targets = TargetsFor(w, r, new[k].toolId)
      <3>1. CASE k = n
        BY <2>2, <2>4, <2>6, <3>1
      <3>2. CASE k # n
        <4>1. k \in DOMAIN tools /\ new[k] = tools[k] /\ tools[k].toolId # id
          BY <2>4, <2>5, <2>7, <3>2
        <4> QED
          BY <1>2, <1>4, <4>1
      <3> QED
        BY <3>1, <3>2
    <2> QED
      BY <2>4, <2>8, <2>9, <2>10 DEF ToolsFollow, V, new, w
  <1>11. CASE has(tools, id)
    <2> DEFINE old == tools[i].targets
               targets == Append(old, v.target)
               x == [toolId |-> id, targets |-> targets]
    <2>1. i \in DOMAIN tools /\ tools[i].toolId = id /\ i # 0
      BY <1>5, <1>9, <1>11
    <2>2. tools[i] \in V /\ old = TargetsFor(u, r, id)
      BY <1>4, <2>1
    <2>3. targets = TargetsFor(w, r, id) /\ targets \in Seq(G)
      BY <1>1, <1>2, <1>7, <2>2
    <2>4. [tools[i] EXCEPT !.targets = targets] = x
      <3> DEFINE y == tools[i]
      <3>1. y \in [toolId : T, targets : Seq(G)] /\ y.toolId = id
        BY <2>1, <2>2 DEF ToolsOver
      <3> HIDE DEF y, targets
      <3>2. [y EXCEPT !.targets = targets] = [toolId |-> id, targets |-> targets]
        BY <3>1
      <3> QED
        BY <3>2 DEF y
    <2>5. new = [tools EXCEPT ![i] = x]
      BY <1>6, <2>1, <2>4
    <2> HIDE DEF targets
    <2>6. x \in V /\ x.toolId = id /\ x.targets = targets
      BY <1>1, <2>3 DEF ToolsOver
    <2> HIDE DEF x, V, old
    <2>7. /\ new \in Seq(V) /\ DOMAIN new = DOMAIN tools /\ new[i] = x
          /\ \A k \in DOMAIN tools : k # i => new[k] = tools[k]
      BY <1>4, <2>1, <2>5, <2>6, Replaced
    <2>8. \A k \in DOMAIN tools : new[k].toolId = tools[k].toolId
      BY <2>1, <2>6, <2>7
    <2>9. \A j, k \in DOMAIN new : new[j].toolId = new[k].toolId => j = k
      BY <1>4, <2>7, <2>8
    <2>10. ASSUME NEW t
           PROVE  has(new, t) <=> came(w, t)
      <3>1. has(new, t) <=> has(tools, t)
        BY <2>7, <2>8
      <3> HIDE DEF has, came
      <3> QED
        BY <1>3, <1>4, <1>11, <3>1
    <2>11. ASSUME NEW k \in DOMAIN new
           PROVE  new[k].targets = TargetsFor(w, r, new[k].toolId)
      <3>1. CASE k = i
        BY <2>3, <2>6, <2>7, <3>1
      <3>2. CASE k # i
        <4>1. k \in DOMAIN tools /\ new[k] = tools[k]
          BY <2>7, <3>2
        <4>2. tools[k].toolId # id
          BY <1>4, <2>1, <3>2, <4>1
        <4> QED
          BY <1>2, <1>4, <4>1, <4>2
      <3> QED
        BY <3>1, <3>2
    <2> QED
      BY <2>7, <2>9, <2>10, <2>11 DEF ToolsFollow, V, new, w
  <1> QED
    BY <1>10, <1>11

LEMMA ToolsBegin ==
  ASSUME NEW T, NEW G, NEW u, NEW r, \A m \in DOMAIN u : u[m].executionId # r
  PROVE  ToolsFollow(T, G, <<>>, u, r)
  <1>1. <<>> \in Seq(ToolsOver(T, G)) /\ DOMAIN <<>> = {}
    OBVIOUS
  <1> QED
    BY <1>1, Zenon DEF ToolsFollow

\* What an event adds to the executions, and to no other execution.
LEMMA RunsGrow ==
  ASSUME NEW E, NEW T, NEW G, NEW u \in Seq(EventsOver(E, T, G)), NEW v \in EventsOver(E, T, G),
         NEW x, RunsFollow(E, T, G, x, u)
  PROVE  RunsFollow(E, T, G, mapToExecutions(x, v), Append(u, v))
  <1> DEFINE w == Append(u, v)
             new == mapToExecutions(x, v)
             id == v.executionId
             i == IndexWhere(x, LAMBDA e : e.executionId = id)
             V == RunsOver(E, T, G)
             has(s, r) == \E k \in DOMAIN s : s[k].executionId = r
  <1>1. id \in E
    BY DEF EventsOver
  <1>2. \A r : has(w, r) <=> (r = id \/ has(u, r))
    BY EventsAppend
  <1>3. /\ x \in Seq(V)
        /\ \A j, k \in DOMAIN x : x[j].executionId = x[k].executionId => j = k
        /\ \A r : has(x, r) <=> has(u, r)
        /\ \A k \in DOMAIN x : ToolsFollow(T, G, x[k].tools, u, x[k].executionId)
    BY DEF RunsFollow
  <1>4. IF has(x, id) THEN i \in DOMAIN x /\ x[i].executionId = id ELSE i = 0
    BY DEF IndexWhere
  <1>5. new = IF i = 0 THEN Append(x, [executionId |-> id, finishedAt |-> None, tools |-> addTarget(<<>>, v)])
              ELSE [x EXCEPT ![i].tools = addTarget(@, v)]
    BY DEF mapToExecutions
  <1>6. DOMAIN x = 1..Len(x) /\ Len(x) \in Nat
    BY <1>3
  <1>7. \A r, tools : v.executionId # r /\ ToolsFollow(T, G, tools, u, r) => ToolsFollow(T, G, tools, w, r)
    BY ToolsStay
  <1>8. \A tools : ToolsFollow(T, G, tools, u, id) => ToolsFollow(T, G, addTarget(tools, v), w, id)
    BY ToolsGrow
  <1>9. \A tools, s, r : ToolsFollow(T, G, tools, s, r) => tools \in Seq(ToolsOver(T, G))
    BY DEF ToolsFollow
  <1> HIDE DEF new, w, i
  <1>10. CASE ~has(x, id)
    <2> DEFINE tools == addTarget(<<>>, v)
               y == [executionId |-> id, finishedAt |-> None, tools |-> tools]
               n == Len(x) + 1
    <2>1. i = 0
      BY <1>4, <1>10
    <2>2. ToolsFollow(T, G, tools, w, id)
      <3>1. \A m \in DOMAIN u : u[m].executionId # id
        BY <1>3, <1>10
      <3> DEFINE empty == <<>>
      <3>2. ToolsFollow(T, G, empty, u, id)
        BY <3>1, ToolsBegin
      <3> HIDE DEF empty
      <3>3. ToolsFollow(T, G, addTarget(empty, v), w, id)
        BY <1>8, <3>2
      <3> QED
        BY <3>3 DEF empty
    <2> HIDE DEF tools
    <2>3. y \in V /\ y.executionId = id /\ y.tools = tools
      BY <1>1, <1>9, <2>2 DEF RunsOver
    <2>4. new = Append(x, y)
      BY <1>5, <2>1 DEF tools
    <2> HIDE DEF y, V, id
    <2>5. /\ new \in Seq(V) /\ DOMAIN new = 1..n /\ n \in Nat /\ new[n] = y
          /\ \A k \in DOMAIN x : k \in DOMAIN new /\ new[k] = x[k]
      BY <1>3, <2>3, <2>4, Appended
    <2>6. n \in DOMAIN new /\ n \notin DOMAIN x /\ \A k \in DOMAIN new : k = n \/ k \in DOMAIN x
      BY <1>6, <2>5
    <2>7. \A k \in DOMAIN x : x[k].executionId # id
      BY <1>10
    <2> HIDE DEF n
    <2>8. \A j, k \in DOMAIN new : new[j].executionId = new[k].executionId => j = k
      BY <1>3, <2>3, <2>5, <2>6, <2>7
    <2>9. ASSUME NEW r
          PROVE  has(new, r) <=> has(w, r)
      <3>1. has(new, r) <=> (r = id \/ has(x, r))
        BY <2>3, <2>5, <2>6
      <3> HIDE DEF has
      <3> QED
        BY <1>2, <1>3, <3>1
    <2>10. ASSUME NEW k \in DOMAIN new
           PROVE  ToolsFollow(T, G, new[k].tools, w, new[k].executionId)
      <3>1. CASE k = n
        BY <2>2, <2>3, <2>5, <3>1
      <3>2. CASE k # n
        <4>1. k \in DOMAIN x /\ new[k] = x[k] /\ x[k].executionId # id
          BY <2>5, <2>6, <2>7, <3>2
        <4> QED
          BY <1>3, <1>7, <4>1 DEF id
      <3> QED
        BY <3>1, <3>2
    <2> QED
      BY <2>5, <2>8, <2>9, <2>10 DEF RunsFollow, V, new, w
  <1>11. CASE has(x, id)
    <2> DEFINE old == x[i].tools
               tools == addTarget(old, v)
               y == [executionId |-> id, finishedAt |-> None, tools |-> tools]
    <2>1. i \in DOMAIN x /\ x[i].executionId = id /\ i # 0
      BY <1>4, <1>6, <1>11
    <2>2. x[i] \in V /\ ToolsFollow(T, G, old, u, id)
      BY <1>3, <2>1
    <2>3. ToolsFollow(T, G, tools, w, id)
      BY <1>8, <2>2
    <2>4. [x[i] EXCEPT !.tools = tools] = y
      <3> DEFINE z == x[i]
                 S == Seq(ToolsOver(T, G))
      <3>1. z \in [executionId : E, finishedAt : {None}, tools : S] /\ z.executionId = id
        BY <2>1, <2>2 DEF RunsOver
      <3> HIDE DEF z, tools, S, id
      <3>2. [z EXCEPT !.tools = tools] = [executionId |-> id, finishedAt |-> None, tools |-> tools]
        BY <3>1
      <3> QED
        BY <3>2 DEF z
    <2>5. new = [x EXCEPT ![i] = y]
      BY <1>5, <2>1, <2>4
    <2> HIDE DEF tools
    <2>6. y \in V /\ y.executionId = id /\ y.tools = tools
      BY <1>1, <1>9, <2>3 DEF RunsOver
    <2> HIDE DEF y, V, old, id
    <2>7. /\ new \in Seq(V) /\ DOMAIN new = DOMAIN x /\ new[i] = y
          /\ \A k \in DOMAIN x : k # i => new[k] = x[k]
      BY <1>3, <2>1, <2>5, <2>6, Replaced
    <2>8. \A k \in DOMAIN x : new[k].executionId = x[k].executionId
      BY <2>1, <2>6, <2>7
    <2>9. \A j, k \in DOMAIN new : new[j].executionId = new[k].executionId => j = k
      BY <1>3, <2>7, <2>8
    <2>10. ASSUME NEW r
           PROVE  has(new, r) <=> has(w, r)
      <3>1. has(new, r) <=> has(x, r)
        BY <2>7, <2>8
      <3> HIDE DEF has
      <3> QED
        BY <1>2, <1>3, <1>11, <3>1
    <2>11. ASSUME NEW k \in DOMAIN new
           PROVE  ToolsFollow(T, G, new[k].tools, w, new[k].executionId)
      <3>1. CASE k = i
        BY <2>3, <2>6, <2>7, <3>1
      <3>2. CASE k # i
        <4>1. k \in DOMAIN x /\ new[k] = x[k]
          BY <2>7, <3>2
        <4>2. x[k].executionId # id
          BY <1>3, <2>1, <3>2, <4>1
        <4> QED
          BY <1>3, <1>7, <4>1, <4>2 DEF id
      <3> QED
        BY <3>1, <3>2
    <2> QED
      BY <2>7, <2>9, <2>10, <2>11 DEF RunsFollow, V, new, w
  <1> QED
    BY <1>10, <1>11

\* The replay of events from nothing shows what they led to.
LEMMA ReplayFollows ==
  ASSUME NEW E, NEW T, NEW G, NEW events \in Seq(EventsOver(E, T, G))
  PROVE  RunsFollow(E, T, G, replay(<<>>, events), events)
  <1> DEFINE n == Len(events)
             V == EventsOver(E, T, G)
             X == {x \in Seq(RunsOver(E, T, G)) : \E u \in Seq(V) : RunsFollow(E, T, G, x, u)}
             g == CHOOSE g : g = ReplayIter(<<>>, events, n, g)
             P == {k \in 0..n : RunsFollow(E, T, G, g[1..k], SubSeq(events, 1, k))}
             base == <<>>
  <1>1. n \in Nat /\ DOMAIN events = 1..n /\ events \in Seq(V)
    OBVIOUS
  <1>2. base \in X /\ RunsFollow(E, T, G, base, <<>>)
    <2>1. base \in Seq(RunsOver(E, T, G)) /\ <<>> \in Seq(V) /\ DOMAIN <<>> = {}
      OBVIOUS
    <2>2. RunsFollow(E, T, G, base, <<>>)
      BY <2>1 DEF RunsFollow
    <2> QED
      BY <2>1, <2>2
  <1>3. ASSUME NEW x \in X, NEW v \in V
        PROVE  mapToExecutions(x, v) \in X
    <2>1. PICK u \in Seq(V) : RunsFollow(E, T, G, x, u)
      OBVIOUS
    <2>2. RunsFollow(E, T, G, mapToExecutions(x, v), Append(u, v)) /\ Append(u, v) \in Seq(V)
      BY <2>1, RunsGrow
    <2> HIDE DEF V
    <2>3. mapToExecutions(x, v) \in Seq(RunsOver(E, T, G))
      BY <2>2 DEF RunsFollow
    <2> QED
      BY <2>2, <2>3
  <1>4. \A x \in X : \A v \in V : mapToExecutions(x, v) \in X
    BY <1>3
  <1> HIDE DEF X, V
  <1>5. g = ReplayIter(base, events, n, g)
    BY <1>1, <1>2, <1>4, ReplayIterIn
  <1>6. replay(<<>>, events) = g[1..n]
    BY <1>1, ReplayIsIter
  <1> HIDE DEF g
  <1>7. g[1..0] = base
    <2>1. 1..0 = {} /\ {} \in SUBSET (1..n)
      OBVIOUS
    <2> QED
      BY <1>5, <2>1 DEF ReplayIter
  <1>8. ASSUME NEW k \in 1..n
        PROVE  g[1..k] = mapToExecutions(g[1..(k - 1)], events[k])
    <2>1. 1..k \in SUBSET (1..n) /\ 1..k # {} /\ Max(1..k) = k /\ (1..k) \ {k} = 1..(k - 1)
      BY <1>1, PrefixFacts
    <2> QED
      BY <1>5, <2>1 DEF ReplayIter
  <1>9. 0 \in P
    <2>1. SubSeq(events, 1, 0) = <<>>
      BY <1>1
    <2>2. RunsFollow(E, T, G, g[1..0], SubSeq(events, 1, 0))
      BY <1>2, <1>7, <2>1, Zenon
    <2>3. 0 \in 0..n
      BY <1>1
    <2> QED
      BY <2>2, <2>3
  <1>10. ASSUME NEW j \in 0..n, NEW k \in 0..n, k = j + 1, j \in P
         PROVE  k \in P
    <2>1. k \in 1..n /\ k - 1 = j
      BY <1>1, <1>10
    <2>2. /\ SubSeq(events, 1, j) \in Seq(V) /\ events[k] \in V
          /\ SubSeq(events, 1, k) = Append(SubSeq(events, 1, j), events[k])
      BY <1>1, <1>10
    <2>3. RunsFollow(E, T, G, g[1..j], SubSeq(events, 1, j))
      BY <1>10
    <2>4. RunsFollow(E, T, G, mapToExecutions(g[1..j], events[k]), Append(SubSeq(events, 1, j), events[k]))
      BY <2>2, <2>3, RunsGrow DEF V
    <2> QED
      BY <1>8, <2>1, <2>2, <2>4
  <1> HIDE DEF P
  <1>11. n \in P
    BY <1>1, <1>9, <1>10, UpTo
  <1>12. SubSeq(events, 1, n) = events
    BY <1>1
  <1> QED
    BY <1>6, <1>11, <1>12 DEF P

\* There are as many keys as elements, if no two have the same.
LEMMA KeysCount ==
  ASSUME NEW n \in Nat, NEW key, \A i, k \in 1..n : key[i] = key[k] => i = k,
         NEW S, \A x : (x \in S) <=> \E i \in 1..n : key[i] = x
  PROVE  Cardinality(S) = n
  <1> DEFINE f == [i \in 1..n |-> key[i]]
  <1>1. f \in [1..n -> S] /\ \A x \in S : \E i \in 1..n : f[i] = x
    OBVIOUS
  <1>2. \A i, k \in 1..n : f[i] = f[k] => i = k
    OBVIOUS
  <1> HIDE DEF f
  <1>3. f \in Surjection(1..n, S)
    BY <1>1 DEF Surjection
  <1>4. f \in Injection(1..n, S)
    BY <1>1, <1>2 DEF Injection, IsInjective
  <1>5. IsFiniteSet(1..n) /\ Cardinality(1..n) = n
    BY FS_Interval
  <1> QED
    BY <1>3, <1>4, <1>5, FS_Surjection

\* However the events of runs and tools interleave, each target is shown once, under its run
\* and tool and in the order it came.
THEOREM RunsAreMerged ==
  ASSUME NEW E, NEW T, NEW G, NEW events \in Seq(EventsOver(E, T, G))
  PROVE  EventsAreMerged(events)
  <1> DEFINE executions == replay(<<>>, events)
             these == {events[i].executionId : i \in DOMAIN events}
             toolsOf(r) == {events[i].toolId : i \in {k \in DOMAIN events : events[k].executionId = r}}
  <1>1. RunsFollow(E, T, G, executions, events)
    BY ReplayFollows
  <1> HIDE DEF executions
  <1>2. /\ executions \in Seq(RunsOver(E, T, G))
        /\ \A i, k \in DOMAIN executions : executions[i].executionId = executions[k].executionId => i = k
        /\ \A r : (\E i \in DOMAIN executions : executions[i].executionId = r) <=> r \in these
        /\ \A i \in DOMAIN executions : ToolsFollow(T, G, executions[i].tools, events, executions[i].executionId)
    BY <1>1 DEF RunsFollow
  <1>3. DOMAIN executions = 1..Len(executions) /\ Len(executions) \in Nat
    BY <1>2
  <1>4. Len(executions) = Cardinality(these)
    <2> DEFINE key == [i \in DOMAIN executions |-> executions[i].executionId]
               n == Len(executions)
    <2> HIDE DEF these
    <2>1. /\ \A i, k \in 1..n : key[i] = key[k] => i = k
          /\ \A r : r \in these <=> \E i \in 1..n : key[i] = r
      BY <1>2, <1>3
    <2> HIDE DEF key
    <2> QED
      BY <1>3, <2>1, KeysCount
  <1>5. ASSUME NEW i \in DOMAIN executions
        PROVE  LET r == executions[i].executionId IN
               /\ r \in these
               /\ Len(executions[i].tools) = Cardinality(toolsOf(r))
               /\ \A k \in DOMAIN executions[i].tools :
                    executions[i].tools[k].targets = TargetsFor(events, r, executions[i].tools[k].toolId)
    <2> DEFINE r == executions[i].executionId
               tools == executions[i].tools
               n == Len(tools)
               key == [k \in DOMAIN tools |-> tools[k].toolId]
    <2>1. r \in these
      BY <1>2
    <2>2. /\ tools \in Seq(ToolsOver(T, G))
          /\ \A j, k \in DOMAIN tools : tools[j].toolId = tools[k].toolId => j = k
          /\ \A t : (\E k \in DOMAIN tools : tools[k].toolId = t) <=> t \in toolsOf(r)
          /\ \A k \in DOMAIN tools : tools[k].targets = TargetsFor(events, r, tools[k].toolId)
      <3>1. ToolsFollow(T, G, tools, events, r)
        BY <1>2
      <3>2. \A t : (\E m \in DOMAIN events : events[m].executionId = r /\ events[m].toolId = t) <=> t \in toolsOf(r)
        OBVIOUS
      <3> HIDE DEF tools, r, toolsOf
      <3> QED
        BY <3>1, <3>2 DEF ToolsFollow
    <2> HIDE DEF tools
    <2>3. DOMAIN tools = 1..n /\ n \in Nat
      BY <2>2
    <2> DEFINE S == toolsOf(r)
    <2> HIDE DEF toolsOf
    <2>4. /\ \A j, k \in 1..n : key[j] = key[k] => j = k
          /\ \A t : t \in S <=> \E k \in 1..n : key[k] = t
      BY <2>2, <2>3
    <2> HIDE DEF key, S
    <2>5. Cardinality(S) = n
      BY <2>3, <2>4, KeysCount
    <2> QED
      BY <2>1, <2>2, <2>5 DEF tools, S
  <1> QED
    BY <1>4, <1>5 DEF EventsAreMerged, executions, TargetsFor, Where, Mapped

-----------------------------------------------------------------------------
\* The card of a job

Schedules ==
  [type : {"once"}, status : {"idle", "stopped"}, startDate : Nat, endDate : {None}]
  \cup [type : {"daily", "weekly", "monthly", "yearly"}, status : {"idle", "stopped"}, startDate : Nat, endDate : Nat \cup {None}]

StreamEntries == [status : {"idle", "stopped"}, nextRun : Nat \cup {None}, lastRun : Nat \cup {None}]

LEMMA ActionsAre ==
  /\ mapToActionType("running") = "stop" /\ mapToActionType("active") = "pause"
  /\ mapToActionType("paused") = "activate" /\ mapToActionType("inactive") = "run"
  /\ mapToActionType("missing") = "retry"
  BY DEF mapToActionType

LEMMA ScheduleIs ==
  ASSUME NEW schedule \in Schedules, None \notin Nat
  PROVE  /\ schedule.type = "once" => schedule.endDate = None
         /\ schedule.status \in {"idle", "stopped"} /\ schedule.startDate \in Nat
         /\ schedule.endDate # None => schedule.endDate \in Nat
  BY DEF Schedules

\* What a card offers is what the backend accepts, as long as they agree on the job.
THEOREM OffersAreAccepted ==
  ASSUME NEW schedule \in Schedules \cup {None}, NEW stream \in StreamEntries \cup {None}, NEW isRunning \in BOOLEAN,
         NEW now \in Nat, None \notin Nat
  PROVE  OfferedActionIsAccepted(schedule, stream, isRunning, now)
  <1> DEFINE status == mapToStatus(schedule, stream, isRunning, now)
             agreed == (schedule # None /\ stream # None) => schedule.status = stream.status
             ended == status = "missing" /\ schedule.status = "idle" /\ ~CanBeActive(schedule, now)
             accepted == accepts(mapToActionType(status), schedule, isRunning, now)
  <1> SUFFICES ASSUME agreed PROVE accepted \/ ended
    BY DEF OfferedActionIsAccepted
  <1>1. CASE isRunning
    <2>1. status = "running"
      BY <1>1 DEF mapToStatus
    <2>2. accepts("stop", schedule, isRunning, now)
      BY <1>1 DEF accepts
    <2> QED
      BY <2>1, <2>2, ActionsAre
  <1>2. CASE ~isRunning /\ schedule = None
    <2>1. status = "inactive"
      BY <1>2 DEF mapToStatus
    <2>2. accepts("run", schedule, isRunning, now)
      BY <1>2 DEF accepts
    <2> QED
      BY <2>1, <2>2, ActionsAre
  <1>3. CASE ~isRunning /\ schedule # None
    <2>0. schedule \in Schedules
      BY <1>3
    <2>1. /\ schedule.type = "once" => schedule.endDate = None
          /\ schedule.status \in {"idle", "stopped"} /\ schedule.startDate \in Nat
          /\ schedule.endDate # None => schedule.endDate \in Nat
      BY <2>0, ScheduleIs
    <2>2. CASE status = "inactive"
      <3>1. accepts("run", schedule, isRunning, now)
        BY <1>3 DEF accepts
      <3> QED
        BY <2>2, <3>1, ActionsAre
    <2>3. CASE status = "paused"
      <3>1. schedule.status = "stopped" /\ CanBeActive(schedule, now)
        <4>1. CASE schedule.type = "once"
          BY <1>3, <2>1, <2>3, <4>1 DEF mapToStatus, CanBeActive
        <4>2. CASE schedule.type # "once"
          BY <1>3, <2>1, <2>3, <4>2 DEF mapToStatus, CanBeActive
        <4> QED
          BY <4>1, <4>2
      <3>2. accepts("activate", schedule, isRunning, now)
        BY <1>3, <3>1 DEF accepts
      <3> QED
        BY <2>3, <3>2, ActionsAre
    <2>4. CASE status = "active"
      <3>1. schedule.status = "idle"
        <4>1. CASE schedule.type = "once"
          BY <1>3, <2>1, <2>4, <4>1 DEF mapToStatus
        <4>2. CASE schedule.type # "once"
          BY <1>3, <2>1, <2>4, <4>2 DEF mapToStatus, StreamEntries
        <4> QED
          BY <4>1, <4>2
      <3>2. accepts("pause", schedule, isRunning, now)
        BY <1>3, <3>1 DEF accepts
      <3> QED
        BY <2>4, <3>2, ActionsAre
    <2>5. CASE status = "missing"
      <3>1. CASE schedule.status = "stopped" \/ CanBeActive(schedule, now)
        <4>1. accepts("retry", schedule, isRunning, now)
          BY <1>3, <3>1 DEF accepts
        <4> QED
          BY <2>5, <4>1, ActionsAre
      <3>2. CASE ~(schedule.status = "stopped" \/ CanBeActive(schedule, now))
        BY <2>1, <2>5, <3>2
      <3> QED
        BY <3>1, <3>2
    <2>6. status \in {"inactive", "paused", "active", "missing"}
      BY <1>3 DEF mapToStatus
    <2> QED
      BY <2>2, <2>3, <2>4, <2>5, <2>6
  <1> QED
    BY <1>1, <1>2, <1>3

\* The dates of a card and its status say the same.
THEOREM CardsAgree ==
  ASSUME NEW schedule \in Schedules \cup {None}, NEW stream \in StreamEntries \cup {None},
         NEW firstRun, NEW lastRun, NEW now \in Nat, None \notin Nat
  PROVE  CardAgrees(schedule, stream, firstRun, lastRun, now)
  <1> DEFINE status == mapToStatus(schedule, stream, FALSE, now)
             card == mapToCardSchedule(schedule, stream, firstRun, lastRun, now)
  <1>1. ASSUME schedule # None, schedule.type = "once"
        PROVE  (card.nextRun # None) <=> status \in {"active", "paused"}
    <2>1. schedule.startDate \in Nat
      BY <1>1, ScheduleIs
    <2>2. card.nextRun = IF schedule.startDate > now THEN schedule.startDate ELSE None
      BY <1>1 DEF mapToCardSchedule
    <2>3. status = IF schedule.startDate <= now THEN "inactive"
                   ELSE IF schedule.status = "stopped" THEN "paused" ELSE "active"
      BY <1>1 DEF mapToStatus
    <2> HIDE DEF status, card
    <2>4. CASE schedule.startDate > now
      BY <2>1, <2>2, <2>3, <2>4
    <2>5. CASE ~(schedule.startDate > now)
      BY <2>1, <2>2, <2>3, <2>5
    <2> QED
      BY <2>4, <2>5
  <1>2. ASSUME status = "missing"
        PROVE  card.nextRun = None /\ showSkeleton(schedule, FALSE)
    <2>1. schedule # None /\ schedule.type # "once" /\ stream = None
      <3>1. schedule # None /\ schedule.type # "once"
        BY <1>2 DEF mapToStatus
      <3> QED
        BY <1>2, <3>1 DEF mapToStatus
    <2>2. card.nextRun = None
      BY <2>1 DEF mapToCardSchedule
    <2> QED
      BY <2>1, <2>2 DEF showSkeleton
  <1> QED
    BY <1>1, <1>2 DEF CardAgrees

LEMMA CardsAre ==
  ASSUME NEW card \in Cards
  PROVE  /\ card.schedule \in Schedules \cup {None} /\ card.stream \in StreamEntries \cup {None}
         /\ card.isRunning \in BOOLEAN
  <1> DEFINE ss == {None} \cup [type : {"once"}, status : {"idle", "stopped"}, startDate : {4, 5, 6}, endDate : {None}]
                   \cup [type : {"daily"}, status : {"idle", "stopped"}, startDate : {4, 5}, endDate : {None, 5, 7}]
             ts == {None} \cup [status : {"idle", "stopped"}, nextRun : {None, 6}, lastRun : {None, 4}]
  <1>1. card \in [schedule : ss, stream : ts, isRunning : BOOLEAN]
    BY DEF Cards
  <1>2. ss \subseteq Schedules \cup {None}
    BY DEF Schedules
  <1>3. ts \subseteq StreamEntries \cup {None}
    BY DEF StreamEntries
  <1> HIDE DEF ss, ts
  <1> QED
    BY <1>1, <1>2, <1>3

-----------------------------------------------------------------------------
\* The run: every state of MCPure is an input of its topic.

\* What the pages show, offer and send is what the backend has and accepts: every input of
\* the run is one the theorems speak of.
THEOREM PagesSound == PureSpec => []PagesAreFaithful
  <1>1. None \notin Int \cup Seq({"k"}) /\ None \notin FormSchedules \cup {InvalidTime} /\ None \notin Nat /\ None \notin BOOLEAN
    BY NoneIsNoValue, NoneIsNoTrace
  <1>2. InputTyped => ToolsOfDialog
    <2> SUFFICES ASSUME InputTyped, topic = "tool" PROVE RefusedOnlyIfNegative(ToolAfter(data))
      BY DEF ToolsOfDialog
    <2>1. Alphabet["tool"] = ToolEvents
      BY DEF Alphabet
    <2>2. data \in Seq(ToolEvents)
      BY <2>1 DEF InputTyped
    <2> QED
      BY <1>1, <2>2, DialogsAre, DialogToolsAreJudged
  <1>3. InputTyped => ScheduleOfForm /\ IdsOfTools
    <2> SUFFICES ASSUME InputTyped, topic = "form"
                 PROVE  ScheduleIsWhole(FormAfter(data)) /\ IdsAreStable(FormAfter(data))
      BY DEF ScheduleOfForm, IdsOfTools
    <2>1. Alphabet["form"] = FormEvents
      BY DEF Alphabet
    <2>2. data \in Seq(FormEvents)
      BY <2>1 DEF InputTyped
    <2>3. FormAfter(data) \in Forms
      BY <2>2, FormsAre
    <2> QED
      BY <1>1, <2>3, SchedulesAreWhole, IdsStay
  <1>4. InputTyped => OfferOfRegistration
    <2> SUFFICES ASSUME InputTyped, topic = "registration" PROVE ValidRegistrationIsOffered(data)
      BY DEF OfferOfRegistration
    <2>1. Alphabet["registration"] = RegistrationEvents
      BY DEF Alphabet
    <2>2. data \in Seq(RegistrationEventsOf(Passwords))
      <3>1. RegistrationEvents = RegistrationEventsOf(Passwords)
        BY DEF RegistrationEvents, RegistrationEventsOf
      <3> QED
        BY <2>1, <3>1 DEF InputTyped
    <2>3. ArePasswords(Passwords)
      BY DEF ArePasswords, Passwords, NoPassword, Requirements
    <2> QED
      BY <1>1, <2>2, <2>3, RegistrationsAreOffered
  <1>5. InputTyped => ExecutionsOfEvents
    <2> SUFFICES ASSUME InputTyped, topic = "events" PROVE EventsAreMerged(data)
      BY DEF ExecutionsOfEvents
    <2>1. Alphabet["events"] = StreamEvents
      BY DEF Alphabet
    <2>2. StreamEvents = EventsOver({"e1", "e2"}, {"t1", "t2"}, {"a", "b"})
      BY DEF StreamEvents, EventsOver
    <2>3. data \in Seq(EventsOver({"e1", "e2"}, {"t1", "t2"}, {"a", "b"}))
      BY <2>1, <2>2 DEF InputTyped
    <2> QED
      BY <2>3, RunsAreMerged
  <1>6. InputTyped => ActionOfCard /\ DatesOfCard
    <2> SUFFICES ASSUME InputTyped, topic = "card", data # <<>>
                 PROVE  /\ OfferedActionIsAccepted(data[1].schedule, data[1].stream, data[1].isRunning, 5)
                        /\ CardAgrees(data[1].schedule, data[1].stream, None, 4, 5)
      BY DEF ActionOfCard, DatesOfCard
    <2>1. Alphabet["card"] = Cards
      BY DEF Alphabet
    <2>2. data[1] \in Cards
      BY <2>1, FirstInput
    <2>3. /\ data[1].schedule \in Schedules \cup {None} /\ data[1].stream \in StreamEntries \cup {None}
          /\ data[1].isRunning \in BOOLEAN
      BY <2>2, CardsAre
    <2> QED
      BY <1>1, <2>3, OffersAreAccepted, CardsAgree
  <1>7. InputTyped => PagesAreFaithful
    BY <1>2, <1>3, <1>4, <1>5, <1>6 DEF PagesAreFaithful
  <1> QED
    BY <1>7, InputsTyped, PTL

=============================================================================
